SPECIFICATION Spec
CONSTANTS
  Quantities <- MCQuantities
  MaxOrderSize = 2
  MaxDailyVolume = 3
  MaxPollRecords = 2
  MaxTrades = 3
  MaxStarts = 2
  MaxDays = 1
  MaxPolls = 1
INVARIANT NoTradeSkipped
CHECK_DEADLOCK FALSE
