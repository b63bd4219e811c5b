SPECIFICATION FairSpec
CONSTANTS
  Quantities <- MCQuantities
  MaxOrderSize = 2
  MaxDailyVolume = 3
  MaxPollRecords = 2
  MaxTrades = 3
  MaxStarts = 2
  MaxDays = 1
  MaxPolls = 1
INVARIANT TypeOK
PROPERTY OrderOnceImplemented
INVARIANT VolumeWithinLimit
INVARIANT CountersMatchOrders
PROPERTY HeadTradeTaken
CHECK_DEADLOCK FALSE
