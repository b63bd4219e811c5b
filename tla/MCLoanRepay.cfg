SPECIFICATION FairSpec
CONSTANTS
  Principal = 7
  HourlyPercent = 10
  MinPayment = 2
  AllocationPercent = 50
  ConfigPriority = "interest_first"
  AutoRepayEnabled = TRUE
  ReserveDeploymentEnabled = TRUE
  AlertOnHighLtv = TRUE
  AlertLtvPercent = 70
  InitialTracked = 1
  TierOne = 0
  TierTwo = 1
  AllReserves = 1
  MinDeployment = 1
  Profits <- RepayProfits
  BtcValues <- RepayBtcValues
  TreasuryFigures <- RepayFigures
  ManualAmounts <- RepayManual
  SendsMayFail = TRUE
  MaxHours = 1
  MaxProfitEvents = 2
  MaxManual = 1
  MaxUnread = 1
INVARIANT TypeOK
INVARIANT LoanBalanced
PROPERTY LoneRepaymentUsedUp
PROPERTY RepaymentsDrain
PROPERTY PaidOffAnnounced
PROPERTY ScalingKeepsUp
CHECK_DEADLOCK FALSE
