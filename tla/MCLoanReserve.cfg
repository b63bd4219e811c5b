SPECIFICATION FairSpec
CONSTANTS
  Principal = 162
  HourlyPercent = 1
  MinPayment = 1
  AllocationPercent = 50
  ConfigPriority = "interest_first"
  AutoRepayEnabled = TRUE
  ReserveDeploymentEnabled = TRUE
  AlertOnHighLtv = TRUE
  AlertLtvPercent = 70
  InitialTracked = 100
  TierOne = 30
  TierTwo = 80
  AllReserves = 100
  MinDeployment = 1
  Profits <- NoInput
  BtcValues <- CriticalBtcValue
  TreasuryFigures <- AnyFigure
  ManualAmounts <- NoInput
  SendsMayFail = TRUE
  MaxHours = 0
  MaxProfitEvents = 0
  MaxManual = 0
  MaxUnread = 2
  InitialReserves = 100
  MinReserveBalance = 10
  MaxDeploymentPercent = 90
  EmergencyKeep = 1
  MinReserveAddition = 1
  TargetReservePercent = 20
  LowReserveThreshold = 20
  EmergencyDeploymentEnabled = TRUE
  RequestAmounts <- AnyAmount
  LtvPercents <- AnyLtv
  ManualActions <- NoInput
  MaxRequests = 4
  MaxProfits = 0
  MaxRestarts = 0
  MaxChecks = 2
PROPERTY LoanManagerImplemented
PROPERTY ReserveManagerImplemented
PROPERTY RequestsProcessed
CHECK_DEADLOCK FALSE
