SPECIFICATION FairSpec
CONSTANTS
  InitialReserves = 200
  MinReserveBalance = 20
  MaxDeploymentPercent = 90
  EmergencyKeep = 2
  MinReserveAddition = 2
  TargetReservePercent = 20
  LowReserveThreshold = 40
  EmergencyDeploymentEnabled = TRUE
  TierOne = 60
  TierTwo = 160
  RequestAmounts <- MCAmounts
  LtvPercents <- MCLtvPercents
  Profits <- MCProfits
  ManualActions <- MovingActions
  MaxRequests = 3
  MaxProfits = 1
  MaxRestarts = 1
INVARIANT TypeOK
INVARIANT LedgerBalanced
INVARIANT CollateralAnnounced
INVARIANT ReservesBacked
PROPERTY RequestsKeepFloor
PROPERTY DeploymentsDrain
CHECK_DEADLOCK FALSE
