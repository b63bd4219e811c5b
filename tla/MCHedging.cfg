SPECIFICATION Spec
CONSTANTS
  Deltas <- MCDeltas
  Balances <- MCBalances
  FundingContexts <- MCFunding
  CautionPercent = 65
  DangerPercent = 80
  CriticalPercent = 90
  NormalTarget = 0
  CautionTarget = 100
  DangerTarget = 0
  CriticalTarget <- MCCriticalTarget
  MinDifference = 100
  MinOrder = 100
  MaxOrder = 300
  ExecutorLimit = 200
  Deployments <- OneExecutor
  Readers <- AllReaders
  Forms <- MessageForms
  MaxBehind = 1
  MaxUncommitted = 3
  MaxDisturbances = 2
INVARIANT TypeOK
PROPERTY OrdersApproachTarget
CHECK_DEADLOCK FALSE
