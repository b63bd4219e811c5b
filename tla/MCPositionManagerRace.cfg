SPECIFICATION Spec
CONSTANTS
  SpotBtc = 10
  InitialPerp = 8
  MinOrder = 0
  HedgeRatios <- OneRatio
  FundingRegimes <- OnlyNormal
  Gains <- OneGain
  Rehedgers <- LoopAndApi
  Durable = TRUE
  StorageMayFail = FALSE
  MaxInputs = 2
  MaxTakes = 0
  MaxRestarts = 0
  MaxFailures = 0
PROPERTY HedgeReachesTarget
CHECK_DEADLOCK FALSE
