SPECIFICATION FairSpec
CONSTANTS
  SpotBtc = 10
  InitialPerp = 8
  MinOrder = 0
  HedgeRatios <- OneRatio
  FundingRegimes <- MCRegimes
  Gains <- OneGain
  Rehedgers <- AllRehedgers
  Durable = TRUE
  StorageMayFail = TRUE
  MaxInputs = 3
  MaxTakes = 1
  MaxRestarts = 1
  MaxFailures = 1
INVARIANT TypeOK
INVARIANT SavedWhenQuiet
PROPERTY RehedgeReachesNeutral
PROPERTY EmergencyCloses
PROPERTY HedgeRefreshed
CHECK_DEADLOCK FALSE
