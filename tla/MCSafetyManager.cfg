SPECIFICATION FairSpec
CONSTANTS
  Leverage = 25
  LossLimit = 2
  VolatilityLimit = 1
  ValueLimit = 1
  RateLimit = 1
  HaltOnBreaker = TRUE
  Positions <- MCPositions
  Pnls <- MCPnls
  LtvPercents <- MCLtvPercents
  ManualActions <- MCManualActions
  MaxInputs = 1
  MaxFailures = 2
INVARIANT TypeOK
INVARIANT BreakerHalts
PROPERTY SilenceAnswered
PROPERTY LimitEnforced
CHECK_DEADLOCK FALSE
