SPECIFICATION FairSpec
CONSTANTS
  Rates <- MCRates
  Levels <- MCLevels
  MaxRates = 3
  MaxPeriods = 1
  MaxRestarts = 1
  MaxFailures = 2
INVARIANT TypeOK
INVARIANT HigherFundingSmaller
PROPERTY RegimeSettles
CHECK_DEADLOCK FALSE
