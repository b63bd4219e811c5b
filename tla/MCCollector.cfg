SPECIFICATION FairSpec
CONSTANTS
  Credentials = TRUE
  MaxDelay = 2
  MaxClock <- MCClock
INVARIANT TypeOK
PROPERTY PositionsNeverGoBack
PROPERTY PositionsReported
PROPERTY SocketsReconnect
PROPERTY StopEndsTasks
CHECK_DEADLOCK FALSE
