CONSTANTS
  Request = {r1}
  Bridge = {b1, b2}
  NoRequest = NoRequest
  Timeout = 2
  Lag = 1
  Skew = 1
  StaleProcessing = 3
  StaleCommand = 5
  StaleResult = 7
  StaleFailed = 9
  SeenCap = 2
  Halts = TRUE
  Replays = FALSE
  DiskFails = TRUE
SPECIFICATION FairSpec
CHECK_DEADLOCK FALSE
INVARIANTS TypeOK ExchangeInv NeverLost
PROPERTIES Promise CallReturns FilesGo FailedKept
