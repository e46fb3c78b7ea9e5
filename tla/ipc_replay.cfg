CONSTANTS
  Request = {r1, r2}
  Bridge = {b1}
  NoRequest = NoRequest
  Timeout = 1
  Lag = 0
  Skew = 1
  StaleProcessing = 2
  StaleCommand = 2
  StaleResult = 2
  StaleFailed = 2
  SeenCap = 2
  Halts = FALSE
  Replays = TRUE
  DiskFails = FALSE
SPECIFICATION Spec
CHECK_DEADLOCK FALSE
INVARIANTS AtMostOnce
SYMMETRY Symmetry
