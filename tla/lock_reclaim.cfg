CONSTANTS
  Instance = {b1, b2}
  NoOne = NoOne
  LockStale = 3
  HeartbeatInterval = 1
  MaxPause = 4
  OverlapStarts = FALSE
  AtomicRename = TRUE
  DiskFails = FALSE
SPECIFICATION Spec
PROPERTIES LoserLeavesLock
