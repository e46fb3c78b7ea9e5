CONSTANTS
  Instance = {b1, b2}
  NoOne = NoOne
  LockStale = 4
  HeartbeatInterval = 3
  MaxPause = 1
  OverlapStarts = TRUE
  AtomicRename = FALSE
  DiskFails = TRUE
SPECIFICATION FairSpec
PROPERTIES StartRaceResolved
