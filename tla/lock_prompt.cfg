CONSTANTS
  Instance = {b1, b2, b3}
  NoOne = NoOne
  LockStale = 5
  HeartbeatInterval = 1
  MaxPause = 1
  OverlapStarts = FALSE
  AtomicRename = TRUE
  DiskFails = FALSE
SPECIFICATION Spec
INVARIANTS TypeOK MutualExclusion LiveBridgeVisible NoOrphanAfterStop
SYMMETRY Symmetry
