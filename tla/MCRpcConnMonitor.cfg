CONSTANTS
  Element = {c1, c2}
  Node = {n1, n2}
  NULL = NULL
  Timeouts = {1}
  Limits = {1}
  MonotoneClock = TRUE
  MaxTime = 1
  MaxCount = 3
  Ticks = 1
  MaxQueue = 2
  MaxStarts = 1
  Settings <- EitherSetting
  MaxClosings = 2
SPECIFICATION MonFairSpec
CHECK_DEADLOCK FALSE
INVARIANTS WatchesTheLiving LimitIsEnforced
PROPERTY CloseAllCloses
