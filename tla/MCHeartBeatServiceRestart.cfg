CONSTANTS
  Element = {e1}
  Node = {n1}
  NULL = NULL
  Timeouts = {1}
  Limits = {}
  MonotoneClock = TRUE
  MaxTime = 3
  MaxCount = 2
  Ticks = 2
  MaxQueue = 2
  MaxStarts = 2
SYMMETRY Perms
SPECIFICATION Spec
CHECK_DEADLOCK FALSE
INVARIANT StartedMeansRunning
