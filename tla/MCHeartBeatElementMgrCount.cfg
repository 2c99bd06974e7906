CONSTANTS
  Element = {e1, e2}
  Node = {n1, n2}
  NULL = NULL
  Timeouts = {2}
  Limits = {1, 2}
  MonotoneClock = TRUE
  MaxTime = 3
  MaxCount = 4
SYMMETRY Perms
SPECIFICATION MgrSpec
CHECK_DEADLOCK FALSE
INVARIANT CountIsListSize
