CONSTANTS
  Element = {e1, e2, e3}
  Node = {n1, n2, n3}
  NULL = NULL
  Timeouts = {2}
  Limits = {0, 1, 2}
  MonotoneClock = TRUE
  MaxTime = 4
  MaxCount = 5
SYMMETRY Perms
SPECIFICATION MgrSpec
CHECK_DEADLOCK FALSE
INVARIANTS MgrTypeOK StoreAgrees CountIsSafe LimitRespected SortedByAge
PROPERTY ImplementsRegistry
