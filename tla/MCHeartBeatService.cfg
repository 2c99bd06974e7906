CONSTANTS
  Element = {e1}
  Node = {n1}
  NULL = NULL
  Timeouts = {1}
  Limits = {0}
  MonotoneClock = TRUE
  MaxTime = 3
  MaxCount = 2
  Ticks = 1
  MaxQueue = 2
  MaxStarts = 2
SPECIFICATION FairSpec
CHECK_DEADLOCK FALSE
INVARIANTS TimerChain StoppedIsEmpty NoDanglingVector WaitersAreAnswered
PROPERTIES UsesManager StopReturns GetAllReturns SilentIsExpelled
