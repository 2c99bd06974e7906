SPECIFICATION FairSpec
CONSTANTS
  QUIT = QUIT
  TERM = TERM
  USR = USR
  Signal <- MCSignal
  SIGQUIT = QUIT
  DefaultQuits <- MCDefault
  VectorQuits <- MCVectors
  MaxStarts = 2
  MaxSends = 2
INVARIANT WaiterSurvives
PROPERTY TerminateEndsLoop
CHECK_DEADLOCK FALSE
