CONSTANTS
  PoolSizes = {1}
  MaxStarts = 2
  MaxConns = 1
  MaxListens = 1
  MaxJobs = 1
SPECIFICATION Spec
CHECK_DEADLOCK FALSE
INVARIANT RunsUntilStopped
