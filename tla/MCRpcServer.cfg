CONSTANTS
  PoolSizes = {1}
  MaxStarts = 2
  MaxConns = 3
  MaxListens = 2
  MaxJobs = 1
SPECIFICATION FairSpec
CHECK_DEADLOCK FALSE
INVARIANTS AcceptChain ServedByOneThread
PROPERTIES PoolStopReturns PostedIsRun
