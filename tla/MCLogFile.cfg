CONSTANTS
  Caller = {c1, c2}
  Levels = {0, 1}
  Lengths = {1, 3}
  m_maxline = 2
  m_maxsize = 3
  DiskFails = TRUE
  MaxLines = 3
  MaxDay = 2
  MaxOpens = 2
  MaxRestarts = 1
SPECIFICATION FairSpec
CHECK_DEADLOCK FALSE
INVARIANTS WrittenOnceInOrder FilesBounded ClosedIsFlushed
PROPERTIES CloseReturns ImplementsJournal
