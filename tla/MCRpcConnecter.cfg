CONSTANTS
  m_use_monitor = TRUE
  MaxReads = 2
  MaxBatch = 1
  MaxCalls = 2
  MaxStops = 1
SPECIFICATION FairSpec
CHECK_DEADLOCK FALSE
INVARIANTS WriteQueueSound ReadChain MonitorAgrees
PROPERTIES PeerLossIsReported ImplementsChannel
