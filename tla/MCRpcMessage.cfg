CONSTANTS
  HeadSize = 2
  BodySizes = {0, 1, 2}
  BUFFER_SIZE = 4
  MaxFrames = 3
  Cmds = {1, 2, 3}
  m_calls = {1, 3}
  cmd_filter = {2}
  LastCmd = 3
  DataSizes = {0, 2}
  ZLIB_SIZE_LIMIT = 2
  CHUNK = 2
  ZSizes = {1, 2}
  FlushMarker = 1
SPECIFICATION MSpec
CHECK_DEADLOCK FALSE
INVARIANTS DeliveredIntact NothingWithheld PlainIsServed HeadDescribesBody
PROPERTY OnReadReturns
