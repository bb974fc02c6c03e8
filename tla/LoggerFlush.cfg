SPECIFICATION Spec
CONSTANTS
  Buffers <- MCBuffers
  NoBuffer = 0
  BufSize = 2
  QueueLimit = 1
  NoticeLen = 1
  Lens = {1, 2}
  MaxCalls = 2
PROPERTY FlushReachesFile
CHECK_DEADLOCK FALSE
