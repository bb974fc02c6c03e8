SPECIFICATION FairSpec
CONSTANTS
  Buffers <- MCBuffers
  NoBuffer = 0
  BufSize = 2
  QueueLimit = 1
  NoticeLen = 1
  Lens = {1, 2}
  MaxCalls = 6
INVARIANTS StreamAccounting DestructorWritesAll BuffersDistinct MemoryBounded
PROPERTIES LogSpec AcceptedIsWritten DestructorEnds
CHECK_DEADLOCK FALSE
