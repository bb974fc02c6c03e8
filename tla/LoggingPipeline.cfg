SPECIFICATION FairPipelineSpec
CONSTANTS
  Buffers <- MCBuffers
  NoBuffer = 0
  BufSize = 1
  QueueLimit = 0
  NoticeLen = 1
  Lens = {1}
  MaxCalls = 3
  Dates = {1, 2}
  MaxSeq = 3
  SizeLimit = 0
  Retentions = {0, 1}
  MaxChunks = 3
  MaxRestarts = 1
  MaxFailures = 1
  MaxOthers = 0
INVARIANTS FilesReadAsLog ShutdownIsComplete
PROPERTIES LossExplained AcceptedReachesDisk
CHECK_DEADLOCK FALSE
