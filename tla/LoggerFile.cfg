SPECIFICATION Spec
CONSTANTS
  Dates = {1, 2}
  MaxSeq = 2
  SizeLimit = 1
  Retentions = {0, 2}
  MaxChunks = 5
  MaxRestarts = 1
  MaxFailures = 1
  MaxOthers = 1
INVARIANTS NameOrder RetentionBound
PROPERTY OnlyRetentionLoses
CHECK_DEADLOCK FALSE
