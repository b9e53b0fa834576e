SPECIFICATION Spec
CONSTANTS
  Epochs = {1}
  Streams = {1}
  TrimRecordSentinel = 9
  Callers = {1, 2}
  Align = 2
  MaxBytesInBatch = 2
  MaxInflightUploadCount = 2
  MaxUnflushedBytes = 2
  MaxAppends <- ThreeEach
  RecoveryModeEpochs = {}
  OrderedAcquire = TRUE
  ZombieWritesLand = FALSE
INVARIANTS TypeOK NoHoleBelowConfirm BulksAreContiguous AckedIsDurable
CHECK_DEADLOCK FALSE
PROPERTY ImplementsWal
