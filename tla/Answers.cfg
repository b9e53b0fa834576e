SPECIFICATION AnswersSpec
CONSTANTS
  Epochs = {1}
  Streams = {1}
  TrimRecordSentinel = 9
  Callers = {}
  Align = 2
  MaxBytesInBatch = 2
  MaxInflightUploadCount = 1
  MaxUnflushedBytes = 4
  MaxAppends <- ThreeEach
  RecoveryModeEpochs = {}
  OrderedAcquire = TRUE
  ZombieWritesLand = FALSE
  Tasks = {1, 2, 3}
  AccessPlans <- MCAccessPlans
  MAX_TOKEN_PART_SIZE = 2
  MaxReads = 2
  MaxWrites = 1
INVARIANTS
  NoIdleTokens
  SlowStoreIsBackpressure
  ObjectsAreWhole
PROPERTIES
  AppendsAreAnswered
  HigherTierFirst
  AccessesReturn
CHECK_DEADLOCK FALSE
