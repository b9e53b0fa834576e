SPECIFICATION Spec
CONSTANTS
  Epochs = {1, 2}
  Streams = {1}
  TrimRecordSentinel = 9
  Callers = {1}
  Align = 2
  MaxBytesInBatch = 1
  MaxInflightUploadCount = 2
  MaxUnflushedBytes = 2
  MaxAppends <- TwoThenOne
  RecoveryModeEpochs = {2}
  OrderedAcquire = TRUE
  ZombieWritesLand = TRUE
INVARIANTS RecoveredComplete RecoveryWouldYieldAcked
PROPERTY TrimmedStaysTrimmed
CHECK_DEADLOCK FALSE
