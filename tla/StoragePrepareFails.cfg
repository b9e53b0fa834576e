SPECIFICATION Spec
CONSTANTS
  Streams = {1}
  RecordSize = 5
  MaxBlockStreams = 2
  MAX_BLOCKS_COUNT = 64
  RecoverBlockSize = 2
  MaxForceLoops = 1
  Environments <- PrepareFailsEnvironments
INVARIANT NothingAckedIsLost
CHECK_DEADLOCK FALSE
