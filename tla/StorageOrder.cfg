SPECIFICATION Spec
CONSTANTS
  Streams = {s1, s2}
  RecordSize = 5
  MaxBlockStreams = 2
  MAX_BLOCKS_COUNT = 64
  RecoverBlockSize = 2
  MaxForceLoops = 1
  Environments <- OrderEnvironments
SYMMETRY StreamSymmetry
INVARIANT ConfirmedIsReadable
PROPERTY WalInStreamOrder
CHECK_DEADLOCK FALSE
