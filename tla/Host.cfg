SPECIFICATION HostSpec
CONSTANTS
  RecordSize = 5
  Capacity = 30
  BlockMaxSize = 25
  BlockMaxStreams = 2
  MAX_BLOCKS_COUNT = 4
  MERGE_BLOCK_THRESHOLD = 2
  SizeModulus = 1024
  Streams = {1, 2}
  StreamIds = {1, 2}
  Threads = {1, 2, 3}
  ClientPlans <- MCClientPlans
  CallPlans <- HostCallPlans
  MaxInflight = 2
  MAX_WAITING_LOAD_TASK_COUNT = 1
  MAX_INFLIGHT_LOAD_BYTES = 2
CHECK_DEADLOCK FALSE
INVARIANTS
  CacheIsContinuous
  ReadsAreRanges
  GapsAreLosses
  NothingWaitsIdly
  ReplaysResolve
  
  FetchesAreNotTrimmed
  ClosedKeepsAnswered
  ShutdownClosesAll
PROPERTIES
  CallsReturn
