SPECIFICATION Spec
CONSTANTS
  Index <- MCIndex
  Plans <- MCPlans
  Header = 1
  BlockIds = {1, 2, 3, 4, 5}
  Consumers = {1, 2}
  GetObjectStep = 1
  MaxIndexed = 1
  ReadaheadSizes = {2}
  ReaderIds = {1, 2}
INVARIANTS ReadsReturnTheRange ReadsSurviveCompaction PermitsAreHeldByBlocks WindowsKeepBlocks ReadsAreNeverStuck
CHECK_DEADLOCK FALSE
