SPECIFICATION CommitsSpec
CONSTANTS
    Streams = {1, 2}
    Compactors = {"scheduler"}
    PassLevels = {"CleanupV1", "MinorV1", "MajorV1"}
    Deletable = {2}
    CacheSize = 3
    SplitSize = 1
    MaxStreamNum = 2
    MaxStreamObjectNum = 2
    IndexGroupSize = 3
    MinorSize = 3
    MinorV1Size = 2
    MajorSize = 4
    MaxGroupCount = 3
    MaxDirty = 0
    MaxObjectNum = 2
    MaxUpload = 1
    MaxEnd <- MaxEndTwo
    MaxObjects = 5
    IndexStreams = {1, 2}
    CompactNum = 1
    MaxIndexSize = 4
    MaxIds = 4
    IndexPlans <- MCIndexPlans
INVARIANTS
    CommittedIsReadable
    SlicesAreDisjoint
    NothingIsLeaked
    IndexIsSound
    HintsFindLiveObjects
