SPECIFICATION Spec
CONSTANTS
    Streams = {1}
    Compactors = {"scheduler", "host"}
    PassLevels = {"MinorV1"}
    Deletable = {}
    CacheSize = 3
    SplitSize = 1
    MaxStreamNum = 2
    MaxStreamObjectNum = 2
    IndexGroupSize = 3
    MinorSize = 3
    MinorV1Size = 3
    MajorSize = 4
    MaxGroupCount = 3
    MaxDirty = 0
    MaxObjectNum = 2
    MaxUpload = 1
    MaxEnd <- MaxEndThree
    MaxObjects = 6
INVARIANT
    SlicesAreContinuous
