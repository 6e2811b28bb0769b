SPECIFICATION Spec
CONSTANTS
    k1 = k1
    k2 = k2
    v1 = v1
    v2 = v2
    None = None
    Values = {v1, v2}
    Keys = {k1, k2}
    DeltaShards = 1
    ShardOf <- OneShard
    MaxSize = 1
    Fanout = 2
    MergeBatchMax = 2
    MaxLevels = 3
    BacklogCap = 2
    Growth = 1
    Filters <- SomePass
    Strict = TRUE
    MaxCalls = 4
    Emptied = FALSE
    Snapshots = FALSE
SYMMETRY KeySymmetry
PROPERTY IsMap
INVARIANT ReadersAgree
PROPERTY SearchFinds
CHECK_DEADLOCK FALSE
