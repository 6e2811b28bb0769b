SPECIFICATION FairSpec
CONSTANTS
    k1 = k1
    k2 = k2
    v1 = v1
    v2 = v2
    None = None
    Values = {v1, v2}
    Keys = {k1, k2}
    DeltaShards = 2
    ShardOf <- TwoShards
    MaxSize = 2
    Fanout = 2
    MergeBatchMax = 2
    MaxLevels = 3
    BacklogCap = 1
    Growth = 2
    Filters <- NoSearches
    Strict = TRUE
    MaxCalls = 3
    Emptied = FALSE
    Snapshots = TRUE
PROPERTY SnapshotCovers
PROPERTY FlushReturns
PROPERTY FullIsFlushed
CHECK_DEADLOCK FALSE
