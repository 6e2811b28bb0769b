SPECIFICATION FairSpec
CONSTANTS
    r1 = r1
    r2 = r2
    Records = {r1, r2}
    ChannelSize = 2
    BatchSize = 2
    NanosPerSecond = 2
    MaxLSN = 2
    MaxTime = 4
    Crashes = {"kill"}
    DiskFaults = TRUE
    DirEntryNeedsSync = FALSE
INVARIANT FramesMatchSends
PROPERTY EventuallySynced
CHECK_DEADLOCK FALSE
