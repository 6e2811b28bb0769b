SPECIFICATION Spec
CONSTANTS
    r1 = r1
    r2 = r2
    Records = {r1, r2}
    ChannelSize = 2
    BatchSize = 2
    NanosPerSecond = 4
    MaxLSN = 3
    MaxTime = 4
    Crashes = {"power"}
    DiskFaults = FALSE
    DirEntryNeedsSync = FALSE
SYMMETRY RecordSymmetry
INVARIANTS
    TypeOK
    ReplayOrder
    NextLsnFresh
    DeletedAreCovered
    NoHole
    SyncedSurvive
    GracefulLosesNothing
CHECK_DEADLOCK FALSE
