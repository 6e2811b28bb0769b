SPECIFICATION PartsSpec
CONSTANTS
    Threads = {t1, t2}
    Members = {1, 2}
    Scores = {1, 2}
    MaxCalls = 4
INVARIANT SetsLinear
INVARIANT TreeRangesExact
INVARIANT GraphLinksSound
INVARIANT GraphSmallIsExact
CHECK_DEADLOCK FALSE
