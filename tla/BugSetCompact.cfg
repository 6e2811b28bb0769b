SPECIFICATION AllSpec
CONSTANTS
    Parts = {"all"}
    k1 = k1
    k2 = k2
    v1 = v1
    v2 = v2
    c1 = c1
    c2 = c2
    None = None
    Values = {v1, v2}
    Keys = {k1}
    Clients = {c1}
    OwnKeys <- KeyEach
    Ops = {"SET"}
    Evicts = FALSE
    Compacts = TRUE
    Restarts = FALSE
    MaxLog = 2
    MaxNow = 0
INVARIANT ShutdownLosesNothing
CHECK_DEADLOCK FALSE
