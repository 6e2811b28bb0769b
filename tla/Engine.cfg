SPECIFICATION PartsSpec
CONSTANTS
    Parts = {"one", "two", "strings"}
    k1 = k1
    k2 = k2
    v1 = v1
    v2 = v2
    c1 = c1
    c2 = c2
    None = None
    Values = {v1, v2}
    Keys = {k1, k2}
    Clients = {c1, c2}
    OwnKeys <- KeyEach
    Ops = {"VSIM.ADD", "VSIM.DEL", "ZADD", "ZREM", "SET", "SET EX", "DEL"}
    Evicts = FALSE
    Compacts = TRUE
    Restarts = TRUE
    MaxLog = 4
    MaxNow = 2
INVARIANT ShutdownLosesNothing
INVARIANT CrashLosesSuffix
CHECK_DEADLOCK FALSE
