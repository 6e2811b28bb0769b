SPECIFICATION CommandsSpec
CONSTANTS
    k1 = k1
    v1 = v1
    c1 = c1
    None = None
    NoConn = NoConn
    Conns = {c1, c2}
    Commands = {"AUTH", "SET", "SUBSCRIBE", "MULTI", "EXEC"}
    MaxCommands = 5
    AuthEnabled = TRUE
    Restored = FALSE
INVARIANT TxDoNotMix
INVARIANT TxArrayComplete
PROPERTY TxRunsWhatWasSent
PROPERTY ExpiredKeysLeave
CHECK_DEADLOCK FALSE
