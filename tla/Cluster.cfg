SPECIFICATION NodeSpec
CONSTANTS
    n1 = n1
    n2 = n2
    n3 = n3
    None = None
    CopyKeys = {k1}
    CopyValues = {1}
    Threads = {t1, t2}
    MaxWrites = 2
    MaxBreaks = 1
    SlotKeys = {k1, k2}
    SlotValues = {1, 2}
    MaxSets = 3
    MaxFailures = 1
    NoClient = NoClient
    Clients = {c1, c2, c3}
    MaxConnections = 1
    Exempt = {c1}
    MaxData = 1
INVARIANT SlotsRight
INVARIANT NoLostWakeUp
INVARIANT QuietAfterStop
 
PROPERTY NodesDiscover
INVARIANT ReplicaSame
PROPERTY ReplicaConverges
INVARIANT MigrateKeeps
CHECK_DEADLOCK FALSE
