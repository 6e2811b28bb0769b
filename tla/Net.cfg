SPECIFICATION NetSpec
CONSTANTS
    Conns = {c1, c2}
    Channels = {x, y}
    MaxBuffer = 1
    MaxCommands = 2
    MaxSubs = 2
INVARIANT HubAgrees
INVARIANT HubOneWriter
INVARIANT HubAckArrives
INVARIANT RespCutsInvisible
INVARIANT RespNoWedge
CHECK_DEADLOCK FALSE
