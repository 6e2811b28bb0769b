------------------------------ MODULE MCEngine ------------------------------
(***************************************************************************)
(* Engine for TLC.  A behaviour of Engine is too long to be checked with   *)
(* every command at once: a part is what it does with some of them, and    *)
(* the first state chooses one.                                            *)
(***************************************************************************)
EXTENDS Engine

CONSTANTS
    k1, k2, v1, v2, c1, c2,
    Parts    \* which of the parts are run

VARIABLE part

\* Each client keeps to a key of its own.
KeyEach == [c \in Clients |-> IF c = c1 THEN {k1} ELSE {k2}]

\* Every client may use every key.
SharedKeys == [c \in Clients |-> Keys]

HandlersNext == \E a \in Actors : Log(a) \/ Store(a)
FlusherNext == (\E n \in 1..Len(log) : Reserve(n)) \/ WriteBatch \/ Sync
CompactionNext ==
    \/ Rotate \/ LastLSN \/ SnapshotIterate \/ RenameSnapshot
    \/ SetSnapshotWatermark \/ SaveBinary \/ RenameGraph \/ CleanupOldWALs

\* One client's vector, compactions and restarts.
OneNext ==
    \/ Len(log) < 3 /\ \E op \in {"VSIM.ADD", "VSIM.DEL"}, v \in {v1, None} : Begin(c1, op, k1, v, 0)
    \/ HandlersNext
    \/ FlusherNext
    \/ CompactionNext
    \/ \E n \in 0..Len(log) : Restart(n)

\* Vectors and sorted sets of two clients while a compaction runs.
TwoNext ==
    \/ Len(log) < 2 /\ \/ \E op \in {"VSIM.ADD", "ZADD"} : Begin(c1, op, k1, v1, 0)
                       \/ \E op \in {"ZADD", "ZREM"}, v \in {v1, None} : Begin(c2, op, k2, v, 0)
    \/ HandlersNext
    \/ FlusherNext
    \/ CompactionNext

\* Strings and deadlines while the clock runs.
StringsNext ==
    \/ \E op \in {"SET", "SET EX", "DEL"}, v \in {v1, v2, None}, at \in Deadline : Begin(c1, op, k1, v, at)
    \/ HandlersNext
    \/ FlusherNext
    \/ Tick

PartsNext ==
    /\ UNCHANGED part
    /\ \/ part = "one" /\ OneNext
       \/ part = "two" /\ TwoNext
       \/ part = "strings" /\ StringsNext

PartsInit == Init /\ part \in Parts

PartsSpec == PartsInit /\ [][PartsNext]_<<vars, part>>

\* Every action, for instances with few commands.
AllSpec == PartsInit /\ [][Next /\ UNCHANGED part]_<<vars, part>>
=============================================================================
