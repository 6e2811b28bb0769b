----------------------------- MODULE MCCommands -----------------------------
(***************************************************************************)
(* What acts on a key in cmd/kvstore: the dispatcher, Tx, and the handlers *)
(* beside the evictor, Engine.  They share no state: the first state       *)
(* chooses the part that runs, and the other stands still.                 *)
(***************************************************************************)
EXTENDS Tx, TLC

CONSTANTS k1, v1, c1, None

VARIABLES
    part,
    mem, now, log, assigned, written, durable, cut, act, comp, snap, graph, boot

engineVars == <<mem, now, log, assigned, written, durable, cut, act, comp, snap, graph, boot>>

OneKey == {k1}
OneValue == {v1}
OneClient == {c1}
OneOwn == c1 :> {k1}
ExpiringOps == {"SET EX", "VSIM.ADD", "DEL"}
Timed == INSTANCE Engine WITH
    Keys <- OneKey, Values <- OneValue, Clients <- OneClient, OwnKeys <- OneOwn, Ops <- ExpiringOps,
    Evicts <- TRUE, Compacts <- FALSE, Restarts <- FALSE, MaxLog <- 4, MaxNow <- 2

\* A part that does not run.
EngineOff ==
    /\ mem = 0 /\ now = 0 /\ log = 0 /\ assigned = 0 /\ written = 0 /\ durable = 0 /\ cut = 0
    /\ act = 0 /\ comp = 0 /\ snap = 0 /\ graph = 0 /\ boot = 0

CommandsInit ==
    /\ Init
    /\ \/ part = "tx" /\ EngineOff
       \/ part = "timed" /\ Timed!Init

CommandsNext ==
    /\ UNCHANGED part
    /\ \/ part = "tx" /\ Next /\ UNCHANGED engineVars
       \/ part = "timed" /\ Timed!Next /\ UNCHANGED vars

\* expireCycle comes round to every shard, and a handler never stops half-way.
TimedFairness ==
    /\ \A k \in OneKey : WF_engineVars(part = "timed" /\ Timed!Evict(k))
    /\ \A a \in Timed!Actors :
         /\ WF_engineVars(part = "timed" /\ Timed!Log(a))
         /\ WF_engineVars(part = "timed" /\ Timed!Store(a))

CommandsSpec == CommandsInit /\ [][CommandsNext]_<<part, vars, engineVars>> /\ TimedFairness

(***************************************************************************)
(* Properties                                                              *)
(***************************************************************************)
\* The evictor frees an expired key together with its vector, whatever handlers do in
\* between, unless the key is given a new time to live (ttl.go).
ExpiredKeysLeave ==
    \A k \in OneKey :
        (part = "timed" /\ Timed!Past(mem.ttl[k])) ~>
            (part = "timed" => \/ mem.kv[k] = None /\ mem.vec[k] = None
                               \/ mem.ttl[k] > now)
=============================================================================
