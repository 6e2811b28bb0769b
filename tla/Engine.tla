------------------------------- MODULE Engine -------------------------------
(***************************************************************************)
(* The engine of cmd/kvstore over its log: the command handlers (cmd_kv,   *)
(* cmd_zset, cmd_vector), the TTL evictor, compaction with its two         *)
(* snapshots, crash, and recovery (main, walApplier).                      *)
(*                                                                         *)
(* The log is what module Wal shows it to be: a sequence of records in     *)
(* which a record's LSN is its place and of which a crash keeps a prefix.  *)
(* A handler is not atomic: Script lists the calls it makes, and another   *)
(* handler, the evictor or a compaction may run between two of them.       *)
(*                                                                         *)
(* A key stands for a string key, for a vector key and for one member of   *)
(* a sorted set; a value for a string, a vector or a score.                *)
(***************************************************************************)
EXTENDS Integers, Sequences

CONSTANTS
    Keys,        \* keys
    Values,      \* strings, vectors (with attributes and terms) and scores
    None,        \* no value
    Clients,     \* connections whose handlers run concurrently
    OwnKeys,     \* client -> the keys it uses
    Ops,         \* the commands that the clients issue
    Evicts,      \* TRUE: the TTL evictor runs
    Compacts,    \* TRUE: compaction runs (COMPACT or the size trigger)
    Restarts,    \* TRUE: the process may die and start again
    MaxLog,      \* bound: records in the log
    MaxNow       \* bound: the clock

KnownOps == {"SET", "SET EX", "DEL", "EXPIRE", "PERSIST",
             "VSIM.ADD", "VSIM.DEL", "ZADD", "ZREM"}

ASSUME NoneAssumption == None \notin Values
ASSUME OpsAssumption == Ops \subseteq KnownOps
ASSUME OwnAssumption == OwnKeys \in [Clients -> SUBSET Keys]
ASSUME SwitchAssumption == {Evicts, Compacts, Restarts} \subseteq BOOLEAN
ASSUME BoundsAssumption == MaxLog \in Nat /\ MaxNow \in Nat

VARIABLES
    mem,      \* kv.Store, TTLManager, the vector store and ZSetRegistry
    now,      \* the clock
    log,      \* records sent to BatchWAL, in the order of the channel
    assigned, \* LastLSN: records that have an LSN
    written,  \* records that WriteBatch has given to the file
    durable,  \* records that an fsync has covered
    cut,      \* records in WAL files that CleanupOldWALs has deleted
    act,      \* actor -> the handler call in progress
    comp,     \* the compaction in progress
    snap,     \* snapshot.wal
    graph,    \* graph_leveled.bin with its watermark
    boot      \* history: state and log position at the last start

logVars == <<log, assigned, written, durable, cut>>
vars == <<mem, now, logVars, act, comp, snap, graph, boot>>

Maybe(S) == S \cup {None}

Deadline == 0..(MaxNow + 1)      \* 0: no TTL

State == [kv : [Keys -> Maybe(Values)], ttl : [Keys -> Deadline],
          vec : [Keys -> Maybe(Values)], zset : [Keys -> Maybe(Values)]]

Nothing == [k \in Keys |-> None]
NoTTL == [k \in Keys |-> 0]
Empty == [kv |-> Nothing, ttl |-> NoTTL, vec |-> Nothing, zset |-> Nothing]

WalOps == {"OpSet", "OpDel", "OpExpire", "OpPersist", "OpVSimAdd", "OpVSimDel",
           "OpZAdd", "OpZRem"}

\* A record; val is meaningful for adds, at for OpExpire.
Record == [op : WalOps, key : Keys, val : Maybe(Values), at : Deadline]

\* LSNs that were assigned and whose records a crash took.
Lost == [op |-> "lost"]

(***************************************************************************)
(* Recovery: walApplier.apply over the snapshots and the log               *)
(***************************************************************************)
Past(d) == d # 0 /\ d <= now

\* One record applied to st; skipVec is shouldSkipVecReplay for it.
DropVec(st, k, skipVec) == IF skipVec THEN st.vec ELSE [st.vec EXCEPT ![k] = None]

Apply(st, r, skipVec) ==
    CASE r.op = "OpSet" -> [st EXCEPT !.kv[r.key] = r.val]
      [] r.op = "OpDel" \/ (r.op = "OpExpire" /\ Past(r.at)) ->
            [st EXCEPT !.kv[r.key] = None, !.ttl[r.key] = 0, !.vec = DropVec(st, r.key, skipVec)]
      [] r.op = "OpExpire" /\ ~Past(r.at) -> [st EXCEPT !.ttl[r.key] = r.at]
      [] r.op = "OpPersist" -> [st EXCEPT !.ttl[r.key] = 0]
      [] r.op = "OpVSimAdd" -> IF skipVec THEN st ELSE [st EXCEPT !.vec[r.key] = r.val]
      [] r.op = "OpVSimDel" -> [st EXCEPT !.vec = DropVec(st, r.key, skipVec)]
      [] r.op = "OpZAdd" -> [st EXCEPT !.zset[r.key] = r.val]
      [] r.op = "OpZRem" -> [st EXCEPT !.zset[r.key] = None]
      [] r.op = "lost" -> st

\* The records after the first `from`, up to the n-th, applied to st; a record
\* with an LSN up to the watermark has no effect on vectors.
Replay(st, from, n, watermark) ==
    LET upTo[i \in from..n] ==
            IF i = from THEN st ELSE Apply(upTo[i - 1], log[i], i <= watermark)
    IN  upTo[n]

\* snapshot.wal replayed over graph_leveled.bin: OpSet, then OpExpire, then OpZAdd.
FromSnapshots ==
    [kv   |-> [k \in Keys |-> IF Past(snap.ttl[k]) THEN None ELSE snap.kv[k]],
     ttl  |-> [k \in Keys |-> IF Past(snap.ttl[k]) THEN 0 ELSE snap.ttl[k]],
     vec  |-> graph.vec,
     zset |-> snap.zset]

\* What a restart finds when the log holds its first n records.
Recovered(n) == Replay(FromSnapshots, cut, n, graph.wm)

(***************************************************************************)
(* Handlers                                                                *)
(***************************************************************************)
Actors == Clients \cup {"evictor"}

NoCall == [key |-> None, val |-> None, at |-> 0, todo |-> <<>>]

\* The calls of a handler, in the order of the code.  "?" marks a removal that
\* logs its record only when there was something to remove.  cmd_kv.go:
KvScript(op) ==
    CASE op = "SET"     -> <<"OpSet", "kv.Set", "ttl.Remove?">>
      [] op = "SET EX"  -> <<"OpSet", "kv.Set", "OpExpire", "ttl.Set">>
      [] op = "DEL"     -> <<"OpDel", "kv.Del", "vec.Delete", "ttl.OnDelete">>
      [] op = "EXPIRE"  -> <<"OpExpire", "ttl.Set">>
      [] op = "PERSIST" -> <<"ttl.Remove?">>

\* Mutant: a vector is logged before it is in the index.
VectorScriptLogsFirst(op) ==
    IF op = "VSIM.ADD" THEN <<"OpVSimAdd", "vec.Add">> ELSE <<"vec.Delete?">>

\* cmd_vector.go
VectorScript(op) ==
    CASE op = "VSIM.ADD" -> <<"vec.Add", "OpVSimAdd">>
      [] op = "VSIM.DEL" -> <<"vec.Delete?">>

\* cmd_zset.go
ZSetScript(op) ==
    CASE op = "ZADD" -> <<"zset.ZAdd", "OpZAdd">>
      [] op = "ZREM" -> <<"zset.ZRem?">>

Script(op) ==
    CASE op \in {"VSIM.ADD", "VSIM.DEL"} -> VectorScript(op)
      [] op \in {"ZADD", "ZREM"}         -> ZSetScript(op)
      [] OTHER                           -> KvScript(op)

\* Mutant: the evictor forgets the string value.
EvictScriptVecOnly == <<"vec.Delete?">>

\* compositeEvictor.Del
EvictScript == <<"kv.Del", "vec.Delete?">>

Idle(a) == act[a].todo = <<>>

Doing(a, step) == ~Idle(a) /\ Head(act[a].todo) = step

NoSnap == [wm |-> 0, kv |-> Nothing, ttl |-> NoTTL, zset |-> Nothing]

\* A compaction: keep is what the old WAL files hold, copy the content of
\* snapshot.wal.tmp, left the keys that the current walk has not reached.
NoComp == [stage |-> "idle", keep |-> 0, copy |-> NoSnap, left |-> {}, vec |-> Nothing, wm |-> 0]

Init ==
    /\ mem = Empty
    /\ now = 0
    /\ log = <<>> /\ assigned = 0 /\ written = 0 /\ durable = 0 /\ cut = 0
    /\ act = [a \in Actors |-> NoCall]
    /\ comp = NoComp
    /\ snap = NoSnap
    /\ graph = [wm |-> 0, vec |-> Nothing]
    /\ boot = [st |-> Empty, lsn |-> 0]

\* A client sends a command; EXPIRE looks the key up before anything else.
Begin(c, op, k, v, at) ==
    /\ op \in Ops
    /\ k \in OwnKeys[c]
    /\ Idle(c)
    /\ Len(log) < MaxLog
    /\ op = "EXPIRE" => mem.kv[k] # None
    /\ op \in {"SET EX", "EXPIRE"} <=> at # 0
    /\ at # 0 => at > now
    /\ op \in {"SET", "SET EX", "VSIM.ADD", "ZADD"} <=> v # None
    /\ act' = [act EXCEPT ![c] = [key |-> k, val |-> v, at |-> at, todo |-> Script(op)]]
    /\ UNCHANGED <<mem, now, logVars, comp, snap, graph, boot>>

\* The TTL manager takes an expired key out of its map, unlocks and only then
\* calls the evictor.
Evict(k) ==
    /\ Evicts
    /\ Idle("evictor")
    /\ Past(mem.ttl[k])
    /\ mem' = [mem EXCEPT !.ttl[k] = 0]
    /\ act' = [act EXCEPT !["evictor"] = [NoCall EXCEPT !.key = k, !.todo = EvictScript]]
    /\ UNCHANGED <<now, logVars, comp, snap, graph, boot>>

\* BatchWAL.Write
Log(a) ==
    /\ ~Idle(a)
    /\ Head(act[a].todo) \in WalOps
    /\ log' = Append(log, [op |-> Head(act[a].todo), key |-> act[a].key,
                           val |-> act[a].val, at |-> act[a].at])
    /\ act' = [act EXCEPT ![a].todo = Tail(@)]
    /\ UNCHANGED <<mem, now, assigned, written, durable, cut, comp, snap, graph, boot>>

\* A call that changes a store under its lock.
Call(a, step, field, new, then) ==
    /\ Doing(a, step)
    /\ mem' = [mem EXCEPT ![field][act[a].key] = new]
    /\ act' = [act EXCEPT ![a].todo = then \o Tail(@)]
    /\ UNCHANGED <<now, logVars, comp, snap, graph, boot>>

\* What follows a removal that logs only what it removed.
IfThere(a, field, none, op) == IF mem[field][act[a].key] = none THEN <<>> ELSE <<op>>

Store(a) ==
    \/ Call(a, "kv.Set", "kv", act[a].val, <<>>)
    \/ Call(a, "kv.Del", "kv", None, <<>>)
    \/ Call(a, "ttl.Set", "ttl", act[a].at, <<>>)
    \/ Call(a, "ttl.OnDelete", "ttl", 0, <<>>)
    \/ Call(a, "ttl.Remove?", "ttl", 0, IfThere(a, "ttl", 0, "OpPersist"))
    \/ Call(a, "vec.Add", "vec", act[a].val, <<>>)
    \/ Call(a, "vec.Delete", "vec", None, <<>>)
    \/ Call(a, "vec.Delete?", "vec", None, IfThere(a, "vec", None, "OpVSimDel"))
    \/ Call(a, "zset.ZAdd", "zset", act[a].val, <<>>)
    \/ Call(a, "zset.ZRem?", "zset", None, IfThere(a, "zset", None, "OpZRem"))

Tick ==
    /\ now < MaxNow
    /\ now' = now + 1
    /\ UNCHANGED <<mem, logVars, act, comp, snap, graph, boot>>

(***************************************************************************)
(* The log, as module Wal has it                                           *)
(***************************************************************************)
\* reserveLSN, by the only flusher: the batch before has been written.
Reserve(n) ==
    /\ written = assigned
    /\ n \in (assigned + 1)..Len(log)
    /\ assigned' = n
    /\ UNCHANGED <<mem, now, log, written, durable, cut, act, comp, snap, graph, boot>>

WriteBatch ==
    /\ written < assigned
    /\ written' = assigned
    /\ UNCHANGED <<mem, now, log, assigned, durable, cut, act, comp, snap, graph, boot>>

Sync ==
    /\ durable < written
    /\ durable' = written
    /\ UNCHANGED <<mem, now, log, assigned, written, cut, act, comp, snap, graph, boot>>

(***************************************************************************)
(* BackgroundCompact: rotation, the watermark, snapshotIterate, rename,    *)
(* saveVectors, deletion of the old files.  One at a time here.            *)
(***************************************************************************)
Stage(s) == comp.stage = s

\* The next stage, which walks over all keys again.
Goto(s) == [comp EXCEPT !.stage = s, !.left = Keys]

Rotate ==
    /\ Compacts
    /\ Stage("idle")
    /\ durable' = written
    /\ comp' = [NoComp EXCEPT !.stage = "LastLSN", !.keep = written]
    /\ UNCHANGED <<mem, now, log, assigned, written, cut, act, snap, graph, boot>>

LastLSN ==
    /\ Stage("LastLSN")
    /\ comp' = [Goto("kv") EXCEPT !.copy.wm = assigned]
    /\ UNCHANGED <<mem, now, logVars, act, snap, graph, boot>>

\* ForEach copies one shard under its lock.
Walk(field, next) ==
    /\ Stage(field)
    /\ \/ \E k \in comp.left :
            comp' = [comp EXCEPT !.left = @ \ {k}, !.copy[field][k] = mem[field][k]]
       \/ comp.left = {} /\ comp' = Goto(next)
    /\ UNCHANGED <<mem, now, logVars, act, snap, graph, boot>>

SnapshotIterate == Walk("kv", "ttl") \/ Walk("ttl", "zset") \/ Walk("zset", "rename")

\* fsync, rename and FsyncDir of snapshot.wal.
RenameSnapshot ==
    /\ Stage("rename")
    /\ snap' = comp.copy
    /\ comp' = Goto("SetSnapshotWatermark")
    /\ UNCHANGED <<mem, now, logVars, act, graph, boot>>

\* saveVectors: the watermark first, then FlushDeltaSync and SaveBinary.
SetSnapshotWatermark ==
    /\ Stage("SetSnapshotWatermark")
    /\ comp' = [Goto("SaveBinary") EXCEPT !.wm = assigned]
    /\ UNCHANGED <<mem, now, logVars, act, snap, graph, boot>>

SaveBinary ==
    /\ Stage("SaveBinary")
    /\ comp' = [Goto("renameGraph") EXCEPT !.vec = mem.vec]
    /\ UNCHANGED <<mem, now, logVars, act, snap, graph, boot>>

\* Mutant: the watermark is read after SaveBinary.
RenameGraphLateWatermark ==
    /\ Stage("renameGraph")
    /\ graph' = [wm |-> assigned, vec |-> comp.vec]
    /\ comp' = Goto("CleanupOldWALs")
    /\ UNCHANGED <<mem, now, logVars, act, snap, boot>>

RenameGraph ==
    /\ Stage("renameGraph")
    /\ graph' = [wm |-> comp.wm, vec |-> comp.vec]
    /\ comp' = Goto("CleanupOldWALs")
    /\ UNCHANGED <<mem, now, logVars, act, snap, boot>>

CleanupOldWALs ==
    /\ Stage("CleanupOldWALs")
    /\ cut' = comp.keep
    /\ comp' = NoComp
    /\ UNCHANGED <<mem, now, log, assigned, written, durable, act, snap, graph, boot>>

(***************************************************************************)
(* The process dies and main recovers.  LSNs go on above both watermarks.  *)
(***************************************************************************)
MaxOf(a, b) == IF a >= b THEN a ELSE b

Restart(n) ==
    /\ Restarts
    /\ n \in durable..written
    /\ LET st   == Recovered(n)
           last == MaxOf(n, MaxOf(snap.wm, graph.wm))
       IN  /\ mem' = st
           /\ log' = [i \in 1..last |-> IF i <= n THEN log[i] ELSE Lost]
           /\ assigned' = last /\ written' = last /\ durable' = last
           /\ boot' = [st |-> st, lsn |-> last]
    /\ act' = [a \in Actors |-> NoCall]
    /\ comp' = NoComp
    /\ UNCHANGED <<now, cut, snap, graph>>

Next ==
    \/ \E c \in Clients, op \in KnownOps, k \in Keys, v \in Maybe(Values), at \in Deadline :
          Begin(c, op, k, v, at)
    \/ \E k \in Keys : Evict(k)
    \/ \E a \in Actors : Log(a)
    \/ \E a \in Actors : Store(a)
    \/ Tick
    \/ \E n \in 1..Len(log) : Reserve(n)
    \/ WriteBatch
    \/ Sync
    \/ Rotate
    \/ LastLSN
    \/ SnapshotIterate
    \/ RenameSnapshot
    \/ SetSnapshotWatermark
    \/ SaveBinary
    \/ RenameGraph
    \/ CleanupOldWALs
    \/ \E n \in 0..Len(log) : Restart(n)

Spec == Init /\ [][Next]_vars

(***************************************************************************)
(* Properties                                                              *)
(***************************************************************************)
\* Every variable keeps its type, and the flusher's positions in the log their order:
\* what is deleted is durable, what is durable was written, what was written has LSNs.
TypeOK ==
    /\ mem \in State
    /\ now \in 0..MaxNow
    /\ \A i \in DOMAIN log : log[i] \in Record \cup {Lost}
    /\ 0 <= cut /\ cut <= durable /\ durable <= written
    /\ written <= assigned /\ assigned <= Len(log)
    /\ \A a \in Actors : act[a].key \in Maybe(Keys) /\ act[a].val \in Maybe(Values)

\* What a client can see of a state: an expired key is not there.
Visible(st) ==
    [kv   |-> [k \in Keys |-> IF Past(st.ttl[k]) THEN None ELSE st.kv[k]],
     ttl  |-> [k \in Keys |-> IF Past(st.ttl[k]) \/ st.kv[k] = None THEN 0 ELSE st.ttl[k]],
     vec  |-> st.vec,
     zset |-> st.zset]

Quiet == \A a \in Actors : Idle(a)

\* An ordered shutdown loses nothing: when no handler runs and the log is drained,
\* recovery would rebuild exactly what the clients can see in memory, whatever
\* the compactions and restarts before.
ShutdownLosesNothing ==
    (Quiet /\ durable = Len(log)) => Visible(Recovered(Len(log))) = Visible(mem)

\* A crash loses only a suffix: each key recovers to a value it had after some
\* record at or above the surviving prefix, or to the one in memory.
History(m) == Visible(Replay(boot.st, boot.lsn, m, 0))

CrashLosesSuffix ==
    \A n \in MaxOf(durable, boot.lsn)..written :
        LET found == Visible(Recovered(n)) IN
        \A f \in {"kv", "vec", "zset"} : \A k \in Keys :
            \/ found[f][k] = Visible(mem)[f][k]
            \/ \E m \in n..Len(log) : found[f][k] = History(m)[f][k]

\* The i-th record is the last set of its key.
LastSet(i) ==
    /\ log[i].op = "OpSet"
    /\ \A j \in (i + 1)..Len(log) : log[j].op = "OpSet" => log[j].key # log[i].key

\* The value of a bare SET that was answered stays until it is overwritten: it
\* does not die of the timer of the value before it.
BareSetStays ==
    Quiet => \A i \in DOMAIN log :
        (LastSet(i) /\ log[i].at = 0) => mem.kv[log[i].key] = log[i].val
=============================================================================
