---------------------------- MODULE EngineProofs ----------------------------
(***************************************************************************)
(* Proofs about Engine: snapshots and log rebuild the state, for any       *)
(* number of keys, values, clients and records, whatever handlers,         *)
(* compactions, crashes and restarts overlap, where the commands are on    *)
(* vectors and sorted sets and no key has two clients.                     *)
(***************************************************************************)
EXTENDS Engine, SequenceTheorems, FiniteSetTheorems, TLAPS

\* The handlers of cmd_vector.go and cmd_zset.go, which change memory before they log.
MemoryFirst == {"VSIM.ADD", "VSIM.DEL", "ZADD", "ZREM"}

\* The commands are those, and no two clients work on one key at a time.
OneClientPerKey ==
    /\ Ops \subseteq MemoryFirst
    /\ \A c, d \in Clients : c # d => OwnKeys[c] \cap OwnKeys[d] = {}

Fields == {"vec", "zset"}
Adds(f) == IF f = "vec" THEN "OpVSimAdd" ELSE "OpZAdd"
Dels(f) == IF f = "vec" THEN "OpVSimDel" ELSE "OpZRem"
OpsOn(f) == {Adds(f), Dels(f)}

\* Records of those handlers: a removal has no value.
Records ==
    {r \in Record : /\ r.op \in OpsOn("vec") \cup OpsOn("zset")
                    /\ r.op \in {Adds("vec"), Adds("zset")} <=> r.val # None}
Logs == Seq(Records \cup {Lost})

\* States in which no string was set.
States == [kv : {Nothing}, ttl : {NoTTL}, vec : [Keys -> Maybe(Values)], zset : [Keys -> Maybe(Values)]]

(***************************************************************************)
(* Replay                                                                  *)
(***************************************************************************)
\* Record i of log l is about key k of store f.
Touches(l, f, k, i) == l[i].op \in OpsOn(f) /\ l[i].key = k

\* Value v is what records p+1 to n of log l make of b, for key k of store f: the value
\* of the last record about it, or b.
IsValue(l, f, k, b, p, n, v) ==
    \/ \E i \in (p + 1)..n :
         /\ Touches(l, f, k, i) /\ v = l[i].val
         /\ \A j \in (i + 1)..n : ~Touches(l, f, k, j)
    \/ v = b /\ \A j \in (p + 1)..n : ~Touches(l, f, k, j)

LEMMA Least ==
    ASSUME NEW T \in SUBSET Nat, T # {}
    PROVE  \E x \in T : \A y \in T : x <= y
<1>1. PICK x \in T : \A y \in T : ~(<<y, x>> \in OpToRel(<, Nat))
  BY WFMin, NatLessThanWellFounded
<1>2. \A y \in T : ~(y < x)
  BY <1>1 DEF OpToRel
<1> QED
  BY <1>2

LEMMA ApplyIs ==
    ASSUME NEW st \in States, NEW r \in Records \cup {Lost}, NEW skip \in BOOLEAN
    PROVE  LET new == Apply(st, r, skip) IN
           /\ new \in States
           /\ \A k \in Keys : new.vec[k] = IF r.op \in OpsOn("vec") /\ r.key = k /\ ~skip
                                           THEN r.val ELSE st.vec[k]
           /\ \A k \in Keys : new.zset[k] = IF r.op \in OpsOn("zset") /\ r.key = k
                                            THEN r.val ELSE st.zset[k]
<1> USE DEF OpsOn, Adds, Dels
<1>1. CASE r = Lost
  BY <1>1 DEF Apply, Lost
<1>2. CASE r \in Records
  <2>1. /\ r.key \in Keys /\ r.val \in Maybe(Values)
        /\ r.op \in {"OpVSimAdd", "OpVSimDel", "OpZAdd", "OpZRem"}
        /\ r.op \in {"OpVSimDel", "OpZRem"} => r.val = None
    BY <1>2 DEF Records, Record
  <2>2. CASE r.op = "OpVSimAdd"
    <3>1. Apply(st, r, skip) = IF skip THEN st ELSE [st EXCEPT !.vec[r.key] = r.val]
      BY <2>2 DEF Apply
    <3> QED
      BY <2>1, <2>2, <3>1 DEF States
  <2>3. CASE r.op = "OpVSimDel"
    <3>1. Apply(st, r, skip) = [st EXCEPT !.vec = IF skip THEN st.vec ELSE [st.vec EXCEPT ![r.key] = None]]
      BY <2>3 DEF Apply, DropVec
    <3> QED
      BY <2>1, <2>3, <3>1 DEF States, Maybe
  <2>4. CASE r.op = "OpZAdd"
    <3>1. Apply(st, r, skip) = [st EXCEPT !.zset[r.key] = r.val]
      BY <2>4 DEF Apply
    <3> QED
      BY <2>1, <2>4, <3>1 DEF States
  <2>5. CASE r.op = "OpZRem"
    <3>1. Apply(st, r, skip) = [st EXCEPT !.zset[r.key] = None]
      BY <2>5 DEF Apply
    <3> QED
      BY <2>1, <2>5, <3>1 DEF States, Maybe
  <2> QED
    BY <2>1, <2>2, <2>3, <2>4, <2>5
<1> QED
  BY <1>1, <1>2

\* The states that a replay goes through.
Steps(u, st, from, n, wm) ==
    u = [i \in from..n |-> IF i = from THEN st ELSE Apply(u[i - 1], log[i], i <= wm)]

LEMMA StepsExist ==
    ASSUME NEW st, NEW from \in Nat, NEW n \in Nat, from <= n, NEW wm
    PROVE  \E u : Steps(u, st, from, n, wm)
<1> DEFINE T == {d \in Nat : ~\E u : Steps(u, st, from, from + d, wm)}
<1>1. T = {}
  <2> SUFFICES ASSUME T # {} PROVE FALSE
    OBVIOUS
  <2>1. PICK d \in T : \A e \in T : d <= e
    BY Least
  <2>2. d # 0
    <3>1. Steps([i \in from..from |-> st], st, from, from, wm)
      BY DEF Steps
    <3>2. from + 0 = from
      OBVIOUS
    <3>3. 0 \notin T
      BY <3>1, <3>2
    <3> QED
      BY <2>1, <3>3
  <2>3. d - 1 \in Nat /\ d - 1 \notin T /\ d \in Nat
    BY <2>1, <2>2
  <2> DEFINE m == from + (d - 1)
  <2>4. PICK u : Steps(u, st, from, m, wm)
    BY <2>3
  <2>5. m \in Nat /\ from <= m /\ from + d = m + 1
    BY <2>3
  <2> HIDE DEF m
  <2> DEFINE w == [i \in from..(m + 1) |-> IF i <= m THEN u[i] ELSE Apply(u[m], log[m + 1], m + 1 <= wm)]
  <2>6. \A i \in from..(m + 1) : i # from => w[i - 1] = u[i - 1]
    BY <2>5
  <2>7. \A i \in from..m : u[i] = IF i = from THEN st ELSE Apply(u[i - 1], log[i], i <= wm)
    BY <2>4 DEF Steps
  <2>8. \A i \in from..(m + 1) : w[i] = IF i = from THEN st ELSE Apply(w[i - 1], log[i], i <= wm)
    <3> TAKE i \in from..(m + 1)
    <3>1. CASE i <= m
      <4>1. i \in from..m /\ w[i] = u[i]
        BY <2>5, <3>1
      <4> QED
        BY <4>1, <2>6, <2>7
    <3>2. CASE ~(i <= m)
      <4>1. i = m + 1 /\ i # from /\ i - 1 = m
        BY <2>5, <3>2
      <4>2. w[i] = Apply(u[m], log[i], i <= wm)
        BY <2>5, <4>1
      <4> QED
        BY <4>1, <4>2, <2>6
    <3> QED
      BY <3>1, <3>2
  <2>9. Steps(w, st, from, m + 1, wm)
    <3> w = [i \in from..(m + 1) |-> w[i]]
      OBVIOUS
    <3> HIDE DEF w
    <3> QED
      BY <2>8 DEF Steps
  <2> QED
    BY <2>1, <2>5, <2>9
<1>2. n - from \in Nat /\ from + (n - from) = n
  OBVIOUS
<1> QED
  BY <1>1, <1>2

Trace(st, from, n, wm) == CHOOSE u : Steps(u, st, from, n, wm)

LEMMA ReplaySteps ==
    ASSUME NEW st, NEW from \in Nat, NEW n \in Nat, from <= n, NEW wm
    PROVE  /\ Steps(Trace(st, from, n, wm), st, from, n, wm)
           /\ Replay(st, from, n, wm) = Trace(st, from, n, wm)[n]
<1>1. Steps(Trace(st, from, n, wm), st, from, n, wm)
  BY StepsExist DEF Trace
<1>2. Replay(st, from, n, wm) = Trace(st, from, n, wm)[n]
  BY DEF Replay, Steps, Trace
<1> QED
  BY <1>1, <1>2

\* One record more.
LEMMA ValueNext ==
    ASSUME NEW l, NEW f, NEW k, NEW b, NEW p \in Nat, NEW n \in Nat, NEW v, IsValue(l, f, k, b, p, n, v),
           NEW w, w = IF n + 1 > p /\ Touches(l, f, k, n + 1) THEN l[n + 1].val ELSE v
    PROVE  IsValue(l, f, k, b, p, n + 1, w)
<1>1. CASE n + 1 > p /\ Touches(l, f, k, n + 1)
  <2>1. n + 1 \in (p + 1)..(n + 1) /\ \A j \in ((n + 1) + 1)..(n + 1) : FALSE
    BY <1>1
  <2> QED
    BY <1>1, <2>1 DEF IsValue
<1>2. CASE n + 1 <= p
  <2>1. \A j \in (p + 1)..(n + 1) : FALSE
    BY <1>2
  <2>2. \A j \in (p + 1)..n : FALSE
    BY <1>2
  <2> QED
    BY <1>2, <2>1, <2>2 DEF IsValue
<1>3. CASE n + 1 > p /\ ~Touches(l, f, k, n + 1)
  <2>1. CASE \E i \in (p + 1)..n : /\ Touches(l, f, k, i) /\ v = l[i].val
                                   /\ \A j \in (i + 1)..n : ~Touches(l, f, k, j)
    <3>1. PICK i \in (p + 1)..n : /\ Touches(l, f, k, i) /\ v = l[i].val
                                  /\ \A j \in (i + 1)..n : ~Touches(l, f, k, j)
      BY <2>1
    <3>2. i \in (p + 1)..(n + 1) /\ \A j \in (i + 1)..(n + 1) : j \in (i + 1)..n \/ j = n + 1
      OBVIOUS
    <3>3. \A j \in (i + 1)..(n + 1) : ~Touches(l, f, k, j)
      BY <1>3, <3>1, <3>2
    <3> QED
      BY <1>3, <3>1, <3>2, <3>3 DEF IsValue
  <2>2. CASE v = b /\ \A j \in (p + 1)..n : ~Touches(l, f, k, j)
    <3>1. \A j \in (p + 1)..(n + 1) : j \in (p + 1)..n \/ j = n + 1
      OBVIOUS
    <3> QED
      BY <1>3, <2>2, <3>1 DEF IsValue
  <2> QED
    BY <2>1, <2>2 DEF IsValue
<1> QED
  BY <1>1, <1>2, <1>3

LEMMA ValueAtFirst ==
    ASSUME NEW l, NEW f, NEW k, NEW b, NEW p \in Nat, NEW n \in Nat, n <= p
    PROVE  \A v : IsValue(l, f, k, b, p, n, v) <=> v = b
<1>1. \A j \in (p + 1)..n : FALSE
  OBVIOUS
<1> QED
  BY <1>1 DEF IsValue

LEMMA ValueUnique ==
    ASSUME NEW l, NEW f, NEW k, NEW b, NEW p \in Nat, NEW n \in Nat, NEW v, NEW w,
           IsValue(l, f, k, b, p, n, v), IsValue(l, f, k, b, p, n, w)
    PROVE  v = w
<1>1. CASE /\ \E i \in (p + 1)..n : /\ Touches(l, f, k, i) /\ v = l[i].val
                                    /\ \A j \in (i + 1)..n : ~Touches(l, f, k, j)
           /\ \E i \in (p + 1)..n : /\ Touches(l, f, k, i) /\ w = l[i].val
                                    /\ \A j \in (i + 1)..n : ~Touches(l, f, k, j)
  <2>1. PICK i \in (p + 1)..n : /\ Touches(l, f, k, i) /\ v = l[i].val
                                /\ \A j \in (i + 1)..n : ~Touches(l, f, k, j)
    BY <1>1
  <2>2. PICK h \in (p + 1)..n : /\ Touches(l, f, k, h) /\ w = l[h].val
                                /\ \A j \in (h + 1)..n : ~Touches(l, f, k, j)
    BY <1>1
  <2>3. i = h
    <3>1. h \notin (i + 1)..n /\ i \notin (h + 1)..n
      BY <2>1, <2>2
    <3> QED
      BY <3>1
  <2> QED
    BY <2>1, <2>2, <2>3
<1> QED
  BY <1>1 DEF IsValue

\* The value is that of a record, or the one of before.
LEMMA ValueTyped ==
    ASSUME NEW l \in Logs, NEW f \in Fields, NEW k, NEW b \in Maybe(Values), NEW p \in Nat,
           NEW n \in 0..Len(l), NEW v, IsValue(l, f, k, b, p, n, v)
    PROVE  v \in Maybe(Values)
<1>1. CASE \E i \in (p + 1)..n : Touches(l, f, k, i) /\ v = l[i].val
  <2>1. PICK i \in (p + 1)..n : Touches(l, f, k, i) /\ v = l[i].val
    BY <1>1
  <2>2. i \in 1..Len(l)
    OBVIOUS
  <2>3. l[i] \in Records \cup {Lost}
    BY <2>2 DEF Logs
  <2>4. l[i] # Lost
    BY <2>1 DEF Touches, OpsOn, Adds, Dels, Lost
  <2> QED
    BY <2>1, <2>3, <2>4 DEF Records, Record
<1> QED
  BY <1>1 DEF IsValue

\* What a replay of records from+1 to n makes of state st, field by field.
LEMMA ReplayIs ==
    ASSUME log \in Logs, NEW st \in States, NEW from \in Nat, NEW n \in from..Len(log), NEW wm \in Nat
    PROVE  LET new == Replay(st, from, n, wm) IN
           /\ new \in States
           /\ \A k \in Keys : /\ IsValue(log, "vec", k, st.vec[k], MaxOf(from, wm), n, new.vec[k])
                              /\ IsValue(log, "zset", k, st.zset[k], from, n, new.zset[k])
<1>0. n \in Nat /\ from <= n /\ n <= Len(log) /\ MaxOf(from, wm) \in Nat /\ from <= MaxOf(from, wm)
  BY DEF MaxOf
<1> DEFINE u == Trace(st, from, n, wm)
<1> HIDE DEF u
<1>1. Steps(u, st, from, n, wm) /\ Replay(st, from, n, wm) = u[n]
  BY <1>0, ReplaySteps DEF u
<1> DEFINE Right(i) ==
             /\ u[i] \in States
             /\ \A k \in Keys : /\ IsValue(log, "vec", k, st.vec[k], MaxOf(from, wm), i, u[i].vec[k])
                                /\ IsValue(log, "zset", k, st.zset[k], from, i, u[i].zset[k])
           T == {d \in Nat : from + d <= n /\ ~Right(from + d)}
<1>2. Right(from)
  <2>1. u[from] = st
    BY <1>0, <1>1 DEF Steps
  <2> QED
    BY <1>0, <2>1, ValueAtFirst
<1>3. ASSUME NEW i \in from..(n - 1), Right(i) PROVE Right(i + 1)
  <2>0. i \in Nat /\ i + 1 \in from..n /\ i + 1 # from /\ (i + 1) - 1 = i /\ i + 1 > from
    BY <1>0
  <2>1. u[i + 1] = Apply(u[i], log[i + 1], i + 1 <= wm)
    BY <1>0, <1>1, <2>0 DEF Steps
  <2>2. log[i + 1] \in Records \cup {Lost} /\ (i + 1 <= wm) \in BOOLEAN
    BY <1>0, <2>0 DEF Logs
  <2>3. u[i] \in States
    BY <1>3
  <2>4. /\ u[i + 1] \in States
        /\ \A k \in Keys : u[i + 1].vec[k] = IF log[i + 1].op \in OpsOn("vec") /\ log[i + 1].key = k /\ ~(i + 1 <= wm)
                                             THEN log[i + 1].val ELSE u[i].vec[k]
        /\ \A k \in Keys : u[i + 1].zset[k] = IF log[i + 1].op \in OpsOn("zset") /\ log[i + 1].key = k
                                              THEN log[i + 1].val ELSE u[i].zset[k]
    <3> DEFINE skip == i + 1 <= wm
    <3> HIDE DEF skip
    <3>1. skip \in BOOLEAN /\ u[i + 1] = Apply(u[i], log[i + 1], skip)
      BY <2>1, <2>2 DEF skip
    <3>2. /\ Apply(u[i], log[i + 1], skip) \in States
          /\ \A k \in Keys : Apply(u[i], log[i + 1], skip).vec[k] =
               IF log[i + 1].op \in OpsOn("vec") /\ log[i + 1].key = k /\ ~skip
               THEN log[i + 1].val ELSE u[i].vec[k]
          /\ \A k \in Keys : Apply(u[i], log[i + 1], skip).zset[k] =
               IF log[i + 1].op \in OpsOn("zset") /\ log[i + 1].key = k
               THEN log[i + 1].val ELSE u[i].zset[k]
      BY <2>2, <2>3, <3>1, ApplyIs, Zenon
    <3> QED
      BY <3>1, <3>2, Zenon DEF skip
  <2>5. i + 1 > MaxOf(from, wm) <=> ~(i + 1 <= wm)
    BY <2>0 DEF MaxOf
  <2>6. ASSUME NEW k \in Keys
        PROVE  IsValue(log, "vec", k, st.vec[k], MaxOf(from, wm), i + 1, u[i + 1].vec[k])
    <3>1. IsValue(log, "vec", k, st.vec[k], MaxOf(from, wm), i, u[i].vec[k])
      BY <1>3
    <3>2. u[i + 1].vec[k] = IF i + 1 > MaxOf(from, wm) /\ Touches(log, "vec", k, i + 1)
                            THEN log[i + 1].val ELSE u[i].vec[k]
      BY <2>4, <2>5 DEF Touches
    <3> HIDE DEF Right
    <3> QED
      BY <1>0, <2>0, <3>1, <3>2, ValueNext
  <2>7. ASSUME NEW k \in Keys
        PROVE  IsValue(log, "zset", k, st.zset[k], from, i + 1, u[i + 1].zset[k])
    <3>1. IsValue(log, "zset", k, st.zset[k], from, i, u[i].zset[k])
      BY <1>3
    <3>2. u[i + 1].zset[k] = IF i + 1 > from /\ Touches(log, "zset", k, i + 1)
                             THEN log[i + 1].val ELSE u[i].zset[k]
      BY <2>0, <2>4 DEF Touches
    <3> HIDE DEF Right
    <3> QED
      BY <1>0, <2>0, <3>1, <3>2, ValueNext
  <2> QED
    BY <2>4, <2>6, <2>7
<1> HIDE DEF Right
<1>4. T = {}
  <2> SUFFICES ASSUME T # {} PROVE FALSE
    OBVIOUS
  <2>1. PICK d \in T : \A e \in T : d <= e
    BY Least
  <2>2. d \in Nat /\ from + d <= n /\ ~Right(from + d)
    OBVIOUS
  <2>3. d # 0
    BY <1>2, <2>2
  <2>4. d - 1 \in Nat /\ d - 1 \notin T
    BY <2>1, <2>2, <2>3
  <2>5. from + (d - 1) \in from..(n - 1) /\ (from + (d - 1)) + 1 = from + d
    BY <1>0, <2>2, <2>4
  <2>6. Right(from + (d - 1))
    BY <2>4, <2>5, <1>0
  <2> QED
    BY <1>3, <2>2, <2>5, <2>6
<1>5. Right(n)
  <2>1. n - from \in Nat /\ from + (n - from) = n
    BY <1>0
  <2> QED
    <3>1. n - from \notin T
      BY <1>4
    <3>2. Right(from + (n - from))
      BY <1>0, <2>1, <3>1
    <3> QED
      BY <2>1, <3>2
<1> QED
  BY <1>1, <1>5 DEF Right

(***************************************************************************)
(* The inductive invariant                                                 *)
(***************************************************************************)
Stages == {"idle", "LastLSN", "kv", "ttl", "zset", "rename", "SetSnapshotWatermark",
           "SaveBinary", "renameGraph", "CleanupOldWALs"}
Maps == [Keys -> Maybe(Values)]
HandlerCalls == WalOps \cup {"vec.Add", "vec.Delete?", "zset.ZAdd", "zset.ZRem?"}
Snaps == [wm : Nat, kv : {Nothing}, ttl : {NoTTL}, zset : Maps]

TypeInv ==
    /\ log \in Logs /\ mem \in States
    /\ {cut, durable, written, assigned} \subseteq Nat
    /\ snap \in Snaps /\ graph \in [wm : Nat, vec : Maps] /\ boot \in [st : States, lsn : Nat]
    /\ comp \in [stage : Stages, keep : Nat, copy : Snaps, left : SUBSET Keys, vec : Maps, wm : Nat]
    /\ act \in [Actors -> [key : Maybe(Keys), val : Maybe(Values), at : Deadline, todo : Seq(HandlerCalls)]]

\* The flusher's positions in the log, and those of a compaction.
Positions ==
    /\ cut <= durable /\ durable <= written /\ written <= assigned /\ assigned <= Len(log)
    /\ boot.lsn <= durable /\ graph.wm <= assigned
    /\ comp.stage # "idle" => cut <= comp.keep /\ comp.keep <= durable
    /\ comp.stage \in {"SaveBinary", "renameGraph"} =>
         comp.keep <= comp.wm /\ graph.wm <= comp.wm /\ comp.wm <= assigned
    /\ comp.stage = "CleanupOldWALs" => comp.keep <= graph.wm

AddCall(f) == IF f = "vec" THEN "vec.Add" ELSE "zset.ZAdd"
DelCall(f) == IF f = "vec" THEN "vec.Delete?" ELSE "zset.ZRem?"

\* Actor a has yet to log what it has changed in store f.
Owes(a, f) ==
    /\ mem[f][act[a].key] = act[a].val
    /\ \/ act[a].todo = <<Adds(f)>> /\ act[a].val # None
       \/ act[a].todo = <<Dels(f)>> /\ act[a].val = None

\* Actor a has yet to change store f.
Changes(a, f) ==
    \/ act[a].todo = <<AddCall(f), Adds(f)>> /\ act[a].val # None
    \/ act[a].todo = <<DelCall(f)>> /\ act[a].val = None

\* A handler is idle or between two of its calls, with a key of its own.
Handlers ==
    \A a \in Actors : act[a].todo # <<>> =>
        /\ a \in Clients /\ act[a].key \in OwnKeys[a]
        /\ \E f \in Fields : Owes(a, f) \/ Changes(a, f)

Pending(f, k) == \E c \in Clients : act[c].key = k /\ Owes(c, f)

\* The value of key k of store f after the first n records since the start.
Was(f, k, n, v) == IsValue(log, f, k, boot.st[f][k], boot.lsn, n, v)

\* Memory is what the log makes of the state at the start, but for what has yet to be logged.
Booked == \A f \in Fields, k \in Keys : Pending(f, k) \/ Was(f, k, Len(log), mem[f][k])

\* A base b from which records are replayed from p on: wherever a crash cuts the log,
\* the value found is one of memory or of a record at the cut or behind it.
Kept(f, k, b, p) ==
    \A n \in durable..Len(log) : \A v :
        IsValue(log, f, k, b, p, n, v) => v = mem[f][k] \/ \E m \in n..Len(log) : Was(f, k, m, v)

\* The snapshots are such bases, for what is not yet deleted of the log; and what a
\* compaction has copied is one for what it will not delete.
SnapshotsKeep ==
    \A k \in Keys : /\ Kept("vec", k, graph.vec[k], MaxOf(cut, graph.wm))
                    /\ Kept("zset", k, snap.zset[k], cut)

CopiesKeep ==
    /\ \A k \in Keys : comp.stage = "rename" \/ (comp.stage = "zset" /\ k \notin comp.left) =>
         Kept("zset", k, comp.copy.zset[k], comp.keep)
    /\ comp.stage \in {"SetSnapshotWatermark", "SaveBinary", "renameGraph", "CleanupOldWALs"} =>
         \A k \in Keys : Kept("zset", k, snap.zset[k], comp.keep)
    /\ comp.stage = "renameGraph" => \A k \in Keys : Kept("vec", k, comp.vec[k], comp.wm)

IInv == TypeInv /\ Positions /\ Handlers /\ Booked /\ SnapshotsKeep /\ CopiesKeep

\* What the parts of the invariant say, for the steps to come.
LEMMA Facts ==
    ASSUME IInv
    PROVE  /\ Len(log) \in Nat /\ cut \in Nat /\ durable \in Nat /\ written \in Nat /\ assigned \in Nat
           /\ boot.lsn \in Nat /\ graph.wm \in Nat /\ comp.keep \in Nat /\ comp.wm \in Nat
           /\ durable <= Len(log) /\ boot.lsn <= Len(log) /\ graph.wm <= Len(log) /\ cut <= Len(log)
           /\ comp.stage # "idle" => comp.keep <= Len(log) /\ cut <= comp.keep
           /\ comp.stage \in {"SaveBinary", "renameGraph"} => comp.wm <= Len(log)
           /\ MaxOf(cut, graph.wm) \in 0..Len(log)
<1>1. /\ cut \in Nat /\ durable \in Nat /\ written \in Nat /\ assigned \in Nat
      /\ boot.lsn \in Nat /\ graph.wm \in Nat /\ comp.keep \in Nat /\ comp.wm \in Nat
  BY DEF IInv, TypeInv
<1>2. Len(log) \in Nat
  BY DEF IInv, TypeInv, Logs
<1> QED
  BY <1>1, <1>2 DEF IInv, Positions, MaxOf

LEMMA LogIs ==
    ASSUME NEW l \in Logs, NEW i \in 1..Len(l)
    PROVE  l[i] \in Records \cup {Lost}
BY DEF Logs

\* A longer log has the same values up to the old end.
LEMMA ValueSame ==
    ASSUME NEW l, NEW h, NEW n \in Nat, \A i \in 1..n : h[i] = l[i], NEW p \in Nat,
           NEW f, NEW k, NEW b, NEW v
    PROVE  IsValue(h, f, k, b, p, n, v) <=> IsValue(l, f, k, b, p, n, v)
<1>1. \A i \in (p + 1)..n : i \in 1..n /\ \A j \in (i + 1)..n : j \in 1..n
  OBVIOUS
<1>2. \A i \in (p + 1)..n : h[i] = l[i] /\ (Touches(h, f, k, i) <=> Touches(l, f, k, i))
  BY <1>1 DEF Touches
<1>3. \A i \in (p + 1)..n : \A j \in (i + 1)..n : j \in (p + 1)..n
  OBVIOUS
<1> QED
  BY <1>2, <1>3 DEF IsValue

(***************************************************************************)
(* Bases                                                                   *)
(***************************************************************************)
\* A copy of what is in memory is a base from any later place.
LEMMA KeptCopy ==
    ASSUME IInv, NEW f, NEW k, NEW b, NEW p \in Nat, NEW q \in Nat, p <= q, Kept(f, k, b, p)
    PROVE  Kept(f, k, mem[f][k], q)
<1> SUFFICES ASSUME NEW n \in durable..Len(log), NEW v, IsValue(log, f, k, mem[f][k], q, n, v),
                    v # mem[f][k]
             PROVE  \E m \in n..Len(log) : Was(f, k, m, v)
  BY DEF Kept
<1>1. PICK i \in (q + 1)..n : /\ Touches(log, f, k, i) /\ v = log[i].val
                              /\ \A j \in (i + 1)..n : ~Touches(log, f, k, j)
  BY DEF IsValue
<1>2. i \in (p + 1)..n
  BY Facts
<1>3. IsValue(log, f, k, b, p, n, v)
  BY <1>1, <1>2 DEF IsValue
<1> QED
  BY <1>3 DEF Kept

\* Of a base for a later place and one for an earlier place, the later one serves for both.
LEMMA KeptEarlier ==
    ASSUME IInv, NEW f, NEW k, NEW b, NEW a, NEW p \in Nat, NEW q \in Nat, p <= q,
           Kept(f, k, b, p), Kept(f, k, a, q)
    PROVE  Kept(f, k, a, p)
<1> SUFFICES ASSUME NEW n \in durable..Len(log), NEW v, IsValue(log, f, k, a, p, n, v)
             PROVE  v = mem[f][k] \/ \E m \in n..Len(log) : Was(f, k, m, v)
  BY DEF Kept
<1>1. CASE \E i \in (p + 1)..n : /\ Touches(log, f, k, i) /\ v = log[i].val
                                 /\ \A j \in (i + 1)..n : ~Touches(log, f, k, j)
  <2>1. IsValue(log, f, k, b, p, n, v)
    BY <1>1 DEF IsValue
  <2> QED
    BY <2>1 DEF Kept
<1>2. CASE v = a /\ \A j \in (p + 1)..n : ~Touches(log, f, k, j)
  <2>1. \A j \in (q + 1)..n : j \in (p + 1)..n
    BY Facts
  <2>2. IsValue(log, f, k, a, q, n, v)
    BY <1>2, <2>1 DEF IsValue
  <2> QED
    BY <2>2 DEF Kept
<1> QED
  BY <1>1, <1>2 DEF IsValue

\* More is durable, and nothing else has changed.
LEMMA KeptDurable ==
    ASSUME IInv, durable' \in Nat, durable <= durable', UNCHANGED <<log, boot, mem>>,
           NEW f, NEW k, NEW b, NEW p, Kept(f, k, b, p)
    PROVE  Kept(f, k, b, p)'
<1>1. \A n \in durable'..Len(log) : n \in durable..Len(log)
  BY Facts
<1>2. \A n \in durable'..Len(log) : \A v :
        IsValue(log, f, k, b, p, n, v) => v = mem[f][k] \/ \E m \in n..Len(log) : Was(f, k, m, v)
  BY <1>1 DEF Kept
<1> QED
  BY <1>2 DEF Kept, Was

\* A key may change in memory once the log has what was there.
LEMMA KeptStore ==
    ASSUME IInv, UNCHANGED <<log, boot, durable>>, NEW f, NEW k, NEW b, NEW p,
           mem'[f][k] = mem[f][k] \/ Was(f, k, Len(log), mem[f][k]), Kept(f, k, b, p)
    PROVE  Kept(f, k, b, p)'
<1> SUFFICES ASSUME NEW n \in durable..Len(log), NEW v, IsValue(log, f, k, b, p, n, v)
             PROVE  v = mem'[f][k] \/ \E m \in n..Len(log) : Was(f, k, m, v)
  BY DEF Kept, Was
<1>1. Len(log) \in n..Len(log)
  BY Facts
<1>2. v = mem[f][k] \/ \E m \in n..Len(log) : Was(f, k, m, v)
  BY DEF Kept
<1> QED
  BY <1>1, <1>2

\* A record more keeps every base.
LEMMA KeptLog ==
    ASSUME IInv, NEW r, log' = Append(log, r), UNCHANGED <<boot, durable, mem>>,
           NEW f, NEW k, NEW b, NEW p \in 0..Len(log), Kept(f, k, b, p)
    PROVE  Kept(f, k, b, p)'
<1>0. PICK L : L = Len(log)
  OBVIOUS
<1>1. /\ L \in Nat /\ Len(log') = L + 1 /\ \A i \in 1..L : log'[i] = log[i]
      /\ boot.lsn \in Nat /\ boot.lsn <= L /\ durable \in Nat /\ durable <= L
  <2>1. log \in Seq(Records \cup {Lost})
    BY DEF IInv, TypeInv, Logs
  <2> QED
    BY <1>0, <2>1, Facts, AppendProperties
<1>2. \A n \in 0..L, q \in Nat : \A a, v : IsValue(log', f, k, a, q, n, v) <=> IsValue(log, f, k, a, q, n, v)
  <2> TAKE n \in 0..L, q \in Nat
  <2> TAKE a, v
  <2>1. n \in Nat /\ \A i \in 1..n : log'[i] = log[i]
    BY <1>1
  <2> QED
    BY <2>1, ValueSame
<1>3. \A m \in 0..L : \A v : Was(f, k, m, v)' <=> Was(f, k, m, v)
  BY <1>1, <1>2 DEF Was
<1> SUFFICES ASSUME NEW n \in durable..(L + 1), NEW v, IsValue(log', f, k, b, p, n, v)
             PROVE  v = mem[f][k] \/ \E m \in n..(L + 1) : Was(f, k, m, v)'
  BY <1>1 DEF Kept, Was
<1>4. CASE n <= L
  <2>1. n \in 0..L /\ n \in durable..L /\ p \in Nat
    BY <1>1, <1>4
  <2>2. IsValue(log, f, k, b, p, n, v)
    BY <1>2, <2>1
  <2>3. v = mem[f][k] \/ \E m \in n..L : Was(f, k, m, v)
    BY <1>0, <2>1, <2>2 DEF Kept
  <2>4. \A m \in n..L : m \in 0..L /\ m \in n..(L + 1)
    BY <1>1, <2>1
  <2> QED
    BY <1>3, <2>3, <2>4
<1>5. CASE n = L + 1
  <2>1. p \in Nat /\ p <= L
    BY <1>0, <1>1
  <2>2. CASE Touches(log', f, k, L + 1)
    <3>1. v = log'[L + 1].val
      <4>1. L + 1 \in (p + 1)..n
        BY <1>1, <1>5, <2>1
      <4>2. \A i \in (p + 1)..n : i = L + 1 \/ L + 1 \in (i + 1)..n
        BY <1>1, <1>5, <2>1
      <4> QED
        BY <2>2, <4>1, <4>2 DEF IsValue
    <3>2. L + 1 \in (boot.lsn + 1)..(L + 1) /\ \A j \in ((L + 1) + 1)..(L + 1) : FALSE
      BY <1>1
    <3>3. IsValue(log', f, k, boot.st[f][k], boot.lsn, L + 1, v)
      BY <2>2, <3>1, <3>2 DEF IsValue
    <3>4. L + 1 \in n..(L + 1)
      BY <1>1, <1>5
    <3> QED
      BY <3>3, <3>4 DEF Was
  <2>3. CASE ~Touches(log', f, k, L + 1)
    <3>1. IsValue(log', f, k, b, p, L, v)
      <4>1. \A j \in (p + 1)..L : j \in (p + 1)..(L + 1)
        BY <1>1, <2>1
      <4>2. \A i \in (p + 1)..(L + 1) : i \in (p + 1)..L \/ i = L + 1
        BY <1>1, <2>1
      <4>3. \A i \in (p + 1)..L : \A j \in (i + 1)..L : j \in (i + 1)..(L + 1)
        BY <1>1, <2>1
      <4> QED
        BY <1>5, <2>3, <4>1, <4>2, <4>3 DEF IsValue
    <3>2. L \in 0..L /\ L \in durable..L
      BY <1>1
    <3>3. IsValue(log, f, k, b, p, L, v)
      BY <1>2, <2>1, <3>1, <3>2
    <3>4. v = mem[f][k] \/ \E m \in L..L : Was(f, k, m, v)
      BY <1>0, <3>2, <3>3 DEF Kept
    <3>5. Was(f, k, L, v) => Was(f, k, L + 1, v)'
      <4>1. Was(f, k, L, v) => IsValue(log', f, k, boot.st[f][k], boot.lsn, L, v)
        BY <1>1, <1>2, <3>2 DEF Was
      <4>2. IsValue(log', f, k, boot.st[f][k], boot.lsn, L, v) =>
              IsValue(log', f, k, boot.st[f][k], boot.lsn, L + 1, v)
        BY <1>1, <2>3, ValueNext
      <4> QED
        BY <4>1, <4>2 DEF Was
    <3>6. L + 1 \in n..(L + 1)
      BY <1>1, <1>5
    <3>7. \A m \in L..L : m = L
      BY <1>1
    <3> QED
      BY <3>4, <3>5, <3>6, <3>7
  <2> QED
    BY <2>2, <2>3
<1> QED
  BY <1>1, <1>4, <1>5

(***************************************************************************)
(* The flusher and a compaction                                            *)
(***************************************************************************)
LEMMA HandlersRest ==
    ASSUME IInv, UNCHANGED <<log, mem, boot, act>>
    PROVE  Handlers' /\ Booked'
<1>1. Handlers'
  BY DEF IInv, Handlers, Owes, Changes
<1>2. Booked'
  BY DEF IInv, Booked, Pending, Owes, Was
<1> QED
  BY <1>1, <1>2

LEMMA BasesRest ==
    ASSUME IInv, durable' \in Nat, durable <= durable', UNCHANGED <<log, mem, boot>>
    PROVE  \A f, k, b, p : Kept(f, k, b, p) => Kept(f, k, b, p)'
BY KeptDurable

LEMMA FlusherStep ==
    ASSUME IInv, Tick \/ (\E n \in 1..Len(log) : Reserve(n)) \/ WriteBatch \/ Sync
    PROVE  IInv'
<1>1. /\ UNCHANGED <<log, mem, boot, act, cut, snap, graph, comp>>
      /\ {durable', written', assigned'} \subseteq Nat
      /\ durable <= durable' /\ durable' <= written' /\ written' <= assigned' /\ assigned' <= Len(log)
      /\ assigned <= assigned'
  <2>0. /\ {durable, written, assigned} \subseteq Nat /\ Len(log) \in Nat
        /\ durable <= written /\ written <= assigned /\ assigned <= Len(log)
    BY Facts DEF IInv, Positions
  <2>1. CASE Tick
    BY <2>0, <2>1 DEF Tick, logVars
  <2>2. CASE \E n \in 1..Len(log) : Reserve(n)
    BY <2>0, <2>2 DEF Reserve
  <2>3. CASE WriteBatch
    BY <2>0, <2>3 DEF WriteBatch
  <2>4. CASE Sync
    BY <2>0, <2>4 DEF Sync
  <2> QED
    BY <2>1, <2>2, <2>3, <2>4
<1>2. TypeInv'
  BY <1>1 DEF IInv, TypeInv
<1>3. Positions'
  <2>1. /\ {cut, durable, written, assigned, boot.lsn, graph.wm, comp.keep, comp.wm, Len(log)} \subseteq Nat
        /\ {durable', written', assigned'} \subseteq Nat
    BY <1>1, Facts
  <2>2. /\ cut <= durable' /\ boot.lsn <= durable' /\ graph.wm <= assigned'
        /\ comp.stage # "idle" => cut <= comp.keep /\ comp.keep <= durable'
    BY <1>1, <2>1 DEF IInv, Positions
  <2>3. /\ comp.stage \in {"SaveBinary", "renameGraph"} =>
             comp.keep <= comp.wm /\ graph.wm <= comp.wm /\ comp.wm <= assigned'
        /\ comp.stage = "CleanupOldWALs" => comp.keep <= graph.wm
    BY <1>1, <2>1 DEF IInv, Positions
  <2> QED
    BY <1>1, <2>2, <2>3 DEF Positions
<1>4. SnapshotsKeep' /\ CopiesKeep'
  <2>1. \A f, k, b, p : Kept(f, k, b, p) => Kept(f, k, b, p)'
    BY <1>1, BasesRest
  <2>2. SnapshotsKeep'
    BY <1>1, <2>1 DEF IInv, SnapshotsKeep
  <2>3. CopiesKeep'
    BY <1>1, <2>1 DEF IInv, CopiesKeep
  <2> QED
    BY <2>2, <2>3
<1> QED
  BY <1>1, <1>2, <1>3, <1>4, HandlersRest DEF IInv

LEMMA RotateStep == ASSUME IInv, Rotate PROVE IInv'
<1>0. UNCHANGED <<log, mem, boot, act, cut, snap, graph, written, assigned>> /\ durable' = written
  BY DEF Rotate
<1>1. /\ comp'.stage = "LastLSN" /\ comp'.keep = written
      /\ comp' \in [stage : Stages, keep : Nat, copy : Snaps, left : SUBSET Keys, vec : Maps, wm : Nat]
  <2>1. written \in Nat
    BY Facts
  <2>2. NoSnap \in Snaps /\ Nothing \in Maps
    BY DEF NoSnap, Snaps, Maps, Nothing, Maybe
  <2> QED
    BY <2>1, <2>2 DEF Rotate, NoComp, Stages
<1>2. TypeInv'
  BY <1>0, <1>1, Facts DEF IInv, TypeInv
<1>3. Positions'
  BY <1>0, <1>1, Facts DEF IInv, Positions
<1>4. SnapshotsKeep' /\ CopiesKeep'
  <2>1. \A f, k, b, p : Kept(f, k, b, p) => Kept(f, k, b, p)'
    BY <1>0, Facts, BasesRest DEF IInv, Positions
  <2>2. SnapshotsKeep'
    BY <1>0, <2>1 DEF IInv, SnapshotsKeep
  <2> QED
    BY <1>1, <2>2 DEF CopiesKeep
<1> QED
  BY <1>0, <1>2, <1>3, <1>4, HandlersRest DEF IInv

\* A step of a compaction after Rotate and before CleanupOldWALs.
LEMMA CompactionStep ==
    ASSUME IInv, UNCHANGED <<mem, now, logVars, act, boot>>,
           snap' \in Snaps, graph' \in [wm : Nat, vec : Maps],
           comp' \in [stage : Stages, keep : Nat, copy : Snaps, left : SUBSET Keys, vec : Maps, wm : Nat],
           Positions', SnapshotsKeep', CopiesKeep'
    PROVE  IInv'
<1>1. UNCHANGED <<log, mem, boot, act, cut, durable, written, assigned>>
  BY DEF logVars
<1>2. TypeInv'
  BY <1>1 DEF IInv, TypeInv
<1> QED
  BY <1>1, <1>2, HandlersRest DEF IInv

\* Nothing that a base speaks of has changed.
LEMMA BasesSame ==
    ASSUME UNCHANGED <<mem, now, logVars, boot>>
    PROVE  \A f, k, b, p : Kept(f, k, b, p)' <=> Kept(f, k, b, p)
BY DEF logVars, Kept, Was

CompType == [stage : Stages, keep : Nat, copy : Snaps, left : SUBSET Keys, vec : Maps, wm : Nat]

LEMMA CompIs ==
    ASSUME IInv
    PROVE  /\ comp \in CompType /\ mem.vec \in Maps /\ mem.zset \in Maps
           /\ mem.kv = Nothing /\ mem.ttl = NoTTL
           /\ snap \in Snaps /\ graph \in [wm : Nat, vec : Maps] /\ comp.copy \in Snaps
BY DEF IInv, TypeInv, CompType, States, Maps

LEMMA LastLSNStep == ASSUME IInv, LastLSN PROVE IInv'
<1>0. UNCHANGED <<mem, now, logVars, act, snap, graph, boot>> /\ comp.stage = "LastLSN"
  BY DEF LastLSN, Stage
<1>1. comp' = [comp EXCEPT !.stage = "kv", !.left = Keys, !.copy = [comp.copy EXCEPT !.wm = assigned]]
  BY CompIs DEF LastLSN, Goto, CompType
<1>2. comp' \in CompType /\ comp'.stage = "kv" /\ comp'.keep = comp.keep
  BY <1>1, CompIs, Facts DEF CompType, Snaps, Stages
<1>3. Positions'
  BY <1>0, <1>2 DEF IInv, Positions, logVars
<1>4. SnapshotsKeep'
  BY <1>0, BasesSame DEF IInv, SnapshotsKeep, logVars
<1>5. CopiesKeep'
  BY <1>2 DEF CopiesKeep
<1> QED
  BY <1>0, <1>2, <1>3, <1>4, <1>5, CompIs, CompactionStep DEF CompType

\* What a walk over a store copies of it.
LEMMA WalkIs ==
    ASSUME IInv, NEW f \in {"kv", "ttl", "zset"}, NEW next \in Stages, Walk(f, next)
    PROVE  /\ UNCHANGED <<mem, now, logVars, act, snap, graph, boot>> /\ comp.stage = f
           /\ comp' \in CompType /\ comp'.keep = comp.keep
           /\ \/ \E k \in comp.left :
                   /\ comp'.stage = f /\ comp'.left = comp.left \ {k}
                   /\ comp'.copy = [comp.copy EXCEPT ![f] = [comp.copy[f] EXCEPT ![k] = mem[f][k]]]
              \/ comp.left = {} /\ comp'.stage = next /\ comp'.left = Keys /\ comp'.copy = comp.copy
<1>0. UNCHANGED <<mem, now, logVars, act, snap, graph, boot>> /\ comp.stage = f
  BY DEF Walk, Stage
<1>1. CASE \E k \in comp.left : comp' = [comp EXCEPT !.left = @ \ {k}, !.copy[f][k] = mem[f][k]]
  <2>1. PICK k \in comp.left : comp' = [comp EXCEPT !.left = @ \ {k}, !.copy[f][k] = mem[f][k]]
    BY <1>1
  <2> DEFINE copy == [comp.copy EXCEPT ![f] = [comp.copy[f] EXCEPT ![k] = mem[f][k]]]
  <2>2. /\ comp'.stage = comp.stage /\ comp'.keep = comp.keep /\ comp'.left = comp.left \ {k}
        /\ comp'.vec = comp.vec /\ comp'.wm = comp.wm /\ comp'.copy = copy
        /\ comp' = [stage |-> comp.stage, keep |-> comp.keep, copy |-> copy, left |-> comp.left \ {k},
                    vec |-> comp.vec, wm |-> comp.wm]
    BY <2>1, CompIs DEF CompType
  <2>3. k \in Keys
    BY CompIs DEF CompType
  <2>4. copy \in Snaps
    <3>1. CASE f = "zset"
      BY <2>3, <3>1, CompIs DEF Snaps, Maps
    <3>2. CASE f = "kv"
      <4>1. [comp.copy.kv EXCEPT ![k] = mem.kv[k]] = Nothing
        BY CompIs DEF Snaps, Nothing
      <4> QED
        BY <3>2, <4>1, CompIs DEF Snaps
    <3>3. CASE f = "ttl"
      <4>1. [comp.copy.ttl EXCEPT ![k] = mem.ttl[k]] = NoTTL
        BY CompIs DEF Snaps, NoTTL
      <4> QED
        BY <3>3, <4>1, CompIs DEF Snaps
    <3> QED
      BY <3>1, <3>2, <3>3
  <2> HIDE DEF copy
  <2>5. comp' \in CompType
    BY <2>2, <2>4, CompIs DEF CompType
  <2> QED
    BY <1>0, <2>2, <2>5 DEF copy
<1>2. CASE comp.left = {} /\ comp' = Goto(next)
  BY <1>0, <1>2, CompIs DEF Goto, CompType
<1> QED
  BY <1>1, <1>2 DEF Walk

LEMMA WalkStep ==
    ASSUME IInv, NEW f \in {"kv", "ttl", "zset"}, NEW next \in Stages, Walk(f, next),
           next = IF f = "kv" THEN "ttl" ELSE IF f = "ttl" THEN "zset" ELSE "rename"
    PROVE  IInv'
<1>0. /\ UNCHANGED <<mem, now, logVars, act, snap, graph, boot>> /\ comp.stage = f
      /\ comp' \in CompType /\ comp'.keep = comp.keep
  BY WalkIs
<1>1. comp'.stage \in {f, next}
  BY WalkIs
<1>2. Positions'
  BY <1>0, <1>1 DEF IInv, Positions, logVars
<1>3. SnapshotsKeep'
  BY <1>0, BasesSame DEF IInv, SnapshotsKeep, logVars
<1>4. ASSUME NEW k \in Keys, comp'.stage = "rename" \/ (comp'.stage = "zset" /\ k \notin comp'.left)
      PROVE  Kept("zset", k, comp'.copy.zset[k], comp.keep)
  <2>1. CASE f = "zset" /\ comp.left = {} /\ comp'.copy = comp.copy
    BY <1>0, <2>1 DEF IInv, CopiesKeep
  <2>2. CASE f = "zset" /\ \E x \in comp.left :
                /\ comp'.stage = f /\ comp'.left = comp.left \ {x}
                /\ comp'.copy = [comp.copy EXCEPT ![f] = [comp.copy[f] EXCEPT ![x] = mem[f][x]]]
    <3>1. PICK x \in comp.left :
                /\ comp'.stage = f /\ comp'.left = comp.left \ {x}
                /\ comp'.copy = [comp.copy EXCEPT ![f] = [comp.copy[f] EXCEPT ![x] = mem[f][x]]]
      BY <2>2
    <3>2. comp'.copy.zset = [comp.copy.zset EXCEPT ![x] = mem.zset[x]]
      BY <2>2, <3>1, CompIs DEF Snaps
    <3>3. CASE k = x
      <4>1. comp'.copy.zset[k] = mem["zset"][k]
        BY <3>2, <3>3, CompIs DEF Snaps, Maps
      <4>2. Kept("zset", k, snap.zset[k], cut) /\ cut \in Nat /\ comp.keep \in Nat /\ cut <= comp.keep
        BY <1>0, <2>2, Facts DEF IInv, SnapshotsKeep
      <4>3. Kept("zset", k, mem["zset"][k], comp.keep)
        BY <4>2, KeptCopy
      <4> QED
        BY <4>1, <4>3
    <3>4. CASE k # x
      <4>1. comp'.copy.zset[k] = comp.copy.zset[k] /\ k \notin comp.left
        BY <1>4, <2>2, <3>1, <3>2, <3>4, CompIs DEF Snaps, Maps
      <4> QED
        BY <1>0, <2>2, <4>1 DEF IInv, CopiesKeep
    <3> QED
      BY <3>3, <3>4
  <2>3. f = "zset"
    <3>1. CASE f = "ttl" /\ comp'.stage = "zset"
      BY <1>4, <3>1, WalkIs
    <3> QED
      BY <1>1, <1>4, <3>1
  <2> QED
    BY <2>1, <2>2, <2>3, WalkIs
<1>5. CopiesKeep'
  BY <1>0, <1>1, <1>4, BasesSame DEF CopiesKeep
<1> QED
  BY <1>0, <1>2, <1>3, <1>5, CompIs, CompactionStep DEF CompType

LEMMA SnapshotIterateStep == ASSUME IInv, SnapshotIterate PROVE IInv'
BY WalkStep DEF SnapshotIterate, Stages

\* A step of a compaction that keeps its copies.
LEMMA GotoIs ==
    ASSUME IInv, NEW s \in Stages
    PROVE  /\ Goto(s) \in CompType
           /\ Goto(s).stage = s /\ Goto(s).keep = comp.keep /\ Goto(s).wm = comp.wm
           /\ Goto(s).vec = comp.vec /\ Goto(s).copy = comp.copy
BY CompIs DEF Goto, CompType

LEMMA RenameSnapshotStep == ASSUME IInv, RenameSnapshot PROVE IInv'
<1>0. /\ UNCHANGED <<mem, now, logVars, act, graph, boot>> /\ comp.stage = "rename"
      /\ snap' = comp.copy /\ comp' = Goto("SetSnapshotWatermark")
  BY DEF RenameSnapshot, Stage
<1>1. /\ comp' \in CompType /\ comp'.stage = "SetSnapshotWatermark" /\ comp'.keep = comp.keep
  BY <1>0, GotoIs DEF Stages
<1>2. Positions'
  BY <1>0, <1>1 DEF IInv, Positions, logVars
<1>3. ASSUME NEW k \in Keys
      PROVE  Kept("zset", k, snap'.zset[k], cut) /\ Kept("zset", k, snap'.zset[k], comp.keep)
  <2>1. Kept("zset", k, comp.copy.zset[k], comp.keep) /\ Kept("zset", k, snap.zset[k], cut)
    BY <1>0 DEF IInv, CopiesKeep, SnapshotsKeep
  <2>2. cut \in Nat /\ comp.keep \in Nat /\ cut <= comp.keep
    BY <1>0, Facts
  <2>3. Kept("zset", k, comp.copy.zset[k], cut)
    BY <2>1, <2>2, KeptEarlier
  <2> QED
    BY <1>0, <2>1, <2>3
<1>4. SnapshotsKeep'
  BY <1>0, <1>3, BasesSame DEF IInv, SnapshotsKeep, logVars
<1>5. CopiesKeep'
  BY <1>0, <1>1, <1>3, BasesSame DEF CopiesKeep
<1> QED
  BY <1>0, <1>1, <1>2, <1>4, <1>5, CompIs, CompactionStep DEF CompType

LEMMA SetSnapshotWatermarkStep == ASSUME IInv, SetSnapshotWatermark PROVE IInv'
<1>0. /\ UNCHANGED <<mem, now, logVars, act, snap, graph, boot>> /\ comp.stage = "SetSnapshotWatermark"
      /\ comp' = [Goto("SaveBinary") EXCEPT !.wm = assigned]
  BY DEF SetSnapshotWatermark, Stage
<1>1. comp' \in CompType /\ comp'.stage = "SaveBinary" /\ comp'.keep = comp.keep /\ comp'.wm = assigned
  <2>1. Goto("SaveBinary") \in CompType /\ Goto("SaveBinary").stage = "SaveBinary" /\ Goto("SaveBinary").keep = comp.keep
    BY GotoIs DEF Stages
  <2> QED
    BY <1>0, <2>1, Facts DEF CompType
<1>2. Positions'
  BY <1>0, <1>1, Facts DEF IInv, Positions, logVars
<1>3. SnapshotsKeep'
  BY <1>0, BasesSame DEF IInv, SnapshotsKeep, logVars
<1>4. CopiesKeep'
  BY <1>0, <1>1, BasesSame DEF IInv, CopiesKeep
<1> QED
  BY <1>0, <1>1, <1>2, <1>3, <1>4, CompIs, CompactionStep DEF CompType

LEMMA SaveBinaryStep == ASSUME IInv, SaveBinary PROVE IInv'
<1>0. /\ UNCHANGED <<mem, now, logVars, act, snap, graph, boot>> /\ comp.stage = "SaveBinary"
      /\ comp' = [Goto("renameGraph") EXCEPT !.vec = mem.vec]
  BY DEF SaveBinary, Stage
<1>1. /\ comp' \in CompType /\ comp'.stage = "renameGraph" /\ comp'.keep = comp.keep
      /\ comp'.wm = comp.wm /\ comp'.vec = mem.vec
  <2>1. /\ Goto("renameGraph") \in CompType /\ Goto("renameGraph").stage = "renameGraph"
        /\ Goto("renameGraph").keep = comp.keep /\ Goto("renameGraph").wm = comp.wm
    BY GotoIs DEF Stages
  <2> QED
    BY <1>0, <2>1, CompIs DEF CompType
<1>2. Positions'
  BY <1>0, <1>1 DEF IInv, Positions, logVars
<1>3. SnapshotsKeep'
  BY <1>0, BasesSame DEF IInv, SnapshotsKeep, logVars
<1>4. ASSUME NEW k \in Keys PROVE Kept("vec", k, mem.vec[k], comp.wm)
  <2>1. Kept("vec", k, graph.vec[k], MaxOf(cut, graph.wm))
    BY DEF IInv, SnapshotsKeep
  <2>2. comp.keep <= comp.wm /\ graph.wm <= comp.wm /\ cut <= comp.keep
    BY <1>0 DEF IInv, Positions
  <2>3. MaxOf(cut, graph.wm) \in Nat /\ comp.wm \in Nat /\ MaxOf(cut, graph.wm) <= comp.wm
    BY <2>2, Facts DEF MaxOf
  <2> QED
    BY <2>1, <2>3, KeptCopy
<1>5. CopiesKeep'
  BY <1>0, <1>1, <1>4, BasesSame DEF IInv, CopiesKeep
<1> QED
  BY <1>0, <1>1, <1>2, <1>3, <1>5, CompIs, CompactionStep DEF CompType

LEMMA RenameGraphStep == ASSUME IInv, RenameGraph PROVE IInv'
<1>0. /\ UNCHANGED <<mem, now, logVars, act, snap, boot>> /\ comp.stage = "renameGraph"
      /\ comp' = Goto("CleanupOldWALs") /\ graph' = [wm |-> comp.wm, vec |-> comp.vec]
  BY DEF RenameGraph, Stage
<1>1. comp' \in CompType /\ comp'.stage = "CleanupOldWALs" /\ comp'.keep = comp.keep
  BY <1>0, GotoIs DEF Stages
<1>2. Positions'
  BY <1>0, <1>1 DEF IInv, Positions, logVars
<1>3. MaxOf(cut, comp.wm) = comp.wm
  <2>1. cut <= comp.keep /\ comp.keep <= comp.wm
    BY <1>0 DEF IInv, Positions
  <2> QED
    BY <2>1, Facts DEF MaxOf
<1>4. SnapshotsKeep'
  <2>1. \A k \in Keys : Kept("vec", k, graph'.vec[k], MaxOf(cut', graph'.wm))
    BY <1>0, <1>3 DEF IInv, CopiesKeep, logVars
  <2> QED
    BY <1>0, <2>1, BasesSame DEF IInv, SnapshotsKeep, logVars
<1>5. CopiesKeep'
  BY <1>0, <1>1, BasesSame DEF IInv, CopiesKeep
<1>6. graph' \in [wm : Nat, vec : Maps]
  BY <1>0, CompIs DEF CompType
<1> QED
  BY <1>0, <1>1, <1>2, <1>4, <1>5, <1>6, CompIs, CompactionStep DEF CompType

LEMMA CleanupStep == ASSUME IInv, CleanupOldWALs PROVE IInv'
<1>0. /\ UNCHANGED <<mem, now, log, assigned, written, durable, act, snap, graph, boot>>
      /\ comp.stage = "CleanupOldWALs" /\ cut' = comp.keep /\ comp' = NoComp
  BY DEF CleanupOldWALs, Stage
<1>1. comp' \in CompType /\ comp'.stage = "idle"
  <2>1. NoSnap \in Snaps /\ Nothing \in Maps
    BY DEF NoSnap, Snaps, Maps, Nothing, Maybe
  <2> QED
    BY <1>0, <2>1 DEF NoComp, CompType, Stages
<1>2. TypeInv'
  BY <1>0, <1>1, Facts DEF IInv, TypeInv, CompType
<1>3. Positions'
  BY <1>0, <1>1, Facts DEF IInv, Positions
<1>4. MaxOf(cut', graph.wm) = MaxOf(cut, graph.wm)
  <2>1. cut <= comp.keep /\ comp.keep <= graph.wm
    BY <1>0 DEF IInv, Positions
  <2> QED
    BY <1>0, <2>1, Facts DEF MaxOf
<1>5. \A f, k, b, p : Kept(f, k, b, p) => Kept(f, k, b, p)'
  BY <1>0, Facts, BasesRest
<1>6. SnapshotsKeep'
  BY <1>0, <1>4, <1>5 DEF IInv, SnapshotsKeep, CopiesKeep
<1>7. CopiesKeep'
  BY <1>1 DEF CopiesKeep
<1> QED
  BY <1>0, <1>2, <1>3, <1>6, <1>7, HandlersRest DEF IInv

(***************************************************************************)
(* The handlers                                                            *)
(***************************************************************************)
\* The stages of a handler are told apart by what it has yet to do.
LEMMA StagesDiffer ==
    ASSUME NEW a, NEW f \in Fields, NEW g \in Fields
    PROVE  /\ Owes(a, f) => ~Changes(a, g) /\ act[a].todo # <<>>
           /\ Changes(a, f) => act[a].todo # <<>>
           /\ Owes(a, f) /\ Owes(a, g) => f = g
           /\ Changes(a, f) /\ Changes(a, g) => f = g
<1>1. \A x, y : /\ Len(<<x>>) = 1 /\ Len(<<x, y>>) = 2 /\ Head(<<x>>) = x /\ Head(<<x, y>>) = x
                /\ <<x>> # <<>> /\ <<x, y>> # <<>>
  OBVIOUS
<1>2. Owes(a, f) => /\ act[a].todo # <<>> /\ Len(act[a].todo) = 1
                    /\ Head(act[a].todo) \in OpsOn(f)
  BY <1>1 DEF Owes, OpsOn
<1>3. Owes(a, g) => Head(act[a].todo) \in OpsOn(g)
  BY <1>1 DEF Owes, OpsOn
<1>4. Changes(a, f) => act[a].todo # <<>> /\ Head(act[a].todo) \in {AddCall(f), DelCall(f)}
  BY <1>1 DEF Changes
<1>5. Changes(a, g) => Head(act[a].todo) \in {AddCall(g), DelCall(g)}
  BY <1>1 DEF Changes
<1>6. /\ f # g => OpsOn(f) \cap OpsOn(g) = {} /\ {AddCall(f), DelCall(f)} \cap {AddCall(g), DelCall(g)} = {}
      /\ OpsOn(f) \cap {AddCall(g), DelCall(g)} = {}
  BY DEF Fields, OpsOn, Adds, Dels, AddCall, DelCall
<1> QED
  BY <1>2, <1>3, <1>4, <1>5, <1>6, Zenon

\* A handler at work is a client's, and no other handler has its key.
LEMMA OnlyActor ==
    ASSUME IInv, OneClientPerKey, NEW a \in Actors, act[a].todo # <<>>
    PROVE  /\ a \in Clients /\ act[a].key \in Keys /\ act[a].val \in Maybe(Values)
           /\ act[a] \in [key : Maybe(Keys), val : Maybe(Values), at : Deadline, todo : Seq(HandlerCalls)]
           /\ \A d \in Actors : d # a /\ act[d].todo # <<>> => act[d].key # act[a].key
<1>1. \A d \in Actors : act[d].todo # <<>> => d \in Clients /\ act[d].key \in OwnKeys[d]
  BY DEF IInv, Handlers
<1>2. \A d \in Clients : OwnKeys[d] \in SUBSET Keys
  BY OwnAssumption
<1>3. act[a] \in [key : Maybe(Keys), val : Maybe(Values), at : Deadline, todo : Seq(HandlerCalls)]
  BY DEF IInv, TypeInv
<1> QED
  BY <1>1, <1>2, <1>3 DEF OneClientPerKey

LEMMA Calls == ASSUME NEW S, NEW x \in S, NEW y \in S PROVE <<x>> \in Seq(S) /\ <<x, y>> \in Seq(S)
<1>1. <<x>> = [i \in 1..1 |-> x] /\ <<x, y>> = [i \in 1..2 |-> IF i = 1 THEN x ELSE y]
  OBVIOUS
<1> QED
  BY <1>1

LEMMA BeginStep ==
    ASSUME IInv, OneClientPerKey, NEW c \in Clients, NEW op \in KnownOps, NEW k \in Keys,
           NEW v \in Maybe(Values), NEW at \in Deadline, Begin(c, op, k, v, at)
    PROVE  IInv'
<1>0. /\ UNCHANGED <<mem, now, log, assigned, written, durable, cut, comp, snap, graph, boot>>
      /\ c \in Actors /\ act[c].todo = <<>> /\ k \in OwnKeys[c]
  BY DEF Begin, Idle, logVars, Actors
<1> DEFINE call == [key |-> k, val |-> v, at |-> at, todo |-> Script(op)]
<1>1. act' = [act EXCEPT ![c] = call] /\ DOMAIN act = Actors
  BY DEF Begin, IInv, TypeInv
<1>2. op \in MemoryFirst /\ (op \in {"VSIM.ADD", "ZADD"} <=> v # None)
  <2>1. op \in MemoryFirst
    BY DEF Begin, OneClientPerKey
  <2> QED
    BY <2>1 DEF Begin, MemoryFirst
<1>3a. /\ "vec" \in Fields /\ "zset" \in Fields
       /\ \A f \in Fields : <<AddCall(f), Adds(f)>> \in Seq(HandlerCalls) /\ <<DelCall(f)>> \in Seq(HandlerCalls)
  <2>1. "vec" \in Fields /\ "zset" \in Fields
    BY DEF Fields
  <2>2. ASSUME NEW f \in Fields
        PROVE  <<AddCall(f), Adds(f)>> \in Seq(HandlerCalls) /\ <<DelCall(f)>> \in Seq(HandlerCalls)
    <3>1. AddCall(f) \in HandlerCalls /\ Adds(f) \in HandlerCalls /\ DelCall(f) \in HandlerCalls
      BY DEF AddCall, Adds, DelCall, HandlerCalls, WalOps
    <3> QED
      BY <3>1, Calls
  <2> QED
    BY <2>1, <2>2
<1>3. /\ Script(op) \in Seq(HandlerCalls)
      /\ \E f \in Fields : \/ Script(op) = <<AddCall(f), Adds(f)>> /\ v # None
                           \/ Script(op) = <<DelCall(f)>> /\ v = None
  <2>1. CASE op = "VSIM.ADD"
    <3>1. Script(op) = <<AddCall("vec"), Adds("vec")>> /\ v # None
      BY <1>2, <2>1 DEF Script, VectorScript, AddCall, Adds
    <3> QED
      BY <1>3a, <3>1, Zenon
  <2>2. CASE op = "VSIM.DEL"
    <3>1. Script(op) = <<DelCall("vec")>> /\ v = None
      BY <1>2, <2>2 DEF Script, VectorScript, DelCall
    <3> QED
      BY <1>3a, <3>1, Zenon
  <2>3. CASE op = "ZADD"
    <3>1. Script(op) = <<AddCall("zset"), Adds("zset")>> /\ v # None
      BY <1>2, <2>3 DEF Script, ZSetScript, AddCall, Adds
    <3> QED
      BY <1>3a, <3>1, Zenon
  <2>4. CASE op = "ZREM"
    <3>1. Script(op) = <<DelCall("zset")>> /\ v = None
      BY <1>2, <2>4 DEF Script, ZSetScript, DelCall
    <3> QED
      BY <1>3a, <3>1, Zenon
  <2> QED
    BY <1>2, <2>1, <2>2, <2>3, <2>4 DEF MemoryFirst
<1>4. /\ act'[c].key = k /\ act'[c].val = v /\ act'[c].todo = Script(op)
      /\ \A a \in Actors : a # c => act'[a] = act[a]
  BY <1>0, <1>1
<1>5. TypeInv'
  <2>1. call \in [key : Maybe(Keys), val : Maybe(Values), at : Deadline, todo : Seq(HandlerCalls)]
    BY <1>3 DEF Maybe
  <2>2. act' \in [Actors -> [key : Maybe(Keys), val : Maybe(Values), at : Deadline, todo : Seq(HandlerCalls)]]
    BY <1>0, <1>1, <2>1 DEF IInv, TypeInv
  <2> QED
    BY <1>0, <2>2 DEF IInv, TypeInv
<1> HIDE DEF call
<1>6. Positions'
  BY <1>0 DEF IInv, Positions
<1>7. \A a \in Actors, f \in Fields : a # c => (Owes(a, f)' <=> Owes(a, f)) /\ (Changes(a, f)' <=> Changes(a, f))
  BY <1>0, <1>4 DEF Owes, Changes
<1>8. Handlers'
  <2>1. \E f \in Fields : Changes(c, f)'
    BY <1>3, <1>4 DEF Changes
  <2> QED
    BY <1>0, <1>4, <1>7, <2>1 DEF IInv, Handlers
<1>9. Booked'
  <2>1. ASSUME NEW f \in Fields, NEW x \in Keys, Pending(f, x) PROVE Pending(f, x)'
    <3>1. PICK d \in Clients : act[d].key = x /\ Owes(d, f)
      BY <2>1 DEF Pending
    <3>2. d # c
      BY <1>0, <3>1, StagesDiffer
    <3> QED
      BY <1>4, <1>7, <3>1, <3>2 DEF Pending, Actors
  <2>2. \A f, x, n, w : Was(f, x, n, w)' <=> Was(f, x, n, w)
    BY <1>0 DEF Was
  <2> QED
    BY <1>0, <2>1, <2>2 DEF IInv, Booked
<1>10. \A f, x, b, p : Kept(f, x, b, p)' <=> Kept(f, x, b, p)
  BY <1>0, BasesSame DEF logVars
<1>11. SnapshotsKeep' /\ CopiesKeep'
  BY <1>0, <1>10 DEF IInv, SnapshotsKeep, CopiesKeep
<1> QED
  BY <1>5, <1>6, <1>8, <1>9, <1>11 DEF IInv

\* No key has a deadline here.
LEMMA EvictStep == ASSUME IInv, NEW k \in Keys, Evict(k) PROVE FALSE
BY CompIs DEF Evict, Past, NoTTL

LEMMA LogStep == ASSUME IInv, OneClientPerKey, NEW a \in Actors, Log(a) PROVE IInv'
<1>0. /\ UNCHANGED <<mem, now, assigned, written, durable, cut, comp, snap, graph, boot>>
      /\ act[a].todo # <<>> /\ Head(act[a].todo) \in WalOps
      /\ act' = [act EXCEPT ![a].todo = Tail(@)]
  BY DEF Log, Idle
<1> DEFINE r == [op |-> Head(act[a].todo), key |-> act[a].key, val |-> act[a].val, at |-> act[a].at]
<1>1. log' = Append(log, r)
  BY DEF Log
<1>2. PICK f \in Fields : Owes(a, f)
  <2>1. PICK f \in Fields : Owes(a, f) \/ Changes(a, f)
    BY <1>0 DEF IInv, Handlers
  <2>2. ~Changes(a, f)
    <3>1. \A x, y : Head(<<x>>) = x /\ Head(<<x, y>>) = x
      OBVIOUS
    <3>2. Changes(a, f) => Head(act[a].todo) \in {"vec.Add", "zset.ZAdd", "vec.Delete?", "zset.ZRem?"}
      BY <3>1 DEF Changes, AddCall, DelCall
    <3> QED
      BY <1>0, <3>2 DEF WalOps
  <2> QED
    BY <2>1, <2>2
<1>3. /\ a \in Clients /\ act[a].key \in Keys /\ act[a].val \in Maybe(Values) /\ act[a].at \in Deadline
      /\ DOMAIN act = Actors
      /\ \A d \in Actors : d # a /\ act[d].todo # <<>> => act[d].key # act[a].key
  BY <1>0, OnlyActor DEF IInv, TypeInv
<1>4. /\ r.op \in OpsOn(f) /\ r.key = act[a].key /\ r.val = mem[f][r.key] /\ r.at \in Deadline
      /\ r.op = Adds(f) <=> r.val # None
      /\ Tail(act[a].todo) = <<>>
  <2>1. \A x : Head(<<x>>) = x /\ Tail(<<x>>) = <<>>
    OBVIOUS
  <2>2. Adds(f) # Dels(f)
    BY DEF Adds, Dels
  <2> QED
    BY <1>2, <1>3, <2>1, <2>2 DEF Owes, OpsOn
<1>5. r \in Records
  <2>1. r.op \in WalOps /\ r.op \in OpsOn("vec") \cup OpsOn("zset")
    BY <1>4 DEF Fields, OpsOn, Adds, Dels, WalOps
  <2>2. r \in Record
    BY <1>3, <2>1 DEF Record
  <2>3. r.op \in {Adds("vec"), Adds("zset")} <=> r.op = Adds(f)
    BY <1>4 DEF Fields, OpsOn, Adds, Dels
  <2> HIDE DEF r
  <2> QED
    BY <1>4, <2>1, <2>2, <2>3 DEF Records
<1>6. /\ act'[a].todo = <<>> /\ \A d \in Actors : d # a => act'[d] = act[d]
  BY <1>0, <1>3, <1>4
<1> HIDE DEF r
<1>7. PICK L : L = Len(log)
  OBVIOUS
<1>8. /\ L \in Nat /\ log' \in Logs /\ Len(log') = L + 1 /\ \A i \in 1..L : log'[i] = log[i]
      /\ log'[L + 1] = r /\ boot.lsn \in Nat /\ boot.lsn <= L
  <2>1. log \in Seq(Records \cup {Lost})
    BY DEF IInv, TypeInv, Logs
  <2> QED
    BY <1>1, <1>5, <1>7, <2>1, Facts, AppendProperties DEF Logs
<1>9. TypeInv'
  <2>1. Tail(act[a].todo) \in Seq(HandlerCalls)
    <3>1. <<>> \in Seq(HandlerCalls)
      OBVIOUS
    <3> QED
      BY <1>4, <3>1
  <2>2. act' \in [Actors -> [key : Maybe(Keys), val : Maybe(Values), at : Deadline, todo : Seq(HandlerCalls)]]
    BY <1>0, <2>1 DEF IInv, TypeInv
  <2> QED
    BY <1>0, <1>8, <2>2 DEF IInv, TypeInv
<1>10. Positions'
  BY <1>0, <1>7, <1>8, Facts DEF IInv, Positions
<1>11. \A d \in Actors, g \in Fields :
         d # a => (Owes(d, g)' <=> Owes(d, g)) /\ (Changes(d, g)' <=> Changes(d, g))
  BY <1>0, <1>6 DEF Owes, Changes
<1>12. Handlers'
  BY <1>6, <1>11 DEF IInv, Handlers
<1>13. Booked'
  <2> SUFFICES ASSUME NEW g \in Fields, NEW k \in Keys
               PROVE  Pending(g, k)' \/ Was(g, k, L + 1, mem[g][k])'
    BY <1>0, <1>8 DEF Booked
  <2>1. CASE Touches(log', g, k, L + 1)
    <3>1. g = f /\ k = r.key
      BY <1>4, <1>8, <2>1 DEF Touches, OpsOn, Adds, Dels, Fields
    <3>2. L + 1 \in (boot.lsn + 1)..(L + 1) /\ \A j \in ((L + 1) + 1)..(L + 1) : FALSE
      BY <1>8
    <3>3. IsValue(log', g, k, boot.st[g][k], boot.lsn, L + 1, mem[g][k])
      BY <1>4, <1>8, <2>1, <3>1, <3>2 DEF IsValue
    <3> QED
      BY <1>0, <3>3 DEF Was
  <2>2. CASE ~Touches(log', g, k, L + 1)
    <3>1. CASE Pending(g, k)
      <4>1. PICK d \in Clients : act[d].key = k /\ Owes(d, g)
        BY <3>1 DEF Pending
      <4>2. d # a
        <5>1. d = a => g = f
          BY <1>2, <4>1, StagesDiffer
        <5> QED
          BY <1>4, <1>8, <2>2, <4>1, <5>1 DEF Touches
      <4> QED
        BY <1>6, <1>11, <4>1, <4>2 DEF Pending, Actors
    <3>2. CASE Was(g, k, L, mem[g][k])
      <4>1. IsValue(log', g, k, boot.st[g][k], boot.lsn, L, mem[g][k])
        <5>1. \A i \in 1..L : log'[i] = log[i]
          BY <1>8
        <5> QED
          <6>1. L \in Nat /\ boot.lsn \in Nat
            BY <1>8
          <6>2. IsValue(log, g, k, boot.st[g][k], boot.lsn, L, mem[g][k])
            BY <3>2 DEF Was
          <6> QED
            BY <5>1, <6>1, <6>2, ValueSame
      <4>2. IsValue(log', g, k, boot.st[g][k], boot.lsn, L + 1, mem[g][k])
        BY <1>8, <2>2, <4>1, ValueNext
      <4> QED
        BY <1>0, <4>2 DEF Was
    <3> QED
      BY <1>7, <3>1, <3>2 DEF IInv, Booked
  <2> QED
    BY <2>1, <2>2
<1>14. \A g, k, b : \A p \in 0..L : Kept(g, k, b, p) => Kept(g, k, b, p)'
  BY <1>0, <1>1, <1>7, KeptLog
<1>15. SnapshotsKeep'
  <2>1. MaxOf(cut, graph.wm) \in 0..L /\ cut \in 0..L
    BY <1>7, Facts
  <2> QED
    BY <1>0, <1>14, <2>1 DEF IInv, SnapshotsKeep
<1>16. CopiesKeep'
  <2>1. comp.stage # "idle" => comp.keep \in 0..L
    BY <1>7, Facts
  <2>2. comp.stage = "renameGraph" => comp.wm \in 0..L
    BY <1>7, Facts
  <2> QED
    BY <1>0, <1>14, <2>1, <2>2 DEF IInv, CopiesKeep
<1> QED
  BY <1>9, <1>10, <1>12, <1>13, <1>15, <1>16 DEF IInv

\* The store that a call on it changes, and what the handler does next.
LEMMA StoreIs ==
    ASSUME IInv, NEW a \in Actors, Store(a)
    PROVE  /\ UNCHANGED <<now, logVars, comp, snap, graph, boot>> /\ act[a].todo # <<>>
           /\ \E f \in Fields : \E then \in Seq(HandlerCalls) :
                /\ Changes(a, f)
                /\ mem' = [mem EXCEPT ![f][act[a].key] = act[a].val]
                /\ act' = [act EXCEPT ![a].todo = then]
                /\ \/ then = <<Adds(f)>> /\ act[a].val # None
                   \/ then = <<Dels(f)>> /\ act[a].val = None
                   \/ then = <<>> /\ act[a].val = None /\ mem[f][act[a].key] = None
<1>1. /\ UNCHANGED <<now, logVars, comp, snap, graph, boot>> /\ act[a].todo # <<>>
      /\ Head(act[a].todo) \notin WalOps
  BY DEF Store, Call, Doing, Idle, WalOps
<1>2. PICK f \in Fields : Changes(a, f)
  <2>1. PICK f \in Fields : Owes(a, f) \/ Changes(a, f)
    BY <1>1 DEF IInv, Handlers
  <2>2. ~Owes(a, f)
    <3>1. \A x : Head(<<x>>) = x
      OBVIOUS
    <3>2. Owes(a, f) => Head(act[a].todo) \in OpsOn(f)
      BY <3>1 DEF Owes, OpsOn
    <3> QED
      BY <1>1, <3>2 DEF OpsOn, Adds, Dels, WalOps
  <2> QED
    BY <2>1, <2>2
<1>3. \A x, y : Head(<<x>>) = x /\ Head(<<x, y>>) = x /\ Tail(<<x>>) = <<>> /\ Tail(<<x, y>>) = <<y>>
  OBVIOUS
<1>4. <<>> \in Seq(HandlerCalls) /\ <<Adds(f)>> \in Seq(HandlerCalls) /\ <<Dels(f)>> \in Seq(HandlerCalls)
  <2>1. Adds(f) \in HandlerCalls /\ Dels(f) \in HandlerCalls
    BY DEF Adds, Dels, HandlerCalls, WalOps
  <2> QED
    BY <2>1, Calls
<1>5. \A s \in Seq(HandlerCalls) : <<>> \o s = s /\ s \o <<>> = s
  OBVIOUS
<1>6. CASE act[a].todo = <<AddCall(f), Adds(f)>> /\ act[a].val # None
  <2>1. Head(act[a].todo) = AddCall(f) /\ <<>> \o Tail(act[a].todo) = <<Adds(f)>>
    BY <1>3, <1>4, <1>5, <1>6
  <2>2. /\ mem' = [mem EXCEPT ![f][act[a].key] = act[a].val]
        /\ act' = [act EXCEPT ![a].todo = <<>> \o Tail(act[a].todo)]
    <3>1. CASE f = "vec"
      BY <2>1, <3>1 DEF Store, Call, Doing, AddCall
    <3>2. CASE f = "zset"
      BY <2>1, <3>2 DEF Store, Call, Doing, AddCall
    <3> QED
      BY <3>1, <3>2 DEF Fields
  <2> QED
    BY <1>1, <1>2, <1>4, <1>6, <2>1, <2>2
<1>7. CASE act[a].todo = <<DelCall(f)>> /\ act[a].val = None
  <2>1. Head(act[a].todo) = DelCall(f) /\ Tail(act[a].todo) = <<>>
    BY <1>3, <1>7
  <2> DEFINE then == IfThere(a, f, None, Dels(f))
  <2>2. /\ mem' = [mem EXCEPT ![f][act[a].key] = None]
        /\ act' = [act EXCEPT ![a].todo = then \o Tail(act[a].todo)]
    <3>1. CASE f = "vec"
      BY <2>1, <3>1 DEF Store, Call, Doing, DelCall, Dels
    <3>2. CASE f = "zset"
      BY <2>1, <3>2 DEF Store, Call, Doing, DelCall, Dels
    <3> QED
      BY <3>1, <3>2 DEF Fields
  <2>3. \/ then = <<Dels(f)>>
        \/ then = <<>> /\ mem[f][act[a].key] = None
    BY DEF IfThere
  <2> HIDE DEF then
  <2>4. then \in Seq(HandlerCalls) /\ then \o Tail(act[a].todo) = then
    BY <1>4, <1>5, <2>1, <2>3
  <2> QED
    BY <1>1, <1>2, <1>7, <2>2, <2>3, <2>4
<1> QED
  BY <1>2, <1>6, <1>7 DEF Changes

LEMMA StoreStep == ASSUME IInv, OneClientPerKey, NEW a \in Actors, Store(a) PROVE IInv'
<1>0. UNCHANGED <<log, assigned, written, durable, cut, comp, snap, graph, boot>> /\ act[a].todo # <<>>
  BY StoreIs DEF logVars
<1>1. PICK f \in Fields : \E then \in Seq(HandlerCalls) :
                /\ Changes(a, f)
                /\ mem' = [mem EXCEPT ![f][act[a].key] = act[a].val]
                /\ act' = [act EXCEPT ![a].todo = then]
                /\ \/ then = <<Adds(f)>> /\ act[a].val # None
                   \/ then = <<Dels(f)>> /\ act[a].val = None
                   \/ then = <<>> /\ act[a].val = None /\ mem[f][act[a].key] = None
  BY StoreIs
<1>2. PICK then \in Seq(HandlerCalls) :
                /\ Changes(a, f)
                /\ mem' = [mem EXCEPT ![f][act[a].key] = act[a].val]
                /\ act' = [act EXCEPT ![a].todo = then]
                /\ \/ then = <<Adds(f)>> /\ act[a].val # None
                   \/ then = <<Dels(f)>> /\ act[a].val = None
                   \/ then = <<>> /\ act[a].val = None /\ mem[f][act[a].key] = None
  BY <1>1
<1>3. /\ a \in Clients /\ act[a].key \in Keys /\ act[a].val \in Maybe(Values)
      /\ act[a] \in [key : Maybe(Keys), val : Maybe(Values), at : Deadline, todo : Seq(HandlerCalls)]
      /\ act \in [Actors -> [key : Maybe(Keys), val : Maybe(Values), at : Deadline, todo : Seq(HandlerCalls)]]
      /\ \A d \in Actors : d # a /\ act[d].todo # <<>> => act[d].key # act[a].key
  BY <1>0, OnlyActor DEF IInv, TypeInv
<1>4. PICK key : key = act[a].key
  OBVIOUS
<1>5. /\ mem' \in States /\ mem'[f][key] = act[a].val
      /\ \A g \in Fields, k \in Keys : g # f \/ k # key => mem'[g][k] = mem[g][k]
  <2>1. mem \in States /\ key \in Keys
    BY <1>3, <1>4 DEF IInv, TypeInv
  <2>2. CASE f = "vec"
    <3>1. mem' = [mem EXCEPT !.vec = [mem.vec EXCEPT ![key] = act[a].val]]
      BY <1>2, <1>4, <2>2
    <3>2. mem'.vec = [mem.vec EXCEPT ![key] = act[a].val] /\ mem'.zset = mem.zset
      BY <2>1, <3>1 DEF States
    <3>3. mem' \in States
      BY <1>3, <2>1, <3>1 DEF States
    <3> QED
      BY <2>1, <2>2, <3>2, <3>3 DEF States, Fields
  <2>3. CASE f = "zset"
    <3>1. mem' = [mem EXCEPT !.zset = [mem.zset EXCEPT ![key] = act[a].val]]
      BY <1>2, <1>4, <2>3
    <3>2. mem'.zset = [mem.zset EXCEPT ![key] = act[a].val] /\ mem'.vec = mem.vec
      BY <2>1, <3>1 DEF States
    <3>3. mem' \in States
      BY <1>3, <2>1, <3>1 DEF States
    <3> QED
      BY <2>1, <2>3, <3>2, <3>3 DEF States, Fields
  <2> QED
    BY <2>2, <2>3 DEF Fields
<1>6. /\ act'[a].key = key /\ act'[a].val = act[a].val /\ act'[a].todo = then
      /\ \A d \in Actors : d # a => act'[d] = act[d]
  BY <1>2, <1>3, <1>4
<1>7. TypeInv'
  <2>1. act' \in [Actors -> [key : Maybe(Keys), val : Maybe(Values), at : Deadline, todo : Seq(HandlerCalls)]]
    BY <1>2, <1>3
  <2> QED
    BY <1>0, <1>5, <2>1 DEF IInv, TypeInv
<1>8. Positions'
  BY <1>0 DEF IInv, Positions
<1>9. \A d \in Actors, g \in Fields :
        /\ d # a /\ Owes(d, g) => Owes(d, g)'
        /\ d # a /\ Changes(d, g) => Changes(d, g)'
  <2> TAKE d \in Actors, g \in Fields
  <2>1. d # a /\ Changes(d, g) => Changes(d, g)'
    BY <1>6 DEF Changes
  <2>2. ASSUME d # a, Owes(d, g) PROVE Owes(d, g)'
    <3>1. act[d].todo # <<>>
      BY <2>2, StagesDiffer
    <3>2. act[d].key # key /\ act[d].key \in Keys
      BY <1>3, <1>4, <2>2, <3>1, OnlyActor
    <3>3. mem'[g][act[d].key] = mem[g][act[d].key]
      BY <1>5, <3>2
    <3> QED
      BY <1>6, <2>2, <3>3 DEF Owes
  <2> QED
    BY <2>1, <2>2
<1>10. Handlers'
  <2>1. then # <<>> => Owes(a, f)'
    BY <1>2, <1>5, <1>6 DEF Owes
  <2>2. ASSUME NEW d \in Actors, act'[d].todo # <<>>
        PROVE  /\ d \in Clients /\ act'[d].key \in OwnKeys[d]
               /\ \E g \in Fields : Owes(d, g)' \/ Changes(d, g)'
    <3>1. CASE d = a
      <4>1. act[a].key \in OwnKeys[a]
        BY <1>0 DEF IInv, Handlers
      <4> QED
        BY <1>3, <1>4, <1>6, <2>1, <2>2, <3>1, <4>1
    <3>2. CASE d # a
      <4>1. act'[d] = act[d]
        BY <1>6, <3>2
      <4>2. d \in Clients /\ act[d].key \in OwnKeys[d] /\ \E g \in Fields : Owes(d, g) \/ Changes(d, g)
        BY <2>2, <4>1 DEF IInv, Handlers
      <4> QED
        BY <1>9, <3>2, <4>1, <4>2
    <3> QED
      BY <3>1, <3>2
  <2> QED
    BY <2>2 DEF Handlers
\* The log has what memory had.
<1>11. Was(f, key, Len(log), mem[f][key])
  <2>1. ~Pending(f, key)
    <3> SUFFICES ASSUME NEW d \in Clients, act[d].key = key, Owes(d, f) PROVE FALSE
      BY DEF Pending
    <3>1. act[d].todo # <<>> /\ d \in Actors
      BY StagesDiffer DEF Actors
    <3>2. d = a
      BY <1>3, <1>4, <3>1
    <3> QED
      BY <1>2, <3>2, StagesDiffer
  <2> QED
    BY <1>3, <1>4, <2>1 DEF IInv, Booked
<1>12. \A g, k, n, v : Was(g, k, n, v)' <=> Was(g, k, n, v)
  BY <1>0 DEF Was
<1>13. Booked'
  <2> SUFFICES ASSUME NEW g \in Fields, NEW k \in Keys
               PROVE  Pending(g, k)' \/ Was(g, k, Len(log), mem'[g][k])
    BY <1>0, <1>12 DEF Booked
  <2>1. CASE g = f /\ k = key
    <3>1. CASE then # <<>>
      <4>1. Owes(a, f)' /\ act'[a].key = k
        BY <1>2, <1>5, <1>6, <2>1, <3>1 DEF Owes
      <4> QED
        BY <1>3, <2>1, <4>1 DEF Pending
    <3>2. CASE then = <<>>
      <4>1. mem'[f][key] = mem[f][key]
        <5>1. then # <<Adds(f)>> /\ then # <<Dels(f)>>
          <6>1. \A x : <<x>> # <<>>
            OBVIOUS
          <6> QED
            BY <3>2, <6>1
        <5> QED
          BY <1>2, <1>4, <1>5, <5>1
      <4> QED
        BY <1>11, <2>1, <4>1
    <3> QED
      BY <3>1, <3>2
  <2>2. CASE ~(g = f /\ k = key)
    <3>1. mem'[g][k] = mem[g][k]
      BY <1>5, <2>2
    <3>2. Pending(g, k) => Pending(g, k)'
      <4> SUFFICES ASSUME NEW d \in Clients, act[d].key = k, Owes(d, g) PROVE Pending(g, k)'
        BY DEF Pending
      <4>1. d # a
        <5>1. d = a => k = key
          BY <1>4
        <5>2. d = a => g = f
          BY <1>2, StagesDiffer
        <5> QED
          BY <2>2, <5>1, <5>2
      <4>2. d \in Actors
        BY DEF Actors
      <4> QED
        BY <1>6, <1>9, <4>1, <4>2 DEF Pending
    <3> QED
      BY <3>1, <3>2 DEF IInv, Booked
  <2> QED
    BY <2>1, <2>2
<1>14. \A g \in Fields, k \in Keys : \A b, p : Kept(g, k, b, p) => Kept(g, k, b, p)'
  <2> TAKE g \in Fields, k \in Keys
  <2>1. mem'[g][k] = mem[g][k] \/ Was(g, k, Len(log), mem[g][k])
    BY <1>5, <1>11
  <2> QED
    BY <1>0, <2>1, KeptStore
<1>15. "vec" \in Fields /\ "zset" \in Fields
  BY DEF Fields
<1>16. SnapshotsKeep'
  BY <1>0, <1>14, <1>15 DEF IInv, SnapshotsKeep
<1>17. CopiesKeep'
  BY <1>0, <1>14, <1>15 DEF IInv, CopiesKeep
<1> QED
  BY <1>7, <1>8, <1>10, <1>13, <1>16, <1>17 DEF IInv

(***************************************************************************)
(* Restart                                                                 *)
(***************************************************************************)
\* Records that are about nothing change nothing.
LEMMA ValueLost ==
    ASSUME NEW l, NEW f, NEW k, NEW b, NEW p \in Nat, NEW n \in Nat, NEW m \in Nat, n <= m, NEW v,
           IsValue(l, f, k, b, p, n, v), \A j \in (n + 1)..m : ~Touches(l, f, k, j)
    PROVE  IsValue(l, f, k, b, p, m, v)
<1>1. CASE \E i \in (p + 1)..n : /\ Touches(l, f, k, i) /\ v = l[i].val
                                 /\ \A j \in (i + 1)..n : ~Touches(l, f, k, j)
  <2>1. PICK i \in (p + 1)..n : /\ Touches(l, f, k, i) /\ v = l[i].val
                                /\ \A j \in (i + 1)..n : ~Touches(l, f, k, j)
    BY <1>1
  <2>2. i \in (p + 1)..m /\ \A j \in (i + 1)..m : j \in (i + 1)..n \/ j \in (n + 1)..m
    OBVIOUS
  <2> QED
    BY <2>1, <2>2 DEF IsValue
<1>2. CASE v = b /\ \A j \in (p + 1)..n : ~Touches(l, f, k, j)
  <2>1. \A j \in (p + 1)..m : j \in (p + 1)..n \/ j \in (n + 1)..m
    OBVIOUS
  <2> QED
    BY <1>2, <2>1 DEF IsValue
<1> QED
  BY <1>1, <1>2 DEF IsValue

LEMMA SnapshotsAre ==
    ASSUME IInv
    PROVE  FromSnapshots \in States /\ FromSnapshots.vec = graph.vec /\ FromSnapshots.zset = snap.zset
<1>1. \A k \in Keys : snap.kv[k] = None /\ ~Past(snap.ttl[k]) /\ snap.ttl[k] = 0
  BY CompIs DEF Snaps, Nothing, NoTTL, Past
<1>2. FromSnapshots.kv = Nothing /\ FromSnapshots.ttl = NoTTL
  BY <1>1 DEF FromSnapshots, Nothing, NoTTL
<1>3. FromSnapshots = [kv |-> FromSnapshots.kv, ttl |-> FromSnapshots.ttl, vec |-> graph.vec, zset |-> snap.zset]
  BY DEF FromSnapshots
<1> QED
  BY <1>2, <1>3, CompIs DEF States, Snaps, Maps

\* What a restart finds, key by key.
LEMMA RecoveredIs ==
    ASSUME IInv, NEW n \in durable..written
    PROVE  /\ Recovered(n) \in States
           /\ \A k \in Keys :
                /\ IsValue(log, "vec", k, graph.vec[k], MaxOf(cut, graph.wm), n, Recovered(n).vec[k])
                /\ IsValue(log, "zset", k, snap.zset[k], cut, n, Recovered(n).zset[k])
<1>1. log \in Logs /\ cut \in Nat /\ graph.wm \in Nat /\ n \in cut..Len(log)
  BY Facts DEF IInv, TypeInv, Positions
<1> QED
  BY <1>1, SnapshotsAre, ReplayIs DEF Recovered

LEMMA RestartStep == ASSUME IInv, NEW n \in 0..Len(log), Restart(n) PROVE IInv'
<1>0. UNCHANGED <<now, cut, snap, graph>> /\ n \in durable..written /\ comp' = NoComp
  BY DEF Restart
<1>1. PICK last : last = MaxOf(n, MaxOf(snap.wm, graph.wm))
  OBVIOUS
<1>2. PICK st : st = Recovered(n)
  OBVIOUS
<1>3. /\ mem' = st /\ boot' = [st |-> st, lsn |-> last]
      /\ log' = [i \in 1..last |-> IF i <= n THEN log[i] ELSE Lost]
      /\ assigned' = last /\ written' = last /\ durable' = last
      /\ act' = [a \in Actors |-> NoCall]
  BY <1>1, <1>2 DEF Restart
<1>4. /\ last \in Nat /\ n \in Nat /\ n <= last /\ graph.wm <= last /\ cut <= n
      /\ graph.wm \in Nat /\ cut \in Nat /\ n <= Len(log)
  <2>1. snap.wm \in Nat
    BY CompIs DEF Snaps
  <2>2. cut <= durable
    BY DEF IInv, Positions
  <2> QED
    BY <1>0, <1>1, <2>1, <2>2, Facts DEF MaxOf
<1>5. /\ st \in States
      /\ \A k \in Keys : /\ IsValue(log, "vec", k, graph.vec[k], MaxOf(cut, graph.wm), n, st.vec[k])
                         /\ IsValue(log, "zset", k, snap.zset[k], cut, n, st.zset[k])
  BY <1>0, <1>2, RecoveredIs
<1>6. /\ log' \in Logs /\ Len(log') = last
      /\ \A i \in 1..n : log'[i] = log[i]
      /\ \A f, k : \A j \in (n + 1)..last : ~Touches(log', f, k, j)
  <2>1. \A i \in 1..last : i <= n => log[i] \in Records \cup {Lost}
    BY <1>4, LogIs DEF IInv, TypeInv
  <2>2. log' \in Logs /\ Len(log') = last
    BY <1>3, <1>4, <2>1 DEF Logs
  <2>3. \A i \in 1..n : log'[i] = log[i]
    BY <1>3, <1>4
  <2>4. ASSUME NEW f, NEW k, NEW j \in (n + 1)..last PROVE ~Touches(log', f, k, j)
    <3>1. log'[j] = Lost
      BY <1>3, <1>4
    <3> QED
      BY <3>1 DEF Touches, OpsOn, Adds, Dels, Lost
  <2> QED
    BY <2>2, <2>3, <2>4
<1>7. comp' \in CompType /\ comp'.stage = "idle"
  <2>1. NoSnap \in Snaps /\ Nothing \in Maps
    BY DEF NoSnap, Snaps, Maps, Nothing, Maybe
  <2> QED
    BY <1>0, <2>1 DEF NoComp, CompType, Stages
<1>8. TypeInv'
  <2>1. act' \in [Actors -> [key : Maybe(Keys), val : Maybe(Values), at : Deadline, todo : Seq(HandlerCalls)]]
    <3>1. NoCall \in [key : Maybe(Keys), val : Maybe(Values), at : Deadline, todo : Seq(HandlerCalls)]
      <4>1. 0 \in Deadline /\ <<>> \in Seq(HandlerCalls)
        BY BoundsAssumption DEF Deadline
      <4> QED
        BY <4>1 DEF NoCall, Maybe
    <3> QED
      BY <1>3, <3>1
  <2> QED
    BY <1>0, <1>3, <1>4, <1>5, <1>6, <1>7, <2>1 DEF IInv, TypeInv, CompType
<1>9. Positions'
  BY <1>0, <1>3, <1>4, <1>6, <1>7 DEF Positions
<1>10. Handlers'
  BY <1>3 DEF Handlers, NoCall
<1>11. Booked'
  BY <1>3, <1>4, <1>6, ValueAtFirst DEF Booked, Was
<1>12. ASSUME NEW f, NEW k, NEW b, NEW p \in Nat, IsValue(log, f, k, b, p, n, st[f][k])
       PROVE  Kept(f, k, b, p)'
  <2>1. IsValue(log', f, k, b, p, n, st[f][k])
    BY <1>4, <1>6, <1>12, ValueSame
  <2>2. IsValue(log', f, k, b, p, last, st[f][k])
    BY <1>4, <1>6, <2>1, ValueLost
  <2>3. \A v : IsValue(log', f, k, b, p, last, v) => v = st[f][k]
    BY <1>4, <2>2, ValueUnique
  <2>4. \A x \in last..last : x = last
    BY <1>4
  <2> QED
    BY <1>3, <1>6, <2>3, <2>4 DEF Kept
<1>13. SnapshotsKeep'
  <2>1. MaxOf(cut, graph.wm) \in Nat
    BY <1>4 DEF MaxOf
  <2> QED
    BY <1>0, <1>4, <1>5, <1>12, <2>1 DEF SnapshotsKeep
<1>14. CopiesKeep'
  BY <1>7 DEF CopiesKeep
<1> QED
  BY <1>8, <1>9, <1>10, <1>11, <1>13, <1>14 DEF IInv

LEMMA InitInv == ASSUME Init PROVE IInv
<1>1. /\ log = <<>> /\ Len(log) = 0 /\ mem = Empty /\ boot = [st |-> Empty, lsn |-> 0]
      /\ cut = 0 /\ durable = 0 /\ written = 0 /\ assigned = 0
      /\ snap = NoSnap /\ graph = [wm |-> 0, vec |-> Nothing] /\ comp = NoComp
      /\ act = [a \in Actors |-> NoCall]
  BY DEF Init
<1>2. Nothing \in Maps /\ NoSnap \in Snaps /\ Empty \in States
  BY DEF Nothing, Maps, Maybe, NoSnap, Snaps, Empty, States
<1>3. NoCall \in [key : Maybe(Keys), val : Maybe(Values), at : Deadline, todo : Seq(HandlerCalls)]
  <2>1. 0 \in Deadline /\ <<>> \in Seq(HandlerCalls)
    BY BoundsAssumption DEF Deadline
  <2> QED
    BY <2>1 DEF NoCall, Maybe
<1>4. TypeInv
  <2>1. NoComp \in [stage : Stages, keep : Nat, copy : Snaps, left : SUBSET Keys, vec : Maps, wm : Nat]
    BY <1>2 DEF NoComp, Stages
  <2>2. log \in Logs
    BY <1>1 DEF Logs
  <2> QED
    BY <1>1, <1>2, <1>3, <2>1, <2>2 DEF TypeInv
<1>5. Positions
  BY <1>1 DEF Positions, NoComp
<1>6. Handlers
  BY <1>1 DEF Handlers, NoCall
<1>7. Booked
  BY <1>1, ValueAtFirst DEF Booked, Was
<1>8. \A k \in Keys : mem.vec[k] = None /\ mem.zset[k] = None
  BY <1>1 DEF Empty, Nothing
<1>9. SnapshotsKeep
  <2>1. \A f \in Fields, k \in Keys : Kept(f, k, mem[f][k], 0)
    <3>1. \A n \in durable..Len(log) : n = 0
      BY <1>1
    <3> QED
      BY <3>1, ValueAtFirst DEF Kept
  <2>2. \A k \in Keys : mem["vec"][k] = graph.vec[k] /\ mem["zset"][k] = snap.zset[k]
    BY <1>1, <1>8 DEF Nothing, NoSnap
  <2> QED
    BY <1>1, <2>1, <2>2 DEF SnapshotsKeep, MaxOf, Fields
<1>10. CopiesKeep
  BY <1>1 DEF CopiesKeep, NoComp
<1> QED
  BY <1>4, <1>5, <1>6, <1>7, <1>9, <1>10 DEF IInv

LEMMA NextInv == ASSUME IInv, OneClientPerKey, [Next]_vars PROVE IInv'
<1>1. CASE UNCHANGED vars
  <2>1. UNCHANGED <<mem, now, logVars, act, boot, snap, graph, comp>>
    BY <1>1 DEF vars
  <2>2. TypeInv' /\ Positions'
    BY <2>1 DEF IInv, TypeInv, Positions, logVars
  <2>3. \A f, k, b, p : Kept(f, k, b, p)' <=> Kept(f, k, b, p)
    BY <2>1, BasesSame
  <2>4. SnapshotsKeep' /\ CopiesKeep'
    BY <2>1, <2>3 DEF IInv, SnapshotsKeep, CopiesKeep, logVars
  <2> QED
    BY <2>1, <2>2, <2>4, HandlersRest DEF IInv, logVars
<1>2. ASSUME NEW c \in Clients, NEW op \in KnownOps, NEW k \in Keys, NEW v \in Maybe(Values),
             NEW at \in Deadline, Begin(c, op, k, v, at)
      PROVE  IInv'
  BY <1>2, BeginStep
<1>3. ASSUME NEW k \in Keys, Evict(k) PROVE IInv'
  BY <1>3, EvictStep
<1>4. ASSUME NEW a \in Actors, Log(a) PROVE IInv'
  BY <1>4, LogStep
<1>5. ASSUME NEW a \in Actors, Store(a) PROVE IInv'
  BY <1>5, StoreStep
<1>6. CASE Tick \/ (\E n \in 1..Len(log) : Reserve(n)) \/ WriteBatch \/ Sync
  BY <1>6, FlusherStep
<1>7. CASE \E n \in 0..Len(log) : Restart(n)
  BY <1>7, RestartStep
<1> QED
  BY <1>1, <1>2, <1>3, <1>4, <1>5, <1>6, <1>7, RotateStep, LastLSNStep, SnapshotIterateStep,
     RenameSnapshotStep, SetSnapshotWatermarkStep, SaveBinaryStep, RenameGraphStep, CleanupStep
     DEF Next

(***************************************************************************)
(* What recovery finds                                                     *)
(***************************************************************************)
\* Without strings and deadlines all of a state is visible.
LEMMA VisibleIs ==
    ASSUME NEW st \in States
    PROVE  /\ Visible(st) = [kv |-> Nothing, ttl |-> NoTTL, vec |-> st.vec, zset |-> st.zset]
           /\ Visible(st).kv = Nothing /\ Visible(st).vec = st.vec /\ Visible(st).zset = st.zset
<1>1. \A k \in Keys : st.kv[k] = None /\ st.ttl[k] = 0 /\ ~Past(st.ttl[k])
  BY DEF States, Nothing, NoTTL, Past
<1>2. /\ [k \in Keys |-> IF Past(st.ttl[k]) THEN None ELSE st.kv[k]] = Nothing
      /\ [k \in Keys |-> IF Past(st.ttl[k]) \/ st.kv[k] = None THEN 0 ELSE st.ttl[k]] = NoTTL
  BY <1>1 DEF Nothing, NoTTL
<1> QED
  BY <1>2 DEF Visible

\* Each key recovers to its value in memory or after some record from the cut on.
LEMMA RecoversSuffix ==
    ASSUME IInv, NEW n \in durable..written, NEW f \in Fields, NEW k \in Keys
    PROVE  \/ Recovered(n)[f][k] = mem[f][k]
           \/ \E m \in n..Len(log) : Was(f, k, m, Recovered(n)[f][k])
<1>1. n \in durable..Len(log)
  BY Facts DEF IInv, Positions
<1>2. /\ Kept("vec", k, graph.vec[k], MaxOf(cut, graph.wm))
      /\ Kept("zset", k, snap.zset[k], cut)
  BY DEF IInv, SnapshotsKeep
<1>3. CASE f = "vec"
  <2>1. IsValue(log, f, k, graph.vec[k], MaxOf(cut, graph.wm), n, Recovered(n)[f][k])
    BY <1>3, RecoveredIs
  <2> QED
    BY <1>1, <1>2, <1>3, <2>1 DEF Kept
<1>4. CASE f = "zset"
  <2>1. IsValue(log, f, k, snap.zset[k], cut, n, Recovered(n)[f][k])
    BY <1>4, RecoveredIs
  <2> QED
    BY <1>1, <1>2, <1>4, <2>1 DEF Kept
<1> QED
  BY <1>3, <1>4 DEF Fields

LEMMA ShutdownInv == ASSUME IInv PROVE ShutdownLosesNothing
<1> SUFFICES ASSUME Quiet, durable = Len(log) PROVE Visible(Recovered(Len(log))) = Visible(mem)
  BY DEF ShutdownLosesNothing
<1>1. PICK L : L = Len(log)
  OBVIOUS
<1>2. L \in durable..written /\ L \in Nat /\ boot.lsn \in Nat /\ \A m \in L..L : m = L
  BY <1>1, Facts DEF IInv, Positions
<1>3. Recovered(L) \in States /\ mem \in States
  BY <1>2, RecoveredIs DEF IInv, TypeInv
<1>4. ASSUME NEW f \in Fields, NEW k \in Keys PROVE Recovered(L)[f][k] = mem[f][k]
  <2>1. ~Pending(f, k)
    <3>1. \A c \in Clients : act[c].todo = <<>>
      BY DEF Quiet, Idle, Actors
    <3> QED
      BY <3>1, StagesDiffer DEF Pending
  <2>2. Was(f, k, L, mem[f][k])
    BY <1>1, <2>1 DEF IInv, Booked
  <2>3. Recovered(L)[f][k] = mem[f][k] \/ Was(f, k, L, Recovered(L)[f][k])
    BY <1>1, <1>2, RecoversSuffix
  <2> QED
    BY <1>2, <2>2, <2>3, ValueUnique DEF Was
<1>5. Recovered(L).vec = mem.vec /\ Recovered(L).zset = mem.zset
  <2>1. \A k \in Keys : Recovered(L).vec[k] = mem.vec[k] /\ Recovered(L).zset[k] = mem.zset[k]
    BY <1>4 DEF Fields
  <2>2. /\ Recovered(L).vec \in Maps /\ mem.vec \in Maps
        /\ Recovered(L).zset \in Maps /\ mem.zset \in Maps
    BY <1>3 DEF States, Maps
  <2> QED
    BY <2>1, <2>2 DEF Maps
<1> QED
  BY <1>1, <1>3, <1>5, VisibleIs

LEMMA CrashInv == ASSUME IInv PROVE CrashLosesSuffix
<1> SUFFICES ASSUME NEW n \in MaxOf(durable, boot.lsn)..written,
                    NEW f \in {"kv", "vec", "zset"}, NEW k \in Keys
             PROVE  \/ Visible(Recovered(n))[f][k] = Visible(mem)[f][k]
                    \/ \E m \in n..Len(log) : Visible(Recovered(n))[f][k] = History(m)[f][k]
  BY Zenon DEF CrashLosesSuffix
<1>1. n \in durable..written /\ boot.lsn \in Nat /\ boot.lsn <= n /\ n \in Nat /\ Len(log) \in Nat
  BY Facts DEF IInv, Positions, MaxOf
<1>2. Recovered(n) \in States /\ mem \in States /\ boot.st \in States /\ log \in Logs
  BY <1>1, RecoveredIs DEF IInv, TypeInv
<1>3. CASE f = "kv"
  BY <1>2, <1>3, VisibleIs
<1>4. CASE f \in Fields
  <2>1. Visible(Recovered(n))[f] = Recovered(n)[f] /\ Visible(mem)[f] = mem[f]
    BY <1>2, <1>4, VisibleIs DEF Fields
  <2>2. ASSUME NEW m \in n..Len(log), Was(f, k, m, Recovered(n)[f][k])
        PROVE  History(m)[f][k] = Recovered(n)[f][k]
    <3>1. m \in boot.lsn..Len(log) /\ m \in Nat /\ 0 \in Nat /\ MaxOf(boot.lsn, 0) = boot.lsn
      BY <1>1 DEF MaxOf
    <3> DEFINE st == Replay(boot.st, boot.lsn, m, 0)
    <3>2. /\ st \in States
          /\ IsValue(log, "vec", k, boot.st.vec[k], boot.lsn, m, st.vec[k])
          /\ IsValue(log, "zset", k, boot.st.zset[k], boot.lsn, m, st.zset[k])
      BY <1>1, <1>2, <3>1, ReplayIs
    <3>3. History(m) = Visible(st)
      BY DEF History
    <3> HIDE DEF st
    <3>4. History(m)[f] = st[f]
      BY <1>4, <3>2, <3>3, VisibleIs DEF Fields
    <3>5. Was(f, k, m, st[f][k])
      BY <1>4, <3>2 DEF Was, Fields
    <3> QED
      BY <1>1, <2>2, <3>1, <3>4, <3>5, ValueUnique DEF Was
  <2> QED
    BY <1>1, <1>4, <2>1, <2>2, RecoversSuffix
<1> QED
  BY <1>3, <1>4 DEF Fields

\* In every reachable state the log, the snapshots and memory stand as IInv says, if the
\* commands are VSIM.ADD, VSIM.DEL, ZADD and ZREM and no key has two clients.
THEOREM EngineInv == ASSUME OneClientPerKey PROVE Spec => []IInv
<1>1. Init => IInv
  BY InitInv
<1>2. IInv /\ [Next]_vars => IInv'
  BY NextInv
<1> QED
  BY <1>1, <1>2, PTL DEF Spec

\* Main, walApplier.apply and BackgroundCompact rebuild from graph_leveled.bin, snapshot.wal
\* and the log that is left exactly the vectors and sorted sets that were in memory, once
\* the handlers have returned and the log is on disk.
THEOREM OrderlyShutdown == ASSUME OneClientPerKey PROVE Spec => []ShutdownLosesNothing
BY EngineInv, ShutdownInv, PTL

\* A crash that keeps the first n records of the log, anywhere between two calls of a handler
\* or a compaction, leaves of a vector or a score a value that it had after n or later.
THEOREM CrashKeepsPrefix == ASSUME OneClientPerKey PROVE Spec => []CrashLosesSuffix
BY EngineInv, CrashInv, PTL
=============================================================================
