------------------------------- MODULE Leveled -------------------------------
(***************************************************************************)
(* LeveledVectorStore (vector/leveled_*.go, delta.go): a memtable ("delta")*)
(* that takes the writes, memtables that are being flushed, levels of      *)
(* immutable segments, a set of tombstones, the coordinator's event loop,  *)
(* the goroutines that build and merge segments, idle consolidation,       *)
(* FlushDeltaSync, the snapshot that follows it, and search.               *)
(*                                                                         *)
(* A vector with its attributes and terms is one value.  Everything done   *)
(* under lvs.mu is one action; a search holds the lock for its first half  *)
(* only.  Graphs and distances are left out: a search finds every key      *)
(* whose value passes its filter, in every part of the store that it       *)
(* looks at.                                                               *)
(***************************************************************************)
EXTENDS Integers, FiniteSets, FiniteSetsExt

CONSTANTS
    Keys, Values, None,
    DeltaShards,   \* DeltaShards: the shards of a delta are 0, 1, ...
    ShardOf,       \* key -> its shard
    MaxSize,       \* DeltaMax: slots of a full delta
    Fanout,        \* Fanout
    MergeBatchMax, \* MergeBatchMax
    MaxLevels,     \* maxLevels
    BacklogCap,    \* flushingBacklogCap
    Growth,        \* deltaHardGrowthFactor
    Snapshots,     \* TRUE: FlushDeltaSync and SaveBinary are called
    Filters,       \* filters of the searches, each a set of values that pass
    Strict,        \* StrictSegShadow
    MaxCalls,      \* bound: calls of Add, Delete and Clear
    Emptied        \* TRUE: what FlushDeltaSync waits for may be emptied, see below

\* With Emptied, Delete and Clear may empty the memtable that FlushDeltaSync waits for;
\* nobody wakes it then (README).

ASSUME StoreAssumption ==
    /\ None \notin Values
    /\ IsFiniteSet(Keys)
    /\ DeltaShards \in Nat \ {0}
    /\ ShardOf \in [Keys -> 0..(DeltaShards - 1)]
    /\ {MaxSize, Fanout, MergeBatchMax, BacklogCap, Growth} \subseteq Nat \ {0}
    /\ Fanout <= MergeBatchMax
    /\ MaxLevels \in Nat \ {0, 1}
    /\ Filters \subseteq SUBSET Values
    /\ {Snapshots, Strict, Emptied} \subseteq BOOLEAN
    /\ MaxCalls \in Nat

VARIABLES
    delta,       \* the active memtable, or NoDelta before the first Add
    flushing,    \* swapped memtables; a later one has a greater id
    levels,      \* the segments, each with its level and its place in it
    tombstones,  \* deleted keys of which a copy may be in flushing or levels
    epoch,       \* compactionEpoch
    signal,      \* compactCh holds a signal
    coord,       \* the coordinator's handler: what comes next, and its epoch
    builds,      \* builds of a memtable's segments that are not applied yet
    merges,      \* merges and consolidations that are not applied yet
    merging,     \* levels with mergeInFlight
    consolidating, \* consolidateInFlight
    inFlight,    \* inFlightBuilds
    sync,        \* the caller of FlushDeltaSync
    search,      \* a search in progress
    nextId,      \* fresh identity of a memtable
    torn,        \* history: keys of which the last call may be lost, see Lost and Revived
    calls, last  \* history: calls and the last reply, as in VecMap

work == <<builds, merges, merging, consolidating, inFlight>>
store == <<delta, flushing, levels, tombstones, epoch>>
history == <<torn, calls, last>>
vars == <<store, signal, coord, work, sync, search, nextId, history>>

Nothing == [k \in Keys |-> None]
Maybe(S) == S \cup {None}
Lvls == 0..(MaxLevels - 1)

\* A memtable; slots counts keys ever appended, a deleted one keeps its slot.
Memtable(id) == [id |-> id, kv |-> Nothing, slots |-> 0]
NoDelta == Memtable(0)
HasDelta == delta # NoDelta

Holds(part) == {k \in Keys : part.kv[k] # None}

\* Which of parts, memtables or segments, hold k.
Holders(parts, k) == {p \in parts : k \in Holds(p)}

(***************************************************************************)
(* Reading                                                                 *)
(***************************************************************************)
\* Level 0 is fresher than level 1; in a level, a segment appended later is fresher.
Fresher(s, r) == s.level < r.level \/ (s.level = r.level /\ s.at > r.at)
Freshest(segs) == CHOOSE s \in segs : \A r \in segs : r = s \/ Fresher(s, r)
Newest(mems) == CHOOSE m \in mems : \A o \in mems : o.id <= m.id

\* What a set of memtables, or of segments, has of k: its latest copy.
MemValue(mems, k) ==
    IF Holders(mems, k) = {} THEN None ELSE Newest(Holders(mems, k)).kv[k]
SegValue(segs, k) ==
    IF Holders(segs, k) = {} THEN None ELSE Freshest(Holders(segs, k)).kv[k]

Get(k) ==
    IF k \in Holds(delta) THEN delta.kv[k]
    ELSE IF k \in tombstones THEN None
    ELSE IF Holders(flushing, k) # {} THEN MemValue(flushing, k)
    ELSE SegValue(levels, k)

View == [k \in Keys |-> Get(k)]

\* ForEach lists the active memtable, then flushing from its newest on, then the
\* segments from the freshest on; the first copy of a key counts, and tombstones
\* hide all but those of the active memtable.
\* Mutant: the memtables that are being flushed are listed from the oldest on.
PartsOldestFirst == {[kv |-> delta.kv, level |-> -2, at |-> 0]}
    \cup {[kv |-> m.kv, level |-> -1, at |-> -m.id] : m \in flushing} \cup levels

Parts == {[kv |-> delta.kv, level |-> -2, at |-> 0]}
    \cup {[kv |-> m.kv, level |-> -1, at |-> m.id] : m \in flushing} \cup levels

Listed(k) == {p \in Holders(Parts, k) : p.level = -2 \/ k \notin tombstones}

ForEach == [k \in Keys |-> IF Listed(k) = {} THEN None ELSE Freshest(Listed(k)).kv[k]]

\* Info counts every copy and takes off one for each tombstone.
Copies(parts) == {c \in parts \X Keys : c[2] \in Holds(c[1])}
InfoCount == Cardinality(Copies(Parts)) - Cardinality(tombstones)

\* SaveBinary writes levels and tombstones, and LoadBinary reads them into an
\* empty store: what a recovery has before it replays the log.
Loaded == [k \in Keys |-> IF k \in tombstones THEN None ELSE SegValue(levels, k)]

NoSync == [pc |-> "idle", target |-> 0, pending |-> {}, had |-> [k \in Keys |-> {}], loose |-> {}]
NoSearch == [pc |-> "idle", filter |-> {}, mems |-> {}, hits |-> {}, segs |-> {},
             tombs |-> {}, had |-> [k \in Keys |-> {}], loose |-> {}]

Init ==
    /\ delta = NoDelta /\ flushing = {} /\ levels = {} /\ tombstones = {} /\ epoch = 0
    /\ signal = FALSE
    /\ coord = [pc |-> "idle", epoch |-> 0]
    /\ builds = {} /\ merges = {}
    /\ merging = {} /\ consolidating = FALSE /\ inFlight = 0
    /\ sync = NoSync
    /\ search = NoSearch
    /\ nextId = 1
    /\ torn = {} /\ calls = 0 /\ last = <<"none">>

(***************************************************************************)
(* Calls                                                                   *)
(***************************************************************************)
\* FlushDeltaSync and a search remember (history) the values that each key has had since
\* they began, and the keys of which they promise less.
Loosened(proc, ks) == [proc EXCEPT !.loose = IF proc.pc = "idle" THEN {} ELSE @ \cup ks]

Noticed(proc, keys, new) ==
    [proc EXCEPT !.had = [k \in Keys |->
        IF proc.pc # "idle" /\ k \in keys THEN @[k] \cup {new[k]} ELSE @[k]]]

\* What every call does.  A search has the active memtable by a pointer and sees what
\* becomes of it.  A tombstone that goes uncovers older copies in the snapshot.
Called(keys, new, newDelta, newTombs, what) ==
    /\ calls < MaxCalls
    /\ calls' = calls + 1
    /\ last' = what
    /\ delta' = newDelta
    /\ tombstones' = newTombs
    /\ torn' = torn \ keys
    /\ sync' = Loosened(Noticed(sync, keys, new), tombstones \ newTombs)
    /\ search' = [Loosened(Noticed(search, keys, new), keys) EXCEPT !.mems =
                     {IF m.id = newDelta.id THEN newDelta ELSE m : m \in @}]

removeTombstone(k) == tombstones \ {k}

\* addEntry, initDelta and AppendDoc: a key that the memtable holds is
\* overwritten in its slot; the slot that fills the memtable sends the signal.
Add(k, v) ==
    LET old   == IF HasDelta THEN delta ELSE Memtable(nextId)
        fresh == k \notin Holds(old)
        new   == [old EXCEPT !.kv[k] = v, !.slots = IF fresh THEN @ + 1 ELSE @]
    IN  /\ Called({k}, [View EXCEPT ![k] = v], new, removeTombstone(k), <<"Add">>)
        /\ signal' = (signal \/ (fresh /\ new.slots = MaxSize))
        /\ nextId' = IF HasDelta THEN nextId ELSE nextId + 1
        /\ UNCHANGED <<flushing, levels, epoch, coord, work>>

\* Older copies stay where they are, so a key that has one gets a tombstone.
HasCopy(k) == Holders(flushing, k) # {} \/ Holders(levels, k) # {}

Waits == sync.pc \in {"waiting", "woken"}

Delete(k) ==
    LET inDelta == k \in Holds(delta)
        there   == inDelta \/ (k \notin tombstones /\ HasCopy(k))
        new     == [delta EXCEPT !.kv[k] = None]
    IN  /\ Emptied \/ ((inDelta /\ Waits /\ sync.target = delta.id) => Holds(new) # {})
        /\ Called({k}, [View EXCEPT ![k] = None], new,
                  IF HasCopy(k) THEN tombstones \cup {k} ELSE removeTombstone(k),
                  <<"Delete", there>>)
        /\ UNCHANGED <<flushing, levels, epoch, signal, coord, work, nextId>>

\* Nobody is woken, and what is being built or merged finds another epoch.
Clear ==
    /\ Emptied \/ ~Waits
    /\ Called(Keys, Nothing, NoDelta, {}, <<"Clear">>)
    /\ epoch' = epoch + 1
    /\ flushing' = {}
    /\ levels' = {}
    /\ UNCHANGED <<signal, coord, work, nextId>>

(***************************************************************************)
(* The coordinator: compactWorker                                          *)
(***************************************************************************)
Level(lv, l) == {s \in lv : s.level = l}

\* maybeScheduleMergesLocked: the levels from which a merge starts.  A flush that
\* is under way puts off all merges but those of a level that is twice too long.
Due(fl, lv, fly, busy) ==
    {l \in 0..(MaxLevels - 2) :
        /\ l \notin busy
        /\ Cardinality(Level(lv, l)) >= Fanout
        /\ (fl # {} \/ fly > 0) => Cardinality(Level(lv, l)) >= 2 * Fanout}

\* A merge takes the oldest segments of its level, MergeBatchMax at most.
Batch(segs) == {s \in segs : Cardinality({r \in segs : r.at < s.at}) < MergeBatchMax}

Task(source, target, e, segs) ==
    [source |-> source, target |-> target, epoch |-> e, segs |-> segs,
     done |-> FALSE, out |-> Nothing, applied |-> {}]

Consolidation == MaxLevels      \* the source of a consolidation: every level

\* Merges start from what the store is after the step: fl, lv, fly, busy, tasks
\* are the flushing, levels, inFlight, merging and merges it leaves.
Schedule(e, fl, lv, fly, busy, tasks, cons) ==
    LET due == IF cons \/ epoch # e THEN {} ELSE Due(fl, lv, fly, busy) IN
    /\ merging' = busy \cup due
    /\ merges' = tasks \cup {Task(l, l + 1, e, Batch(Level(lv, l))) : l \in due}

\* handleCompactSignal reads the epoch before it takes the lock.
CompactSignal ==
    /\ coord.pc = "idle"
    /\ signal
    /\ signal' = FALSE
    /\ coord' = [pc |-> "swap", epoch |-> epoch]
    /\ UNCHANGED <<store, work, sync, search, nextId, history>>

Deferred == Cardinality(flushing) >= BacklogCap /\ Cardinality(Holds(delta)) < Growth * MaxSize

\* The memtable is swapped for an empty one and its build starts.
Swap ==
    /\ coord.pc = "swap"
    /\ coord' = [coord EXCEPT !.pc = "merges"]
    /\ IF Holds(delta) = {} \/ Deferred
       THEN UNCHANGED <<delta, flushing, builds, inFlight, nextId>>
       ELSE /\ flushing' = flushing \cup {delta}
            /\ delta' = Memtable(nextId)
            /\ builds' = builds \cup {[mem |-> delta, epoch |-> coord.epoch]}
            /\ inFlight' = inFlight + 1
            /\ nextId' = nextId + 1
    /\ UNCHANGED <<levels, tombstones, epoch, signal, merges, merging, consolidating,
                   sync, search, history>>

MaybeScheduleMerges ==
    /\ coord.pc = "merges"
    /\ coord' = [coord EXCEPT !.pc = "idle"]
    /\ Schedule(coord.epoch, flushing, levels, inFlight, merging, merges, consolidating)
    /\ UNCHANGED <<store, signal, builds, consolidating, inFlight, sync, search, nextId, history>>

\* handleIdleTick, after a pause in the writes: what is left in the memtable is
\* flushed; otherwise all segments become one, unless one holds nearly all.
WorthConsolidating(segs) ==
    /\ Cardinality(segs) > 1
    /\ \A s \in segs : Cardinality(Holds(s)) * 10 < Cardinality(Copies(segs)) * 9

Deepest == Max({s.level : s \in levels})

HandleIdleTick ==
    /\ coord.pc = "idle"
    /\ \/ Holds(delta) # {} /\ ~signal /\ signal' = TRUE
          /\ UNCHANGED <<merges, consolidating>>
       \/ Holds(delta) = {} /\ ~consolidating /\ inFlight = 0 /\ merging = {}
          /\ WorthConsolidating(levels)
          /\ consolidating' = TRUE
          /\ merges' = merges \cup
                {Task(Consolidation, Min({Deepest + 1, MaxLevels - 1}), epoch, levels)}
          /\ UNCHANGED signal
    /\ UNCHANGED <<store, coord, builds, merging, inFlight, sync, search, nextId, history>>

\* What mergeSegments makes of segs: it drops deleted keys, and of two copies the
\* later segment's stays.
MergedKV(segs, tombs) == [k \in Keys |-> IF k \in tombs THEN None ELSE SegValue(segs, k)]

\* The merging goroutine takes the tombstones under the lock and works without it.
MergeSegments(t) ==
    /\ t \in merges
    /\ ~t.done
    /\ LET kv   == IF HasDelta THEN MergedKV(t.segs, tombstones) ELSE Nothing
           dead == {k \in tombstones : Holders(t.segs, k) # {}}
       IN  merges' = (merges \ {t}) \cup
              {[t EXCEPT !.done = TRUE, !.out = kv,
                         !.applied = IF kv = Nothing THEN {} ELSE dead]}
    /\ UNCHANGED <<store, signal, coord, builds, merging, consolidating, inFlight, sync, search,
                   nextId, history>>

\* The end of applyResult: further merges, and a signal if the memtable is full.
\* A result of an earlier epoch and an empty merge return before it.
Full(d) == HasDelta /\ d.slots >= MaxSize

\* Mutant: a memtable that filled up during a flush is forgotten.
AppliedNoSignal(e, fl, lv, fly, busy, tasks, cons) ==
    /\ Schedule(e, fl, lv, fly, busy, tasks, cons)
    /\ UNCHANGED signal

Applied(e, fl, lv, fly, busy, tasks, cons) ==
    /\ Schedule(e, fl, lv, fly, busy, tasks, cons)
    /\ signal' = (signal \/ Full(delta))

Dropped(busy, tasks) ==
    /\ merging' = busy
    /\ merges' = tasks
    /\ UNCHANGED signal

\* Mutant: no Broadcast.
WokenNever == sync

\* flushCond.Broadcast
Woken == IF sync.pc = "waiting" THEN [sync EXCEPT !.pc = "woken"] ELSE sync

\* A new segment goes behind those of its level.
NextAt(segs, l) == Max({0} \cup {s.at : s \in Level(segs, l)}) + 1

\* The segments built from a memtable: one of each shard that is not empty.
InShard(m, s) == {k \in Holds(m) : ShardOf[k] = s}

Built(m) ==
    {[level |-> 0, at |-> NextAt(levels, 0) + s,
      kv |-> [k \in Keys |-> IF k \in InShard(m, s) THEN m.kv[k] ELSE None]] :
        s \in {s \in 0..(DeltaShards - 1) : InShard(m, s) # {}}}

Without(mems, id) == {m \in mems : m.id # id}

\* Memtables are built by several goroutines and published as each ends.  What the last
\* call left of k may be lost: an older memtable that has k will be published after this
\* one, and its segment will shadow this one's; or this one is dropped.
Lost(b, published) ==
    {k \in Keys : \E m \in Holders(flushing, k) :
        IF published THEN m.id < b.mem.id /\ k \in Holds(b.mem) ELSE m.id = b.mem.id}

\* applyResult of a build.  Nothing is built if it panicked or a shard gave no graph;
\* what Clear overtook, or was swapped with the epoch of before it, is not published.
ApplyFlush(b) ==
    \E built \in {Built(b.mem), {}} :
        LET lost == Lost(b, built # {} /\ epoch = b.epoch) IN
        /\ coord.pc = "idle"
        /\ b \in builds
        /\ builds' = builds \ {b}
        /\ inFlight' = inFlight - 1
        /\ flushing' = Without(flushing, b.mem.id)
        /\ sync' = Loosened(Woken, lost)
        /\ torn' = torn \cup lost
        /\ IF epoch # b.epoch
           THEN Dropped(merging, merges) /\ UNCHANGED levels
           ELSE /\ levels' = levels \cup built
                /\ Applied(b.epoch, flushing', levels', inFlight', merging, merges, consolidating)
        /\ UNCHANGED <<delta, tombstones, epoch, coord, consolidating, search, nextId, calls, last>>

\* Mutant: every tombstone that the merge applied goes.
ClearedAll(others, t) == t.applied

\* clearAppliedTombstonesLocked: tombstones of keys that no other segment holds.
Cleared(others, t) == {k \in t.applied : Holders(others, k) = {}}

FromLevels(t) == IF t.source = Consolidation THEN Lvls ELSE {t.source}

\* removeSegments
Kept(t) == {s \in levels : s.level \in FromLevels(t) => s \notin t.segs}

\* Copies in the memtables that are being flushed are not looked for: a tombstone may go
\* that hides one.
Revived(t) == {k \in Cleared(Kept(t), t) \cap tombstones : Holders(flushing, k) # {}}

\* applyResult of a merge or a consolidation.
ApplyMerge(t) ==
    /\ coord.pc = "idle"
    /\ t \in merges
    /\ t.done
    /\ consolidating' = (consolidating /\ t.source # Consolidation)
    /\ LET busy == merging \ {t.source}
           rest == merges \ {t}
           new  == [level |-> t.target, at |-> NextAt(Kept(t), t.target), kv |-> t.out]
       IN  IF epoch # t.epoch \/ t.out = Nothing
           THEN Dropped(busy, rest) /\ UNCHANGED <<levels, tombstones, torn, sync>>
           ELSE /\ levels' = Kept(t) \cup {new}
                /\ tombstones' = tombstones \ Cleared(Kept(t), t)
                /\ torn' = torn \cup Revived(t)
                /\ sync' = Loosened(sync, Revived(t))
                /\ Applied(t.epoch, flushing, levels', inFlight, busy, rest, consolidating')
    /\ UNCHANGED <<delta, flushing, epoch, coord, builds, inFlight, search, nextId, calls, last>>

(***************************************************************************)
(* FlushDeltaSync and SaveBinary: the snapshot of a compaction             *)
(***************************************************************************)
\* Mutant: FlushDeltaSync waits for the swap of the memtable and not for its build.
FlushedAtSwap(target, pending) == target # delta.id

Flushed(target, pending) ==
    LET left == {m.id : m \in flushing} IN
    (target = 0 \/ (target # delta.id /\ target \notin left)) /\ pending \cap left = {}

\* One turn of the loop: it is done, or asks for a flush and waits.
SyncTurn(s) ==
    IF Flushed(s.target, s.pending)
    THEN /\ sync' = [s EXCEPT !.pc = "flushed"]
         /\ Schedule(epoch, flushing, levels, inFlight, merging, merges, consolidating)
         /\ UNCHANGED signal
    ELSE /\ sync' = [s EXCEPT !.pc = "waiting"]
         /\ signal' = (signal \/ (s.target # 0 /\ s.target = delta.id))
         /\ UNCHANGED <<merging, merges>>

FlushDeltaSync ==
    /\ Snapshots
    /\ sync.pc = "idle"
    /\ SyncTurn([pc |-> "waiting", had |-> [k \in Keys |-> {Get(k)}], loose |-> torn,
                 target |-> IF Holds(delta) # {} THEN delta.id ELSE 0,
                 pending |-> {m.id : m \in flushing}])
    /\ UNCHANGED <<store, coord, builds, consolidating, inFlight, search, nextId, history>>

WakeUp ==
    /\ sync.pc = "woken"
    /\ SyncTurn(sync)
    /\ UNCHANGED <<store, coord, builds, consolidating, inFlight, search, nextId, history>>

SaveBinary ==
    /\ sync.pc = "flushed"
    /\ sync' = NoSync
    /\ UNCHANGED <<store, signal, coord, work, search, nextId, history>>

(***************************************************************************)
(* Search                                                                  *)
(***************************************************************************)
\* Under the lock: the memtables are searched; the segments and the tombstones are
\* remembered.
Hits(m, F) == [id |-> m.id, kv |->
    [k \in Keys |-> IF k \notin tombstones /\ m.kv[k] \in F THEN m.kv[k] ELSE None]]

SearchBegin(F) ==
    LET mems == (IF Holds(delta) # {} THEN {delta} ELSE {}) \cup flushing IN
    /\ search.pc = "idle"
    /\ mems # {} \/ levels # {}
    /\ search' = [pc |-> "segments", filter |-> F, mems |-> mems, segs |-> levels,
                  tombs |-> tombstones, hits |-> {Hits(m, F) : m \in mems},
                  had |-> [k \in Keys |-> {Get(k)}], loose |-> {}]
    /\ UNCHANGED <<store, signal, coord, work, sync, nextId, history>>

\* Without the lock: a hit is shadowed by a fresher memtable that has the key by
\* now, and with StrictSegShadow by a fresher segment that has it.
ShadowedBy(k) == Holders(search.mems, k)
MemHits(k) == {h \in Holders(search.hits, k) : \A o \in ShadowedBy(k) : o.id <= h.id}

\* Mutant: a tombstone hides nothing in the segments.
SegHitsNoTombs(k) ==
    {s \in Holders(search.segs, k) :
        /\ s.kv[k] \in search.filter
        /\ ShadowedBy(k) = {}
        /\ Strict => \A r \in Holders(search.segs, k) : ~Fresher(r, s)}

SegHits(k) ==
    {s \in Holders(search.segs, k) :
        /\ k \notin search.tombs
        /\ s.kv[k] \in search.filter
        /\ ShadowedBy(k) = {}
        /\ Strict => \A r \in Holders(search.segs, k) : ~Fresher(r, s)}

\* The vector by which the search finds k, or None.
Found(k) ==
    IF MemHits(k) # {} THEN Newest(MemHits(k)).kv[k]
    ELSE IF SegHits(k) # {} THEN Freshest(SegHits(k)).kv[k]
    ELSE None

SearchEnd ==
    /\ search.pc = "segments"
    /\ search' = NoSearch
    /\ UNCHANGED <<store, signal, coord, work, sync, nextId, history>>

Next ==
    \/ \E k \in Keys, v \in Values : Add(k, v)
    \/ \E k \in Keys : Delete(k)
    \/ Clear
    \/ CompactSignal
    \/ Swap
    \/ MaybeScheduleMerges
    \/ HandleIdleTick
    \/ \E t \in merges : MergeSegments(t)
    \/ \E b \in builds : ApplyFlush(b)
    \/ \E t \in merges : ApplyMerge(t)
    \/ FlushDeltaSync
    \/ WakeUp
    \/ SaveBinary
    \/ \E F \in Filters : SearchBegin(F)
    \/ SearchEnd

Spec == Init /\ [][Next]_vars

\* The coordinator and its goroutines run until Close; select takes a ready channel
\* at random, so none is passed over for ever.
Fairness ==
    /\ SF_vars(CompactSignal) /\ WF_vars(Swap) /\ WF_vars(MaybeScheduleMerges)
    /\ WF_vars(\E t \in merges : MergeSegments(t))
    /\ SF_vars(\E b \in builds : ApplyFlush(b))
    /\ SF_vars(\E t \in merges : ApplyMerge(t))
    /\ WF_vars(WakeUp)

FairSpec == Spec /\ Fairness

(***************************************************************************)
(* Properties                                                              *)
(***************************************************************************)
TypeOK ==
    /\ Holds(delta) \cap tombstones = {}
    /\ tombstones \subseteq Keys
    /\ inFlight = Cardinality(builds)
    /\ merging = {t.source : t \in merges} \ {Consolidation}
    /\ consolidating = \E t \in merges : t.source = Consolidation
    /\ coord.pc \in {"idle", "swap", "merges"}
    /\ sync.pc \in {"idle", "waiting", "woken", "flushed"}

\* Flushes, merges, consolidations and searches do not change what Get returns, and
\* Delete answers truly (VecMap), for every key but those of which the last call fell
\* into a race that the code leaves open; the next call makes such a key whole.
Map == INSTANCE VecMap WITH map <- View, lost <- torn

IsMap == Map!Spec

\* The other readers agree with Get: ForEach sees the same store, and Info never
\* reports fewer vectors than there are, for no tombstone outlives the copies that it
\* hides, whatever merges were under way when it came or went.
ReadersAgree ==
    /\ ForEach = View
    /\ InfoCount + Cardinality(torn \cap tombstones) >= Cardinality({k \in Keys : View[k] # None})

\* The snapshot has of every key a value that the key had between the call of
\* FlushDeltaSync and SaveBinary: what was there before the watermark is in it.  Less is
\* said of a deleted key that was added again meanwhile, whose record comes after the
\* watermark, and of torn keys.
SnapshotCovers == [][sync.pc = "flushed" /\ sync'.pc = "idle" =>
                        \A k \in Keys \ sync.loose : Loaded[k] \in sync.had[k]]_vars

\* A search finds a key that is not written while it runs if and only if the key's vector
\* passes its filter, whatever is written of other keys and flushed and merged meanwhile;
\* and a key that is there all the while never by a vector that it did not have then.
SearchFinds == [][search.pc = "segments" /\ search'.pc = "idle" =>
    \A k \in Keys :
        LET had == search.had[k] IN
        /\ k \notin search.loose => {Found(k)} = IF had \subseteq search.filter THEN had ELSE {None}
        /\ None \notin had /\ Found(k) # None => Found(k) \in had]_vars

\* FlushDeltaSync returns.
FlushReturns == Waits ~> sync.pc \in {"flushed", "idle"}

\* A memtable that fills up is swapped out, even if its signal came while two
\* others were being flushed; a delete may empty a slot before.
Filled == Full(delta) /\ Cardinality(Holds(delta)) = delta.slots
FullIsFlushed == Filled ~> ~Filled

\* A deleted key stays deleted until it is added again, as clearAppliedTombstonesLocked
\* says ("ключ чистится ...").
DeletedStays == [][\A k \in Keys : View[k] = None /\ calls' = calls => View'[k] = None]_vars
=============================================================================
