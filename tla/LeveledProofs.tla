---------------------------- MODULE LeveledProofs ----------------------------
(***************************************************************************)
(* Proofs about Leveled: the vector store is a map, for any keys, values,  *)
(* sizes and number of calls, of all keys but those of which the last call *)
(* fell into a race (torn).                                                *)
(***************************************************************************)
EXTENDS Leveled, FiniteSetTheorems, WellFoundedInduction, TLAPS

KVs == [Keys -> Maybe(Values)]
Mems == [id : Nat, kv : KVs, slots : Nat]
Segments == [level : Lvls, at : Nat, kv : KVs]

\* Segments at different places of the levels, and memtables of different age.
Placed(segs) ==
    /\ segs \in SUBSET Segments
    /\ \A s, r \in segs : s.level = r.level /\ s.at = r.at => s = r
    /\ \E n \in Nat : \A s \in segs : s.at <= n

Queued(mems) ==
    /\ mems \in SUBSET Mems
    /\ \A m, o \in mems : m.id = o.id => m = o
    /\ \E n \in Nat : \A m \in mems : m.id <= n

(***************************************************************************)
(* Numbers                                                                 *)
(***************************************************************************)
LEMMA Smallest ==
    ASSUME NEW T \in SUBSET Nat, T # {}
    PROVE  \E x \in T : \A y \in T : x <= y
<1>1. PICK x \in T : \A y \in T : ~(<<y, x>> \in OpToRel(<, Nat))
  BY WFMin, NatLessThanWellFounded
<1>2. \A y \in T : ~(y < x)
  BY <1>1 DEF OpToRel
<1> QED
  BY <1>2

LEMMA Largest ==
    ASSUME NEW T \in SUBSET Nat, T # {}, NEW n \in Nat, \A x \in T : x <= n
    PROVE  \E x \in T : \A y \in T : y <= x
<1> DEFINE U == {n - x : x \in T}
<1>1. \A x \in T : n - x \in Nat
  <2> TAKE x \in T
  <2>1. x \in Nat /\ x <= n
    OBVIOUS
  <2> QED
    BY <2>1
<1>2. U \in SUBSET Nat /\ U # {}
  BY <1>1
<1>3. PICK u \in U : \A y \in U : u <= y
  BY <1>2, Smallest
<1>4. PICK x \in T : u = n - x
  OBVIOUS
<1>5. \A y \in T : n - x <= n - y
  BY <1>3, <1>4
<1>6. \A y \in T : y <= x
  BY <1>5
<1> QED
  BY <1>6

LEMMA MaxIs ==
    ASSUME NEW T \in SUBSET Nat, NEW x \in T, \A y \in T : y <= x
    PROVE  Max(T) = x
<1>1. \A z \in T : (\A y \in T : y <= z) => z = x
  OBVIOUS
<1> QED
  BY <1>1 DEF Max

LEMMA ImageIsFinite ==
    ASSUME NEW S, IsFiniteSet(S), NEW f, DOMAIN f = S, f = [x \in S |-> f[x]]
    PROVE  IsFiniteSet({f[x] : x \in S})
<1> DEFINE T == {f[x] : x \in S}
<1>1. f \in Surjection(S, T)
  BY DEF Surjection
<1> QED
  BY <1>1, FS_Surjection

LEMMA LvlsAreNumbers == Lvls \subseteq Nat /\ 0 \in Lvls /\ 1 \in Lvls
BY StoreAssumption DEF Lvls

(***************************************************************************)
(* The freshest segment                                                    *)
(***************************************************************************)
LEMMA SegmentType ==
    ASSUME NEW s \in Segments
    PROVE  /\ s.level \in Lvls /\ s.level \in Nat /\ s.at \in Nat /\ s.kv \in KVs
           /\ \A k \in Keys : s.kv[k] \in Maybe(Values)
<1>1. s.level \in Lvls /\ s.at \in Nat /\ s.kv \in KVs
  BY DEF Segments
<1>2. s.level \in Nat
  BY <1>1, LvlsAreNumbers
<1> QED
  BY <1>1, <1>2 DEF KVs

LEMMA PlacedSubset ==
    ASSUME NEW segs, Placed(segs), NEW some, some \subseteq segs
    PROVE  Placed(some)
BY DEF Placed

LEMMA HoldersSubset ==
    ASSUME NEW parts, NEW k \in Keys
    PROVE  /\ Holders(parts, k) \subseteq parts
           /\ \A p \in parts : p \in Holders(parts, k) <=> p.kv[k] # None
BY DEF Holders, Holds

LEMMA FreshestIs ==
    ASSUME NEW segs, \A s \in segs : s.level \in Int /\ s.at \in Int,
           NEW x \in segs, \A r \in segs : r = x \/ Fresher(x, r)
    PROVE  Freshest(segs) = x
<1>1. \A z \in segs : (\A r \in segs : r = z \/ Fresher(z, r)) => z = x
  BY DEF Fresher
<1> QED
  BY <1>1 DEF Freshest

LEMMA FreshestIn ==
    ASSUME NEW segs, Placed(segs), segs # {}
    PROVE  /\ Freshest(segs) \in segs
           /\ \A r \in segs : r = Freshest(segs) \/ Fresher(Freshest(segs), r)
<1> DEFINE L == {s.level : s \in segs}
<1>t. \A s \in segs : s.level \in Nat /\ s.at \in Nat
  BY SegmentType DEF Placed
<1>1. L \in SUBSET Nat /\ L # {}
  BY <1>t
<1>2. PICK l \in L : \A y \in L : l <= y
  BY <1>1, Smallest
<1> DEFINE A == {s.at : s \in {r \in segs : r.level = l}}
<1>3. A \in SUBSET Nat /\ A # {}
  BY <1>t
<1>4. PICK n \in Nat : \A s \in segs : s.at <= n
  BY DEF Placed
<1>5. \A a \in A : a <= n
  BY <1>4
<1>6. PICK a \in A : \A y \in A : y <= a
  <2> HIDE DEF A
  <2> QED
    BY <1>3, <1>5, <1>4, Largest
<1>7. PICK x \in segs : x.level = l /\ x.at = a
  OBVIOUS
<1>8. ASSUME NEW r \in segs
      PROVE  r = x \/ Fresher(x, r)
  <2>1. l <= r.level /\ l \in Nat /\ a \in Nat /\ r.level \in Nat /\ r.at \in Nat
    BY <1>t, <1>2, <1>1, <1>3, <1>6
  <2>2. CASE r.level = l
    <3>1. r.at <= a
      BY <1>6, <2>2
    <3>2. CASE r.at = a
      BY <3>2, <2>2, <1>7 DEF Placed
    <3>3. CASE r.at # a
      BY <3>1, <3>3, <2>1, <2>2, <1>7 DEF Fresher
    <3> QED
      BY <3>2, <3>3
  <2>3. CASE r.level # l
    BY <2>3, <2>1, <1>7 DEF Fresher
  <2> QED
    BY <2>2, <2>3
<1>9. \A s \in segs : s.level \in Int /\ s.at \in Int
  BY <1>t
<1>10. Freshest(segs) = x
  BY <1>8, <1>9, FreshestIs
<1> QED
  BY <1>8, <1>10

LEMMA SegValueType ==
    ASSUME NEW segs, Placed(segs), NEW k \in Keys
    PROVE  /\ SegValue(segs, k) \in Maybe(Values)
           /\ SegValue(segs, k) = None <=> Holders(segs, k) = {}
<1>1. CASE Holders(segs, k) = {}
  BY <1>1 DEF SegValue, Maybe
<1>2. CASE Holders(segs, k) # {}
  <2>1. Placed(Holders(segs, k))
    BY PlacedSubset, HoldersSubset
  <2>2. Freshest(Holders(segs, k)) \in Holders(segs, k)
    BY <2>1, <1>2, FreshestIn
  <2>3. PICK s \in Holders(segs, k) : s = Freshest(Holders(segs, k))
    BY <2>2
  <2>4. s \in Segments /\ s.kv[k] # None
    BY HoldersSubset DEF Placed
  <2>5. s.kv[k] \in Maybe(Values)
    BY <2>4, SegmentType
  <2> QED
    BY <1>2, <2>3, <2>4, <2>5 DEF SegValue
<1> QED
  BY <1>1, <1>2

\* One holder gives its copy.
LEMMA SegSingle ==
    ASSUME NEW segs, Placed(segs), NEW k \in Keys, NEW x \in Holders(segs, k),
           \A r \in Holders(segs, k) : r = x \/ Fresher(x, r)
    PROVE  SegValue(segs, k) = x.kv[k]
<1>1. \A s \in Holders(segs, k) : s \in Segments
  BY HoldersSubset DEF Placed
<1>2. \A s \in Holders(segs, k) : s.level \in Int /\ s.at \in Int
  <2> TAKE s \in Holders(segs, k)
  <2>1. s.level \in Nat /\ s.at \in Nat
    BY <1>1, SegmentType
  <2> QED
    BY <2>1
<1>3. Freshest(Holders(segs, k)) = x
  BY <1>2, FreshestIs
<1> QED
  BY <1>3 DEF SegValue

\* Segments that are all fresher than the old ones shadow them.
LEMMA SegAppend ==
    ASSUME NEW old, NEW new, Placed(old \cup new), NEW k \in Keys,
           \A s \in Holders(new, k), r \in Holders(old, k) : Fresher(s, r)
    PROVE  SegValue(old \cup new, k) =
               IF Holders(new, k) # {} THEN SegValue(new, k) ELSE SegValue(old, k)
<1>1. Holders(old \cup new, k) = Holders(old, k) \cup Holders(new, k)
  BY DEF Holders
<1>2. CASE Holders(new, k) = {}
  <2>1. Holders(old \cup new, k) = Holders(old, k)
    BY <1>1, <1>2
  <2> QED
    BY <2>1, <1>2 DEF SegValue
<1>3. CASE Holders(new, k) # {}
  <2>1. Placed(Holders(new, k))
    <3>1. Holders(new, k) \subseteq old \cup new
      BY HoldersSubset
    <3> QED
      BY <3>1, PlacedSubset
  <2>2. PICK x \in Holders(new, k) : /\ x = Freshest(Holders(new, k))
                                     /\ \A r \in Holders(new, k) : r = x \/ Fresher(x, r)
    BY <2>1, <1>3, FreshestIn
  <2>3. x \in Holders(old \cup new, k)
    BY <1>1
  <2>4. \A r \in Holders(old \cup new, k) : r = x \/ Fresher(x, r)
    BY <1>1, <2>2
  <2>5. SegValue(old \cup new, k) = x.kv[k]
    BY <2>3, <2>4, SegSingle
  <2> QED
    BY <2>5, <2>2, <1>3 DEF SegValue
<1> QED
  BY <1>2, <1>3

(***************************************************************************)
(* The newest memtable                                                     *)
(***************************************************************************)
LEMMA MemType ==
    ASSUME NEW m \in Mems
    PROVE  /\ m.id \in Nat /\ m.kv \in KVs /\ m.slots \in Nat
           /\ \A k \in Keys : m.kv[k] \in Maybe(Values)
BY DEF Mems, KVs

LEMMA QueuedSubset ==
    ASSUME NEW mems, Queued(mems), NEW some, some \subseteq mems
    PROVE  Queued(some)
BY DEF Queued

LEMMA NewestIs ==
    ASSUME NEW mems, Queued(mems), NEW x \in mems, \A m \in mems : m.id <= x.id
    PROVE  Newest(mems) = x
<1>0. \A m \in mems : m.id \in Nat
  BY MemType DEF Queued
<1>1. \A z \in mems : (\A m \in mems : m.id <= z.id) => z.id = x.id
  BY <1>0
<1>2. \A z \in mems : (\A m \in mems : m.id <= z.id) => z = x
  BY <1>1 DEF Queued
<1> QED
  BY <1>2 DEF Newest

LEMMA NewestIn ==
    ASSUME NEW mems, Queued(mems), mems # {}
    PROVE  Newest(mems) \in mems /\ \A m \in mems : m.id <= Newest(mems).id
<1> DEFINE T == {m.id : m \in mems}
<1>0. \A m \in mems : m.id \in Nat
  BY MemType DEF Queued
<1>1. T \in SUBSET Nat /\ T # {}
  BY <1>0
<1>2. PICK n \in Nat : \A m \in mems : m.id <= n
  BY DEF Queued
<1>3. \A x \in T : x <= n
  BY <1>2
<1>4. PICK i \in T : \A y \in T : y <= i
  <2> HIDE DEF T
  <2> QED
    BY <1>1, <1>2, <1>3, Largest
<1>5. PICK x \in mems : x.id = i
  OBVIOUS
<1>6. \A m \in mems : m.id <= x.id
  BY <1>4, <1>5
<1>7. Newest(mems) = x
  BY <1>6, NewestIs
<1> QED
  BY <1>6, <1>7

LEMMA MemSingle ==
    ASSUME NEW mems, Queued(mems), NEW k \in Keys, NEW x \in Holders(mems, k),
           \A m \in Holders(mems, k) : m.id <= x.id
    PROVE  MemValue(mems, k) = x.kv[k]
<1>1. Queued(Holders(mems, k))
  BY HoldersSubset, QueuedSubset
<1>2. Newest(Holders(mems, k)) = x
  BY <1>1, NewestIs
<1> QED
  BY <1>2 DEF MemValue

LEMMA MemValueType ==
    ASSUME NEW mems, Queued(mems), NEW k \in Keys
    PROVE  /\ MemValue(mems, k) \in Maybe(Values)
           /\ MemValue(mems, k) = None <=> Holders(mems, k) = {}
<1>1. CASE Holders(mems, k) = {}
  BY <1>1 DEF MemValue, Maybe
<1>2. CASE Holders(mems, k) # {}
  <2>1. Queued(Holders(mems, k))
    BY HoldersSubset, QueuedSubset
  <2>2. PICK m \in Holders(mems, k) : m = Newest(Holders(mems, k))
    BY <2>1, <1>2, NewestIn
  <2>3. m \in Mems /\ m.kv[k] # None
    BY HoldersSubset DEF Queued
  <2>4. m.kv[k] \in Maybe(Values)
    BY <2>3, MemType
  <2> QED
    BY <1>2, <2>2, <2>3, <2>4 DEF MemValue
<1> QED
  BY <1>1, <1>2

\* Memtables that are all newer than the old ones shadow them.
LEMMA MemAppend ==
    ASSUME NEW old, NEW new, Queued(old \cup new), NEW k \in Keys,
           \A o \in old, m \in new : o.id < m.id
    PROVE  MemValue(old \cup new, k) =
               IF Holders(new, k) # {} THEN MemValue(new, k) ELSE MemValue(old, k)
<1>1. Holders(old \cup new, k) = Holders(old, k) \cup Holders(new, k)
  BY DEF Holders
<1>2. CASE Holders(new, k) = {}
  <2>1. Holders(old \cup new, k) = Holders(old, k)
    BY <1>1, <1>2
  <2> QED
    BY <2>1, <1>2 DEF MemValue
<1>3. CASE Holders(new, k) # {}
  <2>1. Queued(Holders(new, k))
    <3>1. Holders(new, k) \subseteq old \cup new
      BY HoldersSubset
    <3> QED
      BY <3>1, QueuedSubset
  <2>2. PICK x \in Holders(new, k) : /\ x = Newest(Holders(new, k))
                                     /\ \A m \in Holders(new, k) : m.id <= x.id
    BY <2>1, <1>3, NewestIn
  <2>3. x \in Holders(old \cup new, k) /\ x \in new
    BY <1>1, HoldersSubset
  <2>4. \A i, j \in Nat : i < j => i <= j
    OBVIOUS
  <2>5. \A m \in old \cup new : m.id \in Nat
    BY MemType DEF Queued
  <2>6. ASSUME NEW m \in Holders(old, k)
        PROVE  m.id <= x.id
    <3>1. m \in old
      BY HoldersSubset
    <3> QED
      BY <3>1, <2>3, <2>4, <2>5
  <2>7. \A m \in Holders(old \cup new, k) : m.id <= x.id
    BY <1>1, <2>2, <2>6
  <2>8. MemValue(old \cup new, k) = x.kv[k]
    BY <2>3, <2>7, MemSingle
  <2> QED
    BY <2>8, <2>2, <1>3 DEF MemValue
<1> QED
  BY <1>2, <1>3

(***************************************************************************)
(* The invariant                                                           *)
(***************************************************************************)
Tasks == [source : 0..MaxLevels, target : Lvls, epoch : Nat, segs : SUBSET Segments,
          done : BOOLEAN, out : KVs, applied : SUBSET Keys]

TypeInv ==
    /\ delta \in Mems
    /\ Queued(flushing) /\ IsFiniteSet(flushing)
    /\ Placed(levels) /\ IsFiniteSet(levels)
    /\ tombstones \in SUBSET Keys /\ torn \in SUBSET Keys
    /\ epoch \in Nat /\ nextId \in Nat
    /\ coord \in [pc : {"idle", "swap", "merges"}, epoch : Nat]
    /\ builds \in SUBSET [mem : Mems, epoch : Nat]
    /\ merges \in SUBSET Tasks
    /\ consolidating \in BOOLEAN

\* The active memtable is the newest, and what it holds is not deleted.
InSequence ==
    /\ delta.id < nextId
    /\ delta.id = 0 => delta = NoDelta
    /\ \A m \in flushing : 0 < m.id /\ m.id < delta.id
    /\ Holds(delta) \cap tombstones = {}

\* A build of this epoch has its memtable in flushing, and each build has its own.
BuildsMatch ==
    /\ \A b \in builds : 0 < b.mem.id /\ b.mem.id < nextId /\ b.mem.id # delta.id /\ b.epoch <= epoch
    /\ \A b \in builds : b.epoch = epoch => b.mem \in flushing
    /\ \A b, c \in builds : b.mem.id = c.mem.id => b = c
    /\ coord.epoch <= epoch

\* Merges start from different levels, and a consolidation is alone.
Apart(tasks, busy, cons, e) ==
    /\ \A t, u \in tasks : t.source = u.source => t = u
    /\ \A t \in tasks :
        /\ t.epoch <= e /\ t.target > 0
        /\ t.source = Consolidation => cons /\ tasks = {t}
        /\ t.source # Consolidation => /\ t.source \in busy /\ t.source < MaxLevels
                                       /\ t.target = t.source + 1

\* What has come to its levels since a task started is fresher than what it merges.
Above(t, s) == \A r \in t.segs : Fresher(s, r)

Fits(t, lv) ==
    /\ t.segs \subseteq lv
    /\ \A s \in t.segs : s.level \in FromLevels(t)
    /\ \A s \in lv \ t.segs : s.level \in FromLevels(t) => s.level < t.target /\ Above(t, s)

\* A merge has of each key its latest copy, or none and has applied its tombstone.
Merged(t) ==
    /\ Placed(t.segs)
    /\ t.done =>
        \A k \in Keys :
            IF k \in t.applied THEN Holders(t.segs, k) # {} /\ t.out[k] = None
            ELSE t.out = Nothing \/ t.out[k] = SegValue(t.segs, k)
    /\ ~t.done => t.applied = {} /\ t.out = Nothing

\* A key whose tombstone was applied is still deleted, or was added again since.
\* Only of torn keys is this not known.
Overlaid(t, k) ==
    \/ k \in tombstones
    \/ k \in Holds(delta)
    \/ Holders(flushing, k) # {}
    \/ \E s \in Holders(levels, k) : Above(t, s)

TasksMatch ==
    /\ Apart(merges, merging, consolidating, epoch)
    /\ \A t \in merges : Merged(t)
    /\ \A t \in merges : t.epoch = epoch =>
        Fits(t, levels) /\ \A k \in t.applied \ torn : Overlaid(t, k)

TombsHide == \A k \in tombstones \ torn : HasCopy(k)

IInv == TypeInv /\ InSequence /\ BuildsMatch /\ TasksMatch /\ TombsHide

LEMMA NothingType == Nothing \in KVs /\ \A k \in Keys : Nothing[k] = None
BY DEF Nothing, KVs, Maybe

LEMMA MemtableType ==
    ASSUME NEW id \in Nat
    PROVE  /\ Memtable(id) \in Mems /\ Memtable(id).id = id
           /\ Holds(Memtable(id)) = {} /\ Memtable(id).kv = Nothing
BY NothingType DEF Memtable, Mems, Holds

LEMMA InitIInv == Init => IInv
<1> SUFFICES ASSUME Init PROVE IInv
  OBVIOUS
<1>1. delta \in Mems /\ delta.id = 0 /\ Holds(delta) = {}
  BY MemtableType DEF Init, NoDelta
<1>2. Queued({}) /\ Placed({}) /\ IsFiniteSet({})
  BY FS_EmptySet DEF Queued, Placed
<1>3. TypeInv
  BY <1>1, <1>2 DEF Init, TypeInv
<1>4. InSequence
  BY <1>1 DEF Init, InSequence
<1>5. BuildsMatch
  BY DEF Init, BuildsMatch
<1>6. TasksMatch
  BY DEF Init, TasksMatch, Apart
<1>7. TombsHide
  BY DEF Init, TombsHide
<1> QED
  BY <1>3, <1>4, <1>5, <1>6, <1>7 DEF IInv

(***************************************************************************)
(* Merges start                                                            *)
(***************************************************************************)
\* What a merge leaves in its level is fresher than what it takes.
LEMMA BatchIsOldest ==
    ASSUME NEW segs, Placed(segs), IsFiniteSet(segs),
           NEW s \in Batch(segs), NEW r \in segs, r \notin Batch(segs)
    PROVE  s.at < r.at
<1> DEFINE Older(x) == {q \in segs : q.at < x.at}
<1>1. s \in segs /\ Cardinality(Older(s)) < MergeBatchMax
  BY DEF Batch
<1>2. ~(Cardinality(Older(r)) < MergeBatchMax)
  BY DEF Batch
<1>3. \A q \in segs : q.at \in Nat
  BY SegmentType DEF Placed
<1>4. SUFFICES ASSUME ~(s.at < r.at) PROVE FALSE
  OBVIOUS
<1>5. r.at <= s.at
  BY <1>1, <1>3, <1>4
<1>6. Older(r) \subseteq Older(s)
  BY <1>1, <1>3, <1>5
<1>7. IsFiniteSet(Older(s))
  BY FS_Subset
<1>8. Cardinality(Older(r)) <= Cardinality(Older(s)) /\ Cardinality(Older(s)) \in Nat
      /\ Cardinality(Older(r)) \in Nat
  BY <1>6, <1>7, FS_Subset, FS_CardinalityType
<1>9. MergeBatchMax \in Nat
  BY StoreAssumption
<1> QED
  BY <1>1, <1>2, <1>8, <1>9

LEMMA NewTask ==
    ASSUME NEW l \in 0..(MaxLevels - 2), NEW e \in Nat, NEW lv, Placed(lv), IsFiniteSet(lv)
    PROVE  LET t == Task(l, l + 1, e, Batch(Level(lv, l)))
           IN  /\ t \in Tasks /\ t.source = l /\ t.target = l + 1 /\ t.epoch = e
               /\ l # Consolidation /\ l < MaxLevels /\ l + 1 > 0
               /\ t.applied = {} /\ Merged(t) /\ Fits(t, lv)
<1> DEFINE segs == Level(lv, l)
           t == Task(l, l + 1, e, Batch(segs))
<1>1. /\ l \in Nat /\ l \in 0..MaxLevels /\ l + 1 \in Lvls /\ l # Consolidation /\ l < MaxLevels
      /\ l + 1 > 0 /\ l < l + 1
  BY StoreAssumption DEF Lvls, Consolidation
<1>2. segs \subseteq lv /\ \A s \in segs : s.level = l
  BY DEF Level
<1>3. Placed(segs) /\ IsFiniteSet(segs)
  BY <1>2, PlacedSubset, FS_Subset
<1>4. Batch(segs) \subseteq segs
  BY DEF Batch
<1>5. Batch(segs) \in SUBSET Segments
  BY <1>3, <1>4 DEF Placed
<1>6. t \in Tasks
  BY <1>1, <1>5, NothingType DEF Task, Tasks
<1>7. /\ t.source = l /\ t.target = l + 1 /\ t.epoch = e /\ t.segs = Batch(segs)
      /\ t.done = FALSE /\ t.applied = {} /\ t.out = Nothing
  BY DEF Task
<1> HIDE DEF t
<1>8. Merged(t)
  BY <1>3, <1>4, <1>7, PlacedSubset DEF Merged
<1>9. FromLevels(t) = {l}
  BY <1>1, <1>7 DEF FromLevels
<1>10. ASSUME NEW s \in lv \ t.segs, s.level \in FromLevels(t)
       PROVE  s.level < t.target /\ Above(t, s)
  <2>1. s.level = l /\ s \in segs /\ s \notin Batch(segs)
    BY <1>7, <1>9, <1>10 DEF Level
  <2>2. ASSUME NEW r \in t.segs
        PROVE  Fresher(s, r)
    <3>1. r \in Batch(segs) /\ r \in segs
      BY <1>4, <1>7
    <3>2. r.at < s.at
      BY <2>1, <3>1, <1>3, BatchIsOldest
    <3>3. r.at \in Nat /\ s.at \in Nat
      BY <2>1, <3>1, <1>3, SegmentType DEF Placed
    <3>4. s.at > r.at
      BY <3>2, <3>3
    <3> QED
      BY <3>4, <2>1, <3>1, <1>2 DEF Fresher
  <2> QED
    BY <2>1, <2>2, <1>1, <1>7 DEF Above
<1>11. Fits(t, lv)
  BY <1>2, <1>4, <1>7, <1>9, <1>10 DEF Fits
<1> QED
  BY <1>1, <1>6, <1>7, <1>8, <1>11 DEF t

LEMMA ScheduleAdds ==
    ASSUME NEW e \in Nat, NEW fl, NEW lv, Placed(lv), IsFiniteSet(lv), NEW fly, NEW busy,
           NEW tasks \in SUBSET Tasks, NEW cons \in BOOLEAN,
           Apart(tasks, busy, cons, epoch), \A t \in tasks : Merged(t),
           Schedule(e, fl, lv, fly, busy, tasks, cons)
    PROVE  /\ merges' \in SUBSET Tasks
           /\ Apart(merges', merging', cons, epoch)
           /\ \A t \in merges' : Merged(t)
           /\ \A t \in merges' : t \in tasks \/ (t.applied = {} /\ Fits(t, lv))
<1> DEFINE due == IF cons \/ epoch # e THEN {} ELSE Due(fl, lv, fly, busy)
           Of(l) == Task(l, l + 1, e, Batch(Level(lv, l)))
<1>1. merging' = busy \cup due /\ merges' = tasks \cup {Of(l) : l \in due}
  BY DEF Schedule
<1>2. \A l \in due : l \in 0..(MaxLevels - 2) /\ l \notin busy /\ ~cons /\ epoch = e
  BY DEF Due
<1> HIDE DEF due
<1>3. \A l \in due :
          /\ Of(l) \in Tasks /\ Of(l).source = l /\ Of(l).target = l + 1 /\ Of(l).epoch = e
          /\ l # Consolidation /\ l < MaxLevels /\ l + 1 > 0
          /\ Of(l).applied = {} /\ Merged(Of(l)) /\ Fits(Of(l), lv)
  BY <1>2, NewTask
<1> HIDE DEF Of
<1>4. \A t \in merges' : t \in tasks \/ \E l \in due : t = Of(l)
  BY <1>1
<1>5. \A t \in tasks : t.source = Consolidation => due = {} /\ tasks = {t} /\ cons
  BY <1>2 DEF Apart
<1>6. \A t \in tasks : t.source # Consolidation =>
          t.source \in busy /\ t.source < MaxLevels /\ t.target = t.source + 1
  BY DEF Apart
<1>7. \A t \in tasks, l \in due : t.source # l
  BY <1>2, <1>3, <1>6
<1>8. \A t, u \in merges' : t.source = u.source => t = u
  <2> SUFFICES ASSUME NEW t \in merges', NEW u \in merges', t.source = u.source
               PROVE  t = u
    OBVIOUS
  <2>1. CASE t \in tasks /\ u \in tasks
    BY <2>1 DEF Apart
  <2>2. CASE t \in tasks /\ u \notin tasks
    BY <2>2, <1>3, <1>4, <1>7
  <2>3. CASE t \notin tasks /\ u \in tasks
    BY <2>3, <1>3, <1>4, <1>7
  <2>4. CASE t \notin tasks /\ u \notin tasks
    BY <2>4, <1>3, <1>4
  <2> QED
    BY <2>1, <2>2, <2>3, <2>4
<1>9. ASSUME NEW t \in merges'
      PROVE  /\ t.epoch <= epoch /\ t.target > 0
             /\ t.source = Consolidation => cons /\ merges' = {t}
             /\ t.source # Consolidation =>
                   t.source \in merging' /\ t.source < MaxLevels /\ t.target = t.source + 1
  <2>1. CASE t \in tasks
    <3>1. t.epoch <= epoch /\ t.target > 0
      BY <2>1 DEF Apart
    <3>2. t.source = Consolidation => cons /\ merges' = {t}
      BY <2>1, <1>1, <1>5
    <3> QED
      BY <2>1, <3>1, <3>2, <1>1, <1>6
  <2>2. CASE t \notin tasks
    <3>1. PICK l \in due : t = Of(l)
      BY <2>2, <1>4
    <3>2. epoch = e /\ e <= e
      BY <3>1, <1>2
    <3> QED
      BY <3>1, <3>2, <1>1, <1>3
  <2> QED
    BY <2>1, <2>2
<1>10. Apart(merges', merging', cons, epoch)
  BY <1>8, <1>9 DEF Apart
<1>11. merges' \in SUBSET Tasks
  BY <1>3, <1>4
<1>12. \A t \in merges' : Merged(t)
  BY <1>3, <1>4
<1> QED
  BY <1>3, <1>4, <1>10, <1>11, <1>12

(***************************************************************************)
(* The calls                                                               *)
(***************************************************************************)
\* Tasks and tombstones of a step that leaves the levels and the tasks alone.
LEMMA TasksStay ==
    ASSUME IInv, UNCHANGED <<levels, merges, merging, consolidating, epoch>>,
           \A t \in merges : \A k \in t.applied \ torn' :
               t.epoch = epoch /\ Fits(t, levels) /\ (k \notin torn => Overlaid(t, k)) => Overlaid(t, k)'
    PROVE  TasksMatch'
<1>1. Apart(merges, merging, consolidating, epoch)'
  BY DEF IInv, TasksMatch, Apart
<1>2. \A t \in merges : Merged(t)'
  BY DEF IInv, TasksMatch, Merged, Placed
<1>3. ASSUME NEW t \in merges, t.epoch = epoch
      PROVE  Fits(t, levels)' /\ \A k \in t.applied \ torn' : Overlaid(t, k)'
  <2>1. Fits(t, levels) /\ \A k \in t.applied \ torn : Overlaid(t, k)
    BY <1>3 DEF IInv, TasksMatch
  <2>2. Fits(t, levels)'
    BY <2>1 DEF Fits, Above
  <2> QED
    BY <1>3, <2>1, <2>2
<1> QED
  BY <1>1, <1>2, <1>3 DEF TasksMatch

LEMMA AddStep ==
    ASSUME IInv, NEW k \in Keys, NEW v \in Values, Add(k, v)
    PROVE  IInv' /\ View' = [View EXCEPT ![k] = v]
<1> DEFINE old == IF HasDelta THEN delta ELSE Memtable(nextId)
           new == [old EXCEPT !.kv[k] = v, !.slots = IF k \notin Holds(old) THEN @ + 1 ELSE @]
<1>1. /\ delta' = new /\ tombstones' = tombstones \ {k} /\ torn' = torn \ {k}
      /\ nextId' = (IF HasDelta THEN nextId ELSE nextId + 1)
      /\ UNCHANGED <<flushing, levels, epoch, coord, builds, merges, merging, consolidating>>
  BY DEF Add, Called, removeTombstone, work
<1>2. /\ delta \in Mems /\ nextId \in Nat /\ delta.id \in Nat /\ delta.id < nextId
      /\ delta.id = 0 => delta = NoDelta
      /\ \A m \in flushing : 0 < m.id /\ m.id < delta.id
      /\ \A m \in flushing : m.id \in Nat
      /\ \A b \in builds : b.mem.id < nextId /\ b.mem.id # delta.id /\ b.mem.id \in Nat
  BY MemType DEF IInv, TypeInv, InSequence, BuildsMatch, Queued
<1>3. /\ old \in Mems /\ old.kv = delta.kv /\ old.id \in Nat /\ 0 < old.id /\ old.id < nextId'
      /\ nextId' \in Nat /\ nextId <= nextId'
      /\ \A m \in flushing : m.id < old.id
      /\ \A b \in builds : b.mem.id # old.id
  <2>1. CASE HasDelta
    <3>1. delta.id # 0
      BY <2>1, <1>2 DEF HasDelta
    <3> QED
      BY <3>1, <2>1, <1>1, <1>2
  <2>2. CASE ~HasDelta
    <3>1. delta = Memtable(0) /\ old = Memtable(nextId)
      BY <2>2 DEF HasDelta, NoDelta
    <3>2. /\ old \in Mems /\ old.id = nextId /\ old.kv = Nothing /\ delta.kv = Nothing
          /\ delta.id = 0
      BY <3>1, <1>2, MemtableType
    <3>3. nextId' = nextId + 1
      BY <2>2, <1>1
    <3>4. \A b \in builds : b.mem.id # nextId
      BY <1>2
    <3>5. \A m \in flushing : m.id < nextId
      BY <1>2, <3>2
    <3> QED
      BY <1>2, <3>2, <3>3, <3>4, <3>5
  <2> QED
    BY <2>1, <2>2
<1>v. v # None /\ v \in Maybe(Values)
  BY StoreAssumption DEF Maybe
<1> HIDE DEF old
<1>4. new \in Mems /\ new.id = old.id /\ new.kv = [delta.kv EXCEPT ![k] = v]
  <2> DEFINE slots == IF k \notin Holds(old) THEN old.slots + 1 ELSE old.slots
  <2>1. old.kv \in KVs /\ slots \in Nat
    BY <1>3, MemType
  <2>2. [old.kv EXCEPT ![k] = v] \in KVs
    BY <2>1, <1>v DEF KVs
  <2>3. new \in Mems
    BY <2>1, <2>2, <1>3 DEF Mems
  <2>4. new.id = old.id /\ new.kv = [old.kv EXCEPT ![k] = v]
    BY <1>3 DEF Mems
  <2> QED
    BY <2>3, <2>4, <1>3
<1> HIDE DEF new
<1>5. delta.kv \in KVs /\ DOMAIN delta.kv = Keys
  BY <1>2, MemType DEF KVs
<1>6. \A j \in Keys : delta'.kv[j] = IF j = k THEN v ELSE delta.kv[j]
  BY <1>1, <1>4, <1>5
<1>7. Holds(delta') = Holds(delta) \cup {k}
  BY <1>6, <1>v DEF Holds
<1>8. TypeInv'
  <2>1. tombstones' \in SUBSET Keys /\ torn' \in SUBSET Keys
    BY <1>1 DEF IInv, TypeInv
  <2> QED
    BY <1>1, <1>3, <1>4, <2>1 DEF IInv, TypeInv, Queued, Placed
<1>9. InSequence'
  <2>1. delta'.id < nextId' /\ delta'.id # 0
    BY <1>1, <1>3, <1>4
  <2>2. \A m \in flushing' : 0 < m.id /\ m.id < delta'.id
    BY <1>1, <1>2, <1>3, <1>4
  <2>3. Holds(delta') \cap tombstones' = {}
    BY <1>1, <1>7 DEF IInv, InSequence
  <2> QED
    BY <2>1, <2>2, <2>3 DEF InSequence
<1>10. BuildsMatch'
  <2>1. \A b \in builds : 0 < b.mem.id /\ b.mem.id < nextId' /\ b.mem.id # delta'.id /\ b.epoch <= epoch
    <3> TAKE b \in builds
    <3>1. 0 < b.mem.id /\ b.epoch <= epoch
      BY DEF IInv, BuildsMatch
    <3> QED
      BY <3>1, <1>1, <1>2, <1>3, <1>4
  <2> QED
    BY <2>1, <1>1 DEF IInv, BuildsMatch
<1>11. TasksMatch'
  <2>1. \A t \in merges : \A j \in t.applied \ torn' : (j \notin torn => Overlaid(t, j)) => Overlaid(t, j)'
    <3> SUFFICES ASSUME NEW t \in merges, NEW j \in t.applied \ torn', j \notin torn => Overlaid(t, j)
                 PROVE  Overlaid(t, j)'
      OBVIOUS
    <3>1. CASE j = k
      BY <3>1, <1>7 DEF Overlaid
    <3>2. CASE j # k
      BY <3>2, <1>1, <1>7 DEF Overlaid
    <3> QED
      BY <3>1, <3>2
  <2> QED
    BY <1>1, <2>1, TasksStay
<1>12. TombsHide'
  BY <1>1 DEF IInv, TombsHide, HasCopy
<1>13. \A j \in Keys : View'[j] = [View EXCEPT ![k] = v][j]
  <2> TAKE j \in Keys
  <2>1. CASE j = k
    BY <2>1, <1>6, <1>7 DEF View, Get
  <2>2. CASE j # k
    BY <2>2, <1>1, <1>6, <1>7 DEF View, Get
  <2> QED
    BY <2>1, <2>2
<1>14. View' = [View EXCEPT ![k] = v]
  BY <1>13 DEF View
<1> QED
  BY <1>8, <1>9, <1>10, <1>11, <1>12, <1>14 DEF IInv

LEMMA DeleteStep ==
    ASSUME IInv, NEW k \in Keys, Delete(k)
    PROVE  IInv' /\ View' = [View EXCEPT ![k] = None] /\ last' = <<"Delete", View[k] # None>>
<1> DEFINE new == [delta EXCEPT !.kv[k] = None]
<1>1. /\ delta' = new
      /\ tombstones' = IF HasCopy(k) THEN tombstones \cup {k} ELSE tombstones \ {k}
      /\ UNCHANGED <<flushing, levels, epoch, coord, builds, merges, merging, consolidating, nextId>>
      /\ torn' = torn \ {k}
      /\ last' = <<"Delete", k \in Holds(delta) \/ (k \notin tombstones /\ HasCopy(k))>>
  <2> DEFINE tombs == IF HasCopy(k) THEN tombstones \cup {k} ELSE tombstones \ {k}
             there == k \in Holds(delta) \/ (k \notin tombstones /\ HasCopy(k))
  <2>1. Called({k}, [View EXCEPT ![k] = None], new, tombs, <<"Delete", there>>)
    BY DEF Delete, removeTombstone
  <2>2. UNCHANGED <<flushing, levels, epoch, coord, builds, merges, merging, consolidating, nextId>>
    BY DEF Delete, work
  <2> HIDE DEF new, tombs, there
  <2>3. delta' = new /\ tombstones' = tombs /\ torn' = torn \ {k} /\ last' = <<"Delete", there>>
    BY <2>1 DEF Called
  <2> QED
    BY <2>2, <2>3 DEF tombs, there
<1>2. delta \in Mems /\ delta.kv \in KVs /\ Placed(levels) /\ Queued(flushing)
  BY MemType DEF IInv, TypeInv
<1>3. /\ new \in Mems /\ new.id = delta.id
      /\ \A j \in Keys : new.kv[j] = IF j = k THEN None ELSE delta.kv[j]
  BY <1>2 DEF Mems, KVs, Maybe
<1>4. delta = NoDelta => new = NoDelta
  <2>1. delta = NoDelta => [delta.kv EXCEPT ![k] = None] = delta.kv
    BY DEF NoDelta, Memtable, Nothing
  <2> QED
    BY <2>1 DEF NoDelta, Memtable
<1> HIDE DEF new
<1>5. Holds(delta') = Holds(delta) \ {k}
  BY <1>1, <1>3 DEF Holds
<1>6. TypeInv'
  <2>1. tombstones' \in SUBSET Keys /\ torn' \in SUBSET Keys
    BY <1>1 DEF IInv, TypeInv
  <2> QED
    BY <1>1, <1>3, <2>1 DEF IInv, TypeInv, Queued, Placed
<1>7. InSequence'
  <2>1. Holds(delta') \cap tombstones' = {}
    BY <1>1, <1>5 DEF IInv, InSequence
  <2> QED
    BY <1>1, <1>3, <1>4, <2>1 DEF IInv, InSequence
<1>8. BuildsMatch'
  BY <1>1, <1>3 DEF IInv, BuildsMatch
<1>9. TasksMatch'
  <2>1. ASSUME NEW t \in merges, NEW j \in t.applied \ torn', t.epoch = epoch,
               j \notin torn => Overlaid(t, j)
        PROVE  Overlaid(t, j)'
    <3>1. CASE j = k
      <4>1. Fits(t, levels) /\ Merged(t) /\ t.applied \subseteq Keys
        BY <2>1 DEF IInv, TasksMatch, TypeInv, Tasks
      <4>2. Holders(t.segs, j) # {}
        BY <4>1 DEF Merged
      <4>3. Holders(levels, j) # {}
        BY <4>1, <4>2 DEF Fits, Holders
      <4>4. k \in tombstones'
        BY <3>1, <4>3, <1>1 DEF HasCopy
      <4> QED
        BY <3>1, <4>4 DEF Overlaid
    <3>2. CASE j # k
      BY <3>2, <2>1, <1>1, <1>5 DEF Overlaid
    <3> QED
      BY <3>1, <3>2
  <2> QED
    BY <1>1, <2>1, TasksStay
<1>10. TombsHide'
  BY <1>1 DEF IInv, TombsHide, HasCopy
<1>11. View'[k] = None
  <2>1. CASE HasCopy(k)
    BY <2>1, <1>1, <1>5 DEF View, Get
  <2>2. CASE ~HasCopy(k)
    BY <2>2, <1>1, <1>5 DEF View, Get, HasCopy, SegValue
  <2> QED
    BY <2>1, <2>2
<1>12. \A j \in Keys : j # k => View'[j] = View[j]
  <2> SUFFICES ASSUME NEW j \in Keys, j # k PROVE View'[j] = View[j]
    OBVIOUS
  <2>1. /\ j \in tombstones' <=> j \in tombstones
        /\ j \in Holds(delta') <=> j \in Holds(delta)
        /\ delta'.kv[j] = delta.kv[j]
    BY <1>1, <1>3, <1>5
  <2> QED
    BY <1>1, <2>1 DEF View, Get
<1>13. View' = [View EXCEPT ![k] = None]
  BY <1>11, <1>12 DEF View
<1>14. (View[k] # None) = (k \in Holds(delta) \/ (k \notin tombstones /\ HasCopy(k)))
  <2>1. /\ MemValue(flushing, k) = None <=> Holders(flushing, k) = {}
        /\ SegValue(levels, k) = None <=> Holders(levels, k) = {}
    BY <1>2, MemValueType, SegValueType
  <2>2. k \in Holds(delta) => delta.kv[k] # None
    BY DEF Holds
  <2> QED
    BY <2>1, <2>2 DEF View, Get, HasCopy
<1> QED
  BY <1>1, <1>6, <1>7, <1>8, <1>9, <1>10, <1>13, <1>14 DEF IInv

LEMMA ClearStep ==
    ASSUME IInv, Clear
    PROVE  IInv' /\ View' = Nothing
<1>1. /\ delta' = NoDelta /\ flushing' = {} /\ levels' = {} /\ tombstones' = {}
      /\ epoch' = epoch + 1 /\ torn' = torn \ Keys
      /\ UNCHANGED <<coord, builds, merges, merging, consolidating, nextId>>
  BY DEF Clear, Called, work
<1>2. NoDelta \in Mems /\ NoDelta.id = 0 /\ Holds(NoDelta) = {} /\ epoch \in Nat /\ epoch' \in Nat
  BY <1>1, MemtableType DEF NoDelta, IInv, TypeInv
<1>3. TypeInv'
  BY <1>1, <1>2, FS_EmptySet DEF IInv, TypeInv, Queued, Placed
<1>4. InSequence'
  <2>1. 0 < nextId
    <3>1. delta.id < nextId /\ delta.id \in Nat /\ nextId \in Nat
      BY MemType DEF IInv, TypeInv, InSequence
    <3> QED
      BY <3>1
  <2> QED
    BY <1>1, <1>2, <2>1 DEF InSequence
<1>5. ASSUME NEW b \in builds
      PROVE  0 < b.mem.id /\ b.mem.id < nextId /\ b.mem.id # 0 /\ b.epoch <= epoch' /\ b.epoch # epoch'
  <2>1. 0 < b.mem.id /\ b.mem.id < nextId /\ b.epoch <= epoch /\ b.epoch \in Nat /\ b.mem.id \in Nat
    BY MemType DEF IInv, TypeInv, BuildsMatch
  <2> QED
    BY <2>1, <1>1, <1>2
<1>6. BuildsMatch'
  <2>1. \A b, c \in builds : b.mem.id = c.mem.id => b = c
    BY DEF IInv, BuildsMatch
  <2>2. coord.epoch <= epoch'
    <3>1. coord.epoch <= epoch /\ coord.epoch \in Nat
      BY DEF IInv, BuildsMatch, TypeInv
    <3> QED
      BY <3>1, <1>1, <1>2
  <2> QED
    BY <1>1, <1>2, <1>5, <2>1, <2>2 DEF BuildsMatch
<1>7. ASSUME NEW t \in merges
      PROVE  t.epoch <= epoch' /\ t.epoch # epoch'
  <2>1. t.epoch <= epoch /\ t.epoch \in Nat
    BY DEF IInv, TypeInv, Tasks, TasksMatch, Apart
  <2> QED
    BY <2>1, <1>1, <1>2
<1>8. Apart(merges, merging, consolidating, epoch)'
  BY <1>1, <1>7 DEF IInv, TasksMatch, Apart
<1>9. TasksMatch'
  BY <1>1, <1>7, <1>8 DEF IInv, TasksMatch, Merged, Placed
<1>10. TombsHide'
  BY <1>1 DEF TombsHide
<1>11. View' = Nothing
  BY <1>1, <1>2 DEF View, Get, Nothing, SegValue, Holders
<1> QED
  BY <1>3, <1>4, <1>6, <1>9, <1>10, <1>11 DEF IInv

(***************************************************************************)
(* Steps that leave the parts of the store alone                           *)
(***************************************************************************)
LEMMA StoreKept ==
    ASSUME UNCHANGED <<store, torn>>
    PROVE  /\ View' = View
           /\ InSequence /\ UNCHANGED nextId => InSequence'
           /\ TombsHide => TombsHide'
BY DEF store, View, Get, InSequence, TombsHide, HasCopy

LEMMA TypesKept ==
    ASSUME TypeInv, UNCHANGED <<store, torn, nextId>>, UNCHANGED builds \/ builds' \subseteq builds,
           coord' \in [pc : {"idle", "swap", "merges"}, epoch : Nat],
           merges' \in SUBSET Tasks, consolidating' \in BOOLEAN
    PROVE  TypeInv'
<1>1. builds' \in SUBSET [mem : Mems, epoch : Nat]
  BY DEF TypeInv
<1> QED
  BY <1>1 DEF TypeInv, store, Queued, Placed

\* New merges fit the levels that they are taken from.
LEMMA ScheduleStep ==
    ASSUME IInv, UNCHANGED <<store, torn, consolidating>>, NEW e \in Nat, NEW fly,
           Schedule(e, flushing, levels, fly, merging, merges, consolidating)
    PROVE  merges' \in SUBSET Tasks /\ TasksMatch'
<1>1. /\ Placed(levels) /\ IsFiniteSet(levels) /\ merges \in SUBSET Tasks
      /\ consolidating \in BOOLEAN
      /\ Apart(merges, merging, consolidating, epoch) /\ \A t \in merges : Merged(t)
  BY DEF IInv, TypeInv, TasksMatch
<1>2. /\ merges' \in SUBSET Tasks
      /\ Apart(merges', merging', consolidating, epoch)
      /\ \A t \in merges' : Merged(t)
      /\ \A t \in merges' : t \in merges \/ (t.applied = {} /\ Fits(t, levels))
  BY <1>1, ScheduleAdds, SMTT(60)
<1>3. /\ epoch' = epoch /\ levels' = levels /\ delta' = delta /\ flushing' = flushing
      /\ tombstones' = tombstones /\ consolidating' = consolidating
  BY DEF store
<1>4. \A t \in merges' : Merged(t)'
  BY <1>2 DEF Merged, Placed
<1>5. ASSUME NEW t \in merges', t.epoch = epoch
      PROVE  Fits(t, levels)' /\ \A k \in t.applied \ torn : Overlaid(t, k)'
  <2>1. Fits(t, levels) /\ \A k \in t.applied \ torn : Overlaid(t, k)
    BY <1>2, <1>5 DEF IInv, TasksMatch
  <2> QED
    BY <2>1, <1>3 DEF Fits, Above, Overlaid
<1>6. Apart(merges, merging, consolidating, epoch)'
  BY <1>2, <1>3
<1> QED
  BY <1>2, <1>3, <1>4, <1>5, <1>6 DEF TasksMatch

LEMMA BuildsStay ==
    ASSUME BuildsMatch, UNCHANGED <<store, nextId, builds>>,
           coord'.epoch <= epoch
    PROVE  BuildsMatch'
BY DEF BuildsMatch, store

LEMMA CompactSignalStep ==
    ASSUME IInv, CompactSignal
    PROVE  IInv' /\ View' = View
<1>1. /\ UNCHANGED <<store, torn, builds, merges, merging, consolidating, nextId>>
      /\ coord' = [pc |-> "swap", epoch |-> epoch]
  BY DEF CompactSignal, work, history
<1>2. coord' \in [pc : {"idle", "swap", "merges"}, epoch : Nat] /\ coord'.epoch <= epoch
  BY <1>1 DEF IInv, TypeInv
<1>3. TypeInv'
  BY <1>1, <1>2, TypesKept DEF IInv, TypeInv
<1>4. BuildsMatch'
  BY <1>1, <1>2, BuildsStay DEF IInv
<1>5. TasksMatch'
  <2>1. \A t \in merges : \A k \in t.applied \ torn' :
            (k \notin torn => Overlaid(t, k)) => Overlaid(t, k)'
    BY <1>1 DEF Overlaid, store
  <2>2. UNCHANGED <<levels, merges, merging, consolidating, epoch>>
    BY <1>1 DEF store
  <2> QED
    BY <2>1, <2>2, TasksStay
<1> QED
  BY <1>1, <1>3, <1>4, <1>5, StoreKept DEF IInv

LEMMA MaybeScheduleMergesStep ==
    ASSUME IInv, MaybeScheduleMerges
    PROVE  IInv' /\ View' = View
<1>1. /\ UNCHANGED <<store, torn, builds, consolidating, nextId>>
      /\ coord' = [coord EXCEPT !.pc = "idle"]
      /\ Schedule(coord.epoch, flushing, levels, inFlight, merging, merges, consolidating)
  BY DEF MaybeScheduleMerges, history
<1>2. /\ coord.epoch \in Nat /\ coord'.epoch = coord.epoch
      /\ coord' \in [pc : {"idle", "swap", "merges"}, epoch : Nat]
  BY <1>1 DEF IInv, TypeInv
<1>3. merges' \in SUBSET Tasks /\ TasksMatch'
  BY <1>1, <1>2, ScheduleStep
<1>4. TypeInv'
  BY <1>1, <1>2, <1>3, TypesKept DEF IInv, TypeInv
<1>5. BuildsMatch'
  BY <1>1, <1>2, BuildsStay DEF IInv, BuildsMatch
<1> QED
  BY <1>1, <1>3, <1>4, <1>5, StoreKept DEF IInv

\* A turn of FlushDeltaSync and what else keeps the store and may start merges.
LEMMA QuietStep ==
    ASSUME IInv, UNCHANGED <<store, torn, coord, builds, consolidating, nextId>>,
           \/ UNCHANGED <<merging, merges>>
           \/ Schedule(epoch, flushing, levels, inFlight, merging, merges, consolidating)
    PROVE  IInv' /\ View' = View
<1>1. merges' \in SUBSET Tasks /\ TasksMatch'
  <2>1. CASE UNCHANGED <<merging, merges>>
    <3>1. \A t \in merges : \A k \in t.applied \ torn' :
              (k \notin torn => Overlaid(t, k)) => Overlaid(t, k)'
      BY DEF Overlaid, store
    <3>2. UNCHANGED <<levels, merges, merging, consolidating, epoch>>
      BY <2>1 DEF store
    <3> QED
      BY <3>1, <3>2, TasksStay DEF IInv, TypeInv
  <2>2. CASE Schedule(epoch, flushing, levels, inFlight, merging, merges, consolidating)
    <3>1. epoch \in Nat
      BY DEF IInv, TypeInv
    <3> QED
      BY <2>2, <3>1, ScheduleStep
  <2> QED
    BY <2>1, <2>2
<1>2. TypeInv'
  BY <1>1, TypesKept DEF IInv, TypeInv
<1>3. BuildsMatch'
  BY BuildsStay DEF IInv, BuildsMatch
<1> QED
  BY <1>1, <1>2, <1>3, StoreKept DEF IInv

LEMMA SyncAndSearchStep ==
    ASSUME IInv,
           FlushDeltaSync \/ WakeUp \/ SaveBinary \/ SearchEnd \/ \E F \in Filters : SearchBegin(F)
    PROVE  IInv' /\ View' = View /\ UNCHANGED history
<1>1. /\ UNCHANGED <<store, torn, coord, builds, consolidating, nextId>>
      /\ \/ UNCHANGED <<merging, merges>>
         \/ Schedule(epoch, flushing, levels, inFlight, merging, merges, consolidating)
      /\ UNCHANGED history
  BY DEF FlushDeltaSync, WakeUp, SaveBinary, SearchEnd, SearchBegin, SyncTurn, work, history
<1> QED
  BY <1>1, QuietStep

LEMMA ConsolidationTarget ==
    ASSUME NEW d \in Lvls
    PROVE  Min({d + 1, MaxLevels - 1}) \in Lvls /\ Min({d + 1, MaxLevels - 1}) > 0
<1>1. d \in Nat /\ MaxLevels \in Nat /\ MaxLevels - 1 > 0 /\ d + 1 > 0
  BY StoreAssumption, LvlsAreNumbers
<1>2. PICK m \in {d + 1, MaxLevels - 1} : \A y \in {d + 1, MaxLevels - 1} : m <= y
  BY <1>1
<1>3. \A z \in {d + 1, MaxLevels - 1} : (\A y \in {d + 1, MaxLevels - 1} : z <= y) => z = m
  BY <1>1, <1>2
<1>4. Min({d + 1, MaxLevels - 1}) = m
  BY <1>2, <1>3 DEF Min
<1> QED
  BY <1>1, <1>2, <1>4 DEF Lvls

LEMMA DeepestIs ==
    ASSUME levels # {}, Placed(levels)
    PROVE  Deepest \in Lvls
<1> DEFINE T == {s.level : s \in levels}
<1>1. T \subseteq Lvls /\ T # {}
  BY SegmentType DEF Placed
<1>2. T \in SUBSET Nat /\ MaxLevels \in Nat
  BY <1>1, LvlsAreNumbers, StoreAssumption
<1>3. \A x \in T : x <= MaxLevels
  <2>1. \A x \in Lvls : x <= MaxLevels
    BY StoreAssumption DEF Lvls
  <2> QED
    BY <1>1, <2>1
<1> HIDE DEF T
<1>4. PICK x \in T : \A y \in T : y <= x
  BY <1>1, <1>2, <1>3, Largest
<1>5. Max(T) = x
  BY <1>2, <1>4, MaxIs
<1> QED
  BY <1>1, <1>5 DEF Deepest, T

LEMMA HandleIdleTickStep ==
    ASSUME IInv, HandleIdleTick
    PROVE  IInv' /\ View' = View
<1>1. UNCHANGED <<store, torn, coord, builds, merging, nextId>>
  BY DEF HandleIdleTick, history
<1>2. CASE UNCHANGED <<merges, consolidating>>
  BY <1>1, <1>2, QuietStep
<1>3. CASE /\ ~consolidating /\ merging = {} /\ WorthConsolidating(levels)
           /\ consolidating' = TRUE
           /\ merges' = merges \cup
                 {Task(Consolidation, Min({Deepest + 1, MaxLevels - 1}), epoch, levels)}
  <2> DEFINE target == Min({Deepest + 1, MaxLevels - 1})
  <2>0. PICK t : t = Task(Consolidation, target, epoch, levels)
    OBVIOUS
  <2>1. Placed(levels) /\ levels \in SUBSET Segments /\ epoch \in Nat
    BY DEF IInv, TypeInv, Placed
  <2>2. levels # {}
    BY <1>3, FS_EmptySet DEF WorthConsolidating
  <2>3. target \in Lvls /\ target > 0
    BY <2>1, <2>2, DeepestIs, ConsolidationTarget
  <2> HIDE DEF target
  <2>4. Consolidation \in 0..MaxLevels
    BY StoreAssumption DEF Consolidation
  <2>5. t \in Tasks
    BY <2>0, <2>1, <2>3, <2>4, NothingType DEF Task, Tasks
  <2>6. /\ t.source = Consolidation /\ t.target = target /\ t.epoch = epoch /\ t.segs = levels
        /\ t.done = FALSE /\ t.applied = {} /\ t.out = Nothing
    BY <2>0 DEF Task
  <2>7. merges = {}
    BY <1>3 DEF IInv, TasksMatch, Apart
  <2>8. merges' = {t}
    BY <1>3, <2>0, <2>7 DEF target
  <2>9. Merged(t)
    BY <2>1, <2>6 DEF Merged
  <2>10. Fits(t, levels)
    BY <2>1, <2>6, SegmentType DEF Fits, FromLevels
  <2>11. epoch <= epoch
    BY <2>1
  <2>12. Apart(merges', merging', consolidating', epoch')
    BY <1>1, <1>3, <2>3, <2>6, <2>8, <2>11 DEF Apart, store
  <2>13. TasksMatch'
    <3>1. Merged(t)'
      BY <2>9 DEF Merged, Placed
    <3>2. Fits(t, levels)'
      BY <1>1, <2>10 DEF Fits, Above, store
    <3>3. t.applied = {}
      BY <2>6
    <3> QED
      BY <2>8, <2>12, <3>1, <3>2, <3>3 DEF TasksMatch
  <2>14. TypeInv'
    <3>1. /\ coord' \in [pc : {"idle", "swap", "merges"}, epoch : Nat]
          /\ merges' \in SUBSET Tasks /\ consolidating' \in BOOLEAN
      BY <1>1, <1>3, <2>5, <2>8 DEF IInv, TypeInv
    <3> QED
      BY <1>1, <3>1, TypesKept DEF IInv
  <2>15. BuildsMatch'
    BY <1>1, BuildsStay DEF IInv, BuildsMatch
  <2> QED
    BY <1>1, <2>13, <2>14, <2>15, StoreKept DEF IInv
<1> QED
  BY <1>2, <1>3 DEF HandleIdleTick

LEMMA MergeSegmentsStep ==
    ASSUME IInv, NEW t \in merges, MergeSegments(t)
    PROVE  IInv' /\ View' = View
<1> DEFINE kv   == IF HasDelta THEN MergedKV(t.segs, tombstones) ELSE Nothing
           dead == IF kv = Nothing THEN {} ELSE {k \in tombstones : Holders(t.segs, k) # {}}
           new  == [t EXCEPT !.done = TRUE, !.out = kv, !.applied = dead]
<1>1. /\ UNCHANGED <<store, torn, coord, builds, merging, consolidating, nextId>>
      /\ merges' = (merges \ {t}) \cup {new}
  BY DEF MergeSegments, history
<1>2. /\ t \in Tasks /\ tombstones \in SUBSET Keys /\ t.segs \in SUBSET Segments
  BY DEF IInv, TypeInv, Tasks
<1>3. kv \in KVs
  <2>1. \A k \in Keys : SegValue(t.segs, k) \in Maybe(Values)
    BY SegValueType DEF IInv, TasksMatch, Merged
  <2> QED
    BY <2>1, NothingType DEF MergedKV, KVs, Maybe
<1>4. dead \subseteq tombstones /\ dead \in SUBSET Keys
  BY <1>2
<1>5. \A k \in Keys : IF k \in dead THEN Holders(t.segs, k) # {} /\ kv[k] = None
                      ELSE kv = Nothing \/ kv[k] = SegValue(t.segs, k)
  <2> SUFFICES ASSUME NEW k \in Keys, kv # Nothing
               PROVE  IF k \in dead THEN Holders(t.segs, k) # {} /\ kv[k] = None
                      ELSE kv[k] = SegValue(t.segs, k)
    BY NothingType
  <2>1. kv = MergedKV(t.segs, tombstones)
    OBVIOUS
  <2>2. CASE k \in tombstones
    <3>1. kv[k] = None
      BY <2>1, <2>2 DEF MergedKV
    <3>2. Holders(t.segs, k) = {} => SegValue(t.segs, k) = None
      BY DEF SegValue
    <3> QED
      BY <2>2, <3>1, <3>2
  <2>3. CASE k \notin tombstones
    BY <2>1, <2>3 DEF MergedKV
  <2> QED
    BY <2>2, <2>3
<1> HIDE DEF kv, dead
<1>6. /\ new \in Tasks /\ new.source = t.source /\ new.target = t.target /\ new.epoch = t.epoch
      /\ new.segs = t.segs /\ new.done = TRUE /\ new.out = kv /\ new.applied = dead
  BY <1>2, <1>3, <1>4 DEF Tasks
<1> HIDE DEF new
<1>7. Merged(new)
  BY <1>5, <1>6 DEF IInv, TasksMatch, Merged
<1>8. Apart(merges, merging, consolidating, epoch)
  BY DEF IInv, TasksMatch
<1>9. Apart(merges', merging, consolidating, epoch)
  <2>1. \A u \in merges' : u = new \/ (u \in merges /\ u # t)
    BY <1>1
  <2>2. \A u \in merges : u # t => u.source # t.source
    BY <1>8 DEF Apart
  <2>3. \A u, w \in merges' : u.source = w.source => u = w
    BY <2>1, <2>2, <1>6, <1>8 DEF Apart
  <2>4. t.source = Consolidation => merges' = {new}
    BY <1>1, <1>8 DEF Apart
  <2>5. \A u \in merges' : u.source = Consolidation => merges' = {u}
    BY <2>1, <2>2, <2>4, <1>6, <1>8 DEF Apart
  <2> QED
    BY <2>1, <2>3, <2>5, <1>6, <1>8 DEF Apart
<1>10. TasksMatch'
  <2>1. /\ epoch' = epoch /\ levels' = levels /\ delta' = delta /\ flushing' = flushing
        /\ tombstones' = tombstones /\ torn' = torn
    BY <1>1 DEF store
  <2>2. \A u \in merges' : Merged(u)'
    BY <1>1, <1>7 DEF IInv, TasksMatch, Merged, Placed
  <2>3. ASSUME NEW u \in merges', u.epoch = epoch
        PROVE  Fits(u, levels)' /\ \A k \in u.applied \ torn : Overlaid(u, k)'
    <3>1. CASE u = new
      <4>1. Fits(t, levels)
        BY <2>3, <3>1, <1>6 DEF IInv, TasksMatch
      <4>2. Fits(u, levels)'
        BY <4>1, <3>1, <1>6, <2>1 DEF Fits, FromLevels, Above
      <4>3. \A k \in u.applied : Overlaid(u, k)'
        BY <3>1, <1>4, <1>6, <2>1 DEF Overlaid
      <4> QED
        BY <4>2, <4>3
    <3>2. CASE u \in merges
      <4>1. Fits(u, levels) /\ \A k \in u.applied \ torn : Overlaid(u, k)
        BY <2>3, <3>2 DEF IInv, TasksMatch
      <4> QED
        BY <4>1, <2>1 DEF Fits, Above, Overlaid
    <3> QED
      BY <3>1, <3>2, <1>1
  <2>4. Apart(merges, merging, consolidating, epoch)'
    BY <1>1, <1>9, <2>1
  <2> QED
    BY <2>1, <2>2, <2>3, <2>4 DEF TasksMatch
<1>11. TypeInv'
  <2>1. /\ coord' \in [pc : {"idle", "swap", "merges"}, epoch : Nat]
        /\ merges' \in SUBSET Tasks /\ consolidating' \in BOOLEAN
    BY <1>1, <1>6 DEF IInv, TypeInv
  <2> QED
    BY <1>1, <2>1, TypesKept DEF IInv
<1>12. BuildsMatch'
  BY <1>1, BuildsStay DEF IInv, BuildsMatch
<1> QED
  BY <1>1, <1>10, <1>11, <1>12, StoreKept DEF IInv

(***************************************************************************)
(* Swap                                                                    *)
(***************************************************************************)
LEMMA QueuedBehind ==
    ASSUME NEW mems, Queued(mems), NEW m \in Mems, \A o \in mems : o.id < m.id
    PROVE  Queued(mems \cup {m})
<1>1. \A o \in mems : o.id \in Nat
  BY MemType DEF Queued
<1>2. m.id \in Nat
  BY MemType
<1>3. mems \cup {m} \in SUBSET Mems
  BY DEF Queued
<1>4. \A o, p \in mems \cup {m} : o.id = p.id => o = p
  BY <1>1, <1>2 DEF Queued
<1>5. \A o \in mems \cup {m} : o.id <= m.id
  BY <1>1, <1>2
<1> QED
  BY <1>2, <1>3, <1>4, <1>5 DEF Queued

LEMMA SwapStep ==
    ASSUME IInv, Swap
    PROVE  IInv' /\ View' = View
<1>1. /\ coord.pc = "swap" /\ coord' = [coord EXCEPT !.pc = "merges"]
      /\ UNCHANGED <<levels, tombstones, epoch, torn, merges, merging, consolidating>>
  BY DEF Swap, history
<1>2. /\ coord.epoch \in Nat /\ coord.epoch <= epoch /\ coord'.epoch <= epoch
      /\ coord' \in [pc : {"idle", "swap", "merges"}, epoch : Nat]
  BY <1>1 DEF IInv, TypeInv, BuildsMatch
<1>3. CASE UNCHANGED <<delta, flushing, builds, nextId>>
  <2>1. UNCHANGED <<store, torn, builds, nextId>>
    BY <1>1, <1>3 DEF store
  <2>2. TypeInv'
    BY <2>1, <1>1, <1>2, TypesKept DEF IInv, TypeInv
  <2>3. BuildsMatch'
    BY <2>1, <1>2, BuildsStay DEF IInv
  <2>4. \A t \in merges : \A k \in t.applied \ torn' :
            (k \notin torn => Overlaid(t, k)) => Overlaid(t, k)'
    BY <2>1 DEF Overlaid, store
  <2>5. TasksMatch'
    BY <1>1, <2>4, TasksStay
  <2> QED
    BY <2>1, <2>2, <2>3, <2>5, StoreKept DEF IInv
<1>4. CASE /\ Holds(delta) # {} /\ flushing' = flushing \cup {delta} /\ delta' = Memtable(nextId)
           /\ builds' = builds \cup {[mem |-> delta, epoch |-> coord.epoch]}
           /\ nextId' = nextId + 1
  <2>1. /\ delta \in Mems /\ delta.id \in Nat /\ nextId \in Nat /\ delta.id < nextId
        /\ Queued(flushing) /\ \A m \in flushing : 0 < m.id /\ m.id < delta.id
        /\ \A m \in flushing : m.id \in Nat
        /\ Holds(delta) \cap tombstones = {}
    BY MemType DEF IInv, TypeInv, InSequence, Queued
  <2>2. delta.id # 0
    BY <1>4, <2>1, MemtableType DEF IInv, InSequence, NoDelta
  <2>3. delta' \in Mems /\ delta'.id = nextId /\ Holds(delta') = {}
    BY <1>4, <2>1, MemtableType
  <2>4. Queued(flushing') /\ IsFiniteSet(flushing')
    BY <1>4, <2>1, QueuedBehind, FS_AddElement DEF IInv, TypeInv
  <2>5. TypeInv'
    <3>1. builds' \in SUBSET [mem : Mems, epoch : Nat]
      BY <1>2, <1>4, <2>1 DEF IInv, TypeInv
    <3>2. nextId' \in Nat
      BY <1>4, <2>1
    <3> QED
      BY <1>1, <1>2, <2>3, <2>4, <3>1, <3>2 DEF IInv, TypeInv, Placed
  <2>6. InSequence'
    <3>1. delta'.id < nextId' /\ delta'.id # 0
      BY <1>4, <2>1, <2>3
    <3>2. \A m \in flushing' : 0 < m.id /\ m.id < delta'.id
      <4> TAKE m \in flushing'
      <4>1. CASE m = delta
        BY <4>1, <2>1, <2>2, <2>3
      <4>2. CASE m \in flushing
        BY <4>2, <2>1, <2>3
      <4> QED
        BY <1>4, <4>1, <4>2
    <3> QED
      BY <2>3, <3>1, <3>2 DEF InSequence
  <2>7. BuildsMatch'
    <3> DEFINE b0 == [mem |-> delta, epoch |-> coord.epoch]
    <3>1. b0.mem = delta /\ b0.epoch <= epoch
      BY <1>2
    <3> HIDE DEF b0
    <3>2. \A b \in builds' : b = b0 \/ b \in builds
      BY <1>4 DEF b0
    <3>3. \A b \in builds' : 0 < b.mem.id /\ b.mem.id < nextId' /\ b.mem.id # delta'.id /\ b.epoch <= epoch
      <4> TAKE b \in builds'
      <4>1. CASE b = b0
        BY <4>1, <3>1, <1>4, <2>1, <2>2, <2>3
      <4>2. CASE b \in builds
        <5>1. 0 < b.mem.id /\ b.mem.id < nextId /\ b.epoch <= epoch /\ b.mem.id \in Nat
          BY <4>2, MemType DEF IInv, BuildsMatch, TypeInv
        <5> QED
          BY <5>1, <1>4, <2>1, <2>3
      <4> QED
        BY <3>2, <4>1, <4>2
    <3>4. \A b \in builds' : b.epoch = epoch => b.mem \in flushing'
      BY <3>1, <3>2, <1>4 DEF IInv, BuildsMatch
    <3>5. \A b, c \in builds' : b.mem.id = c.mem.id => b = c
      BY <3>1, <3>2 DEF IInv, BuildsMatch
    <3> QED
      BY <1>1, <1>2, <3>3, <3>4, <3>5 DEF BuildsMatch
  <2>8. \A k \in Keys : Holders(flushing', k) =
            IF k \in Holds(delta) THEN Holders(flushing, k) \cup {delta} ELSE Holders(flushing, k)
    BY <1>4 DEF Holders
  <2>9. TasksMatch'
    <3>1. ASSUME NEW t \in merges, NEW k \in t.applied \ torn', k \notin torn => Overlaid(t, k)
          PROVE  Overlaid(t, k)'
      <4>1. k \in Keys
        BY DEF IInv, TypeInv, Tasks
      <4> QED
        BY <3>1, <4>1, <1>1, <2>8 DEF Overlaid
    <3> QED
      BY <1>1, <3>1, TasksStay
  <2>10. TombsHide'
    BY <1>1, <2>8 DEF IInv, TypeInv, TombsHide, HasCopy
  <2>11. ASSUME NEW k \in Keys
         PROVE  Get(k)' = Get(k)
    <3>1. MemValue(flushing', k) = IF k \in Holds(delta) THEN delta.kv[k] ELSE MemValue(flushing, k)
      <4>1. MemValue(flushing \cup {delta}, k) =
                IF Holders({delta}, k) # {} THEN MemValue({delta}, k) ELSE MemValue(flushing, k)
        BY <1>4, <2>1, <2>4, MemAppend
      <4>2. CASE k \in Holds(delta)
        <5>1. Queued({delta}) /\ delta \in Holders({delta}, k) /\ delta.id <= delta.id
          BY <4>2, <2>1, <2>4, <1>4, QueuedSubset DEF Holders
        <5>2. \A m \in Holders({delta}, k) : m.id <= delta.id
          BY <5>1 DEF Holders
        <5>3. MemValue({delta}, k) = delta.kv[k]
          BY <5>1, <5>2, MemSingle
        <5> QED
          BY <4>1, <4>2, <5>1, <5>3, <1>4
      <4>3. CASE k \notin Holds(delta)
        BY <4>1, <4>3, <1>4 DEF Holders
      <4> QED
        BY <4>2, <4>3
    <3>2. CASE k \in Holds(delta)
      <4>1. k \notin tombstones /\ Holders(flushing', k) # {} /\ k \notin Holds(delta')
        BY <3>2, <2>1, <2>3, <2>8
      <4> QED
        BY <3>1, <3>2, <4>1, <1>1 DEF Get
    <3>3. CASE k \notin Holds(delta)
      BY <3>1, <3>3, <2>3, <2>8, <1>1 DEF Get
    <3> QED
      BY <3>2, <3>3
  <2>12. View' = View
    BY <2>11 DEF View
  <2> QED
    BY <2>5, <2>6, <2>7, <2>9, <2>10, <2>12 DEF IInv
<1> QED
  BY <1>3, <1>4 DEF Swap

(***************************************************************************)
(* A flush                                                                 *)
(***************************************************************************)
LEMMA NextAtIs ==
    ASSUME NEW segs, Placed(segs), NEW l \in Nat
    PROVE  /\ NextAt(segs, l) \in Nat
           /\ \A s \in segs : s.level = l => s.at < NextAt(segs, l)
<1> DEFINE T == {0} \cup {s.at : s \in Level(segs, l)}
<1>1. \A s \in segs : s.at \in Nat
  BY SegmentType DEF Placed
<1>2. PICK n \in Nat : \A s \in segs : s.at <= n
  BY DEF Placed
<1>3. T \in SUBSET Nat /\ T # {} /\ \A x \in T : x <= n
  BY <1>1, <1>2 DEF Level
<1>4. \A s \in segs : s.level = l => s.at \in T
  BY DEF Level
<1>t. NextAt(segs, l) = Max(T) + 1
  BY DEF NextAt
<1> HIDE DEF T
<1>5. PICK x \in T : \A y \in T : y <= x
  BY <1>2, <1>3, Largest
<1>6. Max(T) = x /\ x \in Nat
  BY <1>3, <1>5, MaxIs
<1>7. \A s \in segs : s.level = l => s.at <= x
  BY <1>4, <1>5
<1> QED
  BY <1>1, <1>6, <1>7, <1>t

\* The segments built from a memtable have what it has, and come behind their level.
LEMMA BuiltIs ==
    ASSUME NEW m \in Mems, Placed(levels), IsFiniteSet(levels)
    PROVE  /\ Built(m) \in SUBSET Segments /\ IsFiniteSet(Built(m))
           /\ Placed(levels \cup Built(m))
           /\ \A s \in Built(m) : s.level = 0
           /\ \A s \in Built(m), r \in levels : Fresher(s, r)
           /\ \A k \in Keys : \A s \in Holders(Built(m), k) :
                  k \in Holds(m) /\ s.kv[k] = m.kv[k] /\ Holders(Built(m), k) = {s}
           /\ \A k \in Holds(m) : Holders(Built(m), k) # {}
<1> DEFINE n == NextAt(levels, 0)
           KV(i) == [k \in Keys |-> IF k \in InShard(m, i) THEN m.kv[k] ELSE None]
           Seg(i) == [level |-> 0, at |-> n + i, kv |-> KV(i)]
           shards == {i \in 0..(DeltaShards - 1) : InShard(m, i) # {}}
<1>1. Built(m) = {Seg(i) : i \in shards}
  BY DEF Built
<1>2. n \in Nat /\ 0 \in Nat /\ \A s \in levels : s.level = 0 => s.at < n
  BY NextAtIs
<1>3. DeltaShards \in Nat /\ \A k \in Keys : ShardOf[k] \in 0..(DeltaShards - 1)
  BY StoreAssumption
<1>4. shards \subseteq 0..(DeltaShards - 1) /\ IsFiniteSet(shards) /\ shards \subseteq Nat
  <2>1. shards \subseteq 0..(DeltaShards - 1)
    OBVIOUS
  <2>2. IsFiniteSet(0..(DeltaShards - 1))
    <3>1. 0 \in Int /\ DeltaShards - 1 \in Int
      BY <1>3
    <3> QED
      BY <3>1, FS_Interval
  <2>3. 0..(DeltaShards - 1) \subseteq Nat
    OBVIOUS
  <2> HIDE DEF shards
  <2> QED
    BY <2>1, <2>2, <2>3, FS_Subset
<1>5. \A i \in shards : KV(i) \in KVs
  BY MemType DEF KVs, Maybe
<1>6. \A i \in shards : \A k \in Keys :
          /\ k \in Holds(Seg(i)) <=> k \in Holds(m) /\ ShardOf[k] = i
          /\ k \in Holds(Seg(i)) => Seg(i).kv[k] = m.kv[k]
  BY DEF Holds, InShard
<1>7. \A k \in Holds(m) : k \in Keys /\ ShardOf[k] \in shards
  BY <1>3 DEF Holds, InShard
<1>8. \A i \in shards : Seg(i).level = 0 /\ Seg(i).at = n + i /\ Seg(i).kv = KV(i) /\ n + i \in Nat
  BY <1>2, <1>4
<1>9. \A i \in shards : Seg(i) \in Segments
  BY <1>5, <1>8, LvlsAreNumbers DEF Segments
<1>f. IsFiniteSet(Built(m))
  <2> DEFINE f == [i \in shards |-> Seg(i)]
  <2>1. Built(m) = {f[i] : i \in shards} /\ DOMAIN f = shards /\ f = [i \in shards |-> f[i]]
    BY <1>1
  <2> HIDE DEF f, shards, Seg
  <2> QED
    BY <2>1, <1>4, ImageIsFinite
<1> HIDE DEF n, KV, Seg, shards
<1>10. Built(m) \in SUBSET Segments /\ \A s \in Built(m) : s.level = 0
  BY <1>1, <1>8, <1>9
<1>11. ASSUME NEW s \in Built(m), NEW r \in levels
       PROVE  Fresher(s, r) /\ ~(s.level = r.level /\ s.at = r.at)
  <2>1. PICK i \in shards : s = Seg(i)
    BY <1>1
  <2>2. s.level = 0 /\ s.at = n + i /\ i \in Nat
    BY <2>1, <1>4, <1>8
  <2>3. r.level \in Nat /\ r.at \in Nat
    BY SegmentType DEF Placed
  <2>4. CASE r.level = 0
    <3>1. r.at < n
      BY <2>4, <1>2
    <3>2. s.at > r.at
      BY <3>1, <2>2, <2>3, <1>2
    <3> QED
      BY <3>2, <2>2, <2>4, <2>3, <1>2 DEF Fresher
  <2>5. CASE r.level # 0
    BY <2>2, <2>3, <2>5 DEF Fresher
  <2> QED
    BY <2>4, <2>5
<1>12. \A s, r \in Built(m) : s.level = r.level /\ s.at = r.at => s = r
  <2> SUFFICES ASSUME NEW i \in shards, NEW j \in shards, Seg(i).at = Seg(j).at
               PROVE  Seg(i) = Seg(j)
    BY <1>1
  <2>1. i = j
    BY <1>2, <1>4, <1>8
  <2> QED
    BY <2>1
<1>13. Placed(levels \cup Built(m))
  <2>1. levels \cup Built(m) \in SUBSET Segments
    BY <1>10 DEF Placed
  <2>2. \A s, r \in levels \cup Built(m) : s.level = r.level /\ s.at = r.at => s = r
    BY <1>11, <1>12 DEF Placed
  <2>3. PICK x \in Nat : \A s \in levels : s.at <= x
    BY DEF Placed
  <2>4. x + n + DeltaShards \in Nat
    BY <1>2, <1>3
  <2>5. \A s \in levels : s.at <= x + n + DeltaShards
    <3> TAKE s \in levels
    <3>1. s.at \in Nat /\ s.at <= x
      BY <2>3, SegmentType DEF Placed
    <3> QED
      BY <3>1, <1>2, <1>3
  <2>6. \A i \in shards : n + i <= x + n + DeltaShards
    <3> TAKE i \in shards
    <3>1. i \in 0..(DeltaShards - 1)
      BY <1>4
    <3> QED
      BY <3>1, <1>2, <1>3
  <2>7. \A s \in Built(m) : s.at <= x + n + DeltaShards
    BY <1>1, <1>8, <2>6
  <2> QED
    BY <2>1, <2>2, <2>4, <2>5, <2>7 DEF Placed
<1>14. ASSUME NEW k \in Keys, NEW s \in Holders(Built(m), k)
       PROVE  k \in Holds(m) /\ s.kv[k] = m.kv[k] /\ Holders(Built(m), k) = {s}
  <2>1. \A r \in Holders(Built(m), k) : r = Seg(ShardOf[k]) /\ k \in Holds(m) /\ r.kv[k] = m.kv[k]
    <3> TAKE r \in Holders(Built(m), k)
    <3>1. r \in Built(m) /\ k \in Holds(r)
      BY DEF Holders
    <3>2. PICK i \in shards : r = Seg(i)
      BY <3>1, <1>1
    <3> QED
      BY <3>1, <3>2, <1>6
  <2> QED
    BY <2>1
<1>15. ASSUME NEW k \in Holds(m)
       PROVE  Holders(Built(m), k) # {}
  <2>1. Seg(ShardOf[k]) \in Built(m) /\ k \in Holds(Seg(ShardOf[k]))
    BY <1>1, <1>6, <1>7
  <2> QED
    BY <2>1 DEF Holders
<1> QED
  BY <1>f, <1>10, <1>11, <1>13, <1>14, <1>15

\* The end of applyResult, whatever it has done to the levels.
LEMMA TasksFollow ==
    ASSUME IInv, UNCHANGED epoch, NEW fl, NEW lv, NEW fly, NEW busy, NEW tasks, NEW cons \in BOOLEAN,
           tasks \subseteq merges, levels' = lv, Placed(lv), IsFiniteSet(lv), consolidating' = cons,
           Apart(tasks, busy, cons, epoch),
           Schedule(epoch, fl, lv, fly, busy, tasks, cons),
           \A t \in tasks : t.epoch = epoch => Fits(t, lv) /\ \A k \in t.applied \ torn' : Overlaid(t, k)'
    PROVE  merges' \in SUBSET Tasks /\ TasksMatch'
<1>1. tasks \in SUBSET Tasks /\ epoch \in Nat /\ \A t \in tasks : Merged(t)
  BY DEF IInv, TypeInv, TasksMatch
<1>2. /\ merges' \in SUBSET Tasks
      /\ Apart(merges', merging', cons, epoch)
      /\ \A t \in merges' : Merged(t)
      /\ \A t \in merges' : t \in tasks \/ (t.applied = {} /\ Fits(t, lv))
  BY <1>1, ScheduleAdds, SMTT(60)
<1>3. \A t \in merges' : Merged(t)'
  BY <1>2 DEF Merged, Placed
<1>4. ASSUME NEW t \in merges', t.epoch = epoch
      PROVE  Fits(t, levels)' /\ \A k \in t.applied \ torn' : Overlaid(t, k)'
  <2>1. Fits(t, lv) /\ \A k \in t.applied \ torn' : Overlaid(t, k)'
    BY <1>2, <1>4
  <2>2. Fits(t, levels)'
    BY <2>1 DEF Fits, Above
  <2> QED
    BY <2>1, <2>2
<1>5. Apart(merges, merging, consolidating, epoch)'
  BY <1>2
<1> QED
  BY <1>2, <1>3, <1>4, <1>5 DEF TasksMatch

\* A key of the oldest of some memtables moves to level 0 and is read as before.
LEMMA FlushValue ==
    ASSUME TypeInv, NEW m, NEW rest, Queued({m} \cup rest), \A o \in rest : m.id < o.id,
           NEW k \in Keys
    PROVE  (IF Holders({m} \cup rest, k) # {} THEN MemValue({m} \cup rest, k)
            ELSE SegValue(levels, k)) =
           (IF Holders(rest, k) # {} THEN MemValue(rest, k) ELSE SegValue(levels \cup Built(m), k))
<1> PICK mems : mems = {m} \cup rest
  OBVIOUS
<1>1. /\ Queued(mems) /\ Queued({m}) /\ m \in Mems /\ m.id \in Nat /\ mems = {m} \cup rest
      /\ Placed(levels) /\ IsFiniteSet(levels)
  BY QueuedSubset, MemType DEF TypeInv, Queued
<1>2. Holders(mems, k) = Holders({m}, k) \cup Holders(rest, k)
  BY <1>1 DEF Holders
<1>3. MemValue({m} \cup rest, k) =
          IF Holders(rest, k) # {} THEN MemValue(rest, k) ELSE MemValue({m}, k)
  <2>1. Queued({m} \cup rest)
    BY <1>1
  <2>2. \A p \in {m}, o \in rest : p.id < o.id
    OBVIOUS
  <2> QED
    BY <2>1, <2>2, MemAppend
<1>4. /\ Placed(levels \cup Built(m))
      /\ \A s \in Built(m), r \in levels : Fresher(s, r)
      /\ \A s \in Holders(Built(m), k) :
             k \in Holds(m) /\ s.kv[k] = m.kv[k] /\ Holders(Built(m), k) = {s}
      /\ k \in Holds(m) => Holders(Built(m), k) # {}
  BY <1>1, BuiltIs
<1>5. SegValue(levels \cup Built(m), k) =
          IF Holders(Built(m), k) # {} THEN SegValue(Built(m), k) ELSE SegValue(levels, k)
  BY <1>4, SegAppend, HoldersSubset
<1>6. CASE k \in Holds(m)
  <2>1. MemValue({m}, k) = m.kv[k] /\ Holders({m}, k) = {m}
    <3>1. Holders({m}, k) = {m} /\ m.id <= m.id
      BY <1>1, <1>6 DEF Holders
    <3> QED
      BY <1>1, <3>1, MemSingle
  <2>2. SegValue(Built(m), k) = m.kv[k]
    <3>1. PICK s \in Holders(Built(m), k) : s.kv[k] = m.kv[k] /\ Holders(Built(m), k) = {s}
      BY <1>4, <1>6
    <3>2. Placed(Built(m))
      BY <1>4, PlacedSubset
    <3>3. SegValue(Built(m), k) = s.kv[k]
      BY <3>1, <3>2, SegSingle
    <3> QED
      BY <3>1, <3>3
  <2> QED
    BY <1>1, <1>2, <1>3, <1>4, <1>5, <1>6, <2>1, <2>2
<1>7. CASE k \notin Holds(m)
  <2>1. Holders({m}, k) = {} /\ Holders(Built(m), k) = {}
    BY <1>4, <1>7 DEF Holders
  <2> QED
    BY <1>1, <1>2, <1>3, <1>5, <2>1
<1> QED
  BY <1>6, <1>7

\* What applyResult of a build does.
FlushApplied(b, built) ==
    /\ built \in {Built(b.mem), {}}
    /\ torn' = torn \cup Lost(b, built # {} /\ epoch = b.epoch)
    /\ builds' = builds \ {b} /\ flushing' = Without(flushing, b.mem.id)
    /\ levels' = IF epoch = b.epoch THEN levels \cup built ELSE levels
    /\ IF epoch = b.epoch
       THEN Schedule(epoch, flushing', levels', inFlight', merging, merges, consolidating)
       ELSE UNCHANGED <<merging, merges>>
    /\ UNCHANGED <<delta, tombstones, epoch, coord, consolidating, nextId, calls, last>>

LEMMA ApplyFlushIs ==
    ASSUME NEW b \in builds, ApplyFlush(b)
    PROVE  \E built : FlushApplied(b, built)
<1>1. CASE epoch = b.epoch
  BY <1>1 DEF ApplyFlush, FlushApplied, Applied
<1>2. CASE epoch # b.epoch
  BY <1>2 DEF ApplyFlush, FlushApplied, Dropped
<1> QED
  BY <1>1, <1>2

\* What lies below the active memtable is read as before, of the keys that are not torn.
Below(mems, segs, k) ==
    IF Holders(mems, k) # {} THEN MemValue(mems, k) ELSE SegValue(segs, k)

FlushKeeps ==
    /\ torn \subseteq torn' /\ torn' \in SUBSET Keys
    /\ Queued(flushing') /\ IsFiniteSet(flushing') /\ flushing' \subseteq flushing
    /\ Placed(levels') /\ IsFiniteSet(levels') /\ levels \subseteq levels'
    /\ \A s \in levels' \ levels : s.level = 0 /\ \A r \in levels : Fresher(s, r)
    /\ \A k \in Keys \ torn' :
        /\ Below(flushing, levels, k) = Below(flushing', levels', k)
        /\ Holders(flushing, k) # {} =>
               Holders(flushing', k) # {} \/ Holders(levels' \ levels, k) # {}

LEMMA ApplyFlushKeeps ==
    ASSUME IInv, NEW b \in builds, NEW built, FlushApplied(b, built)
    PROVE  FlushKeeps
<1> DEFINE m == b.mem
<1>1. PICK fl, lv, lost : /\ fl = flushing' /\ lv = levels'
                          /\ lost = Lost(b, built # {} /\ epoch = b.epoch)
  OBVIOUS
<1>2. /\ fl = Without(flushing, m.id) /\ torn' = torn \cup lost
      /\ built \in {Built(m), {}} /\ lv = IF epoch = b.epoch THEN levels \cup built ELSE levels
  BY <1>1 DEF FlushApplied
<1>3. /\ m \in Mems /\ m.id \in Nat /\ Queued(flushing) /\ IsFiniteSet(flushing)
      /\ Placed(levels) /\ IsFiniteSet(levels) /\ \A o \in flushing : o.id \in Nat
      /\ epoch = b.epoch => m \in flushing
  BY MemType DEF IInv, TypeInv, BuildsMatch, Queued
<1>4. /\ fl \subseteq flushing /\ \A o \in flushing : o.id # m.id <=> o \in fl
      /\ Queued(fl) /\ IsFiniteSet(fl)
  <2>1. fl \subseteq flushing /\ \A o \in flushing : o.id # m.id <=> o \in fl
    BY <1>2 DEF Without
  <2> QED
    BY <2>1, <1>3, QueuedSubset, FS_Subset
<1>5. /\ Built(m) \in SUBSET Segments /\ IsFiniteSet(Built(m))
      /\ Placed(levels \cup Built(m))
      /\ \A s \in Built(m) : s.level = 0
      /\ \A s \in Built(m), r \in levels : Fresher(s, r)
      /\ \A k \in Keys : \A s \in Holders(Built(m), k) : k \in Holds(m)
      /\ \A k \in Holds(m) : Holders(Built(m), k) # {}
  BY <1>3, BuiltIs
<1> HIDE DEF m
<1>6. /\ levels \subseteq lv /\ Placed(lv) /\ IsFiniteSet(lv)
      /\ \A s \in lv \ levels : s.level = 0 /\ \A r \in levels : Fresher(s, r)
  <2>1. CASE lv = levels
    BY <2>1, <1>3
  <2>2. CASE lv = levels \cup Built(m)
    BY <2>2, <1>3, <1>5, FS_Union
  <2> QED
    BY <2>1, <2>2, <1>2
<1>7. lost \subseteq Keys /\ torn \in SUBSET Keys
  BY <1>1 DEF Lost, IInv, TypeInv
<1>8. ASSUME NEW k \in Keys, k \notin lost
      PROVE  /\ Below(flushing, levels, k) = Below(fl, lv, k)
             /\ Holders(flushing, k) # {} =>
                    Holders(fl, k) # {} \/ Holders(lv \ levels, k) # {}
  <2>1. CASE built # {} /\ epoch = b.epoch
    <3>1. lv = levels \cup Built(m) /\ m \in flushing
      BY <2>1, <1>2, <1>3
    <3>2. fl = flushing \ {m}
      BY <3>1, <1>3, <1>4 DEF Queued
    <3>3. \A o \in Holders(flushing, k) : ~(o.id < m.id /\ k \in Holds(m))
      BY <2>1, <1>1, <1>8 DEF Lost, m
    <3>4. CASE k \in Holds(m)
      <4>1. PICK rest : rest = Holders(fl, k)
        OBVIOUS
      <4>2. \A o \in rest : o \in Holders(flushing, k) /\ o \in flushing /\ o # m /\ o \in fl
        BY <4>1, <3>2, <1>4 DEF Holders
      <4>3. \A o \in rest : m.id < o.id
        <5> TAKE o \in rest
        <5>1. o.id # m.id /\ ~(o.id < m.id)
          BY <4>2, <3>3, <3>4, <1>4
        <5> QED
          BY <5>1, <4>2, <1>3
      <4>4. {m} \cup rest \subseteq flushing
        BY <4>2, <3>1
      <4>5. Queued({m} \cup rest) /\ TypeInv
        BY <4>4, <1>3, QueuedSubset DEF IInv
      <4>6. (IF Holders({m} \cup rest, k) # {} THEN MemValue({m} \cup rest, k)
             ELSE SegValue(levels, k)) =
            (IF Holders(rest, k) # {} THEN MemValue(rest, k)
             ELSE SegValue(levels \cup Built(m), k))
        BY <4>3, <4>5, FlushValue
      <4>7. Holders(rest, k) = Holders(fl, k)
        BY <4>1 DEF Holders
      <4>8. Holders({m} \cup rest, k) = Holders(flushing, k)
        BY <4>1, <3>1, <3>2 DEF Holders
      <4>9. Below(flushing, levels, k) = Below(fl, levels \cup Built(m), k)
        BY <4>6, <4>7, <4>8 DEF Below, MemValue
      <4>10. PICK s \in Holders(Built(m), k) : s \in Built(m)
        BY <3>4, <1>5 DEF Holders
      <4>11. s \notin levels
        <5>1. s \in levels => Fresher(s, s)
          BY <1>5, <4>10
        <5>2. s.level \in Nat /\ s.at \in Nat
          BY <1>5, <4>10, SegmentType
        <5> QED
          BY <5>1, <5>2 DEF Fresher
      <4>12. s \in Holders(lv \ levels, k)
        BY <4>10, <4>11, <3>1 DEF Holders
      <4> QED
        BY <4>9, <4>12, <3>1
    <3>5. CASE k \notin Holds(m)
      <4>1. Holders(flushing, k) = Holders(fl, k)
        BY <3>2, <3>5 DEF Holders
      <4>2. Holders(lv, k) = Holders(levels, k)
        BY <3>1, <3>5, <1>5 DEF Holders
      <4> QED
        BY <4>1, <4>2 DEF Below, MemValue, SegValue
    <3> QED
      BY <3>4, <3>5
  <2>2. CASE ~(built # {} /\ epoch = b.epoch)
    <3>1. lv = levels
      BY <2>2, <1>2
    <3>2. \A o \in Holders(flushing, k) : o.id # m.id
      BY <2>2, <1>1, <1>8 DEF Lost, m
    <3>3. Holders(flushing, k) = Holders(fl, k)
      BY <3>2, <1>4 DEF Holders
    <3> QED
      BY <3>1, <3>3 DEF Below, MemValue
  <2> QED
    BY <2>1, <2>2
<1>9. \A k \in Keys \ torn' :
          /\ Below(flushing, levels, k) = Below(fl, lv, k)
          /\ Holders(flushing, k) # {} => Holders(fl, k) # {} \/ Holders(lv \ levels, k) # {}
  BY <1>2, <1>8
<1> QED
  BY <1>1, <1>2, <1>4, <1>6, <1>7, <1>9 DEF FlushKeeps

LEMMA ApplyFlushStep ==
    ASSUME IInv, NEW b \in builds, ApplyFlush(b)
    PROVE  /\ IInv'
           /\ torn \subseteq torn' /\ \A k \in Keys \ torn' : View'[k] = View[k]
<1>1. PICK built : FlushApplied(b, built)
  BY ApplyFlushIs
<1>2. /\ builds' = builds \ {b} /\ flushing' = Without(flushing, b.mem.id)
      /\ UNCHANGED <<delta, tombstones, epoch, coord, consolidating, nextId>>
      /\ IF epoch = b.epoch
         THEN Schedule(epoch, flushing', levels', inFlight', merging, merges, consolidating)
         ELSE UNCHANGED <<merging, merges>>
  BY <1>1 DEF FlushApplied
<1>3. FlushKeeps
  BY <1>1, ApplyFlushKeeps
<1>4. PICK fl, lv, fly : fl = flushing' /\ lv = levels' /\ fly = inFlight'
  OBVIOUS
<1>5. ASSUME NEW t \in merges, t.epoch = epoch
      PROVE  Fits(t, lv) /\ \A k \in t.applied \ torn' : Overlaid(t, k)'
  <2>1. /\ Fits(t, levels) /\ t.target > 0 /\ t.segs \subseteq levels /\ t.applied \subseteq Keys
        /\ t.target \in Nat
    BY <1>5, LvlsAreNumbers DEF IInv, TypeInv, TasksMatch, Tasks, Apart, Fits
  <2>2. \A s \in lv \ levels : Above(t, s) /\ s.level < t.target
    <3>1. 0 < t.target
      BY <2>1
    <3> QED
      BY <1>3, <1>4, <2>1, <3>1 DEF FlushKeeps, Above
  <2>3. Fits(t, lv)
    BY <1>3, <1>4, <2>1, <2>2 DEF Fits, FlushKeeps
  <2>4. ASSUME NEW k \in t.applied, k \notin torn'
        PROVE  Overlaid(t, k)'
    <3>1. Overlaid(t, k) /\ k \in Keys /\ k \notin torn
      BY <1>3, <1>5, <2>1, <2>4 DEF IInv, TasksMatch, FlushKeeps
    <3>2. CASE k \in tombstones \/ k \in Holds(delta)
      BY <3>2, <1>2 DEF Overlaid
    <3>3. CASE Holders(flushing, k) # {}
      <4>1. CASE Holders(flushing', k) # {}
        BY <4>1 DEF Overlaid
      <4>2. CASE Holders(lv \ levels, k) # {}
        <5>1. PICK s \in lv \ levels : k \in Holds(s)
          BY <4>2 DEF Holders
        <5>2. s \in Holders(levels', k) /\ Above(t, s)'
          BY <5>1, <1>4, <2>2 DEF Above, Holders
        <5> QED
          BY <5>2 DEF Overlaid
      <4> QED
        BY <3>1, <3>3, <4>1, <4>2, <1>3, <1>4, <2>4 DEF FlushKeeps
    <3>4. CASE \E s \in Holders(levels, k) : Above(t, s)
      <4>1. PICK s \in Holders(levels, k) : Above(t, s)
        BY <3>4
      <4>2. s \in Holders(levels', k) /\ Above(t, s)'
        BY <4>1, <1>3 DEF FlushKeeps, Holders, Above
      <4> QED
        BY <4>2 DEF Overlaid
    <3> QED
      BY <3>1, <3>2, <3>3, <3>4 DEF Overlaid
  <2> QED
    BY <2>3, <2>4
<1>6. merges' \in SUBSET Tasks /\ TasksMatch'
  <2>1. /\ Apart(merges, merging, consolidating, epoch) /\ consolidating \in BOOLEAN
        /\ merges \subseteq merges /\ merges \in SUBSET Tasks /\ \A t \in merges : Merged(t)
    BY DEF IInv, TasksMatch, TypeInv
  <2>2. CASE epoch = b.epoch
    <3>1. Schedule(epoch, fl, lv, fly, merging, merges, consolidating)
      BY <2>2, <1>2, <1>4
    <3>2. Placed(lv) /\ IsFiniteSet(lv)
      BY <1>3, <1>4 DEF FlushKeeps
    <3> QED
      BY <1>2, <1>4, <1>5, <2>1, <3>1, <3>2, TasksFollow
  <2>3. CASE epoch # b.epoch
    <3>1. UNCHANGED <<merging, merges>>
      BY <2>3, <1>2
    <3>2. \A t \in merges : Merged(t)'
      BY <2>1 DEF Merged, Placed
    <3>3. \A t \in merges : t.epoch = epoch => Fits(t, levels)'
      BY <1>4, <1>5 DEF Fits, Above
    <3>4. Apart(merges, merging, consolidating, epoch)'
      BY <1>2, <2>1, <3>1
    <3> QED
      BY <1>2, <1>5, <2>1, <3>1, <3>2, <3>3, <3>4 DEF TasksMatch
  <2> QED
    BY <2>2, <2>3
<1>7. TypeInv'
  <2>1. builds' \in SUBSET [mem : Mems, epoch : Nat]
    BY <1>2 DEF IInv, TypeInv
  <2> QED
    BY <1>2, <1>3, <1>6, <2>1 DEF IInv, TypeInv, FlushKeeps, Queued, Placed
<1>8. InSequence'
  BY <1>2, <1>3 DEF IInv, InSequence, FlushKeeps
<1>9. BuildsMatch'
  <2>1. ASSUME NEW c \in builds', c.epoch = epoch
        PROVE  c.mem \in flushing'
    <3>1. c \in builds /\ c # b /\ c.mem \in flushing /\ c.mem.id # b.mem.id
      BY <1>2, <2>1 DEF IInv, BuildsMatch
    <3> QED
      BY <1>2, <3>1 DEF Without
  <2> QED
    BY <1>2, <2>1 DEF IInv, BuildsMatch
<1>10. TombsHide'
  <2>1. ASSUME NEW k \in tombstones, k \notin torn'
        PROVE  Holders(flushing', k) # {} \/ Holders(levels', k) # {}
    <3>1. k \in Keys /\ (Holders(flushing, k) # {} \/ Holders(levels, k) # {})
      BY <1>3, <2>1 DEF IInv, TypeInv, TombsHide, HasCopy, FlushKeeps
    <3> QED
      BY <1>3, <2>1, <3>1 DEF FlushKeeps, Holders
  <2> QED
    BY <1>2, <2>1 DEF TombsHide, HasCopy
<1>11. \A k \in Keys \ torn' : View'[k] = View[k]
  <2> SUFFICES ASSUME NEW k \in Keys \ torn' PROVE Get(k)' = Get(k)
    BY DEF View
  <2>1. Below(flushing, levels, k) = Below(flushing', levels', k)
    BY <1>3 DEF FlushKeeps
  <2> QED
    BY <1>2, <2>1 DEF Get, Below
<1>12. torn \subseteq torn'
  BY <1>3 DEF FlushKeeps
<1> QED
  BY <1>6, <1>7, <1>8, <1>9, <1>10, <1>11, <1>12 DEF IInv

(***************************************************************************)
(* A merge                                                                 *)
(***************************************************************************)
LEMMA FresherIsOrder ==
    ASSUME NEW segs, Placed(segs), NEW s \in segs, NEW r \in segs, NEW q \in segs
    PROVE  /\ ~Fresher(s, s)
           /\ Fresher(s, r) => ~Fresher(r, s)
           /\ Fresher(s, r) /\ Fresher(r, q) => Fresher(s, q)
<1>1. /\ s.level \in Nat /\ r.level \in Nat /\ q.level \in Nat
      /\ s.at \in Nat /\ r.at \in Nat /\ q.at \in Nat
  BY SegmentType DEF Placed
<1> QED
  BY <1>1 DEF Fresher

\* A segment that takes the place of others is read like them, where it has their value
\* or a fresher one has another.
InPlaceOf(kept, segs, new) ==
    \A s \in kept : \/ Fresher(s, new) /\ \A r \in segs : Fresher(s, r)
                    \/ Fresher(new, s) /\ \A r \in segs : Fresher(r, s)

ReadsLike(kept, segs, new, k) ==
    (\E s \in Holders(kept, k) : Fresher(s, new)) \/ new.kv[k] = SegValue(segs, k)

LEMMA MergeValue ==
    ASSUME NEW kept, NEW segs, NEW new, NEW k \in Keys,
           Placed(kept \cup segs), Placed(kept \cup {new}),
           InPlaceOf(kept, segs, new), ReadsLike(kept, segs, new, k)
    PROVE  SegValue(kept \cup {new}, k) = SegValue(kept \cup segs, k)
<1> USE DEF InPlaceOf, ReadsLike
<1>1. /\ Holders(kept \cup {new}, k) = Holders(kept, k) \cup Holders({new}, k)
      /\ Holders(kept \cup segs, k) = Holders(kept, k) \cup Holders(segs, k)
      /\ Holders(kept, k) \subseteq kept /\ Holders(segs, k) \subseteq segs
      /\ Holders({new}, k) \subseteq {new}
  BY DEF Holders
<1>2. CASE \E s \in Holders(kept, k) : Fresher(s, new)
  <2>1. PICK s \in Holders(kept, k) : Fresher(s, new)
    BY <1>2
  <2>2. Placed(Holders(kept \cup {new}, k)) /\ Holders(kept \cup {new}, k) # {}
    BY <1>1, HoldersSubset, PlacedSubset
  <2>3. PICK x \in Holders(kept \cup {new}, k) :
            \A r \in Holders(kept \cup {new}, k) : r = x \/ Fresher(x, r)
    BY <2>2, FreshestIn
  <2>4. x \in kept \cup {new} /\ s \in kept \cup {new} /\ (x = s \/ Fresher(x, s))
    BY <1>1, <2>3
  <2>5. Fresher(x, new)
    BY <2>1, <2>4, FresherIsOrder
  <2>6. x # new /\ ~Fresher(new, x)
    BY <2>4, <2>5, FresherIsOrder
  <2>7. x \in Holders(kept, k) /\ x \in Holders(kept \cup segs, k) /\ \A r \in segs : Fresher(x, r)
    BY <1>1, <2>3, <2>6
  <2>8. \A r \in Holders(kept \cup segs, k) : r = x \/ Fresher(x, r)
    BY <1>1, <2>3, <2>7
  <2>9. SegValue(kept \cup {new}, k) = x.kv[k]
    BY <2>3, SegSingle
  <2>10. SegValue(kept \cup segs, k) = x.kv[k]
    BY <2>7, <2>8, SegSingle
  <2> QED
    BY <2>9, <2>10
<1>3. CASE ~\E s \in Holders(kept, k) : Fresher(s, new)
  <2>1. new.kv[k] = SegValue(segs, k)
    BY <1>3
  <2>2. \A s \in Holders(kept, k) : Fresher(new, s) /\ \A r \in segs : Fresher(r, s)
    BY <1>1, <1>3
  <2>3. Placed(segs) /\ Placed({new})
    BY PlacedSubset
  <2>4. SegValue(segs, k) = None <=> Holders(segs, k) = {}
    BY <2>3, SegValueType
  <2>5. CASE Holders(segs, k) = {}
    <3>1. Holders({new}, k) = {}
      BY <2>1, <2>4, <2>5 DEF Holders, Holds
    <3>2. Holders(kept \cup {new}, k) = Holders(kept \cup segs, k)
      BY <1>1, <2>5, <3>1
    <3> QED
      BY <3>2 DEF SegValue
  <2>6. CASE Holders(segs, k) # {}
    <3>1. SegValue(kept \cup segs, k) = SegValue(segs, k)
      <4>1. \A s \in Holders(segs, k), r \in Holders(kept, k) : Fresher(s, r)
        BY <1>1, <2>2
      <4>2. SegValue(kept \cup segs, k) =
                IF Holders(segs, k) # {} THEN SegValue(segs, k) ELSE SegValue(kept, k)
        BY <4>1, SegAppend
      <4> QED
        BY <2>6, <4>2
    <3>2. new \in Holders({new}, k)
      BY <2>1, <2>4, <2>6 DEF Holders, Holds
    <3>3. SegValue(kept \cup {new}, k) = SegValue({new}, k)
      <4>1. \A s \in Holders({new}, k), r \in Holders(kept, k) : Fresher(s, r)
        BY <1>1, <2>2
      <4> QED
        BY <3>2, <4>1, SegAppend
    <3>4. SegValue({new}, k) = new.kv[k]
      <4>1. PICK one : one = {new}
        OBVIOUS
      <4>2. Placed(one) /\ new \in Holders(one, k) /\ \A r \in Holders(one, k) : r = new
        BY <1>1, <2>3, <3>2, <4>1
      <4>3. SegValue(one, k) = new.kv[k]
        BY <4>2, SegSingle
      <4> QED
        BY <4>1, <4>3
    <3> QED
      BY <2>1, <3>1, <3>3, <3>4
  <2> QED
    BY <2>5, <2>6
<1> QED
  BY <1>2, <1>3

\* The tasks that remain are apart.
LEMMA RestApart ==
    ASSUME IInv, NEW t \in merges
    PROVE  /\ Apart(merges \ {t}, merging \ {t.source},
                    consolidating /\ t.source # Consolidation, epoch)
           /\ \A u \in merges \ {t} :
                  /\ u.source # t.source /\ u.source # Consolidation /\ t.source # Consolidation
                  /\ u.target = u.source + 1 /\ FromLevels(u) = {u.source}
<1>1. Apart(merges, merging, consolidating, epoch)
  BY DEF IInv, TasksMatch
<1>2. \A u \in merges \ {t} :
          /\ u.source # t.source /\ u.source # Consolidation /\ t.source # Consolidation
          /\ u.target = u.source + 1
  BY <1>1 DEF Apart
<1>3. \A u \in merges \ {t} : FromLevels(u) = {u.source}
  BY <1>2 DEF FromLevels
<1> QED
  BY <1>1, <1>2, <1>3 DEF Apart

LEMMA MergeDropped ==
    ASSUME IInv, NEW t \in merges, ApplyMerge(t), epoch # t.epoch \/ t.out = Nothing
    PROVE  IInv' /\ View' = View /\ UNCHANGED torn
<1>1. /\ consolidating' = (consolidating /\ t.source # Consolidation)
      /\ merging' = merging \ {t.source} /\ merges' = merges \ {t}
      /\ UNCHANGED <<levels, tombstones, torn, delta, flushing, epoch, coord, builds, nextId>>
  BY DEF ApplyMerge, Dropped
<1>2. UNCHANGED <<store, torn>>
  BY <1>1 DEF store
<1>3. TypeInv'
  <2>1. /\ coord' \in [pc : {"idle", "swap", "merges"}, epoch : Nat]
        /\ merges' \in SUBSET Tasks /\ consolidating' \in BOOLEAN
    BY <1>1 DEF IInv, TypeInv
  <2> QED
    BY <1>1, <1>2, <2>1, TypesKept DEF IInv
<1>4. BuildsMatch'
  BY <1>1, <1>2, BuildsStay DEF IInv, BuildsMatch
<1>5. TasksMatch'
  <2>1. Apart(merges, merging, consolidating, epoch)'
    BY <1>1, RestApart
  <2>2. ASSUME NEW u \in merges'
        PROVE  /\ Merged(u)'
               /\ u.epoch = epoch => Fits(u, levels)' /\ \A k \in u.applied \ torn : Overlaid(u, k)'
    BY <1>1 DEF IInv, TasksMatch, Merged, Placed, Fits, Above, Overlaid
  <2> QED
    BY <1>1, <2>1, <2>2 DEF TasksMatch
<1> QED
  BY <1>1, <1>2, <1>3, <1>4, <1>5, StoreKept DEF IInv

\* A copy of k has come since the task started.
Topped(t, k) == \E s \in Holders(levels, k) : Above(t, s)

\* What a merge leaves as it was below the memtables.
MergeKeeps(t) ==
    /\ tombstones' \subseteq tombstones
    /\ torn \subseteq torn'
    /\ \A k \in tombstones \ tombstones' :
        SegValue(levels, k)' = None /\ (k \notin torn' => Holders(flushing, k) = {})
    /\ \A k \in Keys : k \notin t.applied \/ Topped(t, k) => SegValue(levels, k)' = SegValue(levels, k)
    /\ \A u \in merges \ {t} : u.epoch = epoch => \A k \in u.applied :
        /\ k \in tombstones => k \in tombstones'
        /\ Topped(u, k) => Topped(u, k)' \/ (k \in t.applied /\ ~Topped(t, k))

LEMMA MergeApplied ==
    ASSUME IInv, NEW t \in merges, ApplyMerge(t), epoch = t.epoch, t.out # Nothing
    PROVE  IInv' /\ MergeKeeps(t) /\ \A k \in Keys \ torn' : View'[k] = View[k]
<1> DEFINE rest == merges \ {t}
           busy == merging \ {t.source}
<1>1. PICK kept, new, cons :
          /\ kept = Kept(t)
          /\ new = [level |-> t.target, at |-> NextAt(Kept(t), t.target), kv |-> t.out]
          /\ cons = consolidating'
  OBVIOUS
<1>2. PICK fl, lv, fly :
          /\ fl = flushing /\ lv = levels' /\ fly = inFlight
  OBVIOUS
<1>3. /\ lv = kept \cup {new}
      /\ tombstones' = tombstones \ Cleared(kept, t)
      /\ cons = (consolidating /\ t.source # Consolidation)
      /\ Applied(t.epoch, fl, lv, fly, busy, rest, cons)
      /\ UNCHANGED <<delta, flushing, epoch, coord, builds, nextId>>
      /\ torn' = torn \cup {k \in Cleared(kept, t) \cap tombstones : Holders(flushing, k) # {}}
  BY <1>1, <1>2 DEF ApplyMerge, Revived
<1>4. /\ Schedule(epoch, fl, lv, fly, busy, rest, cons)
      /\ t.done
  BY <1>3 DEF Applied, ApplyMerge
<1>5. /\ Placed(levels) /\ IsFiniteSet(levels) /\ t \in Tasks /\ tombstones \in SUBSET Keys
      /\ Fits(t, levels) /\ Merged(t) /\ t.target > 0 /\ t.target \in Lvls /\ t.out \in KVs
      /\ t.target \in Nat /\ t.applied \in SUBSET Keys
      /\ t.source # Consolidation => t.target = t.source + 1
  BY LvlsAreNumbers DEF IInv, TypeInv, TasksMatch, Apart, Tasks
<1>6. /\ kept = levels \ t.segs /\ levels = kept \cup t.segs /\ kept \subseteq levels
      /\ t.segs \subseteq levels
  BY <1>1, <1>5 DEF Kept, Fits
<1>7. Placed(kept) /\ IsFiniteSet(kept)
  BY <1>5, <1>6, PlacedSubset, FS_Subset
<1>8. \A s \in levels : s.level \in Lvls /\ s.level \in Nat /\ s.at \in Nat
  BY <1>5, SegmentType DEF Placed
<1>9. /\ new.level = t.target /\ new.kv = t.out /\ new.at \in Nat
      /\ \A s \in kept : s.level = t.target => s.at < new.at
      /\ new \in Segments
  <2>1. new.level = t.target /\ new.kv = t.out /\ new.at = NextAt(kept, t.target)
    BY <1>1
  <2>2. new.at \in Nat /\ \A s \in kept : s.level = t.target => s.at < new.at
    BY <1>5, <1>7, <2>1, NextAtIs
  <2>3. new \in Segments
    <3>1. new = [level |-> new.level, at |-> new.at, kv |-> new.kv]
      BY <1>1
    <3> QED
      BY <1>5, <2>1, <2>2, <3>1 DEF Segments
  <2> QED
    BY <2>1, <2>2, <2>3
<1> HIDE DEF rest, busy
<1>10. Placed(kept \cup {new})
  <2>1. kept \cup {new} \in SUBSET Segments
    BY <1>7, <1>9 DEF Placed
  <2>2. \A s \in kept : ~(s.level = new.level /\ s.at = new.at)
    BY <1>6, <1>8, <1>9
  <2>3. \A s, r \in kept \cup {new} : s.level = r.level /\ s.at = r.at => s = r
    BY <1>7, <2>2 DEF Placed
  <2>4. PICK n \in Nat : \A s \in kept : s.at <= n
    BY <1>7 DEF Placed
  <2>5. n + new.at \in Nat /\ new.at <= n + new.at
    BY <1>9
  <2>6. \A s \in kept : s.at <= n + new.at
    <3> TAKE s \in kept
    <3>1. s.at \in Nat /\ s.at <= n
      BY <1>6, <1>8, <2>4
    <3> QED
      BY <3>1, <1>9
  <2> QED
    BY <2>1, <2>3, <2>5, <2>6 DEF Placed
<1>11. IsFiniteSet(lv) /\ Placed(lv)
  BY <1>3, <1>7, <1>10, FS_AddElement
<1>12. ASSUME NEW s \in kept
       PROVE  \/ Fresher(s, new) /\ \A r \in t.segs : Fresher(s, r)
              \/ Fresher(new, s) /\ \A r \in t.segs : Fresher(r, s)
  <2>1. s \in levels \ t.segs /\ s.level \in Lvls /\ s.level \in Nat /\ s.at \in Nat
    BY <1>6, <1>8
  <2>2. CASE s.level \in FromLevels(t)
    <3>1. s.level < t.target /\ Above(t, s)
      BY <2>1, <2>2, <1>5 DEF Fits
    <3> QED
      BY <3>1, <1>9 DEF Fresher, Above
  <2>3. CASE s.level \notin FromLevels(t)
    <3>1. t.source # Consolidation /\ FromLevels(t) = {t.source} /\ t.target = t.source + 1
      BY <2>1, <2>3, <1>5 DEF FromLevels
    <3>2. \A r \in t.segs : r.level = t.source
      BY <3>1, <1>5 DEF Fits
    <3>3. t.source \in Nat /\ s.level # t.source
      BY <2>3, <3>1, <1>5 DEF Tasks
    <3>4. CASE s.level < t.source
      BY <3>1, <3>2, <3>3, <3>4, <2>1, <1>9 DEF Fresher
    <3>5. CASE t.source < s.level
      <4>1. \A r \in t.segs : Fresher(r, s)
        BY <3>2, <3>5 DEF Fresher
      <4>2. CASE s.level = t.target
        <5>1. s.at < new.at
          BY <4>2, <1>9
        <5>2. new.at > s.at
          BY <5>1, <2>1, <1>9
        <5> QED
          BY <4>1, <4>2, <5>2, <1>9 DEF Fresher
      <4>3. CASE s.level # t.target
        <5>1. t.target < s.level
          BY <4>3, <3>1, <3>3, <3>5, <2>1
        <5> QED
          BY <4>1, <5>1, <1>9 DEF Fresher
      <4> QED
        BY <4>2, <4>3
    <3> QED
      BY <2>1, <3>3, <3>4, <3>5
  <2> QED
    BY <2>2, <2>3
\* What becomes of a key: SegValue.
<1>13. /\ \A k \in t.applied : Holders(t.segs, k) # {} /\ new.kv[k] = None
       /\ \A k \in Keys \ t.applied : new.kv[k] = SegValue(t.segs, k)
  BY <1>4, <1>5, <1>9 DEF Merged
<1>14. ASSUME NEW k \in Keys, NEW s \in Holders(levels, k), Above(t, s), Holders(t.segs, k) # {}
       PROVE  s \in Holders(kept, k) /\ Fresher(s, new)
  <2>1. PICK r \in t.segs : TRUE
    BY <1>14 DEF Holders
  <2>2. s \in levels /\ r \in levels /\ Fresher(s, r)
    BY <1>6, <1>14, <2>1 DEF Above, Holders
  <2>3. s \notin t.segs
    BY <1>5, <1>14, <2>2, FresherIsOrder DEF Above
  <2>4. ~Fresher(r, s)
    BY <1>5, <2>2, FresherIsOrder
  <2> QED
    BY <1>6, <1>12, <1>14, <2>1, <2>2, <2>3, <2>4 DEF Holders
<1>15. ASSUME NEW k \in Keys,
              k \notin t.applied \/ \E s \in Holders(levels, k) : Above(t, s)
       PROVE  SegValue(lv, k) = SegValue(levels, k)
  <2>1. \/ \E s \in Holders(kept, k) : Fresher(s, new)
        \/ new.kv[k] = SegValue(t.segs, k)
    BY <1>13, <1>14, <1>15
  <2>2. Placed(kept \cup t.segs)
    BY <1>5, <1>6
  <2>3. InPlaceOf(kept, t.segs, new)
    BY <1>12 DEF InPlaceOf
  <2>4. ReadsLike(kept, t.segs, new, k)
    BY <2>1 DEF ReadsLike
  <2>5. SegValue(kept \cup {new}, k) = SegValue(kept \cup t.segs, k)
    BY <1>10, <2>2, <2>3, <2>4, MergeValue
  <2> QED
    BY <1>3, <1>6, <2>5
<1>16. \A k \in Keys : k \in tombstones' <=>
           k \in tombstones /\ ~(k \in t.applied /\ Holders(kept, k) = {})
  BY <1>3 DEF Cleared
<1>17. \A k \in t.applied \ torn : Overlaid(t, k)
  BY <1>3 DEF IInv, TasksMatch
<1>27. ASSUME NEW k \in Keys, k \in tombstones, k \notin tombstones'
       PROVE  SegValue(lv, k) = None /\ (k \notin torn' => Holders(flushing, k) = {})
  <2>1. k \in t.applied /\ Holders(kept, k) = {} /\ new.kv[k] = None
    BY <1>13, <1>16, <1>27
  <2>2. Holders(lv, k) = {}
    BY <2>1, <1>3 DEF Holders, Holds
  <2>3. k \notin torn' => Holders(flushing, k) = {}
    BY <1>3, <1>27, <2>1 DEF Cleared
  <2> QED
    BY <2>2, <2>3 DEF SegValue
<1>18. ASSUME NEW k \in Keys, k \notin torn'
       PROVE  Get(k)' = Get(k)
  <2>1. CASE k \notin t.applied
    BY <2>1, <1>2, <1>3, <1>15, <1>16 DEF Get
  <2>2. CASE k \in t.applied
    <3>1. CASE k \in Holds(delta)
      BY <3>1, <1>3 DEF Get
    <3>2. CASE k \notin Holds(delta) /\ k \in tombstones /\ k \in tombstones'
      BY <3>2, <1>3 DEF Get
    <3>3. CASE k \notin Holds(delta) /\ k \in tombstones /\ k \notin tombstones'
      BY <3>3, <1>2, <1>3, <1>18, <1>27 DEF Get
    <3>4. CASE k \notin Holds(delta) /\ k \notin tombstones
      <4>1. \/ Holders(flushing, k) # {}
            \/ \E s \in Holders(levels, k) : Above(t, s)
        BY <2>2, <3>4, <1>3, <1>17, <1>18 DEF Overlaid
      <4>2. k \notin tombstones'
        BY <3>4, <1>16
      <4>3. CASE Holders(flushing, k) # {}
        BY <3>4, <4>2, <4>3, <1>3 DEF Get
      <4>4. CASE \E s \in Holders(levels, k) : Above(t, s)
        <5>1. SegValue(lv, k) = SegValue(levels, k)
          BY <4>4, <1>15
        <5> QED
          BY <3>4, <4>2, <5>1, <1>2, <1>3 DEF Get
      <4> QED
        BY <4>1, <4>3, <4>4
    <3> QED
      BY <3>1, <3>2, <3>3, <3>4
  <2> QED
    BY <2>1, <2>2
<1>19. \A k \in Keys \ torn' : View'[k] = View[k]
  BY <1>18 DEF View
<1>20. TombsHide'
  <2>1. ASSUME NEW k \in tombstones', k \notin torn'
        PROVE  Holders(flushing, k) # {} \/ Holders(lv, k) # {}
    <3>1. k \in Keys /\ k \in tombstones /\ HasCopy(k)
      BY <1>3, <1>5, <2>1 DEF IInv, TombsHide
    <3>2. CASE Holders(flushing, k) # {}
      BY <3>2
    <3>3. CASE Holders(kept, k) # {}
      BY <3>3, <1>3 DEF Holders
    <3>4. CASE Holders(t.segs, k) # {} /\ Holders(kept, k) = {}
      <4>1. k \notin t.applied
        BY <3>1, <3>4, <1>16
      <4>2. new.kv[k] # None
        <5>1. Placed(t.segs)
          BY <1>5 DEF Merged
        <5> QED
          BY <3>1, <3>4, <4>1, <5>1, <1>13, SegValueType
      <4> QED
        BY <3>1, <4>2, <1>3 DEF Holders, Holds
    <3>5. Holders(levels, k) = Holders(kept, k) \cup Holders(t.segs, k)
      BY <1>6 DEF Holders
    <3> QED
      BY <3>1, <3>2, <3>3, <3>4, <3>5 DEF HasCopy
  <2> QED
    BY <1>2, <1>3, <2>1 DEF TombsHide, HasCopy
\* The other tasks still fit.
<1>21. ASSUME NEW u \in rest, u.epoch = epoch
       PROVE  /\ Fits(u, lv)
              /\ \A s \in t.segs : Above(u, s) => Above(u, new)
              /\ u.segs \subseteq kept
  <2>1. /\ u \in merges /\ Fits(u, levels) /\ u.target = u.source + 1 /\ t.target = t.source + 1
        /\ FromLevels(u) = {u.source} /\ FromLevels(t) = {t.source} /\ u.source # t.source
        /\ u.source \in Nat /\ t.source \in Nat
    <3>1. u \in merges \ {t} /\ u \in merges
      BY DEF rest
    <3>2. Fits(u, levels)
      BY <1>21, <3>1 DEF IInv, TasksMatch
    <3>3. u.source \in Nat /\ t.source \in Nat
      BY <3>1 DEF IInv, TypeInv, Tasks
    <3> QED
      BY <3>1, <3>2, <3>3, <1>5, RestApart DEF FromLevels
  <2>2. u.segs \subseteq levels /\ \A r \in u.segs : r.level = u.source
    BY <2>1 DEF Fits
  <2>3. \A r \in t.segs : r.level = t.source
    BY <2>1, <1>5 DEF Fits
  <2>4. u.segs \subseteq kept
    BY <2>1, <2>2, <2>3, <1>6
  <2>5. u.source = t.target => \A r \in u.segs : Fresher(new, r)
    <3> SUFFICES ASSUME u.source = t.target, NEW r \in u.segs
                 PROVE  Fresher(new, r)
      OBVIOUS
    <3>1. r \in kept /\ r.level = t.target /\ r.at \in Nat
      BY <2>2, <2>4, <1>6, <1>8
    <3>2. new.at > r.at
      BY <3>1, <1>9
    <3> QED
      BY <3>1, <3>2, <1>9 DEF Fresher
  <2>6. Fits(u, lv)
    <3>1. ASSUME NEW s \in lv \ u.segs, s.level \in FromLevels(u)
          PROVE  s.level < u.target /\ Above(u, s)
      <4>1. CASE s \in kept
        BY <4>1, <3>1, <2>1, <1>6 DEF Fits
      <4>2. CASE s = new
        <5>1. u.source = t.target /\ u.source < u.target
          BY <4>2, <3>1, <2>1, <1>9
        <5> QED
          BY <4>2, <5>1, <2>5, <1>9 DEF Above
      <4> QED
        BY <4>1, <4>2, <1>3
    <3> QED
      BY <3>1, <2>1, <2>2, <2>4, <1>3 DEF Fits
  <2>7. ASSUME NEW s \in t.segs, Above(u, s), NEW r \in u.segs
        PROVE  Fresher(new, r)
    <3>1. Fresher(s, r) /\ s.level = t.source /\ r.level = u.source
      BY <2>2, <2>3, <2>7 DEF Above
    <3>2. t.source < u.source
      BY <3>1, <2>1 DEF Fresher
    <3>3. CASE u.source = t.target
      BY <3>3, <2>5
    <3>4. CASE u.source # t.target
      <4>1. t.target < u.source
        BY <3>2, <3>4, <2>1
      <4> QED
        BY <4>1, <3>1, <1>9 DEF Fresher
    <3> QED
      BY <3>3, <3>4
  <2> QED
    BY <2>4, <2>6, <2>7 DEF Above
<1>22. ASSUME NEW u \in rest, u.epoch = epoch, NEW k \in u.applied
       PROVE  /\ k \in tombstones => k \in tombstones'
              /\ Topped(u, k) => Topped(u, k)' \/ (k \in t.applied /\ ~Topped(t, k))
  <2>1. u \in merges /\ k \in Keys /\ Merged(u)
    BY <1>22 DEF rest, IInv, TasksMatch, TypeInv, Tasks
  <2>2. Holders(u.segs, k) # {}
    BY <1>22, <2>1 DEF Merged
  <2>3. Holders(kept, k) # {}
    BY <1>21, <1>22, <2>2 DEF Holders
  <2>4. k \in tombstones => k \in tombstones'
    BY <2>1, <2>3, <1>16
  <2>5. ASSUME Topped(u, k), k \in t.applied => Topped(t, k)
        PROVE  Topped(u, k)'
    <3>1. PICK s \in Holders(levels, k) : Above(u, s)
      BY <2>5 DEF Topped
    <3>2. s \in levels /\ k \in Holds(s)
      BY DEF Holders
    <3>3. CASE s \in kept
      <4>1. s \in Holders(levels', k) /\ Above(u, s)'
        BY <3>1, <3>2, <3>3, <1>2, <1>3 DEF Holders, Above
      <4> QED
        BY <4>1 DEF Topped
    <3>4. CASE s \in t.segs /\ k \notin t.applied
      <4>1. new.kv[k] # None
        <5>1. Placed(t.segs) /\ Holders(t.segs, k) # {}
          BY <1>5, <3>2, <3>4 DEF Merged, Holders
        <5> QED
          BY <2>1, <3>4, <5>1, <1>13, SegValueType
      <4>2. Above(u, new)
        BY <3>1, <3>4, <1>21, <1>22
      <4>3. new \in Holders(levels', k) /\ Above(u, new)'
        BY <2>1, <4>1, <4>2, <1>2, <1>3 DEF Holders, Holds, Above
      <4> QED
        BY <4>3 DEF Topped
    <3>5. CASE s \in t.segs /\ k \in t.applied
      <4>1. PICK q \in Holders(levels, k) : Above(t, q)
        BY <2>5, <3>5 DEF Topped
      <4>2. q \in Holders(kept, k) /\ Fresher(q, s) /\ q \in levels
        BY <2>1, <3>5, <4>1, <1>13, <1>14 DEF Above, Holders
      <4>3. Above(u, q)
        <5> SUFFICES ASSUME NEW r \in u.segs PROVE Fresher(q, r)
          BY DEF Above
        <5>1. Fresher(s, r) /\ r \in levels
          BY <3>1, <1>6, <1>21, <1>22 DEF Above
        <5> QED
          BY <3>2, <4>2, <5>1, <1>5, FresherIsOrder
      <4>4. q \in Holders(levels', k) /\ Above(u, q)'
        BY <4>2, <4>3, <1>2, <1>3 DEF Holders, Above
      <4> QED
        BY <4>4 DEF Topped
    <3> QED
      BY <3>2, <3>3, <3>4, <3>5, <1>6
  <2> QED
    BY <2>4, <2>5
<1>28. ASSUME NEW u \in rest, u.epoch = epoch, NEW k \in u.applied, k \notin torn'
       PROVE  Overlaid(u, k)'
  <2>1. Overlaid(u, k)
    BY <1>3, <1>28 DEF rest, IInv, TasksMatch
  <2>2. k \in t.applied => Overlaid(t, k)
    BY <1>3, <1>17, <1>28
  <2>3. CASE k \in tombstones \/ k \in Holds(delta) \/ Holders(flushing, k) # {}
    BY <1>3, <1>22, <1>28, <2>3 DEF Overlaid
  <2>4. CASE Topped(u, k) /\ (k \in t.applied => Topped(t, k))
    <3>1. Topped(u, k)'
      BY <1>22, <1>28, <2>4
    <3> QED
      BY <3>1 DEF Overlaid, Topped
  <2> QED
    BY <2>1, <2>2, <2>3, <2>4 DEF Overlaid, Topped
<1>29. MergeKeeps(t)
  <2>1. \A k \in Keys : SegValue(levels, k)' = SegValue(lv, k)
    BY <1>2 DEF SegValue, Holders, Holds, Freshest, Fresher
  <2>2. \A k \in Keys : k \notin t.applied \/ Topped(t, k) => SegValue(lv, k) = SegValue(levels, k)
    BY <1>15 DEF Topped
  <2>3. \A u \in merges \ {t} : u.epoch = epoch => \A k \in u.applied :
            /\ k \in tombstones => k \in tombstones'
            /\ Topped(u, k) => Topped(u, k)' \/ (k \in t.applied /\ ~Topped(t, k))
    BY <1>22 DEF rest
  <2>4. tombstones' \subseteq tombstones /\ tombstones \subseteq Keys
    BY <1>3, <1>5
  <2> QED
    BY <1>3, <1>27, <2>1, <2>2, <2>3, <2>4 DEF MergeKeeps
<1>23. merges' \in SUBSET Tasks /\ TasksMatch'
  <2>1. Apart(rest, busy, cons, epoch) /\ rest \subseteq merges /\ cons \in BOOLEAN
    BY <1>3, RestApart DEF rest, busy, IInv, TypeInv
  <2>2. \A u \in rest : u.epoch = epoch => Fits(u, lv) /\ \A k \in u.applied \ torn' : Overlaid(u, k)'
    BY <1>21, <1>28
  <2>3. levels' = lv /\ consolidating' = cons /\ epoch' = epoch
    BY <1>1, <1>2, <1>3
  <2> QED
    BY <2>1, <2>2, <2>3, <1>4, <1>11, TasksFollow
<1>24. TypeInv'
  <2>1. /\ Placed(lv) /\ IsFiniteSet(lv) /\ tombstones' \in SUBSET Keys
        /\ consolidating' \in BOOLEAN /\ levels' = lv /\ torn' \in SUBSET Keys
    BY <1>1, <1>2, <1>3, <1>5, <1>11 DEF IInv, TypeInv
  <2> QED
    BY <2>1, <1>3, <1>23 DEF IInv, TypeInv, Queued, Placed
<1>25. InSequence'
  <2>1. tombstones' \subseteq tombstones
    BY <1>3
  <2> QED
    BY <2>1, <1>3 DEF IInv, InSequence
<1>26. BuildsMatch'
  BY <1>3 DEF IInv, BuildsMatch
<1> QED
  BY <1>19, <1>20, <1>23, <1>24, <1>25, <1>26, <1>29 DEF IInv

(***************************************************************************)
(* The store is a map                                                      *)
(***************************************************************************)
\* A step is a call, as VecMap has it, or of torn keys at most.
MapStep == [Map!Next]_<<View, torn, calls, last>>

LEMMA LoseStep ==
    ASSUME torn \subseteq torn', \A k \in Keys \ torn' : View'[k] = View[k],
           UNCHANGED <<calls, last>>
    PROVE  MapStep
BY DEF MapStep, Map!Next, Map!Lose, Map!Becomes

LEMMA SameStep ==
    ASSUME View' = View, UNCHANGED history
    PROVE  MapStep
BY DEF MapStep, history

LEMMA CallStep ==
    ASSUME IInv,
           \/ \E k \in Keys, v \in Values : Add(k, v)
           \/ \E k \in Keys : Delete(k)
           \/ Clear
    PROVE  IInv' /\ MapStep
<1>1. ASSUME NEW k \in Keys, NEW v \in Values, Add(k, v)
      PROVE  IInv' /\ MapStep
  <2>1. IInv' /\ View' = [View EXCEPT ![k] = v]
    BY <1>1, AddStep
  <2>2. calls' = calls + 1 /\ last' = <<"Add">> /\ torn' = torn \ {k}
    BY <1>1 DEF Add, Called
  <2>3. Map!Add(k, v)
    BY <2>1, <2>2 DEF Map!Add, Map!Call, Map!Becomes
  <2> QED
    BY <2>1, <2>3 DEF MapStep, Map!Next
<1>2. ASSUME NEW k \in Keys, Delete(k)
      PROVE  IInv' /\ MapStep
  <2>1. /\ IInv' /\ View' = [View EXCEPT ![k] = None]
        /\ last' = <<"Delete", View[k] # None>>
    BY <1>2, DeleteStep
  <2>2. calls' = calls + 1 /\ torn' = torn \ {k}
    BY <1>2 DEF Delete, Called
  <2>3. Map!Call({k}, [View EXCEPT ![k] = None], <<"Delete", View[k] # None>>)
    BY <2>1, <2>2 DEF Map!Call, Map!Becomes
  <2>4. (View[k] # None) \in BOOLEAN
    OBVIOUS
  <2>5. Map!Delete(k)
    BY <2>3, <2>4 DEF Map!Delete
  <2> QED
    BY <2>1, <2>5 DEF MapStep, Map!Next
<1>3. ASSUME Clear
      PROVE  IInv' /\ MapStep
  <2>1. IInv' /\ View' = Nothing
    BY <1>3, ClearStep
  <2>2. calls' = calls + 1 /\ last' = <<"Clear">> /\ torn' = torn \ Keys
    BY <1>3 DEF Clear, Called
  <2>3. Map!Clear
    BY <2>1, <2>2 DEF Map!Clear, Map!Call, Map!Becomes, Map!Nothing, Nothing
  <2> QED
    BY <2>1, <2>3 DEF MapStep, Map!Next
<1> QED
  BY <1>1, <1>2, <1>3

LEMMA NextStep ==
    ASSUME IInv, [Next]_vars
    PROVE  IInv' /\ MapStep
<1>1. CASE \/ \E k \in Keys, v \in Values : Add(k, v)
           \/ \E k \in Keys : Delete(k)
           \/ Clear
  BY <1>1, CallStep
<1>2. CASE CompactSignal
  BY <1>2, CompactSignalStep, SameStep DEF CompactSignal
<1>3. CASE Swap
  BY <1>3, SwapStep, SameStep DEF Swap
<1>4. CASE MaybeScheduleMerges
  BY <1>4, MaybeScheduleMergesStep, SameStep DEF MaybeScheduleMerges
<1>5. CASE HandleIdleTick
  BY <1>5, HandleIdleTickStep, SameStep DEF HandleIdleTick
<1>6. CASE \E t \in merges : MergeSegments(t)
  <2>1. PICK t \in merges : MergeSegments(t)
    BY <1>6
  <2>2. UNCHANGED history
    BY <2>1 DEF MergeSegments
  <2> QED
    BY <2>1, <2>2, MergeSegmentsStep, SameStep
<1>7. CASE \E b \in builds : ApplyFlush(b)
  <2>1. PICK b \in builds : ApplyFlush(b)
    BY <1>7
  <2>2. UNCHANGED <<calls, last>>
    BY <2>1 DEF ApplyFlush
  <2> QED
    BY <2>1, <2>2, ApplyFlushStep, LoseStep
<1>8. CASE \E t \in merges : ApplyMerge(t)
  <2>1. PICK t \in merges : ApplyMerge(t)
    BY <1>8
  <2>2. UNCHANGED <<calls, last>>
    BY <2>1 DEF ApplyMerge
  <2>3. CASE epoch # t.epoch \/ t.out = Nothing
    BY <2>1, <2>2, <2>3, MergeDropped, LoseStep
  <2>4. CASE epoch = t.epoch /\ t.out # Nothing
    <3>1. IInv' /\ MergeKeeps(t) /\ \A k \in Keys \ torn' : View'[k] = View[k]
      BY <2>1, <2>4, MergeApplied
    <3>2. torn \subseteq torn'
      BY <3>1 DEF MergeKeeps
    <3> QED
      BY <2>2, <3>1, <3>2, LoseStep
  <2> QED
    BY <2>3, <2>4
<1>9. CASE \/ FlushDeltaSync \/ WakeUp \/ SaveBinary \/ SearchEnd
           \/ \E F \in Filters : SearchBegin(F)
  BY <1>9, SyncAndSearchStep, SameStep
<1>10. CASE UNCHANGED vars
  <2>1. /\ UNCHANGED <<store, torn, coord, builds, consolidating, nextId>>
        /\ UNCHANGED <<merging, merges>> /\ UNCHANGED history
    BY <1>10 DEF vars, work, history
  <2> QED
    BY <2>1, QuietStep, SameStep
<1> QED
  BY <1>1, <1>2, <1>3, <1>4, <1>5, <1>6, <1>7, <1>8, <1>9, <1>10 DEF Next

LEMMA InvariantHolds == Spec => []IInv
<1>1. Init => IInv
  BY InitIInv
<1>2. IInv /\ [Next]_vars => IInv'
  BY NextStep
<1> QED
  BY <1>1, <1>2, PTL DEF Spec

\* For its callers the vector store is a map: what Get returns changes by Add, Delete and
\* Clear, as VecMap has it, and by no flush, merge, consolidation, search or snapshot,
\* for every key but those of which the last call was caught in a race (torn).
THEOREM StoreIsMap == Spec => IsMap
<1>1. Init => Map!Init
  <2> SUFFICES ASSUME Init PROVE Map!Init
    OBVIOUS
  <2>1. delta = Memtable(0) /\ Holds(delta) = {}
    BY MemtableType DEF Init, NoDelta
  <2>2. View = Nothing
    BY <2>1 DEF Init, View, Get, Nothing, Holders, SegValue
  <2> QED
    BY <2>2 DEF Init, Map!Init, Map!Nothing, Nothing
<1>2. IInv /\ [Next]_vars => [Map!Next]_<<View, torn, calls, last>>
  BY NextStep DEF MapStep
<1> QED
  BY <1>1, <1>2, InvariantHolds, PTL DEF Spec, IsMap, Map!Spec, Map!mapVars

(***************************************************************************)
(* The other readers                                                       *)
(***************************************************************************)
ActivePart == [kv |-> delta.kv, level |-> -2, at |-> 0]
PartOf(m) == [kv |-> m.kv, level |-> -1, at |-> m.id]

LEMMA PartsAre ==
    ASSUME IInv
    PROVE  /\ Parts = {ActivePart} \cup {PartOf(m) : m \in flushing} \cup levels
           /\ \A p \in Parts : p.level \in Int /\ p.at \in Int
           /\ \A s \in levels : s.level >= 0
           /\ IsFiniteSet(Parts)
<1>1. Parts = {ActivePart} \cup {PartOf(m) : m \in flushing} \cup levels
  BY DEF Parts, ActivePart, PartOf
<1>2. flushing \in SUBSET Mems /\ IsFiniteSet(flushing) /\ levels \in SUBSET Segments
      /\ IsFiniteSet(levels)
  BY DEF IInv, TypeInv, Queued, Placed
<1>3. \A m \in flushing : PartOf(m).level = -1 /\ PartOf(m).at \in Int
  BY <1>2, MemType DEF PartOf
<1>4. \A s \in levels : s.level \in Nat /\ s.at \in Nat
  BY <1>2, SegmentType
<1>5. ActivePart.level = -2 /\ ActivePart.at = 0
  BY DEF ActivePart
<1>6. IsFiniteSet({PartOf(m) : m \in flushing})
  <2>1. PICK f : f = [m \in flushing |-> PartOf(m)]
    OBVIOUS
  <2>2. IsFiniteSet({f[m] : m \in flushing})
    BY <1>2, <2>1, ImageIsFinite
  <2>3. {f[m] : m \in flushing} = {PartOf(m) : m \in flushing}
    BY <2>1
  <2> QED
    BY <2>2, <2>3
<1>7. IsFiniteSet({ActivePart})
  BY FS_Singleton
<1>8. IsFiniteSet(Parts)
  BY <1>1, <1>2, <1>6, <1>7, FS_Union
<1>9. \A p \in Parts : p.level \in Int /\ p.at \in Int
  BY <1>1, <1>3, <1>4, <1>5
<1> QED
  BY <1>1, <1>4, <1>8, <1>9

\* ForEach lists what Get returns.
LEMMA ListedIsView ==
    ASSUME IInv, NEW k \in Keys
    PROVE  (IF Listed(k) = {} THEN None ELSE Freshest(Listed(k)).kv[k]) = Get(k)
<1>1. /\ Parts = {ActivePart} \cup {PartOf(m) : m \in flushing} \cup levels
      /\ \A p \in Parts : p.level \in Int /\ p.at \in Int
      /\ \A s \in levels : s.level >= 0
  BY PartsAre
<1>2. \A p : p \in Listed(k) <=> p \in Parts /\ p.kv[k] # None /\ (p.level = -2 \/ k \notin tombstones)
  BY DEF Listed, Holders, Holds
<1>3. ActivePart.level = -2 /\ ActivePart.at = 0 /\ ActivePart.kv = delta.kv
  BY DEF ActivePart
<1>4. \A m : PartOf(m).level = -1 /\ PartOf(m).at = m.id /\ PartOf(m).kv = m.kv
  BY DEF PartOf
<1>5. \A s \in Listed(k) : s.level \in Int /\ s.at \in Int
  BY <1>1, <1>2
<1>6. k \in Holds(delta) <=> delta.kv[k] # None
  BY DEF Holds
<1>7. Queued(flushing) /\ Placed(levels)
  BY DEF IInv, TypeInv
<1>8. CASE k \in Holds(delta)
  <2>1. ActivePart \in Listed(k)
    BY <1>1, <1>2, <1>3, <1>6, <1>8
  <2>2. \A r \in Listed(k) : r = ActivePart \/ Fresher(ActivePart, r)
    BY <1>1, <1>2, <1>3, <1>4 DEF Fresher
  <2>3. Freshest(Listed(k)) = ActivePart
    BY <1>5, <2>1, <2>2, FreshestIs
  <2> QED
    BY <1>3, <1>8, <2>1, <2>3 DEF Get
<1>9. CASE k \notin Holds(delta) /\ k \in tombstones
  <2>1. Listed(k) = {}
    BY <1>1, <1>2, <1>3, <1>4, <1>6, <1>9
  <2> QED
    BY <1>9, <2>1 DEF Get
<1>10. CASE k \notin Holds(delta) /\ k \notin tombstones /\ Holders(flushing, k) # {}
  <2>1. PICK mems : mems = Holders(flushing, k)
    OBVIOUS
  <2>2. mems # {} /\ mems \subseteq flushing /\ \A m \in flushing : m \in mems <=> m.kv[k] # None
    BY <1>10, <2>1, HoldersSubset
  <2>3. Queued(mems)
    BY <1>7, <2>2, QueuedSubset
  <2>4. PICK n : n = Newest(mems)
    OBVIOUS
  <2>5. n \in mems /\ \A m \in mems : m.id <= n.id
    BY <2>2, <2>3, <2>4, NewestIn
  <2>6. \A m \in mems : m.id \in Nat /\ (m.id = n.id => m = n)
    BY <2>3, <2>5, MemType DEF Queued
  <2>7. PartOf(n) \in Listed(k)
    BY <1>1, <1>2, <1>4, <1>10, <2>2, <2>5
  <2>8. \A r \in Listed(k) : r = PartOf(n) \/ Fresher(PartOf(n), r)
    <3> SUFFICES ASSUME NEW r \in Listed(k) PROVE r = PartOf(n) \/ Fresher(PartOf(n), r)
      OBVIOUS
    <3>1. r # ActivePart
      BY <1>2, <1>3, <1>6, <1>10
    <3>2. CASE r \in levels
      BY <1>1, <1>4, <1>5, <3>2 DEF Fresher
    <3>3. ASSUME NEW m \in flushing, r = PartOf(m)
          PROVE  r = PartOf(n) \/ Fresher(PartOf(n), r)
      <4>1. m \in mems
        BY <1>2, <1>4, <2>2, <3>3
      <4>2. m.id \in Nat /\ n.id \in Nat /\ m.id <= n.id /\ (m.id = n.id => m = n)
        BY <2>5, <2>6, <4>1
      <4> QED
        BY <1>4, <3>3, <4>2 DEF Fresher
    <3> QED
      BY <1>1, <1>2, <3>1, <3>2, <3>3
  <2>9. Freshest(Listed(k)) = PartOf(n)
    BY <1>5, <2>7, <2>8, FreshestIs
  <2> QED
    BY <1>4, <1>10, <2>1, <2>4, <2>7, <2>9 DEF Get, MemValue
<1>11. CASE k \notin Holds(delta) /\ k \notin tombstones /\ Holders(flushing, k) = {}
  <2>1. \A m \in flushing : m.kv[k] = None
    BY <1>11, HoldersSubset
  <2>2. \A s \in levels : s \in Holders(levels, k) <=> s.kv[k] # None
    BY HoldersSubset
  <2>3. Listed(k) \subseteq Holders(levels, k)
    BY <1>1, <1>2, <1>3, <1>4, <1>6, <1>11, <2>1, <2>2
  <2>4. Holders(levels, k) \subseteq Listed(k)
    BY <1>1, <1>2, <1>11, <2>2, HoldersSubset
  <2>5. Listed(k) = Holders(levels, k)
    BY <2>3, <2>4
  <2> QED
    BY <1>11, <2>5 DEF Get, SegValue
<1> QED
  BY <1>8, <1>9, <1>10, <1>11

\* Every tombstone of a key that is not torn hides a copy, and every key that is there has one of its own.
LEMMA CopiesSuffice ==
    ASSUME IInv
    PROVE  InfoCount + Cardinality(torn \cap tombstones) >=
               Cardinality({k \in Keys : View[k] # None})
<1> DEFINE sure == tombstones \ torn
<1>1. PICK live : live = {k \in Keys : View[k] # None}
  OBVIOUS
<1>2. PICK copies : copies = Copies(Parts)
  OBVIOUS
<1>3. /\ Parts = {ActivePart} \cup {PartOf(m) : m \in flushing} \cup levels
      /\ IsFiniteSet(Parts)
  BY PartsAre
<1>4. IsFiniteSet(Keys) /\ tombstones \subseteq Keys /\ Queued(flushing) /\ Placed(levels)
  BY StoreAssumption DEF IInv, TypeInv
<1>5. IsFiniteSet(copies)
  <2>1. IsFiniteSet(Parts \X Keys)
    BY <1>3, <1>4, FS_Product
  <2>2. copies \in SUBSET (Parts \X Keys)
    BY <1>2 DEF Copies
  <2> QED
    BY <2>1, <2>2, FS_Subset
<1>6. /\ IsFiniteSet(live) /\ IsFiniteSet(tombstones) /\ IsFiniteSet(sure)
      /\ IsFiniteSet(torn \cap tombstones)
  BY <1>1, <1>4, FS_Subset
<1>7. \A k \in Keys, p \in Parts : k \in Holds(p) => <<p, k>> \in copies
  BY <1>2 DEF Copies
<1>8. \A k \in Keys : HasCopy(k) => \E p \in Parts : k \in Holds(p)
  <2> SUFFICES ASSUME NEW k \in Keys, HasCopy(k) PROVE \E p \in Parts : k \in Holds(p)
    OBVIOUS
  <2>1. CASE Holders(flushing, k) # {}
    <3>1. PICK m \in flushing : k \in Holds(m)
      BY <2>1 DEF Holders
    <3>2. PartOf(m) \in Parts /\ k \in Holds(PartOf(m))
      BY <1>3, <3>1 DEF Holds, PartOf
    <3> QED
      BY <3>2
  <2>2. CASE Holders(levels, k) # {}
    BY <1>3, <2>2 DEF Holders
  <2> QED
    BY <2>1, <2>2 DEF HasCopy
<1>9. \A k \in live : k \notin tombstones /\ \E p \in Parts : k \in Holds(p)
  <2> SUFFICES ASSUME NEW k \in Keys, View[k] # None
               PROVE  k \notin tombstones /\ \E p \in Parts : k \in Holds(p)
    BY <1>1
  <2>1. Get(k) # None
    BY DEF View
  <2>2. CASE k \in Holds(delta)
    <3>1. k \notin tombstones
      BY <2>2 DEF IInv, InSequence
    <3>2. ActivePart \in Parts /\ k \in Holds(ActivePart)
      BY <1>3, <2>2 DEF Holds, ActivePart
    <3> QED
      BY <3>1, <3>2
  <2>3. CASE k \notin Holds(delta)
    <3>1. k \notin tombstones
      BY <2>1, <2>3 DEF Get
    <3>2. Holders(flushing, k) # {} \/ SegValue(levels, k) # None
      BY <2>1, <2>3, <3>1 DEF Get
    <3>3. HasCopy(k)
      BY <1>4, <3>2, SegValueType DEF HasCopy
    <3> QED
      BY <1>8, <3>1, <3>3
  <2> QED
    BY <2>2, <2>3
<1>10. \A k \in sure : \E p \in Parts : k \in Holds(p)
  BY <1>4, <1>8 DEF IInv, TombsHide
<1>11. PICK f : f = [c \in copies |-> c[2]]
  OBVIOUS
<1>12. PICK held : held = {f[c] : c \in copies}
  OBVIOUS
<1>13. f \in Surjection(copies, held)
  BY <1>11, <1>12 DEF Surjection
<1>14. IsFiniteSet(held) /\ Cardinality(held) <= Cardinality(copies)
  BY <1>5, <1>13, FS_Surjection
<1>15. \A k \in Keys : (\E p \in Parts : k \in Holds(p)) => k \in held
  <2> SUFFICES ASSUME NEW k \in Keys, NEW p \in Parts, k \in Holds(p) PROVE k \in held
    OBVIOUS
  <2>1. <<p, k>> \in copies
    BY <1>7
  <2>2. f[<<p, k>>] = k
    BY <1>11, <2>1
  <2> QED
    BY <1>12, <2>1, <2>2
<1>16. live \subseteq Keys
  BY <1>1
<1>17. sure \cup live \in SUBSET held
  BY <1>4, <1>9, <1>10, <1>15, <1>16
<1>18. Cardinality(sure \cup live) <= Cardinality(held)
  BY <1>14, <1>17, FS_Subset
<1>19. sure \cap live = {}
  BY <1>9
<1>20. Cardinality(sure \cup live) = Cardinality(sure) + Cardinality(live)
  <2>1. Cardinality(sure \cup live) =
            Cardinality(sure) + Cardinality(live) - Cardinality(sure \cap live)
    BY <1>6, FS_Union
  <2>2. Cardinality(sure \cap live) = 0
    BY <1>19, FS_EmptySet
  <2>3. Cardinality(sure) \in Nat /\ Cardinality(live) \in Nat
    BY <1>6, FS_CardinalityType
  <2> QED
    BY <2>1, <2>2, <2>3
<1>24. Cardinality(tombstones) = Cardinality(sure) + Cardinality(torn \cap tombstones)
  <2>0. PICK in, out : in = torn \cap tombstones /\ out = sure
    OBVIOUS
  <2>1. /\ tombstones = out \cup in /\ out \cap in = {}
        /\ IsFiniteSet(out) /\ IsFiniteSet(in)
    BY <1>6, <2>0
  <2>2. Cardinality(out \cup in) = Cardinality(out) + Cardinality(in) - Cardinality(out \cap in)
    BY <2>1, FS_Union
  <2>3. Cardinality(out) \in Nat /\ Cardinality(in) \in Nat /\ Cardinality(out \cap in) = 0
    BY <2>1, FS_CardinalityType, FS_EmptySet
  <2>4. Cardinality(tombstones) = Cardinality(out) + Cardinality(in)
    BY <2>1, <2>2, <2>3
  <2> QED
    BY <2>0, <2>4
<1>21. Cardinality(sure) \in Nat /\ Cardinality(live) \in Nat
       /\ Cardinality(torn \cap tombstones) \in Nat
       /\ Cardinality(copies) \in Nat /\ Cardinality(held) \in Nat
  BY <1>5, <1>6, <1>14, FS_CardinalityType
<1>22. InfoCount = Cardinality(copies) - Cardinality(tombstones)
  BY <1>2 DEF InfoCount
<1>23. InfoCount + Cardinality(torn \cap tombstones) >= Cardinality(live)
  BY <1>14, <1>18, <1>20, <1>21, <1>22, <1>24
<1> QED
  BY <1>1, <1>23

\* ForEach and Info read the store that Get reads: ForEach lists each key with the value
\* Get returns, and Info counts no fewer vectors than there are, but for tombstones of
\* torn keys.
THEOREM ReadersSeeTheMap == Spec => []ReadersAgree
<1>1. IInv => ReadersAgree
  <2> SUFFICES ASSUME IInv PROVE ReadersAgree
    OBVIOUS
  <2>1. \A k \in Keys :
            (IF Listed(k) = {} THEN None ELSE Freshest(Listed(k)).kv[k]) = Get(k)
    BY ListedIsView
  <2>2. ForEach = View
    BY <2>1 DEF ForEach, View
  <2> QED
    BY <2>2, CopiesSuffice DEF ReadersAgree
<1> QED
  BY <1>1, InvariantHolds, PTL

(***************************************************************************)
(* Searches                                                                *)
(***************************************************************************)
\* What a search has of a key whose vector is g: one hit that is g, or none if g does not pass.
Finds(k, g) ==
    \/ g \notin search.filter /\ MemHits(k) = {} /\ SegHits(k) = {}
    \/ /\ g \in search.filter /\ SegHits(k) = {}
       /\ \E h : MemHits(k) = {h} /\ h.id \in Nat /\ h.kv[k] = g
    \/ /\ g \in search.filter /\ MemHits(k) = {}
       /\ \E s : SegHits(k) = {s} /\ s.kv[k] = g

\* A key that is not written has one vector all the while, and the search finds that one.
Exact(k) == k \notin search.loose => \E g : search.had[k] = {g} /\ Finds(k, g)

\* A key that is there all the while has one hit at most, and it is a vector of that time.
Sure(k) ==
    None \notin search.had[k] =>
        /\ \A h \in MemHits(k) :
              h.id \in Nat /\ h.kv[k] \in search.had[k] /\ \A g \in MemHits(k) : g = h
        /\ \A s \in SegHits(k) : s.kv[k] \in search.had[k] /\ \A r \in SegHits(k) : r = s

\* The search's active memtable is the store's as long as that is not swapped.
Pointed ==
    \A m \in search.mems :
        0 < m.id /\ m.id \in Nat /\ m.id < nextId /\ (m.id = delta.id => m = delta)

SearchInv ==
    /\ DOMAIN search = DOMAIN NoSearch
    /\ search.pc = "segments" => Pointed /\ \A k \in Keys : Exact(k) /\ Sure(k)

\* The memtables that a search looks at, and the newest of them that holds a key.
LEMMA SearchedMems ==
    ASSUME IInv, NEW mems, mems = (IF Holds(delta) # {} THEN {delta} ELSE {}) \cup flushing
    PROVE  /\ Queued(mems)
           /\ \A k \in Keys : k \notin tombstones =>
                Get(k) = IF Holders(mems, k) # {} THEN MemValue(mems, k) ELSE SegValue(levels, k)
           /\ \A k \in tombstones : Get(k) = None
<1>1. /\ delta \in Mems /\ Queued(flushing) /\ Placed(levels)
      /\ Holds(delta) \cap tombstones = {} /\ tombstones \subseteq Keys
      /\ \A m \in flushing : m.id < delta.id
  BY DEF IInv, TypeInv, InSequence
<1>2. PICK active : active = IF Holds(delta) # {} THEN {delta} ELSE {}
  OBVIOUS
<1>3. Queued(flushing \cup {delta})
  BY <1>1, QueuedBehind
<1>4. mems = flushing \cup active /\ mems \subseteq flushing \cup {delta}
  BY <1>2
<1>5. Queued(mems)
  BY <1>3, <1>4, QueuedSubset
<1>6. ASSUME NEW k \in Keys, k \notin tombstones
      PROVE  Get(k) = IF Holders(mems, k) # {} THEN MemValue(mems, k) ELSE SegValue(levels, k)
  <2>1. Holders(active, k) = IF k \in Holds(delta) THEN {delta} ELSE {}
    BY <1>2, <1>6 DEF Holders
  <2>2. MemValue(flushing \cup active, k) =
            IF Holders(active, k) # {} THEN MemValue(active, k) ELSE MemValue(flushing, k)
    <3>1. \A o \in flushing, m \in active : o.id < m.id
      BY <1>1, <1>2
    <3>2. Queued(flushing \cup active)
      BY <1>4, <1>5
    <3> QED
      BY <3>1, <3>2, MemAppend
  <2>3. Holders(mems, k) = Holders(flushing, k) \cup Holders(active, k)
    BY <1>4 DEF Holders
  <2>4. CASE k \in Holds(delta)
    <3>1. delta \in Holders(active, k) /\ Queued(active) /\ \A m \in Holders(active, k) : m.id <= delta.id
      <4>1. delta.id \in Nat
        BY <1>1, MemType
      <4>2. active \subseteq flushing \cup {delta}
        BY <1>2
      <4> QED
        BY <1>3, <2>1, <2>4, <4>1, <4>2, QueuedSubset
    <3>2. MemValue(active, k) = delta.kv[k]
      BY <3>1, MemSingle
    <3> QED
      BY <1>4, <2>1, <2>2, <2>3, <2>4, <3>2 DEF Get
  <2>5. CASE k \notin Holds(delta)
    BY <1>4, <1>6, <2>1, <2>2, <2>3, <2>5 DEF Get
  <2> QED
    BY <2>4, <2>5
<1>7. \A k \in tombstones : Get(k) = None
  BY <1>1 DEF Get
<1> QED
  BY <1>5, <1>6, <1>7

LEMMA FoundOne ==
    ASSUME NEW k, NEW h, MemHits(k) = {h}, h.id \in Nat
    PROVE  Found(k) = h.kv[k]
<1>1. h.id <= h.id
  OBVIOUS
<1>2. Newest({h}) = h
  BY <1>1 DEF Newest
<1> QED
  BY <1>2 DEF Found

LEMMA FoundSeg ==
    ASSUME NEW k, NEW s, MemHits(k) = {}, SegHits(k) = {s}
    PROVE  Found(k) = s.kv[k]
<1>1. Freshest({s}) = s
  BY DEF Freshest
<1> QED
  BY <1>1 DEF Found

LEMMA FoundNone ==
    ASSUME NEW k, MemHits(k) = {}, SegHits(k) = {}
    PROVE  Found(k) = None
BY DEF Found

\* A key that is there all the while is found by a vector that it had.
LEMMA SureFinds ==
    ASSUME NEW k, Sure(k), None \notin search.had[k], Found(k) # None
    PROVE  Found(k) \in search.had[k]
<1>1. CASE MemHits(k) # {}
  <2>1. PICK h \in MemHits(k) : MemHits(k) = {h} /\ h.id \in Nat /\ h.kv[k] \in search.had[k]
    BY <1>1 DEF Sure
  <2> QED
    BY <2>1, FoundOne
<1>2. CASE MemHits(k) = {} /\ SegHits(k) # {}
  <2>1. PICK s \in SegHits(k) : SegHits(k) = {s} /\ s.kv[k] \in search.had[k]
    BY <1>2 DEF Sure
  <2> QED
    BY <1>2, <2>1, FoundSeg
<1>3. CASE MemHits(k) = {} /\ SegHits(k) = {}
  BY <1>3, FoundNone
<1> QED
  BY <1>1, <1>2, <1>3

\* The hits as the search begins.
LEMMA HitsAtBegin ==
    ASSUME IInv, Strict, NEW F \in Filters, NEW mems, Queued(mems), search'.mems = mems,
           search'.filter = F, search'.segs = levels, search'.tombs = tombstones,
           search'.hits = {Hits(m, F) : m \in mems}, NEW k \in Keys, NEW g,
           k \notin tombstones =>
               g = IF Holders(mems, k) # {} THEN MemValue(mems, k) ELSE SegValue(levels, k),
           k \in tombstones => g = None
    PROVE  Finds(k, g)'
<1>1. None \notin F /\ Placed(levels)
  BY StoreAssumption DEF IInv, TypeInv
<1> PICK hit, seg, shadow :
        hit = MemHits(k)' /\ seg = SegHits(k)' /\ shadow = ShadowedBy(k)'
  OBVIOUS
<1>2. shadow = Holders(mems, k)
  BY DEF ShadowedBy, Holders, Holds
<1>3. \A m : /\ Hits(m, F).id = m.id
             /\ Hits(m, F).kv[k] = IF k \notin tombstones /\ m.kv[k] \in F THEN m.kv[k] ELSE None
  BY DEF Hits
<1>4. \A h : h \in Holders(search.hits, k)' <=>
          \E m \in mems : h = Hits(m, F) /\ k \notin tombstones /\ m.kv[k] \in F
  BY <1>1, <1>3 DEF Holders, Holds
<1>5. \A h : h \in hit <=>
          \E m \in mems : /\ h = Hits(m, F) /\ k \notin tombstones /\ m.kv[k] \in F
                          /\ \A o \in Holders(mems, k) : o.id <= m.id
  BY <1>2, <1>3, <1>4 DEF MemHits
<1>6. \A s : s \in seg <=>
          /\ s \in Holders(levels, k) /\ k \notin tombstones /\ s.kv[k] \in F
          /\ Holders(mems, k) = {}
          /\ \A r \in Holders(levels, k) : ~Fresher(r, s)
  <2>1. Holders(search.segs, k)' = Holders(levels, k)
    BY DEF Holders, Holds
  <2> QED
    BY <1>2, <2>1 DEF SegHits, Fresher
<1>7. \A m \in mems : m.kv[k] \in F => m \in Holders(mems, k)
  BY <1>1, HoldersSubset
<1> SUFFICES \/ hit = {} /\ seg = {} /\ g \notin F
             \/ g \in F /\ \E h : hit = {h} /\ h.id \in Nat /\ h.kv[k] = g /\ seg = {}
             \/ g \in F /\ hit = {} /\ \E s : seg = {s} /\ s.kv[k] = g
  BY DEF Finds
<1>8. CASE k \in tombstones
  BY <1>1, <1>5, <1>6, <1>8
<1>9. CASE k \notin tombstones /\ Holders(mems, k) # {}
  <2>1. PICK n : n = Newest(Holders(mems, k))
    OBVIOUS
  <2>2. Queued(Holders(mems, k)) /\ Holders(mems, k) \subseteq mems
    BY HoldersSubset, QueuedSubset
  <2>3. n \in Holders(mems, k) /\ \A m \in Holders(mems, k) : m.id <= n.id
    BY <1>9, <2>1, <2>2, NewestIn
  <2>4. \A m \in Holders(mems, k) : m.id \in Nat /\ (m.id = n.id => m = n)
    BY <2>2, <2>3, MemType DEF Queued
  <2>5. g = n.kv[k]
    BY <1>9, <2>1 DEF MemValue
  <2>6. seg = {}
    BY <1>6, <1>9
  <2>7. \A m \in Holders(mems, k) : (\A o \in Holders(mems, k) : o.id <= m.id) => m = n
    <3> SUFFICES ASSUME NEW m \in Holders(mems, k), \A o \in Holders(mems, k) : o.id <= m.id
                 PROVE  m = n
      OBVIOUS
    <3>1. n.id <= m.id /\ m.id <= n.id /\ m.id \in Nat /\ n.id \in Nat
      BY <2>3, <2>4
    <3> QED
      BY <2>4, <3>1
  <2>8. \A h : h \in hit <=> h = Hits(n, F) /\ n.kv[k] \in F
    BY <1>5, <1>7, <1>9, <2>2, <2>3, <2>7
  <2>9. CASE n.kv[k] \in F
    <3>1. hit = {Hits(n, F)}
      BY <2>8, <2>9
    <3>2. Hits(n, F).id \in Nat /\ Hits(n, F).kv[k] = g
      BY <1>3, <1>9, <2>3, <2>4, <2>5, <2>9
    <3> QED
      BY <2>5, <2>6, <2>9, <3>1, <3>2
  <2>10. CASE n.kv[k] \notin F
    BY <2>5, <2>6, <2>8, <2>10
  <2> QED
    BY <2>9, <2>10
<1>10. CASE k \notin tombstones /\ Holders(mems, k) = {}
  <2>1. hit = {}
    BY <1>5, <1>7, <1>10
  <2>2. g = SegValue(levels, k)
    BY <1>10
  <2>3. CASE Holders(levels, k) = {}
    BY <1>1, <1>6, <2>1, <2>2, <2>3 DEF SegValue
  <2>4. CASE Holders(levels, k) # {}
    <3>1. PICK f : f = Freshest(Holders(levels, k))
      OBVIOUS
    <3>2. Placed(Holders(levels, k)) /\ Holders(levels, k) \subseteq levels
      BY <1>1, HoldersSubset, PlacedSubset
    <3>3. f \in Holders(levels, k) /\ \A r \in Holders(levels, k) : r = f \/ Fresher(f, r)
      BY <2>4, <3>1, <3>2, FreshestIn
    <3>4. g = f.kv[k]
      BY <2>2, <2>4, <3>1 DEF SegValue
    <3>5. \A r \in Holders(levels, k) : ~Fresher(r, f)
      BY <3>2, <3>3, FresherIsOrder
    <3>6. \A s : s \in seg <=> s = f /\ f.kv[k] \in F
      BY <1>6, <1>10, <3>3, <3>5
    <3>7. CASE f.kv[k] \in F
      <4>1. seg = {f}
        BY <3>6, <3>7
      <4> QED
        BY <2>1, <3>4, <3>7, <4>1
    <3>8. CASE f.kv[k] \notin F
      BY <2>1, <3>4, <3>6, <3>8
    <3> QED
      BY <3>7, <3>8
  <2> QED
    BY <2>3, <2>4
<1> QED
  BY <1>8, <1>9, <1>10

LEMMA SearchBeginStep ==
    ASSUME IInv, Strict, NEW F \in Filters, SearchBegin(F)
    PROVE  SearchInv'
<1>1. PICK mems : mems = (IF Holds(delta) # {} THEN {delta} ELSE {}) \cup flushing
  OBVIOUS
<1>2. /\ search' = [pc |-> "segments", filter |-> F, mems |-> mems, segs |-> levels,
                    tombs |-> tombstones, hits |-> {Hits(m, F) : m \in mems},
                    had |-> [k \in Keys |-> {Get(k)}], loose |-> {}]
      /\ UNCHANGED <<delta, nextId>>
  BY <1>1 DEF SearchBegin, store
<1>3. /\ search'.filter = F /\ search'.mems = mems /\ search'.tombs = tombstones
      /\ search'.segs = levels /\ search'.had = [k \in Keys |-> {Get(k)}]
      /\ search'.hits = {Hits(m, F) : m \in mems}
  BY <1>2
<1>4. DOMAIN search' = DOMAIN NoSearch
  BY <1>2 DEF NoSearch
<1>5. /\ Queued(mems)
      /\ \A k \in Keys : k \notin tombstones =>
            Get(k) = IF Holders(mems, k) # {} THEN MemValue(mems, k) ELSE SegValue(levels, k)
      /\ \A k \in tombstones : Get(k) = None
  BY <1>1, SearchedMems
<1>6. Pointed'
  <2>1. /\ \A m \in flushing : m.id \in Nat /\ 0 < m.id /\ m.id < delta.id
        /\ delta \in Mems /\ delta.id \in Nat /\ nextId \in Nat /\ delta.id < nextId
        /\ delta.id = 0 => delta = NoDelta
    BY MemType DEF IInv, TypeInv, InSequence, Queued
  <2>2. Holds(delta) # {} => 0 < delta.id
    BY <2>1, MemtableType DEF NoDelta
  <2>3. \A m \in flushing : m.id < nextId /\ m.id # delta.id
    BY <2>1
  <2>4. \A m \in mems : 0 < m.id /\ m.id \in Nat /\ m.id < nextId /\ (m.id = delta.id => m = delta)
    BY <1>1, <2>1, <2>2, <2>3
  <2> QED
    BY <1>2, <1>3, <2>4 DEF Pointed
<1>7. ASSUME NEW k \in Keys
      PROVE  Exact(k)' /\ Sure(k)'
  <2>1. PICK g : g = Get(k)
    OBVIOUS
  <2>2. search'.had[k] = {g}
    BY <1>3, <2>1
  <2>3. /\ k \notin tombstones =>
               g = IF Holders(mems, k) # {} THEN MemValue(mems, k) ELSE SegValue(levels, k)
        /\ k \in tombstones => g = None
    BY <1>5, <2>1
  <2>4. Finds(k, g)'
    BY <1>3, <1>5, <2>3, HitsAtBegin
  <2>5. Exact(k)'
    BY <2>2, <2>4 DEF Exact
  <2>6. Sure(k)'
    <3>1. CASE MemHits(k)' = {} /\ SegHits(k)' = {}
      BY <3>1 DEF Sure
    <3>2. CASE \E h : MemHits(k)' = {h} /\ h.id \in Nat /\ h.kv[k] = g /\ SegHits(k)' = {}
      BY <2>2, <3>2 DEF Sure
    <3>3. CASE MemHits(k)' = {} /\ \E s : SegHits(k)' = {s} /\ s.kv[k] = g
      BY <2>2, <3>3 DEF Sure
    <3> QED
      BY <2>4, <3>1, <3>2, <3>3 DEF Finds
  <2> QED
    BY <2>5, <2>6
<1> QED
  BY <1>4, <1>6, <1>7 DEF SearchInv

\* What a search finds of a key depends on which of its memtables have the key.
LEMMA HitsShrink ==
    ASSUME search'.hits = search.hits, search'.segs = search.segs,
           search'.tombs = search.tombs, search'.filter = search.filter, NEW k \in Keys,
           \A m \in ShadowedBy(k) : \E o \in ShadowedBy(k)' : o.id = m.id
    PROVE  MemHits(k)' \subseteq MemHits(k) /\ SegHits(k)' \subseteq SegHits(k)
<1>1. ShadowedBy(k)' = {} => ShadowedBy(k) = {}
  OBVIOUS
<1>2. Holders(search.hits, k)' = Holders(search.hits, k)
  BY DEF Holders, Holds
<1>3. Holders(search.segs, k)' = Holders(search.segs, k)
  BY DEF Holders, Holds
<1>4. MemHits(k)' = {h \in Holders(search.hits, k)' : \A o \in ShadowedBy(k)' : o.id <= h.id}
  BY DEF MemHits
<1>5. SegHits(k)' = {s \in Holders(search.segs, k)' :
          /\ k \notin search'.tombs
          /\ s.kv[k] \in search'.filter
          /\ ShadowedBy(k)' = {}
          /\ Strict => \A r \in Holders(search.segs, k)' : ~Fresher(r, s)}
  BY DEF SegHits, Fresher
<1>6. MemHits(k)' \subseteq MemHits(k)
  BY <1>2, <1>4 DEF MemHits
<1> QED
  BY <1>1, <1>3, <1>5, <1>6 DEF SegHits

LEMMA HitsStay ==
    ASSUME search'.hits = search.hits, search'.segs = search.segs,
           search'.tombs = search.tombs, search'.filter = search.filter, NEW k \in Keys,
           \A m \in ShadowedBy(k) : \E o \in ShadowedBy(k)' : o.id = m.id,
           \A o \in ShadowedBy(k)' : \E m \in ShadowedBy(k) : o.id = m.id
    PROVE  MemHits(k)' = MemHits(k) /\ SegHits(k)' = SegHits(k)
<1>1. ShadowedBy(k)' = {} <=> ShadowedBy(k) = {}
  OBVIOUS
<1>2. Holders(search.hits, k)' = Holders(search.hits, k)
  BY DEF Holders, Holds
<1>3. Holders(search.segs, k)' = Holders(search.segs, k)
  BY DEF Holders, Holds
<1>4. MemHits(k)' = {h \in Holders(search.hits, k)' : \A o \in ShadowedBy(k)' : o.id <= h.id}
  BY DEF MemHits
<1>5. SegHits(k)' = {s \in Holders(search.segs, k)' :
          /\ k \notin search'.tombs
          /\ s.kv[k] \in search'.filter
          /\ ShadowedBy(k)' = {}
          /\ Strict => \A r \in Holders(search.segs, k)' : ~Fresher(r, s)}
  BY DEF SegHits, Fresher
<1>6. MemHits(k)' = MemHits(k)
  <2>1. \A h : (\A o \in ShadowedBy(k)' : o.id <= h.id) <=> (\A o \in ShadowedBy(k) : o.id <= h.id)
    OBVIOUS
  <2> QED
    BY <2>1, <1>2, <1>4 DEF MemHits
<1> QED
  BY <1>1, <1>3, <1>5, <1>6 DEF SegHits

\* What a call does to a search under way.
LEMMA CalledSearch ==
    ASSUME DOMAIN search = DOMAIN NoSearch, NEW keys, NEW new, NEW d, NEW tombs, NEW what,
           Called(keys, new, d, tombs, what)
    PROVE  /\ DOMAIN search' = DOMAIN NoSearch /\ search'.pc = search.pc
           /\ search'.hits = search.hits /\ search'.segs = search.segs
           /\ search'.tombs = search.tombs /\ search'.filter = search.filter
           /\ search'.mems = {IF m.id = d.id THEN d ELSE m : m \in search.mems}
           /\ search.pc # "idle" => search'.loose = search.loose \cup keys
           /\ \A k \in Keys : search'.had[k] =
                 IF search.pc # "idle" /\ k \in keys THEN search.had[k] \cup {new[k]}
                 ELSE search.had[k]
           /\ delta' = d
<1>1. DOMAIN search = {"pc", "filter", "mems", "hits", "segs", "tombs", "had", "loose"}
  BY DEF NoSearch
<1>2. PICK s : s = Noticed(search, keys, new)
  OBVIOUS
<1>3. /\ DOMAIN s = DOMAIN search /\ s.pc = search.pc /\ s.hits = search.hits
      /\ s.segs = search.segs /\ s.tombs = search.tombs /\ s.filter = search.filter
      /\ s.mems = search.mems /\ s.loose = search.loose
      /\ \A k \in Keys : s.had[k] =
            IF search.pc # "idle" /\ k \in keys THEN search.had[k] \cup {new[k]}
            ELSE search.had[k]
  BY <1>1, <1>2 DEF Noticed
<1>4. PICK r : r = Loosened(s, keys)
  OBVIOUS
<1>5. /\ DOMAIN r = DOMAIN search /\ r.pc = search.pc /\ r.hits = search.hits
      /\ r.segs = search.segs /\ r.tombs = search.tombs /\ r.filter = search.filter
      /\ r.mems = search.mems /\ r.had = s.had
      /\ search.pc # "idle" => r.loose = search.loose \cup keys
  BY <1>1, <1>3, <1>4 DEF Loosened
<1>6. search' = [r EXCEPT !.mems = {IF m.id = d.id THEN d ELSE m : m \in @}] /\ delta' = d
  BY <1>2, <1>4 DEF Called
<1> QED
  BY <1>1, <1>3, <1>5, <1>6

\* A call that leaves the other keys of the active memtable alone, and takes a key out of
\* it only for a moment in which the key is not there.
LEMMA CallSearch ==
    ASSUME SearchInv, NEW keys, NEW new, NEW d, NEW tombs, NEW what,
           Called(keys, new, d, tombs, what), nextId \in Nat, nextId' \in Nat, nextId <= nextId',
           d.id \in Nat, d.id = delta.id \/ d.id = 0 \/ d.id >= nextId,
           d.id = delta.id => \A k \in Keys :
               /\ k \notin keys => d.kv[k] = delta.kv[k]
               /\ k \in keys => new[k] = None \/ k \in Holds(d)
    PROVE  SearchInv'
<1>1. /\ DOMAIN search' = DOMAIN NoSearch /\ search'.pc = search.pc
      /\ search'.hits = search.hits /\ search'.segs = search.segs
      /\ search'.tombs = search.tombs /\ search'.filter = search.filter
      /\ search'.mems = {IF m.id = d.id THEN d ELSE m : m \in search.mems}
      /\ search.pc # "idle" => search'.loose = search.loose \cup keys
      /\ \A k \in Keys : search'.had[k] =
            IF search.pc # "idle" /\ k \in keys THEN search.had[k] \cup {new[k]}
            ELSE search.had[k]
      /\ delta' = d
  BY CalledSearch DEF SearchInv
<1> SUFFICES ASSUME search.pc = "segments" PROVE Pointed' /\ \A k \in Keys : (Exact(k) /\ Sure(k))'
  BY <1>1 DEF SearchInv
<1>2. /\ \A m \in search.mems : 0 < m.id /\ m.id \in Nat /\ m.id < nextId
                                /\ (m.id = delta.id => m = delta)
      /\ \A k \in Keys : Exact(k) /\ Sure(k)
  BY DEF SearchInv, Pointed
<1>3. \A m \in search.mems : m.id = d.id => m = delta /\ d.id = delta.id
  BY <1>2
<1>4. Pointed'
  <2> SUFFICES ASSUME NEW o \in search'.mems
               PROVE  0 < o.id /\ o.id \in Nat /\ o.id < nextId' /\ (o.id = delta'.id => o = delta')
    BY DEF Pointed
  <2>1. PICK m \in search.mems : o = IF m.id = d.id THEN d ELSE m
    BY <1>1
  <2>2. o.id = m.id /\ 0 < m.id /\ m.id \in Nat /\ m.id < nextId'
    BY <1>2, <2>1
  <2> QED
    BY <1>1, <2>1, <2>2
<1>5. ASSUME NEW k \in Keys
      PROVE  (Exact(k) /\ Sure(k))'
  <2>1. ShadowedBy(k) = {m \in search.mems : m.kv[k] # None}
    BY DEF ShadowedBy, Holders, Holds
  <2>2. ShadowedBy(k)' = {o \in search'.mems : o.kv[k] # None}
    BY DEF ShadowedBy, Holders, Holds
  <2>3. CASE k \notin keys
    <3>1. \A m \in search.mems : m.id = d.id => d.kv[k] = m.kv[k]
      BY <1>3, <2>3
    <3>2. \A m \in ShadowedBy(k) : \E o \in ShadowedBy(k)' : o.id = m.id
      <4> TAKE m \in ShadowedBy(k)
      <4>1. PICK o : o = IF m.id = d.id THEN d ELSE m
        OBVIOUS
      <4>2. o \in search'.mems /\ o.kv[k] # None /\ o.id = m.id
        BY <1>1, <2>1, <3>1, <4>1
      <4> QED
        BY <2>2, <4>2
    <3>3. \A o \in ShadowedBy(k)' : \E m \in ShadowedBy(k) : o.id = m.id
      <4> TAKE o \in ShadowedBy(k)'
      <4>1. PICK m \in search.mems : o = IF m.id = d.id THEN d ELSE m
        BY <1>1, <2>2
      <4>2. m.kv[k] # None /\ o.id = m.id
        BY <2>2, <3>1, <4>1
      <4> QED
        BY <2>1, <4>2
    <3>4. MemHits(k)' = MemHits(k) /\ SegHits(k)' = SegHits(k)
      BY <1>1, <3>2, <3>3, HitsStay
    <3>5. search'.had[k] = search.had[k] /\ (k \in search'.loose <=> k \in search.loose)
      BY <1>1, <2>3
    <3>6. \A g : Finds(k, g) => Finds(k, g)'
      BY <1>1, <3>4 DEF Finds
    <3>7. Exact(k)'
      BY <1>2, <3>5, <3>6 DEF Exact
    <3>8. Sure(k)'
      BY <1>2, <3>4, <3>5 DEF Sure
    <3> QED
      BY <3>7, <3>8
  <2>4. CASE k \in keys
    <3>1. Exact(k)'
      BY <1>1, <2>4 DEF Exact
    <3>2. search'.had[k] = search.had[k] \cup {new[k]}
      BY <1>1, <2>4
    <3>3. CASE new[k] = None
      BY <3>1, <3>2, <3>3 DEF Sure
    <3>4. CASE new[k] # None
      <4>1. \A m \in search.mems : m.id = d.id => d.kv[k] # None
        BY <1>3, <2>4, <3>4 DEF Holds
      <4>2. \A m \in ShadowedBy(k) : \E o \in ShadowedBy(k)' : o.id = m.id
        <5> TAKE m \in ShadowedBy(k)
        <5>1. PICK o : o = IF m.id = d.id THEN d ELSE m
          OBVIOUS
        <5>2. o \in search'.mems /\ o.kv[k] # None /\ o.id = m.id
          BY <1>1, <2>1, <4>1, <5>1
        <5> QED
          BY <2>2, <5>2
      <4>3. MemHits(k)' \subseteq MemHits(k) /\ SegHits(k)' \subseteq SegHits(k)
        BY <1>1, <4>2, HitsShrink
      <4>4. Sure(k)'
        BY <1>2, <3>2, <4>3 DEF Sure
      <4> QED
        BY <3>1, <4>4
    <3> QED
      BY <3>3, <3>4
  <2> QED
    BY <2>3, <2>4
<1> QED
  BY <1>4, <1>5

\* Of the other steps only a swap changes what the search and the store share.
LEMMA SearchKept ==
    ASSUME SearchInv, UNCHANGED search \/ search' = NoSearch,
           UNCHANGED <<delta, nextId>> \/ (delta'.id = nextId /\ nextId' = nextId + 1),
           nextId \in Nat
    PROVE  SearchInv'
<1>1. CASE UNCHANGED search
  <2>1. \A k \in Keys : MemHits(k)' = MemHits(k) /\ SegHits(k)' = SegHits(k)
    <3> TAKE k \in Keys
    <3>1. ShadowedBy(k)' = ShadowedBy(k)
      BY <1>1 DEF ShadowedBy, Holders, Holds
    <3> QED
      BY <1>1, <3>1, HitsStay DEF ShadowedBy
  <2>2. \A k \in Keys : \A g : Finds(k, g) => Finds(k, g)'
    BY <1>1, <2>1 DEF Finds
  <2>3. \A k \in Keys : Exact(k) => Exact(k)'
    BY <1>1, <2>2 DEF Exact
  <2>4. \A k \in Keys : Sure(k) => Sure(k)'
    BY <1>1, <2>1 DEF Sure
  <2>5. Pointed => Pointed'
    BY <1>1 DEF Pointed
  <2> QED
    BY <1>1, <2>3, <2>4, <2>5 DEF SearchInv
<1>2. CASE search' = NoSearch
  BY <1>2 DEF SearchInv, NoSearch
<1> QED
  BY <1>1, <1>2

LEMMA SearchStep ==
    ASSUME IInv, SearchInv, Strict, [Next]_vars
    PROVE  SearchInv'
<1>1. /\ delta \in Mems /\ delta.id \in Nat /\ nextId \in Nat /\ delta.id < nextId
      /\ \A k \in Keys : delta.kv[k] \in Maybe(Values)
  BY MemType DEF IInv, TypeInv, InSequence, KVs, Mems
<1>2. ASSUME NEW k \in Keys, NEW v \in Values, Add(k, v)
      PROVE  SearchInv'
  <2>1. PICK old : old = IF HasDelta THEN delta ELSE Memtable(nextId)
    OBVIOUS
  <2>2. PICK d : d = [old EXCEPT !.kv[k] = v, !.slots = IF k \notin Holds(old) THEN @ + 1 ELSE @]
    OBVIOUS
  <2>3. PICK new : new = [View EXCEPT ![k] = v]
    OBVIOUS
  <2>4. Called({k}, new, d, removeTombstone(k), <<"Add">>)
    BY <1>2, <2>1, <2>2, <2>3 DEF Add
  <2>5. nextId' = IF HasDelta THEN nextId ELSE nextId + 1
    BY <1>2 DEF Add
  <2>6. old \in Mems /\ old.id = IF HasDelta THEN delta.id ELSE nextId
    BY <1>1, <2>1, MemtableType
  <2>7. d.id = old.id /\ \A j \in Keys : d.kv[j] = IF j = k THEN v ELSE old.kv[j]
    BY <2>2, <2>6 DEF Mems, KVs
  <2>8. v # None
    BY StoreAssumption
  <2>9. k \in Holds(d)
    BY <2>7, <2>8 DEF Holds
  <2>10. d.id = delta.id => HasDelta /\ old = delta
    BY <1>1, <2>1, <2>6, <2>7
  <2>11. d.id = delta.id => \A j \in Keys :
             /\ j \notin {k} => d.kv[j] = delta.kv[j]
             /\ j \in {k} => new[j] = None \/ j \in Holds(d)
    BY <2>7, <2>9, <2>10
  <2>12. d.id \in Nat /\ (d.id = delta.id \/ d.id = 0 \/ d.id >= nextId)
    BY <1>1, <2>6, <2>7
  <2>13. nextId' \in Nat /\ nextId <= nextId'
    BY <1>1, <2>5
  <2> QED
    BY <1>1, <2>4, <2>11, <2>12, <2>13, CallSearch
<1>3. ASSUME NEW k \in Keys, Delete(k)
      PROVE  SearchInv'
  <2>1. PICK d : d = [delta EXCEPT !.kv[k] = None]
    OBVIOUS
  <2>2. PICK new : new = [View EXCEPT ![k] = None]
    OBVIOUS
  <2>3. \E tombs, what : Called({k}, new, d, tombs, what)
    BY <1>3, <2>1, <2>2 DEF Delete
  <2>4. nextId' = nextId
    BY <1>3 DEF Delete
  <2>5. d.id = delta.id /\ \A j \in Keys : j # k => d.kv[j] = delta.kv[j]
    BY <1>1, <2>1 DEF Mems, KVs
  <2>6. new[k] = None
    BY <2>2 DEF View
  <2>7. \A j \in Keys :
             /\ j \notin {k} => d.kv[j] = delta.kv[j]
             /\ j \in {k} => new[j] = None \/ j \in Holds(d)
    BY <2>5, <2>6
  <2> QED
    BY <1>1, <2>3, <2>4, <2>5, <2>7, CallSearch
<1>4. ASSUME Clear
      PROVE  SearchInv'
  <2>1. PICK d : d = NoDelta
    OBVIOUS
  <2>2. Called(Keys, Nothing, d, {}, <<"Clear">>) /\ nextId' = nextId
    BY <1>4, <2>1 DEF Clear
  <2>3. d.id = 0 /\ \A k \in Keys : Nothing[k] = None
    BY <2>1, NothingType, MemtableType DEF NoDelta
  <2> QED
    BY <1>1, <2>2, <2>3, CallSearch
<1>5. CASE \E F \in Filters : SearchBegin(F)
  BY <1>5, SearchBeginStep
<1>6. CASE SearchEnd
  <2>1. search' = NoSearch /\ UNCHANGED <<delta, nextId>>
    BY <1>6 DEF SearchEnd, store
  <2> QED
    BY <1>1, <2>1, SearchKept
<1>7. CASE Swap
  <2>1. UNCHANGED search /\ (UNCHANGED <<delta, nextId>> \/ (delta'.id = nextId /\ nextId' = nextId + 1))
    BY <1>1, <1>7, MemtableType DEF Swap
  <2> QED
    BY <1>1, <2>1, SearchKept
<1>8. CASE CompactSignal \/ MaybeScheduleMerges \/ HandleIdleTick
           \/ FlushDeltaSync \/ WakeUp \/ SaveBinary \/ UNCHANGED vars
  <2>1. UNCHANGED <<search, delta, nextId>>
    BY <1>8 DEF CompactSignal, MaybeScheduleMerges, HandleIdleTick, FlushDeltaSync, WakeUp,
                SaveBinary, vars, store
  <2> QED
    BY <1>1, <2>1, SearchKept
<1>9. CASE \/ \E t \in merges : MergeSegments(t)
           \/ \E b \in builds : ApplyFlush(b)
           \/ \E t \in merges : ApplyMerge(t)
  <2>1. UNCHANGED <<search, delta, nextId>>
    BY <1>9 DEF MergeSegments, ApplyFlush, ApplyMerge, store
  <2> QED
    BY <1>1, <2>1, SearchKept
<1> QED
  BY <1>2, <1>3, <1>4, <1>5, <1>6, <1>7, <1>8, <1>9 DEF Next

\* What is found of a key that has one vector all the while.
LEMMA ExactFinds ==
    ASSUME NEW k, Exact(k), k \notin search.loose
    PROVE  {Found(k)} = IF search.had[k] \subseteq search.filter THEN search.had[k] ELSE {None}
<1>1. PICK g : search.had[k] = {g} /\ Finds(k, g)
  BY DEF Exact
<1>2. Found(k) = IF g \in search.filter THEN g ELSE None
  <2>1. CASE g \notin search.filter /\ MemHits(k) = {} /\ SegHits(k) = {}
    BY <2>1, FoundNone
  <2>2. CASE g \in search.filter /\ \E h : MemHits(k) = {h} /\ h.id \in Nat /\ h.kv[k] = g
    BY <2>2, FoundOne
  <2>3. CASE g \in search.filter /\ MemHits(k) = {} /\ \E s : SegHits(k) = {s} /\ s.kv[k] = g
    BY <2>3, FoundSeg
  <2> QED
    BY <1>1, <2>1, <2>2, <2>3 DEF Finds
<1> QED
  BY <1>1, <1>2

\* A search finds each key that is not written while it runs by its vector, if that passes the
\* filter, and no other; and a key that is there all the while by a vector of that time: whatever
\* is written, swapped, flushed and merged between its two halves (Search, StrictSegShadow).
THEOREM SearchesFindTheMap ==
    ASSUME Strict
    PROVE  Spec => SearchFinds
<1>1. Init => SearchInv
  BY DEF Init, SearchInv, NoSearch
<1>2. IInv /\ SearchInv /\ [Next]_vars => SearchInv'
  BY SearchStep
<1>3. SearchInv =>
        (search.pc = "segments" /\ search'.pc = "idle" =>
            \A k \in Keys :
                LET had == search.had[k] IN
                /\ k \notin search.loose =>
                      {Found(k)} = IF had \subseteq search.filter THEN had ELSE {None}
                /\ None \notin had /\ Found(k) # None => Found(k) \in had)
  <2> SUFFICES ASSUME SearchInv, search.pc = "segments", NEW k \in Keys
               PROVE  /\ k \notin search.loose =>
                            {Found(k)} = IF search.had[k] \subseteq search.filter
                                         THEN search.had[k] ELSE {None}
                      /\ None \notin search.had[k] /\ Found(k) # None =>
                            Found(k) \in search.had[k]
    OBVIOUS
  <2>1. Exact(k) /\ Sure(k)
    BY DEF SearchInv
  <2> QED
    BY <2>1, ExactFinds, SureFinds
<1> QED
  BY <1>1, <1>2, <1>3, InvariantHolds, PTL DEF Spec, SearchFinds

(***************************************************************************)
(* Snapshots                                                               *)
(***************************************************************************)
\* The memtables that FlushDeltaSync waits for: the active one, and those in flushing.
Ids == sync.pending \cup ({sync.target} \ {0})
ActiveAwaited == sync.target # 0 /\ sync.target = delta.id
Awaited == {m \in flushing : m.id \in Ids}

\* What LoadBinary would get if only these were flushed.
WillLoad(k) ==
    IF k \in tombstones THEN None
    ELSE IF ActiveAwaited /\ k \in Holds(delta) THEN delta.kv[k]
    ELSE IF Holders(Awaited, k) # {} THEN MemValue(Awaited, k)
    ELSE SegValue(levels, k)

\* Memtables come after those that are waited for, or are among them.
Behind ==
    /\ Ids \subseteq Nat /\ \A i \in Ids : i < nextId
    /\ \A m \in flushing : m \in Awaited \/ \A i \in Ids : i < m.id
    /\ ActiveAwaited \/ delta.id = 0 \/ \A i \in Ids : i < delta.id

\* What came later was written since FlushDeltaSync was called.
WrittenSince ==
    /\ \A m \in flushing \ Awaited : \A k \in Holds(m) : m.kv[k] \in sync.had[k]
    /\ ActiveAwaited \/ \A k \in Holds(delta) : delta.kv[k] \in sync.had[k]

\* No merge takes away what a memtable that came later has put back.
OverlaidThen(t, k) ==
    \/ k \in tombstones
    \/ ActiveAwaited /\ k \in Holds(delta)
    \/ Holders(Awaited, k) # {}
    \/ Topped(t, k)

SyncInv ==
    /\ DOMAIN sync = DOMAIN NoSync
    /\ sync.pc # "idle" =>
        /\ Behind /\ WrittenSince /\ torn \subseteq sync.loose
        /\ \A k \in Keys \ sync.loose : WillLoad(k) \in sync.had[k]
        /\ \A t \in merges : t.epoch = epoch =>
               \A k \in t.applied \ sync.loose : OverlaidThen(t, k)
    /\ sync.pc = "flushed" => ~ActiveAwaited /\ Awaited = {}

SameSync ==
    /\ DOMAIN sync' = DOMAIN NoSync
    /\ sync'.target = sync.target /\ sync'.pending = sync.pending
    /\ sync'.had = sync.had /\ sync'.loose = sync.loose

\* Get by the memtables that are waited for: as Get, but for what came later.
LEMMA BehindIs ==
    ASSUME Behind
    PROVE  /\ \A i \in Ids : i \in Nat /\ i < nextId
           /\ \A m \in flushing : m \in Awaited <=> m.id \in Ids
           /\ sync.target # 0 => sync.target \in Ids
BY DEF Behind, Ids, Awaited

\* A call writes to the active memtable.
LEMMA WriteSync ==
    ASSUME IInv, SyncInv, sync.pc # "idle", NEW k \in Keys, NEW v \in Maybe(Values),
           UNCHANGED <<flushing, levels, epoch, merges>>,
           \A j \in Keys : delta'.kv[j] = IF j = k THEN v ELSE delta.kv[j],
           delta'.id = delta.id \/ (delta = NoDelta /\ delta'.id = nextId),
           nextId' \in Nat, nextId <= nextId',
           \A j \in Keys : j # k => (j \in tombstones' <=> j \in tombstones),
           DOMAIN sync' = DOMAIN NoSync, sync'.pc = sync.pc,
           sync'.target = sync.target, sync'.pending = sync.pending,
           \A j \in Keys : sync.had[j] \subseteq sync'.had[j], v \in sync'.had[k],
           torn' \subseteq sync'.loose, sync.loose \subseteq sync'.loose,
           \/ k \in sync'.loose
           \/ v # None /\ k \notin tombstones /\ k \notin tombstones'
           \/ v = None /\ k \in tombstones'
           \/ v = None /\ k \notin tombstones' /\ ~HasCopy(k)
    PROVE  SyncInv'
<1>1. /\ Behind /\ WrittenSince /\ \A j \in Keys \ sync.loose : WillLoad(j) \in sync.had[j]
      /\ \A t \in merges : t.epoch = epoch => \A j \in t.applied \ sync.loose : OverlaidThen(t, j)
      /\ sync.pc = "flushed" => ~ActiveAwaited /\ Awaited = {}
  BY DEF SyncInv
<1>2. /\ \A i \in Ids : i \in Nat /\ i < nextId
      /\ sync.target # 0 => sync.target \in Ids
      /\ nextId \in Nat
  BY <1>1, BehindIs DEF IInv, TypeInv
<1>3. Ids' = Ids /\ Awaited' = Awaited
  BY DEF Ids, Awaited
<1>4. ActiveAwaited' <=> ActiveAwaited
  <2>1. CASE delta'.id = delta.id
    BY <2>1 DEF ActiveAwaited
  <2>2. CASE delta = NoDelta /\ delta'.id = nextId
    <3>1. delta.id = 0
      BY <2>2 DEF NoDelta, Memtable
    <3>2. ~ActiveAwaited
      BY <3>1 DEF ActiveAwaited
    <3>3. ~ActiveAwaited'
      BY <1>2, <2>2 DEF ActiveAwaited
    <3> QED
      BY <3>2, <3>3
  <2> QED
    BY <2>1, <2>2
<1>5. Behind'
  <2>1. ActiveAwaited \/ delta'.id = 0 \/ \A i \in Ids : i < delta'.id
    BY <1>1, <1>2 DEF Behind
  <2>2. \A i \in Ids : i < nextId'
    BY <1>2
  <2> QED
    BY <1>1, <1>3, <1>4, <2>1, <2>2 DEF Behind
<1>6. \A j \in Keys : j \in Holds(delta') <=> IF j = k THEN v # None ELSE j \in Holds(delta)
  BY DEF Holds
<1>7. WrittenSince'
  <2>1. ASSUME NEW m \in flushing \ Awaited, NEW j \in Holds(m)
        PROVE  m.kv[j] \in sync'.had[j]
    BY <1>1, <2>1 DEF WrittenSince, Holds
  <2>2. ASSUME ~ActiveAwaited, NEW j \in Holds(delta')
        PROVE  delta'.kv[j] \in sync'.had[j]
    <3>1. j \in Keys
      BY DEF Holds
    <3>2. CASE j = k
      BY <3>1, <3>2
    <3>3. CASE j # k
      BY <1>1, <1>6, <2>2, <3>1, <3>3 DEF WrittenSince
    <3> QED
      BY <3>2, <3>3
  <2>3. \A m : Holds(m)' = Holds(m)
    BY DEF Holds
  <2>4. \A m \in flushing' \ Awaited' : \A j \in Holds(m) : m.kv[j] \in sync'.had[j]
    BY <1>3, <2>1
  <2>5. Holds(delta)' = Holds(delta')
    BY DEF Holds
  <2> QED
    BY <1>4, <2>2, <2>3, <2>4, <2>5 DEF WrittenSince
<1>8. \A j \in Keys : WillLoad(j)' =
        IF j \in tombstones' THEN None
        ELSE IF ActiveAwaited /\ j \in Holds(delta') THEN delta'.kv[j]
        ELSE IF Holders(Awaited, j) # {} THEN MemValue(Awaited, j)
        ELSE SegValue(levels, j)
  <2>1. \A j \in Keys : /\ Holders(Awaited, j)' = Holders(Awaited, j)
                        /\ Holders(levels, j)' = Holders(levels, j)
    BY <1>3 DEF Holders, Holds
  <2>2. ASSUME NEW j \in Keys PROVE MemValue(Awaited, j)' = MemValue(Awaited, j)
    <3>1. Newest(Holders(Awaited, j))' = Newest(Holders(Awaited, j))
      BY <2>1 DEF Newest
    <3> QED
      BY <2>1, <3>1 DEF MemValue
  <2>3. \A j \in Keys : SegValue(levels, j)' = SegValue(levels, j)
    BY <2>1 DEF SegValue, Freshest, Fresher
  <2>4. \A j \in Keys : j \in Holds(delta)' <=> j \in Holds(delta')
    BY DEF Holds
  <2> QED
    BY <1>4, <2>1, <2>2, <2>3, <2>4 DEF WillLoad
<1>9. ASSUME NEW j \in Keys \ sync'.loose
      PROVE  WillLoad(j)' \in sync'.had[j]
  <2>1. WillLoad(j) \in sync.had[j]
    BY <1>1
  <2>2. CASE j # k
    <3>1. WillLoad(j)' = WillLoad(j)
      BY <1>6, <1>8, <2>2 DEF WillLoad
    <3> QED
      BY <2>1, <3>1
  <2>3. CASE j = k /\ v # None /\ k \notin tombstones /\ k \notin tombstones'
    <3>1. CASE ActiveAwaited
      BY <1>6, <1>8, <2>3, <3>1
    <3>2. CASE ~ActiveAwaited
      <4>1. WillLoad(j)' = WillLoad(j)
        BY <1>8, <2>3, <3>2 DEF WillLoad
      <4> QED
        BY <2>1, <4>1
    <3> QED
      BY <3>1, <3>2
  <2>4. CASE j = k /\ v = None /\ k \in tombstones'
    BY <1>8, <2>4
  <2>5. CASE j = k /\ v = None /\ k \notin tombstones' /\ ~HasCopy(k)
    <3>1. Holders(Awaited, k) = {} /\ SegValue(levels, k) = None
      BY <2>5 DEF HasCopy, Holders, Awaited, SegValue
    <3> QED
      BY <1>6, <1>8, <2>5, <3>1
  <2> QED
    BY <2>2, <2>3, <2>4, <2>5
<1>10. ASSUME NEW t \in merges, t.epoch = epoch, NEW j \in t.applied \ sync'.loose
       PROVE  OverlaidThen(t, j)'
  <2>1. OverlaidThen(t, j) /\ j \in Keys
    BY <1>1, <1>10 DEF IInv, TypeInv, Tasks
  <2>2. HasCopy(j)
    <3>1. Holders(t.segs, j) # {} /\ t.segs \subseteq levels
      BY <1>10, <2>1 DEF IInv, TasksMatch, Merged, Fits
    <3> QED
      BY <3>1 DEF HasCopy, Holders
  <2>3. CASE j = k /\ v = None
    BY <2>2, <2>3 DEF OverlaidThen
  <2>4. CASE j # k \/ v # None
    <3>1. j \in tombstones => j \in tombstones'
      BY <2>1, <2>4
    <3>2. j \in Holds(delta) => j \in Holds(delta)'
      BY <1>6, <2>1, <2>4 DEF Holds
    <3>3. Holders(Awaited, j)' = Holders(Awaited, j) /\ Topped(t, j)' = Topped(t, j)
      BY <1>3 DEF Holders, Holds, Topped, Above, Fresher
    <3> QED
      BY <1>4, <2>1, <3>1, <3>2, <3>3 DEF OverlaidThen
  <2> QED
    BY <2>3, <2>4
<1> QED
  BY <1>1, <1>3, <1>4, <1>5, <1>7, <1>9, <1>10 DEF SyncInv

LEMMA CalledSync ==
    ASSUME DOMAIN sync = DOMAIN NoSync, NEW keys, NEW new, NEW d, NEW tombs, NEW what,
           Called(keys, new, d, tombs, what)
    PROVE  /\ DOMAIN sync' = DOMAIN NoSync /\ sync'.pc = sync.pc
           /\ sync'.target = sync.target /\ sync'.pending = sync.pending
           /\ sync.pc # "idle" =>
                 /\ sync'.loose = sync.loose \cup (tombstones \ tombs)
                 /\ \A j \in Keys : sync'.had[j] =
                       IF j \in keys THEN sync.had[j] \cup {new[j]} ELSE sync.had[j]
           /\ delta' = d /\ tombstones' = tombs /\ torn' = torn \ keys
<1>1. DOMAIN sync = {"pc", "target", "pending", "had", "loose"}
  BY DEF NoSync
<1>2. PICK s : s = Noticed(sync, keys, new)
  OBVIOUS
<1>3. /\ DOMAIN s = DOMAIN sync /\ s.pc = sync.pc /\ s.target = sync.target
      /\ s.pending = sync.pending /\ s.loose = sync.loose
      /\ \A j \in Keys : s.had[j] =
            IF sync.pc # "idle" /\ j \in keys THEN sync.had[j] \cup {new[j]} ELSE sync.had[j]
  BY <1>1, <1>2 DEF Noticed
<1>4. sync' = Loosened(s, tombstones \ tombs)
  BY <1>2 DEF Called
<1>5. /\ DOMAIN sync' = DOMAIN sync /\ sync'.pc = s.pc /\ sync'.target = s.target
      /\ sync'.pending = s.pending /\ sync'.had = s.had
      /\ sync.pc # "idle" => sync'.loose = sync.loose \cup (tombstones \ tombs)
  BY <1>1, <1>3, <1>4 DEF Loosened
<1>6. delta' = d /\ tombstones' = tombs /\ torn' = torn \ keys
  BY DEF Called
<1> QED
  BY <1>1, <1>3, <1>5, <1>6

LEMMA IdleSync ==
    ASSUME DOMAIN sync' = DOMAIN NoSync, sync'.pc = "idle"
    PROVE  SyncInv'
BY DEF SyncInv

LEMMA AddSync ==
    ASSUME IInv, SyncInv, NEW k \in Keys, NEW v \in Values, Add(k, v)
    PROVE  SyncInv'
<1>1. PICK old : old = IF HasDelta THEN delta ELSE Memtable(nextId)
  OBVIOUS
<1>2. PICK d : d = [old EXCEPT !.kv[k] = v, !.slots = IF k \notin Holds(old) THEN @ + 1 ELSE @]
  OBVIOUS
<1>3. PICK new, tombs : new = [View EXCEPT ![k] = v] /\ tombs = tombstones \ {k}
  OBVIOUS
<1>4. /\ Called({k}, new, d, tombs, <<"Add">>)
      /\ nextId' = (IF HasDelta THEN nextId ELSE nextId + 1)
      /\ UNCHANGED <<flushing, levels, epoch, merges>>
  BY <1>1, <1>2, <1>3 DEF Add, removeTombstone, work
<1>5. delta \in Mems /\ nextId \in Nat /\ Memtable(nextId) \in Mems
  BY MemtableType DEF IInv, TypeInv
<1>6. /\ old \in Mems /\ old.kv = delta.kv
      /\ old.id = delta.id \/ (delta = NoDelta /\ old.id = nextId)
  BY <1>1, <1>5 DEF HasDelta, NoDelta, Memtable
<1>7. d.id = old.id /\ \A j \in Keys : d.kv[j] = IF j = k THEN v ELSE old.kv[j]
  BY <1>2, <1>6 DEF Mems, KVs
<1>8. /\ DOMAIN sync' = DOMAIN NoSync /\ sync'.pc = sync.pc
      /\ sync'.target = sync.target /\ sync'.pending = sync.pending
      /\ sync.pc # "idle" =>
            /\ sync'.loose = sync.loose \cup (tombstones \ tombs)
            /\ \A j \in Keys : sync'.had[j] =
                  IF j \in {k} THEN sync.had[j] \cup {new[j]} ELSE sync.had[j]
      /\ delta' = d /\ tombstones' = tombs /\ torn' = torn \ {k}
  BY <1>4, CalledSync DEF SyncInv
<1>9. CASE sync.pc = "idle"
  BY <1>8, <1>9, IdleSync
<1>10. CASE sync.pc # "idle"
  <2>1. \A j \in Keys : sync.had[j] \subseteq sync'.had[j]
    BY <1>8, <1>10
  <2>2. v \in sync'.had[k]
    BY <1>3, <1>8, <1>10 DEF View
  <2>3. v # None /\ v \in Maybe(Values) /\ k \notin tombstones'
    BY <1>3, <1>8, StoreAssumption DEF Maybe
  <2>4. k \in sync'.loose \/ k \notin tombstones
    BY <1>3, <1>8, <1>10
  <2>5. torn' \subseteq sync'.loose /\ sync.loose \subseteq sync'.loose
    BY <1>8, <1>10 DEF SyncInv
  <2>6. nextId' \in Nat /\ nextId <= nextId'
    BY <1>4, <1>5
  <2>7. /\ \A j \in Keys : delta'.kv[j] = IF j = k THEN v ELSE delta.kv[j]
        /\ delta'.id = delta.id \/ (delta = NoDelta /\ delta'.id = nextId)
    BY <1>6, <1>7, <1>8
  <2>8. \A j \in Keys : j # k => (j \in tombstones' <=> j \in tombstones)
    BY <1>3, <1>8
  <2> QED
    BY <1>4, <1>8, <1>10, <2>1, <2>2, <2>3, <2>4, <2>5, <2>6, <2>7, <2>8, WriteSync
<1> QED
  BY <1>9, <1>10

LEMMA DeleteSync ==
    ASSUME IInv, SyncInv, NEW k \in Keys, Delete(k)
    PROVE  SyncInv'
<1>1. PICK d : d = [delta EXCEPT !.kv[k] = None]
  OBVIOUS
<1>2. PICK new, tombs : /\ new = [View EXCEPT ![k] = None]
                        /\ tombs = IF HasCopy(k) THEN tombstones \cup {k} ELSE tombstones \ {k}
  OBVIOUS
<1>3. /\ \E what : Called({k}, new, d, tombs, what)
      /\ UNCHANGED <<flushing, levels, epoch, merges, nextId>>
  BY <1>1, <1>2 DEF Delete, removeTombstone, work
<1>4. delta \in Mems /\ nextId \in Nat
  BY DEF IInv, TypeInv
<1>5. d.id = delta.id /\ \A j \in Keys : d.kv[j] = IF j = k THEN None ELSE delta.kv[j]
  BY <1>1, <1>4 DEF Mems, KVs
<1>6. /\ DOMAIN sync' = DOMAIN NoSync /\ sync'.pc = sync.pc
      /\ sync'.target = sync.target /\ sync'.pending = sync.pending
      /\ sync.pc # "idle" =>
            /\ sync'.loose = sync.loose \cup (tombstones \ tombs)
            /\ \A j \in Keys : sync'.had[j] =
                  IF j \in {k} THEN sync.had[j] \cup {new[j]} ELSE sync.had[j]
      /\ delta' = d /\ tombstones' = tombs /\ torn' = torn \ {k}
  BY <1>3, CalledSync DEF SyncInv
<1>7. CASE sync.pc = "idle"
  BY <1>6, <1>7, IdleSync
<1>8. CASE sync.pc # "idle"
  <2>1. \A j \in Keys : sync.had[j] \subseteq sync'.had[j]
    BY <1>6, <1>8
  <2>2. None \in sync'.had[k]
    BY <1>2, <1>6, <1>8 DEF View
  <2>3. k \in tombstones' \/ (k \notin tombstones' /\ ~HasCopy(k))
    BY <1>2, <1>6
  <2>4. torn' \subseteq sync'.loose /\ sync.loose \subseteq sync'.loose
    BY <1>6, <1>8 DEF SyncInv
  <2>5. nextId' \in Nat /\ nextId <= nextId' /\ None \in Maybe(Values)
    BY <1>3, <1>4 DEF Maybe
  <2>6. \A j \in Keys : j # k => (j \in tombstones' <=> j \in tombstones)
    BY <1>2, <1>6
  <2>7. delta'.id = delta.id /\ \A j \in Keys : delta'.kv[j] = IF j = k THEN None ELSE delta.kv[j]
    BY <1>5, <1>6
  <2> QED
    BY <1>3, <1>6, <1>8, <2>1, <2>2, <2>3, <2>4, <2>5, <2>6, <2>7, WriteSync
<1> QED
  BY <1>7, <1>8

\* Clear leaves nothing to load, and each key had nothing.
LEMMA ClearSync ==
    ASSUME IInv, SyncInv, Clear
    PROVE  SyncInv'
<1>1. PICK d : d = NoDelta
  OBVIOUS
<1>2. /\ Called(Keys, Nothing, d, {}, <<"Clear">>)
      /\ epoch' = epoch + 1 /\ flushing' = {} /\ levels' = {} /\ UNCHANGED <<merges, nextId>>
  BY <1>1 DEF Clear, work
<1>3. d.id = 0 /\ Holds(d) = {} /\ \A k \in Keys : Nothing[k] = None
  BY <1>1, NothingType, MemtableType DEF NoDelta
<1>4. /\ DOMAIN sync' = DOMAIN NoSync /\ sync'.pc = sync.pc
      /\ sync'.target = sync.target /\ sync'.pending = sync.pending
      /\ sync.pc # "idle" =>
            /\ sync'.loose = sync.loose \cup (tombstones \ {})
            /\ \A j \in Keys : sync'.had[j] =
                  IF j \in Keys THEN sync.had[j] \cup {Nothing[j]} ELSE sync.had[j]
      /\ delta' = d /\ tombstones' = {} /\ torn' = torn \ Keys
  BY <1>2, CalledSync DEF SyncInv
<1>5. CASE sync.pc = "idle"
  BY <1>4, <1>5, IdleSync
<1>6. CASE sync.pc # "idle"
  <2>1. Behind /\ torn \subseteq sync.loose
    BY <1>6 DEF SyncInv
  <2>2. Ids' = Ids /\ Awaited' = {} /\ ~ActiveAwaited'
    BY <1>2, <1>3, <1>4 DEF Ids, Awaited, ActiveAwaited
  <2>3. Behind'
    BY <1>2, <1>3, <1>4, <2>1, <2>2 DEF Behind
  <2>4. WrittenSince'
    <3>1. Holds(delta)' = {}
      BY <1>3, <1>4 DEF Holds
    <3> QED
      BY <1>2, <3>1 DEF WrittenSince
  <2>5. torn' \subseteq sync'.loose
    BY <1>4, <1>6, <2>1
  <2>6. ASSUME NEW k \in Keys PROVE WillLoad(k)' \in sync'.had[k]
    <3>1. Holders(Awaited, k)' = {} /\ Holders(levels, k)' = {}
      BY <1>2, <2>2 DEF Holders
    <3>2. WillLoad(k)' = None
      BY <1>4, <2>2, <3>1 DEF WillLoad, SegValue
    <3> QED
      BY <1>3, <1>4, <1>6, <3>2
  <2>7. \A t \in merges' : t.epoch # epoch'
    <3>1. \A t \in merges : t.epoch <= epoch /\ t.epoch \in Nat /\ epoch \in Nat
      BY DEF IInv, TypeInv, TasksMatch, Apart, Tasks
    <3> QED
      BY <1>2, <3>1
  <2> QED
    BY <1>4, <2>2, <2>3, <2>4, <2>5, <2>6, <2>7 DEF SyncInv
<1> QED
  BY <1>5, <1>6

\* A step that leaves the store alone; FlushDeltaSync may be woken or return.
LEMMA SyncKept ==
    ASSUME IInv, SyncInv, UNCHANGED <<store, nextId, torn>>, SameSync,
           sync'.pc # "idle" => sync.pc # "idle",
           sync'.pc = "flushed" => ~ActiveAwaited /\ Awaited = {},
           \A u \in merges' : u \in merges \/ \A k \in u.applied : k \in tombstones
    PROVE  SyncInv'
<1>1. UNCHANGED <<delta, flushing, levels, tombstones, epoch>>
  BY DEF store
<1>2. Ids' = Ids /\ Awaited' = Awaited /\ (ActiveAwaited' <=> ActiveAwaited)
  BY <1>1 DEF Ids, Awaited, ActiveAwaited, SameSync
<1>3. Behind => Behind'
  BY <1>1, <1>2 DEF Behind
<1>4. WrittenSince => WrittenSince'
  BY <1>1, <1>2 DEF WrittenSince, SameSync, Holds
<1>6. ASSUME NEW k \in Keys
      PROVE  /\ Holders(Awaited, k)' = Holders(Awaited, k)
             /\ Holders(levels, k)' = Holders(levels, k)
             /\ k \in Holds(delta)' <=> k \in Holds(delta)
  BY <1>1, <1>2 DEF Holders, Holds
<1>7. ASSUME NEW k \in Keys
      PROVE  WillLoad(k)' = WillLoad(k)
  <2>1. Newest(Holders(Awaited, k))' = Newest(Holders(Awaited, k))
    BY <1>6 DEF Newest
  <2>2. MemValue(Awaited, k)' = MemValue(Awaited, k)
    BY <1>6, <2>1 DEF MemValue
  <2>3. Freshest(Holders(levels, k))' = Freshest(Holders(levels, k))
    BY <1>6 DEF Freshest, Fresher
  <2>4. SegValue(levels, k)' = SegValue(levels, k)
    BY <1>6, <2>3 DEF SegValue
  <2> QED
    BY <1>1, <1>2, <1>6, <2>2, <2>4 DEF WillLoad
<1>8. ASSUME NEW u \in merges', NEW k \in u.applied, k \in Keys,
             u \in merges => OverlaidThen(u, k)
      PROVE  OverlaidThen(u, k)'
  <2>1. CASE k \in tombstones
    BY <1>1, <2>1 DEF OverlaidThen
  <2>2. CASE OverlaidThen(u, k)
    <3>1. Topped(u, k)' <=> Topped(u, k)
      BY <1>1 DEF Topped, Holders, Holds, Above, Fresher
    <3> QED
      BY <1>1, <1>2, <1>6, <1>8, <2>2, <3>1 DEF OverlaidThen
  <2> QED
    BY <1>8, <2>1, <2>2
<1>9. \A u \in merges' : \A k \in u.applied : k \in Keys
  BY DEF IInv, TypeInv, Tasks
<1>10. CASE sync'.pc = "idle"
  BY <1>10, IdleSync DEF SameSync
<1>11. CASE sync'.pc # "idle"
  <2>1. /\ Behind /\ WrittenSince /\ torn \subseteq sync.loose
        /\ \A j \in Keys \ sync.loose : WillLoad(j) \in sync.had[j]
        /\ \A t \in merges : t.epoch = epoch =>
               \A j \in t.applied \ sync.loose : OverlaidThen(t, j)
    BY <1>11 DEF SyncInv
  <2>2. \A u \in merges' : u.epoch = epoch => \A k \in u.applied \ sync.loose : OverlaidThen(u, k)'
    BY <1>8, <1>9, <2>1
  <2>3. \A j \in Keys \ sync'.loose : WillLoad(j)' \in sync'.had[j]
    BY <1>7, <2>1 DEF SameSync
  <2> QED
    BY <1>1, <1>2, <1>3, <1>4, <2>1, <2>2, <2>3 DEF SyncInv, SameSync
<1> QED
  BY <1>10, <1>11

LEMMA ScheduledTasks ==
    ASSUME NEW e, NEW fl, NEW lv, NEW fly, NEW busy, NEW tasks, NEW cons,
           Schedule(e, fl, lv, fly, busy, tasks, cons)
    PROVE  \A u \in merges' : u \in tasks \/ u.applied = {}
BY DEF Schedule, Task

LEMMA SwapSync ==
    ASSUME IInv, SyncInv, Swap
    PROVE  SyncInv'
<1>1. UNCHANGED <<levels, tombstones, epoch, merges, sync, torn>>
  BY DEF Swap, history
<1>2. SameSync
  BY <1>1 DEF SameSync, SyncInv
<1>3. CASE UNCHANGED <<delta, flushing, nextId>>
  <2>1. UNCHANGED <<store, nextId, torn>>
    BY <1>1, <1>3 DEF store
  <2>2. sync'.pc = "flushed" => ~ActiveAwaited /\ Awaited = {}
    BY <1>1 DEF SyncInv
  <2> QED
    BY <1>1, <1>2, <2>1, <2>2, SyncKept
<1>4. CASE /\ Holds(delta) # {} /\ flushing' = flushing \cup {delta}
           /\ delta' = Memtable(nextId) /\ nextId' = nextId + 1 /\ sync.pc # "idle"
  <2>1. /\ Behind /\ WrittenSince /\ torn \subseteq sync.loose
        /\ \A k \in Keys \ sync.loose : WillLoad(k) \in sync.had[k]
        /\ \A t \in merges : t.epoch = epoch =>
               \A k \in t.applied \ sync.loose : OverlaidThen(t, k)
        /\ sync.pc = "flushed" => ~ActiveAwaited /\ Awaited = {}
    BY <1>4 DEF SyncInv
  <2>2. /\ \A i \in Ids : i \in Nat /\ i < nextId
        /\ \A m \in flushing : m \in Awaited <=> m.id \in Ids
        /\ sync.target # 0 => sync.target \in Ids
    BY <2>1, BehindIs
  <2>3. /\ delta \in Mems /\ delta.id \in Nat /\ nextId \in Nat /\ delta.id < nextId
        /\ Queued(flushing) /\ \A m \in flushing : m.id < delta.id
        /\ delta.id = 0 => delta = NoDelta
    BY MemType DEF IInv, TypeInv, InSequence
  <2>4. delta'.id = nextId /\ Holds(delta') = {}
    BY <1>4, <2>3, MemtableType
  <2>5. ~ActiveAwaited'
    BY <1>1, <2>2, <2>3, <2>4 DEF ActiveAwaited
  <2>6. PICK moved : moved = IF ActiveAwaited THEN {delta} ELSE {}
    OBVIOUS
  <2>7. ActiveAwaited <=> delta.id \in Ids
    <3>1. ActiveAwaited => delta.id \in Ids
      BY <2>2 DEF ActiveAwaited
    <3>2. delta.id # 0
      BY <1>4, <2>3, MemtableType DEF NoDelta
    <3>3. ~ActiveAwaited => delta.id \notin Ids
      BY <2>1, <2>3, <3>2 DEF Behind
    <3> QED
      BY <3>1, <3>3
  <2>8. Ids' = Ids /\ Awaited' = Awaited \cup moved
    <3>1. Ids' = Ids
      BY <1>1 DEF Ids
    <3> QED
      BY <1>4, <2>6, <2>7, <3>1 DEF Awaited
  <2>9. Behind'
    <3>1. \A i \in Ids : i < nextId' /\ i < delta'.id
      BY <1>4, <2>2, <2>3, <2>4
    <3>2. delta.id # 0
      BY <1>4, <2>3, MemtableType DEF NoDelta
    <3>3. \A m \in flushing' : m \in Awaited' \/ \A i \in Ids : i < m.id
      BY <1>4, <2>1, <2>6, <2>8, <3>2 DEF Behind
    <3> QED
      BY <2>1, <2>8, <3>1, <3>3 DEF Behind
  <2>10. WrittenSince'
    <3>1. \A m \in flushing' \ Awaited' : \A k \in Holds(m) : m.kv[k] \in sync.had[k]
      BY <1>4, <2>1, <2>6, <2>8 DEF WrittenSince
    <3>2. \A m : Holds(m)' = Holds(m)
      BY DEF Holds
    <3>3. Holds(delta)' = {}
      BY <2>4 DEF Holds
    <3> QED
      BY <1>1, <3>1, <3>2, <3>3 DEF WrittenSince
  <2>11. Queued(Awaited \cup moved) /\ \A o \in Awaited, m \in moved : o.id < m.id
    <3>1. Queued(flushing \cup {delta})
      BY <2>3, QueuedBehind
    <3>2. Awaited \subseteq flushing /\ Awaited \cup moved \subseteq flushing \cup {delta}
      BY <2>6 DEF Awaited
    <3> QED
      BY <2>3, <2>6, <3>1, <3>2, QueuedSubset
  <2>12. ASSUME NEW k \in Keys
         PROVE  /\ Holders(moved, k) = IF ActiveAwaited /\ k \in Holds(delta) THEN {delta} ELSE {}
                /\ Holders(Awaited \cup moved, k) = Holders(Awaited, k) \cup Holders(moved, k)
    BY <2>6 DEF Holders
  <2>13. ASSUME NEW k \in Keys
         PROVE  WillLoad(k)' = WillLoad(k)
    <3>1. MemValue(Awaited \cup moved, k) =
              IF Holders(moved, k) # {} THEN MemValue(moved, k) ELSE MemValue(Awaited, k)
      BY <2>11, MemAppend
    <3>2. ActiveAwaited /\ k \in Holds(delta) => MemValue(moved, k) = delta.kv[k]
      <4> SUFFICES ASSUME ActiveAwaited, k \in Holds(delta) PROVE MemValue(moved, k) = delta.kv[k]
        OBVIOUS
      <4>1. Queued(moved)
        BY <2>11, QueuedSubset
      <4>2. delta \in Holders(moved, k) /\ \A m \in Holders(moved, k) : m.id <= delta.id
        BY <2>3, <2>12
      <4> QED
        BY <4>1, <4>2, MemSingle
    <3>3. /\ Holders(Awaited, k)' = Holders(Awaited \cup moved, k)
          /\ Holders(levels, k)' = Holders(levels, k)
      BY <1>1, <2>8 DEF Holders, Holds
    <3>4. Newest(Holders(Awaited, k))' = Newest(Holders(Awaited \cup moved, k))
          /\ Freshest(Holders(levels, k))' = Freshest(Holders(levels, k))
      BY <3>3 DEF Newest, Freshest, Fresher
    <3>5. MemValue(Awaited, k)' = MemValue(Awaited \cup moved, k)
          /\ SegValue(levels, k)' = SegValue(levels, k)
      BY <3>3, <3>4 DEF MemValue, SegValue
    <3>6. WillLoad(k)' = IF k \in tombstones THEN None
                         ELSE IF Holders(Awaited \cup moved, k) # {}
                         THEN MemValue(Awaited \cup moved, k) ELSE SegValue(levels, k)
      BY <1>1, <2>5, <3>3, <3>5 DEF WillLoad
    <3> QED
      BY <2>12, <3>1, <3>2, <3>6 DEF WillLoad
  <2>14. ASSUME NEW t \in merges, t.epoch = epoch, NEW k \in t.applied \ sync.loose
         PROVE  OverlaidThen(t, k)'
    <3>1. OverlaidThen(t, k) /\ k \in Keys
      BY <2>1, <2>14 DEF IInv, TypeInv, Tasks
    <3>2. /\ Holders(Awaited, k)' = Holders(Awaited, k) \cup Holders(moved, k)
          /\ Topped(t, k)' <=> Topped(t, k)
      BY <1>1, <2>8 DEF Holders, Holds, Topped, Above, Fresher
    <3> QED
      BY <1>1, <2>12, <3>1, <3>2 DEF OverlaidThen
  <2>15. \A k \in Keys \ sync.loose : WillLoad(k)' \in sync.had[k]
    BY <2>1, <2>13
  <2>16. sync.pc = "flushed" => Awaited' = {}
    BY <2>1, <2>6, <2>8
  <2> QED
    BY <1>1, <2>1, <2>5, <2>9, <2>10, <2>14, <2>15, <2>16 DEF SyncInv
<1>5. CASE sync.pc = "idle"
  BY <1>1, <1>2, <1>5, IdleSync DEF SameSync
<1> QED
  BY <1>3, <1>4, <1>5 DEF Swap

\* The call of FlushDeltaSync: it waits for all that holds a key.
LEMMA FlushDeltaSyncSync ==
    ASSUME IInv, FlushDeltaSync
    PROVE  SyncInv'
<1>1. PICK s : s = [pc |-> "waiting", had |-> [k \in Keys |-> {Get(k)}], loose |-> torn,
                    target |-> IF Holds(delta) # {} THEN delta.id ELSE 0,
                    pending |-> {m.id : m \in flushing}]
  OBVIOUS
<1>2. SyncTurn(s) /\ UNCHANGED <<delta, flushing, levels, tombstones, epoch, nextId, torn>>
  BY <1>1 DEF FlushDeltaSync, store, history
<1>3. /\ sync' = [s EXCEPT !.pc = sync'.pc] /\ sync'.pc \in {"flushed", "waiting"}
      /\ sync'.pc = "flushed" => Flushed(s.target, s.pending)
  BY <1>1, <1>2 DEF SyncTurn
<1>4. /\ DOMAIN sync' = DOMAIN NoSync /\ sync'.pc # "idle"
      /\ sync'.target = s.target /\ sync'.pending = s.pending /\ sync'.had = s.had
      /\ sync'.loose = torn
  BY <1>1, <1>3 DEF NoSync
<1>5. PICK mems : mems = (IF Holds(delta) # {} THEN {delta} ELSE {}) \cup flushing
  OBVIOUS
<1>6. /\ delta \in Mems /\ delta.id \in Nat /\ nextId \in Nat /\ delta.id < nextId
      /\ Queued(flushing) /\ \A m \in flushing : 0 < m.id /\ m.id < delta.id /\ m.id \in Nat
      /\ delta.id = 0 => delta = NoDelta
  BY MemType DEF IInv, TypeInv, InSequence, Queued
<1>7. Holds(delta) # {} => delta.id # 0
  BY <1>6, MemtableType DEF NoDelta
<1>8. /\ Ids' = {m.id : m \in mems}
      /\ Awaited' = flushing
      /\ ActiveAwaited' <=> Holds(delta) # {}
  <2>1. Ids' = {m.id : m \in flushing} \cup ({s.target} \ {0})
    BY <1>1, <1>4 DEF Ids
  <2>2. {s.target} \ {0} = IF Holds(delta) # {} THEN {delta.id} ELSE {}
    BY <1>1, <1>7
  <2>3. Ids' = {m.id : m \in mems}
    BY <1>5, <2>1, <2>2
  <2>4. Awaited' = flushing
    BY <1>2, <2>1 DEF Awaited
  <2>5. ActiveAwaited' <=> Holds(delta) # {}
    BY <1>1, <1>2, <1>4, <1>7 DEF ActiveAwaited
  <2> QED
    BY <2>3, <2>4, <2>5
<1>9. Behind'
  <2>1. \A i \in Ids' : i \in Nat /\ i < nextId /\ (Holds(delta) # {} \/ i < delta.id)
    BY <1>5, <1>6, <1>8
  <2> QED
    BY <1>2, <1>8, <2>1 DEF Behind
<1>10. WrittenSince'
  <2>1. Holds(delta)' = Holds(delta)
    BY <1>2 DEF Holds
  <2> QED
    BY <1>2, <1>8, <2>1 DEF WrittenSince
<1>11. ASSUME NEW k \in Keys
       PROVE  WillLoad(k)' = Get(k)
  <2>1. /\ Holders(Awaited, k)' = Holders(flushing, k)
        /\ Holders(levels, k)' = Holders(levels, k)
        /\ k \in Holds(delta)' <=> k \in Holds(delta)
    BY <1>2, <1>8 DEF Holders, Holds
  <2>2. Newest(Holders(Awaited, k))' = Newest(Holders(flushing, k))
        /\ Freshest(Holders(levels, k))' = Freshest(Holders(levels, k))
    BY <2>1 DEF Newest, Freshest, Fresher
  <2>3. MemValue(Awaited, k)' = MemValue(flushing, k) /\ SegValue(levels, k)' = SegValue(levels, k)
    BY <2>1, <2>2 DEF MemValue, SegValue
  <2>4. k \in Holds(delta) => k \notin tombstones
    BY DEF IInv, InSequence
  <2> QED
    BY <1>2, <1>8, <2>1, <2>3, <2>4 DEF WillLoad, Get
<1>12. ASSUME NEW t \in merges', t.epoch = epoch', NEW k \in t.applied \ torn
       PROVE  OverlaidThen(t, k)'
  <2>1. t \in merges
    <3>1. \A u \in merges' : u \in merges \/ u.applied = {}
      BY <1>2, ScheduledTasks DEF SyncTurn
    <3> QED
      BY <1>12, <3>1
  <2>2. Overlaid(t, k) /\ k \in Keys
    BY <1>2, <1>12, <2>1 DEF IInv, TasksMatch, TypeInv, Tasks
  <2>3. /\ Holders(Awaited, k)' = Holders(flushing, k)
        /\ k \in Holds(delta)' <=> k \in Holds(delta)
        /\ Topped(t, k)' <=> Topped(t, k)
    BY <1>2, <1>8 DEF Holders, Holds, Topped, Above, Fresher
  <2> QED
    BY <1>2, <1>8, <2>2, <2>3 DEF Overlaid, OverlaidThen, Topped
<1>13. sync'.pc = "flushed" => ~ActiveAwaited' /\ Awaited' = {}
  <2> SUFFICES ASSUME sync'.pc = "flushed" PROVE ~ActiveAwaited' /\ Awaited' = {}
    OBVIOUS
  <2>1. s.target = 0 \/ s.target # delta.id
    BY <1>3 DEF Flushed
  <2>2. \A m \in flushing : m.id \notin s.pending
    BY <1>3 DEF Flushed
  <2> QED
    BY <1>1, <1>7, <1>8, <2>1, <2>2
<1>14. \A k \in Keys : WillLoad(k)' \in sync'.had[k]
  BY <1>1, <1>4, <1>11
<1> QED
  BY <1>2, <1>4, <1>9, <1>10, <1>12, <1>13, <1>14 DEF SyncInv

LEMMA WakeUpSync ==
    ASSUME IInv, SyncInv, WakeUp
    PROVE  SyncInv'
<1>1. SyncTurn(sync) /\ UNCHANGED <<store, nextId, torn>> /\ sync.pc = "woken"
  BY DEF WakeUp, history
<1>2. DOMAIN sync = {"pc", "target", "pending", "had", "loose"}
  BY DEF SyncInv, NoSync
<1>3. /\ sync' = [sync EXCEPT !.pc = "flushed"] \/ sync' = [sync EXCEPT !.pc = "waiting"]
      /\ sync' = [sync EXCEPT !.pc = "flushed"] => Flushed(sync.target, sync.pending)
  BY <1>1, <1>2 DEF SyncTurn
<1>4. sync'.pc = "flushed" => sync' = [sync EXCEPT !.pc = "flushed"]
  BY <1>2, <1>3
<1>5. SameSync
  BY <1>2, <1>3 DEF SameSync, NoSync
<1>6. Flushed(sync.target, sync.pending) => ~ActiveAwaited /\ Awaited = {}
  <2> SUFFICES ASSUME Flushed(sync.target, sync.pending) PROVE ~ActiveAwaited /\ Awaited = {}
    OBVIOUS
  <2>1. ~ActiveAwaited
    BY DEF Flushed, ActiveAwaited
  <2>2. \A m \in flushing : m.id \notin sync.pending /\ (sync.target = 0 \/ m.id # sync.target)
    BY DEF Flushed
  <2>3. Awaited = {}
    BY <2>2 DEF Awaited, Ids
  <2> QED
    BY <2>1, <2>3
<1>7. \A u \in merges' : u \in merges \/ u.applied = {}
  BY <1>1, ScheduledTasks DEF SyncTurn
<1> QED
  BY <1>1, <1>3, <1>4, <1>5, <1>6, <1>7, SyncKept

\* What a build's result does to the copies of a key that is not torn: nothing, or the oldest
\* of the memtables that are being flushed and hold it becomes a segment.
LEMMA FlushOfKey ==
    ASSUME IInv, NEW b \in builds, NEW built, FlushApplied(b, built), NEW k \in Keys \ torn'
    PROVE  \/ /\ \A o \in Holders(flushing, k) : o \in flushing'
              /\ Holders(levels', k) = Holders(levels, k)
           \/ /\ b.mem \in flushing /\ flushing' = flushing \ {b.mem} /\ k \in Holds(b.mem)
              /\ levels' = levels \cup Built(b.mem)
              /\ \A o \in Holders(flushing, k) : o = b.mem \/ b.mem.id < o.id
<1>1. PICK m, fl, lv, lost : /\ m = b.mem /\ fl = flushing' /\ lv = levels'
                             /\ lost = Lost(b, built # {} /\ epoch = b.epoch)
  OBVIOUS
<1>2. /\ fl = Without(flushing, m.id) /\ k \notin lost
      /\ built \in {Built(m), {}} /\ lv = IF epoch = b.epoch THEN levels \cup built ELSE levels
  BY <1>1 DEF FlushApplied
<1>3. /\ m \in Mems /\ m.id \in Nat /\ Queued(flushing)
      /\ Placed(levels) /\ IsFiniteSet(levels) /\ \A o \in flushing : o.id \in Nat
      /\ epoch = b.epoch => m \in flushing
  BY <1>1, MemType DEF IInv, TypeInv, BuildsMatch, Queued
<1>4. \A o \in flushing : o.id # m.id <=> o \in fl
  BY <1>2 DEF Without
<1>5. CASE ~(built # {} /\ epoch = b.epoch)
  <2>1. lv = levels
    BY <1>2, <1>5
  <2>2. \A o \in Holders(flushing, k) : o.id # m.id /\ o \in flushing
    BY <1>1, <1>2, <1>5 DEF Lost, Holders
  <2> QED
    BY <1>1, <1>4, <2>1, <2>2
<1>6. CASE built # {} /\ epoch = b.epoch
  <2>1. lv = levels \cup Built(m) /\ m \in flushing
    BY <1>2, <1>3, <1>6
  <2>2. fl = flushing \ {m}
    BY <1>2, <1>3, <2>1 DEF Without, Queued
  <2>3. CASE k \in Holds(m)
    <3>1. \A o \in Holders(flushing, k) : ~(o.id < m.id) /\ o \in flushing
      BY <1>1, <1>2, <1>6, <2>3 DEF Lost, Holders
    <3>2. \A o \in Holders(flushing, k) : o = m \/ m.id < o.id
      <4> TAKE o \in Holders(flushing, k)
      <4>1. o.id = m.id => o = m
        BY <1>3, <2>1, <3>1 DEF Queued
      <4> QED
        BY <1>3, <3>1, <4>1
    <3> QED
      BY <1>1, <2>1, <2>2, <2>3, <3>2
  <2>4. CASE k \notin Holds(m)
    <3>1. \A s \in Holders(Built(m), k) : k \in Holds(m)
      BY <1>3, BuiltIs
    <3>2. Holders(lv, k) = Holders(levels, k)
      BY <2>1, <2>4, <3>1 DEF Holders
    <3>3. \A o \in Holders(flushing, k) : o \in fl
      BY <2>2, <2>4 DEF Holders
    <3> QED
      BY <1>1, <3>2, <3>3
  <2> QED
    BY <2>3, <2>4
<1> QED
  BY <1>5, <1>6

\* What LoadBinary would get of a key that is not torn stays, or was written since.
LEMMA FlushLoads ==
    ASSUME IInv, Behind, WrittenSince, NEW b \in builds, NEW built, FlushApplied(b, built),
           sync'.target = sync.target, sync'.pending = sync.pending, NEW k \in Keys \ torn'
    PROVE  WillLoad(k)' = WillLoad(k) \/ WillLoad(k)' \in sync.had[k]
<1>1. PICK m, lv, left : m = b.mem /\ lv = levels' /\ left = Awaited'
  OBVIOUS
<1>2. UNCHANGED <<delta, tombstones>> /\ flushing' = Without(flushing, m.id)
  BY <1>1 DEF FlushApplied
<1>3. /\ Ids' = Ids /\ (ActiveAwaited' <=> ActiveAwaited)
      /\ left = {o \in flushing' : o.id \in Ids} /\ flushing' \subseteq flushing
  BY <1>1, <1>2 DEF Ids, ActiveAwaited, Awaited, Without
<1>4. WillLoad(k)' =
          IF k \in tombstones THEN None
          ELSE IF ActiveAwaited /\ k \in Holds(delta) THEN delta.kv[k]
          ELSE IF Holders(left, k) # {} THEN MemValue(left, k)
          ELSE SegValue(lv, k)
  <2>1. /\ Holders(Awaited, k)' = Holders(left, k)
        /\ Holders(levels, k)' = Holders(lv, k)
        /\ k \in Holds(delta)' <=> k \in Holds(delta)
    BY <1>1, <1>2 DEF Holders, Holds
  <2>2. /\ Newest(Holders(Awaited, k))' = Newest(Holders(left, k))
        /\ Freshest(Holders(levels, k))' = Freshest(Holders(lv, k))
    BY <2>1 DEF Newest, Freshest, Fresher
  <2>3. MemValue(Awaited, k)' = MemValue(left, k) /\ SegValue(levels, k)' = SegValue(lv, k)
    BY <2>1, <2>2 DEF MemValue, SegValue
  <2> QED
    BY <1>2, <1>3, <2>1, <2>3 DEF WillLoad
<1>5. CASE /\ \A o \in Holders(flushing, k) : o \in flushing'
           /\ Holders(levels', k) = Holders(levels, k)
  <2>1. Holders(left, k) = Holders(Awaited, k)
    BY <1>3, <1>5 DEF Holders, Awaited
  <2>2. MemValue(left, k) = MemValue(Awaited, k) /\ SegValue(lv, k) = SegValue(levels, k)
    BY <1>1, <1>5, <2>1 DEF MemValue, SegValue
  <2> QED
    BY <1>4, <2>1, <2>2 DEF WillLoad
<1>6. CASE /\ m \in flushing /\ flushing' = flushing \ {m} /\ k \in Holds(m)
           /\ lv = levels \cup Built(m)
           /\ \A o \in Holders(flushing, k) : o = m \/ m.id < o.id
  <2>1. /\ Queued(flushing) /\ m.id \in Nat /\ delta.id \in Nat /\ m.id < delta.id
        /\ TypeInv /\ m \in Mems /\ \A o \in flushing : o.id \in Nat
    BY <1>1, <1>6, MemType DEF IInv, TypeInv, InSequence, Queued
  <2>2. PICK rest : rest = Holders(left, k)
    OBVIOUS
  <2>3. \A o \in rest : o \in flushing /\ o # m /\ o.id \in Ids /\ k \in Holds(o) /\ m.id < o.id
    BY <1>3, <1>6, <2>2 DEF Holders
  <2>4. Queued({m} \cup rest) /\ Holders(rest, k) = rest
    <3>1. {m} \cup rest \subseteq flushing
      BY <1>6, <2>3
    <3>2. Queued({m} \cup rest)
      BY <2>1, <3>1, QueuedSubset
    <3> QED
      BY <2>3, <3>2 DEF Holders
  <2>5. (IF Holders({m} \cup rest, k) # {} THEN MemValue({m} \cup rest, k)
         ELSE SegValue(levels, k)) =
        (IF Holders(rest, k) # {} THEN MemValue(rest, k) ELSE SegValue(levels \cup Built(m), k))
    <3>1. \A o \in rest : m.id < o.id
      BY <2>3
    <3>2. Queued({m} \cup rest) /\ TypeInv /\ k \in Keys
      BY <2>1, <2>4
    <3> QED
      BY <3>1, <3>2, FlushValue
  <2>6. MemValue(left, k) = MemValue(rest, k)
    BY <2>2, <2>4 DEF MemValue
  <2>7. CASE m.id \in Ids
    <3>1. Holders(Awaited, k) = Holders({m} \cup rest, k)
      BY <1>3, <1>6, <2>2, <2>7 DEF Holders, Awaited
    <3>2. MemValue(Awaited, k) = MemValue({m} \cup rest, k)
      BY <3>1 DEF MemValue
    <3> QED
      BY <1>4, <1>6, <2>2, <2>4, <2>5, <2>6, <3>1, <3>2 DEF WillLoad
  <2>8. CASE m.id \notin Ids
    <3>1. m \notin Awaited /\ Ids \subseteq Nat
      BY <2>8 DEF Awaited, Behind
    <3>2. \A i \in Ids : i < m.id /\ i \in Nat
      BY <1>6, <3>1 DEF Behind
    <3>3. rest = {}
      <4>1. \A o \in rest : o.id < m.id /\ m.id < o.id /\ o.id \in Nat
        BY <2>3, <3>2
      <4> QED
        BY <2>1, <4>1
    <3>4. ~ActiveAwaited
      <4>1. ActiveAwaited => delta.id \in Ids
        BY DEF ActiveAwaited, Ids
      <4> QED
        BY <2>1, <3>2, <4>1
    <3>5. MemValue({m}, k) = m.kv[k] /\ Holders({m}, k) # {}
      <4>1. m \in Holders({m}, k) /\ \A o \in Holders({m}, k) : o.id <= m.id
        BY <1>6, <2>1 DEF Holders
      <4>2. Queued({m})
        BY <2>4, <3>3
      <4> QED
        BY <4>1, <4>2, MemSingle
    <3>6. {m} \cup rest = {m} /\ Holders(rest, k) = {}
      BY <2>4, <3>3
    <3>7. SegValue(lv, k) = m.kv[k]
      BY <1>6, <2>5, <3>5, <3>6
    <3>8. m.kv[k] \in sync.had[k]
      BY <1>6, <3>1 DEF WrittenSince
    <3>9. k \in tombstones => WillLoad(k) = None /\ WillLoad(k)' = None
      BY <1>4 DEF WillLoad
    <3> QED
      BY <1>4, <2>2, <3>3, <3>4, <3>7, <3>8, <3>9
  <2> QED
    BY <2>7, <2>8
<1> QED
  BY <1>1, <1>5, <1>6, FlushOfKey

LEMMA ApplyFlushSync ==
    ASSUME IInv, SyncInv, NEW b \in builds, ApplyFlush(b)
    PROVE  SyncInv'
<1>1. PICK built, lost :
          /\ FlushApplied(b, built) /\ lost = Lost(b, built # {} /\ epoch = b.epoch)
          /\ sync' = Loosened(Woken, lost)
  BY DEF ApplyFlush, FlushApplied, Applied, Dropped
<1>2. /\ torn' = torn \cup lost /\ flushing' = Without(flushing, b.mem.id)
      /\ UNCHANGED <<delta, tombstones, epoch, nextId>>
  BY <1>1 DEF FlushApplied
<1>3. /\ DOMAIN sync' = DOMAIN NoSync /\ sync'.target = sync.target
      /\ sync'.pending = sync.pending /\ sync'.had = sync.had
      /\ sync'.pc = sync.pc \/ (sync.pc = "waiting" /\ sync'.pc = "woken")
      /\ sync.pc # "idle" => sync'.loose = sync.loose \cup lost
  <2>1. DOMAIN sync = {"pc", "target", "pending", "had", "loose"}
    BY DEF SyncInv, NoSync
  <2>2. PICK w : w = Woken
    OBVIOUS
  <2>3. /\ DOMAIN w = DOMAIN sync /\ w.target = sync.target /\ w.pending = sync.pending
        /\ w.had = sync.had /\ w.loose = sync.loose
        /\ w.pc = sync.pc \/ (sync.pc = "waiting" /\ w.pc = "woken")
    BY <2>1, <2>2 DEF Woken
  <2>4. sync' = Loosened(w, lost)
    BY <1>1, <2>2
  <2> QED
    BY <2>1, <2>3, <2>4 DEF Loosened, NoSync
<1>4. \A u \in merges' : u \in merges \/ u.applied = {}
  BY <1>1, ScheduledTasks DEF FlushApplied
<1>5. CASE sync.pc = "idle"
  BY <1>3, <1>5, IdleSync
<1>6. CASE sync.pc # "idle"
  <2>1. /\ Behind /\ WrittenSince /\ torn \subseteq sync.loose
        /\ \A k \in Keys \ sync.loose : WillLoad(k) \in sync.had[k]
        /\ \A t \in merges : t.epoch = epoch =>
               \A k \in t.applied \ sync.loose : OverlaidThen(t, k)
        /\ sync.pc = "flushed" => ~ActiveAwaited /\ Awaited = {}
    BY <1>6 DEF SyncInv
  <2>2. torn' \subseteq sync'.loose /\ sync.loose \subseteq sync'.loose
    BY <1>2, <1>3, <1>6, <2>1
  <2>3. /\ Ids' = Ids /\ (ActiveAwaited' <=> ActiveAwaited) /\ flushing' \subseteq flushing
        /\ Awaited' = {o \in flushing' : o.id \in Ids} /\ Awaited' \subseteq Awaited
    BY <1>2, <1>3 DEF Ids, ActiveAwaited, Awaited, Without
  <2>4. \A o \in flushing' : o \in Awaited' <=> o \in Awaited
    BY <2>3 DEF Awaited
  <2>5. Behind'
    BY <1>2, <2>1, <2>3, <2>4 DEF Behind
  <2>6. WrittenSince'
    <3>1. \A o : Holds(o)' = Holds(o)
      BY DEF Holds
    <3>2. \A o \in flushing' \ Awaited' : \A k \in Holds(o) : o.kv[k] \in sync.had[k]
      BY <2>1, <2>3, <2>4 DEF WrittenSince
    <3>3. Holds(delta)' = Holds(delta)
      BY <1>2 DEF Holds
    <3> QED
      BY <1>2, <1>3, <2>1, <2>3, <3>1, <3>2, <3>3 DEF WrittenSince
  <2>7. ASSUME NEW k \in Keys \ sync'.loose
        PROVE  WillLoad(k)' \in sync'.had[k]
    <3>1. WillLoad(k)' = WillLoad(k) \/ WillLoad(k)' \in sync.had[k]
      BY <1>1, <1>3, <2>1, <2>2, <2>7, FlushLoads
    <3> QED
      BY <1>3, <2>1, <2>2, <2>7, <3>1
  <2>8. ASSUME NEW t \in merges, t.epoch = epoch, NEW k \in t.applied \ sync'.loose
        PROVE  OverlaidThen(t, k)'
    <3>1. OverlaidThen(t, k) /\ k \in Keys \ torn' /\ t.segs \subseteq levels
      BY <2>1, <2>2, <2>8 DEF IInv, TypeInv, Tasks, TasksMatch, Fits
    <3>2. PICK lv : lv = levels'
      OBVIOUS
    <3>3. \A s \in Holders(lv, k) : Above(t, s) => Topped(t, k)'
      <4> SUFFICES ASSUME NEW s \in Holders(lv, k), Above(t, s) PROVE Topped(t, k)'
        OBVIOUS
      <4>1. s \in Holders(levels, k)' /\ Above(t, s)'
        BY <3>2 DEF Above, Fresher, Holders, Holds
      <4> QED
        BY <4>1 DEF Topped
    <3>4. levels \subseteq lv
      BY <1>1, <3>2 DEF FlushApplied
    <3>5. CASE k \in tombstones \/ (ActiveAwaited /\ k \in Holds(delta))
      <4>1. k \in Holds(delta)' <=> k \in Holds(delta)
        BY <1>2 DEF Holds
      <4> QED
        BY <1>2, <2>3, <3>5, <4>1 DEF OverlaidThen
    <3>6. CASE Topped(t, k)
      <4>1. PICK s \in Holders(levels, k) : Above(t, s)
        BY <3>6 DEF Topped
      <4>2. s \in Holders(lv, k)
        BY <3>4, <4>1 DEF Holders
      <4> QED
        BY <3>3, <4>1, <4>2 DEF OverlaidThen
    <3>7. CASE Holders(Awaited, k) # {}
      <4>1. PICK o \in Awaited : k \in Holds(o) /\ o \in flushing /\ o \in Holders(flushing, k)
        BY <3>7 DEF Holders, Awaited
      <4>2. CASE o \in flushing'
        <5>1. o \in Holders(Awaited, k)'
          BY <2>4, <4>1, <4>2 DEF Holders, Holds
        <5> QED
          BY <5>1 DEF OverlaidThen
      <4>3. CASE o \notin flushing'
        <5>1. /\ b.mem \in flushing /\ k \in Holds(b.mem) /\ lv = levels \cup Built(b.mem)
          BY <1>1, <3>1, <3>2, <4>1, <4>3, FlushOfKey
        <5>2. b.mem \in Mems /\ Placed(levels) /\ IsFiniteSet(levels)
          BY DEF IInv, TypeInv
        <5>3. /\ Holders(Built(b.mem), k) # {}
              /\ \A s \in Built(b.mem), r \in levels : Fresher(s, r)
          BY <5>1, <5>2, BuiltIs
        <5>4. PICK s \in Built(b.mem) : s \in Holders(Built(b.mem), k)
          BY <5>3 DEF Holders
        <5>5. s \in Holders(lv, k) /\ Above(t, s)
          BY <3>1, <5>1, <5>3, <5>4 DEF Holders, Above
        <5> QED
          BY <3>3, <5>5 DEF OverlaidThen
      <4> QED
        BY <4>2, <4>3
    <3> QED
      BY <3>1, <3>5, <3>6, <3>7 DEF OverlaidThen
  <2>9. \A u \in merges' : u.epoch = epoch' =>
            \A k \in u.applied \ sync'.loose : OverlaidThen(u, k)'
    BY <1>2, <1>4, <2>8
  <2>10. sync'.pc = "flushed" => ~ActiveAwaited' /\ Awaited' = {}
    BY <1>3, <2>1, <2>3
  <2> QED
    BY <1>3, <2>2, <2>5, <2>6, <2>7, <2>9, <2>10 DEF SyncInv
<1> QED
  BY <1>5, <1>6

LEMMA ApplyMergeSync ==
    ASSUME IInv, SyncInv, NEW t \in merges, ApplyMerge(t)
    PROVE  SyncInv'
<1>1. UNCHANGED <<delta, flushing, epoch, nextId>>
  BY DEF ApplyMerge
<1>2. DOMAIN sync = {"pc", "target", "pending", "had", "loose"}
  BY DEF SyncInv, NoSync
<1>3. CASE sync.pc = "idle"
  <2>1. sync' = sync \/ sync' = Loosened(sync, Revived(t))
    BY DEF ApplyMerge
  <2>2. DOMAIN sync' = DOMAIN NoSync /\ sync'.pc = "idle"
    BY <1>2, <1>3, <2>1 DEF Loosened, NoSync
  <2> QED
    BY <2>2, IdleSync
<1>4. CASE epoch # t.epoch \/ t.out = Nothing
  <2>1. UNCHANGED <<levels, tombstones, torn, sync>> /\ merges' = merges \ {t}
    BY <1>4 DEF ApplyMerge, Dropped
  <2>2. UNCHANGED <<store, nextId, torn>>
    BY <1>1, <2>1 DEF store
  <2>3. SameSync /\ (sync'.pc = "flushed" => ~ActiveAwaited /\ Awaited = {})
    BY <2>1 DEF SameSync, SyncInv
  <2> QED
    BY <2>1, <2>2, <2>3, SyncKept
<1>5. CASE epoch = t.epoch /\ t.out # Nothing /\ sync.pc # "idle"
  <2>1. MergeKeeps(t)
    BY <1>5, MergeApplied
  <2>2. \A u \in merges' : u \in merges \ {t} \/ u.applied = {}
    BY <1>5, ScheduledTasks DEF ApplyMerge, Applied
  <2>3. /\ tombstones' \subseteq tombstones
        /\ \A k \in tombstones \ tombstones' :
               SegValue(levels, k)' = None /\ (k \notin torn' => Holders(flushing, k) = {})
        /\ \A k \in Keys : k \notin t.applied \/ Topped(t, k)
               => SegValue(levels, k)' = SegValue(levels, k)
        /\ \A u \in merges \ {t} : u.epoch = epoch => \A k \in u.applied :
               /\ k \in tombstones => k \in tombstones'
               /\ Topped(u, k) => Topped(u, k)' \/ (k \in t.applied /\ ~Topped(t, k))
    BY <2>1 DEF MergeKeeps
  <2>4. /\ Behind /\ WrittenSince /\ torn \subseteq sync.loose
        /\ \A k \in Keys \ sync.loose : WillLoad(k) \in sync.had[k]
        /\ \A u \in merges : u.epoch = epoch =>
               \A k \in u.applied \ sync.loose : OverlaidThen(u, k)
        /\ sync.pc = "flushed" => ~ActiveAwaited /\ Awaited = {}
    BY <1>5 DEF SyncInv
  <2> PICK revived : revived = Revived(t)
    OBVIOUS
  <2>13. sync' = Loosened(sync, revived) /\ torn' = torn \cup revived
    BY <1>5 DEF ApplyMerge
  <2>14. /\ DOMAIN sync' = DOMAIN NoSync /\ sync'.pc = sync.pc /\ sync'.target = sync.target
         /\ sync'.pending = sync.pending /\ sync'.had = sync.had
         /\ sync'.loose = sync.loose \cup revived
    BY <1>2, <1>5, <2>13 DEF Loosened, NoSync
  <2>15. torn' \subseteq sync'.loose /\ sync.loose \subseteq sync'.loose
    BY <2>4, <2>13, <2>14
  <2>5. /\ Ids' = Ids /\ Awaited' = Awaited /\ (ActiveAwaited' <=> ActiveAwaited)
        /\ Awaited \subseteq flushing
    BY <1>1, <2>14 DEF Ids, Awaited, ActiveAwaited
  <2>6. Behind' /\ WrittenSince'
    BY <1>1, <2>4, <2>5, <2>14 DEF Behind, WrittenSince, Holds
  <2>7. ASSUME NEW k \in Keys
        PROVE  /\ Holders(Awaited, k)' = Holders(Awaited, k)
               /\ MemValue(Awaited, k)' = MemValue(Awaited, k)
               /\ k \in Holds(delta)' <=> k \in Holds(delta)
    <3>1. Holders(Awaited, k)' = Holders(Awaited, k)
      BY <2>5 DEF Holders, Holds
    <3>2. Newest(Holders(Awaited, k))' = Newest(Holders(Awaited, k))
      BY <3>1 DEF Newest
    <3>3. k \in Holds(delta)' <=> k \in Holds(delta)
      BY <1>1 DEF Holds
    <3> QED
      BY <3>1, <3>2, <3>3 DEF MemValue
  <2>8. ASSUME NEW k \in Keys
        PROVE  WillLoad(k)' =
                   IF k \in tombstones' THEN None
                   ELSE IF ActiveAwaited /\ k \in Holds(delta) THEN delta.kv[k]
                   ELSE IF Holders(Awaited, k) # {} THEN MemValue(Awaited, k)
                   ELSE SegValue(levels, k)'
    BY <1>1, <2>5, <2>7 DEF WillLoad
  <2>9. ASSUME NEW k \in Keys \ sync'.loose
        PROVE  WillLoad(k)' = WillLoad(k)
    <3>1. CASE k \in tombstones'
      BY <2>3, <2>8, <3>1 DEF WillLoad
    <3>2. CASE k \in tombstones \ tombstones'
      <4>1. Holders(Awaited, k) = {} /\ SegValue(levels, k)' = None
        BY <2>3, <2>5, <2>9, <2>15, <3>2 DEF Holders
      <4>2. k \notin Holds(delta)
        BY <3>2 DEF IInv, InSequence
      <4> QED
        BY <2>8, <3>2, <4>1, <4>2 DEF WillLoad
    <3>3. CASE k \notin tombstones
      <4>1. CASE SegValue(levels, k)' = SegValue(levels, k)
        BY <2>3, <2>8, <3>3, <4>1 DEF WillLoad
      <4>2. CASE k \in t.applied /\ ~Topped(t, k)
        <5>1. (ActiveAwaited /\ k \in Holds(delta)) \/ Holders(Awaited, k) # {}
          BY <1>5, <2>4, <2>9, <2>15, <3>3, <4>2 DEF OverlaidThen
        <5> QED
          BY <2>3, <2>8, <3>3, <5>1 DEF WillLoad
      <4> QED
        BY <2>3, <4>1, <4>2
    <3> QED
      BY <3>1, <3>2, <3>3
  <2>10. ASSUME NEW u \in merges \ {t}, u.epoch = epoch, NEW k \in u.applied \ sync'.loose
         PROVE  OverlaidThen(u, k)'
    <3>1. OverlaidThen(u, k) /\ k \in Keys
      BY <2>4, <2>10, <2>15 DEF IInv, TypeInv, Tasks
    <3>2. /\ k \in tombstones => k \in tombstones'
          /\ Topped(u, k) => Topped(u, k)' \/ (k \in t.applied /\ ~Topped(t, k))
      BY <2>3, <2>10
    <3>3. k \in t.applied => OverlaidThen(t, k)
      BY <1>5, <2>4, <2>10, <2>15
    <3>4. CASE \/ k \in tombstones \/ (ActiveAwaited /\ k \in Holds(delta))
               \/ Holders(Awaited, k) # {} \/ Topped(u, k)'
      BY <2>5, <2>7, <3>1, <3>2, <3>4 DEF OverlaidThen
    <3> QED
      BY <3>1, <3>2, <3>3, <3>4 DEF OverlaidThen
  <2>11. \A u \in merges' : u.epoch = epoch' => \A k \in u.applied \ sync'.loose : OverlaidThen(u, k)'
    BY <1>1, <2>2, <2>10
  <2>12. \A k \in Keys \ sync'.loose : WillLoad(k)' \in sync'.had[k]
    BY <2>4, <2>9, <2>14
  <2> QED
    BY <2>4, <2>5, <2>6, <2>11, <2>12, <2>14, <2>15 DEF SyncInv
<1> QED
  BY <1>3, <1>4, <1>5

LEMMA MergeSegmentsSync ==
    ASSUME IInv, SyncInv, NEW t \in merges, MergeSegments(t)
    PROVE  SyncInv'
<1>1. PICK new : /\ merges' = (merges \ {t}) \cup {new}
                 /\ \A k \in new.applied : k \in tombstones
  <2> PICK kv, dead : /\ kv = IF HasDelta THEN MergedKV(t.segs, tombstones) ELSE Nothing
                      /\ dead = {k \in tombstones : Holders(t.segs, k) # {}}
    OBVIOUS
  <2> PICK one : one = [t EXCEPT !.done = TRUE, !.out = kv,
                                 !.applied = IF kv = Nothing THEN {} ELSE dead]
    OBVIOUS
  <2>1. merges' = (merges \ {t}) \cup {one}
    BY DEF MergeSegments
  <2>2. t \in Tasks
    BY DEF IInv, TypeInv
  <2>3. one.applied = IF kv = Nothing THEN {} ELSE dead
    BY <2>2 DEF Tasks
  <2>4. \A k \in one.applied : k \in tombstones
    BY <2>3
  <2> QED
    BY <2>1, <2>4
<1>2. UNCHANGED <<store, nextId, sync, torn>>
  BY DEF MergeSegments, history
<1>3. SameSync /\ (sync'.pc = "flushed" => ~ActiveAwaited /\ Awaited = {})
  BY <1>2 DEF SameSync, SyncInv
<1> QED
  BY <1>1, <1>2, <1>3, SyncKept

LEMMA QuietSync ==
    ASSUME IInv, SyncInv,
           \/ CompactSignal \/ MaybeScheduleMerges \/ HandleIdleTick \/ SearchEnd
           \/ (\E F \in Filters : SearchBegin(F)) \/ UNCHANGED vars
    PROVE  SyncInv'
<1>1. UNCHANGED <<store, nextId, sync, torn>>
  BY DEF CompactSignal, MaybeScheduleMerges, HandleIdleTick, SearchEnd, SearchBegin, vars, history
<1>2. \A u \in merges' : u \in merges \/ u.applied = {}
  <2>1. CASE MaybeScheduleMerges
    BY <2>1, ScheduledTasks DEF MaybeScheduleMerges
  <2>2. CASE HandleIdleTick
    BY <2>2 DEF HandleIdleTick, Task
  <2>3. CASE CompactSignal \/ SearchEnd \/ (\E F \in Filters : SearchBegin(F)) \/ UNCHANGED vars
    BY <2>3 DEF CompactSignal, SearchEnd, SearchBegin, vars, work
  <2> QED
    BY <2>1, <2>2, <2>3
<1>3. SameSync /\ (sync'.pc = "flushed" => ~ActiveAwaited /\ Awaited = {})
  BY <1>1 DEF SameSync, SyncInv
<1> QED
  BY <1>1, <1>2, <1>3, SyncKept

LEMMA SyncStep ==
    ASSUME IInv, SyncInv, [Next]_vars
    PROVE  SyncInv'
<1>1. CASE \E k \in Keys, v \in Values : Add(k, v)
  BY <1>1, AddSync
<1>2. CASE \E k \in Keys : Delete(k)
  BY <1>2, DeleteSync
<1>3. CASE Clear
  BY <1>3, ClearSync
<1>4. CASE Swap
  BY <1>4, SwapSync
<1>5. CASE \E t \in merges : MergeSegments(t)
  BY <1>5, MergeSegmentsSync
<1>6. CASE \E b \in builds : ApplyFlush(b)
  BY <1>6, ApplyFlushSync
<1>7. CASE \E t \in merges : ApplyMerge(t)
  BY <1>7, ApplyMergeSync
<1>8. CASE FlushDeltaSync
  BY <1>8, FlushDeltaSyncSync
<1>9. CASE WakeUp
  BY <1>9, WakeUpSync
<1>10. CASE SaveBinary
  BY <1>10 DEF SaveBinary, SyncInv, NoSync
<1>11. CASE \/ CompactSignal \/ MaybeScheduleMerges \/ HandleIdleTick \/ SearchEnd
            \/ (\E F \in Filters : SearchBegin(F)) \/ UNCHANGED vars
  BY <1>11, QuietSync
<1> QED
  BY <1>1, <1>2, <1>3, <1>4, <1>5, <1>6, <1>7, <1>8, <1>9, <1>10, <1>11 DEF Next

\* The snapshot that follows FlushDeltaSync has of each key a value that the key had since
\* the call, whatever is written, flushed and merged meanwhile, in whatever order the builds are
\* published and whether or not they fail; but for a key that was deleted and added again since
\* the call, and for those that a build or a merge has torn (FlushDeltaSync, SaveBinary).
THEOREM SnapshotsCover == Spec => SnapshotCovers
<1>1. Init => SyncInv
  BY DEF Init, SyncInv, NoSync
<1>2. IInv /\ SyncInv /\ [Next]_vars => SyncInv'
  BY SyncStep
<1>3. SyncInv => (sync.pc = "flushed" /\ sync'.pc = "idle" =>
                    \A k \in Keys \ sync.loose : Loaded[k] \in sync.had[k])
  <2> SUFFICES ASSUME SyncInv, sync.pc = "flushed", NEW k \in Keys \ sync.loose
               PROVE  Loaded[k] \in sync.had[k]
    OBVIOUS
  <2>1. ~ActiveAwaited /\ Awaited = {} /\ WillLoad(k) \in sync.had[k]
    BY DEF SyncInv
  <2>2. Holders(Awaited, k) = {}
    BY <2>1 DEF Holders
  <2>3. Loaded[k] = WillLoad(k)
    BY <2>1, <2>2 DEF Loaded, WillLoad
  <2> QED
    BY <2>1, <2>3
<1> QED
  BY <1>1, <1>2, <1>3, InvariantHolds, PTL DEF Spec, SnapshotCovers
=============================================================================
