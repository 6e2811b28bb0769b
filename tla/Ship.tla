-------------------------------- MODULE Ship --------------------------------
(***************************************************************************)
(* WAL shipping (internal/ship): Shipper.Tick copies the data directory to *)
(* a remote store while the engine writes, compacts, dies and starts       *)
(* again; publishManifest makes a restore point of what is there; Restore  *)
(* builds a data directory from the last one.                              *)
(*                                                                         *)
(* The engine has one string and one vector.  Every record sets one of the *)
(* two to a value of its own, its number.  The remote store is a map from  *)
(* object keys to contents, whose operations may fail; a Put that fails    *)
(* may have stored the object.                                             *)
(***************************************************************************)
EXTENDS Integers, Sequences, FiniteSets, FiniteSetsExt, SequencesExt

CONSTANTS
    Stores,          \* "kv", "vec" or both
    MaxChunk,        \* maxChunkSize, in records
    RetainManifests, \* Options.RetainManifests
    MaxRecords,      \* bound: records that the engine writes
    MaxFiles,        \* bound: WAL files, one for each start and rotation
    MaxFaults,       \* bound: failures of the remote store
    PowerFails       \* TRUE: the machine may lose power

ASSUME ShipAssumption ==
    /\ Stores \subseteq {"kv", "vec"}
    /\ {MaxChunk, RetainManifests, MaxFiles} \subseteq Nat \ {0}
    /\ {MaxRecords, MaxFaults} \subseteq Nat
    /\ PowerFails \in BOOLEAN

VARIABLES
    log,       \* the engine's records so far, those of deleted files included
    stamp,     \* number of the last record
    synced,    \* records of the last file that an fsync has covered
    files,     \* wal_*.log in the data directory: records by name, a number
    snap,      \* snapshot.wal, or NoFile
    graph,     \* graph_leveled.bin, or NoFile
    comp,      \* the compaction in progress
    names,     \* names given to WAL files and fingerprints so far
    objs,      \* the remote store
    ship,      \* the shipper's fields and its tick in progress
    faults,    \* failures of the remote store so far
    allowed    \* history: values that the last restore point may give back

local == <<log, stamp, synced, files, snap, graph, comp, names>>
vars == <<local, objs, ship, faults, allowed>>

NoFile == [fp |-> 0, val |-> 0, wm |-> 0]

\* The value of a store after the records up to number n.
ValueAt(store, n) ==
    LET set == {i \in DOMAIN log : log[i].store = store /\ log[i].id <= n} IN
    IF set = {} THEN 0 ELSE log[Max(set)].id

\* Every value that a store has had since number n.
ValuesSince(store, n) == {ValueAt(store, m) : m \in n..stamp}

NoComp == [stage |-> "idle", since |-> 0, old |-> {}]

\* Function f with a value for key, and without one.
Extended(f, key, data) == [x \in DOMAIN f \cup {key} |-> IF x = key THEN data ELSE f[x]]
Except(f, keys) == [x \in DOMAIN f \ keys |-> f[x]]

(***************************************************************************)
(* The engine and its files                                                *)
(***************************************************************************)
WithNewFile(f) == Extended(f, names + 1, <<>>)

Write(store) ==
    /\ stamp < MaxRecords
    /\ stamp' = stamp + 1
    /\ log' = Append(log, [store |-> store, id |-> stamp'])
    /\ files' = [files EXCEPT ![names] = Append(@, [store |-> store, id |-> stamp'])]
    /\ UNCHANGED <<synced, snap, graph, comp, names, objs, ship, faults, allowed>>

Sync ==
    /\ PowerFails
    /\ synced < Len(files[names])
    /\ synced' = Len(files[names])
    /\ UNCHANGED <<log, stamp, files, snap, graph, comp, names, objs, ship, faults, allowed>>

\* BackgroundCompact: a rotation, the two snapshots, the deletion of the old files.
Rotate ==
    /\ comp.stage = "idle"
    /\ names < MaxFiles
    /\ comp' = [stage |-> "snapshot", since |-> stamp, old |-> DOMAIN files]
    /\ files' = WithNewFile(files)
    /\ names' = names + 1
    /\ synced' = 0
    /\ UNCHANGED <<log, stamp, snap, graph, objs, ship, faults, allowed>>

\* The rename of snapshot.wal, of which the walk was somewhere after the rotation.
RenameSnapshot(n) ==
    /\ comp.stage = "snapshot"
    /\ n \in comp.since..stamp
    /\ snap' = [fp |-> names, val |-> ValueAt("kv", n), wm |-> n]
    /\ comp' = [comp EXCEPT !.stage = "graph"]
    /\ UNCHANGED <<log, stamp, synced, files, graph, names, objs, ship, faults, allowed>>

RenameGraph(n) ==
    /\ comp.stage = "graph"
    /\ n \in comp.since..stamp
    /\ graph' = [fp |-> names, val |-> ValueAt("vec", n), wm |-> n]
    /\ comp' = [comp EXCEPT !.stage = "cleanup"]
    /\ UNCHANGED <<log, stamp, synced, files, snap, names, objs, ship, faults, allowed>>

CleanupOldWALs ==
    /\ comp.stage = "cleanup"
    /\ files' = Except(files, comp.old)
    /\ comp' = NoComp
    /\ UNCHANGED <<log, stamp, synced, snap, graph, names, objs, ship, faults, allowed>>

(***************************************************************************)
(* The remote store                                                        *)
(***************************************************************************)
Has(key) == key \in DOMAIN objs
With(key, data) == Extended(objs, key, data)
Without(key) == Except(objs, {key})

Fails == faults < MaxFaults /\ faults' = faults + 1

NoManifest == [gen |-> 0, snap |-> 0, graph |-> 0, wals |-> <<>>]

\* The tick ends; what it was doing is forgotten.
Idle(s) == [s EXCEPT !.pc = "idle", !.changed = FALSE, !.refs = FALSE, !.before = {}, !.todo = {},
                     !.open = <<>>, !.manifest = NoManifest, !.kill = {}, !.covered = 0]

\* Put succeeds and the tick goes on, or it fails and the tick ends; data-objects
\* and manifests are written in the same way.
Put(key, data, onward) ==
    \/ objs' = With(key, data) /\ ship' = onward /\ UNCHANGED faults
    \/ objs' \in {objs, With(key, data)} /\ ship' = Idle(ship) /\ Fails

\* List or Get fails and the tick ends.
Unreachable == Fails /\ ship' = Idle(ship) /\ UNCHANGED objs

ChunkKey(name, offset) == <<"wal", name, offset>>
FileKey(kind, fp) == <<kind, fp>>
ManifestKey(gen) == <<"gen", gen>>
LatestKey == <<"latest">>

Gens == {key[2] : key \in {x \in DOMAIN objs : x[1] = "gen"}}

\* MANIFEST.json; without it the highest of manifests/.
LatestManifest ==
    IF Has(LatestKey) THEN objs[LatestKey]
    ELSE IF Gens = {} THEN NoManifest
    ELSE objs[ManifestKey(Max(Gens))]

\* Mutant: the chunks of the log are forgotten.
LiveWithoutChunks(m) == {ManifestKey(m.gen), FileKey("snap", m.snap), FileKey("graph", m.graph)}

LiveObjects(m) ==
    {ManifestKey(m.gen)}
    \cup {key \in {FileKey("snap", m.snap), FileKey("graph", m.graph)} : key[2] # 0}
    \cup UNION {{ChunkKey(n, m.wals[n][j].offset) : j \in DOMAIN m.wals[n]} : n \in DOMAIN m.wals}

(***************************************************************************)
(* The shipper                                                             *)
(***************************************************************************)
Size(chunks) == IF chunks = <<>> THEN 0 ELSE Last(chunks).offset + Last(chunks).size

\* s.wals as a function; a file without an entry has no chunks.
NoChunks == [n \in 1..MaxFiles |-> <<>>]
NewShipper == [pc |-> "idle", loaded |-> FALSE, gen |-> 0, snap |-> 0, graph |-> 0,
               wals |-> NoChunks, known |-> {}, published |-> FALSE, changed |-> FALSE,
               refs |-> FALSE, before |-> {}, todo |-> {}, open |-> <<>>,
               manifest |-> NoManifest, kill |-> {},
               covered |-> 0]   \* history: stamp when the tick began

\* loadState: after a start the shipper goes on from the last manifest.
LoadState(m) ==
    IF m = NoManifest THEN ship
    ELSE [ship EXCEPT !.gen = m.gen, !.snap = m.snap, !.graph = m.graph, !.published = TRUE,
              !.known = DOMAIN m.wals,
              !.wals = [n \in 1..MaxFiles |-> IF n \in DOMAIN m.wals THEN m.wals[n] ELSE <<>>]]

\* The shipper as a tick finds it.
Loaded == IF ship.loaded THEN ship ELSE LoadState(LatestManifest)

TickBegin ==
    /\ ship.pc = "idle"
    /\ \/ /\ ship' = [Loaded EXCEPT !.pc = "wals", !.loaded = TRUE, !.before = DOMAIN files,
                                     !.todo = DOMAIN files, !.covered = stamp]
          /\ UNCHANGED <<objs, faults>>
       \/ ~ship.loaded /\ Unreachable
    /\ UNCHANGED <<local, allowed>>

Current == Min(ship.todo)
Shipped(name) == Size(ship.wals[name])

Closed(s) == [s EXCEPT !.pc = "wals", !.todo = @ \ {Current}, !.open = <<>>]

\* One turn of shipWALTail's loop: the next chunk of a file of these records.
Chunk(recs) ==
    LET from == Shipped(Current) IN SubSeq(recs, from + 1, Min({Len(recs), from + MaxChunk}))

PutChunk(recs) ==
    LET next == [offset |-> Shipped(Current), size |-> Len(Chunk(recs))]
        s    == [ship EXCEPT !.known = @ \cup {Current}, !.changed = TRUE,
                             !.wals[Current] = Append(@, next)]
    IN  Put(ChunkKey(Current, next.offset), Chunk(recs),
            IF Size(s.wals[Current]) = Len(recs) THEN Closed(s)
            ELSE [s EXCEPT !.pc = "chunks", !.open = recs])

\* shipWALTail takes the size of the next file, and ships the first chunk; a file
\* that is gone is passed over, one that is shorter than what was shipped ends the tick.
OpenWAL ==
    /\ ship.pc = "wals"
    /\ ship.todo # {}
    /\ LET recs == files[Current]
           s    == [ship EXCEPT !.known = @ \cup {Current}]
       IN  CASE Current \notin DOMAIN files -> ship' = Closed(ship) /\ UNCHANGED <<objs, faults>>
             [] Len(recs) < Shipped(Current) -> ship' = Idle(s) /\ UNCHANGED <<objs, faults>>
             [] Len(recs) = Shipped(Current) -> ship' = Closed(s) /\ UNCHANGED <<objs, faults>>
             [] OTHER -> PutChunk(recs)
    /\ UNCHANGED <<local, allowed>>

\* The next chunks, up to the size that OpenWAL saw.
NextChunk ==
    /\ ship.pc = "chunks"
    /\ PutChunk(ship.open)
    /\ UNCHANGED <<local, allowed>>

\* shipSnapshotFile: a file with a new fingerprint goes as a whole.
ShipFile(kind, file, onward) ==
    IF file = NoFile \/ ship[kind] = file.fp
    THEN ship' = [ship EXCEPT !.pc = onward] /\ UNCHANGED <<objs, faults>>
    ELSE Put(FileKey(kind, file.fp), file,
             [ship EXCEPT !.pc = onward, ![kind] = file.fp, !.changed = TRUE, !.refs = TRUE])

ShipSnapshot ==
    /\ ship.pc = "wals"
    /\ ship.todo = {}
    /\ ShipFile("snap", snap, "graph")
    /\ UNCHANGED <<local, allowed>>

ShipGraph ==
    /\ ship.pc = "graph"
    /\ ShipFile("graph", graph, "build")
    /\ UNCHANGED <<local, allowed>>

\* buildManifest is ready when every file but the last has been shipped to its end.
Ready ==
    /\ DOMAIN files \subseteq ship.known
    /\ \A n \in DOMAIN files \ {names} : Len(files[n]) = Shipped(n)

Manifest ==
    [gen |-> ship.gen + 1, snap |-> ship.snap, graph |-> ship.graph,
     wals |-> [n \in DOMAIN files |-> ship.wals[n]]]

\* Mutant: the names of the files are not compared.
StableNever == TRUE

\* The files are those that were there when the tick began.
Stable == DOMAIN files = ship.before

\* publishManifest: first manifests/<gen>, then MANIFEST.json.
Publishes(m) ==
    allowed' = IF objs' # objs /\ LatestManifest' = m
               THEN [s \in Stores |-> ValuesSince(s, ship.covered)] ELSE allowed

PutManifest ==
    /\ ship.pc = "build"
    /\ IF Stable /\ (ship.changed \/ ~ship.published) /\ Ready
       THEN /\ Put(ManifestKey(ship.gen + 1), Manifest,
                   [ship EXCEPT !.pc = "latest", !.manifest = Manifest])
            /\ Publishes(Manifest)
       ELSE ship' = Idle(ship) /\ UNCHANGED <<objs, faults, allowed>>
    /\ UNCHANGED local

PutLatest ==
    /\ ship.pc = "latest"
    /\ Put(LatestKey, ship.manifest,
           LET s == [ship EXCEPT !.gen = @ + 1, !.published = TRUE]
           IN  IF ship.refs THEN [s EXCEPT !.pc = "retention"] ELSE Idle(s))
    /\ Publishes(ship.manifest)
    /\ UNCHANGED local

\* retention: what the last RetainManifests manifests do not refer to is deleted.
Kept == {g \in Gens : Cardinality({h \in Gens : h > g}) < RetainManifests}

Live == {LatestKey} \cup UNION {LiveObjects(objs[ManifestKey(g)]) : g \in Kept}

\* After the deletions the files that no manifest has are forgotten.
Forgotten(s, live) ==
    LET gone == {n \in s.known : s.wals[n] # <<>> /\ ChunkKey(n, 0) \notin live} IN
    [s EXCEPT !.known = @ \ gone,
              !.wals = [n \in 1..MaxFiles |-> IF n \in gone THEN <<>> ELSE s.wals[n]]]

\* List and the Gets, then the Deletes, which another tick does not go on with.
Retention ==
    /\ ship.pc = "retention"
    /\ \/ /\ ship' = IF DOMAIN objs \subseteq Live THEN Idle(Forgotten(ship, Live))
                     ELSE [ship EXCEPT !.pc = "delete", !.kill = DOMAIN objs \ Live]
          /\ UNCHANGED <<objs, faults>>
       \/ Unreachable
    /\ UNCHANGED <<local, allowed>>

Delete(key) ==
    /\ ship.pc = "delete"
    /\ key \in ship.kill
    /\ \/ /\ objs' = Without(key)
          /\ ship' = IF ship.kill = {key} THEN Idle(Forgotten(ship, DOMAIN objs'))
                     ELSE [ship EXCEPT !.kill = @ \ {key}]
          /\ UNCHANGED faults
       \/ objs' \in {objs, Without(key)} /\ Fails /\ ship' = Idle(ship)
    /\ UNCHANGED <<local, allowed>>

(***************************************************************************)
(* The process dies; what an fsync had not covered may go with the power   *)
(***************************************************************************)
Restart(kept, gone) ==
    /\ names < MaxFiles
    /\ log' = SelectSeq(log, LAMBDA r : r.id \notin gone)
    /\ files' = WithNewFile([files EXCEPT ![names] = kept])
    /\ names' = names + 1
    /\ synced' = 0
    /\ comp' = NoComp
    /\ ship' = NewShipper
    /\ UNCHANGED <<stamp, snap, graph, objs, faults, allowed>>

Kill == Restart(files[names], {})

\* A lost record is still there after the start if a snapshot has it; a string's may
\* be overwritten by an older record of a file, a vector's not (the watermark).
PowerLoss(n) ==
    LET recs == files[names]
        kept == SubSeq(recs, 1, n)
        left == Range(kept) \cup UNION {Range(files[f]) : f \in DOMAIN files \ {names}}
        saved(r) == IF r.store = "vec" THEN r.id <= graph.wm
                    ELSE r.id <= snap.wm /\ \A l \in left : l.store # "kv"
    IN
    /\ PowerFails
    /\ n \in synced..(Len(recs) - 1)
    /\ Restart(kept, {recs[i].id : i \in {j \in (n + 1)..Len(recs) : ~saved(recs[j])}})

Init ==
    /\ log = <<>> /\ stamp = 0 /\ synced = 0
    /\ files = [n \in {1} |-> <<>>] /\ names = 1
    /\ snap = NoFile /\ graph = NoFile
    /\ comp = NoComp
    /\ objs = [x \in {} |-> 0]
    /\ ship = NewShipper
    /\ faults = 0
    /\ allowed = [s \in Stores |-> {0}]

Tick ==
    \/ TickBegin \/ OpenWAL \/ NextChunk \/ ShipSnapshot \/ ShipGraph
    \/ PutManifest \/ PutLatest \/ Retention
    \/ \E key \in ship.kill : Delete(key)

Next ==
    \/ \E s \in Stores : Write(s)
    \/ Sync
    \/ Rotate
    \/ \E n \in 0..MaxRecords : RenameSnapshot(n)
    \/ \E n \in 0..MaxRecords : RenameGraph(n)
    \/ CleanupOldWALs
    \/ Tick
    \/ Kill
    \/ \E n \in 0..MaxRecords : PowerLoss(n)

Spec == Init /\ [][Next]_vars

\* The ticker ticks, and a compaction ends.
FairSpec ==
    /\ Spec
    /\ WF_vars(Tick)
    /\ WF_vars(\E n \in 0..MaxRecords : RenameSnapshot(n) \/ RenameGraph(n))
    /\ WF_vars(CleanupOldWALs)

(***************************************************************************)
(* Properties                                                              *)
(***************************************************************************)
TypeOK ==
    /\ names \in DOMAIN files /\ DOMAIN files \subseteq 1..names
    /\ synced <= Len(files[names])
    /\ comp.stage \in {"idle", "snapshot", "graph", "cleanup"}
    /\ \A n \in 1..MaxFiles : ship.wals[n] # <<>> => n \in ship.known

\* Restore finds every object of manifest m, and every chunk as long as m says and
\* where the one before it ends.
Restorable(m) ==
    /\ \A key \in LiveObjects(m) : Has(key)
    /\ \A n \in DOMAIN m.wals : \A j \in DOMAIN m.wals[n] :
         LET c == m.wals[n][j] IN
         /\ Len(objs[ChunkKey(n, c.offset)]) = c.size
         /\ c.offset = Size(SubSeq(m.wals[n], 1, j - 1))

\* The last manifest can be restored at any time: during a tick, after a failure in
\* it, after a crash, while retention deletes, and while nothing but manifests/ is there.
LatestIsRestorable == LatestManifest # NoManifest => Restorable(LatestManifest)

\* So can those that retention keeps, as long as no failed upload has stored its
\* object: a shipper that repeats a generation after a failure may be killed before
\* it has replaced MANIFEST.json, and lengthen a chunk of it after the restart.
HistoryIsRestorable ==
    Has(LatestKey) /\ faults = 0 =>
        \A g \in Kept : g <= objs[LatestKey].gen => Restorable(objs[ManifestKey(g)])

\* Every manifest that a restore may choose leads to objects that are all there and
\* are what it says, whenever the shipper dies or an upload fails.
ManifestsRestorable == LatestIsRestorable /\ HistoryIsRestorable

\* What Restore and the replay that follows make of manifest m: the records of the
\* chunks over the two snapshots, without the vector's records up to the watermark.
ChunkRecs(n, chunks) == FlattenSeq([j \in DOMAIN chunks |-> objs[ChunkKey(n, chunks[j].offset)]])
RestoredRecs(m) ==
    FlattenSeq([n \in 1..MaxFiles |-> IF n \in DOMAIN m.wals THEN ChunkRecs(n, m.wals[n]) ELSE <<>>])
FileOf(kind, fp) == IF fp = 0 THEN NoFile ELSE objs[FileKey(kind, fp)]

Restored(m) ==
    [s \in Stores |->
        LET recs == RestoredRecs(m)
            file == FileOf(IF s = "kv" THEN "snap" ELSE "graph",
                           IF s = "kv" THEN m.snap ELSE m.graph)
            set  == {i \in DOMAIN recs : recs[i].store = s /\ (s = "vec" => recs[i].id > file.wm)}
        IN  IF set = {} THEN file.val ELSE recs[Max(set)].id]

\* A restore point loses nothing that was written before the tick that published it
\* and brings nothing back that was overwritten by then.
RestoreCoversTick ==
    LatestManifest # NoManifest => \A s \in Stores : Restored(LatestManifest)[s] \in allowed[s]

\* What is shipped is in a restore point in the end.
Unpublished ==
    \E s \in Stores : LatestManifest = NoManifest \/ Restored(LatestManifest)[s] # ValueAt(s, stamp)
PublishedInTheEnd == Unpublished ~> ~Unpublished
=============================================================================
