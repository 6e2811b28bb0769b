-------------------------------- MODULE Wal --------------------------------
(***************************************************************************)
(* The write-ahead log of internal/wal: the channel of BatchWAL, the       *)
(* flusher, the bufio writer, the wal_*.log files with what the page cache *)
(* and what the disk hold of them, rotation, the watermark that a snapshot *)
(* carries, deletion of old files, crash, restart and ordered shutdown.    *)
(*                                                                         *)
(* A record is opaque here (Records).  A frame is a record with the LSN    *)
(* under its CRC; a frame of which only a part reached a file is Torn.     *)
(* A file is named by the time in its name.  BackgroundCompact puts nano-  *)
(* seconds into the name, main only seconds, and the two formats sort as   *)
(* the numbers do: wal_S.log < wal_S_n.log < wal_(S+1).log.                *)
(***************************************************************************)
EXTENDS Integers, Sequences

CONSTANTS
    Records,          \* payloads of wal.Entry
    ChannelSize,      \* channelSize: capacity of BatchWAL.ch
    BatchSize,        \* batchSize: most records of one flushBatch
    NanosPerSecond,   \* ticks of the clock in one second of a file name
    MaxLSN,           \* bound: highest LSN handed out
    MaxTime,          \* bound: last time of a start or of a rotation
    Crashes,          \* subset of {"kill", "power"}: how the process may die
    DiskFaults,       \* TRUE: write, flush and fsync may fail
    DirEntryNeedsSync \* TRUE: a new name is durable only after FsyncDir

ASSUME ChannelAssumption == ChannelSize \in Nat \ {0}
ASSUME BatchAssumption == BatchSize \in Nat \ {0}
ASSUME ClockAssumption == NanosPerSecond \in Nat \ {0}
ASSUME BoundAssumption == MaxLSN \in Nat /\ MaxTime \in Nat
ASSUME FaultAssumption == /\ Crashes \subseteq {"kill", "power"}
                          /\ {DiskFaults, DirEntryNeedsSync} \subseteq BOOLEAN

VARIABLES
    chan,      \* BatchWAL.ch, oldest record first
    batch,     \* encodeBuf: frames with an LSN, not yet given to the writer
    buf,       \* frames in WAL.writer (bufio), not yet given to the OS
    files,     \* name -> what the OS holds of the file, and how much is durable
    cur,       \* WAL.file: the name of the file being appended to
    nextLSN,   \* WAL.nextLSN
    failed,    \* WAL.failErr # nil
    stuck,     \* the bufio writer returns its sticky error
    phase,     \* "down", "up", "closing", "stopped" (graceful), see Close
    time,      \* time of the last start or rotation
    comp,      \* the compaction in progress
    snapLSN,   \* baseLSN in the header of snapshot.wal (0: no snapshot)
    graphLSN,  \* watermark in graph_leveled.bin (0: no file)
    accepted,  \* history: records sent to the channel in this run, in order
    runLSN,    \* history: nextLSN at the start of this run
    synced,    \* history: LSNs that a successful fsync has covered
    dropped,   \* history: LSNs in the files that CleanupOldWALs has deleted
    skipped,   \* history: LSNs that a start found lost, and passed over
    faulted,   \* history: an I/O call of this run has failed
    backdated  \* history: a start took a name that is not above all that are there

walVars == <<chan, batch, buf, files, cur, nextLSN, failed, stuck, phase, time,
             comp, snapLSN, graphLSN, accepted, runLSN, synced, dropped, skipped,
             faulted, backdated>>

running == phase \in {"up", "closing"}

(***************************************************************************)
(* Frames and files                                                        *)
(***************************************************************************)
Frame == [lsn : Nat \ {0}, rec : Records]

\* A frame cut short by a crash or a failed write.  LSN 0 is "no LSN".
Torn == [lsn |-> 0]

IsTorn(fr) == fr.lsn = 0

WalFile == [frames : Seq(Frame \cup {Torn}), synced : Nat, linked : BOOLEAN]

\* The LSNs of the whole frames of frs.
LSNsIn(frs) == { frs[i].lsn : i \in {j \in DOMAIN frs : ~IsTorn(frs[j])} }

\* ReadFile gives the i-th frame of a file when it is whole and no torn frame
\* comes before it: reading stops at the first frame that fails its CRC.
Readable(f, i) ==
    /\ i \in DOMAIN files[f].frames
    /\ \A j \in 1..i : ~IsTorn(files[f].frames[j])

ReadableLSNs ==
    UNION { { files[f].frames[i].lsn : i \in {j \in DOMAIN files[f].frames : Readable(f, j)} }
            : f \in DOMAIN files }

\* wal_<yyyymmdd_hhmmss>.log: the name main gives the file, cut to the second.
StartName(t) == t - (t % NanosPerSecond)

AppendFrames(file, frs) == [file EXCEPT !.frames = @ \o frs]

\* Mutant: the writer is flushed and the file not fsynced.
FlushedNoFsync(file, frs) == AppendFrames(file, frs)

\* writer.Flush and file.Sync on the current file.
Flushed(file, frs) ==
    [AppendFrames(file, frs) EXCEPT !.synced = Len(file.frames) + Len(frs)]

\* What a write that fails may leave in the file: some whole frames of frs and,
\* perhaps, a part of the next one.
Leftovers(frs) ==
    { SubSeq(frs, 1, k) : k \in 0..Len(frs) } \cup
    { Append(SubSeq(frs, 1, k), Torn) : k \in 0..(Len(frs) - 1) }

\* A compaction: keep is newWALPath, wm the watermark.
Idle == [stage |-> "idle", keep |-> 0, wm |-> 0]

Init ==
    /\ chan = <<>> /\ batch = <<>> /\ buf = <<>>
    /\ files = [f \in {} |-> <<>>]
    /\ cur = 0
    /\ nextLSN = 1
    /\ failed = FALSE /\ stuck = FALSE
    /\ phase = "down"
    /\ time = 0
    /\ comp = Idle
    /\ snapLSN = 0 /\ graphLSN = 0
    /\ accepted = <<>> /\ runLSN = 1 /\ synced = {} /\ dropped = {} /\ skipped = {}
    /\ faulted = FALSE /\ backdated = FALSE

(***************************************************************************)
(* Append path: BatchWAL.Write, the flusher and WAL.WriteBatch             *)
(***************************************************************************)
\* BatchWAL.Write blocks while the channel is full.
Write(r) ==
    /\ phase = "up"
    /\ Len(chan) < ChannelSize
    /\ nextLSN + Len(chan) <= MaxLSN
    /\ chan' = Append(chan, r)
    /\ accepted' = Append(accepted, r)
    /\ UNCHANGED <<batch, buf, files, cur, nextLSN, failed, stuck, phase, time, comp,
                   snapLSN, graphLSN, runLSN, synced, dropped, skipped, faulted, backdated>>

\* Mutant: no flush before the batch is full (no timer, no drain).
TakesOnlyFull(n) == n = BatchSize /\ n <= Len(chan)

\* A batch ends when it is full, at the timer or when the channel is empty.
Takes(n) == n \in 1..Len(chan) /\ n <= BatchSize

\* Mutant: the flusher drops the record it looked at last.
LeavesOneLess(n) == SubSeq(chan, n + 2, Len(chan))

Leaves(n) == SubSeq(chan, n + 1, Len(chan))

\* The flusher takes what it finds in the channel, at most BatchSize records,
\* and flushBatch reserves their LSNs with one atomic add.  Until WriteBatch
\* these LSNs are assigned and their records are in no file.
Reserve(n) ==
    /\ running
    /\ batch = <<>>
    /\ Takes(n)
    /\ batch' = [i \in 1..n |-> [lsn |-> nextLSN + i - 1, rec |-> chan[i]]]
    /\ chan' = Leaves(n)
    /\ nextLSN' = nextLSN + n
    /\ UNCHANGED <<buf, files, cur, failed, stuck, phase, time, comp, snapLSN,
                   graphLSN, accepted, runLSN, synced, dropped, skipped,
                   faulted, backdated>>

\* Mutant: a batch overtakes what the writer still holds.
OutgoingOvertakes == batch \o buf

\* What the writer holds once it has been given the batch.
Outgoing == buf \o batch

\* The writer keeps the batch and hands its oldest frames to the OS whenever
\* its buffer is full: k of the frames it holds reach the file.
WriteBatch(k) ==
    /\ running
    /\ batch # <<>>
    /\ ~stuck
    /\ LET out == Outgoing IN
         /\ k \in 0..Len(out)
         /\ files' = [files EXCEPT ![cur] = AppendFrames(@, SubSeq(out, 1, k))]
         /\ buf' = SubSeq(out, k + 1, Len(out))
    /\ batch' = <<>>
    /\ UNCHANGED <<chan, cur, nextLSN, failed, stuck, phase, time, comp, snapLSN,
                   graphLSN, accepted, runLSN, synced, dropped, skipped,
                   faulted, backdated>>

\* A failed write latches fail-stop; bufio refuses everything after it.
WriteBatchFail ==
    /\ running
    /\ batch # <<>>
    /\ \/ /\ ~stuck /\ DiskFaults
          /\ \E rest \in Leftovers(buf \o batch) :
                files' = [files EXCEPT ![cur] = AppendFrames(@, rest)]
       \/ stuck /\ UNCHANGED files
    /\ batch' = <<>>
    /\ buf' = <<>>
    /\ stuck' = TRUE /\ failed' = TRUE /\ faulted' = TRUE
    /\ UNCHANGED <<chan, cur, nextLSN, phase, time, comp, snapLSN, graphLSN,
                   accepted, runLSN, synced, dropped, skipped, backdated>>

(***************************************************************************)
(* Syncer: WAL.Sync every interval                                         *)
(***************************************************************************)
\* Everything given to the writer becomes durable.
SyncCurrent == synced' = synced \cup LSNsIn(files[cur].frames \o buf)

Sync ==
    /\ phase = "up"
    /\ ~stuck
    /\ files' = [files EXCEPT ![cur] = Flushed(@, buf)]
    /\ SyncCurrent
    /\ buf' = <<>>
    /\ UNCHANGED <<chan, batch, cur, nextLSN, failed, stuck, phase, time, comp,
                   snapLSN, graphLSN, accepted, runLSN, dropped, skipped,
                   faulted, backdated>>

\* Flush fails (and stays failed), or the flush succeeds and fsync fails.
SyncFail ==
    /\ phase = "up"
    /\ \/ /\ ~stuck /\ DiskFaults
          /\ \E rest \in Leftovers(buf) :
                files' = [files EXCEPT ![cur] = AppendFrames(@, rest)]
          /\ stuck' = TRUE
       \/ /\ ~stuck /\ DiskFaults
          /\ files' = [files EXCEPT ![cur] = AppendFrames(@, buf)]
          /\ stuck' = FALSE
       \/ stuck /\ UNCHANGED <<files, stuck>>
    /\ buf' = <<>>
    /\ failed' = TRUE /\ faulted' = TRUE
    /\ UNCHANGED <<chan, batch, cur, nextLSN, phase, time, comp, snapLSN,
                   graphLSN, accepted, runLSN, synced, dropped, skipped, backdated>>

(***************************************************************************)
(* Compaction: WAL.Rotate, LastLSN, the snapshot that takes this watermark *)
(* and CleanupOldWALs.  One compaction at a time here.                     *)
(***************************************************************************)
NewFile == [frames |-> <<>>, synced |-> 0, linked |-> FALSE]

\* FsyncDir makes every name in the directory durable.
LinkAll(fs) == [f \in DOMAIN fs |-> [fs[f] EXCEPT !.linked = TRUE]]

\* Mutant: Rotate flushes the old file and does not fsync it.
RotatedToNoFsync(t) ==
    [f \in DOMAIN files \cup {t} |->
        IF f = t THEN NewFile ELSE IF f = cur THEN AppendFrames(files[f], buf) ELSE files[f]]

\* The old file flushed and fsynced, and the new, empty one.
RotatedTo(t) ==
    [f \in DOMAIN files \cup {t} |->
        IF f = t THEN NewFile ELSE IF f = cur THEN Flushed(files[f], buf) ELSE files[f]]

\* wal_<yyyymmdd_hhmmss>_<ns>.log is created now.
RotationTime(t) == t \in (time + 1)..MaxTime /\ t % NanosPerSecond # 0

SwitchTo(t) ==
    /\ running
    /\ comp = Idle
    /\ ~stuck
    /\ RotationTime(t)
    /\ time' = t
    /\ cur' = t
    /\ SyncCurrent
    /\ buf' = <<>>
    /\ UNCHANGED <<chan, batch, nextLSN, failed, stuck, phase, snapLSN, graphLSN,
                   accepted, runLSN, dropped, skipped, backdated>>

Rotate(t) ==
    /\ SwitchTo(t)
    /\ files' = LinkAll(RotatedTo(t))
    /\ comp' = [stage |-> "rotated", keep |-> t, wm |-> 0]
    /\ UNCHANGED faulted

\* FsyncDir fails after the switch: the writer stays on the new file and the
\* compaction is given up.
RotateDirFail(t) ==
    /\ DiskFaults
    /\ SwitchTo(t)
    /\ files' = RotatedTo(t)
    /\ faulted' = TRUE
    /\ UNCHANGED comp

\* The flush or the fsync of the old file fails: the new file is removed and the
\* compaction is given up.  Rotate does not call fail.
RotateFail ==
    /\ running
    /\ comp = Idle
    /\ \/ /\ ~stuck /\ DiskFaults
          /\ \E rest \in Leftovers(buf) :
                files' = [files EXCEPT ![cur] = AppendFrames(@, rest)]
          /\ stuck' = TRUE
       \/ /\ ~stuck /\ DiskFaults
          /\ files' = [files EXCEPT ![cur] = AppendFrames(@, buf)]
          /\ stuck' = FALSE
       \/ stuck /\ UNCHANGED <<files, stuck>>
    /\ buf' = <<>>
    /\ faulted' = TRUE
    /\ UNCHANGED <<chan, batch, cur, nextLSN, failed, phase, time, comp, snapLSN,
                   graphLSN, accepted, runLSN, synced, dropped, skipped, backdated>>

\* Mutant: the old files are deleted while the snapshot is being written.
LastLSNThenCleanup ==
    /\ running
    /\ comp.stage = "rotated"
    /\ comp' = [comp EXCEPT !.stage = "cleanup", !.wm = nextLSN - 1]
    /\ UNCHANGED <<chan, batch, buf, files, cur, nextLSN, failed, stuck, phase,
                   time, snapLSN, graphLSN, accepted, runLSN, synced, dropped,
                   skipped, faulted, backdated>>

\* BackgroundCompact reads LastLSN after Rotate has released the lock: by then
\* the flusher may have reserved more LSNs.
LastLSN ==
    /\ running
    /\ comp.stage = "rotated"
    /\ comp' = [comp EXCEPT !.stage = "snapshot", !.wm = nextLSN - 1]
    /\ UNCHANGED <<chan, batch, buf, files, cur, nextLSN, failed, stuck, phase,
                   time, snapLSN, graphLSN, accepted, runLSN, synced, dropped,
                   skipped, faulted, backdated>>

\* WriteSnapshot has renamed snapshot.wal and fsynced the directory.
SnapshotDone ==
    /\ running
    /\ comp.stage = "snapshot"
    /\ snapLSN' = comp.wm
    /\ comp' = [comp EXCEPT !.stage = "vectors"]
    /\ files' = LinkAll(files)
    /\ UNCHANGED <<chan, batch, buf, cur, nextLSN, failed, stuck, phase, time,
                   graphLSN, accepted, runLSN, synced, dropped, skipped, faulted, backdated>>

\* saveVectors: SetSnapshotWatermark, before anything is collected or written.
SetSnapshotWatermark ==
    /\ running
    /\ comp.stage = "vectors"
    /\ comp' = [comp EXCEPT !.stage = "graph", !.wm = nextLSN - 1]
    /\ UNCHANGED <<chan, batch, buf, files, cur, nextLSN, failed, stuck, phase, time,
                   snapLSN, graphLSN, accepted, runLSN, synced, dropped, skipped,
                   faulted, backdated>>

\* saveVectors has renamed graph_leveled.bin and fsynced the directory.
VectorsSaved ==
    /\ running
    /\ comp.stage = "graph"
    /\ graphLSN' = comp.wm
    /\ comp' = [comp EXCEPT !.stage = "cleanup"]
    /\ files' = LinkAll(files)
    /\ UNCHANGED <<chan, batch, buf, cur, nextLSN, failed, stuck, phase, time,
                   snapLSN, accepted, runLSN, synced, dropped, skipped, faulted, backdated>>

\* WriteSnapshot or saveVectors failed: the old files stay.  FsyncDir fails after
\* the rename: the new snapshot is in place by then.
SnapshotFail ==
    /\ running
    /\ DiskFaults
    /\ comp.stage \in {"snapshot", "vectors", "graph"}
    /\ comp' = Idle
    /\ \/ UNCHANGED <<snapLSN, graphLSN>>
       \/ comp.stage = "snapshot" /\ snapLSN' = comp.wm /\ UNCHANGED graphLSN
       \/ comp.stage = "graph" /\ graphLSN' = comp.wm /\ UNCHANGED snapLSN
    /\ UNCHANGED <<chan, batch, buf, files, cur, nextLSN, failed, stuck, phase,
                   time, accepted, runLSN, synced, dropped, skipped, faulted, backdated>>

\* Mutant: CleanupOldWALs takes the file it should keep.
OldWALsAndCurrent(keep) == { f \in DOMAIN files : f <= keep }

OldWALs(keep) == { f \in DOMAIN files : f < keep }

\* One turn of the loop of CleanupOldWALs, or its end.  Glob returns the names in
\* order; a Remove that fails is passed over.
Cleanup ==
    /\ running
    /\ comp.stage = "cleanup"
    /\ \/ /\ DiskFaults \/ OldWALs(comp.keep) = {}
          /\ comp' = Idle
          /\ UNCHANGED <<files, dropped>>
       \/ \E f \in OldWALs(comp.keep) :
          /\ DiskFaults \/ \A g \in OldWALs(comp.keep) : f <= g
          /\ files' = [g \in DOMAIN files \ {f} |-> files[g]]
          /\ dropped' = dropped \cup LSNsIn(files[f].frames)
          /\ UNCHANGED comp
    /\ UNCHANGED <<chan, batch, buf, cur, nextLSN, failed, stuck, phase, time,
                   snapLSN, graphLSN, accepted, runLSN, synced, skipped, faulted, backdated>>

(***************************************************************************)
(* Start and stop                                                          *)
(***************************************************************************)
\* Mutant: recovery does not bump the LSN by the watermark of snapshot.wal.
KnownLSNsNoWatermark == {graphLSN} \cup ReadableLSNs

\* What recovery bumps maxLSN by.
KnownLSNs == {snapLSN, graphLSN} \cup ReadableLSNs

\* main: read everything, open the file of this second, continue the LSNs.  When
\* this run or the one before has already opened or rotated to a file in this
\* second, the name is not above all others: the start is backdated.
Start(t) ==
    /\ phase \in {"down", "stopped"}
    /\ t \in (time + 1)..MaxTime
    /\ time' = t
    /\ backdated' = (backdated \/ \E f \in DOMAIN files : StartName(t) <= f)
    /\ cur' = StartName(t)
    /\ files' = [f \in DOMAIN files \cup {StartName(t)} |->
                    IF f \in DOMAIN files THEN files[f] ELSE NewFile]
    /\ \E maxLSN \in KnownLSNs :
          /\ \A l \in KnownLSNs : l <= maxLSN
          /\ nextLSN' = maxLSN + 1
    /\ runLSN' = nextLSN'
    /\ accepted' = <<>>
    /\ phase' = "up"
    /\ chan' = <<>> /\ batch' = <<>> /\ buf' = <<>>
    /\ failed' = FALSE /\ stuck' = FALSE /\ faulted' = FALSE
    /\ comp' = Idle
    /\ skipped' = skipped \cup { l \in 1..(nextLSN' - 1) : \A r \in ReadableLSNs : r < l }
    /\ UNCHANGED <<snapLSN, graphLSN, synced, dropped>>

\* Shutdown has silenced every sender; bw.Close closes the channel.
BeginClose ==
    /\ phase = "up"
    /\ phase' = "closing"
    /\ UNCHANGED <<chan, batch, buf, files, cur, nextLSN, failed, stuck, time,
                   comp, snapLSN, graphLSN, accepted, runLSN, synced, dropped,
                   skipped, faulted, backdated>>

\* Mutant: shutdown does not wait for the flusher.
CloseNoWait ==
    /\ phase = "closing"
    /\ ~stuck
    /\ files' = [files EXCEPT ![cur] = Flushed(@, buf)]
    /\ SyncCurrent
    /\ buf' = <<>>
    /\ phase' = "stopped"
    /\ UNCHANGED <<chan, batch, cur, nextLSN, failed, stuck, time, comp, snapLSN,
                   graphLSN, accepted, runLSN, dropped, skipped, faulted, backdated>>

\* The flusher has drained the channel and WAL.Close flushes, fsyncs, closes.
Close ==
    /\ phase = "closing"
    /\ chan = <<>> /\ batch = <<>>
    /\ ~stuck
    /\ files' = [files EXCEPT ![cur] = Flushed(@, buf)]
    /\ SyncCurrent
    /\ buf' = <<>>
    /\ phase' = "stopped"
    /\ UNCHANGED <<chan, batch, cur, nextLSN, failed, stuck, time, comp, snapLSN,
                   graphLSN, accepted, runLSN, dropped, skipped, faulted, backdated>>

CloseFail ==
    /\ phase = "closing"
    /\ chan = <<>> /\ batch = <<>>
    /\ \/ /\ ~stuck /\ DiskFaults
          /\ \E rest \in Leftovers(buf) :
                files' = [files EXCEPT ![cur] = AppendFrames(@, rest)]
       \/ stuck /\ UNCHANGED files
    /\ buf' = <<>>
    /\ phase' = "down"
    /\ UNCHANGED <<chan, batch, cur, nextLSN, failed, stuck, time, comp, snapLSN,
                   graphLSN, accepted, runLSN, synced, dropped, skipped,
                   faulted, backdated>>

(***************************************************************************)
(* Crashes.  A killed process loses its buffers, and the OS keeps the      *)
(* files; the writer may have handed over a part of a frame.  Power loss   *)
(* also takes what was not fsynced, from the end, and perhaps a file whose *)
(* name was never made durable.                                            *)
(***************************************************************************)
Stopped ==
    /\ phase' = "down"
    /\ chan' = <<>> /\ batch' = <<>> /\ buf' = <<>>
    /\ comp' = Idle
    /\ UNCHANGED <<cur, nextLSN, failed, stuck, time, snapLSN, graphLSN, accepted,
                   runLSN, synced, dropped, skipped, faulted, backdated>>

Kill ==
    /\ "kill" \in Crashes
    /\ running
    /\ \/ UNCHANGED files
       \/ /\ buf \o batch # <<>>
          /\ files' = [files EXCEPT ![cur] = AppendFrames(@, <<Torn>>)]
    /\ Stopped

\* The states in which power loss may leave a file; a frame that was being handed
\* over may leave a part of itself.
AfterPowerLoss(file, partial) ==
    { [frames |-> SubSeq(file.frames, 1, k), synced |-> k, linked |-> TRUE]
      : k \in file.synced..Len(file.frames) } \cup
    { [frames |-> Append(SubSeq(file.frames, 1, k), Torn), synced |-> k + 1, linked |-> TRUE]
      : k \in {k \in file.synced..Len(file.frames) : k < Len(file.frames) \/ partial} }

LostPower(f) == AfterPowerLoss(files[f], f = cur /\ buf \o batch # <<>>)

MayVanish(f) == DirEntryNeedsSync /\ ~files[f].linked

PowerLoss ==
    /\ "power" \in Crashes
    /\ \E gone \in SUBSET {f \in DOMAIN files : MayVanish(f)} :
         LET kept == DOMAIN files \ gone IN
         \E after \in [kept -> UNION {LostPower(f) : f \in kept}] :
            /\ \A f \in kept : after[f] \in LostPower(f)
            /\ files' = after
    /\ Stopped

Next ==
    \/ \E r \in Records : Write(r)
    \/ \E n \in 1..BatchSize : Reserve(n)
    \/ \E k \in 0..MaxLSN : WriteBatch(k)
    \/ WriteBatchFail
    \/ Sync
    \/ SyncFail
    \/ \E t \in 1..MaxTime : Rotate(t)
    \/ \E t \in 1..MaxTime : RotateDirFail(t)
    \/ RotateFail
    \/ LastLSN
    \/ SnapshotDone
    \/ SetSnapshotWatermark
    \/ VectorsSaved
    \/ SnapshotFail
    \/ Cleanup
    \/ \E t \in 1..MaxTime : Start(t)
    \/ BeginClose
    \/ Close
    \/ CloseFail
    \/ Kill
    \/ PowerLoss

Spec == Init /\ [][Next]_walVars

\* The flusher and the syncer are goroutines that never block for good, and the
\* flusher's timer and the syncer's ticker keep firing; shutdown waits for them.
Fairness ==
    /\ WF_walVars(\E n \in 1..BatchSize : Reserve(n))
    /\ WF_walVars(\E k \in 0..MaxLSN : WriteBatch(k))
    /\ WF_walVars(Sync)
    /\ WF_walVars(Close)

FairSpec == Spec /\ Fairness

(***************************************************************************)
(* Properties                                                              *)
(***************************************************************************)
Stages == {"idle", "rotated", "snapshot", "vectors", "graph", "cleanup"}

\* Every variable has the type of the field or the file it stands for, and the
\* writer's file exists while the process runs.
TypeOK ==
    /\ chan \in Seq(Records) /\ accepted \in Seq(Records)
    /\ batch \in Seq(Frame) /\ buf \in Seq(Frame)
    /\ DOMAIN files \subseteq Nat
    /\ \A f \in DOMAIN files : files[f] \in WalFile
    /\ cur \in Nat /\ (running => cur \in DOMAIN files)
    /\ nextLSN \in Nat \ {0} /\ runLSN \in Nat \ {0}
    /\ failed \in BOOLEAN /\ stuck \in BOOLEAN /\ faulted \in BOOLEAN
    /\ backdated \in BOOLEAN
    /\ phase \in {"down", "up", "closing", "stopped"}
    /\ time \in Nat /\ snapLSN \in Nat /\ graphLSN \in Nat
    /\ comp \in [stage : Stages, keep : Nat, wm : Nat]
    /\ synced \subseteq Nat \ {0} /\ dropped \subseteq Nat \ {0}
    /\ skipped \subseteq Nat \ {0}

\* Recovery replays the files in the order of their names and each file from its
\* start; the LSNs then strictly increase, whatever crashes, failed writes and
\* rotations came before (wal.go: "порядок LSN == порядок в файле"), unless a start
\* was backdated.
ReplayOrder ==
    ~backdated =>
    \A f, g \in DOMAIN files :
        \A i \in DOMAIN files[f].frames, j \in DOMAIN files[g].frames :
            (/\ f < g \/ (f = g /\ i < j)
             /\ Readable(f, i) /\ Readable(g, j))
            => files[f].frames[i].lsn < files[g].frames[j].lsn

\* No LSN is handed out twice: the next one is above every LSN on disk and above
\* the watermarks of the snapshots (main: "номера не переиспользовались").
NextLsnFresh ==
    running => /\ nextLSN > snapLSN /\ nextLSN > graphLSN
               /\ \A l \in ReadableLSNs : l < nextLSN

\* A deleted file held only records that the watermarks of both snapshots cover,
\* unless a start was backdated.
DeletedAreCovered ==
    ~backdated => \A l \in dropped : l <= snapLSN /\ l <= graphLSN

\* What is on disk above the watermark has no gap but those that a start left, when
\* the watermark of a snapshot was above the last record found: a record is never
\* recovered when one that was logged before it, in the same run, is lost; unless a
\* start was backdated.
NoHole ==
    ~backdated =>
    \A m \in ReadableLSNs : (snapLSN + 1)..m \subseteq ReadableLSNs \cup skipped

\* What an fsync has covered stays readable until compaction deletes it, unless a
\* start was backdated: it may append to a file that ends in a torn frame.
SyncedSurvive == ~backdated => synced \subseteq ReadableLSNs \cup dropped

\* A frame of this run carries the record that was sent in its place: the flusher
\* neither reorders nor skips, whatever the batching.
RecordOf(l) == accepted[l - runLSN + 1]

FramesMatchSends ==
    \A f \in DOMAIN files : \A i \in DOMAIN files[f].frames :
        LET fr == files[f].frames[i] IN
        (Readable(f, i) /\ fr.lsn >= runLSN)
            => /\ fr.lsn - runLSN + 1 \in DOMAIN accepted
               /\ fr.rec = RecordOf(fr.lsn)

\* After an ordered shutdown every record accepted by BatchWAL.Write is fsynced.
GracefulLosesNothing ==
    phase = "stopped" /\ ~faulted =>
        runLSN..(runLSN + Len(accepted) - 1) \subseteq synced

\* Once a write, flush or fsync has failed, Failed() says so and the server
\* rejects writes.
FaultLatches == running /\ faulted => failed

\* Every accepted record is fsynced in the end, unless the process dies or the
\* disk fails.
EventuallySynced ==
    \A l \in 1..MaxLSN :
        (running /\ l \in runLSN..(runLSN + Len(accepted) - 1))
            ~> (l \in synced \/ ~running \/ faulted)
=============================================================================
