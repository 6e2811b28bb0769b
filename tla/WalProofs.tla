----------------------------- MODULE WalProofs -----------------------------
(***************************************************************************)
(* Proofs about Wal: for all bounds, crashes and disk faults, recovery     *)
(* replays records in the order of their LSNs, no LSN is handed out twice, *)
(* and what was accepted, fsynced or deleted is what recovery needs,       *)
(* until a start opens a file whose name is not above all names there.   *)
(***************************************************************************)
EXTENDS Wal, SequenceTheorems, TLAPS

(***************************************************************************)
(* The inductive invariant.  fs is the map of files.                       *)
(***************************************************************************)
Frames == Seq(Frame \cup {Torn})

\* Behind a torn frame there are only torn frames.
TornTailIn(fs) ==
    \A f \in DOMAIN fs : \A i, j \in DOMAIN fs[f].frames :
        i < j /\ IsTorn(fs[f].frames[i]) => IsTorn(fs[f].frames[j])

\* ReplayOrder for all whole frames, readable or not.
OrderedIn(fs) ==
    \A f, g \in DOMAIN fs :
        \A i \in DOMAIN fs[f].frames, j \in DOMAIN fs[g].frames :
            (f < g \/ (f = g /\ i < j)) /\ ~IsTorn(fs[f].frames[i]) /\ ~IsTorn(fs[g].frames[j])
            => fs[f].frames[i].lsn < fs[g].frames[j].lsn

\* Every LSN on disk is below b.
BelowIn(fs, b) ==
    \A f \in DOMAIN fs : \A i \in DOMAIN fs[f].frames :
        ~IsTorn(fs[f].frames[i]) => fs[f].frames[i].lsn < b

TypedIn(fs) == DOMAIN fs \subseteq Nat /\ \A f \in DOMAIN fs : fs[f] \in WalFile

\* The LSN of the first frame that no file has: of buf, else of batch, else nextLSN.
Pending == nextLSN - Len(batch) - Len(buf)

Consecutive(frs, b) == \A i \in DOMAIN frs : frs[i].lsn = b + i - 1

\* While the process runs: the writer's file is the last one, frames on their way
\* to it continue the LSNs on disk, and it ends in a torn frame only if the
\* writer is stuck.
PipelineOK ==
    running =>
        /\ Consecutive(buf, Pending)
        /\ Consecutive(batch, Pending + Len(buf))
        /\ BelowIn(files, Pending)
        /\ \A f \in DOMAIN files : f <= cur
        /\ stuck => buf = <<>>
        /\ ~stuck => \A i \in DOMAIN files[cur].frames : ~IsTorn(files[cur].frames[i])
        /\ snapLSN < nextLSN /\ graphLSN < nextLSN /\ comp.wm < nextLSN
        /\ comp.stage # "idle" => comp.keep <= cur

NamesOK == \A f \in DOMAIN files : f <= time

IInv ==
    /\ TypeOK
    /\ TornTailIn(files)
    /\ OrderedIn(files)
    /\ NamesOK
    /\ PipelineOK

(***************************************************************************)
(* Frames handed to a file                                                 *)
(***************************************************************************)
\* e is a prefix of frs whose last frame may be torn: what a write leaves.
PrefixOrTorn(e, frs) ==
    /\ e \in Frames
    /\ Len(e) <= Len(frs)
    /\ \A i \in DOMAIN e : e[i] = frs[i] \/ (i = Len(e) /\ e[i] = Torn)

\* A frame is torn exactly when it is Torn.
LEMMA FrameKinds ==
    /\ \A fr \in Frame : ~IsTorn(fr) /\ fr.lsn \in Nat \ {0}
    /\ IsTorn(Torn)
    /\ \A fr \in Frame \cup {Torn} : IsTorn(fr) <=> fr = Torn
BY DEF Frame, Torn, IsTorn

\* Some first frames of frs, whole, as WriteBatch hands them over.
LEMMA SubSeqIsPrefix ==
    ASSUME NEW frs \in Seq(Frame), NEW k \in 0..Len(frs)
    PROVE  /\ SubSeq(frs, 1, k) \in Seq(Frame)
           /\ Len(SubSeq(frs, 1, k)) = k
           /\ \A i \in 1..k : SubSeq(frs, 1, k)[i] = frs[i]
           /\ PrefixOrTorn(SubSeq(frs, 1, k), frs)
<1>1. \A i \in 1..k : frs[i] \in Frame
  BY ElementOfSeq
<1>2. /\ SubSeq(frs, 1, k) \in Seq(Frame)
      /\ Len(SubSeq(frs, 1, k)) = k
      /\ \A i \in 1..k : SubSeq(frs, 1, k)[i] = frs[i]
  BY <1>1, SubSeqProperties
<1>3. DOMAIN SubSeq(frs, 1, k) = 1..k
  BY <1>2, LenProperties
<1>4. SubSeq(frs, 1, k) \in Frames
  BY <1>2, SeqMonotonic DEF Frames
<1> QED
  BY <1>2, <1>3, <1>4 DEF PrefixOrTorn

\* Everything that a failed write may leave of frs.
LEMMA LeftoversArePrefixes ==
    ASSUME NEW frs \in Seq(Frame), NEW e \in Leftovers(frs)
    PROVE  PrefixOrTorn(e, frs)
<1>1. CASE \E k \in 0..Len(frs) : e = SubSeq(frs, 1, k)
  BY <1>1, SubSeqIsPrefix
<1>2. CASE \E k \in 0..(Len(frs) - 1) : e = Append(SubSeq(frs, 1, k), Torn)
  <2>1. PICK k \in 0..(Len(frs) - 1) : e = Append(SubSeq(frs, 1, k), Torn)
    BY <1>2
  <2>2. Len(frs) \in Nat
    BY LenProperties
  <2>3. k \in 0..Len(frs)
    BY <2>2
  <2> DEFINE w == SubSeq(frs, 1, k)
  <2>4. /\ w \in Seq(Frame) /\ Len(w) = k
        /\ \A i \in 1..k : w[i] = frs[i]
    BY <2>3, SubSeqIsPrefix
  <2>5. w \in Frames
    BY <2>4, SeqMonotonic DEF Frames
  <2>6. Torn \in Frame \cup {Torn}
    OBVIOUS
  <2> HIDE DEF w
  <2>7. /\ Append(w, Torn) \in Frames
        /\ Len(Append(w, Torn)) = k + 1
        /\ \A i \in 1..k : Append(w, Torn)[i] = w[i]
        /\ Append(w, Torn)[k + 1] = Torn
    BY <2>4, <2>5, <2>6, AppendProperties DEF Frames
  <2>8. DOMAIN Append(w, Torn) = 1..(k + 1)
    BY <2>7, LenProperties DEF Frames
  <2>9. e = Append(w, Torn)
    BY <2>1 DEF w
  <2> QED
    BY <2>2, <2>3, <2>4, <2>7, <2>8, <2>9 DEF PrefixOrTorn
<1> QED
  BY <1>1, <1>2 DEF Leftovers

\* The part of a frame that a crash leaves when frames are on their way.
LEMMA TornIsPrefix ==
    ASSUME NEW frs \in Seq(Frame), frs # <<>>
    PROVE  PrefixOrTorn(<<Torn>>, frs)
<1>1. Len(frs) \in Nat \ {0}
  BY EmptySeq
<1>2. <<Torn>> \in Frames /\ Len(<<Torn>>) = 1 /\ DOMAIN <<Torn>> = 1..1
  BY DEF Frames
<1> QED
  BY <1>1, <1>2 DEF PrefixOrTorn

\* All of frs.
LEMMA WholeIsPrefix ==
    ASSUME NEW frs \in Seq(Frame)
    PROVE  PrefixOrTorn(frs, frs)
BY LenProperties, SeqMonotonic DEF PrefixOrTorn, Frames

\* The frames of the writer and of the flusher in one sequence.
LEMMA OutIsConsecutive ==
    ASSUME NEW b \in Int, NEW s \in Seq(Frame), NEW t \in Seq(Frame),
           Consecutive(s, b), Consecutive(t, b + Len(s))
    PROVE  /\ s \o t \in Seq(Frame)
           /\ Len(s \o t) = Len(s) + Len(t)
           /\ Consecutive(s \o t, b)
<1>1. /\ s \o t \in Seq(Frame)
      /\ Len(s \o t) = Len(s) + Len(t)
      /\ \A i \in 1..(Len(s) + Len(t)) :
            (s \o t)[i] = IF i <= Len(s) THEN s[i] ELSE t[i - Len(s)]
  BY ConcatProperties
<1>2. /\ Len(s) \in Nat /\ Len(t) \in Nat
      /\ DOMAIN s = 1..Len(s) /\ DOMAIN t = 1..Len(t)
      /\ DOMAIN (s \o t) = 1..(Len(s) + Len(t))
  BY <1>1, LenProperties
<1>3. ASSUME NEW i \in 1..(Len(s) + Len(t)) PROVE (s \o t)[i].lsn = b + i - 1
  <2>1. CASE i <= Len(s)
    BY <1>1, <1>2, <2>1 DEF Consecutive
  <2>2. CASE i > Len(s)
    <3>1. i - Len(s) \in DOMAIN t
      BY <1>2, <2>2
    <3>2. t[i - Len(s)].lsn = (b + Len(s)) + (i - Len(s)) - 1
      BY <3>1 DEF Consecutive
    <3> QED
      BY <1>1, <1>2, <2>2, <3>2
  <2> QED
    BY <1>2, <2>1, <2>2
<1> QED
  BY <1>1, <1>2, <1>3 DEF Consecutive

(***************************************************************************)
(* Maps of files                                                           *)
(***************************************************************************)
\* Every whole frame of gs is in fs, at the same place: gs is fs after deletions,
\* truncations, new empty files and torn frames.
Within(gs, fs) ==
    \A f \in DOMAIN gs : \A i \in DOMAIN gs[f].frames :
        ~IsTorn(gs[f].frames[i])
        => f \in DOMAIN fs /\ i \in DOMAIN fs[f].frames /\ gs[f].frames[i] = fs[f].frames[i]

\* What is ordered and bounded stays so when frames disappear.
LEMMA WithinKeepsOrder ==
    ASSUME NEW fs, NEW gs, NEW b, Within(gs, fs)
    PROVE  /\ OrderedIn(fs) => OrderedIn(gs)
           /\ BelowIn(fs, b) => BelowIn(gs, b)
BY DEF Within, OrderedIn, BelowIn

\* Frames that continue the LSNs on disk may be appended to the last file.
LEMMA AppendKeepsOrder ==
    ASSUME NEW fs, TypedIn(fs), NEW c \in DOMAIN fs, \A f \in DOMAIN fs : f <= c,
           NEW b \in Int, BelowIn(fs, b), OrderedIn(fs), TornTailIn(fs),
           NEW frs \in Seq(Frame), Consecutive(frs, b),
           NEW e, PrefixOrTorn(e, frs),
           \/ \A i \in DOMAIN fs[c].frames : ~IsTorn(fs[c].frames[i])
           \/ \A i \in DOMAIN e : IsTorn(e[i]),
           NEW gs, DOMAIN gs = DOMAIN fs,
           \A f \in DOMAIN fs : f # c => gs[f].frames = fs[f].frames,
           gs[c].frames = fs[c].frames \o e
    PROVE  OrderedIn(gs) /\ TornTailIn(gs) /\ BelowIn(gs, b + Len(frs))
<1> DEFINE old == fs[c].frames
           m == Len(old)
<1>1. /\ old \in Frames /\ e \in Frames /\ DOMAIN fs \subseteq Nat
      /\ \A f \in DOMAIN fs : fs[f].frames \in Frames
  BY DEF TypedIn, WalFile, PrefixOrTorn, Frames
<1>2. /\ DOMAIN (old \o e) = 1..(m + Len(e))
      /\ \A i \in 1..(m + Len(e)) : (old \o e)[i] = IF i <= m THEN old[i] ELSE e[i - m]
      /\ m \in Nat /\ Len(e) \in Nat /\ DOMAIN old = 1..m /\ DOMAIN e = 1..Len(e)
  BY <1>1, ConcatProperties, LenProperties DEF Frames
<1>3. /\ Len(frs) \in Nat /\ Len(e) <= Len(frs) /\ DOMAIN frs = 1..Len(frs)
      /\ \A i \in 1..Len(frs) : frs[i] \in Frame /\ ~IsTorn(frs[i])
  BY LenProperties, ElementOfSeq, FrameKinds DEF PrefixOrTorn
<1>4. \A f \in DOMAIN fs : \A i \in DOMAIN fs[f].frames :
         ~IsTorn(fs[f].frames[i]) => fs[f].frames[i].lsn \in Nat
  <2> SUFFICES ASSUME NEW f \in DOMAIN fs, NEW i \in DOMAIN fs[f].frames,
                      ~IsTorn(fs[f].frames[i])
               PROVE  fs[f].frames[i].lsn \in Nat
    OBVIOUS
  <2>1. fs[f].frames[i] \in Frame \cup {Torn}
    BY <1>1, ElementOfSeq, LenProperties DEF Frames
  <2> QED
    BY <2>1, FrameKinds
<1> DEFINE New(f, i) == /\ f = c /\ i > m /\ i <= m + Len(e)
                        /\ gs[f].frames[i].lsn = b + (i - m) - 1
           Old(f, i) == /\ i \in DOMAIN fs[f].frames
                        /\ gs[f].frames[i] = fs[f].frames[i]
<1>5. ASSUME NEW i \in DOMAIN (old \o e), i > m, ~IsTorn((old \o e)[i])
      PROVE  (old \o e)[i].lsn = b + (i - m) - 1
  <2>1. i - m \in DOMAIN e /\ i - m \in DOMAIN frs /\ (old \o e)[i] = e[i - m]
    BY <1>2, <1>3, <1>5
  <2>2. e[i - m] = frs[i - m]
    BY <1>5, <2>1, FrameKinds DEF PrefixOrTorn
  <2> QED
    BY <2>1, <2>2 DEF Consecutive
<1>6. ASSUME NEW f \in DOMAIN gs, NEW i \in DOMAIN gs[f].frames, ~IsTorn(gs[f].frames[i])
      PROVE  i \in Nat /\ (New(f, i) \/ Old(f, i))
  <2>1. CASE f # c
    BY <1>1, <1>6, <2>1, LenProperties DEF Frames
  <2>2. CASE f = c /\ i <= m
    BY <1>2, <1>6, <2>2
  <2>3. CASE f = c /\ ~(i <= m)
    <3>1. i \in DOMAIN (old \o e) /\ i \in Nat /\ m \in Nat /\ i > m /\ i <= m + Len(e)
      BY <1>2, <1>6, <2>3
    <3>2. (old \o e)[i].lsn = b + (i - m) - 1
      BY <1>5, <1>6, <2>3, <3>1
    <3> QED
      BY <2>3, <3>1, <3>2
  <2> QED
    BY <2>1, <2>2, <2>3
<1> HIDE DEF New, Old
<1>7. OrderedIn(gs)
  <2> SUFFICES ASSUME NEW f \in DOMAIN gs, NEW g \in DOMAIN gs,
                      NEW i \in DOMAIN gs[f].frames, NEW j \in DOMAIN gs[g].frames,
                      f < g \/ (f = g /\ i < j),
                      ~IsTorn(gs[f].frames[i]), ~IsTorn(gs[g].frames[j])
               PROVE  gs[f].frames[i].lsn < gs[g].frames[j].lsn
    BY DEF OrderedIn
  <2>0. f \in Nat /\ g \in Nat /\ c \in Nat /\ g <= c /\ i \in Nat /\ j \in Nat
    BY <1>1, <1>6
  <2>1. CASE Old(f, i) /\ Old(g, j)
    BY <2>1 DEF Old, OrderedIn
  <2>2. CASE Old(f, i) /\ New(g, j)
    <3>1. gs[f].frames[i].lsn \in Nat /\ gs[f].frames[i].lsn < b
      BY <1>4, <2>2 DEF Old, BelowIn
    <3>2. gs[g].frames[j].lsn = b + (j - m) - 1 /\ j > m
      BY <2>2 DEF New
    <3> HIDE DEF m
    <3> QED
      BY <1>2, <2>0, <3>1, <3>2
  <2>3. CASE New(f, i) /\ Old(g, j)
    <3>1. f = c /\ i > m
      BY <2>3 DEF New
    <3>2. g = c /\ j > m
      BY <1>2, <2>0, <3>1
    <3> QED
      BY <1>2, <2>0, <2>3, <3>2 DEF Old
  <2>4. CASE New(f, i) /\ New(g, j)
    <3>1. /\ gs[f].frames[i].lsn = b + (i - m) - 1 /\ f = c
          /\ gs[g].frames[j].lsn = b + (j - m) - 1 /\ g = c
      BY <2>4 DEF New
    <3> HIDE DEF m
    <3> QED
      BY <1>2, <2>0, <3>1
  <2> QED
    BY <1>6, <2>1, <2>2, <2>3, <2>4
<1>8. BelowIn(gs, b + Len(frs))
  <2> SUFFICES ASSUME NEW f \in DOMAIN gs, NEW i \in DOMAIN gs[f].frames,
                      ~IsTorn(gs[f].frames[i])
               PROVE  gs[f].frames[i].lsn < b + Len(frs)
    BY DEF BelowIn
  <2>1. CASE Old(f, i)
    <3>1. gs[f].frames[i].lsn \in Nat /\ gs[f].frames[i].lsn < b
      BY <1>4, <2>1 DEF Old, BelowIn
    <3> QED
      BY <1>3, <3>1
  <2>2. CASE New(f, i)
    <3>1. gs[f].frames[i].lsn = b + (i - m) - 1 /\ i <= m + Len(e)
      BY <2>2 DEF New
    <3>2. i \in Nat
      BY <1>6
    <3> HIDE DEF m
    <3> QED
      BY <1>2, <1>3, <3>1, <3>2
  <2> QED
    BY <1>6, <2>1, <2>2
<1>9. TornTailIn(gs)
  <2> SUFFICES ASSUME NEW f \in DOMAIN gs,
                      NEW i \in DOMAIN gs[f].frames, NEW j \in DOMAIN gs[f].frames,
                      i < j, IsTorn(gs[f].frames[i])
               PROVE  IsTorn(gs[f].frames[j])
    BY DEF TornTailIn
  <2>1. CASE f # c
    BY <2>1 DEF TornTailIn
  <2>2. CASE f = c
    <3>0. /\ i \in 1..(m + Len(e)) /\ j \in 1..(m + Len(e))
          /\ gs[f].frames = old \o e
      BY <1>2, <2>2
    <3>1. CASE \A k \in DOMAIN e : IsTorn(e[k])
      <4>1. CASE j <= m
        <5>1. /\ i \in DOMAIN old /\ j \in DOMAIN old
              /\ gs[f].frames[i] = old[i] /\ gs[f].frames[j] = old[j]
          BY <1>2, <3>0, <4>1
        <5>2. IsTorn(old[i]) => IsTorn(old[j])
          BY <5>1 DEF TornTailIn
        <5> QED
          BY <5>1, <5>2
      <4>2. CASE j > m
        <5>1. j - m \in DOMAIN e
          BY <1>2, <3>0, <4>2
        <5> QED
          BY <1>2, <3>0, <3>1, <4>2, <5>1
      <4> QED
        BY <1>2, <3>0, <4>1, <4>2
    <3>2. CASE \A k \in DOMAIN old : ~IsTorn(old[k])
      <4>1. i > m
        BY <1>2, <3>0, <3>2
      <4>2. i - m \in DOMAIN e /\ i - m < Len(e) /\ (old \o e)[i] = e[i - m]
        BY <1>2, <3>0, <4>1
      <4>3. e[i - m] = frs[i - m] /\ i - m \in 1..Len(frs)
        BY <1>2, <1>3, <4>2 DEF PrefixOrTorn
      <4> QED
        BY <1>3, <3>0, <4>2, <4>3
    <3> QED
      BY <3>1, <3>2
  <2> QED
    BY <2>1, <2>2
<1> QED
  BY <1>7, <1>8, <1>9

\* A bound on the LSNs on disk may be raised.
LEMMA BelowGrows ==
    ASSUME NEW fs, TypedIn(fs), NEW b \in Int, NEW d \in Int, b <= d, BelowIn(fs, b)
    PROVE  BelowIn(fs, d)
<1> SUFFICES ASSUME NEW f \in DOMAIN fs, NEW i \in DOMAIN fs[f].frames,
                    ~IsTorn(fs[f].frames[i])
             PROVE  fs[f].frames[i].lsn < d
  BY DEF BelowIn
<1>1. fs[f].frames \in Frames
  BY DEF TypedIn, WalFile, Frames
<1>2. fs[f].frames[i] \in Frame \cup {Torn}
  BY <1>1, ElementOfSeq, LenProperties DEF Frames
<1>3. fs[f].frames[i].lsn \in Nat /\ fs[f].frames[i].lsn < b
  BY <1>2, FrameKinds DEF BelowIn
<1> QED
  BY <1>3

\* The LSNs of frames are positive.
LEMMA LSNsArePositive ==
    ASSUME NEW frs \in Frames
    PROVE  LSNsIn(frs) \subseteq Nat \ {0}
<1> SUFFICES ASSUME NEW i \in DOMAIN frs, ~IsTorn(frs[i])
             PROVE  frs[i].lsn \in Nat \ {0}
  BY DEF LSNsIn
<1>1. frs[i] \in Frame \cup {Torn}
  BY ElementOfSeq, LenProperties DEF Frames
<1> QED
  BY <1>1, FrameKinds

\* Both ways to append give a file whose frames are the old ones and the new ones.
LEMMA FileAfterAppend ==
    ASSUME NEW file \in WalFile, NEW e \in Frames
    PROVE  /\ AppendFrames(file, e) \in WalFile /\ AppendFrames(file, e).frames = file.frames \o e
           /\ Flushed(file, e) \in WalFile /\ Flushed(file, e).frames = file.frames \o e
<1>1. file.frames \in Frames /\ DOMAIN file = {"frames", "synced", "linked"}
  BY DEF WalFile, Frames
<1>2. /\ file.frames \o e \in Frames
      /\ Len(file.frames) \in Nat /\ Len(e) \in Nat
  BY <1>1, ConcatProperties, LenProperties DEF Frames
<1>3. /\ AppendFrames(file, e) \in WalFile
      /\ AppendFrames(file, e).frames = file.frames \o e
  BY <1>1, <1>2 DEF AppendFrames, WalFile, Frames
<1>4. Len(file.frames) + Len(e) \in Nat
  BY <1>2
<1> DEFINE a == AppendFrames(file, e)
<1>5. \A n \in Nat : /\ [a EXCEPT !.synced = n] \in WalFile
                      /\ [a EXCEPT !.synced = n].frames = a.frames
  <2> HIDE DEF a
  <2> QED
    BY <1>3 DEF WalFile, a
<1>6. Flushed(file, e) = [a EXCEPT !.synced = Len(file.frames) + Len(e)]
  BY DEF Flushed
<1> QED
  BY <1>3, <1>4, <1>5, <1>6

\* The writer hands a part of what it holds to its file, perhaps with an fsync.
LEMMA WriterAppends ==
    ASSUME IInv, running,
           NEW frs \in Seq(Frame), Consecutive(frs, Pending),
           NEW e, PrefixOrTorn(e, frs),
           ~stuck \/ \A i \in DOMAIN e : IsTorn(e[i]),
           NEW gs, \/ gs = [files EXCEPT ![cur] = AppendFrames(@, e)]
                  \/ gs = [files EXCEPT ![cur] = Flushed(@, e)]
    PROVE  /\ TypedIn(gs) /\ DOMAIN gs = DOMAIN files
           /\ OrderedIn(gs) /\ TornTailIn(gs) /\ BelowIn(gs, Pending + Len(frs))
           /\ ~stuck /\ e \in Seq(Frame) =>
                 \A i \in DOMAIN gs[cur].frames : ~IsTorn(gs[cur].frames[i])
<1> DEFINE old == files[cur].frames
<1>1. /\ TypedIn(files) /\ cur \in DOMAIN files
      /\ files[cur] \in WalFile /\ old \in Frames /\ e \in Frames
  BY DEF IInv, TypeOK, TypedIn, WalFile, Frames, PrefixOrTorn
<1>2. Pending \in Int
  BY LenProperties DEF IInv, TypeOK, Pending
<1>3. /\ old \o e \in Frames
      /\ Len(old) \in Nat /\ Len(e) \in Nat
      /\ Len(old \o e) = Len(old) + Len(e)
      /\ DOMAIN (old \o e) = 1..(Len(old) + Len(e))
      /\ DOMAIN old = 1..Len(old) /\ DOMAIN e = 1..Len(e)
      /\ \A i \in 1..(Len(old) + Len(e)) :
            (old \o e)[i] = IF i <= Len(old) THEN old[i] ELSE e[i - Len(old)]
  BY <1>1, ConcatProperties, LenProperties DEF Frames
<1>4. /\ gs[cur] = AppendFrames(files[cur], e) \/ gs[cur] = Flushed(files[cur], e)
      /\ DOMAIN gs = DOMAIN files
      /\ \A f \in DOMAIN files : f # cur => gs[f] = files[f]
  BY <1>1
<1>5. gs[cur] \in WalFile /\ gs[cur].frames = old \o e
  BY <1>1, <1>4, FileAfterAppend
<1>6. TypedIn(gs)
  BY <1>1, <1>4, <1>5 DEF TypedIn
<1>7. OrderedIn(gs) /\ TornTailIn(gs) /\ BelowIn(gs, Pending + Len(frs))
  <2>1. /\ \A f \in DOMAIN files : f <= cur
        /\ BelowIn(files, Pending) /\ OrderedIn(files) /\ TornTailIn(files)
        /\ ~stuck => \A i \in DOMAIN old : ~IsTorn(old[i])
    BY DEF IInv, PipelineOK
  <2> QED
    BY <1>1, <1>2, <1>4, <1>5, <2>1, AppendKeepsOrder, ZenonT(60)
<1>8. ASSUME ~stuck, e \in Seq(Frame), NEW i \in DOMAIN gs[cur].frames
      PROVE  ~IsTorn(gs[cur].frames[i])
  <2>1. \A k \in DOMAIN old : ~IsTorn(old[k])
    BY <1>8 DEF IInv, PipelineOK
  <2>2. \A k \in 1..Len(e) : ~IsTorn(e[k])
    BY <1>8, ElementOfSeq, FrameKinds
  <2>3. i \in 1..(Len(old) + Len(e)) /\ gs[cur].frames[i] = (old \o e)[i]
    BY <1>3, <1>5, <1>8
  <2>4. CASE i <= Len(old)
    <3>1. i \in DOMAIN old
      BY <1>3, <2>3, <2>4
    <3> QED
      BY <1>3, <2>1, <2>3, <2>4, <3>1
  <2>5. CASE ~(i <= Len(old))
    <3>1. i - Len(old) \in 1..Len(e)
      BY <1>3, <2>3, <2>5
    <3> QED
      BY <1>3, <2>2, <2>3, <2>5, <3>1
  <2> QED
    BY <2>4, <2>5
<1> QED
  BY <1>4, <1>6, <1>7, <1>8

\* The LSNs that an fsync of the current file covers.
LEMMA WrittenLSNs ==
    ASSUME IInv, running
    PROVE  LSNsIn(files[cur].frames \o buf) \subseteq Nat \ {0}
<1>1. files[cur].frames \in Frames /\ buf \in Frames
  BY SeqMonotonic DEF IInv, TypeOK, WalFile, Frames
<1>2. files[cur].frames \o buf \in Frames
  BY <1>1, ConcatProperties DEF Frames
<1> QED
  BY <1>2, LSNsArePositive

\* WriterAppends when the writer hands over its buffer and the flusher keeps its batch.
LEMMA BufferHandedOver ==
    ASSUME IInv, running, ~stuck, NEW e, PrefixOrTorn(e, buf),
           NEW gs, \/ gs = [files EXCEPT ![cur] = AppendFrames(@, e)]
                  \/ gs = [files EXCEPT ![cur] = Flushed(@, e)]
    PROVE  /\ TypedIn(gs) /\ DOMAIN gs = DOMAIN files
           /\ OrderedIn(gs) /\ TornTailIn(gs) /\ BelowIn(gs, nextLSN - Len(batch))
           /\ e = buf => \A i \in DOMAIN gs[cur].frames : ~IsTorn(gs[cur].frames[i])
<1>1. buf \in Seq(Frame) /\ Consecutive(buf, Pending)
  BY DEF IInv, TypeOK, PipelineOK
<1>2. Pending + Len(buf) = nextLSN - Len(batch)
  BY LenProperties DEF IInv, TypeOK, Pending
<1>3. /\ TypedIn(gs) /\ DOMAIN gs = DOMAIN files
      /\ OrderedIn(gs) /\ TornTailIn(gs) /\ BelowIn(gs, Pending + Len(buf))
      /\ ~stuck /\ e \in Seq(Frame) =>
            \A i \in DOMAIN gs[cur].frames : ~IsTorn(gs[cur].frames[i])
  BY <1>1, WriterAppends
<1> QED
  BY <1>1, <1>2, <1>3

(***************************************************************************)
(* Each action preserves the invariant                                     *)
(***************************************************************************)
\* The lengths and the arithmetic of the pipeline.
LEMMA PipelineNumbers ==
    ASSUME IInv
    PROVE  /\ Len(chan) \in Nat /\ Len(batch) \in Nat /\ Len(buf) \in Nat
           /\ Pending \in Int /\ nextLSN \in Nat \ {0}
           /\ TypedIn(files)
BY LenProperties DEF IInv, TypeOK, Pending, TypedIn

\* A record sent to the channel leaves the files and the frames alone.
LEMMA WriteStep ==
    ASSUME IInv, NEW r \in Records, Write(r)
    PROVE  IInv'
<1>1. TypeOK'
  BY AppendProperties DEF IInv, TypeOK, Write, running
<1>2. /\ TornTailIn(files') /\ OrderedIn(files') /\ NamesOK' /\ PipelineOK'
  BY DEF IInv, NamesOK, PipelineOK, Pending, running, Write
<1> QED
  BY <1>1, <1>2 DEF IInv

\* The LSNs of a new batch continue those of the frames before it.
LEMMA ReserveStep ==
    ASSUME IInv, NEW n \in 1..BatchSize, Reserve(n)
    PROVE  IInv'
<1>1. /\ n \in 1..Len(chan) /\ n \in Nat /\ Len(chan) \in Nat
      /\ Len(buf) \in Nat /\ nextLSN \in Nat \ {0}
      /\ chan \in Seq(Records) /\ batch = <<>> /\ Len(batch) = 0
      /\ batch' = [i \in 1..n |-> [lsn |-> nextLSN + i - 1, rec |-> chan[i]]]
      /\ nextLSN' = nextLSN + n
  BY PipelineNumbers, EmptySeq DEF Reserve, Takes, Leaves, IInv, TypeOK
<1>2. \A i \in 1..n : chan[i] \in Records
  BY <1>1, ElementOfSeq
<1>3. batch' \in Seq(Frame) /\ Len(batch') = n /\ DOMAIN batch' = 1..n
  <2>1. \A i \in 1..n : [lsn |-> nextLSN + i - 1, rec |-> chan[i]] \in Frame
    BY <1>1, <1>2 DEF Frame
  <2> QED
    BY <1>1, <2>1
<1>4. SubSeq(chan, n + 1, Len(chan)) \in Seq(Records)
  BY <1>1, ElementOfSeq, SubSeqProperties
<1>5. TypeOK'
  BY <1>1, <1>3, <1>4 DEF IInv, TypeOK, Reserve, Takes, Leaves, running
<1>6. Consecutive(batch', nextLSN)
  BY <1>1, <1>3 DEF Consecutive
<1>7. Pending' = Pending /\ Pending + Len(buf) = nextLSN /\ buf' = buf
  BY <1>1, <1>3 DEF Pending, Reserve, Takes, Leaves
<1>8. TornTailIn(files') /\ OrderedIn(files') /\ NamesOK'
  BY DEF IInv, NamesOK, Reserve
<1>9. PipelineOK'
  <2>1. /\ snapLSN \in Nat /\ graphLSN \in Nat /\ comp.wm \in Nat
    BY DEF IInv, TypeOK
  <2>2. /\ running /\ PipelineOK
        /\ files' = files /\ cur' = cur /\ stuck' = stuck /\ snapLSN' = snapLSN
        /\ graphLSN' = graphLSN /\ comp' = comp /\ phase' = phase
    BY DEF IInv, Reserve, Takes, Leaves
  <2>3. snapLSN' < nextLSN' /\ graphLSN' < nextLSN' /\ comp'.wm < nextLSN'
    BY <1>1, <2>1, <2>2 DEF PipelineOK
  <2> QED
    BY <1>6, <1>7, <2>2, <2>3 DEF PipelineOK, running
<1> QED
  BY <1>5, <1>8, <1>9 DEF IInv

\* The oldest of the waiting frames reach the file, the others stay in the writer.
LEMMA WriteBatchStep ==
    ASSUME IInv, NEW k \in 0..MaxLSN, WriteBatch(k)
    PROVE  IInv'
<1> DEFINE out == buf \o batch
           w == SubSeq(out, 1, k)
           rest == SubSeq(out, k + 1, Len(out))
<1>1. /\ buf \in Seq(Frame) /\ batch \in Seq(Frame)
      /\ Len(buf) \in Nat /\ Len(batch) \in Nat /\ Pending \in Int
      /\ Consecutive(buf, Pending) /\ Consecutive(batch, Pending + Len(buf))
      /\ running /\ ~stuck
  BY PipelineNumbers DEF IInv, TypeOK, PipelineOK, WriteBatch
<1>2. out \in Seq(Frame) /\ Len(out) = Len(buf) + Len(batch) /\ Consecutive(out, Pending)
  BY <1>1, OutIsConsecutive
<1>3. /\ k \in 0..Len(out) /\ batch' = <<>> /\ buf' = rest
      /\ files' = [files EXCEPT ![cur] = AppendFrames(@, w)]
  BY DEF WriteBatch, Outgoing
<1>4. /\ Len(out) \in Nat /\ DOMAIN out = 1..Len(out)
      /\ \A i \in 1..Len(out) : out[i] \in Frame
  BY <1>2, LenProperties, ElementOfSeq
<1>5. /\ w \in Seq(Frame) /\ Len(w) = k /\ DOMAIN w = 1..k
      /\ \A i \in 1..k : w[i] = out[i]
  <2> HIDE DEF out
  <2> QED
    BY <1>2, <1>3, SubSeqIsPrefix, LenProperties
<1>6. /\ rest \in Seq(Frame) /\ Len(rest) = Len(out) - k
      /\ DOMAIN rest = 1..(Len(out) - k)
      /\ \A i \in 1..(Len(out) - k) : rest[i] = out[k + i]
  <2> HIDE DEF out
  <2>1. /\ rest \in Seq(Frame)
        /\ Len(rest) = IF k + 1 <= Len(out) THEN Len(out) - (k + 1) + 1 ELSE 0
        /\ \A i \in 1..(Len(out) - (k + 1) + 1) : rest[i] = out[(k + 1) + i - 1]
    BY <1>3, <1>4, SubSeqProperties
  <2>2. DOMAIN rest = 1..Len(rest)
    BY <2>1, LenProperties
  <2>3. Len(rest) = Len(out) - k
    <3> HIDE DEF rest
    <3>1. k \in 0..Len(out) /\ Len(out) \in Nat
      BY <1>3, <1>4
    <3> QED
      BY <2>1, <3>1
  <2>4. ASSUME NEW i \in 1..(Len(out) - k) PROVE rest[i] = out[k + i]
    <3>1. i \in 1..(Len(out) - (k + 1) + 1) /\ (k + 1) + i - 1 = k + i
      BY <1>3, <1>4
    <3> HIDE DEF rest
    <3> QED
      BY <2>1, <3>1
  <2> QED
    BY <2>1, <2>2, <2>3, <2>4
<1>7. Consecutive(w, Pending)
  <2> HIDE DEF out, w
  <2> QED
    BY <1>2, <1>3, <1>4, <1>5 DEF Consecutive
<1>8. Consecutive(rest, Pending + k)
  <2> HIDE DEF out, rest
  <2>1. ASSUME NEW i \in 1..(Len(out) - k) PROVE rest[i].lsn = (Pending + k) + i - 1
    <3>1. k + i \in DOMAIN out /\ k \in Int /\ i \in Int
      BY <1>3, <1>4
    <3>2. out[k + i].lsn = Pending + (k + i) - 1
      BY <1>2, <3>1 DEF Consecutive
    <3> QED
      BY <1>1, <1>6, <3>1, <3>2
  <2> QED
    BY <1>6, <2>1 DEF Consecutive
<1>9. /\ TypedIn(files') /\ DOMAIN files' = DOMAIN files
      /\ OrderedIn(files') /\ TornTailIn(files') /\ BelowIn(files', Pending + k)
      /\ \A i \in DOMAIN files'[cur].frames : ~IsTorn(files'[cur].frames[i])
  <2>1. PrefixOrTorn(w, w)
    BY <1>5, WholeIsPrefix
  <2> HIDE DEF w
  <2> QED
    BY <1>1, <1>3, <1>5, <1>7, <2>1, WriterAppends
<1>10. Pending' = Pending + k
  <2>1. nextLSN' = nextLSN /\ Len(batch') = 0 /\ Len(buf') = Len(out) - k
    BY <1>3, <1>6, EmptySeq DEF WriteBatch
  <2>2. nextLSN \in Nat /\ k \in Int
    BY <1>3 DEF IInv, TypeOK
  <2> HIDE DEF out
  <2> QED
    BY <1>1, <1>2, <1>4, <2>1, <2>2 DEF Pending
<1>11. TypeOK'
  <2>1. buf' \in Seq(Frame) /\ batch' \in Seq(Frame)
    BY <1>3, <1>6
  <2> QED
    BY <1>9, <2>1 DEF IInv, TypeOK, TypedIn, WriteBatch, running
<1>12. NamesOK'
  BY <1>9 DEF IInv, NamesOK, WriteBatch
<1>13. PipelineOK'
  <2>1. /\ cur' = cur /\ stuck' = stuck /\ snapLSN' = snapLSN /\ comp' = comp
        /\ graphLSN' = graphLSN /\ nextLSN' = nextLSN /\ PipelineOK
    BY DEF IInv, WriteBatch
  <2>2. Consecutive(buf', Pending')
    BY <1>3, <1>8, <1>10
  <2>3. Consecutive(batch', Pending' + Len(buf'))
    BY <1>3 DEF Consecutive
  <2> QED
    BY <1>1, <1>9, <1>10, <2>1, <2>2, <2>3 DEF PipelineOK
<1> QED
  BY <1>9, <1>11, <1>12, <1>13 DEF IInv

\* A failed write leaves a prefix in the file, perhaps with a torn frame, and a
\* writer that is stuck.
LEMMA WriteBatchFailStep ==
    ASSUME IInv, WriteBatchFail
    PROVE  IInv'
<1> DEFINE out == buf \o batch
<1>1. /\ buf \in Seq(Frame) /\ batch \in Seq(Frame)
      /\ Len(buf) \in Nat /\ Len(batch) \in Nat /\ Pending \in Int
      /\ nextLSN \in Nat /\ TypedIn(files) /\ running
  BY PipelineNumbers DEF IInv, TypeOK, WriteBatchFail
<1>2. /\ Consecutive(buf, Pending) /\ Consecutive(batch, Pending + Len(buf))
      /\ BelowIn(files, Pending)
  BY <1>1 DEF IInv, PipelineOK
<1>3. out \in Seq(Frame) /\ Len(out) = Len(buf) + Len(batch) /\ Consecutive(out, Pending)
  BY <1>1, <1>2, OutIsConsecutive
<1>4. Pending + Len(out) = nextLSN /\ Pending <= nextLSN
  <2> HIDE DEF out
  <2> QED
    BY <1>1, <1>3 DEF Pending
<1>5. /\ TypedIn(files') /\ DOMAIN files' = DOMAIN files
      /\ OrderedIn(files') /\ TornTailIn(files') /\ BelowIn(files', nextLSN)
  <2>1. CASE ~stuck /\ \E rest \in Leftovers(out) :
                 files' = [files EXCEPT ![cur] = AppendFrames(@, rest)]
    <3>1. PICK rest \in Leftovers(out) : files' = [files EXCEPT ![cur] = AppendFrames(@, rest)]
      BY <2>1
    <3> HIDE DEF out
    <3>2. PrefixOrTorn(rest, out)
      BY <1>3, LeftoversArePrefixes
    <3> QED
      BY <1>1, <1>3, <1>4, <2>1, <3>1, <3>2, WriterAppends
  <2>2. CASE UNCHANGED files
    <3>1. BelowIn(files, nextLSN)
      BY <1>1, <1>2, <1>4, BelowGrows
    <3> QED
      BY <1>1, <2>2, <3>1 DEF IInv
  <2> QED
    BY <2>1, <2>2 DEF WriteBatchFail
<1>6. TypeOK'
  BY <1>5 DEF IInv, TypeOK, TypedIn, WriteBatchFail, running
<1>7. NamesOK'
  BY <1>5 DEF IInv, NamesOK, WriteBatchFail
<1>8. PipelineOK'
  <2>1. Len(buf') = 0 /\ Len(batch') = 0 /\ nextLSN' = nextLSN
    BY EmptySeq DEF WriteBatchFail
  <2>2. Pending' = nextLSN
    BY <1>1, <2>1 DEF Pending
  <2> QED
    BY <1>1, <1>5, <2>2 DEF IInv, PipelineOK, WriteBatchFail, Consecutive
<1> QED
  BY <1>5, <1>6, <1>7, <1>8 DEF IInv

\* What the invariant needs of a step that empties the writer's buffer into its
\* file, or finds the writer stuck, and leaves the flusher's batch alone.
LEMMA DrainedPipeline ==
    ASSUME IInv, running, buf' = <<>>,
           UNCHANGED <<batch, cur, nextLSN, comp, snapLSN, graphLSN>>,
           DOMAIN files' = DOMAIN files, BelowIn(files', nextLSN - Len(batch)),
           ~stuck' => \A i \in DOMAIN files'[cur].frames : ~IsTorn(files'[cur].frames[i])
    PROVE  PipelineOK'
<1>1. /\ Len(buf) \in Nat /\ Len(batch) \in Nat /\ nextLSN \in Nat
      /\ Pending + Len(buf) = nextLSN - Len(batch)
  BY PipelineNumbers DEF Pending
<1>2. Len(buf') = 0 /\ Pending' = nextLSN - Len(batch)
  BY <1>1, EmptySeq DEF Pending
<1>3. Consecutive(batch', Pending' + Len(buf'))
  BY <1>1, <1>2 DEF IInv, PipelineOK
<1>4. Consecutive(buf', Pending')
  BY DEF Consecutive
<1> QED
  BY <1>2, <1>3, <1>4 DEF IInv, PipelineOK

\* A stuck writer holds nothing: the files stay as they are.
LEMMA StuckPipeline ==
    ASSUME IInv, running, stuck
    PROVE  BelowIn(files, nextLSN - Len(batch))
<1>1. Len(buf) = 0 /\ Pending = nextLSN - Len(batch)
  BY PipelineNumbers, EmptySeq DEF IInv, PipelineOK, Pending
<1> QED
  BY <1>1 DEF IInv, PipelineOK

\* Sync appends all that the writer holds.
LEMMA SyncStep ==
    ASSUME IInv, Sync
    PROVE  IInv'
<1>1. /\ running /\ ~stuck /\ PrefixOrTorn(buf, buf)
      /\ files' = [files EXCEPT ![cur] = Flushed(@, buf)] /\ buf' = <<>>
  BY WholeIsPrefix DEF IInv, TypeOK, Sync, running
<1>2. /\ TypedIn(files') /\ DOMAIN files' = DOMAIN files
      /\ OrderedIn(files') /\ TornTailIn(files') /\ BelowIn(files', nextLSN - Len(batch))
      /\ \A i \in DOMAIN files'[cur].frames : ~IsTorn(files'[cur].frames[i])
  BY <1>1, BufferHandedOver
<1>3. LSNsIn(files[cur].frames \o buf) \subseteq Nat \ {0}
  BY <1>1, WrittenLSNs
<1>4. TypeOK'
  <2>1. /\ buf' = <<>> /\ synced' = synced \cup LSNsIn(files[cur].frames \o buf)
        /\ UNCHANGED <<chan, batch, cur, nextLSN, failed, stuck, phase, time, comp,
                       snapLSN, graphLSN, accepted, runLSN, dropped, skipped, faulted, backdated>>
    BY DEF Sync, SyncCurrent
  <2>2. synced' \subseteq Nat \ {0}
    BY <1>3, <2>1 DEF IInv, TypeOK
  <2> QED
    BY <1>2, <2>1, <2>2 DEF IInv, TypeOK, TypedIn, running
<1>5. NamesOK' /\ PipelineOK'
  <2>1. /\ buf' = <<>> /\ UNCHANGED <<batch, cur, nextLSN, comp, snapLSN, graphLSN>>
        /\ time' = time
    BY DEF Sync
  <2>2. PipelineOK'
    BY <1>1, <1>2, <2>1, DrainedPipeline
  <2> QED
    BY <1>2, <2>1, <2>2 DEF IInv, NamesOK
<1> QED
  BY <1>2, <1>4, <1>5 DEF IInv

\* What SyncFail, RotateFail and CloseFail leave in the files.
LEMMA FailedHandOver ==
    ASSUME IInv, running,
           \/ ~stuck /\ \E rest \in Leftovers(buf) :
                 files' = [files EXCEPT ![cur] = AppendFrames(@, rest)]
           \/ ~stuck /\ files' = [files EXCEPT ![cur] = AppendFrames(@, buf)]
           \/ stuck /\ UNCHANGED files
    PROVE  /\ TypedIn(files') /\ DOMAIN files' = DOMAIN files
           /\ OrderedIn(files') /\ TornTailIn(files') /\ BelowIn(files', nextLSN - Len(batch))
           /\ ~stuck /\ files' = [files EXCEPT ![cur] = AppendFrames(@, buf)] =>
                 \A i \in DOMAIN files'[cur].frames : ~IsTorn(files'[cur].frames[i])
<1>1. buf \in Seq(Frame)
  BY DEF IInv, TypeOK
<1>2. CASE ~stuck /\ \E rest \in Leftovers(buf) :
                 files' = [files EXCEPT ![cur] = AppendFrames(@, rest)]
  <2>1. PICK rest \in Leftovers(buf) : files' = [files EXCEPT ![cur] = AppendFrames(@, rest)]
    BY <1>2
  <2>2. PrefixOrTorn(rest, buf) /\ PrefixOrTorn(buf, buf)
    BY <1>1, LeftoversArePrefixes, WholeIsPrefix
  <2> QED
    BY <1>2, <2>1, <2>2, BufferHandedOver
<1>3. CASE ~stuck /\ files' = [files EXCEPT ![cur] = AppendFrames(@, buf)]
  BY <1>1, <1>3, WholeIsPrefix, BufferHandedOver
<1>4. CASE stuck /\ UNCHANGED files
  BY <1>4, StuckPipeline, PipelineNumbers DEF IInv
<1> QED
  BY <1>2, <1>3, <1>4

\* Sync fails in its flush or in its fsync.
LEMMA SyncFailStep ==
    ASSUME IInv, SyncFail
    PROVE  IInv'
<1>1. /\ running
      /\ \/ ~stuck /\ \E rest \in Leftovers(buf) :
               files' = [files EXCEPT ![cur] = AppendFrames(@, rest)]
         \/ ~stuck /\ files' = [files EXCEPT ![cur] = AppendFrames(@, buf)]
         \/ stuck /\ UNCHANGED files
  BY DEF SyncFail, running
<1>2. /\ TypedIn(files') /\ DOMAIN files' = DOMAIN files
      /\ OrderedIn(files') /\ TornTailIn(files') /\ BelowIn(files', nextLSN - Len(batch))
      /\ ~stuck' => \A i \in DOMAIN files'[cur].frames : ~IsTorn(files'[cur].frames[i])
  BY <1>1, FailedHandOver DEF SyncFail
<1>3. TypeOK'
  <2>1. /\ buf' = <<>> /\ failed' = TRUE /\ faulted' = TRUE /\ stuck' \in BOOLEAN
        /\ UNCHANGED <<chan, batch, cur, nextLSN, phase, time, comp, snapLSN, graphLSN,
                       accepted, runLSN, synced, dropped, skipped, backdated>>
    BY DEF SyncFail, IInv, TypeOK
  <2> QED
    BY <1>2, <2>1 DEF IInv, TypeOK, TypedIn, running
<1>4. NamesOK' /\ PipelineOK'
  <2>1. /\ buf' = <<>> /\ UNCHANGED <<batch, cur, nextLSN, comp, snapLSN, graphLSN>>
        /\ time' = time
    BY DEF SyncFail
  <2>2. PipelineOK'
    BY <1>1, <1>2, <2>1, DrainedPipeline
  <2> QED
    BY <1>2, <2>1, <2>2 DEF IInv, NamesOK
<1> QED
  BY <1>2, <1>3, <1>4 DEF IInv

\* Rotate fails before it switches.
LEMMA RotateFailStep ==
    ASSUME IInv, RotateFail
    PROVE  IInv'
<1>1. /\ running
      /\ \/ ~stuck /\ \E rest \in Leftovers(buf) :
               files' = [files EXCEPT ![cur] = AppendFrames(@, rest)]
         \/ ~stuck /\ files' = [files EXCEPT ![cur] = AppendFrames(@, buf)]
         \/ stuck /\ UNCHANGED files
  BY DEF RotateFail
<1>2. /\ TypedIn(files') /\ DOMAIN files' = DOMAIN files
      /\ OrderedIn(files') /\ TornTailIn(files') /\ BelowIn(files', nextLSN - Len(batch))
      /\ ~stuck' => \A i \in DOMAIN files'[cur].frames : ~IsTorn(files'[cur].frames[i])
  BY <1>1, FailedHandOver DEF RotateFail
<1>3. TypeOK'
  <2>1. /\ buf' = <<>> /\ faulted' = TRUE /\ stuck' \in BOOLEAN
        /\ UNCHANGED <<chan, batch, cur, nextLSN, failed, phase, time, comp, snapLSN, graphLSN,
                       accepted, runLSN, synced, dropped, skipped, backdated>>
    BY DEF RotateFail, IInv, TypeOK
  <2> QED
    BY <1>2, <2>1 DEF IInv, TypeOK, TypedIn, running
<1>4. NamesOK' /\ PipelineOK'
  <2>1. /\ buf' = <<>> /\ UNCHANGED <<batch, cur, nextLSN, comp, snapLSN, graphLSN>>
        /\ time' = time
    BY DEF RotateFail
  <2>2. PipelineOK'
    BY <1>1, <1>2, <2>1, DrainedPipeline
  <2> QED
    BY <1>2, <2>1, <2>2 DEF IInv, NamesOK
<1> QED
  BY <1>2, <1>3, <1>4 DEF IInv

\* The order of files does not depend on more than their frames.
LEMMA SameFrames ==
    ASSUME NEW fs, NEW gs, NEW b, DOMAIN gs = DOMAIN fs,
           \A f \in DOMAIN fs : gs[f].frames = fs[f].frames
    PROVE  /\ OrderedIn(fs) => OrderedIn(gs)
           /\ TornTailIn(fs) => TornTailIn(gs)
           /\ BelowIn(fs, b) => BelowIn(gs, b)
BY DEF OrderedIn, TornTailIn, BelowIn

\* Nor does LinkAll change the frames.
LEMMA LinkAllKeepsFrames ==
    ASSUME NEW fs, TypedIn(fs)
    PROVE  /\ TypedIn(LinkAll(fs)) /\ DOMAIN LinkAll(fs) = DOMAIN fs
           /\ \A f \in DOMAIN fs : LinkAll(fs)[f].frames = fs[f].frames
<1>1. ASSUME NEW file \in WalFile
      PROVE  /\ [file EXCEPT !.linked = TRUE] \in WalFile
             /\ [file EXCEPT !.linked = TRUE].frames = file.frames
  BY DEF WalFile
<1>2. DOMAIN LinkAll(fs) = DOMAIN fs
  BY DEF LinkAll
<1>3. ASSUME NEW f \in DOMAIN fs
      PROVE  LinkAll(fs)[f] \in WalFile /\ LinkAll(fs)[f].frames = fs[f].frames
  <2>1. fs[f] \in WalFile
    BY DEF TypedIn
  <2>2. LinkAll(fs)[f] = [fs[f] EXCEPT !.linked = TRUE]
    BY DEF LinkAll
  <2> QED
    BY <1>1, <2>1, <2>2
<1> QED
  BY <1>2, <1>3 DEF TypedIn

\* A new file, later than the others, disturbs no order.
LEMMA NewFileKeepsOrder ==
    ASSUME NEW fs, TypedIn(fs), OrderedIn(fs), TornTailIn(fs), NEW b, BelowIn(fs, b),
           NEW t \in Nat, t \notin DOMAIN fs,
           NEW gs, DOMAIN gs = DOMAIN fs \cup {t}, gs[t] = NewFile,
           \A f \in DOMAIN fs : gs[f] = fs[f]
    PROVE  TypedIn(gs) /\ OrderedIn(gs) /\ TornTailIn(gs) /\ BelowIn(gs, b)
<1>1. /\ NewFile \in WalFile /\ NewFile.frames = <<>> /\ DOMAIN NewFile.frames = {}
  BY DEF NewFile, WalFile
<1>2. TypedIn(gs)
  BY <1>1 DEF TypedIn
<1>3. Within(gs, fs)
  BY <1>1 DEF Within
<1>4. TornTailIn(gs)
  BY <1>1 DEF TornTailIn
<1> QED
  BY <1>2, <1>3, <1>4, WithinKeepsOrder

\* The files when Rotate has switched to the file t.
LEMMA SwitchedFiles ==
    ASSUME IInv, NEW t \in 1..MaxTime, SwitchTo(t)
    PROVE  /\ TypedIn(RotatedTo(t)) /\ DOMAIN RotatedTo(t) = DOMAIN files \cup {t}
           /\ OrderedIn(RotatedTo(t)) /\ TornTailIn(RotatedTo(t))
           /\ BelowIn(RotatedTo(t), nextLSN - Len(batch))
           /\ RotatedTo(t)[t].frames = <<>>
<1> DEFINE mid == [files EXCEPT ![cur] = Flushed(@, buf)]
<1>1. /\ running /\ ~stuck /\ t \in Nat /\ t > time /\ time \in Nat
      /\ cur \in DOMAIN files /\ TypedIn(files)
      /\ buf \in Seq(Frame) /\ PrefixOrTorn(buf, buf)
  BY WholeIsPrefix DEF IInv, TypeOK, SwitchTo, RotationTime, TypedIn
<1>2. t \notin DOMAIN files
  BY <1>1 DEF IInv, NamesOK, TypedIn
<1>3. /\ TypedIn(mid) /\ DOMAIN mid = DOMAIN files /\ OrderedIn(mid) /\ TornTailIn(mid)
      /\ BelowIn(mid, nextLSN - Len(batch))
  BY <1>1, BufferHandedOver
<1>4. /\ DOMAIN RotatedTo(t) = DOMAIN files \cup {t}
      /\ RotatedTo(t)[t] = NewFile
      /\ \A f \in DOMAIN files : RotatedTo(t)[f] = mid[f]
  BY <1>1, <1>2 DEF RotatedTo
<1>5. NewFile.frames = <<>>
  BY DEF NewFile
<1> HIDE DEF mid
<1> QED
  BY <1>1, <1>2, <1>3, <1>4, <1>5, NewFileKeepsOrder

\* Rotate, and Rotate whose last FsyncDir fails.
LEMMA SwitchStep ==
    ASSUME IInv, NEW t \in 1..MaxTime, SwitchTo(t),
           files' = LinkAll(RotatedTo(t)) \/ files' = RotatedTo(t),
           comp' = [stage |-> "rotated", keep |-> t, wm |-> 0] \/ comp' = comp,
           faulted' \in BOOLEAN
    PROVE  IInv'
<1>1. /\ TypedIn(files') /\ DOMAIN files' = DOMAIN files \cup {t}
      /\ OrderedIn(files') /\ TornTailIn(files')
      /\ BelowIn(files', nextLSN - Len(batch))
      /\ files'[t].frames = <<>>
  <2>1. CASE files' = RotatedTo(t)
    BY <2>1, SwitchedFiles
  <2>2. CASE files' = LinkAll(RotatedTo(t))
    <3> DEFINE gs == RotatedTo(t)
               b == nextLSN - Len(batch)
    <3>1. /\ TypedIn(gs) /\ DOMAIN gs = DOMAIN files \cup {t}
          /\ OrderedIn(gs) /\ TornTailIn(gs) /\ BelowIn(gs, b) /\ gs[t].frames = <<>>
      BY SwitchedFiles
    <3>2. /\ TypedIn(LinkAll(gs)) /\ DOMAIN LinkAll(gs) = DOMAIN gs
          /\ \A f \in DOMAIN gs : LinkAll(gs)[f].frames = gs[f].frames
      BY <3>1, LinkAllKeepsFrames
    <3>3. files' = LinkAll(gs)
      BY <2>2
    <3> HIDE DEF gs, b
    <3>4. OrderedIn(files') /\ TornTailIn(files') /\ BelowIn(files', b)
      BY <3>1, <3>2, <3>3, SameFrames
    <3> QED
      BY <3>1, <3>2, <3>3, <3>4 DEF b
  <2> QED
    BY <2>1, <2>2
<1>2. /\ running /\ ~stuck /\ t \in Nat /\ t > time /\ time' = t /\ cur' = t /\ buf' = <<>>
      /\ comp = Idle
      /\ synced' = synced \cup LSNsIn(files[cur].frames \o buf)
      /\ UNCHANGED <<chan, batch, nextLSN, failed, stuck, phase, snapLSN, graphLSN, accepted,
                     runLSN, dropped, skipped, backdated>>
  <2>1. time \in Nat
    BY DEF IInv, TypeOK
  <2> QED
    BY <2>1 DEF SwitchTo, SyncCurrent, RotationTime
<1>3. /\ time \in Nat /\ nextLSN \in Nat \ {0} /\ Len(batch) \in Nat
      /\ DOMAIN files \subseteq Nat /\ \A f \in DOMAIN files : f < t
  BY <1>2, PipelineNumbers DEF IInv, TypeOK, NamesOK
<1>4. comp' \in [stage : Stages, keep : Nat, wm : Nat] /\ comp'.wm = 0
      /\ (comp'.stage # "idle" => comp'.keep = t)
  BY <1>2 DEF IInv, TypeOK, Stages, Idle
<1>5. TypeOK'
  <2>1. LSNsIn(files[cur].frames \o buf) \subseteq Nat \ {0}
    BY <1>2, WrittenLSNs
  <2>2. synced' \subseteq Nat \ {0}
    BY <1>2, <2>1 DEF IInv, TypeOK
  <2> QED
    BY <1>1, <1>2, <1>4, <2>2 DEF IInv, TypeOK, TypedIn, running
<1>6. NamesOK'
  BY <1>1, <1>2, <1>3 DEF NamesOK
<1>7. PipelineOK'
  <2>1. /\ Len(buf') = 0 /\ Pending' = nextLSN - Len(batch)
        /\ Pending + Len(buf) = nextLSN - Len(batch)
    BY <1>2, <1>3, PipelineNumbers, EmptySeq DEF Pending
  <2>2. /\ Consecutive(buf', Pending')
    BY <1>2 DEF Consecutive
  <2>3. Consecutive(batch', Pending' + Len(buf'))
    BY <1>2, <1>3, <2>1 DEF IInv, PipelineOK
  <2>4. /\ BelowIn(files', Pending')
        /\ \A f \in DOMAIN files' : f <= cur'
        /\ \A i \in DOMAIN files'[cur'].frames : ~IsTorn(files'[cur'].frames[i])
    BY <1>1, <1>2, <1>3, <2>1
  <2>5. /\ snapLSN' < nextLSN' /\ graphLSN' < nextLSN' /\ comp'.wm < nextLSN'
        /\ comp'.stage # "idle" => comp'.keep <= cur'
    BY <1>2, <1>3, <1>4 DEF IInv, PipelineOK
  <2> QED
    BY <1>2, <2>2, <2>3, <2>4, <2>5 DEF PipelineOK
<1> QED
  BY <1>1, <1>5, <1>6, <1>7 DEF IInv

\* Rotate succeeds.
LEMMA RotateStep ==
    ASSUME IInv, NEW t \in 1..MaxTime, Rotate(t)
    PROVE  IInv'
<1>1. faulted' \in BOOLEAN
  BY DEF IInv, TypeOK, Rotate
<1> QED
  BY <1>1, SwitchStep DEF Rotate

\* Rotate has switched and FsyncDir fails.
LEMMA RotateDirFailStep ==
    ASSUME IInv, NEW t \in 1..MaxTime, RotateDirFail(t)
    PROVE  IInv'
BY SwitchStep DEF RotateDirFail

\* The steps of a compaction from LastLSN on: it moves on, and at most the files
\* become linked.
LEMMA CompactionStep ==
    ASSUME IInv, running,
           files' = files \/ files' = LinkAll(files),
           comp' \in [stage : Stages, keep : Nat, wm : Nat],
           comp'.wm < nextLSN, comp'.stage # "idle" => comp'.keep <= cur,
           snapLSN' \in Nat, snapLSN' < nextLSN, graphLSN' \in Nat, graphLSN' < nextLSN,
           UNCHANGED <<chan, batch, buf, cur, nextLSN, failed, stuck, phase, time,
                       accepted, runLSN, synced, dropped, skipped, faulted, backdated>>
    PROVE  IInv'
<1>1. TypedIn(files) /\ OrderedIn(files) /\ TornTailIn(files) /\ BelowIn(files, Pending)
  BY PipelineNumbers DEF IInv, PipelineOK
<1>2. /\ TypedIn(files') /\ DOMAIN files' = DOMAIN files
      /\ \A f \in DOMAIN files : files'[f].frames = files[f].frames
  BY <1>1, LinkAllKeepsFrames
<1>3. OrderedIn(files') /\ TornTailIn(files') /\ BelowIn(files', Pending)
  BY <1>1, <1>2, SameFrames
<1>4. TypeOK'
  BY <1>2 DEF IInv, TypeOK, TypedIn, running
<1>5. NamesOK'
  BY <1>2 DEF IInv, NamesOK
<1>6. PipelineOK'
  <2>1. Pending' = Pending /\ cur \in DOMAIN files
    BY DEF Pending, IInv, TypeOK
  <2> QED
    BY <1>2, <1>3, <2>1 DEF IInv, PipelineOK
<1> QED
  BY <1>3, <1>4, <1>5, <1>6 DEF IInv

\* A watermark that is taken now is below nextLSN.
LEMMA WatermarkTaken ==
    ASSUME IInv, running, NEW stage \in Stages,
           comp' = [comp EXCEPT !.stage = stage, !.wm = nextLSN - 1]
    PROVE  /\ comp' \in [stage : Stages, keep : Nat, wm : Nat]
           /\ comp'.wm < nextLSN /\ comp'.keep = comp.keep
<1>1. comp \in [stage : Stages, keep : Nat, wm : Nat] /\ nextLSN \in Nat \ {0}
  BY DEF IInv, TypeOK
<1>2. nextLSN - 1 \in Nat /\ nextLSN - 1 < nextLSN
  BY <1>1
<1>3. \A w \in Nat : LET d == [comp EXCEPT !.stage = stage, !.wm = w] IN
         d \in [stage : Stages, keep : Nat, wm : Nat] /\ d.wm = w /\ d.keep = comp.keep
  BY <1>1
<1> QED
  BY <1>2, <1>3

\* The watermark of snapshot.wal.
LEMMA LastLSNStep ==
    ASSUME IInv, LastLSN
    PROVE  IInv'
<1>1. /\ nextLSN \in Nat \ {0} /\ snapLSN \in Nat /\ graphLSN \in Nat
      /\ running /\ PipelineOK /\ comp.stage = "rotated"
  BY DEF IInv, TypeOK, LastLSN
<1>2. /\ comp' \in [stage : Stages, keep : Nat, wm : Nat]
      /\ comp'.wm < nextLSN /\ comp'.keep = comp.keep
  <2>1. comp' = [comp EXCEPT !.stage = "snapshot", !.wm = nextLSN - 1] /\ "snapshot" \in Stages
    BY DEF LastLSN, Stages
  <2> QED
    BY <1>1, <2>1, WatermarkTaken
<1> QED
  BY <1>1, <1>2, CompactionStep DEF LastLSN, PipelineOK

\* The watermark of graph_leveled.bin.
LEMMA SetSnapshotWatermarkStep ==
    ASSUME IInv, SetSnapshotWatermark
    PROVE  IInv'
<1>1. /\ nextLSN \in Nat \ {0} /\ snapLSN \in Nat /\ graphLSN \in Nat
      /\ running /\ PipelineOK /\ comp.stage = "vectors"
  BY DEF IInv, TypeOK, SetSnapshotWatermark
<1>2. /\ comp' \in [stage : Stages, keep : Nat, wm : Nat]
      /\ comp'.wm < nextLSN /\ comp'.keep = comp.keep
  <2>1. comp' = [comp EXCEPT !.stage = "graph", !.wm = nextLSN - 1] /\ "graph" \in Stages
    BY DEF SetSnapshotWatermark, Stages
  <2> QED
    BY <1>1, <2>1, WatermarkTaken
<1> QED
  BY <1>1, <1>2, CompactionStep DEF SetSnapshotWatermark, PipelineOK

\* snapshot.wal gets the watermark of the compaction.
LEMMA SnapshotDoneStep ==
    ASSUME IInv, SnapshotDone
    PROVE  IInv'
<1>1. /\ comp \in [stage : Stages, keep : Nat, wm : Nat] /\ nextLSN \in Nat \ {0}
      /\ running /\ PipelineOK /\ comp.stage = "snapshot" /\ snapLSN' = comp.wm
      /\ comp' = [comp EXCEPT !.stage = "vectors"] /\ graphLSN \in Nat
  BY DEF IInv, TypeOK, SnapshotDone
<1>2. /\ comp' \in [stage : Stages, keep : Nat, wm : Nat]
      /\ comp'.wm = comp.wm /\ comp'.keep = comp.keep
  BY <1>1 DEF Stages
<1> QED
  BY <1>1, <1>2, CompactionStep DEF SnapshotDone, PipelineOK

\* graph_leveled.bin gets the watermark that SetSnapshotWatermark took.
LEMMA VectorsSavedStep ==
    ASSUME IInv, VectorsSaved
    PROVE  IInv'
<1>1. /\ comp \in [stage : Stages, keep : Nat, wm : Nat] /\ nextLSN \in Nat \ {0}
      /\ running /\ PipelineOK /\ comp.stage = "graph" /\ graphLSN' = comp.wm
      /\ comp' = [comp EXCEPT !.stage = "cleanup"] /\ snapLSN \in Nat
  BY DEF IInv, TypeOK, VectorsSaved
<1>2. /\ comp' \in [stage : Stages, keep : Nat, wm : Nat]
      /\ comp'.wm = comp.wm /\ comp'.keep = comp.keep
  BY <1>1 DEF Stages
<1> QED
  BY <1>1, <1>2, CompactionStep DEF VectorsSaved, PipelineOK

\* A compaction that fails is given up; the watermark on disk is the old one or the
\* one that the compaction took.
LEMMA SnapshotFailStep ==
    ASSUME IInv, SnapshotFail
    PROVE  IInv'
<1>1. /\ nextLSN \in Nat \ {0} /\ snapLSN \in Nat /\ graphLSN \in Nat /\ comp.wm \in Nat
      /\ running /\ PipelineOK /\ comp' = Idle
  BY DEF IInv, TypeOK, SnapshotFail
<1>2. /\ comp' \in [stage : Stages, keep : Nat, wm : Nat]
      /\ comp'.wm = 0 /\ comp'.stage = "idle"
  BY <1>1 DEF Idle, Stages
<1>3. snapLSN' \in {snapLSN, comp.wm} /\ graphLSN' \in {graphLSN, comp.wm}
  BY DEF SnapshotFail
<1>4. /\ snapLSN' \in Nat /\ graphLSN' \in Nat
      /\ snapLSN' < nextLSN /\ graphLSN' < nextLSN
  BY <1>1, <1>3 DEF PipelineOK
<1> QED
  BY <1>1, <1>2, <1>4, CompactionStep DEF SnapshotFail, PipelineOK

\* Files that go away disturb no order, and the writer's file is not one of them.
LEMMA CleanupStep ==
    ASSUME IInv, Cleanup
    PROVE  IInv'
<1>1. running /\ cur \in DOMAIN files /\ comp.stage = "cleanup" /\ comp.keep <= cur
      /\ comp \in [stage : Stages, keep : Nat, wm : Nat] /\ TypedIn(files) /\ nextLSN \in Nat \ {0}
  BY PipelineNumbers DEF IInv, TypeOK, PipelineOK, Cleanup
<1>2. UNCHANGED <<chan, batch, buf, cur, nextLSN, failed, stuck, phase, time,
                  snapLSN, graphLSN, accepted, runLSN, synced, skipped, faulted, backdated>>
  BY DEF Cleanup
<1>3. CASE comp' = Idle /\ UNCHANGED <<files, dropped>>
  <2>1. /\ comp' \in [stage : Stages, keep : Nat, wm : Nat]
        /\ comp'.wm = 0 /\ comp'.stage = "idle"
    BY <1>3 DEF Idle, Stages
  <2>2. snapLSN \in Nat /\ snapLSN < nextLSN /\ graphLSN \in Nat /\ graphLSN < nextLSN
    BY <1>1 DEF IInv, TypeOK, PipelineOK
  <2> QED
    BY <1>1, <1>2, <1>3, <2>1, <2>2, CompactionStep
<1>4. CASE \E f \in OldWALs(comp.keep) :
             /\ files' = [g \in DOMAIN files \ {f} |-> files[g]]
             /\ dropped' = dropped \cup LSNsIn(files[f].frames)
             /\ UNCHANGED comp
  <2>1. PICK f \in OldWALs(comp.keep) :
             /\ files' = [g \in DOMAIN files \ {f} |-> files[g]]
             /\ dropped' = dropped \cup LSNsIn(files[f].frames)
             /\ UNCHANGED comp
    BY <1>4
  <2>2. f \in DOMAIN files /\ f \in Nat /\ f # cur
    BY <1>1 DEF OldWALs, TypedIn
  <2>3. /\ DOMAIN files' = DOMAIN files \ {f}
        /\ \A g \in DOMAIN files' : files'[g] = files[g]
        /\ cur \in DOMAIN files'
    BY <1>1, <2>1, <2>2
  <2>4. TypedIn(files') /\ Within(files', files) /\ TornTailIn(files')
    BY <1>1, <2>3 DEF IInv, TypedIn, Within, TornTailIn
  <2>5. OrderedIn(files') /\ BelowIn(files', Pending)
    BY <1>1, <2>4, WithinKeepsOrder DEF IInv, PipelineOK
  <2>6. dropped' \subseteq Nat \ {0}
    <3>1. files[f].frames \in Frames
      BY <1>1, <2>2 DEF TypedIn, WalFile, Frames
    <3>2. LSNsIn(files[f].frames) \subseteq Nat \ {0}
      BY <3>1, LSNsArePositive
    <3> QED
      BY <2>1, <3>2 DEF IInv, TypeOK
  <2>7. TypeOK'
    BY <1>2, <2>1, <2>3, <2>4, <2>6 DEF IInv, TypeOK, TypedIn, running
  <2>8. NamesOK'
    BY <1>2, <2>3 DEF IInv, NamesOK
  <2>9. PipelineOK'
    <3>1. Pending' = Pending /\ PipelineOK
      BY <1>2 DEF Pending, IInv
    <3> QED
      BY <1>1, <1>2, <2>1, <2>3, <2>5, <3>1 DEF PipelineOK
  <2> QED
    BY <2>4, <2>5, <2>7, <2>8, <2>9 DEF IInv
<1> QED
  BY <1>3, <1>4 DEF Cleanup

\* Shutdown begins.
LEMMA BeginCloseStep ==
    ASSUME IInv, BeginClose
    PROVE  IInv'
<1>1. TypeOK'
  BY DEF IInv, TypeOK, BeginClose, running
<1>2. TornTailIn(files') /\ OrderedIn(files') /\ NamesOK' /\ PipelineOK'
  BY DEF IInv, NamesOK, PipelineOK, Pending, running, BeginClose
<1> QED
  BY <1>1, <1>2 DEF IInv

\* WAL.Close hands over and fsyncs what the writer holds.
LEMMA CloseStep ==
    ASSUME IInv, Close
    PROVE  IInv'
<1>1. /\ running /\ ~stuck /\ PrefixOrTorn(buf, buf)
      /\ files' = [files EXCEPT ![cur] = Flushed(@, buf)]
      /\ buf' = <<>> /\ phase' = "stopped"
      /\ synced' = synced \cup LSNsIn(files[cur].frames \o buf)
      /\ UNCHANGED <<chan, batch, cur, nextLSN, failed, stuck, time, comp, snapLSN, graphLSN,
                     accepted, runLSN, dropped, skipped, faulted, backdated>>
  BY WholeIsPrefix DEF IInv, TypeOK, Close, SyncCurrent, running
<1>2. /\ TypedIn(files') /\ DOMAIN files' = DOMAIN files
      /\ OrderedIn(files') /\ TornTailIn(files')
  BY <1>1, BufferHandedOver
<1>3. LSNsIn(files[cur].frames \o buf) \subseteq Nat \ {0}
  BY <1>1, WrittenLSNs
<1>4. TypeOK'
  <2>1. synced' \subseteq Nat \ {0}
    BY <1>1, <1>3 DEF IInv, TypeOK
  <2> QED
    BY <1>1, <1>2, <2>1 DEF IInv, TypeOK, TypedIn, running
<1>5. NamesOK' /\ PipelineOK'
  BY <1>1, <1>2 DEF IInv, NamesOK, PipelineOK, running
<1> QED
  BY <1>2, <1>4, <1>5 DEF IInv

\* WAL.Close fails.
LEMMA CloseFailStep ==
    ASSUME IInv, CloseFail
    PROVE  IInv'
<1>1. /\ running /\ buf' = <<>> /\ phase' = "down"
      /\ UNCHANGED <<chan, batch, cur, nextLSN, failed, stuck, time, comp, snapLSN, graphLSN,
                     accepted, runLSN, synced, dropped, skipped, faulted, backdated>>
  BY DEF CloseFail, running
<1>2. TypedIn(files') /\ DOMAIN files' = DOMAIN files /\ OrderedIn(files') /\ TornTailIn(files')
  BY <1>1, FailedHandOver DEF CloseFail
<1>3. TypeOK'
  BY <1>1, <1>2 DEF IInv, TypeOK, TypedIn, running
<1>4. NamesOK' /\ PipelineOK'
  BY <1>1, <1>2 DEF IInv, NamesOK, PipelineOK, running
<1> QED
  BY <1>2, <1>3, <1>4 DEF IInv

\* A process that has died needs of its files only that they are in order.
LEMMA StoppedKeepsIInv ==
    ASSUME IInv, Stopped, TypedIn(files'), DOMAIN files' \subseteq DOMAIN files,
           OrderedIn(files'), TornTailIn(files')
    PROVE  IInv'
<1>1. /\ phase' = "down" /\ chan' = <<>> /\ batch' = <<>> /\ buf' = <<>> /\ comp' = Idle
      /\ UNCHANGED <<cur, nextLSN, failed, stuck, time, snapLSN, graphLSN, accepted, runLSN,
                     synced, dropped, skipped, faulted, backdated>>
  BY DEF Stopped
<1>2. Idle \in [stage : Stages, keep : Nat, wm : Nat]
  BY DEF Idle, Stages
<1>3. TypeOK'
  BY <1>1, <1>2 DEF IInv, TypeOK, TypedIn, running
<1>4. NamesOK' /\ PipelineOK'
  BY <1>1 DEF IInv, NamesOK, PipelineOK, running
<1> QED
  BY <1>3, <1>4 DEF IInv

\* A killed process may leave a torn frame at the end of its file.
LEMMA KillStep ==
    ASSUME IInv, Kill
    PROVE  IInv'
<1> DEFINE out == buf \o batch
<1>1. /\ buf \in Seq(Frame) /\ batch \in Seq(Frame) /\ Pending \in Int
      /\ Consecutive(buf, Pending) /\ Consecutive(batch, Pending + Len(buf))
      /\ running /\ TypedIn(files)
  BY PipelineNumbers DEF IInv, TypeOK, PipelineOK, Kill
<1>2. out \in Seq(Frame) /\ Consecutive(out, Pending)
  BY <1>1, OutIsConsecutive
<1>3. TypedIn(files') /\ DOMAIN files' = DOMAIN files /\ OrderedIn(files') /\ TornTailIn(files')
  <2>1. CASE UNCHANGED files
    BY <1>1, <2>1 DEF IInv
  <2>2. CASE /\ out # <<>>
             /\ files' = [files EXCEPT ![cur] = AppendFrames(@, <<Torn>>)]
    <3> HIDE DEF out
    <3>1. PrefixOrTorn(<<Torn>>, out)
      BY <1>2, <2>2, TornIsPrefix
    <3>2. \A i \in DOMAIN <<Torn>> : IsTorn(<<Torn>>[i])
      BY FrameKinds
    <3> QED
      BY <1>1, <1>2, <2>2, <3>1, <3>2, WriterAppends
  <2> QED
    BY <2>1, <2>2 DEF Kill
<1> QED
  BY <1>3, StoppedKeepsIInv DEF Kill

\* What power loss leaves of one file.
LEMMA CutFile ==
    ASSUME NEW file \in WalFile, NEW partial,
           \A i, j \in DOMAIN file.frames :
                i < j /\ IsTorn(file.frames[i]) => IsTorn(file.frames[j]),
           NEW a \in AfterPowerLoss(file, partial)
    PROVE  /\ a \in WalFile
           /\ \A i, j \in DOMAIN a.frames :
                i < j /\ IsTorn(a.frames[i]) => IsTorn(a.frames[j])
           /\ \A i \in DOMAIN a.frames : ~IsTorn(a.frames[i]) =>
                i \in DOMAIN file.frames /\ a.frames[i] = file.frames[i]
<1> DEFINE old == file.frames
           cut(k) == SubSeq(old, 1, k)
<1>1. /\ old \in Frames /\ file.synced \in Nat /\ Len(old) \in Nat
      /\ DOMAIN old = 1..Len(old)
  BY LenProperties DEF WalFile, Frames
<1>2. ASSUME NEW k \in file.synced..Len(old)
      PROVE  /\ cut(k) \in Frames /\ Len(cut(k)) = k /\ DOMAIN cut(k) = 1..k
             /\ k \in Nat /\ k <= Len(old)
             /\ \A i \in 1..k : i \in DOMAIN old /\ cut(k)[i] = old[i]
  <2>1. k \in Nat /\ k <= Len(old)
    BY <1>1
  <2>2. \A i \in 1..k : i \in DOMAIN old /\ old[i] \in Frame \cup {Torn}
    BY <1>1, <2>1, ElementOfSeq DEF Frames
  <2>3. /\ cut(k) \in Frames /\ Len(cut(k)) = k
        /\ \A i \in 1..k : cut(k)[i] = old[i]
    BY <1>1, <2>1, <2>2, SubSeqProperties DEF Frames
  <2>4. DOMAIN cut(k) = 1..k
    BY <2>3, LenProperties DEF Frames
  <2> QED
    BY <2>1, <2>2, <2>3, <2>4
<1> HIDE DEF cut
<1>3. CASE \E k \in file.synced..Len(old) :
             a = [frames |-> cut(k), synced |-> k, linked |-> TRUE]
  <2>1. PICK k \in file.synced..Len(old) :
             a = [frames |-> cut(k), synced |-> k, linked |-> TRUE]
    BY <1>3
  <2>2. a.frames = cut(k) /\ a \in WalFile
    BY <1>2, <2>1 DEF WalFile, Frames
  <2> QED
    BY <1>2, <2>2
<1>4. CASE \E k \in file.synced..Len(old) :
             a = [frames |-> Append(cut(k), Torn), synced |-> k + 1, linked |-> TRUE]
  <2>1. PICK k \in file.synced..Len(old) :
             a = [frames |-> Append(cut(k), Torn), synced |-> k + 1, linked |-> TRUE]
    BY <1>4
  <2>2. /\ Append(cut(k), Torn) \in Frames
        /\ DOMAIN Append(cut(k), Torn) = 1..(k + 1)
        /\ \A i \in 1..k : Append(cut(k), Torn)[i] = cut(k)[i]
        /\ Append(cut(k), Torn)[k + 1] = Torn
    BY <1>2, AppendProperties, LenProperties DEF Frames
  <2>3. a.frames = Append(cut(k), Torn) /\ a \in WalFile
    BY <1>2, <2>1, <2>2 DEF WalFile, Frames
  <2>4. ASSUME NEW i \in DOMAIN a.frames
        PROVE  i = k + 1 \/ (i \in 1..k /\ i \in DOMAIN old /\ a.frames[i] = old[i])
    BY <1>2, <2>2, <2>3
  <2>5. IsTorn(a.frames[k + 1])
    BY <2>2, <2>3, FrameKinds
  <2> QED
    BY <1>2, <2>2, <2>3, <2>4, <2>5
<1> QED
  BY <1>3, <1>4 DEF AfterPowerLoss, cut

\* Power loss cuts every file to a prefix, perhaps with a torn frame.
LEMMA PowerLossStep ==
    ASSUME IInv, PowerLoss
    PROVE  IInv'
<1>1. PICK gone \in SUBSET {f \in DOMAIN files : MayVanish(f)} :
         \E after \in [DOMAIN files \ gone -> UNION {LostPower(f) : f \in DOMAIN files \ gone}] :
            /\ \A f \in DOMAIN files \ gone : after[f] \in LostPower(f)
            /\ files' = after
  BY DEF PowerLoss
<1>2. /\ DOMAIN files' = DOMAIN files \ gone
      /\ \A f \in DOMAIN files' : files'[f] \in LostPower(f)
  BY <1>1
<1>3. TypedIn(files)
  BY PipelineNumbers
<1>4. ASSUME NEW f \in DOMAIN files'
      PROVE  /\ files'[f] \in WalFile
             /\ \A i, j \in DOMAIN files'[f].frames :
                  i < j /\ IsTorn(files'[f].frames[i]) => IsTorn(files'[f].frames[j])
             /\ \A i \in DOMAIN files'[f].frames : ~IsTorn(files'[f].frames[i]) =>
                  i \in DOMAIN files[f].frames /\ files'[f].frames[i] = files[f].frames[i]
  <2>1. f \in DOMAIN files /\ files[f] \in WalFile /\ files'[f] \in LostPower(f)
    BY <1>2, <1>3 DEF TypedIn
  <2>2. \A i, j \in DOMAIN files[f].frames :
           i < j /\ IsTorn(files[f].frames[i]) => IsTorn(files[f].frames[j])
    BY <2>1 DEF IInv, TornTailIn
  <2> QED
    BY <2>1, <2>2, CutFile DEF LostPower
<1>5. TypedIn(files') /\ TornTailIn(files') /\ Within(files', files)
  BY <1>2, <1>3, <1>4 DEF TypedIn, TornTailIn, Within
<1>6. OrderedIn(files')
  BY <1>5, WithinKeepsOrder DEF IInv
<1> QED
  BY <1>2, <1>5, <1>6, StoppedKeepsIInv DEF PowerLoss

\* What main reads when it starts bounds every LSN on disk: a whole frame behind
\* which no torn one lies is readable.
LEMMA ReadableBoundsAll ==
    ASSUME TypedIn(files), TornTailIn(files), NEW b,
           \A l \in ReadableLSNs : l < b
    PROVE  BelowIn(files, b)
<1> SUFFICES ASSUME NEW f \in DOMAIN files, NEW i \in DOMAIN files[f].frames,
                    ~IsTorn(files[f].frames[i])
             PROVE  files[f].frames[i].lsn < b
  BY DEF BelowIn
<1>1. files[f].frames \in Frames /\ Len(files[f].frames) \in Nat
      /\ DOMAIN files[f].frames = 1..Len(files[f].frames)
  BY LenProperties DEF TypedIn, WalFile, Frames
<1>2. ASSUME NEW j \in 1..i PROVE ~IsTorn(files[f].frames[j])
  <2>1. j \in DOMAIN files[f].frames /\ (j < i \/ j = i)
    BY <1>1
  <2> QED
    BY <2>1 DEF TornTailIn
<1>3. Readable(f, i)
  BY <1>2 DEF Readable
<1>4. files[f].frames[i].lsn \in ReadableLSNs
  BY <1>3 DEF ReadableLSNs
<1> QED
  BY <1>4

\* The LSNs that main reads are positive integers.
LEMMA ReadableLSNsArePositive ==
    ASSUME TypedIn(files)
    PROVE  ReadableLSNs \subseteq Nat \ {0}
<1> SUFFICES ASSUME NEW f \in DOMAIN files, NEW i \in DOMAIN files[f].frames, Readable(f, i)
             PROVE  files[f].frames[i].lsn \in Nat \ {0}
  BY DEF ReadableLSNs
<1>1. files[f].frames \in Frames
  BY DEF TypedIn, WalFile, Frames
<1>2. i \in 1..i /\ files[f].frames[i] \in Frame \cup {Torn}
  BY <1>1, ElementOfSeq, LenProperties DEF Frames
<1>3. ~IsTorn(files[f].frames[i])
  BY <1>2 DEF Readable
<1> QED
  BY <1>2, <1>3, FrameKinds

\* A time cut to the second is a time, and not a later one.
LEMMA StartNameIsNat ==
    ASSUME NEW t \in Nat
    PROVE  StartName(t) \in Nat /\ StartName(t) <= t
<1> DEFINE r == t % NanosPerSecond
           n == NanosPerSecond
<1>1. n \in Nat \ {0}
  BY ClockAssumption
<1>2. r \in 0..(n - 1)
  BY <1>1
<1>3. CASE t < n
  <2>1. t % n = t
    BY <1>1, <1>3
  <2> QED
    BY <2>1 DEF StartName
<1>4. CASE n <= t
  <2> HIDE DEF r, n
  <2>1. r \in Nat /\ r <= t
    BY <1>1, <1>2, <1>4
  <2>2. StartName(t) = t - r
    BY DEF StartName, r, n
  <2> QED
    BY <2>1, <2>2
<1> QED
  BY <1>1, <1>3, <1>4

\* A start that is not backdated opens a new, last file and continues above every
\* LSN on disk.
LEMMA StartStep ==
    ASSUME IInv, ~backdated', NEW t \in 1..MaxTime, Start(t)
    PROVE  IInv'
<1> DEFINE new == StartName(t)
<1>1. /\ time \in Nat /\ snapLSN \in Nat /\ graphLSN \in Nat /\ TypedIn(files)
      /\ OrderedIn(files) /\ TornTailIn(files) /\ NamesOK
  BY PipelineNumbers DEF IInv, TypeOK
<1>2. new \in Nat /\ (\A f \in DOMAIN files : f < new) /\ new <= t /\ t \in Nat
  <2>1. \A f \in DOMAIN files : ~(new <= f)
    BY DEF Start
  <2>2. t \in Nat /\ t % NanosPerSecond \in Nat
    BY ClockAssumption
  <2>3. new = t - (t % NanosPerSecond)
    BY DEF StartName
  <2>4. new \in Nat /\ new <= t
    BY <2>2, <2>3, StartNameIsNat
  <2> HIDE DEF new
  <2> QED
    BY <1>1, <2>1, <2>2, <2>4 DEF TypedIn
<1>3. new \notin DOMAIN files
  BY <1>2
<1>4. /\ time' = t /\ cur' = new /\ phase' = "up"
      /\ chan' = <<>> /\ batch' = <<>> /\ buf' = <<>> /\ accepted' = <<>>
      /\ failed' = FALSE /\ stuck' = FALSE /\ faulted' = FALSE /\ backdated' = FALSE
      /\ comp' = Idle /\ runLSN' = nextLSN'
      /\ UNCHANGED <<snapLSN, graphLSN, synced, dropped>>
      /\ skipped' = skipped \cup { l \in 1..(nextLSN' - 1) : \A r \in ReadableLSNs : r < l }
  BY DEF Start
<1>5. /\ DOMAIN files' = DOMAIN files \cup {new}
      /\ files'[new] = NewFile
      /\ \A f \in DOMAIN files : files'[f] = files[f]
  BY <1>3 DEF Start
<1>6. PICK maxLSN \in KnownLSNs :
         /\ \A l \in KnownLSNs : l <= maxLSN
         /\ nextLSN' = maxLSN + 1
  BY DEF Start
<1>7. /\ maxLSN \in Nat /\ nextLSN' \in Nat \ {0} /\ snapLSN < nextLSN' /\ graphLSN < nextLSN'
      /\ \A l \in ReadableLSNs : l < nextLSN'
  BY <1>1, <1>6, ReadableLSNsArePositive DEF KnownLSNs
<1>8. BelowIn(files, nextLSN')
  BY <1>1, <1>7, ReadableBoundsAll
<1> HIDE DEF new
<1>9. TypedIn(files') /\ OrderedIn(files') /\ TornTailIn(files') /\ BelowIn(files', nextLSN')
  BY <1>1, <1>2, <1>3, <1>5, <1>8, NewFileKeepsOrder
<1>10. Idle \in [stage : Stages, keep : Nat, wm : Nat] /\ Idle.wm = 0 /\ Idle.stage = "idle"
  BY DEF Idle, Stages
<1>11. TypeOK'
  <2>1. /\ chan' \in Seq(Records) /\ accepted' \in Seq(Records)
        /\ batch' \in Seq(Frame) /\ buf' \in Seq(Frame)
    BY <1>4, EmptySeq
  <2>2. /\ DOMAIN files' \subseteq Nat /\ \A f \in DOMAIN files' : files'[f] \in WalFile
        /\ cur' \in Nat /\ cur' \in DOMAIN files'
    BY <1>2, <1>4, <1>5, <1>9 DEF TypedIn
  <2>3. /\ failed' \in BOOLEAN /\ stuck' \in BOOLEAN /\ faulted' \in BOOLEAN
        /\ backdated' \in BOOLEAN
        /\ phase' \in {"down", "up", "closing", "stopped"}
        /\ comp' \in [stage : Stages, keep : Nat, wm : Nat]
    BY <1>4, <1>10
  <2>4. /\ nextLSN' \in Nat \ {0} /\ runLSN' \in Nat \ {0} /\ time' \in Nat
        /\ snapLSN' \in Nat /\ graphLSN' \in Nat
        /\ synced' \subseteq Nat \ {0} /\ dropped' \subseteq Nat \ {0}
    BY <1>2, <1>4, <1>7 DEF IInv, TypeOK
  <2>5. skipped' \subseteq Nat \ {0}
    <3> DEFINE over == { l \in 1..(nextLSN' - 1) : \A r \in ReadableLSNs : r < l }
    <3>1. over \subseteq Nat \ {0}
      BY <1>7
    <3>2. skipped \subseteq Nat \ {0}
      BY DEF IInv, TypeOK
    <3>3. skipped' = skipped \cup over
      BY <1>4
    <3> HIDE DEF over
    <3> QED
      BY <3>1, <3>2, <3>3
  <2> QED
    BY <2>1, <2>2, <2>3, <2>4, <2>5 DEF TypeOK
<1>12. NamesOK'
  BY <1>1, <1>2, <1>4, <1>5 DEF NamesOK, TypedIn
<1>13. PipelineOK'
  <2>0. Len(buf') = 0 /\ Len(batch') = 0
    <3>1. Len(<<>>) = 0
      BY EmptySeq
    <3> QED
      BY <1>4, <3>1
  <2>1. Pending' = nextLSN'
    <3>1. nextLSN' \in Int /\ Pending' = (nextLSN' - Len(batch')) - Len(buf')
      BY <1>7 DEF Pending
    <3>2. \A a \in Int : (a - 0) - 0 = a
      OBVIOUS
    <3> QED
      BY <2>0, <3>1, <3>2, Zenon
  <2>2. \A f \in DOMAIN files' : f <= cur'
    BY <1>1, <1>2, <1>4, <1>5 DEF NamesOK, TypedIn
  <2>3. \A i \in DOMAIN files'[cur'].frames : ~IsTorn(files'[cur'].frames[i])
    BY <1>4, <1>5 DEF NewFile
  <2>4. Consecutive(buf', Pending') /\ Consecutive(batch', Pending' + Len(buf'))
    BY <1>4 DEF Consecutive
  <2> QED
    BY <1>4, <1>7, <1>9, <1>10, <2>0, <2>1, <2>2, <2>3, <2>4 DEF PipelineOK
<1> QED
  BY <1>9, <1>11, <1>12, <1>13 DEF IInv

(***************************************************************************)
(* The theorems                                                            *)
(***************************************************************************)
\* The invariant holds before the first start.
LEMMA InitIInv ==
    ASSUME Init
    PROVE  IInv
<1>1. DOMAIN files = {} /\ phase = "down"
  BY DEF Init
<1>2. TypeOK
  <2>1. /\ chan \in Seq(Records) /\ accepted \in Seq(Records)
        /\ batch \in Seq(Frame) /\ buf \in Seq(Frame)
    BY EmptySeq DEF Init
  <2>2. comp \in [stage : Stages, keep : Nat, wm : Nat]
    BY DEF Init, Idle, Stages
  <2> QED
    <3>1. /\ cur \in Nat /\ nextLSN \in Nat \ {0} /\ runLSN \in Nat \ {0}
          /\ time \in Nat /\ snapLSN \in Nat /\ graphLSN \in Nat
          /\ failed \in BOOLEAN /\ stuck \in BOOLEAN /\ faulted \in BOOLEAN
          /\ backdated \in BOOLEAN
          /\ phase \in {"down", "up", "closing", "stopped"}
          /\ synced \subseteq Nat \ {0} /\ dropped \subseteq Nat \ {0}
          /\ skipped \subseteq Nat \ {0}
      <4>1. /\ cur = 0 /\ nextLSN = 1 /\ runLSN = 1 /\ time = 0 /\ snapLSN = 0
            /\ graphLSN = 0 /\ skipped = {}
            /\ failed = FALSE /\ stuck = FALSE /\ faulted = FALSE /\ backdated = FALSE
            /\ synced = {} /\ dropped = {}
        BY DEF Init
      <4>2. /\ failed \in BOOLEAN /\ stuck \in BOOLEAN /\ faulted \in BOOLEAN
            /\ backdated \in BOOLEAN
            /\ phase \in {"down", "up", "closing", "stopped"}
        BY <1>1, <4>1, Zenon
      <4>3. 0 \in Nat /\ 1 \in Nat \ {0} /\ {} \subseteq Nat \ {0}
        OBVIOUS
      <4> QED
        BY <4>1, <4>2, <4>3, Zenon
    <3>2. DOMAIN files \subseteq Nat /\ \A f \in DOMAIN files : files[f] \in WalFile
      BY <1>1
    <3>3. ~running
      BY <1>1 DEF running
    <3> QED
      BY <2>1, <2>2, <3>1, <3>2, <3>3, Zenon DEF TypeOK
<1> QED
  BY <1>1, <1>2 DEF IInv, TornTailIn, OrderedIn, NamesOK, PipelineOK, running

\* Every step keeps the invariant.
LEMMA NextIInv ==
    ASSUME IInv, ~backdated', [Next]_walVars
    PROVE  IInv'
<1>1. CASE UNCHANGED walVars
  BY <1>1 DEF walVars, IInv, TypeOK, TornTailIn, OrderedIn, NamesOK, PipelineOK, BelowIn,
              Consecutive, Pending, running
<1>2. ASSUME NEW r \in Records, Write(r) PROVE IInv'
  BY <1>2, WriteStep
<1>3. ASSUME NEW n \in 1..BatchSize, Reserve(n) PROVE IInv'
  BY <1>3, ReserveStep
<1>4. ASSUME NEW k \in 0..MaxLSN, WriteBatch(k) PROVE IInv'
  BY <1>4, WriteBatchStep
<1>5. CASE WriteBatchFail
  BY <1>5, WriteBatchFailStep
<1>6. CASE Sync
  BY <1>6, SyncStep
<1>7. CASE SyncFail
  BY <1>7, SyncFailStep
<1>8. ASSUME NEW t \in 1..MaxTime, Rotate(t) PROVE IInv'
  BY <1>8, RotateStep
<1>9. ASSUME NEW t \in 1..MaxTime, RotateDirFail(t) PROVE IInv'
  BY <1>9, RotateDirFailStep
<1>10. CASE RotateFail
  BY <1>10, RotateFailStep
<1>11. CASE LastLSN
  BY <1>11, LastLSNStep
<1>12. CASE SnapshotDone
  BY <1>12, SnapshotDoneStep
<1>13. CASE SetSnapshotWatermark
  BY <1>13, SetSnapshotWatermarkStep
<1>14. CASE VectorsSaved
  BY <1>14, VectorsSavedStep
<1>15. CASE SnapshotFail
  BY <1>15, SnapshotFailStep
<1>16. CASE Cleanup
  BY <1>16, CleanupStep
<1>17. ASSUME NEW t \in 1..MaxTime, Start(t) PROVE IInv'
  BY <1>17, StartStep
<1>18. CASE BeginClose
  BY <1>18, BeginCloseStep
<1>19. CASE Close
  BY <1>19, CloseStep
<1>20. CASE CloseFail
  BY <1>20, CloseFailStep
<1>21. CASE Kill
  BY <1>21, KillStep
<1>22. CASE PowerLoss
  BY <1>22, PowerLossStep
<1> QED
  BY <1>1, <1>2, <1>3, <1>4, <1>5, <1>6, <1>7, <1>8, <1>9, <1>10, <1>11, <1>12, <1>13,
     <1>14, <1>15, <1>16, <1>17, <1>18, <1>19, <1>20, <1>21, <1>22 DEF Next

\* The invariant says more than the properties that the runs check.
LEMMA IInvImplies ==
    ASSUME IInv
    PROVE  TypeOK /\ ReplayOrder /\ NextLsnFresh
<1>1. TypedIn(files)
  BY PipelineNumbers
<1>2. \A f \in DOMAIN files : \A i \in DOMAIN files[f].frames :
         Readable(f, i) => ~IsTorn(files[f].frames[i])
  <2> SUFFICES ASSUME NEW f \in DOMAIN files, NEW i \in DOMAIN files[f].frames, Readable(f, i)
               PROVE  ~IsTorn(files[f].frames[i])
    OBVIOUS
  <2>1. i \in 1..i
    BY <1>1, LenProperties DEF TypedIn, WalFile
  <2> QED
    BY <2>1 DEF Readable
<1>3. ReplayOrder
  BY <1>2 DEF IInv, OrderedIn, ReplayOrder
<1>4. NextLsnFresh
  <2> SUFFICES ASSUME running
               PROVE  /\ nextLSN > snapLSN /\ nextLSN > graphLSN
                      /\ \A l \in ReadableLSNs : l < nextLSN
    BY DEF NextLsnFresh
  <2>1. /\ Pending \in Int /\ nextLSN \in Int /\ Pending <= nextLSN /\ snapLSN \in Nat
        /\ graphLSN \in Nat
    BY PipelineNumbers DEF Pending, IInv, TypeOK
  <2>2. BelowIn(files, nextLSN) /\ snapLSN < nextLSN /\ graphLSN < nextLSN
    BY <1>1, <2>1, BelowGrows DEF IInv, PipelineOK
  <2>3. ASSUME NEW l \in ReadableLSNs PROVE l < nextLSN
    <3>1. PICK f \in DOMAIN files : \E i \in DOMAIN files[f].frames :
              Readable(f, i) /\ l = files[f].frames[i].lsn
      BY DEF ReadableLSNs
    <3> QED
      BY <1>2, <2>2, <3>1 DEF BelowIn
  <2> QED
    BY <2>1, <2>2, <2>3
<1> QED
  BY <1>3, <1>4 DEF IInv

(***************************************************************************)
(* Types, whatever names the files have.                                   *)
(***************************************************************************)
\* A compaction keeps the writer's file.
TypeInv == TypeOK /\ (running /\ comp.stage # "idle" => comp.keep <= cur)

\* What an append leaves is a file; so is what a failed write leaves.
LEMMA AppendsAreTyped ==
    ASSUME TypeOK, running
    PROVE  /\ TypedIn(files) /\ cur \in DOMAIN files
           /\ \A e \in Frames : /\ TypedIn([files EXCEPT ![cur] = AppendFrames(@, e)])
                                /\ TypedIn([files EXCEPT ![cur] = Flushed(@, e)])
           /\ \A e \in Leftovers(buf) \cup Leftovers(buf \o batch) \cup {<<Torn>>, buf} : e \in Frames
           /\ LSNsIn(files[cur].frames \o buf) \subseteq Nat \ {0}
<1>1. TypedIn(files) /\ cur \in DOMAIN files
  BY DEF TypeOK, TypedIn
<1>2. ASSUME NEW e \in Frames
      PROVE  /\ TypedIn([files EXCEPT ![cur] = AppendFrames(@, e)])
             /\ TypedIn([files EXCEPT ![cur] = Flushed(@, e)])
  <2>1. files[cur] \in WalFile
    BY <1>1 DEF TypedIn
  <2>2. AppendFrames(files[cur], e) \in WalFile /\ Flushed(files[cur], e) \in WalFile
    BY <2>1, FileAfterAppend
  <2> QED
    BY <1>1, <2>2 DEF TypedIn
<1>3. buf \in Seq(Frame) /\ buf \o batch \in Seq(Frame)
  BY ConcatProperties DEF TypeOK
<1>4. ASSUME NEW e \in Leftovers(buf) \cup Leftovers(buf \o batch) \cup {<<Torn>>, buf}
      PROVE  e \in Frames
  <2>1. CASE e \in Leftovers(buf) \cup Leftovers(buf \o batch)
    BY <1>3, <2>1, LeftoversArePrefixes DEF PrefixOrTorn
  <2>2. CASE e = <<Torn>>
    BY <2>2 DEF Frames
  <2>3. CASE e = buf
    BY <1>3, <2>3, SeqMonotonic DEF Frames
  <2> QED
    BY <1>4, <2>1, <2>2, <2>3
<1>5. LSNsIn(files[cur].frames \o buf) \subseteq Nat \ {0}
  <2>1. files[cur].frames \in Frames /\ buf \in Frames
    BY <1>1, <1>4 DEF TypedIn, WalFile, Frames
  <2>2. files[cur].frames \o buf \in Frames
    BY <2>1, ConcatProperties DEF Frames
  <2> QED
    BY <2>2, LSNsArePositive
<1> QED
  BY <1>1, <1>2, <1>4, <1>5

\* The flusher and the writer.
LEMMA TypedWriter ==
    ASSUME TypeInv,
           \/ \E r \in Records : Write(r)
           \/ \E n \in 1..BatchSize : Reserve(n)
           \/ \E k \in 0..MaxLSN : WriteBatch(k)
           \/ WriteBatchFail
    PROVE  TypeInv'
<1>1. ASSUME NEW r \in Records, Write(r) PROVE TypeInv'
  BY <1>1, AppendProperties DEF TypeInv, TypeOK, Write, running
<1>2. ASSUME NEW n \in 1..BatchSize, Reserve(n) PROVE TypeInv'
  <2>1. /\ n \in 1..Len(chan) /\ n \in Nat /\ Len(chan) \in Nat /\ nextLSN \in Nat \ {0}
        /\ chan \in Seq(Records) /\ nextLSN' = nextLSN + n
        /\ batch' = [i \in 1..n |-> [lsn |-> nextLSN + i - 1, rec |-> chan[i]]]
    BY <1>2, LenProperties DEF Reserve, Takes, TypeInv, TypeOK
  <2>2. \A i \in 1..n : [lsn |-> nextLSN + i - 1, rec |-> chan[i]] \in Frame
    BY <2>1, ElementOfSeq DEF Frame
  <2>3. batch' \in Seq(Frame)
    BY <2>1, <2>2
  <2>4. SubSeq(chan, n + 1, Len(chan)) \in Seq(Records)
    BY <2>1, ElementOfSeq, SubSeqProperties
  <2> QED
    BY <1>2, <2>1, <2>3, <2>4 DEF TypeInv, TypeOK, Reserve, Leaves, running
<1>3. ASSUME NEW k \in 0..MaxLSN, WriteBatch(k) PROVE TypeInv'
  <2> DEFINE out == buf \o batch
  <2>1. /\ running /\ k \in 0..Len(out) /\ batch' = <<>> /\ buf' = SubSeq(out, k + 1, Len(out))
        /\ files' = [files EXCEPT ![cur] = AppendFrames(@, SubSeq(out, 1, k))]
    BY <1>3 DEF WriteBatch, Outgoing
  <2>2. out \in Seq(Frame)
    BY ConcatProperties DEF TypeInv, TypeOK
  <2> HIDE DEF out
  <2>3. SubSeq(out, 1, k) \in Frames
    BY <2>1, <2>2, SubSeqIsPrefix DEF PrefixOrTorn
  <2>4. TypedIn(files') /\ DOMAIN files' = DOMAIN files
    BY <2>1, <2>3, AppendsAreTyped DEF TypeInv
  <2>5. SubSeq(out, k + 1, Len(out)) \in Seq(Frame)
    BY <2>1, <2>2, LenProperties, ElementOfSeq, SubSeqProperties
  <2> QED
    BY <1>3, <2>1, <2>4, <2>5 DEF TypeInv, TypeOK, TypedIn, WriteBatch, running
<1>4. CASE WriteBatchFail
  <2>1. running /\ TypeOK
    BY <1>4 DEF WriteBatchFail, TypeInv
  <2>2. TypedIn(files') /\ DOMAIN files' = DOMAIN files
    BY <1>4, <2>1, AppendsAreTyped DEF WriteBatchFail
  <2> QED
    BY <1>4, <2>2 DEF TypeInv, TypeOK, TypedIn, WriteBatchFail, running
<1> QED
  BY <1>1, <1>2, <1>3, <1>4

\* fsync, rotation that fails, and the end of the process.
LEMMA TypedFsync ==
    ASSUME TypeInv,
           Sync \/ SyncFail \/ RotateFail \/ BeginClose \/ Close \/ CloseFail
    PROVE  TypeInv'
<1>1. running /\ TypeOK
  BY DEF Sync, SyncFail, RotateFail, BeginClose, Close, CloseFail, running, TypeInv
<1>2. TypedIn(files') /\ DOMAIN files' = DOMAIN files
  <2>1. CASE Sync \/ Close \/ BeginClose
    BY <1>1, <2>1, AppendsAreTyped DEF Sync, Close, BeginClose
  <2>2. CASE SyncFail
    BY <1>1, <2>2, AppendsAreTyped DEF SyncFail
  <2>3. CASE RotateFail
    BY <1>1, <2>3, AppendsAreTyped DEF RotateFail
  <2>4. CASE CloseFail
    BY <1>1, <2>4, AppendsAreTyped DEF CloseFail
  <2> QED
    BY <2>1, <2>2, <2>3, <2>4
<1>3. CASE Sync
  <2>1. /\ buf' = <<>> /\ synced' = synced \cup LSNsIn(files[cur].frames \o buf)
        /\ UNCHANGED <<chan, batch, cur, nextLSN, failed, stuck, phase, time, comp,
                       snapLSN, graphLSN, accepted, runLSN, dropped, skipped, faulted, backdated>>
    BY <1>3 DEF Sync, SyncCurrent
  <2>2. synced' \subseteq Nat \ {0}
    BY <1>1, <2>1, AppendsAreTyped DEF TypeOK
  <2> QED
    BY <1>2, <2>1, <2>2 DEF TypeInv, TypeOK, TypedIn, running
<1>4. CASE SyncFail
  <2>1. /\ buf' = <<>> /\ failed' = TRUE /\ faulted' = TRUE /\ stuck' \in BOOLEAN
        /\ UNCHANGED <<chan, batch, cur, nextLSN, phase, time, comp, snapLSN, graphLSN,
                       accepted, runLSN, synced, dropped, skipped, backdated>>
    BY <1>1, <1>4 DEF SyncFail, TypeOK
  <2> QED
    BY <1>2, <2>1 DEF TypeInv, TypeOK, TypedIn, running
<1>5. CASE RotateFail
  <2>1. /\ buf' = <<>> /\ faulted' = TRUE /\ stuck' \in BOOLEAN
        /\ UNCHANGED <<chan, batch, cur, nextLSN, failed, phase, time, comp, snapLSN, graphLSN,
                       accepted, runLSN, synced, dropped, skipped, backdated>>
    BY <1>1, <1>5 DEF RotateFail, TypeOK
  <2> QED
    BY <1>2, <2>1 DEF TypeInv, TypeOK, TypedIn, running
<1>6. CASE Close
  BY <1>1, <1>2, <1>6, AppendsAreTyped DEF TypeInv, TypeOK, TypedIn, Close, SyncCurrent, running
<1>7. CASE BeginClose
  BY <1>7 DEF TypeInv, TypeOK, BeginClose, running
<1>8. CASE CloseFail
  BY <1>2, <1>8 DEF TypeInv, TypeOK, TypedIn, CloseFail, running
<1> QED
  BY <1>3, <1>4, <1>5, <1>6, <1>7, <1>8

\* A compaction from Rotate to CleanupOldWALs.
LEMMA TypedCompaction ==
    ASSUME TypeInv,
           \/ \E t \in 1..MaxTime : Rotate(t) \/ RotateDirFail(t)
           \/ LastLSN \/ SnapshotDone \/ SetSnapshotWatermark \/ VectorsSaved
           \/ SnapshotFail \/ Cleanup
    PROVE  TypeInv'
<1>0. Idle \in [stage : Stages, keep : Nat, wm : Nat] /\ Idle.stage = "idle"
  BY DEF Idle, Stages
<1>1. ASSUME NEW t \in 1..MaxTime, Rotate(t) \/ RotateDirFail(t) PROVE TypeInv'
  <2>1. SwitchTo(t) /\ running /\ TypeOK /\ t \in Nat
    BY <1>1 DEF Rotate, RotateDirFail, SwitchTo, TypeInv
  <2>2. TypedIn(RotatedTo(t)) /\ DOMAIN RotatedTo(t) = DOMAIN files \cup {t}
    <3> DEFINE mid == [files EXCEPT ![cur] = Flushed(@, buf)]
    <3>1. TypedIn(mid) /\ DOMAIN mid = DOMAIN files
      BY <2>1, AppendsAreTyped
    <3>2. /\ DOMAIN RotatedTo(t) = DOMAIN files \cup {t} /\ RotatedTo(t)[t] = NewFile
          /\ \A f \in DOMAIN files : f # t => RotatedTo(t)[f] = mid[f]
      BY <2>1 DEF RotatedTo
    <3>3. NewFile \in WalFile
      BY DEF NewFile, WalFile
    <3> HIDE DEF mid
    <3> QED
      BY <2>1, <3>1, <3>2, <3>3 DEF TypedIn
  <2>3. TypedIn(files') /\ DOMAIN files' = DOMAIN files \cup {t}
    BY <1>1, <2>2, LinkAllKeepsFrames DEF Rotate, RotateDirFail
  <2>4. synced' \subseteq Nat \ {0}
    BY <2>1, AppendsAreTyped DEF SwitchTo, SyncCurrent, TypeOK
  <2>5. /\ comp' \in [stage : Stages, keep : Nat, wm : Nat]
        /\ comp'.stage # "idle" => comp'.keep = t
    BY <1>0, <1>1, <2>1 DEF Rotate, RotateDirFail, SwitchTo, Stages
  <2>6. faulted' \in BOOLEAN
    BY <1>1, <2>1 DEF Rotate, RotateDirFail, TypeOK
  <2> QED
    BY <2>1, <2>3, <2>4, <2>5, <2>6 DEF TypeInv, TypeOK, TypedIn, SwitchTo, running
<1>2. CASE LastLSN \/ SetSnapshotWatermark
  <2>1. nextLSN - 1 \in Nat
    BY DEF TypeInv, TypeOK
  <2> QED
    BY <1>2, <2>1 DEF TypeInv, TypeOK, LastLSN, SetSnapshotWatermark, running, Stages
<1>3. CASE SnapshotDone \/ VectorsSaved
  <2>1. TypedIn(files') /\ DOMAIN files' = DOMAIN files
    BY <1>3, LinkAllKeepsFrames DEF SnapshotDone, VectorsSaved, TypeInv, TypeOK, TypedIn
  <2> QED
    BY <1>3, <2>1 DEF TypeInv, TypeOK, TypedIn, SnapshotDone, VectorsSaved, running, Stages
<1>4. CASE SnapshotFail
  BY <1>0, <1>4 DEF TypeInv, TypeOK, SnapshotFail, running
<1>5. CASE Cleanup
  <2>1. CASE comp' = Idle /\ UNCHANGED <<files, dropped>>
    BY <1>0, <1>5, <2>1 DEF TypeInv, TypeOK, Cleanup, running
  <2>2. CASE \E f \in OldWALs(comp.keep) :
                /\ files' = [g \in DOMAIN files \ {f} |-> files[g]]
                /\ dropped' = dropped \cup LSNsIn(files[f].frames)
                /\ UNCHANGED comp
    <3>1. PICK f \in OldWALs(comp.keep) :
                /\ files' = [g \in DOMAIN files \ {f} |-> files[g]]
                /\ dropped' = dropped \cup LSNsIn(files[f].frames)
                /\ UNCHANGED comp
      BY <2>2
    <3>2. /\ f \in DOMAIN files /\ f < comp.keep /\ comp.keep <= cur /\ comp.keep \in Nat
          /\ f \in Nat /\ cur \in Nat /\ TypedIn(files)
      BY <1>5, <3>1 DEF OldWALs, Cleanup, TypeInv, TypeOK, TypedIn
    <3>3. f # cur
      BY <3>2
    <3>4. LSNsIn(files[f].frames) \subseteq Nat \ {0}
      BY <3>2, LSNsArePositive DEF TypedIn, WalFile, Frames
    <3>5. TypedIn(files') /\ DOMAIN files' = DOMAIN files \ {f}
      BY <3>1, <3>2 DEF TypedIn
    <3> QED
      BY <1>5, <3>1, <3>3, <3>4, <3>5 DEF TypeInv, TypeOK, TypedIn, Cleanup, running
  <2> QED
    BY <1>5, <2>1, <2>2 DEF Cleanup
<1> QED
  BY <1>1, <1>2, <1>3, <1>4, <1>5

\* What power loss leaves of a file is a file.
LEMMA CutIsTyped ==
    ASSUME NEW file \in WalFile, NEW partial, NEW a \in AfterPowerLoss(file, partial)
    PROVE  a \in WalFile
<1> DEFINE old == file.frames
           cut(k) == SubSeq(old, 1, k)
<1>1. old \in Frames /\ file.synced \in Nat /\ Len(old) \in Nat
  BY LenProperties DEF WalFile, Frames
<1>2. ASSUME NEW k \in file.synced..Len(old)
      PROVE  cut(k) \in Frames /\ Append(cut(k), Torn) \in Frames /\ k \in Nat /\ k + 1 \in Nat
  <2>1. \A i \in 1..k : old[i] \in Frame \cup {Torn}
    BY <1>1, ElementOfSeq DEF Frames
  <2>2. cut(k) \in Frames /\ k \in Nat
    BY <1>1, <2>1, SubSeqProperties DEF Frames
  <2> HIDE DEF cut
  <2> QED
    BY <2>2, AppendProperties DEF Frames
<1>3. PICK k \in file.synced..Len(old) :
         \/ a = [frames |-> cut(k), synced |-> k, linked |-> TRUE]
         \/ a = [frames |-> Append(cut(k), Torn), synced |-> k + 1, linked |-> TRUE]
  BY DEF AfterPowerLoss
<1>4. PICK frs \in Frames, n \in Nat : a = [frames |-> frs, synced |-> n, linked |-> TRUE]
  <2>1. cut(k) \in Frames /\ Append(cut(k), Torn) \in Frames /\ k \in Nat /\ k + 1 \in Nat
    BY <1>2
  <2> HIDE DEF cut
  <2> QED
    BY <1>3, <2>1
<1> QED
  BY <1>4 DEF WalFile, Frames

\* Crashes, and the start after one.
LEMMA TypedCrash ==
    ASSUME TypeInv,
           Kill \/ PowerLoss \/ \E t \in 1..MaxTime : Start(t)
    PROVE  TypeInv'
<1>0. Idle \in [stage : Stages, keep : Nat, wm : Nat] /\ Idle.stage = "idle"
  BY DEF Idle, Stages
<1>1. CASE Kill
  <2>1. running /\ TypeOK
    BY <1>1 DEF Kill, TypeInv
  <2>2. TypedIn(files')
    BY <1>1, <2>1, AppendsAreTyped DEF Kill
  <2> QED
    BY <1>0, <1>1, <2>2 DEF TypeInv, TypeOK, TypedIn, Kill, Stopped, running
<1>2. CASE PowerLoss
  <2>1. TypedIn(files')
    <3>1. PICK gone \in SUBSET {f \in DOMAIN files : MayVanish(f)} :
             \E after \in [DOMAIN files \ gone -> UNION {LostPower(f) : f \in DOMAIN files \ gone}] :
                /\ \A f \in DOMAIN files \ gone : after[f] \in LostPower(f)
                /\ files' = after
      BY <1>2 DEF PowerLoss
    <3>2. /\ DOMAIN files' = DOMAIN files \ gone
          /\ \A f \in DOMAIN files' : files'[f] \in LostPower(f)
      BY <3>1
    <3>3. ASSUME NEW f \in DOMAIN files' PROVE files'[f] \in WalFile
      <4>1. f \in DOMAIN files /\ files[f] \in WalFile
        BY <3>2 DEF TypeInv, TypeOK
      <4> QED
        BY <3>2, <4>1, CutIsTyped DEF LostPower
    <3> QED
      BY <3>2, <3>3 DEF TypedIn, TypeInv, TypeOK
  <2> QED
    BY <1>0, <1>2, <2>1 DEF TypeInv, TypeOK, TypedIn, PowerLoss, Stopped, running
<1>3. ASSUME NEW t \in 1..MaxTime, Start(t) PROVE TypeInv'
  <2> DEFINE new == StartName(t)
  <2>1. t \in Nat /\ new \in Nat
    BY StartNameIsNat
  <2>2. TypedIn(files') /\ cur' \in DOMAIN files' /\ cur' \in Nat
    <3>1. NewFile \in WalFile
      BY DEF NewFile, WalFile
    <3> HIDE DEF new
    <3>2. /\ DOMAIN files' = DOMAIN files \cup {new} /\ cur' = new
          /\ \A f \in DOMAIN files' : (files'[f] = files[f] /\ f \in DOMAIN files) \/ files'[f] = NewFile
      BY <1>3 DEF Start, new
    <3> QED
      BY <2>1, <3>1, <3>2 DEF TypeInv, TypeOK, TypedIn
  <2>3. nextLSN' \in Nat \ {0}
    <3>1. PICK maxLSN \in KnownLSNs : nextLSN' = maxLSN + 1
      BY <1>3 DEF Start
    <3>2. maxLSN \in Nat
      BY ReadableLSNsArePositive DEF KnownLSNs, TypeInv, TypeOK, TypedIn
    <3> QED
      BY <3>1, <3>2
  <2>4. skipped' \subseteq Nat \ {0}
    <3> DEFINE over == { l \in 1..(nextLSN' - 1) : \A r \in ReadableLSNs : r < l }
    <3>1. over \subseteq Nat \ {0}
      BY <2>3
    <3>2. skipped' = skipped \cup over
      BY <1>3 DEF Start
    <3> HIDE DEF over
    <3> QED
      BY <3>1, <3>2 DEF TypeInv, TypeOK
  <2>5. backdated' \in BOOLEAN
    BY <1>3 DEF Start
  <2>6. /\ time' = t /\ phase' = "up" /\ chan' = <<>> /\ batch' = <<>> /\ buf' = <<>>
        /\ accepted' = <<>> /\ runLSN' = nextLSN' /\ comp' = Idle
        /\ failed' = FALSE /\ stuck' = FALSE /\ faulted' = FALSE
        /\ UNCHANGED <<snapLSN, graphLSN, synced, dropped>>
    BY <1>3 DEF Start
  <2>7. <<>> \in Seq(Records) /\ <<>> \in Seq(Frame)
    BY EmptySeq
  <2> QED
    BY <1>0, <2>1, <2>2, <2>3, <2>4, <2>5, <2>6, <2>7 DEF TypeInv, TypeOK, TypedIn
<1> QED
  BY <1>1, <1>2, <1>3

\* A start that was backdated stays so.
LEMMA BackdatedStays ==
    ASSUME [Next]_walVars, ~backdated'
    PROVE  ~backdated
<1>1. \/ UNCHANGED backdated
      \/ \E t \in 1..MaxTime : Start(t)
  BY DEF Next, walVars, Write, Reserve, WriteBatch, WriteBatchFail, Sync, SyncFail, Rotate,
         RotateDirFail, SwitchTo, RotateFail, LastLSN, SnapshotDone, SetSnapshotWatermark,
         VectorsSaved, SnapshotFail, Cleanup, BeginClose, Close, CloseFail, Kill, PowerLoss, Stopped
<1> QED
  BY <1>1 DEF Start

\* The invariant holds in every state until a start is backdated.
LEMMA InvariantHolds ==
    Spec => [](~backdated => IInv)
<1>1. Init => (~backdated => IInv)
  BY InitIInv
<1>2. (~backdated => IInv) /\ [Next]_walVars => (~backdated => IInv)'
  BY NextIInv, BackdatedStays
<1> QED
  BY <1>1, <1>2, PTL DEF Spec

\* Every variable keeps its type in every execution of the log, for any sizes of
\* channel and batch, any crashes, any disk faults and any names of files.
THEOREM TypeCorrect ==
    Spec => []TypeOK
<1>1. Init => TypeInv
  BY InitIInv DEF IInv, PipelineOK, TypeInv
<1>2. TypeInv /\ [Next]_walVars => TypeInv'
  <2> SUFFICES ASSUME TypeInv, [Next]_walVars PROVE TypeInv'
    OBVIOUS
  <2>1. CASE UNCHANGED walVars
    BY <2>1 DEF walVars, TypeInv, TypeOK, running
  <2> QED
    BY <2>1, TypedWriter, TypedFsync, TypedCompaction, TypedCrash DEF Next
<1>3. TypeInv => TypeOK
  BY DEF TypeInv
<1> QED
  BY <1>1, <1>2, <1>3, PTL DEF Spec

\* Recovery replays records in the order in which their LSNs were given out, until a
\* start is backdated: opens a file whose name is not above all names there.
THEOREM ReplayIsOrdered ==
    Spec => []ReplayOrder
<1>1. (~backdated => IInv) => ReplayOrder
  BY IInvImplies DEF ReplayOrder
<1> QED
  BY <1>1, InvariantHolds, PTL

\* No start and no batch reuses an LSN that is on disk or that a watermark
\* covers, of snapshot.wal or of graph_leveled.bin; until a start is backdated.
THEOREM LsnsAreFresh ==
    Spec => [](~backdated => NextLsnFresh)
BY InvariantHolds, IInvImplies, PTL
(***************************************************************************)
(* Durability, from the invariant above: what a frame carries, what is     *)
(* deleted, what an ordered shutdown and an fsync leave on disk, and that  *)
(* recovery finds no hole.                                                 *)
(***************************************************************************)
\* The whole frames of a sequence, and of all files.
Whole(frs) == {frs[i] : i \in {j \in DOMAIN frs : ~IsTorn(frs[j])}}

OnDisk(fs) == UNION {Whole(fs[f].frames) : f \in DOMAIN fs}

\* What a frame carries was sent in its place.
Sent(fr) ==
    fr.lsn >= runLSN => fr.lsn - runLSN + 1 \in DOMAIN accepted /\ fr.rec = RecordOf(fr.lsn)

Matched ==
    /\ running => /\ runLSN <= nextLSN
                  /\ nextLSN + Len(chan) = runLSN + Len(accepted)
                  /\ \A i \in DOMAIN chan : chan[i] = accepted[nextLSN - runLSN + i]
    /\ \A fr \in OnDisk(files) \cup Whole(buf) \cup Whole(batch) : Sent(fr)

\* What the compaction in progress will delete is covered by the watermark it has taken,
\* and then by the snapshot it has written.
OldBelow(fs, keep, b) ==
    \A f \in DOMAIN fs : f < keep => \A fr \in Whole(fs[f].frames) : fr.lsn <= b

Covered ==
    /\ \A l \in dropped : l <= snapLSN /\ l <= graphLSN
    /\ graphLSN <= comp.wm \/ comp.stage # "graph"
    /\ comp.stage = "snapshot" => snapLSN <= comp.wm /\ OldBelow(files, comp.keep, comp.wm)
    /\ comp.stage \in {"vectors", "graph", "cleanup"} => OldBelow(files, comp.keep, snapLSN)
    /\ comp.stage = "graph" => OldBelow(files, comp.keep, comp.wm)
    /\ comp.stage = "cleanup" => OldBelow(files, comp.keep, graphLSN)

\* Until an I/O call fails, what was sent is fsynced, or in the writer's file, or on its way.
Acked ==
    /\ running /\ ~faulted =>
         ~stuck /\ \A l \in runLSN..(Pending - 1) : l \in synced \cup LSNsIn(files[cur].frames)
    /\ GracefulLosesNothing

\* What an fsync has covered is in the part of a file that no crash takes.
Durable ==
    \A l \in synced \ dropped :
        \E f \in DOMAIN files : \E i \in DOMAIN files[f].frames :
            i <= files[f].synced /\ ~IsTorn(files[f].frames[i]) /\ files[f].frames[i].lsn = l

\* A power loss takes only the end of the last file: kills and disk faults can leave
\* more that is not fsynced, and so must not meet a power loss.
TamePower == "power" \notin Crashes \/ (~DiskFaults /\ "kill" \notin Crashes)

LSNsOnDisk == {fr.lsn : fr \in OnDisk(files)}

Settled ==
    "power" \in Crashes =>
        /\ ~stuck
        /\ \A f \in DOMAIN files : (running /\ f = cur) \/ files[f].synced = Len(files[f].frames)

Gapless ==
    /\ \A m \in LSNsOnDisk : (snapLSN + 1)..m \subseteq LSNsOnDisk \cup skipped
    /\ running /\ ~stuck => (snapLSN + 1)..(Pending - 1) \subseteq LSNsOnDisk \cup skipped

(***************************************************************************)
(* Whole frames                                                            *)
(***************************************************************************)
\* The whole frames of a concatenation, and their LSNs.
LEMMA WholeOfConcat ==
    ASSUME NEW s \in Frames, NEW t \in Frames
    PROVE  /\ Whole(s \o t) = Whole(s) \cup Whole(t)
           /\ LSNsIn(s \o t) = LSNsIn(s) \cup LSNsIn(t)
<1>1. /\ DOMAIN s = 1..Len(s) /\ DOMAIN t = 1..Len(t) /\ Len(s) \in Nat /\ Len(t) \in Nat
      /\ DOMAIN (s \o t) = 1..(Len(s) + Len(t))
      /\ \A i \in 1..(Len(s) + Len(t)) : (s \o t)[i] = IF i <= Len(s) THEN s[i] ELSE t[i - Len(s)]
  BY ConcatProperties, LenProperties DEF Frames
<1>2. ASSUME NEW i \in DOMAIN s PROVE i \in DOMAIN (s \o t) /\ (s \o t)[i] = s[i]
  BY <1>1
<1>3. ASSUME NEW i \in DOMAIN t
      PROVE  Len(s) + i \in DOMAIN (s \o t) /\ (s \o t)[Len(s) + i] = t[i]
  <2>1. /\ Len(s) + i \in 1..(Len(s) + Len(t)) /\ ~(Len(s) + i <= Len(s))
        /\ (Len(s) + i) - Len(s) = i
    BY <1>1
  <2> QED
    BY <1>1, <2>1
<1>4. ASSUME NEW i \in DOMAIN (s \o t)
      PROVE  \/ i \in DOMAIN s /\ (s \o t)[i] = s[i]
             \/ i - Len(s) \in DOMAIN t /\ (s \o t)[i] = t[i - Len(s)]
  <2>1. CASE i <= Len(s)
    BY <1>1, <2>1
  <2>2. CASE ~(i <= Len(s))
    <3>1. i - Len(s) \in 1..Len(t)
      BY <1>1, <2>2
    <3> QED
      BY <1>1, <2>2, <3>1
  <2> QED
    BY <2>1, <2>2
<1>5. Whole(s \o t) = Whole(s) \cup Whole(t)
  <2>1. ASSUME NEW fr \in Whole(s \o t) PROVE fr \in Whole(s) \cup Whole(t)
    <3>1. PICK i \in DOMAIN (s \o t) : ~IsTorn((s \o t)[i]) /\ fr = (s \o t)[i]
      BY DEF Whole
    <3> QED
      BY <1>4, <3>1 DEF Whole
  <2>2. Whole(s) \subseteq Whole(s \o t)
    BY <1>2 DEF Whole
  <2>3. ASSUME NEW fr \in Whole(t) PROVE fr \in Whole(s \o t)
    <3>1. PICK i \in DOMAIN t : ~IsTorn(t[i]) /\ fr = t[i]
      BY DEF Whole
    <3> QED
      BY <1>3, <3>1 DEF Whole
  <2> QED
    BY <2>1, <2>2, <2>3
<1>6. \A frs : LSNsIn(frs) = {fr.lsn : fr \in Whole(frs)}
  BY DEF LSNsIn, Whole
<1>7. LSNsIn(s \o t) = LSNsIn(s) \cup LSNsIn(t)
  BY <1>5, <1>6
<1> QED
  BY <1>5, <1>7

\* The LSNs that a write leaves, whole, are the first of those it was given.
LEMMA WholeOfPrefix ==
    ASSUME NEW b \in Int, NEW frs \in Seq(Frame), Consecutive(frs, b),
           NEW e, PrefixOrTorn(e, frs)
    PROVE  /\ Whole(e) \subseteq Whole(frs)
           /\ \A l \in LSNsIn(e) : l \in Int /\ b <= l /\ b..l \subseteq LSNsIn(e)
           /\ e \in Seq(Frame) => LSNsIn(e) = b..(b + Len(e) - 1)
<1>1. /\ DOMAIN frs = 1..Len(frs) /\ Len(frs) \in Nat /\ Len(e) <= Len(frs)
      /\ DOMAIN e = 1..Len(e) /\ Len(e) \in Nat
      /\ \A i \in 1..Len(frs) : frs[i] \in Frame /\ ~IsTorn(frs[i])
  BY LenProperties, ElementOfSeq, FrameKinds DEF PrefixOrTorn, Frames
<1>2. ASSUME NEW i \in DOMAIN e, ~IsTorn(e[i])
      PROVE  i \in DOMAIN frs /\ e[i] = frs[i] /\ e[i].lsn = b + i - 1
  <2>1. i \in DOMAIN frs
    BY <1>1
  <2>2. e[i] = frs[i]
    BY <1>2, FrameKinds DEF PrefixOrTorn
  <2> QED
    BY <2>1, <2>2 DEF Consecutive
<1>3. ASSUME NEW i \in DOMAIN e, ~IsTorn(e[i]), NEW j \in 1..i
      PROVE  j \in DOMAIN e /\ ~IsTorn(e[j])
  <2>1. j \in DOMAIN e /\ j \in 1..Len(frs) /\ (j = i \/ j # Len(e))
    <3>1. \A n, m \in Nat : \A x \in 1..n : \A y \in 1..x :
             n <= m => y \in 1..n /\ y \in 1..m /\ (y = x \/ y # n)
      OBVIOUS
    <3>2. Len(e) \in Nat /\ Len(frs) \in Nat /\ Len(e) <= Len(frs) /\ DOMAIN e = 1..Len(e)
          /\ i \in 1..Len(e)
      BY <1>1
    <3> QED
      BY <3>1, <3>2, Zenon
  <2>2. CASE j # Len(e)
    BY <1>1, <2>1, <2>2 DEF PrefixOrTorn
  <2> QED
    BY <1>3, <2>1, <2>2
<1>4. Whole(e) \subseteq Whole(frs)
  BY <1>1, <1>2 DEF Whole
<1>5. ASSUME NEW l \in LSNsIn(e) PROVE l \in Int /\ b <= l /\ b..l \subseteq LSNsIn(e)
  <2>1. PICK i \in DOMAIN e : ~IsTorn(e[i]) /\ l = e[i].lsn
    BY DEF LSNsIn
  <2>2. l = b + i - 1 /\ i \in Nat /\ i >= 1
    BY <1>1, <1>2, <2>1
  <2>3. ASSUME NEW k \in b..l PROVE k \in LSNsIn(e)
    <3>1. k - b + 1 \in 1..i /\ b + (k - b + 1) - 1 = k
      BY <2>2
    <3>2. k - b + 1 \in DOMAIN e /\ ~IsTorn(e[k - b + 1])
      BY <1>3, <2>1, <3>1
    <3>3. e[k - b + 1].lsn = k
      BY <1>2, <3>1, <3>2
    <3> QED
      BY <3>2, <3>3 DEF LSNsIn
  <2> QED
    BY <2>2, <2>3
<1>6. ASSUME e \in Seq(Frame) PROVE LSNsIn(e) = b..(b + Len(e) - 1)
  <2>1. \A i \in DOMAIN e : ~IsTorn(e[i])
    BY <1>1, <1>6, ElementOfSeq, FrameKinds
  <2>2. ASSUME NEW l \in LSNsIn(e) PROVE l \in b..(b + Len(e) - 1)
    <3>1. PICK i \in DOMAIN e : ~IsTorn(e[i]) /\ l = e[i].lsn
      BY DEF LSNsIn
    <3> QED
      BY <1>1, <1>2, <3>1
  <2>3. ASSUME NEW l \in b..(b + Len(e) - 1) PROVE l \in LSNsIn(e)
    <3>1. l - b + 1 \in DOMAIN e /\ b + (l - b + 1) - 1 = l
      BY <1>1
    <3>2. e[l - b + 1].lsn = l
      BY <1>2, <2>1, <3>1
    <3> QED
      BY <2>1, <3>1, <3>2 DEF LSNsIn
  <2> QED
    BY <2>2, <2>3
<1> QED
  BY <1>4, <1>5, <1>6

\* No frame, and a torn one.
LEMMA NothingWhole ==
    /\ Whole(<<>>) = {} /\ LSNsIn(<<>>) = {}
    /\ Whole(<<Torn>>) = {}
<1>1. \A i \in DOMAIN <<Torn>> : IsTorn(<<Torn>>[i])
  BY FrameKinds
<1> QED
  BY <1>1 DEF Whole, LSNsIn

\* The LSNs of the whole frames.
LEMMA WholeLSNs ==
    /\ \A frs : LSNsIn(frs) = {fr.lsn : fr \in Whole(frs)}
    /\ LSNsOnDisk = UNION {LSNsIn(files[f].frames) : f \in DOMAIN files}
<1>1. \A frs : LSNsIn(frs) = {fr.lsn : fr \in Whole(frs)}
  BY DEF LSNsIn, Whole
<1> QED
  BY <1>1 DEF LSNsOnDisk, OnDisk

\* Recovery reads every whole frame, since only torn ones follow a torn one.
LEMMA ReadableIsOnDisk ==
    ASSUME TypedIn(files), TornTailIn(files)
    PROVE  ReadableLSNs = LSNsOnDisk
<1>1. ASSUME NEW f \in DOMAIN files, NEW i \in DOMAIN files[f].frames
      PROVE  Readable(f, i) <=> ~IsTorn(files[f].frames[i])
  <2>1. files[f].frames \in Frames /\ DOMAIN files[f].frames = 1..Len(files[f].frames)
        /\ Len(files[f].frames) \in Nat
    BY LenProperties DEF TypedIn, WalFile, Frames
  <2>2. i \in 1..i
    BY <2>1
  <2>3. ASSUME ~IsTorn(files[f].frames[i]), NEW j \in 1..i PROVE ~IsTorn(files[f].frames[j])
    <3>1. j \in DOMAIN files[f].frames /\ (j < i \/ j = i)
      BY <2>1
    <3> QED
      BY <2>3, <3>1 DEF TornTailIn
  <2> QED
    BY <2>2, <2>3 DEF Readable
<1>2. \A f \in DOMAIN files :
         { files[f].frames[i].lsn : i \in {j \in DOMAIN files[f].frames : Readable(f, j)} }
            = LSNsIn(files[f].frames)
  BY <1>1 DEF LSNsIn
<1> QED
  BY <1>2, WholeLSNs, SMTT(30) DEF ReadableLSNs

(***************************************************************************)
(* Steps of the running process.  All but Write, Reserve and Cleanup put   *)
(* some frames e, perhaps none, behind the writer's file.                  *)
(***************************************************************************)
\* The files with e behind the writer's file, and perhaps a new, empty one.
Appended(e) ==
    /\ DOMAIN files \subseteq DOMAIN files'
    /\ \A f \in DOMAIN files' \ DOMAIN files : files'[f].frames = <<>> /\ files'[f].synced = 0
    /\ \A f \in DOMAIN files \ {cur} :
          files'[f].frames = files[f].frames /\ files'[f].synced = files[f].synced
    /\ files'[cur].frames = files[cur].frames \o e
    /\ files'[cur].synced \in {files[cur].synced, Len(files'[cur].frames)}

AllSynced == files'[cur].synced = Len(files'[cur].frames)

\* What such a step does, as far as the properties tell.
WriterStep(e) ==
    /\ running
    /\ PrefixOrTorn(e, buf \o batch)
    /\ stuck => Whole(e) = {}
    /\ Appended(e)
    /\ Whole(buf') \cup Whole(batch') \subseteq Whole(buf) \cup Whole(batch)
    /\ UNCHANGED <<accepted, runLSN, dropped, skipped>>
    /\ running' => nextLSN' = nextLSN /\ chan' = chan
    /\ running' /\ ~stuck' => ~stuck /\ e \in Seq(Frame) /\ Pending' = Pending + Len(e)
    /\ ~faulted' => ~faulted /\ (running' /\ ~stuck => ~stuck')
    /\ \/ synced' = synced
       \/ synced' = synced \cup LSNsIn(files'[cur].frames) /\ AllSynced
    /\ running' => cur' = cur \/ LSNsIn(files'[cur].frames) \subseteq synced'
    /\ phase' = "stopped" =>
         /\ chan = <<>> /\ e \in Seq(Frame) /\ Pending + Len(e) = nextLSN
         /\ LSNsIn(files'[cur].frames) \subseteq synced'
    /\ DiskFaults \/ "kill" \in Crashes \/ stuck
         \/ (~stuck' /\ (AllSynced \/ (running' /\ cur' = cur)))

\* The types that the steps below need.
LEMMA Typed ==
    ASSUME IInv
    PROVE  /\ TypedIn(files) /\ buf \in Seq(Frame) /\ batch \in Seq(Frame)
           /\ buf \in Frames /\ batch \in Frames
           /\ Len(chan) \in Nat /\ Len(batch) \in Nat /\ Len(buf) \in Nat
           /\ Pending \in Int /\ nextLSN \in Nat \ {0} /\ Pending + Len(buf) = nextLSN - Len(batch)
           /\ stuck \in BOOLEAN /\ faulted \in BOOLEAN
           /\ running => cur \in DOMAIN files /\ files[cur] \in WalFile /\ files[cur].frames \in Frames
           /\ \A f \in DOMAIN files : files[f].frames \in Frames /\ files[f].synced \in Nat
<1>1. buf \in Seq(Frame) /\ batch \in Seq(Frame) /\ stuck \in BOOLEAN /\ faulted \in BOOLEAN
  BY DEF IInv, TypeOK
<1>2. buf \in Frames /\ batch \in Frames
  BY <1>1, SeqMonotonic DEF Frames
<1>3. TypedIn(files) /\ (running => cur \in DOMAIN files)
  BY PipelineNumbers DEF IInv, TypeOK
<1>4. \A f \in DOMAIN files : files[f] \in WalFile /\ files[f].frames \in Frames /\ files[f].synced \in Nat
  BY <1>3 DEF TypedIn, WalFile, Frames
<1>5. Pending + Len(buf) = nextLSN - Len(batch)
  BY PipelineNumbers DEF Pending
<1> QED
  BY <1>1, <1>2, <1>3, <1>4, <1>5, PipelineNumbers

\* What is on its way to the file.
LEMMA OnItsWay ==
    ASSUME IInv, running
    PROVE  /\ buf \o batch \in Seq(Frame) /\ Len(buf \o batch) = Len(buf) + Len(batch)
           /\ Consecutive(buf \o batch, Pending) /\ Consecutive(buf, Pending)
           /\ Whole(buf \o batch) = Whole(buf) \cup Whole(batch)
           /\ \A e : PrefixOrTorn(e, buf) => PrefixOrTorn(e, buf \o batch)
           /\ PrefixOrTorn(<<>>, buf \o batch)
<1>1. /\ buf \in Seq(Frame) /\ batch \in Seq(Frame) /\ Pending \in Int
      /\ Consecutive(buf, Pending) /\ Consecutive(batch, Pending + Len(buf))
  BY Typed DEF IInv, PipelineOK
<1>2. /\ buf \o batch \in Seq(Frame) /\ Len(buf \o batch) = Len(buf) + Len(batch)
      /\ Consecutive(buf \o batch, Pending)
  BY <1>1, OutIsConsecutive
<1>3. Whole(buf \o batch) = Whole(buf) \cup Whole(batch)
  BY Typed, WholeOfConcat
<1>4. ASSUME NEW e, PrefixOrTorn(e, buf) PROVE PrefixOrTorn(e, buf \o batch)
  <2>1. /\ e \in Frames /\ Len(e) \in Nat /\ Len(e) <= Len(buf) /\ DOMAIN e = 1..Len(e)
        /\ Len(buf) \in Nat /\ Len(batch) \in Nat
    BY <1>4, Typed, LenProperties DEF PrefixOrTorn, Frames
  <2>2. \A i \in 1..Len(buf) : (buf \o batch)[i] = buf[i]
    <3>1. \A i \in 1..(Len(buf) + Len(batch)) :
             (buf \o batch)[i] = IF i <= Len(buf) THEN buf[i] ELSE batch[i - Len(buf)]
      BY <1>1, ConcatProperties
    <3>2. \A i \in 1..Len(buf) : i \in 1..(Len(buf) + Len(batch)) /\ i <= Len(buf)
      BY <2>1
    <3> QED
      BY <3>1, <3>2
  <2>3. \A i \in DOMAIN e : i \in 1..Len(buf)
    BY <2>1
  <2>4. Len(e) <= Len(buf \o batch)
    BY <1>2, <2>1
  <2> QED
    BY <1>4, <2>1, <2>2, <2>3, <2>4 DEF PrefixOrTorn
<1>5. PrefixOrTorn(<<>>, buf \o batch)
  <2>1. <<>> \in Frames /\ Len(<<>>) = 0 /\ DOMAIN <<>> = {}
    BY EmptySeq DEF Frames
  <2>2. Len(<<>>) <= Len(buf \o batch)
    BY <1>2, <2>1, Typed
  <2> QED
    BY <2>1, <2>2 DEF PrefixOrTorn
<1> QED
  BY <1>1, <1>2, <1>3, <1>4, <1>5

\* Frames handed to the writer's file, with or without an fsync.
LEMMA HandedOver ==
    ASSUME IInv, running, NEW e \in Frames,
           \/ files' = [files EXCEPT ![cur] = AppendFrames(@, e)]
           \/ files' = [files EXCEPT ![cur] = Flushed(@, e)]
    PROVE  /\ Appended(e)
           /\ files' = [files EXCEPT ![cur] = Flushed(@, e)] => AllSynced
<1>1. /\ cur \in DOMAIN files /\ files[cur] \in WalFile /\ files[cur].frames \in Frames
  BY Typed
<1>2. /\ DOMAIN files' = DOMAIN files
      /\ \A f \in DOMAIN files \ {cur} : files'[f] = files[f]
      /\ files'[cur] = AppendFrames(files[cur], e) \/ files'[cur] = Flushed(files[cur], e)
  BY <1>1
<1>3. files'[cur].frames = files[cur].frames \o e
  BY <1>1, <1>2, FileAfterAppend
<1>4. Len(files[cur].frames \o e) = Len(files[cur].frames) + Len(e)
  BY <1>1, ConcatProperties DEF Frames
<1>5. AppendFrames(files[cur], e).synced = files[cur].synced
  BY <1>1 DEF AppendFrames, WalFile
<1>6. Flushed(files[cur], e).synced = Len(files[cur].frames) + Len(e)
  BY <1>1 DEF Flushed, AppendFrames, WalFile
<1>7. files' = [files EXCEPT ![cur] = Flushed(@, e)] => AllSynced
  BY <1>1, <1>3, <1>4, <1>6 DEF AllSynced
<1> QED
  BY <1>1, <1>2, <1>3, <1>4, <1>5, <1>6, <1>7 DEF Appended

\* The frames may also stay as they are.
LEMMA NothingAppended ==
    ASSUME IInv, running, files' = files \/ files' = LinkAll(files)
    PROVE  Appended(<<>>) /\ cur \in DOMAIN files
<1>1. TypedIn(files) /\ cur \in DOMAIN files /\ files[cur].frames \in Frames
  BY Typed
<1>2. DOMAIN files' = DOMAIN files
  BY <1>1, LinkAllKeepsFrames
<1>3. ASSUME NEW f \in DOMAIN files
      PROVE  files'[f].frames = files[f].frames /\ files'[f].synced = files[f].synced
  <2>1. CASE files' = files
    BY <2>1
  <2>2. CASE files' = LinkAll(files)
    <3>1. files[f] \in WalFile /\ files'[f] = [files[f] EXCEPT !.linked = TRUE]
      BY <1>1, <2>2 DEF LinkAll, TypedIn
    <3> QED
      BY <3>1 DEF WalFile
  <2> QED
    BY <2>1, <2>2
<1>4. files[cur].frames \o <<>> = files[cur].frames
  BY <1>1, ConcatEmptySeq DEF Frames
<1> QED
  BY <1>1, <1>2, <1>3, <1>4 DEF Appended

\* Rotate appends the whole buffer to the old file and fsyncs it.
LEMMA RotationAppends ==
    ASSUME IInv, NEW t \in 1..MaxTime, SwitchTo(t),
           files' = RotatedTo(t) \/ files' = LinkAll(RotatedTo(t))
    PROVE  Appended(buf) /\ AllSynced
<1>1. /\ running /\ t \in Nat /\ t > time /\ time \in Nat /\ TypedIn(RotatedTo(t))
      /\ cur \in DOMAIN files /\ files[cur] \in WalFile /\ files[cur].frames \in Frames
      /\ buf \in Frames /\ TypedIn(files)
  <2>1. running /\ t \in (time + 1)..MaxTime
    BY DEF SwitchTo, RotationTime
  <2>2. time \in Nat /\ t \in Nat /\ t > time
    <3>1. time \in Nat
      BY DEF IInv, TypeOK
    <3> QED
      BY <2>1, <3>1
  <2>3. TypedIn(RotatedTo(t))
    BY SwitchedFiles
  <2> QED
    BY <2>1, <2>2, <2>3, Typed
<1>2. t \notin DOMAIN files
  BY <1>1 DEF IInv, NamesOK, TypedIn
<1>3. /\ DOMAIN files' = DOMAIN files \cup {t}
      /\ \A f \in DOMAIN files' :
            files'[f].frames = RotatedTo(t)[f].frames /\ files'[f].synced = RotatedTo(t)[f].synced
  <2>1. DOMAIN RotatedTo(t) = DOMAIN files \cup {t}
    BY DEF RotatedTo
  <2>2. CASE files' = RotatedTo(t)
    BY <2>1, <2>2
  <2>3. CASE files' = LinkAll(RotatedTo(t))
    <3>1. DOMAIN files' = DOMAIN files \cup {t}
      BY <2>1, <2>3 DEF LinkAll
    <3>2. ASSUME NEW f \in DOMAIN files'
          PROVE  /\ files'[f].frames = RotatedTo(t)[f].frames
                 /\ files'[f].synced = RotatedTo(t)[f].synced
      <4>1. RotatedTo(t)[f] \in WalFile
        BY <1>1, <2>1, <3>1 DEF TypedIn
      <4>2. files'[f] = [RotatedTo(t)[f] EXCEPT !.linked = TRUE]
        BY <2>1, <2>3, <3>1 DEF LinkAll
      <4> QED
        BY <4>1, <4>2 DEF WalFile
    <3> QED
      BY <3>1, <3>2
  <2> QED
    BY <2>2, <2>3
<1>4. /\ RotatedTo(t)[t].frames = <<>> /\ RotatedTo(t)[t].synced = 0
      /\ RotatedTo(t)[cur] = Flushed(files[cur], buf)
      /\ \A f \in DOMAIN files \ {cur} : RotatedTo(t)[f] = files[f]
  BY <1>1, <1>2 DEF RotatedTo, NewFile
<1>5. Flushed(files[cur], buf).frames = files[cur].frames \o buf
  BY <1>1, FileAfterAppend
<1>6. Len(files[cur].frames \o buf) = Len(files[cur].frames) + Len(buf)
  BY <1>1, ConcatProperties DEF Frames
<1>7. Flushed(files[cur], buf).synced = Len(files[cur].frames) + Len(buf)
  BY <1>1 DEF Flushed, AppendFrames, WalFile
<1>8. cur \in DOMAIN files' /\ cur # t
  BY <1>1, <1>2, <1>3
<1>9. files'[cur].frames = files[cur].frames \o buf /\ AllSynced
  BY <1>3, <1>4, <1>5, <1>6, <1>7, <1>8 DEF AllSynced
<1>10. \A f \in DOMAIN files' \ DOMAIN files : files'[f].frames = <<>> /\ files'[f].synced = 0
  BY <1>3, <1>4
<1>11. \A f \in DOMAIN files \ {cur} :
          files'[f].frames = files[f].frames /\ files'[f].synced = files[f].synced
  BY <1>3, <1>4
<1>12. files'[cur].synced \in {files[cur].synced, Len(files'[cur].frames)}
  BY <1>9 DEF AllSynced
<1> QED
  BY <1>3, <1>9, <1>10, <1>11, <1>12 DEF Appended

\* WriteBatch: the first frames on their way, and the others stay with the writer.
LEMMA WriteBatchIs ==
    ASSUME IInv, NEW k \in 0..MaxLSN, WriteBatch(k)
    PROVE  \E e : WriterStep(e)
<1> DEFINE out == buf \o batch
           e == SubSeq(out, 1, k)
           rest == SubSeq(out, k + 1, Len(out))
<1>1. /\ running /\ ~stuck /\ k \in 0..Len(out) /\ batch' = <<>> /\ buf' = rest
      /\ files' = [files EXCEPT ![cur] = AppendFrames(@, e)]
      /\ UNCHANGED <<chan, cur, nextLSN, stuck, phase, snapLSN, accepted, runLSN, synced, dropped,
                     skipped, faulted>>
  BY DEF WriteBatch, Outgoing
<1>2. /\ out \in Seq(Frame) /\ Len(out) = Len(buf) + Len(batch)
      /\ Whole(out) = Whole(buf) \cup Whole(batch)
  BY <1>1, OnItsWay
<1>3. Len(out) \in Nat /\ k \in Nat /\ k <= Len(out) /\ \A i \in 1..Len(out) : out[i] \in Frame
  BY <1>1, <1>2, LenProperties, ElementOfSeq
<1>4. e \in Seq(Frame) /\ Len(e) = k /\ PrefixOrTorn(e, out)
  <2> HIDE DEF out
  <2> QED
    BY <1>1, <1>2, SubSeqIsPrefix
<1>5. /\ rest \in Seq(Frame) /\ Len(rest) = Len(out) - k
      /\ \A i \in DOMAIN rest : k + i \in DOMAIN out /\ rest[i] = out[k + i]
  <2> HIDE DEF out
  <2>1. /\ rest \in Seq(Frame)
        /\ Len(rest) = IF k + 1 <= Len(out) THEN Len(out) - (k + 1) + 1 ELSE 0
        /\ \A i \in 1..(Len(out) - (k + 1) + 1) : rest[i] = out[(k + 1) + i - 1]
    BY <1>3, SubSeqProperties
  <2>2. DOMAIN rest = 1..Len(rest) /\ DOMAIN out = 1..Len(out)
    BY <1>2, <2>1, LenProperties
  <2>3. Len(rest) = Len(out) - k
    <3> HIDE DEF rest
    <3> QED
      BY <1>3, <2>1
  <2>4. ASSUME NEW i \in DOMAIN rest PROVE k + i \in DOMAIN out /\ rest[i] = out[k + i]
    <3>1. i \in 1..(Len(out) - (k + 1) + 1) /\ (k + 1) + i - 1 = k + i /\ k + i \in 1..Len(out)
      <4> HIDE DEF rest
      <4> QED
        BY <1>3, <2>2, <2>3
    <3> HIDE DEF rest
    <3> QED
      BY <2>1, <2>2, <3>1
  <2> QED
    BY <2>1, <2>3, <2>4
<1>6. Whole(buf') \cup Whole(batch') \subseteq Whole(buf) \cup Whole(batch)
  <2>1. Whole(rest) \subseteq Whole(out)
    <3> HIDE DEF rest, out
    <3> QED
      BY <1>5 DEF Whole
  <2> HIDE DEF rest, out
  <2> QED
    BY <1>1, <1>2, <2>1, NothingWhole
<1>7. Pending' = Pending + k
  <2>1. Len(batch') = 0 /\ Len(buf') = Len(out) - k /\ nextLSN' = nextLSN
    BY <1>1, <1>5, EmptySeq
  <2>2. nextLSN \in Nat /\ Len(buf) \in Nat /\ Len(batch) \in Nat
    BY Typed
  <2> HIDE DEF out
  <2> QED
    BY <1>2, <1>3, <2>1, <2>2 DEF Pending
<1>8. Appended(e)
  <2>1. e \in Frames
    BY <1>4, SeqMonotonic DEF Frames
  <2> HIDE DEF e
  <2> QED
    BY <1>1, <2>1, HandedOver
<1>9. PrefixOrTorn(e, buf \o batch) /\ running' /\ phase' # "stopped"
  BY <1>1, <1>4 DEF running
<1> HIDE DEF e, rest, out
<1> QED
  BY <1>1, <1>4, <1>6, <1>7, <1>8, <1>9 DEF WriterStep

\* A step of the writer that puts a part of its buffer, and perhaps of the batch, into
\* the file and reports an error; or that finds it stuck.
LEMMA FailureIs ==
    ASSUME IInv, running, faulted',
           NEW e, PrefixOrTorn(e, buf \o batch), stuck => Whole(e) = {}, Appended(e),
           Whole(buf') \cup Whole(batch') \subseteq Whole(buf) \cup Whole(batch),
           UNCHANGED <<accepted, runLSN, synced, dropped, skipped, chan, nextLSN, cur, phase>>,
           stuck' \/ (~stuck /\ e \in Seq(Frame) /\ Pending' = Pending + Len(e)),
           DiskFaults \/ stuck
    PROVE  WriterStep(e)
<1>1. phase' # "stopped"
  BY DEF running
<1> QED
  BY <1>1 DEF WriterStep

\* WriteBatch fails: a prefix of what was on its way, perhaps with a torn frame.
LEMMA WriteBatchFailIs ==
    ASSUME IInv, WriteBatchFail
    PROVE  \E e : WriterStep(e)
<1>1. /\ running /\ buf' = <<>> /\ batch' = <<>> /\ stuck' /\ faulted'
      /\ UNCHANGED <<accepted, runLSN, synced, dropped, skipped, chan, nextLSN, cur, phase>>
  BY DEF WriteBatchFail
<1>2. Whole(buf') = {} /\ Whole(batch') = {}
  BY <1>1, NothingWhole
<1>3. buf \o batch \in Seq(Frame)
  BY <1>1, OnItsWay
<1>4. CASE ~stuck /\ DiskFaults /\ \E rest \in Leftovers(buf \o batch) :
                files' = [files EXCEPT ![cur] = AppendFrames(@, rest)]
  <2>1. PICK e \in Leftovers(buf \o batch) : files' = [files EXCEPT ![cur] = AppendFrames(@, e)]
    BY <1>4
  <2>2. PrefixOrTorn(e, buf \o batch)
    BY <1>3, <2>1, LeftoversArePrefixes
  <2>3. Appended(e)
    BY <1>1, <2>1, <2>2, HandedOver DEF PrefixOrTorn
  <2> QED
    BY <1>1, <1>2, <1>4, <2>2, <2>3, FailureIs
<1>5. CASE stuck /\ UNCHANGED files
  <2>1. Appended(<<>>) /\ PrefixOrTorn(<<>>, buf \o batch) /\ Whole(<<>>) = {}
    BY <1>1, <1>5, NothingAppended, OnItsWay, NothingWhole
  <2> QED
    BY <1>1, <1>2, <1>5, <2>1, FailureIs
<1> QED
  BY <1>4, <1>5 DEF WriteBatchFail

\* Flush, and perhaps fsync, of the whole buffer: what is pending then.
LEMMA BufferEmptied ==
    ASSUME IInv, running, buf' = <<>>
    PROVE  /\ PrefixOrTorn(buf, buf \o batch) /\ buf \in Frames /\ buf \in Seq(Frame)
           /\ UNCHANGED batch => Whole(buf') \cup Whole(batch') \subseteq Whole(buf) \cup Whole(batch)
           /\ UNCHANGED <<batch, nextLSN>> => Pending' = Pending + Len(buf)
<1>1. buf \in Seq(Frame) /\ buf \in Frames
  BY Typed
<1>2. PrefixOrTorn(buf, buf \o batch)
  BY <1>1, WholeIsPrefix, OnItsWay
<1>3. ASSUME UNCHANGED <<batch, nextLSN>> PROVE Pending' = Pending + Len(buf)
  <2>1. Pending' = nextLSN - Len(batch) - 0
    BY <1>3, EmptySeq DEF Pending
  <2> QED
    BY <2>1, Typed
<1> QED
  BY <1>1, <1>2, <1>3, NothingWhole

\* Sync and Rotate fail in the flush or in the fsync.
LEMMA SyncFailIs ==
    ASSUME IInv, SyncFail \/ RotateFail
    PROVE  \E e : WriterStep(e)
<1>1. /\ running /\ buf' = <<>> /\ faulted'
      /\ UNCHANGED <<accepted, runLSN, synced, dropped, skipped, chan, batch, nextLSN, cur, phase>>
      /\ \/ /\ ~stuck /\ DiskFaults /\ stuck'
            /\ \E rest \in Leftovers(buf) : files' = [files EXCEPT ![cur] = AppendFrames(@, rest)]
         \/ ~stuck /\ DiskFaults /\ files' = [files EXCEPT ![cur] = AppendFrames(@, buf)]
         \/ stuck /\ UNCHANGED <<files, stuck>>
  BY DEF SyncFail, RotateFail, running
<1>2. /\ PrefixOrTorn(buf, buf \o batch) /\ buf \in Frames /\ buf \in Seq(Frame)
      /\ Whole(buf') \cup Whole(batch') \subseteq Whole(buf) \cup Whole(batch)
      /\ Pending' = Pending + Len(buf)
  BY <1>1, BufferEmptied
<1>3. CASE /\ ~stuck /\ DiskFaults /\ stuck'
           /\ \E rest \in Leftovers(buf) : files' = [files EXCEPT ![cur] = AppendFrames(@, rest)]
  <2>1. PICK e \in Leftovers(buf) : files' = [files EXCEPT ![cur] = AppendFrames(@, e)]
    BY <1>3
  <2>2. e \in Frames /\ PrefixOrTorn(e, buf \o batch)
    <3>1. PrefixOrTorn(e, buf)
      BY <1>2, <2>1, LeftoversArePrefixes
    <3> QED
      BY <1>1, <3>1, OnItsWay DEF PrefixOrTorn
  <2>3. Appended(e)
    BY <1>1, <2>1, <2>2, HandedOver
  <2> QED
    BY <1>1, <1>2, <1>3, <2>2, <2>3, FailureIs
<1>4. CASE ~stuck /\ DiskFaults /\ files' = [files EXCEPT ![cur] = AppendFrames(@, buf)]
  <2>1. Appended(buf)
    BY <1>1, <1>2, <1>4, HandedOver
  <2> QED
    BY <1>1, <1>2, <1>4, <2>1, FailureIs
<1>5. CASE stuck /\ UNCHANGED <<files, stuck>>
  <2>1. Appended(<<>>) /\ PrefixOrTorn(<<>>, buf \o batch) /\ Whole(<<>>) = {}
    BY <1>1, <1>5, NothingAppended, OnItsWay, NothingWhole
  <2> QED
    BY <1>1, <1>2, <1>5, <2>1, FailureIs
<1> QED
  BY <1>1, <1>3, <1>4, <1>5

\* An fsync of all that the writer was given.
LEMMA FsyncIs ==
    ASSUME IInv, running, ~stuck, Appended(buf), AllSynced, SyncCurrent, buf' = <<>>,
           UNCHANGED <<accepted, runLSN, dropped, skipped, chan, batch, nextLSN, stuck>>,
           ~faulted' => ~faulted,
           phase' = "stopped" => chan = <<>> /\ batch = <<>>
    PROVE  WriterStep(buf)
<1>1. /\ PrefixOrTorn(buf, buf \o batch) /\ buf \in Seq(Frame)
      /\ Whole(buf') \cup Whole(batch') \subseteq Whole(buf) \cup Whole(batch)
      /\ Pending' = Pending + Len(buf)
  BY BufferEmptied
<1>2. synced' = synced \cup LSNsIn(files'[cur].frames) /\ LSNsIn(files'[cur].frames) \subseteq synced'
  BY DEF Appended, SyncCurrent
<1>3. batch = <<>> => Pending + Len(buf) = nextLSN
  <2>1. Len(<<>>) = 0
    BY EmptySeq
  <2> QED
    BY <2>1, Typed
<1> QED
  BY <1>1, <1>2, <1>3 DEF WriterStep

\* Sync: the whole buffer, fsynced.
LEMMA SyncIs ==
    ASSUME IInv, Sync
    PROVE  \E e : WriterStep(e)
<1>1. /\ running /\ ~stuck /\ buf' = <<>> /\ SyncCurrent
      /\ files' = [files EXCEPT ![cur] = Flushed(@, buf)]
      /\ UNCHANGED <<accepted, runLSN, dropped, skipped, chan, batch, nextLSN, stuck, faulted>>
      /\ phase' # "stopped"
  BY DEF Sync, running
<1>2. Appended(buf) /\ AllSynced
  BY <1>1, HandedOver, Typed
<1> QED
  BY <1>1, <1>2, FsyncIs

\* WAL.Close after the flusher has drained the channel.
LEMMA CloseIs ==
    ASSUME IInv, Close
    PROVE  \E e : WriterStep(e)
<1>1. /\ running /\ ~stuck /\ buf' = <<>> /\ SyncCurrent /\ chan = <<>> /\ batch = <<>>
      /\ files' = [files EXCEPT ![cur] = Flushed(@, buf)]
      /\ UNCHANGED <<accepted, runLSN, dropped, skipped, chan, batch, nextLSN, stuck, faulted>>
  BY DEF Close, running
<1>2. Appended(buf) /\ AllSynced
  BY <1>1, HandedOver, Typed
<1> QED
  BY <1>1, <1>2, FsyncIs

\* Rotate, whether its FsyncDir succeeds or fails.
LEMMA SwitchIs ==
    ASSUME IInv, NEW t \in 1..MaxTime, Rotate(t) \/ RotateDirFail(t)
    PROVE  \E e : WriterStep(e)
<1>1. /\ SwitchTo(t) /\ (files' = RotatedTo(t) \/ files' = LinkAll(RotatedTo(t)))
      /\ running /\ ~stuck /\ buf' = <<>> /\ SyncCurrent
      /\ UNCHANGED <<accepted, runLSN, dropped, skipped, chan, batch, nextLSN, stuck>>
      /\ phase' # "stopped" /\ (~faulted' => ~faulted)
  BY DEF Rotate, RotateDirFail, SwitchTo, running
<1>2. Appended(buf) /\ AllSynced
  BY <1>1, RotationAppends
<1> QED
  BY <1>1, <1>2, FsyncIs

\* A step that appends nothing and keeps the process running.
LEMMA IdleIs ==
    ASSUME IInv, running, files' = files \/ files' = LinkAll(files), phase' # "stopped",
           UNCHANGED <<accepted, runLSN, dropped, skipped, chan, buf, batch, nextLSN, cur, stuck,
                       synced, faulted>>, running'
    PROVE  WriterStep(<<>>)
<1>1. /\ Appended(<<>>) /\ PrefixOrTorn(<<>>, buf \o batch) /\ Whole(<<>>) = {}
      /\ Len(<<>>) = 0 /\ <<>> \in Seq(Frame)
  BY NothingAppended, OnItsWay, NothingWhole, EmptySeq
<1>2. Pending' = Pending + Len(<<>>)
  <2>1. Pending' = Pending
    BY DEF Pending
  <2> QED
    BY <1>1, <2>1, Typed
<1> QED
  BY <1>1, <1>2 DEF WriterStep

\* The compaction's own steps and the begin of a shutdown append nothing.
LEMMA CompactionIs ==
    ASSUME IInv, \/ LastLSN \/ SnapshotDone \/ SetSnapshotWatermark \/ VectorsSaved
                 \/ SnapshotFail \/ BeginClose
    PROVE  \E e : WriterStep(e)
<1>1. /\ running /\ running' /\ phase' # "stopped" /\ (files' = files \/ files' = LinkAll(files))
      /\ UNCHANGED <<accepted, runLSN, dropped, skipped, chan, buf, batch, nextLSN, cur, stuck,
                     synced, faulted>>
  BY DEF LastLSN, SnapshotDone, SetSnapshotWatermark, VectorsSaved, SnapshotFail, BeginClose, running
<1> QED
  BY <1>1, IdleIs

\* WAL.Close fails, or the process is killed.
LEMMA DownIs ==
    ASSUME IInv, CloseFail \/ Kill
    PROVE  \E e : WriterStep(e)
<1>1. /\ running /\ phase' = "down" /\ ~running' /\ buf' = <<>>
      /\ UNCHANGED <<accepted, runLSN, synced, dropped, skipped, stuck, faulted, cur>>
  BY DEF CloseFail, Kill, Stopped, running
<1>2. Whole(buf') \cup Whole(batch') \subseteq Whole(buf) \cup Whole(batch)
  BY NothingWhole DEF CloseFail, Kill, Stopped
<1>3. /\ DiskFaults \/ "kill" \in Crashes \/ stuck
      /\ \E e : PrefixOrTorn(e, buf \o batch) /\ (stuck => Whole(e) = {}) /\ Appended(e)
  <2>1. CASE /\ ~stuck /\ DiskFaults
             /\ \E rest \in Leftovers(buf) : files' = [files EXCEPT ![cur] = AppendFrames(@, rest)]
    <3>1. PICK e \in Leftovers(buf) : files' = [files EXCEPT ![cur] = AppendFrames(@, e)]
      BY <2>1
    <3>2. PrefixOrTorn(e, buf)
      BY <3>1, LeftoversArePrefixes, Typed
    <3> QED
      BY <1>1, <2>1, <3>1, <3>2, HandedOver, OnItsWay DEF PrefixOrTorn
  <2>2. CASE /\ "kill" \in Crashes /\ buf \o batch # <<>>
             /\ files' = [files EXCEPT ![cur] = AppendFrames(@, <<Torn>>)]
    <3>1. PrefixOrTorn(<<Torn>>, buf \o batch) /\ Whole(<<Torn>>) = {}
      BY <1>1, <2>2, TornIsPrefix, OnItsWay, NothingWhole
    <3> QED
      BY <1>1, <2>2, <3>1, HandedOver DEF PrefixOrTorn
  <2>3. CASE (stuck \/ "kill" \in Crashes) /\ UNCHANGED files
    BY <1>1, <2>3, NothingAppended, OnItsWay, NothingWhole
  <2> QED
    BY <2>1, <2>2, <2>3 DEF CloseFail, Kill
<1>4. PICK e : PrefixOrTorn(e, buf \o batch) /\ (stuck => Whole(e) = {}) /\ Appended(e)
  BY <1>3
<1>5. phase' # "stopped"
  BY <1>1
<1> QED
  BY <1>1, <1>2, <1>3, <1>4, <1>5 DEF WriterStep

(***************************************************************************)
(* The other steps                                                         *)
(***************************************************************************)
\* CleanupOldWALs ends, or removes one file: its LSNs are then dropped.
Removes(f) ==
    /\ f \in DOMAIN files /\ f < comp.keep /\ f # cur
    /\ DOMAIN files' = DOMAIN files \ {f} /\ \A g \in DOMAIN files' : files'[g] = files[g]
    /\ dropped' = dropped \cup LSNsIn(files[f].frames) /\ comp' = comp

\* A turn of CleanupOldWALs.
LEMMA CleanupIs ==
    ASSUME IInv, Cleanup
    PROVE  /\ running /\ running' /\ comp.stage = "cleanup" /\ cur \in DOMAIN files'
           /\ files'[cur] = files[cur] /\ Within(files', files)
           /\ UNCHANGED <<chan, batch, buf, cur, nextLSN, stuck, phase, snapLSN, graphLSN,
                          accepted, runLSN, synced, skipped, faulted>>
           /\ Pending' = Pending
           /\ (comp' = Idle /\ UNCHANGED <<files, dropped>>) \/ \E f : Removes(f)
<1>1. /\ running /\ running' /\ comp.stage = "cleanup"
      /\ UNCHANGED <<chan, batch, buf, cur, nextLSN, stuck, phase, snapLSN, graphLSN,
                     accepted, runLSN, synced, skipped, faulted>>
  BY DEF Cleanup, running
<1>2. Pending' = Pending
  BY <1>1 DEF Pending
<1>3. cur \in DOMAIN files /\ comp.keep <= cur /\ comp.keep \in Nat /\ cur \in Nat /\ DOMAIN files \subseteq Nat
  BY <1>1 DEF IInv, TypeOK, PipelineOK
<1>4. CASE comp' = Idle /\ UNCHANGED <<files, dropped>>
  BY <1>1, <1>2, <1>3, <1>4 DEF Within
<1>5. CASE \E f \in OldWALs(comp.keep) :
             /\ files' = [g \in DOMAIN files \ {f} |-> files[g]]
             /\ dropped' = dropped \cup LSNsIn(files[f].frames)
             /\ UNCHANGED comp
  <2>1. PICK f \in OldWALs(comp.keep) :
             /\ files' = [g \in DOMAIN files \ {f} |-> files[g]]
             /\ dropped' = dropped \cup LSNsIn(files[f].frames)
             /\ UNCHANGED comp
    BY <1>5
  <2>2. f \in DOMAIN files /\ f < comp.keep /\ f # cur
    BY <1>3, <2>1 DEF OldWALs
  <2>3. DOMAIN files' = DOMAIN files \ {f} /\ \A g \in DOMAIN files' : files'[g] = files[g]
    BY <2>1
  <2>4. Removes(f)
    BY <2>1, <2>2, <2>3 DEF Removes
  <2>5. Within(files', files)
    BY <2>3 DEF Within
  <2> QED
    BY <1>1, <1>2, <1>3, <2>2, <2>3, <2>4, <2>5
<1> QED
  BY <1>4, <1>5 DEF Cleanup

\* Frame j of file is at its place in a, too.
Kept(file, a, j) == j \in DOMAIN file.frames /\ j \in DOMAIN a.frames /\ a.frames[j] = file.frames[j]

\* a is file after a power loss: a prefix that holds at least what was fsynced, and
\* perhaps a torn frame.
CutOf(file, a) ==
    /\ a.synced = Len(a.frames)
    /\ \A i \in DOMAIN a.frames : ~IsTorn(a.frames[i]) => \A j \in 1..i : Kept(file, a, j)
    /\ \A j \in DOMAIN file.frames : j <= file.synced => Kept(file, a, j)

\* Each of the states that AfterPowerLoss enumerates is such a file.
LEMMA PowerLossCutsFile ==
    ASSUME NEW file \in WalFile, NEW partial, NEW a \in AfterPowerLoss(file, partial)
    PROVE  CutOf(file, a)
<1> DEFINE old == file.frames
           cut(k) == SubSeq(old, 1, k)
<1>1. /\ old \in Frames /\ file.synced \in Nat /\ Len(old) \in Nat
      /\ DOMAIN old = 1..Len(old)
  BY LenProperties DEF WalFile, Frames
<1>2. ASSUME NEW k \in file.synced..Len(old)
      PROVE  /\ cut(k) \in Frames /\ Len(cut(k)) = k /\ DOMAIN cut(k) = 1..k
             /\ k \in Nat /\ file.synced <= k
             /\ \A i \in 1..k : i \in DOMAIN old /\ cut(k)[i] = old[i]
  <2>1. k \in Nat /\ k <= Len(old) /\ file.synced <= k
    BY <1>1
  <2>2. \A i \in 1..k : i \in DOMAIN old /\ old[i] \in Frame \cup {Torn}
    BY <1>1, <2>1, ElementOfSeq DEF Frames
  <2>3. /\ cut(k) \in Frames /\ Len(cut(k)) = k
        /\ \A i \in 1..k : cut(k)[i] = old[i]
    BY <1>1, <2>1, <2>2, SubSeqProperties DEF Frames
  <2>4. DOMAIN cut(k) = 1..k
    BY <2>3, LenProperties DEF Frames
  <2> QED
    BY <2>1, <2>2, <2>3, <2>4
<1> HIDE DEF cut
<1>3. CASE \E k \in file.synced..Len(old) :
             a = [frames |-> cut(k), synced |-> k, linked |-> TRUE]
  <2>1. PICK k \in file.synced..Len(old) :
             a = [frames |-> cut(k), synced |-> k, linked |-> TRUE]
    BY <1>3
  <2>2. a.frames = cut(k) /\ a.synced = k
    BY <2>1
  <2>3. \A j \in 1..k : Kept(file, a, j)
    BY <1>2, <2>2 DEF Kept
  <2>4. \A j \in DOMAIN old : j <= file.synced => j \in 1..k
    BY <1>1, <1>2
  <2>5. \A i \in DOMAIN a.frames : \A j \in 1..i : j \in 1..k
    BY <1>2, <2>2
  <2> QED
    BY <1>2, <2>2, <2>3, <2>4, <2>5 DEF CutOf
<1>4. CASE \E k \in file.synced..Len(old) :
             a = [frames |-> Append(cut(k), Torn), synced |-> k + 1, linked |-> TRUE]
  <2>1. PICK k \in file.synced..Len(old) :
             a = [frames |-> Append(cut(k), Torn), synced |-> k + 1, linked |-> TRUE]
    BY <1>4
  <2>2. /\ Len(Append(cut(k), Torn)) = k + 1
        /\ DOMAIN Append(cut(k), Torn) = 1..(k + 1)
        /\ \A i \in 1..k : Append(cut(k), Torn)[i] = cut(k)[i]
        /\ Append(cut(k), Torn)[k + 1] = Torn
    BY <1>2, AppendProperties, LenProperties DEF Frames
  <2>3. a.frames = Append(cut(k), Torn) /\ a.synced = k + 1
    BY <2>1
  <2>4. \A j \in 1..k : Kept(file, a, j)
    <3>1. \A j \in 1..k : j \in 1..(k + 1)
      BY <1>2
    <3> QED
      BY <1>2, <2>2, <2>3, <3>1 DEF Kept
  <2>5. \A j \in DOMAIN old : j <= file.synced => j \in 1..k
    BY <1>1, <1>2
  <2>6. ASSUME NEW i \in DOMAIN a.frames, ~IsTorn(a.frames[i]), NEW j \in 1..i PROVE j \in 1..k
    <3>1. i # k + 1
      BY <2>2, <2>3, <2>6, FrameKinds
    <3> QED
      BY <1>2, <2>2, <2>3, <3>1
  <2> QED
    BY <2>2, <2>3, <2>4, <2>5, <2>6 DEF CutOf
<1> QED
  BY <1>3, <1>4 DEF AfterPowerLoss, cut

\* What a power loss leaves of all files; their names, unless these need a sync.
LEMMA PowerLossIs ==
    ASSUME IInv, PowerLoss
    PROVE  /\ Stopped /\ ~running' /\ "power" \in Crashes
           /\ DOMAIN files' \subseteq DOMAIN files
           /\ ~DirEntryNeedsSync => DOMAIN files' = DOMAIN files
           /\ \A f \in DOMAIN files' : CutOf(files[f], files'[f])
           /\ Within(files', files)
<1>1. PICK gone \in SUBSET {f \in DOMAIN files : MayVanish(f)} :
         \E after \in [DOMAIN files \ gone -> UNION {LostPower(f) : f \in DOMAIN files \ gone}] :
            /\ \A f \in DOMAIN files \ gone : after[f] \in LostPower(f)
            /\ files' = after
  BY DEF PowerLoss
<1>2. /\ DOMAIN files' = DOMAIN files \ gone
      /\ \A f \in DOMAIN files' : files'[f] \in LostPower(f)
  BY <1>1
<1>3. ASSUME NEW f \in DOMAIN files' PROVE CutOf(files[f], files'[f])
  <2>1. files[f] \in WalFile /\ files'[f] \in LostPower(f)
    BY <1>2, Typed DEF TypedIn
  <2> QED
    BY <2>1, PowerLossCutsFile DEF LostPower
<1>4. ~DirEntryNeedsSync => DOMAIN files' = DOMAIN files
  BY <1>1, <1>2 DEF MayVanish
<1>5. TypedIn(files')
  BY PowerLossStep, PipelineNumbers DEF IInv, TypeOK, TypedIn
<1>6. Within(files', files)
  <2> SUFFICES ASSUME NEW f \in DOMAIN files', NEW i \in DOMAIN files'[f].frames,
                      ~IsTorn(files'[f].frames[i])
               PROVE  Kept(files[f], files'[f], i)
    BY <1>2 DEF Within, Kept
  <2>1. i \in 1..i
    BY <1>5, LenProperties DEF TypedIn, WalFile
  <2> QED
    BY <1>3, <2>1 DEF CutOf
<1> QED
  BY <1>2, <1>3, <1>4, <1>6 DEF PowerLoss, Stopped, running

\* A start opens a new file, last in order, and hands out LSNs above all on disk; those
\* it passes over are skipped.
LEMMA StartIs ==
    ASSUME IInv, ~backdated', NEW t \in 1..MaxTime, Start(t)
    PROVE  /\ phase' = "up" /\ running' /\ ~running /\ ~stuck' /\ ~faulted' /\ comp' = Idle
           /\ UNCHANGED <<snapLSN, graphLSN, synced, dropped>>
           /\ cur' \notin DOMAIN files /\ cur' \in Nat
           /\ DOMAIN files' = DOMAIN files \cup {cur'}
           /\ files'[cur'].frames = <<>> /\ files'[cur'].synced = 0
           /\ \A f \in DOMAIN files : files'[f] = files[f]
           /\ OnDisk(files') = OnDisk(files) /\ LSNsOnDisk' = LSNsOnDisk
           /\ runLSN' = nextLSN' /\ Pending' = nextLSN' /\ nextLSN' \in Nat \ {0}
           /\ \A l \in LSNsOnDisk : l < nextLSN'
           /\ skipped \subseteq skipped'
           /\ \A l \in 1..(nextLSN' - 1) : l \in skipped' \/ \E r \in LSNsOnDisk : ~(r < l)
<1> DEFINE new == StartName(t)
<1>1. /\ time \in Nat /\ snapLSN \in Nat /\ graphLSN \in Nat /\ TypedIn(files)
      /\ TornTailIn(files) /\ NamesOK
  BY PipelineNumbers DEF IInv, TypeOK
<1>2. new \in Nat /\ \A f \in DOMAIN files : f < new
  <2>1. \A f \in DOMAIN files : ~(new <= f)
    BY DEF Start
  <2>2. t \in Nat /\ t % NanosPerSecond \in Nat
    BY ClockAssumption
  <2>3. new = t - (t % NanosPerSecond)
    BY DEF StartName
  <2>4. new \in Nat /\ new <= t
    BY <2>2, <2>3, StartNameIsNat
  <2> HIDE DEF new
  <2> QED
    BY <1>1, <2>1, <2>2, <2>4 DEF TypedIn
<1>3. new \notin DOMAIN files
  BY <1>2
<1>4. /\ cur' = new /\ phase' = "up" /\ running' /\ ~running
      /\ chan' = <<>> /\ batch' = <<>> /\ buf' = <<>> /\ ~stuck' /\ ~faulted'
      /\ comp' = Idle /\ runLSN' = nextLSN'
      /\ UNCHANGED <<snapLSN, graphLSN, synced, dropped>>
      /\ skipped' = skipped \cup { l \in 1..(nextLSN' - 1) : \A r \in ReadableLSNs : r < l }
  BY DEF Start, running
<1>5. /\ DOMAIN files' = DOMAIN files \cup {new}
      /\ files'[new] = NewFile
      /\ \A f \in DOMAIN files : files'[f] = files[f]
  BY <1>3 DEF Start
<1>6. PICK maxLSN \in KnownLSNs :
         /\ \A l \in KnownLSNs : l <= maxLSN
         /\ nextLSN' = maxLSN + 1
  BY DEF Start
<1>7. ReadableLSNs = LSNsOnDisk /\ ReadableLSNs \subseteq Nat \ {0}
  BY <1>1, ReadableIsOnDisk, ReadableLSNsArePositive
<1>8. nextLSN' \in Nat \ {0} /\ \A l \in ReadableLSNs : l < nextLSN'
  BY <1>1, <1>6, <1>7 DEF KnownLSNs
<1>9. files'[new].frames = <<>> /\ files'[new].synced = 0
  BY <1>5 DEF NewFile
<1> HIDE DEF new
<1>10. OnDisk(files') = OnDisk(files)
  <2>1. Whole(files'[new].frames) = {}
    BY <1>9, NothingWhole
  <2> QED
    BY <1>5, <2>1 DEF OnDisk
<1>11. LSNsOnDisk' = LSNsOnDisk
  BY <1>10 DEF LSNsOnDisk
<1>12. Pending' = nextLSN'
  <2>1. Len(buf') = 0 /\ Len(batch') = 0
    <3>1. Len(<<>>) = 0
      BY EmptySeq
    <3> QED
      BY <1>4, <3>1
  <2>2. nextLSN' \in Int /\ Pending' = (nextLSN' - Len(batch')) - Len(buf')
    BY <1>8 DEF Pending
  <2>3. \A a \in Int : (a - 0) - 0 = a
    OBVIOUS
  <2> QED
    BY <2>1, <2>2, <2>3, Zenon
<1>13. \A l \in 1..(nextLSN' - 1) : l \in skipped' \/ \E r \in LSNsOnDisk : ~(r < l)
  BY <1>4, <1>7
<1> QED
  BY <1>2, <1>3, <1>4, <1>5, <1>7, <1>8, <1>9, <1>10, <1>11, <1>12, <1>13

\* What such a step leaves on disk.
LEMMA DiskAfter ==
    ASSUME IInv, NEW e, WriterStep(e)
    PROVE  /\ cur \in DOMAIN files /\ cur \in DOMAIN files' /\ e \in Frames
           /\ Whole(files'[cur].frames) = Whole(files[cur].frames) \cup Whole(e)
           /\ LSNsIn(files'[cur].frames) = LSNsIn(files[cur].frames) \cup LSNsIn(e)
           /\ OnDisk(files') = OnDisk(files) \cup Whole(e)
           /\ LSNsOnDisk' = LSNsOnDisk \cup LSNsIn(e)
           /\ Whole(e) \subseteq Whole(buf) \cup Whole(batch)
           /\ \A l \in LSNsIn(e) : l \in Int /\ Pending <= l /\ Pending..l \subseteq LSNsIn(e)
           /\ e \in Seq(Frame) => LSNsIn(e) = Pending..(Pending + Len(e) - 1)
<1>1. /\ cur \in DOMAIN files /\ cur \in DOMAIN files' /\ e \in Frames
      /\ files[cur].frames \in Frames /\ files'[cur].frames = files[cur].frames \o e
  BY Typed DEF WriterStep, Appended, PrefixOrTorn
<1>2. /\ Whole(files'[cur].frames) = Whole(files[cur].frames) \cup Whole(e)
      /\ LSNsIn(files'[cur].frames) = LSNsIn(files[cur].frames) \cup LSNsIn(e)
  BY <1>1, WholeOfConcat
<1>3. /\ \A f \in DOMAIN files' \ DOMAIN files : files'[f].frames = <<>>
      /\ \A f \in DOMAIN files \ {cur} : files'[f].frames = files[f].frames
      /\ DOMAIN files \subseteq DOMAIN files'
  BY DEF WriterStep, Appended
<1>4. /\ \A f \in DOMAIN files' \ DOMAIN files : Whole(files'[f].frames) = {}
      /\ \A f \in DOMAIN files \ {cur} : Whole(files'[f].frames) = Whole(files[f].frames)
  BY <1>3, NothingWhole
<1>5. OnDisk(files') = OnDisk(files) \cup Whole(e)
  <2>1. ASSUME NEW fr \in OnDisk(files') PROVE fr \in OnDisk(files) \cup Whole(e)
    <3>1. PICK f \in DOMAIN files' : fr \in Whole(files'[f].frames)
      BY DEF OnDisk
    <3>2. f \in DOMAIN files
      BY <1>4, <3>1
    <3>3. fr \in Whole(files[f].frames) \/ fr \in Whole(e)
      BY <1>2, <1>4, <3>1, <3>2
    <3> QED
      BY <3>2, <3>3 DEF OnDisk
  <2>2. ASSUME NEW fr \in OnDisk(files) PROVE fr \in OnDisk(files')
    <3>1. PICK f \in DOMAIN files : fr \in Whole(files[f].frames)
      BY DEF OnDisk
    <3>2. f \in DOMAIN files' /\ fr \in Whole(files'[f].frames)
      BY <1>2, <1>3, <1>4, <3>1
    <3> QED
      BY <3>2 DEF OnDisk
  <2>3. Whole(e) \subseteq OnDisk(files')
    BY <1>1, <1>2 DEF OnDisk
  <2> QED
    BY <2>1, <2>2, <2>3
<1>6. LSNsOnDisk' = LSNsOnDisk \cup LSNsIn(e)
  <2>1. LSNsIn(e) = {fr.lsn : fr \in Whole(e)}
    BY WholeLSNs
  <2>2. LSNsOnDisk' = {fr.lsn : fr \in OnDisk(files')}
    BY DEF LSNsOnDisk
  <2> QED
    BY <1>5, <2>1, <2>2 DEF LSNsOnDisk
<1>7. /\ buf \o batch \in Seq(Frame) /\ Consecutive(buf \o batch, Pending) /\ Pending \in Int
      /\ Whole(buf \o batch) = Whole(buf) \cup Whole(batch) /\ PrefixOrTorn(e, buf \o batch)
  BY OnItsWay, Typed DEF WriterStep
<1>8. /\ Whole(e) \subseteq Whole(buf \o batch)
      /\ \A l \in LSNsIn(e) : l \in Int /\ Pending <= l /\ Pending..l \subseteq LSNsIn(e)
      /\ e \in Seq(Frame) => LSNsIn(e) = Pending..(Pending + Len(e) - 1)
  BY <1>7, WholeOfPrefix
<1> QED
  BY <1>1, <1>2, <1>5, <1>6, <1>7, <1>8

\* The LSNs on disk are positive and, while the process runs, below the pending one.
LEMMA DiskLSNs ==
    ASSUME IInv
    PROVE  /\ \A fr \in OnDisk(files) : fr \in Frame /\ fr.lsn \in Nat \ {0}
           /\ LSNsOnDisk \subseteq Nat \ {0}
           /\ \A fr \in Whole(buf) \cup Whole(batch) : fr \in Frame /\ fr.lsn \in Nat \ {0}
           /\ running => \A l \in LSNsOnDisk : l < Pending
<1>1. ASSUME NEW frs \in Frames, NEW fr \in Whole(frs) PROVE fr \in Frame /\ fr.lsn \in Nat \ {0}
  <2>1. PICK i \in DOMAIN frs : ~IsTorn(frs[i]) /\ fr = frs[i]
    BY DEF Whole
  <2>2. frs[i] \in Frame \cup {Torn}
    BY ElementOfSeq, LenProperties DEF Frames
  <2> QED
    BY <2>1, <2>2, FrameKinds
<1>2. \A fr \in OnDisk(files) : fr \in Frame /\ fr.lsn \in Nat \ {0}
  BY <1>1, Typed DEF OnDisk
<1>3. \A fr \in Whole(buf) \cup Whole(batch) : fr \in Frame /\ fr.lsn \in Nat \ {0}
  BY <1>1, Typed
<1>4. ASSUME running, NEW l \in LSNsOnDisk PROVE l < Pending
  <2>1. PICK f \in DOMAIN files : \E i \in DOMAIN files[f].frames :
            ~IsTorn(files[f].frames[i]) /\ l = files[f].frames[i].lsn
    BY DEF LSNsOnDisk, OnDisk, Whole
  <2> QED
    BY <1>4, <2>1 DEF IInv, PipelineOK, BelowIn
<1> QED
  BY <1>2, <1>3, <1>4 DEF LSNsOnDisk

(***************************************************************************)
(* Frames and sends                                                        *)
(***************************************************************************)
\* Frames move from the writer to the file with what they carry.
LEMMA MatchedStep ==
    ASSUME IInv, Matched, NEW e, WriterStep(e)
    PROVE  Matched'
<1>1. UNCHANGED <<accepted, runLSN>> /\ (running' => running /\ nextLSN' = nextLSN /\ chan' = chan)
  BY DEF WriterStep
<1>2. OnDisk(files') \cup Whole(buf') \cup Whole(batch')
         \subseteq OnDisk(files) \cup Whole(buf) \cup Whole(batch)
  BY DiskAfter DEF WriterStep
<1>3. \A fr : Sent(fr)' <=> Sent(fr)
  BY <1>1 DEF Sent, RecordOf
<1>4. \A fr \in OnDisk(files') \cup Whole(buf') \cup Whole(batch') : Sent(fr)'
  BY <1>2, <1>3 DEF Matched
<1>5. running' => /\ runLSN' <= nextLSN'
                  /\ nextLSN' + Len(chan') = runLSN' + Len(accepted')
                  /\ \A i \in DOMAIN chan' : chan'[i] = accepted'[nextLSN' - runLSN' + i]
  BY <1>1 DEF Matched
<1> QED
  BY <1>4, <1>5 DEF Matched

\* A record is sent.
LEMMA MatchedWrite ==
    ASSUME IInv, Matched, NEW r \in Records, Write(r)
    PROVE  Matched'
<1>1. /\ running /\ chan \in Seq(Records) /\ accepted \in Seq(Records)
      /\ nextLSN \in Nat \ {0} /\ runLSN \in Nat \ {0}
      /\ Len(chan) \in Nat /\ Len(accepted) \in Nat
      /\ runLSN <= nextLSN /\ nextLSN + Len(chan) = runLSN + Len(accepted)
      /\ \A i \in DOMAIN chan : chan[i] = accepted[nextLSN - runLSN + i]
      /\ DOMAIN chan = 1..Len(chan) /\ DOMAIN accepted = 1..Len(accepted)
  <2>1. running
    BY DEF Write, running
  <2>2. /\ chan \in Seq(Records) /\ accepted \in Seq(Records)
        /\ nextLSN \in Nat \ {0} /\ runLSN \in Nat \ {0}
    BY DEF IInv, TypeOK
  <2> QED
    BY <2>1, <2>2, LenProperties DEF Matched
<1>2. /\ chan' = Append(chan, r) /\ accepted' = Append(accepted, r)
      /\ UNCHANGED <<batch, buf, files, nextLSN, phase, runLSN>>
  BY DEF Write
<1>3. /\ Len(chan') = Len(chan) + 1 /\ Len(accepted') = Len(accepted) + 1
      /\ \A i \in 1..Len(chan) : chan'[i] = chan[i]
      /\ chan'[Len(chan) + 1] = r
      /\ \A i \in 1..Len(accepted) : accepted'[i] = accepted[i]
      /\ accepted'[Len(accepted) + 1] = r
      /\ DOMAIN chan' = 1..(Len(chan) + 1) /\ DOMAIN accepted' = 1..(Len(accepted) + 1)
  BY <1>1, <1>2, AppendProperties, LenProperties
<1>4. ASSUME NEW i \in DOMAIN chan' PROVE chan'[i] = accepted'[nextLSN - runLSN + i]
  <2>1. CASE i = Len(chan) + 1
    <3>1. nextLSN - runLSN + i = Len(accepted) + 1
      BY <1>1, <2>1
    <3> QED
      BY <1>3, <2>1, <3>1
  <2>2. CASE i # Len(chan) + 1
    <3>1. i \in 1..Len(chan) /\ nextLSN - runLSN + i \in 1..Len(accepted)
      BY <1>1, <1>3, <2>2
    <3> QED
      BY <1>1, <1>3, <3>1
  <2> QED
    BY <2>1, <2>2
<1>5. ASSUME NEW fr \in OnDisk(files) \cup Whole(buf) \cup Whole(batch) PROVE Sent(fr)'
  <2>1. CASE fr.lsn >= runLSN
    <3>1. fr.lsn - runLSN + 1 \in DOMAIN accepted /\ fr.rec = accepted[fr.lsn - runLSN + 1]
      BY <1>5, <2>1 DEF Matched, Sent, RecordOf
    <3>2. fr.lsn - runLSN + 1 \in DOMAIN accepted' /\ fr.rec = accepted'[fr.lsn - runLSN + 1]
      BY <1>1, <1>3, <3>1
    <3> QED
      BY <1>2, <3>2 DEF Sent, RecordOf
  <2> QED
    BY <1>2, <2>1 DEF Sent
<1>6. nextLSN' + Len(chan') = runLSN' + Len(accepted') /\ runLSN' <= nextLSN'
  <2>1. nextLSN + (Len(chan) + 1) = runLSN + (Len(accepted) + 1)
    BY <1>1
  <2> QED
    BY <1>1, <1>2, <1>3, <2>1
<1> QED
  BY <1>2, <1>4, <1>5, <1>6 DEF Matched

\* Records get their LSNs in the order in which they were sent.
LEMMA MatchedReserve ==
    ASSUME IInv, Matched, NEW n \in 1..BatchSize, Reserve(n)
    PROVE  Matched'
<1>1. /\ running /\ chan \in Seq(Records) /\ n \in 1..Len(chan)
      /\ nextLSN \in Nat \ {0} /\ runLSN \in Nat \ {0}
      /\ Len(chan) \in Nat /\ Len(accepted) \in Nat /\ n \in Nat
      /\ runLSN <= nextLSN /\ nextLSN + Len(chan) = runLSN + Len(accepted)
      /\ \A i \in DOMAIN chan : chan[i] = accepted[nextLSN - runLSN + i]
      /\ DOMAIN chan = 1..Len(chan) /\ DOMAIN accepted = 1..Len(accepted)
  <2>1. running /\ n \in 1..Len(chan)
    BY DEF Reserve, Takes
  <2>2. /\ chan \in Seq(Records) /\ accepted \in Seq(Records)
        /\ nextLSN \in Nat \ {0} /\ runLSN \in Nat \ {0}
    BY DEF IInv, TypeOK
  <2> QED
    BY <2>1, <2>2, LenProperties DEF Matched
<1>2. /\ batch' = [i \in 1..n |-> [lsn |-> nextLSN + i - 1, rec |-> chan[i]]]
      /\ chan' = SubSeq(chan, n + 1, Len(chan)) /\ nextLSN' = nextLSN + n
      /\ UNCHANGED <<buf, files, phase, accepted, runLSN>>
  BY DEF Reserve, Leaves
<1>3. /\ Len(chan') = Len(chan) - n /\ DOMAIN chan' = 1..(Len(chan) - n)
      /\ \A i \in 1..(Len(chan) - n) : chan'[i] = chan[n + i]
  <2>1. /\ chan' \in Seq(Records)
        /\ Len(chan') = IF n + 1 <= Len(chan) THEN Len(chan) - (n + 1) + 1 ELSE 0
        /\ \A i \in 1..(Len(chan) - (n + 1) + 1) : chan'[i] = chan[(n + 1) + i - 1]
    <3>1. \A i \in (n + 1)..Len(chan) : chan[i] \in Records
      BY <1>1, ElementOfSeq
    <3>2. n + 1 \in Int /\ Len(chan) \in Int
      BY <1>1
    <3>3. /\ SubSeq(chan, n + 1, Len(chan)) \in Seq(Records)
          /\ Len(SubSeq(chan, n + 1, Len(chan)))
               = IF n + 1 <= Len(chan) THEN Len(chan) - (n + 1) + 1 ELSE 0
          /\ \A i \in 1..(Len(chan) - (n + 1) + 1) :
               SubSeq(chan, n + 1, Len(chan))[i] = chan[(n + 1) + i - 1]
      BY ONLY <3>1, <3>2, SubSeqProperties
    <3> QED
      BY ONLY <1>2, <3>3
  <2>2. Len(chan') = Len(chan) - n
    BY <1>1, <2>1
  <2>3. ASSUME NEW i \in 1..(Len(chan) - n) PROVE chan'[i] = chan[n + i]
    <3>1. i \in 1..(Len(chan) - (n + 1) + 1) /\ (n + 1) + i - 1 = n + i
      BY <1>1
    <3> QED
      BY <2>1, <3>1
  <2> QED
    BY <2>1, <2>2, <2>3, LenProperties
<1>4. ASSUME NEW i \in DOMAIN chan' PROVE chan'[i] = accepted'[nextLSN' - runLSN' + i]
  <2>1. n + i \in DOMAIN chan /\ nextLSN - runLSN + (n + i) = (nextLSN + n) - runLSN + i
    BY <1>1, <1>3
  <2> QED
    BY <1>1, <1>2, <1>3, <2>1
<1>5. ASSUME NEW fr \in Whole(batch') PROVE Sent(fr)'
  <2>1. PICK i \in 1..n : fr = [lsn |-> nextLSN + i - 1, rec |-> chan[i]]
    <3>1. PICK i \in DOMAIN batch' : fr = batch'[i]
      BY DEF Whole
    <3>2. i \in 1..n /\ batch'[i] = [lsn |-> nextLSN + i - 1, rec |-> chan[i]]
      BY <1>2, <3>1
    <3> QED
      BY <3>1, <3>2
  <2>2. /\ fr.lsn = nextLSN + i - 1 /\ fr.rec = chan[i] /\ i \in DOMAIN chan
        /\ chan[i] = accepted[nextLSN - runLSN + i]
    <3>1. i \in DOMAIN chan
      BY <1>1
    <3>2. fr.lsn = nextLSN + i - 1 /\ fr.rec = chan[i]
      BY <2>1
    <3> QED
      BY <1>1, <3>1, <3>2
  <2>3. fr.lsn - runLSN + 1 = nextLSN - runLSN + i /\ nextLSN - runLSN + i \in DOMAIN accepted
    BY <1>1, <2>2
  <2> QED
    BY <1>2, <2>2, <2>3 DEF Sent, RecordOf
<1>6. ASSUME NEW fr \in OnDisk(files) \cup Whole(buf) PROVE Sent(fr)'
  BY <1>2 DEF Matched, Sent, RecordOf
<1>7. nextLSN' + Len(chan') = runLSN' + Len(accepted') /\ runLSN' <= nextLSN'
  <2>1. (nextLSN + n) + (Len(chan) - n) = runLSN + Len(accepted) /\ runLSN <= nextLSN + n
    BY <1>1
  <2> QED
    BY <1>2, <1>3, <2>1
<1> QED
  BY <1>2, <1>4, <1>5, <1>6, <1>7 DEF Matched

\* Steps after which no frame is where none was, in a process that is down or starts.
LEMMA MatchedCleanup ==
    ASSUME IInv, Matched, Cleanup \/ PowerLoss
    PROVE  Matched'
<1>1. UNCHANGED <<accepted, runLSN>> /\ (running' => running /\ nextLSN' = nextLSN /\ chan' = chan)
  BY DEF Cleanup, PowerLoss, Stopped, running
<1>2. Whole(buf') \cup Whole(batch') \subseteq Whole(buf) \cup Whole(batch)
  BY NothingWhole DEF Cleanup, PowerLoss, Stopped
<1>3. OnDisk(files') \subseteq OnDisk(files)
  <2>1. Within(files', files)
    BY CleanupIs, PowerLossIs
  <2> QED
    BY <2>1 DEF Within, OnDisk, Whole
<1>4. \A fr : Sent(fr)' <=> Sent(fr)
  BY <1>1 DEF Sent, RecordOf
<1>5. \A fr \in OnDisk(files') \cup Whole(buf') \cup Whole(batch') : Sent(fr)'
  BY <1>2, <1>3, <1>4 DEF Matched
<1>6. running' => /\ runLSN' <= nextLSN'
                  /\ nextLSN' + Len(chan') = runLSN' + Len(accepted')
                  /\ \A i \in DOMAIN chan' : chan'[i] = accepted'[nextLSN' - runLSN' + i]
  BY <1>1 DEF Matched
<1> QED
  BY <1>5, <1>6 DEF Matched

\* A start: every frame is of an earlier run.
LEMMA MatchedStart ==
    ASSUME IInv, ~backdated', NEW t \in 1..MaxTime, Start(t)
    PROVE  Matched'
<1>1. /\ runLSN' = nextLSN' /\ OnDisk(files') = OnDisk(files) /\ nextLSN' \in Nat
      /\ \A l \in LSNsOnDisk : l < nextLSN'
  BY StartIs
<1>2. /\ Len(chan') = 0 /\ Len(accepted') = 0 /\ DOMAIN chan' = {}
      /\ Whole(buf') = {} /\ Whole(batch') = {}
  <2>1. chan' = <<>> /\ accepted' = <<>> /\ buf' = <<>> /\ batch' = <<>>
    BY DEF Start
  <2> QED
    BY <2>1, EmptySeq, NothingWhole
<1>3. ASSUME NEW fr \in OnDisk(files') PROVE Sent(fr)'
  <2>1. fr.lsn \in Nat /\ fr.lsn < nextLSN'
    BY <1>1, DiskLSNs DEF LSNsOnDisk
  <2>2. ~(fr.lsn >= runLSN')
    BY <1>1, <2>1
  <2> QED
    BY <2>2 DEF Sent
<1>4. runLSN' <= nextLSN' /\ nextLSN' + Len(chan') = runLSN' + Len(accepted')
  BY <1>1, <1>2
<1> QED
  BY <1>2, <1>3, <1>4 DEF Matched

(***************************************************************************)
(* All steps                                                               *)
(***************************************************************************)
\* How a compaction moves on, and the watermarks of the two snapshots with it.
CompMoves ==
    \/ comp' = comp /\ UNCHANGED <<snapLSN, graphLSN>>
    \/ comp'.stage \in {"idle", "rotated"} /\ UNCHANGED <<snapLSN, graphLSN>>
    \/ /\ comp.stage = "snapshot" /\ comp'.stage = "idle"
       /\ snapLSN' = comp.wm /\ graphLSN' = graphLSN
    \/ /\ comp.stage = "graph" /\ comp'.stage = "idle"
       /\ snapLSN' = snapLSN /\ graphLSN' = comp.wm
    \/ /\ comp.stage = "rotated" /\ comp'.stage = "snapshot" /\ comp'.wm = nextLSN - 1
       /\ comp'.keep = comp.keep /\ UNCHANGED <<snapLSN, graphLSN>>
    \/ /\ comp.stage = "snapshot" /\ comp'.stage = "vectors" /\ comp'.keep = comp.keep
       /\ snapLSN' = comp.wm /\ graphLSN' = graphLSN
    \/ /\ comp.stage = "vectors" /\ comp'.stage = "graph" /\ comp'.wm = nextLSN - 1
       /\ comp'.keep = comp.keep /\ UNCHANGED <<snapLSN, graphLSN>>
    \/ /\ comp.stage = "graph" /\ comp'.stage = "cleanup" /\ comp'.keep = comp.keep
       /\ snapLSN' = snapLSN /\ graphLSN' = comp.wm

\* Each step of the compaction, and each step beside it.
LEMMA CompactionMoves ==
    ASSUME IInv,
           \/ \E k \in 0..MaxLSN : WriteBatch(k)
           \/ WriteBatchFail \/ Sync \/ SyncFail
           \/ \E t \in 1..MaxTime : Rotate(t) \/ RotateDirFail(t)
           \/ RotateFail \/ LastLSN \/ SnapshotDone \/ SetSnapshotWatermark \/ VectorsSaved
           \/ SnapshotFail \/ BeginClose \/ Close \/ CloseFail \/ Kill
    PROVE  CompMoves
<1>1. comp \in [stage : Stages, keep : Nat, wm : Nat]
  BY DEF IInv, TypeOK
<1>2. \A s, w : /\ [comp EXCEPT !.stage = s].stage = s /\ [comp EXCEPT !.stage = s].keep = comp.keep
                /\ [comp EXCEPT !.stage = s, !.wm = w].stage = s
                /\ [comp EXCEPT !.stage = s, !.wm = w].wm = w
                /\ [comp EXCEPT !.stage = s, !.wm = w].keep = comp.keep
  BY <1>1
<1>3. Idle.stage = "idle"
  BY DEF Idle
<1>4. CASE \/ \E k \in 0..MaxLSN : WriteBatch(k)
           \/ WriteBatchFail \/ Sync \/ SyncFail \/ RotateFail \/ BeginClose \/ Close \/ CloseFail
  BY <1>4 DEF WriteBatch, WriteBatchFail, Sync, SyncFail, RotateFail, BeginClose, Close, CloseFail,
              CompMoves
<1>5. CASE \E t \in 1..MaxTime : Rotate(t) \/ RotateDirFail(t)
  BY <1>5 DEF Rotate, RotateDirFail, SwitchTo, CompMoves
<1>6. CASE LastLSN
  BY <1>2, <1>6 DEF LastLSN, CompMoves
<1>7. CASE SnapshotDone
  BY <1>2, <1>7 DEF SnapshotDone, CompMoves
<1>8. CASE SetSnapshotWatermark
  BY <1>2, <1>8 DEF SetSnapshotWatermark, CompMoves
<1>9. CASE VectorsSaved
  BY <1>2, <1>9 DEF VectorsSaved, CompMoves
<1>10. CASE SnapshotFail
  BY <1>3, <1>10 DEF SnapshotFail, CompMoves
<1>11. CASE Kill
  BY <1>3, <1>11 DEF Kill, Stopped, CompMoves
<1> QED
  BY <1>4, <1>5, <1>6, <1>7, <1>8, <1>9, <1>10, <1>11

\* The steps, as the lemmas below tell them apart.
LEMMA StepKinds ==
    ASSUME IInv, [Next]_walVars
    PROVE  \/ UNCHANGED walVars
           \/ \E r \in Records : Write(r)
           \/ \E n \in 1..BatchSize : Reserve(n)
           \/ Cleanup
           \/ PowerLoss
           \/ \E t \in 1..MaxTime : Start(t)
           \/ (\E e : WriterStep(e)) /\ CompMoves
<1>1. ASSUME NEW k \in 0..MaxLSN, WriteBatch(k) PROVE (\E e : WriterStep(e)) /\ CompMoves
  BY <1>1, WriteBatchIs, CompactionMoves
<1>2. CASE WriteBatchFail
  BY <1>2, WriteBatchFailIs, CompactionMoves
<1>3. CASE Sync
  BY <1>3, SyncIs, CompactionMoves
<1>4. CASE SyncFail \/ RotateFail
  BY <1>4, SyncFailIs, CompactionMoves
<1>5. ASSUME NEW t \in 1..MaxTime, Rotate(t) \/ RotateDirFail(t)
      PROVE  (\E e : WriterStep(e)) /\ CompMoves
  BY <1>5, SwitchIs, CompactionMoves
<1>6. CASE \/ LastLSN \/ SnapshotDone \/ SetSnapshotWatermark \/ VectorsSaved
           \/ SnapshotFail \/ BeginClose
  BY <1>6, CompactionIs, CompactionMoves
<1>7. CASE Close
  BY <1>7, CloseIs, CompactionMoves
<1>8. CASE CloseFail \/ Kill
  BY <1>8, DownIs, CompactionMoves
<1> QED
  BY <1>1, <1>2, <1>3, <1>4, <1>5, <1>6, <1>7, <1>8 DEF Next

\* All steps keep Matched.
LEMMA NextMatched ==
    ASSUME IInv, ~backdated', Matched, [Next]_walVars
    PROVE  Matched'
<1>1. CASE UNCHANGED walVars
  BY <1>1 DEF walVars, Matched, Sent, RecordOf, OnDisk, running
<1> QED
  BY <1>1, StepKinds, MatchedWrite, MatchedReserve, MatchedCleanup, MatchedStart, MatchedStep

(***************************************************************************)
(* What compaction deletes                                                 *)
(***************************************************************************)
\* The old files are not written to while the compaction goes on.
LEMMA OldStaysBelow ==
    ASSUME IInv, NEW e, WriterStep(e), comp.stage # "idle",
           NEW b, OldBelow(files, comp.keep, b)
    PROVE  OldBelow(files', comp.keep, b)
<1>1. comp.keep <= cur /\ comp.keep \in Nat /\ cur \in Nat /\ DOMAIN files \subseteq Nat
  BY DEF WriterStep, IInv, TypeOK, PipelineOK
<1>2. ASSUME NEW f \in DOMAIN files', f < comp.keep, NEW fr \in Whole(files'[f].frames)
      PROVE  fr.lsn <= b
  <2>1. f \in DOMAIN files
    BY <1>2, NothingWhole DEF WriterStep, Appended
  <2>2. f # cur
    BY <1>1, <1>2, <2>1
  <2>3. files'[f].frames = files[f].frames
    BY <2>1, <2>2 DEF WriterStep, Appended
  <2> QED
    BY <1>2, <2>1, <2>3 DEF OldBelow
<1> QED
  BY <1>2 DEF OldBelow

\* A step of a compaction, or beside it; the watermarks on disk never go back.
LEMMA CoveredStep ==
    ASSUME IInv, Covered, NEW e, WriterStep(e), CompMoves
    PROVE  Covered' /\ snapLSN <= snapLSN'
<1>1. /\ comp.wm \in Nat /\ snapLSN \in Nat /\ nextLSN \in Nat \ {0} /\ snapLSN < nextLSN
      /\ graphLSN \in Nat /\ graphLSN < nextLSN
      /\ dropped \subseteq Nat /\ dropped' = dropped
  BY DEF WriterStep, IInv, TypeOK, PipelineOK
<1>2. snapLSN <= snapLSN' /\ graphLSN <= graphLSN' /\ snapLSN' \in Nat /\ graphLSN' \in Nat
  BY <1>1 DEF CompMoves, Covered
<1>3. \A l \in dropped' : l <= snapLSN' /\ l <= graphLSN'
  BY <1>1, <1>2 DEF Covered
<1>4. CASE comp' = comp /\ UNCHANGED <<snapLSN, graphLSN>>
  BY <1>2, <1>3, <1>4, OldStaysBelow DEF Covered
<1>5. CASE comp'.stage \in {"idle", "rotated"}
  BY <1>3, <1>2, <1>5 DEF Covered
<1>6. OldBelow(files, comp.keep, nextLSN - 1)
  <2>1. ASSUME NEW l \in LSNsOnDisk PROVE l <= nextLSN - 1
    <3>1. l \in Nat /\ l < Pending /\ Pending \in Int /\ Pending + Len(buf) = nextLSN - Len(batch)
          /\ Len(buf) \in Nat /\ Len(batch) \in Nat
      BY DiskLSNs, Typed DEF WriterStep
    <3> QED
      BY <1>1, <3>1
  <2> QED
    BY <2>1 DEF OldBelow, LSNsOnDisk, OnDisk
<1>7. CASE /\ comp.stage = "rotated" /\ comp'.stage = "snapshot" /\ comp'.wm = nextLSN - 1
           /\ comp'.keep = comp.keep /\ UNCHANGED <<snapLSN, graphLSN>>
  <2>1. OldBelow(files', comp.keep, nextLSN - 1)
    BY <1>6, <1>7, OldStaysBelow
  <2>2. snapLSN' <= comp'.wm
    BY <1>1, <1>7
  <2> QED
    BY <1>2, <1>3, <1>7, <2>1, <2>2 DEF Covered
<1>8. CASE /\ comp.stage = "snapshot" /\ comp'.stage = "vectors" /\ comp'.keep = comp.keep
           /\ snapLSN' = comp.wm /\ graphLSN' = graphLSN
  <2>1. OldBelow(files', comp.keep, comp.wm)
    BY <1>8, OldStaysBelow DEF Covered
  <2> QED
    BY <1>1, <1>2, <1>3, <1>8, <2>1 DEF Covered
<1>9. CASE /\ comp.stage = "vectors" /\ comp'.stage = "graph" /\ comp'.wm = nextLSN - 1
           /\ comp'.keep = comp.keep /\ UNCHANGED <<snapLSN, graphLSN>>
  <2>1. OldBelow(files', comp.keep, snapLSN) /\ OldBelow(files', comp.keep, nextLSN - 1)
    BY <1>6, <1>9, OldStaysBelow DEF Covered
  <2>2. graphLSN' <= comp'.wm
    BY <1>1, <1>9
  <2> QED
    BY <1>2, <1>3, <1>9, <2>1, <2>2 DEF Covered
<1>10. CASE /\ comp.stage = "graph" /\ comp'.stage = "cleanup" /\ comp'.keep = comp.keep
            /\ snapLSN' = snapLSN /\ graphLSN' = comp.wm
  <2>1. OldBelow(files', comp.keep, snapLSN) /\ OldBelow(files', comp.keep, comp.wm)
    BY <1>10, OldStaysBelow DEF Covered
  <2> QED
    BY <1>2, <1>3, <1>10, <2>1 DEF Covered
<1> QED
  BY <1>2, <1>4, <1>5, <1>7, <1>8, <1>9, <1>10 DEF CompMoves

\* CleanupOldWALs deletes only what both snapshots cover.
LEMMA CoveredCleanup ==
    ASSUME IInv, Covered, Cleanup
    PROVE  Covered' /\ snapLSN' = snapLSN
<1>1. /\ comp.stage = "cleanup" /\ UNCHANGED <<snapLSN, graphLSN>> /\ Idle.stage = "idle"
      /\ OldBelow(files, comp.keep, snapLSN) /\ OldBelow(files, comp.keep, graphLSN)
      /\ \A l \in dropped : l <= snapLSN /\ l <= graphLSN
  BY CleanupIs DEF Covered, Idle
<1>2. CASE comp' = Idle /\ UNCHANGED <<files, dropped>>
  BY <1>1, <1>2 DEF Covered
<1>3. CASE \E f : Removes(f)
  <2>1. PICK f : Removes(f)
    BY <1>3
  <2>2. \A l \in LSNsIn(files[f].frames) : l <= snapLSN /\ l <= graphLSN
    BY <1>1, <2>1, WholeLSNs DEF OldBelow, Removes
  <2>3. \A l \in dropped' : l <= snapLSN' /\ l <= graphLSN'
    BY <1>1, <2>1, <2>2 DEF Removes
  <2>4. OldBelow(files', comp.keep, snapLSN) /\ OldBelow(files', comp.keep, graphLSN)
    BY <1>1, <2>1 DEF OldBelow, Removes
  <2> QED
    BY <1>1, <2>1, <2>3, <2>4 DEF Covered, Removes
<1> QED
  BY <1>1, <1>2, <1>3, CleanupIs

\* All steps keep Covered, and the watermark of snapshot.wal never goes back.
LEMMA NextCovered ==
    ASSUME IInv, ~backdated', Covered, [Next]_walVars
    PROVE  Covered' /\ snapLSN <= snapLSN'
<1>0. snapLSN \in Nat /\ Idle.stage = "idle"
  BY DEF IInv, TypeOK, Idle
<1>1. CASE UNCHANGED walVars \/ (\E r \in Records : Write(r)) \/ (\E n \in 1..BatchSize : Reserve(n))
  <2>1. UNCHANGED <<files, comp, snapLSN, graphLSN, dropped>>
    BY <1>1 DEF walVars, Write, Reserve
  <2> QED
    BY <1>0, <2>1 DEF Covered
<1>2. CASE PowerLoss \/ \E t \in 1..MaxTime : Start(t)
  <2>1. comp' = Idle /\ UNCHANGED <<snapLSN, graphLSN, dropped>>
    BY <1>2, PowerLossIs, StartIs DEF Stopped
  <2> QED
    BY <1>0, <2>1 DEF Covered
<1>3. CASE Cleanup
  BY <1>0, <1>3, CoveredCleanup
<1> QED
  BY <1>1, <1>2, <1>3, StepKinds, CoveredStep

(***************************************************************************)
(* Ordered shutdown                                                        *)
(***************************************************************************)
\* Numbering a batch changes neither the files nor the first pending LSN.
LEMMA ReserveIs ==
    ASSUME IInv, NEW n \in 1..BatchSize, Reserve(n)
    PROVE  /\ running /\ running' /\ phase' = phase /\ Pending' = Pending
           /\ UNCHANGED <<files, cur, stuck, faulted, accepted, runLSN, synced, dropped, skipped,
                          snapLSN>>
<1>1. /\ running /\ running' /\ batch = <<>> /\ n \in Nat /\ nextLSN' = nextLSN + n
      /\ batch' = [i \in 1..n |-> [lsn |-> nextLSN + i - 1, rec |-> chan[i]]]
      /\ UNCHANGED <<buf, phase, files, cur, stuck, faulted, accepted, runLSN, synced, dropped,
                     skipped, snapLSN>>
  BY BatchAssumption DEF Reserve, running
<1>2. Len(batch') = n /\ Len(batch) = 0
  BY <1>1, EmptySeq
<1>3. Pending' = Pending
  BY <1>1, <1>2, Typed DEF Pending
<1> QED
  BY <1>1, <1>3

\* What was fsynced or appended stays so, and what leaves the writer is appended.
LEMMA AckedStep ==
    ASSUME IInv, Matched, Acked, NEW e, WriterStep(e)
    PROVE  Acked'
<1>1. /\ running /\ runLSN' = runLSN /\ accepted' = accepted /\ synced \subseteq synced'
      /\ (~faulted' => ~faulted) /\ runLSN \in Nat \ {0} /\ Pending \in Int
      /\ nextLSN + Len(chan) = runLSN + Len(accepted)
  BY Typed DEF WriterStep, Matched, IInv, TypeOK
<1>2. /\ LSNsIn(files'[cur].frames) = LSNsIn(files[cur].frames) \cup LSNsIn(e)
      /\ e \in Seq(Frame) => LSNsIn(e) = Pending..(Pending + Len(e) - 1)
  BY DiskAfter
<1>3. ASSUME ~faulted', e \in Seq(Frame), NEW l \in runLSN..(Pending + Len(e) - 1)
      PROVE  l \in synced' \cup LSNsIn(files'[cur].frames)
  <2>1. CASE l < Pending
    <3>1. l \in runLSN..(Pending - 1)
      BY <1>1, <2>1
    <3>2. l \in synced \cup LSNsIn(files[cur].frames)
      BY <1>1, <1>3, <3>1 DEF Acked
    <3> QED
      BY <1>1, <1>2, <3>2
  <2>2. CASE ~(l < Pending)
    <3>1. Len(e) \in Nat
      BY <1>3, LenProperties
    <3>2. l \in Pending..(Pending + Len(e) - 1)
      BY <1>1, <2>2, <3>1
    <3> QED
      BY <1>2, <1>3, <3>2
  <2> QED
    BY <2>1, <2>2
<1>4. ASSUME running', ~faulted'
      PROVE  ~stuck' /\ \A l \in runLSN'..(Pending' - 1) : l \in synced' \cup LSNsIn(files'[cur'].frames)
  <2>1. ~stuck' /\ e \in Seq(Frame) /\ Pending' = Pending + Len(e)
    BY <1>1, <1>4 DEF Acked, WriterStep
  <2>2. cur' = cur \/ LSNsIn(files'[cur].frames) \subseteq synced'
    BY <1>4 DEF WriterStep
  <2> QED
    BY <1>1, <1>3, <1>4, <2>1, <2>2
<1>5. ASSUME phase' = "stopped", ~faulted'
      PROVE  runLSN'..(runLSN' + Len(accepted') - 1) \subseteq synced'
  <2>1. /\ chan = <<>> /\ e \in Seq(Frame) /\ Pending + Len(e) = nextLSN
        /\ LSNsIn(files'[cur].frames) \subseteq synced'
    BY <1>5 DEF WriterStep
  <2>2. Len(chan) = 0 /\ nextLSN \in Nat
    BY <2>1, EmptySeq, Typed
  <2>3. runLSN + Len(accepted) = Pending + Len(e)
    BY <1>1, <2>1, <2>2
  <2> QED
    BY <1>1, <1>3, <1>5, <2>1, <2>3
<1> QED
  BY <1>4, <1>5 DEF Acked, GracefulLosesNothing

\* All steps keep Acked.
LEMMA NextAcked ==
    ASSUME IInv, ~backdated', Matched, Acked, [Next]_walVars
    PROVE  Acked'
<1>1. CASE UNCHANGED walVars
  BY <1>1 DEF walVars, Acked, GracefulLosesNothing, Pending, running
<1>2. CASE \E r \in Records : Write(r)
  BY <1>2 DEF Write, Acked, GracefulLosesNothing, Pending, running
<1>3. CASE \E n \in 1..BatchSize : Reserve(n)
  <2>1. /\ running /\ running' /\ phase' = phase /\ Pending' = Pending
        /\ UNCHANGED <<files, cur, stuck, faulted, accepted, runLSN, synced>>
    BY <1>3, ReserveIs
  <2> QED
    BY <2>1 DEF Acked, GracefulLosesNothing, running
<1>4. CASE Cleanup
  <2>1. /\ running /\ running' /\ phase' = phase /\ Pending' = Pending /\ files'[cur] = files[cur]
        /\ UNCHANGED <<cur, stuck, faulted, accepted, runLSN, synced>>
    BY <1>4, CleanupIs
  <2> QED
    BY <2>1 DEF Acked, GracefulLosesNothing, running
<1>5. CASE PowerLoss
  BY <1>5, PowerLossIs DEF Acked, GracefulLosesNothing, Stopped
<1>6. CASE \E t \in 1..MaxTime : Start(t)
  <2>1. phase' = "up" /\ ~stuck' /\ runLSN' = nextLSN' /\ Pending' = nextLSN' /\ nextLSN' \in Nat
    BY <1>6, StartIs
  <2>2. runLSN'..(Pending' - 1) = {}
    <3>1. \A n \in Nat : n..(n - 1) = {}
      OBVIOUS
    <3> QED
      BY <2>1, <3>1
  <2> QED
    BY <2>1, <2>2 DEF Acked, GracefulLosesNothing
<1> QED
  BY <1>1, <1>2, <1>3, <1>4, <1>5, <1>6, StepKinds, AckedStep

(***************************************************************************)
(* What an fsync has covered                                               *)
(***************************************************************************)
\* The frame i of file f is in the part that was fsynced, and has LSN l.
Safe(fs, f, i, l) ==
    /\ f \in DOMAIN fs /\ i \in DOMAIN fs[f].frames
    /\ i <= fs[f].synced /\ ~IsTorn(fs[f].frames[i]) /\ fs[f].frames[i].lsn = l

\* A step of the writer keeps what is safe, and a fsync adds to it.
LEMMA DurableStep ==
    ASSUME IInv, Durable, NEW e, WriterStep(e)
    PROVE  Durable'
<1>1. /\ dropped' = dropped /\ cur \in DOMAIN files /\ DOMAIN files \subseteq DOMAIN files'
      /\ \A f \in DOMAIN files \ {cur} :
            files'[f].frames = files[f].frames /\ files'[f].synced = files[f].synced
      /\ files'[cur].frames = files[cur].frames \o e
      /\ files'[cur].synced \in {files[cur].synced, Len(files'[cur].frames)}
  BY DiskAfter DEF WriterStep, Appended
<1>2. files[cur].frames \in Frames /\ e \in Frames
  BY Typed DEF WriterStep, PrefixOrTorn
<1>3. /\ Len(files'[cur].frames) \in Nat /\ DOMAIN files'[cur].frames = 1..Len(files'[cur].frames)
      /\ \A i \in DOMAIN files[cur].frames :
            i \in DOMAIN files'[cur].frames /\ files'[cur].frames[i] = files[cur].frames[i]
  <2> DEFINE old == files[cur].frames
  <2>1. /\ old \o e \in Frames /\ Len(old) \in Nat /\ Len(e) \in Nat
        /\ Len(old \o e) = Len(old) + Len(e) /\ DOMAIN old = 1..Len(old)
        /\ \A i \in 1..(Len(old) + Len(e)) : (old \o e)[i] = IF i <= Len(old) THEN old[i] ELSE e[i - Len(old)]
    BY <1>2, ConcatProperties, LenProperties DEF Frames
  <2>2. DOMAIN (old \o e) = 1..Len(old \o e)
    BY <2>1, LenProperties DEF Frames
  <2>3. \A i \in 1..Len(old) : i \in 1..(Len(old) + Len(e)) /\ i <= Len(old)
    BY <2>1
  <2> HIDE DEF old
  <2>4. \A i \in DOMAIN old : i \in DOMAIN (old \o e) /\ (old \o e)[i] = old[i]
    BY <2>1, <2>2, <2>3
  <2> QED
    BY <1>1, <2>1, <2>2, <2>4 DEF old
<1>4. ASSUME NEW f, NEW i, NEW l, Safe(files, f, i, l) PROVE Safe(files', f, i, l)
  <2>1. CASE f # cur
    BY <1>1, <1>4, <2>1 DEF Safe
  <2>2. CASE f = cur
    <3>1. i \in DOMAIN files'[cur].frames /\ files'[cur].frames[i] = files[cur].frames[i]
      BY <1>3, <1>4, <2>2 DEF Safe
    <3>2. i <= files'[cur].synced
      BY <1>1, <1>3, <1>4, <2>2, <3>1 DEF Safe
    <3> QED
      BY <1>1, <1>4, <2>2, <3>1, <3>2 DEF Safe
  <2> QED
    BY <2>1, <2>2
<1>5. ASSUME NEW l \in LSNsIn(files'[cur].frames), AllSynced PROVE \E i : Safe(files', cur, i, l)
  <2>1. PICK i \in DOMAIN files'[cur].frames : ~IsTorn(files'[cur].frames[i]) /\ l = files'[cur].frames[i].lsn
    BY DEF LSNsIn
  <2>2. i <= files'[cur].synced
    BY <1>3, <1>5, <2>1 DEF AllSynced
  <2> QED
    BY <1>1, <2>1, <2>2 DEF Safe
<1>6. \A l \in synced \ dropped : \E f, i : Safe(files, f, i, l)
  BY DEF Durable, Safe
<1>7. synced' = synced \/ (synced' = synced \cup LSNsIn(files'[cur].frames) /\ AllSynced)
  BY DEF WriterStep
<1>8. \A l \in synced' \ dropped' : \E f, i : Safe(files', f, i, l)
  BY <1>1, <1>4, <1>5, <1>6, <1>7
<1> QED
  BY <1>8 DEF Durable, Safe

\* All steps keep what is safe in its place, until compaction deletes it.
LEMMA NextDurable ==
    ASSUME IInv, IInv', ~backdated', ~DirEntryNeedsSync, Durable, [Next]_walVars
    PROVE  Durable'
<1>1. \A l \in synced \ dropped : \E f, i : Safe(files, f, i, l)
  BY DEF Durable, Safe
<1>2. CASE UNCHANGED walVars \/ (\E r \in Records : Write(r)) \/ (\E n \in 1..BatchSize : Reserve(n))
  <2>1. UNCHANGED <<files, synced, dropped>>
    BY <1>2 DEF walVars, Write, Reserve
  <2> QED
    BY <2>1 DEF Durable
<1>3. CASE \E t \in 1..MaxTime : Start(t)
  <2>1. /\ UNCHANGED <<synced, dropped>> /\ DOMAIN files \subseteq DOMAIN files'
        /\ \A f \in DOMAIN files : files'[f] = files[f]
    BY <1>3, StartIs
  <2> QED
    BY <2>1 DEF Durable
<1>4. CASE Cleanup
  <2>1. CASE UNCHANGED <<files, dropped>>
    BY <1>4, <2>1, CleanupIs DEF Durable
  <2>2. CASE \E g : Removes(g)
    <3>1. PICK g : Removes(g)
      BY <2>2
    <3>2. ASSUME NEW l \in synced \ dropped' PROVE \E f, i : Safe(files', f, i, l)
      <4>1. PICK f, i : Safe(files, f, i, l)
        BY <1>1, <3>1 DEF Removes
      <4>2. f # g
        BY <3>1, <4>1 DEF Removes, Safe, LSNsIn
      <4> QED
        BY <3>1, <4>1, <4>2 DEF Removes, Safe
    <3>3. synced' = synced
      BY <1>4, CleanupIs
    <3> QED
      BY <3>2, <3>3 DEF Durable, Safe
  <2> QED
    BY <1>4, <2>1, <2>2, CleanupIs
<1>5. CASE PowerLoss
  <2>1. /\ DOMAIN files' = DOMAIN files /\ \A f \in DOMAIN files' : CutOf(files[f], files'[f])
        /\ UNCHANGED <<synced, dropped>>
    BY <1>5, PowerLossIs DEF Stopped
  <2>2. \A f \in DOMAIN files' : /\ DOMAIN files'[f].frames = 1..Len(files'[f].frames)
                                 /\ Len(files'[f].frames) \in Nat
    BY LenProperties DEF IInv, TypeOK, WalFile
  <2>3. ASSUME NEW l, NEW f, NEW i, Safe(files, f, i, l) PROVE Safe(files', f, i, l)
    <3>1. Kept(files[f], files'[f], i) /\ f \in DOMAIN files'
      BY <2>1, <2>3 DEF Safe, CutOf
    <3>2. i <= files'[f].synced
      BY <2>1, <2>2, <3>1 DEF CutOf, Kept
    <3> QED
      BY <2>3, <3>1, <3>2 DEF Safe, Kept
  <2>4. \A l \in synced' \ dropped' : \E f, i : Safe(files', f, i, l)
    BY <1>1, <2>1, <2>3
  <2> QED
    BY <2>4 DEF Durable, Safe
<1> QED
  BY <1>2, <1>3, <1>4, <1>5, StepKinds, DurableStep

(***************************************************************************)
(* No hole                                                                 *)
(***************************************************************************)
\* While a power loss cannot follow on a kill or a disk fault, only the end of the
\* writer's file is not fsynced.
LEMMA NextSettled ==
    ASSUME IInv, ~backdated', TamePower, Settled, [Next]_walVars
    PROVE  Settled'
<1> SUFFICES ASSUME "power" \in Crashes
             PROVE  /\ ~stuck'
                    /\ \A f \in DOMAIN files' :
                          (running' /\ f = cur') \/ files'[f].synced = Len(files'[f].frames)
  BY DEF Settled
<1>1. /\ ~stuck /\ ~DiskFaults /\ "kill" \notin Crashes
      /\ \A f \in DOMAIN files : (running /\ f = cur) \/ files[f].synced = Len(files[f].frames)
  BY DEF Settled, TamePower
<1>2. CASE UNCHANGED walVars \/ (\E r \in Records : Write(r)) \/ (\E n \in 1..BatchSize : Reserve(n))
  <2>1. UNCHANGED <<files, stuck, cur, phase>>
    BY <1>2 DEF walVars, Write, Reserve
  <2> QED
    BY <1>1, <2>1 DEF running
<1>3. CASE Cleanup
  <2>1. /\ UNCHANGED <<stuck, cur>> /\ running /\ running'
        /\ UNCHANGED files \/ \E f : Removes(f)
    BY <1>3, CleanupIs
  <2>2. DOMAIN files' \subseteq DOMAIN files /\ \A f \in DOMAIN files' : files'[f] = files[f]
    BY <2>1 DEF Removes
  <2> QED
    BY <1>1, <2>1, <2>2
<1>4. CASE PowerLoss
  BY <1>1, <1>4, PowerLossIs DEF Stopped, CutOf
<1>5. CASE \E t \in 1..MaxTime : Start(t)
  <2>1. /\ ~running /\ ~stuck' /\ DOMAIN files' = DOMAIN files \cup {cur'}
        /\ files'[cur'].frames = <<>> /\ files'[cur'].synced = 0
        /\ \A f \in DOMAIN files : files'[f] = files[f]
    BY <1>5, StartIs
  <2>2. Len(<<>>) = 0
    BY EmptySeq
  <2> QED
    BY <1>1, <2>1, <2>2
<1>6. ASSUME NEW e, WriterStep(e)
      PROVE  /\ ~stuck'
             /\ \A f \in DOMAIN files' :
                   (running' /\ f = cur') \/ files'[f].synced = Len(files'[f].frames)
  <2>1. /\ ~stuck' /\ (AllSynced \/ (running' /\ cur' = cur))
        /\ \A f \in DOMAIN files' \ DOMAIN files : files'[f].frames = <<>> /\ files'[f].synced = 0
        /\ \A f \in DOMAIN files \ {cur} :
              files'[f].frames = files[f].frames /\ files'[f].synced = files[f].synced
    BY <1>1, <1>6 DEF WriterStep, Appended
  <2>2. Len(<<>>) = 0
    BY EmptySeq
  <2>3. ASSUME NEW f \in DOMAIN files'
        PROVE  (running' /\ f = cur') \/ files'[f].synced = Len(files'[f].frames)
    <3>1. CASE f \notin DOMAIN files
      BY <2>1, <2>2, <3>1
    <3>2. CASE f \in DOMAIN files /\ f # cur
      BY <1>1, <2>1, <3>2
    <3>3. CASE f = cur
      BY <2>1, <3>3 DEF AllSynced
    <3> QED
      BY <3>1, <3>2, <3>3
  <2> QED
    BY <2>1, <2>3
<1> QED
  BY <1>2, <1>3, <1>4, <1>5, <1>6, StepKinds

\* The writer continues where the disk ends.
LEMMA GaplessStep ==
    ASSUME IInv, Gapless, NEW e, WriterStep(e), snapLSN <= snapLSN', snapLSN' \in Int
    PROVE  Gapless'
<1>1. /\ running /\ skipped' = skipped /\ snapLSN \in Nat /\ Pending \in Int /\ snapLSN' \in Int
      /\ (stuck => Whole(e) = {})
      /\ running' /\ ~stuck' => ~stuck /\ e \in Seq(Frame) /\ Pending' = Pending + Len(e)
      /\ LSNsOnDisk \subseteq Nat
  <2>1. snapLSN \in Nat /\ Pending \in Int /\ LSNsOnDisk \subseteq Nat
    BY Typed, DiskLSNs DEF IInv, TypeOK
  <2> QED
    BY <2>1 DEF WriterStep
<1>2. /\ LSNsOnDisk' = LSNsOnDisk \cup LSNsIn(e)
      /\ \A l \in LSNsIn(e) : l \in Int /\ Pending <= l /\ Pending..l \subseteq LSNsIn(e)
      /\ e \in Seq(Frame) => LSNsIn(e) = Pending..(Pending + Len(e) - 1)
      /\ LSNsIn(e) # {} => ~stuck
  BY <1>1, DiskAfter, WholeLSNs
<1>3. /\ \A m \in LSNsOnDisk : \A l \in (snapLSN + 1)..m : l \in LSNsOnDisk \cup skipped
      /\ ~stuck => \A l \in (snapLSN + 1)..(Pending - 1) : l \in LSNsOnDisk \cup skipped
  BY <1>1 DEF Gapless
<1>4. ASSUME NEW m \in LSNsOnDisk', NEW l \in (snapLSN' + 1)..m
      PROVE  l \in LSNsOnDisk' \cup skipped'
  <2>1. m \in Int /\ l \in Int /\ l >= snapLSN + 1 /\ l <= m
    <3>1. m \in Int
      BY <1>1, <1>2
    <3>2. \A a, b, c \in Int : \A x \in (b + 1)..c : a <= b => x \in Int /\ x >= a + 1 /\ x <= c
      OBVIOUS
    <3>3. snapLSN \in Int
      BY <1>1
    <3> QED
      BY <3>1, <3>2, <3>3, Zenon
  <2>2. CASE m \in LSNsOnDisk
    <3>1. l \in (snapLSN + 1)..m
      BY <1>1, <2>1
    <3> QED
      BY <1>1, <1>2, <1>3, <2>2, <3>1
  <2>3. CASE m \in LSNsIn(e)
    <3>1. ~stuck /\ Pending..m \subseteq LSNsIn(e)
      BY <1>2, <2>3
    <3>2. l \in (snapLSN + 1)..(Pending - 1) \/ l \in Pending..m
      BY <1>1, <2>1
    <3> QED
      BY <1>1, <1>2, <1>3, <3>1, <3>2
  <2> QED
    BY <1>2, <2>2, <2>3
<1>5. ASSUME running', ~stuck', NEW l \in (snapLSN' + 1)..(Pending' - 1)
      PROVE  l \in LSNsOnDisk' \cup skipped'
  <2>1. ~stuck /\ e \in Seq(Frame) /\ Pending' = Pending + Len(e) /\ Len(e) \in Nat
    BY <1>1, <1>5, LenProperties
  <2>2. l \in (snapLSN + 1)..(Pending - 1) \/ l \in Pending..(Pending + Len(e) - 1)
    <3>1. \A v, w, p, q \in Int : \A n \in Nat : \A x \in (w + 1)..(q - 1) :
             v <= w /\ q = p + n => x \in (v + 1)..(p - 1) \/ x \in p..(p + n - 1)
      OBVIOUS
    <3>2. snapLSN \in Int /\ snapLSN' \in Int /\ Pending \in Int /\ Pending' \in Int
      BY <1>1, <2>1
    <3> QED
      BY <1>5, <2>1, <3>1, <3>2, Zenon
  <2> QED
    BY <1>1, <1>2, <1>3, <2>1, <2>2
<1> QED
  BY <1>4, <1>5 DEF Gapless

\* A power loss takes the last LSNs.
LEMMA GaplessPowerLoss ==
    ASSUME IInv, ~DirEntryNeedsSync, Settled, Gapless, PowerLoss
    PROVE  Gapless'
<1>1. /\ ~running' /\ UNCHANGED <<snapLSN, skipped>> /\ "power" \in Crashes
      /\ DOMAIN files' = DOMAIN files /\ \A f \in DOMAIN files' : CutOf(files[f], files'[f])
      /\ Within(files', files)
  BY PowerLossIs DEF Stopped
<1>2. /\ \A f \in DOMAIN files : (running /\ f = cur) \/ files[f].synced = Len(files[f].frames)
      /\ DOMAIN files \subseteq Nat /\ cur \in Nat
      /\ running => \A f \in DOMAIN files : f <= cur
      /\ \A f \in DOMAIN files : /\ DOMAIN files[f].frames = 1..Len(files[f].frames)
                                 /\ Len(files[f].frames) \in Nat
  BY <1>1, LenProperties DEF Settled, IInv, TypeOK, PipelineOK, WalFile
<1>3. \A m \in LSNsOnDisk' : \E f \in DOMAIN files' : \E i \in DOMAIN files'[f].frames :
         ~IsTorn(files'[f].frames[i]) /\ m = files'[f].frames[i].lsn
  BY DEF LSNsOnDisk, OnDisk, Whole
<1>4. ASSUME NEW g \in DOMAIN files, NEW j, Kept(files[g], files'[g], j), ~IsTorn(files[g].frames[j])
      PROVE  files[g].frames[j].lsn \in LSNsOnDisk'
  BY <1>1, <1>4 DEF LSNsOnDisk, OnDisk, Whole, Kept
<1>5. ASSUME NEW m \in LSNsOnDisk', NEW l \in (snapLSN + 1)..m
      PROVE  l \in LSNsOnDisk' \cup skipped
  <2>1. PICK f \in DOMAIN files' : \E i \in DOMAIN files'[f].frames :
            ~IsTorn(files'[f].frames[i]) /\ m = files'[f].frames[i].lsn
    BY <1>3
  <2>2. PICK i \in DOMAIN files'[f].frames : ~IsTorn(files'[f].frames[i]) /\ m = files'[f].frames[i].lsn
    BY <2>1
  <2>3. /\ f \in DOMAIN files /\ i \in DOMAIN files[f].frames
        /\ ~IsTorn(files[f].frames[i]) /\ m = files[f].frames[i].lsn
    BY <1>1, <2>1, <2>2 DEF Within
  <2>4. m \in LSNsOnDisk /\ m \in Nat
    BY <2>3, DiskLSNs DEF LSNsOnDisk, OnDisk, Whole
  <2>5. l \in LSNsOnDisk \cup skipped
    BY <2>4 DEF Gapless
  <2>6. CASE l \in LSNsOnDisk
    <3>1. PICK g \in DOMAIN files : \E j \in DOMAIN files[g].frames :
              ~IsTorn(files[g].frames[j]) /\ l = files[g].frames[j].lsn
      BY <2>6 DEF LSNsOnDisk, OnDisk, Whole
    <3>2. PICK j \in DOMAIN files[g].frames : ~IsTorn(files[g].frames[j]) /\ l = files[g].frames[j].lsn
      BY <3>1
    <3>3. CASE files[g].synced = Len(files[g].frames)
      <4>1. j <= files[g].synced
        BY <1>2, <3>2, <3>3
      <4>2. Kept(files[g], files'[g], j)
        BY <1>1, <4>1 DEF CutOf
      <4> QED
        BY <1>4, <3>2, <4>2
    <3>4. CASE running /\ g = cur /\ files[g].synced # Len(files[g].frames)
      <4>1. ~(m < l)
        <5>1. l <= m /\ l \in Int
          BY <2>4
        <5> QED
          BY <2>4, <5>1
      <4>2. f = cur
        <5>1. ~(f < cur)
          BY <2>3, <3>2, <3>4, <4>1 DEF IInv, OrderedIn
        <5> QED
          BY <1>2, <2>3, <3>4, <5>1
      <4>3. ~(i < j)
        BY <2>3, <3>2, <3>4, <4>1, <4>2 DEF IInv, OrderedIn
      <4>4. j \in 1..i
        BY <1>2, <2>3, <3>2, <3>4, <4>2, <4>3
      <4>5. Kept(files[g], files'[g], j)
        BY <1>1, <2>2, <3>4, <4>2, <4>4 DEF CutOf
      <4> QED
        BY <1>4, <3>2, <4>5
    <3> QED
      BY <1>2, <3>3, <3>4
  <2> QED
    BY <2>5, <2>6
<1> QED
  BY <1>1, <1>5 DEF Gapless

\* All steps keep Gapless.
LEMMA NextGapless ==
    ASSUME IInv, ~backdated', ~DirEntryNeedsSync, Covered, Settled, Gapless, [Next]_walVars
    PROVE  Gapless'
<1>1. CASE UNCHANGED walVars \/ \E r \in Records : Write(r)
  BY <1>1 DEF walVars, Write, Gapless, LSNsOnDisk, Pending, running
<1>2. CASE \E n \in 1..BatchSize : Reserve(n)
  <2>1. /\ running /\ Pending' = Pending /\ UNCHANGED <<files, stuck, skipped, snapLSN>>
    BY <1>2, ReserveIs
  <2> QED
    BY <2>1 DEF Gapless, LSNsOnDisk
<1>3. CASE Cleanup
  <2>1. /\ running /\ comp.stage = "cleanup" /\ Pending' = Pending /\ UNCHANGED <<stuck, skipped, snapLSN>>
        /\ UNCHANGED files \/ \E f : Removes(f)
        /\ snapLSN \in Nat
    BY <1>3, CleanupIs DEF IInv, TypeOK
  <2>2. LSNsOnDisk' \subseteq LSNsOnDisk
    BY <2>1 DEF Removes, LSNsOnDisk, OnDisk
  <2>3. ASSUME NEW l \in LSNsOnDisk, ~(l <= snapLSN) PROVE l \in LSNsOnDisk'
    <3>1. CASE UNCHANGED files
      BY <2>3, <3>1 DEF LSNsOnDisk
    <3>2. CASE \E f : Removes(f)
      <4>1. PICK f : Removes(f)
        BY <3>2
      <4>2. PICK g \in DOMAIN files : \E fr \in Whole(files[g].frames) : l = fr.lsn
        BY DEF LSNsOnDisk, OnDisk
      <4>3. g # f
        BY <2>1, <2>3, <4>1, <4>2 DEF Covered, OldBelow, Removes
      <4>4. g \in DOMAIN files' /\ files'[g] = files[g]
        BY <4>1, <4>2, <4>3 DEF Removes
      <4> QED
        BY <4>2, <4>4 DEF LSNsOnDisk, OnDisk
    <3> QED
      BY <2>1, <3>1, <3>2
  <2>4. \A n, l : l \in (snapLSN + 1)..n => ~(l <= snapLSN)
    BY <2>1
  <2> QED
    BY <2>1, <2>2, <2>3, <2>4 DEF Gapless
<1>4. CASE \E t \in 1..MaxTime : Start(t)
  <2>1. /\ LSNsOnDisk' = LSNsOnDisk /\ Pending' = nextLSN' /\ snapLSN' = snapLSN /\ skipped \subseteq skipped'
        /\ nextLSN' \in Nat \ {0} /\ LSNsOnDisk \subseteq Nat /\ snapLSN \in Nat
        /\ \A l \in 1..(nextLSN' - 1) : l \in skipped' \/ \E r \in LSNsOnDisk : ~(r < l)
    BY <1>4, StartIs, DiskLSNs DEF IInv, TypeOK
  <2>2. ASSUME NEW l \in (snapLSN + 1)..(nextLSN' - 1), l \notin skipped' PROVE l \in LSNsOnDisk
    <3>1. l \in 1..(nextLSN' - 1) /\ l \in Int /\ l >= snapLSN + 1
      <4>1. \A a \in Nat, b \in Int : \A x \in (a + 1)..b : x \in 1..b /\ x \in Int /\ x >= a + 1
        OBVIOUS
      <4>2. snapLSN \in Nat /\ nextLSN' - 1 \in Int
        BY <2>1
      <4> QED
        BY <4>1, <4>2, Zenon
    <3>2. PICK r \in LSNsOnDisk : ~(r < l)
      BY <2>1, <2>2, <3>1
    <3>3. l \in (snapLSN + 1)..r
      BY <2>1, <3>1, <3>2
    <3> QED
      BY <2>1, <2>2, <3>3 DEF Gapless
  <2> QED
    BY <2>1, <2>2 DEF Gapless
<1>5. CASE PowerLoss
  BY <1>5, GaplessPowerLoss
<1>6. snapLSN <= snapLSN' /\ snapLSN' \in Int
  <2>1. TypeOK'
    BY NextIInv DEF IInv
  <2> QED
    BY <2>1, NextCovered DEF TypeOK
<1> QED
  BY <1>1, <1>2, <1>3, <1>4, <1>5, <1>6, StepKinds, GaplessStep

(***************************************************************************)
(* The theorems                                                            *)
(***************************************************************************)
\* Nothing is on disk, in the writer or pending before the first start.
LEMMA InitFacts ==
    ASSUME Init
    PROVE  /\ Matched /\ Covered /\ Acked /\ Durable /\ Settled /\ Gapless
<1>1. /\ DOMAIN files = {} /\ phase = "down" /\ ~running /\ buf = <<>> /\ batch = <<>>
      /\ synced = {} /\ dropped = {} /\ ~stuck /\ comp.stage = "idle"
  BY DEF Init, running, Idle
<1>2. OnDisk(files) = {} /\ Whole(buf) = {} /\ Whole(batch) = {} /\ LSNsOnDisk = {}
  BY <1>1, NothingWhole DEF OnDisk, LSNsOnDisk
<1> QED
  BY <1>1, <1>2 DEF Matched, Covered, Acked, GracefulLosesNothing, Durable,
                    Settled, Gapless

\* A frame of this run carries the record that was sent in its place.
LEMMA MatchedImplies ==
    ASSUME IInv, Matched
    PROVE  FramesMatchSends
<1> SUFFICES ASSUME NEW f \in DOMAIN files, NEW i \in DOMAIN files[f].frames,
                    Readable(f, i), files[f].frames[i].lsn >= runLSN
             PROVE  /\ files[f].frames[i].lsn - runLSN + 1 \in DOMAIN accepted
                    /\ files[f].frames[i].rec = RecordOf(files[f].frames[i].lsn)
  BY DEF FramesMatchSends
<1>1. i \in 1..i
  BY LenProperties DEF IInv, TypeOK, WalFile
<1>2. ~IsTorn(files[f].frames[i])
  BY <1>1 DEF Readable
<1>3. files[f].frames[i] \in OnDisk(files)
  BY <1>2 DEF OnDisk, Whole
<1> QED
  BY <1>3 DEF Matched, Sent

\* What is on disk is what recovery reads.
LEMMA OnDiskImplies ==
    ASSUME IInv
    PROVE  /\ Gapless => NoHole
           /\ Durable => SyncedSurvive
<1>1. ReadableLSNs = LSNsOnDisk
  BY Typed, ReadableIsOnDisk DEF IInv
<1>2. Gapless => NoHole
  BY <1>1 DEF Gapless, NoHole
<1>3. Durable => SyncedSurvive
  BY <1>1 DEF Durable, SyncedSurvive, LSNsOnDisk, OnDisk, Whole
<1> QED
  BY <1>2, <1>3

\* Frames, sends and deletions, with the invariant of WalProofs.
LEMMA MatchedHolds ==
    Spec => [](~backdated => IInv /\ Matched /\ Covered /\ Acked)
<1> DEFINE Inv == ~backdated => IInv /\ Matched /\ Covered /\ Acked
<1>1. Init => Inv
  BY InitIInv, InitFacts
<1>2. Inv /\ [Next]_walVars => Inv'
  BY NextIInv, NextMatched, NextCovered, NextAcked, BackdatedStays
<1> QED
  BY <1>1, <1>2, PTL DEF Spec

\* Whatever the batching, the faults and the crashes, a frame of this run carries the
\* record that was sent in its place: BatchWAL neither reorders nor skips; until a
\* start is backdated.
THEOREM FramesCarryTheirRecords ==
    Spec => [](~backdated => FramesMatchSends)
BY MatchedHolds, MatchedImplies, PTL

\* CleanupOldWALs deletes no record above the watermark of either snapshot that replaces
\* the files, however many batches are numbered between Rotate and LastLSN.
THEOREM OnlyCoveredIsDeleted ==
    Spec => []DeletedAreCovered
<1>1. (~backdated => IInv /\ Matched /\ Covered /\ Acked) => DeletedAreCovered
  BY DEF Covered, DeletedAreCovered
<1> QED
  BY <1>1, MatchedHolds, PTL

\* An ordered shutdown in which no I/O call failed leaves every record that was sent
\* to the channel fsynced; until a start is backdated.
THEOREM ShutdownIsComplete ==
    Spec => [](~backdated => GracefulLosesNothing)
<1>1. (~backdated => IInv /\ Matched /\ Covered /\ Acked) => (~backdated => GracefulLosesNothing)
  BY DEF Acked
<1> QED
  BY <1>1, MatchedHolds, PTL

\* What an fsync has covered is still read after any kills, power losses and disk
\* faults, until compaction deletes it or a start is backdated; provided a file name
\* needs no FsyncDir of its own.
THEOREM FsyncIsKept ==
    ASSUME ~DirEntryNeedsSync
    PROVE  Spec => []SyncedSurvive
<1> DEFINE Inv == ~backdated => IInv /\ Durable
<1>1. Init => Inv
  BY InitIInv, InitFacts
<1>2. Inv /\ [Next]_walVars => Inv'
  BY NextIInv, NextDurable, BackdatedStays
<1>3. Inv => SyncedSurvive
  BY OnDiskImplies DEF SyncedSurvive
<1> QED
  BY <1>1, <1>2, <1>3, PTL DEF Spec

\* Recovery never finds a record when one logged before it, above the watermark of the
\* snapshot, is lost, but for what an earlier start passed over; as long as power losses
\* do not follow on kills or disk faults and no start is backdated.
THEOREM RecoveryHasNoHole ==
    ASSUME ~DirEntryNeedsSync, TamePower
    PROVE  Spec => []NoHole
<1> DEFINE Inv == ~backdated => IInv /\ Covered /\ Settled /\ Gapless
<1>1. Init => Inv
  BY InitIInv, InitFacts
<1>2. Inv /\ [Next]_walVars => Inv'
  BY NextIInv, NextCovered, NextSettled, NextGapless, BackdatedStays
<1>3. Inv => NoHole
  BY OnDiskImplies DEF NoHole
<1> QED
  BY <1>1, <1>2, <1>3, PTL DEF Spec
=============================================================================
