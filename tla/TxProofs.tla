------------------------------ MODULE TxProofs ------------------------------
(***************************************************************************)
(* What Tx promises, for any connections, any commands and any number of   *)
(* them.  The lock has one holder, which is in its EXEC; what an EXEC has  *)
(* announced and not answered is what it has not run; its queue is what    *)
(* the client sent, as long as nothing was refused.                        *)
(***************************************************************************)
EXTENDS Tx, SequenceTheorems, TLAPS

\* PSYNC hands the socket to the replication, also within an EXEC: the array would
\* never be completed.  Nobody who is a client of the store sends it.
NoPsync == "PSYNC" \notin Commands
NoConnIsNobody == NoConn \notin Conns

PcStates == {"idle", "lock", "run", "write", "closed"}
Queueable == Commands \ {"SUBSCRIBE", "UNSUBSCRIBE"}

TypeInv ==
    /\ inTx \in [Conns -> BOOLEAN] /\ aborted \in [Conns -> BOOLEAN]
    /\ queue \in [Conns -> Seq(Queueable)] /\ multi \in [Conns -> Seq(Commands)]
    /\ pc \in [Conns -> PcStates]
    /\ at \in [Conns -> Nat] /\ owed \in [Conns -> Int] /\ asked \in [Conns -> Nat]
    /\ globalTxMu \in Conns \cup {NoConn}
    /\ ran \in Seq([conn : Conns, exec : Nat])

\* In the body of an EXEC, between the lock and its end.
Executing(c) == pc[c] = "run" \/ (pc[c] = "write" /\ inTx[c])

\* A transaction that nothing has spoiled has queued all that was sent.
Faithful ==
    \A c \in Conns :
        /\ pc[c] \in {"lock", "run"} => inTx[c]
        /\ pc[c] \in {"lock", "run", "write"} /\ inTx[c] => ~aborted[c]
        /\ inTx[c] /\ ~aborted[c] => queue[c] = multi[c]

\* What is announced and not answered is what has not run.
Accounted ==
    \A c \in Conns :
        /\ Executing(c) => at[c] <= Len(queue[c])
        /\ pc[c] = "write" /\ inTx[c] => at[c] < Len(queue[c])
        /\ NoPsync /\ Executing(c) => owed[c] = Len(queue[c]) - at[c]
        /\ NoPsync /\ pc[c] # "closed" /\ ~Executing(c) => owed[c] = 0

OneHolder ==
    /\ \A c \in Conns : Executing(c) => globalTxMu = c
    /\ LockIsLeft

\* The writes of the EXEC that holds the lock are the last ones of any EXEC.
HolderIsLast ==
    \A c \in Conns : Executing(c) =>
        \A i, j \in DOMAIN ran :
            (i < j /\ ran[i] = [conn |-> c, exec |-> asked[c]] /\ ran[i].exec > 0 /\ ran[j].exec > 0)
                => ran[j] = ran[i]

\* An EXEC has a number of its own, which no write has before it holds the lock.
Numbered ==
    /\ \A i \in DOMAIN ran : ran[i].exec <= asked[ran[i].conn]
    /\ \A c \in Conns : pc[c] = "lock" => \A i \in DOMAIN ran : ran[i].conn = c => ran[i].exec < asked[c]

IInv == TypeInv /\ Faithful /\ Accounted /\ OneHolder /\ HolderIsLast /\ Numbered /\ ExecsDoNotMix

(***************************************************************************)
(* A command                                                               *)
(***************************************************************************)
\* What handle does to its own connection, whatever the command: it runs nothing of an
\* EXEC, and it enters one only with a transaction that nothing has spoiled.
HandledBy(c) ==
    /\ inTx' \in [Conns -> BOOLEAN] /\ aborted' \in [Conns -> BOOLEAN]
    /\ queue' \in [Conns -> Seq(Queueable)] /\ multi' \in [Conns -> Seq(Commands)]
    /\ \A d \in Conns \ {c} : inTx'[d] = inTx[d] /\ aborted'[d] = aborted[d]
                              /\ queue'[d] = queue[d] /\ multi'[d] = multi[d]
    /\ inTx'[c] /\ ~aborted'[c] => queue'[c] = multi'[c]
    /\ \/ pc' = pc
       \/ pc' = [pc EXCEPT ![c] = "lock"] /\ inTx'[c] /\ ~aborted'[c]
       \/ pc' = [pc EXCEPT ![c] = "write"] /\ ~inTx'[c]
    /\ at' = at /\ owed' = owed /\ globalTxMu' = globalTxMu /\ ran' = ran

LEMMA HandleEffect ==
    ASSUME TypeInv, Faithful, Accounted, NEW c \in Conns, NEW cmd \in Commands, handle(c, cmd)
    PROVE  HandledBy(c)
<1> USE DEF TypeInv, HandledBy, Faithful
<1>1. CASE UNCHANGED <<session, subscriber, pc, exec, ran>>
  BY <1>1 DEF session, exec
<1>2. CASE \E good \in BOOLEAN : Auth(c, good)
  BY <1>2 DEF Auth, exec
<1>3. CASE HandleSubscriberCommand(c, cmd)
  BY <1>3 DEF HandleSubscriberCommand, session, exec
<1>4. CASE Multi(c)
  <2>1. <<>> \in Seq(Queueable) /\ <<>> \in Seq(Commands)
    OBVIOUS
  <2>2. QED
    BY <1>4, <2>1 DEF Multi, exec
<1>5. CASE Discard(c)
  <2>1. <<>> \in Seq(Queueable)
    OBVIOUS
  <2>2. QED
    BY <1>5, <2>1 DEF Discard, Leave, exec
<1>6. CASE Exec(c)
  <2>1. <<>> \in Seq(Queueable)
    OBVIOUS
  <2>2. QED
    BY <1>6, <2>1 DEF Exec, Leave, exec
<1>7. CASE queueTxCommand(c, cmd)
  <2>1. Append(multi[c], cmd) \in Seq(Commands)
    BY AppendProperties
  <2>2. CASE forbiddenInTx(cmd)
    BY <1>7, <2>1, <2>2 DEF queueTxCommand, Queued, exec
  <2>3. CASE ~forbiddenInTx(cmd)
    <3>1. cmd \in Queueable
      BY <2>3 DEF forbiddenInTx, Queueable
    <3>2. Append(queue[c], cmd) \in Seq(Queueable)
      BY <3>1, AppendProperties
    <3>3. queue' = [queue EXCEPT ![c] = Append(@, cmd)] /\ aborted' = aborted
      BY <1>7, <2>3 DEF queueTxCommand, Queued
    <3>4. QED
      BY <1>7, <2>1, <3>2, <3>3 DEF queueTxCommand, exec
  <2>4. QED
    BY <2>2, <2>3
<1>8. CASE ~inTx[c] /\ execute(c, cmd)
  <2>1. UNCHANGED <<inTx, aborted, queue, multi, at, owed, globalTxMu, ran>>
    BY <1>8 DEF execute, session, Advanced, Answered
  <2>2. pc' = [pc EXCEPT ![c] = "write"] \/ pc' = pc
    BY <1>8 DEF execute
  <2>3. QED
    BY <1>8, <2>1, <2>2
<1>9. QED
  BY <1>1, <1>2, <1>3, <1>4, <1>5, <1>6, <1>7, <1>8 DEF handle

\* A write has an owner and a number.
LEMMA WriteTyped ==
    ASSUME TypeInv, NEW i \in DOMAIN ran
    PROVE  ran[i].conn \in Conns /\ ran[i].exec \in Nat /\ asked[ran[i].conn] \in Nat
<1>1. ran \in Seq([conn : Conns, exec : Nat])
  BY DEF TypeInv
<1>2. ran[i] \in [conn : Conns, exec : Nat]
  <2>1. i \in 1..Len(ran)
    BY <1>1
  <2>2. QED
    BY <1>1, <2>1, ElementOfSeq
<1>3. ran[i].conn \in Conns /\ ran[i].exec \in Nat
  BY <1>2
<1>4. asked \in [Conns -> Nat]
  BY DEF TypeInv
<1>5. QED
  BY <1>3, <1>4

LEMMA HandleStep ==
    ASSUME NoConnIsNobody, IInv, NEW c \in Conns, NEW cmd \in Commands, handle(c, cmd)
    PROVE  IInv'
<1>0. HandledBy(c) /\ pc[c] = "idle" /\ asked' = [asked EXCEPT ![c] = @ + 1]
  BY HandleEffect DEF IInv, handle
<1>t. asked \in [Conns -> Nat] /\ pc \in [Conns -> PcStates] /\ ran \in Seq([conn : Conns, exec : Nat])
  BY DEF IInv, TypeInv
<1>a. asked' \in [Conns -> Nat] /\ asked'[c] = asked[c] + 1 /\ \A d \in Conns \ {c} : asked'[d] = asked[d]
  BY <1>0, <1>t
<1>p. \A d \in Conns \ {c} : pc'[d] = pc[d] /\ inTx'[d] = inTx[d] /\ queue'[d] = queue[d]
  BY <1>0, <1>t DEF HandledBy
<1>1. ~Executing(c) /\ ~Executing(c)' /\ \A d \in Conns : Executing(d)' = Executing(d)
  BY <1>0, <1>t, <1>p DEF Executing, HandledBy
<1>r. ran' = ran /\ globalTxMu' = globalTxMu /\ at' = at /\ owed' = owed
  BY <1>0 DEF HandledBy
<1>2. TypeInv'
  BY <1>0, <1>a DEF IInv, TypeInv, HandledBy, PcStates
<1>3. Faithful'
  BY <1>0, <1>t DEF IInv, Faithful, HandledBy
<1>4. Accounted'
  <2>1. (NoPsync => owed[c] = 0) /\ ~(pc'[c] = "write" /\ inTx'[c])
    BY <1>0, <1>1, <1>t DEF IInv, Accounted, Executing
  <2>2. QED
    BY <1>r, <1>1, <1>p, <2>1 DEF IInv, Accounted
<1>5. OneHolder'
  <2>1. globalTxMu # c /\ globalTxMu \in Conns \cup {NoConn}
    BY <1>0 DEF IInv, TypeInv, OneHolder, LockIsLeft, NoConnIsNobody
  <2>2. QED
    BY <1>r, <1>1, <1>p, <2>1 DEF IInv, OneHolder, LockIsLeft
<1>6. HolderIsLast'
  <2>1. \A d \in Conns : Executing(d)' => asked'[d] = asked[d] /\ Executing(d)
    BY <1>1, <1>a, <1>p DEF Executing
  <2>2. QED
    BY <1>r, <2>1 DEF IInv, HolderIsLast
<1>7. Numbered'
  <2>1. \A i \in DOMAIN ran : ran[i].conn \in Conns /\ ran[i].exec \in Nat /\ ran[i].exec <= asked[ran[i].conn]
    BY WriteTyped DEF IInv, Numbered
  <2>2. \A i \in DOMAIN ran : ran[i].exec <= asked'[ran[i].conn]
    <3> SUFFICES ASSUME NEW i \in DOMAIN ran PROVE ran[i].exec <= asked'[ran[i].conn]
      OBVIOUS
    <3>1. ran[i].conn \in Conns /\ ran[i].exec \in Nat /\ ran[i].exec <= asked[ran[i].conn]
      BY <2>1
    <3>2. asked[ran[i].conn] \in Nat /\ asked[c] \in Nat
      BY <3>1, <1>t
    <3>3. asked'[ran[i].conn] \in {asked[ran[i].conn], asked[ran[i].conn] + 1}
      BY <3>1, <1>a
    <3>4. QED
      BY <3>1, <3>2, <3>3
  <2>3. \A i \in DOMAIN ran : ran[i].conn = c => ran[i].exec < asked'[c]
    BY <1>a, <1>t, <2>1
  <2>4. QED
    BY <1>r, <1>p, <1>a, <2>2, <2>3 DEF IInv, Numbered
<1>8. ExecsDoNotMix'
  BY <1>r DEF IInv, ExecsDoNotMix
<1>9. QED
  BY <1>2, <1>3, <1>4, <1>5, <1>6, <1>7, <1>8 DEF IInv

(***************************************************************************)
(* A command of an EXEC, and a write                                       *)
(***************************************************************************)
LEMMA RunQueuedStep ==
    ASSUME IInv, NEW c \in Conns, RunQueued(c)
    PROVE  IInv'
<1> DEFINE cmd == queue[c][at[c] + 1]
<1>t. /\ at \in [Conns -> Nat] /\ owed \in [Conns -> Int] /\ pc \in [Conns -> PcStates]
      /\ inTx \in [Conns -> BOOLEAN]
  BY DEF IInv, TypeInv
<1>0. /\ pc[c] = "run" /\ at[c] < Len(queue[c]) /\ inTx[c] /\ Executing(c)
      /\ NoPsync => owed[c] = Len(queue[c]) - at[c]
  BY DEF RunQueued, IInv, Faithful, Accounted, Executing
<1>q. Len(queue[c]) \in Nat /\ cmd \in Queueable
  <2>1. queue[c] \in Seq(Queueable)
    BY DEF IInv, TypeInv
  <2>2. Len(queue[c]) \in Nat /\ at[c] + 1 \in DOMAIN queue[c]
    BY <1>0, <1>t, <2>1
  <2>3. QED
    BY <2>1, <2>2
<1>u. UNCHANGED <<inTx, aborted, queue, multi, asked, globalTxMu, ran>>
  BY DEF RunQueued, execute, session
<1>1. CASE pc' = [pc EXCEPT ![c] = "write"] /\ UNCHANGED <<at, owed>>
  <2>1. \A d \in Conns : Executing(d)' = Executing(d) /\ (pc'[d] = "lock" => pc[d] = "lock")
                         /\ (pc'[d] # "closed" => pc[d] # "closed")
    BY <1>0, <1>1, <1>t, <1>u DEF Executing
  <2>2. TypeInv'
    BY <1>1, <1>u DEF IInv, TypeInv, PcStates
  <2>3. Faithful'
    BY <1>0, <1>1, <1>u, <1>t DEF IInv, Faithful
  <2>4. Accounted'
    BY <1>0, <1>1, <1>u, <1>t DEF IInv, Accounted, Executing
  <2>5. OneHolder'
    BY <1>0, <1>1, <1>u, <1>t DEF IInv, OneHolder, LockIsLeft, Executing
  <2>6. HolderIsLast' /\ Numbered' /\ ExecsDoNotMix'
    BY <2>1, <1>u DEF IInv, HolderIsLast, Numbered, ExecsDoNotMix, Executing
  <2>7. QED
    BY <2>2, <2>3, <2>4, <2>5, <2>6 DEF IInv
<1>2. CASE /\ at' = [at EXCEPT ![c] = @ + 1] /\ pc' = pc
           /\ owed' \in {owed, [owed EXCEPT ![c] = @ - 1]}
           /\ NoPsync => owed' = [owed EXCEPT ![c] = @ - 1]
  <2>1. TypeInv'
    <3>1. at' \in [Conns -> Nat] /\ pc' = pc
      BY <1>2, <1>t
    <3>2. owed' \in [Conns -> Int]
      BY <1>2, <1>t
    <3>3. QED
      BY <3>1, <3>2, <1>u DEF IInv, TypeInv
  <2>2. Accounted'
    BY <1>0, <1>2, <1>u, <1>t, <1>q DEF IInv, Accounted, Executing
  <2>3. Faithful' /\ OneHolder' /\ HolderIsLast' /\ Numbered' /\ ExecsDoNotMix'
    BY <1>2, <1>u DEF IInv, Faithful, OneHolder, LockIsLeft, HolderIsLast, Numbered, ExecsDoNotMix,
                      Executing
  <2>4. QED
    BY <2>1, <2>2, <2>3 DEF IInv
<1>3. QED
  <2>1. cmd # "SUBSCRIBE" /\ (NoPsync => cmd # "PSYNC")
    BY <1>q DEF NoPsync, Queueable
  <2>2. QED
    BY <1>0, <1>1, <1>2, <2>1 DEF RunQueued, execute, Advanced, Answered

LEMMA WriteStep ==
    ASSUME IInv, NEW c \in Conns, Write(c)
    PROVE  IInv'
<1> DEFINE r == [conn |-> c, exec |-> IF inTx[c] THEN asked[c] ELSE 0]
<1>t. /\ at \in [Conns -> Nat] /\ owed \in [Conns -> Int] /\ pc \in [Conns -> PcStates]
      /\ inTx \in [Conns -> BOOLEAN] /\ asked \in [Conns -> Nat]
      /\ ran \in Seq([conn : Conns, exec : Nat])
  BY DEF IInv, TypeInv
<1>q. Len(queue[c]) \in Nat
  BY DEF IInv, TypeInv
<1>u. UNCHANGED <<inTx, aborted, queue, multi, asked, globalTxMu>>
  BY DEF Write, session
<1>w. pc[c] = "write" /\ pc' = [pc EXCEPT ![c] = IF inTx[c] THEN "run" ELSE "idle"] /\ ran' = Append(ran, r)
  BY DEF Write
<1>a. IF inTx[c] THEN at' = [at EXCEPT ![c] = @ + 1] /\ owed' = [owed EXCEPT ![c] = @ - 1]
                 ELSE at' = at /\ owed' = owed
  BY DEF Write, Advanced, Answered
<1>e. \A d \in Conns : Executing(d)' = Executing(d)
  BY <1>w, <1>u, <1>t DEF Executing
<1>r. /\ r \in [conn : Conns, exec : Nat]
      /\ Len(ran) \in Nat /\ DOMAIN ran = 1..Len(ran) /\ DOMAIN ran' = 1..(Len(ran) + 1)
      /\ \A i \in DOMAIN ran : ran'[i] = ran[i]
      /\ ran'[Len(ran) + 1] = r
  <2>1. r \in [conn : Conns, exec : Nat]
    BY <1>t
  <2>2. QED
    <3>1. /\ Len(Append(ran, r)) = Len(ran) + 1
          /\ \A i \in 1..Len(ran) : Append(ran, r)[i] = ran[i]
          /\ Append(ran, r)[Len(ran) + 1] = r
          /\ Append(ran, r) \in Seq([conn : Conns, exec : Nat])
      BY <2>1, <1>t, AppendProperties
    <3>2. DOMAIN ran = 1..Len(ran) /\ Len(ran) \in Nat
      BY <1>t, LenProperties
    <3>3. DOMAIN Append(ran, r) = 1..(Len(ran) + 1)
      BY <3>1, LenProperties
    <3>4. QED
      BY <2>1, <3>1, <3>2, <3>3, <1>w
<1>1. TypeInv'
  <2>1. ran' \in Seq([conn : Conns, exec : Nat])
    BY <1>r, <1>w, <1>t, AppendProperties
  <2>2. at' \in [Conns -> Nat] /\ owed' \in [Conns -> Int] /\ pc' \in [Conns -> PcStates]
    <3>1. pc' \in [Conns -> PcStates]
      BY <1>w, <1>t DEF PcStates
    <3>2. at' \in [Conns -> Nat]
      <4>1. at[c] + 1 \in Nat
        BY <1>t
      <4>2. at' = at \/ at' = [at EXCEPT ![c] = at[c] + 1]
        BY <1>a
      <4>3. QED
        BY <4>1, <4>2, <1>t
    <3>3. owed' \in [Conns -> Int]
      <4>1. CASE inTx[c]
        <5>1. owed[c] - 1 \in Int /\ owed' = [owed EXCEPT ![c] = owed[c] - 1]
          BY <4>1, <1>a, <1>t
        <5>2. QED
          BY <5>1, <1>t
      <4>2. CASE ~inTx[c]
        BY <4>2, <1>a, <1>t
      <4>3. QED
        BY <4>1, <4>2
    <3>4. QED
      BY <3>1, <3>2, <3>3
  <2>3. QED
    BY <2>1, <2>2, <1>u DEF IInv, TypeInv
<1>2. Faithful'
  BY <1>w, <1>u, <1>t DEF IInv, Faithful
<1>3. Accounted'
  <2>1. CASE inTx[c]
    BY <2>1, <1>w, <1>a, <1>u, <1>t, <1>q DEF IInv, Accounted, Executing
  <2>2. CASE ~inTx[c]
    BY <2>2, <1>w, <1>a, <1>u, <1>t, <1>q DEF IInv, Accounted, Executing
  <2>3. QED
    BY <2>1, <2>2
<1>4. OneHolder'
  BY <1>w, <1>u, <1>t DEF IInv, OneHolder, LockIsLeft, Executing
<1>5. \A i \in DOMAIN ran : ran[i].conn \in Conns /\ ran[i].exec \in Nat /\ ran[i].exec <= asked[ran[i].conn]
  BY WriteTyped DEF IInv, Numbered
<1>6. Numbered'
  <2>1. \A i \in DOMAIN ran' : ran'[i].exec <= asked[ran'[i].conn]
    <3>1. r.exec <= asked[r.conn]
      BY <1>t
    <3>2. QED
      BY <3>1, <1>r, <1>5
  <2>2. ASSUME NEW d \in Conns, pc'[d] = "lock", NEW i \in DOMAIN ran', ran'[i].conn = d
        PROVE  ran'[i].exec < asked[d]
    <3>1. d # c /\ pc[d] = "lock"
      BY <2>2, <1>w, <1>t
    <3>2. i \in DOMAIN ran
      BY <2>2, <3>1, <1>r
    <3>3. QED
      BY <2>2, <3>1, <3>2, <1>r DEF IInv, Numbered
  <2>3. QED
    BY <2>1, <2>2, <1>u DEF Numbered
\* A write of an EXEC is the holder's, and so it comes after the holder's own.
<1>7. \A d \in Conns : Executing(d) /\ r.exec > 0 => r = [conn |-> d, exec |-> asked[d]]
  <2> SUFFICES ASSUME NEW d \in Conns, Executing(d), r.exec > 0
               PROVE  r = [conn |-> d, exec |-> asked[d]]
    OBVIOUS
  <2>1. inTx[c] /\ Executing(c)
    BY <1>w DEF Executing
  <2>2. c = d
    BY <2>1 DEF IInv, OneHolder
  <2>3. QED
    BY <2>1, <2>2
<1>8. HolderIsLast'
  <2> SUFFICES ASSUME NEW d \in Conns, Executing(d), NEW i \in DOMAIN ran', NEW j \in DOMAIN ran',
                      i < j, ran'[i] = [conn |-> d, exec |-> asked[d]], ran'[i].exec > 0, ran'[j].exec > 0
               PROVE  ran'[j] = ran'[i]
    BY <1>e, <1>u DEF HolderIsLast
  <2>1. i \in DOMAIN ran
    BY <1>r
  <2>2. CASE j \in DOMAIN ran
    BY <2>1, <2>2, <1>r DEF IInv, HolderIsLast
  <2>3. CASE j \notin DOMAIN ran
    BY <2>3, <1>r, <1>7
  <2>4. QED
    BY <2>2, <2>3
<1>9. ExecsDoNotMix'
  <2> SUFFICES ASSUME NEW i \in DOMAIN ran', NEW j \in DOMAIN ran', NEW k \in DOMAIN ran',
                      i < j, j < k, ran'[i] = ran'[k], ran'[j].exec > 0, ran'[i].exec > 0
               PROVE  ran'[j] = ran'[i]
    BY DEF ExecsDoNotMix
  <2>1. i \in DOMAIN ran /\ j \in DOMAIN ran
    BY <1>r
  <2>2. CASE k \in DOMAIN ran
    BY <2>1, <2>2, <1>r DEF IInv, ExecsDoNotMix
  <2>3. CASE k \notin DOMAIN ran
    <3>1. ran[i] = r /\ ran[i].exec > 0 /\ ran[j].exec > 0
      BY <2>1, <2>3, <1>r
    <3>2. inTx[c] /\ Executing(c) /\ r = [conn |-> c, exec |-> asked[c]]
      BY <3>1, <1>w, <1>7 DEF Executing
    <3>3. ran[j] = ran[i]
      BY <2>1, <3>1, <3>2 DEF IInv, HolderIsLast
    <3>4. QED
      BY <2>1, <3>3, <1>r
  <2>4. QED
    BY <2>2, <2>3
<1>10. QED
  BY <1>1, <1>2, <1>3, <1>4, <1>6, <1>8, <1>9 DEF IInv

(***************************************************************************)
(* The lock                                                                *)
(***************************************************************************)
LEMMA LockTxStep ==
    ASSUME NoConnIsNobody, IInv, NEW c \in Conns, LockTx(c)
    PROVE  IInv'
<1>t. /\ at \in [Conns -> Nat] /\ owed \in [Conns -> Int] /\ pc \in [Conns -> PcStates]
      /\ inTx \in [Conns -> BOOLEAN]
  BY DEF IInv, TypeInv
<1>q. Len(queue[c]) \in Nat
  BY DEF IInv, TypeInv
<1>u. UNCHANGED <<inTx, aborted, queue, multi, asked, ran>>
  BY DEF LockTx, session
<1>0. /\ pc[c] = "lock" /\ inTx[c] /\ pc' = [pc EXCEPT ![c] = "run"] /\ globalTxMu' = c
      /\ owed' = [owed EXCEPT ![c] = Len(queue[c])] /\ at' = [at EXCEPT ![c] = 0]
  BY DEF LockTx, IInv, Faithful
<1>1. \A d \in Conns : ~Executing(d)
  BY DEF LockTx, LockFree, IInv, OneHolder, NoConnIsNobody
<1>2. TypeInv'
  BY <1>0, <1>u, <1>t, <1>q DEF IInv, TypeInv, PcStates
<1>3. Faithful'
  BY <1>0, <1>u, <1>t DEF IInv, Faithful
<1>4. Accounted'
  BY <1>0, <1>u, <1>t, <1>q DEF IInv, Accounted, Executing
<1>5. OneHolder'
  BY <1>0, <1>1, <1>u, <1>t DEF OneHolder, LockIsLeft, Executing
<1>6. HolderIsLast'
  <2>1. \A d \in Conns : Executing(d)' => d = c
    BY <1>0, <1>1, <1>u, <1>t DEF Executing
  <2>2. \A i \in DOMAIN ran : ran[i] # [conn |-> c, exec |-> asked[c]]
    <3> SUFFICES ASSUME NEW i \in DOMAIN ran, ran[i] = [conn |-> c, exec |-> asked[c]]
                 PROVE  FALSE
      OBVIOUS
    <3>1. ran[i].conn = c /\ ran[i].exec = asked[c]
      OBVIOUS
    <3>2. ran[i].exec < asked[c] /\ asked[c] \in Nat
      BY <1>0, <3>1 DEF IInv, Numbered, TypeInv
    <3>3. QED
      BY <3>1, <3>2
  <2>3. QED
    BY <2>1, <2>2, <1>u DEF HolderIsLast
<1>7. Numbered' /\ ExecsDoNotMix'
  BY <1>0, <1>u, <1>t DEF IInv, Numbered, ExecsDoNotMix
<1>8. QED
  BY <1>2, <1>3, <1>4, <1>5, <1>6, <1>7 DEF IInv

LEMMA EndTxStep ==
    ASSUME NoConnIsNobody, IInv, NEW c \in Conns, EndTx(c)
    PROVE  IInv'
<1>t. /\ at \in [Conns -> Nat] /\ owed \in [Conns -> Int] /\ pc \in [Conns -> PcStates]
      /\ inTx \in [Conns -> BOOLEAN] /\ queue \in [Conns -> Seq(Queueable)]
  BY DEF IInv, TypeInv
<1>u. UNCHANGED <<aborted, multi, asked, ran, at, owed>>
  BY DEF EndTx
<1>0. /\ pc[c] = "run" /\ pc' = [pc EXCEPT ![c] = "idle"] /\ globalTxMu' = NoConn
      /\ inTx' = [inTx EXCEPT ![c] = FALSE] /\ queue' = [queue EXCEPT ![c] = <<>>]
      /\ NoPsync => owed[c] = 0
  BY DEF EndTx, Leave, IInv, Accounted, Executing
<1>1. \A d \in Conns : ~Executing(d)'
  <2>1. \A d \in Conns \ {c} : ~Executing(d)
    BY <1>0 DEF IInv, OneHolder, Executing
  <2>2. QED
    BY <2>1, <1>0, <1>t DEF Executing
<1>2. TypeInv'
  <2>1. <<>> \in Seq(Queueable)
    OBVIOUS
  <2>2. QED
    BY <2>1, <1>0, <1>u, <1>t DEF IInv, TypeInv, PcStates
<1>3. Faithful'
  BY <1>0, <1>u, <1>t DEF IInv, Faithful
<1>4. Accounted'
  BY <1>0, <1>1, <1>u, <1>t DEF IInv, Accounted, Executing
<1>5. OneHolder' /\ HolderIsLast'
  BY <1>0, <1>1 DEF OneHolder, LockIsLeft, HolderIsLast
<1>6. Numbered' /\ ExecsDoNotMix'
  BY <1>0, <1>u, <1>t DEF IInv, Numbered, ExecsDoNotMix
<1>7. QED
  BY <1>2, <1>3, <1>4, <1>5, <1>6 DEF IInv

LEMMA PanicStep ==
    ASSUME NoConnIsNobody, IInv, NEW c \in Conns, Panic(c)
    PROVE  IInv'
<1>t. pc \in [Conns -> PcStates] /\ inTx \in [Conns -> BOOLEAN] /\ globalTxMu \in Conns \cup {NoConn}
  BY DEF IInv, TypeInv
<1>u. UNCHANGED <<inTx, aborted, queue, multi, at, owed, asked, ran>>
  BY DEF Panic, session
<1>0. /\ pc[c] \in {"run", "write"} /\ pc' = [pc EXCEPT ![c] = "closed"]
      /\ globalTxMu' = IF globalTxMu = c THEN NoConn ELSE globalTxMu
  BY DEF Panic, UnlockedByDefer
<1>1. \A d \in Conns : Executing(d)' => Executing(d) /\ d # c
  BY <1>0, <1>u, <1>t DEF Executing
<1>2. TypeInv'
  BY <1>0, <1>u, <1>t DEF IInv, TypeInv, PcStates
<1>3. Faithful'
  BY <1>0, <1>u, <1>t DEF IInv, Faithful
<1>4. Accounted'
  BY <1>0, <1>u, <1>t DEF IInv, Accounted, Executing
<1>5. OneHolder'
  BY <1>0, <1>1, <1>u, <1>t DEF IInv, OneHolder, LockIsLeft, Executing, NoConnIsNobody
<1>6. HolderIsLast' /\ Numbered' /\ ExecsDoNotMix'
  BY <1>0, <1>1, <1>u, <1>t DEF IInv, HolderIsLast, Numbered, ExecsDoNotMix
<1>7. QED
  BY <1>2, <1>3, <1>4, <1>5, <1>6 DEF IInv

LEMMA EnvironmentStep ==
    ASSUME IInv, UNCHANGED <<session, subscriber, pc, exec, asked, ran>>
    PROVE  IInv'
  BY DEF session, exec, IInv, TypeInv, Faithful, Accounted, OneHolder, LockIsLeft, HolderIsLast, Numbered,
         ExecsDoNotMix, Executing

(***************************************************************************)
(* The theorems                                                            *)
(***************************************************************************)
LEMMA InitIInv == NoConnIsNobody /\ Init => IInv
<1> SUFFICES ASSUME NoConnIsNobody, Init PROVE IInv
  OBVIOUS
<1>1. <<>> \in Seq(Queueable) /\ <<>> \in Seq(Commands) /\ <<>> \in Seq([conn : Conns, exec : Nat])
  OBVIOUS
<1>2. TypeInv
  BY <1>1 DEF Init, TypeInv, PcStates
<1>3. DOMAIN ran = {}
  BY DEF Init
<1>4. Faithful /\ Accounted /\ OneHolder
  BY DEF Init, Faithful, Accounted, OneHolder, LockIsLeft, Executing
<1>5. HolderIsLast /\ Numbered /\ ExecsDoNotMix
  BY <1>3 DEF HolderIsLast, Numbered, ExecsDoNotMix
<1>6. QED
  BY <1>2, <1>4, <1>5 DEF IInv

LEMMA NextIInv == NoConnIsNobody /\ IInv /\ [Next]_vars => IInv'
<1> SUFFICES ASSUME NoConnIsNobody, IInv, [Next]_vars PROVE IInv'
  OBVIOUS
<1>1. ASSUME NEW c \in Conns, NEW cmd \in Commands, handle(c, cmd) PROVE IInv'
  BY <1>1, HandleStep
<1>2. ASSUME NEW c \in Conns, Write(c) PROVE IInv'
  BY <1>2, WriteStep
<1>3. ASSUME NEW c \in Conns, LockTx(c) PROVE IInv'
  BY <1>3, LockTxStep
<1>4. ASSUME NEW c \in Conns, RunQueued(c) PROVE IInv'
  BY <1>4, RunQueuedStep
<1>5. ASSUME NEW c \in Conns, EndTx(c) PROVE IInv'
  BY <1>5, EndTxStep
<1>6. ASSUME NEW c \in Conns, Panic(c) PROVE IInv'
  BY <1>6, PanicStep
<1>7. CASE WalFails \/ Memory \/ UNCHANGED vars
  BY <1>7, EnvironmentStep DEF WalFails, Memory, vars, session, exec
<1>8. QED
  BY <1>1, <1>2, <1>3, <1>4, <1>5, <1>6, <1>7 DEF Next

LEMMA InvariantHolds ==
    ASSUME NoConnIsNobody
    PROVE  Spec => []IInv
<1>1. Init => IInv
  BY InitIInv
<1>2. IInv /\ [Next]_vars => IInv'
  BY NextIInv
<1>3. QED
  BY <1>1, <1>2, PTL DEF Spec

\* Two EXECs never mix and none keeps the lock: globalTxMu is held from the first
\* command of an EXEC to its end, a panic included (dispatch.go:135-140).
THEOREM ExecsKeepApart ==
    ASSUME NoConnIsNobody
    PROVE  Spec => []TxDoNotMix
<1>1. IInv => TxDoNotMix
  BY DEF IInv, TxDoNotMix, OneHolder
<1>2. QED
  BY <1>1, InvariantHolds, PTL

\* Every EXEC completes the array that it announced, whatever the gates refuse.
THEOREM ArraysAreComplete ==
    ASSUME NoConnIsNobody, NoPsync
    PROVE  Spec => []TxArrayComplete
<1>1. IInv => TxArrayComplete
  BY DEF IInv, TxArrayComplete, Accounted, Executing
<1>2. QED
  BY <1>1, InvariantHolds, PTL

\* What an EXEC runs is all that its client sent since MULTI, and it ends only after the
\* last of it, unless a handler panics (dispatch.go:95-180).
THEOREM ExecsRunWhatWasSent ==
    ASSUME NoConnIsNobody
    PROVE  Spec => TxRunsWhatWasSent
<1> DEFINE Kept ==
      \A c \in Conns : pc[c] = "run" =>
          /\ queue[c] = multi[c]
          /\ pc'[c] = "idle" => at[c] = Len(multi[c])
<1>1. IInv /\ [Next]_vars => [Kept]_vars
  <2> SUFFICES ASSUME IInv, Next, NEW c \in Conns, pc[c] = "run"
               PROVE  queue[c] = multi[c] /\ (pc'[c] = "idle" => at[c] = Len(multi[c]))
    OBVIOUS
  <2>1. queue[c] = multi[c] /\ inTx[c]
    BY DEF IInv, Faithful
  <2>t. pc \in [Conns -> PcStates]
    BY DEF IInv, TypeInv
  <2>2. ASSUME pc'[c] = "idle" PROVE at[c] = Len(queue[c])
    <3>1. ASSUME NEW d \in Conns, NEW cmd \in Commands, handle(d, cmd) PROVE FALSE
      <4>1. d # c /\ HandledBy(d)
        BY <3>1, HandleEffect DEF handle, IInv
      <4>2. pc'[c] = pc[c]
        BY <4>1, <2>t DEF HandledBy
      <4>3. QED
        BY <4>2, <2>2
    <3>2. ASSUME NEW d \in Conns, Write(d) \/ LockTx(d) \/ RunQueued(d) \/ Panic(d) PROVE FALSE
      <4>1. pc' = pc \/ pc'[c] = "write" \/ pc'[c] = "closed" \/ (d # c /\ pc'[c] = pc[c])
        BY <3>2, <2>t DEF Write, LockTx, RunQueued, execute, Panic
      <4>2. QED
        BY <4>1, <2>2
    <3>3. ASSUME NEW d \in Conns, EndTx(d) PROVE at[c] = Len(queue[c])
      BY <3>3, <2>2, <2>t DEF EndTx
    <3>4. CASE WalFails \/ Memory
      BY <3>4, <2>2 DEF WalFails, Memory
    <3>5. QED
      BY <3>1, <3>2, <3>3, <3>4 DEF Next
  <2>3. QED
    BY <2>1, <2>2
<1>2. QED
  BY <1>1, InvariantHolds, PTL DEF Spec, TxRunsWhatWasSent
=============================================================================
