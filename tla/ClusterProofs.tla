--------------------------- MODULE ClusterProofs ---------------------------
(***************************************************************************)
(* What a node promises: Server for any set of connections and any limit,  *)
(* a replica for any keys, values, threads, writes and breaks, a slot on   *)
(* its way for any keys, values, writes and failures.                      *)
(***************************************************************************)
EXTENDS MCCluster, SequenceTheorems, FiniteSetTheorems, TLAPS

(***************************************************************************)
(* The server.  Its books say the same in three ways (the map conns, the   *)
(* counter, the goroutines), and each step keeps two of them in step with  *)
(* the third: that is the inductive invariant.  The goroutines are counted *)
(* by wg, and stopping is read between the deadline and the read: that     *)
(* gives the two properties of Stop.                                       *)
(***************************************************************************)
AcceptStates == {"accept", "register", "count", "returned"}
ServeStates == {"new", "rejected", "loop", "check", "read", "handle", "close", "returned"}
StopStates == {"running", "stopping", "draining", "closing", "returned"}

TypeInv ==
    /\ accept \in AcceptStates
    /\ accept \in {"register", "count"} => accepted \in Clients
    /\ activeConns \in Int /\ wg \in Int
    /\ serve \in [Clients -> ServeStates]
    /\ deadline \in [Clients -> {"none", "later", "now"}]
    /\ conns \subseteq Clients /\ once \subseteq Clients
    /\ stopping \in BOOLEAN /\ late \in BOOLEAN
    /\ stop \in StopStates

\* Goroutines that run.
RunStates == {"loop", "check", "read", "handle", "close"}
Running == {c \in Clients : serve[c] \in RunStates}

\* The connection that is in conns and not counted yet.
Uncounted == IF accept = "count" THEN {accepted} ELSE {}

Books ==
    /\ accept \in {"register", "count"} => serve[accepted] = "new"
    /\ once \subseteq Counted \cup Uncounted
    /\ conns = (Counted \cup Uncounted) \ once
    /\ activeConns = Cardinality(Counted) - Cardinality(once)
    /\ accept = "register" /\ MaxConnections > 0 => activeConns < MaxConnections
    /\ MaxConnections > 0 => Cardinality(conns) <= MaxConnections

\* What the steps of Stop leave behind them.
Draining ==
    /\ wg = Cardinality(Running)
    /\ stop # "running" => stopping
    /\ stop = "draining" => \A c \in conns : serve[c] = "read" => deadline[c] = "now"
    /\ stop \in {"closing", "returned"} /\ ~late =>
           \A c \in Clients : serve[c] \notin {"read", "handle"}

IInv == TypeInv /\ Books /\ Draining

(***************************************************************************)
(* Finite sets                                                             *)
(***************************************************************************)
LEMMA SubsetsFinite == \A S \in SUBSET Clients : IsFiniteSet(S) /\ Cardinality(S) \in Nat
  BY ServerAssumption, FS_Subset, FS_CardinalityType

LEMMA AddOne ==
    ASSUME NEW S \in SUBSET Clients, NEW c \in Clients, c \notin S
    PROVE  Cardinality(S \cup {c}) = Cardinality(S) + 1
  BY SubsetsFinite, FS_AddElement

LEMMA RemoveOne ==
    ASSUME NEW S \in SUBSET Clients, NEW c \in S
    PROVE  Cardinality(S \ {c}) = Cardinality(S) - 1
  BY SubsetsFinite, FS_RemoveElement

LEMMA Fewer ==
    ASSUME NEW S \in SUBSET Clients, NEW T \in SUBSET S
    PROVE  Cardinality(T) <= Cardinality(S)
  BY SubsetsFinite, FS_Subset

LEMMA NoneLeft ==
    ASSUME NEW S \in SUBSET Clients, Cardinality(S) = 0
    PROVE  S = {}
  BY SubsetsFinite, FS_EmptySet

(***************************************************************************)
(* The first state                                                         *)
(***************************************************************************)
LEMMA InitInv == Init => IInv
<1> SUFFICES ASSUME Init PROVE IInv
  OBVIOUS
<1>1. TypeInv
  <2>1. serve \in [Clients -> ServeStates] /\ deadline \in [Clients -> {"none", "later", "now"}]
    BY DEF Init, ServeStates
  <2>2. accept \in AcceptStates /\ accept \notin {"register", "count"} /\ stop \in StopStates
    BY DEF Init, AcceptStates, StopStates
  <2>3. stopping \in BOOLEAN /\ late \in BOOLEAN
    BY DEF Init
  <2>4. activeConns \in Int /\ wg \in Int /\ conns \subseteq Clients /\ once \subseteq Clients
    BY DEF Init
  <2> QED
    BY <2>1, <2>2, <2>3, <2>4 DEF TypeInv
<1>2. Counted = {} /\ Running = {}
  BY DEF Init, Counted, Running, RunStates
<1>3. Cardinality({}) = 0
  BY FS_EmptySet
<1>4. Books
  <2>1. conns = {} /\ once = {} /\ activeConns = 0 /\ accept = "accept" /\ Uncounted = {}
    BY DEF Init, Uncounted
  <2> QED
    BY <1>2, <1>3, <2>1, ServerAssumption DEF Books
<1>5. Draining
  BY <1>2, <1>3 DEF Init, Draining
<1> QED
  BY <1>1, <1>4, <1>5 DEF IInv

(***************************************************************************)
(* Types                                                                   *)
(***************************************************************************)
LEMMA GotoTyped ==
    ASSUME TypeInv, NEW c \in Clients, NEW pc \in ServeStates, Goto(c, pc)
    PROVE  /\ serve' \in [Clients -> ServeStates]
           /\ serve'[c] = pc
           /\ \A d \in Clients \ {c} : serve'[d] = serve[d]
  BY DEF TypeInv, Goto

\* What a goroutine does: it goes to another state, and nothing that TypeInv, Books
\* and wg speak of changes but its deadline.
Moves(c) ==
    /\ \E pc \in RunStates : Goto(c, pc)
    /\ serve[c] \in RunStates
    /\ deadline' \in [Clients -> {"none", "later", "now"}]
    /\ \A d \in Clients \ {c} : deadline'[d] = deadline[d]
    /\ UNCHANGED <<accept, accepted, conns, activeConns, wg, once, stopping, stop, late>>

LEMMA MovesKeep ==
    ASSUME IInv, NEW c \in Clients, Moves(c)
    PROVE  TypeInv' /\ Books' /\ wg' = Cardinality(Running')
<1>1. PICK pc \in RunStates : Goto(c, pc)
  BY DEF Moves
<1>2. pc \in ServeStates
  BY DEF RunStates, ServeStates
<1>3. /\ serve' \in [Clients -> ServeStates] /\ serve'[c] = pc
      /\ \A d \in Clients \ {c} : serve'[d] = serve[d]
  BY <1>1, <1>2, GotoTyped DEF IInv
<1>4. TypeInv'
  BY <1>3 DEF IInv, TypeInv, Moves
<1>5. Counted' = Counted
  BY <1>3 DEF Counted, Moves, RunStates
<1>6. Running' = Running
  BY <1>3 DEF Running, Moves
<1>7. accept \in {"register", "count"} => serve'[accepted] = "new"
  <2> SUFFICES ASSUME accept \in {"register", "count"} PROVE serve'[accepted] = "new"
    OBVIOUS
  <2>1. accepted \in Clients /\ serve[accepted] = "new"
    BY DEF IInv, TypeInv, Books
  <2>2. accepted # c
    BY <2>1 DEF Moves, RunStates
  <2> QED
    BY <1>3, <2>1, <2>2
<1>8. Books'
  BY <1>5, <1>7 DEF IInv, Books, Uncounted, Moves
<1>9. wg' = Cardinality(Running')
  BY <1>6 DEF IInv, Draining, Moves
<1> QED
  BY <1>4, <1>8, <1>9

\* serve stays, and so do the books.
Stays ==
    UNCHANGED <<serve, accept, accepted, conns, activeConns, wg, once>>

LEMMA StaysKeep ==
    ASSUME IInv, Stays
    PROVE  Books' /\ wg' = Cardinality(Running')
<1>1. Counted' = Counted /\ Running' = Running /\ Uncounted' = Uncounted
  BY DEF Stays, Counted, Running, Uncounted
<1> QED
  BY <1>1 DEF IInv, Books, Draining, Stays

\* A goroutine goes neither back to work nor to sleep while Stop depends on it.
Safe(pc) ==
    /\ pc = "read" => stop # "draining"
    /\ pc \in {"read", "handle"} => ~(stop \in {"closing", "returned"} /\ ~late)

LEMMA SafeMoves ==
    ASSUME IInv, NEW c \in Clients, Moves(c), NEW pc \in RunStates, Goto(c, pc), Safe(pc)
    PROVE  IInv'
<1>1. TypeInv' /\ Books' /\ wg' = Cardinality(Running')
  BY MovesKeep
<1>2. pc \in ServeStates
  BY DEF RunStates, ServeStates
<1>3. serve'[c] = pc /\ \A d \in Clients \ {c} : serve'[d] = serve[d]
  BY <1>2, GotoTyped DEF IInv
<1>4. stop' = stop /\ stopping' = stopping /\ late' = late /\ conns' = conns
  BY DEF Moves
<1>5. stop' # "running" => stopping'
  BY <1>4 DEF IInv, Draining
<1>6. ASSUME stop' = "draining", NEW d \in conns', serve'[d] = "read"
      PROVE  deadline'[d] = "now"
  <2>1. d \in Clients /\ d # c
    BY <1>3, <1>4, <1>6 DEF Safe, IInv, TypeInv
  <2> QED
    BY <1>3, <1>4, <1>6, <2>1 DEF IInv, Draining, Moves
<1>7. ASSUME stop' \in {"closing", "returned"}, ~late', NEW d \in Clients
      PROVE  serve'[d] \notin {"read", "handle"}
  <2>1. CASE d = c
    BY <1>3, <1>4, <1>7, <2>1 DEF Safe
  <2>2. CASE d # c
    BY <1>3, <1>4, <1>7, <2>2 DEF IInv, Draining
  <2> QED
    BY <2>1, <2>2
<1>8. Draining'
  BY <1>1, <1>5, <1>6, <1>7 DEF Draining
<1> QED
  BY <1>1, <1>8 DEF IInv

\* A step that leaves the goroutines and the books alone.
LEMMA StaysSafe ==
    ASSUME IInv, Stays, TypeInv', UNCHANGED <<deadline, stopping, stop, late>>
    PROVE  IInv'
<1>1. Books' /\ wg' = Cardinality(Running')
  BY StaysKeep
<1>2. Draining'
  BY <1>1 DEF IInv, Draining, Stays
<1> QED
  BY <1>1, <1>2 DEF IInv

(***************************************************************************)
(* The goroutines                                                          *)
(***************************************************************************)
LEMMA SetDeadlineInv == ASSUME IInv, NEW c \in Clients, SetDeadline(c) PROVE IInv'
<1>1. "check" \in RunStates /\ "loop" \in RunStates /\ Safe("check")
  BY DEF RunStates, Safe
<1>2. Goto(c, "check")
  BY DEF SetDeadline
<1>3. Moves(c)
  BY <1>1, <1>2 DEF SetDeadline, Moves, IInv, TypeInv
<1> QED
  BY <1>1, <1>2, <1>3, SafeMoves

LEMMA CheckInv == ASSUME IInv, NEW c \in Clients, Check(c) PROVE IInv'
<1>1. PICK pc \in {"close", "read"} : Goto(c, pc) /\ (pc = "read" => ~stopping)
  BY DEF Check, CheckStopping
<1>2. pc \in RunStates /\ "check" \in RunStates
  BY DEF RunStates
<1>3. stop = "running" \/ pc = "close"
  BY <1>1 DEF IInv, Draining
<1>4. Safe(pc)
  BY <1>3 DEF Safe
<1>5. Moves(c)
  BY <1>1, <1>2 DEF Check, Moves, IInv, TypeInv
<1> QED
  BY <1>1, <1>2, <1>4, <1>5, SafeMoves

\* From "read" or "handle" a goroutine goes anywhere but to "read": it is at work, so
\* that Stop is not over.
LEMMA AtWork ==
    ASSUME IInv, NEW c \in Clients, serve[c] \in {"read", "handle"},
       NEW pc \in {"loop", "handle", "close"},
           Goto(c, pc),
           UNCHANGED <<accept, accepted, conns, activeConns, wg, deadline, once, stopping, stop, late>>
    PROVE  IInv'
<1>1. pc \in RunStates /\ serve[c] \in RunStates
  BY DEF RunStates
<1>2. Safe(pc)
  BY DEF Safe, IInv, Draining
<1>3. Moves(c)
  BY <1>1 DEF Moves, IInv, TypeInv
<1> QED
  BY <1>1, <1>2, <1>3, SafeMoves

LEMMA ReadInv == ASSUME IInv, NEW c \in Clients, Read(c) PROVE IInv'
  BY AtWork DEF Read

LEMMA IdleInv == ASSUME IInv, NEW c \in Clients, Idle(c) PROVE IInv'
<1>1. PICK pc \in {"loop", "close"} : Goto(c, pc)
  BY DEF Idle
<1> QED
  BY <1>1, AtWork DEF Idle

LEMMA HangsUpInv == ASSUME IInv, NEW c \in Clients, HangsUp(c) PROVE IInv'
  BY AtWork DEF HangsUp

LEMMA HandleInv == ASSUME IInv, NEW c \in Clients, Handle(c) PROVE IInv'
<1>1. CASE UNCHANGED serve
  <2>1. Stays /\ UNCHANGED <<deadline, stopping, stop, late>>
    BY <1>1 DEF Handle, Stays
  <2>2. TypeInv'
    BY <2>1 DEF Stays, IInv, TypeInv
  <2> QED
    BY <2>1, <2>2, StaysSafe
<1>2. CASE \E pc \in {"loop", "close"} : Goto(c, pc)
  BY <1>2, AtWork DEF Handle
<1> QED
  BY <1>1, <1>2 DEF Handle

(***************************************************************************)
(* Closing                                                                 *)
(***************************************************************************)
LEMMA CountedFinite ==
    Counted \in SUBSET Clients /\ Running \in SUBSET Clients
  BY DEF Counted, Running

\* closeConn takes the connection off all three books at once, or finds it taken off.
LEMMA CloseConnKeeps ==
    ASSUME IInv, NEW c \in Clients, c \in Counted \cup Uncounted, CloseConn(c),
           Counted' = Counted, UNCHANGED <<accept, accepted>>,
           accept \in {"register", "count"} => serve'[accepted] = "new"
    PROVE  /\ Books'
           /\ conns' \subseteq conns /\ once' \subseteq Clients /\ activeConns' \in Int
<1>1. Uncounted' = Uncounted
  BY DEF Uncounted
<1>2. CASE c \in once
  <2>1. once' = once /\ conns' = conns /\ activeConns' = activeConns
    BY <1>2 DEF CloseConn
  <2> QED
    BY <1>1, <2>1 DEF IInv, Books, TypeInv
<1>3. CASE c \notin once
  <2>1. once' = once \cup {c} /\ conns' = conns \ {c} /\ activeConns' = activeConns - 1
    BY <1>3 DEF CloseConn
  <2>2. once \in SUBSET Clients /\ conns \in SUBSET Clients /\ activeConns \in Int
    BY DEF IInv, TypeInv
  <2>3. Cardinality(once') = Cardinality(once) + 1
    BY <1>3, <2>1, <2>2, AddOne
  <2>4. Cardinality(conns') <= Cardinality(conns)
    BY <2>1, <2>2, Fewer
  <2>5. Cardinality(Counted) \in Nat /\ Cardinality(once) \in Nat
        /\ Cardinality(conns) \in Nat /\ Cardinality(conns') \in Nat
    BY <2>1, <2>2, CountedFinite, SubsetsFinite
  <2>6. activeConns' = Cardinality(Counted') - Cardinality(once')
    BY <2>1, <2>3, <2>5 DEF IInv, Books
  <2>7. once' \subseteq Counted' \cup Uncounted' /\ conns' = (Counted' \cup Uncounted') \ once'
    BY <1>1, <2>1 DEF IInv, Books
  <2>8. MaxConnections > 0 => Cardinality(conns') <= MaxConnections
    BY <2>4, <2>5, ServerAssumption DEF IInv, Books
  <2>9. accept' = "register" /\ MaxConnections > 0 => activeConns' < MaxConnections
    BY <2>1, <2>2, ServerAssumption DEF IInv, Books
  <2> QED
    BY <2>1, <2>2, <2>6, <2>7, <2>8, <2>9 DEF Books
<1> QED
  BY <1>2, <1>3

LEMMA InConns == IInv => conns \subseteq Counted \cup Uncounted
  BY DEF IInv, Books

LEMMA CloseOneInv ==
    ASSUME IInv, NEW c \in conns, CloseConn(c),
           UNCHANGED <<accept, accepted, wg, serve, deadline, stopping, stop, late>>
    PROVE  IInv'
<1>1. c \in Clients /\ c \in Counted \cup Uncounted
  BY InConns DEF IInv, TypeInv
<1>2. Counted' = Counted /\ Running' = Running
  BY DEF Counted, Running
<1>3. accept \in {"register", "count"} => serve'[accepted] = "new"
  BY DEF IInv, Books
<1>4. Books' /\ conns' \subseteq conns /\ once' \subseteq Clients /\ activeConns' \in Int
  BY <1>1, <1>2, <1>3, CloseConnKeeps
<1>5. TypeInv'
  BY <1>4 DEF IInv, TypeInv
<1>6. Draining'
  BY <1>2, <1>4 DEF IInv, Draining
<1> QED
  BY <1>4, <1>5, <1>6 DEF IInv

LEMMA ReturnInv == ASSUME IInv, NEW c \in Clients, Return(c) PROVE IInv'
<1>1. "returned" \in ServeStates /\ "close" \in RunStates /\ "returned" \notin RunStates
  BY DEF ServeStates, RunStates
<1>2. /\ serve' \in [Clients -> ServeStates] /\ serve'[c] = "returned"
      /\ \A d \in Clients \ {c} : serve'[d] = serve[d]
  BY <1>1, GotoTyped DEF Return, IInv
<1>3. serve[c] = "close" /\ c \in Counted
  BY DEF Return, Counted
<1>4. Counted' = Counted
  BY <1>2, <1>3 DEF Counted
<1>5. accept \in {"register", "count"} => serve'[accepted] = "new"
  BY <1>2, <1>3 DEF IInv, Books, TypeInv
<1>6. Books' /\ conns' \subseteq conns /\ once' \subseteq Clients /\ activeConns' \in Int
  BY <1>3, <1>4, <1>5, CloseConnKeeps DEF Return
<1>7. TypeInv'
  BY <1>2, <1>6 DEF IInv, TypeInv, Return
<1>8. Running' = Running \ {c} /\ c \in Running
  BY <1>1, <1>2, <1>3 DEF Running
<1>9. wg' = Cardinality(Running')
  BY <1>8, CountedFinite, RemoveOne DEF IInv, Draining, Return
<1>10. Draining'
  BY <1>2, <1>6, <1>9 DEF IInv, Draining, Return, TypeInv
<1> QED
  BY <1>6, <1>7, <1>10 DEF IInv

LEMMA CloseSlowInv == ASSUME IInv, NEW c \in Clients, CloseSlow(c) PROVE IInv'
  BY CloseOneInv DEF CloseSlow

LEMMA CloseRestInv == ASSUME IInv, NEW c \in Clients, CloseRest(c) PROVE IInv'
  BY CloseOneInv DEF CloseRest

(***************************************************************************)
(* acceptLoop                                                              *)
(***************************************************************************)
\* A connection that is turned away was never on the books.
LEMMA RejectKeeps ==
    ASSUME IInv, NEW c \in Clients, serve[c] = "new", serve' = [serve EXCEPT ![c] = "rejected"],
           accept' \in {"accept", "returned"}, accept # "count",
           UNCHANGED <<conns, activeConns, wg, deadline, once, stopping, stop, late>>
    PROVE  IInv'
<1>1. /\ serve' \in [Clients -> ServeStates] /\ serve'[c] = "rejected"
      /\ \A d \in Clients \ {c} : serve'[d] = serve[d]
  BY DEF ServeStates, IInv, TypeInv
<1>2. Counted' = Counted
  BY <1>1 DEF Counted
<1>3. Running' = Running
  BY <1>1 DEF Running, RunStates
<1>4. Uncounted = {} /\ Uncounted' = {}
  BY DEF Uncounted
<1>5. TypeInv'
  BY <1>1 DEF IInv, TypeInv, AcceptStates
<1>6. Books'
  BY <1>2, <1>4 DEF IInv, Books
<1>7. Draining'
  BY <1>1, <1>3 DEF IInv, Draining, TypeInv
<1> QED
  BY <1>5, <1>6, <1>7 DEF IInv

LEMMA AcceptInv == ASSUME IInv, NEW c \in Clients, Accept(c) PROVE IInv'
<1>1. CASE AtLimit
  BY <1>1, RejectKeeps DEF Accept
<1>2. CASE ~AtLimit
  <2>1. accept = "accept" /\ accept' = "register" /\ accepted' = c /\ serve' = serve /\ serve[c] = "new"
    BY <1>2 DEF Accept
  <2>2. Counted' = Counted /\ Running' = Running
    BY <2>1 DEF Counted, Running
  <2>3. Uncounted = {} /\ Uncounted' = {}
    BY <2>1 DEF Uncounted
  <2>4. MaxConnections > 0 => activeConns' < MaxConnections
    BY <1>2, ServerAssumption DEF AtLimit, Accept, IInv, TypeInv
  <2>5. TypeInv'
    BY <2>1 DEF IInv, TypeInv, Accept, AcceptStates
  <2>6. Books'
    BY <2>1, <2>2, <2>3, <2>4 DEF IInv, Books, Accept
  <2>7. Draining'
    BY <2>1, <2>2 DEF IInv, Draining, Accept
  <2> QED
    BY <2>5, <2>6, <2>7 DEF IInv
<1> QED
  BY <1>1, <1>2

LEMMA AcceptFailsInv == ASSUME IInv, AcceptFails PROVE IInv'
<1>1. Counted' = Counted /\ Running' = Running /\ Uncounted = {} /\ Uncounted' = {}
  BY DEF AcceptFails, Counted, Running, Uncounted
<1>2. TypeInv'
  BY DEF IInv, TypeInv, AcceptFails, AcceptStates
<1>3. Books'
  BY <1>1 DEF IInv, Books, AcceptFails
<1>4. Draining'
  BY <1>1 DEF IInv, Draining, AcceptFails
<1> QED
  BY <1>2, <1>3, <1>4 DEF IInv

LEMMA RegisterInv == ASSUME IInv, Register PROVE IInv'
<1>1. accepted \in Clients /\ serve[accepted] = "new" /\ accept = "register" /\ Uncounted = {}
  BY DEF Register, IInv, TypeInv, Books, Uncounted
<1>2. CASE stopping
  BY <1>1, <1>2, RejectKeeps DEF Register
<1>3. CASE ~stopping
  <2>1. /\ accept' = "count" /\ accepted' = accepted /\ conns' = conns \cup {accepted}
        /\ serve' = serve /\ once' = once /\ activeConns' = activeConns
    BY <1>3 DEF Register
  <2>2. Counted' = Counted /\ Running' = Running /\ Uncounted' = {accepted}
    BY <2>1 DEF Counted, Running, Uncounted
  <2>3. accepted \notin Counted /\ accepted \notin once /\ accepted \notin conns
    BY <1>1 DEF Counted, IInv, Books
  <2>4. once \in SUBSET Counted /\ conns = Counted \ once
    BY <1>1 DEF IInv, Books
  <2>5. Cardinality(conns) = Cardinality(Counted) - Cardinality(once)
    <3>1. Counted \cap once = once /\ IsFiniteSet(Counted)
      BY <2>4, CountedFinite, SubsetsFinite
    <3> QED
      BY <2>4, <3>1, FS_Difference
  <2>6. MaxConnections > 0 => Cardinality(conns) < MaxConnections
    BY <1>1, <2>5 DEF IInv, Books
  <2>7. conns \in SUBSET Clients
    BY DEF IInv, TypeInv
  <2>8. Cardinality(conns') = Cardinality(conns) + 1 /\ Cardinality(conns) \in Nat
    BY <1>1, <2>1, <2>3, <2>7, AddOne, SubsetsFinite
  <2>9. MaxConnections > 0 => Cardinality(conns') <= MaxConnections
    BY <2>6, <2>8, ServerAssumption
  <2>10. conns' = (Counted' \cup Uncounted') \ once'
    BY <2>1, <2>2, <2>3, <2>4
  <2>11. Books'
    BY <1>1, <2>1, <2>2, <2>4, <2>9, <2>10 DEF IInv, Books
  <2>12. TypeInv'
    BY <1>1, <2>1 DEF IInv, TypeInv, Register, AcceptStates
  <2>13. Draining'
    <3>1. stop' = stop /\ stop = "running" /\ wg' = wg
      BY <1>3 DEF Register, IInv, Draining
    <3> QED
      BY <2>2, <3>1 DEF IInv, Draining
  <2> QED
    BY <2>11, <2>12, <2>13 DEF IInv
<1> QED
  BY <1>2, <1>3

LEMMA CountInv == ASSUME IInv, Count PROVE IInv'
<1>1. accepted \in Clients /\ serve[accepted] = "new" /\ accept = "count" /\ accept' = "accept"
  BY DEF Count, IInv, TypeInv, Books
<1>2. /\ serve' \in [Clients -> ServeStates] /\ serve'[accepted] = "loop"
      /\ \A d \in Clients \ {accepted} : serve'[d] = serve[d]
  BY <1>1 DEF Count, ServeStates, IInv, TypeInv
<1>3. Counted' = Counted \cup {accepted} /\ accepted \notin Counted
  BY <1>1, <1>2 DEF Counted
<1>4. Running' = Running \cup {accepted} /\ accepted \notin Running
  BY <1>1, <1>2 DEF Running, RunStates
<1>5. Uncounted = {accepted} /\ Uncounted' = {}
  BY <1>1 DEF Uncounted
<1>6. Cardinality(Counted') = Cardinality(Counted) + 1 /\ Cardinality(Running') = Cardinality(Running) + 1
  BY <1>1, <1>3, <1>4, CountedFinite, AddOne
<1>7. Cardinality(Counted) \in Nat /\ Cardinality(once) \in Nat
  BY CountedFinite, SubsetsFinite DEF IInv, TypeInv
<1>8. TypeInv'
  BY <1>1, <1>2 DEF IInv, TypeInv, Count, AcceptStates
<1>9. activeConns' = Cardinality(Counted') - Cardinality(once')
  BY <1>6, <1>7 DEF IInv, Books, Count
<1>10. Books'
  BY <1>1, <1>3, <1>5, <1>9 DEF IInv, Books, Count
<1>11. Draining'
  BY <1>2, <1>6 DEF IInv, Draining, Count, TypeInv
<1> QED
  BY <1>8, <1>10, <1>11 DEF IInv

(***************************************************************************)
(* Stop                                                                    *)
(***************************************************************************)
LEMMA StopBeginInv == ASSUME IInv, StopBegin PROVE IInv'
<1>1. Stays
  BY DEF StopBegin, Stays
<1>2. Books' /\ wg' = Cardinality(Running')
  BY <1>1, StaysKeep
<1>3. TypeInv'
  BY DEF IInv, TypeInv, StopBegin, StopStates
<1>4. Draining'
  BY <1>2 DEF Draining, StopBegin
<1> QED
  BY <1>2, <1>3, <1>4 DEF IInv

LEMMA PokeInv == ASSUME IInv, Poke PROVE IInv'
<1>1. Stays
  BY DEF Poke, Stays
<1>2. Books' /\ wg' = Cardinality(Running')
  BY <1>1, StaysKeep
<1>3. deadline' \in [Clients -> {"none", "later", "now"}] /\ \A c \in conns : deadline'[c] = "now"
  BY DEF Poke, IInv, TypeInv
<1>4. TypeInv'
  BY <1>3 DEF IInv, TypeInv, Poke, StopStates
<1>5. stopping' /\ conns' = conns /\ stop' = "draining"
  BY DEF Poke, IInv, Draining
<1>6. Draining'
  BY <1>2, <1>3, <1>5 DEF Draining
<1> QED
  BY <1>2, <1>4, <1>6 DEF IInv

\* wg is 0: no goroutine runs.
LEMMA DrainedInv == ASSUME IInv, Drained PROVE IInv'
<1>1. Stays
  BY DEF Drained, Stays
<1>2. Books' /\ wg' = Cardinality(Running')
  BY <1>1, StaysKeep
<1>3. TypeInv'
  BY DEF IInv, TypeInv, Drained, StopStates
<1>4. Running = {}
  BY CountedFinite, NoneLeft DEF Drained, IInv, Draining
<1>5. \A c \in Clients : serve[c] \notin {"read", "handle"}
  BY <1>4 DEF Running, RunStates
<1>6. Draining'
  BY <1>2, <1>5 DEF Drained, IInv, Draining
<1> QED
  BY <1>2, <1>3, <1>6 DEF IInv

LEMMA DrainTimeoutInv == ASSUME IInv, DrainTimeout PROVE IInv'
<1>1. Stays
  BY DEF DrainTimeout, Stays
<1>2. Books' /\ wg' = Cardinality(Running')
  BY <1>1, StaysKeep
<1>3. TypeInv'
  BY DEF IInv, TypeInv, DrainTimeout, StopStates
<1>4. Draining'
  BY <1>2 DEF DrainTimeout, IInv, Draining
<1> QED
  BY <1>2, <1>3, <1>4 DEF IInv

LEMMA StopReturnsInv == ASSUME IInv, StopReturns PROVE IInv'
<1>1. Stays
  BY DEF StopReturns, Stays
<1>2. Books' /\ wg' = Cardinality(Running')
  BY <1>1, StaysKeep
<1>3. TypeInv'
  BY DEF IInv, TypeInv, StopReturns, StopStates
<1>4. Draining'
  BY <1>2 DEF StopReturns, IInv, Draining
<1> QED
  BY <1>2, <1>3, <1>4 DEF IInv

LEMMA ClientSendsInv == ASSUME IInv, NEW c \in Clients, ClientSends(c) PROVE IInv'
<1>1. Stays /\ UNCHANGED <<deadline, stopping, stop, late>>
  BY DEF ClientSends, Stays
<1>2. TypeInv'
  BY <1>1 DEF Stays, IInv, TypeInv
<1> QED
  BY <1>1, <1>2, StaysSafe

(***************************************************************************)
(* The theorems                                                            *)
(***************************************************************************)
LEMMA NextInv == ASSUME IInv, [Next]_vars PROVE IInv'
<1>1. CASE UNCHANGED vars
  <2>1. Stays /\ UNCHANGED <<deadline, stopping, stop, late>>
    BY <1>1 DEF vars, Stays
  <2>2. TypeInv'
    BY <2>1 DEF Stays, IInv, TypeInv
  <2> QED
    BY <2>1, <2>2, StaysSafe
<1>2. ASSUME NEW c \in Clients,
             Accept(c) \/ Serve(c) \/ CloseSlow(c) \/ CloseRest(c) \/ ClientSends(c) \/ HangsUp(c)
      PROVE  IInv'
  <2>1. CASE Serve(c)
    BY <2>1, SetDeadlineInv, CheckInv, ReadInv, IdleInv, HandleInv, ReturnInv DEF Serve
  <2> QED
    BY <1>2, <2>1, AcceptInv, CloseSlowInv, CloseRestInv, ClientSendsInv, HangsUpInv
<1>3. CASE AcceptFails \/ Register \/ Count
  BY <1>3, AcceptFailsInv, RegisterInv, CountInv
<1>4. CASE StopBegin \/ Poke \/ Drained \/ DrainTimeout \/ StopReturns
  BY <1>4, StopBeginInv, PokeInv, DrainedInv, DrainTimeoutInv, StopReturnsInv
<1> QED
  BY <1>1, <1>2, <1>3, <1>4 DEF Next

LEMMA Invariant == Spec => []IInv
<1>1. Init => IInv
  BY InitInv
<1>2. IInv /\ [Next]_vars => IInv'
  BY NextInv
<1> QED
  BY <1>1, <1>2, PTL DEF Spec

\* The counter of connections is exact and the limit is kept, for any number of
\* clients and any limit (server.go: acceptLoop, closeConn).
THEOREM SlotsAreRight == Spec => []SlotsRight
<1>1. IInv => SlotsRight
  BY DEF IInv, Books, SlotsRight, CountExact, LimitHolds
<1> QED
  BY <1>1, Invariant, PTL

\* Stop never waits for a goroutine that waits for data: whoever set its deadline last,
\* it is over (server.go: serve and Stop).
THEOREM NoWakeUpIsLost == Spec => []NoLostWakeUp
<1>1. IInv => NoLostWakeUp
  BY DEF IInv, Draining, NoLostWakeUp
<1> QED
  BY <1>1, Invariant, PTL

\* When Stop has returned within its time, no handler runs, and none ever will: not even
\* that of a connection which was accepted, and not counted, when wg was 0 (server.go).
THEOREM QuietAfterStopped == Spec => []QuietAfterStop
<1>1. IInv => QuietAfterStop
  BY DEF IInv, Draining, QuietAfterStop
<1> QED
  BY <1>1, Invariant, PTL

(***************************************************************************)
(* The replica.  What it has and what is on its way to it make what the    *)
(* master has: the invariant follows the lines of its connection from the  *)
(* full synchronisation on.                                                *)
(***************************************************************************)
\* Conns is an interval.
FewThreads == IsFiniteSet(Threads) /\ MaxBreaks \in Nat

CopyCells == CopyValues \cup {None}
CopyStores == [Copy!Kinds -> [CopyKeys -> CopyCells]]

\* Lines that the master prints.
Lines ==
    {l \in [what : {"FULLSYNC", "DONE", "SET", "DEL"}, kind : Copy!Kinds, key : CopyKeys \cup {None}, value : CopyCells] :
        l.what \in {"SET", "DEL"} => l.key \in CopyKeys}

\* What a thread may have yet to do.
ForwardStates == [pc : {"idle", "vector", "forward", "sweep"}, line : Lines \cup {Copy!Sign("")}]

CopyTypes ==
    /\ store \in CopyStores /\ copy \in CopyStores
    /\ forward \in [Threads -> ForwardStates]
    /\ registered \in Copy!Conns \cup {Copy!NoConn}
    /\ session \in Copy!Conns \cup {Copy!NoConn}
    /\ dialled \in Copy!Conns \cup {Copy!NoConn}
    /\ psync \in [Copy!Conns -> {"none", "asked", "walk", "returned"}]
    /\ todo \in [Copy!Conns -> SUBSET Copy!Items]
    /\ stream \in [Copy!Conns -> Seq(Lines)]
    /\ link \in [Copy!Conns -> {"new", "up", "broken", "closed"}]
    /\ torn \in SUBSET Copy!Items

\* The replica has one connection at a time, the last that it has dialled.
OneSession ==
    /\ session # Copy!NoConn => session = dialled
    /\ \A c \in Copy!Conns : /\ link[c] = "up" => session = c
                             /\ psync[c] = "none" <=> c > dialled
                             /\ c > dialled => link[c] = "new" /\ stream[c] = <<>>
                             /\ psync[c] = "returned" => todo[c] = {}

\* A full synchronisation registers when it ends.  The line of a write that has not raced
\* says what the store has.
Busy(t) == forward[t].pc \in {"vector", "forward"}
Told ==
    /\ registered # Copy!NoConn => psync[registered] = "returned"
    /\ \A t \in Threads : Busy(t) =>
           /\ forward[t].line \in Lines /\ forward[t].line.what \in {"SET", "DEL"}
           /\ \/ Copy!Item(forward[t].line) \in torn
              \/ forward[t].line.value = store[forward[t].line.kind][forward[t].line.key]

\* Line l sets key k of a store.
Hits(l, kind, k) == l.what = "FULLSYNC" \/ (l.what \in {"SET", "DEL"} /\ l.kind = kind /\ l.key = k)
Gives(l) == IF l.what = "FULLSYNC" THEN None ELSE l.value

\* Lines s make v of b: the last of them that sets the key gives v.
Makes(s, b, kind, k, v) ==
    \/ \E i \in 1..Len(s) : /\ Hits(s[i], kind, k) /\ v = Gives(s[i])
                            /\ \A j \in (i + 1)..Len(s) : ~Hits(s[j], kind, k)
    \/ v = b /\ \A j \in 1..Len(s) : ~Hits(s[j], kind, k)

\* What a replica that reads all the lines on its way will have.
WillHave(c, kind, k, v) == Makes(stream[c], copy[kind][k], kind, k, v)

\* It will have the item of the master, or a thread has yet to forward it, or it has raced.
Settled(c, kind, k) ==
    \/ <<kind, k>> \in torn
    \/ Copy!Written(<<kind, k>>)
    \/ WillHave(c, kind, k, store[kind][k])

\* While the master walks: what has been walked.  After that: everything.
Ahead ==
    \A c \in Copy!Conns : link[c] = "up" =>
        /\ psync[c] = "asked" => stream[c] = <<>>
        /\ psync[c] = "walk" =>
               \A kind \in Copy!Kinds, k \in CopyKeys :
                   IF <<kind, k>> \in todo[c] THEN WillHave(c, kind, k, None) ELSE Settled(c, kind, k)
        /\ psync[c] = "returned" =>
               /\ registered = c \/ torn = Copy!Items
               /\ \A kind \in Copy!Kinds, k \in CopyKeys : Settled(c, kind, k)

CopyInv == CopyTypes /\ OneSession /\ Told /\ Ahead

LEMMA CopyBasics ==
    ASSUME FewThreads
    PROVE  /\ \A c \in Copy!Conns : c \in Nat /\ c # Copy!NoConn
           /\ Copy!NoConn = 0 /\ Copy!Kinds = {"kv", "vec"}
           /\ Copy!Items = Copy!Kinds \X CopyKeys
<1>1. Cardinality(Threads) \in Nat
  BY FS_CardinalityType DEF FewThreads
<1>2. 1 + (1 + Cardinality(Threads)) * MaxBreaks \in Int
  BY <1>1 DEF FewThreads
<1> QED
  BY <1>2 DEF Copy!Conns, Copy!NoConn, Copy!Kinds, Copy!Items

(***************************************************************************)
(* Lines                                                                   *)
(***************************************************************************)
LEMMA OneLineMore ==
    ASSUME NEW s \in Seq(Lines), NEW l \in Lines
    PROVE  LET u == s \o <<l>> IN
           /\ u \in Seq(Lines) /\ Len(u) = Len(s) + 1 /\ Len(s) \in Nat
           /\ \A i \in 1..Len(s) : u[i] = s[i]
           /\ u[Len(s) + 1] = l
  OBVIOUS

LEMMA NoLineMore == ASSUME NEW s \in Seq(Lines) PROVE s \o <<>> = s
  OBVIOUS

LEMMA MakesMore ==
    ASSUME NEW s \in Seq(Lines), NEW l \in Lines, NEW b, NEW kind, NEW k, NEW v, NEW w,
           IF Hits(l, kind, k) THEN w = Gives(l) ELSE w = v /\ Makes(s, b, kind, k, v)
    PROVE  Makes(s \o <<l>>, b, kind, k, w)
<1> DEFINE u == s \o <<l>>
<1>1. /\ Len(u) = Len(s) + 1 /\ Len(s) \in Nat
      /\ \A i \in 1..Len(s) : u[i] = s[i]
      /\ u[Len(s) + 1] = l
  BY OneLineMore
<1> HIDE DEF u
<1>2. \A i \in 1..Len(u) : i \in 1..Len(s) \/ i = Len(s) + 1
  BY <1>1
<1>3. CASE Hits(l, kind, k)
  <2>1. Len(u) \in 1..Len(u) /\ \A j \in (Len(u) + 1)..Len(u) : FALSE
    BY <1>1
  <2> QED
    BY <1>1, <1>3, <2>1 DEF Makes
<1>4. CASE ~Hits(l, kind, k)
  <2>1. CASE \E i \in 1..Len(s) : /\ Hits(s[i], kind, k) /\ v = Gives(s[i])
                                  /\ \A j \in (i + 1)..Len(s) : ~Hits(s[j], kind, k)
    <3>1. PICK i \in 1..Len(s) : /\ Hits(s[i], kind, k) /\ v = Gives(s[i])
                                 /\ \A j \in (i + 1)..Len(s) : ~Hits(s[j], kind, k)
      BY <2>1
    <3>2. i \in 1..Len(u) /\ \A j \in (i + 1)..Len(u) :
             (j \in (i + 1)..Len(s) /\ j \in 1..Len(s)) \/ j = Len(s) + 1
      BY <1>1
    <3>3. \A j \in (i + 1)..Len(u) : ~Hits(u[j], kind, k)
      BY <1>1, <1>4, <3>1, <3>2
    <3> QED
      BY <1>1, <1>4, <3>1, <3>2, <3>3 DEF Makes
  <2>2. CASE v = b /\ \A j \in 1..Len(s) : ~Hits(s[j], kind, k)
    BY <1>1, <1>2, <1>4, <2>2 DEF Makes
  <2> QED
    BY <1>4, <2>1, <2>2 DEF Makes
<1> QED
  BY <1>3, <1>4 DEF u

LEMMA MakesLess ==
    ASSUME NEW s \in Seq(Lines), s # <<>>, NEW b, NEW kind, NEW k, NEW v, Makes(s, b, kind, k, v),
           NEW a, a = IF Hits(Head(s), kind, k) THEN Gives(Head(s)) ELSE b
    PROVE  Makes(Tail(s), a, kind, k, v)
<1> DEFINE u == Tail(s)
<1>1. /\ Len(s) \in Nat /\ Len(s) # 0 /\ Head(s) = s[1] /\ Len(u) = Len(s) - 1
      /\ \A i \in 1..Len(u) : u[i] = s[i + 1]
  BY HeadTailProperties, EmptySeq
<1> HIDE DEF u
<1>2. \A j \in 1..Len(u) : j + 1 \in 2..Len(s) /\ j + 1 \in 1..Len(s)
  BY <1>1
<1>3. CASE \E i \in 1..Len(s) : /\ Hits(s[i], kind, k) /\ v = Gives(s[i])
                                /\ \A j \in (i + 1)..Len(s) : ~Hits(s[j], kind, k)
  <2>1. PICK i \in 1..Len(s) : /\ Hits(s[i], kind, k) /\ v = Gives(s[i])
                               /\ \A j \in (i + 1)..Len(s) : ~Hits(s[j], kind, k)
    BY <1>3
  <2>2. CASE i = 1
    <3>1. \A j \in 1..Len(u) : ~Hits(u[j], kind, k)
      BY <1>1, <1>2, <2>1, <2>2
    <3> QED
      BY <1>1, <2>1, <2>2, <3>1 DEF Makes, u
  <2>3. CASE i # 1
    <3>1. i - 1 \in 1..Len(u) /\ u[i - 1] = s[i]
      BY <1>1, <2>1, <2>3
    <3>2. \A j \in ((i - 1) + 1)..Len(u) : j \in 1..Len(u) /\ j + 1 \in (i + 1)..Len(s)
      BY <1>1, <2>1
    <3>3. \A j \in ((i - 1) + 1)..Len(u) : ~Hits(u[j], kind, k)
      BY <1>1, <2>1, <3>2
    <3> QED
      BY <2>1, <3>1, <3>3 DEF Makes, u
  <2> QED
    BY <2>2, <2>3
<1>4. CASE v = b /\ \A j \in 1..Len(s) : ~Hits(s[j], kind, k)
  <2>1. ~Hits(Head(s), kind, k) /\ \A j \in 1..Len(u) : ~Hits(u[j], kind, k)
    BY <1>1, <1>2, <1>4
  <2> QED
    BY <1>4, <2>1 DEF Makes, u
<1> QED
  BY <1>3, <1>4 DEF Makes

LEMMA MakesNothing ==
    ASSUME NEW b, NEW kind, NEW k, NEW v, Makes(<<>>, b, kind, k, v)
    PROVE  v = b
<1>1. Len(<<>>) = 0 /\ \A i \in 1..0 : FALSE
  OBVIOUS
<1> QED
  BY <1>1 DEF Makes

\* One value of a store is replaced.
Replaces(d, e, kind, k, v) == e = [d EXCEPT ![kind][k] = v]

LEMMA ReplacesOne ==
    ASSUME NEW d \in CopyStores, NEW kind \in Copy!Kinds, NEW k \in CopyKeys, NEW v \in CopyCells,
           NEW e, Replaces(d, e, kind, k, v)
    PROVE  /\ e \in CopyStores
           /\ \A x \in Copy!Kinds, j \in CopyKeys : e[x][j] = IF x = kind /\ j = k THEN v ELSE d[x][j]
<1> DEFINE f == [d[kind] EXCEPT ![k] = v]
<1>1. f \in [CopyKeys -> CopyCells] /\ \A j \in CopyKeys : f[j] = IF j = k THEN v ELSE d[kind][j]
  BY DEF CopyStores
<1>2. e = [d EXCEPT ![kind] = f]
  BY DEF Replaces
<1> HIDE DEF f
<1> QED
  BY <1>1, <1>2 DEF CopyStores

LEMMA AppliedIs ==
    ASSUME CopyTypes, NEW l \in Lines
    PROVE  /\ Copy!Applied(l) \in CopyStores
           /\ \A kind \in Copy!Kinds, k \in CopyKeys :
                Copy!Applied(l)[kind][k] = IF Hits(l, kind, k) THEN Gives(l) ELSE copy[kind][k]
<1>1. /\ l.what \in {"FULLSYNC", "DONE", "SET", "DEL"} /\ l.kind \in Copy!Kinds /\ l.value \in CopyCells
      /\ l.what \in {"SET", "DEL"} => l.key \in CopyKeys
      /\ copy \in CopyStores
  BY DEF Lines, CopyTypes
<1>2. CASE l.what = "FULLSYNC"
  BY <1>2 DEF Copy!Applied, Copy!Empty, Hits, Gives, CopyStores, CopyCells
<1>3. CASE l.what = "DONE"
  BY <1>1, <1>3 DEF Copy!Applied, Hits
<1>4. CASE l.what \in {"SET", "DEL"}
  <2>1. Copy!Applied(l) = [copy EXCEPT ![l.kind][l.key] = l.value]
    BY <1>4 DEF Copy!Applied
  <2>2. PICK e, kind, k, v : e = Copy!Applied(l) /\ kind = l.kind /\ k = l.key /\ v = l.value
    OBVIOUS
  <2>3. /\ e \in CopyStores
        /\ \A x \in Copy!Kinds, j \in CopyKeys : e[x][j] = IF x = kind /\ j = k THEN v ELSE copy[x][j]
    <3>1. kind \in Copy!Kinds /\ k \in CopyKeys /\ v \in CopyCells /\ Replaces(copy, e, kind, k, v)
      BY <1>1, <1>4, <2>1, <2>2 DEF Replaces
    <3> QED
      BY <1>1, <3>1, ReplacesOne
  <2> QED
    BY <1>4, <2>2, <2>3 DEF Hits, Gives
<1> QED
  BY <1>1, <1>2, <1>3, <1>4

LEMMA SignsAreLines == Copy!Sign("FULLSYNC") \in Lines /\ Copy!Sign("DONE") \in Lines
  BY DEF Copy!Sign, Copy!Line, Lines, Copy!Kinds, CopyCells

\* What Printed does, one line at a time.
LEMMA PrintedIs ==
    ASSUME CopyTypes, NEW c \in Copy!Conns, NEW l \in Lines, Copy!Printed(c, <<l>>)
    PROVE  /\ stream' \in [Copy!Conns -> Seq(Lines)]
           /\ \A d \in Copy!Conns : d # c \/ link[c] # "up" => stream'[d] = stream[d]
           /\ link[c] = "up" => stream'[c] = stream[c] \o <<l>>
<1>1. stream \in [Copy!Conns -> Seq(Lines)] /\ stream[c] \o <<l>> \in Seq(Lines)
  BY OneLineMore DEF CopyTypes
<1> QED
  BY <1>1 DEF Copy!Printed

(***************************************************************************)
(* The master                                                              *)
(***************************************************************************)
LEMMA CopyInit == ASSUME FewThreads, Copy!Init PROVE CopyInv
<1>1. Copy!Empty \in CopyStores
  BY DEF Copy!Empty, CopyStores, CopyCells
<1>2. Copy!Nothing \in ForwardStates /\ Copy!Nothing.pc = "idle"
  BY DEF Copy!Nothing, ForwardStates
<1>3. <<>> \in Seq(Lines)
  OBVIOUS
<1>4. CopyTypes
  BY <1>1, <1>2, <1>3, CopyBasics DEF Copy!Init, CopyTypes
<1>5. OneSession
  <2>1. \A c \in Copy!Conns : c > 0
    BY CopyBasics
  <2> QED
    BY <2>1 DEF Copy!Init, OneSession
<1>6. Told
  BY <1>2 DEF Copy!Init, Told, Busy
<1>7. Ahead
  BY DEF Copy!Init, Ahead
<1> QED
  BY <1>4, <1>5, <1>6, <1>7 DEF CopyInv

\* The connection that works is the newest.
LEMMA Newest ==
    ASSUME FewThreads, CopyInv, NEW c \in Copy!Conns, link[c] = "up"
    PROVE  session = c /\ dialled = c /\ c # Copy!NoConn /\ c \in Nat
  BY CopyBasics DEF CopyInv, OneSession

LEMMA Threads1 ==
    ASSUME CopyTypes, NEW t \in Threads, NEW r \in ForwardStates, forward' = [forward EXCEPT ![t] = r]
    PROVE  /\ forward' \in [Threads -> ForwardStates]
           /\ \A u \in Threads : forward'[u] = IF u = t THEN r ELSE forward[u]
           /\ \A item : Copy!Written(item)' <=>
                 \/ r.pc \in {"vector", "forward"} /\ Copy!Item(r.line) = item
                 \/ \E u \in Threads : u # t /\ Copy!Writing(u, item)
<1>1. forward \in [Threads -> ForwardStates]
  BY DEF CopyTypes
<1>2. forward' \in [Threads -> ForwardStates]
  BY <1>1
<1>3. \A u \in Threads : forward'[u] = IF u = t THEN r ELSE forward[u]
  BY <1>1
<1> QED
  BY <1>2, <1>3 DEF Copy!Written, Copy!Writing, Copy!Item

\* A write that sets one key, as its line says.
WriteOne(t, pc, new, line) ==
    /\ Copy!Writes(t, pc, new, line) /\ pc \in {"vector", "forward"}
    /\ new \in CopyStores /\ line \in Lines /\ line.what \in {"SET", "DEL"}
    /\ \A kind \in Copy!Kinds, k \in CopyKeys :
         new[kind][k] = IF kind = line.kind /\ k = line.key THEN line.value ELSE store[kind][k]

LEMMA CopyWrites ==
    ASSUME FewThreads, CopyInv, NEW t \in Threads, NEW pc, NEW new, NEW line, WriteOne(t, pc, new, line)
    PROVE  CopyInv'
<1> DEFINE item == Copy!Item(line)
<1>1. PICK r : r = [pc |-> pc, line |-> line]
  OBVIOUS
<1>2. /\ store' = new /\ forward[t].pc = "idle"
      /\ forward' = [forward EXCEPT ![t] = r]
      /\ torn' = IF Copy!Written(item) THEN torn \cup {item} ELSE torn
      /\ UNCHANGED <<copy, registered, psync, todo, stream, link, session, dialled>>
  BY <1>1 DEF WriteOne, Copy!Writes, Copy!Races
<1>3. /\ CopyTypes /\ new \in CopyStores /\ line \in Lines /\ line.what \in {"SET", "DEL"}
      /\ pc \in {"vector", "forward"}
      /\ \A kind \in Copy!Kinds, k \in CopyKeys :
           new[kind][k] = IF kind = line.kind /\ k = line.key THEN line.value ELSE store[kind][k]
  BY DEF WriteOne, CopyInv
<1>4. line.kind \in Copy!Kinds /\ line.key \in CopyKeys
  BY <1>3 DEF Lines
<1>5. item = <<line.kind, line.key>> /\ item \in Copy!Items
  BY <1>4, CopyBasics DEF Copy!Item
<1>6. r \in ForwardStates /\ r.pc = pc /\ r.line = line
  BY <1>1, <1>3 DEF ForwardStates
<1>7. /\ forward' \in [Threads -> ForwardStates]
      /\ \A u \in Threads : forward'[u] = IF u = t THEN r ELSE forward[u]
      /\ \A x : Copy!Written(x)' <=> x = item \/ \E u \in Threads : u # t /\ Copy!Writing(u, x)
  BY <1>2, <1>3, <1>6, Threads1
<1>8. \A x : Copy!Written(x) => \E u \in Threads : u # t /\ Copy!Writing(u, x)
  BY <1>2 DEF Copy!Written, Copy!Writing
<1>9. torn' \in SUBSET Copy!Items /\ torn \subseteq torn' /\ (Copy!Written(item) => item \in torn')
  BY <1>2, <1>3, <1>5 DEF CopyTypes
<1> HIDE DEF item
<1>10. CopyTypes'
  BY <1>2, <1>3, <1>7, <1>9 DEF CopyTypes
<1>11. OneSession'
  BY <1>2 DEF CopyInv, OneSession
<1>12. Told'
  <2>1. ASSUME NEW u \in Threads, Busy(u)'
        PROVE  /\ forward'[u].line \in Lines /\ forward'[u].line.what \in {"SET", "DEL"}
               /\ \/ Copy!Item(forward'[u].line) \in torn'
                  \/ forward'[u].line.value = store'[forward'[u].line.kind][forward'[u].line.key]
    <3>1. CASE u = t
      BY <1>2, <1>3, <1>4, <1>6, <1>7, <3>1
    <3>2. CASE u # t
      <4>1. PICK l : l = forward[u].line
        OBVIOUS
      <4>2. Busy(u) /\ forward'[u].line = l
        BY <1>7, <2>1, <3>2, <4>1 DEF Busy
      <4>3. /\ l \in Lines /\ l.what \in {"SET", "DEL"}
            /\ Copy!Item(l) \in torn \/ l.value = store[l.kind][l.key]
        BY <4>1, <4>2 DEF CopyInv, Told
      <4>4. l.kind \in Copy!Kinds /\ l.key \in CopyKeys
        BY <4>3 DEF Lines
      <4>5. CASE Copy!Item(l) = item
        <5>1. Copy!Written(item)
          BY <4>1, <4>2, <4>5 DEF Copy!Written, Copy!Writing, Busy
        <5> QED
          BY <1>9, <4>2, <4>3, <4>5, <5>1
      <4>6. CASE Copy!Item(l) # item
        <5>1. ~(l.kind = line.kind /\ l.key = line.key)
          BY <1>5, <4>6 DEF Copy!Item
        <5>2. new[l.kind][l.key] = store[l.kind][l.key]
          BY <1>3, <4>4, <5>1
        <5> QED
          BY <1>2, <1>9, <4>2, <4>3, <5>2
      <4> QED
        BY <4>5, <4>6
    <3> QED
      BY <3>1, <3>2
  <2>2. registered' # Copy!NoConn => psync'[registered'] = "returned"
    BY <1>2 DEF CopyInv, Told
  <2> QED
    BY <2>1, <2>2 DEF Told
<1>13. \A c \in Copy!Conns, kind \in Copy!Kinds, k \in CopyKeys :
          Settled(c, kind, k) => Settled(c, kind, k)'
  <2> SUFFICES ASSUME NEW c \in Copy!Conns, NEW kind \in Copy!Kinds, NEW k \in CopyKeys, Settled(c, kind, k)
               PROVE  Settled(c, kind, k)'
    OBVIOUS
  <2>1. CASE kind = line.kind /\ k = line.key
    BY <1>5, <1>7, <2>1 DEF Settled
  <2>2. CASE ~(kind = line.kind /\ k = line.key)
    <3>1. new[kind][k] = store[kind][k]
      BY <1>3, <2>2
    <3> QED
      BY <1>2, <1>7, <1>8, <1>9, <3>1 DEF Settled, WillHave
  <2> QED
    BY <2>1, <2>2
<1>14. Ahead'
  <2>1. torn = Copy!Items => torn' = Copy!Items
    BY <1>9
  <2>2. \A c \in Copy!Conns, kind \in Copy!Kinds, k \in CopyKeys :
           WillHave(c, kind, k, None)' <=> WillHave(c, kind, k, None)
    BY <1>2 DEF WillHave
  <2> QED
    BY <1>2, <1>13, <2>1, <2>2 DEF CopyInv, Ahead
<1> QED
  BY <1>10, <1>11, <1>12, <1>14 DEF CopyInv

LEMMA CopySet ==
    ASSUME FewThreads, CopyInv, NEW t \in Threads, NEW kind \in Copy!Kinds, NEW k \in CopyKeys, NEW v \in CopyValues, Copy!Set(t, kind, k, v)
    PROVE  CopyInv'
<1> DEFINE line == Copy!Line("SET", kind, k, v)
<1>1. PICK new : new = [store EXCEPT ![kind][k] = v]
  OBVIOUS
<1>2. /\ v \in CopyCells /\ kind \in Copy!Kinds /\ store \in CopyStores
      /\ Replaces(store, new, kind, k, v)
  BY <1>1 DEF CopyCells, CopyInv, CopyTypes, Replaces, Copy!Kinds
<1>3. new \in CopyStores /\ \A x \in Copy!Kinds, j \in CopyKeys :
         new[x][j] = IF x = kind /\ j = k THEN v ELSE store[x][j]
  BY <1>2, ReplacesOne
<1>4. line \in Lines /\ line.what = "SET" /\ line.kind = kind /\ line.key = k /\ line.value = v
  BY <1>2 DEF Copy!Line, Lines
<1>5. Copy!Writes(t, "forward", new, line)
  BY <1>1 DEF Copy!Set
<1> HIDE DEF line
<1>6. WriteOne(t, "forward", new, line)
  BY <1>3, <1>4, <1>5 DEF WriteOne
<1> QED
  BY <1>6, CopyWrites

LEMMA CopyDel ==
    ASSUME FewThreads, CopyInv, NEW t \in Threads, NEW k \in CopyKeys, Copy!Del(t, k)
    PROVE  CopyInv'
<1> DEFINE line == Copy!Line("DEL", "kv", k, None)
<1>1. PICK new : new = [store EXCEPT !["kv"][k] = None]
  OBVIOUS
<1>2. /\ None \in CopyCells /\ "kv" \in Copy!Kinds /\ store \in CopyStores
      /\ Replaces(store, new, "kv", k, None)
  BY <1>1 DEF CopyCells, CopyInv, CopyTypes, Replaces, Copy!Kinds
<1>3. new \in CopyStores /\ \A x \in Copy!Kinds, j \in CopyKeys :
         new[x][j] = IF x = "kv" /\ j = k THEN None ELSE store[x][j]
  BY <1>2, ReplacesOne
<1>4. line \in Lines /\ line.what = "DEL" /\ line.kind = "kv" /\ line.key = k /\ line.value = None
  BY <1>2 DEF Copy!Line, Lines
<1>5. Copy!Writes(t, "vector", new, line)
  BY <1>1 DEF Copy!Del
<1> HIDE DEF line
<1>6. WriteOne(t, "vector", new, line)
  BY <1>3, <1>4, <1>5 DEF WriteOne
<1> QED
  BY <1>6, CopyWrites

LEMMA CopyVSimDel ==
    ASSUME FewThreads, CopyInv, NEW t \in Threads, NEW k \in CopyKeys, Copy!VSimDel(t, k)
    PROVE  CopyInv'
<1> DEFINE line == Copy!Line("DEL", "vec", k, None)
<1>1. PICK new : new = [store EXCEPT !["vec"][k] = None]
  OBVIOUS
<1>2. /\ None \in CopyCells /\ "vec" \in Copy!Kinds /\ store \in CopyStores
      /\ Replaces(store, new, "vec", k, None)
  BY <1>1 DEF CopyCells, CopyInv, CopyTypes, Replaces, Copy!Kinds
<1>3. new \in CopyStores /\ \A x \in Copy!Kinds, j \in CopyKeys :
         new[x][j] = IF x = "vec" /\ j = k THEN None ELSE store[x][j]
  BY <1>2, ReplacesOne
<1>4. line \in Lines /\ line.what = "DEL" /\ line.kind = "vec" /\ line.key = k /\ line.value = None
  BY <1>2 DEF Copy!Line, Lines
<1>5. Copy!Writes(t, "forward", new, line)
  BY <1>1 DEF Copy!VSimDel
<1> HIDE DEF line
<1>6. WriteOne(t, "forward", new, line)
  BY <1>3, <1>4, <1>5 DEF WriteOne
<1> QED
  BY <1>6, CopyWrites

LEMMA CopyDelVector ==
    ASSUME FewThreads, CopyInv, NEW t \in Threads, Copy!DelVector(t)
    PROVE  CopyInv'
<1>1. PICK k, item : k = forward[t].line.key /\ item = <<"vec", k>>
  OBVIOUS
<1>2. PICK r : r = [forward[t] EXCEPT !.pc = "forward"]
  OBVIOUS
<1>3. /\ forward[t].pc = "vector"
      /\ store' = [store EXCEPT !["vec"][k] = None]
      /\ forward' = [forward EXCEPT ![t] = r]
      /\ torn' = IF store["vec"][k] # None /\ (Copy!Written(item) \/ ~Copy!ToCome(item))
                    THEN torn \cup {item} ELSE torn
      /\ UNCHANGED <<copy, registered, psync, todo, stream, link, session, dialled>>
  BY <1>1, <1>2 DEF Copy!DelVector, Copy!Races
<1>4. CopyTypes /\ forward[t] \in ForwardStates /\ forward[t].line \in Lines /\ k \in CopyKeys
  BY <1>1, <1>3 DEF CopyInv, CopyTypes, Told, Busy, Lines
<1>5. r \in ForwardStates /\ r.pc = "forward" /\ r.line = forward[t].line
  BY <1>2, <1>4 DEF ForwardStates
<1>6. /\ forward' \in [Threads -> ForwardStates]
      /\ \A u \in Threads : forward'[u].line = forward[u].line /\ (Busy(u)' <=> Busy(u))
  BY <1>3, <1>4, <1>5, Threads1 DEF Busy
<1>7. \A x : Copy!Written(x)' <=> Copy!Written(x)
  BY <1>6 DEF Copy!Written, Copy!Writing, Copy!Item, Busy
<1>8. PICK new : new = store'
  OBVIOUS
<1>9. /\ new \in CopyStores
      /\ \A kind \in Copy!Kinds, j \in CopyKeys :
            new[kind][j] = IF kind = "vec" /\ j = k THEN None ELSE store[kind][j]
  <2>1. "vec" \in Copy!Kinds /\ None \in CopyCells /\ store \in CopyStores /\ Replaces(store, new, "vec", k, None)
    BY <1>3, <1>4, <1>8 DEF CopyTypes, Copy!Kinds, CopyCells, Replaces
  <2> QED
    BY <1>4, <2>1, ReplacesOne
<1>10. item \in Copy!Items /\ torn' \in SUBSET Copy!Items /\ torn \subseteq torn'
  BY <1>1, <1>3, <1>4, CopyBasics DEF CopyTypes
\* An item that is not marked is as before, or nobody writes it and the copy has yet to come to it.
<1>11. \A kind \in Copy!Kinds, j \in CopyKeys :
          \/ <<kind, j>> \in torn'
          \/ new[kind][j] = store[kind][j]
          \/ <<kind, j>> = item /\ ~Copy!Written(<<kind, j>>) /\ Copy!ToCome(<<kind, j>>)
  BY <1>1, <1>3, <1>9
<1>12. CopyTypes'
  BY <1>3, <1>4, <1>6, <1>8, <1>9, <1>10 DEF CopyTypes
<1>13. OneSession'
  BY <1>3 DEF CopyInv, OneSession
<1>14. Told'
  <2>1. ASSUME NEW u \in Threads, Busy(u)'
        PROVE  /\ forward'[u].line \in Lines /\ forward'[u].line.what \in {"SET", "DEL"}
               /\ \/ Copy!Item(forward'[u].line) \in torn'
                  \/ forward'[u].line.value = store'[forward'[u].line.kind][forward'[u].line.key]
    <3>1. PICK l : l = forward[u].line
      OBVIOUS
    <3>2. /\ Busy(u) /\ forward'[u].line = l /\ l \in Lines /\ l.what \in {"SET", "DEL"}
          /\ Copy!Item(l) \in torn \/ l.value = store[l.kind][l.key]
      BY <1>6, <2>1, <3>1 DEF CopyInv, Told
    <3>3. l.kind \in Copy!Kinds /\ l.key \in CopyKeys /\ Copy!Item(l) = <<l.kind, l.key>>
      BY <3>2 DEF Lines, Copy!Item
    <3>4. Copy!Written(<<l.kind, l.key>>)
      BY <3>1, <3>2, <3>3 DEF Copy!Written, Copy!Writing, Busy
    <3>5. <<l.kind, l.key>> \in torn' \/ new[l.kind][l.key] = store[l.kind][l.key]
      BY <1>11, <3>3, <3>4
    <3> QED
      BY <1>8, <1>10, <3>2, <3>3, <3>5
  <2>2. registered' # Copy!NoConn => psync'[registered'] = "returned"
    BY <1>3 DEF CopyInv, Told
  <2> QED
    BY <2>1, <2>2 DEF Told
<1>15. ASSUME NEW c \in Copy!Conns, link[c] = "up", psync[c] \in {"walk", "returned"},
              NEW kind \in Copy!Kinds, NEW j \in CopyKeys, <<kind, j>> \notin todo[c], Settled(c, kind, j)
       PROVE  Settled(c, kind, j)'
  <2>1. dialled = c /\ c # Copy!NoConn
    BY <1>15, Newest
  <2>2. ~Copy!ToCome(<<kind, j>>)
    BY <1>15, <2>1 DEF Copy!ToCome
  <2>3. <<kind, j>> \in torn' \/ new[kind][j] = store[kind][j]
    BY <1>11, <2>2
  <2> QED
    BY <1>3, <1>7, <1>8, <1>10, <1>15, <2>3 DEF Settled, WillHave
<1>16. Ahead'
  <2>1. torn = Copy!Items => torn' = Copy!Items
    BY <1>10
  <2>2. \A c \in Copy!Conns, kind \in Copy!Kinds, j \in CopyKeys :
           WillHave(c, kind, j, None)' <=> WillHave(c, kind, j, None)
    BY <1>3 DEF WillHave
  <2>3. \A c \in Copy!Conns : psync[c] = "returned" => todo[c] = {}
    BY DEF CopyInv, OneSession
  <2> QED
    BY <1>3, <1>15, <2>1, <2>2, <2>3 DEF CopyInv, Ahead
<1> QED
  BY <1>12, <1>13, <1>14, <1>16 DEF CopyInv

LEMMA CopyForward ==
    ASSUME FewThreads, CopyInv, NEW t \in Threads, Copy!Forward(t)
    PROVE  CopyInv'
<1>1. PICK c, line, pc, r :
        /\ c = registered /\ line = forward[t].line /\ pc \in {"idle", "sweep"}
        /\ r = [Copy!Nothing EXCEPT !.pc = pc] /\ forward' = [forward EXCEPT ![t] = r]
        /\ forward[t].pc = "forward"
        /\ (IF c = Copy!NoConn THEN UNCHANGED stream ELSE Copy!Printed(c, <<line>>))
        /\ torn' = IF Copy!Misses(Copy!Item(line)) THEN torn \cup {Copy!Item(line)} ELSE torn
        /\ UNCHANGED <<store, copy, writes, registered, psync, todo, link, session, dialled>>
  BY DEF Copy!Forward, Copy!Races
<1>2. /\ CopyTypes /\ c \in Copy!Conns \cup {Copy!NoConn} /\ line \in Lines /\ line.what \in {"SET", "DEL"}
      /\ Copy!Item(line) \in torn \/ line.value = store[line.kind][line.key]
      /\ c # Copy!NoConn => psync[c] = "returned"
  BY <1>1 DEF CopyInv, CopyTypes, Told, Busy
<1>3. line.kind \in Copy!Kinds /\ line.key \in CopyKeys /\ Copy!Item(line) = <<line.kind, line.key>>
  BY <1>2 DEF Lines, Copy!Item
<1>4. r \in ForwardStates /\ r.pc \notin {"vector", "forward"}
  BY <1>1 DEF Copy!Nothing, ForwardStates
<1>5. /\ forward' \in [Threads -> ForwardStates]
      /\ \A u \in Threads : Busy(u)' => Busy(u) /\ forward'[u] = forward[u]
      /\ \A x : Copy!Written(x) => x = Copy!Item(line) \/ Copy!Written(x)'
  <2>1. /\ forward' \in [Threads -> ForwardStates]
        /\ \A u \in Threads : forward'[u] = IF u = t THEN r ELSE forward[u]
        /\ \A x : Copy!Written(x)' <=>
              \/ r.pc \in {"vector", "forward"} /\ Copy!Item(r.line) = x
              \/ \E u \in Threads : u # t /\ Copy!Writing(u, x)
    BY <1>1, <1>2, <1>4, Threads1
  <2>2. \A u \in Threads : Busy(u)' => Busy(u) /\ forward'[u] = forward[u]
    BY <1>4, <2>1 DEF Busy
  <2>3. \A x : Copy!Written(x) => x = Copy!Item(line) \/ Copy!Written(x)'
    BY <1>1, <2>1 DEF Copy!Written, Copy!Writing
  <2> QED
    BY <2>1, <2>2, <2>3
<1>6. /\ stream' \in [Copy!Conns -> Seq(Lines)]
      /\ \A d \in Copy!Conns : d # c \/ link[d] # "up" => stream'[d] = stream[d]
      /\ c \in Copy!Conns /\ link[c] = "up" => stream'[c] = stream[c] \o <<line>>
  <2>1. CASE c = Copy!NoConn
    BY <1>1, <1>2, <2>1, CopyBasics DEF CopyTypes
  <2>2. CASE c # Copy!NoConn
    <3>1. c \in Copy!Conns /\ Copy!Printed(c, <<line>>)
      BY <1>1, <1>2, <2>2
    <3> QED
      BY <1>2, <3>1, PrintedIs
  <2> QED
    BY <2>1, <2>2
<1>7. torn' \in SUBSET Copy!Items /\ torn \subseteq torn'
  BY <1>1, <1>2, <1>3, CopyBasics DEF CopyTypes
<1>8. CopyTypes'
  BY <1>1, <1>2, <1>5, <1>6, <1>7 DEF CopyTypes
<1>9. OneSession'
  <2>1. \A d \in Copy!Conns : d > dialled => stream'[d] = stream[d]
    BY <1>6 DEF CopyInv, OneSession
  <2> QED
    BY <1>1, <2>1 DEF CopyInv, OneSession
<1>10. Told'
  BY <1>1, <1>5, <1>7 DEF CopyInv, Told
<1>11. Ahead'
  <2> SUFFICES ASSUME NEW d \in Copy!Conns, link[d] = "up"
               PROVE  /\ psync[d] = "asked" => stream'[d] = <<>>
                      /\ psync[d] = "walk" =>
                           \A kind \in Copy!Kinds, k \in CopyKeys :
                               IF <<kind, k>> \in todo[d] THEN WillHave(d, kind, k, None)'
                                                          ELSE Settled(d, kind, k)'
                      /\ psync[d] = "returned" =>
                           /\ registered = d \/ torn' = Copy!Items
                           /\ \A kind \in Copy!Kinds, k \in CopyKeys : Settled(d, kind, k)'
    BY <1>1 DEF Ahead
  <2>1. dialled = d /\ d # Copy!NoConn
    BY Newest
  <2>2. ASSUME psync[d] # "returned"
        PROVE  stream'[d] = stream[d] /\ \A kind \in Copy!Kinds, k \in CopyKeys :
                  \A v : WillHave(d, kind, k, v)' <=> WillHave(d, kind, k, v)
    BY <1>1, <1>2, <1>6, <2>1, <2>2 DEF WillHave
  <2>3. CASE psync[d] = "asked"
    BY <2>2, <2>3 DEF CopyInv, Ahead
  <2>4. CASE psync[d] = "walk"
    <3>1. ASSUME NEW kind \in Copy!Kinds, NEW k \in CopyKeys, <<kind, k>> \notin todo[d]
          PROVE  Settled(d, kind, k)'
      <4>1. Settled(d, kind, k)
        BY <2>4, <3>1 DEF CopyInv, Ahead
      <4>2. CASE <<kind, k>> = Copy!Item(line)
        <5>1. Copy!Misses(Copy!Item(line))
          BY <2>1, <2>4, <3>1, <4>2 DEF Copy!Misses, Copy!ToCome
        <5> QED
          BY <1>1, <4>2, <5>1 DEF Settled
      <4>3. CASE <<kind, k>> # Copy!Item(line)
        BY <1>1, <1>5, <1>7, <2>2, <2>4, <4>1, <4>3 DEF Settled
      <4> QED
        BY <4>2, <4>3
    <3>2. ASSUME NEW kind \in Copy!Kinds, NEW k \in CopyKeys, <<kind, k>> \in todo[d]
          PROVE  WillHave(d, kind, k, None)'
      BY <2>2, <2>4, <3>2 DEF CopyInv, Ahead
    <3> QED
      BY <2>4, <3>1, <3>2
  <2>5. CASE psync[d] = "returned"
    <3>1. CASE torn = Copy!Items
      <4>1. torn' = Copy!Items
        BY <1>7, <3>1
      <4> QED
        BY <2>5, <4>1, CopyBasics DEF Settled
    <3>2. CASE torn # Copy!Items
      <4>1. registered = d
        BY <2>5, <3>2 DEF CopyInv, Ahead
      <4>2. stream'[d] = stream[d] \o <<line>> /\ stream[d] \in Seq(Lines)
        BY <1>1, <1>2, <1>6, <4>1 DEF CopyTypes
      <4>3. ASSUME NEW kind \in Copy!Kinds, NEW k \in CopyKeys PROVE Settled(d, kind, k)'
        <5>1. Settled(d, kind, k)
          BY <2>5 DEF CopyInv, Ahead
        <5>2. CASE <<kind, k>> = Copy!Item(line)
          <6>1. CASE Copy!Item(line) \in torn
            BY <1>7, <5>2, <6>1 DEF Settled
          <6>2. CASE line.value = store[line.kind][line.key]
            <7>1. Hits(line, kind, k) /\ Gives(line) = store[kind][k]
              BY <1>2, <1>3, <5>2, <6>2 DEF Hits, Gives
            <7>2. Makes(stream[d] \o <<line>>, copy[kind][k], kind, k, store[kind][k])
              BY <1>2, <4>2, <7>1, MakesMore
            <7> QED
              BY <1>1, <4>2, <7>2 DEF Settled, WillHave
          <6> QED
            BY <1>2, <6>1, <6>2
        <5>3. CASE <<kind, k>> # Copy!Item(line)
          <6>1. ~Hits(line, kind, k)
            BY <1>2, <1>3, <5>3 DEF Hits
          <6>2. CASE <<kind, k>> \in torn \/ Copy!Written(<<kind, k>>)
            BY <1>5, <1>7, <5>3, <6>2 DEF Settled
          <6>3. CASE WillHave(d, kind, k, store[kind][k])
            <7>1. Makes(stream[d], copy[kind][k], kind, k, store[kind][k])
              BY <6>3 DEF WillHave
            <7>2. Makes(stream[d] \o <<line>>, copy[kind][k], kind, k, store[kind][k])
              BY <1>2, <4>2, <6>1, <7>1, MakesMore
            <7> QED
              BY <1>1, <4>2, <7>2 DEF Settled, WillHave
          <6> QED
            BY <5>1, <6>2, <6>3 DEF Settled
        <5> QED
          BY <5>2, <5>3
      <4> QED
        BY <2>5, <4>1, <4>3
    <3> QED
      BY <3>1, <3>2
  <2> QED
    BY <2>3, <2>4, <2>5
<1> QED
  BY <1>8, <1>9, <1>10, <1>11 DEF CopyInv

LEMMA CopySweep ==
    ASSUME FewThreads, CopyInv, NEW t \in Threads, Copy!Sweep(t)
    PROVE  CopyInv'
<1>1. /\ forward[t].pc = "sweep" /\ registered' = Copy!NoConn
      /\ forward' = [forward EXCEPT ![t] = Copy!Nothing]
      /\ UNCHANGED <<store, copy, writes, psync, todo, stream, session, dialled, torn>>
      /\ IF registered = Copy!NoConn
            THEN UNCHANGED link
            ELSE link' = [link EXCEPT ![registered] = "closed"]
  BY DEF Copy!Sweep, Copy!CloseDead
<1>2. CopyTypes /\ Copy!Nothing \in ForwardStates /\ Copy!Nothing.pc = "idle"
  BY DEF Copy!Nothing, CopyInv, ForwardStates
<1>3. /\ forward' \in [Threads -> ForwardStates]
      /\ \A u \in Threads : Busy(u)' => Busy(u) /\ forward'[u] = forward[u]
      /\ \A x : Copy!Written(x) => Copy!Written(x)'
  <2>1. /\ forward' \in [Threads -> ForwardStates]
        /\ \A u \in Threads : forward'[u] = IF u = t THEN Copy!Nothing ELSE forward[u]
        /\ \A x : Copy!Written(x)' <=>
              \/ Copy!Nothing.pc \in {"vector", "forward"} /\ Copy!Item(Copy!Nothing.line) = x
              \/ \E u \in Threads : u # t /\ Copy!Writing(u, x)
    BY <1>1, <1>2, Threads1
  <2>2. \A u \in Threads : Busy(u)' => Busy(u) /\ forward'[u] = forward[u]
    BY <1>2, <2>1 DEF Busy
  <2>3. \A x : Copy!Written(x) => Copy!Written(x)'
    BY <1>1, <2>1 DEF Copy!Written, Copy!Writing
  <2> QED
    BY <2>1, <2>2, <2>3
<1>4. /\ link' \in [Copy!Conns -> {"new", "up", "broken", "closed"}]
      /\ \A c \in Copy!Conns : link'[c] = IF c = registered THEN "closed" ELSE link[c]
  BY <1>1, <1>2, CopyBasics DEF CopyTypes
<1>5. CopyTypes'
  BY <1>1, <1>2, <1>3, <1>4 DEF CopyTypes
<1>6. OneSession'
  <2>1. \A c \in Copy!Conns : c > dialled => c # registered
    BY CopyBasics DEF CopyInv, OneSession, Told
  <2> QED
    BY <1>1, <1>4, <2>1 DEF CopyInv, OneSession
<1>7. Told'
  BY <1>1, <1>3 DEF CopyInv, Told
<1>8. Ahead'
  <2>1. \A c \in Copy!Conns, kind \in Copy!Kinds, k \in CopyKeys :
           /\ Settled(c, kind, k) => Settled(c, kind, k)'
           /\ WillHave(c, kind, k, None) => WillHave(c, kind, k, None)'
    BY <1>1, <1>3 DEF Settled, WillHave
  <2>2. \A c \in Copy!Conns : link'[c] = "up" => link[c] = "up" /\ c # registered
    BY <1>4
  <2> QED
    BY <1>1, <2>1, <2>2 DEF CopyInv, Ahead
<1> QED
  BY <1>5, <1>6, <1>7, <1>8 DEF CopyInv

LEMMA CopyHandlePsync ==
    ASSUME FewThreads, CopyInv, NEW c \in Copy!Conns, Copy!HandlePsync(c)
    PROVE  CopyInv'
<1>1. /\ psync[c] = "asked"
      /\ Copy!Printed(c, <<Copy!Sign("FULLSYNC")>>)
      /\ psync' = [psync EXCEPT ![c] = "walk"]
      /\ todo' = [todo EXCEPT ![c] = Copy!Items]
      /\ torn' = IF c = dialled THEN {item \in torn : Copy!Written(item)} ELSE torn
      /\ UNCHANGED <<store, copy, forward, writes, registered, link, session, dialled>>
  BY DEF Copy!HandlePsync, Copy!FullSync
<1>2. /\ CopyTypes
      /\ psync' \in [Copy!Conns -> {"none", "asked", "walk", "returned"}]
      /\ \A d \in Copy!Conns : psync'[d] = IF d = c THEN "walk" ELSE psync[d]
      /\ todo' \in [Copy!Conns -> SUBSET Copy!Items] /\ todo'[c] = Copy!Items
      /\ \A d \in Copy!Conns : d # c => todo'[d] = todo[d]
  BY <1>1 DEF CopyInv, CopyTypes
<1>3. /\ stream' \in [Copy!Conns -> Seq(Lines)]
      /\ \A d \in Copy!Conns : d # c \/ link[d] # "up" => stream'[d] = stream[d]
      /\ link[c] = "up" => stream'[c] = stream[c] \o <<Copy!Sign("FULLSYNC")>>
  BY <1>1, <1>2, PrintedIs, SignsAreLines
<1>4. \A x : Copy!Written(x)' <=> Copy!Written(x)
  BY <1>1 DEF Copy!Written, Copy!Writing, Copy!Item
<1>5. torn' \in SUBSET Copy!Items /\ \A x : x \in torn /\ (c # dialled \/ Copy!Written(x)) => x \in torn'
  BY <1>1, <1>2 DEF CopyTypes
<1>6. CopyTypes'
  BY <1>1, <1>2, <1>3, <1>5 DEF CopyTypes
<1>7. OneSession'
  <2>1. ~(c > dialled)
    BY <1>1 DEF CopyInv, OneSession
  <2> QED
    BY <1>1, <1>2, <1>3, <2>1 DEF CopyInv, OneSession
<1>8. Told'
  <2>1. registered # Copy!NoConn => psync'[registered] = "returned"
    BY <1>1, <1>2 DEF CopyInv, CopyTypes, Told
  <2>2. \A t \in Threads : Busy(t) => Copy!Written(Copy!Item(forward[t].line))
    BY DEF Busy, Copy!Written, Copy!Writing
  <2>3. \A t \in Threads : Busy(t)' <=> Busy(t)
    BY <1>1 DEF Busy
  <2>4. \A t \in Threads : Busy(t) =>
           /\ forward[t].line \in Lines /\ forward[t].line.what \in {"SET", "DEL"}
           /\ \/ Copy!Item(forward[t].line) \in torn'
              \/ forward[t].line.value = store[forward[t].line.kind][forward[t].line.key]
    BY <1>5, <2>2 DEF CopyInv, Told
  <2> QED
    BY <1>1, <2>1, <2>3, <2>4 DEF Told, Copy!Item
<1>9. Ahead'
  <2> SUFFICES ASSUME NEW d \in Copy!Conns, link[d] = "up"
               PROVE  /\ psync'[d] = "asked" => stream'[d] = <<>>
                      /\ psync'[d] = "walk" =>
                           \A kind \in Copy!Kinds, k \in CopyKeys :
                               IF <<kind, k>> \in todo'[d] THEN WillHave(d, kind, k, None)'
                                                           ELSE Settled(d, kind, k)'
                      /\ psync'[d] = "returned" =>
                           /\ registered = d \/ torn' = Copy!Items
                           /\ \A kind \in Copy!Kinds, k \in CopyKeys : Settled(d, kind, k)'
    BY <1>1 DEF Ahead
  <2>1. dialled = d
    BY Newest
  <2>2. CASE d # c
    <3>1. torn' = torn /\ stream'[d] = stream[d] /\ todo'[d] = todo[d] /\ psync'[d] = psync[d]
      BY <1>1, <1>2, <1>3, <2>1, <2>2
    <3>2. \A kind \in Copy!Kinds, k \in CopyKeys :
             /\ Settled(d, kind, k)' <=> Settled(d, kind, k)
             /\ WillHave(d, kind, k, None)' <=> WillHave(d, kind, k, None)
      BY <1>1, <1>4, <3>1 DEF Settled, WillHave
    <3> QED
      BY <3>1, <3>2 DEF CopyInv, Ahead
  <2>3. CASE d = c
    <3>1. stream'[c] = stream[c] \o <<Copy!Sign("FULLSYNC")>> /\ stream[c] \in Seq(Lines)
      BY <1>2, <1>3, <2>3 DEF CopyTypes
    <3>2. ASSUME NEW kind \in Copy!Kinds, NEW k \in CopyKeys
          PROVE  WillHave(d, kind, k, None)' /\ <<kind, k>> \in todo'[d]
      <4>1. Hits(Copy!Sign("FULLSYNC"), kind, k) /\ Gives(Copy!Sign("FULLSYNC")) = None
        BY DEF Hits, Gives, Copy!Sign, Copy!Line
      <4>2. Makes(stream'[c], copy[kind][k], kind, k, None)
        BY <3>1, <4>1, MakesMore, SignsAreLines
      <4> QED
        BY <1>1, <1>2, <2>3, <4>2, CopyBasics DEF WillHave
    <3> QED
      BY <1>2, <2>3, <3>2
  <2> QED
    BY <2>2, <2>3
<1> QED
  BY <1>6, <1>7, <1>8, <1>9 DEF CopyInv

LEMMA CopyWalk ==
    ASSUME FewThreads, CopyInv, NEW c \in Copy!Conns, NEW kind \in Copy!Kinds,
       NEW k \in CopyKeys, Copy!Walk(c, kind, k)
    PROVE  CopyInv'
<1> DEFINE line == Copy!Line("SET", kind, k, store[kind][k])
<1>1. /\ psync[c] = "walk" /\ <<kind, k>> \in todo[c]
      /\ todo' = [todo EXCEPT ![c] = todo[c] \ {<<kind, k>>}]
      /\ Copy!Printed(c, IF store[kind][k] = None THEN <<>> ELSE <<line>>)
      /\ UNCHANGED <<store, copy, forward, writes, registered, psync, link, session, dialled, torn>>
  BY DEF Copy!Walk
<1>2. /\ CopyTypes
      /\ todo' \in [Copy!Conns -> SUBSET Copy!Items] /\ todo'[c] = todo[c] \ {<<kind, k>>}
      /\ \A d \in Copy!Conns : d # c => todo'[d] = todo[d]
  BY <1>1 DEF CopyInv, CopyTypes
<1>3. line \in Lines /\ line.what = "SET" /\ line.kind = kind /\ line.key = k /\ line.value = store[kind][k]
  <2>1. store[kind][k] \in CopyCells
    <3>1. store \in CopyStores
      BY <1>2 DEF CopyTypes
    <3> QED
      BY <3>1 DEF CopyStores
  <2> QED
    BY <2>1 DEF Copy!Line, Lines
<1> HIDE DEF line
<1>4. /\ stream' \in [Copy!Conns -> Seq(Lines)]
      /\ \A d \in Copy!Conns : d # c \/ link[d] # "up" => stream'[d] = stream[d]
      /\ link[c] = "up" => stream'[c] = IF store[kind][k] = None THEN stream[c]
            ELSE stream[c] \o <<line>>
  <2>1. CASE store[kind][k] = None
    <3>1. stream \in [Copy!Conns -> Seq(Lines)] /\ stream[c] \o <<>> = stream[c]
      BY <1>2, NoLineMore DEF CopyTypes
    <3>2. Copy!Printed(c, <<>>)
      BY <1>1, <2>1
    <3> QED
      BY <2>1, <3>1, <3>2 DEF Copy!Printed
  <2>2. CASE store[kind][k] # None
    <3>1. Copy!Printed(c, <<line>>)
      BY <1>1, <2>2
    <3> QED
      BY <1>2, <1>3, <2>2, <3>1, PrintedIs
  <2> QED
    BY <2>1, <2>2
<1>5. CopyTypes'
  BY <1>1, <1>2, <1>4 DEF CopyTypes
<1>6. OneSession'
  <2>1. ~(c > dialled)
    BY <1>1 DEF CopyInv, OneSession
  <2> QED
    BY <1>1, <1>4, <2>1 DEF CopyInv, OneSession
<1>7. Told'
  BY <1>1 DEF CopyInv, Told, Busy, Copy!Item
<1>8. \A x : Copy!Written(x)' <=> Copy!Written(x)
  BY <1>1 DEF Copy!Written, Copy!Writing, Copy!Item
<1>9. ASSUME NEW d \in Copy!Conns, link[d] = "up", d # c
      PROVE  /\ psync'[d] = psync[d] /\ stream'[d] = stream[d] /\ todo'[d] = todo[d]
             /\ \A x \in Copy!Kinds, j \in CopyKeys :
                   /\ Settled(d, x, j)' <=> Settled(d, x, j)
                   /\ WillHave(d, x, j, None)' <=> WillHave(d, x, j, None)
  <2>1. stream'[d] = stream[d] /\ todo'[d] = todo[d]
    BY <1>2, <1>4, <1>9
  <2> QED
    BY <1>1, <1>8, <2>1 DEF Settled, WillHave
<1>10. ASSUME link[c] = "up", NEW x \in Copy!Kinds, NEW j \in CopyKeys
       PROVE  IF <<x, j>> \in todo'[c] THEN WillHave(c, x, j, None)' ELSE Settled(c, x, j)'
  <2>1. IF <<x, j>> \in todo[c] THEN WillHave(c, x, j, None) ELSE Settled(c, x, j)
    BY <1>1, <1>10 DEF CopyInv, Ahead
  <2>2. stream[c] \in Seq(Lines)
    BY <1>2 DEF CopyTypes
  <2>3. CASE x = kind /\ j = k
    <3>1. <<x, j>> \in todo[c] /\ <<x, j>> \notin todo'[c]
      BY <1>1, <1>2, <2>3
    <3>2. Makes(stream[c], copy[x][j], x, j, None)
      BY <2>1, <3>1 DEF WillHave
    <3>3. Hits(line, x, j) /\ Gives(line) = store[x][j]
      BY <1>3, <2>3 DEF Hits, Gives
    <3>4. Makes(stream[c] \o <<line>>, copy[x][j], x, j, store[x][j])
      BY <1>3, <2>2, <3>3, MakesMore
    <3>5. Makes(stream'[c], copy[x][j], x, j, store[x][j])
      BY <1>4, <1>10, <2>3, <3>2, <3>4
    <3> QED
      BY <1>1, <3>1, <3>5 DEF Settled, WillHave
  <2>4. CASE ~(x = kind /\ j = k)
    <3>1. <<x, j>> \in todo[c] <=> <<x, j>> \in todo'[c]
      BY <1>2, <2>4
    <3>2. ~Hits(line, x, j)
      BY <1>3, <2>4 DEF Hits
    <3>3. \A v : Makes(stream[c], copy[x][j], x, j, v) => Makes(stream[c] \o <<line>>, copy[x][j], x, j, v)
      BY <1>3, <2>2, <3>2, MakesMore
    <3>4. \A v : WillHave(c, x, j, v) => Makes(stream'[c], copy[x][j], x, j, v)
      BY <1>4, <1>10, <3>3 DEF WillHave
    <3>5. WillHave(c, x, j, None) => WillHave(c, x, j, None)'
      BY <1>1, <3>4 DEF WillHave
    <3>6. Settled(c, x, j) => Settled(c, x, j)'
      BY <1>1, <1>8, <3>4 DEF Settled, WillHave
    <3> QED
      BY <2>1, <3>1, <3>5, <3>6
  <2> QED
    BY <2>3, <2>4
<1>11. Ahead'
  BY <1>1, <1>9, <1>10 DEF CopyInv, Ahead
<1> QED
  BY <1>5, <1>6, <1>7, <1>11 DEF CopyInv

LEMMA CopyRegister ==
    ASSUME FewThreads, CopyInv, NEW c \in Copy!Conns, Copy!Register(c)
    PROVE  CopyInv'
<1>1. /\ psync[c] = "walk" /\ todo[c] = {} /\ registered' = c
      /\ Copy!Printed(c, <<Copy!Sign("DONE")>>)
      /\ psync' = [psync EXCEPT ![c] = "returned"]
      /\ torn' = IF psync[dialled] = "returned" THEN Copy!Items ELSE torn
      /\ UNCHANGED <<store, copy, forward, writes, todo, link, session, dialled>>
  BY DEF Copy!Register, Copy!Registers
<1>2. /\ CopyTypes
      /\ psync' \in [Copy!Conns -> {"none", "asked", "walk", "returned"}]
      /\ \A d \in Copy!Conns : psync'[d] = IF d = c THEN "returned" ELSE psync[d]
  BY <1>1 DEF CopyInv, CopyTypes
<1>3. /\ stream' \in [Copy!Conns -> Seq(Lines)]
      /\ \A d \in Copy!Conns : d # c \/ link[d] # "up" => stream'[d] = stream[d]
      /\ link[c] = "up" => stream'[c] = stream[c] \o <<Copy!Sign("DONE")>>
  BY <1>1, <1>2, PrintedIs, SignsAreLines
<1>4. torn' \in SUBSET Copy!Items /\ torn \subseteq torn'
  BY <1>1, <1>2 DEF CopyTypes
<1>5. CopyTypes'
  BY <1>1, <1>2, <1>3, <1>4 DEF CopyTypes
<1>6. ~(c > dialled)
  BY <1>1 DEF CopyInv, OneSession
<1>7. OneSession'
  BY <1>1, <1>2, <1>3, <1>6 DEF CopyInv, OneSession
<1>8. Told'
  BY <1>1, <1>2, <1>4 DEF CopyInv, Told, Busy, Copy!Item
<1>9. \A x : Copy!Written(x)' <=> Copy!Written(x)
  BY <1>1 DEF Copy!Written, Copy!Writing, Copy!Item
<1>10. ASSUME NEW d \in Copy!Conns, link[d] = "up", NEW kind \in Copy!Kinds, NEW k \in CopyKeys
       PROVE  /\ Settled(d, kind, k) => Settled(d, kind, k)'
              /\ WillHave(d, kind, k, None) => WillHave(d, kind, k, None)'
  <2>1. \A v : WillHave(d, kind, k, v) => Makes(stream'[d], copy[kind][k], kind, k, v)
    <3>1. CASE d # c
      BY <1>3, <3>1 DEF WillHave
    <3>2. CASE d = c
      <4>1. stream'[c] = stream[c] \o <<Copy!Sign("DONE")>> /\ stream[c] \in Seq(Lines)
        BY <1>2, <1>3, <1>10, <3>2 DEF CopyTypes
      <4>2. ~Hits(Copy!Sign("DONE"), kind, k)
        BY DEF Hits, Copy!Sign, Copy!Line
      <4> QED
        BY <3>2, <4>1, <4>2, MakesMore, SignsAreLines DEF WillHave
    <3> QED
      BY <3>1, <3>2
  <2> QED
    BY <1>1, <1>4, <1>9, <2>1 DEF Settled, WillHave
<1>11. Ahead'
  <2> SUFFICES ASSUME NEW d \in Copy!Conns, link[d] = "up"
               PROVE  /\ psync'[d] = "asked" => stream'[d] = <<>>
                      /\ psync'[d] = "walk" =>
                           \A kind \in Copy!Kinds, k \in CopyKeys :
                               IF <<kind, k>> \in todo[d] THEN WillHave(d, kind, k, None)'
                                                          ELSE Settled(d, kind, k)'
                      /\ psync'[d] = "returned" =>
                           /\ c = d \/ torn' = Copy!Items
                           /\ \A kind \in Copy!Kinds, k \in CopyKeys : Settled(d, kind, k)'
    BY <1>1 DEF Ahead
  <2>1. CASE d = c
    BY <1>1, <1>2, <1>10, <2>1 DEF CopyInv, Ahead
  <2>2. CASE d # c
    <3>1. psync'[d] = psync[d] /\ stream'[d] = stream[d] /\ dialled = d
      BY <1>2, <1>3, <2>2, Newest
    <3>2. psync[d] = "returned" => torn' = Copy!Items
      BY <1>1, <3>1
    <3> QED
      BY <1>10, <3>1, <3>2 DEF CopyInv, Ahead
  <2> QED
    BY <2>1, <2>2
<1> QED
  BY <1>5, <1>7, <1>8, <1>11 DEF CopyInv

(***************************************************************************)
(* The replica                                                             *)
(***************************************************************************)
LEMMA CopyDial ==
    ASSUME FewThreads, CopyInv, Copy!Dial
    PROVE  CopyInv'
<1>1. PICK n : n = dialled + 1
  OBVIOUS
<1>2. /\ session = Copy!NoConn /\ n \in Copy!Conns /\ dialled' = n /\ session' = n
      /\ link' = [link EXCEPT ![n] = "up"]
      /\ psync' = [psync EXCEPT ![n] = "asked"]
      /\ UNCHANGED <<store, copy, forward, writes, registered, todo, stream, torn>>
  BY <1>1 DEF Copy!Dial
<1>3. CopyTypes /\ dialled \in Nat /\ n \in Nat /\ n > dialled /\ n # Copy!NoConn
  <2>1. CopyTypes /\ dialled \in Nat
    BY CopyBasics DEF CopyInv, CopyTypes
  <2>2. n \in Nat /\ n # Copy!NoConn
    BY <1>2, CopyBasics
  <2> QED
    BY <1>1, <2>1, <2>2
<1>4. /\ psync' \in [Copy!Conns -> {"none", "asked", "walk", "returned"}]
      /\ \A c \in Copy!Conns : psync'[c] = IF c = n THEN "asked" ELSE psync[c]
      /\ link' \in [Copy!Conns -> {"new", "up", "broken", "closed"}]
      /\ \A c \in Copy!Conns : link'[c] = IF c = n THEN "up" ELSE link[c]
  BY <1>2, <1>3 DEF CopyTypes
<1>5. psync[n] = "none" /\ stream[n] = <<>> /\ \A c \in Copy!Conns :
         c \in Nat /\ c # Copy!NoConn /\ link[c] # "up"
  BY <1>2, <1>3, CopyBasics DEF CopyInv, OneSession
<1>6. CopyTypes'
  BY <1>2, <1>3, <1>4 DEF CopyTypes
<1>7. OneSession'
  <2>1. \A c \in Copy!Conns : /\ link'[c] = "up" => c = n
                              /\ psync'[c] = "none" <=> c > n
                              /\ c > n => link'[c] = "new" /\ stream[c] = <<>>
                              /\ psync'[c] = "returned" => todo[c] = {}
    <3> SUFFICES ASSUME NEW c \in Copy!Conns
                 PROVE  /\ link'[c] = "up" => c = n
                        /\ psync'[c] = "none" <=> c > n
                        /\ c > n => link'[c] = "new" /\ stream[c] = <<>>
                        /\ psync'[c] = "returned" => todo[c] = {}
      OBVIOUS
    <3>1. /\ psync[c] = "none" <=> c > dialled
          /\ c > dialled => link[c] = "new" /\ stream[c] = <<>>
          /\ psync[c] = "returned" => todo[c] = {}
      BY DEF CopyInv, OneSession
    <3>2. c > dialled <=> c > n \/ c = n
      BY <1>1, <1>3, <1>5
    <3> QED
      BY <1>3, <1>4, <1>5, <3>1, <3>2
  <2> QED
    BY <1>2, <2>1 DEF OneSession
<1>8. Told'
  <2>1. registered # Copy!NoConn => registered # n /\ psync'[registered] = "returned"
    BY <1>2, <1>3, <1>4, <1>5 DEF CopyTypes, CopyInv, Told
  <2> QED
    BY <1>2, <2>1 DEF CopyInv, Told, Busy, Copy!Item
<1>9. Ahead'
  BY <1>2, <1>4, <1>5 DEF Ahead
<1> QED
  BY <1>6, <1>7, <1>8, <1>9 DEF CopyInv

LEMMA CopyRead ==
    ASSUME FewThreads, CopyInv, Copy!Read
    PROVE  CopyInv'
<1>1. PICK c : c = session
  OBVIOUS
<1>2. PICK l : l = Head(stream[c])
  OBVIOUS
<1>3. /\ c # Copy!NoConn /\ stream[c] # <<>> /\ copy' = Copy!Applied(l)
      /\ stream' = [stream EXCEPT ![c] = Tail(stream[c])]
      /\ UNCHANGED <<store, forward, writes, registered, psync, todo, link, session, dialled, torn>>
  BY <1>1, <1>2 DEF Copy!Read
<1>4. CopyTypes /\ c \in Copy!Conns /\ stream \in [Copy!Conns -> Seq(Lines)] /\ stream[c] \in Seq(Lines)
  BY <1>1, <1>3 DEF CopyInv, CopyTypes
<1>5. l \in Lines /\ Tail(stream[c]) \in Seq(Lines)
  BY <1>2, <1>3, <1>4, HeadTailProperties
<1>6. /\ stream' \in [Copy!Conns -> Seq(Lines)] /\ stream'[c] = Tail(stream[c])
      /\ \A d \in Copy!Conns : d # c => stream'[d] = stream[d]
  BY <1>3, <1>4, <1>5
<1>7. /\ copy' \in CopyStores
      /\ \A kind \in Copy!Kinds, k \in CopyKeys : copy'[kind][k] = IF Hits(l, kind, k) THEN Gives(l)
            ELSE copy[kind][k]
  BY <1>3, <1>4, <1>5, AppliedIs
<1>8. CopyTypes'
  BY <1>3, <1>6, <1>7, <1>4 DEF CopyTypes
<1>9. OneSession'
  <2>1. c = dialled /\ c \in Nat
    BY <1>1, <1>3, <1>4, CopyBasics DEF CopyInv, OneSession
  <2>2. ~(c > dialled)
    BY <2>1
  <2> QED
    BY <1>3, <1>6, <2>2 DEF CopyInv, OneSession
<1>10. Told'
  BY <1>3 DEF CopyInv, Told, Busy, Copy!Item
<1>11. \A kind \in Copy!Kinds, k \in CopyKeys : \A v : WillHave(c, kind, k, v) =>
          Makes(stream'[c], copy'[kind][k], kind, k, v)
  BY <1>2, <1>3, <1>4, <1>6, <1>7, MakesLess DEF WillHave
<1>12. \A d \in Copy!Conns : link[d] = "up" => d = c
  BY <1>1 DEF CopyInv, OneSession
<1>13. \A kind \in Copy!Kinds, k \in CopyKeys :
          /\ Settled(c, kind, k) => Settled(c, kind, k)'
          /\ WillHave(c, kind, k, None) => WillHave(c, kind, k, None)'
  <2>1. \A x : Copy!Written(x)' <=> Copy!Written(x)
    BY <1>3 DEF Copy!Written, Copy!Writing, Copy!Item
  <2> QED
    BY <1>3, <1>11, <2>1 DEF Settled, WillHave
<1>14. Ahead'
  BY <1>3, <1>4, <1>12, <1>13 DEF CopyInv, Ahead
<1> QED
  BY <1>8, <1>9, <1>10, <1>14 DEF CopyInv

LEMMA CopySessionEnds ==
    ASSUME FewThreads, CopyInv, Copy!SessionEnds
    PROVE  CopyInv'
<1>1. /\ link[session] # "up" /\ session' = Copy!NoConn
      /\ UNCHANGED <<store, copy, forward, writes, registered, psync, todo, stream, link, dialled, torn>>
  BY DEF Copy!SessionEnds
<1>2. \A c \in Copy!Conns : link[c] # "up"
  BY <1>1 DEF CopyInv, OneSession
<1>3. CopyTypes'
  BY <1>1 DEF CopyInv, CopyTypes
<1>4. OneSession'
  BY <1>1, <1>2 DEF CopyInv, OneSession
<1>5. Told'
  BY <1>1 DEF CopyInv, Told, Busy, Copy!Item
<1>6. Ahead'
  BY <1>1, <1>2 DEF Ahead
<1> QED
  BY <1>3, <1>4, <1>5, <1>6 DEF CopyInv

LEMMA CopyBreak ==
    ASSUME FewThreads, CopyInv, NEW c \in Copy!Conns, Copy!Break(c)
    PROVE  CopyInv'
<1>1. PICK i \in 0..Len(stream[c]) : stream' = [stream EXCEPT ![c] = SubSeq(stream[c], 1, i)]
  BY DEF Copy!Break
<1>2. /\ link[c] = "up" /\ link' = [link EXCEPT ![c] = "broken"]
      /\ UNCHANGED <<store, copy, forward, writes, registered, psync, todo, session, dialled, torn>>
  BY DEF Copy!Break
<1>3. stream \in [Copy!Conns -> Seq(Lines)] /\ stream[c] \in Seq(Lines) /\ link \in [Copy!Conns -> {"new", "up", "broken", "closed"}]
  BY DEF CopyInv, CopyTypes
<1>4. SubSeq(stream[c], 1, i) \in Seq(Lines)
  <2>1. Len(stream[c]) \in Nat
    BY <1>3
  <2>2. \A j \in 1..i : stream[c][j] \in Lines
    BY <1>3, <2>1
  <2> QED
    BY <2>1, <2>2, <1>3
<1>5. /\ stream' \in [Copy!Conns -> Seq(Lines)] /\ \A d \in Copy!Conns : d # c => stream'[d] = stream[d]
      /\ link' \in [Copy!Conns -> {"new", "up", "broken", "closed"}]
      /\ \A d \in Copy!Conns : link'[d] = IF d = c THEN "broken" ELSE link[d]
  BY <1>1, <1>2, <1>3, <1>4
<1>6. ~(c > dialled)
  BY <1>2 DEF CopyInv, OneSession
<1>7. CopyTypes'
  BY <1>2, <1>5 DEF CopyInv, CopyTypes
<1>8. OneSession' /\ Told'
  BY <1>2, <1>5, <1>6 DEF CopyInv, OneSession, Told, Busy, Copy!Item
<1>9. Ahead'
  <2>1. \A d \in Copy!Conns : link'[d] = "up" => link[d] = "up" /\ stream'[d] = stream[d]
    BY <1>5
  <2> QED
    BY <1>2, <2>1 DEF CopyInv, Ahead, Settled, WillHave, Copy!Written, Copy!Writing, Copy!Item
<1> QED
  BY <1>7, <1>8, <1>9 DEF CopyInv

LEMMA CopyNext == ASSUME FewThreads, CopyInv, [Copy!Next]_(Copy!vars) PROVE CopyInv'
<1>1. CASE UNCHANGED Copy!vars
  <2>1. UNCHANGED <<store, copy, forward, writes, registered,
           psync, todo, stream, link, session, dialled, torn>>
    BY <1>1 DEF Copy!vars
  <2>2. CopyTypes'
    BY <2>1 DEF CopyInv, CopyTypes
  <2>3. OneSession'
    BY <2>1 DEF CopyInv, OneSession
  <2>4. Told'
    BY <2>1 DEF CopyInv, Told, Busy, Copy!Item
  <2>5. Ahead'
    BY <2>1 DEF CopyInv, Ahead, Settled, WillHave, Copy!Written, Copy!Writing, Copy!Item
  <2> QED
    BY <2>2, <2>3, <2>4, <2>5 DEF CopyInv
<1>2. CASE \E t \in Threads, k \in CopyKeys, kind \in Copy!Kinds, v \in CopyValues :
         Copy!Set(t, kind, k, v)
  BY <1>2, CopySet
<1>3. CASE \E t \in Threads, k \in CopyKeys : Copy!Del(t, k) \/ Copy!VSimDel(t, k)
  BY <1>3, CopyDel, CopyVSimDel
<1>4. CASE \E t \in Threads : Copy!DelVector(t) \/ Copy!Forward(t) \/ Copy!Sweep(t)
  BY <1>4, CopyDelVector, CopyForward, CopySweep
<1>5. CASE \E c \in Copy!Conns : Copy!HandlePsync(c) \/ Copy!Register(c) \/ Copy!Break(c)
  BY <1>5, CopyHandlePsync, CopyRegister, CopyBreak
<1>6. CASE \E c \in Copy!Conns, kind \in Copy!Kinds, k \in CopyKeys : Copy!Walk(c, kind, k)
  BY <1>6, CopyWalk
<1>7. CASE Copy!Dial \/ Copy!Read \/ Copy!SessionEnds
  BY <1>7, CopyDial, CopyRead, CopySessionEnds
<1> QED
  BY <1>1, <1>2, <1>3, <1>4, <1>5, <1>6, <1>7 DEF Copy!Next, Copy!Answer, Copy!Sync, Copy!Listen

LEMMA CopySame == ASSUME FewThreads, CopyInv PROVE Copy!SameWhenQuiet
<1> SUFFICES ASSUME session # Copy!NoConn, link[session] = "up",
                    psync[session] = "returned", stream[session] = <<>>,
                    NEW item \in Copy!Items \ torn, ~Copy!Written(item)
             PROVE  Copy!Same(item)
  BY DEF Copy!SameWhenQuiet
<1>1. PICK kind \in Copy!Kinds, k \in CopyKeys : item = <<kind, k>>
  BY CopyBasics
<1>2. session \in Copy!Conns /\ item[1] = kind /\ item[2] = k
  BY <1>1 DEF CopyInv, CopyTypes
<1>3. Makes(<<>>, copy[kind][k], kind, k, store[kind][k])
  BY <1>1, <1>2 DEF CopyInv, Ahead, Settled, WillHave
<1>4. store[kind][k] = copy[kind][k]
  BY <1>3, MakesNothing
<1> QED
  BY <1>2, <1>4 DEF Copy!Same

LEMMA NodeCopies ==
    ASSUME FewThreads
    PROVE  /\ NodeInit => (part = "replica" => CopyInv)
           /\ (part = "replica" => CopyInv) /\ [NodeNext]_nodeVars => (part = "replica" => CopyInv)'
<1>1. ASSUME NodeInit, part = "replica" PROVE CopyInv
  <2>1. Copy!Init
    BY <1>1 DEF NodeInit
  <2> QED
    BY <2>1, CopyInit
<1>2. ASSUME part = "replica" => CopyInv, [NodeNext]_nodeVars, part' = "replica" PROVE CopyInv'
  <2>1. part = "replica" /\ CopyInv /\ (Copy!Next \/ UNCHANGED replicaVars)
    BY <1>2 DEF NodeNext, nodeVars
  <2>2. [Copy!Next]_(Copy!vars)
    BY <2>1 DEF replicaVars, Copy!vars
  <2> QED
    BY <2>1, <2>2, CopyNext
<1> QED
  BY <1>1, <1>2

\* However connections fail and whatever the clients write, with any number of full
\* synchronisations and writers at once, a replica that has read all that HandlePsync and
\* ForwardWrite have sent has the master's value of every item of which no write is under way
\* and none has raced with a full synchronisation or another writer.
THEOREM ReplicasAreTheSame == ASSUME FewThreads PROVE NodeSpec => []ReplicaSame
<1> DEFINE Inv == part = "replica" => CopyInv
<1>1. NodeInit => Inv
  BY NodeCopies
<1>2. Inv /\ [NodeNext]_nodeVars => Inv'
  BY NodeCopies
<1>3. Inv => ReplicaSame
  BY CopySame DEF ReplicaSame
<1> HIDE DEF Inv
<1> QED
  BY <1>1, <1>2, <1>3, PTL DEF NodeSpec

(***************************************************************************)
(* The slot.  A key with its vector is where the redirections lead, and    *)
(* MigrateKey deletes it at the source when the target has both; that is   *)
(* so for each key that no client has written while it was under way.      *)
(***************************************************************************)
\* "Not there" is no value.
NoneIsNoValue == None \notin SlotValues

SlotCells == SlotValues \cup {None}
SlotStores == [Move!Kinds -> [SlotKeys -> SlotCells]]

Kept(n, kind, k) == kept[n][kind][k]

MigrateStates ==
    [pc : {"idle", "kv", "get", "vec", "del"}, key : SlotKeys \cup {None}, value : SlotCells]

MoveTypes ==
    /\ kept \in [Move!Nodes -> SlotStores] /\ latest \in SlotStores
    /\ owner \in [Move!Nodes -> Move!Nodes] /\ migrating \in BOOLEAN /\ importing \in BOOLEAN
    /\ migrate \in MigrateStates
    /\ raced \in SUBSET SlotKeys

\* Which of the two nodes has the slot, and what goes with that.
Phases ==
    /\ owner[Move!Source] = Move!Target => ~migrating
    /\ owner[Move!Source] = Move!Target /\ owner[Move!Target] = Move!Source => importing
    /\ owner[Move!Source] = Move!Source /\ owner[Move!Target] = Move!Target => migrating
    /\ owner[Move!Source] = Move!Target \/ owner[Move!Target] = Move!Target =>
           \A k \in SlotKeys \ raced : Kept(Move!Source, "kv", k) = None
    /\ migrate.pc # "idle" => migrating

\* No string is at the target before the slot may be.
TargetEmpty ==
    (owner[Move!Source] = Move!Source /\ ~migrating) \/ (owner[Move!Target] = Move!Source /\ ~importing) =>
        \A k \in SlotKeys \ raced : Kept(Move!Target, "kv", k) = None

AtSource(k) == \A kind \in Move!Kinds : Kept(Move!Source, kind, k) = latest[kind][k]
AtTarget(k) ==
    /\ Kept(Move!Target, "kv", k) = latest["kv"][k]
    /\ latest["vec"][k] # None => Kept(Move!Target, "vec", k) = latest["vec"][k]

\* A key is at the source with its vector, or has left it.
KeysSafe ==
    \A k \in SlotKeys \ raced :
        /\ owner[Move!Source] = Move!Source /\ (Kept(Move!Source, "kv", k) # None \/ ~migrating) =>
              AtSource(k)
        /\ owner[Move!Source] = Move!Target \/ Kept(Move!Source, "kv", k) = None => AtTarget(k)

\* What MigrateKey has read is still so, and what was answered is done.
UnderWayInv ==
    LET k == migrate.key IN
    /\ migrate.pc = "idle" => migrate = Move!Idle
    /\ migrate.pc # "idle" => k \in SlotKeys
    /\ migrate.pc # "idle" /\ k \notin raced =>
          /\ Kept(Move!Source, "kv", k) # None
          /\ migrate.pc = "kv" => migrate.value = Kept(Move!Source, "kv", k)
          /\ migrate.pc \in {"get", "vec", "del"} => Kept(Move!Target, "kv", k) = Kept(Move!Source, "kv", k)
          /\ migrate.pc = "vec" => migrate.value = Kept(Move!Source, "vec", k)
          /\ migrate.pc = "del" /\ Kept(Move!Source, "vec", k) # None =>
                Kept(Move!Target, "vec", k) = Kept(Move!Source, "vec", k)

MoveInv == MoveTypes /\ Phases /\ TargetEmpty /\ KeysSafe /\ UnderWayInv

LEMMA TwoNodesTwoStores ==
    /\ Move!Nodes = {"source", "target"} /\ Move!Source = "source" /\ Move!Target = "target"
    /\ Move!Kinds = {"kv", "vec"}
  BY DEF Move!Nodes, Move!Kinds, Move!Source, Move!Target

\* One value of a node's stores is replaced.
Puts(n, kind, k, v) == kept' = [kept EXCEPT ![n][kind][k] = v]

LEMMA PutKept ==
    ASSUME MoveInv, NEW n \in Move!Nodes, NEW kind \in Move!Kinds, NEW k \in SlotKeys,
           NEW v \in SlotCells,
           Puts(n, kind, k, v)
    PROVE  /\ kept' \in [Move!Nodes -> SlotStores]
           /\ \A m \in Move!Nodes, kd \in Move!Kinds, j \in SlotKeys :
                Kept(m, kd, j)' = IF m = n /\ kd = kind /\ j = k THEN v ELSE Kept(m, kd, j)
<1> DEFINE f == [kept[n][kind] EXCEPT ![k] = v]
           g == [kept[n] EXCEPT ![kind] = f]
<1>1. kept \in [Move!Nodes -> SlotStores] /\ kept[n] \in SlotStores /\ kept[n][kind] \in [SlotKeys -> SlotCells]
  BY DEF MoveInv, MoveTypes, SlotStores
<1>2. f \in [SlotKeys -> SlotCells] /\ \A j \in SlotKeys : f[j] = IF j = k THEN v ELSE kept[n][kind][j]
  BY <1>1
<1>3. kept' = [kept EXCEPT ![n] = g]
  BY DEF Puts
<1> HIDE DEF f
<1>4. g \in SlotStores /\ \A kd \in Move!Kinds : g[kd] = IF kd = kind THEN f ELSE kept[n][kd]
  BY <1>1, <1>2 DEF SlotStores
<1> HIDE DEF g
<1>5. kept' \in [Move!Nodes -> SlotStores] /\ \A m \in Move!Nodes : kept'[m] = IF m = n THEN g
         ELSE kept[m]
  BY <1>1, <1>3, <1>4
<1>6. \A m \in Move!Nodes, kd \in Move!Kinds, j \in SlotKeys :
        kept'[m][kd][j] = IF m = n /\ kd = kind /\ j = k THEN v ELSE kept[m][kd][j]
  <2> TAKE m \in Move!Nodes, kd \in Move!Kinds, j \in SlotKeys
  <2>1. kept'[m] = IF m = n THEN g ELSE kept[m]
    BY <1>5
  <2>2. g[kd] = IF kd = kind THEN f ELSE kept[n][kd]
    BY <1>4
  <2>3. f[j] = IF j = k THEN v ELSE kept[n][kind][j]
    BY <1>2
  <2> QED
    BY <2>1, <2>2, <2>3
<1> QED
  BY <1>5, <1>6 DEF Kept

\* A key is taken out of both stores.
LEMMA DropKept ==
    ASSUME NEW s \in SlotStores, NEW k \in SlotKeys
    PROVE  LET t == [kind \in Move!Kinds |-> [s[kind] EXCEPT ![k] = None]] IN
           /\ t \in SlotStores
           /\ \A kd \in Move!Kinds, j \in SlotKeys : t[kd][j] = IF j = k THEN None ELSE s[kd][j]
<1>1. \A kd \in Move!Kinds : s[kd] \in [SlotKeys -> SlotCells]
  BY DEF SlotStores
<1>2. \A kd \in Move!Kinds : [s[kd] EXCEPT ![k] = None] \in [SlotKeys -> SlotCells]
  BY <1>1 DEF SlotCells
<1> QED
  BY <1>1, <1>2 DEF SlotStores

\* Where a command that starts at the owner of the source's table is done.
LEMMA MoveLands ==
    ASSUME MoveInv
    PROVE  /\ owner[Move!Source] \in Move!Nodes
           /\ Move!Lands(owner[Move!Source]) = owner[Move!Source]
           /\ Move!CheckKey(owner[Move!Source])
  BY TwoNodesTwoStores DEF MoveInv, MoveTypes, Phases, Move!Lands, Move!CheckKey

LEMMA MoveInit == ASSUME NoneIsNoValue, Move!Init PROVE MoveInv
<1>1. Move!Empty \in SlotStores /\ \A kd \in Move!Kinds, j \in SlotKeys : Move!Empty[kd][j] = None
  BY DEF Move!Empty, SlotStores, SlotCells
<1>2. \A n \in Move!Nodes : kept[n] = Move!Empty
  BY DEF Move!Init
<1>3. MoveTypes
  BY <1>1, TwoNodesTwoStores DEF Move!Init, MoveTypes, MigrateStates, Move!Idle, SlotCells
<1> QED
  BY <1>1, <1>2, <1>3, TwoNodesTwoStores
     DEF Move!Init, MoveInv, Phases, TargetEmpty, KeysSafe, UnderWayInv, AtSource, AtTarget, Kept, Move!Idle

\* A key that has raced disturbs no other.
LEMMA MoveOthers ==
    ASSUME MoveInv, MoveTypes', NEW k \in SlotKeys, k \in raced', raced \subseteq raced',
           UNCHANGED <<owner, migrating, importing, migrate>>,
           \A j \in SlotKeys : j # k =>
              \A kd \in Move!Kinds : /\ latest'[kd][j] = latest[kd][j]
                                     /\ \A m \in Move!Nodes : Kept(m, kd, j)' = Kept(m, kd, j)
    PROVE  MoveInv'
<1>1. \A j \in SlotKeys \ raced' : j # k /\ j \in SlotKeys \ raced
  OBVIOUS
<1>2. \A j \in SlotKeys \ raced' : \A m \in Move!Nodes, kd \in Move!Kinds : Kept(m, kd, j)' = Kept(m, kd, j)
  BY <1>1
<1>3. Phases' /\ TargetEmpty'
  BY <1>1, <1>2, TwoNodesTwoStores DEF MoveInv, Phases, TargetEmpty
<1>4. \A j \in SlotKeys \ raced' : (AtSource(j)' <=> AtSource(j)) /\ (AtTarget(j)' <=> AtTarget(j))
  BY <1>1, <1>2, TwoNodesTwoStores DEF AtSource, AtTarget
<1>5. KeysSafe'
  BY <1>1, <1>2, <1>4, TwoNodesTwoStores DEF MoveInv, KeysSafe
<1>6. UnderWayInv'
  <2>1. migrate.pc # "idle" /\ migrate.key \notin raced' => migrate.key \in SlotKeys \ raced'
    BY DEF MoveInv, UnderWayInv
  <2> QED
    BY <1>2, <2>1, TwoNodesTwoStores DEF MoveInv, UnderWayInv
<1> QED
  BY <1>3, <1>5, <1>6 DEF MoveInv

\* A command is done at one of the nodes.
LEMMA LandsAtNode == ASSUME MoveInv, NEW n \in Move!Nodes PROVE Move!Lands(n) \in Move!Nodes
  BY DEF MoveInv, MoveTypes, Move!Lands

LEMMA MoveSet ==
    ASSUME NoneIsNoValue, MoveInv, NEW n \in Move!Nodes, NEW kind \in Move!Kinds, NEW k \in SlotKeys,
           NEW v \in SlotValues,
           Move!Set(n, kind, k, v)
    PROVE  MoveInv'
<1> DEFINE L == Move!Lands(n)
<1>1. L \in Move!Nodes
  BY LandsAtNode
<1>2. v \in SlotCells /\ v # None
  BY DEF SlotCells, NoneIsNoValue
<1>3. /\ kept' \in [Move!Nodes -> SlotStores]
      /\ \A m \in Move!Nodes, kd \in Move!Kinds, j \in SlotKeys :
           Kept(m, kd, j)' = IF m = L /\ kd = kind /\ j = k THEN v ELSE Kept(m, kd, j)
  <2>1. Puts(L, kind, k, v)
    BY DEF Move!Set, Puts
  <2> HIDE DEF L
  <2> QED
    BY <1>1, <1>2, <2>1, PutKept
<1>4. /\ latest' \in SlotStores
      /\ \A kd \in Move!Kinds, j \in SlotKeys : latest'[kd][j] = IF kd = kind /\ j = k THEN v
            ELSE latest[kd][j]
  <2>1. latest' = [latest EXCEPT ![kind][k] = v]
    BY DEF Move!Set
  <2>2. latest \in SlotStores /\ latest[kind] \in [SlotKeys -> SlotCells]
    BY DEF MoveInv, MoveTypes, SlotStores
  <2> DEFINE f == [latest[kind] EXCEPT ![k] = v]
  <2>3. f \in [SlotKeys -> SlotCells] /\ \A j \in SlotKeys : f[j] = IF j = k THEN v ELSE latest[kind][j]
    BY <1>2, <2>2
  <2>4. latest' = [latest EXCEPT ![kind] = f]
    BY <2>1
  <2> HIDE DEF f
  <2> QED
    BY <2>2, <2>3, <2>4 DEF SlotStores
<1>5. /\ UNCHANGED <<owner, migrating, importing, migrate>>
      /\ raced' = IF Move!SetIsSafe(n, kind, k) THEN raced ELSE raced \cup {k}
  BY DEF Move!Set, Move!Races
<1>6. MoveTypes'
  BY <1>3, <1>4, <1>5 DEF MoveInv, MoveTypes
<1>7. CASE k \in raced'
  <2> HIDE DEF L
  <2> QED
    BY <1>3, <1>4, <1>5, <1>6, <1>7, MoveOthers
<1>8. CASE k \notin raced'
  <2>1. /\ L = owner[Move!Source] /\ migrate.key # k /\ (migrating => Kept(Move!Source, "kv", k) # None)
        /\ kind = "kv" \/ Kept(L, "kv", k) # None
        /\ raced' = raced /\ k \notin raced
    BY <1>5, <1>8, TwoNodesTwoStores DEF Move!SetIsSafe, Move!AtRest, Kept
  <2> HIDE DEF L
  <2>2. CASE L = Move!Source
    <3>1. \A kd \in Move!Kinds, j \in SlotKeys : Kept(Move!Target, kd, j)' = Kept(Move!Target, kd, j)
      BY <1>3, <2>2, TwoNodesTwoStores
    <3>2. \A j \in SlotKeys : Kept(Move!Source, "kv", j)' = None =>
             j # k /\ Kept(Move!Source, "kv", j) = None
      BY <1>2, <1>3, <1>5, <2>1, <2>2, TwoNodesTwoStores
    <3>3. Phases' /\ TargetEmpty'
      <4>1. owner[Move!Target] # Move!Target \/ Kept(Move!Source, "kv", k) # None
        BY <1>5, <2>1, <2>2 DEF MoveInv, Phases
      <4>2. owner[Move!Target] # Move!Target
        BY <2>1, <4>1 DEF MoveInv, Phases
      <4> QED
        BY <1>5, <2>1, <2>2, <3>1, <4>2, TwoNodesTwoStores DEF MoveInv, Phases, TargetEmpty
    <3>4. KeysSafe'
      <4> SUFFICES ASSUME NEW j \in SlotKeys \ raced
                   PROVE  /\ Kept(Move!Source, "kv", j)' # None \/ ~migrating => AtSource(j)'
                          /\ Kept(Move!Source, "kv", j)' = None => AtTarget(j)'
        BY <1>5, <2>1, <2>2, TwoNodesTwoStores DEF KeysSafe
      <4>1. /\ Kept(Move!Source, "kv", j) # None \/ ~migrating => AtSource(j)
            /\ Kept(Move!Source, "kv", j) = None => AtTarget(j)
        BY <2>1, <2>2 DEF MoveInv, KeysSafe
      <4>2. CASE j = k
        BY <1>2, <1>3, <1>4, <1>5, <2>1, <2>2, <3>2, <4>1, <4>2, TwoNodesTwoStores DEF AtSource
      <4>3. CASE j # k
        BY <1>3, <1>4, <3>1, <4>1, <4>3, TwoNodesTwoStores DEF AtSource, AtTarget
      <4> QED
        BY <4>2, <4>3
    <3>5. UnderWayInv'
      <4>1. \A m \in Move!Nodes, kd \in Move!Kinds, j \in SlotKeys : j # k =>
               Kept(m, kd, j)' = Kept(m, kd, j)
        BY <1>3
      <4> QED
        BY <1>5, <2>1, <4>1, TwoNodesTwoStores DEF MoveInv, UnderWayInv
    <3> QED
      BY <1>6, <3>3, <3>4, <3>5 DEF MoveInv
  <2>3. CASE L = Move!Target
    <3>1. /\ migrate.pc = "idle" /\ ~migrating /\ (owner[Move!Target] = Move!Source => importing)
          /\ owner[Move!Source] = Move!Target /\ Move!Source # Move!Target
      BY <2>1, <2>3, TwoNodesTwoStores DEF MoveInv, Phases
    <3>2. \A kd \in Move!Kinds, j \in SlotKeys : Kept(Move!Source, kd, j)' = Kept(Move!Source, kd, j)
      BY <1>3, <2>3, TwoNodesTwoStores
    <3>3. Phases' /\ TargetEmpty' /\ UnderWayInv'
      BY <1>5, <2>1, <3>1, <3>2, TwoNodesTwoStores DEF MoveInv, Phases, TargetEmpty, UnderWayInv
    <3>4. KeysSafe'
      BY <1>3, <1>4, <1>5, <2>1, <2>3, <3>1, TwoNodesTwoStores DEF MoveInv, KeysSafe, AtTarget
    <3> QED
      BY <1>6, <3>3, <3>4 DEF MoveInv
  <2> QED
    BY <1>1, <2>2, <2>3, TwoNodesTwoStores
<1> QED
  BY <1>7, <1>8

LEMMA MoveDel ==
    ASSUME NoneIsNoValue, MoveInv, NEW n \in Move!Nodes, NEW k \in SlotKeys, Move!Del(n, k)
    PROVE  MoveInv'
<1> DEFINE L == Move!Lands(n)
<1>1. L \in Move!Nodes /\ UNCHANGED <<owner, migrating, importing, migrate>>
      /\ raced' = IF Move!DelIsSafe(n, k) THEN raced ELSE raced \cup {k}
  BY LandsAtNode DEF Move!Del, Move!Races
<1>2. /\ kept' \in [Move!Nodes -> SlotStores]
      /\ \A m \in Move!Nodes, kd \in Move!Kinds, j \in SlotKeys :
           Kept(m, kd, j)' = IF m = L /\ j = k THEN None ELSE Kept(m, kd, j)
  <2> DEFINE t == [kind \in Move!Kinds |-> [kept[L][kind] EXCEPT ![k] = None]]
  <2>1. kept' = [kept EXCEPT ![L] = t]
    BY <1>1 DEF Move!Del
  <2>2. kept \in [Move!Nodes -> SlotStores] /\ kept[L] \in SlotStores
    BY <1>1 DEF MoveInv, MoveTypes
  <2>3. t \in SlotStores /\ \A kd \in Move!Kinds, j \in SlotKeys : t[kd][j] = IF j = k THEN None
           ELSE kept[L][kd][j]
    BY <2>2, DropKept
  <2> HIDE DEF t
  <2> QED
    BY <1>1, <2>1, <2>2, <2>3 DEF Kept
<1>3. /\ latest' \in SlotStores
      /\ \A kd \in Move!Kinds, j \in SlotKeys : latest'[kd][j] = IF j = k THEN None ELSE latest[kd][j]
  BY DropKept DEF Move!Del, MoveInv, MoveTypes
<1>4. MoveTypes'
  BY <1>1, <1>2, <1>3 DEF MoveInv, MoveTypes
<1>5. CASE k \in raced'
  <2> HIDE DEF L
  <2> QED
    BY <1>1, <1>2, <1>3, <1>4, <1>5, MoveOthers
<1>6. CASE k \notin raced'
  <2>1. /\ L = owner[Move!Source] /\ migrate.key # k
        /\ L = Move!Target \/ Kept(Move!Target, "kv", k) = None
        /\ raced' = raced /\ k \notin raced
    BY <1>1, <1>6 DEF Move!DelIsSafe, Move!AtRest, Kept
  <2> HIDE DEF L
  <2>2. Phases' /\ TargetEmpty'
    BY <1>1, <1>2, <2>1, TwoNodesTwoStores DEF MoveInv, Phases, TargetEmpty
  <2>3. UnderWayInv'
    BY <1>1, <1>2, <2>1, TwoNodesTwoStores DEF MoveInv, UnderWayInv
  <2>4. KeysSafe'
    <3> SUFFICES ASSUME NEW j \in SlotKeys \ raced
                 PROVE  /\ owner[Move!Source] = Move!Source /\ (Kept(Move!Source, "kv", j)' # None \/ ~migrating) =>
                              AtSource(j)'
                        /\ owner[Move!Source] = Move!Target \/ Kept(Move!Source, "kv", j)' = None =>
                              AtTarget(j)'
      BY <1>1, <2>1 DEF KeysSafe
    <3>1. /\ owner[Move!Source] = Move!Source /\ (Kept(Move!Source, "kv", j) # None \/ ~migrating) => AtSource(j)
          /\ owner[Move!Source] = Move!Target \/ Kept(Move!Source, "kv", j) = None => AtTarget(j)
      BY DEF MoveInv, KeysSafe
    <3>2. CASE j # k
      BY <1>2, <1>3, <3>1, <3>2, TwoNodesTwoStores DEF AtSource, AtTarget
    <3>3. CASE j = k /\ L = Move!Source
      BY <1>2, <1>3, <2>1, <3>3, TwoNodesTwoStores DEF AtSource, AtTarget
    <3>4. CASE j = k /\ L = Move!Target
      BY <1>2, <1>3, <2>1, <3>4, TwoNodesTwoStores DEF AtTarget
    <3> QED
      BY <1>1, <3>2, <3>3, <3>4, TwoNodesTwoStores
  <2> QED
    BY <1>4, <2>2, <2>3, <2>4 DEF MoveInv
<1> QED
  BY <1>5, <1>6

LEMMA SameKept ==
    ASSUME UNCHANGED <<kept, latest>>
    PROVE  /\ \A n, kind, k : Kept(n, kind, k)' = Kept(n, kind, k)
           /\ \A k : (AtSource(k)' <=> AtSource(k)) /\ (AtTarget(k)' <=> AtTarget(k))
  BY DEF Kept, AtSource, AtTarget

LEMMA MoveMark ==
    ASSUME MoveInv, Move!SetSlotImporting \/ Move!SetSlotMigrating
    PROVE  MoveInv'
<1>1. UNCHANGED <<kept, latest, owner, migrate, raced>>
  BY DEF Move!SetSlotImporting, Move!SetSlotMigrating
<1>2. \/ owner[Move!Target] = Move!Source /\ importing' = TRUE /\ UNCHANGED migrating
      \/ owner[Move!Source] = Move!Source /\ migrating' = TRUE /\ UNCHANGED importing
  BY DEF Move!SetSlotImporting, Move!SetSlotMigrating
<1>3. MoveTypes'
  BY <1>1, <1>2 DEF MoveInv, MoveTypes
<1>4. Phases'
  <2>1. \A k \in SlotKeys : Kept(Move!Source, "kv", k)' = Kept(Move!Source, "kv", k)
    BY <1>1, SameKept
  <2>2. CASE importing' = TRUE /\ UNCHANGED migrating
    BY <1>1, <2>1, <2>2 DEF MoveInv, Phases
  <2>3. CASE owner[Move!Source] = Move!Source /\ migrating' = TRUE /\ UNCHANGED importing
    BY <1>1, <2>1, <2>3, TwoNodesTwoStores DEF MoveInv, Phases
  <2> QED
    BY <1>2, <2>2, <2>3
<1>5. TargetEmpty'
  <2>1. \A k \in SlotKeys : Kept(Move!Target, "kv", k)' = Kept(Move!Target, "kv", k)
    BY <1>1, SameKept
  <2>2. owner'[Move!Source] = Move!Source /\ ~migrating' =>
           owner[Move!Source] = Move!Source /\ ~migrating
    BY <1>1, <1>2
  <2>3. owner'[Move!Target] = Move!Source /\ ~importing' =>
           owner[Move!Target] = Move!Source /\ ~importing
    BY <1>1, <1>2
  <2> QED
    BY <1>1, <2>1, <2>2, <2>3 DEF MoveInv, TargetEmpty
<1>6. UnderWayInv'
  BY <1>1, SameKept DEF MoveInv, UnderWayInv
<1>7. KeysSafe'
  BY <1>1, <1>2, SameKept, TwoNodesTwoStores DEF MoveInv, KeysSafe
<1> QED
  BY <1>3, <1>4, <1>5, <1>6, <1>7 DEF MoveInv

LEMMA MoveSetSlotNode ==
    ASSUME MoveInv, NEW n \in Move!Nodes, Move!SetSlotNode(n)
    PROVE  MoveInv'
<1>1. /\ UNCHANGED <<kept, migrate, latest, raced>> /\ migrate.pc = "idle" /\ owner[n] = Move!Source
      /\ \A k \in SlotKeys \ raced : Kept(Move!Source, "kv", k) = None
      /\ (migrating /\ importing) \/ owner[Move!Source] = Move!Target \/ owner[Move!Target] = Move!Target
      /\ owner \in [Move!Nodes -> Move!Nodes]
      /\ owner' = [owner EXCEPT ![n] = Move!Target]
  BY DEF Move!SetSlotNode, Move!Listed, Move!Idle, Kept, MoveInv, MoveTypes
<1>2. owner' \in [Move!Nodes -> Move!Nodes] /\ \A m \in Move!Nodes :
         owner'[m] = IF m = n THEN Move!Target ELSE owner[m]
  BY <1>1, TwoNodesTwoStores
<1>3. CASE n = Move!Source
  <2>1. ~migrating' /\ migrating' \in BOOLEAN /\ UNCHANGED importing
    BY <1>3 DEF Move!SetSlotNode
  <2> QED
    BY <1>1, <1>2, <1>3, <2>1, SameKept, TwoNodesTwoStores
       DEF MoveInv, MoveTypes, Phases, TargetEmpty, KeysSafe, UnderWayInv
<1>4. CASE n = Move!Target
  <2>1. ~importing' /\ importing' \in BOOLEAN /\ UNCHANGED migrating
    BY <1>4, TwoNodesTwoStores DEF Move!SetSlotNode
  <2> QED
    BY <1>1, <1>2, <1>4, <2>1, SameKept, TwoNodesTwoStores
       DEF MoveInv, MoveTypes, Phases, TargetEmpty, KeysSafe, UnderWayInv
<1> QED
  BY <1>3, <1>4, TwoNodesTwoStores

LEMMA MoveMigrateKey ==
    ASSUME MoveInv, NEW k \in SlotKeys, Move!MigrateKey(k)
    PROVE  MoveInv'
<1>1. /\ UNCHANGED <<kept, latest, owner, migrating, importing, raced>> /\ migrating
      /\ migrate' = [pc |-> "kv", key |-> k, value |-> Kept(Move!Source, "kv", k)]
      /\ Kept(Move!Source, "kv", k) # None
  BY DEF Move!MigrateKey, Move!Listed, Kept
<1>2. Kept(Move!Source, "kv", k) \in SlotCells
  BY TwoNodesTwoStores DEF MoveInv, MoveTypes, SlotStores, Kept
<1>3. MoveTypes'
  BY <1>1, <1>2 DEF MoveInv, MoveTypes, MigrateStates
<1>4. /\ migrate'.pc = "kv" /\ migrate'.key = k /\ migrate'.value = Kept(Move!Source, "kv", k)
  BY <1>1
<1>5. owner[Move!Source] # Move!Target
  BY <1>1 DEF MoveInv, Phases
<1> QED
  BY <1>1, <1>3, <1>4, <1>5, SameKept, TwoNodesTwoStores
     DEF MoveInv, Phases, TargetEmpty, KeysSafe, UnderWayInv

\* While a key is under way the slot is at the source and marked; the target has it too when
\* only a raced key is under way.
LEMMA WhileUnderWay ==
    ASSUME MoveInv, migrate.pc # "idle"
    PROVE  /\ migrating /\ owner[Move!Source] = Move!Source
           /\ migrate.key \in SlotKeys /\ migrate.value \in SlotCells
           /\ migrate.key \notin raced =>
                 Kept(Move!Source, "kv", migrate.key) # None /\ AtSource(migrate.key)
<1>1. migrating /\ owner[Move!Source] # Move!Target
  BY DEF MoveInv, Phases
<1>2. owner[Move!Source] = Move!Source
  BY <1>1, TwoNodesTwoStores DEF MoveInv, MoveTypes
<1> QED
  BY <1>1, <1>2 DEF MoveInv, MoveTypes, MigrateStates, KeysSafe, UnderWayInv

LEMMA MoveSend ==
    ASSUME MoveInv, NEW kind \in Move!Kinds, NEW done \in BOOLEAN,
       NEW ok \in BOOLEAN, Move!Send(kind, done, ok)
    PROVE  MoveInv'
<1>k. PICK k : k = migrate.key
  OBVIOUS
<1>1. /\ migrate.pc = kind /\ migrate.pc # "idle"
      /\ (done => Move!CheckKey(Move!Target)) /\ (ok => done)
      /\ UNCHANGED <<owner, migrating, importing, latest, raced>>
  BY TwoNodesTwoStores DEF Move!Send
<1>2. /\ migrating /\ owner[Move!Source] = Move!Source
      /\ k \in SlotKeys /\ migrate.value \in SlotCells
      /\ k \notin raced => Kept(Move!Source, "kv", k) # None /\ AtSource(k)
  BY <1>1, <1>k, WhileUnderWay
<1>3. done /\ owner[Move!Target] = Move!Source => importing
  BY <1>1, <1>2, TwoNodesTwoStores DEF Move!CheckKey
<1>4. /\ kept' \in [Move!Nodes -> SlotStores]
      /\ \A m \in Move!Nodes, kd \in Move!Kinds, j \in SlotKeys :
           Kept(m, kd, j)' = IF done /\ m = Move!Target /\ kd = kind /\ j = k THEN migrate.value
              ELSE Kept(m, kd, j)
  <2>1. kept \in [Move!Nodes -> SlotStores]
    BY DEF MoveInv, MoveTypes
  <2>2. kept' = IF done THEN [kept EXCEPT ![Move!Target][kind][k] = migrate.value] ELSE kept
    BY <1>k DEF Move!Send
  <2>3. CASE done
    <3>1. kept' = [kept EXCEPT ![Move!Target][kind][k] = migrate.value] /\ Move!Target \in Move!Nodes
      BY <2>2, <2>3, TwoNodesTwoStores
    <3>2. PICK v : v = migrate.value
      OBVIOUS
    <3>3. PICK n : n = Move!Target
      OBVIOUS
    <3>4. n \in Move!Nodes /\ k \in SlotKeys /\ v \in SlotCells /\ Puts(n, kind, k, v)
      BY <1>2, <3>1, <3>2, <3>3 DEF Puts
    <3> QED
      BY <2>3, <3>2, <3>3, <3>4, PutKept
  <2>4. CASE ~done
    BY <2>1, <2>2, <2>4 DEF Kept
  <2> QED
    BY <2>3, <2>4
<1>5. \/ ok /\ migrate' = [migrate EXCEPT !.pc = Move!OnAnswer(kind)]
      \/ ~ok /\ migrate' = Move!Idle
  BY TwoNodesTwoStores DEF Move!Send, Move!OnAnswer, Move!OnError
<1>6. migrate \in MigrateStates
  BY DEF MoveInv, MoveTypes
<1>7. \/ /\ ok /\ migrate'.pc = Move!OnAnswer(kind) /\ migrate'.key = k /\ migrate'.value = migrate.value
         /\ migrate' \in MigrateStates
      \/ ~ok /\ migrate' = Move!Idle
  BY <1>5, <1>6, <1>k, TwoNodesTwoStores DEF Move!OnAnswer, MigrateStates
<1>8. /\ Move!OnAnswer("kv") = "get" /\ Move!OnAnswer("vec") = "del"
      /\ Move!Idle.pc = "idle" /\ Move!Idle \in MigrateStates
  BY DEF Move!OnAnswer, Move!Idle, SlotCells, MigrateStates
<1>9. MoveTypes'
  BY <1>1, <1>4, <1>7, <1>8 DEF MoveInv, MoveTypes
<1>10. \A kd \in Move!Kinds, j \in SlotKeys : Kept(Move!Source, kd, j)' = Kept(Move!Source, kd, j)
  BY <1>4, TwoNodesTwoStores
<1>11. Phases' /\ TargetEmpty'
  BY <1>1, <1>2, <1>3, <1>4, <1>7, <1>8, <1>10, TwoNodesTwoStores DEF MoveInv, Phases, TargetEmpty
<1>12. KeysSafe'
  <2> SUFFICES ASSUME NEW j \in SlotKeys \ raced
               PROVE  /\ Kept(Move!Source, "kv", j)' # None => AtSource(j)'
                      /\ Kept(Move!Source, "kv", j)' = None => AtTarget(j)'
    BY <1>1, <1>2, TwoNodesTwoStores DEF KeysSafe
  <2>1. /\ Kept(Move!Source, "kv", j) # None => AtSource(j)
        /\ Kept(Move!Source, "kv", j) = None => AtTarget(j)
    BY <1>2 DEF MoveInv, KeysSafe
  <2>2. Kept(Move!Source, "kv", j) = None => j # k
    BY <1>2
  <2> QED
    BY <1>1, <1>4, <1>10, <2>1, <2>2, TwoNodesTwoStores DEF AtSource, AtTarget
<1>13. UnderWayInv'
  <2>1. CASE ~ok
    BY <1>7, <1>8, <2>1 DEF UnderWayInv
  <2>3. CASE ok /\ k \in raced
    BY <1>1, <1>2, <1>7, <1>8, <2>3, TwoNodesTwoStores DEF UnderWayInv
  <2>2. CASE ok /\ k \notin raced
    <3>1. done /\ migrate'.key = k /\ migrate'.pc = Move!OnAnswer(kind)
      BY <1>1, <1>7, <2>2
    <3>2. k = migrate.key
      BY <1>k
    <3>3. CASE kind = "kv"
      <4>1. Kept(Move!Target, "kv", k)' = Kept(Move!Source, "kv", k)
        BY <1>1, <1>2, <1>4, <2>2, <3>1, <3>2, <3>3, TwoNodesTwoStores DEF MoveInv, UnderWayInv
      <4> QED
        BY <1>1, <1>2, <1>8, <1>10, <2>2, <3>1, <3>3, <4>1, TwoNodesTwoStores DEF UnderWayInv
    <3>4. CASE kind = "vec"
      <4>1. Kept(Move!Target, "vec", k)' = Kept(Move!Source, "vec", k) /\ Kept(Move!Target, "kv", k)' = Kept(Move!Target, "kv", k)
        BY <1>1, <1>2, <1>4, <2>2, <3>1, <3>2, <3>4, TwoNodesTwoStores DEF MoveInv, UnderWayInv
      <4>2. Kept(Move!Target, "kv", k) = Kept(Move!Source, "kv", k)
        BY <1>1, <2>2, <3>2, <3>4 DEF MoveInv, UnderWayInv
      <4> QED
        BY <1>1, <1>2, <1>8, <1>10, <2>2, <3>1, <3>4, <4>1, <4>2, TwoNodesTwoStores DEF UnderWayInv
    <3> QED
      BY <3>3, <3>4, TwoNodesTwoStores
  <2> QED
    BY <2>1, <2>2, <2>3
<1> QED
  BY <1>9, <1>11, <1>12, <1>13 DEF MoveInv

LEMMA MoveGetVec ==
    ASSUME MoveInv, Move!GetVec
    PROVE  MoveInv'
<1> DEFINE k == migrate.key
           v == Kept(Move!Source, "vec", k)
<1>1. /\ migrate.pc = "get" /\ UNCHANGED <<kept, latest, owner, migrating, importing, raced>>
      /\ migrate' = [migrate EXCEPT !.pc = IF v = None THEN "del" ELSE "vec", !.value = v]
  BY DEF Move!GetVec, Kept
<1>2. /\ migrating /\ owner[Move!Source] = Move!Source
      /\ k \in SlotKeys /\ (k \notin raced => Kept(Move!Source, "kv", k) # None)
  BY <1>1, WhileUnderWay
<1>3. v \in SlotCells
  BY <1>2, TwoNodesTwoStores DEF MoveInv, MoveTypes, SlotStores, Kept
<1>4. k \notin raced => Kept(Move!Target, "kv", k) = Kept(Move!Source, "kv", k)
  BY <1>1 DEF MoveInv, UnderWayInv
<1>5. migrate \in MigrateStates
  BY DEF MoveInv, MoveTypes
<1>6. /\ migrate' \in MigrateStates
      /\ migrate'.key = k /\ migrate'.value = v /\ migrate'.pc = IF v = None THEN "del" ELSE "vec"
  BY <1>1, <1>3, <1>5 DEF MigrateStates
<1> HIDE DEF k
<1>7. MoveTypes' /\ Phases' /\ TargetEmpty' /\ KeysSafe'
  BY <1>1, <1>2, <1>6, SameKept, TwoNodesTwoStores DEF MoveInv, MoveTypes, Phases, TargetEmpty, KeysSafe
<1>8. UnderWayInv'
  BY <1>1, <1>2, <1>4, <1>6, SameKept, TwoNodesTwoStores DEF UnderWayInv
<1> QED
  BY <1>7, <1>8 DEF MoveInv

LEMMA MoveMigrateDel ==
    ASSUME MoveInv, Move!MigrateDel
    PROVE  MoveInv'
<1> DEFINE k == migrate.key
           t == [kind \in Move!Kinds |-> [kept[Move!Source][kind] EXCEPT ![k] = None]]
<1>1. /\ migrate.pc = "del" /\ UNCHANGED <<latest, owner, migrating, importing, raced>>
      /\ migrate' = Move!Idle /\ kept' = [kept EXCEPT ![Move!Source] = t]
  BY DEF Move!MigrateDel
<1>2. /\ migrating /\ owner[Move!Source] = Move!Source
      /\ k \in SlotKeys /\ (k \notin raced => Kept(Move!Source, "kv", k) # None /\ AtSource(k))
  BY <1>1, WhileUnderWay
<1>3. /\ kept' \in [Move!Nodes -> SlotStores]
      /\ \A m \in Move!Nodes, kd \in Move!Kinds, j \in SlotKeys :
           Kept(m, kd, j)' = IF m = Move!Source /\ j = k THEN None ELSE Kept(m, kd, j)
  <2>1. kept \in [Move!Nodes -> SlotStores] /\ kept[Move!Source] \in SlotStores /\ Move!Source \in Move!Nodes
    BY TwoNodesTwoStores DEF MoveInv, MoveTypes
  <2>2. t \in SlotStores /\ \A kd \in Move!Kinds, j \in SlotKeys : t[kd][j] = IF j = k THEN None
           ELSE kept[Move!Source][kd][j]
    BY <1>2, <2>1, DropKept
  <2> HIDE DEF t
  <2> QED
    BY <1>1, <2>1, <2>2 DEF Kept
<1>4. /\ Move!Idle.pc = "idle"
      /\ Move!Idle \in MigrateStates
  BY DEF Move!Idle, SlotCells, MigrateStates
<1>5. k \notin raced =>
        /\ Kept(Move!Target, "kv", k) = Kept(Move!Source, "kv", k)
        /\ Kept(Move!Source, "vec", k) # None => Kept(Move!Target, "vec", k) = Kept(Move!Source, "vec", k)
  BY <1>1 DEF MoveInv, UnderWayInv
<1> HIDE DEF k, t
<1>6. MoveTypes' /\ Phases' /\ UnderWayInv'
  BY <1>1, <1>2, <1>3, <1>4, TwoNodesTwoStores DEF MoveInv, MoveTypes, Phases, UnderWayInv
<1>7. TargetEmpty'
  BY <1>1, <1>2, <1>3, TwoNodesTwoStores DEF MoveInv, TargetEmpty
<1>8. KeysSafe'
  <2> SUFFICES ASSUME NEW j \in SlotKeys \ raced
               PROVE  /\ Kept(Move!Source, "kv", j)' # None => AtSource(j)'
                      /\ Kept(Move!Source, "kv", j)' = None => AtTarget(j)'
    BY <1>1, <1>2, TwoNodesTwoStores DEF KeysSafe
  <2>1. /\ Kept(Move!Source, "kv", j) # None => AtSource(j)
        /\ Kept(Move!Source, "kv", j) = None => AtTarget(j)
    BY <1>2 DEF MoveInv, KeysSafe
  <2>2. CASE j = k
    BY <1>1, <1>2, <1>3, <1>5, <2>2, TwoNodesTwoStores DEF AtSource, AtTarget
  <2>3. CASE j # k
    BY <1>1, <1>3, <2>1, <2>3, TwoNodesTwoStores DEF AtSource, AtTarget
  <2> QED
    BY <2>2, <2>3
<1> QED
  BY <1>6, <1>7, <1>8 DEF MoveInv

LEMMA MoveNext == ASSUME NoneIsNoValue, MoveInv, [Move!Next]_(Move!vars) PROVE MoveInv'
<1>1. CASE UNCHANGED Move!vars
  BY <1>1, SameKept DEF Move!vars, MoveInv, MoveTypes, Phases, TargetEmpty, KeysSafe, UnderWayInv
<1> QED
  BY <1>1, MoveSet, MoveDel, MoveMark, MoveSetSlotNode, MoveMigrateKey, MoveSend, MoveGetVec, MoveMigrateDel DEF Move!Next

LEMMA MoveSafe == ASSUME MoveInv PROVE Move!ReadsLatest /\ Move!VectorsSafe
<1>1. Move!ReadsLatest
  <2> SUFFICES ASSUME NEW k \in SlotKeys \ raced PROVE Move!Get(owner[Move!Source], "kv", k) = latest["kv"][k]
    BY DEF Move!ReadsLatest
  <2>1. Move!CheckKey(owner[Move!Source]) /\ owner[Move!Source] \in Move!Nodes
    BY MoveLands
  <2>2. CASE owner[Move!Source] = Move!Target
    BY <2>1, <2>2, TwoNodesTwoStores DEF Move!Get, MoveInv, KeysSafe, AtTarget, Kept
  <2>3. CASE owner[Move!Source] = Move!Source /\ ~Move!Asks("kv", k)
    BY <2>1, <2>3, TwoNodesTwoStores DEF Move!Get, Move!Asks, MoveInv, KeysSafe, AtSource, Kept
  <2>4. CASE owner[Move!Source] = Move!Source /\ Move!Asks("kv", k)
    <3>1. AtTarget(k)
      BY <2>4 DEF Move!Asks, MoveInv, KeysSafe, Kept
    <3>2. CASE Move!CheckKey(Move!Target)
      BY <2>1, <2>4, <3>1, <3>2 DEF Move!Get, AtTarget, Kept
    <3>3. CASE ~Move!CheckKey(Move!Target)
      <4>1. Kept(Move!Target, "kv", k) = None
        BY <3>3, TwoNodesTwoStores DEF Move!CheckKey, MoveInv, MoveTypes, TargetEmpty
      <4> QED
        BY <2>1, <2>4, <3>1, <3>3, <4>1 DEF Move!Get, AtTarget
    <3> QED
      BY <3>2, <3>3
  <2> QED
    BY <2>1, <2>2, <2>3, <2>4, TwoNodesTwoStores
<1>2. Move!VectorsSafe
  <2>1. owner[Move!Source] \in {Move!Source, Move!Target} /\ (owner[Move!Source] = Move!Target => ~migrating) /\ Move!Source # Move!Target
    BY TwoNodesTwoStores DEF MoveInv, MoveTypes, Phases
  <2> QED
    BY <2>1, TwoNodesTwoStores DEF Move!VectorsSafe, MoveInv, KeysSafe, AtSource, AtTarget, Kept
<1> QED
  BY <1>1, <1>2

LEMMA NodeMoves ==
    ASSUME NoneIsNoValue
    PROVE  /\ NodeInit => (part = "migrate" => MoveInv)
           /\ (part = "migrate" => MoveInv) /\ [NodeNext]_nodeVars => (part = "migrate" => MoveInv)'
<1>1. ASSUME NodeInit, part = "migrate" PROVE MoveInv
  <2>1. Move!Init
    BY <1>1 DEF NodeInit
  <2> QED
    BY <2>1, MoveInit
<1>2. ASSUME part = "migrate" => MoveInv, [NodeNext]_nodeVars, part' = "migrate" PROVE MoveInv'
  <2>1. part = "migrate" /\ MoveInv /\ (Move!Next \/ UNCHANGED migrateVars)
    BY <1>2 DEF NodeNext, nodeVars
  <2>2. [Move!Next]_(Move!vars)
    BY <2>1 DEF migrateVars, Move!vars
  <2> QED
    BY <2>1, <2>2, MoveNext
<1> QED
  BY <1>1, <1>2

\* MIGRATE, SETSLOT and the redirections of CheckKey and CheckKeyAsk lose nothing, wherever
\* a migration stops and begins anew and whatever the clients write meanwhile: of each key
\* but those written while they were under way the string written last is read and the vector
\* is kept.
THEOREM SlotsMoveWhole == ASSUME NoneIsNoValue PROVE NodeSpec => []MigrateKeeps
<1> DEFINE Inv == part = "migrate" => MoveInv
<1>1. NodeInit => Inv
  BY NodeMoves
<1>2. Inv /\ [NodeNext]_nodeVars => Inv'
  BY NodeMoves
<1>3. Inv => MigrateKeeps
  BY MoveSafe DEF MigrateKeeps
<1> HIDE DEF Inv
<1> QED
  BY <1>1, <1>2, <1>3, PTL DEF NodeSpec
=============================================================================
