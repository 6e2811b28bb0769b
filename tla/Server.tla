------------------------------- MODULE Server -------------------------------
(***************************************************************************)
(* The TCP server (internal/server/server.go): the accept loop with its    *)
(* limit, one goroutine for each connection, the single point at which a   *)
(* connection is closed, and Stop, which drains them.                      *)
(*                                                                         *)
(* Server.mu is held within a step.  What a handler does is left out; that *)
(* it runs is not: the caller of Stop closes the log next.                 *)
(***************************************************************************)
EXTENDS Integers, FiniteSets

CONSTANTS
    Clients,        \* connections that may arrive
    NoClient,
    MaxConnections, \* 0: no limit
    Exempt,         \* connections for which IdleExempt holds (subscribers)
    MaxData         \* bound: commands that a client sends

ASSUME ServerAssumption ==
    /\ {MaxConnections, MaxData} \subseteq Nat
    /\ IsFiniteSet(Clients) /\ Exempt \subseteq Clients
    /\ NoClient \notin Clients

VARIABLES
    accept,      \* acceptLoop: "accept", "register" or "count" a connection, "returned"
    accepted,    \* its connection, if it has one
    conns,       \* Server.conns
    activeConns,
    wg,          \* Server.wg
    serve,       \* the goroutine of each connection
    deadline,    \* read deadline of each connection: "none", "later" or "now"
    data,        \* commands that have arrived and are not read
    sent,        \* commands that the client has sent
    once,        \* connections whose closeOnce is done
    stopping,
    stop,        \* Stop: where it is
    late         \* history: drainTimeout has passed

vars == <<accept, accepted, conns, activeConns, wg, serve, deadline, data, sent, once,
          stopping, stop, late>>

(***************************************************************************)
(* acceptLoop                                                              *)
(***************************************************************************)
AtLimit == MaxConnections > 0 /\ activeConns >= MaxConnections

\* Above the limit the connection is closed at once.
Accept(c) ==
    /\ accept = "accept"
    /\ stop \in {"running", "stopping"}
    /\ serve[c] = "new"
    /\ IF AtLimit
       THEN /\ serve' = [serve EXCEPT ![c] = "rejected"]
            /\ UNCHANGED <<accept, accepted>>
       ELSE accept' = "register" /\ accepted' = c /\ UNCHANGED serve
    /\ UNCHANGED <<conns, activeConns, wg, deadline, data, sent, once, stopping, stop, late>>

\* A listener that is closed, or an error that is not temporary, ends the loop.
AcceptFails ==
    /\ accept = "accept"
    /\ accept' = "returned"
    /\ UNCHANGED <<accepted, conns, activeConns, wg, serve, deadline, data, sent, once,
                   stopping, stop, late>>

Register ==
    /\ accept = "register"
    /\ IF stopping
       THEN /\ accept' = "returned"
            /\ serve' = [serve EXCEPT ![accepted] = "rejected"]
            /\ UNCHANGED conns
       ELSE /\ accept' = "count"
            /\ conns' = conns \cup {accepted}
            /\ UNCHANGED serve
    /\ UNCHANGED <<accepted, activeConns, wg, deadline, data, sent, once, stopping, stop, late>>

\* Outside the lock: Stop may have gone over the connections, and ended, before.
Count ==
    /\ accept = "count"
    /\ activeConns' = activeConns + 1
    /\ wg' = wg + 1
    /\ serve' = [serve EXCEPT ![accepted] = "loop"]
    /\ accept' = "accept" /\ accepted' = NoClient
    /\ UNCHANGED <<conns, deadline, data, sent, once, stopping, stop, late>>

(***************************************************************************)
(* serve                                                                   *)
(***************************************************************************)
Goto(c, pc) == serve' = [serve EXCEPT ![c] = pc]

\* The deadline is set before stopping is read.
SetDeadline(c) ==
    /\ serve[c] = "loop"
    /\ deadline' = [deadline EXCEPT ![c] = "later"]
    /\ Goto(c, "check")
    /\ UNCHANGED <<accept, accepted, conns, activeConns, wg, data, sent, once, stopping, stop, late>>

\* Mutant: stopping is not read.
CheckNever(c) == Goto(c, "read")

CheckStopping(c) == Goto(c, IF stopping THEN "close" ELSE "read")

Check(c) ==
    /\ serve[c] = "check"
    /\ CheckStopping(c)
    /\ UNCHANGED <<accept, accepted, conns, activeConns, wg, deadline, data, sent, once,
                   stopping, stop, late>>

\* ReadFromConn: a deadline that has passed comes before data that is there.
Read(c) ==
    /\ serve[c] = "read"
    /\ \/ deadline[c] = "now" /\ Goto(c, "close") /\ UNCHANGED data
       \/ c \in once /\ Goto(c, "close") /\ UNCHANGED data
       \/ /\ deadline[c] # "now" /\ c \notin once
          /\ data[c] > 0
          /\ Goto(c, "handle")
          /\ data' = [data EXCEPT ![c] = @ - 1]
    /\ UNCHANGED <<accept, accepted, conns, activeConns, wg, deadline, sent, once, stopping, stop, late>>

\* IdleTimeout without data: a subscriber goes on, everybody else is reaped.
Idle(c) ==
    /\ serve[c] = "read"
    /\ deadline[c] = "later" /\ data[c] = 0
    /\ Goto(c, IF c \in Exempt /\ ~stopping THEN "loop" ELSE "close")
    /\ UNCHANGED <<accept, accepted, conns, activeConns, wg, deadline, data, sent, once,
                   stopping, stop, late>>

\* The handler has run: the next command, if TryRead finds one, or Flush; a panic, a
\* protocol error or a failed Flush closes.
Handle(c) ==
    /\ serve[c] = "handle"
    /\ \/ /\ data[c] > 0 /\ c \notin once
          /\ data' = [data EXCEPT ![c] = @ - 1]
          /\ UNCHANGED serve
       \/ data[c] = 0 /\ Goto(c, "loop") /\ UNCHANGED data
       \/ Goto(c, "close") /\ UNCHANGED data
    /\ UNCHANGED <<accept, accepted, conns, activeConns, wg, deadline, sent, once, stopping, stop, late>>

\* Mutant: every caller takes the connection off the books.
CloseEach(c) ==
    /\ once' = once \cup {c}
    /\ conns' = conns \ {c}
    /\ activeConns' = activeConns - 1

\* closeConn, whoever calls it: once.
CloseConn(c) ==
    IF c \in once THEN UNCHANGED <<once, conns, activeConns>>
    ELSE /\ once' = once \cup {c}
         /\ conns' = conns \ {c}
         /\ activeConns' = activeConns - 1

Return(c) ==
    /\ serve[c] = "close"
    /\ CloseConn(c)
    /\ Goto(c, "returned")
    /\ wg' = wg - 1
    /\ UNCHANGED <<accept, accepted, deadline, data, sent, stopping, stop, late>>

\* The hub closes a connection whose subscriber is slow.
CloseSlow(c) ==
    /\ c \in conns
    /\ c \in Exempt
    /\ CloseConn(c)
    /\ UNCHANGED <<accept, accepted, wg, serve, deadline, data, sent, stopping, stop, late>>

(***************************************************************************)
(* Stop, and the clients                                                   *)
(***************************************************************************)
StopBegin ==
    /\ stop = "running"
    /\ stopping' = TRUE
    /\ stop' = "stopping"
    /\ UNCHANGED <<accept, accepted, conns, activeConns, wg, serve, deadline, data, sent, once, late>>

\* Closes the listener and sets every deadline to now.
Poke ==
    /\ stop = "stopping"
    /\ deadline' = [c \in Clients |-> IF c \in conns THEN "now" ELSE deadline[c]]
    /\ stop' = "draining"
    /\ UNCHANGED <<accept, accepted, conns, activeConns, wg, serve, data, sent, once, stopping, late>>

Drained ==
    /\ stop = "draining"
    /\ wg = 0
    /\ stop' = "closing"
    /\ UNCHANGED <<accept, accepted, conns, activeConns, wg, serve, deadline, data, sent, once,
                   stopping, late>>

\* drainTimeout: a handler has not come back.
DrainTimeout ==
    /\ stop = "draining"
    /\ wg > 0
    /\ stop' = "closing"
    /\ late' = TRUE
    /\ UNCHANGED <<accept, accepted, conns, activeConns, wg, serve, deadline, data, sent, once, stopping>>

CloseRest(c) ==
    /\ stop = "closing"
    /\ c \in conns
    /\ CloseConn(c)
    /\ UNCHANGED <<accept, accepted, wg, serve, deadline, data, sent, stopping, stop, late>>

StopReturns ==
    /\ stop = "closing"
    /\ conns = {}
    /\ stop' = "returned"
    /\ UNCHANGED <<accept, accepted, conns, activeConns, wg, serve, deadline, data, sent, once,
                   stopping, late>>

ClientSends(c) ==
    /\ serve[c] \in {"loop", "check", "read", "handle"}
    /\ sent[c] < MaxData
    /\ sent' = [sent EXCEPT ![c] = @ + 1]
    /\ data' = [data EXCEPT ![c] = @ + 1]
    /\ UNCHANGED <<accept, accepted, conns, activeConns, wg, serve, deadline, once, stopping, stop, late>>

\* A client that hangs up ends a Read.
HangsUp(c) ==
    /\ serve[c] = "read" /\ data[c] = 0
    /\ Goto(c, "close")
    /\ UNCHANGED <<accept, accepted, conns, activeConns, wg, deadline, data, sent, once,
                   stopping, stop, late>>

Init ==
    /\ accept = "accept" /\ accepted = NoClient
    /\ conns = {} /\ once = {}
    /\ activeConns = 0 /\ wg = 0
    /\ serve = [c \in Clients |-> "new"]
    /\ deadline = [c \in Clients |-> "none"]
    /\ data = [c \in Clients |-> 0] /\ sent = [c \in Clients |-> 0]
    /\ stopping = FALSE /\ stop = "running" /\ late = FALSE

Serve(c) ==
    SetDeadline(c) \/ Check(c) \/ Read(c) \/ Idle(c) \/ Handle(c) \/ Return(c)

Next ==
    \/ \E c \in Clients : Accept(c) \/ Serve(c) \/ CloseSlow(c) \/ CloseRest(c)
                          \/ ClientSends(c) \/ HangsUp(c)
    \/ AcceptFails \/ Register \/ Count
    \/ StopBegin \/ Poke \/ Drained \/ DrainTimeout \/ StopReturns

Spec == Init /\ [][Next]_vars

(***************************************************************************)
(* Properties                                                              *)
(***************************************************************************)
\* The counter of connections is exact: a slot is taken once and given back once,
\* however many ways a connection is closed in.  (It may be below 0 for a moment,
\* when Stop closes a connection that acceptLoop has not counted.)
Counted == {c \in Clients : serve[c] \notin {"new", "rejected"}}
CountExact == activeConns = Cardinality(Counted) - Cardinality(once)

\* The limit is a limit.
LimitHolds == MaxConnections > 0 => Cardinality(conns) <= MaxConnections

\* Slots are neither lost nor given away twice, and never more than there are.
SlotsRight == CountExact /\ LimitHolds

\* A goroutine that waits for data while Stop waits for it has the deadline "now":
\* Stop never waits for a client that says nothing.
NoLostWakeUp ==
    stop = "draining" => \A c \in conns : serve[c] = "read" => deadline[c] = "now"

\* After Stop has returned, within its time, no handler runs: the log may be closed.
QuietAfterStop == stop = "returned" /\ ~late => \A c \in Clients : serve[c] # "handle"
=============================================================================
