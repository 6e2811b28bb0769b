-------------------------------- MODULE Replica --------------------------------
(***************************************************************************)
(* Replication to one replica (internal/cluster/replication.go with the    *)
(* write commands of cmd/kvstore that call ForwardWrite).  The replica     *)
(* dials, the master walks its stores onto the connection and registers it;*)
(* from then on each write is printed to it.  A connection that fails is   *)
(* dialled again, and everything is sent again.                            *)
(*                                                                         *)
(* All of it runs together.  raced has what a full synchronisation or      *)
(* another writer has come between.                                        *)
(***************************************************************************)
EXTENDS Integers, Sequences, FiniteSets

CONSTANTS
    Keys, Values, None,
    Threads,     \* connections of clients at the master
    MaxWrites,   \* bound: writes at the master
    MaxBreaks    \* bound: no more breaks when so many connections are lost

\* Each break costs a connection, and each thread that hears of it may close another.
Conns == 1..(1 + (1 + Cardinality(Threads)) * MaxBreaks)
NoConn == 0
Kinds == {"kv", "vec"}
Items == Kinds \X Keys
Empty == [kind \in Kinds |-> [k \in Keys |-> None]]

VARIABLES
    store,      \* the master's two stores
    copy,       \* the replica's
    forward,    \* what each thread has yet to do of its write and in ForwardWrite
    writes,
    registered, \* ReplicationManager.replicas[id]
    psync,      \* HandlePsync for each connection: "none", "asked", "walk" or "returned"
    todo,       \* and what it has yet to print
    stream,     \* lines on each connection
    link,       \* "new", "up", "broken" or "closed" by the master
    session,    \* connection of replicationLoop, or NoConn
    dialled,
    raced       \* history: items that the newest copy may have wrong for good

vars == <<store, copy, forward, writes, registered, psync, todo, stream, link, session, dialled, raced>>

Line(what, kind, k, v) == [what |-> what, kind |-> kind, key |-> k, value |-> v]
Sign(what) == Line(what, "kv", None, None)

Printed(c, lines) ==
    stream' = IF link[c] = "up" THEN [stream EXCEPT ![c] = @ \o lines] ELSE stream

Nothing == [pc |-> "idle", line |-> Sign("")]
Item(line) == <<line.kind, line.key>>
Writing(t, item) == forward[t].pc \in {"vector", "forward"} /\ Item(forward[t].line) = item
Written(item) == \E t \in Threads : Writing(t, item)

\* The newest full synchronisation, if there is one, has yet to come to the item.
ToCome(item) == dialled = NoConn \/ psync[dialled] = "asked" \/ item \in todo[dialled]

Races(item, does) == raced' = IF does THEN raced \cup {item} ELSE raced

(***************************************************************************)
(* The master                                                              *)
(***************************************************************************)
\* A write changes the store and has ForwardWrite before it, where another writer of the
\* same item may be first.
Writes(t, pc, new, line) ==
    /\ forward[t].pc = "idle"
    /\ writes < MaxWrites
    /\ store' = new
    /\ forward' = [forward EXCEPT ![t] = [pc |-> pc, line |-> line]]
    /\ writes' = writes + 1
    /\ Races(Item(line), Written(Item(line)))
    /\ UNCHANGED <<copy, registered, psync, todo, stream, link, session, dialled>>

\* SET and VSIM.ADD
Set(t, kind, k, v) ==
    Writes(t, "forward", [store EXCEPT ![kind][k] = v], Line("SET", kind, k, v))

Del(t, k) ==
    Writes(t, "vector", [store EXCEPT !["kv"][k] = None], Line("DEL", "kv", k, None))

\* DEL takes the vector of the key with it, and its line does not say so.
DelVector(t) ==
    LET item == <<"vec", forward[t].line.key>> IN
    /\ forward[t].pc = "vector"
    /\ store' = [store EXCEPT !["vec"][item[2]] = None]
    /\ forward' = [forward EXCEPT ![t].pc = "forward"]
    /\ Races(item, store["vec"][item[2]] # None /\ (Written(item) \/ ~ToCome(item)))
    /\ UNCHANGED <<copy, writes, registered, psync, todo, stream, link, session, dialled>>

VSimDel(t, k) ==
    /\ store["vec"][k] # None
    /\ Writes(t, "forward", [store EXCEPT !["vec"][k] = None], Line("DEL", "vec", k, None))

\* Mutant: a connection that fails is dropped and stays open.
SweepOpen(c) == UNCHANGED link

CloseDead(c) == link' = [link EXCEPT ![c] = "closed"]

\* A line for a replica that is still being sent the copy goes to nobody.
Misses(item) == dialled # NoConn /\ psync[dialled] = "walk" /\ ~ToCome(item)

\* ForwardWrite under the read lock: a print to a broken connection may succeed.
Forward(t) ==
    /\ forward[t].pc = "forward"
    /\ LET c == registered
           fails == c # NoConn /\ link[c] # "up"
       IN  /\ IF c = NoConn THEN UNCHANGED stream ELSE Printed(c, <<forward[t].line>>)
           /\ \E pc \in IF ~fails THEN {"idle"} ELSE IF link[c] = "broken" THEN {"idle", "sweep"}
                                                                          ELSE {"sweep"} :
                  forward' = [forward EXCEPT ![t] = [Nothing EXCEPT !.pc = pc]]
    /\ Races(Item(forward[t].line), Misses(Item(forward[t].line)))
    /\ UNCHANGED <<store, copy, writes, registered, psync, todo, link, session, dialled>>

\* Under the lock, and by the name of the replica: whatever connection it has now.
Sweep(t) ==
    /\ forward[t].pc = "sweep"
    /\ registered' = NoConn
    /\ IF registered = NoConn THEN UNCHANGED link ELSE CloseDead(registered)
    /\ forward' = [forward EXCEPT ![t] = Nothing]
    /\ UNCHANGED <<store, copy, writes, psync, todo, stream, session, dialled, raced>>

\* Mutant: the replica is not told to forget what it has.
SignNone(c) == UNCHANGED stream

FullSync(c) == Printed(c, <<Sign("FULLSYNC")>>)

\* The newest copy begins anew.
HandlePsync(c) ==
    /\ psync[c] = "asked"
    /\ FullSync(c)
    /\ psync' = [psync EXCEPT ![c] = "walk"]
    /\ todo' = [todo EXCEPT ![c] = Items]
    /\ raced' = IF c = dialled THEN {item \in raced : Written(item)} ELSE raced
    /\ UNCHANGED <<store, copy, forward, writes, registered, link, session, dialled>>

\* ForEach, strings first, then vectors: an item is read, and printed before the walk ends.
Walk(c, kind, k) ==
    /\ psync[c] = "walk"
    /\ <<kind, k>> \in todo[c]
    /\ kind = "vec" => \A x \in todo[c] : x[1] = "vec"
    /\ todo' = [todo EXCEPT ![c] = @ \ {<<kind, k>>}]
    /\ Printed(c, IF store[kind][k] = None THEN <<>> ELSE <<Line("SET", kind, k, store[kind][k])>>)
    /\ UNCHANGED <<store, copy, forward, writes, registered, psync, link, session, dialled, raced>>

Registers(c) == registered' = c

\* By the name of the replica: a connection that is older than the one it has replaces it.
Register(c) ==
    /\ psync[c] = "walk" /\ todo[c] = {}
    /\ Printed(c, <<Sign("DONE")>>)
    /\ Registers(c)
    /\ raced' = IF psync[dialled] = "returned" THEN Items ELSE raced
    /\ psync' = [psync EXCEPT ![c] = "returned"]
    /\ UNCHANGED <<store, copy, forward, writes, todo, link, session, dialled>>

(***************************************************************************)
(* The replica                                                             *)
(***************************************************************************)
Dial ==
    /\ session = NoConn
    /\ dialled + 1 \in Conns
    /\ dialled' = dialled + 1
    /\ session' = dialled'
    /\ link' = [link EXCEPT ![dialled'] = "up"]
    /\ psync' = [psync EXCEPT ![dialled'] = "asked"]
    /\ UNCHANGED <<store, copy, forward, writes, registered, todo, stream, raced>>

\* applyReplicationCommand; FULLSYNC clears both stores.
Applied(line) ==
    CASE line.what = "FULLSYNC" -> Empty
      [] line.what = "DONE" -> copy
      [] OTHER -> [copy EXCEPT ![line.kind][line.key] = line.value]

Read ==
    /\ session # NoConn
    /\ stream[session] # <<>>
    /\ copy' = Applied(Head(stream[session]))
    /\ stream' = [stream EXCEPT ![session] = Tail(@)]
    /\ UNCHANGED <<store, forward, writes, registered, psync, todo, link, session, dialled, raced>>

\* The end of the stream, or an error: ConnectToMaster dials again.
SessionEnds ==
    /\ session # NoConn
    /\ stream[session] = <<>>
    /\ link[session] # "up"
    /\ session' = NoConn
    /\ UNCHANGED <<store, copy, forward, writes, registered, psync, todo, stream, link, dialled, raced>>

\* What has not been read may be lost with the connection.
Break(c) ==
    /\ link[c] = "up"
    /\ Cardinality({d \in Conns : link[d] \in {"broken", "closed"}}) < MaxBreaks
    /\ link' = [link EXCEPT ![c] = "broken"]
    /\ \E i \in 0..Len(stream[c]) : stream' = [stream EXCEPT ![c] = SubSeq(@, 1, i)]
    /\ UNCHANGED <<store, copy, forward, writes, registered, psync, todo, session, dialled, raced>>

Init ==
    /\ store = Empty /\ copy = Empty
    /\ forward = [t \in Threads |-> Nothing] /\ writes = 0
    /\ registered = NoConn
    /\ psync = [c \in Conns |-> "none"] /\ todo = [c \in Conns |-> {}]
    /\ stream = [c \in Conns |-> <<>>] /\ link = [c \in Conns |-> "new"]
    /\ session = NoConn /\ dialled = 0 /\ raced = {}

Sync(c) == HandlePsync(c) \/ Register(c) \/ \E kind \in Kinds, k \in Keys : Walk(c, kind, k)
Answer(t) == DelVector(t) \/ Forward(t) \/ Sweep(t)
Listen == Dial \/ Read \/ SessionEnds

Next ==
    \/ \E t \in Threads : \/ \E k \in Keys : \/ \E kind \in Kinds, v \in Values : Set(t, kind, k, v)
                                            \/ Del(t, k) \/ VSimDel(t, k)
                          \/ Answer(t)
    \/ \E c \in Conns : Sync(c) \/ Break(c)
    \/ Listen

\* Goroutines run; ConnectToMaster never gives up.
Fairness ==
    /\ \A t \in Threads : WF_vars(Answer(t))
    /\ \A c \in Conns : WF_vars(Sync(c))
    /\ WF_vars(Listen)

Spec == Init /\ [][Next]_vars
LiveSpec == Spec /\ Fairness

(***************************************************************************)
(* Properties                                                              *)
(***************************************************************************)
Same(item) == copy[item[1]][item[2]] = store[item[1]][item[2]]

\* A replica that has read everything on a connection that works, after the full
\* synchronisation, has of each item what the master has, when no write of it is under way
\* and none has raced: nothing is missed, and no key that was deleted while it was away
\* lives on.
SameWhenQuiet ==
    /\ session # NoConn
    /\ link[session] = "up" /\ psync[session] = "returned" /\ stream[session] = <<>>
    => \A item \in Items \ raced : Written(item) \/ Same(item)

\* However connections fail, the replica gets there.
Converges == <>[](\A item \in Items \ raced : Same(item))
=============================================================================
