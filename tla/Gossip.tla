-------------------------------- MODULE Gossip --------------------------------
(***************************************************************************)
(* The view that each node of a cluster has of the others (internal/       *)
(* cluster: node.go, gossip.go, parts of cluster.go and migration.go):     *)
(* who there is, which slots it owns, and the table that routes commands.  *)
(* Views travel in the ping and the pong of an exchange; nothing orders    *)
(* two views of the same node.                                             *)
(*                                                                         *)
(* CLUSTER MEET knows an address and not its id: it enters the node under  *)
(* an id of its own, a phantom, which lives on beside the real one.  PFAIL *)
(* has no effect but in CLUSTER NODES and is left out.  Time is left out   *)
(* too: any node may find any other silent for failTimeout.                *)
(***************************************************************************)
EXTENDS Integers, FiniteSets, TLC, Functions

CONSTANTS
    Nodes,        \* nodes; a node stands for its id and for its address
    Slots,
    NoId,
    OwnedBy,      \* slots with which each node is started
    Meets,        \* CLUSTER MEETs: [node, addr, slots]
    MayCrash,     \* nodes that may crash
    Watched,      \* bound: <<node, id>>, where the node may declare the id failed
    Replicates,   \* CLUSTER REPLICATEs: <<node, id of the master>>
    MaxSetSlots,  \* bound: slots that are given to another node
    Careful       \* TRUE: SETSLOT NODE is sent to the old owner first, and no gossip is under
                  \* way then

\* An id: a node, or the phantom that a node has made for an address.
Phantom(n, addr) == <<n, addr>>
Phantoms == {Phantom(m.node, m.addr) : m \in Meets}
Ids == Nodes \cup Phantoms
Addr(id) == IF id \in Phantoms THEN id[2] ELSE id

VARIABLES
    view,     \* ClusterState.Nodes: id -> its slots, for the ids that the node knows
    table,    \* SlotTable: slot -> id, or NoId
    failed,   \* ids whose State is NodeFail
    master,   \* Self.MasterID, or NoId: the node is a master itself
    wire,     \* the exchange that each node has started
    down,     \* nodes that have crashed
    moves,    \* slots given away so far: <<slot, new owner>>
    usurped   \* history: a replica was promoted while its master was not gone

vars == <<view, table, failed, master, wire, down, moves, usurped>>

Idle == [at |-> "idle", peer |-> NoId, view |-> <<>>]

(***************************************************************************)
(* applyNodeInfo takes the lock for each node of a message, the sender     *)
(* first.  Nobody is told about himself, under whatever id.                *)
(***************************************************************************)
Heard(n, v) == Restrict(v, {id \in DOMAIN v : Addr(id) # n})

\* What is left of a message, by the ids that are still to be applied, and its sender.
Whole(sender, msg) == sender \in DOMAIN msg.view
Rest(msg, id) == [msg EXCEPT !.view = Restrict(@, DOMAIN @ \ {id})]

\* Node n applies what the message says of one id; a sender is online again.
applyNodeInfo(n, sender, id, slots) ==
    /\ view' = [view EXCEPT ![n] = id :> slots @@ @]
    /\ table' = [table EXCEPT ![n] = [s \in Slots |-> IF s \in slots THEN id ELSE @[s]]]
    /\ failed' = [failed EXCEPT ![n] = IF id = sender THEN @ \ {sender} ELSE @]

\* The next id of the message that node n has started an exchange with.
ApplyNext(n, receiver, sender) ==
    \E id \in DOMAIN wire[n].view :
        /\ Whole(sender, wire[n]) => id = sender
        /\ applyNodeInfo(receiver, sender, id, wire[n].view[id])
        /\ wire' = [wire EXCEPT ![n] = Rest(@, id)]

(***************************************************************************)
(* Gossip                                                                  *)
(***************************************************************************)
\* Mutant: a message says nothing about third nodes.
AboutSelf(n, v) == Restrict(v, {n})

buildMessage(n, v) == v

\* pingRandomNode: nobody answers at the address of a node that is down.
Ping(n, id) ==
    LET to == Addr(id) IN
    /\ n \notin down
    /\ wire[n] = Idle
    /\ id \in DOMAIN view[n] \ {n}
    /\ to \notin down
    /\ wire' = [wire EXCEPT ![n] =
                   [at |-> "ping", peer |-> to, view |-> Heard(to, buildMessage(n, view[n]))]]
    /\ UNCHANGED <<view, table, failed, master, down, moves, usurped>>

\* handleGossipConn: what the ping says is applied, node by node, then the pong is sent.
HandlePing(n) ==
    LET p == wire[n].peer IN
    /\ wire[n].at = "ping"
    /\ p \notin down
    /\ IF wire[n].view # <<>> THEN ApplyNext(n, p, n)
       ELSE /\ wire' = [wire EXCEPT ![n] =
                          [at |-> "pong", peer |-> p, view |-> Heard(n, buildMessage(p, view[p]))]]
            /\ UNCHANGED <<view, table, failed>>
    /\ UNCHANGED <<master, down, moves, usurped>>

HandlePong(n) ==
    /\ wire[n].at = "pong"
    /\ n \notin down
    /\ IF wire[n].view # <<>> THEN ApplyNext(n, n, wire[n].peer)
       ELSE wire' = [wire EXCEPT ![n] = Idle] /\ UNCHANGED <<view, table, failed>>
    /\ UNCHANGED <<master, down, moves, usurped>>

\* A deadline passes before the message is read, or one of the two is down.
Drop(n) ==
    /\ wire[n] # Idle
    /\ {n, wire[n].peer} \cap down = {} =>
          Whole(IF wire[n].at = "ping" THEN n ELSE wire[n].peer, wire[n])
    /\ wire' = [wire EXCEPT ![n] = Idle]
    /\ UNCHANGED <<view, table, failed, master, down, moves, usurped>>

(***************************************************************************)
(* Failure and promotion                                                   *)
(***************************************************************************)
Crash(n) ==
    /\ n \in MayCrash \ down
    /\ down' = down \cup {n}
    /\ UNCHANGED <<view, table, failed, master, wire, moves, usurped>>

\* Nothing can be heard of the node behind id any more: it has crashed, and no message
\* of its own is under way.
Gone(id) ==
    /\ Addr(id) \in down
    /\ \A m \in Nodes : wire[m].at = "pong" => wire[m].peer # Addr(id)
    /\ wire[Addr(id)].at # "ping"


promoteToMaster(n, id) ==
    /\ view' = [view EXCEPT ![n] = [@ EXCEPT ![n] = @ \cup view[n][id], ![id] = {}]]
    /\ table' = [table EXCEPT ![n] = [s \in Slots |-> IF s \in view[n][id] THEN n ELSE @[s]]]

\* checkNodeHealth, for one of the nodes.  It goes by the clock only: a master that is
\* alive, whose messages were lost or late, is failed as one that is gone.
Fail(n, id) ==
    /\ <<n, id>> \in Watched
    /\ n \notin down
    /\ id \in DOMAIN view[n] \ ({n} \cup failed[n])
    /\ failed' = [failed EXCEPT ![n] = @ \cup {id}]
    /\ IF master[n] = id
       THEN /\ promoteToMaster(n, id)
            /\ master' = [master EXCEPT ![n] = NoId]
            /\ usurped' = (usurped \/ ~Gone(id))
       ELSE UNCHANGED <<view, table, master, usurped>>
    /\ UNCHANGED <<wire, down, moves>>

(***************************************************************************)
(* Commands of the operator                                                *)
(***************************************************************************)
\* A replica may be pointed at another master, or at one that has failed already.
clusterReplicate(n, id) ==
    /\ <<n, id>> \in Replicates
    /\ n \notin down
    /\ id \in DOMAIN view[n]
    /\ master' = [master EXCEPT ![n] = id]
    /\ UNCHANGED <<view, table, failed, wire, down, moves, usurped>>

\* One of the ids that own a slot comes last; a slot that nobody owns has none.
Last(owners) ==
    LET may == [s \in Slots |-> IF owners[s] = {} THEN {NoId} ELSE owners[s]]
    IN  {t \in [Slots -> UNION {may[s] : s \in Slots}] : \A s \in Slots : t[s] \in may[s]}

\* AddNode rebuilds the table from the view, in any order of the nodes.
clusterMeet(m) ==
    /\ m.node \notin down
    /\ \A id \in DOMAIN view[m.node] : Addr(id) # m.addr
    /\ view' = [view EXCEPT ![m.node] = Phantom(m.node, m.addr) :> m.slots @@ @]
    /\ LET owners == [s \in Slots |-> {id \in DOMAIN view'[m.node] : s \in view'[m.node][id]}] IN
       \E t \in Last(owners) : table' = [table EXCEPT ![m.node] = t]
    /\ UNCHANGED <<failed, master, wire, down, moves, usurped>>

\* SETSLOT NODE at node n: the slot belongs to id.
SetSlotNode(n, s, id) ==
    /\ n \notin down
    /\ id \in DOMAIN view[n] \cap Nodes
    /\ <<s, id>> \in moves \/ Cardinality(moves) < MaxSetSlots
    /\ Careful => /\ \A m \in Nodes : wire[m] = Idle
                  /\ n = id => \A m \in Nodes \ {id} : s \notin view[m][m]
    /\ view' = [view EXCEPT ![n] = [x \in DOMAIN @ |-> IF x = id THEN @[x] \cup {s} ELSE @[x] \ {s}]]
    /\ table' = [table EXCEPT ![n][s] = id]
    /\ moves' = moves \cup {<<s, id>>}
    /\ UNCHANGED <<failed, master, wire, down, usurped>>

Init ==
    /\ view = [n \in Nodes |-> n :> OwnedBy[n]]
    /\ table = [n \in Nodes |-> [s \in Slots |-> IF s \in OwnedBy[n] THEN n ELSE NoId]]
    /\ failed = [n \in Nodes |-> {}]
    /\ master = [n \in Nodes |-> NoId]
    /\ wire = [n \in Nodes |-> Idle]
    /\ down = {} /\ moves = {} /\ usurped = FALSE

Next ==
    \/ \E n \in Nodes : HandlePing(n) \/ HandlePong(n) \/ Drop(n) \/ Crash(n)
    \/ \E n \in Nodes, id \in Ids : Ping(n, id) \/ Fail(n, id) \/ clusterReplicate(n, id)
    \/ \E m \in Meets : clusterMeet(m)
    \/ \E n \in Nodes, s \in Slots, id \in Nodes : SetSlotNode(n, s, id)

PingTo(n, addr) == \E id \in Ids : Addr(id) = addr /\ Ping(n, id)

\* gossipTicker picks a node at random again and again, and a node that is up answers in
\* time again and again; the exchanges along the introductions are enough.
Fairness ==
    \A m \in Meets : /\ SF_vars(PingTo(m.node, m.addr))
                     /\ SF_vars(HandlePing(m.node)) /\ SF_vars(HandlePong(m.node))

Spec == Init /\ [][Next]_vars

LiveSpec == Spec /\ Fairness

(***************************************************************************)
(* Properties                                                              *)
(***************************************************************************)
\* A node that is up serves every slot that it owns: no view of a third party, late or
\* applied in part, makes it redirect commands for its own slots.  A promotion ends
\* this if the old master is still there to be heard of.
ServesItsOwn ==
    ~usurped => \A n \in Nodes \ down : \A s \in view[n][n] : table[n][s] = n

\* Nodes that have been introduced to one another hear of every owner, through third
\* nodes too.
Introduced == \A m \in Meets : \E id \in DOMAIN view[m.node] : Addr(id) = m.addr
Discovered ==
    \A n, m \in Nodes : \A s \in OwnedBy[m] : Addr(table[n][s]) = m
Discovery == [](Introduced => <>[]Discovered)
=============================================================================
