------------------------------ MODULE MCCluster ------------------------------
(***************************************************************************)
(* A node as its clients and the other nodes meet it: Server, Gossip, with *)
(* two nodes whose slots move and fail over and with three that have been  *)
(* introduced, Replica and Migrate.  They share no state: the first state  *)
(* chooses the part that runs, and the others stand still.                 *)
(***************************************************************************)
EXTENDS Server, TLC

CONSTANTS
    n1, n2, n3, None,
    CopyKeys, CopyValues, Threads, MaxWrites, MaxBreaks, \* of Replica
    SlotKeys, SlotValues, MaxSets, MaxFailures           \* of Migrate

VARIABLES
    part,
    view, table, failed, master, wire, down, moves, usurped,
    store, copy, forward, writes, registered, psync, todo, stream, link, session, dialled, torn,
    kept, owner, migrating, importing, migrate, sets, failures, latest, raced

gossipVars == <<view, table, failed, master, wire, down, moves, usurped>>
replicaVars == <<store, copy, forward, writes, registered, psync, todo, stream, link, session, dialled, torn>>
migrateVars == <<kept, owner, migrating, importing, migrate, sets, failures, latest, raced>>

nodeVars == <<part, vars, gossipVars, replicaVars, migrateVars>>

\* One owns the slot, the other is its replica; the slot moves to it.
OneSlot == {1}
TwoNodes == {n1, n2}
PairOwned == n1 :> {1} @@ n2 :> {}
PairMeets == {[node |-> n2, addr |-> n1, slots |-> {1}], [node |-> n1, addr |-> n2, slots |-> {}]}
First == {n1}
BothOfPair == {<<n1, n2>>, <<n2, n1>>}
SecondOfFirst == {<<n2, n1>>}
Pair == INSTANCE Gossip WITH
    Nodes <- TwoNodes, Slots <- OneSlot, NoId <- None, OwnedBy <- PairOwned, Meets <- PairMeets,
    MayCrash <- First, Watched <- BothOfPair, Replicates <- SecondOfFirst, MaxSetSlots <- 2, Careful <- TRUE

\* Two of them know the first only; the third owns the slot.
ThreeNodes == {n1, n2, n3}
TrioOwned == n1 :> {} @@ n2 :> {} @@ n3 :> {1}
Introductions == {[node |-> n2, addr |-> n1, slots |-> {}], [node |-> n3, addr |-> n1, slots |-> {}]}
Nobody == {}
Trio == INSTANCE Gossip WITH
    Nodes <- ThreeNodes, Slots <- OneSlot, NoId <- None, OwnedBy <- TrioOwned, Meets <- Introductions,
    MayCrash <- Nobody, Watched <- Nobody, Replicates <- Nobody, MaxSetSlots <- 0, Careful <- TRUE

Copy == INSTANCE Replica WITH Keys <- CopyKeys, Values <- CopyValues, raced <- torn
Move == INSTANCE Migrate WITH
    Keys <- SlotKeys, Values <- SlotValues, MaxWrites <- MaxSets,
    data <- kept, writes <- sets

\* A part that does not run.
GossipOff ==
    /\ view = 0 /\ table = 0 /\ failed = 0 /\ master = 0 /\ wire = 0 /\ down = 0 /\ moves = 0
    /\ usurped = 0
ReplicaOff ==
    /\ store = 0 /\ copy = 0 /\ forward = 0 /\ writes = 0 /\ registered = 0 /\ psync = 0 /\ todo = 0
    /\ stream = 0 /\ link = 0 /\ session = 0 /\ dialled = 0 /\ torn = 0
MigrateOff ==
    /\ kept = 0 /\ owner = 0 /\ migrating = 0 /\ importing = 0 /\ migrate = 0 /\ sets = 0
    /\ failures = 0 /\ latest = 0 /\ raced = 0

NodeInit ==
    /\ Init
    /\ \/ part = "server" /\ GossipOff /\ ReplicaOff /\ MigrateOff
       \/ part = "pair" /\ Pair!Init /\ ReplicaOff /\ MigrateOff
       \/ part = "trio" /\ Trio!Init /\ ReplicaOff /\ MigrateOff
       \/ part = "replica" /\ GossipOff /\ Copy!Init /\ MigrateOff
       \/ part = "migrate" /\ GossipOff /\ ReplicaOff /\ Move!Init

NodeNext ==
    /\ UNCHANGED part
    /\ \/ part = "server" /\ Next /\ UNCHANGED <<gossipVars, replicaVars, migrateVars>>
       \/ part = "pair" /\ Pair!Next /\ UNCHANGED <<vars, replicaVars, migrateVars>>
       \/ part = "trio" /\ Trio!Next /\ UNCHANGED <<vars, replicaVars, migrateVars>>
       \/ part = "replica" /\ Copy!Next /\ UNCHANGED <<vars, gossipVars, migrateVars>>
       \/ part = "migrate" /\ Move!Next /\ UNCHANGED <<vars, gossipVars, replicaVars>>

\* Fairness of Gossip and of Replica, each for the states of its part.
TrioFairness ==
    \A m \in Introductions :
        /\ SF_gossipVars(part = "trio" /\ Trio!PingTo(m.node, m.addr))
        /\ SF_gossipVars(part = "trio" /\ Trio!HandlePing(m.node))
        /\ SF_gossipVars(part = "trio" /\ Trio!HandlePong(m.node))
ReplicaFairness ==
    /\ \A t \in Threads : WF_replicaVars(part = "replica" /\ Copy!Answer(t))
    /\ \A c \in Copy!Conns : WF_replicaVars(part = "replica" /\ Copy!Sync(c))
    /\ WF_replicaVars(part = "replica" /\ Copy!Listen)

NodeSpec ==
    /\ NodeInit
    /\ [][NodeNext]_nodeVars
    /\ TrioFairness
    /\ ReplicaFairness


\* Nodes that have been introduced to one another hear of every owner (gossip.go).
NodesDiscover ==
    [](part = "trio" /\ (\A m \in Introductions : \E id \in DOMAIN view[m.node] : Trio!Addr(id) = m.addr)
       => <>[](part = "trio" => Trio!Discovered))

\* A replica that has read everything has what the master has (replication.go).
ReplicaSame == part = "replica" => Copy!SameWhenQuiet

\* However connections fail, the replica gets there (replication.go).
ReplicaConverges == <>[](part = "replica" => \A item \in Copy!Items \ torn : Copy!Same(item))

\* A slot on its way is read where its keys are, and no vector is lost (migration.go).
MigrateKeeps == part = "migrate" => Move!ReadsLatest /\ Move!VectorsSafe
=============================================================================
