-------------------------------- MODULE Graph --------------------------------
(***************************************************************************)
(* The HNSW graph of a delta or of a segment being built (vector/graph.go): *)
(* nodes in slots that are used again, neighbour lists in blocks of an     *)
(* arena that are used again by size, one list for each level of a node.   *)
(* A graph belongs to one goroutine or is under its owner's lock, so its   *)
(* operations are single steps.                                            *)
(*                                                                         *)
(* Vectors are points of a line.  No two distances between Points are      *)
(* equal, so the order in which equals are taken does not matter.          *)
(***************************************************************************)
EXTENDS Integers, Sequences, FiniteSets, FiniteSetsExt, SequencesExt

CONSTANTS
    Points,        \* vectors that may be inserted, each once at a time
    M, M0,         \* neighbours of a node at most: above level 0, and at level 0
    MaxLevel,      \* bound of randomLevel
    EfConstruction,
    EfSearch,
    verifyK,       \* results that a repair looks at
    MaxInserts     \* bound

VARIABLES
    nodes,         \* a sequence of [vec, off, level, alive]
    freeIDs,       \* slots given back, a stack
    entryPointID, maxLevel,
    nbr,           \* the arena: lists of each block, level by level from 0
    freeBlocks,    \* blocks given back, a stack for each size
    inserts,       \* insertions
    peak,          \* history: nodes alive at most
    final          \* RepairReachability has run: the graph is frozen next

vars == <<nodes, freeIDs, entryPointID, maxLevel, nbr, freeBlocks, inserts, peak, final>>

Levels == 0..MaxLevel
Live == {i \in DOMAIN nodes : nodes[i].alive}
maxNeighbors(l) == IF l = 0 THEN M0 ELSE M
Distance(x, y) == IF x < y THEN y - x ELSE x - y

\* A graph under way, as the steps of an operation pass it on.
g0 == [nodes |-> nodes, nbr |-> nbr]
getNeighbors(g, id, l) == g.nbr[g.nodes[id].off][l + 1]
setNeighbors(g, id, l, ids) == [g EXCEPT !.nbr[g.nodes[id].off][l + 1] = ids]
DistTo(g, q, id) == Distance(q, g.nodes[id].vec)
Nearest(g, q, ids) == CHOOSE i \in ids : \A j \in ids : DistTo(g, q, i) <= DistTo(g, q, j)
Farthest(g, q, ids) == CHOOSE i \in ids : \A j \in ids : DistTo(g, q, i) >= DistTo(g, q, j)
ByDistance(g, q, ids) == SetToSortSeq(ids, LAMBDA i, j : DistTo(g, q, i) < DistTo(g, q, j))

(***************************************************************************)
(* Search                                                                  *)
(***************************************************************************)
RECURSIVE greedyClosest(_, _, _, _), Beam(_, _, _, _, _, _), Down(_, _, _, _, _)
greedyClosest(g, q, ep, l) ==
    LET best == Nearest(g, q, {ep} \cup ToSet(getNeighbors(g, ep, l)))
    IN  IF best = ep THEN ep ELSE greedyClosest(g, q, best, l)

\* The candidates of a neighbour list, one by one: what is near enough is looked at
\* later, and is a result if the filter lets it.
Visit(g, q, ef, ok, s, id) ==
    IF id \in s.visited THEN s
    ELSE LET near == \/ Cardinality(s.results) < ef
                     \/ DistTo(g, q, id) < DistTo(g, q, Farthest(g, q, s.results))
             more == IF id \in ok THEN s.results \cup {id} ELSE s.results
         IN  [visited |-> s.visited \cup {id},
              candidates |-> IF near THEN s.candidates \cup {id} ELSE s.candidates,
              results |-> CASE ~near -> s.results
                            [] near /\ Cardinality(more) > ef -> more \ {Farthest(g, q, more)}
                            [] OTHER -> more]

Beam(g, q, ef, l, ok, s) ==
    LET closest == Nearest(g, q, s.candidates)
        enough == /\ Cardinality(s.results) >= ef
                  /\ DistTo(g, q, closest) > DistTo(g, q, Farthest(g, q, s.results))
    IN  IF s.candidates = {} THEN s.results
        ELSE IF enough THEN s.results
        ELSE Beam(g, q, ef, l, ok,
                  FoldLeft(LAMBDA t, id : Visit(g, q, ef, ok, t, id),
                           [s EXCEPT !.candidates = @ \ {closest}], getNeighbors(g, closest, l)))

\* searchLayerFiltered; searchLayer accepts every node.
searchLayerFiltered(g, q, ep, ef, l, ok) ==
    ByDistance(g, q, Beam(g, q, ef, l, ok,
                          [visited |-> {ep}, candidates |-> {ep}, results |-> {ep} \cap ok]))
searchLayer(g, q, ep, ef, l) == searchLayerFiltered(g, q, ep, ef, l, DOMAIN g.nodes)

\* Greedily from one level to another, above the level that is searched.
Down(g, q, ep, from, to) ==
    IF from <= to THEN ep ELSE Down(g, q, greedyClosest(g, q, ep, from), from - 1, to)

TakeK(s, k) == SubSeq(s, 1, Min({k, Len(s)}))

Search(g, q, k, ef) ==
    TakeK(searchLayer(g, q, Down(g, q, entryPointID, maxLevel, 0), Max({ef, k}), 0), k)

SearchFiltered(g, q, k, ef, ok) ==
    TakeK(searchLayerFiltered(g, q, Down(g, q, entryPointID, maxLevel, 0),
                              Max({ef * 3, k * 10}), 0, ok), k)

(***************************************************************************)
(* Insert                                                                  *)
(***************************************************************************)
\* Of items by distance to q, those that are nearer to q than to any chosen before.
selectNeighborsHeuristic(g, q, items, max) ==
    IF Len(items) <= max THEN items
    ELSE FoldLeft(LAMBDA chosen, e :
                    IF /\ Len(chosen) < max
                       /\ \A r \in ToSet(chosen) : DistTo(g, g.nodes[e].vec, r) >= DistTo(g, q, e)
                    THEN Append(chosen, e) ELSE chosen,
                  <<>>, items)

\* A list that may be too long is set, after pruning.
SetPruned(g, id, l, ids) ==
    LET q == g.nodes[id].vec IN
    setNeighbors(g, id, l,
                 IF Len(ids) <= maxNeighbors(l) THEN ids
                 ELSE selectNeighborsHeuristic(g, q, ByDistance(g, q, ToSet(ids)), maxNeighbors(l)))

\* Mutant: the new node refers to its neighbours, and they not to it.
LinkOneWay(g, id, l, chosen) == setNeighbors(g, id, l, chosen)

\* The new node and its neighbours of a level refer to each other.
Link(g, id, l, chosen) ==
    FoldLeft(LAMBDA h, n : SetPruned(h, n, l, Append(getNeighbors(h, n, l), id)),
             setNeighbors(g, id, l, chosen), chosen)

RECURSIVE LinkFrom(_, _, _, _)
LinkFrom(g, id, ep, l) ==
    LET q == g.nodes[id].vec
        chosen == selectNeighborsHeuristic(g, q, searchLayer(g, q, ep, EfConstruction, l), maxNeighbors(l))
    IN  IF l < 0 THEN g
        ELSE LinkFrom(Link(g, id, l, chosen), id, chosen[1], l - 1)

\* alloc: a block of that size, cleared.
Allocated(l) ==
    IF freeBlocks[l] # <<>>
    THEN [off |-> Last(freeBlocks[l]), free |-> [freeBlocks EXCEPT ![l] = Front(@)],
          nbr |-> [nbr EXCEPT ![Last(freeBlocks[l])] = [i \in 1..(l + 1) |-> <<>>]]]
    ELSE [off |-> Len(nbr) + 1, free |-> freeBlocks,
          nbr |-> Append(nbr, [i \in 1..(l + 1) |-> <<>>])]

Insert(vec, l) ==
    /\ ~final
    /\ inserts < MaxInserts
    /\ \A i \in Live : nodes[i].vec # vec
    /\ LET a == Allocated(l)
           id == IF freeIDs = <<>> THEN Len(nodes) + 1 ELSE Last(freeIDs)
           node == [vec |-> vec, off |-> a.off, level |-> l, alive |-> TRUE]
           g == [nodes |-> IF freeIDs = <<>> THEN Append(nodes, node) ELSE [nodes EXCEPT ![id] = node],
                 nbr |-> a.nbr]
           linked == IF Live = {} THEN g
                     ELSE LinkFrom(g, id, Down(g, vec, entryPointID, maxLevel, l), Min({l, maxLevel}))
       IN  /\ nodes' = g.nodes /\ nbr' = linked.nbr
           /\ freeIDs' = IF freeIDs = <<>> THEN freeIDs ELSE Front(freeIDs)
           /\ freeBlocks' = a.free
           /\ IF Live = {} \/ l > maxLevel THEN entryPointID' = id /\ maxLevel' = l
              ELSE UNCHANGED <<entryPointID, maxLevel>>
    /\ inserts' = inserts + 1
    /\ peak' = Max({peak, Cardinality(Live) + 1})
    /\ UNCHANGED final

(***************************************************************************)
(* Delete                                                                  *)
(***************************************************************************)
Without(ids, id) == SelectSeq(ids, LAMBDA x : x # id)

\* The neighbours of id on a level lose it and are connected to each other.
Reconnected(g, id, l, ids) ==
    FoldLeft(LAMBDA h, n :
               LET own == Without(getNeighbors(h, n, l), id)
                   others == SelectSeq(ids, LAMBDA x : x # n /\ ~Contains(own, x))
               IN  SetPruned(h, n, l, own \o others),
             g, SelectSeq(ids, LAMBDA n : g.nodes[n].alive))

\* Mutant: only the neighbours of id are told.
UnreferencedNot(g, id) == g.nbr

\* Every list of every other node, whoever refers to id.
Unreferenced(g, id) ==
    LET used == {g.nodes[i].off : i \in Live \ {id}} IN
    [o \in DOMAIN g.nbr |->
        IF o \in used THEN [l \in DOMAIN g.nbr[o] |-> Without(g.nbr[o][l], id)] ELSE g.nbr[o]]

\* The first of the highest nodes takes over.
Highest(left) ==
    LET top == Max({nodes[i].level : i \in left})
    IN  Min({i \in left : nodes[i].level = top})

Delete(id) ==
    /\ ~final
    /\ id \in Live
    /\ LET l == nodes[id].level
           g == FoldLeft(LAMBDA h, k : Reconnected(h, id, k - 1, getNeighbors(h, id, k - 1)),
                         g0, [k \in 1..(l + 1) |-> k])
           left == Live \ {id}
       IN  /\ nodes' = [nodes EXCEPT ![id] = [@ EXCEPT !.off = 0, !.alive = FALSE]]
           /\ nbr' = Unreferenced(g, id)
           /\ freeBlocks' = [freeBlocks EXCEPT ![l] = Append(@, nodes[id].off)]
           /\ freeIDs' = Append(freeIDs, id)
           /\ CASE id # entryPointID -> UNCHANGED <<entryPointID, maxLevel>>
                [] id = entryPointID /\ left = {} -> entryPointID' = 0 /\ maxLevel' = 0
                [] OTHER -> entryPointID' = Highest(left) /\ maxLevel' = nodes[Highest(left)].level
    /\ UNCHANGED <<inserts, peak, final>>

(***************************************************************************)
(* RepairReachability                                                      *)
(***************************************************************************)
selfFound(g, id) == Contains(Search(g, g.nodes[id].vec, verifyK, EfSearch), id)

\* forceEdgeL0: into a full list in the place of the farthest.
forceEdgeL0(g, from, to) ==
    LET ns == getNeighbors(g, from, 0)
        worst == Farthest(g, g.nodes[from].vec, ToSet(ns))
    IN  CASE Contains(ns, to) -> g
          [] ~Contains(ns, to) /\ Len(ns) < M0 -> setNeighbors(g, from, 0, Append(ns, to))
          [] OTHER -> setNeighbors(g, from, 0, [i \in DOMAIN ns |-> IF ns[i] = worst THEN to ELSE ns[i]])

\* The nearest nodes refer to a lost one.
ForceEdges(g, id) ==
    FoldLeft(LAMBDA h, from : forceEdgeL0(h, from, id), g,
             TakeK(ByDistance(g, g.nodes[id].vec, Live \ {id}), 3))

RECURSIVE Rounds(_, _, _)
Rounds(g, lost, n) ==
    LET better == FoldLeft(ForceEdges, g, SetToSortSeq(lost, LAMBDA i, j : i < j))
    IN  IF n = 0 \/ lost = {} THEN g
        ELSE Rounds(better, {id \in lost : ~selfFound(better, id)}, n - 1)

\* A graph that a search looks at as a whole needs no repair.
RepairReachability ==
    /\ ~final
    /\ Live # {}
    /\ nbr' = IF Len(nodes) <= EfSearch THEN nbr
              ELSE Rounds(g0, {id \in Live : ~selfFound(g0, id)}, 3).nbr
    /\ final' = TRUE
    /\ UNCHANGED <<nodes, freeIDs, entryPointID, maxLevel, freeBlocks, inserts, peak>>

Init ==
    /\ nodes = <<>> /\ freeIDs = <<>>
    /\ entryPointID = 0 /\ maxLevel = 0
    /\ nbr = <<>> /\ freeBlocks = [l \in Levels |-> <<>>]
    /\ inserts = 0 /\ peak = 0 /\ final = FALSE

Next ==
    \/ \E vec \in Points, l \in Levels : Insert(vec, l)
    \/ \E id \in DOMAIN nodes : Delete(id)
    \/ RepairReachability

Spec == Init /\ [][Next]_vars

(***************************************************************************)
(* Properties                                                              *)
(***************************************************************************)
\* Slots and blocks are used again, and still no list names a dead node, a node below
\* the list's level, its own node or a node twice; no list outgrows its place in the
\* block (its neighbour in memory), no block has two owners; the entry point is the
\* highest node.
LinksSound ==
    /\ \A id \in Live : \A l \in 0..nodes[id].level :
         LET ns == getNeighbors(g0, id, l) IN
         /\ \A n \in ToSet(ns) : n \in Live /\ n # id /\ nodes[n].level >= l
         /\ Len(ns) = Cardinality(ToSet(ns)) /\ Len(ns) <= maxNeighbors(l)
    /\ \A i, j \in Live : i # j => nodes[i].off # nodes[j].off
    /\ \A i \in Live, l \in Levels : ~Contains(freeBlocks[l], nodes[i].off)
    /\ Live # {} => /\ entryPointID \in Live
                    /\ maxLevel = nodes[entryPointID].level
                    /\ \A i \in Live : nodes[i].level <= maxLevel

\* As long as no list has had to be pruned, a search is exact, with a filter and
\* without one, whatever has been inserted and deleted before.
SmallIsExact ==
    (0 < Cardinality(Live) /\ peak <= M0 + 1 /\ peak <= M + 1) =>
        \A q \in Points : \A k \in 1..Cardinality(Live) :
            /\ Search(g0, q, k, EfConstruction) = TakeK(ByDistance(g0, q, Live), k)
            /\ \A ok \in SUBSET Live :
                 SearchFiltered(g0, q, k, EfConstruction, ok) = TakeK(ByDistance(g0, q, ok), k)

\* After the repair every node is found by its own vector.
RepairedAreFound == final => \A id \in Live : selfFound(g0, id)
=============================================================================
