---------------------------- MODULE MCStructures ----------------------------
(***************************************************************************)
(* The data structures: ZSet, BPTree and Graph.  They share no state: the  *)
(* first state chooses the one that runs, and the others stand still.      *)
(***************************************************************************)
EXTENDS ZSet

VARIABLES
    part,
    heap, root, len, content,
    nodes, freeIDs, entryPointID, maxLevel, nbr, freeBlocks, inserts, peak, final

treeVars == <<heap, root, len, content>>
graphVars == <<nodes, freeIDs, entryPointID, maxLevel, nbr, freeBlocks, inserts, peak, final>>

Six == 1..6
Tree == INSTANCE BPTree WITH Items <- Six, maxItems <- 2

FourPoints == {0, 1, 4, 6}
HNSW == INSTANCE Graph WITH
    Points <- FourPoints, M <- 2, M0 <- 2, MaxLevel <- 1, EfConstruction <- 5, EfSearch <- 1,
    verifyK <- 1, MaxInserts <- 4

\* A part that does not run.
TreeOff == heap = 0 /\ root = 0 /\ len = 0 /\ content = 0
GraphOff ==
    /\ nodes = 0 /\ freeIDs = 0 /\ entryPointID = 0 /\ maxLevel = 0 /\ nbr = 0 /\ freeBlocks = 0
    /\ inserts = 0 /\ peak = 0 /\ final = 0

PartsInit ==
    /\ Init
    /\ \/ part = "zset" /\ TreeOff /\ GraphOff
       \/ part = "tree" /\ Tree!Init /\ GraphOff
       \/ part = "graph" /\ TreeOff /\ HNSW!Init

PartsNext ==
    /\ UNCHANGED part
    /\ \/ part = "zset" /\ Next /\ UNCHANGED <<treeVars, graphVars>>
       \/ part = "tree" /\ Tree!Next /\ UNCHANGED <<vars, graphVars>>
       \/ part = "graph" /\ HNSW!Next /\ UNCHANGED <<vars, treeVars>>

PartsSpec == PartsInit /\ [][PartsNext]_<<part, vars, treeVars, graphVars>>

(***************************************************************************)
(* Properties                                                              *)
(***************************************************************************)
\* After any insertions and deletions the tree is a search tree, its chain of leaves is
\* the set in order, and every range of scores is found from it (btree.go).
TreeRangesExact == part = "tree" => Tree!WellFormed /\ Tree!RangesExact

\* Slots and blocks are used again and no list names what is not there (graph.go).
GraphLinksSound == part = "graph" => HNSW!LinksSound

\* As long as no list was pruned, a search is exact, filtered or not (graph.go).
GraphSmallIsExact == part = "graph" => HNSW!SmallIsExact
=============================================================================
