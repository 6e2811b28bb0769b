------------------------------- MODULE BPTree -------------------------------
(***************************************************************************)
(* The B+ tree under the sorted sets (internal/btree/btree.go): nodes of a *)
(* heap, leaves chained by next, splits on the way up from an insertion,   *)
(* borrowing and merging on the way up from a deletion.                    *)
(*                                                                         *)
(* An item is a number: the code compares (score, member) as a whole.      *)
(***************************************************************************)
EXTENDS Integers, Sequences, FiniteSets, FiniteSetsExt, SequencesExt

CONSTANTS
    Items,       \* numbers that may be inserted
    maxItems     \* items of a node at most

minItems == maxItems \div 2
Nil == 0

VARIABLES
    heap,        \* the nodes in use: [items, children, next]
    root, len,
    content      \* history: what a set would hold

vars == <<heap, root, len, content>>

(***************************************************************************)
(* Nodes and sequences                                                     *)
(***************************************************************************)
leaf(n) == n.children = <<>>
NewId(h) == Min((1..(Cardinality(DOMAIN h) + 1)) \ DOMAIN h)
Put(h, id, n) == [i \in DOMAIN h \cup {id} |-> IF i = id THEN n ELSE h[i]]

\* The first position whose item is not below it, and the child that it belongs to.
lowerBound(items, it) == Cardinality({i \in DOMAIN items : items[i] < it}) + 1
childIndex(n, it) == Cardinality({i \in DOMAIN n.items : n.items[i] <= it}) + 1

From(s, i) == SubSeq(s, i, Len(s))

(***************************************************************************)
(* Insert                                                                  *)
(***************************************************************************)
\* Of a call of insert: the heap after it, and the new right sibling, if there is one.
Whole(h) == [h |-> h, sep |-> 0, right |-> Nil]

\* Mutant: the new leaf is not linked in.
SplitLeafUnlinked(h, id, items) ==
    LET mid == Len(items) \div 2
        r == NewId(h)
    IN  [h |-> Put([h EXCEPT ![id].items = SubSeq(items, 1, mid)],
                   r, [items |-> From(items, mid + 1), children |-> <<>>, next |-> h[id].next]),
         sep |-> items[mid + 1], right |-> r]

\* A leaf that is too large: its upper half goes to a new leaf after it.
SplitLeaf(h, id, items) ==
    LET mid == Len(items) \div 2
        r == NewId(h)
    IN  [h |-> Put([h EXCEPT ![id].items = SubSeq(items, 1, mid), ![id].next = r],
                   r, [items |-> From(items, mid + 1), children |-> <<>>, next |-> h[id].next]),
         sep |-> items[mid + 1], right |-> r]

\* An inner node that is too large: its middle item goes up.
SplitInner(h, id, items, children) ==
    LET mid == Len(items) \div 2 + 1
        r == NewId(h)
    IN  [h |-> Put([h EXCEPT ![id].items = SubSeq(items, 1, mid - 1),
                             ![id].children = SubSeq(children, 1, mid)],
                   r, [items |-> From(items, mid + 1), children |-> From(children, mid + 1),
                       next |-> Nil]),
         sep |-> items[mid], right |-> r]

RECURSIVE insert(_, _, _)
insert(h, id, it) ==
    LET n == h[id]
        i == childIndex(n, it)
    IN  IF leaf(n)
        THEN LET items == InsertAt(n.items, lowerBound(n.items, it), it)
             IN  IF Len(items) <= maxItems THEN Whole([h EXCEPT ![id].items = items])
                 ELSE SplitLeaf(h, id, items)
        ELSE LET below == insert(h, n.children[i], it)
                 items == InsertAt(n.items, i, below.sep)
                 children == InsertAt(n.children, i + 1, below.right)
             IN  IF below.right = Nil THEN Whole(below.h)
                 ELSE IF Len(items) <= maxItems
                 THEN Whole([below.h EXCEPT ![id].items = items, ![id].children = children])
                 ELSE SplitInner(below.h, id, items, children)

(***************************************************************************)
(* Delete                                                                  *)
(***************************************************************************)
\* Of rebalance: the child at position i of p has too few items.
BorrowLeft(h, p, i) ==
    LET c == h[p].children[i]
        l == h[p].children[i - 1]
        last == Len(h[l].items)
        moved == h[l].items[last]
    IN  IF leaf(h[c])
        THEN [h EXCEPT ![c].items = <<moved>> \o @, ![l].items = Front(@), ![p].items[i - 1] = moved]
        ELSE [h EXCEPT ![c].items = <<h[p].items[i - 1]>> \o @,
                       ![c].children = <<h[l].children[last + 1]>> \o @,
                       ![p].items[i - 1] = moved,
                       ![l].items = Front(@), ![l].children = Front(@)]

BorrowRight(h, p, i) ==
    LET c == h[p].children[i]
        r == h[p].children[i + 1]
    IN  IF leaf(h[c])
        THEN [h EXCEPT ![c].items = Append(@, h[r].items[1]), ![r].items = Tail(@),
                       ![p].items[i] = h[r].items[2]]
        ELSE [h EXCEPT ![c].items = Append(@, h[p].items[i]),
                       ![c].children = Append(@, h[r].children[1]),
                       ![p].items[i] = h[r].items[1],
                       ![r].items = Tail(@), ![r].children = Tail(@)]

\* merge: the child after position i goes into the one at i.
merge(h, p, i) ==
    LET l == h[p].children[i]
        r == h[p].children[i + 1]
        joined == IF leaf(h[l])
                  THEN [items |-> h[l].items \o h[r].items, children |-> <<>>, next |-> h[r].next]
                  ELSE [items |-> Append(h[l].items, h[p].items[i]) \o h[r].items,
                        children |-> h[l].children \o h[r].children, next |-> Nil]
        parent == [h[p] EXCEPT !.items = RemoveAt(@, i), !.children = RemoveAt(@, i + 1)]
    IN  [id \in DOMAIN h \ {r} |-> CASE id = l -> joined [] id = p -> parent [] OTHER -> h[id]]

rebalance(h, p, i) ==
    LET size(j) == Len(h[h[p].children[j]].items)
    IN  CASE i > 1 /\ size(i - 1) > minItems -> BorrowLeft(h, p, i)
          [] ~(i > 1 /\ size(i - 1) > minItems)
             /\ i < Len(h[p].children) /\ size(i + 1) > minItems -> BorrowRight(h, p, i)
          [] OTHER -> merge(h, p, IF i > 1 THEN i - 1 ELSE i)

RECURSIVE delete(_, _, _)
delete(h, id, it) ==
    LET n == h[id]
        i == childIndex(n, it)
        below == delete(h, n.children[i], it)
    IN  IF leaf(n) THEN [h EXCEPT ![id].items = RemoveAt(@, lowerBound(@, it))]
        ELSE IF Len(below[n.children[i]].items) < minItems THEN rebalance(below, id, i)
        ELSE below

(***************************************************************************)
(* Range and ForEach                                                       *)
(***************************************************************************)
RECURSIVE Descend(_, _), Chain(_)
\* The leaf that an item belongs to, and the items from a leaf on along next.
Descend(id, it) == IF leaf(heap[id]) THEN id ELSE Descend(heap[id].children[childIndex(heap[id], it)], it)
Chain(id) == IF id = Nil THEN <<>> ELSE heap[id].items \o Chain(heap[id].next)

RECURSIVE First(_)
First(id) == IF leaf(heap[id]) THEN id ELSE First(heap[id].children[1])
ForEach == Chain(First(root))

\* Items from low to high: low is looked up, high ends the walk.
RangeOf(low, high) ==
    LET id == Descend(root, low)
        walk == From(heap[id].items, lowerBound(heap[id].items, low)) \o Chain(heap[id].next)
    IN  SubSeq(walk, 1, Cardinality({i \in DOMAIN walk : \A j \in 1..i : walk[j] <= high}))

(***************************************************************************)
(* Operations                                                              *)
(***************************************************************************)
contains(it) == Contains(heap[Descend(root, it)].items, it)

\* An item that is there changes nothing.
Insert(it) ==
    /\ IF contains(it) THEN UNCHANGED <<heap, root, len>>
       ELSE LET r == insert(heap, root, it)
                top == NewId(r.h)
            IN  /\ IF r.right = Nil THEN heap' = r.h /\ root' = root
                   ELSE /\ heap' = Put(r.h, top, [items |-> <<r.sep>>, next |-> Nil,
                                                  children |-> <<root, r.right>>])
                        /\ root' = top
                /\ len' = len + 1
    /\ content' = content \cup {it}

\* A root that is left with one child gives way to it.
Shrunk(h) ==
    IF ~leaf(h[root]) /\ h[root].items = <<>>
    THEN [h |-> [id \in DOMAIN h \ {root} |-> h[id]], root |-> h[root].children[1]]
    ELSE [h |-> h, root |-> root]

Delete(it) ==
    /\ IF ~contains(it) THEN UNCHANGED <<heap, root, len>>
       ELSE LET r == Shrunk(delete(heap, root, it))
            IN  heap' = r.h /\ root' = r.root /\ len' = len - 1
    /\ content' = content \ {it}

Init ==
    /\ heap = [id \in {1} |-> [items |-> <<>>, children |-> <<>>, next |-> Nil]]
    /\ root = 1 /\ len = 0 /\ content = {}

Next == \E it \in Items : Insert(it) \/ Delete(it)

Spec == Init /\ [][Next]_vars

(***************************************************************************)
(* Properties                                                              *)
(***************************************************************************)
Sorted(s) == \A i \in 1..(Len(s) - 1) : s[i] < s[i + 1]

RECURSIVE Depths(_), Under(_)
Depths(id) == IF leaf(heap[id]) THEN {1}
              ELSE {d + 1 : d \in UNION {Depths(c) : c \in ToSet(heap[id].children)}}
Under(id) == IF leaf(heap[id]) THEN ToSet(heap[id].items)
             ELSE UNION {Under(c) : c \in ToSet(heap[id].children)}

\* The tree stays a search tree: nodes are neither too small nor too large, all leaves
\* are equally deep, and the separators part what is below them; whatever sequence of
\* insertions and deletions has led there.
WellFormed ==
    /\ Cardinality(Depths(root)) = 1
    /\ ~leaf(heap[root]) => heap[root].items # <<>>
    /\ \A id \in DOMAIN heap :
         LET n == heap[id] IN
         /\ Sorted(n.items) /\ Len(n.items) <= maxItems
         /\ id # root => Len(n.items) >= minItems
         /\ ~leaf(n) =>
              /\ Len(n.children) = Len(n.items) + 1
              /\ \A i \in DOMAIN n.items :
                   /\ \A x \in Under(n.children[i]) : x < n.items[i]
                   /\ \A x \in Under(n.children[i + 1]) : x >= n.items[i]

\* The chain of leaves is the set in order, and every range of scores is found from it.
RangesExact ==
    /\ len = Cardinality(content)
    /\ ForEach = SetToSortSeq(content, LAMBDA x, y : x < y)
    /\ \A low, high \in Items :
         RangeOf(low, high) = SelectSeq(ForEach, LAMBDA x : low <= x /\ x <= high)
=============================================================================
