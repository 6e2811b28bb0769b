------------------------------- MODULE VecMap -------------------------------
(***************************************************************************)
(* What the vector store promises (vector/api.go): a map from keys to      *)
(* vectors that changes by Add, Delete and Clear and by nothing else.      *)
(* Flushes, merges, consolidation and searches are invisible in it.        *)
(***************************************************************************)
EXTENDS Naturals

CONSTANTS
    Keys,     \* keys
    Values,   \* vectors with their attributes and terms
    None      \* no vector

VARIABLES
    map,      \* key -> vector, or None
    lost,     \* keys of which the last call may be lost
    calls,    \* number of calls so far
    last      \* the last call and its reply

mapVars == <<map, lost, calls, last>>

Nothing == [k \in Keys |-> None]

Init == map = Nothing /\ lost = {} /\ calls = 0 /\ last = <<"none">>

Becomes(new) == \A k \in Keys \ lost' : map'[k] = new[k]

\* A call makes the keys that it writes whole again.
Call(keys, new, what) ==
    /\ lost' = lost \ keys
    /\ Becomes(new)
    /\ calls' = calls + 1
    /\ last' = what

Add(k, v) == Call({k}, [map EXCEPT ![k] = v], <<"Add">>)

\* Delete says whether there was something to delete.
Delete(k) == \E there \in BOOLEAN :
    /\ k \notin lost => there = (map[k] # None)
    /\ Call({k}, [map EXCEPT ![k] = None], <<"Delete", there>>)

Clear == Call(Keys, Nothing, <<"Clear">>)

\* Nothing is promised of the keys that are lost.
Lose ==
    /\ lost \subseteq lost'
    /\ Becomes(map)
    /\ UNCHANGED <<calls, last>>

Next ==
    \/ \E k \in Keys, v \in Values : Add(k, v)
    \/ \E k \in Keys : Delete(k)
    \/ Clear
    \/ Lose

Spec == Init /\ [][Next]_mapVars
=============================================================================
