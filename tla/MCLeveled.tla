----------------------------- MODULE MCLeveled -----------------------------
(***************************************************************************)
(* Leveled with two keys, one per shard or both in one, and searches whose *)
(* filter lets one of the two values pass.                                 *)
(***************************************************************************)
EXTENDS Leveled, TLC

CONSTANTS k1, k2, v1, v2

OneShard == [k \in Keys |-> 0]
TwoShards == [k \in Keys |-> IF k = k1 THEN 0 ELSE 1]

SomePass == {{v1}}
NoSearches == {}

KeySymmetry == Permutations(Keys)
=============================================================================
