------------------------------- MODULE MCWal -------------------------------
(***************************************************************************)
(* Wal for TLC: the constants are given their values in the cfg files.     *)
(***************************************************************************)
EXTENDS Wal, TLC

CONSTANTS r1, r2

\* The records are interchangeable: no action looks into one.
RecordSymmetry == Permutations(Records)
=============================================================================
