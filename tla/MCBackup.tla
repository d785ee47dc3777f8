------------------------------ MODULE MCBackup ------------------------------
(* Instances of Backup for TLC. *)
EXTENDS Backup, TLC

CONSTANTS v1, v2, long

\* Two versions of one size, and a longer one.
Sizes == [v \in Versions |-> IF v = long THEN 2 ELSE 1]

Symmetry == Permutations(Names) \cup Permutations(Requests)
=============================================================================
