---------------------------- MODULE MCWriteFile -----------------------------
(* An instance of WriteFile for TLC. *)
EXTENDS WriteFile, TLC

CONSTANTS w1, w2, keysync, app, i1, i2, i3, i4, v1, v2

MCInfos == [owner : {keysync, app}, mode : {{"owner"}}]

MCOwnInfos == [owner : {keysync}, mode : {{"owner"}}]

Symmetry == Permutations(Writers) \cup Permutations(Inodes)
              \cup Permutations(Values)
=============================================================================
