---------------------------- MODULE MCSyncEntry -----------------------------
(* Instances of SyncEntry for TLC. *)
EXTENDS SyncEntry, TLC

CONSTANTS a, b, sep, tmp, v1, v2, ro, rg, bad

\* Every secret is in the file of its name.
PlainNames == [n \in {a, b} |-> {n}]

\* Secret a may carry an override: the name of the other secret's file, or
\* a name with a path separator.
OverrideNames == [n \in {a, b} |-> IF n = a THEN {a, b, sep} ELSE {n}]

\* Names and versions are interchangeable where no override tells them apart.
PlainSymmetry ==
    Permutations({a, b}) \cup Permutations({v1, v2}) \cup Permutations({ro, rg})

VersionSymmetry == Permutations({v1, v2})
=============================================================================
