------------------------------ MODULE MCSyncer ------------------------------
(* Instances of Syncer for TLC. *)
EXTENDS Syncer

CONSTANTS c1, c2, c3, d1, d2, d3, api

\* Client c1 is in the directory of its name, or in one it has overridden.
OwnDirsFor == [c \in {c1, c2} |-> IF c = c1 THEN {d1, d3} ELSE {d2}]

\* A client that is renamed may keep its directory.
SharedDirsFor == [c \in {c1, c2} |-> {d1}]

\* Two clients share a directory, a third has one of its own.
MixedDirsFor == [c \in {c1, c2, c3} |-> IF c = c3 THEN {d2} ELSE {d1}]
=============================================================================
