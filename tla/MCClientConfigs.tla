-------------------------- MODULE MCClientConfigs --------------------------
(* Instances of ClientConfigs for TLC: few of the things a file may say. *)
EXTENDS ClientConfigs

CONSTANTS Key, Cert

Relative(n) == [place |-> None, name |-> n]
Absolute(n) == [place |-> "elsewhere", name |-> n]

MCDeclared ==
    {[key |-> Relative(Key), cert |-> None, dir |-> None],
     [key |-> Absolute(Key), cert |-> Relative(Cert), dir |-> CHOOSE d \in Dirs : d \notin Clients],
     [key |-> None, cert |-> None, dir |-> None]}

=============================================================================
