---------------------------- MODULE MCOwnership -----------------------------
(* Instances of Ownership for TLC: each name given or left out. *)
EXTENDS Ownership

CONSTANTS own, client, global

MCConfs ==
    [user : {client, Nil}, group : {client, Nil}, defaultUser : {global, Nil},
     defaultGroup : {global}, chown : {TRUE}]
      \cup [user : {client}, group : {client}, defaultUser : {global},
            defaultGroup : {global}, chown : {FALSE}]

MCSecrets == [owner : {own, Nil}, group : {own, Nil}]
=============================================================================
