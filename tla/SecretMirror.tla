--------------------------- MODULE SecretMirror -----------------------------
(***************************************************************************)
(* What one client of keysync promises about its directory, whatever the   *)
(* order of requests, writes and removals: a pass installs only secrets    *)
(* the server held during that pass, never takes away the file of a secret *)
(* the server held all along, and leaves the directory equal to the server *)
(* when nothing disturbed it.  The last two are promises about secrets in  *)
(* the file of their own name.                                             *)
(***************************************************************************)
EXTENDS Secrets

VARIABLES
    server,   \* the secrets the server holds for the client
    disk,     \* the client's directory: each file's content or None
    busy,     \* a pass is running
    held,     \* files of secrets the server held since the pass began
    offered,  \* secrets the server held at some moment of the pass
    clean     \* nothing disturbed the last pass or happened after it

vars == <<server, disk, busy, held, offered, clean>>

TypeOK ==
    /\ server \subseteq Secret
    /\ disk \in [Files -> Content \cup {None}]
    /\ busy \in BOOLEAN
    /\ held \subseteq Files
    /\ offered \subseteq Secret
    /\ clean \in BOOLEAN

Init ==
    /\ server \in {S \in SUBSET Secret : Unique(S)}
    /\ disk \in [Files -> {None}]
    /\ busy = FALSE
    /\ held = {}
    /\ offered = {}
    /\ clean = FALSE

-----------------------------------------------------------------------------
(* The environment: the server's owner and whoever else writes the disk.   *)

\* A secret is created, or its content, attributes or file name change.
Publish(s) ==
    /\ s \notin server
    /\ server' = {t \in server : t.name # s.name} \cup {s}
    /\ held' = held \cap FilesOf(server')
    /\ offered' = IF busy THEN offered \cup {s} ELSE offered
    /\ clean' = FALSE
    /\ UNCHANGED <<disk, busy>>

Withdraw(s) ==
    /\ s \in server
    /\ server' = server \ {s}
    /\ held' = held \cap FilesOf(server')
    /\ clean' = FALSE
    /\ UNCHANGED <<disk, busy, offered>>

\* Someone else writes, changes or removes a file of the directory.
Tamper(f, c) ==
    /\ c # disk[f]
    /\ disk' = [disk EXCEPT ![f] = c]
    /\ clean' = FALSE
    /\ UNCHANGED <<server, busy, held, offered>>

-----------------------------------------------------------------------------
(* The client.                                                             *)

Begin ==
    /\ ~busy
    /\ busy' = TRUE
    /\ held' = FilesOf(server)
    /\ offered' = server
    /\ clean' = TRUE
    /\ UNCHANGED <<server, disk>>

Install(s) ==
    /\ busy
    /\ s \in offered
    /\ disk' = [disk EXCEPT ![s.file] = ContentOf(s)]
    /\ UNCHANGED <<server, busy, held, offered, clean>>

Drop(f) ==
    /\ busy
    /\ f \notin held \cap OwnFiles
    /\ disk' = [disk EXCEPT ![f] = None]
    /\ UNCHANGED <<server, busy, held, offered, clean>>

\* A request, a write or a removal fails: the pass is no longer clean.
Disturb ==
    /\ clean' = FALSE
    /\ UNCHANGED <<server, disk, busy, held, offered>>

Finish ==
    /\ busy
    /\ clean => MirrorsOwn(disk, server)
    /\ busy' = FALSE
    /\ held' = {}
    /\ offered' = {}
    /\ UNCHANGED <<server, disk, clean>>

\* The process dies; a temporary file it was writing may stay behind.
Die ==
    /\ \/ disk' = disk
       \/ \E t \in Temps, c \in Content : disk' = [disk EXCEPT ![t] = c]
    /\ busy' = FALSE
    /\ held' = {}
    /\ offered' = {}
    /\ clean' = FALSE
    /\ UNCHANGED server

Next ==
    \/ \E s \in Secret : Publish(s) \/ Withdraw(s) \/ Install(s)
    \/ \E f \in Files :
          Drop(f) \/ \E c \in Content \cup {None} : Tamper(f, c)
    \/ Begin \/ Disturb \/ Finish \/ Die

Spec == Init /\ [][Next]_vars

-----------------------------------------------------------------------------
(***************************************************************************)
(* When the last pass was clean and nothing has happened since, the        *)
(* directory shows what the server holds and no other file.                *)
(***************************************************************************)
Settled == ~busy /\ clean => MirrorsOwn(disk, server)
=============================================================================
