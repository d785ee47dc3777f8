----------------------------- MODULE SyncEntry ------------------------------
(***************************************************************************)
(* One client of keysync: the passes of syncerEntry.Sync (syncer.go) over  *)
(* its directory (OutputDir, write.go), fed by the server through          *)
(* SecretList, SecretListWithContents and Secret (client.go).  The server, *)
(* other writers of the directory and the death of the process interleave  *)
(* with every request, write and removal of a pass.                        *)
(*                                                                         *)
(* Directory entries written by WriteFileAtomically change in one step,    *)
(* the rename; the temporary file shows only when the process dies.        *)
(***************************************************************************)
EXTENDS Secrets

CONSTANT MaxUpsets      \* bound on everything the environment does

ASSUME UpsetsAssumption == MaxUpsets \in Nat

VARIABLES
    server,     \* the secrets the server holds for this client
    disk,       \* the client's directory: each file's content or None
    syncState,  \* SyncState: what keysync remembers of each file it wrote
    pc,         \* where Sync is
    listing,    \* secrets: the listing this pass works from
    needs,      \* needsRetrieval: file names still to be requested
    todo,       \* retrieved secrets not written yet
    cur,        \* the secret just written, until it is verified
    gone,       \* pendingDeletions, then the files Cleanup removes
    updated,    \* what Sync counts
    held,       \* history: files the server held since the pass began
    offered,    \* history: secrets the server held during the pass
    clean,      \* history: no disturbance in the last pass or after it
    upsets      \* how often the environment has acted

local == <<pc, listing, needs, todo, cur, gone, updated>>
history == <<held, offered>>
vars == <<server, disk, syncState, local, history, clean, upsets>>

\* A secret in hand: the name it was requested by, and whether by batch.
Retrieved == [key : Files, secret : Secret, batch : BOOLEAN]

\* A secret just written, and whether SyncState knew its file before.
Written == [item : Retrieved, present : BOOLEAN]

DataTypeOK ==
    /\ server \subseteq Secret
    /\ disk \in [Files -> Content \cup {None}]
    /\ syncState \in [Files -> Content \cup {None}]
    /\ pc \in {"idle", "fetch", "work", "verify", "remove", "cleanup"}
    /\ listing \subseteq Secret
    /\ needs \subseteq Files
    /\ todo \subseteq Retrieved
    /\ cur \in Written \cup {None}
    /\ gone \subseteq Files
    /\ updated \in [Added : Nat, Changed : Nat, Deleted : Nat]
    /\ held \subseteq Files
    /\ offered \subseteq Secret
    /\ upsets \in Nat

TypeOK == DataTypeOK /\ clean \in BOOLEAN

NothingUpdated == [Added |-> 0, Changed |-> 0, Deleted |-> 0]

NoState == [f \in Files |-> None]

Init ==
    /\ server \in {S \in SUBSET Secret : Unique(S)}
    /\ disk = [f \in Files |-> None]
    /\ syncState = NoState
    /\ pc = "idle"
    /\ listing = {} /\ needs = {} /\ todo = {} /\ gone = {}
    /\ cur = None
    /\ updated = NothingUpdated
    /\ held = {} /\ offered = {}
    /\ clean = FALSE
    /\ upsets = 0

Mirror == INSTANCE SecretMirror WITH busy <- pc # "idle"

-----------------------------------------------------------------------------
(* What the environment can do to a pass, MaxUpsets times in all.          *)

Upset ==
    /\ upsets < MaxUpsets
    /\ upsets' = upsets + 1

\* A request, a write or a removal of the running pass fails.
Fault ==
    /\ Upset
    /\ clean' = FALSE

Undisturbed == UNCHANGED <<clean, upsets>>

-----------------------------------------------------------------------------
(* Variants of definitions below with a bug in them, for the runs' mutants. *)

\* Validate without the comparison of owner, group and mode.
ValidateChecksum(s, state) ==
    /\ state # None
    /\ state.ver = s.ver
    /\ s.file \notin Slashed
    /\ disk[s.file] = state

\* What is known from earlier passes is never validated again.
NeedsRetrievalOnce(s) == syncState[s.file] = None

\* Any error of the request for one secret is taken for a deletion.
GetFailsDeletes(f) ==
    /\ pc = "work" /\ todo = {} /\ f \in needs
    /\ Fault
    /\ needs' = needs \ {f}
    /\ gone' = gone \cup {f}
    /\ UNCHANGED <<server, disk, syncState, pc, listing, todo, cur, updated,
                   history>>

\* An existing file is overwritten in place and keeps its attributes.
FileOverwritten(r) ==
    [ver |-> r.secret.ver,
     attr |-> IF disk[r.secret.file] = None THEN r.secret.attr
              ELSE disk[r.secret.file].attr]

\* The attributes remembered of a known file are not brought up to date.
StateKept(r) ==
    [ver |-> r.secret.ver,
     attr |-> IF syncState[r.key] = None THEN r.secret.attr
              ELSE syncState[r.key].attr]

\* A failed write gives up on the other secrets in hand.
WriteFailsAll(r) ==
    /\ pc = "work" /\ r \in todo
    /\ \/ Refused(r.secret) /\ Undisturbed
       \/ Fault
    /\ todo' = {}
    /\ UNCHANGED <<server, disk, syncState, pc, listing, needs, cur, gone,
                   updated, history>>

\* Counters move the wrong way.
CountDown(w) ==
    IF ~w.item.batch THEN updated ELSE [updated EXCEPT !.Changed = @ - 1]

\* Cleanup only looks at files it remembers.
UnknownRemembered ==
    {f \in Files : disk[f] # None /\ syncState[f] # None} \ FilesOf(listing)

-----------------------------------------------------------------------------
(* Sync: list the secrets and decide which to retrieve.                    *)

\* OutputDir.Validate: the file is what was written and what is served.
Validate(s, state) ==
    /\ state = ContentOf(s)
    /\ s.file \notin Slashed
    /\ disk[s.file] = state

NeedsRetrieval(s) ==
    \/ syncState[s.file] = None
    \/ ~Validate(s, syncState[s.file])

BeginSync ==
    /\ pc = "idle"
    /\ WellFormed(server)
    /\ listing' = server
    /\ needs' = {s.file : s \in {t \in server : NeedsRetrieval(t)}}
    /\ pc' = "fetch"
    /\ updated' = NothingUpdated
    /\ held' = FilesOf(server)
    /\ offered' = server
    /\ clean' = TRUE
    /\ UNCHANGED <<server, disk, syncState, todo, cur, gone, upsets>>

\* The listing request fails or is refused: Sync returns with nothing done.
ListFails ==
    /\ pc = "idle"
    /\ \/ ~WellFormed(server) /\ Undisturbed
       \/ Fault
    /\ updated' = NothingUpdated
    /\ UNCHANGED <<server, disk, syncState, pc, listing, needs, todo, cur,
                   gone, history>>

-----------------------------------------------------------------------------
(* Sync: retrieve the secrets, all at once if the server will.             *)

\* What the server answers to a request for these names.
Named(F) == {s \in server : s.name \in F}

\* The batch is answered only if every name in it is a secret's.
BatchAnswered ==
    /\ \A f \in needs : \E s \in server : s.name = f
    /\ WellFormed(Named(needs))

FetchBatch ==
    /\ pc = "fetch"
    /\ BatchAnswered
    /\ todo' = {[key |-> s.file, secret |-> s, batch |-> TRUE] :
                   s \in Named(needs)}
    /\ needs' = {}
    /\ pc' = "work"
    /\ Undisturbed
    /\ UNCHANGED <<server, disk, syncState, listing, cur, gone, updated,
                   history>>

BatchFails ==
    /\ pc = "fetch"
    /\ \/ ~BatchAnswered /\ Undisturbed
       \/ Fault
    /\ pc' = "work"
    /\ UNCHANGED <<server, disk, syncState, listing, needs, todo, cur, gone,
                   updated, history>>

(* syncSecretsIndividually: the next name, when nothing is in hand.        *)

GetSecret(f) ==
    /\ pc = "work" /\ todo = {} /\ f \in needs
    /\ \E s \in Named({f}) :
          todo' = {[key |-> f, secret |-> s, batch |-> FALSE]}
    /\ needs' = needs \ {f}
    /\ Undisturbed
    /\ UNCHANGED <<server, disk, syncState, pc, listing, cur, gone, updated,
                   history>>

\* 404, SecretDeleted: deletion waits until everything new is written.
SecretNotFound(f) ==
    /\ pc = "work" /\ todo = {} /\ f \in needs
    /\ Named({f}) = {}
    /\ needs' = needs \ {f}
    /\ gone' = gone \cup {f}
    /\ Undisturbed
    /\ UNCHANGED <<server, disk, syncState, pc, listing, todo, cur, updated,
                   history>>

\* Any other error: the secret is skipped in this pass.
GetFails(f) ==
    /\ pc = "work" /\ todo = {} /\ f \in needs
    /\ Fault
    /\ needs' = needs \ {f}
    /\ UNCHANGED <<server, disk, syncState, pc, listing, todo, cur, gone,
                   updated, history>>

-----------------------------------------------------------------------------
(* writeSecret: write, remember, verify.                                   *)

\* Where Write puts a secret, which is not where it was asked for.
PathOf(r) == r.secret.file

\* A new file with the secret's attributes and content replaces the old one.
FileWritten(r) == ContentOf(r.secret)

\* The state Write returns.
StateWritten(r) == ContentOf(r.secret)

WriteSecret(r) ==
    /\ pc = "work" /\ r \in todo
    /\ ~Refused(r.secret)
    /\ disk' = [disk EXCEPT ![PathOf(r)] = FileWritten(r)]
    /\ cur' = [item |-> r, present |-> syncState[r.key] # None]
    /\ syncState' = [syncState EXCEPT ![r.key] = StateWritten(r)]
    /\ todo' = todo \ {r}
    /\ pc' = "verify"
    /\ Undisturbed
    /\ UNCHANGED <<server, listing, needs, gone, updated, history>>

\* A failed write leaves the file and its state as they were.
WriteFails(r) ==
    /\ pc = "work" /\ r \in todo
    /\ \/ Refused(r.secret) /\ Undisturbed
       \/ Fault
    /\ todo' = todo \ {r}
    /\ UNCHANGED <<server, disk, syncState, pc, listing, needs, cur, gone,
                   updated, history>>

\* Only the batch's writes are counted.
Count(w) ==
    IF ~w.item.batch THEN updated
    ELSE IF w.present THEN [updated EXCEPT !.Changed = @ + 1]
    ELSE [updated EXCEPT !.Added = @ + 1]

Verify ==
    /\ pc = "verify"
    /\ Validate(cur.item.secret, ContentOf(cur.item.secret))
    /\ updated' = Count(cur)
    /\ cur' = None
    /\ pc' = "work"
    /\ Undisturbed
    /\ UNCHANGED <<server, disk, syncState, listing, needs, todo, gone, history>>

\* Whatever was written is taken for bad and rewritten in the next pass.
VerifyFails ==
    /\ pc = "verify"
    /\ \/ /\ ~Validate(cur.item.secret, ContentOf(cur.item.secret))
          /\ Undisturbed
       \/ Fault
    /\ syncState' = [syncState EXCEPT ![cur.item.key] = None]
    /\ cur' = None
    /\ pc' = "work"
    /\ UNCHANGED <<server, disk, listing, needs, todo, gone, updated, history>>

-----------------------------------------------------------------------------
(* Sync: remove what the server no longer has, then what nobody knows.     *)

\* Files remembered from earlier passes that are not listed any more.
Forgotten == {f \in Files : syncState[f] # None} \ FilesOf(listing)

CollectDeletions ==
    /\ pc = "work" /\ todo = {} /\ needs = {}
    /\ gone' = gone \cup Forgotten
    /\ pc' = "remove"
    /\ Undisturbed
    /\ UNCHANGED <<server, disk, syncState, listing, needs, todo, cur, updated,
                   history>>

\* One file of pendingDeletions; its state goes even if the file stays.
RemovePending(f) ==
    /\ pc = "remove" /\ f \in gone
    /\ gone' = gone \ {f}
    /\ syncState' = [syncState EXCEPT ![f] = None]
    /\ \/ /\ disk[f] # None
          /\ disk' = [disk EXCEPT ![f] = None]
          /\ updated' = [updated EXCEPT !.Deleted = @ + 1]
          /\ Undisturbed
       \/ disk[f] = None /\ Undisturbed /\ UNCHANGED <<disk, updated>>
       \/ Fault /\ UNCHANGED <<disk, updated>>
    /\ UNCHANGED <<server, pc, listing, needs, todo, cur, history>>

\* Files of the directory that the listing does not name.
Unknown == {f \in Files : disk[f] # None} \ FilesOf(listing)

\* Cleanup reads the directory once; an error there ends it.
ReadDir ==
    /\ pc = "remove" /\ gone = {}
    /\ \/ gone' = Unknown /\ Undisturbed
       \/ Fault /\ UNCHANGED gone
    /\ pc' = "cleanup"
    /\ UNCHANGED <<server, disk, syncState, listing, needs, todo, cur, updated,
                   history>>

\* One file of the directory that was not listed by the server.
RemoveUnknown(f) ==
    /\ pc = "cleanup" /\ f \in gone
    /\ gone' = gone \ {f}
    /\ \/ /\ disk[f] # None
          /\ disk' = [disk EXCEPT ![f] = None]
          /\ updated' = [updated EXCEPT !.Deleted = @ + 1]
          /\ Undisturbed
       \/ disk[f] = None /\ Undisturbed /\ UNCHANGED <<disk, updated>>
       \/ Fault /\ UNCHANGED <<disk, updated>>
    /\ UNCHANGED <<server, syncState, pc, listing, needs, todo, cur, history>>

EndSync ==
    /\ pc = "cleanup" /\ gone = {}
    /\ pc' = "idle"
    /\ listing' = {}
    /\ held' = {} /\ offered' = {}
    /\ Undisturbed
    /\ UNCHANGED <<server, disk, syncState, needs, todo, cur, gone, updated>>

-----------------------------------------------------------------------------
(* The environment.                                                        *)

Publish(s) ==
    /\ Upset
    /\ UNCHANGED <<syncState, local>>
    /\ Mirror!Publish(s)

Withdraw(s) ==
    /\ Upset
    /\ UNCHANGED <<syncState, local>>
    /\ Mirror!Withdraw(s)

Tamper(f, c) ==
    /\ Upset
    /\ UNCHANGED <<syncState, local>>
    /\ Mirror!Tamper(f, c)

\* The process dies and starts again, with nothing in memory.  If it was
\* writing a secret, its temporary file may have stayed.
Restart ==
    /\ Upset
    /\ \/ disk' = disk
       \/ \E r \in todo, t \in Temps :
             /\ pc = "work"
             /\ disk' = [disk EXCEPT ![t] = ContentOf(r.secret)]
    /\ syncState' = NoState
    /\ pc' = "idle"
    /\ listing' = {} /\ needs' = {} /\ todo' = {} /\ gone' = {}
    /\ cur' = None
    /\ updated' = NothingUpdated
    /\ held' = {} /\ offered' = {}
    /\ clean' = FALSE
    /\ UNCHANGED server

-----------------------------------------------------------------------------
SyncStep ==
    \/ BeginSync \/ ListFails \/ FetchBatch \/ BatchFails
    \/ \E f \in Files :
          \/ GetSecret(f) \/ SecretNotFound(f) \/ GetFails(f)
          \/ RemovePending(f) \/ RemoveUnknown(f)
    \/ \E r \in todo : WriteSecret(r) \/ WriteFails(r)
    \/ Verify \/ VerifyFails \/ CollectDeletions \/ ReadDir \/ EndSync

Environment ==
    \/ \E s \in Secret : Publish(s) \/ Withdraw(s)
    \/ \E f \in Files, c \in Content \cup {None} : Tamper(f, c)
    \/ Restart

Next == SyncStep \/ Environment

Spec == Init /\ [][Next]_vars

(***************************************************************************)
(* Run polls for ever and every request ends, if only by its timeout, so   *)
(* a pass never stands still.                                              *)
(***************************************************************************)
FairSpec == Spec /\ WF_vars(SyncStep)

-----------------------------------------------------------------------------
(***************************************************************************)
(* Settled: after a pass that nothing disturbed, and as long as nothing    *)
(* happens, the directory shows exactly the server's secrets: checks what  *)
(* validation, retrieval, writeSecret, pendingDeletions and Cleanup amount *)
(* to together (syncer.go 364-438), from any state earlier passes, faults, *)
(* restarts and other writers left.                                        *)
(***************************************************************************)
Settled == pc = "idle" /\ clean => Mirrors(disk, server)

(***************************************************************************)
(* Idle passes are idle: once settled, the next pass requests nothing but  *)
(* the secrets that cannot be written, or are in no file of their name:    *)
(* SyncState remembers for every file what is needed to see that it is     *)
(* still valid (syncer.go 375-390).                                        *)
(***************************************************************************)
SettledNeedsNothing ==
    pc = "idle" /\ clean =>
        \A s \in OwnNamed(server) : Refused(s) \/ ~NeedsRetrieval(s)

(***************************************************************************)
(* Secrets the server has held since the pass began keep their files: no   *)
(* failure of a request or a write, and no change of other secrets, makes  *)
(* keysync remove them (syncer.go 392-435).  Files that another secret's   *)
(* override may name are left out: a 404 for one is no news of its secret. *)
(***************************************************************************)
KeepsHeldSecrets ==
    [][SyncStep => \A f \in held \cap OwnFiles : disk[f] # None => disk'[f] # None]_vars

(***************************************************************************)
(* What keysync writes is whole and current: content and attributes of one *)
(* secret that the server held at some moment of the same pass, under its  *)
(* own file name (syncer.go 399-412, 440-489; write.go 211-243).           *)
(***************************************************************************)
InstallsOffered ==
    [][SyncStep => \A f \in Files :
          disk'[f] \in {disk[f], None}
             \/ \E s \in offered : s.file = f /\ disk'[f] = ContentOf(s)]_vars

(***************************************************************************)
(* Overrides of file names, which secrets are requested and lost by, harm  *)
(* no other secret: after an undisturbed pass every secret in the file of  *)
(* its own name is there, and no file is there that no secret has          *)
(* (syncer.go 364-438, client.go 300-311).                                 *)
(***************************************************************************)
SettledOwnNamed == pc = "idle" /\ clean => MirrorsOwn(disk, server)

(***************************************************************************)
(* A pass comes to its end, as far as safety can say: every step goes on   *)
(* to a later part of Sync or leaves less to request, to write, to verify  *)
(* or to remove, whatever fails; nothing is tried again in the same pass   *)
(* (syncer.go 364-489).                                                    *)
(***************************************************************************)
Part(p) == CASE p = "fetch" -> 1 [] p \in {"work", "verify"} -> 2
             [] p = "remove" -> 3 [] p = "cleanup" -> 4 [] p = "idle" -> 5

Smaller(S, T) == S \subseteq T /\ S # T

GoesOn ==
    \/ Part(pc') > Part(pc)
    \/ /\ Part(pc') = Part(pc)
       /\ \/ Smaller(needs', needs)
          \/ needs' = needs /\ Smaller(todo', todo)
          \/ needs' = needs /\ todo' = todo /\ pc = "verify" /\ pc' = "work"
          \/ /\ needs' = needs /\ todo' = todo /\ pc' = pc
             /\ Smaller(gone', gone)

PassGoesOn == [][SyncStep /\ pc # "idle" => GoesOn]_vars

(***************************************************************************)
(* The inductive invariant behind the properties above.  Its parts, for a  *)
(* running pass:                                                           *)
(*   InHand       what waits to be written or verified was offered in the  *)
(*                pass and was requested by its name or its file's;        *)
(*   CleanPass    undisturbed, every listed secret in the file of its own  *)
(*                name is refused, still to be requested, in hand, or      *)
(*                valid on disk and in SyncState, and every other file is  *)
(*                known to Cleanup at its end;                             *)
(*   HeldIsSafe   what the server still holds since the beginning is       *)
(*                listed and, in a file no other secret may have, never    *)
(*                due for removal.                                         *)
(***************************************************************************)
Valid(s) == disk[s.file] = ContentOf(s) /\ syncState[s.file] = ContentOf(s)

InHand ==
    /\ pc # "idle" => server \subseteq offered
    /\ \A r \in todo :
          r.secret \in offered /\ r.key \in {r.secret.name, r.secret.file}
    /\ pc = "verify" =>
          /\ cur \in Written
          /\ cur.item.secret \in offered
          /\ ~Refused(cur.item.secret)

HeldIsSafe ==
    /\ held \subseteq FilesOf(listing) \cap FilesOf(server)
    /\ held \cap gone \cap OwnFiles = {}

AtRest ==
    /\ pc = "idle" => held = {} /\ offered = {}
    /\ pc \in {"idle", "fetch"} => todo = {} /\ gone = {}
    /\ pc \in {"idle", "remove", "cleanup"} => todo = {} /\ needs = {}

CleanPass ==
    pc # "idle" /\ clean =>
        /\ listing = server
        /\ WellFormed(server)
        /\ FilesOf(OwnNamed(server)) \cap gone = {}
        /\ \A r \in todo : r.secret \in server
        /\ \A s \in OwnNamed(server) :
              \/ Refused(s) \/ s.file \in needs \/ Valid(s)
              \/ \E r \in todo : r.secret = s
        /\ pc = "verify" =>
              disk[cur.item.secret.file] = ContentOf(cur.item.secret)
        /\ pc = "cleanup" =>
              \A f \in Files : f \in FilesOf(server) \cup gone \/ disk[f] = None

CleanRest ==
    pc = "idle" /\ clean =>
        /\ \A s \in OwnNamed(server) : Refused(s) \/ Valid(s)
        /\ \A f \in Files : f \in FilesOf(server) \/ disk[f] = None

PassInv ==
    /\ Unique(server)
    /\ AtRest /\ InHand /\ HeldIsSafe /\ CleanPass /\ CleanRest

(***************************************************************************)
(* Every pass is a pass of the abstract mirror.                            *)
(***************************************************************************)
ImplementsMirror == Mirror!Spec

(***************************************************************************)
(* When the server can be listed and the environment stops, the directory  *)
(* comes to show the server's secrets and stays so ("continously           *)
(* synchronizes local state to match what is on the server",               *)
(* cmd/keysync/README.md).                                                 *)
(***************************************************************************)
Converges == <>[](~WellFormed(server) \/ Mirrors(disk, server))

(***************************************************************************)
(* A settled directory has every secret whose mode parses, whatever dots   *)
(* its name has (syncer_test.go 153-154 expects a secret named             *)
(* "General_Password..0be68f903f8b7d86" to be written).                    *)
(***************************************************************************)
SettledServesDottedNames ==
    pc = "idle" /\ clean =>
        \A s \in server : s.attr \in BadAttrs \/ disk[s.file] = ContentOf(s)

(***************************************************************************)
(* Every secret a pass wrote and verified is among those it reports        *)
(* ("Returns the number of secrets added, changed, or deleted secrets",    *)
(* syncer.go 363).                                                         *)
(***************************************************************************)
WritesAreCounted ==
    [][Verify => updated'.Added + updated'.Changed >
                    updated.Added + updated.Changed]_vars
=============================================================================
