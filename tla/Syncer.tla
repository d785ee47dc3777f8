------------------------------- MODULE Syncer -------------------------------
(***************************************************************************)
(* The Syncer: which clients are loaded and which directories exist, under *)
(* the polling loop (Run, RunOnce) and the API's handlers (syncAll,        *)
(* syncOne), which take syncMutex in turn, while the client configurations *)
(* and keys change and the process restarts.  One client's pass is one     *)
(* step here; module SyncEntry looks inside it.                            *)
(***************************************************************************)
EXTENDS Naturals

CONSTANTS
    Clients,    \* names of clients
    Dirs,       \* directories under SecretsDir
    DirsFor,    \* the directories the configuration may give each client
    Settings,   \* everything else in a ClientConfig
    Loop,       \* the goroutine of Run
    Handlers,   \* goroutines of API requests
    All,        \* the request to sync all clients, against one client's name
    None,       \* no configuration, no client, no goroutine
    Missing,    \* a directory that does not exist
    Empty,      \* a directory without secrets
    MaxUpsets   \* bound on everything the environment does

ASSUME ClientsAssumption ==
    /\ DirsFor \in [Clients -> SUBSET Dirs]
    /\ All \notin Clients
    /\ {Missing, Empty} \cap Clients = {}
    /\ Missing # Empty

ASSUME ConfigAssumption == None \notin [dir : Dirs, rest : Settings]

ASSUME ThreadsAssumption == None \notin {Loop} \cup Handlers

ASSUME UpsetsAssumption == MaxUpsets \in Nat

(***************************************************************************)
(* The clients whose directories no other client is ever given, as when    *)
(* the directory is the client's name, the default of ClientConfig.DirName. *)
(***************************************************************************)
OwnClients ==
    {c \in Clients :
        \A b \in Clients \ {c} : DirsFor[b] \cap DirsFor[c] = {}}

OwnDirs == OwnClients = Clients

Threads == {Loop} \cup Handlers

Conf == [dir : Dirs, rest : Settings]

VARIABLES
    configs,    \* what the client configuration files say
    badConfig,  \* {} or, when a file cannot be read or parsed, {"yaml"}
    badKeys,    \* clients whose key pair cannot be loaded
    clients,    \* s.clients: each loaded client with its configuration
    dirs,       \* each directory: Missing, Empty or the client it shows
    lock,       \* who holds syncMutex
    pc,         \* where each goroutine is
    op,         \* what it was asked to sync: All or a client
    todo,       \* clients it has yet to sync
    known,      \* clientDirs
    pending,    \* directories of pendingCleanup.Outputs
    unknown,    \* directories outputCollection.Cleanup is to remove
    errors,     \* the errors: clients and directories, All for SecretsDir
    partial,    \* history: clients whose pass failed without an error
    upsets      \* how often the environment has acted

thread == <<pc, op, todo, known, pending, unknown, errors, partial>>
config == <<configs, badConfig, badKeys>>
vars == <<config, clients, dirs, lock, thread, upsets>>

TypeOK ==
    /\ configs \in [Clients -> Conf \cup {None}]
    /\ badConfig \in {{}, {"yaml"}}
    /\ badKeys \subseteq Clients
    /\ clients \in [Clients -> Conf \cup {None}]
    /\ dirs \in [Dirs -> Clients \cup {Missing, Empty}]
    /\ lock \in Threads \cup {None}
    /\ pc \in [Threads -> {"idle", "load", "work", "sweep"}]
    /\ op \in [Threads -> Clients \cup {All}]
    /\ todo \in [Threads -> SUBSET Clients]
    /\ known \in [Threads -> SUBSET Dirs]
    /\ pending \in [Threads -> SUBSET Dirs]
    /\ unknown \in [Threads -> SUBSET Dirs]
    /\ errors \in [Threads -> SUBSET (Clients \cup Dirs \cup {All})]
    /\ partial \in [Threads -> SUBSET Clients]
    /\ upsets \in Nat

NoClients == [c \in Clients |-> None]

Idle == [t \in Threads |-> "idle"]

Nothing == [t \in Threads |-> {}]

ConfsOf(c) == [dir : DirsFor[c], rest : Settings] \cup {None}

Init ==
    /\ configs \in [Clients -> Conf \cup {None}]
    /\ \A c \in Clients : configs[c] \in ConfsOf(c)
    /\ badConfig = {} /\ badKeys = {}
    /\ clients = NoClients
    /\ dirs = [d \in Dirs |-> Missing]
    /\ lock = None
    /\ pc = Idle /\ op = [t \in Threads |-> All]
    /\ todo = Nothing /\ known = Nothing /\ pending = Nothing
    /\ unknown = Nothing /\ errors = Nothing /\ partial = Nothing
    /\ upsets = 0

Upset ==
    /\ upsets < MaxUpsets
    /\ upsets' = upsets + 1

-----------------------------------------------------------------------------
(* Variants of definitions below with a bug in them, for the runs' mutants. *)

\* The handler unlocks first and cleans up afterwards.
UnlockEarly(t) ==
    /\ \/ pc[t] = "sweep" /\ unknown[t] = {} /\ lock' = None
       \/ /\ pc[t] = "work" /\ op[t] # All /\ todo[t] = {}
          /\ lock' = IF lock = t THEN None ELSE lock
          /\ lock = t \/ pending[t] = {}
    /\ pc' = [pc EXCEPT ![t] = IF pending[t] = {} THEN "idle" ELSE "work"]
    /\ known' = [known EXCEPT ![t] = {}]
    /\ UNCHANGED <<config, clients, dirs, op, todo, pending, unknown, errors,
                   partial, upsets>>

\* The error of a failed pass is logged and lost.
SyncFailsQuietly(t, c) ==
    /\ pc[t] = "work" /\ c \in todo[t]
    /\ Upset
    /\ todo' = [todo EXCEPT ![t] = @ \ {c}]
    /\ UNCHANGED <<config, clients, dirs, lock, pc, op, known, pending,
                   unknown, errors, partial>>

\* Only directories of clients that are gone are looked for.
UnknownPending(t) == pending[t]

\* The request for one client tolerates a mutex released before Sync.
FinishedEarly(t) ==
    \/ pc[t] = "sweep" /\ unknown[t] = {}
    \/ pc[t] = "work" /\ op[t] # All /\ pending[t] = {}

-----------------------------------------------------------------------------
(* The goroutines. *)

\* RunOnce and syncOne begin by taking syncMutex; Run only asks for all.
Acquire(t, o) ==
    /\ lock = None /\ pc[t] = "idle"
    /\ t = Loop => o = All
    /\ lock' = t
    /\ op' = [op EXCEPT ![t] = o]
    /\ pc' = [pc EXCEPT ![t] = "load"]
    /\ errors' = [errors EXCEPT ![t] = {}]
    /\ partial' = [partial EXCEPT ![t] = {}]
    /\ UNCHANGED <<config, clients, dirs, todo, known, pending, unknown, upsets>>

\* NewClient, and RebuildClient later, need the client's key pair.
KeyLoads(c) == c \notin badKeys

\* A client is built when it is new or its configuration is another.
Built(c) == configs[c] \notin {None, clients[c]} /\ KeyLoads(c)

\* A variant with a bug: the directories of other clients are lost.
NewOutputsOnly == [d \in {configs[c].dir : c \in {b \in Clients : Built(b)}} |-> Empty]

\* NewOutput makes the directories of the clients that are built.
NewOutputs == [d \in Dirs |->
    IF dirs[d] = Missing /\ \E c \in Clients : Built(c) /\ configs[c].dir = d
    THEN Empty ELSE dirs[d]]

\* A client that cannot be built keeps its entry, if it has one.
Loaded(c) ==
    IF Built(c) THEN configs[c]
    ELSE IF configs[c] = None THEN None
    ELSE clients[c]

Gone(c) == clients[c] # None /\ configs[c] = None

\* The directories of some clients as they are configured in cfg.
DirsOf(cfg) == {cfg[c].dir : c \in {b \in Clients : cfg[b] # None}}

\* The clients to sync follow, or the answer 404 if there is no such client.
LoadClients(t) ==
    /\ pc[t] = "load"
    /\ badConfig = {}
    /\ clients' = [c \in Clients |-> Loaded(c)]
    /\ dirs' = NewOutputs
    /\ pending' = [pending EXCEPT ![t] =
          {clients[c].dir : c \in {b \in Clients : Gone(b)}}]
    /\ \/ /\ op[t] = All
          /\ todo' = [todo EXCEPT ![t] = {c \in Clients : Loaded(c) # None}]
          /\ known' = [known EXCEPT ![t] = DirsOf(clients')]
          /\ UNCHANGED errors
       \/ /\ op[t] # All /\ Loaded(op[t]) # None
          /\ todo' = [todo EXCEPT ![t] = {op[t]}]
          /\ UNCHANGED <<known, errors>>
       \/ /\ op[t] # All /\ Loaded(op[t]) = None
          /\ errors' = [errors EXCEPT ![t] = IF Gone(op[t]) THEN {} ELSE {op[t]}]
          /\ UNCHANGED <<todo, known>>
    /\ pc' = [pc EXCEPT ![t] = "work"]
    /\ UNCHANGED <<config, lock, op, unknown, partial, upsets>>

\* A configuration file cannot be loaded: nothing is synced or removed.
LoadFails(t) ==
    /\ pc[t] = "load"
    /\ badConfig # {}
    /\ pc' = [pc EXCEPT ![t] = "idle"]
    /\ lock' = None
    /\ UNCHANGED <<config, clients, dirs, op, todo, known, pending, unknown,
                   errors, partial, upsets>>

\* A pass of the client: its secrets, and no others, are in its directory.
SyncClient(t, c) ==
    /\ pc[t] = "work" /\ c \in todo[t]
    /\ dirs' = [dirs EXCEPT ![clients[c].dir] = c]
    /\ todo' = [todo EXCEPT ![t] = @ \ {c}]
    /\ UNCHANGED <<config, clients, lock, pc, op, known, pending, unknown,
                   errors, partial, upsets>>

\* The secrets cannot be listed; other clients are still synced.
SyncFails(t, c) ==
    /\ pc[t] = "work" /\ c \in todo[t]
    /\ Upset
    /\ todo' = [todo EXCEPT ![t] = @ \ {c}]
    /\ errors' = [errors EXCEPT ![t] = @ \cup {c}]
    /\ UNCHANGED <<config, clients, dirs, lock, pc, op, known, pending,
                   unknown, partial>>

\* Secrets cannot be retrieved, written or removed: Sync returns no error.
SyncIncomplete(t, c) ==
    /\ pc[t] = "work" /\ c \in todo[t]
    /\ Upset
    /\ todo' = [todo EXCEPT ![t] = @ \ {c}]
    /\ partial' = [partial EXCEPT ![t] = @ \cup {c}]
    /\ UNCHANGED <<config, clients, dirs, lock, pc, op, known, pending,
                   unknown, errors>>

RemoveAll(d) == dirs' = [dirs EXCEPT ![d] = Missing]

\* A failed RemoveAll may have removed the files already.
RemoveAllFails(d) ==
    /\ Upset
    /\ \E x \in {dirs[d], Empty} : dirs' = [dirs EXCEPT ![d] = x]

\* pendingCleanup.cleanup; only RunOnce collects its errors.
CleanupPending(t, d) ==
    /\ pc[t] = "work" /\ todo[t] = {} /\ d \in pending[t]
    /\ pending' = [pending EXCEPT ![t] = @ \ {d}]
    /\ \/ RemoveAll(d) /\ UNCHANGED <<errors, upsets>>
       \/ /\ RemoveAllFails(d)
          /\ errors' = IF op[t] = All
                       THEN [errors EXCEPT ![t] = @ \cup {d}] ELSE errors
    /\ UNCHANGED <<config, clients, lock, pc, op, todo, known, unknown, partial>>

\* What outputCollection.Cleanup finds that no client of RunOnce uses.
Unknown(t) == {d \in Dirs : dirs[d] # Missing} \ known[t]

ReadSecretsDir(t) ==
    /\ pc[t] = "work" /\ op[t] = All
    /\ todo[t] = {} /\ pending[t] = {}
    /\ \/ /\ unknown' = [unknown EXCEPT ![t] = Unknown(t)]
          /\ UNCHANGED <<errors, upsets>>
       \/ /\ Upset
          /\ errors' = [errors EXCEPT ![t] = @ \cup {All}]
          /\ UNCHANGED unknown
    /\ pc' = [pc EXCEPT ![t] = "sweep"]
    /\ UNCHANGED <<config, clients, dirs, lock, op, todo, known, pending, partial>>

\* One unknown directory.
RemoveUnknown(t, d) ==
    /\ pc[t] = "sweep" /\ d \in unknown[t]
    /\ unknown' = [unknown EXCEPT ![t] = @ \ {d}]
    /\ \/ RemoveAll(d) /\ UNCHANGED <<errors, upsets>>
       \/ RemoveAllFails(d) /\ errors' = [errors EXCEPT ![t] = @ \cup {d}]
    /\ UNCHANGED <<config, clients, lock, pc, op, todo, known, pending, partial>>

\* Everything deferred has run when the mutex is released.
Finished(t) ==
    \/ pc[t] = "sweep" /\ unknown[t] = {}
    \/ pc[t] = "work" /\ op[t] # All /\ todo[t] = {} /\ pending[t] = {}

Unlock(t) ==
    /\ Finished(t)
    /\ lock' = None
    /\ pc' = [pc EXCEPT ![t] = "idle"]
    /\ known' = [known EXCEPT ![t] = {}]
    /\ UNCHANGED <<config, clients, dirs, op, todo, pending, unknown, errors,
                   partial, upsets>>

-----------------------------------------------------------------------------
(* The environment. *)

\* A client's configuration is added, changed or removed.
Edit(c, x) ==
    /\ Upset
    /\ x # configs[c]
    /\ configs' = [configs EXCEPT ![c] = x]
    /\ UNCHANGED <<badConfig, badKeys, clients, dirs, lock, thread>>

\* Some configuration file stops parsing, or parses again.
EditYaml ==
    /\ Upset
    /\ badConfig' = {"yaml"} \ badConfig
    /\ UNCHANGED <<configs, badKeys, clients, dirs, lock, thread>>

\* A client's key pair becomes unreadable, or readable again.
EditKey(c) ==
    /\ Upset
    /\ badKeys' = (badKeys \ {c}) \cup ({c} \ badKeys)
    /\ UNCHANGED <<configs, badConfig, clients, dirs, lock, thread>>

Restart ==
    /\ Upset
    /\ clients' = NoClients
    /\ lock' = None
    /\ pc' = Idle
    /\ todo' = Nothing /\ known' = Nothing /\ pending' = Nothing
    /\ unknown' = Nothing /\ errors' = Nothing /\ partial' = Nothing
    /\ UNCHANGED <<config, dirs, op>>

-----------------------------------------------------------------------------
Step(t) ==
    \/ LoadClients(t) \/ LoadFails(t) \/ ReadSecretsDir(t) \/ Unlock(t)
    \/ \E c \in todo[t] :
          SyncClient(t, c) \/ SyncFails(t, c) \/ SyncIncomplete(t, c)
    \/ \E d \in pending[t] : CleanupPending(t, d)
    \/ \E d \in unknown[t] : RemoveUnknown(t, d)

SyncerStep ==
    \E t \in Threads : Step(t) \/ \E o \in Clients \cup {All} : Acquire(t, o)

Environment ==
    \/ \E c \in Clients : EditKey(c) \/ \E x \in ConfsOf(c) : Edit(c, x)
    \/ EditYaml \/ Restart

Next == SyncerStep \/ Environment

Spec == Init /\ [][Next]_vars

(***************************************************************************)
(* Whoever has the mutex goes on, and Run, which comes back after every    *)
(* sleep, gets it however many requests there are: sync.Mutex hands itself *)
(* over to a waiter that starves.                                          *)
(***************************************************************************)
FairSpec ==
    /\ Spec
    /\ \A t \in Threads : WF_vars(Step(t))
    /\ SF_vars(Acquire(Loop, All))

-----------------------------------------------------------------------------
(* Properties, the first three of clients with directories of their own. *)

Shows(c) == dirs[clients[c].dir] = c

(***************************************************************************)
(* No step of any goroutine takes away the secrets of a client that stays  *)
(* loaded as it is, whatever is edited, unloadable, pending from earlier   *)
(* or requested meanwhile: removal of clients that are gone (syncer.go     *)
(* 198-217, write.go 83-112) finishes inside the mutex that guards         *)
(* s.clients.                                                              *)
(***************************************************************************)
KeepsLoadedClients ==
    [][SyncerStep => \A c \in OwnClients :
          (clients[c] # None /\ clients'[c] = clients[c] /\ Shows(c))
              => dirs'[clients[c].dir] = c]_vars

(***************************************************************************)
(* A RunOnce that returns no error leaves every loaded client's secrets in *)
(* its directory, but for clients whose pass failed without an error or    *)
(* who share it, and leaves no other directory (syncer.go 320-360).        *)
(***************************************************************************)
SuccessMeansAllShown ==
    \A t \in Threads : Finished(t) /\ op[t] = All /\ errors[t] = {} =>
        /\ \A c \in OwnClients :
              clients[c] # None => Shows(c) \/ c \in partial[t]
        /\ \A d \in Dirs : dirs[d] # Missing => d \in DirsOf(clients)

(***************************************************************************)
(* A successful answer to the request to sync one client means that its    *)
(* secrets are there, or its pass failed without an error, or that it is   *)
(* no longer loaded (api.go 85-135).                                       *)
(***************************************************************************)
SuccessMeansOneShown ==
    \A t \in Threads :
        (/\ Finished(t) /\ op[t] \in OwnClients
         /\ errors[t] = {} /\ clients[op[t]] # None)
            => Shows(op[t]) \/ op[t] \in partial[t]

(***************************************************************************)
(* When the environment stops, and as long as the configuration parses,    *)
(* every configured client whose key loads comes to be shown, and every    *)
(* directory that neither the configuration nor a client that could not be *)
(* rebuilt uses is gone, also if its client was removed while keysync was  *)
(* not running or on a request for one client (syncer.go 221-265, 320-360; *)
(* write.go 83-112).                                                       *)
(***************************************************************************)
Converges ==
    <>[](badConfig = {} =>
          /\ \A c \in Clients \ badKeys :
                configs[c] # None => dirs[configs[c].dir] = c
          /\ \A d \in Dirs :
                dirs[d] # Missing => d \in DirsOf(configs) \cup DirsOf(clients))

-----------------------------------------------------------------------------
(***************************************************************************)
(* The inductive invariant behind the properties above:                    *)
(*   MutexInv    the mutex is held by the one goroutine that is not idle,  *)
(*               and the others have nothing left from earlier;            *)
(*   OwnInv      a loaded client is in a directory it may be given;        *)
(*   KnownInv    RunOnce knows the directories of the loaded clients, and  *)
(*               the clean-up of the others spares them;                   *)
(*   SweptInv    every directory of no loaded client still waits to be     *)
(*               removed, or failed to be;                                 *)
(* and of clients with directories of their own:                           *)
(*   SpareInv    what is pending from clients that are gone is not theirs; *)
(*   ShownInv    to be synced, they still wait, failed, or show.           *)
(***************************************************************************)
MutexInv ==
    \A t \in Threads :
        /\ pc[t] # "idle" <=> lock = t
        /\ pc[t] \in {"idle", "load"} =>
              todo[t] = {} /\ pending[t] = {} /\ unknown[t] = {}
        /\ pc[t] = "work" => unknown[t] = {}
        /\ pc[t] = "sweep" => todo[t] = {} /\ pending[t] = {} /\ op[t] = All

OwnInv ==
    \A c \in Clients :
        /\ configs[c] # None => configs[c].dir \in DirsFor[c]
        /\ clients[c] # None => clients[c].dir \in DirsFor[c]

KnownInv ==
    \A t \in Threads :
        /\ unknown[t] \cap DirsOf(clients) = {}
        /\ \A c \in todo[t] : clients[c] # None
        /\ pc[t] \in {"work", "sweep"} /\ op[t] = All => known[t] = DirsOf(clients)

SweptInv ==
    \A t \in Threads : \A d \in Dirs :
        (pc[t] = "sweep" /\ dirs[d] # Missing)
            => All \in errors[t] \/ d \in known[t] \cup unknown[t] \cup errors[t]

SpareInv ==
    \A t \in Threads : \A c \in OwnClients :
        clients[c] # None => clients[c].dir \notin pending[t]

ShownInv ==
    \A t \in Threads : \A c \in OwnClients :
        (pc[t] \in {"work", "sweep"} /\ op[t] \in {All, c} /\ clients[c] # None)
            => c \in todo[t] \cup errors[t] \cup partial[t] \/ Shows(c)

SyncerInv ==
    MutexInv /\ OwnInv /\ KnownInv /\ SweptInv /\ SpareInv /\ ShownInv

-----------------------------------------------------------------------------
(***************************************************************************)
(* Whoever takes the mutex comes to release it, as far as safety can say:  *)
(* it is held by a goroutine on its way, and every step of that goroutine  *)
(* goes on to a later part of RunOnce or syncOne or leaves one thing less  *)
(* to do in the same part (syncer.go 178-217, 320-360; api.go 85-135).     *)
(***************************************************************************)
Part(p) == CASE p = "load" -> 1 [] p = "work" -> 2 [] p = "sweep" -> 3
             [] p = "idle" -> 4

Smaller(S, T) == S \subseteq T /\ S # T

HolderGoesOn(t) ==
    \/ Part(pc'[t]) > Part(pc[t])
    \/ /\ pc'[t] = pc[t]
       /\ \/ Smaller(todo'[t], todo[t]) /\ pending'[t] = pending[t]
          \/ Smaller(pending'[t], pending[t]) /\ todo'[t] = todo[t]
          \/ Smaller(unknown'[t], unknown[t])

MutexIsReleased ==
    [][/\ lock # None => pc[lock] # "idle"
       /\ \A t \in Threads : Step(t) => lock = t /\ HolderGoesOn(t)]_vars

(***************************************************************************)
(* What pendingCleanup removes, outputCollection.Cleanup would remove too  *)
(* ("While the function below would take care of it too, we don't warn in  *)
(* the expected case", syncer.go 343).                                     *)
(***************************************************************************)
PendingIsUnknown ==
    [][\A t \in Threads : \A d \in Dirs :
          (CleanupPending(t, d) /\ op[t] = All) => d \notin known[t]]_vars

(***************************************************************************)
(* outputCollection.Cleanup removes the directories of clients that were   *)
(* deleted, or that moved, not of a client that is configured ("Cleanup    *)
(* unknown clients (eg, ones deleted while keysync was not running)",      *)
(* write.go 34).                                                           *)
(***************************************************************************)
CleanupSparesConfigured ==
    [][\A t \in Threads : \A d \in Dirs : \A c \in Clients :
          (RemoveUnknown(t, d) /\ dirs[d] = c /\ dirs'[d] # c)
              => configs[c] = None \/ clients[c] # None]_vars
=============================================================================
