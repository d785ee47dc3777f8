----------------------------- MODULE Ownership ------------------------------
(***************************************************************************)
(* Who owns a secret's file: a client's DefaultOwnership, looked up when   *)
(* the client is built (ownership.go, NewOwnership), and the owner that    *)
(* each write looks up for the secret (secret.go, OwnershipValue), while   *)
(* the users and groups of the system, the secret and the file change.     *)
(* Sync is followed for one secret that the server holds all the time.     *)
(***************************************************************************)
EXTENDS Naturals

CONSTANTS
    Accounts,      \* of users and groups; each has an id of its own
    Root,       \* the id 0
    Self,       \* the id keysync runs as
    Nil,       \* a name left out, no such file, no state
    Confs,      \* configurations of the client, with the global defaults
    Secrets,    \* what the server may say of the secret's owner and group
    MaxUpsets   \* bound on everything the environment does

Name == Accounts \cup {Nil}
Id == Accounts \cup {Root, Self}
Owners == [uid : Id, gid : Id]
States == [for : Secrets, info : Owners]

ASSUME OwnershipAssumption ==
    /\ Confs \subseteq [user : Name, group : Name, defaultUser : Name,
                        defaultGroup : Name, chown : BOOLEAN]
    /\ Secrets \subseteq [owner : Name, group : Name]
    /\ Root \notin Accounts /\ Self \notin Accounts
    /\ Nil \notin Accounts \cup Owners \cup Secrets \cup States
    /\ MaxUpsets \in Nat

VARIABLES
    conf,       \* the client's configuration
    secret,     \* the secret on the server
    users, groups, \* names that the system can look up
    pc,         \* where keysync is
    default,    \* DefaultOwnership
    got,        \* the secret as fetched
    ret,        \* the ownership it is to have
    state,      \* SyncState of the secret, or None
    file,       \* who owns its file, or None
    seen,       \* history: users and groups since the client was built
    calm,       \* history: nothing has changed since the pass began
    upsets

database == <<users, groups>>
ownershipVars == <<conf, secret, database, pc, default, got, ret, state, file, seen,
          calm, upsets>>

OwnershipTypeOK ==
    /\ conf \in Confs /\ secret \in Secrets
    /\ users \subseteq Accounts /\ groups \subseteq Accounts
    /\ pc \in {"user", "fallbackUser", "group", "fallbackGroup", "idle",
               "fetch", "owner", "ownerGroup", "write", "verify"}
    /\ default \in Owners
    /\ got \in Secrets \cup {Nil}
    /\ pc \in {"owner", "ownerGroup", "write", "verify"} => got # Nil
    /\ ret \in Owners
    /\ state \in States \cup {Nil}
    /\ file \in Owners \cup {Nil}
    /\ database \in seen /\ seen \subseteq (SUBSET Accounts) \X (SUBSET Accounts)
    /\ calm \in BOOLEAN
    /\ upsets \in Nat

Zero == [uid |-> Root, gid |-> Root]

OwnershipInit ==
    /\ conf \in Confs /\ secret \in Secrets
    /\ users \in SUBSET Accounts /\ groups \in SUBSET Accounts
    /\ pc = "user"
    /\ default = Zero /\ ret = Zero
    /\ got = Nil /\ state = Nil /\ file = Nil
    /\ seen = {database}
    /\ calm = FALSE
    /\ upsets = 0

Upset ==
    /\ upsets < MaxUpsets
    /\ upsets' = upsets + 1

-----------------------------------------------------------------------------
(* NewOwnership.  An error of the user's look-up is never taken for the    *)
(* group's: without a group name the fallback is looked up anyway.         *)

LookUser ==
    /\ pc = "user"
    /\ IF conf.user \in users
       THEN default' = [default EXCEPT !.uid = conf.user] /\ pc' = "group"
       ELSE UNCHANGED default /\ pc' = "fallbackUser"
    /\ UNCHANGED <<conf, secret, database, got, ret, state, file, seen, calm,
                   upsets>>

LookFallbackUser ==
    /\ pc = "fallbackUser"
    /\ default' = [default EXCEPT !.uid =
          IF conf.defaultUser \in users THEN conf.defaultUser ELSE Root]
    /\ pc' = "group"
    /\ UNCHANGED <<conf, secret, database, got, ret, state, file, seen, calm,
                   upsets>>

LookGroup ==
    /\ pc = "group"
    /\ IF conf.group \in groups
       THEN default' = [default EXCEPT !.gid = conf.group] /\ pc' = "idle"
       ELSE UNCHANGED default /\ pc' = "fallbackGroup"
    /\ UNCHANGED <<conf, secret, database, got, ret, state, file, seen, calm,
                   upsets>>

LookFallbackGroup ==
    /\ pc = "fallbackGroup"
    /\ default' = [default EXCEPT !.gid =
          IF conf.defaultGroup \in groups THEN conf.defaultGroup ELSE Root]
    /\ pc' = "idle"
    /\ UNCHANGED <<conf, secret, database, got, ret, state, file, seen, calm,
                   upsets>>

-----------------------------------------------------------------------------
(* A pass over the secret. *)

\* Mutant: the owner of the file is not looked at.
ValidateNames(s) == state # Nil /\ state.for = s /\ file # Nil

\* The secret still asks for what was written, and the file still has it.
Validate(s) == state # Nil /\ state.for = s /\ file = state.info

ListSecret ==
    /\ pc = "idle"
    /\ pc' = IF Validate(secret) THEN "idle" ELSE "fetch"
    /\ calm' = TRUE
    /\ UNCHANGED <<conf, secret, database, default, got, ret, state, file, seen,
                   upsets>>

Fetch ==
    /\ pc = "fetch"
    /\ got' = secret
    /\ ret' = IF conf.chown THEN default ELSE [uid |-> Self, gid |-> Self]
    /\ pc' = IF conf.chown THEN "owner" ELSE "write"
    /\ UNCHANGED <<conf, secret, database, default, state, file, seen, calm,
                   upsets>>

\* OwnershipValue.
LookOwner ==
    /\ pc = "owner"
    /\ ret' = IF got.owner \in users THEN [ret EXCEPT !.uid = got.owner] ELSE ret
    /\ pc' = "ownerGroup"
    /\ UNCHANGED <<conf, secret, database, default, got, state, file, seen, calm,
                   upsets>>

LookOwnerGroup ==
    /\ pc = "ownerGroup"
    /\ ret' = IF got.group \in groups THEN [ret EXCEPT !.gid = got.group] ELSE ret
    /\ pc' = "write"
    /\ UNCHANGED <<conf, secret, database, default, got, state, file, seen, calm,
                   upsets>>

\* Mutant: the state has no owners.
WriteStateless ==
    /\ pc = "write"
    /\ file' = ret
    /\ state' = [for |-> got]
    /\ pc' = "verify"
    /\ UNCHANGED <<conf, secret, database, default, got, ret, seen, calm, upsets>>

\* WriteFileAtomically, and the state it leads to.
Write ==
    /\ pc = "write"
    /\ file' = ret
    /\ state' = [for |-> got, info |-> ret]
    /\ pc' = "verify"
    /\ UNCHANGED <<conf, secret, database, default, got, ret, seen, calm, upsets>>

WriteFails ==
    /\ pc = "write"
    /\ Upset
    /\ pc' = "idle"
    /\ calm' = FALSE
    /\ UNCHANGED <<conf, secret, database, default, got, ret, state, file, seen>>

Verify ==
    /\ pc = "verify"
    /\ state' = IF Validate(got) THEN state ELSE Nil
    /\ pc' = "idle"
    /\ UNCHANGED <<conf, secret, database, default, got, ret, file, seen, calm,
                   upsets>>

Step ==
    \/ LookUser \/ LookFallbackUser \/ LookGroup \/ LookFallbackGroup
    \/ ListSecret \/ Fetch \/ LookOwner \/ LookOwnerGroup
    \/ Write \/ WriteFails \/ Verify

-----------------------------------------------------------------------------
(* The environment. *)

\* A name can be looked up again, or no longer.
Toggle(S, n) == IF n \in S THEN S \ {n} ELSE S \cup {n}

Directory(n) ==
    /\ Upset
    /\ \/ users' = Toggle(users, n) /\ UNCHANGED groups
       \/ groups' = Toggle(groups, n) /\ UNCHANGED users
    /\ seen' = seen \cup {database'}
    /\ calm' = FALSE
    /\ UNCHANGED <<conf, secret, pc, default, got, ret, state, file>>

Publish ==
    /\ Upset
    /\ secret' \in Secrets
    /\ calm' = FALSE
    /\ UNCHANGED <<conf, database, pc, default, got, ret, state, file, seen>>

\* Another process changes the owners or removes the file.
Tamper ==
    /\ Upset
    /\ file' \in {Zero, Nil}
    /\ calm' = FALSE
    /\ UNCHANGED <<conf, secret, database, pc, default, got, ret, state, seen>>

\* keysync is restarted, or the client's configuration is changed.
Rebuild ==
    /\ Upset
    /\ conf' \in Confs
    /\ pc' = "user"
    /\ default' = Zero /\ ret' = Zero
    /\ got' = Nil /\ state' = Nil
    /\ seen' = {database}
    /\ calm' = FALSE
    /\ UNCHANGED <<secret, database, file>>

OwnershipNext == Step \/ (\E n \in Accounts : Directory(n)) \/ Publish \/ Tamper \/ Rebuild

OwnershipSpec == OwnershipInit /\ [][OwnershipNext]_ownershipVars

-----------------------------------------------------------------------------
(* Properties. *)

\* The reference: the first of a secret's own name, its client's and the
\* global default that can be looked up, or root.  Here each name before the
\* one taken was missing at some moment since the client was built, and the
\* one taken was there.
Justified(S, id, chain, k) ==
    \E i \in 1..4 :
        /\ id = IF i = 4 THEN Root ELSE chain[i]
        /\ i < 4 => \E d \in S : chain[i] \in d[k]
        /\ \A j \in 1..(i - 1) : \E d \in S : chain[j] \notin d[k]

UserChain(name) == <<name, conf.user, conf.defaultUser>>
GroupChain(name) == <<name, conf.group, conf.defaultGroup>>

JustifiedBy(own, s) ==
    IF conf.chown
    THEN /\ Justified(seen, own.uid, UserChain(s.owner), 1)
         /\ Justified(seen, own.gid, GroupChain(s.group), 2)
    ELSE own = [uid |-> Self, gid |-> Self]

\* After a pass that nothing disturbed, so is the ownership of the file, by
\* what the server says of the secret now.
SettledIsJustified ==
    pc = "idle" /\ calm => file # Nil /\ JustifiedBy(file, secret)

\* The inductive invariants: of NewOwnership, whose results are those of a
\* secret without names, and of a pass.
DefaultInv ==
    /\ pc = "fallbackUser" => \E d \in seen : conf.user \notin d[1]
    /\ pc = "fallbackGroup" => \E d \in seen : conf.group \notin d[2]
    /\ pc \notin {"user", "fallbackUser"} =>
         Justified(seen, default.uid, UserChain(Nil), 1)
    /\ pc \notin {"user", "fallbackUser", "group", "fallbackGroup"} =>
         Justified(seen, default.gid, GroupChain(Nil), 2)

OwnerInv ==
    /\ pc \in {"owner", "ownerGroup"} => conf.chown
    /\ pc = "owner" => ret = default
    /\ pc = "ownerGroup" =>
         /\ Justified(seen, ret.uid, UserChain(got.owner), 1)
         /\ ret.gid = default.gid
    /\ pc \in {"write", "verify"} => JustifiedBy(ret, got)
    /\ pc = "verify" => state = [for |-> got, info |-> ret]
    /\ state # Nil => JustifiedBy(state.info, state.for)

CalmInv ==
    calm =>
        /\ pc \notin {"user", "fallbackUser", "group", "fallbackGroup"}
        /\ pc \in {"owner", "ownerGroup", "write", "verify"} => got = secret
        /\ pc = "verify" => file = ret
        /\ pc = "idle" => Validate(secret)

\* "Check on-disk permissions, and ownership against what's configured"
\* (write.go, Validate): after such a pass, with every name there is to look
\* up known now, the file belongs to whom the secret and the client name.
OwnedAsConfigured ==
    LET named == IF secret.owner # Nil THEN secret.owner
                 ELSE IF conf.user # Nil THEN conf.user ELSE conf.defaultUser
    IN  pc = "idle" /\ calm /\ conf.chown /\ named \in users => file.uid = named
=============================================================================
