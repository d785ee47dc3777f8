------------------------------- MODULE Backup -------------------------------
(***************************************************************************)
(* FileBackup.Backup: requests to /backup, which take no mutex, read the   *)
(* directory file by file while keysync writes it, encrypt what they read  *)
(* with a new key each, and write the archive and then the wrapped key.    *)
(* One directory of files stands for SecretsDir: the walk visits the       *)
(* clients' directories one after the other in the same way.               *)
(***************************************************************************)
EXTENDS Naturals

CONSTANTS
    Names,      \* files, temporary ones among them
    Versions,   \* contents with their attributes
    SizeOf,     \* the size of each version
    Requests,   \* goroutines of requests to /backup
    None,       \* no file, no archive, no key
    MaxKeys,    \* bound on the backups that get as far as a key
    MaxUpsets   \* bound on everything the environment does

ASSUME BackupAssumption ==
    /\ SizeOf \in [Versions -> Nat]
    /\ None \notin Versions \cup Names
    /\ MaxKeys \in Nat /\ MaxUpsets \in Nat

Keys == 1..MaxKeys

\* A tar entry has its header from lstat and its body from the open file.
Entries == [head : Versions, body : Versions]

ASSUME EntryAssumption == None \notin Entries \cup Nat

Tars == [Names -> Entries \cup {None}]
Directories == [Names -> Versions \cup {None}]
Archives == [tar : Tars, key : Keys]

ASSUME ArchiveAssumption == None \notin Archives

VARIABLES
    secrets,    \* the files in SecretsDir
    pc,         \* where each request is
    todo,       \* the names it has listed and not visited yet
    file,       \* the name it is visiting
    head,       \* what lstat said of it
    tar,        \* the archive in the making
    key,        \* the key it is encrypted with
    keys,       \* how many keys have been drawn, each a new one
    archive,    \* the file BackupPath, or None
    keyFile,    \* the key wrapped in BackupKeyPath, or None
    alone,      \* history: requests that have met no other
    fits,       \* history: the last writer was alone, and finished
    saw,        \* history: every state of secrets since a request began
    archiveSaw, \* history: the same for the request that wrote archive
    upsets

walk == <<todo, file, head, tar>>
vars == <<secrets, pc, walk, key, keys, archive, keyFile, alone, fits, saw,
          archiveSaw, upsets>>

TypeOK ==
    /\ secrets \in Directories
    /\ pc \in [Requests -> {"idle", "walk", "open", "archive", "key"}]
    /\ todo \in [Requests -> SUBSET Names]
    /\ file \in [Requests -> Names \cup {None}]
    /\ head \in [Requests -> Versions \cup {None}]
    /\ tar \in [Requests -> Tars]
    /\ key \in [Requests -> Keys \cup {None}]
    /\ \A r \in Requests :
         /\ pc[r] = "open" => file[r] # None /\ head[r] # None
         /\ pc[r] \in {"archive", "key"} => key[r] # None
    /\ keys \in 0..MaxKeys
    /\ archive \in Archives \cup {None}
    /\ keyFile \in Keys \cup {None}
    /\ alone \subseteq Requests
    /\ fits \in BOOLEAN
    /\ saw \in [Requests -> SUBSET Directories]
    /\ archiveSaw \subseteq Directories
    /\ upsets \in Nat

NoTar == [n \in Names |-> None]

AllNone == [r \in Requests |-> None]

Init ==
    /\ pc = [r \in Requests |-> "idle"]
    /\ todo = [r \in Requests |-> {}]
    /\ file = AllNone /\ head = AllNone
    /\ tar = [r \in Requests |-> NoTar]
    /\ key = AllNone
    /\ saw = [r \in Requests |-> {}]
    /\ alone = {}
    /\ secrets \in Directories
    /\ keys = 0
    /\ archive = None /\ keyFile = None
    /\ fits = FALSE
    /\ archiveSaw = {}
    /\ upsets = 0

Upset ==
    /\ upsets < MaxUpsets
    /\ upsets' = upsets + 1

Active == {r \in Requests : pc[r] # "idle"}

-----------------------------------------------------------------------------
(* createTar. *)

\* filepath.Walk lists the directory.
Start(r) ==
    /\ pc[r] = "idle" /\ keys < MaxKeys
    /\ pc' = [pc EXCEPT ![r] = "walk"]
    /\ todo' = [todo EXCEPT ![r] = {n \in Names : secrets[n] # None}]
    /\ tar' = [tar EXCEPT ![r] = NoTar]
    /\ alone' = IF Active = {} THEN {r} ELSE {}
    /\ saw' = [saw EXCEPT ![r] = {secrets}]
    /\ UNCHANGED <<secrets, file, head, key, keys, archive, keyFile, fits,
                   archiveSaw, upsets>>

\* Then it calls lstat on each name, in any order here.
Lstat(r, n) ==
    /\ pc[r] = "walk" /\ n \in todo[r]
    /\ secrets[n] # None
    /\ pc' = [pc EXCEPT ![r] = "open"]
    /\ file' = [file EXCEPT ![r] = n]
    /\ head' = [head EXCEPT ![r] = secrets[n]]
    /\ UNCHANGED <<secrets, todo, tar, key, keys, archive, keyFile, alone,
                   fits, saw, archiveSaw, upsets>>

\* Mutant: a file that is gone ends the walk without an error.
LstatStops(r, n) ==
    /\ pc[r] = "walk" /\ n \in todo[r]
    /\ secrets[n] = None
    /\ todo' = [todo EXCEPT ![r] = {}]
    /\ UNCHANGED <<secrets, pc, file, head, tar, key, keys, archive, keyFile,
                   alone, fits, saw, archiveSaw, upsets>>

\* A request is answered, and what it knew is gone.
Return(r) ==
    /\ pc' = [pc EXCEPT ![r] = "idle"]
    /\ todo' = [todo EXCEPT ![r] = {}]
    /\ file' = [file EXCEPT ![r] = None]
    /\ head' = [head EXCEPT ![r] = None]
    /\ tar' = [tar EXCEPT ![r] = NoTar]
    /\ key' = [key EXCEPT ![r] = None]
    /\ saw' = [saw EXCEPT ![r] = {}]
    /\ alone' = alone \ {r}

\* The answer is an error.
Fail(r) ==
    /\ Return(r)
    /\ UNCHANGED <<secrets, keys, archive, keyFile, fits, archiveSaw>>

\* The file is gone, or the call fails for another reason.
LstatFails(r, n) ==
    /\ pc[r] = "walk" /\ n \in todo[r]
    /\ \/ secrets[n] = None /\ UNCHANGED upsets
       \/ secrets[n] # None /\ Upset
    /\ Fail(r)

\* The tar writer takes the body if it is as long as the header says.
SameSize(v, w) == SizeOf[v] = SizeOf[w]

\* The file is opened and copied; who replaces it leaves the open one alone.
CanCopy(r) ==
    /\ secrets[file[r]] # None
    /\ SameSize(head[r], secrets[file[r]])

\* Mutant: the requests share one buffer for the archive.
CopyShared(r) ==
    /\ pc[r] = "open"
    /\ CanCopy(r)
    /\ pc' = [pc EXCEPT ![r] = "walk"]
    /\ todo' = [todo EXCEPT ![r] = @ \ {file[r]}]
    /\ tar' = [q \in Requests |-> [tar[q] EXCEPT ![file[r]] =
                  [head |-> head[r], body |-> secrets[file[r]]]]]
    /\ file' = [file EXCEPT ![r] = None]
    /\ head' = [head EXCEPT ![r] = None]
    /\ UNCHANGED <<secrets, key, keys, archive, keyFile, alone,
                   fits, saw, archiveSaw, upsets>>

Copy(r) ==
    /\ pc[r] = "open"
    /\ CanCopy(r)
    /\ pc' = [pc EXCEPT ![r] = "walk"]
    /\ todo' = [todo EXCEPT ![r] = @ \ {file[r]}]
    /\ tar' = [tar EXCEPT ![r][file[r]] =
                  [head |-> head[r], body |-> secrets[file[r]]]]
    /\ file' = [file EXCEPT ![r] = None]
    /\ head' = [head EXCEPT ![r] = None]
    /\ UNCHANGED <<secrets, key, keys, archive, keyFile, alone,
                   fits, saw, archiveSaw, upsets>>

CopyFails(r) ==
    /\ pc[r] = "open"
    /\ \/ ~CanCopy(r) /\ UNCHANGED upsets
       \/ CanCopy(r) /\ Upset
    /\ Fail(r)

-----------------------------------------------------------------------------
(* Encryption and the two files, each written by WriteFileAtomically. *)

\* Mutant: the error of the random numbers' source is ignored.
EncryptNoKey(r) ==
    /\ pc[r] = "walk" /\ todo[r] = {}
    /\ keys < MaxKeys
    /\ keys' = keys + 1
    /\ pc' = [pc EXCEPT ![r] = "archive"]
    /\ UNCHANGED <<secrets, walk, key, archive, keyFile, alone, fits, saw,
                   archiveSaw, upsets>>

Encrypt(r) ==
    /\ pc[r] = "walk" /\ todo[r] = {}
    /\ keys < MaxKeys
    /\ keys' = keys + 1
    /\ key' = [key EXCEPT ![r] = keys + 1]
    /\ pc' = [pc EXCEPT ![r] = "archive"]
    /\ UNCHANGED <<secrets, walk, archive, keyFile, alone, fits, saw,
                   archiveSaw, upsets>>

WriteArchive(r) ==
    /\ pc[r] = "archive"
    /\ archive' = [tar |-> tar[r], key |-> key[r]]
    /\ archiveSaw' = saw[r]
    /\ fits' = FALSE
    /\ pc' = [pc EXCEPT ![r] = "key"]
    /\ UNCHANGED <<secrets, walk, key, keys, keyFile, alone, saw, upsets>>

\* Mutant: a key file that is there is kept.
WriteKeyOnce(r) ==
    /\ pc[r] = "key"
    /\ keyFile' = IF keyFile = None THEN key[r] ELSE keyFile
    /\ fits' = (r \in alone)
    /\ Return(r)
    /\ UNCHANGED <<secrets, keys, archive, archiveSaw, upsets>>

WriteKey(r) ==
    /\ pc[r] = "key"
    /\ keyFile' = key[r]
    /\ fits' = (r \in alone)
    /\ Return(r)
    /\ UNCHANGED <<secrets, keys, archive, archiveSaw, upsets>>

WriteFails(r) ==
    /\ pc[r] \in {"archive", "key"}
    /\ Upset
    /\ Fail(r)

-----------------------------------------------------------------------------
(* The environment. *)

\* keysync writes, replaces or removes a file.
Change(n, v) ==
    /\ Upset
    /\ secrets' = [secrets EXCEPT ![n] = v]
    /\ saw' = [r \in Requests |->
          IF pc[r] = "idle" THEN saw[r] ELSE saw[r] \cup {secrets'}]
    /\ UNCHANGED <<pc, walk, key, keys, archive, keyFile, alone, fits,
                   archiveSaw>>

Crash ==
    /\ Upset
    /\ pc' = [r \in Requests |-> "idle"]
    /\ todo' = [r \in Requests |-> {}]
    /\ file' = AllNone /\ head' = AllNone
    /\ tar' = [r \in Requests |-> NoTar]
    /\ key' = AllNone
    /\ saw' = [r \in Requests |-> {}]
    /\ alone' = {}
    /\ UNCHANGED <<secrets, keys, archive, keyFile, fits, archiveSaw>>

Step(r) ==
    \/ Start(r) \/ Copy(r) \/ CopyFails(r) \/ Encrypt(r)
    \/ WriteArchive(r) \/ WriteKey(r) \/ WriteFails(r)
    \/ \E n \in Names : Lstat(r, n) \/ LstatFails(r, n)

Next ==
    \/ \E r \in Requests : Step(r)
    \/ \E n \in Names, v \in Versions \cup {None} : Change(n, v)
    \/ Crash

Spec == Init /\ [][Next]_vars

-----------------------------------------------------------------------------
(* Properties. *)

\* What the archive holds was in the directory during the walk of the request
\* that wrote it, whatever other requests read and write at the same time:
\* attributes and contents of each file, which may be of two versions.
EntriesWereThere ==
    archive # None =>
        \A n \in Names : archive.tar[n] # None =>
            /\ \E d \in archiveSaw : d[n] = archive.tar[n].head
            /\ \E d \in archiveSaw : d[n] = archive.tar[n].body

\* A file that nobody touched meanwhile is in the archive as it is, and one
\* that was never there is not, whatever happened to the others.
Archived(t, n, v) == t[n] = IF v = None THEN None ELSE [head |-> v, body |-> v]

UntouchedIsArchived ==
    archive # None =>
        \A n \in Names, v \in Versions \cup {None} :
            (\A d \in archiveSaw : d[n] = v) => Archived(archive.tar, n, v)

\* A backup that met no other, no crash and no failed write leaves an archive
\* and its key, and they stay until the next archive is written.
AloneFits == fits => archive # None /\ keyFile = archive.key

\* "write wrapped key encrypting the backup to this location" (config.go,
\* BackupKeyPath): when no request is under way, the key is of the archive.
KeyFitsArchive == Active = {} /\ archive # None => keyFile = archive.key

-----------------------------------------------------------------------------
(* The inductive invariant. *)

\* The walk of a request: what it has so far, and has yet to visit.
WalkInv(r) ==
    /\ pc[r] # "idle" => secrets \in saw[r]
    /\ pc[r] = "open" => /\ file[r] \in todo[r] /\ head[r] # None
                         /\ \E d \in saw[r] : d[file[r]] = head[r]
    /\ pc[r] \in {"archive", "key"} => todo[r] = {}
    /\ pc[r] # "idle" => \A n \in Names :
         /\ tar[r][n] # None =>
              /\ \E d \in saw[r] : d[n] = tar[r][n].head
              /\ \E d \in saw[r] : d[n] = tar[r][n].body
         /\ n \in todo[r] => tar[r][n] = None /\ \E d \in saw[r] : d[n] # None
         /\ n \notin todo[r] => \A v \in Versions \cup {None} :
              (\A d \in saw[r] : d[n] = v) => Archived(tar[r], n, v)

KeyInv(r) ==
    /\ pc[r] = "key" /\ r \in alone => archive # None /\ archive.key = key[r]
    /\ pc[r] # "idle" /\ r \in alone => Active = {r}

BackupInv ==
    /\ \A r \in Requests : WalkInv(r) /\ KeyInv(r)
    /\ EntriesWereThere /\ UntouchedIsArchived /\ AloneFits
=============================================================================
