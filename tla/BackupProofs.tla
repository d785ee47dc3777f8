---------------------------- MODULE BackupProofs ----------------------------
(***************************************************************************)
(* Proofs about Backup, for any number of files, versions and requests.    *)
(***************************************************************************)
EXTENDS Backup, TLAPS

USE BackupAssumption, EntryAssumption, ArchiveAssumption

\* A request's local variables, and those of the others.
Locals(r) == <<pc[r], todo[r], file[r], head[r], tar[r], key[r], saw[r]>>

LocalTypes ==
    /\ pc \in [Requests -> {"idle", "walk", "open", "archive", "key"}]
    /\ todo \in [Requests -> SUBSET Names]
    /\ file \in [Requests -> Names \cup {None}]
    /\ head \in [Requests -> Versions \cup {None}]
    /\ tar \in [Requests -> Tars]
    /\ key \in [Requests -> Keys \cup {None}]
    /\ saw \in [Requests -> SUBSET Directories]
    /\ \A r \in Requests :
         /\ pc[r] = "open" => file[r] # None /\ head[r] # None
         /\ pc[r] \in {"archive", "key"} => key[r] # None

\* Each request changes its own local variables only.
LEMMA OthersLocals ==
    ASSUME TypeOK, NEW r \in Requests, Step(r), NEW q \in Requests, q # r
    PROVE  /\ UNCHANGED Locals(q) /\ UNCHANGED secrets
           /\ UNCHANGED <<pc[q], todo[q], file[q], head[q], tar[q], key[q], saw[q]>>
<1> USE DEF TypeOK, Locals, walk
<1>1. CASE Start(r)
  BY <1>1 DEF Start
<1>2. CASE Copy(r)
  BY <1>2 DEF Copy
<1>3. CASE CopyFails(r)
  BY <1>3 DEF CopyFails, Fail, Return
<1>4. CASE Encrypt(r)
  BY <1>4 DEF Encrypt
<1>5. CASE WriteArchive(r)
  BY <1>5 DEF WriteArchive
<1>6. CASE WriteKey(r)
  BY <1>6 DEF WriteKey, Return
<1>7. CASE WriteFails(r)
  BY <1>7 DEF WriteFails, Fail, Return
<1>8. ASSUME NEW n \in Names, Lstat(r, n)
      PROVE  UNCHANGED Locals(q) /\ UNCHANGED secrets
  BY <1>8 DEF Lstat
<1>9. ASSUME NEW n \in Names, LstatFails(r, n)
      PROVE  UNCHANGED Locals(q) /\ UNCHANGED secrets
  BY <1>9 DEF LstatFails, Fail, Return
<1> QED
  BY <1>1, <1>2, <1>3, <1>4, <1>5, <1>6, <1>7, <1>8, <1>9 DEF Step

-----------------------------------------------------------------------------
(* Types. *)

LEMMA TypeInit == Init => TypeOK
<1> SUFFICES ASSUME Init
             PROVE  TypeOK
  OBVIOUS
<1>1. NoTar \in Tars
  BY DEF NoTar, Tars
<1>2. fits \in BOOLEAN
  BY Zenon DEF Init
<1>3. LocalTypes
  BY <1>1 DEF Init, AllNone, LocalTypes
<1> QED
  BY <1>2, <1>3 DEF Init, TypeOK, LocalTypes

LEMMA ReturnTypes ==
    ASSUME TypeOK, NEW r \in Requests, Return(r)
    PROVE  LocalTypes' /\ alone' \subseteq Requests
<1>1. NoTar \in Tars
  BY DEF NoTar, Tars
<1> QED
  BY <1>1 DEF Return, TypeOK, LocalTypes

LEMMA FitsStep == TypeOK /\ [Next]_vars => fits' \in BOOLEAN
<1> SUFFICES ASSUME TypeOK, [Next]_vars
             PROVE  fits' \in BOOLEAN
  OBVIOUS
<1>1. ASSUME NEW r \in Requests, Step(r)
      PROVE  fits' \in BOOLEAN
  <2>1. fits' \in {fits, FALSE, (r \in alone)}
    BY <1>1, Zenon DEF Step, Start, Lstat, LstatFails, Copy, CopyFails, Fail,
                       Encrypt, WriteArchive, WriteKey, WriteFails
  <2>2. (r \in alone) \in BOOLEAN
    <3>1. CASE r \in alone
      <4>1. (r \in alone) = TRUE
        BY <3>1
      <4> QED
        BY <4>1, Zenon
    <3>2. CASE r \notin alone
      <4>1. (r \in alone) = FALSE
        BY <3>2
      <4> QED
        BY <4>1, Zenon
    <3> QED
      BY <3>1, <3>2, Zenon
  <2>3. fits \in BOOLEAN /\ FALSE \in BOOLEAN
    BY Zenon DEF TypeOK
  <2>4. fits' = fits \/ fits' = FALSE \/ fits' = (r \in alone)
    BY <2>1, Zenon
  <2> QED
    BY <2>2, <2>3, <2>4, Zenon
<1> QED
  BY <1>1, Zenon DEF TypeOK, Next, Change, Crash, vars

LEMMA StepTypes ==
    ASSUME TypeOK, NEW r \in Requests, Step(r)
    PROVE  /\ LocalTypes' /\ alone' \subseteq Requests
           /\ keys' \in 0..MaxKeys
           /\ archive' \in Archives \cup {None}
           /\ keyFile' \in Keys \cup {None}
           /\ archiveSaw' \subseteq Directories
           /\ upsets' \in Nat
           /\ secrets' = secrets
<1>1. CASE Start(r)
  <2>1. NoTar \in Tars
    BY DEF NoTar, Tars
  <2>2. tar' \in [Requests -> Tars]
    BY <1>1, <2>1 DEF Start, TypeOK
  <2>3. saw' \in [Requests -> SUBSET Directories]
    BY <1>1 DEF Start, TypeOK
  <2>4. todo' \in [Requests -> SUBSET Names]
    BY <1>1 DEF Start, TypeOK
  <2> QED
    BY <1>1, <2>2, <2>3, <2>4 DEF Start, TypeOK, LocalTypes
<1>2. CASE Copy(r)
  <2>1. file[r] \in Names \cup {None}
    BY DEF TypeOK
  <2>2. head[r] \in Versions \cup {None} /\ tar[r] \in Tars
    BY DEF TypeOK
  <2>3. tar' \in [Requests -> Tars]
    <3> DEFINE e == [head |-> head[r], body |-> secrets[file[r]]]
    <3>1. file[r] \in Names /\ head[r] # None
      BY <1>2, <2>1 DEF Copy, TypeOK
    <3>2. tar' \in [Requests -> Tars]
      <4>1. e \in Entries
        BY <1>2, <2>2, <3>1 DEF Copy, CanCopy, TypeOK, Directories, Entries
      <4>2. [tar[r] EXCEPT ![file[r]] = e] \in Tars
        BY <2>2, <4>1 DEF Tars
      <4>3. tar' = [tar EXCEPT ![r] = [tar[r] EXCEPT ![file[r]] = e]]
        BY <1>2 DEF Copy
      <4> QED
        BY <4>2, <4>3 DEF TypeOK
    <3> QED
      BY <3>2
  <2> QED
    BY <1>2, <2>3 DEF Copy, TypeOK, LocalTypes
<1>3. CASE CopyFails(r)
  <2>1. upsets' \in Nat
    BY <1>3 DEF CopyFails, Upset, TypeOK
  <2> QED
    BY <1>3, <2>1, ReturnTypes DEF CopyFails, Fail, TypeOK
<1>4. CASE Encrypt(r)
  <2>1. keys + 1 \in Keys /\ keys + 1 \in 0..MaxKeys
    BY <1>4 DEF Encrypt, TypeOK, Keys
  <2>2. key' \in [Requests -> Keys \cup {None}]
    BY <1>4, <2>1 DEF Encrypt, TypeOK
  <2> QED
    BY <1>4, <2>1, <2>2 DEF Encrypt, walk, TypeOK, LocalTypes
<1>5. CASE WriteArchive(r)
  <2>1. key[r] \in Keys /\ tar[r] \in Tars
    BY <1>5 DEF WriteArchive, TypeOK
  <2>2. archive' \in Archives
    BY <1>5, <2>1 DEF WriteArchive, Archives
  <2> QED
    BY <1>5, <2>2 DEF WriteArchive, walk, TypeOK, LocalTypes
<1>6. CASE WriteKey(r)
  BY <1>6, ReturnTypes DEF WriteKey, TypeOK
<1>7. CASE WriteFails(r)
  BY <1>7, ReturnTypes DEF WriteFails, Upset, Fail, TypeOK
<1>8. ASSUME NEW n \in Names, Lstat(r, n)
      PROVE  LocalTypes'
  BY <1>8 DEF Lstat, TypeOK, LocalTypes, Directories
<1>9. ASSUME NEW n \in Names, LstatFails(r, n)
      PROVE  LocalTypes' /\ alone' \subseteq Requests /\ upsets' \in Nat
  <2>1. upsets' \in Nat
    BY <1>9 DEF LstatFails, Upset, TypeOK
  <2> QED
    BY <1>9, <2>1, ReturnTypes DEF LstatFails, Fail
<1> QED
  BY <1>1, <1>2, <1>3, <1>4, <1>5, <1>6, <1>7, <1>8, <1>9
  DEF Step, Lstat, LstatFails, Fail, TypeOK

LEMMA TypeStep == TypeOK /\ [Next]_vars => TypeOK'
<1> SUFFICES ASSUME TypeOK, [Next]_vars
             PROVE  TypeOK'
  OBVIOUS
<1>0. fits' \in BOOLEAN
  BY FitsStep
<1>1. ASSUME NEW r \in Requests, Step(r)
      PROVE  TypeOK'
  <2>1. secrets' \in Directories
    BY <1>1, StepTypes DEF TypeOK
  <2> QED
    BY <1>0, <1>1, <2>1, StepTypes DEF TypeOK, LocalTypes
<1>2. ASSUME NEW n \in Names, NEW v \in Versions \cup {None}, Change(n, v)
      PROVE  TypeOK'
  <2>1. secrets' \in Directories
    BY <1>2 DEF Change, TypeOK, Directories
  <2>2. saw' \in [Requests -> SUBSET Directories]
    BY <1>2, <2>1 DEF Change, TypeOK
  <2>3. upsets' \in Nat
    BY <1>2 DEF Change, Upset, TypeOK
  <2> QED
    BY <1>0, <1>2, <2>1, <2>2, <2>3 DEF Change, walk, TypeOK
<1>3. CASE Crash
  <2>1. NoTar \in Tars
    BY DEF NoTar, Tars
  <2>2. LocalTypes'
    BY <1>3, <2>1 DEF Crash, AllNone, LocalTypes
  <2>3. upsets' \in Nat
    BY <1>3 DEF Crash, Upset, TypeOK
  <2> QED
    BY <1>0, <1>3, <2>2, <2>3 DEF Crash, TypeOK, LocalTypes
<1>4. CASE UNCHANGED vars
  BY <1>0, <1>4 DEF vars, walk, TypeOK
<1> QED
  BY <1>1, <1>2, <1>3, <1>4 DEF Next

\* Archives and keys are whole, and a key is drawn before it is used.
THEOREM TypeCorrect == Spec => []TypeOK
BY TypeInit, TypeStep, PTL DEF Spec

-----------------------------------------------------------------------------
(* The walk. *)

\* What another request does leaves a walk as it is.
LEMMA WalkFrame ==
    ASSUME NEW q \in Requests, WalkInv(q), UNCHANGED secrets,
           UNCHANGED <<pc[q], todo[q], file[q], head[q], tar[q], key[q], saw[q]>>
    PROVE  WalkInv(q)'
BY DEF WalkInv, Archived

\* A request that has returned has nothing to show.
LEMMA WalkReturned ==
    ASSUME TypeOK, NEW r \in Requests, Return(r)
    PROVE  WalkInv(r)' /\ pc'[r] = "idle"
BY DEF WalkInv, Return, TypeOK

\* The request's own step.
LEMMA WalkOwn ==
    ASSUME TypeOK, NEW r \in Requests, WalkInv(r), Step(r)
    PROVE  WalkInv(r)'
<1>1. CASE Start(r)
  <2>1. /\ saw'[r] = {secrets} /\ secrets' = secrets /\ pc'[r] = "walk"
        /\ todo'[r] = {n \in Names : secrets[n] # None}
        /\ \A n \in Names : tar'[r][n] = None
    BY <1>1 DEF Start, TypeOK, NoTar
  <2> QED
    BY <2>1 DEF WalkInv, Archived
<1>2. CASE Copy(r)
  <2> DEFINE f == file[r]
             e == [head |-> head[r], body |-> secrets[f]]
  <2>1. /\ pc[r] = "open" /\ pc'[r] = "walk" /\ f \in Names /\ f \in todo[r]
        /\ todo'[r] = todo[r] \ {f} /\ saw'[r] = saw[r] /\ secrets' = secrets
        /\ secrets \in saw[r] /\ secrets[f] # None
        /\ head[r] # None /\ \E d \in saw[r] : d[f] = head[r]
    BY <1>2 DEF Copy, CanCopy, TypeOK, WalkInv
  <2>2. \A n \in Names : tar'[r][n] = IF n = f THEN e ELSE tar[r][n]
    <3>1. tar' = [tar EXCEPT ![r] = [tar[r] EXCEPT ![f] = e]]
      BY <1>2 DEF Copy
    <3>2. tar[r] \in Tars
      BY DEF TypeOK
    <3>3. tar'[r] = [tar[r] EXCEPT ![f] = e]
      BY <3>1 DEF TypeOK
    <3> QED
      BY <3>2, <3>3 DEF Tars
  <2> HIDE DEF f
  <2>3. e.head = head[r] /\ e.body = secrets[f]
    OBVIOUS
  <2>4. \A v : (\A d \in saw[r] : d[f] = v) => v # None /\ e = [head |-> v, body |-> v]
    BY <2>1
  <2> HIDE DEF e
  <2>5. ASSUME NEW n \in Names
        PROVE  /\ tar'[r][n] # None =>
                    /\ \E d \in saw[r] : d[n] = tar'[r][n].head
                    /\ \E d \in saw[r] : d[n] = tar'[r][n].body
               /\ n \in todo'[r] => tar'[r][n] = None /\ \E d \in saw[r] : d[n] # None
               /\ n \notin todo'[r] => \A v \in Versions \cup {None} :
                    (\A d \in saw[r] : d[n] = v) => Archived(tar'[r], n, v)
    <3>1. CASE n = f
      <4>1. tar'[r][n] = e
        BY <2>2, <3>1
      <4> QED
        BY <2>1, <2>3, <2>4, <3>1, <4>1 DEF Archived
    <3>2. CASE n # f
      <4>1. tar'[r][n] = tar[r][n] /\ (n \in todo'[r] <=> n \in todo[r])
        BY <2>1, <2>2, <3>2
      <4> QED
        BY <2>1, <4>1 DEF WalkInv, Archived
    <3> QED
      BY <3>1, <3>2
  <2> QED
    BY <2>1, <2>5 DEF WalkInv
<1>3. CASE CopyFails(r)
  BY <1>3, WalkReturned DEF CopyFails, Fail
<1>4. CASE Encrypt(r)
  <2>1. /\ pc[r] = "walk" /\ todo[r] = {} /\ pc'[r] = "archive"
        /\ UNCHANGED <<secrets, todo, tar, saw>>
    BY <1>4 DEF Encrypt, walk, TypeOK
  <2> QED
    BY <2>1 DEF WalkInv, Archived
<1>5. CASE WriteArchive(r)
  <2>1. /\ pc[r] = "archive" /\ pc'[r] = "key"
        /\ UNCHANGED <<secrets, todo, tar, saw>>
    BY <1>5 DEF WriteArchive, walk, TypeOK
  <2> QED
    BY <2>1 DEF WalkInv, Archived
<1>6. CASE WriteKey(r)
  BY <1>6, WalkReturned DEF WriteKey
<1>7. CASE WriteFails(r)
  BY <1>7, WalkReturned DEF WriteFails, Fail
<1>8. ASSUME NEW n \in Names, Lstat(r, n)
      PROVE  WalkInv(r)'
  <2>1. /\ pc[r] = "walk" /\ n \in todo[r] /\ pc'[r] = "open"
        /\ file'[r] = n /\ head'[r] = secrets[n] /\ secrets[n] # None
        /\ UNCHANGED <<secrets, todo, tar, saw>>
    BY <1>8 DEF Lstat, TypeOK
  <2> QED
    BY <2>1 DEF WalkInv, Archived
<1>9. ASSUME NEW n \in Names, LstatFails(r, n)
      PROVE  WalkInv(r)'
  BY <1>9, WalkReturned DEF LstatFails, Fail
<1> QED
  BY <1>1, <1>2, <1>3, <1>4, <1>5, <1>6, <1>7, <1>8, <1>9 DEF Step

\* keysync's change is one more state that an active request has seen.
LEMMA WalkChange ==
    ASSUME TypeOK, NEW q \in Requests, WalkInv(q),
           NEW n \in Names, NEW v \in Versions \cup {None}, Change(n, v)
    PROVE  WalkInv(q)'
<1>1. CASE pc[q] = "idle"
  BY <1>1 DEF Change, walk, WalkInv
<1>2. CASE pc[q] # "idle"
  <2>1. /\ saw'[q] = saw[q] \cup {secrets'}
        /\ UNCHANGED <<pc, todo, file, head, tar>>
    BY <1>2 DEF Change, walk
  <2> QED
    BY <1>2, <2>1 DEF WalkInv, Archived
<1> QED
  BY <1>1, <1>2

-----------------------------------------------------------------------------
(* Keys, the two files and what the archive says. *)

\* The part of BackupInv that speaks of what is on disk.
DiskInv ==
    /\ \A r \in Requests : KeyInv(r)
    /\ EntriesWereThere /\ UntouchedIsArchived /\ AloneFits

LEMMA InvParts == BackupInv <=> (\A r \in Requests : WalkInv(r)) /\ DiskInv
BY DEF BackupInv, DiskInv

\* A step that leaves the disk alone and draws no key.
LEMMA DiskFrame ==
    ASSUME TypeOK, DiskInv, UNCHANGED <<archive, keyFile, archiveSaw, keys, fits>>,
           alone' \subseteq alone,
           \A q \in Requests :
               \/ pc'[q] = "idle"
               \/ /\ key'[q] = key[q] /\ pc[q] # "idle"
                  /\ pc'[q] \in {"archive", "key"} => pc'[q] = pc[q]
    PROVE  DiskInv'
<1>1. EntriesWereThere' /\ UntouchedIsArchived' /\ AloneFits'
  BY DEF DiskInv, EntriesWereThere, UntouchedIsArchived, AloneFits, Archived
<1>2. ASSUME NEW r \in Requests
      PROVE  KeyInv(r)'
  <2>1. Active' \subseteq Active
    BY DEF Active
  <2>2. pc'[r] # "idle" /\ r \in alone' => Active' = {r}
    BY <2>1 DEF DiskInv, KeyInv, Active
  <2> QED
    BY <2>2 DEF DiskInv, KeyInv
<1> QED
  BY <1>1, <1>2 DEF DiskInv

LEMMA DiskStep ==
    ASSUME TypeOK, BackupInv, NEW r \in Requests, Step(r)
    PROVE  DiskInv'
<1> DiskInv /\ WalkInv(r)
  BY InvParts
<1>o. \A q \in Requests \ {r} : pc'[q] = pc[q] /\ key'[q] = key[q]
  BY OthersLocals
<1>1. CASE Start(r)
  <2>1. /\ pc[r] = "idle" /\ pc'[r] = "walk" /\ key' = key
        /\ alone' = IF Active = {} THEN {r} ELSE {}
        /\ UNCHANGED <<archive, keyFile, archiveSaw, keys, fits>>
    BY <1>1 DEF Start, TypeOK
  <2>2. EntriesWereThere' /\ UntouchedIsArchived' /\ AloneFits'
    BY <2>1 DEF DiskInv, EntriesWereThere, UntouchedIsArchived, AloneFits, Archived
  <2>3. ASSUME NEW q \in Requests
        PROVE  KeyInv(q)'
    <3>1. q \in alone' => q = r /\ Active' = {r}
      BY <1>o, <2>1 DEF Active
    <3> QED
      BY <1>o, <2>1, <3>1 DEF DiskInv, KeyInv
  <2> QED
    BY <2>1, <2>2, <2>3 DEF DiskInv
<1>2. CASE Encrypt(r)
  <2>1. /\ pc[r] = "walk" /\ pc'[r] = "archive"
        /\ UNCHANGED <<archive, keyFile, archiveSaw, alone, fits>>
    BY <1>2 DEF Encrypt, TypeOK
  <2>2. EntriesWereThere' /\ UntouchedIsArchived' /\ AloneFits'
    BY <2>1 DEF DiskInv, EntriesWereThere, UntouchedIsArchived, AloneFits, Archived
  <2>3. ASSUME NEW q \in Requests
        PROVE  KeyInv(q)'
    <3>1. Active' = Active
      BY <1>o, <2>1 DEF Active
    <3> QED
      BY <1>o, <2>1, <3>1 DEF DiskInv, KeyInv
  <2> QED
    BY <2>2, <2>3 DEF DiskInv
<1>3. CASE WriteArchive(r)
  <2>1. /\ pc[r] = "archive" /\ pc'[r] = "key" /\ todo[r] = {}
        /\ archive' = [tar |-> tar[r], key |-> key[r]]
        /\ archiveSaw' = saw[r] /\ fits' = FALSE
        /\ UNCHANGED <<key, keys, alone>>
    BY <1>3 DEF WriteArchive, TypeOK, WalkInv
  <2>2. archive'.tar = tar[r] /\ archive'.key = key[r] /\ archive' # None
    <3>1. key[r] \in Keys /\ tar[r] \in Tars
      BY <2>1 DEF TypeOK
    <3>2. archive' \in Archives
      BY <2>1, <3>1 DEF Archives
    <3> QED
      BY <2>1, <3>2
  <2>3. EntriesWereThere' /\ UntouchedIsArchived'
    BY <2>1, <2>2 DEF WalkInv, EntriesWereThere, UntouchedIsArchived, Archived
  <2>4. AloneFits'
    BY <2>1 DEF AloneFits
  <2>5. ASSUME NEW q \in Requests
        PROVE  KeyInv(q)'
    <3>1. Active' = Active /\ r \in Active
      BY <1>o, <2>1 DEF Active
    <3>2. q # r /\ pc[q] # "idle" => q \notin alone
      BY <3>1 DEF DiskInv, KeyInv
    <3> QED
      BY <1>o, <2>1, <2>2, <3>1, <3>2 DEF DiskInv, KeyInv
  <2> QED
    BY <2>3, <2>4, <2>5 DEF DiskInv
<1>4. CASE WriteKey(r)
  <2>1. /\ pc[r] = "key" /\ pc'[r] = "idle" /\ keyFile' = key[r]
        /\ fits' = (r \in alone) /\ alone' = alone \ {r}
        /\ UNCHANGED <<keys, archive, archiveSaw>>
    BY <1>4 DEF WriteKey, Return, TypeOK
  <2>2. EntriesWereThere' /\ UntouchedIsArchived'
    BY <2>1 DEF DiskInv, EntriesWereThere, UntouchedIsArchived, Archived
  <2>3. AloneFits'
    BY <2>1 DEF AloneFits, DiskInv, KeyInv
  <2>4. ASSUME NEW q \in Requests
        PROVE  KeyInv(q)'
    <3>1. Active' \subseteq Active /\ r \in Active
      BY <1>o, <2>1 DEF Active
    <3>2. q # r /\ pc[q] # "idle" => q \notin alone
      BY <3>1 DEF DiskInv, KeyInv
    <3> QED
      BY <1>o, <2>1, <3>2 DEF DiskInv, KeyInv
  <2> QED
    BY <2>1, <2>2, <2>3, <2>4 DEF DiskInv
<1>5. CASE CopyFails(r) \/ WriteFails(r) \/ \E n \in Names : LstatFails(r, n)
  <2>1. Fail(r)
    BY <1>5 DEF CopyFails, WriteFails, LstatFails
  <2>2. /\ UNCHANGED <<archive, keyFile, archiveSaw, keys, fits>>
        /\ alone' \subseteq alone /\ pc'[r] = "idle"
    BY <2>1, WalkReturned DEF Fail, Return
  <2> QED
    BY <1>o, <2>2, DiskFrame
<1>6. CASE Copy(r)
  <2>1. /\ UNCHANGED <<archive, keyFile, archiveSaw, keys, fits, alone, key>>
        /\ pc[r] = "open" /\ pc'[r] = "walk"
    BY <1>6 DEF Copy, TypeOK
  <2> QED
    BY <1>o, <2>1, DiskFrame
<1>7. ASSUME NEW n \in Names, Lstat(r, n)
      PROVE  DiskInv'
  <2>1. /\ UNCHANGED <<archive, keyFile, archiveSaw, keys, fits, alone, key>>
        /\ pc[r] = "walk" /\ pc'[r] = "open"
    BY <1>7 DEF Lstat, TypeOK
  <2> QED
    BY <1>o, <2>1, DiskFrame
<1> QED
  BY <1>1, <1>2, <1>3, <1>4, <1>5, <1>6, <1>7 DEF Step

LEMMA InvInit == Init => BackupInv
<1> SUFFICES ASSUME Init
             PROVE  BackupInv
  OBVIOUS
<1>1. \A r \in Requests : pc[r] = "idle"
  BY DEF Init
<1>2. archive = None /\ fits = FALSE /\ alone = {}
  BY DEF Init
<1> QED
  BY <1>1, <1>2 DEF BackupInv, WalkInv, KeyInv, EntriesWereThere,
                    UntouchedIsArchived, AloneFits

LEMMA InvStep == TypeOK /\ BackupInv /\ [Next]_vars => BackupInv'
<1> SUFFICES ASSUME TypeOK, BackupInv, [Next]_vars
             PROVE  BackupInv'
  OBVIOUS
<1>0. DiskInv /\ \A q \in Requests : WalkInv(q)
  BY InvParts
<1>1. ASSUME NEW r \in Requests, Step(r)
      PROVE  BackupInv'
  <2>1. ASSUME NEW q \in Requests
        PROVE  WalkInv(q)'
    <3>1. CASE q = r
      BY <1>0, <1>1, <3>1, WalkOwn
    <3>2. CASE q # r
      BY <1>0, <1>1, <3>2, OthersLocals, WalkFrame
    <3> QED
      BY <3>1, <3>2
  <2>2. DiskInv'
    BY <1>1, DiskStep
  <2> QED
    BY <2>1, <2>2 DEF BackupInv, DiskInv
<1>2. ASSUME NEW n \in Names, NEW v \in Versions \cup {None}, Change(n, v)
      PROVE  BackupInv'
  <2>1. \A q \in Requests : WalkInv(q)'
    BY <1>0, <1>2, WalkChange
  <2>2. UNCHANGED <<pc, key, keys, archive, keyFile, alone, fits, archiveSaw>>
    BY <1>2 DEF Change
  <2>3. DiskInv'
    BY <1>0, <2>2 DEF DiskInv, KeyInv, EntriesWereThere, UntouchedIsArchived,
                      AloneFits, Archived, Active
  <2> QED
    BY <2>1, <2>3 DEF BackupInv, DiskInv
<1>3. CASE Crash
  <2>1. /\ \A q \in Requests : pc'[q] = "idle"
        /\ alone' = {} /\ UNCHANGED <<archive, keyFile, archiveSaw, keys, fits>>
    BY <1>3 DEF Crash
  <2>2. \A q \in Requests : WalkInv(q)'
    BY <2>1 DEF WalkInv
  <2>3. DiskInv'
    BY <1>0, <2>1, DiskFrame
  <2> QED
    BY <2>2, <2>3 DEF BackupInv, DiskInv
<1>4. CASE UNCHANGED vars
  BY <1>4 DEF vars, walk, BackupInv, WalkInv, KeyInv, EntriesWereThere,
              UntouchedIsArchived, AloneFits, Archived, Active
<1> QED
  BY <1>1, <1>2, <1>3, <1>4 DEF Next

THEOREM BackupInvariant == Spec => []BackupInv
BY TypeCorrect, InvInit, InvStep, PTL DEF Spec

\* The archive holds what was there during the walk that it comes from.
THEOREM EntriesWereThereCorrect == Spec => []EntriesWereThere
<1>1. BackupInv => EntriesWereThere
  BY DEF BackupInv
<1> QED
  BY <1>1, BackupInvariant, PTL

\* Files nobody touched are archived as they are.
THEOREM UntouchedIsArchivedCorrect == Spec => []UntouchedIsArchived
<1>1. BackupInv => UntouchedIsArchived
  BY DEF BackupInv
<1> QED
  BY <1>1, BackupInvariant, PTL

\* An undisturbed backup leaves an archive with its key.
THEOREM AloneFitsCorrect == Spec => []AloneFits
<1>1. BackupInv => AloneFits
  BY DEF BackupInv
<1> QED
  BY <1>1, BackupInvariant, PTL

=============================================================================
