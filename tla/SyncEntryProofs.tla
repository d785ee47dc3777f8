-------------------------- MODULE SyncEntryProofs ---------------------------
(***************************************************************************)
(* Proofs about SyncEntry for every set of names, files, versions and      *)
(* attributes and every bound on the environment.                          *)
(***************************************************************************)
EXTENDS SyncEntry, TLAPS

-----------------------------------------------------------------------------
(* Facts about secrets and files. *)

LEMMA ContentOfType ==
    ASSUME NEW s \in Secret
    PROVE  /\ ContentOf(s) \in Content
           /\ ContentOf(s) # None
           /\ s.file \in Files
BY NamesAssumption, ContentAssumption DEF Secret, Content, ContentOf

LEMMA OwnFile ==
    ASSUME NEW s \in Secret, s.file \in OwnFiles
    PROVE  s.name = s.file
BY DEF OwnFiles, Secret

LEMMA AllOwn ==
    ASSUME NoOverrides
    PROVE  /\ OwnFiles = Files
           /\ \A S \in SUBSET Secret : OwnNamed(S) = S
BY DEF NoOverrides, OwnFiles, OwnNamed, Secret

-----------------------------------------------------------------------------
(***************************************************************************)
(* TypeOK is inductive by itself.                                          *)
(***************************************************************************)
LEMMA TypeInit == Init => TypeOK
<1> SUFFICES ASSUME Init PROVE TypeOK
  OBVIOUS
<1>1. DataTypeOK
  BY DEF Init, DataTypeOK, NoState, NothingUpdated
<1>2. clean \in BOOLEAN
  BY Zenon DEF Init
<1> QED
  BY <1>1, <1>2 DEF TypeOK

LEMMA CleanStep == clean \in BOOLEAN /\ [Next]_vars => clean' \in BOOLEAN
BY Zenon DEF Next, SyncStep, Environment, vars, Undisturbed, Fault, Publish,
   Withdraw, Tamper, Mirror!Publish, Mirror!Withdraw, Mirror!Tamper, Restart,
   BeginSync, ListFails, FetchBatch, BatchFails, GetSecret, SecretNotFound,
   GetFails, WriteSecret, WriteFails, Verify, VerifyFails, CollectDeletions,
   RemovePending, ReadDir, RemoveUnknown, EndSync

LEMMA DataTypeStep == TypeOK /\ [Next]_vars => DataTypeOK'
<1> SUFFICES ASSUME DataTypeOK, [Next]_vars PROVE DataTypeOK'
  BY DEF TypeOK
<1> USE DEF DataTypeOK
<1>1. ASSUME NEW s \in Secret, Publish(s) PROVE DataTypeOK'
  BY <1>1 DEF Publish, Upset, local, Mirror!Publish, FilesOf
<1>2. ASSUME NEW s \in Secret, Withdraw(s) PROVE DataTypeOK'
  BY <1>2 DEF Withdraw, Upset, local, Mirror!Withdraw, FilesOf
<1>3. ASSUME NEW f \in Files, NEW c \in Content \cup {None}, Tamper(f, c)
      PROVE DataTypeOK'
  BY <1>3 DEF Tamper, Upset, local, Mirror!Tamper
<1>4. CASE Restart
  <2>1. disk' \in [Files -> Content \cup {None}]
    BY <1>4, ContentOfType, NamesAssumption DEF Restart, Retrieved
  <2> QED
    BY <1>4, <2>1 DEF Restart, Upset, NoState, NothingUpdated
<1>5. CASE BeginSync
  <2>1. FilesOf(server) \subseteq Files /\ needs' \subseteq Files
    BY <1>5, ContentOfType DEF BeginSync, FilesOf
  <2> QED
    BY <1>5, <2>1 DEF BeginSync, NothingUpdated
<1>6. CASE ListFails
  BY <1>6 DEF ListFails, Fault, Upset, Undisturbed, NothingUpdated, history
<1>7. CASE FetchBatch
  <2>1. todo' \subseteq Retrieved
    <3>1. \A s \in server :
            [key |-> s.file, secret |-> s, batch |-> TRUE] \in Retrieved
      BY ContentOfType DEF Retrieved
    <3> QED
      BY <1>7, <3>1 DEF FetchBatch, Named
  <2> QED
    BY <1>7, <2>1 DEF FetchBatch, Undisturbed, history
<1>8. CASE BatchFails
  BY <1>8 DEF BatchFails, Fault, Upset, Undisturbed, history
<1>9. ASSUME NEW f \in Files, GetSecret(f) PROVE DataTypeOK'
  <2>1. todo' \subseteq Retrieved
    BY <1>9 DEF GetSecret, Named, Retrieved
  <2> QED
    BY <1>9, <2>1 DEF GetSecret, Undisturbed, history
<1>10. ASSUME NEW f \in Files, SecretNotFound(f) PROVE DataTypeOK'
  BY <1>10 DEF SecretNotFound, Undisturbed, history
<1>11. ASSUME NEW f \in Files, GetFails(f) PROVE DataTypeOK'
  BY <1>11 DEF GetFails, Fault, Upset, history
<1>12. ASSUME NEW f \in Files, RemovePending(f) PROVE DataTypeOK'
  BY <1>12 DEF RemovePending, Fault, Upset, Undisturbed, history
<1>13. ASSUME NEW f \in Files, RemoveUnknown(f) PROVE DataTypeOK'
  BY <1>13 DEF RemoveUnknown, Fault, Upset, Undisturbed, history
<1>14. ASSUME NEW r \in todo, WriteSecret(r) PROVE DataTypeOK'
  <2>1. /\ ContentOf(r.secret) \in Content
        /\ [item |-> r, present |-> syncState[r.key] # None] \in Written
    BY <1>14, ContentOfType DEF Retrieved, Written
  <2> QED
    BY <1>14, <2>1
    DEF WriteSecret, PathOf, FileWritten, StateWritten, Undisturbed, history
<1>15. ASSUME NEW r \in todo, WriteFails(r) PROVE DataTypeOK'
  BY <1>15 DEF WriteFails, Fault, Upset, Undisturbed, history
<1>16. CASE Verify
  <2>1. Count(cur) \in [Added : Nat, Changed : Nat, Deleted : Nat]
    BY DEF Count
  <2> QED
    BY <1>16, <2>1 DEF Verify, Undisturbed, history
<1>17. CASE VerifyFails
  <2>1. upsets' \in Nat
    BY <1>17 DEF VerifyFails, Fault, Upset, Undisturbed, Validate
  <2>2. syncState' \in [Files -> Content \cup {None}]
    BY <1>17, Zenon DEF VerifyFails
  <2> QED
    BY <1>17, <2>1, <2>2 DEF VerifyFails, history
<1>18. CASE CollectDeletions
  BY <1>18 DEF CollectDeletions, Forgotten, Undisturbed, history
<1>19. CASE ReadDir
  BY <1>19 DEF ReadDir, Unknown, Fault, Upset, Undisturbed, history
<1>20. CASE EndSync
  BY <1>20 DEF EndSync, Undisturbed
<1>21. CASE UNCHANGED vars
  BY <1>21 DEF vars, local, history
<1> QED
  BY <1>1, <1>2, <1>3, <1>4, <1>5, <1>6, <1>7, <1>8, <1>9, <1>10, <1>11,
     <1>12, <1>13, <1>14, <1>15, <1>16, <1>17, <1>18, <1>19, <1>20, <1>21
  DEF Next, SyncStep, Environment

LEMMA TypeStep == TypeOK /\ [Next]_vars => TypeOK'
BY CleanStep, DataTypeStep, Zenon DEF TypeOK

(***************************************************************************)
(* Every variable keeps its type: among others, only secrets are requested *)
(* and written, and counters never go below zero (syncer.go 364-489).      *)
(***************************************************************************)
THEOREM TypeCorrect == Spec => []TypeOK
BY TypeInit, TypeStep, PTL DEF Spec
-----------------------------------------------------------------------------
(* The parts of PassInv that hold whatever disturbs the pass. *)

SafeInv == Unique(server) /\ AtRest /\ InHand

LEMMA SafeInit == Init => SafeInv
BY DEF Init, SafeInv, AtRest, InHand

LEMMA SafeStep ==
    ASSUME DataTypeOK, SafeInv, [Next]_vars
    PROVE  SafeInv'
<1> USE DEF DataTypeOK, SafeInv, AtRest, InHand
<1>1. ASSUME NEW s \in Secret, Publish(s) \/ Withdraw(s) PROVE SafeInv'
  <2>1. UNCHANGED <<pc, needs, todo, cur, gone>>
    BY <1>1 DEF Publish, Withdraw, local
  <2>2. /\ offered \subseteq offered'
        /\ pc = "idle" => offered' = offered
        /\ held = {} => held' = {}
        /\ pc # "idle" => server' \subseteq server \cup offered'
    BY <1>1 DEF Publish, Withdraw, Mirror!Publish, Mirror!Withdraw
  <2>3. Unique(server')
    BY <1>1 DEF Publish, Withdraw, Mirror!Publish, Mirror!Withdraw, Unique
  <2>4. AtRest'
    BY <2>1, <2>2
  <2>5. InHand'
    BY <2>1, <2>2 DEF Written, Refused
  <2> QED
    BY <2>3, <2>4, <2>5
<1>2. ASSUME NEW f \in Files, NEW c \in Content \cup {None}, Tamper(f, c)
      PROVE SafeInv'
  BY <1>2 DEF Tamper, Mirror!Tamper, local
<1>3. CASE Restart \/ BeginSync \/ EndSync
  BY <1>3 DEF Restart, BeginSync, EndSync
<1>4. CASE ListFails \/ BatchFails
  BY <1>4 DEF ListFails, BatchFails, history
<1>5. CASE FetchBatch
  BY <1>5 DEF FetchBatch, Named, history
<1>6. ASSUME NEW f \in Files, GetSecret(f) \/ SecretNotFound(f) \/ GetFails(f)
      PROVE SafeInv'
  BY <1>6 DEF GetSecret, SecretNotFound, GetFails, Named, history
<1>7. ASSUME NEW f \in Files, RemovePending(f) \/ RemoveUnknown(f)
      PROVE SafeInv'
  BY <1>7 DEF RemovePending, RemoveUnknown, history
<1>8. ASSUME NEW r \in todo, WriteSecret(r) PROVE SafeInv'
  <2>1. cur'.item = r /\ cur' \in Written
    <3>1. [item |-> r, present |-> syncState[r.key] # None] \in Written
      BY <1>8, Zenon DEF Written, WriteSecret
    <3> QED
      BY <1>8, <3>1 DEF WriteSecret
  <2>2. AtRest' /\ Unique(server')
    BY <1>8 DEF WriteSecret, history
  <2>3. InHand'
    BY <1>8, <2>1 DEF WriteSecret, history
  <2> QED
    BY <2>2, <2>3
<1>9. ASSUME NEW r \in todo, WriteFails(r) PROVE SafeInv'
  BY <1>9 DEF WriteFails, history
<1>10. CASE Verify \/ VerifyFails \/ CollectDeletions \/ ReadDir
  BY <1>10 DEF Verify, VerifyFails, CollectDeletions, ReadDir, history
<1>11. CASE UNCHANGED vars
  BY <1>11 DEF vars, local, history
<1> QED
  BY <1>1, <1>2, <1>3, <1>4, <1>5, <1>6, <1>7, <1>8, <1>9, <1>10, <1>11
  DEF Next, SyncStep, Environment
(***************************************************************************)
(* What the server still holds since the beginning of the pass, in a file  *)
(* no other secret may have, is never due for removal.                     *)
(***************************************************************************)
LEMMA HeldStep ==
    ASSUME DataTypeOK, SafeInv, HeldIsSafe, [Next]_vars
    PROVE  HeldIsSafe'
<1> USE DEF DataTypeOK, SafeInv, AtRest, HeldIsSafe, FilesOf
<1>1. ASSUME NEW s \in Secret, Publish(s) \/ Withdraw(s) PROVE HeldIsSafe'
  BY <1>1 DEF Publish, Withdraw, local, Mirror!Publish, Mirror!Withdraw,
              Mirror!FilesOf
<1>2. ASSUME NEW f \in Files, NEW c \in Content \cup {None}, Tamper(f, c)
      PROVE HeldIsSafe'
  BY <1>2 DEF Tamper, Mirror!Tamper, local
<1>3. CASE Restart \/ BeginSync \/ EndSync
  BY <1>3 DEF Restart, BeginSync, EndSync
<1>4. CASE ListFails \/ FetchBatch \/ BatchFails \/ Verify \/ VerifyFails
  BY <1>4 DEF ListFails, FetchBatch, BatchFails, Verify, VerifyFails, history
<1>5. ASSUME NEW f \in Files, GetSecret(f) \/ GetFails(f) PROVE HeldIsSafe'
  BY <1>5 DEF GetSecret, GetFails, history
<1>6. ASSUME NEW f \in Files, SecretNotFound(f) PROVE HeldIsSafe'
  <2>1. f \notin held \cap OwnFiles
    BY <1>6, OwnFile DEF SecretNotFound, Named
  <2> QED
    BY <1>6, <2>1 DEF SecretNotFound, history
<1>7. ASSUME NEW f \in Files, RemovePending(f) \/ RemoveUnknown(f)
      PROVE HeldIsSafe'
  BY <1>7 DEF RemovePending, RemoveUnknown, history
<1>8. ASSUME NEW r \in todo, WriteSecret(r) \/ WriteFails(r) PROVE HeldIsSafe'
  BY <1>8 DEF WriteSecret, WriteFails, history
<1>9. CASE CollectDeletions \/ ReadDir
  BY <1>9 DEF CollectDeletions, ReadDir, Forgotten, Unknown, history
<1>10. CASE UNCHANGED vars
  BY <1>10 DEF vars, local, history
<1> QED
  BY <1>1, <1>2, <1>3, <1>4, <1>5, <1>6, <1>7, <1>8, <1>9, <1>10
  DEF Next, SyncStep, Environment
-----------------------------------------------------------------------------
(* The parts of PassInv about undisturbed passes. *)

CleanInv == CleanPass /\ CleanRest

LEMMA CleanInit == Init => CleanInv
BY DEF Init, CleanInv, CleanPass, CleanRest

LEMMA CleanInvStep ==
    ASSUME DataTypeOK, SafeInv, CleanInv, [Next]_vars
    PROVE  CleanInv'
<1> USE DEF DataTypeOK, CleanInv, CleanPass, CleanRest, SafeInv, AtRest, InHand,
            FilesOf, OwnNamed, WellFormed, Valid
<1>1. ASSUME NEW s \in Secret, Publish(s) PROVE CleanInv'
  BY <1>1 DEF Publish, Mirror!Publish
<1>2. ASSUME NEW s \in Secret, Withdraw(s) PROVE CleanInv'
  BY <1>2 DEF Withdraw, Mirror!Withdraw
<1>3. ASSUME NEW f \in Files, NEW c \in Content \cup {None}, Tamper(f, c)
      PROVE CleanInv'
  BY <1>3 DEF Tamper, Mirror!Tamper
<1>4. CASE Restart
  BY <1>4 DEF Restart
<1>5. CASE BeginSync
  BY <1>5, ContentOfType DEF BeginSync, NeedsRetrieval, Validate
<1>6. CASE ListFails
  BY <1>6 DEF ListFails, history, Undisturbed, Fault
<1>7. CASE FetchBatch
  <2>1. /\ \A r \in todo' : r.secret \in server
        /\ \A s \in OwnNamed(server) :
              s.file \in needs => \E r \in todo' : r.secret = s
    <3>1. ASSUME NEW r \in todo' PROVE r.secret \in server
      BY <1>7 DEF FetchBatch, Named
    <3>2. ASSUME NEW s \in OwnNamed(server), s.file \in needs
          PROVE  \E r \in todo' : r.secret = s
      <4> DEFINE r == [key |-> s.file, secret |-> s, batch |-> TRUE]
      <4>1. s \in Named(needs)
        BY <3>2 DEF Named
      <4>2. r \in todo'
        BY <1>7, <4>1, Zenon DEF FetchBatch
      <4> QED
        BY <4>2
    <3> QED
      BY <3>1, <3>2
  <2>2. /\ UNCHANGED <<server, disk, syncState, listing, clean, gone>>
        /\ pc = "fetch" /\ pc' = "work" /\ todo = {} /\ gone = {}
    BY <1>7 DEF FetchBatch, Undisturbed
  <2> QED
    BY <2>1, <2>2
<1>8. CASE BatchFails
  BY <1>8 DEF BatchFails, history, Undisturbed, Fault
<1>9. ASSUME NEW f \in Files, GetSecret(f) PROVE CleanInv'
  BY <1>9 DEF GetSecret, Named, Unique, history, Undisturbed
<1>10. ASSUME NEW f \in Files, SecretNotFound(f) PROVE CleanInv'
  BY <1>10 DEF SecretNotFound, Named, history, Undisturbed
<1>11. ASSUME NEW f \in Files, GetFails(f) PROVE CleanInv'
  BY <1>11 DEF GetFails, Fault
<1>12. ASSUME NEW f \in Files, RemovePending(f) PROVE CleanInv'
  <2>1. CASE clean /\ clean'
    <3>1. /\ UNCHANGED <<server, pc, listing, needs, todo>>
          /\ pc \in {"remove", "cleanup"}
          /\ gone' = gone \ {f}
      BY <1>12 DEF RemovePending
    <3>2. /\ f \notin FilesOf(OwnNamed(server))
          /\ \A g \in Files : g # f => disk'[g] = disk[g]
          /\ \A g \in Files : g # f => syncState'[g] = syncState[g]
          /\ disk'[f] = None
      BY <1>12, <2>1, Zenon DEF RemovePending, Fault
    <3>3. \A s \in server : s.file \in Files
      BY ContentOfType
    <3> QED
      BY <2>1, <3>1, <3>2, <3>3
  <2>2. CASE ~clean'
    BY <2>2
  <2>3. clean' => clean
    BY <1>12 DEF RemovePending, Undisturbed, Fault
  <2> QED
    BY <2>1, <2>2, <2>3
<1>13. ASSUME NEW f \in Files, RemoveUnknown(f) PROVE CleanInv'
  <2>1. CASE clean /\ clean'
    <3>1. /\ UNCHANGED <<server, pc, listing, needs, todo>>
          /\ pc \in {"remove", "cleanup"}
          /\ gone' = gone \ {f}
      BY <1>13 DEF RemoveUnknown
    <3>2. /\ f \notin FilesOf(OwnNamed(server))
          /\ \A g \in Files : g # f => disk'[g] = disk[g]
          /\ \A g \in Files : g # f => syncState'[g] = syncState[g]
          /\ disk'[f] = None
      BY <1>13, <2>1, Zenon DEF RemoveUnknown, Fault
    <3>3. \A s \in server : s.file \in Files
      BY ContentOfType
    <3> QED
      BY <2>1, <3>1, <3>2, <3>3
  <2>2. CASE ~clean'
    BY <2>2
  <2>3. clean' => clean
    BY <1>13 DEF RemoveUnknown, Undisturbed, Fault
  <2> QED
    BY <2>1, <2>2, <2>3
<1>14. ASSUME NEW r \in todo, WriteSecret(r) PROVE CleanInv'
  <2>1. /\ pc = "work" /\ pc' = "verify"
        /\ UNCHANGED <<server, listing, needs, gone, clean>>
        /\ todo' = todo \ {r} /\ cur'.item = r
        /\ disk' = [disk EXCEPT ![r.secret.file] = ContentOf(r.secret)]
        /\ syncState' = [syncState EXCEPT ![r.key] = ContentOf(r.secret)]
    BY <1>14
    DEF WriteSecret, PathOf, FileWritten, StateWritten, history, Undisturbed
  <2>2. r.secret \in Secret /\ r.key \in Files
    BY DEF Retrieved
  <2>3. disk'[r.secret.file] = ContentOf(r.secret)
    BY <2>1, <2>2, ContentOfType
  <2>4. ASSUME clean, NEW s \in OwnNamed(server), r.secret = s
        PROVE  Valid(s)'
    BY <2>1, <2>2, <2>3, <2>4, ContentOfType
  <2>5. ASSUME clean, NEW s \in OwnNamed(server), r.secret # s
        PROVE  Valid(s)' = Valid(s)
    <3>1. r.secret \in server
      BY <2>1, <2>5
    <3>2. s.file # r.secret.file /\ s.file # r.key
      BY <2>1, <2>5, <3>1 DEF Unique
    <3>3. s.file \in Files
      BY ContentOfType
    <3> QED
      BY <2>1, <3>2, <3>3
  <2> QED
    BY <2>1, <2>3, <2>4, <2>5
<1>15. ASSUME NEW r \in todo, WriteFails(r) PROVE CleanInv'
  BY <1>15 DEF WriteFails, history, Undisturbed, Fault
<1>16. CASE Verify
  BY <1>16 DEF Verify, history, Undisturbed
<1>17. CASE VerifyFails
  BY <1>17 DEF VerifyFails, history, Undisturbed, Fault, Validate, Refused
<1>18. CASE CollectDeletions
  BY <1>18 DEF CollectDeletions, Forgotten, history, Undisturbed
<1>19. CASE ReadDir
  BY <1>19 DEF ReadDir, Unknown, history, Undisturbed, Fault
<1>20. CASE EndSync
  BY <1>20 DEF EndSync, Undisturbed
<1>21. CASE UNCHANGED vars
  BY <1>21 DEF vars, local, history
<1> QED
  BY <1>1, <1>2, <1>3, <1>4, <1>5, <1>6, <1>7, <1>8, <1>9, <1>10, <1>11,
     <1>12, <1>13, <1>14, <1>15, <1>16, <1>17, <1>18, <1>19, <1>20, <1>21
  DEF Next, SyncStep, Environment
-----------------------------------------------------------------------------
(***************************************************************************)
(* PassInv holds throughout: what a pass of Sync (syncer.go 364-438) still *)
(* has to do and what it has done cover the listing at every step, but for *)
(* secrets that are not in the file of their own name.                     *)
(***************************************************************************)
THEOREM PassInvariant == Spec => []PassInv
<1> DEFINE Parts == SafeInv /\ HeldIsSafe /\ CleanInv
<1>1. Init => Parts
  BY SafeInit, CleanInit DEF Init, HeldIsSafe
<1>2. TypeOK /\ Parts /\ [Next]_vars => Parts'
  BY SafeStep, HeldStep, CleanInvStep DEF TypeOK
<1>3. Parts => PassInv
  BY DEF PassInv, SafeInv, CleanInv
<1> QED
  BY <1>1, <1>2, <1>3, TypeCorrect, PTL DEF Spec

(***************************************************************************)
(* An undisturbed pass leaves no unknown file, and every secret that is in *)
(* the file of its own name, whatever overrides others carry (syncer.go    *)
(* 364-438, client.go 300-311).                                            *)
(***************************************************************************)
THEOREM SettledOwnNamedCorrect == Spec => []SettledOwnNamed
<1>1. PassInv => SettledOwnNamed
  BY DEF PassInv, CleanRest, Valid, SettledOwnNamed, MirrorsOwn
<1> QED
  BY <1>1, PassInvariant, PTL

(***************************************************************************)
(* After such a pass the next one finds those files valid and requests     *)
(* nothing for them (syncer.go 375-390).                                   *)
(***************************************************************************)
THEOREM SettledIsIdle == Spec => []SettledNeedsNothing
<1>1. TypeOK /\ PassInv => SettledNeedsNothing
  <2> SUFFICES ASSUME DataTypeOK, CleanRest, pc = "idle", clean,
                      NEW s \in OwnNamed(server), ~Refused(s)
               PROVE  ~NeedsRetrieval(s)
    BY DEF TypeOK, PassInv, SettledNeedsNothing
  <2> QED
    BY ContentOfType DEF CleanRest, Valid, NeedsRetrieval, Validate, Refused,
       DataTypeOK, OwnNamed
<1> QED
  BY <1>1, TypeCorrect, PassInvariant, PTL

(***************************************************************************)
(* Without overrides an undisturbed pass leaves the directory exactly as   *)
(* the server has it, from whatever state it started (syncer.go 364-438,   *)
(* write.go 186-208).                                                      *)
(***************************************************************************)
THEOREM SettledCorrect == ASSUME NoOverrides PROVE Spec => []Settled
<1>1. TypeOK /\ SettledOwnNamed => Settled
  BY AllOwn DEF TypeOK, DataTypeOK, SettledOwnNamed, Settled, Mirrors, MirrorsOwn
<1> QED
  BY <1>1, TypeCorrect, SettledOwnNamedCorrect, PTL

-----------------------------------------------------------------------------
(***************************************************************************)
(* All that a step of Sync can do to the directory.                        *)
(***************************************************************************)
LEMMA SyncStepDisk ==
    ASSUME DataTypeOK, SafeInv, SyncStep
    PROVE  \/ disk' = disk
           \/ \E f \in gone :
                 disk' = [disk EXCEPT ![f] = None] /\ pc # "idle"
           \/ \E s \in offered :
                 disk' = [disk EXCEPT ![s.file] = ContentOf(s)] /\ pc # "idle"
<1>1. ASSUME NEW f \in Files, RemovePending(f) \/ RemoveUnknown(f)
      PROVE  \/ disk' = disk
             \/ /\ f \in gone
                /\ disk' = [disk EXCEPT ![f] = None] /\ pc # "idle"
  BY <1>1, Zenon DEF RemovePending, RemoveUnknown
<1>2. ASSUME NEW r \in todo, WriteSecret(r)
      PROVE  \E s \in offered :
                 disk' = [disk EXCEPT ![s.file] = ContentOf(s)] /\ pc # "idle"
  <2>1. r.secret \in offered
    BY DEF SafeInv, InHand
  <2> QED
    BY <1>2, <2>1 DEF WriteSecret, PathOf, FileWritten
<1>3. ASSUME NEW f \in Files, GetSecret(f) \/ SecretNotFound(f) \/ GetFails(f)
      PROVE  disk' = disk
  BY <1>3 DEF GetSecret, SecretNotFound, GetFails
<1>4. ASSUME NEW r \in todo, WriteFails(r) PROVE disk' = disk
  BY <1>4 DEF WriteFails
<1>5. CASE \/ BeginSync \/ ListFails \/ FetchBatch \/ BatchFails \/ Verify
           \/ VerifyFails \/ CollectDeletions \/ ReadDir \/ EndSync
  BY <1>5 DEF BeginSync, ListFails, FetchBatch, BatchFails, Verify, VerifyFails,
              CollectDeletions, ReadDir, EndSync
<1> QED
  BY <1>1, <1>2, <1>3, <1>4, <1>5 DEF SyncStep

(***************************************************************************)
(* Whatever fails, keysync never removes the file of a secret the server   *)
(* has held since the pass began, if no override can name that file        *)
(* (syncer.go 392-435).                                                    *)
(***************************************************************************)
THEOREM KeepsHeldCorrect == Spec => KeepsHeldSecrets
<1> DEFINE Keep ==
      SyncStep => \A f \in held \cap OwnFiles : disk[f] # None => disk'[f] # None
<1>1. ASSUME DataTypeOK, SafeInv, HeldIsSafe PROVE Keep
  <2> SUFFICES ASSUME SyncStep, NEW f \in held \cap OwnFiles, disk[f] # None
               PROVE  disk'[f] # None
    OBVIOUS
  <2>1. f \in Files /\ f \notin gone
    BY <1>1 DEF DataTypeOK, HeldIsSafe
  <2>2. \A s \in offered : ContentOf(s) # None
    BY <1>1, ContentOfType DEF DataTypeOK
  <2> QED
    BY <1>1, <2>1, <2>2, SyncStepDisk DEF DataTypeOK
<1>2. TypeOK /\ PassInv => [Keep]_vars
  BY <1>1 DEF TypeOK, PassInv, SafeInv
<1> QED
  BY <1>2, TypeCorrect, PassInvariant, PTL DEF KeepsHeldSecrets

(***************************************************************************)
(* Every file keysync writes is one secret, whole, that the server held    *)
(* at some moment of the pass, also where secrets have filename overrides  *)
(* (syncer.go 399-412, 440-489).                                           *)
(***************************************************************************)
THEOREM InstallsOfferedCorrect == Spec => InstallsOffered
<1> DEFINE Fresh ==
      SyncStep => \A f \in Files :
          disk'[f] \in {disk[f], None}
             \/ \E s \in offered : s.file = f /\ disk'[f] = ContentOf(s)
<1>1. ASSUME DataTypeOK, SafeInv PROVE Fresh
  BY <1>1, SyncStepDisk DEF DataTypeOK
<1>2. TypeOK /\ PassInv => [Fresh]_vars
  BY <1>1 DEF TypeOK, PassInv, SafeInv
<1> QED
  BY <1>2, TypeCorrect, PassInvariant, PTL DEF InstallsOffered

(***************************************************************************)
(* Every step of a pass goes on to a later part of Sync or leaves less to  *)
(* do in the same part (syncer.go 364-489).                                *)
(***************************************************************************)
THEOREM PassGoesOnCorrect == Spec => PassGoesOn
<1> DEFINE On == SyncStep /\ pc # "idle" => GoesOn
<1>1. ASSUME DataTypeOK, SyncStep, pc # "idle" PROVE GoesOn
  <2> USE <1>1 DEF GoesOn, Part
  <2>1. CASE BeginSync \/ ListFails
    BY <2>1 DEF BeginSync, ListFails
  <2>2. CASE FetchBatch \/ BatchFails
    BY <2>2 DEF FetchBatch, BatchFails
  <2>3. ASSUME NEW f \in Files, GetSecret(f) \/ SecretNotFound(f) \/ GetFails(f)
        PROVE  GoesOn
    <3>1. f \in needs /\ needs' = needs \ {f} /\ pc' = pc
      BY <2>3 DEF GetSecret, SecretNotFound, GetFails
    <3>2. Part(pc') = Part(pc)
      BY <3>1
    <3>3. Smaller(needs', needs)
      BY <3>1 DEF Smaller
    <3> QED
      BY <3>2, <3>3
  <2>4. ASSUME NEW f \in Files, RemovePending(f) \/ RemoveUnknown(f)
        PROVE  GoesOn
    <3>1. /\ f \in gone /\ gone' = gone \ {f}
          /\ pc' = pc /\ needs' = needs /\ todo' = todo
      BY <2>4 DEF RemovePending, RemoveUnknown
    <3>2. Smaller(gone', gone)
      BY <3>1 DEF Smaller
    <3> QED
      BY <3>1, <3>2
  <2>5. ASSUME NEW r \in todo, WriteSecret(r) \/ WriteFails(r) PROVE GoesOn
    <3>1. /\ todo' = todo \ {r} /\ needs' = needs
          /\ pc = "work" /\ pc' \in {"work", "verify"}
      BY <2>5 DEF WriteSecret, WriteFails
    <3>2. Smaller(todo', todo)
      BY <3>1 DEF Smaller
    <3>3. Part(pc') = Part(pc)
      BY <3>1
    <3> QED
      BY <3>1, <3>2, <3>3
  <2>6. CASE Verify \/ VerifyFails
    BY <2>6 DEF Verify, VerifyFails
  <2>7. CASE CollectDeletions \/ ReadDir \/ EndSync
    BY <2>7 DEF CollectDeletions, ReadDir, EndSync
  <2> QED
    BY <2>1, <2>2, <2>3, <2>4, <2>5, <2>6, <2>7 DEF SyncStep
<1>2. TypeOK => [On]_vars
  BY <1>1 DEF TypeOK
<1> QED
  BY <1>2, TypeCorrect, PTL DEF PassGoesOn
-----------------------------------------------------------------------------
(* Refinement of SecretMirror. *)

\* What Mirror stutters on.
StepInvisible ==
    /\ UNCHANGED <<server, disk, held, offered>>
    /\ (pc' # "idle") <=> (pc # "idle")

\* A step that shows nothing, or only that something failed.
LEMMA InvisibleStep ==
    ASSUME StepInvisible, UNCHANGED clean \/ clean' = FALSE
    PROVE  [Mirror!Next]_(Mirror!vars)
<1>1. (pc # "idle")' = (pc # "idle")
  BY Zenon DEF StepInvisible
<1>2. CASE UNCHANGED clean
  BY <1>1, <1>2, Zenon DEF StepInvisible, Mirror!vars
<1>3. CASE clean' = FALSE
  <2>1. Mirror!Disturb
    BY <1>1, <1>3, Zenon DEF StepInvisible, Mirror!Disturb
  <2> QED
    BY <2>1 DEF Mirror!Next
<1> QED
  BY <1>2, <1>3

LEMMA MirrorInit == Init => Mirror!Init
BY Zenon DEF Init, Mirror!Init, Mirror!Secret, Secret, Mirror!Unique, Unique

LEMMA MirrorStep ==
    ASSUME DataTypeOK, SafeInv, HeldIsSafe, CleanInv, [Next]_vars
    PROVE  [Mirror!Next]_(Mirror!vars)
<1> USE DEF history, Undisturbed, Fault
<1>1. ASSUME NEW s \in Secret, Publish(s) PROVE Mirror!Next
  BY <1>1, Zenon DEF Publish, Mirror!Next, Mirror!Secret, Secret
<1>2. ASSUME NEW s \in Secret, Withdraw(s) PROVE Mirror!Next
  BY <1>2, Zenon DEF Withdraw, Mirror!Next, Mirror!Secret, Secret
<1>3. ASSUME NEW f \in Files, NEW c \in Content \cup {None}, Tamper(f, c)
      PROVE Mirror!Next
  BY <1>3, Zenon DEF Tamper, Mirror!Next, Mirror!Content, Content
<1>4. CASE Restart
  <2>1. \/ disk' = disk
        \/ \E t \in Temps, c \in Content : disk' = [disk EXCEPT ![t] = c]
    BY <1>4, ContentOfType DEF Restart, DataTypeOK, Retrieved
  <2>2. Mirror!Die
    BY <1>4, <2>1, Zenon DEF Restart, Mirror!Die, Mirror!Content, Content
  <2> QED
    BY <2>2 DEF Mirror!Next
<1>5. CASE BeginSync
  <2>1. Mirror!Begin
    BY <1>5, Zenon DEF BeginSync, Mirror!Begin, Mirror!FilesOf, FilesOf
  <2> QED
    BY <2>1 DEF Mirror!Next
<1>6. CASE ListFails
  BY <1>6, InvisibleStep DEF ListFails, StepInvisible
<1>7. CASE FetchBatch
  BY <1>7, InvisibleStep DEF FetchBatch, StepInvisible
<1>8. CASE BatchFails
  BY <1>8, InvisibleStep DEF BatchFails, StepInvisible
<1>9. ASSUME NEW f \in Files, GetSecret(f) \/ SecretNotFound(f) \/ GetFails(f)
      PROVE [Mirror!Next]_(Mirror!vars)
  BY <1>9, InvisibleStep DEF GetSecret, SecretNotFound, GetFails, StepInvisible
<1>10. ASSUME NEW f \in Files, RemovePending(f) \/ RemoveUnknown(f)
       PROVE [Mirror!Next]_(Mirror!vars)
  <2>1. CASE disk' = disk
    <3>1. StepInvisible
      BY <1>10, <2>1 DEF RemovePending, RemoveUnknown, StepInvisible
    <3>2. UNCHANGED clean \/ clean' = FALSE
      BY <1>10, Zenon DEF RemovePending, RemoveUnknown
    <3> QED
      BY <3>1, <3>2, InvisibleStep
  <2>2. CASE /\ disk' = [disk EXCEPT ![f] = None]
             /\ UNCHANGED <<clean, server, pc, held, offered>>
    <3>1. f \notin held \cap OwnFiles /\ pc # "idle"
      BY <1>10 DEF RemovePending, RemoveUnknown, HeldIsSafe
    <3>2. Mirror!Drop(f)
      BY <2>2, <3>1, Zenon DEF Mirror!Drop, Mirror!OwnFiles, OwnFiles
    <3> QED
      BY <3>2, Zenon DEF Mirror!Next
  <2> QED
    BY <1>10, <2>1, <2>2, Zenon DEF RemovePending, RemoveUnknown
<1>11. ASSUME NEW r \in todo, WriteSecret(r) PROVE Mirror!Next
  <2>1. r.secret \in offered /\ r.secret \in Secret
    BY DEF DataTypeOK, SafeInv, InHand, Retrieved
  <2>2. pc # "idle" /\ pc' # "idle"
    BY <1>11 DEF WriteSecret
  <2>3. Mirror!Install(r.secret)
    BY <1>11, <2>1, <2>2, Zenon
    DEF WriteSecret, PathOf, FileWritten, Mirror!Install, Mirror!ContentOf,
        ContentOf
  <2> QED
    BY <2>1, <2>3, Zenon DEF Mirror!Next, Mirror!Secret, Secret
<1>12. ASSUME NEW r \in todo, WriteFails(r) PROVE [Mirror!Next]_(Mirror!vars)
  BY <1>12, InvisibleStep DEF WriteFails, StepInvisible
<1>13. CASE Verify
  BY <1>13, InvisibleStep DEF Verify, StepInvisible
<1>14. CASE VerifyFails
  <2>1. StepInvisible
    BY <1>14 DEF VerifyFails, StepInvisible
  <2>2. UNCHANGED clean \/ clean' = FALSE
    BY <1>14, Zenon DEF VerifyFails
  <2> QED
    BY <2>1, <2>2, InvisibleStep
<1>15. CASE CollectDeletions
  BY <1>15, InvisibleStep DEF CollectDeletions, StepInvisible
<1>16. CASE ReadDir
  BY <1>16, InvisibleStep DEF ReadDir, StepInvisible
<1>17. CASE EndSync
  <2>1. pc = "cleanup" /\ gone = {} /\ todo = {} /\ needs = {}
    BY <1>17 DEF EndSync, SafeInv, AtRest
  <2>2. clean => MirrorsOwn(disk, server)
    BY <2>1 DEF CleanInv, CleanPass, MirrorsOwn, Valid
  <2>3. Mirror!Finish
    BY <1>17, <2>1, <2>2, Zenon
    DEF EndSync, Mirror!Finish, Mirror!MirrorsOwn, MirrorsOwn,
        Mirror!OwnNamed, OwnNamed, Mirror!Refused, Refused,
        Mirror!ContentOf, ContentOf, Mirror!FilesOf, FilesOf
  <2> QED
    BY <2>3 DEF Mirror!Next
<1>18. CASE UNCHANGED vars
  BY <1>18, InvisibleStep DEF vars, local, StepInvisible
<1> QED
  BY <1>1, <1>2, <1>3, <1>4, <1>5, <1>6, <1>7, <1>8, <1>9, <1>10, <1>11,
     <1>12, <1>13, <1>14, <1>15, <1>16, <1>17, <1>18
  DEF Next, SyncStep, Environment

(***************************************************************************)
(* Sync with its requests, writes and removals implements the abstract     *)
(* mirror: each pass installs what was offered, keeps what was held, and   *)
(* ends, undisturbed, with the server's secrets (syncer.go 364-489).       *)
(***************************************************************************)
THEOREM SyncEntryImplementsMirror == Spec => ImplementsMirror
<1>1. TypeOK /\ PassInv /\ [Next]_vars => [Mirror!Next]_(Mirror!vars)
  BY MirrorStep DEF TypeOK, PassInv, SafeInv, CleanInv
<1> QED
  BY <1>1, MirrorInit, TypeCorrect, PassInvariant, PTL
  DEF Spec, ImplementsMirror, Mirror!Spec
=============================================================================
