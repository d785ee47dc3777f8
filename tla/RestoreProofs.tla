--------------------------- MODULE RestoreProofs ---------------------------
(***************************************************************************)
(* Proofs about Restore, for every archive and number of upsets.           *)
(***************************************************************************)
EXTENDS Restore, TLAPS

USE RestoreAssumption

LEMMA TypeInit == Init => TypeOK
<1> SUFFICES ASSUME Init
             PROVE  TypeOK
  OBVIOUS
<1>1. rightKey \in BOOLEAN /\ others \in BOOLEAN /\ raced \in BOOLEAN
  BY Zenon DEF Init
<1>2. dir \in Directories
  BY DEF Init, Empty, Directories
<1> QED
  BY <1>1, <1>2 DEF Init, TypeOK

\* No step gives the key or the history anything but a truth value.
LEMMA FlagStep ==
    TypeOK /\ [Next]_vars =>
        rightKey' \in BOOLEAN /\ others' \in BOOLEAN /\ raced' \in BOOLEAN
BY Zenon DEF TypeOK, Next, Decrypt, CheckIfEmpty, CheckFails, CreateTemp, Rename,
             ExtractFails, WriteFails, Done, Crash, Write, CleanUp, Clear, vars

LEMMA TypeStep == TypeOK /\ [Next]_vars => TypeOK'
<1> SUFFICES ASSUME TypeOK, [Next]_vars
             PROVE  TypeOK'
  OBVIOUS
<1>1. rightKey' \in BOOLEAN /\ others' \in BOOLEAN /\ raced' \in BOOLEAN
  BY FlagStep
<1>2. tar' \in Directories
  BY DEF TypeOK, Next, Decrypt, CheckIfEmpty, CheckFails, CreateTemp, Rename,
         ExtractFails, WriteFails, Done, Crash, Write, CleanUp, Clear, vars
<1>3. dir' \in Directories
  <2>1. CASE Rename
    BY <2>1 DEF Rename, TypeOK, Directories
  <2>2. ASSUME NEW n \in Names, NEW v \in Versions \cup {None}, Write(n, v)
        PROVE  dir' \in Directories
    BY <2>2 DEF Write, TypeOK, Directories
  <2>3. CASE Clear
    BY <2>3 DEF Clear, Empty, Directories
  <2> QED
    BY <2>1, <2>2, <2>3 DEF TypeOK, Next, Decrypt, CheckIfEmpty, CheckFails,
                            CreateTemp, ExtractFails, WriteFails, Done, Crash,
                            CleanUp, vars
<1>4. /\ pc' \in {"idle", "check", "extract", "write", "failed", "done"}
      /\ todo' \subseteq Names
  BY DEF TypeOK, Next, Decrypt, CheckIfEmpty, CheckFails, CreateTemp, Rename,
         ExtractFails, WriteFails, Done, Crash, Write, CleanUp, Clear, vars
<1>5. cur' \in Names \cup {None} /\ temps' \subseteq Names
  BY DEF TypeOK, Next, Decrypt, CheckIfEmpty, CheckFails, CreateTemp, Rename,
         ExtractFails, WriteFails, Done, Crash, Write, CleanUp, Clear, vars
<1>6. upsets' \in Nat
  BY DEF TypeOK, Next, Decrypt, CheckIfEmpty, CheckFails, CreateTemp, Rename,
         ExtractFails, WriteFails, Done, Crash, Write, CleanUp, Clear, Upset, vars
<1> QED
  BY <1>1, <1>2, <1>3, <1>4, <1>5, <1>6 DEF TypeOK

\* What keyrestore handles are files of the archive, whatever goes wrong.
THEOREM TypeCorrect == Spec => []TypeOK
BY TypeInit, TypeStep, PTL DEF Spec

-----------------------------------------------------------------------------

LEMMA RestoreInit == Init => RestoreInv
BY DEF Init, Empty, RestoreInv, RestoredIsArchived

LEMMA RestoreStep == TypeOK /\ RestoreInv /\ [Next]_vars => RestoreInv'
<1> SUFFICES ASSUME TypeOK, RestoreInv, [Next]_vars
             PROVE  RestoreInv'
  OBVIOUS
<1> USE DEF RestoreInv, RestoredIsArchived
<1>1. CASE Decrypt
  BY <1>1 DEF Decrypt
<1>2. CASE CheckIfEmpty
  <2>1. CASE dir = Empty /\ temps = {}
    <3>1. /\ pc' = "extract" /\ todo' = {n \in Names : tar[n] # None}
          /\ UNCHANGED <<tar, dir, temps, others, rightKey>>
      BY <1>2, <2>1 DEF CheckIfEmpty
    <3>2. \A n \in Names : dir[n] = None
      BY <2>1 DEF Empty
    <3>3. rightKey
      BY <1>2 DEF CheckIfEmpty
    <3> QED
      BY <2>1, <3>1, <3>2, <3>3
  <2>2. CASE ~(dir = Empty /\ temps = {})
    BY <1>2, <2>2 DEF CheckIfEmpty
  <2> QED
    BY <2>1, <2>2
<1>3. CASE CheckFails
  BY <1>3 DEF CheckFails
<1>4. ASSUME NEW n \in Names, CreateTemp(n)
      PROVE  RestoreInv'
  <2>1. /\ pc = "extract" /\ pc' = "write" /\ n \in todo \ Refused /\ cur' = n
        /\ temps' = temps \cup {n}
        /\ UNCHANGED <<tar, rightKey, dir, todo, others, raced>>
    BY <1>4 DEF CreateTemp
  <2>2. rightKey
    BY <2>1
  <2>3. ~others => temps' = {n}
    BY <2>1
  <2> QED
    BY <2>1, <2>2, <2>3
<1>5. CASE Rename
  <2>1. /\ pc = "write" /\ cur \in todo \ Refused /\ pc' = "extract"
        /\ temps' = temps \ {cur} /\ todo' = todo \ {cur}
        /\ UNCHANGED <<tar, rightKey, others, raced>>
    BY <1>5 DEF Rename
  <2>2. \A m \in Names : dir'[m] = IF m = cur THEN tar[cur] ELSE dir[m]
    BY <1>5 DEF Rename, TypeOK, Directories
  <2>3. todo \subseteq Names
    BY DEF TypeOK
  <2>4. rightKey
    BY <2>1
  <2>5. ~others => temps' = {}
    BY <2>1
  <2>6. ~others' => /\ \A n \in todo' : dir'[n] = None
                    /\ \A n \in Names \ todo' : dir'[n] = tar[n]
    BY <2>1, <2>2, <2>3
  <2>7. ~raced' => \A n \in todo' : dir'[n] = None
    BY <2>1, <2>2, <2>3
  <2>8. ~others' => \A n \in Names : dir'[n] \in {None, tar[n]}
    BY <2>1, <2>2
  <2> QED
    BY <2>1, <2>4, <2>5, <2>6, <2>7, <2>8
<1>6. ASSUME NEW n \in Names, ExtractFails(n)
      PROVE  RestoreInv'
  BY <1>6 DEF ExtractFails
<1>7. CASE WriteFails
  <2>1. /\ pc' = "failed" /\ temps' \subseteq temps
        /\ UNCHANGED <<tar, dir, others>>
    BY <1>7 DEF WriteFails
  <2> QED
    BY <2>1
<1>8. CASE Done
  <2>1. /\ pc = "extract" /\ todo = {} /\ pc' = "done"
        /\ UNCHANGED <<tar, rightKey, dir, temps, others>>
    BY <1>8 DEF Done
  <2>2. ~others => dir = tar /\ temps = {}
    <3> SUFFICES ASSUME ~others
                 PROVE  dir = tar /\ temps = {}
      OBVIOUS
    <3>1. \A n \in Names : dir[n] = tar[n]
      BY <2>1
    <3>2. temps = {}
      BY <2>1
    <3> QED
      BY <3>1, <3>2 DEF TypeOK, Directories
  <2> QED
    BY <2>1, <2>2
<1>9. ASSUME NEW n \in Names, NEW v \in Versions \cup {None}, Write(n, v)
      PROVE  RestoreInv'
  BY <1>9 DEF Write
<1>10. ASSUME NEW n \in Names, CleanUp(n)
       PROVE  RestoreInv'
  BY <1>10 DEF CleanUp
<1>11. CASE Clear
  BY <1>11 DEF Clear, Empty
<1>12. CASE Crash
  BY <1>12 DEF Crash
<1>13. CASE UNCHANGED vars
  BY <1>13 DEF vars
<1> QED
  BY <1>1, <1>2, <1>3, <1>4, <1>5, <1>6, <1>7, <1>8, <1>9, <1>10, <1>11, <1>12,
     <1>13 DEF Next

THEOREM RestoreInvariant == Spec => []RestoreInv
BY TypeCorrect, RestoreInit, RestoreStep, PTL DEF Spec

\* Whatever fails or dies, only the archive's files and at most one temporary
\* file are left, and success means the archive and nothing else.
THEOREM RestoredIsArchivedCorrect == Spec => []RestoredIsArchived
<1>1. RestoreInv => RestoredIsArchived
  BY DEF RestoreInv
<1> QED
  BY <1>1, RestoreInvariant, PTL

\* Only a file written after the check can be overwritten.
THEOREM OverwritesOnlyRacesCorrect == Spec => OverwritesOnlyRaces
<1>1. RestoreInv /\ [Next]_vars => [Rename => dir[cur] = None \/ raced]_vars
  BY DEF RestoreInv, Rename
<1> QED
  BY <1>1, RestoreInvariant, PTL DEF Spec, OverwritesOnlyRaces
=============================================================================
