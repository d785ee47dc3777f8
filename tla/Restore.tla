------------------------------ MODULE Restore ------------------------------
(***************************************************************************)
(* FileBackup.Restore as keyrestore runs it: the archive is decrypted and  *)
(* unpacked file by file into a directory found empty, while other         *)
(* processes, keysync above all, may write there; it fails, dies in the    *)
(* middle of a file and is tried again.  A file is first a temporary one,  *)
(* see WriteFile, and then renamed.                                        *)
(***************************************************************************)
EXTENDS Naturals

CONSTANTS
    Names,      \* paths of files under SecretsDir
    Refused,    \* those that are not written: not clean, or with ".." in them
    Versions,   \* contents with their attributes
    None,       \* no such file
    MaxUpsets   \* bound on everything the environment does

ASSUME RestoreAssumption ==
    /\ Refused \subseteq Names
    /\ None \notin Versions
    /\ MaxUpsets \in Nat

Directories == [Names -> Versions \cup {None}]

VARIABLES
    tar,        \* what BackupPath holds, encrypted
    rightKey,   \* the key given to keyrestore is the archive's
    dir,        \* the files under SecretsDir, but for
    temps,      \* the temporary files of keyrestore, by the paths they are for
    pc,         \* where keyrestore is
    todo,       \* the entries it has yet to unpack
    cur,        \* the one it is writing
    others,     \* history: others have written since it was cleared
    raced,      \* history: others have written since checkIfEmpty
    upsets

vars == <<tar, rightKey, dir, temps, pc, todo, cur, others, raced, upsets>>

TypeOK ==
    /\ tar \in Directories
    /\ rightKey \in BOOLEAN
    /\ dir \in Directories
    /\ temps \subseteq Names
    /\ pc \in {"idle", "check", "extract", "write", "failed", "done"}
    /\ todo \subseteq Names
    /\ cur \in Names \cup {None}
    /\ others \in BOOLEAN /\ raced \in BOOLEAN
    /\ upsets \in Nat

Empty == [n \in Names |-> None]
Stopped == pc \in {"idle", "failed", "done"}

Init ==
    /\ tar \in Directories
    /\ rightKey \in BOOLEAN
    /\ dir = Empty /\ temps = {}
    /\ pc = "idle" /\ todo = {} /\ cur = None
    /\ others = FALSE /\ raced = FALSE
    /\ upsets = 0

Upset ==
    /\ upsets < MaxUpsets
    /\ upsets' = upsets + 1

-----------------------------------------------------------------------------

\* Mutant: the archive is decrypted without authentication.
DecryptUnchecked ==
    /\ Stopped
    /\ pc' = "check"
    /\ tar' = IF rightKey THEN tar ELSE [n \in Names |-> "garbage"]
    /\ UNCHANGED <<rightKey, dir, temps, todo, cur, others, raced, upsets>>

\* keyrestore is run, once or again: it reads the archive and decrypts it.
Decrypt ==
    /\ Stopped
    /\ pc' = IF rightKey THEN "check" ELSE "failed"
    /\ UNCHANGED <<tar, rightKey, dir, temps, todo, cur, others, raced, upsets>>

\* Mutant: the directory is not looked into.
CheckAny ==
    /\ pc = "check"
    /\ pc' = "extract" /\ todo' = {n \in Names : tar[n] # None}
    /\ raced' = FALSE
    /\ UNCHANGED <<tar, rightKey, dir, temps, cur, others, upsets>>

\* Mutant: only the paths that are to be written are looked at.
CheckPaths ==
    /\ pc = "check"
    /\ IF \A n \in Names : tar[n] # None => dir[n] = None
       THEN pc' = "extract" /\ todo' = {n \in Names : tar[n] # None}
       ELSE pc' = "failed" /\ todo' = {}
    /\ raced' = FALSE
    /\ UNCHANGED <<tar, rightKey, dir, temps, cur, others, upsets>>

\* checkIfEmpty: any file is one too many.
CheckIfEmpty ==
    /\ pc = "check"
    /\ IF dir = Empty /\ temps = {}
       THEN pc' = "extract" /\ todo' = {n \in Names : tar[n] # None}
       ELSE pc' = "failed" /\ todo' = {}
    /\ raced' = FALSE
    /\ UNCHANGED <<tar, rightKey, dir, temps, cur, others, upsets>>

\* The archive cannot be read, or the directory not be made, opened or walked.
CheckFails ==
    /\ pc = "check"
    /\ Upset
    /\ pc' = "failed"
    /\ UNCHANGED <<tar, rightKey, dir, temps, todo, cur, others, raced>>

\* WriteFileAtomically makes a temporary file for an entry, and fills it.
CreateTemp(n) ==
    /\ pc = "extract" /\ n \in todo \ Refused
    /\ pc' = "write"
    /\ cur' = n
    /\ temps' = temps \cup {n}
    /\ UNCHANGED <<tar, rightKey, dir, todo, others, raced, upsets>>

\* The file gets its name, over a file of that name if there is one.
Rename ==
    /\ pc = "write" /\ cur \in temps
    /\ pc' = "extract"
    /\ dir' = [dir EXCEPT ![cur] = tar[cur]]
    /\ temps' = temps \ {cur}
    /\ todo' = todo \ {cur}
    /\ cur' = None
    /\ UNCHANGED <<tar, rightKey, others, raced, upsets>>

\* A name is refused, or no file can be made: what has been written stays.
ExtractFails(n) ==
    /\ pc = "extract" /\ n \in todo
    /\ \/ n \in Refused /\ upsets' = upsets
       \/ n \notin Refused /\ Upset
    /\ pc' = "failed" /\ todo' = {}
    /\ UNCHANGED <<tar, rightKey, dir, temps, cur, others, raced>>

\* Chown, chmod, write or rename fails.  The deferred os.Remove takes the
\* temporary file away, unless it fails, too.
WriteFails ==
    /\ pc = "write"
    /\ \/ cur \notin temps /\ UNCHANGED <<temps, upsets>>
       \/ Upset /\ temps' \in {temps, temps \ {cur}}
    /\ pc' = "failed" /\ todo' = {} /\ cur' = None
    /\ UNCHANGED <<tar, rightKey, dir, others, raced>>

Done ==
    /\ pc = "extract" /\ todo = {}
    /\ pc' = "done"
    /\ UNCHANGED <<tar, rightKey, dir, temps, todo, cur, others, raced, upsets>>

-----------------------------------------------------------------------------
(* The environment. *)

\* keyrestore is killed, and nobody removes a temporary file.
Crash ==
    /\ Upset
    /\ pc' = "idle" /\ todo' = {} /\ cur' = None
    /\ UNCHANGED <<tar, rightKey, dir, temps, others, raced>>

\* keysync or somebody else writes or removes a file.
Write(n, v) ==
    /\ Upset
    /\ dir' = [dir EXCEPT ![n] = v]
    /\ others' = TRUE /\ raced' = TRUE
    /\ UNCHANGED <<tar, rightKey, temps, pc, todo, cur>>

\* keysync does not know the temporary file, and its Cleanup removes it.
CleanUp(n) ==
    /\ Upset
    /\ n \in temps
    /\ temps' = temps \ {n}
    /\ others' = TRUE /\ raced' = TRUE
    /\ UNCHANGED <<tar, rightKey, dir, pc, todo, cur>>

\* The directory is cleared between two tries.
Clear ==
    /\ Upset
    /\ Stopped
    /\ dir' = Empty /\ temps' = {}
    /\ pc' = "idle"
    /\ others' = FALSE
    /\ UNCHANGED <<tar, rightKey, todo, cur, raced>>

Next ==
    \/ Decrypt \/ CheckIfEmpty \/ CheckFails \/ Rename \/ WriteFails \/ Done
    \/ \E n \in Names : CreateTemp(n) \/ ExtractFails(n) \/ CleanUp(n)
    \/ \E n \in Names, v \in Versions \cup {None} : Write(n, v)
    \/ Clear \/ Crash

Spec == Init /\ [][Next]_vars

-----------------------------------------------------------------------------
(* Properties. *)

\* While nobody else writes there, the directory holds nothing but files of
\* the archive and, after any row of failures, deaths and further tries, at most
\* one temporary file, of an entry that was not finished.  Once a try has
\* succeeded, it holds the archive and no temporary file.
RestoredIsArchived ==
    ~others =>
        /\ \A n \in Names : dir[n] \in {None, tar[n]}
        /\ \A n \in temps : dir[n] = None /\ tar[n] # None /\ n \notin Refused
        /\ \A m, n \in temps : m = n
        /\ pc = "done" => dir = tar /\ temps = {}

\* A file is overwritten only if it was written after the directory was found
\* empty; what was there before stays as it is.
OverwritesOnlyRaces == [][Rename => dir[cur] = None \/ raced]_vars

\* The inductive invariant: an entry that is done is there, one that is not
\* is not, unless others have interfered.
RestoreInv ==
    /\ RestoredIsArchived
    /\ pc \in {"check", "extract", "write"} => rightKey
    /\ pc = "write" => cur \in todo \ Refused
    /\ pc \in {"extract", "write"} =>
         /\ \A n \in todo : tar[n] # None
         /\ ~raced => \A n \in todo : dir[n] = None
         /\ ~others =>
              /\ \A n \in todo : dir[n] = None
              /\ \A n \in Names \ todo : dir[n] = tar[n]
              /\ temps = IF pc = "write" THEN {cur} ELSE {}

\* "Don't risk overwriting any existing files" (tar.go, extractTar).
NothingOverwritten == [][Rename => dir[cur] = None]_vars
=============================================================================
