------------------------------ MODULE Secrets -------------------------------
(***************************************************************************)
(* The data every keysync model talks about: secrets as the server holds   *)
(* them and files as keysync writes them.  Content bytes, checksum and     *)
(* content hash of a secret are one value, its version; owner, group and   *)
(* mode are one value, its attributes.                                     *)
(***************************************************************************)
EXTENDS Naturals, FiniteSets

CONSTANTS
    Names,      \* names of secrets on the server
    Files,      \* file names in the client's directory, temporary files too
    Filenames,  \* the file names a secret of a given name may carry
    Slashed,    \* file names with a path separator, which Filename() rejects
    Dotted,     \* file names with "..", which WriteFileAtomically rejects
    Temps,      \* names of the temporary files of WriteFileAtomically
    Versions,   \* contents of secrets, each with its checksum
    Attrs,      \* owner, group and mode of secrets
    BadAttrs,   \* attributes whose mode does not parse
    None        \* no file, no state, no secret

(***************************************************************************)
(* Secrets are requested by file name, so file names are possible names.   *)
(***************************************************************************)
ASSUME NamesAssumption ==
    /\ IsFiniteSet(Files)
    /\ Names \subseteq Files
    /\ Filenames \in [Names -> SUBSET Files]
    /\ Temps \subseteq Files
    /\ \A n \in Names : Filenames[n] \cap Temps = {}

ASSUME ContentAssumption ==
    /\ BadAttrs \subseteq Attrs
    /\ None \notin [ver : Versions, attr : Attrs]

(***************************************************************************)
(* No secret carries a filename override: its file is named like it.       *)
(***************************************************************************)
NoOverrides == \A n \in Names : Filenames[n] = {n}

Secret ==
    {s \in [name : Names, file : Files, ver : Versions, attr : Attrs] :
        s.file \in Filenames[s.name]}

\* What a file holds, and what the recorded state of a file remembers of it.
Content == [ver : Versions, attr : Attrs]

ContentOf(s) == [ver |-> s.ver, attr |-> s.attr]

FilesOf(S) == {s.file : s \in S}

\* The server's set of secrets names each secret once.
Unique(S) == \A s, t \in S : s.name = t.name => s = t

\* A response is accepted when every file name is valid and used once.
WellFormed(S) ==
    /\ FilesOf(S) \cap Slashed = {}
    /\ \A s, t \in S : s.file = t.file => s = t

\* Secrets that OutputDir.Write refuses whatever the state of the disk.
Refused(s) == s.file \in Slashed \cup Dotted \/ s.attr \in BadAttrs

(***************************************************************************)
(* The directory shows what the server holds: each secret that can be      *)
(* written is there as served, and there is no other file.                 *)
(***************************************************************************)
Mirrors(dir, S) ==
    /\ \A s \in S : Refused(s) \/ dir[s.file] = ContentOf(s)
    /\ \A f \in Files : f \in FilesOf(S) \/ dir[f] = None

(***************************************************************************)
(* With filename overrides, keysync promises this of the secrets that are  *)
(* in the file of their own name, and of the files that no other secret    *)
(* may have.                                                               *)
(***************************************************************************)
OwnNamed(S) == {s \in S : s.name = s.file}

OwnFiles == {f \in Files : \A n \in Names : f \in Filenames[n] => n = f}

MirrorsOwn(dir, S) ==
    /\ \A s \in OwnNamed(S) : Refused(s) \/ dir[s.file] = ContentOf(s)
    /\ \A f \in Files : f \in FilesOf(S) \/ dir[f] = None
=============================================================================
