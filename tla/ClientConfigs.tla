--------------------------- MODULE ClientConfigs ---------------------------
(***************************************************************************)
(* Config.LoadClients: the directory of client configurations is listed,   *)
(* then its files are read one by one, while others edit them.  What is    *)
(* missing from the result is a client to remove (Syncer.LoadClients).     *)
(* The directory and any file in it may be unreadable for a while.         *)
(***************************************************************************)
EXTENDS Naturals

CONSTANTS
    NFiles,     \* files with the configured suffix, by the order of their names
    Clients,
    Names,      \* names of files with keys or certificates
    Dirs,       \* directories; the default is the client's name
    Declared,   \* what a file may say of a client
    None,       \* what a file leaves out
    Absent,     \* there is no such file
    Garbled,    \* a file that is not YAML
    MaxEdits    \* bound on what others do to the directory and its files

ASSUME FilesAssumption ==
    /\ NFiles \in Nat
    /\ Clients \subseteq Dirs
    /\ MaxEdits \in Nat

Files == 1..NFiles

\* What LoadClients opens: the files, and first of all their directory.
ClientsDir == 0
Inputs == 0..NFiles

\* A path is absolute, or relative and thus without a place yet.
Paths == [place : {"elsewhere", None}, name : Names]
FullPaths == [place : {"elsewhere", "ClientsDir"}, name : Names]

ASSUME PathsAssumption == None \notin Dirs \cup Paths \cup FullPaths

\* What LoadClients makes of what a file says, and the files' texts.
Conf == [key : FullPaths, cert : FullPaths, dir : Dirs]
Texts == [Clients -> Declared \cup {None}]

ASSUME TextsAssumption ==
    /\ Declared \subseteq [key : Paths \cup {None}, cert : Paths \cup {None},
                            dir : Dirs \cup {None}]
    /\ None \notin Declared \cup Conf
    /\ {Absent, Garbled} \cap Texts = {}

VARIABLES
    files,      \* the files
    denied,     \* what cannot be read: no permission, an I/O error; a directory
                \* that is missing is denied with all its files
    load,       \* where LoadClients is
    todo,       \* the files it has listed and not read yet
    configs,    \* configs, the result in the making
    clients,    \* the clients of the Syncer
    gone,       \* those that the last load found deconfigured
    since,      \* history: every state of all this since the load began
    edits

vars == <<files, denied, load, todo, configs, clients, gone, since, edits>>

FileStates == [Files -> Texts \cup {Absent, Garbled}]
Moments == [files : FileStates, denied : SUBSET Inputs]
now == [files |-> files, denied |-> denied]

TypeOK ==
    /\ files \in FileStates
    /\ denied \subseteq Inputs
    /\ load \in {"idle", "reading", "done", "failed"}
    /\ todo \subseteq Files
    /\ configs \in [Clients -> Conf \cup {None}]
    /\ clients \subseteq Clients
    /\ gone \subseteq Clients
    /\ since \subseteq Moments
    /\ edits \in Nat

NoConfigs == [c \in Clients |-> None]

Init ==
    /\ files \in FileStates
    /\ denied = {}
    /\ load = "idle"
    /\ todo = {}
    /\ configs = NoConfigs
    /\ clients = {} /\ gone = {}
    /\ since = {now}
    /\ edits = 0

-----------------------------------------------------------------------------
(* One client's configuration. *)

resolvePath(p) == IF p.place = None THEN [p EXCEPT !.place = "ClientsDir"] ELSE p

\* Mutant: the certificate's path is taken as it is.
ResolvedKeyOnly(c, d) ==
    LET key == resolvePath(d.key)
    IN  [key  |-> key,
         cert |-> IF d.cert = None THEN key ELSE d.cert,
         dir  |-> IF d.dir = None THEN c ELSE d.dir]

\* setDefaults, resolveKeyPair and the default of the directory.
Resolved(c, d) ==
    LET key == resolvePath(d.key)
    IN  [key  |-> key,
         cert |-> IF d.cert = None THEN key ELSE resolvePath(d.cert),
         dir  |-> IF d.dir = None THEN c ELSE d.dir]

Declares(text, c) == text \notin {Absent, Garbled} /\ text[c] # None

\* validate.
Valid(text) ==
    /\ text \notin {Absent, Garbled}
    /\ \A c \in Clients : text[c] # None => text[c].key # None

-----------------------------------------------------------------------------
(* LoadClients. *)

\* The directory is listed.
List ==
    /\ load # "reading" /\ ClientsDir \notin denied
    /\ load' = "reading"
    /\ todo' = {f \in Files : files[f] # Absent}
    /\ configs' = NoConfigs
    /\ since' = {now}
    /\ UNCHANGED <<files, denied, clients, gone, edits>>

\* It cannot be: there is nothing to clean up, and the clients stay.
ListFails ==
    /\ load # "reading" /\ ClientsDir \in denied
    /\ load' = "failed"
    /\ configs' = NoConfigs
    /\ gone' = {}
    /\ since' = {now}
    /\ UNCHANGED <<files, denied, todo, clients, edits>>

Next1(f) == f \in todo /\ \A g \in todo : f <= g

\* The file can be read, parses, and its clients are valid.
Readable(w, f) == f \notin w.denied /\ Valid(w.files[f])

\* Mutant: the first file that names a client wins.
ReadFirstWins(f) ==
    /\ load = "reading" /\ Next1(f) /\ Readable(now, f)
    /\ todo' = todo \ {f}
    /\ configs' = [c \in Clients |->
          IF Declares(files[f], c) /\ configs[c] = None
          THEN Resolved(c, files[f][c]) ELSE configs[c]]
    /\ UNCHANGED <<files, denied, load, clients, gone, since, edits>>

\* Mutant: configs is made anew for each file.
ReadForgets(f) ==
    /\ load = "reading" /\ Next1(f) /\ Readable(now, f)
    /\ todo' = todo \ {f}
    /\ configs' = [c \in Clients |->
          IF Declares(files[f], c) THEN Resolved(c, files[f][c]) ELSE None]
    /\ UNCHANGED <<files, denied, load, clients, gone, since, edits>>

\* The next file is read, and a client that was already there overwritten.
Read(f) ==
    /\ load = "reading" /\ Next1(f) /\ Readable(now, f)
    /\ todo' = todo \ {f}
    /\ configs' = [c \in Clients |->
          IF Declares(files[f], c) THEN Resolved(c, files[f][c]) ELSE configs[c]]
    /\ UNCHANGED <<files, denied, load, clients, gone, since, edits>>

\* It is gone or cannot be read, does not parse, or has a client without a key.
ReadFails(f) ==
    /\ load = "reading" /\ Next1(f) /\ ~Readable(now, f)
    /\ load' = "failed"
    /\ todo' = {}
    /\ configs' = NoConfigs
    /\ gone' = {}
    /\ UNCHANGED <<files, denied, clients, since, edits>>

\* The Syncer takes the new clients and gives up the others.
Finish ==
    /\ load = "reading" /\ todo = {}
    /\ load' = "done"
    /\ clients' = {c \in Clients : configs[c] # None}
    /\ gone' = {c \in clients : configs[c] = None}
    /\ UNCHANGED <<files, denied, todo, configs, since, edits>>

Load == List \/ ListFails \/ (\E f \in Files : Read(f) \/ ReadFails(f)) \/ Finish

-----------------------------------------------------------------------------
(* What others do. *)

\* A file is replaced as a whole, as by rename(2).
Edit(f, text) ==
    /\ edits < MaxEdits
    /\ edits' = edits + 1
    /\ files' = [files EXCEPT ![f] = text]
    /\ UNCHANGED <<denied, load, todo, configs, clients, gone>>
    /\ since' = since \cup {now'}

\* Things cannot be read any more, or can be again.
Deny(S) ==
    /\ edits < MaxEdits
    /\ edits' = edits + 1
    /\ denied' = S
    /\ UNCHANGED <<files, load, todo, configs, clients, gone>>
    /\ since' = since \cup {now'}

\* A client is added to a file, changed or taken out of it.
EditClient(f, c, d) ==
    /\ files[f] \notin {Absent, Garbled}
    /\ Edit(f, [files[f] EXCEPT ![c] = d])

\* The file is made, emptied, removed or cannot be parsed.
EditFile(f, text) ==
    /\ files[f] # text
    /\ Edit(f, text)

Next ==
    \/ Load
    \/ \E f \in Files, c \in Clients, d \in Declared \cup {None} : EditClient(f, c, d)
    \/ \E f \in Files, text \in {Absent, Garbled, NoConfigs} : EditFile(f, text)
    \/ \E S \in SUBSET Inputs : Deny(S)

Spec == Init /\ [][Next]_vars

\* Run loads again and again.
FairSpec == Spec /\ WF_vars(Load)

-----------------------------------------------------------------------------
(* Properties. *)

\* The reference: of the files in S, the last that declares a client has the
\* say.
IsMerged(conf, S, c) ==
    \/ conf = None /\ \A f \in S : ~Declares(files[f], c)
    \/ \E f \in S :
         /\ Declares(files[f], c)
         /\ conf = Resolved(c, files[f][c])
         /\ \A g \in S : Declares(files[g], c) => g <= f

\* What the files say of a client has been the same all along.
Entry(text, c) == IF Declares(text, c) THEN text[c] ELSE None
Steady(c) == \A past \in since, f \in Files :
                 Entry(past.files[f], c) = Entry(files[f], c)

\* A load that succeeds has listed the directory, read each file that was there
\* all along, and merged for each client what the files said of it, if they said
\* the same all along, whatever happened to the rest of them.  It fails only
\* over a directory, or a file seen there, that it could not read.
LoadMerges ==
    /\ load = "done" =>
         /\ \A c \in Clients : Steady(c) => IsMerged(configs[c], Files, c)
         /\ \A f \in Files : (\A past \in since : past.files[f] # Absent) =>
                \E past \in since : Readable(past, f)
         /\ \E past \in since : ClientsDir \notin past.denied
    /\ load = "failed" =>
         \/ \E past \in since : ClientsDir \in past.denied
         \/ \E f \in Files :
              /\ \E past \in since : past.files[f] # Absent
              /\ \E past \in since : ~Readable(past, f)

\* Under edits, too, each configuration is one that a file stated while the
\* load went on, as a whole.
NothingMadeUp ==
    \A c \in Clients : configs[c] # None =>
        \E past \in since, f \in Files :
            /\ Readable(past, f) /\ Declares(past.files[f], c)
            /\ configs[c] = Resolved(c, past.files[f][c])

\* A client that some file declares all along is not removed, whatever
\* happens to the other files, and whatever that file says of it.
Kept(c) == \E f \in Files : \A past \in since : Declares(past.files[f], c)

InPlaceIsKept == load = "done" => \A c \in gone : ~Kept(c)

\* "This function returns clients that have been deconfigured, which are
\* expected to be cleaned up" (syncer.go, LoadClients).
OnlyDeconfigured ==
    load = "done" => \A c \in gone :
        \E past \in since : \A f \in Files : ~Declares(past.files[f], c)

\* What the inductive invariant says of a load in progress: the files read
\* so far, and the clients that they declared all along.
Progress ==
    /\ \E past \in since : ClientsDir \notin past.denied
    /\ \A f \in todo : \E past \in since : past.files[f] # Absent
    /\ \A f \in Files :
         (\A past \in since : past.files[f] # Absent) =>
             f \in todo \/ \E past \in since : Readable(past, f)
    /\ \A f \in Files, c \in Clients :
         (\A past \in since : Declares(past.files[f], c)) =>
             f \in todo \/ configs[c] # None
    /\ \A c \in Clients : Steady(c) =>
         /\ IsMerged(configs[c], Files \ todo, c)
         /\ \A f \in Files \ todo, g \in todo : Declares(files[f], c) => f < g

LoadInv ==
    /\ load # "reading" => todo = {}
    /\ now \in since
    /\ load \in {"reading", "done"} => Progress
    /\ NothingMadeUp /\ InPlaceIsKept /\ LoadMerges

Configured == {c \in Clients : \E f \in Files : Declares(files[f], c)}

\* Once the files stay as they are, are valid and can be read, the Syncer comes
\* to have the clients they declare.
Converges ==
    <>[](/\ ClientsDir \notin denied
         /\ \A f \in Files : files[f] = Absent \/ Readable(now, f)) =>
        <>[](clients = Configured)
=============================================================================
