----------------------------- MODULE WriteFile ------------------------------
(***************************************************************************)
(* WriteFileAtomically (output/write.go), system call by system call, by   *)
(* several writers of one path: a client's secret, or one of the two files *)
(* of a backup.  Other users open the path and the temporary files next to *)
(* it at any moment, files are removed, and the process dies.              *)
(***************************************************************************)
EXTENDS Naturals

CONSTANTS
    Writers,    \* goroutines that call WriteFileAtomically for the path
    Users,      \* users and groups whose processes open files; not root
    Self,       \* the user keysync runs as
    Inodes,     \* files the kernel can hold
    Values,     \* contents
    Infos,      \* FileInfos: owner, and who may read
    ChownFiles, \* whether files get their owner, or stay Self's
    Size,       \* system calls that writing a content takes
    Filesystems,\* types of filesystem the directory may be on
    Enforced,   \* {}, or the type of filesystem the content may be written to
    None,
    MaxUpsets   \* bound on failing calls, removals and deaths

Everyone == {"owner", "other"}

ASSUME InfosAssumption ==
    /\ Self \in Users
    /\ Infos \subseteq [owner : Users, mode : SUBSET Everyone]
    /\ \A info \in Infos : [info EXCEPT !.owner = Self] \in Infos

VARIABLES
    files,      \* every file the kernel holds
    path,       \* the file at the path, or None
    temps,      \* files at a temporary name
    pc,         \* where each writer is
    arg,        \* the content and attributes it was called with
    fd,         \* f: the temporary file it has made
    stat,       \* the FileInfo it returns
    result,     \* what its last call returned
    opened,     \* the file each user has open, and by which name
    strays,     \* history: temporary files of writers that died
    upsets      \* how much has gone wrong

writers == <<pc, arg, fd, stat, result>>
vars == <<files, path, temps, writers, opened, strays, upsets>>

\* want is what the file's writer was asked for; len counts written parts.
File == [owner : Users, mode : SUBSET Everyone, val : Values, len : 0..Size,
         fs : Filesystems, want : Infos]

Arg == [val : Values, info : Infos]

ASSUME FileAssumption ==
    /\ Size \in Nat \ {0}
    /\ ChownFiles \in BOOLEAN
    /\ None \notin Inodes \cup Infos \cup File \cup Arg \cup {"ok", "error"}
    /\ Enforced \subseteq Filesystems
    /\ MaxUpsets \in Nat

TypeOK ==
    /\ files \in [Inodes -> File \cup {None}]
    /\ path \in Inodes \cup {None}
    /\ temps \subseteq Inodes
    /\ pc \in [Writers -> {"idle", "create", "chown", "chmod", "check",
                           "write", "stat", "rename", "remove"}]
    /\ arg \in [Writers -> Arg \cup {None}]
    /\ fd \in [Writers -> Inodes \cup {None}]
    /\ stat \in [Writers -> Infos \cup {None}]
    /\ result \in [Writers -> {"ok", "error", None}]
    /\ opened \in [Users -> [file : Inodes, by : {"path", "temp"}] \cup {None}]
    /\ strays \subseteq Inodes
    /\ upsets \in Nat

NoWriter(x) == [w \in Writers |-> x]

Init ==
    /\ files = [i \in Inodes |-> None]
    /\ path = None
    /\ temps = {}
    /\ pc = NoWriter("idle")
    /\ arg = NoWriter(None) /\ fd = NoWriter(None) /\ stat = NoWriter(None)
    /\ result = NoWriter(None)
    /\ opened = [u \in Users |-> None]
    /\ strays = {}
    /\ upsets = 0

Upset ==
    /\ upsets < MaxUpsets
    /\ upsets' = upsets + 1

Goto(w, place) == pc' = [pc EXCEPT ![w] = place]

InfoOf(f) == [owner |-> f.owner, mode |-> f.mode]

\* The attributes a call gives its file: without chownFiles it stays Self's.
Asked(a) == IF ChownFiles THEN a.info ELSE [a.info EXCEPT !.owner = Self]

Permits(info, u) == (IF u = info.owner THEN "owner" ELSE "other") \in info.mode

Used == {path} \cup temps \cup {fd[w] : w \in Writers}
          \cup {opened[u].file : u \in {v \in Users : opened[v] # None}}

-----------------------------------------------------------------------------
Call(w) ==
    /\ pc[w] = "idle"
    /\ \E a \in Arg : arg' = [arg EXCEPT ![w] = a]
    /\ result' = [result EXCEPT ![w] = None]
    /\ Goto(w, "create")
    /\ UNCHANGED <<files, path, temps, fd, stat, opened, strays, upsets>>

\* Mutant: ioutil.TempFile, readable by Self.
NewFileReadable(w, fs) ==
    [owner |-> Self, mode |-> {"owner"}, val |-> arg[w].val, len |-> 0,
     fs |-> fs, want |-> Asked(arg[w])]

\* A name nobody has (random suffix, O_EXCL), with mode 0000.
NewFile(w, fs) ==
    [owner |-> Self, mode |-> {}, val |-> arg[w].val, len |-> 0, fs |-> fs,
     want |-> Asked(arg[w])]

Create(w) ==
    /\ pc[w] = "create"
    /\ \E i \in Inodes \ Used, fs \in Filesystems :
        /\ files[i] = None
        /\ files' = [files EXCEPT ![i] = NewFile(w, fs)]
        /\ temps' = temps \cup {i}
        /\ fd' = [fd EXCEPT ![w] = i]
    /\ Goto(w, IF ChownFiles THEN "chown" ELSE "chmod")
    /\ UNCHANGED <<path, arg, stat, result, opened, strays, upsets>>

Chown(w) ==
    /\ pc[w] = "chown"
    /\ files' = [files EXCEPT ![fd[w]].owner = arg[w].info.owner]
    /\ Goto(w, "chmod")
    /\ UNCHANGED <<path, temps, arg, fd, stat, result, opened, strays, upsets>>

Chmod(w) ==
    /\ pc[w] = "chmod"
    /\ files' = [files EXCEPT ![fd[w]].mode = arg[w].info.mode]
    /\ Goto(w, IF Enforced = {} THEN "write" ELSE "check")
    /\ UNCHANGED <<path, temps, arg, fd, stat, result, opened, strays, upsets>>

CheckFilesystem(w) ==
    /\ pc[w] = "check"
    /\ files[fd[w]].fs \in Enforced
    /\ Goto(w, "write")
    /\ UNCHANGED <<files, path, temps, arg, fd, stat, result, opened, strays,
                   upsets>>

\* Mutant: the first write is taken for the whole one.
WriteOnce(w) ==
    /\ pc[w] = "write"
    /\ files' = [files EXCEPT ![fd[w]].len = @ + 1]
    /\ Goto(w, "stat")
    /\ UNCHANGED <<path, temps, arg, fd, stat, result, opened, strays, upsets>>

\* Mutant: one time too often.
WriteTooMuch(w) ==
    /\ pc[w] = "write"
    /\ files' = [files EXCEPT ![fd[w]].len = @ + 1]
    /\ Goto(w, IF files[fd[w]].len = Size THEN "stat" ELSE "write")
    /\ UNCHANGED <<path, temps, arg, fd, stat, result, opened, strays, upsets>>

\* File.Write repeats the system call until everything is written.
Write(w) ==
    /\ pc[w] = "write"
    /\ files' = [files EXCEPT ![fd[w]].len = @ + 1]
    /\ Goto(w, IF files[fd[w]].len + 1 = Size THEN "stat" ELSE "write")
    /\ UNCHANGED <<path, temps, arg, fd, stat, result, opened, strays, upsets>>

GetFileInfo(w) ==
    /\ pc[w] = "stat"
    /\ stat' = [stat EXCEPT ![w] = InfoOf(files[fd[w]])]
    /\ Goto(w, "rename")
    /\ UNCHANGED <<files, path, temps, arg, fd, result, opened, strays, upsets>>

Rename(w) ==
    /\ pc[w] = "rename"
    /\ fd[w] \in temps
    /\ path' = fd[w]
    /\ temps' = temps \ {fd[w]}
    /\ strays' = strays \ {fd[w]}
    /\ result' = [result EXCEPT ![w] = "ok"]
    /\ Goto(w, "remove")
    /\ UNCHANGED <<files, arg, fd, stat, opened, upsets>>

\* Early returns.  The temporary file is removed on the way out.
Return(w, r) ==
    /\ result' = [result EXCEPT ![w] = r]
    /\ Goto(w, "remove")
    /\ UNCHANGED <<files, path, temps, arg, fd, stat, opened, strays>>

\* Mutant: an early return that skips the deferred removal.
FailUnclean(w) ==
    /\ pc[w] \notin {"idle", "remove"}
    /\ Upset
    /\ result' = [result EXCEPT ![w] = "error"]
    /\ pc' = [pc EXCEPT ![w] = "idle"]
    /\ arg' = [arg EXCEPT ![w] = None]
    /\ fd' = [fd EXCEPT ![w] = None]
    /\ stat' = [stat EXCEPT ![w] = None]
    /\ UNCHANGED <<files, path, temps, opened, strays>>

Fail(w) ==
    /\ pc[w] \notin {"idle", "remove"}
    /\ Upset
    /\ Return(w, "error")

NoSpace(w) ==
    /\ pc[w] = "create"
    /\ \A i \in Inodes : i \in Used \/ files[i] # None
    /\ UNCHANGED upsets
    /\ Return(w, "error")

WrongFilesystem(w) ==
    /\ pc[w] = "check"
    /\ files[fd[w]].fs \notin Enforced
    /\ UNCHANGED upsets
    /\ Return(w, "error")

RenameFails(w) ==
    /\ pc[w] = "rename"
    /\ fd[w] \notin temps
    /\ UNCHANGED upsets
    /\ Return(w, "error")

\* The deferred os.Remove, whose error is ignored, and the return.
Leave(w) ==
    /\ pc[w] = "remove"
    /\ arg' = [arg EXCEPT ![w] = None]
    /\ fd' = [fd EXCEPT ![w] = None]
    /\ stat' = [stat EXCEPT ![w] = None]
    /\ Goto(w, "idle")
    /\ UNCHANGED <<files, result, opened>>

\* Mutant: what the path names is removed.
RemovePathAfter(w) ==
    /\ Leave(w)
    /\ temps' = temps \ {fd[w]}
    /\ path' = IF result[w] = "error" THEN None ELSE path
    /\ UNCHANGED <<strays, upsets>>

RemoveTemp(w) ==
    /\ Leave(w)
    /\ temps' = temps \ {fd[w]}
    /\ strays' = strays \ {fd[w]}
    /\ UNCHANGED <<path, upsets>>

RemoveTempFails(w) ==
    /\ Leave(w)
    /\ fd[w] \in temps
    /\ Upset
    /\ strays' = strays \cup {fd[w]}
    /\ UNCHANGED <<path, temps>>

Step(w) ==
    \/ Call(w) \/ Create(w) \/ Chown(w) \/ Chmod(w) \/ CheckFilesystem(w)
    \/ Write(w) \/ GetFileInfo(w) \/ Rename(w)
    \/ Fail(w) \/ NoSpace(w) \/ WrongFilesystem(w) \/ RenameFails(w)
    \/ RemoveTemp(w) \/ RemoveTempFails(w)

-----------------------------------------------------------------------------
(* The environment. *)

Open(u) ==
    /\ opened[u] = None
    /\ \E i \in temps \cup ({path} \ {None}) :
        /\ Permits(InfoOf(files[i]), u)
        /\ opened' = [opened EXCEPT ![u] =
               [file |-> i, by |-> IF i = path THEN "path" ELSE "temp"]]
    /\ UNCHANGED <<files, path, temps, writers, strays, upsets>>

Close(u) ==
    /\ opened[u] # None
    /\ opened' = [opened EXCEPT ![u] = None]
    /\ UNCHANGED <<files, path, temps, writers, strays, upsets>>

\* The kernel frees a file that has no name and is not open.
Free(i) ==
    /\ files[i] # None /\ i \notin Used
    /\ files' = [files EXCEPT ![i] = None]
    /\ UNCHANGED <<path, temps, writers, opened, strays, upsets>>

\* OutputDir.Remove, OutputDir.Cleanup or another process.
Unlink(i) ==
    /\ i \in temps \cup {path}
    /\ Upset
    /\ path' = IF i = path THEN None ELSE path
    /\ temps' = temps \ {i}
    /\ strays' = strays \ {i}
    /\ UNCHANGED <<files, writers, opened>>

Die ==
    /\ Upset
    /\ pc' = NoWriter("idle")
    /\ arg' = NoWriter(None) /\ fd' = NoWriter(None) /\ stat' = NoWriter(None)
    /\ result' = NoWriter(None)
    /\ strays' = temps
    /\ UNCHANGED <<files, path, temps, opened>>

Environment ==
    \/ \E u \in Users : Open(u) \/ Close(u)
    \/ \E i \in Inodes : Free(i) \/ Unlink(i)
    \/ Die

Next == (\E w \in Writers : Step(w)) \/ Environment

Spec == Init /\ [][Next]_vars

-----------------------------------------------------------------------------
(* Properties. *)

\* "Nobody can open the file before we set owner/permissions properly": who
\* has a file open, the finished one or a temporary one, may read it by the
\* attributes the caller of WriteFileAtomically asked for.
OnlyPermitted ==
    \A u \in Users : opened[u] # None => Permits(files[opened[u].file].want, u)

\* "Nobody observes a partially-overwritten secret file": what was opened by
\* the path is complete, with its final owner and mode, on a permitted
\* filesystem.
ReadsWhole ==
    \A u \in Users : opened[u] # None /\ opened[u].by = "path" =>
        LET f == files[opened[u].file] IN
        /\ f.len = Size
        /\ InfoOf(f) = f.want
        /\ Enforced # {} => f.fs \in Enforced

\* Nobody who reads the path sees the file change under his hands, whatever
\* writers do next: a file once renamed is never written to again.
PublishedStays ==
    [][\A u \in Users : opened[u] # None /\ opened[u].by = "path" =>
           files'[opened[u].file] = files[opened[u].file]]_vars

\* A call leaves no temporary file behind, whether it succeeds or returns
\* early, unless its process dies or the deferred removal itself fails.
NoStrayFiles == temps \subseteq strays \cup {fd[w] : w \in Writers}

\* What the file at a writer's hands is like at each place of the code.
WriterOK(w) ==
    LET f == files[fd[w]]
        a == arg[w]
    IN
    /\ pc[w] = "idle" <=> a = None
    /\ pc[w] \in {"idle", "create"} => fd[w] = None
    /\ pc[w] \notin {"idle", "create", "remove"} =>
         /\ fd[w] # None /\ f # None /\ fd[w] # path
         /\ f.val = a.val /\ f.want = Asked(a)
         /\ f.len < Size \/ pc[w] \in {"stat", "rename"}
    /\ pc[w] \in {"chown", "chmod"} => f.mode = {}
    /\ pc[w] \in {"check", "write", "stat", "rename"} => InfoOf(f) = Asked(a)
    /\ pc[w] \in {"chown", "chmod", "check"} => f.len = 0
    /\ pc[w] = "chown" => ChownFiles
    /\ pc[w] = "chmod" => f.owner = Asked(a).owner
    /\ pc[w] \in {"stat", "rename"} => f.len = Size
    /\ pc[w] \in {"write", "stat", "rename"} /\ Enforced # {} => f.fs \in Enforced
    /\ pc[w] = "rename" => stat[w] = Asked(a)
    /\ pc[w] = "remove" =>
         /\ result[w] = "ok" => stat[w] = Asked(a) /\ fd[w] \notin temps
         /\ result[w] # None
         /\ fd[w] # None /\ result[w] = "error" => fd[w] # path
    /\ pc[w] \notin {"idle", "remove"} => result[w] = None

\* A file is readable by no more users than it will be in the end, a file at
\* the path is finished, and an open file is one of the two.
FilesInv ==
    /\ \A i \in Inodes : files[i] # None =>
         files[i].mode = {} \/ InfoOf(files[i]) = files[i].want
    /\ \A i \in temps \cup ({path} \ {None}) : files[i] # None
    /\ path \notin temps
    /\ path # None =>
         /\ files[path].len = Size
         /\ InfoOf(files[path]) = files[path].want
         /\ Enforced # {} => files[path].fs \in Enforced
    /\ \A u \in Users : opened[u] # None =>
         /\ files[opened[u].file] # None
         /\ InfoOf(files[opened[u].file]) = files[opened[u].file].want
         /\ Permits(files[opened[u].file].want, u)
         /\ opened[u].by = "path" =>
              /\ files[opened[u].file].len = Size
              /\ Enforced # {} => files[opened[u].file].fs \in Enforced
              /\ \A w \in Writers : fd[w] = opened[u].file => pc[w] = "remove"

\* Writers never share a file.
Apart == \A w, x \in Writers : fd[w] = fd[x] /\ fd[w] # None => w = x

\* The inductive invariant: the state of each writer's file at each place of
\* WriteFileAtomically, and of the files others may open.
WriteInv ==
    /\ \A w \in Writers : WriterOK(w)
    /\ FilesInv
    /\ Apart
    /\ NoStrayFiles

-----------------------------------------------------------------------------
(* WriteFileAtomically implements FileRegister. *)

Register == INSTANCE FileRegister WITH
    file <- IF path = None THEN None
            ELSE [val |-> files[path].val, info |-> InfoOf(files[path])],
    call <- [w \in Writers |->
               IF pc[w] = "idle" THEN None
               ELSE [val |-> arg[w].val, info |-> Asked(arg[w])]],
    put <- {w \in Writers : pc[w] = "remove" /\ result[w] = "ok"},
    result <- [w \in Writers |-> IF pc[w] = "idle" THEN result[w] ELSE None]

\* "Rename is atomic", and "if Output.Write fails, then no changes to the
\* secret on-disk were made" (syncer.go): a call replaces content, owner and
\* mode at once and returns no error, or does nothing and returns one.
ImplementsRegister == Register!Spec
=============================================================================
