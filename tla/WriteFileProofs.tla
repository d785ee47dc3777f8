-------------------------- MODULE WriteFileProofs ---------------------------
(* Theorems about WriteFile. *)
EXTENDS WriteFile, TLAPS

USE DEF NoWriter, Goto, InfoOf, Upset, writers

Inv == TypeOK /\ WriteInv

\* Used, without the set of files that users have open.
LEMMA UsedFacts ==
    ASSUME TypeOK, NEW i \in Inodes, i \notin Used
    PROVE  /\ i # path /\ i \notin temps
           /\ \A w \in Writers : fd[w] # i
           /\ \A u \in Users : opened[u] # None => opened[u].file # i
  BY DEF Used, TypeOK

LEMMA AskedType ==
    ASSUME NEW a \in Arg
    PROVE  /\ Asked(a) \in Infos
           /\ Asked(a).mode = a.info.mode
           /\ Asked(a).owner = IF ChownFiles THEN a.info.owner ELSE Self
  <1>1. a.info \in Infos /\ a.info \in [owner : Users, mode : SUBSET Everyone]
    BY InfosAssumption DEF Arg
  <1>2. [a.info EXCEPT !.owner = Self] \in Infos
    BY <1>1, InfosAssumption
  <1> QED
    BY <1>1, <1>2 DEF Asked

\* What a writer needs of a step that is not its own.
LEMMA WriterFrame ==
    ASSUME NEW x \in Writers, WriterOK(x),
           pc'[x] = pc[x], arg'[x] = arg[x], fd'[x] = fd[x],
           stat'[x] = stat[x], result'[x] = result[x],
           fd[x] # None => files'[fd[x]] = files[fd[x]],
           fd[x] # None => path' = path \/ path' # fd[x],
           fd[x] \in temps' => fd[x] \in temps
    PROVE  WriterOK(x)'
  BY DEF WriterOK, Asked

LEMMA InitInv == Init => Inv
  <1> SUFFICES ASSUME Init PROVE Inv
    OBVIOUS
  <1>1. TypeOK
    BY FileAssumption DEF Init, TypeOK
  <1>2. WriteInv
    BY FileAssumption DEF Init, WriteInv, WriterOK, FilesInv, Apart, NoStrayFiles
  <1> QED
    BY <1>1, <1>2 DEF Inv

\* A writer between Create and Leave has a file of its own in hand.
LEMMA InHand ==
    ASSUME Inv, NEW w \in Writers, pc[w] \notin {"idle", "create", "remove"}
    PROVE  /\ fd[w] \in Inodes /\ fd[w] # None /\ fd[w] # path
           /\ files[fd[w]] \in File
           /\ arg[w] \in Arg
           /\ Asked(arg[w]) \in Infos
           /\ \A x \in Writers \ {w} : fd[x] # fd[w]
           /\ result[w] = None
  <1>1. WriterOK(w) /\ Apart
    BY DEF Inv, WriteInv
  <1>2. arg[w] # None /\ fd[w] # None /\ files[fd[w]] # None /\ fd[w] # path
        /\ result[w] = None
    BY <1>1 DEF WriterOK, Inv, TypeOK
  <1>3. arg[w] \in Arg
    BY <1>2 DEF Inv, TypeOK
  <1> QED
    BY <1>1, <1>2, <1>3, AskedType DEF Inv, TypeOK, Apart

-----------------------------------------------------------------------------
(* Types. *)

LEMMA NewFileType ==
    ASSUME NEW w \in Writers, arg[w] \in Arg, NEW fs \in Filesystems
    PROVE  NewFile(w, fs) \in File
  <1>1. Asked(arg[w]) \in Infos
    BY AskedType
  <1> QED
    BY <1>1, InfosAssumption, FileAssumption DEF NewFile, File, Arg

\* The steps that change the file in a writer's hands.
LEMMA FileChangeType ==
    ASSUME Inv, NEW w \in Writers, pc[w] \notin {"idle", "create", "remove"},
           Chown(w) \/ Chmod(w) \/ Write(w)
    PROVE  files' \in [Inodes -> File \cup {None}]
  <1> USE InHand
  <1>0. files \in [Inodes -> File \cup {None}]
    BY DEF Inv, TypeOK
  <1>1. arg[w].info.owner \in Users /\ arg[w].info.mode \in SUBSET Everyone
    BY InfosAssumption DEF Arg
  <1>2. CASE Chown(w)
    <2>1. [files[fd[w]] EXCEPT !.owner = arg[w].info.owner] \in File
      BY <1>1 DEF File
    <2> QED
      BY <2>1, <1>0, <1>2 DEF Chown
  <1>3. CASE Chmod(w)
    <2>1. [files[fd[w]] EXCEPT !.mode = arg[w].info.mode] \in File
      BY <1>1 DEF File
    <2> QED
      BY <2>1, <1>0, <1>3 DEF Chmod
  <1>4. CASE Write(w)
    <2>1. files[fd[w]].len \in 0..Size /\ files[fd[w]].len < Size
      BY <1>4 DEF Write, Inv, WriteInv, WriterOK, File
    <2>2. files[fd[w]].len + 1 \in 0..Size
      BY <2>1, FileAssumption
    <2>3. [files[fd[w]] EXCEPT !.len = @ + 1] \in File
      BY <2>2 DEF File
    <2> QED
      BY <2>3, <1>0, <1>4 DEF Write
  <1> QED
    BY <1>2, <1>3, <1>4

LEMMA StatType ==
    ASSUME Inv, NEW w \in Writers, GetFileInfo(w)
    PROVE  stat'[w] = Asked(arg[w]) /\ stat' \in [Writers -> Infos \cup {None}]
  <1>1. pc[w] = "stat"
    BY DEF GetFileInfo
  <1>2. InfoOf(files[fd[w]]) = Asked(arg[w])
    BY <1>1 DEF Inv, WriteInv, WriterOK
  <1>3. Asked(arg[w]) \in Infos
    BY <1>1, InHand
  <1> QED
    BY <1>2, <1>3 DEF GetFileInfo, Inv, TypeOK

LEMMA StepType ==
    ASSUME Inv, Next
    PROVE  TypeOK'
  <1> USE DEF TypeOK
  <1>0. TypeOK
    BY DEF Inv
  <1>1. ASSUME NEW w \in Writers, Call(w) PROVE TypeOK'
    BY <1>0, <1>1 DEF Call
  <1>2. ASSUME NEW w \in Writers, Create(w) PROVE TypeOK'
    <2>1. arg[w] \in Arg
      BY <1>2, <1>0 DEF Create, Inv, WriteInv, WriterOK
    <2> QED
      BY <2>1, <1>0, <1>2, NewFileType DEF Create
  <1>3. ASSUME NEW w \in Writers, Chown(w) \/ Chmod(w) \/ Write(w) PROVE TypeOK'
    BY <1>0, <1>3, FileChangeType DEF Chown, Chmod, Write
  <1>4. ASSUME NEW w \in Writers, GetFileInfo(w) PROVE TypeOK'
    BY <1>0, <1>4, StatType DEF GetFileInfo
  <1>5. ASSUME NEW w \in Writers, Rename(w) PROVE TypeOK'
    BY <1>0, <1>5 DEF Rename
  <1>6. ASSUME NEW w \in Writers,
               CheckFilesystem(w) \/ Fail(w) \/ NoSpace(w)
                 \/ WrongFilesystem(w) \/ RenameFails(w)
        PROVE  TypeOK'
    BY <1>0, <1>6 DEF CheckFilesystem, Fail, NoSpace, WrongFilesystem,
       RenameFails, Return
  <1>7. ASSUME NEW w \in Writers, RemoveTemp(w) PROVE TypeOK'
    BY <1>0, <1>7 DEF RemoveTemp, Leave
  <1>8. ASSUME NEW w \in Writers, RemoveTempFails(w) PROVE TypeOK'
    BY <1>0, <1>8 DEF RemoveTempFails, Leave
  <1>9. ASSUME NEW u \in Users, Open(u) PROVE TypeOK'
    <2>1. PICK i \in temps \cup ({path} \ {None}) :
            opened' = [opened EXCEPT ![u] =
              [file |-> i, by |-> IF i = path THEN "path" ELSE "temp"]]
      BY <1>9 DEF Open
    <2>2. i \in Inodes
      BY <1>0
    <2> QED
      BY <2>1, <2>2, <1>0, <1>9 DEF Open
  <1>10. ASSUME NEW u \in Users, Close(u) PROVE TypeOK'
    BY <1>0, <1>10 DEF Close
  <1>11. ASSUME NEW i \in Inodes, Free(i) \/ Unlink(i) PROVE TypeOK'
    BY <1>0, <1>11 DEF Free, Unlink
  <1>12. CASE Die
    BY <1>0, <1>12 DEF Die
  <1> QED
    BY <1>1, <1>2, <1>3, <1>4, <1>5, <1>6, <1>7, <1>8, <1>9, <1>10, <1>11,
       <1>12 DEF Next, Step, Environment

-----------------------------------------------------------------------------
(* The steps of one writer preserve WriteInv. *)

\* Every other writer keeps what it knows about its file.
LEMMA OthersKeep ==
    ASSUME Inv, NEW w \in Writers, Step(w), NEW x \in Writers \ {w}
    PROVE  WriterOK(x)'
  <1>0. WriterOK(x) /\ TypeOK /\ Apart
    BY DEF Inv, WriteInv
  <1>1. pc'[x] = pc[x] /\ arg'[x] = arg[x] /\ fd'[x] = fd[x]
        /\ stat'[x] = stat[x] /\ result'[x] = result[x]
    BY <1>0 DEF Step, Call, Create, Chown, Chmod, CheckFilesystem, Write,
       GetFileInfo, Rename, Fail, NoSpace, WrongFilesystem, RenameFails, Return,
       RemoveTemp, RemoveTempFails, Leave, TypeOK
  <1>2. fd[x] # None => fd[x] # fd[w]
    BY <1>0 DEF Apart
  <1>3. CASE Create(w)
    <2>1. PICK i \in Inodes \ Used :
            /\ \E fs \in Filesystems :
                 files' = [files EXCEPT ![i] = NewFile(w, fs)]
            /\ temps' = temps \cup {i}
            /\ path' = path
      BY <1>3 DEF Create
    <2>2. fd[x] # i
      BY <2>1, <1>0, UsedFacts
    <2> QED
      BY <2>1, <2>2, <1>0, <1>1, WriterFrame DEF TypeOK
  <1>4. CASE Chown(w) \/ Chmod(w) \/ Write(w) \/ GetFileInfo(w) \/ CheckFilesystem(w)
    <2>1. fd[x] # None => files'[fd[x]] = files[fd[x]]
      BY <1>4, <1>2, <1>0 DEF Chown, Chmod, Write, GetFileInfo,
         CheckFilesystem, TypeOK
    <2>2. path' = path /\ temps' = temps
      BY <1>4 DEF Chown, Chmod, Write, GetFileInfo, CheckFilesystem
    <2> QED
      BY <2>1, <2>2, <1>0, <1>1, WriterFrame
  <1>5. CASE Rename(w)
    <2>1. files' = files /\ path' = fd[w] /\ temps' \subseteq temps
      BY <1>5 DEF Rename
    <2> QED
      BY <2>1, <1>0, <1>1, <1>2, WriterFrame
  <1>6. CASE Call(w) \/ Fail(w) \/ NoSpace(w) \/ WrongFilesystem(w)
             \/ RenameFails(w) \/ RemoveTemp(w) \/ RemoveTempFails(w)
    <2>1. files' = files /\ path' = path /\ temps' \subseteq temps
      BY <1>6 DEF Call, Fail, NoSpace, WrongFilesystem, RenameFails, Return,
         RemoveTemp, RemoveTempFails, Leave
    <2> QED
      BY <2>1, <1>0, <1>1, WriterFrame
  <1> QED
    BY <1>3, <1>4, <1>5, <1>6 DEF Step

\* The writer itself: one fact about its file for each place of the code.
LEMMA SelfKeeps ==
    ASSUME Inv, NEW w \in Writers, Step(w), TypeOK'
    PROVE  WriterOK(w)'
  <1>0. WriterOK(w) /\ TypeOK
    BY DEF Inv, WriteInv
  <1> USE <1>0, FileAssumption DEF WriterOK
  <1>1. CASE Call(w)
    BY <1>1 DEF Call, TypeOK
  <1>2. CASE Create(w)
    <2>1. PICK i \in Inodes \ Used, fs \in Filesystems :
            /\ files' = [files EXCEPT ![i] = NewFile(w, fs)]
            /\ fd' = [fd EXCEPT ![w] = i]
      BY <1>2 DEF Create
    <2>2. arg[w] \in Arg /\ i # path /\ i # None /\ result[w] = None
      BY <2>1, <1>2, UsedFacts DEF Create, TypeOK
    <2>3. files'[i] = NewFile(w, fs) /\ fd'[w] = i /\ arg' = arg /\ path' = path
          /\ result' = result /\ pc'[w] = IF ChownFiles THEN "chown" ELSE "chmod"
      BY <2>1, <1>2 DEF Create, TypeOK
    <2>4. NewFile(w, fs) # None
      BY <2>2, NewFileType
    <2>5. Asked(arg[w]).owner = Self \/ ChownFiles
      BY <2>2, AskedType
    <2> QED
      BY <2>2, <2>3, <2>4, <2>5 DEF NewFile, Asked
  <1>3. CASE Chown(w) \/ Chmod(w)
    <2>1. /\ arg[w] \in Arg /\ files[fd[w]] \in File /\ fd[w] # None
          /\ fd[w] \in Inodes /\ fd[w] # path /\ result[w] = None
      BY <1>3, InHand DEF Chown, Chmod
    <2>2. Asked(arg[w]).mode = arg[w].info.mode
          /\ Asked(arg[w]).owner = IF ChownFiles THEN arg[w].info.owner ELSE Self
      BY <2>1, AskedType
    <2>3. Asked(arg[w]) = [owner |-> Asked(arg[w]).owner, mode |-> Asked(arg[w]).mode]
      BY <2>1, AskedType, InfosAssumption
    <2>4. arg' = arg /\ fd' = fd /\ path' = path /\ result' = result
      BY <1>3 DEF Chown, Chmod
    <2>5. CASE Chown(w)
      <3>1. files'[fd[w]] = [files[fd[w]] EXCEPT !.owner = arg[w].info.owner]
            /\ pc'[w] = "chmod" /\ ChownFiles
        BY <2>5, <2>1 DEF Chown, TypeOK
      <3>2. files'[fd[w]] \in File
        BY <3>1, <2>1, <2>2, InfosAssumption DEF File, Arg
      <3> QED
        BY <2>5, <2>1, <2>2, <2>4, <3>1, <3>2 DEF Chown, Asked, File
    <2>6. CASE Chmod(w)
      <3>1. files'[fd[w]] = [files[fd[w]] EXCEPT !.mode = arg[w].info.mode]
            /\ pc'[w] = IF Enforced = {} THEN "write" ELSE "check"
        BY <2>6, <2>1 DEF Chmod, TypeOK
      <3>2. files'[fd[w]] \in File
        BY <3>1, <2>1, <2>2, InfosAssumption DEF File, Arg
      <3>3. InfoOf(files'[fd[w]]) = Asked(arg[w])
        BY <3>1, <2>1, <2>2, <2>3, <2>6 DEF Chmod, File
      <3>4. files'[fd[w]].len = 0 /\ files'[fd[w]].val = arg[w].val
            /\ files'[fd[w]].want = Asked(arg[w])
        BY <3>1, <2>1, <2>6 DEF Chmod, File
      <3> QED
        BY <2>6, <2>1, <2>4, <3>1, <3>2, <3>3, <3>4 DEF Chmod, Asked
    <2> QED
      BY <1>3, <2>5, <2>6
  <1>4. CASE CheckFilesystem(w)
    BY <1>4, InHand DEF CheckFilesystem, TypeOK, Asked, File
  <1>5. CASE Write(w)
    <2>1. /\ files[fd[w]] \in File /\ fd[w] # None
          /\ fd[w] \in Inodes /\ fd[w] # path /\ result[w] = None
      BY <1>5, InHand DEF Write
    <2>2. files'[fd[w]] = [files[fd[w]] EXCEPT !.len = @ + 1]
      BY <1>5, <2>1 DEF Write, TypeOK
    <2>3. pc'[w] = IF files[fd[w]].len + 1 = Size THEN "stat" ELSE "write"
      BY <1>5 DEF Write, TypeOK
    <2>4. files'[fd[w]] \in File /\ files[fd[w]].len \in 0..Size
          /\ files[fd[w]].len < Size
      BY <2>1, <2>2, <1>5 DEF TypeOK, File, Write
    <2> QED
      BY <1>5, <2>1, <2>2, <2>3, <2>4 DEF Write, Asked, File
  <1>6. CASE GetFileInfo(w)
    BY <1>6, InHand, StatType DEF GetFileInfo, TypeOK, Asked
  <1>7. CASE Rename(w)
    <2>1. /\ pc[w] = "rename" /\ pc'[w] = "remove" /\ result'[w] = "ok"
          /\ fd[w] \notin temps' /\ UNCHANGED <<arg, fd, stat>>
      BY <1>7 DEF Rename, TypeOK
    <2>2. stat[w] = Asked(arg[w]) /\ fd[w] # None /\ arg[w] # None
      BY <2>1, InHand
    <2> QED
      BY <2>1, <2>2 DEF Asked
  <1>8. CASE Fail(w) \/ NoSpace(w) \/ WrongFilesystem(w) \/ RenameFails(w)
    <2>1. pc[w] \notin {"idle", "remove"} /\ pc'[w] = "remove"
          /\ result'[w] = "error"
          /\ UNCHANGED <<files, path, temps, arg, fd, stat>>
      BY <1>8 DEF Fail, NoSpace, WrongFilesystem, RenameFails, Return, TypeOK
    <2>2. (fd[w] # None => fd[w] # path) /\ arg[w] # None
      BY <2>1
    <2> QED
      BY <2>1, <2>2
  <1>9. CASE RemoveTemp(w) \/ RemoveTempFails(w)
    BY <1>9 DEF RemoveTemp, RemoveTempFails, Leave, TypeOK
  <1> QED
    BY <1>1, <1>2, <1>3, <1>4, <1>5, <1>6, <1>7, <1>8, <1>9 DEF Step

-----------------------------------------------------------------------------
(* The files, and the invariant. *)

\* A change to the file in hand touches no file that may be read by path, and
\* the temporary file becomes readable with its final attributes.
LEMMA FilesKeepInHand ==
    ASSUME Inv, NEW w \in Writers, Chown(w) \/ Chmod(w) \/ Write(w)
    PROVE  FilesInv'
  <1>0. TypeOK /\ FilesInv /\ WriterOK(w) /\ WriterOK(w)'
    BY StepType, SelfKeeps DEF Inv, WriteInv, Next, Step
  <1>1. /\ fd[w] \in Inodes /\ fd[w] # None /\ fd[w] # path
        /\ files[fd[w]] \in File /\ arg[w] \in Arg
    BY InHand DEF Chown, Chmod, Write
  <1>2. /\ path' = path /\ temps' = temps /\ fd' = fd /\ opened' = opened
        /\ arg' = arg /\ \A i \in Inodes \ {fd[w]} : files'[i] = files[i]
        /\ pc[w] \in {"chown", "chmod", "write"}
        /\ pc' = [pc EXCEPT ![w] = pc'[w]]
    BY <1>0 DEF Chown, Chmod, Write, TypeOK
  <1>3. /\ files'[fd[w]] # None /\ files'[fd[w]].want = files[fd[w]].want
        /\ Chown(w) => files'[fd[w]].mode = {}
        /\ ~Chown(w) => InfoOf(files'[fd[w]]) = files'[fd[w]].want
    <2>1. CASE Chown(w)
      <3>1. files'[fd[w]] = [files[fd[w]] EXCEPT !.owner = arg[w].info.owner]
            /\ files[fd[w]].mode = {}
        BY <2>1, <1>0, <1>1 DEF Chown, TypeOK, WriterOK
      <3> QED
        BY <3>1, <2>1, <1>0, <1>1 DEF Chown, File, WriterOK, Goto, TypeOK
    <2>2. CASE Chmod(w) \/ Write(w)
      <3>1. pc'[w] \in {"check", "write", "stat"} /\ ~Chown(w)
        BY <2>2, <1>0 DEF Chown, Chmod, Write, TypeOK
      <3>2. /\ files'[fd[w]] # None /\ files'[fd[w]].want = Asked(arg[w])
            /\ InfoOf(files'[fd[w]]) = Asked(arg[w])
            /\ files[fd[w]].want = Asked(arg[w])
        BY <3>1, <1>0, <1>2 DEF WriterOK, Asked, TypeOK
      <3> QED
        BY <3>1, <3>2
    <2> QED
      BY <2>1, <2>2
  <1>4. \A u \in Users : opened[u] # None =>
           /\ files'[opened[u].file] # None
           /\ InfoOf(files'[opened[u].file]) = files'[opened[u].file].want
           /\ Permits(files'[opened[u].file].want, u)
           /\ opened[u].by = "path" =>
                opened[u].file # fd[w] /\ files'[opened[u].file] = files[opened[u].file]
    <2> SUFFICES ASSUME NEW u \in Users, opened[u] # None
                 PROVE  /\ files'[opened[u].file] # None
                        /\ InfoOf(files'[opened[u].file]) = files'[opened[u].file].want
                        /\ Permits(files'[opened[u].file].want, u)
                        /\ opened[u].by = "path" =>
                             /\ opened[u].file # fd[w]
                             /\ files'[opened[u].file] = files[opened[u].file]
      OBVIOUS
    <2>1. opened[u].file \in Inodes
      BY <1>0 DEF TypeOK
    <2>2. opened[u].by = "path" => opened[u].file # fd[w]
      BY <1>0, <1>2 DEF FilesInv
    <2>3. CASE opened[u].file # fd[w]
      BY <2>1, <2>2, <2>3, <1>0, <1>2 DEF FilesInv
    <2>4. CASE opened[u].file = fd[w]
      <3>1. InfoOf(files[fd[w]]) = files[fd[w]].want /\ Permits(files[fd[w]].want, u)
        BY <2>4, <1>0 DEF FilesInv
      <3>2. files[fd[w]].mode # {}
        BY <3>1 DEF Permits
      <3>3. ~Chown(w)
        BY <3>2, <1>0 DEF Chown, WriterOK
      <3> QED
        BY <2>2, <2>4, <3>1, <3>3, <1>3
    <2> QED
      BY <2>3, <2>4
  <1> QED
    BY <1>0, <1>1, <1>2, <1>3, <1>4 DEF FilesInv, TypeOK

LEMMA FilesKeepCreate ==
    ASSUME Inv, NEW w \in Writers, Create(w)
    PROVE  FilesInv'
  <1>0. TypeOK /\ FilesInv
    BY DEF Inv, WriteInv
  <1>1. PICK i \in Inodes \ Used, fs \in Filesystems :
            /\ files' = [files EXCEPT ![i] = NewFile(w, fs)]
            /\ temps' = temps \cup {i} /\ fd' = [fd EXCEPT ![w] = i]
    BY DEF Create
  <1>2. path' = path /\ opened' = opened /\ pc[w] = "create"
        /\ \A x \in Writers \ {w} : pc'[x] = pc[x]
    BY <1>0 DEF Create, TypeOK
  <1>3. i # path /\ i \notin temps /\ \A u \in Users : opened[u] # None => opened[u].file # i
    BY <1>0, <1>1, UsedFacts
  <1>4. arg[w] \in Arg
    BY <1>0, <1>2 DEF Inv, WriteInv, WriterOK, TypeOK
  <1>5. NewFile(w, fs) # None /\ NewFile(w, fs).mode = {}
    BY <1>4, NewFileType, FileAssumption DEF NewFile
  <1>6. files'[i] = NewFile(w, fs) /\ \A j \in Inodes \ {i} : files'[j] = files[j]
    BY <1>0, <1>1 DEF TypeOK
  <1>7. \A u \in Users : opened[u] # None =>
           /\ opened[u].file \in Inodes
           /\ files'[opened[u].file] = files[opened[u].file]
           /\ \A x \in Writers : fd'[x] = opened[u].file => x # w /\ fd'[x] = fd[x]
    BY <1>0, <1>1, <1>3, <1>6 DEF TypeOK
  <1> QED
    BY <1>0, <1>1, <1>2, <1>3, <1>5, <1>6, <1>7 DEF FilesInv, TypeOK

LEMMA FilesKeepRename ==
    ASSUME Inv, NEW w \in Writers, Rename(w)
    PROVE  FilesInv'
  <1>0. TypeOK /\ FilesInv /\ WriterOK(w) /\ Apart
    BY DEF Inv, WriteInv
  <1>1. /\ fd[w] \in Inodes /\ fd[w] # None /\ pc[w] = "rename" /\ fd[w] \in temps
        /\ UNCHANGED <<files, fd, opened>> /\ path' = fd[w] /\ temps' = temps \ {fd[w]}
        /\ pc' = [pc EXCEPT ![w] = "remove"]
    BY InHand DEF Rename
  <1>2. /\ files[fd[w]].len = Size /\ InfoOf(files[fd[w]]) = files[fd[w]].want
        /\ Enforced # {} => files[fd[w]].fs \in Enforced
    BY <1>0, <1>1 DEF WriterOK
  <1>3. \A x \in Writers : pc[x] = "remove" => pc'[x] = "remove"
    BY <1>0, <1>1 DEF TypeOK
  <1> QED
    BY <1>0, <1>1, <1>2, <1>3 DEF FilesInv

\* The other steps of writers change no file and open none.
LEMMA FilesKeepOther ==
    ASSUME Inv, NEW w \in Writers,
           Call(w) \/ CheckFilesystem(w) \/ GetFileInfo(w) \/ Fail(w) \/ NoSpace(w)
             \/ WrongFilesystem(w) \/ RenameFails(w) \/ RemoveTemp(w)
             \/ RemoveTempFails(w)
    PROVE  FilesInv'
  <1>0. TypeOK /\ FilesInv /\ WriterOK(w)
    BY DEF Inv, WriteInv
  <1>1. UNCHANGED <<files, path, opened>> /\ temps' \subseteq temps
    BY DEF Call, CheckFilesystem, GetFileInfo, Fail, NoSpace, WrongFilesystem,
       RenameFails, Return, RemoveTemp, RemoveTempFails, Leave
  <1>2. \A x \in Writers : fd'[x] # None => fd'[x] = fd[x]
    BY <1>0 DEF Call, CheckFilesystem, GetFileInfo, Fail, NoSpace,
       WrongFilesystem, RenameFails, Return, RemoveTemp, RemoveTempFails, Leave,
       TypeOK
  <1>3. \A x \in Writers : fd'[x] # None /\ pc[x] = "remove" => pc'[x] = "remove"
    BY <1>0 DEF Call, CheckFilesystem, GetFileInfo, Fail, NoSpace,
       WrongFilesystem, RenameFails, Return, RemoveTemp, RemoveTempFails, Leave,
       TypeOK
  <1>4. \A u \in Users : opened[u] # None => opened[u].file # None
    BY <1>0, FileAssumption DEF TypeOK
  <1> QED
    BY <1>0, <1>1, <1>2, <1>3, <1>4 DEF FilesInv

LEMMA FilesKeep ==
    ASSUME Inv, NEW w \in Writers, Step(w)
    PROVE  FilesInv'
  BY FilesKeepInHand, FilesKeepCreate, FilesKeepRename, FilesKeepOther DEF Step

LEMMA ApartKeeps ==
    ASSUME Inv, NEW w \in Writers, Step(w)
    PROVE  Apart' /\ NoStrayFiles'
  <1>0. TypeOK /\ Apart /\ NoStrayFiles /\ WriterOK(w)
    BY DEF Inv, WriteInv
  <1>1. CASE Create(w)
    <2>1. PICK i \in Inodes \ Used :
            /\ temps' = temps \cup {i} /\ fd' = [fd EXCEPT ![w] = i]
      BY <1>1 DEF Create
    <2>2. \A x \in Writers : fd[x] # i
      BY <1>0, <2>1, UsedFacts
    <2>3. strays' = strays /\ fd[w] = None
      BY <1>1, <1>0 DEF Create, WriterOK
    <2> QED
      BY <1>0, <2>1, <2>2, <2>3, FileAssumption DEF Apart, NoStrayFiles, TypeOK
  <1>2. CASE Rename(w)
    BY <1>2, <1>0 DEF Rename, Apart, NoStrayFiles
  <1>3. CASE RemoveTemp(w) \/ RemoveTempFails(w)
    BY <1>3, <1>0 DEF RemoveTemp, RemoveTempFails, Leave, Apart, NoStrayFiles, TypeOK
  <1>4. CASE Call(w) \/ Chown(w) \/ Chmod(w) \/ CheckFilesystem(w) \/ Write(w)
             \/ GetFileInfo(w) \/ Fail(w) \/ NoSpace(w) \/ WrongFilesystem(w)
             \/ RenameFails(w)
    <2>1. UNCHANGED <<fd, temps, strays>>
      BY <1>4 DEF Call, Chown, Chmod, CheckFilesystem, Write, GetFileInfo, Fail,
         NoSpace, WrongFilesystem, RenameFails, Return
    <2> QED
      BY <2>1, <1>0 DEF Apart, NoStrayFiles
  <1> QED
    BY <1>1, <1>2, <1>3, <1>4 DEF Step

\* Users open and close files, the kernel frees them, names are removed and
\* the process dies.
LEMMA EnvironmentKeeps ==
    ASSUME Inv, Environment
    PROVE  WriteInv'
  <1>0. TypeOK /\ FilesInv /\ Apart /\ NoStrayFiles /\ \A w \in Writers : WriterOK(w)
    BY DEF Inv, WriteInv
  <1>1. ASSUME NEW u \in Users, Open(u) PROVE WriteInv'
    <2>1. UNCHANGED <<files, path, temps, pc, arg, fd, stat, result, strays>>
      BY <1>1 DEF Open
    <2>2. \A w \in Writers : WriterOK(w)'
      BY <2>1, <1>0 DEF WriterOK, Asked
    <2>3. PICK i \in temps \cup ({path} \ {None}) :
            /\ Permits(InfoOf(files[i]), u)
            /\ opened' = [opened EXCEPT ![u] =
                 [file |-> i, by |-> IF i = path THEN "path" ELSE "temp"]]
      BY <1>1 DEF Open
    <2>4. /\ i \in Inodes /\ files[i] # None /\ InfoOf(files[i]) = files[i].want
      BY <2>3, <1>0 DEF FilesInv, Permits, TypeOK
    <2>5. \A w \in Writers : fd[w] = i /\ i = path => pc[w] = "remove"
      BY <1>0, <2>4, FileAssumption DEF WriterOK, TypeOK
    <2>6. \A v \in Users \ {u} : opened'[v] = opened[v]
      BY <2>3, <1>0 DEF TypeOK
    <2>7. /\ opened'[u].file = i
          /\ opened'[u].by = "path" => i = path
      BY <2>3, <1>0 DEF TypeOK
    <2>8. FilesInv'
      BY <2>1, <2>3, <2>4, <2>5, <2>6, <2>7, <1>0 DEF FilesInv
    <2> QED
      BY <2>1, <2>2, <2>8, <1>0 DEF WriteInv, Apart, NoStrayFiles
  <1>2. ASSUME NEW u \in Users, Close(u) PROVE WriteInv'
    <2>1. UNCHANGED <<files, path, temps, pc, arg, fd, stat, result, strays>>
          /\ opened' = [opened EXCEPT ![u] = None]
      BY <1>2 DEF Close
    <2>2. \A w \in Writers : WriterOK(w)'
      BY <2>1, <1>0 DEF WriterOK, Asked
    <2>3. FilesInv'
      BY <2>1, <1>0 DEF FilesInv, TypeOK
    <2> QED
      BY <2>1, <2>2, <2>3, <1>0 DEF WriteInv, Apart, NoStrayFiles
  <1>3. ASSUME NEW i \in Inodes, Free(i) PROVE WriteInv'
    <2>1. UNCHANGED <<path, temps, pc, arg, fd, stat, result, opened, strays>>
          /\ i \notin Used /\ \A j \in Inodes \ {i} : files'[j] = files[j]
      BY <1>3, <1>0 DEF Free, TypeOK
    <2>2. /\ i # path /\ i \notin temps /\ \A w \in Writers : fd[w] # i
          /\ \A u \in Users : opened[u] # None => opened[u].file # i
      BY <2>1, <1>0, UsedFacts
    <2>3. \A w \in Writers : WriterOK(w)'
      BY <2>1, <2>2, <1>0, WriterFrame DEF TypeOK
    <2>4. files'[i] = None
      BY <1>3, <1>0 DEF Free, TypeOK
    <2>5. \A u \in Users : opened[u] # None => opened[u].file \in Inodes
      BY <1>0 DEF TypeOK
    <2>6. FilesInv'
      BY <2>1, <2>2, <2>4, <2>5, <1>0 DEF FilesInv, TypeOK
    <2> QED
      BY <2>1, <2>3, <2>6, <1>0 DEF WriteInv, Apart, NoStrayFiles
  <1>4. ASSUME NEW i \in Inodes, Unlink(i) PROVE WriteInv'
    <2>1. UNCHANGED <<files, pc, arg, fd, stat, result, opened>>
          /\ path' \in {path, None} /\ temps' = temps \ {i} /\ strays' = strays \ {i}
      BY <1>4 DEF Unlink
    <2>2. \A w \in Writers : WriterOK(w)'
      BY <2>1, <1>0, WriterFrame
    <2>3. None \notin temps
      BY <1>0, FileAssumption DEF TypeOK
    <2>4. FilesInv'
      BY <2>1, <2>3, <1>0 DEF FilesInv
    <2> QED
      BY <2>1, <2>2, <2>4, <1>0 DEF WriteInv, Apart, NoStrayFiles
  <1>5. CASE Die
    <2>1. UNCHANGED <<files, path, temps, opened>> /\ strays' = temps
          /\ \A w \in Writers : /\ pc'[w] = "idle" /\ arg'[w] = None /\ fd'[w] = None
      BY <1>5 DEF Die
    <2>2. \A w \in Writers : WriterOK(w)'
      BY <2>1 DEF WriterOK
    <2>3. \A u \in Users : opened[u] # None => opened[u].file # None
      BY <1>0, FileAssumption DEF TypeOK
    <2>4. FilesInv'
      BY <2>1, <2>3, <1>0 DEF FilesInv
    <2> QED
      BY <2>1, <2>2, <2>4 DEF WriteInv, Apart, NoStrayFiles
  <1> QED
    BY <1>1, <1>2, <1>3, <1>4, <1>5 DEF Environment

LEMMA NextInv == Inv /\ [Next]_vars => Inv'
  <1> SUFFICES ASSUME Inv, [Next]_vars PROVE Inv'
    OBVIOUS
  <1>1. ASSUME NEW w \in Writers, Step(w) PROVE Inv'
    <2>1. TypeOK'
      BY <1>1, StepType DEF Next
    <2> QED
      BY <1>1, <2>1, OthersKeep, SelfKeeps, FilesKeep, ApartKeeps DEF Inv, WriteInv
  <1>2. CASE Environment
    BY <1>2, StepType, EnvironmentKeeps DEF Inv, Next
  <1>3. CASE UNCHANGED vars
    BY <1>3 DEF vars, Inv, TypeOK, WriteInv, WriterOK, FilesInv, Apart,
       NoStrayFiles, Asked, Permits
  <1> QED
    BY <1>1, <1>2, <1>3 DEF Next

-----------------------------------------------------------------------------
(* Theorems. *)

LEMMA InvAlways == Spec => []Inv
  BY InitInv, NextInv, PTL DEF Spec

\* Every variable keeps its type.
THEOREM TypeCorrect == Spec => []TypeOK
  BY InvAlways, PTL DEF Inv

\* At each place of WriteFileAtomically the file in hand is as the code after
\* it needs, and files that others may open are finished or attributed.
THEOREM WriteInvariant == Spec => []WriteInv
  BY InvAlways, PTL DEF Inv

\* Nobody ever has a file open that its final attributes do not let him read.
THEOREM OnlyPermittedCorrect == Spec => []OnlyPermitted
  <1>1. Inv => OnlyPermitted
    BY DEF Inv, WriteInv, FilesInv, OnlyPermitted
  <1> QED
    BY <1>1, InvAlways, PTL

\* What is opened by the path is complete and has its final attributes.
THEOREM ReadsWholeCorrect == Spec => []ReadsWhole
  <1>1. Inv => ReadsWhole
    BY DEF Inv, WriteInv, FilesInv, ReadsWhole
  <1> QED
    BY <1>1, InvAlways, PTL

\* Temporary files are those of running calls, of dead ones, or could not be
\* removed.
THEOREM NoStrayFilesCorrect == Spec => []NoStrayFiles
  BY InvAlways, PTL DEF Inv, WriteInv

\* No writer writes to a file somebody has opened by the path.
THEOREM PublishedStaysCorrect == Spec => PublishedStays
  <1>1. ASSUME Inv, [Next]_vars, NEW u \in Users, opened[u] # None,
               opened[u].by = "path"
        PROVE  files'[opened[u].file] = files[opened[u].file]
    <2>0. TypeOK /\ FilesInv
      BY <1>1 DEF Inv, WriteInv
    <2>1. opened[u].file \in Inodes
          /\ \A w \in Writers : fd[w] = opened[u].file => pc[w] = "remove"
      BY <1>1, <2>0 DEF TypeOK, FilesInv
    <2>2. ASSUME NEW w \in Writers, Create(w)
          PROVE  files'[opened[u].file] = files[opened[u].file]
      BY <1>1, <2>0, <2>1, <2>2, UsedFacts DEF Create, TypeOK
    <2>3. ASSUME NEW w \in Writers, Chown(w) \/ Chmod(w) \/ Write(w)
          PROVE  files'[opened[u].file] = files[opened[u].file]
      BY <2>0, <2>1, <2>3 DEF Chown, Chmod, Write, TypeOK
    <2>4. ASSUME NEW i \in Inodes, Free(i)
          PROVE  files'[opened[u].file] = files[opened[u].file]
      BY <1>1, <2>0, <2>1, <2>4, UsedFacts DEF Free, TypeOK
    <2> QED
      BY <1>1, <2>2, <2>3, <2>4 DEF Next, Step, Environment, Call,
         CheckFilesystem, GetFileInfo, Rename, Fail, NoSpace, WrongFilesystem,
         RenameFails, Return, RemoveTemp, RemoveTempFails, Leave, Open, Close,
         Unlink, Die, vars
  <1>2. Inv /\ [Next]_vars =>
          [\A u \in Users : opened[u] # None /\ opened[u].by = "path" =>
             files'[opened[u].file] = files[opened[u].file]]_vars
    BY <1>1
  <1> QED
    BY <1>2, InvAlways, PTL DEF Spec, PublishedStays

-----------------------------------------------------------------------------
(* Refinement: Rename is Put, Leave is Return, Unlink of the path is Remove. *)

FileBar == IF path = None THEN None
           ELSE [val |-> files[path].val, info |-> InfoOf(files[path])]

CallOf(w) == IF pc[w] = "idle" THEN None
             ELSE [val |-> arg[w].val, info |-> Asked(arg[w])]

\* A step that moves no writer to or from idle and puts nothing is a stutter.
LEMMA Stutter ==
    ASSUME TypeOK, FileBar' = FileBar,
           \A w \in Writers : /\ pc'[w] = "idle" <=> pc[w] = "idle"
                              /\ arg'[w] = arg[w]
                              /\ pc[w] = "idle" => result'[w] = result[w]
                              /\ pc'[w] = "remove" /\ result'[w] = "ok" <=>
                                   pc[w] = "remove" /\ result[w] = "ok"
    PROVE  UNCHANGED Register!vars
  BY DEF Register!vars, FileBar, Asked

LEMMA InitRefines == Init => Register!Init
  BY FileAssumption DEF Init, Register!Init

\* No step changes the file at the path.
LEMMA SameFile ==
    ASSUME Inv, Next, path' = path
    PROVE  FileBar' = FileBar
  <1>0. TypeOK
    BY DEF Inv
  <1>1. CASE path = None
    BY <1>1 DEF FileBar
  <1>2. CASE path # None
    <2>0. path \in Inodes
      BY <1>0, <1>2 DEF TypeOK
    <2>1. ASSUME NEW w \in Writers, Create(w) PROVE files'[path] = files[path]
      BY <1>0, <2>0, <2>1, UsedFacts DEF Create, TypeOK
    <2>2. ASSUME NEW w \in Writers, Chown(w) \/ Chmod(w) \/ Write(w)
          PROVE  files'[path] = files[path]
      <3>1. fd[w] # path
        BY <2>2, InHand DEF Chown, Chmod, Write
      <3> QED
        BY <1>0, <2>0, <2>2, <3>1 DEF Chown, Chmod, Write, TypeOK
    <2>3. ASSUME NEW i \in Inodes, Free(i) PROVE files'[path] = files[path]
      BY <1>0, <2>0, <2>3, UsedFacts DEF Free, TypeOK
    <2>4. files'[path] = files[path]
      BY <2>1, <2>2, <2>3 DEF Next, Step, Environment, Call, CheckFilesystem,
         GetFileInfo, Rename, Fail, NoSpace, WrongFilesystem, RenameFails,
         Return, RemoveTemp, RemoveTempFails, Leave, Open, Close, Unlink, Die
    <2> QED
      BY <2>4 DEF FileBar
  <1> QED
    BY <1>1, <1>2

LEMMA CallRefines ==
    ASSUME Inv, NEW w \in Writers, Call(w)
    PROVE  Register!Next
  <1>0. TypeOK /\ TypeOK'
    BY StepType DEF Inv, Next, Step
  <1>1. PICK a \in Arg : arg' = [arg EXCEPT ![w] = a]
    BY DEF Call
  <1>2. /\ pc[w] = "idle" /\ pc' = [pc EXCEPT ![w] = "create"]
        /\ result' = [result EXCEPT ![w] = None] /\ path' = path
    BY DEF Call
  <1> DEFINE f == [val |-> a.val, info |-> Asked(a)]
  <1>3. f \in Register!File
    BY AskedType DEF Register!File, Arg
  <1>4. FileBar' = FileBar
    BY <1>2, SameFile DEF Next, Step
  <1>5. Register!Call(w, f)
    <2>1. \A x \in Writers :
             /\ CallOf(x)' = IF x = w THEN f ELSE CallOf(x)
             /\ (pc'[x] = "idle" => result'[x] = result[x])
             /\ x # w => (pc'[x] = pc[x] /\ result'[x] = result[x])
      BY <1>0, <1>1, <1>2 DEF TypeOK, CallOf, Asked
    <2>2. pc'[w] = "create"
      BY <1>0, <1>2 DEF TypeOK
    <2>3. CallOf(w) = None
      BY <1>2 DEF CallOf
    <2>4. [x \in Writers |-> CallOf(x)]' = [[x \in Writers |-> CallOf(x)] EXCEPT ![w] = f]
      <3>1. [x \in Writers |-> CallOf(x)]' = [x \in Writers |-> IF x = w THEN f ELSE CallOf(x)]
        BY <2>1
      <3> HIDE DEF f
      <3> QED
        BY <3>1
    <2>5. {x \in Writers : pc[x] = "remove" /\ result[x] = "ok"}'
            = {x \in Writers : pc[x] = "remove" /\ result[x] = "ok"}
      BY <1>2, <2>1, <2>2
    <2>6. [x \in Writers |-> IF pc[x] = "idle" THEN result[x] ELSE None]'
            = [[x \in Writers |-> IF pc[x] = "idle" THEN result[x] ELSE None]
                 EXCEPT ![w] = None]
      BY <1>2, <2>1, <2>2
    <2> HIDE DEF f
    <2> QED
      BY <1>4, <2>3, <2>4, <2>5, <2>6 DEF Register!Call, FileBar, CallOf
  <1> QED
    BY <1>3, <1>5 DEF Register!Next

LEMMA RenameRefines ==
    ASSUME Inv, NEW w \in Writers, Rename(w)
    PROVE  Register!Next
  <1>0. TypeOK /\ WriterOK(w)
    BY DEF Inv, WriteInv
  <1>1. /\ pc[w] = "rename" /\ pc' = [pc EXCEPT ![w] = "remove"]
        /\ result' = [result EXCEPT ![w] = "ok"] /\ path' = fd[w]
        /\ UNCHANGED <<files, arg, fd>>
    BY DEF Rename
  <1>2. fd[w] # None /\ files[fd[w]].val = arg[w].val
        /\ InfoOf(files[fd[w]]) = Asked(arg[w])
    BY <1>0, <1>1 DEF WriterOK
  <1>3. FileBar' = CallOf(w)
    BY <1>1, <1>2 DEF FileBar, CallOf
  <1>4. \A x \in Writers : /\ CallOf(x)' = CallOf(x)
                           /\ pc'[x] = "idle" <=> pc[x] = "idle"
                           /\ x # w => (pc'[x] = pc[x] /\ result'[x] = result[x])
    BY <1>0, <1>1 DEF TypeOK, CallOf, Asked
  <1>5. pc'[w] = "remove" /\ result'[w] = "ok"
    BY <1>0, <1>1 DEF TypeOK
  <1>6. CallOf(w) # None
    BY <1>1, <1>2, InHand, FileAssumption DEF CallOf, Arg
  <1>7. Register!Put(w)
    BY <1>1, <1>3, <1>4, <1>5, <1>6 DEF Register!Put, FileBar, CallOf
  <1> QED
    BY <1>7 DEF Register!Next

LEMMA LeaveRefines ==
    ASSUME Inv, NEW w \in Writers, RemoveTemp(w) \/ RemoveTempFails(w)
    PROVE  Register!Next
  <1>0. TypeOK /\ WriterOK(w)
    BY DEF Inv, WriteInv
  <1>1. /\ pc[w] = "remove" /\ pc' = [pc EXCEPT ![w] = "idle"]
        /\ arg' = [arg EXCEPT ![w] = None] /\ UNCHANGED <<result, path>>
    BY DEF RemoveTemp, RemoveTempFails, Leave
  <1>2. FileBar' = FileBar
    BY <1>1, SameFile DEF Next, Step
  <1>3. result[w] \in {"ok", "error"} /\ arg[w] \in Arg
    BY <1>0, <1>1 DEF WriterOK, TypeOK
  <1>4. CallOf(w) # None
    BY <1>1, <1>3, AskedType, FileAssumption DEF CallOf, Arg
  <1>5. \A x \in Writers : /\ CallOf(x)' = IF x = w THEN None ELSE CallOf(x)
                           /\ x # w => (pc'[x] = pc[x] /\ result'[x] = result[x])
    BY <1>0, <1>1 DEF TypeOK, CallOf, Asked
  <1>6. pc'[w] = "idle"
    BY <1>0, <1>1 DEF TypeOK
  <1>7. Register!Return(w)
    <2> DEFINE put == {x \in Writers : pc[x] = "remove" /\ result[x] = "ok"}
    <2>1. [x \in Writers |-> CallOf(x)]'
            = [[x \in Writers |-> CallOf(x)] EXCEPT ![w] = None]
      BY <1>5
    <2>2. put' = put \ {w}
      BY <1>1, <1>5, <1>6
    <2>3. [x \in Writers |-> IF pc[x] = "idle" THEN result[x] ELSE None]'
            = [[x \in Writers |-> IF pc[x] = "idle" THEN result[x] ELSE None]
                 EXCEPT ![w] = IF w \in put THEN "ok" ELSE "error"]
      BY <1>1, <1>3, <1>5, <1>6
    <2> QED
      BY <1>2, <1>4, <2>1, <2>2, <2>3 DEF Register!Return, FileBar, CallOf
  <1> QED
    BY <1>7 DEF Register!Next

LEMMA EnvironmentRefines ==
    ASSUME Inv, Environment
    PROVE  Register!Next \/ UNCHANGED Register!vars
  <1>0. TypeOK
    BY DEF Inv
  <1>1. CASE Die
    <2>1. path' = path /\ \A w \in Writers : pc'[w] = "idle" /\ result'[w] = None
      BY <1>1 DEF Die
    <2>2. FileBar' = FileBar
      BY <2>1, SameFile DEF Next, Environment
    <2>3. Register!Die(Writers)
      BY <2>1, <2>2 DEF Register!Die, FileBar
    <2> QED
      BY <2>3 DEF Register!Next
  <1>2. ASSUME NEW i \in Inodes, Unlink(i), i = path
        PROVE  Register!Next
    <2>1. path' = None /\ UNCHANGED <<pc, arg, result>>
      BY <1>2 DEF Unlink
    <2>2. Register!Remove
      BY <2>1 DEF Register!Remove, Asked
    <2> QED
      BY <2>2 DEF Register!Next
  <1>3. ASSUME path' = path, UNCHANGED <<pc, arg, result>>
        PROVE  UNCHANGED Register!vars
    <2>1. FileBar' = FileBar
      BY <1>3, SameFile DEF Next
    <2> QED
      BY <1>0, <1>3, <2>1, Stutter
  <1> QED
    BY <1>1, <1>2, <1>3 DEF Environment, Open, Close, Free, Unlink

LEMMA NextRefines == Inv /\ [Next]_vars => [Register!Next]_Register!vars
  <1> SUFFICES ASSUME Inv, [Next]_vars
               PROVE  Register!Next \/ UNCHANGED Register!vars
    OBVIOUS
  <1>0. TypeOK
    BY DEF Inv
  <1>1. ASSUME NEW w \in Writers,
               Create(w) \/ Chown(w) \/ Chmod(w) \/ CheckFilesystem(w)
                 \/ Write(w) \/ GetFileInfo(w)
        PROVE  UNCHANGED Register!vars
    <2>1. /\ path' = path /\ arg' = arg /\ result' = result
          /\ pc[w] \notin {"idle", "remove"}
          /\ \E p : p \notin {"idle", "remove"} /\ pc' = [pc EXCEPT ![w] = p]
      <3>1. path' = path /\ arg' = arg /\ result' = result
            /\ pc[w] \notin {"idle", "remove"} /\ pc' = [pc EXCEPT ![w] = pc'[w]]
        BY <1>0, <1>1 DEF Create, Chown, Chmod, CheckFilesystem, Write,
           GetFileInfo, TypeOK
      <3>2. pc'[w] \notin {"idle", "remove"}
        BY <1>0, <1>1 DEF Create, Chown, Chmod, CheckFilesystem, Write,
           GetFileInfo, TypeOK
      <3> QED
        BY <3>1, <3>2
    <2>2. FileBar' = FileBar
      BY <1>1, <2>1, SameFile DEF Next, Step
    <2> QED
      BY <1>0, <2>1, <2>2, Stutter DEF TypeOK
  <1>2. ASSUME NEW w \in Writers,
               Fail(w) \/ NoSpace(w) \/ WrongFilesystem(w) \/ RenameFails(w)
        PROVE  UNCHANGED Register!vars
    <2>1. /\ path' = path /\ arg' = arg /\ pc[w] \notin {"idle", "remove"}
          /\ result' = [result EXCEPT ![w] = "error"]
          /\ pc' = [pc EXCEPT ![w] = "remove"]
      BY <1>2 DEF Fail, NoSpace, WrongFilesystem, RenameFails, Return
    <2>2. FileBar' = FileBar
      BY <1>2, <2>1, SameFile DEF Next, Step
    <2> QED
      BY <1>0, <2>1, <2>2, Stutter DEF TypeOK
  <1>3. CASE UNCHANGED vars
    BY <1>3 DEF vars, Register!vars, Asked
  <1> QED
    BY <1>1, <1>2, <1>3, CallRefines, RenameRefines, LeaveRefines,
       EnvironmentRefines DEF Next, Step

\* WriteFileAtomically replaces the file at its path at once, content and
\* attributes, or returns an error and does nothing to it, whatever other
\* writers, users and failures do.
THEOREM WriteFileImplementsRegister == Spec => ImplementsRegister
  BY InitRefines, NextRefines, InvAlways, PTL
     DEF Spec, ImplementsRegister, Register!Spec
=============================================================================
