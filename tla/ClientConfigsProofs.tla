------------------------ MODULE ClientConfigsProofs ------------------------
(***************************************************************************)
(* Proofs about ClientConfigs, for any number of files and edits, and      *)
(* about what a client's configuration decides in Ownership, for any users *)
(* and groups, configurations and secrets.                                 *)
(***************************************************************************)
EXTENDS ClientConfigs, Ownership, TLAPS

USE FilesAssumption, PathsAssumption, TextsAssumption

\* A configuration that LoadClients makes of a valid declaration is complete.
LEMMA ResolvedType ==
    ASSUME NEW c \in Clients, NEW d \in Declared, d.key # None
    PROVE  Resolved(c, d) \in Conf
<1>1. \A p \in Paths : resolvePath(p) \in FullPaths
  <2> TAKE p \in Paths
  <2>1. CASE p.place = None
    BY <2>1 DEF Paths, FullPaths, resolvePath
  <2>2. CASE p.place # None
    BY <2>2 DEF Paths, FullPaths, resolvePath
  <2> QED
    BY <2>1, <2>2
<1>2. d.key \in Paths /\ d.cert \in Paths \cup {None} /\ d.dir \in Dirs \cup {None}
  OBVIOUS
<1> QED
  BY <1>1, <1>2 DEF Resolved, Conf

\* The parts of a text.
LEMMA TextParts ==
    ASSUME NEW text \in Texts \cup {Absent, Garbled}, NEW c \in Clients,
           Declares(text, c)
    PROVE  /\ text[c] \in Declared
           /\ Valid(text) => Resolved(c, text[c]) \in Conf
BY ResolvedType DEF Declares, Texts, Valid

-----------------------------------------------------------------------------

LEMMA TypeInit == Init => TypeOK
<1> SUFFICES ASSUME Init
             PROVE  TypeOK
  OBVIOUS
<1>1. configs \in [Clients -> Conf \cup {None}]
  BY DEF Init, NoConfigs
<1>2. since \subseteq Moments
  BY DEF Init, Moments, now
<1> QED
  BY <1>1, <1>2 DEF Init, TypeOK

\* What others do keeps the types, if what they make of the files has one.
LEMMA ChangeType ==
    ASSUME TypeOK, files' \in FileStates, denied' \subseteq Inputs,
           since' = since \cup {now'}, edits' = edits + 1,
           UNCHANGED <<load, todo, configs, clients, gone>>
    PROVE  TypeOK'
<1>1. now' \in Moments
  BY DEF now, Moments
<1>2. since' \subseteq Moments
  BY <1>1 DEF TypeOK
<1> QED
  BY <1>2 DEF TypeOK

LEMMA EditType ==
    ASSUME TypeOK, NEW f \in Files, NEW text \in Texts \cup {Absent, Garbled},
           Edit(f, text)
    PROVE  TypeOK'
<1>1. files' \in FileStates
  BY DEF Edit, TypeOK, FileStates
<1>2. denied' \subseteq Inputs
  BY DEF Edit, TypeOK
<1> QED
  BY <1>1, <1>2, ChangeType DEF Edit

LEMMA EditsAreEdits ==
    ASSUME TypeOK, NEW f \in Files
    PROVE  /\ \A c \in Clients, d \in Declared \cup {None} : EditClient(f, c, d) =>
                \E text \in Texts \cup {Absent, Garbled} : Edit(f, text)
           /\ \A text \in {Absent, Garbled, NoConfigs} : EditFile(f, text) =>
                \E t \in Texts \cup {Absent, Garbled} : Edit(f, t)
<1>1. ASSUME NEW c \in Clients, NEW d \in Declared \cup {None}, EditClient(f, c, d)
      PROVE  \E text \in Texts \cup {Absent, Garbled} : Edit(f, text)
  <2>1. files[f] \in Texts
    BY <1>1 DEF EditClient, TypeOK, FileStates
  <2>2. [files[f] EXCEPT ![c] = d] \in Texts
    BY <2>1 DEF Texts
  <2> QED
    BY <1>1, <2>2 DEF EditClient
<1>2. NoConfigs \in Texts
  BY DEF NoConfigs, Texts
<1> QED
  BY <1>1, <1>2 DEF EditFile

LEMMA TypeStep == TypeOK /\ [Next]_vars => TypeOK'
<1> SUFFICES ASSUME TypeOK, [Next]_vars
             PROVE  TypeOK'
  OBVIOUS
<1>1. CASE List \/ ListFails
  <2>1. configs' \in [Clients -> Conf \cup {None}]
    BY <1>1 DEF List, ListFails, NoConfigs
  <2>2. since' \subseteq Moments
    BY <1>1 DEF List, ListFails, TypeOK, Moments, now
  <2> QED
    BY <1>1, <2>1, <2>2 DEF List, ListFails, TypeOK
<1>2. ASSUME NEW f \in Files, Read(f)
      PROVE  TypeOK'
  <2>1. files[f] \in Texts \cup {Absent, Garbled} /\ Valid(files[f])
    BY <1>2 DEF Read, Readable, now, TypeOK, FileStates
  <2>2. configs' \in [Clients -> Conf \cup {None}]
    BY <1>2, <2>1, TextParts DEF Read, TypeOK
  <2> QED
    BY <1>2, <2>2 DEF Read, TypeOK
<1>3. ASSUME NEW f \in Files, ReadFails(f)
      PROVE  TypeOK'
  BY <1>3 DEF ReadFails, NoConfigs, TypeOK
<1>4. CASE Finish
  BY <1>4 DEF Finish, TypeOK
<1>5. ASSUME NEW f \in Files, NEW c \in Clients, NEW d \in Declared \cup {None},
             EditClient(f, c, d)
      PROVE  TypeOK'
  BY <1>5, EditsAreEdits, EditType
<1>6. ASSUME NEW f \in Files, NEW text \in {Absent, Garbled, NoConfigs},
             EditFile(f, text)
      PROVE  TypeOK'
  BY <1>6, EditsAreEdits, EditType
<1>7. ASSUME NEW S \in SUBSET Inputs, Deny(S)
      PROVE  TypeOK'
  <2>1. files' \in FileStates
    BY <1>7 DEF Deny, TypeOK
  <2> QED
    BY <1>7, <2>1, ChangeType DEF Deny
<1>8. CASE UNCHANGED vars
  BY <1>8 DEF vars, TypeOK
<1> QED
  BY <1>1, <1>2, <1>3, <1>4, <1>5, <1>6, <1>7, <1>8 DEF Next, Load

\* Whatever the files say, the configurations that come out are complete:
\* each has a directory, and absolute paths to a key and a certificate.
THEOREM TypeCorrect == Spec => []TypeOK
BY TypeInit, TypeStep, PTL DEF Spec

-----------------------------------------------------------------------------

LEMMA LoadInit == Init => LoadInv
<1> SUFFICES ASSUME Init
             PROVE  LoadInv
  OBVIOUS
<1>1. \A c \in Clients : configs[c] = None
  BY DEF Init, NoConfigs
<1> QED
  BY <1>1 DEF Init, LoadInv, NothingMadeUp, InPlaceIsKept, LoadMerges

\* What is merged stays so while the files say the same of the client.
LEMMA MergedSame ==
    ASSUME NEW c \in Clients, NEW S \in SUBSET Files, configs' = configs,
           \A f \in Files : Entry(files'[f], c) = Entry(files[f], c),
           IsMerged(configs[c], S, c)
    PROVE  IsMerged(configs[c], S, c)'
<1>1. \A f \in Files : /\ Declares(files'[f], c) <=> Declares(files[f], c)
                       /\ Declares(files[f], c) => files'[f][c] = files[f][c]
  BY DEF Entry, Declares
<1>2. \A f \in S : /\ Declares(files'[f], c) <=> Declares(files[f], c)
                   /\ Declares(files[f], c) => files'[f][c] = files[f][c]
  BY <1>1
<1> QED
  BY <1>2 DEF IsMerged

\* Whatever others do adds a moment to since, so that there is less to show.
LEMMA ChangeKeeps ==
    ASSUME TypeOK, LoadInv, since' = since \cup {now'},
           UNCHANGED <<load, todo, configs, gone>>
    PROVE  LoadInv'
<1>1. now' \in since' /\ since \subseteq since' /\ now \in since /\ now.files = files
  BY DEF LoadInv, now
<1>2. NothingMadeUp'
  BY <1>1 DEF LoadInv, NothingMadeUp
<1>3. \A c : Kept(c)' => Kept(c)
  BY <1>1 DEF Kept
<1>4. InPlaceIsKept'
  BY <1>3 DEF InPlaceIsKept, LoadInv
<1>5. ASSUME NEW c \in Clients, Steady(c)'
      PROVE  /\ Steady(c)
             /\ \A f \in Files : Entry(files'[f], c) = Entry(files[f], c)
  <2>1. \A past \in since', f \in Files :
            Entry(past.files[f], c) = Entry(files'[f], c)
    BY <1>5 DEF Steady
  <2>2. \A f \in Files : Entry(files[f], c) = Entry(files'[f], c)
    BY <1>1, <2>1
  <2> QED
    BY <1>1, <2>1, <2>2 DEF Steady
<1>6. ASSUME Progress
      PROVE  Progress'
  <2>1. /\ \E past \in since' : ClientsDir \notin past.denied
        /\ \A f \in todo : \E past \in since' : past.files[f] # Absent
        /\ \A f \in Files :
             (\A past \in since' : past.files[f] # Absent) =>
                 f \in todo \/ \E past \in since' : Readable(past, f)
        /\ \A f \in Files, c \in Clients :
             (\A past \in since' : Declares(past.files[f], c)) =>
                 f \in todo \/ configs[c] # None
    BY <1>1, <1>6 DEF Progress
  <2>2. ASSUME NEW c \in Clients, Steady(c)'
        PROVE  /\ IsMerged(configs[c], Files \ todo, c)'
               /\ \A f \in Files \ todo, g \in todo : Declares(files'[f], c) => f < g
    <3>1. /\ Steady(c)
          /\ \A f \in Files : Entry(files'[f], c) = Entry(files[f], c)
      BY <1>5, <2>2
    <3>2. /\ IsMerged(configs[c], Files \ todo, c)
          /\ \A f \in Files \ todo, g \in todo : Declares(files[f], c) => f < g
      BY <1>6, <3>1 DEF Progress
    <3>3. \A f \in Files : Declares(files'[f], c) <=> Declares(files[f], c)
      BY <3>1 DEF Entry, Declares
    <3>4. IsMerged(configs[c], Files \ todo, c)'
      BY <3>1, <3>2, MergedSame
    <3> QED
      BY <3>2, <3>3, <3>4
  <2> QED
    BY <2>1, <2>2 DEF Progress
<1>7. LoadMerges'
  <2>1. CASE load' = "done"
    <3>1. LoadMerges
      BY DEF LoadInv
    <3>2. /\ \A f \in Files : (\A past \in since' : past.files[f] # Absent) =>
               \E past \in since' : Readable(past, f)
          /\ \E past \in since' : ClientsDir \notin past.denied
      BY <1>1, <2>1, <3>1 DEF LoadMerges
    <3>3. ASSUME NEW c \in Clients, Steady(c)'
          PROVE  IsMerged(configs[c], Files, c)'
      BY <1>5, <2>1, <3>1, <3>3, MergedSame DEF LoadMerges
    <3> QED
      BY <2>1, <3>2, <3>3 DEF LoadMerges
  <2>2. CASE load' = "failed"
    BY <1>1, <2>2 DEF LoadMerges, LoadInv
  <2> QED
    BY <2>1, <2>2 DEF LoadMerges
<1> QED
  BY <1>1, <1>2, <1>4, <1>6, <1>7 DEF LoadInv

\* The case of interest: the next file is read.
LEMMA ReadKeeps ==
    ASSUME TypeOK, LoadInv, NEW f \in Files, Read(f)
    PROVE  LoadInv'
<1>1. /\ load = "reading" /\ load' = "reading" /\ f \in todo
      /\ \A g \in todo : f <= g
      /\ Readable(now, f) /\ todo' = todo \ {f} /\ todo \subseteq Files
      /\ UNCHANGED <<files, gone, since>>
      /\ now \in since /\ now' = now /\ now.files = files
  BY DEF Read, Next1, LoadInv, TypeOK, now
<1>2. \A c \in Clients : configs'[c] =
          IF Declares(files[f], c) THEN Resolved(c, files[f][c]) ELSE configs[c]
  BY DEF Read
<1>3. \A c \in Clients : Declares(files[f], c) => configs'[c] # None
  <2> TAKE c \in Clients
  <2>1. ASSUME Declares(files[f], c)
        PROVE  Resolved(c, files[f][c]) \in Conf
    BY <1>1, <2>1, TextParts DEF TypeOK, FileStates, Readable
  <2> QED
    BY <1>2, <2>1
<1>p. Progress
  BY <1>1 DEF LoadInv
<1>4. NothingMadeUp'
  <2> SUFFICES ASSUME NEW c \in Clients, configs'[c] # None
               PROVE  \E past \in since, g \in Files :
                          /\ Readable(past, g) /\ Declares(past.files[g], c)
                          /\ configs'[c] = Resolved(c, past.files[g][c])
    BY <1>1 DEF NothingMadeUp
  <2>1. CASE Declares(files[f], c)
    BY <1>1, <1>2, <2>1
  <2>2. CASE ~Declares(files[f], c)
    BY <1>2, <2>2 DEF LoadInv, NothingMadeUp
  <2> QED
    BY <2>1, <2>2
<1>5. ASSUME NEW g \in Files, NEW c \in Clients,
             \A past \in since : Declares(past.files[g], c), g \notin todo'
      PROVE  configs'[c] # None
  <2>1. CASE g = f
    BY <1>1, <1>3, <1>5, <2>1
  <2>2. CASE g # f
    <3>1. configs[c] # None
      BY <1>1, <1>5, <1>p, <2>2 DEF Progress
    <3> QED
      BY <1>2, <1>3, <3>1
  <2> QED
    BY <2>1, <2>2
<1>6. ASSUME NEW c \in Clients, Steady(c)
      PROVE  /\ IsMerged(configs[c], Files \ todo, c)'
             /\ \A g \in Files \ todo', h \in todo' : Declares(files[g], c) => g < h
  <2> Files \subseteq Nat
    BY DEF Files
  <2>1. /\ IsMerged(configs[c], Files \ todo, c)
        /\ \A g \in Files \ todo, h \in todo : Declares(files[g], c) => g < h
    BY <1>6, <1>p DEF Progress
  <2>2. Files \ todo' = (Files \ todo) \cup {f}
    BY <1>1
  <2>3. \A g \in Files \ todo', h \in todo' : Declares(files[g], c) => g < h
    BY <1>1, <2>1, <2>2
  <2>4. CASE Declares(files[f], c)
    <3>1. \A g \in Files \ todo' : Declares(files[g], c) => g <= f
      BY <1>1, <2>1, <2>2
    <3> QED
      BY <1>1, <1>2, <2>2, <2>3, <2>4, <3>1 DEF IsMerged
  <2>5. CASE ~Declares(files[f], c)
    <3>1. configs'[c] = configs[c]
      BY <1>2, <2>5
    <3> QED
      BY <1>1, <2>1, <2>2, <2>3, <2>5, <3>1 DEF IsMerged
  <2> QED
    BY <2>4, <2>5
<1>7. Progress'
  <2>1. \A c : Steady(c)' <=> Steady(c)
    BY <1>1 DEF Steady
  <2>2. \A g \in Files :
            (\A past \in since : past.files[g] # Absent) =>
                g \in todo' \/ \E past \in since : Readable(past, g)
    BY <1>1, <1>p DEF Progress
  <2> QED
    BY <1>1, <1>5, <1>6, <1>p, <2>1, <2>2 DEF Progress
<1>8. InPlaceIsKept' /\ LoadMerges'
  BY <1>1 DEF InPlaceIsKept, LoadMerges
<1> QED
  BY <1>1, <1>4, <1>7, <1>8 DEF LoadInv

LEMMA LoadStep == TypeOK /\ LoadInv /\ [Next]_vars => LoadInv'
<1> SUFFICES ASSUME TypeOK, LoadInv, [Next]_vars
             PROVE  LoadInv'
  OBVIOUS
<1>1. CASE List
  <2>1. /\ load' = "reading" /\ since' = {now} /\ files' = files /\ now' = now
        /\ todo' = {f \in Files : files[f] # Absent}
        /\ ClientsDir \notin now.denied /\ now.files = files
        /\ \A c \in Clients : configs'[c] = None
    BY <1>1 DEF List, NoConfigs, now
  <2>2. NothingMadeUp' /\ InPlaceIsKept' /\ LoadMerges'
    BY <2>1 DEF NothingMadeUp, InPlaceIsKept, LoadMerges
  <2>3. \A c \in Clients, f \in Files \ todo' : ~Declares(files[f], c)
    BY <2>1 DEF Declares
  <2>4. \A c \in Clients : IsMerged(configs[c], Files \ todo, c)'
    BY <2>1, <2>3 DEF IsMerged
  <2>5. \A f \in Files, c \in Clients :
            (\A past \in since' : Declares(past.files[f], c)) => f \in todo'
    BY <2>1, <2>3
  <2>6. Progress'
    BY <2>1, <2>3, <2>4, <2>5 DEF Progress
  <2> QED
    BY <2>1, <2>2, <2>6 DEF LoadInv
<1>2. CASE ListFails
  <2>1. /\ load' = "failed" /\ since' = {now} /\ now' = now /\ todo' = todo
        /\ ClientsDir \in now.denied /\ load # "reading"
        /\ \A c \in Clients : configs'[c] = None
    BY <1>2 DEF ListFails, NoConfigs, now
  <2> QED
    BY <2>1 DEF LoadInv, NothingMadeUp, InPlaceIsKept, LoadMerges
<1>3. ASSUME NEW f \in Files, Read(f)
      PROVE  LoadInv'
  BY <1>3, ReadKeeps
<1>4. ASSUME NEW f \in Files, ReadFails(f)
      PROVE  LoadInv'
  <2>1. /\ load = "reading" /\ f \in todo /\ ~Readable(now, f)
        /\ load' = "failed" /\ todo' = {} /\ since' = since /\ now' = now
        /\ \A c \in Clients : configs'[c] = None
    BY <1>4 DEF ReadFails, Next1, NoConfigs, now
  <2>2. /\ now \in since
        /\ \E past \in since : past.files[f] # Absent
    BY <2>1 DEF LoadInv, Progress
  <2> QED
    BY <2>1, <2>2 DEF LoadInv, NothingMadeUp, InPlaceIsKept, LoadMerges
<1>5. CASE Finish
  <2>1. /\ load = "reading" /\ todo = {} /\ load' = "done" /\ todo' = {}
        /\ UNCHANGED <<files, denied, configs, since>> /\ now' = now
        /\ gone' = {c \in clients : configs[c] = None} /\ clients \subseteq Clients
    BY <1>5 DEF Finish, TypeOK, now
  <2>2. Progress
    BY <2>1 DEF LoadInv
  <2>3. \A c : /\ Kept(c)' <=> Kept(c)
               /\ Steady(c)' <=> Steady(c)
               /\ \A S : IsMerged(configs[c], S, c)' <=> IsMerged(configs[c], S, c)
    BY <2>1 DEF Kept, Steady, IsMerged
  <2>4. NothingMadeUp'
    BY <2>1 DEF LoadInv, NothingMadeUp
  <2>5. InPlaceIsKept'
    <3>1. \A c \in Clients : Kept(c) => configs[c] # None
      BY <2>1, <2>2 DEF Progress, Kept
    <3> QED
      BY <2>1, <2>3, <3>1 DEF InPlaceIsKept
  <2>6. LoadMerges'
    <3>1. Files \ todo = Files
      BY <2>1
    <3> QED
      BY <2>1, <2>2, <2>3, <3>1 DEF LoadMerges, Progress
  <2>7. Progress'
    BY <2>1, <2>2, <2>3 DEF Progress
  <2> QED
    BY <2>1, <2>4, <2>5, <2>6, <2>7 DEF LoadInv
<1>6. ASSUME NEW f \in Files, NEW c \in Clients, NEW d \in Declared \cup {None},
             EditClient(f, c, d)
      PROVE  LoadInv'
  BY <1>6, ChangeKeeps DEF EditClient, Edit
<1>7. ASSUME NEW f \in Files, NEW text \in {Absent, Garbled, NoConfigs},
             EditFile(f, text)
      PROVE  LoadInv'
  BY <1>7, ChangeKeeps DEF EditFile, Edit
<1>8. ASSUME NEW S \in SUBSET Inputs, Deny(S)
      PROVE  LoadInv'
  BY <1>8, ChangeKeeps DEF Deny
<1>9. CASE UNCHANGED vars
  BY <1>9 DEF vars, now, LoadInv, NothingMadeUp, InPlaceIsKept, Kept, LoadMerges,
              Progress, Steady, IsMerged
<1> QED
  BY <1>1, <1>2, <1>3, <1>4, <1>5, <1>6, <1>7, <1>8, <1>9 DEF Next, Load

\* A load in progress has of each file what it owes the properties.
THEOREM LoadInvariant == Spec => []LoadInv
BY TypeCorrect, LoadInit, LoadStep, PTL DEF Spec

-----------------------------------------------------------------------------

\* A load merges all that stays as it is, or fails over what it cannot read.
THEOREM LoadMergesCorrect == Spec => []LoadMerges
<1>1. LoadInv => LoadMerges
  BY DEF LoadInv
<1> QED
  BY <1>1, LoadInvariant, PTL

\* Each configuration is one that a file stated while the load went on.
THEOREM NothingMadeUpCorrect == Spec => []NothingMadeUp
<1>1. LoadInv => NothingMadeUp
  BY DEF LoadInv
<1> QED
  BY <1>1, LoadInvariant, PTL

\* A client that some file declares all along is not removed.
THEOREM InPlaceIsKeptCorrect == Spec => []InPlaceIsKept
<1>1. LoadInv => InPlaceIsKept
  BY DEF LoadInv
<1> QED
  BY <1>1, LoadInvariant, PTL

-----------------------------------------------------------------------------
(* Ownership.                                                              *)

LEMMA OwnershipTypeInit == OwnershipInit => OwnershipTypeOK
<1> SUFFICES ASSUME OwnershipInit
             PROVE  OwnershipTypeOK
  OBVIOUS
<1>1. calm \in BOOLEAN
  BY Zenon DEF OwnershipInit
<1>2. Zero \in Owners
  BY DEF Zero, Owners, Id
<1> QED
  BY <1>1, <1>2 DEF OwnershipInit, OwnershipTypeOK, database

LEMMA OwnershipTypeStep ==
    ASSUME OwnershipTypeOK, [OwnershipNext]_ownershipVars
    PROVE  OwnershipTypeOK'
<1> USE OwnershipAssumption DEF OwnershipTypeOK, database
<1>1. CASE LookUser \/ LookFallbackUser
  <2>1. default' \in Owners
    BY <1>1 DEF LookUser, LookFallbackUser, Owners, Id, Name
  <2> QED
    BY <1>1, <2>1 DEF LookUser, LookFallbackUser
<1>2. CASE LookGroup \/ LookFallbackGroup
  <2>1. default' \in Owners
    BY <1>2 DEF LookGroup, LookFallbackGroup, Owners, Id, Name
  <2> QED
    BY <1>2, <2>1 DEF LookGroup, LookFallbackGroup
<1>3. CASE ListSecret
  BY <1>3 DEF ListSecret
<1>4. CASE Fetch
  <2>1. ret' \in Owners
    BY <1>4 DEF Fetch, Owners, Id
  <2> QED
    BY <1>4, <2>1 DEF Fetch
<1>5. CASE LookOwner \/ LookOwnerGroup
  <2>1. ret' \in Owners
    BY <1>5 DEF LookOwner, LookOwnerGroup, Owners, Id
  <2> QED
    BY <1>5, <2>1 DEF LookOwner, LookOwnerGroup
<1>6. CASE WriteFails
  <2>1. upsets' \in Nat
    BY <1>6 DEF WriteFails, Upset
  <2>2. calm' \in BOOLEAN
    BY <1>6, Zenon DEF WriteFails
  <2> QED
    BY <1>6, <2>1, <2>2 DEF WriteFails
<1>12. CASE Verify
  BY <1>12 DEF Verify
<1>7. CASE Tamper \/ Publish
  <2>1. Zero \in Owners
    BY DEF Zero, Owners, Id
  <2>2. calm' \in BOOLEAN
    BY <1>7, Zenon DEF Tamper, Publish
  <2> QED
    BY <1>7, <2>1, <2>2 DEF Tamper, Publish, Upset
<1>8. ASSUME NEW n \in Accounts, Directory(n)
      PROVE  OwnershipTypeOK'
  <2>1. calm' \in BOOLEAN
    BY <1>8, Zenon DEF Directory
  <2>2. users' \subseteq Accounts /\ groups' \subseteq Accounts
    BY <1>8 DEF Directory, Toggle
  <2> QED
    BY <1>8, <2>1, <2>2 DEF Directory, Upset
<1>9. CASE Rebuild
  <2>1. Zero \in Owners
    BY DEF Zero, Owners, Id
  <2>2. calm' \in BOOLEAN
    BY <1>9, Zenon DEF Rebuild
  <2> QED
    BY <1>9, <2>1, <2>2 DEF Rebuild, Upset
<1>10. CASE UNCHANGED ownershipVars
  BY <1>10 DEF ownershipVars
<1>11. CASE Write
  BY <1>11 DEF Write, States
<1> QED
  BY <1>1, <1>2, <1>3, <1>4, <1>5, <1>6, <1>7, <1>8, <1>9, <1>10, <1>11, <1>12
  DEF OwnershipNext, Step

\* The variables of Ownership have their types.
THEOREM OwnershipTypeCorrect == OwnershipSpec => []OwnershipTypeOK
BY OwnershipTypeInit, OwnershipTypeStep, PTL DEF OwnershipSpec

\* The four ways down a chain.
Takes(S, id, a, b, c, k) ==
    \/ id = a /\ \E d \in S : a \in d[k]
    \/ /\ id = b /\ \E d \in S : b \in d[k]
       /\ \E d \in S : a \notin d[k]
    \/ /\ id = c /\ \E d \in S : c \in d[k]
       /\ \E d \in S : a \notin d[k]
       /\ \E d \in S : b \notin d[k]
    \/ /\ id = Root
       /\ \E d \in S : a \notin d[k]
       /\ \E d \in S : b \notin d[k]
       /\ \E d \in S : c \notin d[k]

LEMMA ChainCases ==
    ASSUME NEW S, NEW id, NEW a, NEW b, NEW c, NEW k
    PROVE  Justified(S, id, <<a, b, c>>, k) <=> Takes(S, id, a, b, c, k)
<1> DEFINE chain == <<a, b, c>>
           At(i) == /\ id = IF i = 4 THEN Root ELSE chain[i]
                    /\ i < 4 => \E d \in S : chain[i] \in d[k]
                    /\ \A j \in 1..(i - 1) : \E d \in S : chain[j] \notin d[k]
<1>1. Justified(S, id, chain, k) <=> At(1) \/ At(2) \/ At(3) \/ At(4)
  <2>1. Justified(S, id, chain, k) <=> \E i \in 1..4 : At(i)
    BY DEF Justified
  <2>2. 1..4 = {1, 2, 3, 4}
    OBVIOUS
  <2> HIDE DEF At
  <2> QED
    BY <2>1, <2>2
<1>2. chain[1] = a /\ chain[2] = b /\ chain[3] = c
  OBVIOUS
<1>3. 1..0 = {} /\ 1..1 = {1} /\ 1..2 = {1, 2} /\ 1..3 = {1, 2, 3}
  OBVIOUS
<1>4. At(1) <=> id = a /\ (\E d \in S : a \in d[k])
  BY <1>2, <1>3
<1>5. At(2) <=> id = b /\ (\E d \in S : b \in d[k]) /\ (\E d \in S : a \notin d[k])
  BY <1>2, <1>3
<1>6. At(3) <=> /\ id = c /\ (\E d \in S : c \in d[k])
                /\ \E d \in S : a \notin d[k]
                /\ \E d \in S : b \notin d[k]
  BY <1>2, <1>3
<1>7. At(4) <=> /\ id = Root
                /\ \E d \in S : a \notin d[k]
                /\ \E d \in S : b \notin d[k]
                /\ \E d \in S : c \notin d[k]
  BY <1>2, <1>3
<1> HIDE DEF At
<1> QED
  BY <1>1, <1>4, <1>5, <1>6, <1>7 DEF Takes

\* More to remember takes no justification away.
LEMMA JustifiedGrows ==
    ASSUME NEW S, NEW T, S \subseteq T, NEW id, NEW chain, NEW k,
           Justified(S, id, chain, k)
    PROVE  Justified(T, id, chain, k)
BY DEF Justified

\* No name is known as long as it is left out.
LEMMA NilIsMissing ==
    ASSUME OwnershipTypeOK
    PROVE  /\ \A d \in seen : Nil \notin d[1] /\ Nil \notin d[2]
           /\ database \in seen /\ database[1] = users /\ database[2] = groups
BY OwnershipAssumption DEF OwnershipTypeOK, database

\* A secret's own name that is missing leaves it to the rest of the chain.
LEMMA OwnNameMissing ==
    ASSUME NEW S, NEW id, NEW name, NEW b, NEW c, NEW k,
           \A d \in S : Nil \notin d[k],
           \E d \in S : name \notin d[k],
           Justified(S, id, <<Nil, b, c>>, k)
    PROVE  Justified(S, id, <<name, b, c>>, k)
<1>1. Takes(S, id, Nil, b, c, k)
  BY ChainCases, Zenon
<1>2. Takes(S, id, name, b, c, k)
  BY <1>1 DEF Takes
<1> QED
  BY <1>2, ChainCases, Zenon

Building == {"user", "fallbackUser", "group", "fallbackGroup"}

\* NewOwnership follows the chains without a secret.
LEMMA DefaultStep ==
    ASSUME OwnershipTypeOK, DefaultInv, [OwnershipNext]_ownershipVars
    PROVE  DefaultInv'
<1> USE DEF UserChain, GroupChain
<1>1. CASE LookUser
  <2>1. /\ pc = "user" /\ conf' = conf /\ seen' = seen /\ users' = users
        /\ pc' \in {"group", "fallbackUser"}
    BY <1>1 DEF LookUser, database
  <2>2. CASE conf.user \in users
    <3>1. pc' = "group" /\ default'.uid = conf.user
      BY <1>1, <2>2 DEF LookUser, OwnershipTypeOK, Owners
    <3>2. Takes(seen, default'.uid, Nil, conf.user, conf.defaultUser, 1)
      BY <2>2, <3>1, NilIsMissing DEF Takes
    <3>3. Justified(seen, default'.uid, UserChain(Nil), 1)
      BY <3>2, ChainCases, Zenon
    <3> QED
      BY <2>1, <3>1, <3>3 DEF DefaultInv
  <2>3. CASE conf.user \notin users
    <3>1. pc' = "fallbackUser"
      BY <1>1, <2>3 DEF LookUser
    <3> QED
      BY <2>1, <2>3, <3>1, NilIsMissing DEF DefaultInv
  <2> QED
    BY <2>2, <2>3
<1>2. CASE LookFallbackUser
  <2>1. /\ pc = "fallbackUser" /\ pc' = "group" /\ conf' = conf /\ seen' = seen
        /\ default'.uid = IF conf.defaultUser \in users THEN conf.defaultUser ELSE Root
    BY <1>2 DEF LookFallbackUser, OwnershipTypeOK, Owners
  <2>2. \E d \in seen : conf.user \notin d[1]
    BY <2>1 DEF DefaultInv
  <2>3. Justified(seen, default'.uid, UserChain(Nil), 1)
    <3>1. Takes(seen, default'.uid, Nil, conf.user, conf.defaultUser, 1)
      BY <2>1, <2>2, NilIsMissing DEF Takes
    <3> QED
      BY <3>1, ChainCases, Zenon
  <2> QED
    BY <2>1, <2>3 DEF DefaultInv
<1>3. CASE LookGroup
  <2>1. /\ pc = "group" /\ conf' = conf /\ seen' = seen /\ groups' = groups
        /\ pc' \in {"idle", "fallbackGroup"} /\ default'.uid = default.uid
    BY <1>3 DEF LookGroup, database, OwnershipTypeOK, Owners
  <2>2. Justified(seen, default.uid, UserChain(Nil), 1)
    BY <2>1 DEF DefaultInv
  <2>3. CASE conf.group \in groups
    <3>1. pc' = "idle" /\ default'.gid = conf.group
      BY <1>3, <2>3 DEF LookGroup, OwnershipTypeOK, Owners
    <3>2. Takes(seen, default'.gid, Nil, conf.group, conf.defaultGroup, 2)
      BY <2>3, <3>1, NilIsMissing DEF Takes
    <3>3. Justified(seen, default'.gid, GroupChain(Nil), 2)
      BY <3>2, ChainCases, Zenon
    <3> QED
      BY <2>1, <2>2, <3>1, <3>3 DEF DefaultInv
  <2>4. CASE conf.group \notin groups
    <3>1. pc' = "fallbackGroup"
      BY <1>3, <2>4 DEF LookGroup
    <3> QED
      BY <2>1, <2>2, <2>4, <3>1, NilIsMissing DEF DefaultInv
  <2> QED
    BY <2>3, <2>4
<1>4. CASE LookFallbackGroup
  <2>1. /\ pc = "fallbackGroup" /\ pc' = "idle" /\ conf' = conf /\ seen' = seen
        /\ default'.gid = IF conf.defaultGroup \in groups THEN conf.defaultGroup ELSE Root
        /\ default'.uid = default.uid
    BY <1>4 DEF LookFallbackGroup, OwnershipTypeOK, Owners
  <2>2. /\ \E d \in seen : conf.group \notin d[2]
        /\ Justified(seen, default.uid, UserChain(Nil), 1)
    BY <2>1 DEF DefaultInv
  <2>3. Justified(seen, default'.gid, GroupChain(Nil), 2)
    <3>1. Takes(seen, default'.gid, Nil, conf.group, conf.defaultGroup, 2)
      BY <2>1, <2>2, NilIsMissing DEF Takes
    <3> QED
      BY <3>1, ChainCases, Zenon
  <2> QED
    BY <2>1, <2>2, <2>3 DEF DefaultInv
<1>5. CASE Rebuild
  BY <1>5 DEF Rebuild, DefaultInv
<1>6. CASE /\ conf' = conf /\ default' = default /\ seen \subseteq seen'
           /\ pc' = pc \/ {pc, pc'} \cap Building = {}
  <2>1. ASSUME NEW id, NEW chain, NEW k, Justified(seen, id, chain, k)
        PROVE  Justified(seen', id, chain, k)
    BY <1>6, <2>1, JustifiedGrows
  <2> QED
    BY <1>6, <2>1 DEF DefaultInv, Building
<1>7. ListSecret \/ Fetch \/ LookOwner \/ LookOwnerGroup \/ Write \/ WriteFails
      \/ Verify \/ (\E n \in Accounts : Directory(n)) \/ Publish \/ Tamper
      \/ UNCHANGED ownershipVars =>
        /\ conf' = conf /\ default' = default /\ seen \subseteq seen'
        /\ pc' = pc \/ {pc, pc'} \cap Building = {}
  BY DEF ListSecret, Fetch, LookOwner, LookOwnerGroup, Write, WriteFails, Verify,
         Directory, Publish, Tamper, ownershipVars, Building
<1> QED
  BY <1>1, <1>2, <1>3, <1>4, <1>5, <1>6, <1>7 DEF OwnershipNext, Step

\* A write gives the file the first owner and group that OwnershipValue finds
\* after the secret's own and the client's.
LEMMA OwnerStep ==
    ASSUME OwnershipTypeOK, DefaultInv, OwnerInv, [OwnershipNext]_ownershipVars
    PROVE  OwnerInv'
<1> DEFINE Writing == {"owner", "ownerGroup", "write", "verify"}
<1>1. CASE Fetch
  <2>1. /\ pc' = IF conf.chown THEN "owner" ELSE "write"
        /\ ret' = IF conf.chown THEN default ELSE [uid |-> Self, gid |-> Self]
        /\ UNCHANGED <<conf, default, state, seen>>
    BY <1>1 DEF Fetch
  <2>2. state' # Nil => JustifiedBy(state.info, state.for)'
    BY <2>1 DEF OwnerInv, JustifiedBy, UserChain, GroupChain
  <2>3. pc' = "write" => JustifiedBy(ret, got)'
    BY <2>1 DEF JustifiedBy
  <2> QED
    BY <2>1, <2>2, <2>3 DEF OwnerInv
<1>2. CASE LookOwner
  <2>1. /\ pc = "owner" /\ pc' = "ownerGroup" /\ ret = default /\ conf.chown
        /\ ret'.uid = IF got.owner \in users THEN got.owner ELSE default.uid
        /\ ret'.gid = default.gid
        /\ UNCHANGED <<conf, default, got, state, seen>>
    BY <1>2 DEF LookOwner, OwnerInv, OwnershipTypeOK, Owners
  <2>2. Justified(seen, ret'.uid, UserChain(got.owner), 1)
    <3>1. CASE got.owner \in users
      <4>1. Takes(seen, ret'.uid, got.owner, conf.user, conf.defaultUser, 1)
        BY <2>1, <3>1, NilIsMissing DEF Takes
      <4> QED
        BY <4>1, ChainCases, Zenon DEF UserChain
    <3>2. CASE got.owner \notin users
      <4>1. Justified(seen, default.uid, <<Nil, conf.user, conf.defaultUser>>, 1)
        BY <2>1 DEF DefaultInv, UserChain
      <4>2. \A d \in seen : Nil \notin d[1]
        BY NilIsMissing
      <4>3. \E d \in seen : got.owner \notin d[1]
        BY <3>2, NilIsMissing
      <4>4. Justified(seen, default.uid, <<got.owner, conf.user, conf.defaultUser>>, 1)
        BY <4>1, <4>2, <4>3, OwnNameMissing, Zenon
      <4> QED
        BY <2>1, <3>2, <4>4 DEF UserChain
    <3> QED
      BY <3>1, <3>2
  <2>3. UserChain(got.owner)' = UserChain(got.owner)
    BY <2>1 DEF UserChain
  <2>4. state' # Nil => JustifiedBy(state.info, state.for)'
    BY <2>1 DEF OwnerInv, JustifiedBy, UserChain, GroupChain
  <2> QED
    BY <2>1, <2>2, <2>3, <2>4 DEF OwnerInv
<1>3. CASE LookOwnerGroup
  <2>1. /\ pc = "ownerGroup" /\ pc' = "write" /\ ret.gid = default.gid /\ conf.chown
        /\ ret'.gid = IF got.group \in groups THEN got.group ELSE default.gid
        /\ ret'.uid = ret.uid
        /\ Justified(seen, ret.uid, UserChain(got.owner), 1)
        /\ UNCHANGED <<conf, default, got, state, seen>>
    BY <1>3 DEF LookOwnerGroup, OwnerInv, OwnershipTypeOK, Owners
  <2>2. Justified(seen, ret'.gid, GroupChain(got.group), 2)
    <3>1. CASE got.group \in groups
      <4>1. Takes(seen, ret'.gid, got.group, conf.group, conf.defaultGroup, 2)
        BY <2>1, <3>1, NilIsMissing DEF Takes
      <4> QED
        BY <4>1, ChainCases, Zenon DEF GroupChain
    <3>2. CASE got.group \notin groups
      <4>1. Justified(seen, default.gid, <<Nil, conf.group, conf.defaultGroup>>, 2)
        BY <2>1 DEF DefaultInv, GroupChain
      <4>2. \A d \in seen : Nil \notin d[2]
        BY NilIsMissing
      <4>3. \E d \in seen : got.group \notin d[2]
        BY <3>2, NilIsMissing
      <4>4. Justified(seen, default.gid, <<got.group, conf.group, conf.defaultGroup>>, 2)
        BY <4>1, <4>2, <4>3, OwnNameMissing, Zenon
      <4> QED
        BY <2>1, <3>2, <4>4 DEF GroupChain
    <3> QED
      BY <3>1, <3>2
  <2>3. JustifiedBy(ret, got)'
    BY <2>1, <2>2 DEF JustifiedBy, UserChain, GroupChain
  <2>4. state' # Nil => JustifiedBy(state.info, state.for)'
    BY <2>1 DEF OwnerInv, JustifiedBy, UserChain, GroupChain
  <2> QED
    BY <2>1, <2>3, <2>4 DEF OwnerInv
<1>4. CASE Write
  <2>1. /\ pc = "write" /\ pc' = "verify" /\ state' = [for |-> got, info |-> ret]
        /\ UNCHANGED <<conf, got, ret, seen>>
    BY <1>4 DEF Write
  <2>2. JustifiedBy(ret, got)'
    BY <2>1 DEF OwnerInv, JustifiedBy, UserChain, GroupChain
  <2>3. JustifiedBy(state.info, state.for)'
    BY <2>1, <2>2 DEF JustifiedBy, UserChain, GroupChain
  <2> QED
    BY <2>1, <2>2, <2>3 DEF OwnerInv
<1>5. CASE Verify
  <2>1. pc' = "idle" /\ state' \in {state, Nil} /\ UNCHANGED <<conf, seen>>
    BY <1>5 DEF Verify
  <2>2. state' # Nil => JustifiedBy(state.info, state.for)'
    BY <2>1 DEF OwnerInv, JustifiedBy, UserChain, GroupChain
  <2> QED
    BY <2>1, <2>2 DEF OwnerInv
<1>6. CASE Rebuild
  BY <1>6 DEF Rebuild, OwnerInv
<1>7. CASE /\ conf' = conf /\ state' = state /\ seen \subseteq seen'
           /\ \/ pc' \notin Writing
              \/ pc' = pc /\ UNCHANGED <<default, got, ret>>
  <2>1. ASSUME NEW id, NEW chain, NEW k, Justified(seen, id, chain, k)
        PROVE  Justified(seen', id, chain, k)
    BY <1>7, <2>1, JustifiedGrows
  <2>2. state' # Nil => JustifiedBy(state.info, state.for)'
    BY <1>7, <2>1 DEF OwnerInv, JustifiedBy, UserChain, GroupChain
  <2>3. CASE pc' \notin Writing
    BY <2>2, <2>3 DEF OwnerInv
  <2>4. CASE pc' = pc /\ UNCHANGED <<default, got, ret>>
    <3>1. pc' \in {"write", "verify"} => JustifiedBy(ret, got)'
      BY <1>7, <2>1, <2>4 DEF OwnerInv, JustifiedBy, UserChain, GroupChain
    <3>2. pc' = "ownerGroup" => Justified(seen, ret.uid, UserChain(got.owner), 1)'
      BY <1>7, <2>1, <2>4 DEF OwnerInv, UserChain
    <3> QED
      BY <1>7, <2>2, <2>4, <3>1, <3>2 DEF OwnerInv
  <2> QED
    BY <1>7, <2>3, <2>4
<1>8. ListSecret \/ LookUser \/ LookFallbackUser \/ LookGroup \/ LookFallbackGroup
      \/ WriteFails \/ (\E n \in Accounts : Directory(n)) \/ Publish \/ Tamper
      \/ UNCHANGED ownershipVars =>
        /\ conf' = conf /\ state' = state /\ seen \subseteq seen'
        /\ \/ pc' \notin Writing
           \/ pc' = pc /\ UNCHANGED <<default, got, ret>>
  BY DEF ListSecret, LookUser, LookFallbackUser, LookGroup, LookFallbackGroup,
         WriteFails, Directory, Publish, Tamper, ownershipVars
<1> QED
  BY <1>1, <1>2, <1>3, <1>4, <1>5, <1>6, <1>7, <1>8 DEF OwnershipNext, Step

\* An undisturbed pass ends with a file that Validate accepts.
LEMMA CalmStep ==
    ASSUME OwnershipTypeOK, OwnerInv, CalmInv, [OwnershipNext]_ownershipVars
    PROVE  CalmInv'
<1>1. CASE LookUser \/ LookFallbackUser \/ LookGroup \/ LookFallbackGroup
  BY <1>1 DEF LookUser, LookFallbackUser, LookGroup, LookFallbackGroup, CalmInv
<1>2. CASE ListSecret
  BY <1>2 DEF ListSecret, CalmInv, Validate
<1>3. CASE Fetch
  BY <1>3 DEF Fetch, CalmInv
<1>4. CASE LookOwner \/ LookOwnerGroup
  BY <1>4 DEF LookOwner, LookOwnerGroup, CalmInv
<1>5. CASE Write
  BY <1>5 DEF Write, CalmInv
<1>6. CASE Verify
  <2>1. /\ pc = "verify" /\ pc' = "idle" /\ UNCHANGED <<secret, file, calm>>
        /\ state = [for |-> got, info |-> ret]
    BY <1>6 DEF Verify, OwnerInv
  <2>3. state # Nil
    BY <2>1, OwnershipAssumption DEF OwnershipTypeOK, States
  <2>2. calm => file = ret /\ got = secret
    BY <1>6 DEF Verify, CalmInv
  <2> QED
    BY <1>6, <2>1, <2>2, <2>3 DEF Verify, CalmInv, Validate
<1>7. CASE ~calm' \/ UNCHANGED ownershipVars
  BY <1>7 DEF CalmInv, Validate, ownershipVars
<1>8. WriteFails \/ (\E n \in Accounts : Directory(n)) \/ Publish \/ Tamper \/ Rebuild
        => ~calm'
  BY DEF WriteFails, Directory, Publish, Tamper, Rebuild
<1> QED
  BY <1>1, <1>2, <1>3, <1>4, <1>5, <1>6, <1>7, <1>8 DEF OwnershipNext, Step

\* What NewOwnership and OwnershipValue find is what the chains give, in any
\* order of changes and restarts.
THEOREM OwnershipInvariant == OwnershipSpec => [](DefaultInv /\ OwnerInv /\ CalmInv)
<1>1. OwnershipInit => DefaultInv /\ OwnerInv /\ CalmInv
  BY DEF OwnershipInit, DefaultInv, OwnerInv, CalmInv
<1>2. ASSUME OwnershipTypeOK, DefaultInv, OwnerInv, CalmInv,
             [OwnershipNext]_ownershipVars
      PROVE  DefaultInv' /\ OwnerInv' /\ CalmInv'
  BY <1>2, DefaultStep, OwnerStep, CalmStep, Zenon
<1> QED
  BY <1>1, <1>2, OwnershipTypeCorrect, PTL DEF OwnershipSpec

\* After a pass that nothing disturbed, owner and group of the file are the
\* first of their chains that could be looked up, or keysync's own.
THEOREM SettledIsJustifiedCorrect == OwnershipSpec => []SettledIsJustified
<1>1. OwnershipTypeOK /\ OwnerInv /\ CalmInv => SettledIsJustified
  <2> SUFFICES ASSUME OwnershipTypeOK, OwnerInv, CalmInv, pc = "idle", calm
               PROVE  file # Nil /\ JustifiedBy(file, secret)
    BY Zenon DEF SettledIsJustified
  <2>1. state # Nil /\ state.for = secret /\ file = state.info
    BY DEF CalmInv, Validate
  <2>2. state \in States
    BY <2>1 DEF OwnershipTypeOK
  <2>3. file \in Owners
    BY <2>1, <2>2 DEF States
  <2> QED
    BY <2>1, <2>3, OwnershipAssumption DEF OwnerInv
<1> QED
  BY <1>1, OwnershipTypeCorrect, OwnershipInvariant, PTL

\* What is refuted where a look-up fails for a moment holds where none does:
\* the file then belongs to whom the secret and the client name.
THEOREM OwnedAsConfiguredCorrect ==
    OwnershipSpec /\ [](users = Accounts) => []OwnedAsConfigured
<1> DEFINE AllKnown == \A d \in seen : d[1] = Accounts
<1>1. OwnershipInit /\ users = Accounts => AllKnown
  BY DEF OwnershipInit, database
<1>2. AllKnown /\ users = Accounts /\ (users = Accounts)' /\ [OwnershipNext]_ownershipVars
        => AllKnown'
  BY DEF OwnershipNext, Step, LookUser, LookFallbackUser, LookGroup,
         LookFallbackGroup, ListSecret, Fetch, LookOwner, LookOwnerGroup, Write,
         WriteFails, Verify, Directory, Publish, Tamper, Rebuild, database,
         ownershipVars
<1>3. OwnershipTypeOK /\ AllKnown /\ users = Accounts /\ SettledIsJustified
        => OwnedAsConfigured
  <2> SUFFICES ASSUME OwnershipTypeOK, AllKnown, users = Accounts,
                      SettledIsJustified, pc = "idle", calm, conf.chown,
                      NEW named \in users,
                      named = IF secret.owner # Nil THEN secret.owner
                              ELSE IF conf.user # Nil THEN conf.user
                              ELSE conf.defaultUser
               PROVE  file.uid = named
    BY Zenon DEF OwnedAsConfigured
  <2>1. Justified(seen, file.uid, UserChain(secret.owner), 1)
    BY DEF SettledIsJustified, JustifiedBy
  <2>2. Takes(seen, file.uid, secret.owner, conf.user, conf.defaultUser, 1)
    BY <2>1, ChainCases, Zenon DEF UserChain
  <2>3. /\ secret.owner \in Accounts \cup {Nil} /\ conf.user \in Accounts \cup {Nil}
        /\ Nil \notin Accounts
    BY OwnershipAssumption DEF OwnershipTypeOK, Name
  <2> QED
    BY <2>2, <2>3 DEF Takes
<1> QED
  BY <1>1, <1>2, <1>3, OwnershipTypeCorrect, SettledIsJustifiedCorrect, PTL
     DEF OwnershipSpec
=============================================================================
