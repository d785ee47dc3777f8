---------------------------- MODULE SyncerProofs ----------------------------
(***************************************************************************)
(* Proofs about Syncer for every set of clients, directories and           *)
(* goroutines and every bound on the environment.                          *)
(***************************************************************************)
EXTENDS Syncer, TLAPS

-----------------------------------------------------------------------------
(***************************************************************************)
(* TypeOK is inductive by itself.                                          *)
(***************************************************************************)
LEMMA TypeInit == Init => TypeOK
BY DEF Init, TypeOK, NoClients, Idle, Nothing, Threads

LEMMA LoadedType ==
    ASSUME TypeOK, NEW c \in Clients
    PROVE  Loaded(c) \in Conf \cup {None}
BY DEF TypeOK, Loaded, Built

LEMMA DirsOfType ==
    ASSUME NEW cfg \in [Clients -> Conf \cup {None}]
    PROVE  DirsOf(cfg) \subseteq Dirs
BY DEF DirsOf, Conf

LEMMA TypeStep == TypeOK /\ [Next]_vars => TypeOK'
<1> SUFFICES ASSUME TypeOK, [Next]_vars PROVE TypeOK'
  OBVIOUS
<1> USE DEF TypeOK
<1>1. ASSUME NEW t \in Threads, LoadClients(t) PROVE TypeOK'
  <2>1. clients' \in [Clients -> Conf \cup {None}]
    BY <1>1, LoadedType DEF LoadClients
  <2>2. dirs' \in [Dirs -> Clients \cup {Missing, Empty}]
    BY <1>1 DEF LoadClients, NewOutputs
  <2>3. pending' \in [Threads -> SUBSET Dirs]
    BY <1>1 DEF LoadClients, Gone, Conf
  <2>4. todo' \in [Threads -> SUBSET Clients]
    BY <1>1 DEF LoadClients
  <2>5. known' \in [Threads -> SUBSET Dirs]
    BY <1>1, <2>1, DirsOfType DEF LoadClients
  <2>6. errors' \in [Threads -> SUBSET (Clients \cup Dirs \cup {All})]
    BY <1>1 DEF LoadClients
  <2> QED
    BY <1>1, <2>1, <2>2, <2>3, <2>4, <2>5, <2>6 DEF LoadClients, config
<1>2. ASSUME NEW t \in Threads, LoadFails(t) PROVE TypeOK'
  BY <1>2 DEF LoadFails, config
<1>3. ASSUME NEW t \in Threads, ReadSecretsDir(t) PROVE TypeOK'
  BY <1>3, UpsetsAssumption DEF ReadSecretsDir, Unknown, Upset, config
<1>4. ASSUME NEW t \in Threads, Unlock(t) PROVE TypeOK'
  BY <1>4 DEF Unlock, config
<1>5. ASSUME NEW t \in Threads, NEW c \in todo[t], SyncClient(t, c) PROVE TypeOK'
  BY <1>5 DEF SyncClient, config
<1>6. ASSUME NEW t \in Threads, NEW c \in todo[t], SyncFails(t, c) PROVE TypeOK'
  BY <1>6 DEF SyncFails, Upset, config
<1>7. ASSUME NEW t \in Threads, NEW c \in todo[t], SyncIncomplete(t, c) PROVE TypeOK'
  BY <1>7 DEF SyncIncomplete, Upset, config
<1>8. ASSUME NEW t \in Threads, NEW d \in pending[t], CleanupPending(t, d) PROVE TypeOK'
  BY <1>8 DEF CleanupPending, RemoveAll, RemoveAllFails, Upset, config
<1>9. ASSUME NEW t \in Threads, NEW d \in unknown[t], RemoveUnknown(t, d) PROVE TypeOK'
  BY <1>9 DEF RemoveUnknown, RemoveAll, RemoveAllFails, Upset, config
<1>10. ASSUME NEW t \in Threads, NEW o \in Clients \cup {All}, Acquire(t, o) PROVE TypeOK'
  BY <1>10 DEF Acquire, config
<1>11. ASSUME NEW c \in Clients, EditKey(c) PROVE TypeOK'
  BY <1>11 DEF EditKey, Upset, thread
<1>12. ASSUME NEW c \in Clients, NEW x \in ConfsOf(c), Edit(c, x) PROVE TypeOK'
  <2>1. x \in Conf \cup {None}
    BY ClientsAssumption DEF ConfsOf, Conf
  <2> QED
    BY <1>12, <2>1 DEF Edit, Upset, thread
<1>13. CASE EditYaml
  BY <1>13 DEF EditYaml, Upset, thread
<1>14. CASE Restart
  BY <1>14 DEF Restart, Upset, config, NoClients, Idle, Nothing
<1>15. CASE UNCHANGED vars
  BY <1>15 DEF vars, config, thread
<1> QED
  BY <1>1, <1>2, <1>3, <1>4, <1>5, <1>6, <1>7, <1>8, <1>9, <1>10, <1>11,
     <1>12, <1>13, <1>14, <1>15 DEF Next, SyncerStep, Step, Environment

(***************************************************************************)
(* Every variable of Syncer keeps its type (Syncer's fields and RunOnce's  *)
(* local variables).                                                       *)
(***************************************************************************)
THEOREM TypeCorrect == Spec => []TypeOK
BY TypeInit, TypeStep, PTL DEF Spec

-----------------------------------------------------------------------------
(* Facts about goroutines, clients and their directories. *)

LEMMA NoThread == None \notin Threads
BY ThreadsAssumption DEF Threads

LEMMA OthersIdle ==
    ASSUME MutexInv, NEW t \in Threads, pc[t] # "idle",
           NEW u \in Threads, u # t
    PROVE  /\ pc[u] = "idle"
           /\ todo[u] = {} /\ pending[u] = {} /\ unknown[u] = {}
BY DEF MutexInv

LEMMA OwnDir ==
    ASSUME TypeOK, OwnInv,
           NEW b \in Clients, NEW c \in OwnClients, b # c,
           clients[b] # None, clients[c] # None
    PROVE  clients[b].dir # clients[c].dir
BY DEF OwnClients, OwnInv

LEMMA LoadedDir ==
    ASSUME TypeOK, NEW c \in Clients, clients[c] # None
    PROVE  clients[c].dir \in Dirs /\ clients[c].dir \in DirsOf(clients)
BY DEF TypeOK, Conf, DirsOf

\* The directory of a client that goes is not one a client has for itself.
LEMMA GoneDir ==
    ASSUME TypeOK, OwnInv,
           NEW b \in Clients, Gone(b), NEW c \in OwnClients, Loaded(c) # None
    PROVE  clients[b].dir # Loaded(c).dir
<1>1. b # c
  BY DEF Gone, Loaded, Built, OwnClients
<1>2. clients[b].dir \in DirsFor[b]
  BY DEF OwnInv, Gone
<1>3. Loaded(c).dir \in DirsFor[c]
  BY DEF OwnInv, Loaded, Built, OwnClients
<1> QED
  BY <1>1, <1>2, <1>3 DEF OwnClients

\* A directory other than a loaded client's does not change what it shows.
LEMMA StillShows ==
    ASSUME TypeOK, NEW c \in Clients, clients[c] # None, UNCHANGED clients,
           NEW d, d # clients[c].dir, NEW x, dirs' = [dirs EXCEPT ![d] = x]
    PROVE  dirs'[clients[c].dir] = dirs[clients[c].dir] /\ Shows(c)' = Shows(c)
BY LoadedDir DEF TypeOK, Shows

-----------------------------------------------------------------------------
(***************************************************************************)
(* SyncerInv is inductive, with TypeOK, one lemma for each kind of step.   *)
(***************************************************************************)
LEMMA InvInit == Init => SyncerInv
BY NoThread DEF Init, OwnClients, SyncerInv, MutexInv, OwnInv, KnownInv, SpareInv, ShownInv, SweptInv,
   NoClients, Idle, Nothing, DirsOf, ConfsOf

LEMMA AcquireInv ==
    ASSUME TypeOK, SyncerInv, NEW t \in Threads, NEW o, Acquire(t, o)
    PROVE  SyncerInv'
<1> USE DEF TypeOK, SyncerInv, Acquire, config
<1>1. MutexInv'
  BY ThreadsAssumption DEF MutexInv, Threads
<1>2. OwnInv'
  BY DEF OwnInv
<1>3. KnownInv'
  BY DEF KnownInv, DirsOf, MutexInv
<1>4. SweptInv'
  BY DEF SweptInv
<1>5. SpareInv'
  BY DEF SpareInv
<1>6. ShownInv'
  BY DEF ShownInv, Shows, OwnClients
<1> QED
  BY <1>1, <1>2, <1>3, <1>4, <1>5, <1>6

LEMMA LoadClientsInv ==
    ASSUME TypeOK, SyncerInv, NEW t \in Threads, LoadClients(t)
    PROVE  SyncerInv'
<1> USE DEF SyncerInv
<1>1. \A u \in Threads \ {t} :
         /\ pc[u] = "idle" /\ pc'[u] = "idle"
         /\ todo'[u] = {} /\ pending'[u] = {} /\ unknown'[u] = {}
  BY OthersIdle DEF LoadClients, TypeOK
<1>2. pc'[t] = "work" /\ unknown'[t] = {} /\ lock' = t
  BY DEF LoadClients, TypeOK, MutexInv
<1>3. clients' = [c \in Clients |-> Loaded(c)]
  BY DEF LoadClients
<1>4. MutexInv'
  BY <1>1, <1>2 DEF MutexInv
<1>5. OwnInv'
  BY <1>3 DEF OwnInv, Loaded, Built, LoadClients, config
<1>6. KnownInv'
  <2>1. \A c \in todo'[t] : clients'[c] # None
    BY <1>3 DEF LoadClients, TypeOK, MutexInv
  <2>2. op'[t] = All => known'[t] = DirsOf(clients')
    BY DEF LoadClients, TypeOK, ClientsAssumption
  <2> QED
    BY <1>1, <1>2, <2>1, <2>2 DEF KnownInv
<1>7. SweptInv'
  BY <1>1, <1>2 DEF SweptInv
<1>8. SpareInv'
  <2>1. pending'[t] = {clients[c].dir : c \in {b \in Clients : Gone(b)}}
    BY DEF LoadClients, TypeOK
  <2>2. \A c \in OwnClients : clients'[c] # None => clients'[c].dir \notin pending'[t]
    BY <1>3, <2>1, GoneDir DEF OwnClients
  <2> QED
    BY <1>1, <2>2 DEF SpareInv
<1>9. ShownInv'
  <2>1. \A c \in OwnClients :
          op'[t] \in {All, c} /\ clients'[c] # None => c \in todo'[t]
    BY <1>3, ClientsAssumption DEF LoadClients, TypeOK, OwnClients
  <2> QED
    BY <1>1, <2>1 DEF ShownInv
<1> QED
  BY <1>4, <1>5, <1>6, <1>7, <1>8, <1>9

LEMMA LoadFailsInv ==
    ASSUME TypeOK, SyncerInv, NEW t \in Threads, LoadFails(t)
    PROVE  SyncerInv'
<1> USE DEF TypeOK, SyncerInv, LoadFails, config
<1>1. MutexInv'
  BY NoThread, OthersIdle DEF MutexInv
<1>2. OwnInv'
  BY DEF OwnInv
<1>3. KnownInv'
  BY DEF KnownInv, DirsOf
<1>4. SweptInv'
  BY DEF SweptInv
<1>5. SpareInv'
  BY DEF SpareInv
<1>6. ShownInv'
  BY DEF ShownInv, Shows
<1> QED
  BY <1>1, <1>2, <1>3, <1>4, <1>5, <1>6

\* A pass of one client, whatever comes of it.
LEMMA PassInv ==
    ASSUME TypeOK, SyncerInv, NEW t \in Threads, NEW c \in todo[t],
           SyncClient(t, c) \/ SyncFails(t, c) \/ SyncIncomplete(t, c)
    PROVE  SyncerInv'
<1> USE DEF SyncerInv
<1>1. /\ UNCHANGED <<config, clients, lock, pc, op, known, pending, unknown>>
      /\ todo' = [todo EXCEPT ![t] = @ \ {c}]
      /\ pc[t] = "work"
  BY DEF SyncClient, SyncFails, SyncIncomplete
<1>2. c \in Clients /\ clients[c] # None
  BY DEF TypeOK, KnownInv
<1>3. MutexInv'
  BY <1>1 DEF MutexInv, TypeOK
<1>4. OwnInv'
  BY <1>1 DEF OwnInv, config
<1>5. KnownInv'
  BY <1>1 DEF KnownInv, DirsOf, TypeOK
<1>6. SweptInv'
  BY <1>1, OthersIdle DEF SweptInv
<1>7. SpareInv'
  BY <1>1 DEF SpareInv
<1>8. ShownInv'
  <2> SUFFICES ASSUME NEW u \in Threads, NEW b \in OwnClients,
                      pc[u] \in {"work", "sweep"}, op[u] \in {All, b},
                      clients[b] # None
               PROVE  b \in (todo[u] \cup errors[u] \cup partial[u])' \/ Shows(b)'
    BY <1>1 DEF ShownInv
  <2>1. u = t
    BY <1>1, OthersIdle
  <2>2. b \in todo[t] \cup errors[t] \cup partial[t] \/ Shows(b)
    BY <2>1 DEF ShownInv
  <2>3. CASE SyncClient(t, c)
    <3>1. b = c => Shows(b)'
      BY <1>1, <1>2, <2>3, LoadedDir DEF SyncClient, Shows, TypeOK
    <3>2. b # c => Shows(b)' = Shows(b)
      BY <1>1, <1>2, <2>3, OwnDir, LoadedDir
      DEF SyncClient, Shows, TypeOK, OwnClients
    <3> QED
      BY <1>1, <2>1, <2>2, <2>3, <3>1, <3>2 DEF SyncClient, TypeOK
  <2>4. CASE SyncFails(t, c)
    BY <1>1, <2>1, <2>2, <2>4 DEF SyncFails, Shows, TypeOK
  <2>5. CASE SyncIncomplete(t, c)
    BY <1>1, <2>1, <2>2, <2>5 DEF SyncIncomplete, Shows, TypeOK
  <2> QED
    BY <2>3, <2>4, <2>5
<1> QED
  BY <1>3, <1>4, <1>5, <1>6, <1>7, <1>8

LEMMA CleanupPendingInv ==
    ASSUME TypeOK, SyncerInv, NEW t \in Threads, NEW d \in pending[t],
           CleanupPending(t, d)
    PROVE  SyncerInv'
<1> USE DEF SyncerInv
<1>1. /\ UNCHANGED <<config, clients, lock, pc, op, todo, known, unknown, partial>>
      /\ pending' = [pending EXCEPT ![t] = @ \ {d}]
      /\ pc[t] = "work"
  BY DEF CleanupPending
<1>2. \A c \in OwnClients : clients[c] # None => d # clients[c].dir
  BY DEF SpareInv
<1>3. \E x : dirs' = [dirs EXCEPT ![d] = x]
  BY DEF CleanupPending, RemoveAll, RemoveAllFails
<1>4. \A u \in Threads : errors[u] \subseteq errors'[u]
  BY DEF CleanupPending, TypeOK
<1>5. MutexInv'
  BY <1>1 DEF MutexInv, TypeOK
<1>6. OwnInv'
  BY <1>1 DEF OwnInv, config
<1>7. KnownInv'
  BY <1>1 DEF KnownInv, DirsOf, TypeOK
<1>8. SweptInv'
  BY <1>1, OthersIdle DEF SweptInv
<1>9. SpareInv'
  BY <1>1 DEF SpareInv, TypeOK
<1>10. ShownInv'
  <2>1. \A c \in OwnClients : clients[c] # None => Shows(c)' = Shows(c)
    BY <1>1, <1>2, <1>3, StillShows DEF OwnClients
  <2> QED
    BY <1>1, <1>4, <2>1 DEF ShownInv
<1> QED
  BY <1>5, <1>6, <1>7, <1>8, <1>9, <1>10

LEMMA ReadSecretsDirInv ==
    ASSUME TypeOK, SyncerInv, NEW t \in Threads, ReadSecretsDir(t)
    PROVE  SyncerInv'
<1> USE DEF SyncerInv
<1>1. /\ UNCHANGED <<config, clients, dirs, lock, op, todo, known, pending, partial>>
      /\ pc' = [pc EXCEPT ![t] = "sweep"]
      /\ pc[t] = "work" /\ op[t] = All /\ todo[t] = {} /\ pending[t] = {}
  BY DEF ReadSecretsDir
<1>2. /\ unknown'[t] \in {{}, Unknown(t)}
      /\ All \in errors'[t] \/ unknown'[t] = Unknown(t)
      /\ \A u \in Threads \ {t} : unknown'[u] = unknown[u]
      /\ \A u \in Threads : errors[u] \subseteq errors'[u]
  BY DEF ReadSecretsDir, TypeOK, MutexInv
<1>3. MutexInv'
  BY <1>1, <1>2, OthersIdle DEF MutexInv, TypeOK
<1>4. OwnInv'
  BY <1>1 DEF OwnInv, config
<1>5. KnownInv'
  BY <1>1, <1>2 DEF KnownInv, DirsOf, TypeOK, Unknown
<1>6. SpareInv'
  BY <1>1 DEF SpareInv
<1>7. ShownInv'
  BY <1>1, <1>2 DEF ShownInv, Shows, TypeOK
<1>8. SweptInv'
  <2>1. \A u \in Threads \ {t} : pc'[u] = "idle"
    BY <1>1, OthersIdle DEF TypeOK
  <2> QED
    BY <1>1, <1>2, <2>1 DEF SweptInv, Unknown
<1> QED
  BY <1>3, <1>4, <1>5, <1>6, <1>7, <1>8

LEMMA RemoveUnknownInv ==
    ASSUME TypeOK, SyncerInv, NEW t \in Threads, NEW d \in unknown[t],
           RemoveUnknown(t, d)
    PROVE  SyncerInv'
<1> USE DEF SyncerInv
<1>1. /\ UNCHANGED <<config, clients, lock, pc, op, todo, known, pending, partial>>
      /\ unknown' = [unknown EXCEPT ![t] = @ \ {d}]
      /\ pc[t] = "sweep"
  BY DEF RemoveUnknown
<1>2. d \notin DirsOf(clients) /\ d \in Dirs
  BY DEF KnownInv, TypeOK
<1>3. \E x : dirs' = [dirs EXCEPT ![d] = x]
  BY DEF RemoveUnknown, RemoveAll, RemoveAllFails
<1>4. \A u \in Threads : errors[u] \subseteq errors'[u]
  BY DEF RemoveUnknown, TypeOK
<1>5. MutexInv'
  BY <1>1 DEF MutexInv, TypeOK
<1>6. OwnInv'
  BY <1>1 DEF OwnInv, config
<1>7. KnownInv'
  BY <1>1 DEF KnownInv, DirsOf, TypeOK
<1>8. ShownInv'
  <2>1. \A c \in OwnClients : clients[c] # None => Shows(c)' = Shows(c)
    BY <1>1, <1>2, <1>3, LoadedDir, StillShows DEF OwnClients
  <2> QED
    BY <1>1, <1>4, <2>1 DEF ShownInv
<1>9. SweptInv'
  <2>1. dirs'[d] = Missing \/ d \in errors'[t]
    BY <1>2 DEF RemoveUnknown, RemoveAll, RemoveAllFails, TypeOK
  <2>2. \A e \in Dirs \ {d} : dirs'[e] = dirs[e]
    BY <1>3 DEF TypeOK
  <2>3. \A u \in Threads \ {t} : pc[u] = "idle"
    BY <1>1, OthersIdle
  <2>4. unknown'[t] = unknown[t] \ {d}
    BY <1>1 DEF TypeOK
  <2> QED
    BY <1>1, <1>4, <2>1, <2>2, <2>3, <2>4 DEF SweptInv
<1>10. SpareInv'
  BY <1>1 DEF SpareInv
<1> QED
  BY <1>5, <1>6, <1>7, <1>8, <1>9, <1>10

LEMMA UnlockInv ==
    ASSUME TypeOK, SyncerInv, NEW t \in Threads, Unlock(t)
    PROVE  SyncerInv'
<1> USE DEF SyncerInv
<1>1. /\ UNCHANGED <<config, clients, dirs, op, todo, pending, unknown,
                     errors, partial>>
      /\ pc' = [pc EXCEPT ![t] = "idle"]
      /\ known' = [known EXCEPT ![t] = {}]
      /\ Finished(t)
  BY DEF Unlock
<1>2. todo[t] = {} /\ pending[t] = {} /\ unknown[t] = {} /\ pc[t] # "idle"
  BY <1>1 DEF Finished, MutexInv
<1>3. pc'[t] = "idle" /\ \A u \in Threads \ {t} : pc'[u] = "idle"
  BY <1>1, <1>2, OthersIdle DEF TypeOK
<1>4. \A u \in Threads : todo[u] = {} /\ pending[u] = {} /\ unknown[u] = {}
  BY <1>2, OthersIdle
<1>5. MutexInv'
  <2>1. lock' = None
    BY DEF Unlock
  <2> QED
    BY <1>1, <1>3, <1>4, <2>1, NoThread DEF MutexInv
<1>6. OwnInv'
  BY <1>1 DEF OwnInv, config
<1>7. KnownInv'
  BY <1>1, <1>3, <1>4 DEF KnownInv
<1>8. SweptInv'
  BY <1>3 DEF SweptInv
<1>9. SpareInv'
  BY <1>1, <1>4 DEF SpareInv
<1>10. ShownInv'
  BY <1>3 DEF ShownInv
<1> QED
  BY <1>5, <1>6, <1>7, <1>8, <1>9, <1>10

LEMMA EnvironmentInv ==
    ASSUME TypeOK, SyncerInv, Environment \/ UNCHANGED vars
    PROVE  SyncerInv'
<1> USE DEF SyncerInv
<1>1. CASE Restart
  BY <1>1, NoThread DEF Restart, MutexInv, OwnInv, KnownInv, SpareInv, ShownInv, SweptInv,
     OwnClients, NoClients, Idle, Nothing, DirsOf, config
<1>2. CASE ~Restart
  <2>1. UNCHANGED <<clients, dirs, lock, thread>>
    BY <1>2 DEF Environment, EditKey, EditYaml, Edit, vars
  <2>2. MutexInv'
    BY <2>1 DEF MutexInv, thread
  <2>3. OwnInv'
    <3>1. \A c \in Clients :
            configs'[c] = configs[c] \/ configs'[c] \in ConfsOf(c)
      BY <1>2 DEF Environment, EditKey, EditYaml, Edit, vars, config, TypeOK
    <3> QED
      BY <2>1, <3>1 DEF OwnInv, ConfsOf
  <2>4. KnownInv'
    BY <2>1 DEF KnownInv, DirsOf, thread
  <2>5. SweptInv'
    BY <2>1 DEF SweptInv, thread
  <2>6. SpareInv'
    BY <2>1 DEF SpareInv, thread
  <2>7. ShownInv'
    BY <2>1 DEF ShownInv, Shows, thread
  <2> QED
    BY <2>2, <2>3, <2>4, <2>5, <2>6, <2>7
<1> QED
  BY <1>1, <1>2

LEMMA InvStep == TypeOK /\ SyncerInv /\ [Next]_vars => SyncerInv'
BY AcquireInv, LoadClientsInv, LoadFailsInv, PassInv, CleanupPendingInv,
   ReadSecretsDirInv, RemoveUnknownInv, UnlockInv, EnvironmentInv
   DEF Next, SyncerStep, Step

(***************************************************************************)
(* SyncerInv holds throughout: the mutex keeps goroutines apart, and what  *)
(* waits to be removed is never the directory a loaded client has for      *)
(* itself (syncer.go 178-265, 320-360).                                    *)
(***************************************************************************)
THEOREM SyncerInvariant == Spec => []SyncerInv
BY TypeCorrect, InvInit, InvStep, PTL DEF Spec

-----------------------------------------------------------------------------
(* The properties. *)

(***************************************************************************)
(* A RunOnce without errors shows all loaded clients with directories of   *)
(* their own and leaves no directory that no client has (syncer.go         *)
(* 320-360).                                                               *)
(***************************************************************************)
THEOREM SuccessAllCorrect == Spec => []SuccessMeansAllShown
<1>1. SyncerInv => SuccessMeansAllShown
  <2> SUFFICES ASSUME SyncerInv, NEW t \in Threads,
                      Finished(t), op[t] = All, errors[t] = {}
               PROVE  /\ \A c \in OwnClients :
                            clients[c] # None => Shows(c) \/ c \in partial[t]
                      /\ \A d \in Dirs : dirs[d] # Missing => d \in DirsOf(clients)
    BY DEF SuccessMeansAllShown
  <2>1. pc[t] = "sweep" /\ unknown[t] = {} /\ todo[t] = {}
    BY DEF Finished, SyncerInv, MutexInv
  <2>2. known[t] = DirsOf(clients)
    BY <2>1 DEF SyncerInv, KnownInv
  <2> QED
    BY <2>1, <2>2 DEF SyncerInv, ShownInv, SweptInv
<1> QED
  BY <1>1, SyncerInvariant, PTL

(***************************************************************************)
(* A successful answer to a request for one client means it is shown, if   *)
(* it has its directory for itself (api.go 85-135).                        *)
(***************************************************************************)
THEOREM SuccessOneCorrect == Spec => []SuccessMeansOneShown
<1>1. SyncerInv => SuccessMeansOneShown
  <2> SUFFICES ASSUME SyncerInv, NEW t \in Threads,
                      Finished(t), op[t] \in OwnClients, errors[t] = {},
                      clients[op[t]] # None
               PROVE  Shows(op[t]) \/ op[t] \in partial[t]
    BY DEF SuccessMeansOneShown
  <2>1. op[t] # All
    BY ClientsAssumption DEF OwnClients
  <2>2. pc[t] = "work" /\ todo[t] = {}
    BY <2>1 DEF Finished, SyncerInv, MutexInv
  <2> QED
    BY <2>2 DEF SyncerInv, ShownInv
<1> QED
  BY <1>1, SyncerInvariant, PTL

(***************************************************************************)
(* No goroutine takes away the secrets of a client that stays loaded in a  *)
(* directory of its own, whoever shares others (syncer.go 198-217,         *)
(* write.go 83-112).                                                       *)
(***************************************************************************)
THEOREM KeepsLoadedCorrect == Spec => KeepsLoadedClients
<1> DEFINE Keeps ==
      \A c \in OwnClients :
          (clients[c] # None /\ clients'[c] = clients[c] /\ Shows(c))
              => dirs'[clients[c].dir] = c
<1>1. TypeOK /\ SyncerInv /\ SyncerStep => Keeps
  <2> SUFFICES ASSUME TypeOK, SyncerInv, NEW t \in Threads,
                      Step(t) \/ \E o \in Clients \cup {All} : Acquire(t, o),
                      NEW c \in OwnClients, clients[c] # None, Shows(c)
               PROVE  dirs'[clients[c].dir] = c
    BY DEF SyncerStep
  <2>1. c \in Clients
    BY DEF OwnClients
  <2>2. CASE UNCHANGED dirs
    BY <2>2 DEF Shows
  <2>3. CASE LoadClients(t)
    BY <2>1, <2>3, LoadedDir, ClientsAssumption DEF LoadClients, NewOutputs, Shows
  <2>4. ASSUME NEW b \in todo[t], SyncClient(t, b)
        PROVE  dirs'[clients[c].dir] = c
    <3>1. b \in Clients /\ clients[b] # None
      BY DEF TypeOK, SyncerInv, KnownInv
    <3>2. b # c => clients[b].dir # clients[c].dir
      BY <3>1, OwnDir DEF SyncerInv
    <3> QED
      BY <2>1, <2>4, <3>1, <3>2, LoadedDir DEF SyncClient, Shows, TypeOK
  <2>5. ASSUME NEW d \in pending[t] \cup unknown[t],
               CleanupPending(t, d) \/ RemoveUnknown(t, d)
        PROVE  dirs'[clients[c].dir] = c
    <3>1. d # clients[c].dir
      BY <2>1, LoadedDir DEF SyncerInv, KnownInv, SpareInv
    <3>2. UNCHANGED clients /\ \E x : dirs' = [dirs EXCEPT ![d] = x]
      BY <2>5 DEF CleanupPending, RemoveUnknown, RemoveAll, RemoveAllFails
    <3> QED
      BY <2>1, <3>1, <3>2, StillShows DEF Shows
  <2> QED
    BY <2>2, <2>3, <2>4, <2>5 DEF Step, LoadFails, ReadSecretsDir, Unlock,
       SyncFails, SyncIncomplete, Acquire
<1>2. TypeOK /\ SyncerInv /\ [Next]_vars => [SyncerStep => Keeps]_vars
  BY <1>1
<1> QED
  BY <1>2, TypeCorrect, SyncerInvariant, PTL DEF Spec, KeepsLoadedClients

(***************************************************************************)
(* The mutex is held by a goroutine that is on its way, and each of its    *)
(* steps leaves it less to do before it releases the mutex (syncer.go      *)
(* 178-217, 320-360; api.go 85-135).                                       *)
(***************************************************************************)
THEOREM MutexIsReleasedCorrect == Spec => MutexIsReleased
<1> DEFINE Held == /\ lock # None => pc[lock] # "idle"
                   /\ \A t \in Threads : Step(t) => lock = t /\ HolderGoesOn(t)
<1>1. TypeOK /\ SyncerInv => Held
  <2>1. ASSUME TypeOK, SyncerInv PROVE lock # None => pc[lock] # "idle"
    BY <2>1 DEF TypeOK, SyncerInv, MutexInv
  <2>2. ASSUME TypeOK, SyncerInv, NEW t \in Threads, Step(t)
        PROVE  lock = t /\ HolderGoesOn(t)
    <3>1. CASE \/ LoadClients(t) \/ LoadFails(t) \/ ReadSecretsDir(t) \/ Unlock(t)
      <4>1. pc[t] \in {"load", "work", "sweep"} /\ Part(pc'[t]) > Part(pc[t])
        BY <2>2, <3>1 DEF TypeOK, Part, LoadClients, LoadFails, ReadSecretsDir,
           Unlock, Finished
      <4> QED
        BY <2>2, <4>1 DEF SyncerInv, MutexInv, HolderGoesOn
    <3>2. ASSUME NEW c \in todo[t],
                 SyncClient(t, c) \/ SyncFails(t, c) \/ SyncIncomplete(t, c)
          PROVE  lock = t /\ HolderGoesOn(t)
      <4>1. /\ pc[t] = "work" /\ UNCHANGED <<pc, pending>>
            /\ todo'[t] = todo[t] \ {c}
        BY <2>2, <3>2 DEF TypeOK, SyncClient, SyncFails, SyncIncomplete
      <4> QED
        BY <2>2, <4>1 DEF SyncerInv, MutexInv, HolderGoesOn, Smaller
    <3>3. ASSUME NEW d \in pending[t], CleanupPending(t, d)
          PROVE  lock = t /\ HolderGoesOn(t)
      <4>1. /\ pc[t] = "work" /\ UNCHANGED <<pc, todo>>
            /\ pending'[t] = pending[t] \ {d}
        BY <2>2, <3>3 DEF TypeOK, CleanupPending
      <4> QED
        BY <2>2, <4>1 DEF SyncerInv, MutexInv, HolderGoesOn, Smaller
    <3>4. ASSUME NEW d \in unknown[t], RemoveUnknown(t, d)
          PROVE  lock = t /\ HolderGoesOn(t)
      <4>1. /\ pc[t] = "sweep" /\ UNCHANGED pc
            /\ unknown'[t] = unknown[t] \ {d}
        BY <2>2, <3>4 DEF TypeOK, RemoveUnknown
      <4> QED
        BY <2>2, <4>1 DEF SyncerInv, MutexInv, HolderGoesOn, Smaller
    <3> QED
      BY <2>2, <3>1, <3>2, <3>3, <3>4 DEF Step
  <2> QED
    BY <2>1, <2>2
<1>2. TypeOK /\ SyncerInv => [Held]_vars
  BY <1>1
<1> QED
  BY <1>2, TypeCorrect, SyncerInvariant, PTL DEF MutexIsReleased

(***************************************************************************)
(* Where every client has its directory for itself, RunOnce removes for    *)
(* clients that are gone only directories that no loaded client has        *)
(* (syncer.go 343).                                                        *)
(***************************************************************************)
THEOREM PendingIsUnknownCorrect ==
    ASSUME OwnDirs PROVE Spec => PendingIsUnknown
<1> DEFINE Other ==
      \A t \in Threads : \A d \in Dirs :
          (CleanupPending(t, d) /\ op[t] = All) => d \notin known[t]
<1>1. SyncerInv => Other
  <2> SUFFICES ASSUME SyncerInv, NEW t \in Threads, NEW d \in Dirs,
                      CleanupPending(t, d), op[t] = All
               PROVE  d \notin known[t]
    OBVIOUS
  <2>1. pc[t] = "work" /\ d \in pending[t]
    BY DEF CleanupPending
  <2>2. known[t] = DirsOf(clients)
    BY <2>1 DEF SyncerInv, KnownInv
  <2> QED
    BY <2>1, <2>2 DEF SyncerInv, SpareInv, OwnDirs, DirsOf
<1>2. SyncerInv /\ [Next]_vars => [Other]_vars
  BY <1>1
<1> QED
  BY <1>2, SyncerInvariant, PTL DEF Spec, PendingIsUnknown
=============================================================================
