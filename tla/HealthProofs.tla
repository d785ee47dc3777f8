---------------------------- MODULE HealthProofs ----------------------------
(***************************************************************************)
(* Proofs about Health, for every polling interval and every bound, and    *)
(* about the monitor that looks at it from outside, for every set of       *)
(* clients and every minimum.                                              *)
(***************************************************************************)
EXTENDS Health, Monitor, TLAPS

USE TimesAssumption

\* The sleeps are numbers, and no longer than a cycle allows.
LEMMA SleepBounds ==
    ASSUME NEW p \in Nat
    PROVE  /\ p \div 4 \in Nat
           /\ \A d \in Sleeps(p) : d \in Nat /\ d <= p + p \div 4
BY DEF Sleeps

\* One more failed pass allows for one more cycle.
LEMMA AllowedStep ==
    ASSUME NEW f \in Nat, pollInterval \in Nat
    PROVE  /\ Cycle \in Nat
           /\ Allowed(f) \in Nat
           /\ Allowed(0) = Cycle
           /\ Allowed(f + 1) = Allowed(f) + Cycle
<1>1. Cycle \in Nat
  BY SleepBounds DEF Cycle
<1>2. \A c \in Nat : (f + 1) * c \in Nat /\ (0 + 1) * c = c
                     /\ (f + 1 + 1) * c = (f + 1) * c + c
  OBVIOUS
<1> QED
  BY <1>1, <1>2 DEF Allowed

\* Ages grow by a unit at most.
LEMMA OlderBounds ==
    ASSUME NEW a \in Nat
    PROVE  Older(a) \in Nat /\ a <= Older(a) /\ Older(a) <= a + 1
           /\ (a < MaxAge => Older(a) = a + 1)
BY DEF Older

-----------------------------------------------------------------------------

LEMMA TypeInit == Init => TypeOK
<1> SUFFICES ASSUME Init
             PROVE  TypeOK
  OBVIOUS
<1>1. broken \in BOOLEAN /\ erred \in BOOLEAN
  BY Zenon DEF Init
<1> QED
  BY <1>1 DEF Init, TypeOK

LEMMA TypeStep == TypeOK /\ [Next]_vars => TypeOK'
<1> SUFFICES ASSUME TypeOK, [Next]_vars
             PROVE  TypeOK'
  OBVIOUS
<1>1. CASE Lock
  BY <1>1 DEF Lock, TypeOK
<1>2. CASE Succeed
  <2>1. left' \in Nat
    BY <1>2, SleepBounds DEF Succeed, Sleep, TypeOK
  <2> QED
    BY <1>2, <2>1 DEF Succeed, Sleep, TypeOK
<1>3. CASE Fail
  <2>1. left' \in Nat
    BY <1>3, SleepBounds DEF Fail, Sleep, TypeOK
  <2> QED
    BY <1>3, <2>1 DEF Fail, Sleep, TypeOK
<1>4. CASE Wake
  BY <1>4 DEF Wake, TypeOK
<1>5. CASE ApiSync
  <2>1. erred' \in BOOLEAN
    BY <1>5, Zenon DEF ApiSync, TypeOK
  <2> QED
    BY <1>5, <2>1 DEF ApiSync, TypeOK
<1>6. CASE ApiDone
  BY <1>6 DEF ApiDone, TypeOK
<1>7. CASE Tick
  <2>1. /\ left' \in Nat /\ busy' \in 0..MaxBusy
    BY <1>7 DEF Tick, TypeOK
  <2>2. lastSuccess' \in Nat \cup {None} /\ good' \in Nat
    BY <1>7, OlderBounds DEF Tick, TypeOK
  <2> QED
    BY <1>7, <2>1, <2>2 DEF Tick, TypeOK
<1>8. CASE Toggle
  <2>1. broken' \in BOOLEAN
    BY <1>8, Zenon DEF Toggle, TypeOK
  <2> QED
    BY <1>8, <2>1 DEF Toggle, Upset, TypeOK
<1>9. CASE Restart
  <2>1. broken' \in BOOLEAN /\ erred' \in BOOLEAN
    BY <1>9, Zenon DEF Restart, TypeOK
  <2> QED
    BY <1>9, <2>1 DEF Restart, Upset, TypeOK
<1>10. CASE UNCHANGED vars
  BY <1>10 DEF vars, TypeOK
<1> QED
  BY <1>1, <1>2, <1>3, <1>4, <1>5, <1>6, <1>7, <1>8, <1>9, <1>10
  DEF Next, Poll

\* The variables have their types, whatever the intervals.
THEOREM TypeCorrect == Spec => []TypeOK
BY TypeInit, TypeStep, PTL DEF Spec

-----------------------------------------------------------------------------

\* What HealthInv says of the failed passes, by itself.
Timely ==
    lastSuccess # None /\ run # "returned" =>
        failed = MaxFailed \/ lastSuccess + Remaining <= Allowed(failed)

LEMMA TimelyStep == TypeOK /\ HealthInv /\ [Next]_vars => Timely'
<1> SUFFICES ASSUME TypeOK, HealthInv, [Next]_vars,
                    (lastSuccess # None /\ run # "returned")',
                    failed' # MaxFailed
             PROVE  (lastSuccess + Remaining <= Allowed(failed))'
  BY Zenon DEF Timely
<1> DEFINE L == pollInterval + pollInterval \div 4
<1>1. /\ pollInterval \in Nat /\ failed \in Nat /\ Cycle \in Nat
      /\ L \in Nat /\ Cycle = L + MaxBusy
      /\ Allowed(failed) \in Nat /\ Allowed(0) = Cycle
      /\ Allowed(failed + 1) = Allowed(failed) + Cycle
  <2>1. /\ pollInterval \in Nat /\ failed \in Nat
    BY DEF TypeOK
  <2>2. L \in Nat
    BY <2>1, SleepBounds
  <2>3. Cycle = L + MaxBusy
    BY DEF Cycle
  <2> QED
    BY <2>1, <2>2, <2>3, AllowedStep
<1>2. pollInterval' = pollInterval
  BY DEF Next, Poll, Lock, Succeed, Fail, Wake, ApiSync, ApiDone, Tick, Toggle,
         Restart, vars
<1>3. \A f : Allowed(f)' = Allowed(f')
  BY <1>2 DEF Allowed, Cycle
<1> HIDE DEF L
<1>4. CASE Succeed
  <2>1. left' \in Nat /\ left' <= L /\ run' = "sleeping"
    BY <1>4, <1>1, SleepBounds DEF Succeed, Sleep, L
  <2>2. lastSuccess' = 0 /\ failed' = 0
    BY <1>4 DEF Succeed
  <2>3. Remaining' = left' + MaxBusy
    BY <2>1 DEF Remaining
  <2> QED
    BY <1>1, <1>3, <2>1, <2>2, <2>3
<1>5. CASE Fail
  <2>1. left' \in Nat /\ left' <= L /\ run' = "sleeping"
    BY <1>5, <1>1, SleepBounds DEF Fail, Sleep, L
  <2>2. /\ lastSuccess' = lastSuccess /\ lastSuccess \in Nat
        /\ failed < MaxFailed /\ failed' = failed + 1
    BY <1>5 DEF Fail, TypeOK
  <2>3. lastSuccess + (MaxBusy - busy) <= Allowed(failed)
    BY <1>5, <2>2 DEF Fail, HealthInv, Remaining, TypeOK
  <2>4. Remaining' = left' + MaxBusy
    BY <2>1 DEF Remaining
  <2>5. busy \in Nat /\ busy <= MaxBusy
    BY DEF TypeOK
  <2> QED
    BY <1>1, <1>3, <2>1, <2>2, <2>3, <2>4, <2>5
<1>6. CASE Tick
  <2>1. /\ lastSuccess \in Nat /\ lastSuccess' \in Nat
        /\ lastSuccess' <= lastSuccess + 1
    BY <1>6, OlderBounds DEF Tick, TypeOK
  <2>2. run' = run /\ failed' = failed
    BY <1>6 DEF Tick
  <2>3. lastSuccess + Remaining <= Allowed(failed)
    BY <2>1, <2>2 DEF HealthInv
  <2>4. Remaining' = Remaining - 1 /\ Remaining \in Nat /\ Remaining' \in Nat
    BY <1>6 DEF Tick, Remaining, TypeOK
  <2> QED
    BY <1>1, <1>3, <2>1, <2>2, <2>3, <2>4
<1>7. CASE Restart
  BY <1>7 DEF Restart
<1>8. CASE Lock \/ Wake \/ ApiSync \/ ApiDone \/ Toggle \/ UNCHANGED vars
  <2>1. /\ lastSuccess' = lastSuccess /\ failed' = failed
        /\ run # "returned"
    BY <1>8 DEF Lock, Wake, ApiSync, ApiDone, Toggle, vars
  <2>2. Remaining' = Remaining
    BY <1>8 DEF Lock, Wake, ApiSync, ApiDone, Toggle, vars, Remaining,
                HealthInv, TypeOK
  <2>3. lastSuccess + Remaining <= Allowed(failed)
    BY <2>1 DEF HealthInv
  <2> QED
    BY <1>3, <2>1, <2>2, <2>3
<1> QED
  BY <1>4, <1>5, <1>6, <1>7, <1>8 DEF Next, Poll

LEMMA HealthStep == TypeOK /\ HealthInv /\ [Next]_vars => HealthInv'
<1> SUFFICES ASSUME TypeOK, HealthInv, [Next]_vars
             PROVE  HealthInv'
  OBVIOUS
<1>1. Timely'
  BY TimelyStep
<1>2. (lastSuccess # None => good <= lastSuccess + MaxBusy)'
  <2>1. CASE Tick
    <3>1. CASE lastSuccess = None
      BY <2>1, <3>1 DEF Tick
    <3>2. CASE lastSuccess # None
      <4>1. /\ lastSuccess \in Nat /\ good \in Nat
            /\ good <= lastSuccess + MaxBusy
        BY <3>2 DEF TypeOK, HealthInv
      <4>2. lastSuccess' = Older(lastSuccess) /\ good' = Older(good)
        BY <2>1, <3>2 DEF Tick
      <4> QED
        BY <4>1, <4>2 DEF Older
    <3> QED
      BY <3>1, <3>2
  <2>2. CASE Succeed
    BY <2>2 DEF Succeed, TypeOK
  <2>3. CASE ~Tick /\ ~Succeed
    BY <2>3 DEF Next, Poll, Lock, Fail, Wake, ApiSync, ApiDone, Toggle,
                Restart, vars, HealthInv
  <2> QED
    BY <2>1, <2>2, <2>3
<1>3. (run = "running" <=> mutex = "run")'
  BY SMTT(30) DEF Next, Poll, Lock, Succeed, Fail, Sleep, Wake, ApiSync, ApiDone, Tick,
         Toggle, Restart, vars, HealthInv, TypeOK
<1>4. (run = "sleeping" => busy = 0)'
  BY DEF Next, Poll, Lock, Succeed, Fail, Sleep, Wake, ApiSync, ApiDone, Tick,
         Toggle, Restart, vars, HealthInv, TypeOK
<1> QED
  BY <1>1, <1>2, <1>3, <1>4 DEF HealthInv, Timely

\* The age of the last success fits the failed passes since.
THEOREM HealthInvariant == Spec => []HealthInv
<1>1. Init => HealthInv
  BY DEF Init, HealthInv
<1> QED
  BY <1>1, TypeCorrect, HealthStep, PTL DEF Spec

\* A healthy answer stands for a pass that began recently enough.
THEOREM OkMeansRecentCorrect == Spec => []OkMeansRecent
<1>1. TypeOK /\ HealthInv => OkMeansRecent
  BY DEF TypeOK, HealthInv, OkMeansRecent, Status, Threshold
<1> QED
  BY <1>1, TypeCorrect, HealthInvariant, PTL

\* /status turns unhealthy only after enough failed passes.
THEOREM AlarmMeansFailuresCorrect == Spec => []AlarmMeansFailures
<1>1. ASSUME TypeOK, HealthInv
      PROVE  AlarmMeansFailures
  <2> SUFFICES ASSUME Status = "stale", run # "returned", failed # MaxFailed
               PROVE  Allowed(failed) > Threshold
    BY Zenon DEF AlarmMeansFailures
  <2>1. lastSuccess \in Nat /\ lastSuccess > Threshold /\ lastSuccess # None
    BY <1>1 DEF Status, TypeOK
  <2>2. lastSuccess + Remaining <= Allowed(failed)
    BY <1>1, <2>1 DEF HealthInv
  <2>3. Remaining \in Nat
    BY <1>1 DEF Remaining, TypeOK
  <2>4. Allowed(failed) \in Nat /\ Threshold \in Nat
    BY <1>1, AllowedStep DEF TypeOK, Threshold
  <2> QED
    BY <2>1, <2>2, <2>3, <2>4
<1> QED
  BY <1>1, TypeCorrect, HealthInvariant, PTL

-----------------------------------------------------------------------------
(* The monitor.                                                            *)

\* Each check looks at what is there to be looked at.
LEMMA LooksFacts ==
    /\ \A i \in 1..5 : Reads(Stages[i]) \subseteq Looks
    /\ \A x \in Looks : \E i \in 1..5 : x \in Reads(Stages[i])
BY DEF Looks

LEMMA StagesFacts ==
    /\ Reads(Stages[1]) = Paths \X {"-"}
    /\ Reads(Stages[2]) = {<<"status", "-">>}
    /\ Reads(Stages[3]) = {<<"configs", "-">>}
    /\ Reads(Stages[4]) = {"cert", "secrets"} \X Clients
    /\ Reads(Stages[5]) = {<<"disk", "-">>}
BY DEF Reads, Stages

LEMMA LookCases ==
    \A x : x \in Looks <=>
        \/ x \in Paths \X {"-"} \/ x = <<"status", "-">>
        \/ x = <<"configs", "-">> \/ x \in {"cert", "secrets"} \X Clients
        \/ x = <<"disk", "-">>
BY StagesFacts, LooksFacts

\* What can be amiss is looked at, empty directories as such are not.
LEMMA AmissFacts ==
    /\ wrong \subseteq Parts => Amiss \subseteq Looks
    /\ Empty \subseteq {"empty"} \X Clients
    /\ Looks \cap ({"empty"} \X Clients) = {}
<1>1. wrong \subseteq Parts => Amiss \subseteq Looks
  BY LookCases DEF Amiss, Parts
<1>2. Empty \subseteq {"empty"} \X Clients
  BY DEF Empty
<1>3. Looks \cap ({"empty"} \X Clients) = {}
  BY LookCases DEF Paths
<1> QED
  BY <1>1, <1>2, <1>3

\* Life runs down by a day at a time, to the day after the last.
LEMMA LifeType ==
    ASSUME MonitorTypeOK,
           \/ Age
           \/ \E c \in Clients, d \in {MaxLife, Missing} : Renew(c, d)
    PROVE  life' \in [Clients -> -1..MaxLife \cup {Missing}]
<1>1. life \in [Clients -> -1..MaxLife \cup {Missing}] /\ MaxLife \in Nat
  BY MonitorAssumption DEF MonitorTypeOK
<1>2. CASE Age
  BY <1>1, <1>2 DEF Age
<1>3. ASSUME NEW c \in Clients, NEW d \in {MaxLife, Missing}, Renew(c, d)
      PROVE  life' \in [Clients -> -1..MaxLife \cup {Missing}]
  BY <1>1, <1>3 DEF Renew
<1> QED
  BY <1>2, <1>3

LEMMA MonitorTypeInit == MonitorInit => MonitorTypeOK
BY MonitorAssumption DEF MonitorInit, MonitorTypeOK

\* What every change of the world does to the histories.
LEMMA WorldType ==
    ASSUME MonitorTypeOK, World,
           wrong' \subseteq Parts,
           files' \in [Clients -> 0..MaxFiles \cup {Missing}],
           life' \in [Clients -> -1..MaxLife \cup {Missing}]
    PROVE  MonitorTypeOK'
<1>1. Amiss' \subseteq Looks /\ Empty' \subseteq {"empty"} \X Clients
  BY LookCases DEF Amiss, Parts, Empty
<1> QED
  BY <1>1 DEF World, Change, progress, MonitorTypeOK

LEMMA MonitorTypeStep ==
    ASSUME MonitorTypeOK, [MonitorNext]_monitorVars
    PROVE  MonitorTypeOK'
<1>1. CASE Begin
  BY <1>1, LooksFacts, AmissFacts DEF Begin, MonitorTypeOK, world
<1>2. ASSUME NEW x \in Looks, Look(x)
      PROVE  MonitorTypeOK'
  BY <1>2 DEF Look, MonitorTypeOK, world
<1>3. CASE NextCheck
  BY <1>3, LooksFacts DEF NextCheck, MonitorTypeOK, world
<1>4. CASE Done \/ Alert \/ AlertFails
  BY <1>4 DEF Done, Alert, AlertFails, Change,
              MonitorTypeOK, world
<1>5. ASSUME NEW p \in Parts, BreakOrMend(p)
      PROVE  MonitorTypeOK'
  BY <1>5, WorldType DEF BreakOrMend, MonitorTypeOK
<1>6. ASSUME NEW c \in Clients, NEW n \in 0..MaxFiles \cup {Missing}, Sync(c, n)
      PROVE  MonitorTypeOK'
  BY <1>6, WorldType DEF Sync, MonitorTypeOK
<1>7. ASSUME NEW c \in Clients, NEW d \in {MaxLife, Missing}, Renew(c, d)
      PROVE  MonitorTypeOK'
  BY <1>7, WorldType, LifeType DEF Renew, MonitorTypeOK
<1>8. CASE Age
  BY <1>8, WorldType, LifeType DEF Age, MonitorTypeOK
<1>9. CASE UNCHANGED monitorVars
  BY <1>9 DEF monitorVars, world, progress, MonitorTypeOK
<1> QED
  BY <1>1, <1>2, <1>3, <1>4, <1>5, <1>6, <1>7, <1>8, <1>9
  DEF MonitorNext, Step

\* The variables of Monitor have their types.
THEOREM MonitorTypeCorrect == MonitorSpec => []MonitorTypeOK
BY MonitorTypeInit, MonitorTypeStep, PTL DEF MonitorSpec

-----------------------------------------------------------------------------

\* Whatever the world does, what was amiss all along still is, and what is
\* amiss while the monitor runs is remembered.
LEMMA WorldRun ==
    ASSUME MonitorTypeOK, RunInv, World
    PROVE  RunInv'
<1>1. /\ always' \subseteq always
      /\ always' \subseteq Amiss' \cup Empty'
      /\ UNCHANGED <<stage, todo, errs, exit>>
  BY DEF World, progress
<1>2. CASE stage = 0
  <2>1. ever' = ever
    BY <1>2 DEF World
  <2>2. ReportIsSound'
    BY <1>1, <1>2, <2>1 DEF RunInv, ReportIsSound
  <2> QED
    BY <1>1, <1>2, <2>2 DEF RunInv
<1>3. CASE stage # 0
  <2>1. errs' \cup Amiss' \subseteq ever'
    BY <1>1, <1>3 DEF World, RunInv
  <2>2. ReportIsSound'
    BY <1>1, <1>3 DEF ReportIsSound
  <2> QED
    BY <1>1, <1>3, <2>1, <2>2 DEF RunInv
<1> QED
  BY <1>2, <1>3

\* A look finds what was amiss all along.
LEMMA LookRun ==
    ASSUME MonitorTypeOK, RunInv,
           NEW x \in Looks, Look(x)
    PROVE  RunInv'
<1>1. /\ x \in todo /\ todo' = todo \ {x}
      /\ errs' = errs \cup ({x} \cap Amiss)
      /\ UNCHANGED <<wrong, files, life, stage, always, ever>>
  BY DEF Look, world
<1>2. Amiss' = Amiss /\ Empty' = Empty
  BY <1>1 DEF Amiss, Empty, BadCert, FewSecrets
<1>3. x \in always => x \in Amiss
  BY AmissFacts DEF RunInv
<1>4. stage # 0
  BY <1>1 DEF RunInv
<1> QED
  BY <1>1, <1>2, <1>3, <1>4 DEF RunInv, ReportIsSound

\* How a run ends.
LEMMA EndRun ==
    ASSUME MonitorTypeOK, RunInv,
           Done \/ Alert \/ AlertFails
    PROVE  ReportIsSound'
<1>1. /\ stage \in 1..5 /\ todo = {} /\ UNCHANGED <<errs, always, ever>>
  BY DEF Done, Alert, AlertFails, MonitorTypeOK
<1>2. CASE Done
  <2>1. stage = 5 /\ errs = {} /\ exit' = "ok"
    BY <1>2 DEF Done
  <2>2. \A j \in 1..5 : always \cap Reads(Stages[j]) = {}
    <3> TAKE j \in 1..5
    <3>1. CASE j = 5
      BY <1>1, <2>1, <3>1 DEF RunInv
    <3>2. CASE j \in 1..4
      BY <2>1, <3>2 DEF RunInv
    <3> QED
      BY <3>1, <3>2
  <2>3. always \cap Looks = {}
    BY <2>2, LooksFacts
  <2> QED
    BY <1>1, <2>1, <2>3 DEF ReportIsSound
<1>3. CASE Alert \/ AlertFails
  <2>1. errs # {} /\ exit' # "ok"
    BY <1>3 DEF Alert, AlertFails
  <2>2. errs \subseteq ever /\ errs \subseteq Reads(Stages[stage])
    BY <1>1 DEF RunInv
  <2>3. \A j \in 1..stage : always \cap Reads(Stages[j]) \subseteq errs
    <3> TAKE j \in 1..stage
    <3>1. CASE j = stage
      BY <1>1, <3>1 DEF RunInv
    <3>2. CASE j \in 1..(stage - 1)
      BY <1>1, <3>2 DEF RunInv
    <3> QED
      BY <1>1, <3>1, <3>2
  <2> QED
    BY <1>1, <2>1, <2>2, <2>3 DEF ReportIsSound
<1> QED
  BY <1>2, <1>3

LEMMA RunStep ==
    ASSUME MonitorTypeOK, RunInv,
           [MonitorNext]_monitorVars
    PROVE  RunInv'
<1> USE DEF world
<1>1. ASSUME UNCHANGED <<wrong, files, life>>
      PROVE  Amiss' = Amiss /\ Empty' = Empty
  BY <1>1 DEF Amiss, Empty, BadCert, FewSecrets
<1>2. CASE Begin
  <2>1. /\ stage' = 1 /\ errs' = {} /\ UNCHANGED <<wrong, files, life>>
        /\ todo' = Reads(Stages[1])
        /\ always' = Amiss \cup Empty /\ ever' = always'
    BY <1>2 DEF Begin
  <2> QED
    BY <1>1, <2>1 DEF RunInv, ReportIsSound
<1>3. ASSUME NEW x \in Looks, Look(x)
      PROVE  RunInv'
  BY <1>3, LookRun
<1>4. CASE NextCheck
  <2>1. /\ stage \in 1..4 /\ todo = {} /\ errs = {} /\ stage' = stage + 1
        /\ todo' = Reads(Stages[stage'])
        /\ UNCHANGED <<wrong, files, life, errs, always, ever>>
    BY <1>4 DEF NextCheck
  <2>2. \A j \in 1..(stage' - 1) : always \cap Reads(Stages[j]) = {}
    <3> TAKE j \in 1..(stage' - 1)
    <3>1. CASE j = stage
      BY <2>1, <3>1 DEF RunInv
    <3>2. CASE j \in 1..(stage - 1)
      BY <2>1, <3>2 DEF RunInv
    <3> QED
      BY <2>1, <3>1, <3>2
  <2> QED
    BY <1>1, <2>1, <2>2 DEF RunInv, ReportIsSound
<1>5. CASE Done \/ Alert \/ AlertFails
  <2>1. /\ stage' = 0 /\ todo = {}
        /\ UNCHANGED <<wrong, files, life, todo, always>>
    BY <1>5 DEF Done, Alert, AlertFails
  <2> QED
    BY <1>1, <1>5, <2>1, EndRun DEF RunInv
<1>6. CASE (\E p \in Parts : BreakOrMend(p))
           \/ (\E c \in Clients : \/ \E n \in 0..MaxFiles \cup {Missing} : Sync(c, n)
                                  \/ \E d \in {MaxLife, Missing} : Renew(c, d))
           \/ Age
  BY <1>6, WorldRun DEF BreakOrMend, Sync, Renew, Age
<1>7. CASE UNCHANGED monitorVars
  BY <1>1, <1>7 DEF monitorVars, progress, RunInv, ReportIsSound
<1> QED
  BY <1>2, <1>3, <1>4, <1>5, <1>6, <1>7 DEF MonitorNext, Step

\* A run of the monitor, anywhere in the world's changes, has found or is still
\* to look at whatever has been amiss since it began.
THEOREM RunInvariant == MonitorSpec => []RunInv
<1>1. MonitorInit => RunInv
  BY DEF MonitorInit, RunInv, ReportIsSound
<1> QED
  BY <1>1, MonitorTypeCorrect, RunStep, PTL DEF MonitorSpec

\* The monitor is silent only when nothing was amiss all the time, and reports
\* only what was amiss, completely for its check and the earlier ones.
THEOREM ReportIsSoundCorrect == MonitorSpec => []ReportIsSound
<1>1. RunInv => ReportIsSound
  BY DEF RunInv
<1> QED
  BY <1>1, RunInvariant, PTL

\* With a minimum of secrets, a directory that is empty all along has too few.
EmptyIsAmiss ==
    \A c \in Clients : <<"empty", c>> \in always => <<"secrets", c>> \in always

LEMMA EmptyStep ==
    ASSUME MinSecretsCount # 0,
           MonitorTypeOK, RunInv, EmptyIsAmiss, [MonitorNext]_monitorVars
    PROVE  EmptyIsAmiss'
<1>1. ASSUME NEW c \in Clients
      PROVE  /\ <<"empty", c>> \in Empty => <<"secrets", c>> \in Amiss
             /\ <<"empty", c>> \notin Amiss
             /\ <<"empty", c>> \in Empty' => <<"secrets", c>> \in Amiss'
             /\ <<"empty", c>> \notin Amiss'
  <2>1. MonitorTypeOK'
    BY MonitorTypeStep
  <2>2. MinSecretsCount > 0
    BY MonitorAssumption
  <2> QED
    BY <2>1, <2>2 DEF Empty, Amiss, FewSecrets,
       MonitorTypeOK, Parts, Paths
<1>2. CASE Begin
  BY <1>1, <1>2 DEF Begin, EmptyIsAmiss
<1>3. CASE World
  BY <1>1, <1>3 DEF World, EmptyIsAmiss
<1>4. CASE always' = always
  BY <1>4 DEF EmptyIsAmiss
<1> QED
  BY <1>2, <1>3, <1>4
  DEF MonitorNext, Step, Look, NextCheck, Done,
      Alert, AlertFails, BreakOrMend, Sync,
      Renew, Age, monitorVars

\* What checkClientHealth promises of empty directories is true as soon as a
\* minimum is configured; with the default of 0 it is not.
THEOREM EmptyIsReportedCorrect ==
    ASSUME MinSecretsCount # 0
    PROVE  MonitorSpec => []EmptyIsReported
<1>1. MonitorInit => EmptyIsAmiss
  BY DEF MonitorInit, EmptyIsAmiss
<1>2. MonitorSpec => []EmptyIsAmiss
  BY <1>1, MonitorTypeCorrect, RunInvariant, EmptyStep, PTL DEF MonitorSpec
<1>3. ReportIsSound /\ EmptyIsAmiss => EmptyIsReported
  <2>1. \A c \in Clients : <<"secrets", c>> \in Looks
    BY LookCases
  <2> SUFFICES ASSUME ReportIsSound, EmptyIsAmiss, stage = 0, exit = "ok",
                      NEW c \in Clients, <<"empty", c>> \in always
               PROVE  FALSE
    BY DEF EmptyIsReported
  <2>2. always \cap Looks = {}
    BY DEF ReportIsSound
  <2> QED
    BY <2>1, <2>2 DEF EmptyIsAmiss
<1> QED
  BY <1>2, <1>3, ReportIsSoundCorrect, PTL
=============================================================================
