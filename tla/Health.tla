------------------------------- MODULE Health -------------------------------
(***************************************************************************)
(* When /status calls keysync healthy: Run's polling (syncer.go) and the   *)
(* time of its last success (api.go, status), in discrete time.            *)
(***************************************************************************)
EXTENDS Naturals

CONSTANTS
    PollIntervals,  \* the configured interval, in units of time; 0 is none
    MaxBusy,        \* longest wait for syncMutex and RunOnce, together
    MaxAge,         \* ages are not told apart beyond this bound
    MaxFailed,      \* nor numbers of failed passes
    MaxUpsets,      \* bound on outages and restarts
    None

ASSUME TimesAssumption ==
    /\ PollIntervals \subseteq Nat
    /\ MaxBusy \in Nat /\ MaxAge \in Nat /\ MaxFailed \in Nat /\ MaxUpsets \in Nat
    /\ None \notin Nat \cup {"run", "api"}

VARIABLES
    pollInterval,
    run,        \* where Run is
    mutex,      \* who holds syncMutex
    left,       \* of Run's sleep
    busy,       \* time since Run woke up
    lastSuccess,\* age of lastSuccessAt, or None if it is zero
    lastError,  \* lastError
    broken,     \* RunOnce fails, whoever calls it
    failed,     \* history: passes of Run that failed since lastSuccessAt
    good,       \* history: age of the start of the pass it stands for
    erred,      \* history: RunOnce has returned an error
    upsets

vars == <<pollInterval, run, mutex, left, busy, lastSuccess, lastError, broken,
          failed, good, erred, upsets>>

Threshold == 10 * pollInterval

\* Randomize: up to a quarter more than the interval.
SleepsLong(p) == p..(2 * p)
Sleeps(p) == p..(p + p \div 4)

Cycle == pollInterval + pollInterval \div 4 + MaxBusy

TypeOK ==
    /\ pollInterval \in PollIntervals
    /\ run \in {"waiting", "running", "sleeping", "returned"}
    /\ mutex \in {"run", "api", None}
    /\ left \in Nat /\ busy \in 0..MaxBusy
    /\ lastSuccess \in Nat \cup {None}
    /\ lastError \in {"nil", "error"}
    /\ broken \in BOOLEAN
    /\ failed \in 0..MaxFailed
    /\ good \in Nat
    /\ erred \in BOOLEAN
    /\ upsets \in Nat

\* NewSyncer.
Init ==
    /\ pollInterval \in PollIntervals
    /\ run = "waiting" /\ mutex = None
    /\ left = 0 /\ busy = 0
    /\ lastSuccess = None /\ lastError = "nil"
    /\ broken \in BOOLEAN
    /\ failed = 0 /\ good = 0 /\ erred = FALSE
    /\ upsets = 0

Upset ==
    /\ upsets < MaxUpsets
    /\ upsets' = upsets + 1

Older(age) == IF age < MaxAge THEN age + 1 ELSE age

-----------------------------------------------------------------------------
(* Run. *)

Lock ==
    /\ run = "waiting" /\ mutex = None
    /\ run' = "running" /\ mutex' = "run"
    /\ UNCHANGED <<pollInterval, left, busy, lastSuccess, lastError, broken,
                   failed, good, erred, upsets>>

\* After a pass Run sleeps or, without an interval, returns.
Sleep ==
    /\ mutex' = None
    /\ busy' = 0
    /\ IF pollInterval = 0
       THEN run' = "returned" /\ left' = 0
       ELSE run' = "sleeping" /\ left' \in Sleeps(pollInterval)

Succeed ==
    /\ run = "running" /\ ~broken
    /\ lastSuccess' = 0
    /\ failed' = 0
    /\ good' = busy
    /\ Sleep
    /\ UNCHANGED <<pollInterval, lastError, broken, erred, upsets>>

\* Mutant: the time of the last pass is kept, not of the last success.
FailStamps ==
    /\ run = "running" /\ broken
    /\ lastSuccess' = 0
    /\ failed' = 0
    /\ erred' = TRUE
    /\ Sleep
    /\ UNCHANGED <<pollInterval, lastError, broken, good, upsets>>

Fail ==
    /\ run = "running" /\ broken
    /\ failed' = IF failed < MaxFailed THEN failed + 1 ELSE failed
    /\ erred' = TRUE
    /\ Sleep
    /\ UNCHANGED <<pollInterval, lastSuccess, lastError, broken, good, upsets>>

Wake ==
    /\ run = "sleeping" /\ left = 0
    /\ run' = "waiting"
    /\ UNCHANGED <<pollInterval, mutex, left, busy, lastSuccess, lastError,
                   broken, failed, good, erred, upsets>>

-----------------------------------------------------------------------------
(* Requests to sync, which leave no trace in lastSuccessAt, and the rest. *)

ApiSync ==
    /\ mutex = None
    /\ mutex' = "api"
    /\ erred' = (erred \/ broken)
    /\ UNCHANGED <<pollInterval, run, left, busy, lastSuccess, lastError,
                   broken, failed, good, upsets>>

ApiDone ==
    /\ mutex = "api"
    /\ mutex' = None
    /\ UNCHANGED <<pollInterval, run, left, busy, lastSuccess, lastError,
                   broken, failed, good, erred, upsets>>

\* Mutant: the sleep goes on when its time is up.
TickPast ==
    /\ CASE run = "sleeping" -> left' = left - 1 /\ busy' = busy
         [] run = "returned" -> UNCHANGED <<left, busy>>
         [] OTHER -> busy < MaxBusy /\ busy' = busy + 1 /\ left' = left
    /\ lastSuccess' = IF lastSuccess = None THEN None ELSE Older(lastSuccess)
    /\ good' = Older(good)
    /\ UNCHANGED <<pollInterval, run, mutex, lastError, broken, failed, erred,
                   upsets>>

Tick ==
    /\ CASE run = "sleeping" -> left > 0 /\ left' = left - 1 /\ busy' = busy
         [] run = "returned" -> UNCHANGED <<left, busy>>
         [] OTHER -> busy < MaxBusy /\ busy' = busy + 1 /\ left' = left
    /\ lastSuccess' = IF lastSuccess = None THEN None ELSE Older(lastSuccess)
    /\ good' = Older(good)
    /\ UNCHANGED <<pollInterval, run, mutex, lastError, broken, failed, erred,
                   upsets>>

Toggle ==
    /\ Upset
    /\ broken' = ~broken
    /\ UNCHANGED <<pollInterval, run, mutex, left, busy, lastSuccess, lastError,
                   failed, good, erred>>

Restart ==
    /\ Upset
    /\ run' = "waiting" /\ mutex' = None
    /\ left' = 0 /\ busy' = 0
    /\ lastSuccess' = None /\ lastError' = "nil"
    /\ failed' = 0 /\ good' = 0 /\ erred' = FALSE
    /\ UNCHANGED <<pollInterval, broken>>

Poll == Lock \/ Succeed \/ Fail \/ Wake

Next == Poll \/ ApiSync \/ ApiDone \/ Tick \/ Toggle \/ Restart

Spec == Init /\ [][Next]_vars

\* Time passes, requests end, Run goes on, and gets a contended mutex.
FairSpec ==
    /\ Spec
    /\ WF_vars(Tick) /\ WF_vars(ApiDone)
    /\ WF_vars(Succeed \/ Fail \/ Wake) /\ SF_vars(Lock)

-----------------------------------------------------------------------------
(* What /status answers. *)

Status ==
    IF lastSuccess = None THEN "initial"
    ELSE IF lastSuccess > Threshold THEN "stale"
    ELSE "ok"

-----------------------------------------------------------------------------
(* Properties. *)

\* A healthy answer means that some pass over all clients began within ten
\* intervals and the time of one pass, and succeeded.
OkMeansRecent == Status = "ok" => good <= Threshold + MaxBusy

Allowed(f) == (f + 1) * Cycle

\* /status does not cry wolf: when it turns from healthy to not, so many
\* passes have failed that even the shortest row of them, each after the
\* longest sleep, lock and pass, takes more than ten intervals.  With passes
\* that succeed in time it stays healthy.
AlarmMeansFailures ==
    Status = "stale" /\ run # "returned" =>
        failed = MaxFailed \/ Allowed(failed) > Threshold

\* The time to the end of the present cycle, at most.
Remaining == IF run = "sleeping" THEN left + MaxBusy ELSE MaxBusy - busy

\* The inductive invariant: the age of the last success fits the failed passes
\* since, and is no less than that of the pass it stands for allows.
HealthInv ==
    /\ lastSuccess # None /\ run # "returned" =>
         failed = MaxFailed \/ lastSuccess + Remaining <= Allowed(failed)
    /\ lastSuccess # None => good <= lastSuccess + MaxBusy
    /\ run = "running" <=> mutex = "run"
    /\ run = "sleeping" => busy = 0

\* A lasting outage ends in an unhealthy answer, a lasting recovery in a
\* healthy one, whatever requests of the API wait for the mutex as well.
StatusFollows ==
    /\ <>[](broken /\ run # "returned") => <>[](Status # "ok")
    /\ <>[](~broken /\ run # "returned") => <>[](Status = "ok")

\* "Returns the most recent error that was encountered.  Returns nil if no
\* error has been encountered" (syncer.go, mostRecentError, which /status
\* quotes).
ErrorIsKept == Status = "stale" /\ erred => lastError = "error"
=============================================================================
