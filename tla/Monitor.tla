------------------------------ MODULE Monitor ------------------------------
(***************************************************************************)
(* The monitor command (cmd/monitor): four checks one after the other, of  *)
(* which the first that finds errors is the last, over files, certificates *)
(* and the /status of keysync, which all change while it looks.            *)
(***************************************************************************)
EXTENDS Integers

CONSTANTS
    Clients,            \* the configured clients
    MinSecretsCount,    \* as in MonitorConfig; the default is 0
    MinCertLifetime,    \* as in MonitorConfig, in days; the default is 0
    Recipient,          \* whether alerts go to an address
    MaxFiles,           \* bound on the files of a client's directory
    MaxLife,            \* bound on the days a certificate may last
    Missing,            \* no such directory, no such key pair
    MaxChanges           \* bound on everything the environment does

ASSUME MonitorAssumption ==
    /\ MinSecretsCount \in Nat /\ MinCertLifetime \in Nat
    /\ Recipient \in BOOLEAN
    /\ MaxFiles \in Nat /\ MaxLife \in Nat /\ MaxChanges \in Nat
    /\ Missing \notin Int

VARIABLES
    wrong,     \* what is amiss of paths, keysync, the configuration, the disk
    files,      \* how many files each client's directory has
    life,       \* how many days each client's certificate still lasts
    stage,      \* the check the monitor is at
    todo,       \* what it has yet to look at
    errs,       \* what it has found amiss
    exit,       \* the status it ended with
    mailed,     \* the errors of the last alert
    always,     \* history: what has been amiss since the monitor began
    ever,       \* history: what has been amiss at some time since
    changes

world == <<wrong, files, life>>
progress == <<stage, todo, errs, exit, mailed>>
monitorVars == <<world, progress, always, ever, changes>>

Paths == {"SecretsDir", "ClientsDir", "CaFile"}
Parts == Paths \cup {"status", "configs", "disk"}

Stages == <<"paths", "status", "configs", "clients", "disk">>

Reads(s) ==
    CASE s = "paths"   -> Paths \X {"-"}
      [] s = "clients" -> {"cert", "secrets"} \X Clients
      [] OTHER         -> {<<s, "-">>}

Looks == UNION {Reads(Stages[i]) : i \in 1..5}

MonitorTypeOK ==
    /\ wrong \subseteq Parts
    /\ files \in [Clients -> 0..MaxFiles \cup {Missing}]
    /\ life \in [Clients -> -1..MaxLife \cup {Missing}]
    /\ stage \in 0..5
    /\ todo \subseteq Looks
    /\ errs \subseteq Looks
    /\ exit \in {"running", "ok", "error", "panic"}
    /\ mailed \subseteq Looks
    /\ always \subseteq ever /\ ever \subseteq Looks \cup {"empty"} \X Clients
    /\ changes \in Nat

-----------------------------------------------------------------------------
(* The checks. *)

\* checkCertificate: cannot be loaded, expired, or lasts less than asked for.
BadCert(c) == life[c] = Missing \/ life[c] < 0 \/ life[c] < MinCertLifetime

\* checkHasSecrets.
FewSecrets(c) == files[c] = Missing \/ files[c] < MinSecretsCount

Amiss ==
    wrong \X {"-"}
    \cup {"cert"} \X {c \in Clients : BadCert(c)}
    \cup {"secrets"} \X {c \in Clients : FewSecrets(c)}

Empty == {"empty"} \X {c \in Clients : files[c] = 0}

MonitorInit ==
    /\ wrong \in SUBSET Parts
    /\ files \in [Clients -> 0..MaxFiles \cup {Missing}]
    /\ life = [c \in Clients |-> MaxLife]
    /\ stage = 0 /\ todo = {} /\ errs = {}
    /\ exit = "ok" /\ mailed = {}
    /\ always = {} /\ ever = {}
    /\ changes = 0

Begin ==
    /\ stage = 0
    /\ stage' = 1 /\ todo' = Reads(Stages[1])
    /\ errs' = {} /\ exit' = "running" /\ mailed' = {}
    /\ always' = Amiss \cup Empty /\ ever' = Amiss \cup Empty
    /\ UNCHANGED <<world, changes>>

\* Mutant: the second finding of a check replaces the first.
LookKeepsLast(x) ==
    /\ x \in todo
    /\ todo' = todo \ {x}
    /\ errs' = {x} \cap Amiss
    /\ UNCHANGED <<world, stage, exit, mailed, always, ever, changes>>

\* One look, at one moment.
Look(x) ==
    /\ x \in todo
    /\ todo' = todo \ {x}
    /\ errs' = errs \cup ({x} \cap Amiss)
    /\ UNCHANGED <<world, stage, exit, mailed, always, ever, changes>>

\* runChecks goes on while there are no errors.
NextCheck ==
    /\ stage \in 1..4 /\ todo = {} /\ errs = {}
    /\ stage' = stage + 1
    /\ todo' = Reads(Stages[stage + 1])
    /\ UNCHANGED <<world, errs, exit, mailed, always, ever, changes>>

\* Mutant: the check of the clients ends the run when it finds nothing.
DoneEarly ==
    /\ stage \in 4..5 /\ todo = {} /\ errs = {}
    /\ stage' = 0 /\ exit' = "ok"
    /\ UNCHANGED <<world, todo, errs, mailed, always, ever, changes>>

\* Mutant: the loop goes on after the last check.
DonePast ==
    /\ stage = 5 /\ todo = {} /\ errs = {}
    /\ stage' = stage + 1 /\ exit' = "ok"
    /\ UNCHANGED <<world, todo, errs, mailed, always, ever, changes>>

Done ==
    /\ stage = 5 /\ todo = {} /\ errs = {}
    /\ stage' = 0 /\ exit' = "ok"
    /\ UNCHANGED <<world, todo, errs, mailed, always, ever, changes>>

\* Otherwise it prints them, mails them and exits.
Alert ==
    /\ stage # 0 /\ todo = {} /\ errs # {}
    /\ stage' = 0 /\ exit' = "error"
    /\ mailed' = IF Recipient THEN errs ELSE {}
    /\ UNCHANGED <<world, todo, errs, always, ever, changes>>

Change ==
    /\ changes < MaxChanges
    /\ changes' = changes + 1

\* The mail cannot be sent, which panics.
AlertFails ==
    /\ stage # 0 /\ todo = {} /\ errs # {}
    /\ Recipient /\ Change
    /\ stage' = 0 /\ exit' = "panic"
    /\ UNCHANGED <<world, todo, errs, mailed, always, ever>>

Step == Begin \/ (\E x \in Looks : Look(x)) \/ NextCheck \/ Done \/ Alert

-----------------------------------------------------------------------------
(* The environment. *)

World ==
    /\ Change
    /\ always' = always \cap (Amiss' \cup Empty')
    /\ ever' = IF stage = 0 THEN ever ELSE ever \cup Amiss' \cup Empty'
    /\ UNCHANGED progress

BreakOrMend(p) ==
    /\ wrong' = IF p \in wrong THEN wrong \ {p} ELSE wrong \cup {p}
    /\ UNCHANGED <<files, life>>
    /\ World

\* keysync writes or removes secrets.
Sync(c, n) ==
    /\ files' = [files EXCEPT ![c] = n]
    /\ UNCHANGED <<wrong, life>>
    /\ World

\* A day goes by.
Age ==
    /\ life' = [c \in Clients |-> IF life[c] \in 0..MaxLife THEN life[c] - 1 ELSE life[c]]
    /\ UNCHANGED <<wrong, files>>
    /\ World

\* A certificate is renewed, or lost.
Renew(c, d) ==
    /\ life' = [life EXCEPT ![c] = d]
    /\ UNCHANGED <<wrong, files>>
    /\ World

MonitorNext ==
    \/ Step \/ AlertFails
    \/ \E p \in Parts : BreakOrMend(p)
    \/ \E c \in Clients : \/ \E n \in 0..MaxFiles \cup {Missing} : Sync(c, n)
                          \/ \E d \in {MaxLife, Missing} : Renew(c, d)
    \/ Age

MonitorSpec == MonitorInit /\ [][MonitorNext]_monitorVars

\* The monitor is run again and again.
MonitorFairSpec == MonitorSpec /\ WF_monitorVars(Step)

-----------------------------------------------------------------------------
(* Properties. *)

\* The check a look belongs to.
StageOf(x) == CHOOSE i \in 1..5 : x \in Reads(Stages[i])

\* How a run ends: silent, if nothing was amiss all the time it looked, or with
\* a report on one check, of which each error was true at some moment, and
\* which names all that was amiss all the time in that check and in the
\* earlier ones.
ReportIsSound ==
    stage = 0 =>
        \/ exit = "ok" /\ always \cap Looks = {}
        \/ /\ exit # "ok" /\ errs # {} /\ errs \subseteq ever
           /\ \E i \in 1..5 :
                /\ errs \subseteq Reads(Stages[i])
                /\ \A j \in 1..i : always \cap Reads(Stages[j]) \subseteq errs

\* The inductive invariant of a run: what was amiss all along is found in the
\* check that reads it, or is still to be looked at.
RunInv ==
    /\ always \subseteq Amiss \cup Empty
    /\ stage = 0 => todo = {}
    /\ stage # 0 =>
         /\ errs \cup Amiss \subseteq ever
         /\ errs \cup todo \subseteq Reads(Stages[stage])
         /\ always \cap Reads(Stages[stage]) \subseteq errs \cup todo
         /\ \A j \in 1..(stage - 1) : always \cap Reads(Stages[j]) = {}
    /\ ReportIsSound

\* What stays amiss is reported in the end, again and again, unless something
\* of an earlier check keeps coming up; alerts do not fail for ever.
LastingShows ==
    \A x \in Looks :
        (/\ <>[](x \in Amiss)
         /\ <>[](\A y \in Amiss : StageOf(y) >= StageOf(x)))
        => []<>(x \in errs)

\* "Check that each client has at least one secret. [...] if there's an empty
\* client dir something is probably wrong" (checks.go, checkClientHealth).
EmptyIsReported == stage = 0 /\ exit = "ok" => always \cap {"empty"} \X Clients = {}
=============================================================================
