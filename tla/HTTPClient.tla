----------------------------- MODULE HTTPClient -----------------------------
(***************************************************************************)
(* KeywhizHTTPClient (client.go): one request of Sync with its attempts,   *)
(* the answers that come, late or never, and what it returns and counts.   *)
(* Requests of a process run one after the other (under syncMutex); the    *)
(* server changes at any moment.                                           *)
(***************************************************************************)
EXTENDS Naturals

CONSTANTS
    Names,      \* of secrets
    Versions,   \* of a secret's content
    None,
    MaxRetries, \* params.maxRetries, which LoadConfig makes at least 1
    Body,       \* pieces in which the body of a batch is sent
    MaxUpsets,  \* bound on changes of the server and single failures
    MaxFails    \* bound on the failures counted

ASSUME RetriesAssumption == MaxRetries \in Nat \ {0}
ASSUME BodyAssumption == Body \in Nat \ {0}

VARIABLES
    server,     \* the version of each secret the server holds, or None
    req,        \* the request that runs, or None
    pc,         \* where its goroutine is
    attempt,    \* i of the retry loop
    body,       \* what the buffer of a batch still holds
    posted,     \* what of it went out with the last attempt
    reply,      \* the answer on its way, or resp
    seen,       \* history: what the server told this request, or None
    kept,       \* history: names held since the request began
    answer,     \* what the last request returned
    failCount,  \* runtime.server.fails
    upsets      \* how much has gone wrong or changed

vars == <<server, req, pc, attempt, body, posted, reply, seen, kept, answer,
          failCount, upsets>>

Call == INSTANCE Request

Requests == Call!Requests
Code == {200, 400, 404, 500}
Contents == UNION {[S -> Versions] : S \in SUBSET Names}
Word == [tag : {"ok", "deleted", "error"}, data : Contents]
Reply == [code : Code, says : Word]

ASSUME NoneAssumption == None \notin Requests \cup Word \cup Reply

TypeOK ==
    /\ server \in [Names -> Versions \cup {None}]
    /\ req \in Requests \cup {None}
    /\ pc \in {"idle", "ready", "sent", "replied", "sleep", "read", "parse"}
    /\ attempt \in 0..MaxRetries
    /\ body \in 0..Body /\ posted \in 0..Body
    /\ reply \in Reply \cup {None}
    /\ kept \subseteq Names
    /\ failCount \in Nat
    /\ upsets \in Nat

Init ==
    /\ server \in [Names -> Versions \cup {None}]
    /\ req = None /\ pc = "idle"
    /\ attempt = 0 /\ body = 0 /\ posted = 0
    /\ reply = None /\ seen = None /\ answer = None
    /\ kept = {}
    /\ failCount = 0
    /\ upsets = 0

Upset ==
    /\ upsets < MaxUpsets
    /\ upsets' = upsets + 1

-----------------------------------------------------------------------------
(* The request. *)

Start(r) ==
    /\ pc = "idle" /\ failCount < MaxFails
    /\ req' = r
    /\ pc' = "ready"
    /\ attempt' = 0
    /\ body' = IF r.kind = "batch" THEN Body ELSE 0
    /\ posted' = 0
    /\ reply' = None /\ seen' = None /\ answer' = None
    /\ kept' = Call!Held(server)
    /\ UNCHANGED <<server, failCount, upsets>>

\* Mutant: one attempt too many.
AttemptsLeftMore == attempt <= MaxRetries

AttemptsLeft == attempt < MaxRetries

\* Sending reads the body from its buffer.  What an early answer leaves unread
\* stays there for the next attempt.
Send ==
    /\ pc = "ready" /\ AttemptsLeft
    /\ posted' = body
    /\ body' \in IF body = 0 THEN {0} ELSE 0..(body - 1)
    /\ pc' = "sent"
    /\ UNCHANGED <<server, req, attempt, reply, seen, kept, answer, failCount,
                   upsets>>

\* The server's word, if the request arrives in one piece.
CodeOf(t) == IF t.tag = "ok" THEN 200 ELSE 404

ServerAnswers ==
    /\ pc = "sent"
    /\ LET t == Call!Truth(req, server) IN
       IF req.kind = "batch" /\ posted < Body
       THEN /\ reply' = [code |-> 400, says |-> Call!Error]
            /\ UNCHANGED seen
       ELSE /\ reply' = [code |-> CodeOf(t), says |-> t]
            /\ seen' = t
    /\ pc' = "replied"
    /\ UNCHANGED <<server, req, attempt, body, posted, kept, answer, failCount,
                   upsets>>

\* Another code than the request's own.  To a status request its body is the
\* answer all the same.
Answered(code) ==
    /\ pc = "sent"
    /\ LET t == Call!Truth(req, server) IN
       IF req.kind = "status"
       THEN reply' = [code |-> code, says |-> t] /\ seen' = t
       ELSE reply' = [code |-> code, says |-> Call!Error] /\ UNCHANGED seen
    /\ pc' = "replied"
    /\ UNCHANGED <<server, req, attempt, body, posted, kept, answer, failCount>>

\* As often as it likes.
ServerUnwell == Answered(500) /\ UNCHANGED upsets

\* The server refuses this client, its certificate for instance.
ServerRefuses == Answered(400) /\ Upset

ShouldRetry(r) == r.code >= 500

\* Mutant: the loop counts only good attempts.
ReceiveForever ==
    /\ pc = "replied"
    /\ pc' = IF ShouldRetry(reply) THEN "sleep" ELSE "read"
    /\ UNCHANGED <<server, req, attempt, body, posted, reply, seen, kept, answer,
                   failCount, upsets>>

Receive ==
    /\ pc = "replied"
    /\ IF ShouldRetry(reply)
       THEN pc' = "sleep" /\ attempt' = attempt + 1
       ELSE pc' = "read" /\ UNCHANGED attempt
    /\ UNCHANGED <<server, req, body, posted, reply, seen, kept, answer,
                   failCount, upsets>>

\* The goroutine sleeps after the last attempt, too.
Wake ==
    /\ pc = "sleep"
    /\ pc' = "ready"
    /\ UNCHANGED <<server, req, attempt, body, posted, reply, seen, kept,
                   answer, failCount, upsets>>

\* The loop ends with the last response and without an error.
GiveUp ==
    /\ pc = "ready" /\ ~AttemptsLeft
    /\ pc' = "read"
    /\ UNCHANGED <<server, req, attempt, body, posted, reply, seen, kept,
                   answer, failCount, upsets>>

Return(a, fails) ==
    /\ answer' = a
    /\ failCount' = fails
    /\ pc' = "idle" /\ req' = None
    /\ seen' = None /\ reply' = None
    /\ UNCHANGED <<server, attempt, body, posted, kept>>

\* ServerStatus counts nothing.
FailsNow == IF req.kind = "status" THEN failCount ELSE failCount + 1

\* No connection, or the timeout passes, before the answer or while its body
\* is read.  Not retried.
TransportFails ==
    /\ pc \in {"sent", "replied", "read"}
    /\ Upset
    /\ Return(Call!Error, FailsNow)

\* Mutant: every answer but 200 means that the secret is gone.
OutcomeDeletes ==
    IF reply.code = 200 \/ req.kind = "status" THEN reply.says
    ELSE IF req.kind = "get" THEN Call!Deleted
    ELSE Call!Error

Outcome ==
    IF reply.code = 200 \/ req.kind = "status" THEN reply.says
    ELSE IF reply.code = 404 /\ req.kind = "get" THEN Call!Deleted
    ELSE Call!Error

ReadBad ==
    /\ pc = "read"
    /\ reply.code # 200 \/ req.kind = "status"
    /\ UNCHANGED upsets
    /\ Return(Outcome, IF req.kind = "status" \/ Outcome = Call!Deleted
                       THEN failCount ELSE failCount + 1)

\* markSuccess comes before the answer is parsed.
ReadGood ==
    /\ pc = "read"
    /\ reply.code = 200 /\ req.kind # "status"
    /\ failCount' = 0
    /\ pc' = "parse"
    /\ UNCHANGED <<server, req, attempt, body, posted, reply, seen, kept,
                   answer, upsets>>

Parse ==
    /\ pc = "parse"
    /\ UNCHANGED upsets
    /\ Return(Outcome, failCount)

ParseFails ==
    /\ pc = "parse"
    /\ Upset
    /\ Return(Call!Error, failCount)

Step ==
    \/ Send \/ ServerAnswers \/ ServerUnwell \/ ServerRefuses
    \/ Receive \/ Wake \/ GiveUp \/ TransportFails
    \/ ReadBad \/ ReadGood \/ Parse \/ ParseFails

-----------------------------------------------------------------------------
Change ==
    /\ Upset
    /\ server' \in [Names -> Versions \cup {None}]
    /\ kept' = kept \cap Call!Held(server')
    /\ UNCHANGED <<req, pc, attempt, body, posted, reply, seen, answer,
                   failCount>>

Next == (\E r \in Requests : Start(r)) \/ Step \/ Change

Spec == Init /\ [][Next]_vars

\* http.Client has a timeout, so an attempt that is out comes to an end, and
\* time.Sleep does.
FairSpec == Spec /\ WF_vars(Step)

-----------------------------------------------------------------------------
(* Properties. *)

\* Every listing, secret and batch that Sync gets is what the server held at
\* one moment of the request, in spite of retries, late and lost answers; a
\* secret is reported deleted only if the server did not hold it then.
ImplementsRequest == Call!Spec

\* The retry loop never ends without a response or an error (a caller would
\* dereference a nil response), and a response that is taken for good says what the
\* server said.
ReplyInv ==
    /\ pc = "idle" <=> req = None
    /\ pc \in {"replied", "sleep", "read", "parse"} => reply # None
    /\ pc = "ready" => AttemptsLeft \/ reply # None
    /\ pc \in {"sent", "replied"} => AttemptsLeft
    /\ reply # None /\ (reply.code \in {200, 404} \/ req.kind = "status") =>
         seen # None /\ reply.says = seen
    /\ reply # None /\ reply.code = 404 /\ req.kind = "get" =>
         reply.says = Call!Deleted

\* A request comes to an end, however long the server is unwell.
RequestEnds == pc # "idle" ~> pc = "idle"

\* How many steps a request can still take: every attempt takes four of them,
\* sending, answer, receiving and sleep.
StepsLeft ==
    CASE pc = "idle" -> 0
      [] pc = "parse" -> 1
      [] pc = "read" -> 2
      [] OTHER -> 4 * (MaxRetries - attempt)
                    + (CASE pc = "replied" -> 1 [] pc = "sent" -> 2
                         [] pc = "ready" -> 3 [] pc = "sleep" -> 4)

\* Whatever the server does, no step of a request is repeated more often than
\* maxRetries allows (client.go, getWithRetry and postWithRetry).
RetriesAreBounded ==
    [][/\ \A r \in Requests : Start(r) => StepsLeft' = 4 * MaxRetries + 3
       /\ Step => StepsLeft' < StepsLeft]_vars

\* "retry logic for requests that failed, because of intermittent issues"
\* (client.go, postWithRetry): a batch of secrets that the server holds all
\* along is not answered with a client error because an earlier attempt met
\* an unwell server.
RetriedBatchIsWhole ==
    pc = "read" /\ req.kind = "batch" /\ attempt > 0 /\ req.names # {}
      /\ req.names \subseteq kept /\ upsets = 0
    => reply.code # 400

\* "retry each HTTP call after non-200 response" (config.go, max_retries).
RetriesNon200 ==
    pc = "read" /\ attempt + 1 < MaxRetries => reply.code = 200
=============================================================================
