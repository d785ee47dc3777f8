-------------------------- MODULE HTTPClientProofs --------------------------
(* Theorems about HTTPClient. *)
EXTENDS HTTPClient, TLAPS

Inv == TypeOK /\ ReplyInv

\* What the server can say to a request.
LEMMA Says ==
    ASSUME NEW r \in Requests, NEW s \in [Names -> Versions \cup {None}]
    PROVE  /\ Call!Truth(r, s) \in Word
           /\ r.kind = "get" /\ Call!Truth(r, s).tag # "ok"
                => Call!Truth(r, s) = Call!Deleted
  <1>1. ASSUME NEW S \in SUBSET Call!Held(s)
        PROVE  [n \in S |-> s[n]] \in Contents
    <2>1. [n \in S |-> s[n]] \in [S -> Versions] /\ S \in SUBSET Names
      BY <1>1 DEF Call!Held
    <2> QED
      BY <2>1 DEF Contents
  <1>2. [n \in {} |-> None] \in Contents
    <2>1. [n \in {} |-> None] \in [{} -> Versions] /\ {} \in SUBSET Names
      OBVIOUS
    <2> QED
      BY <2>1 DEF Contents
  <1>4. CASE r.kind = "list" \/ r.kind = "status" \/ r.names \subseteq Call!Held(s)
    <2>1. PICK S \in SUBSET Call!Held(s) : Call!Truth(r, s) = Call!Ok(s, S)
      BY <1>4 DEF Call!Truth, Call!Held
    <2>2. [n \in S |-> s[n]] \in Contents
      BY <1>1
    <2>3. Call!Truth(r, s).tag = "ok"
      BY <2>1 DEF Call!Ok
    <2> QED
      BY <2>1, <2>2, <2>3 DEF Call!Ok, Word
  <1>5. CASE ~(r.kind = "list" \/ r.kind = "status" \/ r.names \subseteq Call!Held(s))
    <2>1. Call!Truth(r, s) = IF r.kind = "get" THEN Call!Deleted ELSE Call!Error
      BY <1>5 DEF Call!Truth
    <2> QED
      BY <1>2, <2>1 DEF Call!Deleted, Call!Error, Word
  <1> QED
    BY <1>4, <1>5

LEMMA Constants ==
    /\ Call!Deleted \in Word /\ Call!Error \in Word
    /\ Call!Error # None /\ Call!Deleted # None
  <1>1. [n \in {} |-> None] \in [{} -> Versions] /\ {} \in SUBSET Names
    OBVIOUS
  <1>2. [n \in {} |-> None] \in Contents
    BY <1>1 DEF Contents
  <1> QED
    BY <1>2, NoneAssumption DEF Call!Deleted, Call!Error, Word

LEMMA InitInv == Init => Inv
  BY RetriesAssumption, BodyAssumption, NoneAssumption
     DEF Init, Inv, TypeOK, ReplyInv

\* The loop and the answers keep types.
LEMMA StepType ==
    ASSUME Inv, Step
    PROVE  TypeOK'
  <1> USE RetriesAssumption, BodyAssumption DEF TypeOK
  <1>0. TypeOK /\ ReplyInv
    BY DEF Inv
  <1>1. CASE Send
    <2>1. body' \in 0..Body
      BY <1>0, <1>1 DEF Send
    <2> QED
      BY <2>1, <1>0, <1>1 DEF Send
  <1>2. CASE ServerAnswers \/ ServerUnwell \/ ServerRefuses
    <2>1. req \in Requests /\ Call!Truth(req, server) \in Word /\ Call!Error \in Word
      BY <1>0, <1>2, Says, Constants
         DEF ReplyInv, ServerAnswers, ServerUnwell, ServerRefuses, Answered
    <2>2. reply' \in Reply
      BY <2>1, <1>2 DEF ServerAnswers, ServerUnwell, ServerRefuses, Answered,
         Reply, Code, CodeOf
    <2> QED
      BY <2>2, <1>0, <1>2 DEF ServerAnswers, ServerUnwell, ServerRefuses,
         Answered, Upset
  <1>3. CASE Receive
    BY <1>0, <1>3 DEF Receive, ReplyInv, AttemptsLeft
  <1>4. CASE Wake \/ GiveUp
    BY <1>0, <1>4 DEF Wake, GiveUp
  <1>5. CASE TransportFails \/ ReadBad \/ Parse \/ ParseFails
    BY <1>0, <1>5 DEF TransportFails, ReadBad, Parse, ParseFails, Return,
       FailsNow, Upset
  <1>6. CASE ReadGood
    BY <1>0, <1>6 DEF ReadGood
  <1> QED
    BY <1>1, <1>2, <1>3, <1>4, <1>5, <1>6 DEF Step

LEMMA StepReply ==
    ASSUME Inv, Step, TypeOK'
    PROVE  ReplyInv'
  <1>0. TypeOK /\ ReplyInv
    BY DEF Inv
  <1>1. CASE Send
    BY <1>0, <1>1 DEF Send, ReplyInv, AttemptsLeft
  <1>2. CASE ServerAnswers \/ ServerUnwell \/ ServerRefuses
    <2>1. req \in Requests /\ req # None
      BY <1>0, <1>2, NoneAssumption
         DEF ReplyInv, ServerAnswers, ServerUnwell, ServerRefuses, Answered, TypeOK
    <2>2. /\ Call!Truth(req, server) \in Word /\ Call!Truth(req, server) # None
          /\ req.kind = "get" /\ Call!Truth(req, server).tag # "ok"
               => Call!Truth(req, server) = Call!Deleted
      BY <2>1, <1>0, Says, NoneAssumption DEF TypeOK
    <2>3. reply' # None
      BY <1>2, <2>2, Constants, NoneAssumption DEF ServerAnswers, ServerUnwell,
         ServerRefuses, Answered, Reply, Code, CodeOf
    <2>4. CASE ServerAnswers
      BY <1>0, <2>1, <2>2, <2>3, <2>4 DEF ServerAnswers, ReplyInv, CodeOf,
         AttemptsLeft
    <2>5. CASE ServerUnwell \/ ServerRefuses
      BY <1>0, <2>1, <2>2, <2>3, <2>5 DEF ServerUnwell, ServerRefuses, Answered,
         ReplyInv, AttemptsLeft
    <2> QED
      BY <1>2, <2>4, <2>5
  <1>3. CASE Receive
    BY <1>0, <1>3 DEF Receive, ReplyInv, AttemptsLeft
  <1>4. CASE Wake \/ GiveUp
    BY <1>0, <1>4 DEF Wake, GiveUp, ReplyInv, AttemptsLeft
  <1>5. CASE TransportFails \/ ReadBad \/ Parse \/ ParseFails
    BY <1>0, <1>5 DEF TransportFails, ReadBad, Parse, ParseFails, Return, ReplyInv
  <1>6. CASE ReadGood
    BY <1>0, <1>6 DEF ReadGood, ReplyInv, AttemptsLeft
  <1> QED
    BY <1>1, <1>2, <1>3, <1>4, <1>5, <1>6 DEF Step

LEMMA NextInv == Inv /\ [Next]_vars => Inv'
  <1> SUFFICES ASSUME Inv, [Next]_vars PROVE Inv'
    OBVIOUS
  <1>1. ASSUME NEW r \in Requests, Start(r) PROVE Inv'
    BY <1>1, RetriesAssumption, BodyAssumption, NoneAssumption
       DEF Start, Inv, TypeOK, ReplyInv, AttemptsLeft, Call!Held
  <1>2. CASE Step
    BY <1>2, StepType, StepReply DEF Inv
  <1>3. CASE Change
    BY <1>3 DEF Change, Inv, TypeOK, ReplyInv, AttemptsLeft, Upset
  <1>4. CASE UNCHANGED vars
    BY <1>4 DEF vars, Inv, TypeOK, ReplyInv, AttemptsLeft
  <1> QED
    BY <1>1, <1>2, <1>3, <1>4 DEF Next

LEMMA InvAlways == Spec => []Inv
  BY InitInv, NextInv, PTL DEF Spec

-----------------------------------------------------------------------------
(* Theorems. *)

\* Every variable keeps its type; the attempts of a request never exceed
\* maxRetries.
THEOREM TypeCorrect == Spec => []TypeOK
  BY InvAlways, PTL DEF Inv

\* The retry loop ends with a response or an error, and what is taken for
\* good is what the server said.
THEOREM ReplyInvariant == Spec => []ReplyInv
  BY InvAlways, PTL DEF Inv

\* A request begins with four steps for each attempt and three for the answer.
LEMMA StepsAtStart ==
    ASSUME NEW r, Start(r)
    PROVE  StepsLeft' = 4 * MaxRetries + 3
  BY RetriesAssumption DEF Start, StepsLeft

\* Each step of a request leaves it fewer to take.
THEOREM RetriesAreBoundedCorrect == Spec => RetriesAreBounded
  <1> DEFINE Less ==
        /\ \A r \in Requests : Start(r) => StepsLeft' = 4 * MaxRetries + 3
        /\ Step => StepsLeft' < StepsLeft
  <1>1. ASSUME Inv, Step PROVE StepsLeft' < StepsLeft
    <2> USE <1>1, RetriesAssumption DEF StepsLeft
    <2>0. /\ attempt \in 0..MaxRetries /\ ReplyInv
          /\ AttemptsLeft <=> attempt < MaxRetries
      BY DEF Inv, TypeOK, AttemptsLeft
    <2>1. CASE Send \/ ServerAnswers \/ ServerUnwell \/ ServerRefuses
      BY <2>0, <2>1 DEF Send, ServerAnswers, ServerUnwell, ServerRefuses, Answered
    <2>2. CASE Receive
      BY <2>0, <2>2 DEF Receive, ReplyInv
    <2>3. CASE Wake \/ GiveUp
      BY <2>0, <2>3 DEF Wake, GiveUp
    <2>4. CASE TransportFails \/ ReadBad \/ Parse \/ ParseFails
      BY <2>0, <2>4 DEF TransportFails, ReadBad, Parse, ParseFails, Return
    <2>5. CASE ReadGood
      BY <2>0, <2>5 DEF ReadGood
    <2> QED
      BY <2>1, <2>2, <2>3, <2>4, <2>5 DEF Step
  <1>2. Inv => [Less]_vars
    BY <1>1, StepsAtStart
  <1> QED
    BY <1>2, InvAlways, PTL DEF RetriesAreBounded

\* What a request returns is in seen, or is the error.
LEMMA OutcomeSeen ==
    ASSUME Inv, pc \in {"read", "parse"}
    PROVE  Outcome \in {seen, Call!Error} \ {None}
  BY Constants DEF Inv, ReplyInv, Outcome

LEMMA ReturnRefines ==
    ASSUME Inv, NEW a, a \in {seen, Call!Error} \ {None}, NEW f, Return(a, f),
           pc # "idle"
    PROVE  Call!Return
  BY DEF Return, Call!Return, Inv, ReplyInv

LEMMA NextRefines == Inv /\ [Next]_vars => [Call!Next]_Call!vars
  <1> SUFFICES ASSUME Inv, [Next]_vars
               PROVE  Call!Next \/ UNCHANGED Call!vars
    OBVIOUS
  <1>0. TypeOK /\ ReplyInv
    BY DEF Inv
  <1>1. ASSUME NEW r \in Requests, Start(r) PROVE Call!Ask(r)
    BY <1>0, <1>1 DEF Start, Call!Ask, ReplyInv
  <1>2. CASE Send \/ Receive \/ Wake \/ GiveUp \/ ReadGood
    BY <1>2 DEF Send, Receive, Wake, GiveUp, ReadGood, Call!vars
  <1>3. CASE ServerAnswers \/ ServerUnwell \/ ServerRefuses
    BY <1>0, <1>3 DEF ServerAnswers, ServerUnwell, ServerRefuses, Answered,
       Call!Look, Call!vars, Call!Next, ReplyInv
  <1>4. CASE TransportFails \/ ParseFails
    <2>1. Call!Error \in {seen, Call!Error} \ {None} /\ pc # "idle"
      BY <1>4, Constants DEF TransportFails, ParseFails
    <2> QED
      BY <1>4, <2>1, ReturnRefines DEF TransportFails, ParseFails, Call!Next
  <1>5. CASE ReadBad \/ Parse
    <2>1. Outcome \in {seen, Call!Error} \ {None} /\ pc # "idle"
      BY <1>5, OutcomeSeen DEF ReadBad, Parse
    <2> QED
      BY <1>5, <2>1, ReturnRefines DEF ReadBad, Parse, Call!Next
  <1>6. CASE Change
    BY <1>6 DEF Change, Call!Change, Call!Next
  <1>7. CASE UNCHANGED vars
    BY <1>7 DEF vars, Call!vars
  <1> QED
    BY <1>1, <1>2, <1>3, <1>4, <1>5, <1>6, <1>7 DEF Next, Step, Call!Next,
       Requests

\* Every listing, secret, batch and deletion a request returns is what the
\* server held at one moment of the request.
THEOREM HTTPClientImplementsRequest == Spec => ImplementsRequest
  <1>1. Init => Call!Init
    BY DEF Init, Call!Init
  <1> QED
    BY <1>1, NextRefines, InvAlways, PTL DEF Spec, ImplementsRequest, Call!Spec
=============================================================================
