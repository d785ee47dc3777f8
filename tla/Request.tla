------------------------------ MODULE Request -------------------------------
(***************************************************************************)
(* What the syncer takes a request to Keywhiz for: it returns what the     *)
(* server holds at one moment while it runs, "deleted" for a secret the    *)
(* server does not hold at that moment, or an error, which says nothing.   *)
(***************************************************************************)
CONSTANTS
    Names,      \* of secrets
    Versions,   \* of a secret's content
    None

VARIABLES
    server,     \* the version of each secret the server holds, or None
    req,        \* the request that runs, or None
    seen,       \* what it has learned about the server, or None
    answer      \* what the last request returned

vars == <<server, req, seen, answer>>

\* A listing, a single secret, a batch and the server's own status.
Requests ==
    [kind : {"list", "status"}, names : {{}}]
      \cup [kind : {"get"}, names : {{n} : n \in Names}]
      \cup [kind : {"batch"}, names : SUBSET Names]

Held(s) == {n \in Names : s[n] # None}

Ok(s, S) == [tag |-> "ok", data |-> [n \in S |-> s[n]]]
Deleted == [tag |-> "deleted", data |-> [n \in {} |-> None]]
Error == [tag |-> "error", data |-> [n \in {} |-> None]]

\* "All secrets must be accessible to this client, or the entire request will
\* fail" (client.go, of the batch).
Truth(r, s) ==
    IF r.kind = "list" THEN Ok(s, Held(s))
    ELSE IF r.kind = "status" THEN Ok(s, {})
    ELSE IF r.names \subseteq Held(s) THEN Ok(s, r.names)
    ELSE IF r.kind = "get" THEN Deleted ELSE Error

Init ==
    /\ server \in [Names -> Versions \cup {None}]
    /\ req = None
    /\ seen = None
    /\ answer = None

Ask(r) ==
    /\ req = None
    /\ req' = r
    /\ seen' = None
    /\ answer' = None
    /\ UNCHANGED server

Look ==
    /\ req # None
    /\ seen' = Truth(req, server)
    /\ UNCHANGED <<server, req, answer>>

Return ==
    /\ req # None
    /\ answer' \in {seen, Error} \ {None}
    /\ req' = None
    /\ seen' = None
    /\ UNCHANGED server

Change ==
    /\ server' \in [Names -> Versions \cup {None}]
    /\ UNCHANGED <<req, seen, answer>>

Next == (\E r \in Requests : Ask(r)) \/ Look \/ Return \/ Change

Spec == Init /\ [][Next]_vars
=============================================================================
