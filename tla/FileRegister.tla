---------------------------- MODULE FileRegister ----------------------------
(***************************************************************************)
(* What WriteFileAtomically promises about the file it writes: a call      *)
(* replaces the whole file, content and attributes, in one step, or        *)
(* returns an error and has done nothing to it.                            *)
(***************************************************************************)
CONSTANTS
    Writers,    \* goroutines and processes that write the file
    Values,     \* contents
    Infos,      \* owners and modes
    None

VARIABLES
    file,       \* the file's content and attributes, or None
    call,       \* what each writer is writing, or None
    put,        \* writers that have replaced the file
    result      \* what each writer's last call returned

vars == <<file, call, put, result>>

File == [val : Values, info : Infos]

TypeOK ==
    /\ file \in File \cup {None}
    /\ call \in [Writers -> File \cup {None}]
    /\ put \subseteq Writers
    /\ result \in [Writers -> {"ok", "error", None}]

Init ==
    /\ file = None
    /\ call = [w \in Writers |-> None]
    /\ put = {}
    /\ result = [w \in Writers |-> None]

Call(w, f) ==
    /\ call[w] = None
    /\ call' = [call EXCEPT ![w] = f]
    /\ result' = [result EXCEPT ![w] = None]
    /\ UNCHANGED <<file, put>>

Put(w) ==
    /\ call[w] # None /\ w \notin put
    /\ file' = call[w]
    /\ put' = put \cup {w}
    /\ UNCHANGED <<call, result>>

Return(w) ==
    /\ call[w] # None
    /\ call' = [call EXCEPT ![w] = None]
    /\ put' = put \ {w}
    /\ result' = [result EXCEPT ![w] = IF w \in put THEN "ok" ELSE "error"]
    /\ UNCHANGED file

\* Someone removes the file.
Remove ==
    /\ file' = None
    /\ UNCHANGED <<call, put, result>>

\* A process dies with all its calls.
Die(W) ==
    /\ call' = [w \in Writers |-> IF w \in W THEN None ELSE call[w]]
    /\ put' = put \ W
    /\ result' = [w \in Writers |-> IF w \in W THEN None ELSE result[w]]
    /\ UNCHANGED file

Next ==
    \/ \E w \in Writers : Put(w) \/ Return(w) \/ \E f \in File : Call(w, f)
    \/ Remove
    \/ \E W \in SUBSET Writers : Die(W)

Spec == Init /\ [][Next]_vars
=============================================================================
