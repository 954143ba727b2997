---------------------------- MODULE AtMostOnceCall ----------------------------
(***************************************************************************)
(* What two JSON-RPC sessions promise each other, whatever the connection  *)
(* does: a request is executed at most once, its caller gets the outcome   *)
(* of that very execution or a failure, once, and an execution is kept     *)
(* quiet only after its caller has given up.                               *)
(***************************************************************************)

CONSTANT Requests

VARIABLES
    call,    \* what the caller knows of each request
    exec     \* what the callee did with it

vars == <<call, exec>>

Init ==
    /\ call = [r \in Requests |-> "idle"]
    /\ exec = [r \in Requests |-> "none"]

Issue(r) ==
    /\ call[r] = "idle"
    /\ call' = [call EXCEPT ![r] = "waiting"]
    /\ UNCHANGED exec

\* The callee starts on a request, or refuses it.
Accept(r) ==
    /\ call[r] # "idle"
    /\ exec[r] = "none"
    /\ \E e \in {"running", "error"} : exec' = [exec EXCEPT ![r] = e]
    /\ UNCHANGED call

Finish(r) ==
    /\ exec[r] = "running"
    /\ \/ \E e \in {"result", "error"} : exec' = [exec EXCEPT ![r] = e]
       \/ call[r] = "failed" /\ exec' = [exec EXCEPT ![r] = "silent"]
    /\ UNCHANGED call

Return(r) ==
    /\ call[r] = "waiting"
    /\ exec[r] \in {"result", "error"}
    /\ call' = [call EXCEPT ![r] = exec[r]]
    /\ UNCHANGED exec

\* Callers give up, or their connection does: several at once.
Fail(R) ==
    /\ \A r \in R : call[r] = "waiting"
    /\ call' = [r \in Requests |-> IF r \in R THEN "failed" ELSE call[r]]
    /\ UNCHANGED exec

Next ==
    \/ \E r \in Requests : Issue(r) \/ Accept(r) \/ Finish(r) \/ Return(r)
    \/ \E R \in SUBSET Requests : Fail(R)

Spec == Init /\ [][Next]_vars

=============================================================================
