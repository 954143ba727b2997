---------------------------- MODULE RequestPromise ----------------------------
(***************************************************************************)
(* What BaseClient promises about its requests, whatever streams, tools    *)
(* and gates do underneath: a request is answered at most once, sends a    *)
(* bounded number of exchanges, none of them after its end, and its future *)
(* is settled in the step that ends it.                                    *)
(***************************************************************************)
EXTENDS Naturals

CONSTANTS Requests, Limit

VARIABLES
    phase,    \* where each request stands
    sent,     \* how many HTTP exchanges it has started
    future,   \* the future askOnce gave for it
    open      \* the client exists

vars == <<phase, sent, future, open>>

Init ==
    /\ phase = [r \in Requests |-> "idle"]
    /\ sent = [r \in Requests |-> 0]
    /\ future = [r \in Requests |-> "none"]
    /\ open = TRUE

Settled(f, outcome) == IF f = "pending" THEN outcome ELSE f

Begin(r) ==
    /\ phase[r] = "idle"
    /\ phase' = [phase EXCEPT ![r] = "pending"]
    /\ sent' = [sent EXCEPT ![r] = 1]
    /\ \E f \in {"none", "pending"} : future' = [future EXCEPT ![r] = f]

\* The request fails inside the call that begins it.
Refuse(r) ==
    /\ phase[r] = "idle"
    /\ phase' = [phase EXCEPT ![r] = "failed"]
    /\ \E f \in {"none", "rejected"} : future' = [future EXCEPT ![r] = f]
    /\ UNCHANGED sent

Continue(r) ==
    /\ phase[r] = "pending"
    /\ sent[r] <= Limit
    /\ sent' = [sent EXCEPT ![r] = @ + 1]
    /\ UNCHANGED <<phase, future>>

Finalize(r) ==
    /\ phase[r] = "pending"
    /\ phase' = [phase EXCEPT ![r] = "finalized"]
    /\ future' = [future EXCEPT ![r] = Settled(@, "resolved")]
    /\ UNCHANGED sent

Fail(r) ==
    /\ phase[r] = "pending"
    /\ phase' = [phase EXCEPT ![r] = "failed"]
    /\ future' = [future EXCEPT ![r] = Settled(@, "rejected")]
    /\ UNCHANGED sent

\* The client is destroyed: its requests end without an answer.
Drop ==
    /\ open' = FALSE
    /\ phase' = [r \in Requests |-> IF phase[r] = "pending" THEN "dropped" ELSE phase[r]]
    /\ future' = [r \in Requests |-> Settled(future[r], "rejected")]
    /\ UNCHANGED sent

Next ==
    /\ open
    /\ \/ /\ open' = open
          /\ \E r \in Requests :
                Begin(r) \/ Refuse(r) \/ Continue(r) \/ Finalize(r) \/ Fail(r)
       \/ Drop

Spec == Init /\ [][Next]_vars

=============================================================================
