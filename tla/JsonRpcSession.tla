---------------------------- MODULE JsonRpcSession ----------------------------
(***************************************************************************)
(* Two JsonRpcSessions joined by a pair of PipeTransports.                 *)
(*                                                                         *)
(* Both sessions are the same code, so state is kept per request: a        *)
(* request <<p, i>> is the one side p sent under its id i.  Ids of the two *)
(* sides are equal numbers; where the code tells requests apart by id      *)
(* alone, so does the model (ReceiveCancelled).                            *)
(*                                                                         *)
(* An action is one callback of the event loop or one call by the          *)
(* application.                                                            *)
(***************************************************************************)
EXTENDS Naturals, Sequences

CONSTANTS
    MaxCalls,    \* bound: how many requests each side sends
    MaxStarts,   \* bound: how often each side's transport is started
    Sends        \* the methods each side's requests are of

Sides == {"client", "server"}
Other(p) == IF p = "client" THEN "server" ELSE "client"

\* "tracked" requests carry a progress token (sendCancellableRequest), have a
\* progress handler and can be cancelled; the peer is never told to drop an
\* "initialize"; "ping" stands for the requests an application may always send.
Methods == {"initialize", "call", "tracked", "ping"}

ASSUME BoundsAssumption ==
    /\ MaxCalls \in [Sides -> Nat]
    /\ MaxStarts \in [Sides -> Nat]
    /\ Sends \in [Sides -> SUBSET Methods]

Ids == 1..(MaxCalls["client"] + MaxCalls["server"])
Requests == {r \in Sides \X Ids : r[2] <= MaxCalls[r[1]]}

\* How the future of a request can end: a result, a RemoteError, a TimeoutError, a
\* CancelledError of either origin, a TransportError.
Outcomes == {"result", "error", "timeout", "cancelled", "cancelledByPeer", "transport"}

Message == [kind : {"request", "result", "error", "cancelled", "progress"}, id : Ids]

VARIABLES
    open,        \* Transport::isOpen of each side
    starts,      \* bound: starts so far
    wire,        \* PipeTransport: the deliver calls posted to each side
    nextId,      \* m_nextId
    method,      \* the method of each request sent
    pending,     \* m_pending of both sides
    fate,        \* how the future of each request ended, "none" before that
    listening,   \* m_progressHandlers of both sides, by the token's request
    running,     \* handlers whose future is being watched
    inFlight,    \* m_inFlightIncomingIds of the side that received the request
    cancelled,   \* m_cancelledIncomingIds of that side
    answer       \* history: what the callee answered, "silent" if it suppressed it

link     == <<open, starts>>
outgoing == <<nextId, method, pending, fate, listening>>
incoming == <<running, inFlight, cancelled, answer>>
vars     == <<link, wire, outgoing, incoming>>

Caller(r) == r[1]
Callee(r) == Other(r[1])
Sent(r)   == r[2] < nextId[r[1]]

Init ==
    /\ open = [p \in Sides |-> FALSE]
    /\ starts = [p \in Sides |-> 0]
    /\ wire = [p \in Sides |-> << >>]
    /\ nextId = [p \in Sides |-> 1]
    /\ method = [r \in Requests |-> "none"]
    /\ pending = {}
    /\ fate = [r \in Requests |-> "none"]
    /\ listening = {}
    /\ running = {}
    /\ inFlight = {}
    /\ cancelled = {}
    /\ answer = [r \in Requests |-> "none"]

-----------------------------------------------------------------------------
(* The transport *)

\* PipeTransport::send: a deliver call is posted to the other side, unless one
\* of the two is closed.  o is the open state the call finds, w the wire.
Carry(w, o, p, kind, i) ==
    IF o[p] /\ o[Other(p)]
    THEN [w EXCEPT ![Other(p)] = Append(@, [kind |-> kind, id |-> i])]
    ELSE w

Arrives(p, kind) == wire[p] # << >> /\ Head(wire[p]).kind = kind

\* The wire once side p has taken its next message.
Taken(p) == [wire EXCEPT ![p] = Tail(@)]

\* m_pending entries leave with their timers and progress handlers; their
\* futures end.
Settle(R, outcome) ==
    /\ pending' = pending \ R
    /\ fate' = [r \in Requests |-> IF r \in R \cap pending THEN outcome ELSE fate[r]]
    /\ listening' = listening \ (R \cap pending)

\* Transport::start.
Start(p) ==
    /\ ~open[p]
    /\ starts[p] < MaxStarts[p]
    /\ open' = [open EXCEPT ![p] = TRUE]
    /\ starts' = [starts EXCEPT ![p] = @ + 1]
    /\ UNCHANGED <<wire, outgoing, incoming>>

\* onTransportClosed: abortPending on the side that stopped.  What was posted to
\* either side stays posted.
StopSettles(p) ==
    /\ pending' = {r \in pending : Caller(r) # p}
    /\ fate' = [r \in Requests |-> IF r \in pending /\ Caller(r) = p THEN "transport"
                                   ELSE fate[r]]
    /\ listening' = {r \in listening : ~(r \in pending /\ Caller(r) = p)}

Stop(p) ==
    /\ open[p]
    /\ open' = [open EXCEPT ![p] = FALSE]
    /\ StopSettles(p)
    /\ UNCHANGED <<starts, wire, nextId, method, incoming>>

-----------------------------------------------------------------------------
(* Outgoing requests *)

\* sendRequestImpl on a transport whose state is o: a fresh id, an entry with a
\* timer, the message on its way.  The caller sets the progress handler at once.
Dispatch(p, o, m) ==
    LET r == <<p, nextId[p]>>
    IN  /\ nextId[p] <= MaxCalls[p]
        /\ nextId' = [nextId EXCEPT ![p] = @ + 1]
        /\ method' = [method EXCEPT ![r] = m]
        /\ pending' = pending \cup {r}
        /\ listening' = IF m = "tracked" THEN listening \cup {r} ELSE listening
        /\ wire' = Carry(wire, o, p, "request", nextId[p])
        /\ UNCHANGED fate

\* sendRequest and sendCancellableRequest; on a closed transport they fail at once.
SendRequest(p, m) ==
    /\ open[p]
    /\ Dispatch(p, open, m)
    /\ UNCHANGED <<link, incoming>>

\* abandonRequest: tell the peer, except about "initialize".
Abandoned(r) ==
    IF method[r] = "initialize" THEN wire
    ELSE Carry(wire, open, Caller(r), "cancelled", r[2])

\* The timer of a request fires.
Timeout(r) ==
    /\ r \in pending
    /\ wire' = Abandoned(r)
    /\ Settle({r}, "timeout")
    /\ UNCHANGED <<link, nextId, method, incoming>>

BugCancelRequest(r) ==
    /\ r \in pending
    /\ wire' = Abandoned(r)
    /\ pending' = pending \ {r}
    /\ fate' = [fate EXCEPT ![r] = "cancelled"]
    /\ UNCHANGED <<link, nextId, method, listening, incoming>>

\* cancelRequest: only sendCancellableRequest tells the caller the id.
CancelRequest(r) ==
    /\ r \in pending
    /\ method[r] = "tracked"
    /\ wire' = Abandoned(r)
    /\ Settle({r}, "cancelled")
    /\ UNCHANGED <<link, nextId, method, incoming>>

\* onSendFailed: a transport that learns of it (the HTTP ones) reports that the
\* message of a request could not be sent.
SendFailed(r) ==
    /\ r \in pending
    /\ Settle({r}, "transport")
    /\ UNCHANGED <<link, wire, nextId, method, incoming>>

BugReceiveAnswer(p) ==
    \E kind \in {"result", "error"} :
        /\ Arrives(p, kind)
        /\ LET r == <<p, Head(wire[p]).id>>
           IN  /\ pending' = pending \ {r}
               /\ fate' = [fate EXCEPT ![r] = kind]
               /\ listening' = listening \ {r}
        /\ wire' = Taken(p)
        /\ UNCHANGED <<link, nextId, method, incoming>>

\* dispatchResponse: the answer to an id no longer pending is dropped.
ReceiveAnswer(p) ==
    \E kind \in {"result", "error"} :
        /\ Arrives(p, kind)
        /\ Settle({<<p, Head(wire[p]).id>>} \cap pending, kind)
        /\ wire' = Taken(p)
        /\ UNCHANGED <<link, nextId, method, incoming>>

-----------------------------------------------------------------------------
(* Incoming requests *)

\* dispatchRequest, when a handler returns a future.
Accept(p, r) ==
    /\ running' = running \cup {r}
    /\ inFlight' = inFlight \cup {r}
    /\ wire' = Taken(p)
    /\ UNCHANGED <<cancelled, answer>>

BugRefuse(p, r) ==
    /\ answer' = [answer EXCEPT ![r] = "error"]
    /\ wire' = Taken(p)
    /\ UNCHANGED <<running, inFlight, cancelled>>

\* dispatchRequest, when no handler is set for the method or the handler throws.
Refuse(p, r) ==
    /\ answer' = [answer EXCEPT ![r] = "error"]
    /\ wire' = Carry(Taken(p), open, p, "error", r[2])
    /\ UNCHANGED <<running, inFlight, cancelled>>

ReceiveRequest(p) ==
    /\ Arrives(p, "request")
    /\ LET r == <<Other(p), Head(wire[p]).id>>
       IN  Accept(p, r) \/ Refuse(p, r)
    /\ UNCHANGED <<link, outgoing>>

\* The watcher's slot: the answer of a cancelled request is suppressed.
Answered(r, kind) ==
    /\ inFlight' = inFlight \ {r}
    /\ cancelled' = cancelled \ {r}
    /\ answer' = [answer EXCEPT ![r] = IF r \in cancelled THEN "silent" ELSE kind]
    /\ wire' = IF r \in cancelled THEN wire
               ELSE Carry(wire, open, Callee(r), kind, r[2])

\* The future a handler returned ends.
HandlerFinishes(r) ==
    /\ r \in running
    /\ running' = running \ {r}
    /\ \E kind \in {"result", "error"} : Answered(r, kind)
    /\ UNCHANGED <<link, outgoing>>

\* The peer's request of that id is marked, if it is in flight.
Mark(p, i) == cancelled' = cancelled \cup ({<<Other(p), i>>} \cap inFlight)

\* The handler of notifications/cancelled, which knows ids only: it also ends the
\* request this side itself sent under the id.
ReceiveCancelled(p) ==
    /\ Arrives(p, "cancelled")
    /\ Mark(p, Head(wire[p]).id)
    /\ Settle({<<p, Head(wire[p]).id>>} \cap pending, "cancelledByPeer")
    /\ wire' = Taken(p)
    /\ UNCHANGED <<link, nextId, method, running, inFlight, answer>>

\* sendProgress by a running handler; bound: one report per request at a time.
SendProgress(r) ==
    /\ r \in running
    /\ method[r] = "tracked"
    /\ \A k \in 1..Len(wire[Caller(r)]) :
           wire[Caller(r)][k] # [kind |-> "progress", id |-> r[2]]
    /\ wire' = Carry(wire, open, Callee(r), "progress", r[2])
    /\ UNCHANGED <<link, outgoing, incoming>>

\* The handler of notifications/progress calls the application back if the
\* token still has a progress handler; it changes nothing here.
ReceiveProgress(p) ==
    /\ Arrives(p, "progress")
    /\ wire' = Taken(p)
    /\ UNCHANGED <<link, outgoing, incoming>>

Receive(p) ==
    \/ ReceiveRequest(p) \/ ReceiveAnswer(p) \/ ReceiveCancelled(p) \/ ReceiveProgress(p)

\* Everything that happens to requests already sent.
Progress ==
    \/ \E p \in Sides : Receive(p)
    \/ \E r \in Requests :
          \/ Timeout(r) \/ CancelRequest(r) \/ SendFailed(r)
          \/ HandlerFinishes(r) \/ SendProgress(r)

Next ==
    \/ \E p \in Sides : Start(p) \/ Stop(p) \/ \E m \in Sends[p] : SendRequest(p, m)
    \/ Progress

Spec == Init /\ [][Next]_vars

\* The event loop delivers what was posted and handlers finish.
Fairness ==
    /\ \A p \in Sides : WF_vars(Receive(p))
    /\ \A r \in Requests : WF_vars(HandlerFinishes(r))

FairSpec == Spec /\ Fairness

-----------------------------------------------------------------------------
(* Properties *)

\* Every variable stays in its type.
TypeOK ==
    /\ open \in [Sides -> BOOLEAN]
    /\ starts \in [Sides -> Nat]
    /\ \A p \in Sides : starts[p] <= MaxStarts[p]
    /\ wire \in [Sides -> Seq(Message)]
    /\ nextId \in [Sides -> Nat]
    /\ \A p \in Sides : nextId[p] \in 1..(MaxCalls[p] + 1)
    /\ method \in [Requests -> Methods \cup {"none"}]
    /\ pending \subseteq Requests
    /\ fate \in [Requests -> Outcomes \cup {"none"}]
    /\ listening \subseteq Requests
    /\ running \subseteq Requests
    /\ inFlight \subseteq Requests
    /\ cancelled \subseteq Requests
    /\ answer \in [Requests -> {"none", "result", "error", "silent"}]

\* A request that was sent is pending exactly until its future ends, whichever of
\* the answer, the timer, a cancellation, a failed send or the closing transport
\* comes first; no progress callback outlives it.
PendingUntilSettled ==
    \A r \in Requests :
        /\ r \in pending <=> Sent(r) /\ fate[r] = "none"
        /\ r \in listening => r \in pending

\* Nothing is pending on a closed transport: stop() ends every request
\* (onTransportClosed), and none is accepted until the next start().
ClosedMeansNonePending == \A r \in pending : open[Caller(r)]

\* The incoming ids a session remembers are those of its running handlers; a
\* cancellation that comes after the answer leaves no mark behind.
IncomingIdsAreRunning ==
    /\ inFlight = running
    /\ cancelled \subseteq running

Positions(p, kinds, i) ==
    {k \in 1..Len(wire[p]) : wire[p][k].kind \in kinds /\ wire[p][k].id = i}

\* The two sessions together are an at-most-once call.
Knows(r) ==
    CASE ~Sent(r) -> "idle"
      [] Sent(r) /\ r \in pending -> "waiting"
      [] Sent(r) /\ fate[r] \in {"result", "error"} -> fate[r]
      [] OTHER -> "failed"

Does(r) == IF r \in running THEN "running" ELSE answer[r]

Contract == INSTANCE AtMostOnceCall WITH
    call <- [r \in Requests |-> Knows(r)],
    exec <- [r \in Requests |-> Does(r)]

\* Every behaviour of the sessions is one AtMostOnceCall allows.
ImplementsContract == Contract!Spec

Delivered(r) == Positions(Callee(r), {"request"}, r[2]) # {}

\* A request that reached the peer's queue is settled without the help of its
\* timer, unless one of the two closes: whether the method has a handler, the
\* handler throws, fails or answers, and whatever ids the peer's own requests use.
DeliveredIsSettled ==
    \A r \in Requests :
        (Delivered(r) /\ r \in pending) ~> (r \notin pending \/ ~open[Callee(r)])

=============================================================================
