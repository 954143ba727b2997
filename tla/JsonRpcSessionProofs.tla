------------------------ MODULE JsonRpcSessionProofs ------------------------
(***************************************************************************)
(* JsonRpcSession and the ProtocolPeer over it, for any number of requests *)
(* of either side and any number of restarts of the transports.            *)
(*                                                                         *)
(* The invariants are inductive together with two facts about what is on   *)
(* its way and what is not sent yet; the delivery of a message uses the    *)
(* first, the sending of a request the second.                             *)
(***************************************************************************)
EXTENDS ProtocolPeer, TLAPS

\* A delivered request is one the other side can have sent.
WireOK(w) ==
    /\ w \in [Sides -> Seq(Message)]
    /\ \A p \in Sides : \A k \in 1..Len(w[p]) :
           w[p][k].kind = "request" => <<Other(p), w[p][k].id>> \in Requests

LinkOK ==
    /\ open \in [Sides -> BOOLEAN]
    /\ starts \in [Sides -> Nat]
    /\ \A p \in Sides : starts[p] <= MaxStarts[p]

UnsentIsFresh ==
    \A r \in Requests : ~Sent(r) => fate[r] = "none" /\ method[r] = "none"

OutgoingTypes ==
    /\ nextId \in [Sides -> Nat]
    /\ \A p \in Sides : nextId[p] \in 1..(MaxCalls[p] + 1)
    /\ method \in [Requests -> Methods \cup {"none"}]
    /\ pending \subseteq Requests
    /\ fate \in [Requests -> Outcomes \cup {"none"}]
    /\ listening \subseteq Requests

OutgoingOK == OutgoingTypes /\ UnsentIsFresh /\ PendingUntilSettled /\ ClosedMeansNonePending

IncomingOK ==
    /\ running \subseteq Requests
    /\ answer \in [Requests -> {"none", "result", "error", "silent"}]
    /\ IncomingIdsAreRunning

IInv == LinkOK /\ WireOK(wire) /\ OutgoingOK /\ IncomingOK

-----------------------------------------------------------------------------
(* The transport *)

\* The other side of a side is a side.
LEMMA OtherSide == \A p \in Sides : Other(p) \in Sides /\ Other(p) # p /\ Other(Other(p)) = p
BY DEF Sides, Other

\* The components of a request: its caller and an id the caller may use.
LEMMA RequestParts ==
    ASSUME NEW r \in Requests
    PROVE  /\ Caller(r) \in Sides /\ Callee(r) \in Sides /\ Other(Callee(r)) = Caller(r)
           /\ r[2] \in Ids /\ r[2] <= MaxCalls[Caller(r)]
           /\ r = <<Caller(r), r[2]>>
           /\ <<Caller(r), r[2]>> \in Requests
<1>1. r \in Sides \X Ids /\ r[2] <= MaxCalls[r[1]]
  BY DEF Requests
<1>2. r = <<r[1], r[2]>> /\ r[1] \in Sides /\ r[2] \in Ids
  BY <1>1
<1> QED
  BY <1>1, <1>2, OtherSide DEF Caller, Callee

\* Posting a message keeps the queues well formed (PipeTransport::send).
LEMMA CarryOK ==
    ASSUME NEW w, WireOK(w), NEW o, NEW p \in Sides, NEW kind, NEW i,
           [kind |-> kind, id |-> i] \in Message,
           kind = "request" => <<p, i>> \in Requests
    PROVE  WireOK(Carry(w, o, p, kind, i))
<1> DEFINE msg == [kind |-> kind, id |-> i]
           q == Other(p)
           w2 == [w EXCEPT ![q] = Append(w[q], msg)]
<1>1. q \in Sides /\ Other(q) = p
  BY OtherSide
<1>2. w \in [Sides -> Seq(Message)]
  BY DEF WireOK
<1>3. msg.kind = kind /\ msg.id = i /\ msg \in Message
  OBVIOUS
<1> HIDE DEF msg, q
<1>4. w2 \in [Sides -> Seq(Message)]
  BY <1>1, <1>2, <1>3
<1>5. ASSUME NEW s \in Sides, NEW k \in 1..Len(w2[s]), w2[s][k].kind = "request"
      PROVE  <<Other(s), w2[s][k].id>> \in Requests
  <2>1. CASE s = q
    <3>1. w2[s] = Append(w[q], msg) /\ w[q] \in Seq(Message)
      BY <1>1, <1>2, <2>1
    <3>2. CASE k \in 1..Len(w[q])
      <4>1. w2[s][k] = w[q][k]
        BY <3>1, <3>2
      <4> QED
        BY <1>1, <1>5, <2>1, <3>2, <4>1 DEF WireOK
    <3>3. CASE k \notin 1..Len(w[q])
      <4>1. w2[s][k] = msg
        BY <1>3, <1>5, <3>1, <3>3
      <4> QED
        BY <1>1, <1>3, <1>5, <2>1, <4>1
    <3> QED
      BY <3>2, <3>3
  <2>2. CASE s # q
    <3>1. w2[s] = w[s]
      BY <1>2, <2>2
    <3> QED
      BY <1>5, <3>1 DEF WireOK
  <2> QED
    BY <2>1, <2>2
<1>6. WireOK(w2)
  BY <1>4, <1>5 DEF WireOK
<1> QED
  BY <1>6 DEF Carry, msg, q

\* Taking a message keeps them well formed, and what is taken is a message.
LEMMA TakenOK ==
    ASSUME WireOK(wire), NEW p \in Sides, wire[p] # << >>
    PROVE  /\ WireOK(Taken(p))
           /\ Head(wire[p]) \in Message
           /\ Head(wire[p]).kind = "request"
                  => <<Other(p), Head(wire[p]).id>> \in Requests
<1> DEFINE w2 == [wire EXCEPT ![p] = Tail(wire[p])]
<1>1. wire \in [Sides -> Seq(Message)] /\ wire[p] \in Seq(Message)
  BY DEF WireOK
<1>2. /\ Tail(wire[p]) \in Seq(Message)
      /\ Len(Tail(wire[p])) = Len(wire[p]) - 1
      /\ \A k \in 1..Len(Tail(wire[p])) : Tail(wire[p])[k] = wire[p][k + 1]
      /\ 1 \in 1..Len(wire[p]) /\ Head(wire[p]) = wire[p][1]
      /\ Len(wire[p]) \in Nat
  BY <1>1
<1>3. w2 \in [Sides -> Seq(Message)]
  BY <1>1, <1>2
<1>4. ASSUME NEW s \in Sides, NEW k \in 1..Len(w2[s]), w2[s][k].kind = "request"
      PROVE  <<Other(s), w2[s][k].id>> \in Requests
  <2>1. CASE s = p
    <3>1. w2[s] = Tail(wire[p])
      BY <1>1, <2>1
    <3>2. k \in 1..Len(Tail(wire[p])) /\ w2[s][k] = Tail(wire[p])[k]
      BY <3>1
    <3>3. k + 1 \in 1..Len(wire[p]) /\ w2[s][k] = wire[p][k + 1]
      BY <1>2, <3>2
    <3> QED
      BY <1>4, <2>1, <3>3 DEF WireOK
  <2>2. CASE s # p
    <3>1. w2[s] = wire[s]
      BY <1>1, <2>2
    <3> QED
      BY <1>4, <3>1 DEF WireOK
  <2> QED
    BY <2>1, <2>2
<1>5. WireOK(w2)
  BY <1>3, <1>4 DEF WireOK
<1>6. Head(wire[p]) \in Message
  BY <1>1, <1>2
<1> HIDE DEF w2
<1> QED
  BY <1>2, <1>5, <1>6 DEF WireOK, Taken, w2

-----------------------------------------------------------------------------
(* Requests that end *)

\* Ending requests leaves the callers' books balanced (the erasures of m_pending).
LEMMA SettleOK ==
    ASSUME OutgoingOK, NEW R, NEW outcome \in Outcomes, Settle(R, outcome),
           UNCHANGED <<open, nextId, method>>
    PROVE  OutgoingOK'
<1>1. OutgoingTypes'
  BY DEF OutgoingOK, OutgoingTypes, Settle
<1>2. \A r \in Requests : fate'[r] = IF r \in R \cap pending THEN outcome ELSE fate[r]
  BY DEF Settle
<1>3. outcome # "none"
  BY DEF Outcomes
<1>4. \A r \in Requests : Sent(r)' <=> Sent(r)
  BY DEF Sent
<1>5. UnsentIsFresh'
  <2> SUFFICES ASSUME NEW r \in Requests, ~Sent(r)'
               PROVE  fate'[r] = "none" /\ method'[r] = "none"
    BY DEF UnsentIsFresh
  <2>1. fate[r] = "none" /\ method[r] = "none" /\ r \notin pending
    BY <1>4 DEF OutgoingOK, UnsentIsFresh, PendingUntilSettled
  <2> QED
    BY <1>2, <2>1
<1>6. PendingUntilSettled'
  <2> SUFFICES ASSUME NEW r \in Requests
               PROVE  /\ r \in pending' <=> Sent(r)' /\ fate'[r] = "none"
                      /\ r \in listening' => r \in pending'
    BY DEF PendingUntilSettled
  <2>1. /\ r \in pending <=> Sent(r) /\ fate[r] = "none"
        /\ r \in listening => r \in pending
    BY DEF OutgoingOK, PendingUntilSettled
  <2> QED
    BY <1>2, <1>3, <1>4, <2>1 DEF Settle
<1>7. ClosedMeansNonePending'
  BY DEF OutgoingOK, ClosedMeansNonePending, Settle
<1> QED
  BY <1>1, <1>5, <1>6, <1>7 DEF OutgoingOK

\* Steps that leave the callers' variables alone keep their part of the invariant.
LEMMA OutgoingKept ==
    ASSUME OutgoingOK, UNCHANGED <<open, outgoing>>
    PROVE  OutgoingOK'
BY DEF OutgoingOK, OutgoingTypes, UnsentIsFresh, PendingUntilSettled,
       ClosedMeansNonePending, Sent, outgoing

\* So do those that leave the callees' variables alone.
LEMMA IncomingKept ==
    ASSUME IncomingOK, UNCHANGED incoming
    PROVE  IncomingOK'
BY DEF IncomingOK, IncomingIdsAreRunning, incoming

\* So do those that leave the transports alone.
LEMMA LinkKept ==
    ASSUME LinkOK, UNCHANGED link
    PROVE  LinkOK'
BY DEF LinkOK, link

-----------------------------------------------------------------------------
(* Actions *)

\* Starting a transport.
LEMMA StartOK ==
    ASSUME IInv, NEW p \in Sides, Start(p)
    PROVE  IInv'
<1>1. LinkOK'
  <2>1. /\ open' = [open EXCEPT ![p] = TRUE]
        /\ starts' = [starts EXCEPT ![p] = starts[p] + 1]
        /\ starts[p] < MaxStarts[p] /\ MaxStarts[p] \in Nat
    BY BoundsAssumption DEF Start
  <2>2. open' \in [Sides -> BOOLEAN] /\ starts' \in [Sides -> Nat]
    BY <2>1 DEF IInv, LinkOK
  <2>3. \A s \in Sides : starts'[s] <= MaxStarts[s]
    BY <2>1 DEF IInv, LinkOK
  <2> QED
    BY <2>2, <2>3 DEF LinkOK
<1>2. OutgoingOK'
  <2>1. \A s \in Sides : open[s] => open'[s]
    BY DEF IInv, LinkOK, Start
  <2>2. ClosedMeansNonePending'
    BY <2>1, RequestParts
    DEF IInv, OutgoingOK, OutgoingTypes, ClosedMeansNonePending, Start, outgoing
  <2> QED
    BY <2>2 DEF IInv, OutgoingOK, OutgoingTypes, UnsentIsFresh, PendingUntilSettled,
                Sent, Start, outgoing
<1>3. IncomingOK' /\ WireOK(wire)'
  BY IncomingKept DEF IInv, Start, WireOK
<1> QED
  BY <1>1, <1>2, <1>3 DEF IInv

\* Stopping one ends every request of its side.
LEMMA StopOK ==
    ASSUME IInv, NEW p \in Sides, Stop(p)
    PROVE  IInv'
<1>1. LinkOK'
  BY DEF IInv, LinkOK, Stop
<1>2. IncomingOK' /\ WireOK(wire)'
  BY IncomingKept DEF IInv, Stop, WireOK
<1>3. OutgoingTypes'
  BY DEF IInv, OutgoingOK, OutgoingTypes, Stop, StopSettles, Outcomes
<1>4. /\ pending' = {r \in pending : Caller(r) # p}
      /\ \A r \in Requests : fate'[r] = IF r \in pending /\ Caller(r) = p
                                         THEN "transport" ELSE fate[r]
      /\ listening' = {r \in listening : ~(r \in pending /\ Caller(r) = p)}
      /\ nextId' = nextId /\ method' = method
  BY DEF Stop, StopSettles
<1>5. \A r \in Requests : Sent(r)' <=> Sent(r)
  BY <1>4 DEF Sent
<1>6. \A r \in Requests : /\ r \in pending <=> Sent(r) /\ fate[r] = "none"
                          /\ r \in listening => r \in pending
                          /\ ~Sent(r) => fate[r] = "none" /\ method[r] = "none"
  BY DEF IInv, OutgoingOK, PendingUntilSettled, UnsentIsFresh
<1>7. UnsentIsFresh'
  BY <1>4, <1>5, <1>6 DEF UnsentIsFresh
<1>8. PendingUntilSettled'
  BY <1>4, <1>5, <1>6 DEF PendingUntilSettled
<1>9. ClosedMeansNonePending'
  <2> SUFFICES ASSUME NEW r \in pending' PROVE open'[Caller(r)]
    BY DEF ClosedMeansNonePending
  <2>1. r \in pending /\ Caller(r) # p /\ open[Caller(r)]
    BY <1>4 DEF IInv, OutgoingOK, ClosedMeansNonePending
  <2>2. Caller(r) \in Sides
    BY <2>1, RequestParts DEF IInv, OutgoingOK, OutgoingTypes
  <2> QED
    BY <2>1, <2>2 DEF Stop, IInv, LinkOK
<1> QED
  BY <1>1, <1>2, <1>3, <1>7, <1>8, <1>9 DEF IInv, OutgoingOK

\* The id a request is sent under was never used.
LEMMA DispatchIsNew ==
    ASSUME OutgoingOK, NEW p \in Sides, NEW m, NEW o, Dispatch(p, o, m)
    PROVE  /\ nextId[p] \in Ids /\ <<p, nextId[p]>> \in Requests
           /\ ~Sent(<<p, nextId[p]>>) /\ fate[<<p, nextId[p]>>] = "none"
           /\ \A r \in Requests : Sent(r)' <=> Sent(r) \/ r = <<p, nextId[p]>>
<1> DEFINE r0 == <<p, nextId[p]>>
<1>1. /\ nextId[p] \in Nat /\ nextId[p] \in Ids /\ nextId[p] <= MaxCalls[p]
      /\ MaxCalls["client"] \in Nat /\ MaxCalls["server"] \in Nat
  BY BoundsAssumption DEF Dispatch, OutgoingOK, OutgoingTypes, Ids, Sides
<1>2. r0 \in Requests /\ Caller(r0) = p /\ r0[2] = nextId[p]
  BY <1>1 DEF Requests, Caller
<1>3. /\ nextId' = [nextId EXCEPT ![p] = nextId[p] + 1]
      /\ method' = [method EXCEPT ![r0] = m]
      /\ pending' = pending \cup {r0}
      /\ listening' = IF m = "tracked" THEN listening \cup {r0} ELSE listening
      /\ wire' = Carry(wire, o, p, "request", nextId[p])
      /\ fate' = fate
  BY DEF Dispatch
<1> HIDE DEF r0
<1>4. \A r \in Requests : Sent(r)' <=> Sent(r) \/ r = r0
  <2> SUFFICES ASSUME NEW r \in Requests PROVE Sent(r)' <=> Sent(r) \/ r = r0
    OBVIOUS
  <2>1. r = <<r[1], r[2]>> /\ r[1] \in Sides /\ r[2] \in Nat
    <3>1. r = <<r[1], r[2]>> /\ r[1] \in Sides /\ r[2] \in Ids
      BY RequestParts DEF Caller
    <3>2. Ids \subseteq Nat
      BY <1>1 DEF Ids
    <3> QED
      BY <3>1, <3>2
  <2>2. CASE r[1] = p
    <3>1. r = r0 <=> r[2] = nextId[p]
      BY <2>1, <2>2 DEF r0
    <3>2. nextId'[p] = nextId[p] + 1
      BY <1>3 DEF OutgoingOK, OutgoingTypes
    <3> QED
      BY <1>1, <2>1, <2>2, <3>1, <3>2 DEF Sent
  <2>3. CASE r[1] # p
    <3>1. r # r0
      BY <2>3 DEF r0
    <3>2. nextId'[r[1]] = nextId[r[1]]
      BY <1>3, <2>1, <2>3 DEF OutgoingOK, OutgoingTypes
    <3> QED
      BY <3>1, <3>2 DEF Sent
  <2> QED
    BY <2>2, <2>3
<1>5. ~Sent(r0) /\ fate[r0] = "none"
  <2>1. ~Sent(r0)
    BY <1>1 DEF Sent, r0
  <2> QED
    BY <1>2, <2>1 DEF OutgoingOK, UnsentIsFresh
<1> QED
  BY <1>1, <1>2, <1>4, <1>5 DEF r0

\* Sending a request: the id was never used, so nothing is known of it yet.
LEMMA DispatchOK ==
    ASSUME LinkOK, WireOK(wire), OutgoingOK, NEW p \in Sides, NEW m \in Methods,
           NEW o, Dispatch(p, o, m), open' \in [Sides -> BOOLEAN], open'[p],
           \A s \in Sides : open[s] => open'[s]
    PROVE  OutgoingOK' /\ WireOK(wire)'
<1> DEFINE r0 == <<p, nextId[p]>>
<1>1. /\ nextId[p] \in Nat /\ nextId[p] \in Ids /\ nextId[p] <= MaxCalls[p]
      /\ MaxCalls["client"] \in Nat /\ MaxCalls["server"] \in Nat
  BY BoundsAssumption DEF Dispatch, OutgoingOK, OutgoingTypes, Ids, Sides
<1>2. r0 \in Requests /\ Caller(r0) = p /\ r0[2] = nextId[p]
  BY <1>1 DEF Requests, Caller
<1>3. /\ nextId' = [nextId EXCEPT ![p] = nextId[p] + 1]
      /\ method' = [method EXCEPT ![r0] = m]
      /\ pending' = pending \cup {r0}
      /\ listening' = IF m = "tracked" THEN listening \cup {r0} ELSE listening
      /\ wire' = Carry(wire, o, p, "request", nextId[p])
      /\ fate' = fate
  BY DEF Dispatch
<1> HIDE DEF r0
<1>4. WireOK(wire)'
  <2>1. [kind |-> "request", id |-> nextId[p]] \in Message
    BY <1>1 DEF Message
  <2>2. WireOK(Carry(wire, o, p, "request", nextId[p]))
    BY <1>2, <2>1, CarryOK DEF r0
  <2> QED
    BY <1>3, <2>2 DEF WireOK
<1>5. OutgoingTypes'
  <2>1. nextId' \in [Sides -> Nat] /\ \A s \in Sides : nextId'[s] \in 1..(MaxCalls[s] + 1)
    <3>1. nextId \in [Sides -> Nat] /\ \A s \in Sides : nextId[s] \in 1..(MaxCalls[s] + 1)
      BY DEF OutgoingOK, OutgoingTypes
    <3>2. \A s \in Sides : MaxCalls[s] \in Nat
      BY BoundsAssumption
    <3>3. nextId' \in [Sides -> Nat]
      BY <1>1, <1>3, <3>1
    <3>4. \A s \in Sides : nextId'[s] = IF s = p THEN nextId[p] + 1 ELSE nextId[s]
      BY <1>3, <3>1
    <3> QED
      BY <1>1, <3>1, <3>2, <3>3, <3>4
  <2> QED
    BY <1>2, <1>3, <2>1 DEF OutgoingOK, OutgoingTypes
<1>6. \A r \in Requests : Sent(r)' <=> Sent(r) \/ r = r0
  BY DispatchIsNew DEF r0
<1>7. ~Sent(r0) /\ fate[r0] = "none" /\ r0 \notin pending
  BY <1>2, DispatchIsNew DEF r0, OutgoingOK, PendingUntilSettled
<1>8. \A r \in Requests : /\ r \in pending <=> Sent(r) /\ fate[r] = "none"
                          /\ r \in listening => r \in pending
                          /\ ~Sent(r) => fate[r] = "none" /\ method[r] = "none"
  BY DEF OutgoingOK, PendingUntilSettled, UnsentIsFresh
<1>9. UnsentIsFresh'
  <2> SUFFICES ASSUME NEW r \in Requests, ~Sent(r)'
               PROVE  fate'[r] = "none" /\ method'[r] = "none"
    BY DEF UnsentIsFresh
  <2>1. ~Sent(r) /\ r # r0
    BY <1>6
  <2> QED
    BY <1>3, <1>8, <2>1 DEF OutgoingOK, OutgoingTypes
<1>10. PendingUntilSettled'
  <2> SUFFICES ASSUME NEW r \in Requests
               PROVE  /\ r \in pending' <=> Sent(r)' /\ fate'[r] = "none"
                      /\ r \in listening' => r \in pending'
    BY DEF PendingUntilSettled
  <2> QED
    BY <1>3, <1>6, <1>7, <1>8
<1>11. ClosedMeansNonePending'
  <2> SUFFICES ASSUME NEW r \in pending' PROVE open'[Caller(r)]
    BY DEF ClosedMeansNonePending
  <2>1. CASE r = r0
    BY <1>2, <2>1
  <2>2. CASE r # r0
    <3>1. r \in pending /\ open[Caller(r)]
      BY <1>3, <2>2 DEF OutgoingOK, ClosedMeansNonePending
    <3>2. Caller(r) \in Sides
      BY <3>1, RequestParts DEF OutgoingOK, OutgoingTypes
    <3> QED
      BY <3>1, <3>2
  <2> QED
    BY <2>1, <2>2
<1> QED
  BY <1>4, <1>5, <1>9, <1>10, <1>11 DEF OutgoingOK

\* sendRequest.
LEMMA SendRequestOK ==
    ASSUME IInv, NEW p \in Sides, NEW m \in Methods, SendRequest(p, m)
    PROVE  IInv'
<1>1. OutgoingOK' /\ WireOK(wire)'
  BY DispatchOK DEF IInv, LinkOK, SendRequest, link
<1>2. LinkOK' /\ IncomingOK'
  BY LinkKept, IncomingKept DEF IInv, SendRequest
<1> QED
  BY <1>1, <1>2 DEF IInv

\* What abandonRequest posts is a message.
LEMMA AbandonedOK ==
    ASSUME WireOK(wire), NEW r \in Requests
    PROVE  WireOK(Abandoned(r))
<1>1. [kind |-> "cancelled", id |-> r[2]] \in Message
  BY RequestParts DEF Message
<1> QED
  BY <1>1, CarryOK, RequestParts DEF Abandoned

\* A timer that fires, a caller that cancels, a message that was not sent.
LEMMA GiveUpOK ==
    ASSUME IInv, NEW r \in Requests, Timeout(r) \/ CancelRequest(r) \/ SendFailed(r)
    PROVE  IInv'
<1>1. LinkOK' /\ IncomingOK'
  BY LinkKept, IncomingKept DEF IInv, Timeout, CancelRequest, SendFailed
<1>2. WireOK(wire)'
  <2>1. wire' = wire \/ wire' = Abandoned(r)
    BY DEF Timeout, CancelRequest, SendFailed
  <2>2. WireOK(Abandoned(r))
    BY AbandonedOK DEF IInv
  <2> QED
    BY <2>1, <2>2 DEF IInv, WireOK
<1>3. OutgoingOK'
  <2>1. \E x \in Outcomes : Settle({r}, x)
    BY DEF Timeout, CancelRequest, SendFailed, Outcomes
  <2>2. UNCHANGED <<open, nextId, method>>
    BY DEF Timeout, CancelRequest, SendFailed, link
  <2> QED
    BY <2>1, <2>2, SettleOK DEF IInv
<1> QED
  BY <1>1, <1>2, <1>3 DEF IInv

\* An answer ends the request it names, if that is still pending.
LEMMA ReceiveAnswerOK ==
    ASSUME IInv, NEW p \in Sides, ReceiveAnswer(p)
    PROVE  IInv'
<1>1. PICK kind \in {"result", "error"} :
          /\ Arrives(p, kind)
          /\ Settle({<<p, Head(wire[p]).id>>} \cap pending, kind)
          /\ wire' = Taken(p)
          /\ UNCHANGED <<link, nextId, method, incoming>>
  BY DEF ReceiveAnswer
<1>2. kind \in Outcomes
  BY DEF Outcomes
<1>3. OutgoingOK'
  BY <1>1, <1>2, SettleOK DEF IInv, link
<1>4. WireOK(wire)'
  BY <1>1, TakenOK DEF IInv, Arrives, WireOK
<1>5. LinkOK' /\ IncomingOK'
  BY <1>1, LinkKept, IncomingKept DEF IInv
<1> QED
  BY <1>3, <1>4, <1>5 DEF IInv

\* A request is handed to its handler or refused.
LEMMA ReceiveRequestOK ==
    ASSUME IInv, NEW p \in Sides, ReceiveRequest(p)
    PROVE  IInv'
<1> DEFINE r == <<Other(p), Head(wire[p]).id>>
<1>1. wire[p] # << >> /\ Head(wire[p]).kind = "request"
  BY DEF ReceiveRequest, Arrives
<1>2. r \in Requests /\ WireOK(Taken(p)) /\ r[2] \in Ids
  BY <1>1, TakenOK, RequestParts DEF IInv
<1>3. (Accept(p, r) \/ Refuse(p, r)) /\ UNCHANGED <<link, outgoing>>
  BY DEF ReceiveRequest
<1> HIDE DEF r
<1>4. LinkOK' /\ OutgoingOK'
  BY <1>3, LinkKept, OutgoingKept DEF IInv, link
<1>5. CASE Accept(p, r)
  <2>1. IncomingOK'
    BY <1>2, <1>5 DEF IInv, IncomingOK, IncomingIdsAreRunning, Accept
  <2>2. WireOK(wire)'
    BY <1>2, <1>5 DEF Accept, WireOK
  <2> QED
    BY <1>4, <2>1, <2>2 DEF IInv
<1>6. CASE Refuse(p, r)
  <2>1. IncomingOK'
    BY <1>2, <1>6 DEF IInv, IncomingOK, IncomingIdsAreRunning, Refuse
  <2>2. [kind |-> "error", id |-> r[2]] \in Message
    BY <1>2 DEF Message
  <2>3. WireOK(Carry(Taken(p), open, p, "error", r[2]))
    BY <1>2, <2>2, CarryOK
  <2>4. WireOK(wire)'
    BY <1>6, <2>3 DEF Refuse, WireOK
  <2> QED
    BY <1>4, <2>1, <2>4 DEF IInv
<1> QED
  BY <1>3, <1>5, <1>6

\* A handler that ends takes its id out of both sets.
LEMMA HandlerFinishesOK ==
    ASSUME IInv, NEW r \in Requests, HandlerFinishes(r)
    PROVE  IInv'
<1>1. PICK kind \in {"result", "error"} : Answered(r, kind)
  BY DEF HandlerFinishes
<1>2. LinkOK' /\ OutgoingOK'
  BY LinkKept, OutgoingKept DEF IInv, HandlerFinishes, link
<1>3. IncomingOK'
  BY <1>1 DEF IInv, IncomingOK, IncomingIdsAreRunning, HandlerFinishes, Answered
<1>4. WireOK(wire)'
  <2>1. [kind |-> kind, id |-> r[2]] \in Message
    BY RequestParts DEF Message
  <2>2. WireOK(Carry(wire, open, Callee(r), kind, r[2]))
    BY <2>1, CarryOK, RequestParts DEF IInv
  <2> QED
    BY <1>1, <2>2 DEF Answered, IInv, WireOK
<1> QED
  BY <1>2, <1>3, <1>4 DEF IInv

\* A cancellation marks a running handler at most, and ends a pending request at most.
LEMMA ReceiveCancelledOK ==
    ASSUME IInv, NEW p \in Sides, ReceiveCancelled(p)
    PROVE  IInv'
<1>1. OutgoingOK'
  <2>1. "cancelledByPeer" \in Outcomes
    BY DEF Outcomes
  <2> QED
    BY <2>1, SettleOK DEF IInv, ReceiveCancelled, link
<1>2. IncomingOK'
  BY DEF IInv, IncomingOK, IncomingIdsAreRunning, ReceiveCancelled, Mark
<1>3. WireOK(wire)'
  BY TakenOK DEF IInv, ReceiveCancelled, Arrives, WireOK
<1>4. LinkOK'
  BY LinkKept DEF IInv, ReceiveCancelled
<1> QED
  BY <1>1, <1>2, <1>3, <1>4 DEF IInv

\* Progress changes the queues only.
LEMMA ProgressMessagesOK ==
    ASSUME IInv, \/ \E r \in Requests : SendProgress(r)
                 \/ \E p \in Sides : ReceiveProgress(p)
    PROVE  IInv'
<1>1. LinkOK' /\ OutgoingOK' /\ IncomingOK'
  BY LinkKept, OutgoingKept, IncomingKept DEF IInv, SendProgress, ReceiveProgress, link
<1>2. WireOK(wire)'
  <2>1. CASE \E p \in Sides : ReceiveProgress(p)
    BY <2>1, TakenOK DEF IInv, ReceiveProgress, Arrives, WireOK
  <2>2. CASE \E r \in Requests : SendProgress(r)
    <3>1. PICK r \in Requests : SendProgress(r)
      BY <2>2
    <3>2. [kind |-> "progress", id |-> r[2]] \in Message
      BY RequestParts DEF Message
    <3>3. WireOK(Carry(wire, open, Callee(r), "progress", r[2]))
      BY <3>2, CarryOK, RequestParts DEF IInv
    <3> QED
      BY <3>1, <3>3 DEF SendProgress, WireOK
  <2> QED
    BY <2>1, <2>2
<1> QED
  BY <1>1, <1>2 DEF IInv

-----------------------------------------------------------------------------
(* The theorems *)

\* IInv holds initially.
LEMMA SessionInit == Init => IInv
<1> SUFFICES ASSUME Init PROVE IInv
  OBVIOUS
<1>1. LinkOK
  BY BoundsAssumption DEF Init, LinkOK
<1>2. WireOK(wire)
  BY DEF Init, WireOK
<1>3. OutgoingTypes
  BY BoundsAssumption DEF Init, OutgoingTypes
<1>4. \A r \in Requests : ~Sent(r)
  <2> SUFFICES ASSUME NEW r \in Requests PROVE ~(r[2] < 1)
    BY RequestParts DEF Init, Sent, Caller
  <2>1. r[2] \in Ids /\ MaxCalls["client"] \in Nat /\ MaxCalls["server"] \in Nat
    BY RequestParts, BoundsAssumption DEF Sides
  <2> QED
    BY <2>1 DEF Ids
<1>5. UnsentIsFresh /\ PendingUntilSettled /\ ClosedMeansNonePending
  BY <1>4 DEF Init, UnsentIsFresh, PendingUntilSettled, ClosedMeansNonePending
<1>6. IncomingOK
  BY DEF Init, IncomingOK, IncomingIdsAreRunning
<1> QED
  BY <1>1, <1>2, <1>3, <1>5, <1>6 DEF IInv, OutgoingOK

\* Every step keeps it.
LEMMA SessionStep == IInv /\ [Next]_vars => IInv'
<1> SUFFICES ASSUME IInv, [Next]_vars PROVE IInv'
  OBVIOUS
<1>1. CASE UNCHANGED vars
  BY <1>1, LinkKept, OutgoingKept, IncomingKept DEF IInv, vars, link, WireOK
<1>2. CASE Progress
  BY <1>2, ReceiveRequestOK, ReceiveAnswerOK, ReceiveCancelledOK, ProgressMessagesOK,
     GiveUpOK, HandlerFinishesOK DEF Progress, Receive
<1>3. ASSUME NEW p \in Sides, Start(p) \/ Stop(p) PROVE IInv'
  BY <1>3, StartOK, StopOK
<1>4. ASSUME NEW p \in Sides, NEW m \in Sends[p], SendRequest(p, m) PROVE IInv'
  <2>1. m \in Methods
    BY BoundsAssumption
  <2> QED
    BY <1>4, <2>1, SendRequestOK
<1> QED
  BY <1>1, <1>2, <1>3, <1>4 DEF Next

\* IInv holds in every reachable state.
THEOREM SessionInvariant == Spec => []IInv
BY SessionInit, SessionStep, PTL DEF Spec

\* The variables keep their types; no id beyond the requests sent is ever used.
THEOREM SessionTypes == Spec => []TypeOK
<1>1. IInv => TypeOK
  BY DEF IInv, LinkOK, WireOK, OutgoingOK, OutgoingTypes, IncomingOK,
         IncomingIdsAreRunning, TypeOK
<1> QED
  BY <1>1, SessionInvariant, PTL

\* m_pending holds exactly the requests whose futures are open.
THEOREM PendingSettled == Spec => []PendingUntilSettled
<1>1. IInv => PendingUntilSettled
  BY DEF IInv, OutgoingOK
<1> QED
  BY <1>1, SessionInvariant, PTL

\* A closed transport leaves no request waiting.
THEOREM ClosedSettles == Spec => []ClosedMeansNonePending
<1>1. IInv => ClosedMeansNonePending
  BY DEF IInv, OutgoingOK
<1> QED
  BY <1>1, SessionInvariant, PTL

\* The two sets of incoming ids name running handlers and nothing else.
THEOREM IncomingRunning == Spec => []IncomingIdsAreRunning
<1>1. IInv => IncomingIdsAreRunning
  BY DEF IInv, IncomingOK
<1> QED
  BY <1>1, SessionInvariant, PTL

-----------------------------------------------------------------------------
(* What the messages on their way say *)

GaveUp(r) == Sent(r) /\ fate[r] \in Outcomes \ {"result", "error"}

\* A request on its way to p was sent and not received; an answer says what the callee
\* did; a cancellation is of a caller that has given up.
IsTrue(p, kind, i) ==
    LET theirs == <<Other(p), i>>
        mine   == <<p, i>>
    IN  /\ kind = "request" => /\ theirs \in Requests /\ Sent(theirs)
                               /\ theirs \notin running /\ answer[theirs] = "none"
        /\ kind \in {"result", "error"} =>
                /\ mine \in Requests /\ mine \notin running /\ answer[mine] = kind
        /\ kind = "cancelled" => theirs \in Requests /\ GaveUp(theirs)

MessageIsTrue(p, m) == IsTrue(p, m.kind, m.id)

RequestsOnce(w) ==
    \A p \in Sides : \A j, k \in 1..Len(w[p]) :
        w[p][j].kind = "request" /\ w[p][k] = w[p][j] => j = k

WireIsTrue ==
    /\ \A p \in Sides : \A k \in 1..Len(wire[p]) : MessageIsTrue(p, wire[p][k])
    /\ RequestsOnce(wire)

\* What runs or is answered was sent, runs before it is answered, and is kept quiet only
\* where the caller has given up.
CalleesAreTrue ==
    /\ \A r \in running : Sent(r) /\ answer[r] = "none"
    /\ \A r \in Requests : answer[r] # "none" => Sent(r)
    /\ \A r \in cancelled : GaveUp(r)

\* What the refinement needs of the state.
ContractIInv == IInv /\ WireIsTrue /\ CalleesAreTrue

Kinds == {"request", "result", "error", "cancelled", "progress"}

\* The queues w2 are those of w, with at most one message more for q.
AtMostPosted(w2, w, q, kind, i) ==
    \A s \in Sides : \A k \in 1..Len(w2[s]) :
        \/ k \in 1..Len(w[s]) /\ w2[s][k] = w[s][k]
        \/ s = q /\ k = Len(w[s]) + 1 /\ w2[s][k].kind = kind /\ w2[s][k].id = i

\* The queues w2 are those of w without the first message of p.
FirstTaken(w2, w, p) ==
    \A s \in Sides : \A k \in 1..Len(w2[s]) :
        \/ s = p /\ k + 1 \in 1..Len(w[s]) /\ w2[s][k] = w[s][k + 1]
        \/ s # p /\ k \in 1..Len(w[s]) /\ w2[s][k] = w[s][k]

\* PipeTransport::send posts at most one message.
LEMMA CarryCases ==
    ASSUME NEW w \in [Sides -> Seq(Message)], NEW o, NEW p \in Sides,
           NEW kind \in Kinds, NEW i \in Ids
    PROVE  AtMostPosted(Carry(w, o, p, kind, i), w, Other(p), kind, i)
<1> DEFINE msg == [kind |-> kind, id |-> i]
           q == Other(p)
           w2 == [w EXCEPT ![q] = Append(w[q], msg)]
<1>1. q \in Sides /\ msg \in Message /\ w[q] \in Seq(Message)
  BY OtherSide DEF Message, Kinds
<1>2. msg.kind = kind /\ msg.id = i
  OBVIOUS
<1> HIDE DEF msg, q
<1>3. AtMostPosted(w, w, q, kind, i)
  BY DEF AtMostPosted
<1>4. AtMostPosted(w2, w, q, kind, i)
  <2> SUFFICES ASSUME NEW s \in Sides, NEW k \in 1..Len(w2[s])
               PROVE  \/ k \in 1..Len(w[s]) /\ w2[s][k] = w[s][k]
                      \/ /\ s = q /\ k = Len(w[s]) + 1
                         /\ w2[s][k].kind = kind /\ w2[s][k].id = i
    BY DEF AtMostPosted
  <2>1. CASE s = q
    <3>1. w2[s] = Append(w[s], msg)
      BY <1>1, <2>1
    <3>2. k \in 1..Len(w[s]) + 1
      BY <1>1, <2>1, <3>1
    <3>3. Append(w[s], msg)[k] = IF k = Len(w[s]) + 1 THEN msg ELSE w[s][k]
      BY <1>1, <2>1, <3>2
    <3> QED
      BY <1>1, <1>2, <2>1, <3>1, <3>2, <3>3
  <2>2. CASE s # q
    BY <1>1, <2>2
  <2> QED
    BY <2>1, <2>2
<1> QED
  BY <1>3, <1>4 DEF Carry, msg, q

LEMMA TakenCases ==
    ASSUME NEW p \in Sides, wire \in [Sides -> Seq(Message)], wire[p] # << >>
    PROVE  FirstTaken(Taken(p), wire, p)
<1> SUFFICES ASSUME NEW s \in Sides, NEW k \in 1..Len(Taken(p)[s])
             PROVE  \/ s = p /\ k + 1 \in 1..Len(wire[s]) /\ Taken(p)[s][k] = wire[s][k + 1]
                    \/ s # p /\ k \in 1..Len(wire[s]) /\ Taken(p)[s][k] = wire[s][k]
  BY DEF FirstTaken
<1>1. wire[s] \in Seq(Message) /\ wire[p] \in Seq(Message)
  OBVIOUS
<1>2. CASE s = p
  <2>1. Taken(p)[s] = Tail(wire[s])
    BY <1>2 DEF Taken
  <2> QED
    BY <1>1, <1>2, <2>1
<1>3. CASE s # p
  <2>1. Taken(p)[s] = wire[s]
    BY <1>3 DEF Taken
  <2> QED
    BY <1>3, <2>1
<1> QED
  BY <1>2, <1>3

\* No request is doubled by taking a message or by posting one that is not there.
LEMMA TakenOnce ==
    ASSUME NEW w, NEW w2, NEW p \in Sides, FirstTaken(w2, w, p), RequestsOnce(w),
           w2 \in [Sides -> Seq(Message)]
    PROVE  RequestsOnce(w2)
<1> SUFFICES ASSUME NEW s \in Sides, NEW j \in 1..Len(w2[s]), NEW k \in 1..Len(w2[s]),
                    w2[s][j].kind = "request", w2[s][k] = w2[s][j]
             PROVE  j = k
  BY DEF RequestsOnce
<1>1. j \in Nat /\ k \in Nat
  OBVIOUS
<1>2. CASE s = p
  <2>1. j + 1 = k + 1
    BY <1>2 DEF RequestsOnce, FirstTaken
  <2> QED
    BY <1>1, <2>1
<1>3. CASE s # p
  BY <1>3 DEF RequestsOnce, FirstTaken
<1> QED
  BY <1>2, <1>3

NoRequest(q, i) ==
    \A k \in 1..Len(q) : q[k].kind = "request" => q[k].id # i

LEMMA CarryOnce ==
    ASSUME NEW w, NEW w2, NEW q \in Sides, NEW kind, NEW i,
           AtMostPosted(w2, w, q, kind, i), RequestsOnce(w),
           kind = "request" => NoRequest(w[q], i)
    PROVE  RequestsOnce(w2)
BY DEF RequestsOnce, AtMostPosted, NoRequest

-----------------------------------------------------------------------------
(* Steps of the callers *)

\* A step that leaves the callees alone keeps the messages true if those it posts are.
LEMMA CallerKeeps ==
    ASSUME ContractIInv, UNCHANGED <<running, answer>>,
           \A r \in Requests : (Sent(r) => Sent(r)') /\ (GaveUp(r) => GaveUp(r)'),
           \A p \in Sides : \A k \in 1..Len(wire'[p]) :
               \/ \E j \in 1..Len(wire[p]) : wire'[p][k] = wire[p][j]
               \/ MessageIsTrue(p, wire[p][k])',
           RequestsOnce(wire)',
           \A r \in cancelled' : r \in cancelled \/ GaveUp(r)'
    PROVE  WireIsTrue' /\ CalleesAreTrue'
<1>1. cancelled \subseteq Requests /\ running \subseteq Requests
  BY DEF ContractIInv, IInv, IncomingOK, IncomingIdsAreRunning
<1>2. CalleesAreTrue'
  BY <1>1 DEF ContractIInv, CalleesAreTrue
<1>3. ASSUME NEW p \in Sides, NEW k \in 1..Len(wire'[p])
      PROVE  MessageIsTrue(p, wire[p][k])'
  <2>1. CASE \E j \in 1..Len(wire[p]) : wire'[p][k] = wire[p][j]
    <3>1. PICK j \in 1..Len(wire[p]) : wire'[p][k] = wire[p][j]
      BY <2>1
    <3>2. MessageIsTrue(p, wire[p][j])
      BY DEF ContractIInv, WireIsTrue
    <3>3. MessageIsTrue(p, wire'[p][k])
      BY <3>1, <3>2
    <3> QED
      BY <3>3 DEF MessageIsTrue, IsTrue
  <2> QED
    BY <1>3, <2>1
<1> QED
  BY <1>2, <1>3 DEF WireIsTrue, RequestsOnce

\* Starts, stops, and sends that fail: nothing is posted.
LEMMA QuietStepTrue ==
    ASSUME ContractIInv, UNCHANGED <<wire, incoming>>,
           \A r \in Requests : (Sent(r) => Sent(r)') /\ (GaveUp(r) => GaveUp(r)')
    PROVE  WireIsTrue' /\ CalleesAreTrue'
<1>1. RequestsOnce(wire)' /\ UNCHANGED <<running, answer, cancelled>>
  BY DEF ContractIInv, WireIsTrue, incoming
<1> QED
  BY <1>1, CallerKeeps

\* An id that is not sent yet: nothing runs under it, nothing is said of it.
LEMMA UnsentUnknown ==
    ASSUME ContractIInv, NEW r \in Requests, ~Sent(r)
    PROVE  /\ r \notin running /\ answer[r] = "none"
           /\ NoRequest(wire[Callee(r)], r[2])
<1>1. r \notin running /\ answer[r] = "none"
  BY DEF ContractIInv, CalleesAreTrue
<1>2. ASSUME NEW k \in 1..Len(wire[Callee(r)]), wire[Callee(r)][k].kind = "request",
             wire[Callee(r)][k].id = r[2]
      PROVE  FALSE
  <2>1. MessageIsTrue(Callee(r), wire[Callee(r)][k])
    BY RequestParts DEF ContractIInv, WireIsTrue
  <2>2. <<Other(Callee(r)), wire[Callee(r)][k].id>> = r
    BY <1>2, RequestParts
  <2> QED
    BY <1>2, <2>1, <2>2 DEF MessageIsTrue, IsTrue
<1> QED
  BY <1>1, <1>2 DEF NoRequest

\* A caller posts a request or a cancellation.
LEMMA CallerPosts ==
    ASSUME ContractIInv, UNCHANGED incoming,
           \A r \in Requests : (Sent(r) => Sent(r)') /\ (GaveUp(r) => GaveUp(r)'),
           NEW o, NEW p \in Sides, NEW kind \in Kinds, NEW i \in Ids,
           wire' = Carry(wire, o, p, kind, i), IsTrue(Other(p), kind, i)',
           kind = "request" => NoRequest(wire[Other(p)], i)
    PROVE  WireIsTrue' /\ CalleesAreTrue'
<1>1. wire \in [Sides -> Seq(Message)] /\ RequestsOnce(wire)
  BY DEF ContractIInv, WireIsTrue, IInv, WireOK
<1>2. AtMostPosted(wire', wire, Other(p), kind, i) /\ Other(p) \in Sides
  BY <1>1, CarryCases, OtherSide
<1>3. \A s \in Sides : \A k \in 1..Len(wire'[s]) :
          \/ \E j \in 1..Len(wire[s]) : wire'[s][k] = wire[s][j]
          \/ MessageIsTrue(s, wire[s][k])'
  BY <1>2 DEF AtMostPosted, MessageIsTrue
<1>4. RequestsOnce(wire)'
  <2>1. RequestsOnce(wire')
    BY <1>1, <1>2, CarryOnce
  <2> QED
    BY <2>1 DEF RequestsOnce
<1>5. UNCHANGED <<running, answer, cancelled>>
  BY DEF incoming
<1> QED
  BY <1>3, <1>4, <1>5, CallerKeeps

\* A caller takes a message.
LEMMA CallerTakes ==
    ASSUME ContractIInv, UNCHANGED <<running, answer>>, NEW p \in Sides,
           wire[p] # << >>, wire' = Taken(p),
           \A r \in Requests : (Sent(r) => Sent(r)') /\ (GaveUp(r) => GaveUp(r)'),
           \A r \in cancelled' : r \in cancelled \/ GaveUp(r)'
    PROVE  WireIsTrue' /\ CalleesAreTrue'
<1>1. wire \in [Sides -> Seq(Message)] /\ wire' \in [Sides -> Seq(Message)]
  BY TakenOK DEF ContractIInv, IInv, WireOK
<1>2. FirstTaken(wire', wire, p)
  BY <1>1, TakenCases
<1>3. \A s \in Sides : \A k \in 1..Len(wire'[s]) :
          \E j \in 1..Len(wire[s]) : wire'[s][k] = wire[s][j]
  BY <1>2 DEF FirstTaken
<1>4. RequestsOnce(wire)'
  <2>1. RequestsOnce(wire')
    BY <1>1, <1>2, TakenOnce DEF ContractIInv, WireIsTrue
  <2> QED
    BY <2>1 DEF RequestsOnce
<1> QED
  BY <1>3, <1>4, CallerKeeps

\* Sending a request posts it once: nothing was known of its id.
LEMMA DispatchTrue ==
    ASSUME ContractIInv, NEW p \in Sides, NEW m, NEW o, Dispatch(p, o, m),
           UNCHANGED incoming
    PROVE  WireIsTrue' /\ CalleesAreTrue'
<1>1. /\ nextId[p] \in Ids /\ <<p, nextId[p]>> \in Requests /\ ~Sent(<<p, nextId[p]>>)
      /\ \A r \in Requests : Sent(r)' <=> Sent(r) \/ r = <<p, nextId[p]>>
  BY DispatchIsNew DEF ContractIInv, IInv
<1>2. PICK i \in Ids : i = nextId[p]
  BY <1>1
<1> DEFINE r0 == <<p, i>>
<1>3. Callee(r0) = Other(p) /\ r0[2] = i /\ Other(Other(p)) = p
  BY OtherSide DEF Callee
<1>4. r0 \notin running /\ answer[r0] = "none" /\ NoRequest(wire[Callee(r0)], r0[2])
  BY <1>1, <1>2, UnsentUnknown
<1>5. /\ wire' = Carry(wire, o, p, "request", i) /\ fate' = fate
      /\ running' = running /\ answer' = answer
  BY <1>2 DEF Dispatch, incoming
<1>6. \A r \in Requests : (Sent(r) => Sent(r)') /\ (GaveUp(r) => GaveUp(r)')
  BY <1>1, <1>5 DEF GaveUp
<1>7. IsTrue(Other(p), "request", i)'
  BY <1>1, <1>2, <1>3, <1>4, <1>5 DEF IsTrue
<1>8. NoRequest(wire[Other(p)], i)
  BY <1>3, <1>4
<1>9. "request" \in Kinds
  BY DEF Kinds
<1> QED
  BY <1>5, <1>6, <1>7, <1>8, <1>9, CallerPosts

\* Ending requests other than by an answer counts as giving them up.
LEMMA SettleLasts ==
    ASSUME OutgoingOK, NEW R, NEW outcome \in Outcomes, Settle(R, outcome),
           UNCHANGED nextId
    PROVE  /\ \A r \in Requests : (Sent(r) => Sent(r)') /\ (GaveUp(r) => GaveUp(r)')
           /\ outcome \notin {"result", "error"} =>
                  \A r \in Requests \cap R \cap pending : GaveUp(r)'
<1>1. \A r \in Requests : fate'[r] = IF r \in R \cap pending THEN outcome ELSE fate[r]
  BY DEF Settle
<1>2. \A r \in Requests : Sent(r) <=> Sent(r)'
  BY DEF Sent
<1>3. \A r \in Requests : r \in pending <=> Sent(r) /\ fate[r] = "none"
  BY DEF OutgoingOK, PendingUntilSettled
<1>4. "none" \notin Outcomes
  BY DEF Outcomes
<1> QED
  BY <1>1, <1>2, <1>3, <1>4 DEF GaveUp

\* A timer that fires, a caller that cancels, a message that was not sent.
LEMMA GiveUpTrue ==
    ASSUME ContractIInv, NEW r \in Requests, Timeout(r) \/ CancelRequest(r) \/ SendFailed(r)
    PROVE  WireIsTrue' /\ CalleesAreTrue'
<1>1. PICK x \in Outcomes \ {"result", "error"} : Settle({r}, x)
  BY DEF Timeout, CancelRequest, SendFailed, Outcomes
<1>2. UNCHANGED <<nextId, incoming>> /\ r \in pending
  BY DEF Timeout, CancelRequest, SendFailed
<1>3. /\ \A s \in Requests : (Sent(s) => Sent(s)') /\ (GaveUp(s) => GaveUp(s)')
      /\ GaveUp(r)'
  BY <1>1, <1>2, SettleLasts DEF ContractIInv, IInv
<1>4. CASE wire' = wire
  BY <1>2, <1>3, <1>4, QuietStepTrue
<1>5. CASE wire' = Carry(wire, open, Caller(r), "cancelled", r[2])
  <2>1. /\ Caller(r) \in Sides /\ r[2] \in Ids /\ "cancelled" \in Kinds
        /\ Other(Other(Caller(r))) = Caller(r) /\ r = <<Caller(r), r[2]>>
    BY RequestParts, OtherSide DEF Kinds
  <2>2. IsTrue(Other(Caller(r)), "cancelled", r[2])'
    BY <1>3, <2>1 DEF IsTrue
  <2> QED
    BY <1>2, <1>3, <1>5, <2>1, <2>2, CallerPosts
<1> QED
  BY <1>4, <1>5 DEF Timeout, CancelRequest, SendFailed, Abandoned

\* The message a side takes next is as true as the others.
LEMMA HeadIsTrue ==
    ASSUME ContractIInv, NEW p \in Sides, wire[p] # << >>
    PROVE  /\ 1 \in 1..Len(wire[p]) /\ Head(wire[p]) = wire[p][1]
           /\ Head(wire[p]) \in Message
           /\ IsTrue(p, Head(wire[p]).kind, Head(wire[p]).id)
<1>1. wire[p] \in Seq(Message)
  BY DEF ContractIInv, IInv, WireOK
<1>2. 1 \in 1..Len(wire[p]) /\ Head(wire[p]) = wire[p][1] /\ Head(wire[p]) \in Message
  BY <1>1
<1>3. MessageIsTrue(p, wire[p][1])
  BY <1>2 DEF ContractIInv, WireIsTrue
<1> QED
  BY <1>2, <1>3 DEF MessageIsTrue

\* dispatchResponse: the callee is not concerned.
LEMMA ReceiveAnswerTrue ==
    ASSUME ContractIInv, NEW p \in Sides, ReceiveAnswer(p)
    PROVE  WireIsTrue' /\ CalleesAreTrue'
<1>1. PICK kind \in {"result", "error"} :
          /\ Arrives(p, kind)
          /\ Settle({<<p, Head(wire[p]).id>>} \cap pending, kind)
          /\ wire' = Taken(p)
          /\ UNCHANGED <<link, nextId, method, incoming>>
  BY DEF ReceiveAnswer
<1>2. \A r \in Requests : (Sent(r) => Sent(r)') /\ (GaveUp(r) => GaveUp(r)')
  BY <1>1, SettleLasts DEF ContractIInv, IInv, Outcomes
<1>3. UNCHANGED <<running, answer, cancelled>> /\ wire[p] # << >>
  BY <1>1 DEF incoming, Arrives
<1> QED
  BY <1>1, <1>2, <1>3, CallerTakes

\* A cancellation marks the request of a caller that has given up.
LEMMA ReceiveCancelledTrue ==
    ASSUME ContractIInv, NEW p \in Sides, ReceiveCancelled(p)
    PROVE  WireIsTrue' /\ CalleesAreTrue'
<1>1. /\ wire[p] # << >> /\ Head(wire[p]).kind = "cancelled"
      /\ cancelled' = cancelled \cup ({<<Other(p), Head(wire[p]).id>>} \cap inFlight)
      /\ Settle({<<p, Head(wire[p]).id>>} \cap pending, "cancelledByPeer")
      /\ wire' = Taken(p)
      /\ UNCHANGED <<nextId, running, answer>>
  BY DEF ReceiveCancelled, Arrives, Mark
<1>2. \A r \in Requests : (Sent(r) => Sent(r)') /\ (GaveUp(r) => GaveUp(r)')
  BY <1>1, SettleLasts DEF ContractIInv, IInv, Outcomes
<1>3. <<Other(p), Head(wire[p]).id>> \in Requests /\ GaveUp(<<Other(p), Head(wire[p]).id>>)
  BY <1>1, HeadIsTrue DEF IsTrue
<1>4. \A r \in cancelled' : r \in cancelled \/ GaveUp(r)'
  <2> PICK r0 \in Requests : r0 = <<Other(p), Head(wire[p]).id>>
    BY <1>3
  <2>1. GaveUp(r0)'
    BY <1>2, <1>3
  <2> QED
    BY <1>1, <2>1
<1> QED
  BY <1>1, <1>2, <1>4, CallerTakes

-----------------------------------------------------------------------------
(* Steps of the callees *)

\* A message that asks for a request, or answers it.
About(r, p, m) ==
    \/ m.kind = "request" /\ r = <<Other(p), m.id>>
    \/ m.kind \in {"result", "error"} /\ r = <<p, m.id>>

\* A step of the callee of one request keeps the messages about the others true.
LEMMA CalleeKeeps ==
    ASSUME ContractIInv, UNCHANGED outgoing, NEW r0,
           \A r \in Requests : r # r0 =>
               (r \in running' <=> r \in running) /\ answer'[r] = answer[r],
           \A p \in Sides : \A k \in 1..Len(wire'[p]) :
               \/ \E j \in 1..Len(wire[p]) :
                      wire'[p][k] = wire[p][j] /\ ~About(r0, p, wire[p][j])
               \/ MessageIsTrue(p, wire[p][k])',
           RequestsOnce(wire)'
    PROVE  WireIsTrue'
<1>1. \A r \in Requests : (Sent(r) <=> Sent(r)') /\ (GaveUp(r) <=> GaveUp(r)')
  BY DEF outgoing, Sent, GaveUp
<1>2. ASSUME NEW p \in Sides, NEW k \in 1..Len(wire'[p])
      PROVE  MessageIsTrue(p, wire[p][k])'
  <2>1. CASE \E j \in 1..Len(wire[p]) :
                 wire'[p][k] = wire[p][j] /\ ~About(r0, p, wire[p][j])
    <3>1. PICK j \in 1..Len(wire[p]) :
                 wire'[p][k] = wire[p][j] /\ ~About(r0, p, wire[p][j])
      BY <2>1
    <3>2. MessageIsTrue(p, wire[p][j])
      BY DEF ContractIInv, WireIsTrue
    <3>3. MessageIsTrue(p, wire'[p][k]) /\ ~About(r0, p, wire'[p][k])
      BY <3>1, <3>2
    <3> QED
      BY <1>1, <3>3 DEF MessageIsTrue, IsTrue, About
  <2> QED
    BY <1>2, <2>1
<1> QED
  BY <1>2 DEF WireIsTrue, RequestsOnce

\* A callee may post the answer, to the queues or to what it left of them.
LEMMA CalleePosts ==
    ASSUME ContractIInv, UNCHANGED outgoing, NEW r0 \in Requests,
           \A r \in Requests : r # r0 =>
               (r \in running' <=> r \in running) /\ answer'[r] = answer[r],
           NEW w \in [Sides -> Seq(Message)], RequestsOnce(w),
           \A p \in Sides : \A k \in 1..Len(w[p]) :
               \E j \in 1..Len(wire[p]) : w[p][k] = wire[p][j] /\ ~About(r0, p, wire[p][j]),
           NEW kind \in {"result", "error"},
           \/ wire' = w
           \/ /\ wire' = Carry(w, open, Callee(r0), kind, r0[2])
              /\ r0 \notin running' /\ answer'[r0] = kind
    PROVE  WireIsTrue'
<1>1. /\ Callee(r0) \in Sides /\ Other(Callee(r0)) = Caller(r0) /\ Caller(r0) \in Sides
      /\ r0 = <<Caller(r0), r0[2]>> /\ kind \in Kinds /\ r0[2] \in Ids
  BY RequestParts DEF Kinds
<1>2. CASE wire' = w
  <2>1. RequestsOnce(wire)'
    BY <1>2 DEF RequestsOnce
  <2> QED
    BY <1>2, <2>1, CalleeKeeps
<1>3. CASE /\ wire' = Carry(w, open, Callee(r0), kind, r0[2])
           /\ r0 \notin running' /\ answer'[r0] = kind
  <2>1. AtMostPosted(wire', w, Caller(r0), kind, r0[2])
    BY <1>1, <1>3, CarryCases
  <2>2. IsTrue(Caller(r0), kind, r0[2])'
    BY <1>1, <1>3 DEF IsTrue
  <2>3. \A p \in Sides : \A k \in 1..Len(wire'[p]) :
            \/ \E j \in 1..Len(wire[p]) :
                   wire'[p][k] = wire[p][j] /\ ~About(r0, p, wire[p][j])
            \/ MessageIsTrue(p, wire[p][k])'
    BY <2>1, <2>2 DEF AtMostPosted, MessageIsTrue
  <2>4. RequestsOnce(wire)'
    <3>1. RequestsOnce(wire')
      BY <1>1, <2>1, CarryOnce
    <3> QED
      BY <3>1 DEF RequestsOnce
  <2> QED
    BY <2>3, <2>4, CalleeKeeps
<1> QED
  BY <1>2, <1>3

\* dispatchRequest: the request is taken once, so nothing else asks for it.
LEMMA ReceiveRequestTrue ==
    ASSUME ContractIInv, NEW p \in Sides, ReceiveRequest(p)
    PROVE  WireIsTrue' /\ CalleesAreTrue'
<1>1. wire[p] # << >> /\ Head(wire[p]).kind = "request"
  BY DEF ReceiveRequest, Arrives
<1>2. PICK r0 \in Requests : r0 = <<Other(p), Head(wire[p]).id>>
  BY <1>1, HeadIsTrue DEF IsTrue
<1>3. /\ Sent(r0) /\ r0 \notin running /\ answer[r0] = "none"
      /\ Callee(r0) = p /\ r0[2] = Head(wire[p]).id
  BY <1>1, <1>2, HeadIsTrue, OtherSide DEF IsTrue, Callee
<1>4. /\ Taken(p) \in [Sides -> Seq(Message)] /\ FirstTaken(Taken(p), wire, p)
      /\ RequestsOnce(Taken(p))
  BY <1>1, TakenOK, TakenCases, TakenOnce DEF ContractIInv, IInv, WireOK, WireIsTrue
<1>5. ASSUME NEW s \in Sides, NEW k \in 1..Len(Taken(p)[s])
      PROVE  \E j \in 1..Len(wire[s]) :
                 Taken(p)[s][k] = wire[s][j] /\ ~About(r0, s, wire[s][j])
  <2>1. PICK j \in 1..Len(wire[s]) : Taken(p)[s][k] = wire[s][j] /\ (s = p => j = k + 1)
    BY <1>4 DEF FirstTaken
  <2>2. MessageIsTrue(s, wire[s][j])
    BY DEF ContractIInv, WireIsTrue
  <2>3. ~(wire[s][j].kind \in {"result", "error"} /\ r0 = <<s, wire[s][j].id>>)
    BY <1>3, <2>2 DEF MessageIsTrue, IsTrue
  <2>4. ~(wire[s][j].kind = "request" /\ r0 = <<Other(s), wire[s][j].id>>)
    <3> SUFFICES ASSUME wire[s][j].kind = "request", r0 = <<Other(s), wire[s][j].id>>
                 PROVE  FALSE
      OBVIOUS
    <3>1. s = p /\ wire[s][j].id = Head(wire[p]).id
      BY <1>2, OtherSide
    <3>2. wire[s][j] \in Message /\ wire[p][1] \in Message /\ wire[p][1] = Head(wire[p])
          /\ 1 \in 1..Len(wire[p]) /\ k \in Nat
      BY <1>1, HeadIsTrue DEF ContractIInv, IInv, WireOK
    <3>3. wire[s][j] = wire[p][1]
      BY <1>1, <3>1, <3>2 DEF Message
    <3>4. j = 1
      BY <1>1, <3>1, <3>2, <3>3 DEF ContractIInv, WireIsTrue, RequestsOnce
    <3> QED
      BY <2>1, <3>1, <3>2, <3>4
  <2> QED
    BY <2>1, <2>3, <2>4 DEF About
<1>6. /\ UNCHANGED outgoing
      /\ \/ running' = running \cup {r0} /\ wire' = Taken(p) /\ answer' = answer
         \/ /\ answer' = [answer EXCEPT ![r0] = "error"]
            /\ wire' = Carry(Taken(p), open, p, "error", r0[2])
            /\ running' = running
      /\ cancelled' = cancelled
  BY <1>2 DEF ReceiveRequest, Accept, Refuse
<1>7. \A r \in Requests : /\ r # r0 => (r \in running' <=> r \in running)
                                       /\ answer'[r] = answer[r]
                          /\ (Sent(r) <=> Sent(r)') /\ (GaveUp(r) <=> GaveUp(r)')
  BY <1>6 DEF ContractIInv, IInv, IncomingOK, outgoing, Sent, GaveUp
<1>8. \/ wire' = Taken(p)
      \/ /\ wire' = Carry(Taken(p), open, Callee(r0), "error", r0[2])
         /\ r0 \notin running' /\ answer'[r0] = "error"
  BY <1>3, <1>6 DEF ContractIInv, IInv, IncomingOK
<1>9. WireIsTrue'
  <2>1. PICK w \in [Sides -> Seq(Message)] : w = Taken(p)
    BY <1>4
  <2>2. \A s \in Sides : \A k \in 1..Len(w[s]) :
            \E j \in 1..Len(wire[s]) : w[s][k] = wire[s][j] /\ ~About(r0, s, wire[s][j])
    BY <1>5, <2>1
  <2>3. PICK kind \in {"result", "error"} :
            \/ wire' = w
            \/ /\ wire' = Carry(w, open, Callee(r0), kind, r0[2])
               /\ r0 \notin running' /\ answer'[r0] = kind
    BY <1>8, <2>1
  <2>4. RequestsOnce(w) /\ UNCHANGED outgoing
    BY <1>4, <1>6, <2>1
  <2>5. \A r \in Requests : r # r0 =>
            (r \in running' <=> r \in running) /\ answer'[r] = answer[r]
    BY <1>7
  <2> QED
    BY <2>2, <2>3, <2>4, <2>5, CalleePosts
<1>10. CalleesAreTrue'
  BY <1>3, <1>6, <1>7
  DEF ContractIInv, IInv, IncomingOK, IncomingIdsAreRunning, CalleesAreTrue
<1> QED
  BY <1>9, <1>10

\* The watcher's slot: while the handler ran nothing asked for it or answered it.
LEMMA HandlerFinishesTrue ==
    ASSUME ContractIInv, NEW r0 \in Requests, HandlerFinishes(r0)
    PROVE  WireIsTrue' /\ CalleesAreTrue'
<1>1. PICK kind \in {"result", "error"} : Answered(r0, kind)
  BY DEF HandlerFinishes
<1>2. r0 \in running /\ running' = running \ {r0} /\ UNCHANGED outgoing
  BY DEF HandlerFinishes
<1>3. /\ cancelled' = cancelled \ {r0}
      /\ answer' = [answer EXCEPT ![r0] = IF r0 \in cancelled THEN "silent" ELSE kind]
      /\ \/ wire' = wire
         \/ r0 \notin cancelled /\ wire' = Carry(wire, open, Callee(r0), kind, r0[2])
  BY <1>1 DEF Answered
<1>4. \A r \in Requests : /\ r # r0 => (r \in running' <=> r \in running)
                                       /\ answer'[r] = answer[r]
                          /\ (Sent(r) <=> Sent(r)') /\ (GaveUp(r) <=> GaveUp(r)')
  BY <1>2, <1>3 DEF ContractIInv, IInv, IncomingOK, outgoing, Sent, GaveUp
<1>5. ASSUME NEW s \in Sides, NEW k \in 1..Len(wire[s])
      PROVE  ~About(r0, s, wire[s][k])
  <2>1. MessageIsTrue(s, wire[s][k])
    BY DEF ContractIInv, WireIsTrue
  <2> QED
    BY <1>2, <2>1 DEF MessageIsTrue, IsTrue, About
<1>6. wire \in [Sides -> Seq(Message)] /\ RequestsOnce(wire)
  BY DEF ContractIInv, WireIsTrue, IInv, WireOK
<1>7. \/ wire' = wire
      \/ /\ wire' = Carry(wire, open, Callee(r0), kind, r0[2])
         /\ r0 \notin running' /\ answer'[r0] = kind
  BY <1>2, <1>3 DEF ContractIInv, IInv, IncomingOK
<1>8. WireIsTrue'
  BY <1>2, <1>4, <1>5, <1>6, <1>7, CalleePosts
<1>9. CalleesAreTrue'
  BY <1>2, <1>3, <1>4
  DEF ContractIInv, IInv, IncomingOK, IncomingIdsAreRunning, CalleesAreTrue
<1> QED
  BY <1>8, <1>9

\* Reports of progress say nothing of either end.
LEMMA ProgressTrue ==
    ASSUME ContractIInv, \/ \E r \in Requests : SendProgress(r)
                         \/ \E p \in Sides : ReceiveProgress(p)
    PROVE  WireIsTrue' /\ CalleesAreTrue'
<1>1. UNCHANGED <<outgoing, incoming>>
  BY DEF SendProgress, ReceiveProgress
<1>2. /\ \A r \in Requests : (Sent(r) => Sent(r)') /\ (GaveUp(r) => GaveUp(r)')
      /\ UNCHANGED <<running, answer, cancelled>>
  BY <1>1 DEF outgoing, incoming, Sent, GaveUp
<1>3. ASSUME NEW r \in Requests, SendProgress(r)
      PROVE  WireIsTrue' /\ CalleesAreTrue'
  <2>1. /\ wire' = Carry(wire, open, Callee(r), "progress", r[2])
        /\ Callee(r) \in Sides /\ r[2] \in Ids /\ "progress" \in Kinds
    BY <1>3, RequestParts DEF SendProgress, Kinds
  <2>2. IsTrue(Other(Callee(r)), "progress", r[2])'
    BY DEF IsTrue
  <2> QED
    BY <1>1, <1>2, <2>1, <2>2, CallerPosts
<1>4. ASSUME NEW p \in Sides, ReceiveProgress(p)
      PROVE  WireIsTrue' /\ CalleesAreTrue'
  <2>1. wire[p] # << >> /\ wire' = Taken(p)
    BY <1>4 DEF ReceiveProgress, Arrives
  <2> QED
    BY <1>2, <2>1, CallerTakes
<1> QED
  BY <1>3, <1>4

-----------------------------------------------------------------------------
(* The contract's invariant is kept *)

\* Messages tell the truth, ids are asked for once, and only given-up work is silent.
LEMMA ContractInit == Init => ContractIInv
<1> SUFFICES ASSUME Init PROVE ContractIInv
  OBVIOUS
<1>1. IInv
  BY SessionInit
<1>2. WireIsTrue
  BY DEF Init, WireIsTrue, RequestsOnce
<1>3. CalleesAreTrue
  BY DEF Init, CalleesAreTrue
<1> QED
  BY <1>1, <1>2, <1>3 DEF ContractIInv

LEMMA ContractKept == ContractIInv /\ [Next]_vars => ContractIInv'
<1> SUFFICES ASSUME ContractIInv, [Next]_vars PROVE ContractIInv'
  OBVIOUS
<1>1. IInv'
  BY SessionStep DEF ContractIInv
<1>2. WireIsTrue' /\ CalleesAreTrue'
  <2>1. CASE UNCHANGED vars
    <3>1. UNCHANGED <<wire, incoming>> /\ UNCHANGED <<nextId, fate>>
      BY <2>1 DEF vars, outgoing
    <3> QED
      BY <3>1, QuietStepTrue DEF Sent, GaveUp
  <2>2. ASSUME NEW p \in Sides, Start(p) \/ Stop(p)
        PROVE  WireIsTrue' /\ CalleesAreTrue'
    <3>1. UNCHANGED <<wire, incoming>> /\ nextId' = nextId
      BY <2>2 DEF Start, Stop, outgoing
    <3>2. \A r \in Requests : fate'[r] = fate[r] \/ (r \in pending /\ fate'[r] = "transport")
      BY <2>2 DEF Start, Stop, StopSettles, outgoing
    <3>3. \A r \in pending : r \in Requests /\ fate[r] = "none"
      BY DEF ContractIInv, IInv, OutgoingOK, OutgoingTypes, PendingUntilSettled
    <3>4. \A r \in Requests : (Sent(r) => Sent(r)') /\ (GaveUp(r) => GaveUp(r)')
      BY <3>1, <3>2, <3>3 DEF Sent, GaveUp, Outcomes
    <3> QED
      BY <3>1, <3>4, QuietStepTrue
  <2>3. ASSUME NEW p \in Sides, NEW m \in Sends[p], SendRequest(p, m)
        PROVE  WireIsTrue' /\ CalleesAreTrue'
    BY <2>3, DispatchTrue DEF SendRequest
  <2>4. ASSUME NEW p \in Sides, Receive(p) PROVE WireIsTrue' /\ CalleesAreTrue'
    BY <2>4, ReceiveRequestTrue, ReceiveAnswerTrue, ReceiveCancelledTrue, ProgressTrue
    DEF Receive
  <2>5. ASSUME NEW r \in Requests, \/ Timeout(r) \/ CancelRequest(r) \/ SendFailed(r)
                                   \/ HandlerFinishes(r) \/ SendProgress(r)
        PROVE  WireIsTrue' /\ CalleesAreTrue'
    BY <2>5, GiveUpTrue, HandlerFinishesTrue, ProgressTrue
  <2> QED
    BY <2>1, <2>2, <2>3, <2>4, <2>5 DEF Next, Progress
<1> QED
  BY <1>1, <1>2 DEF ContractIInv

\* What is on its way is true of the two ends, whatever is lost, late or given up.
THEOREM MessagesAreTrue == Spec => []ContractIInv
BY ContractInit, ContractKept, PTL DEF Spec

-----------------------------------------------------------------------------
(* The sessions implement AtMostOnceCall *)

\* What the caller knows, where the books are balanced.
LEMMA KnowsIs ==
    ASSUME OutgoingOK, NEW r \in Requests
    PROVE  /\ Knows(r) = "idle" <=> ~Sent(r)
           /\ Knows(r) = "waiting" <=> r \in pending
           /\ Sent(r) /\ r \notin pending /\ fate[r] \in {"result", "error"} => Knows(r) = fate[r]
           /\ Sent(r) /\ r \notin pending /\ fate[r] \notin {"result", "error"}
                  => Knows(r) = "failed"
<1>1. r \in pending <=> Sent(r) /\ fate[r] = "none"
  BY DEF OutgoingOK, PendingUntilSettled
<1>2. CASE ~Sent(r)
  BY <1>1, <1>2 DEF Knows
<1>3. CASE Sent(r) /\ r \in pending
  BY <1>1, <1>3 DEF Knows
<1>4. CASE Sent(r) /\ r \notin pending /\ fate[r] \in {"result", "error"}
  BY <1>1, <1>4 DEF Knows
<1>5. CASE Sent(r) /\ r \notin pending /\ fate[r] \notin {"result", "error"}
  BY <1>1, <1>5 DEF Knows
<1> QED
  BY <1>1, <1>2, <1>3, <1>4, <1>5

\* A step that only lets callers give up, or changes nothing the contract speaks of.
LEMMA MapsToFail ==
    ASSUME \A r \in Requests : \/ Knows(r)' = Knows(r)
                               \/ Knows(r) = "waiting" /\ Knows(r)' = "failed",
           \A r \in Requests : Does(r)' = Does(r)
    PROVE  Contract!Next
<1> DEFINE R == {r \in Requests : Knows(r)' # Knows(r)}
<1>1. [r \in Requests |-> Does(r)]' = [r \in Requests |-> Does(r)]
  OBVIOUS
<1>2. [r \in Requests |-> Knows(r)]'
        = [r \in Requests |-> IF r \in R THEN "failed" ELSE [s \in Requests |-> Knows(s)][r]]
  OBVIOUS
<1>3. \A r \in R : [s \in Requests |-> Knows(s)][r] = "waiting"
  OBVIOUS
<1>4. R \in SUBSET Requests
  OBVIOUS
<1>5. Contract!Fail(R)
  BY <1>1, <1>2, <1>3 DEF Contract!Fail
<1> HIDE DEF R
<1> QED
  BY <1>4, <1>5 DEF Contract!Next

\* A step that changes what one caller knows.
LEMMA MapsToCaller ==
    ASSUME NEW r0 \in Requests,
           \A r \in Requests : r # r0 => Knows(r)' = Knows(r),
           \A r \in Requests : Does(r)' = Does(r),
           \/ Knows(r0) = "idle" /\ Knows(r0)' = "waiting"
           \/ /\ Knows(r0) = "waiting" /\ Does(r0) \in {"result", "error"}
              /\ Knows(r0)' = Does(r0)
    PROVE  Contract!Next
<1>1. [r \in Requests |-> Does(r)]' = [r \in Requests |-> Does(r)]
  OBVIOUS
<1>2. [r \in Requests |-> Knows(r)]'
        = [[r \in Requests |-> Knows(r)] EXCEPT ![r0] = Knows(r0)']
  OBVIOUS
<1>3. CASE Knows(r0) = "idle" /\ Knows(r0)' = "waiting"
  BY <1>1, <1>2, <1>3 DEF Contract!Next, Contract!Issue
<1>4. CASE Knows(r0) = "waiting" /\ Does(r0) \in {"result", "error"} /\ Knows(r0)' = Does(r0)
  BY <1>1, <1>2, <1>4 DEF Contract!Next, Contract!Return
<1> QED
  BY <1>3, <1>4

\* A step that changes what one callee does.
LEMMA MapsToCallee ==
    ASSUME NEW r0 \in Requests,
           \A r \in Requests : Knows(r)' = Knows(r),
           \A r \in Requests : r # r0 => Does(r)' = Does(r),
           \/ Knows(r0) # "idle" /\ Does(r0) = "none" /\ Does(r0)' \in {"running", "error"}
           \/ Does(r0) = "running" /\ Does(r0)' \in {"result", "error"}
           \/ Does(r0) = "running" /\ Knows(r0) = "failed" /\ Does(r0)' = "silent"
    PROVE  Contract!Next
<1>1. [r \in Requests |-> Knows(r)]' = [r \in Requests |-> Knows(r)]
  OBVIOUS
<1>2. [r \in Requests |-> Does(r)]'
        = [[r \in Requests |-> Does(r)] EXCEPT ![r0] = Does(r0)']
  OBVIOUS
<1>3. CASE Knows(r0) # "idle" /\ Does(r0) = "none" /\ Does(r0)' \in {"running", "error"}
  <2>1. Contract!Accept(r0)
    BY <1>1, <1>2, <1>3 DEF Contract!Accept
  <2> QED
    BY <2>1 DEF Contract!Next
<1>4. CASE \/ Does(r0) = "running" /\ Does(r0)' \in {"result", "error"}
           \/ Does(r0) = "running" /\ Knows(r0) = "failed" /\ Does(r0)' = "silent"
  <2>1. Contract!Finish(r0)
    BY <1>1, <1>2, <1>4 DEF Contract!Finish
  <2> QED
    BY <2>1 DEF Contract!Next
<1> QED
  BY <1>3, <1>4

\* Callees are not concerned by a step that keeps their variables.
LEMMA DoesSame ==
    ASSUME UNCHANGED <<running, answer>>
    PROVE  \A r \in Requests : Does(r)' = Does(r)
BY DEF Does

LEMMA KnowsSame ==
    ASSUME UNCHANGED <<nextId, pending, fate>>
    PROVE  \A r \in Requests : Knows(r)' = Knows(r)
BY DEF Knows, Sent

\* Requests that end without an answer fail for their callers.
LEMMA EndMaps ==
    ASSUME ContractIInv, OutgoingOK', UNCHANGED <<nextId, running, answer>>,
           NEW x \in Outcomes \ {"result", "error"},
           \A r \in Requests : \/ fate'[r] = fate[r] /\ (r \in pending' <=> r \in pending)
                               \/ fate'[r] = x /\ r \in pending /\ r \notin pending'
    PROVE  Contract!Next
<1>1. \A r \in Requests : Sent(r) <=> Sent(r)'
  BY DEF Sent
<1>2. ASSUME NEW r \in Requests
      PROVE  \/ Knows(r)' = Knows(r)
             \/ Knows(r) = "waiting" /\ Knows(r)' = "failed"
  <2>1. CASE fate'[r] = fate[r] /\ (r \in pending' <=> r \in pending)
    BY <1>1, <2>1 DEF Knows
  <2>2. CASE fate'[r] = x /\ r \in pending /\ r \notin pending'
    <3>1. Knows(r) = "waiting" /\ Sent(r)'
      BY <1>1, <2>2, KnowsIs DEF ContractIInv, IInv, OutgoingOK, PendingUntilSettled
    <3>2. Knows(r)' = "failed"
      BY <2>2, <3>1 DEF Knows, Outcomes
    <3> QED
      BY <3>1, <3>2
  <2> QED
    BY <1>2, <2>1, <2>2
<1> QED
  BY <1>2, DoesSame, MapsToFail

LEMMA StopMaps ==
    ASSUME ContractIInv, NEW p \in Sides, Stop(p)
    PROVE  Contract!Next
<1>1. OutgoingOK'
  BY StopOK DEF ContractIInv, IInv
<1>2. /\ UNCHANGED <<nextId, running, answer>>
      /\ \A r \in Requests :
            \/ fate'[r] = fate[r] /\ (r \in pending' <=> r \in pending)
            \/ fate'[r] = "transport" /\ r \in pending /\ r \notin pending'
  BY DEF Stop, StopSettles, incoming
<1>3. "transport" \in Outcomes \ {"result", "error"}
  BY DEF Outcomes
<1> QED
  BY <1>1, <1>2, <1>3, EndMaps

LEMMA GiveUpMaps ==
    ASSUME ContractIInv, NEW r0 \in Requests,
           Timeout(r0) \/ CancelRequest(r0) \/ SendFailed(r0)
    PROVE  Contract!Next
<1>1. PICK x \in Outcomes \ {"result", "error"} : Settle({r0}, x)
  BY DEF Timeout, CancelRequest, SendFailed, Outcomes
<1>2. OutgoingOK'
  BY GiveUpOK DEF ContractIInv, IInv
<1>3. UNCHANGED <<nextId, running, answer>>
  BY DEF Timeout, CancelRequest, SendFailed, incoming
<1>4. \A r \in Requests :
            \/ fate'[r] = fate[r] /\ (r \in pending' <=> r \in pending)
            \/ fate'[r] = x /\ r \in pending /\ r \notin pending'
  BY <1>1 DEF Settle
<1> QED
  BY <1>2, <1>3, <1>4, EndMaps

LEMMA ReceiveCancelledMaps ==
    ASSUME ContractIInv, NEW p \in Sides, ReceiveCancelled(p)
    PROVE  Contract!Next
<1>1. OutgoingOK'
  BY ReceiveCancelledOK DEF ContractIInv, IInv
<1>2. UNCHANGED <<nextId, running, answer>>
  BY DEF ReceiveCancelled
<1>3. \A r \in Requests :
            \/ fate'[r] = fate[r] /\ (r \in pending' <=> r \in pending)
            \/ fate'[r] = "cancelledByPeer" /\ r \in pending /\ r \notin pending'
  BY DEF ReceiveCancelled, Settle
<1>4. "cancelledByPeer" \in Outcomes \ {"result", "error"}
  BY DEF Outcomes
<1> QED
  BY <1>1, <1>2, <1>3, <1>4, EndMaps

LEMMA DispatchMaps ==
    ASSUME ContractIInv, NEW p \in Sides, NEW m, NEW o, Dispatch(p, o, m),
           UNCHANGED incoming, OutgoingOK'
    PROVE  Contract!Next
<1>1. PICK r0 \in Requests : r0 = <<p, nextId[p]>>
  BY DispatchIsNew DEF ContractIInv, IInv
<1>2. ~Sent(r0) /\ \A r \in Requests : Sent(r)' <=> Sent(r) \/ r = r0
  BY <1>1, DispatchIsNew DEF ContractIInv, IInv
<1>3. pending' = pending \cup {r0} /\ fate' = fate /\ UNCHANGED <<running, answer>>
  BY <1>1 DEF Dispatch, incoming
<1>4. \A r \in Requests : r # r0 => Knows(r)' = Knows(r)
  BY <1>2, <1>3 DEF Knows
<1>5. Knows(r0) = "idle"
  BY <1>2, KnowsIs DEF ContractIInv, IInv
<1>6. Knows(r0)' = "waiting"
  BY <1>2, <1>3 DEF Knows, ContractIInv, IInv, OutgoingOK, UnsentIsFresh
<1> QED
  BY <1>3, <1>4, <1>5, <1>6, DoesSame, MapsToCaller

LEMMA ReceiveAnswerMaps ==
    ASSUME ContractIInv, NEW p \in Sides, ReceiveAnswer(p)
    PROVE  Contract!Next
<1>1. PICK kind \in {"result", "error"} :
          /\ Arrives(p, kind)
          /\ Settle({<<p, Head(wire[p]).id>>} \cap pending, kind)
          /\ UNCHANGED <<nextId, running, answer>>
  BY DEF ReceiveAnswer, incoming
<1>2. PICK r0 \in Requests : /\ r0 = <<p, Head(wire[p]).id>>
                             /\ r0 \notin running /\ answer[r0] = kind
  BY <1>1, HeadIsTrue DEF IsTrue, Arrives
<1>3. \A r \in Requests :
          IF r = r0 /\ r \in pending THEN fate'[r] = kind /\ r \notin pending'
          ELSE fate'[r] = fate[r] /\ (r \in pending' <=> r \in pending)
  BY <1>1, <1>2 DEF Settle
<1>4. \A r \in Requests : Sent(r) <=> Sent(r)'
  BY <1>1 DEF Sent
<1>5. \A r \in Requests : r # r0 \/ r0 \notin pending => Knows(r)' = Knows(r)
  BY <1>3, <1>4 DEF Knows
<1>6. CASE r0 \in pending
  <2>1. Knows(r0) = "waiting" /\ Sent(r0)
    BY <1>6, KnowsIs DEF ContractIInv, IInv, OutgoingOK, PendingUntilSettled
  <2>2. Does(r0) = kind
    BY <1>2 DEF Does
  <2>3. Knows(r0)' = kind
    BY <1>3, <1>4, <1>6, <2>1 DEF Knows
  <2> QED
    BY <1>1, <1>5, <2>1, <2>2, <2>3, DoesSame, MapsToCaller
<1>7. CASE r0 \notin pending
  BY <1>1, <1>5, <1>7, DoesSame, MapsToFail
<1> QED
  BY <1>6, <1>7

LEMMA ReceiveRequestMaps ==
    ASSUME ContractIInv, NEW p \in Sides, ReceiveRequest(p)
    PROVE  Contract!Next
<1>1. wire[p] # << >> /\ Head(wire[p]).kind = "request"
  BY DEF ReceiveRequest, Arrives
<1>2. PICK r0 \in Requests : /\ r0 = <<Other(p), Head(wire[p]).id>>
                             /\ Sent(r0) /\ r0 \notin running /\ answer[r0] = "none"
  BY <1>1, HeadIsTrue DEF IsTrue
<1>3. /\ UNCHANGED <<nextId, pending, fate>>
      /\ \/ running' = running \cup {r0} /\ answer' = answer
         \/ answer' = [answer EXCEPT ![r0] = "error"] /\ running' = running
  BY <1>2 DEF ReceiveRequest, Accept, Refuse, outgoing
<1>4. \A r \in Requests : r # r0 => Does(r)' = Does(r)
  BY <1>3 DEF Does, ContractIInv, IInv, IncomingOK
<1>5. Does(r0) = "none" /\ Does(r0)' \in {"running", "error"}
  BY <1>2, <1>3 DEF Does, ContractIInv, IInv, IncomingOK
<1>6. Knows(r0) # "idle"
  BY <1>2, KnowsIs DEF ContractIInv, IInv
<1> QED
  BY <1>3, <1>4, <1>5, <1>6, KnowsSame, MapsToCallee

LEMMA HandlerFinishesMaps ==
    ASSUME ContractIInv, NEW r0 \in Requests, HandlerFinishes(r0)
    PROVE  Contract!Next
<1>1. PICK kind \in {"result", "error"} :
          answer' = [answer EXCEPT ![r0] = IF r0 \in cancelled THEN "silent" ELSE kind]
  BY DEF HandlerFinishes, Answered
<1>2. /\ r0 \in running /\ running' = running \ {r0}
      /\ UNCHANGED <<nextId, pending, fate>>
  BY DEF HandlerFinishes, outgoing
<1>3. \A r \in Requests : r # r0 => Does(r)' = Does(r)
  BY <1>1, <1>2 DEF Does, ContractIInv, IInv, IncomingOK
<1>4. Does(r0) = "running" /\ Does(r0)' = IF r0 \in cancelled THEN "silent" ELSE kind
  BY <1>1, <1>2 DEF Does, ContractIInv, IInv, IncomingOK
<1>5. r0 \in cancelled => Knows(r0) = "failed"
  <2> SUFFICES ASSUME r0 \in cancelled PROVE Knows(r0) = "failed"
    OBVIOUS
  <2>1. Sent(r0) /\ fate[r0] \in Outcomes \ {"result", "error"}
    BY DEF ContractIInv, CalleesAreTrue, GaveUp
  <2>2. r0 \notin pending
    BY <2>1 DEF ContractIInv, IInv, OutgoingOK, PendingUntilSettled, Outcomes
  <2> QED
    BY <2>1, <2>2, KnowsIs DEF ContractIInv, IInv
<1> QED
  BY <1>2, <1>3, <1>4, <1>5, KnowsSame, MapsToCallee

\* Every step of the sessions is a step of the contract, or none.
LEMMA StepMaps ==
    ASSUME ContractIInv, [Next]_vars
    PROVE  Contract!Next \/ UNCHANGED Contract!vars
<1>1. ASSUME UNCHANGED <<nextId, pending, fate, running, answer>> PROVE Contract!Next
  BY <1>1, KnowsSame, DoesSame, MapsToFail
<1>2. ASSUME NEW p \in Sides, NEW m \in Sends[p], SendRequest(p, m) PROVE Contract!Next
  <2>1. OutgoingOK'
    <3>1. m \in Methods
      BY BoundsAssumption
    <3> QED
      BY <1>2, <3>1, SendRequestOK DEF ContractIInv, IInv
  <2> QED
    BY <1>2, <2>1, DispatchMaps DEF SendRequest
<1>3. ASSUME NEW p \in Sides, Start(p) \/ Stop(p) PROVE Contract!Next
  <2>1. CASE Start(p)
    BY <1>1, <2>1 DEF Start, outgoing, incoming
  <2>2. CASE Stop(p)
    BY <2>2, StopMaps
  <2> QED
    BY <1>3, <2>1, <2>2
<1>4. ASSUME NEW p \in Sides, Receive(p) PROVE Contract!Next
  <2>1. CASE ReceiveProgress(p)
    BY <1>1, <2>1 DEF ReceiveProgress, outgoing, incoming
  <2> QED
    BY <1>4, <2>1, ReceiveRequestMaps, ReceiveAnswerMaps, ReceiveCancelledMaps DEF Receive
<1>5. ASSUME NEW r \in Requests, \/ Timeout(r) \/ CancelRequest(r) \/ SendFailed(r)
                                 \/ HandlerFinishes(r) \/ SendProgress(r)
      PROVE  Contract!Next
  <2>1. CASE SendProgress(r)
    BY <1>1, <2>1 DEF SendProgress, outgoing, incoming
  <2> QED
    BY <1>5, <2>1, GiveUpMaps, HandlerFinishesMaps
<1>6. CASE UNCHANGED vars
  BY <1>1, <1>6 DEF vars, outgoing, incoming
<1> QED
  BY <1>2, <1>3, <1>4, <1>5, <1>6 DEF Next, Progress

LEMMA InitMaps == Init => Contract!Init
<1> SUFFICES ASSUME Init PROVE Contract!Init
  OBVIOUS
<1>1. \A r \in Requests : ~Sent(r)
  BY SessionInit DEF Init, IInv, OutgoingOK, PendingUntilSettled
<1>2. \A r \in Requests : Knows(r) = "idle" /\ Does(r) = "none"
  BY <1>1 DEF Knows, Does, Init
<1> QED
  BY <1>2 DEF Contract!Init

\* Whatever the transports lose and whoever gives up, a request is executed at most once,
\* its caller gets the outcome of that very execution or a failure, once, and an
\* execution is kept quiet only after its caller gave up.
THEOREM SessionsAreAtMostOnce == Spec => ImplementsContract
<1>1. ContractIInv /\ [Next]_vars => [Contract!Next]_(Contract!vars)
  BY StepMaps
<1> QED
  BY <1>1, InitMaps, MessagesAreTrue, PTL DEF Spec, ImplementsContract, Contract!Spec

-----------------------------------------------------------------------------
(* ProtocolPeer: the sessions under a client that shakes hands and keeps a *)
(* gate make the same promises as without it.  The gate only removes steps *)
(* of the sessions; the one step it adds is Connect, which opens the       *)
(* transport and sends in one go.                                          *)

\* handshake: opening a transport and sending keeps what holds of the sessions.
LEMMA ConnectKeeps ==
    ASSUME ContractIInv, Connect
    PROVE  ContractIInv' /\ Contract!Next
<1> DEFINE opens == IF open["client"] THEN 0 ELSE 1
<1>1. /\ "client" \in Sides /\ "initialize" \in Methods
      /\ open \in [Sides -> BOOLEAN] /\ starts \in [Sides -> Nat]
      /\ \A p \in Sides : starts[p] <= MaxStarts[p] /\ MaxStarts[p] \in Nat
  BY BoundsAssumption DEF Sides, Methods, ContractIInv, IInv, LinkOK
<1>2. /\ starts["client"] + opens <= MaxStarts["client"]
      /\ open' = [open EXCEPT !["client"] = TRUE]
      /\ starts' = [starts EXCEPT !["client"] = starts["client"] + opens]
      /\ UNCHANGED incoming
  BY DEF Connect
<1>3. opens \in Nat
  OBVIOUS
<1>4. PICK o : o = open' /\ Dispatch("client", o, "initialize")
  BY <1>2 DEF Connect
<1> HIDE DEF opens
<1>5. LinkOK'
  <2>1. open' \in [Sides -> BOOLEAN] /\ starts' \in [Sides -> Nat]
    BY <1>1, <1>2, <1>3
  <2>2. \A p \in Sides : starts'[p] <= MaxStarts[p]
    BY <1>1, <1>2
  <2> QED
    BY <2>1, <2>2 DEF LinkOK
<1>6. OutgoingOK' /\ WireOK(wire)'
  <2>1. open' \in [Sides -> BOOLEAN] /\ open'["client"] /\ \A s \in Sides : open[s] => open'[s]
    BY <1>1, <1>2
  <2> QED
    BY <1>1, <1>4, <2>1, DispatchOK DEF ContractIInv, IInv
<1>7. IncomingOK'
  BY <1>2, IncomingKept DEF ContractIInv, IInv
<1>8. WireIsTrue' /\ CalleesAreTrue'
  BY <1>1, <1>2, <1>4, DispatchTrue
<1>9. Contract!Next
  BY <1>1, <1>2, <1>4, <1>6, DispatchMaps
<1> QED
  BY <1>5, <1>6, <1>7, <1>8, <1>9 DEF ContractIInv, IInv

\* What the peer adds to the sessions is Connect alone.
LEMMA PeerSteps ==
    ASSUME [PeerNext]_peerVars
    PROVE  Connect \/ [Next]_vars
<1>1. ASSUME NEW m \in Sends["client"] \cap Gated, Request(m) PROVE Next
  BY <1>1 DEF Request, Next, Sides
<1>2. ASSUME NEW p \in Sides, NEW m \in Sends[p] \ Gated, RequestUngated(p, m) PROVE Next
  BY <1>2 DEF RequestUngated, Next
<1>3. CASE Start("server") \/ (\E p \in Sides : Stop(p)) \/ Progress
  BY <1>3 DEF Next, Sides
<1>4. ASSUME NEW r \in Requests, Continue(r) PROVE UNCHANGED vars
  BY <1>4 DEF Continue
<1>5. CASE UNCHANGED peerVars
  BY <1>5 DEF peerVars
<1> QED
  BY <1>1, <1>2, <1>3, <1>4, <1>5 DEF PeerNext

\* A step of the peer keeps the invariant and is one the contract allows.
LEMMA PeerStep ==
    ASSUME ContractIInv, [PeerNext]_peerVars
    PROVE  ContractIInv' /\ (Contract!Next \/ UNCHANGED Contract!vars)
BY PeerSteps, ConnectKeeps, ContractKept, StepMaps

\* Nothing on its way between a peer and its server is untrue.
THEOREM PeerMessagesAreTrue == PeerSpec => []ContractIInv
<1>1. PeerInit => ContractIInv
  BY ContractInit DEF PeerInit
<1>2. ContractIInv /\ [PeerNext]_peerVars => ContractIInv'
  BY PeerStep
<1> QED
  BY <1>1, <1>2, PTL DEF PeerSpec

\* Under the peer m_pending still holds exactly the requests whose futures are open.
THEOREM PeerPendingSettled == PeerSpec => []PendingUntilSettled
<1>1. ContractIInv => PendingUntilSettled
  BY DEF ContractIInv, IInv, OutgoingOK
<1> QED
  BY <1>1, PeerMessagesAreTrue, PTL

\* A closed transport leaves no request of a peer waiting.
THEOREM PeerClosedSettles == PeerSpec => []ClosedMeansNonePending
<1>1. ContractIInv => ClosedMeansNonePending
  BY DEF ContractIInv, IInv, OutgoingOK
<1> QED
  BY <1>1, PeerMessagesAreTrue, PTL

\* The incoming ids of a peer's session are those of its running handlers.
THEOREM PeerIncomingRunning == PeerSpec => []IncomingIdsAreRunning
<1>1. ContractIInv => IncomingIdsAreRunning
  BY DEF ContractIInv, IInv, IncomingOK
<1> QED
  BY <1>1, PeerMessagesAreTrue, PTL

\* With handshakes, reconnections and a gate the calls are still at most once.
THEOREM PeersAreAtMostOnce == PeerSpec => ImplementsContract
<1>1. PeerInit => Contract!Init
  BY InitMaps DEF PeerInit
<1>2. ContractIInv /\ [PeerNext]_peerVars => [Contract!Next]_(Contract!vars)
  BY PeerStep
<1> QED
  BY <1>1, <1>2, PeerMessagesAreTrue, PTL
  DEF PeerSpec, ImplementsContract, Contract!Spec

\* The gate is opened for a connection that was not greeted by the continuation of an
\* earlier handshake only (handshake, closed).
THEOREM StaleContinuationsOnly == PeerSpec => OnlyStaleContinuationsMislead
<1>1. [PeerNext]_peerVars
          => [Misleading' => Misleading \/ (~greeted /\ posted' # posted)]_peerVars
  <2> SUFFICES ASSUME PeerNext, Misleading'
               PROVE  Misleading \/ (~greeted /\ posted' # posted)
    OBVIOUS
  <2>1. CASE UNCHANGED gate
    BY <2>1 DEF Misleading, gate
  <2>2. ASSUME NEW r \in Requests, Continue(r)
        PROVE  ~greeted /\ posted' # posted
    BY <2>2 DEF Continue, Misleading
  <2>3. CASE GateFollows
    BY <2>3 DEF GateFollows, Misleading
  <2> QED
    BY <2>1, <2>2, <2>3 DEF PeerNext, Connect, Request, RequestUngated
<1> QED
  BY <1>1, PTL DEF PeerSpec, OnlyStaleContinuationsMislead

=============================================================================
