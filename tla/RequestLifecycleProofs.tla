------------------------ MODULE RequestLifecycleProofs ------------------------
(***************************************************************************)
(* The invariants of RequestLifecycle, its action properties, and that it  *)
(* implements RequestPromise.  The inductive invariant says of every       *)
(* record which phase of its life it is in and what that phase implies;    *)
(* each operator of the tool loop takes a good record to a good record,    *)
(* and each action applies one chain of operators to one record.           *)
(***************************************************************************)
EXTENDS RequestLifecycle, TLAPS

\* Nothing has happened to an id that was not asked for.
BeforeRequest(s) == s.phase = "idle" =>
    /\ s.net.opened = 0 /\ s.loops = 0
    /\ s.told.finals = 0 /\ s.told.fails = 0 /\ s.told.why = "none"
    /\ s.told.future = "none"
    /\ s.round.status = "none" /\ s.running = {} /\ s.asking = {}

\* A live request has signalled nothing and sent one exchange per round, plus one.
DuringRequest(s) == s.phase = "live" =>
    /\ s.net.opened = s.loops + 1
    /\ s.told.finals = 0 /\ s.told.fails = 0 /\ s.told.why = "none"
    /\ s.told.future \in {"none", "pending"}

\* An ended request has signalled once, and its future followed the signal.
AfterRequest(s) == s.phase = "gone" =>
    /\ s.round.status = "none" /\ s.msg.state = "none"
    /\ s.told.finals + s.told.fails = 1
    /\ s.told.future # "pending"
    /\ s.told.future = "resolved" => s.told.finals = 1
    /\ s.told.future = "rejected" => s.told.fails = 1
    /\ s.told.why = "limit" => s.net.opened = MaxRounds + 1

\* A round, a message or a gate belongs to a turn that some exchange carried.
TurnIsKnown(s) ==
    s.round.status = "open" \/ s.msg.state # "none" \/ s.asking # {} => s.turn # 0

Good(s) ==
    /\ s \in RequestState
    /\ BeforeRequest(s) /\ DuringRequest(s) /\ AfterRequest(s)
    /\ TurnIsKnown(s)

\* What is left of a record when its client is destroyed.
Orphaned(s) ==
    /\ s \in RequestState
    /\ s.phase # "live" /\ s.told.future # "pending"
    /\ s.told.finals + s.told.fails <= 1
    /\ s.told.finals + s.told.fails = 1 => s.phase = "gone"
    /\ s.told.future = "resolved" => s.told.finals = 1
    /\ s.told.why = "limit" => s.net.opened = MaxRounds + 1

IInv ==
    /\ provider \in ProviderKind
    /\ st \in [Requests -> RequestState]
    /\ tools \subseteq Calls
    /\ alive \in BOOLEAN
    /\ alive => \A r \in Requests : Good(st[r])
    /\ ~alive => \A r \in Requests : Orphaned(st[r])

\* A live record in the middle of a callback: its counters may be out of step.
Begun(s) ==
    /\ s \in RequestState
    /\ s.phase = "live"
    /\ s.told.finals = 0 /\ s.told.fails = 0 /\ s.told.why = "none"
    /\ s.told.future \in {"none", "pending"}
    /\ TurnIsKnown(s)

USE ConstantsAssumption

-----------------------------------------------------------------------------
(* Ending a request *)

LEMMA ConstantRecords == NoMessage \in Message /\ NoRound \in Round
BY DEF NoMessage, Message, NoRound, Round

\* Aborting the stream of a record keeps its exchanges well formed.
LEMMA HungUpType ==
    ASSUME NEW s \in RequestState
    PROVE  HungUp(s) \in Net /\ HungUp(s).opened = s.net.opened
BY DEF HungUp, RequestState, Net

\* What cleanup changes and what it leaves.
LEMMA ReleasedType ==
    ASSUME NEW s \in RequestState
    PROVE  /\ Released(s) \in RequestState
           /\ Released(s).phase = "gone"
           /\ Released(s).net.opened = s.net.opened
           /\ Released(s).round.status = "none"
           /\ Released(s).msg.state = "none"
           /\ Released(s).asking = s.asking
           /\ Released(s).turn = s.turn
           /\ Released(s).told = s.told
<1>1. Released(s) \in RequestState
  BY ConstantRecords, HungUpType, Zenon DEF Released, RequestState
<1>2. QED
  BY <1>1, HungUpType DEF Released, RequestState, NoRound, NoMessage

\* failRequest leaves a record with one failure and a rejected future.
LEMMA FailIsGood ==
    ASSUME NEW s, Begun(s),
           NEW reason \in {"transport", "provider", "cancelled", "limit"},
           reason = "limit" => s.net.opened = MaxRounds + 1
    PROVE  Good(Fail(s, reason)) /\ Fail(s, reason).phase = "gone"
<1> DEFINE failure == [s.told EXCEPT !.fails = @ + 1, !.why = reason]
           t == Rejected(failure)
           d == Released(s)
<1>1. s \in RequestState /\ s.told \in Report /\ d \in RequestState
  BY ReleasedType DEF Begun, RequestState
<1>2. /\ t \in Report
      /\ t.finals = 0 /\ t.fails = 1 /\ t.why = reason
      /\ t.future \in {"none", "rejected"}
  <2>1. s.told.fails + 1 \in Nat /\ s.told.fails + 1 = 1
    BY <1>1 DEF Begun, Report
  <2>2. failure \in Report
    BY <1>1, <2>1, Zenon DEF Report
  <2>3. failure.finals = 0 /\ failure.fails = 1 /\ failure.why = reason
        /\ failure.future \in {"none", "pending"}
    BY <1>1, <2>1 DEF Begun, Report
  <2> HIDE DEF failure
  <2>4. QED
    BY <2>2, <2>3 DEF Rejected, Report
<1>3. Fail(s, reason) = [d EXCEPT !.told = t]
  BY <1>1 DEF Fail, Failure, Begun
<1> HIDE DEF t, d
<1>4. [d EXCEPT !.told = t] \in RequestState
  BY <1>1, <1>2 DEF RequestState
<1> DEFINE f == [d EXCEPT !.told = t]
<1>5. /\ f.phase = d.phase /\ f.net = d.net /\ f.round = d.round /\ f.msg = d.msg
      /\ f.asking = d.asking /\ f.turn = d.turn /\ f.told = t
  BY <1>1 DEF RequestState
<1>6. f \in RequestState
  BY <1>4
<1> HIDE DEF f
<1>7. Good(f) /\ f.phase = "gone"
  BY <1>1, <1>2, <1>5, <1>6, ReleasedType
     DEF d, Begun, Good, BeforeRequest, DuringRequest, AfterRequest, TurnIsKnown
<1>8. QED
  BY <1>3, <1>7 DEF f

\* completeRequest leaves a record with one result and a resolved future.
LEMMA CompleteIsGood ==
    ASSUME NEW s, Begun(s)
    PROVE  Good(Complete(s)) /\ Complete(s).phase = "gone"
<1> DEFINE success == [s.told EXCEPT !.finals = @ + 1]
           t == Resolved(success)
           d == Released(s)
<1>1. s \in RequestState /\ s.told \in Report /\ d \in RequestState
  BY ReleasedType DEF Begun, RequestState
<1>2. /\ t \in Report
      /\ t.finals = 1 /\ t.fails = 0 /\ t.why = "none"
      /\ t.future \in {"none", "resolved"}
  <2>1. success \in Report
    BY <1>1 DEF Report
  <2>2. success.finals = 1 /\ success.fails = 0 /\ success.why = "none"
        /\ success.future \in {"none", "pending"}
    BY <1>1 DEF Begun, Report
  <2> HIDE DEF success
  <2>3. QED
    BY <2>1, <2>2 DEF Resolved, Report
<1> DEFINE f == [d EXCEPT !.told = t]
<1>3. Complete(s) = f
  BY <1>1 DEF Complete, Success, Begun
<1> HIDE DEF t, d
<1>4. f \in RequestState
  BY <1>1, <1>2 DEF RequestState
<1>5. /\ f.phase = d.phase /\ f.net = d.net /\ f.round = d.round /\ f.msg = d.msg
      /\ f.asking = d.asking /\ f.turn = d.turn /\ f.told = t
  BY <1>1 DEF RequestState
<1> HIDE DEF f
<1>6. Good(f) /\ f.phase = "gone"
  BY <1>1, <1>2, <1>4, <1>5, ReleasedType
     DEF d, Begun, Good, BeforeRequest, DuringRequest, AfterRequest, TurnIsKnown
<1>7. QED
  BY <1>3, <1>6

-----------------------------------------------------------------------------
(* The tool loop *)

\* startHttpRequest for the next exchange of a record whose rounds are counted.
LEMMA OpenExchangeIsGood ==
    ASSUME NEW s, Begun(s), s.net.opened = s.loops, s.loops <= MaxRounds,
           NEW out \in Outside
    PROVE  Good(OpenExchange(s, out)) /\ OpenExchange(s, out).phase # "idle"
<1>1. CASE out.noStream /\ ~s.buffered
  BY <1>1, FailIsGood DEF OpenExchange
<1>2. CASE ~(out.noStream /\ ~s.buffered)
  <2> DEFINE n == Opened(s.net)
             f == [s EXCEPT !.net = n]
  <2>1. s \in RequestState /\ s.net \in Net /\ s.loops \in Nat
    BY DEF Begun, RequestState
  <2>2. s.net.opened + 1 \in 1..(MaxRounds + 1) /\ n.opened = s.loops + 1
    BY <2>1 DEF Net, Opened
  <2>3. n \in Net
    BY <2>1, <2>2 DEF Opened, Net, Turns
  <2> HIDE DEF n
  <2>4. /\ f \in RequestState
        /\ f.phase = "live" /\ f.loops = s.loops /\ f.net = n /\ f.msg = s.msg
        /\ f.round = s.round /\ f.asking = s.asking /\ f.turn = s.turn
        /\ f.told = s.told
    BY <2>1, <2>3 DEF RequestState, Begun
  <2>5. OpenExchange(s, out) = f
    BY <1>2 DEF OpenExchange, n
  <2> HIDE DEF f
  <2>6. Good(f)
    BY <2>2, <2>4 DEF Begun, Good, BeforeRequest, DuringRequest, AfterRequest,
                      TurnIsKnown
  <2>7. QED
    BY <2>4, <2>5, <2>6
<1>3. QED
  BY <1>1, <1>2

\* A live good record stays live and well formed when only its tool round, its
\* message or its gates change.
LEMMA GoodIsBegun ==
    ASSUME NEW s, Good(s), s.phase = "live"
    PROVE  Begun(s)
BY DEF Good, Begun, DuringRequest

\* handleToolsCompleted counts the round and stops at the limit, not before.
LEMMA ContinueIsGood ==
    ASSUME NEW s, Good(s), s.phase = "live", NEW out \in Outside
    PROVE  Good(Continue(s, out)) /\ Continue(s, out).phase # "idle"
<1> DEFINE q == [s.round EXCEPT !.status = "closed"]
           d == Counted(s)
<1>1. s \in RequestState /\ s.round \in Round /\ s.net \in Net
      /\ s.loops \in Nat /\ s.net.opened = s.loops + 1 /\ s.loops + 1 \in 0..(MaxRounds + 1)
  BY DEF Good, RequestState, DuringRequest, Net
<1>2. q \in Round /\ q.status = "closed"
  BY <1>1 DEF Round
<1>3. d = [s EXCEPT !.round = q, !.loops = @ + 1]
  BY DEF Counted
<1> HIDE DEF q
<1>4. d \in RequestState
  BY <1>1, <1>2, <1>3, Zenon DEF RequestState
<1>5. /\ d.phase = "live" /\ d.loops = s.loops + 1 /\ d.net = s.net /\ d.msg = s.msg
      /\ d.round = q /\ d.asking = s.asking /\ d.turn = s.turn /\ d.told = s.told
  BY <1>1, <1>3 DEF RequestState
<1> HIDE DEF d
<1>6. Begun(d)
  BY <1>2, <1>4, <1>5 DEF Good, Begun, DuringRequest, TurnIsKnown
<1>7. CASE s.loops + 1 > MaxRounds
  <2>1. d.net.opened = MaxRounds + 1
    BY <1>1, <1>5, <1>7
  <2>2. QED
    BY <1>6, <1>7, <2>1, FailIsGood DEF Continue, d
<1>8. CASE s.loops + 1 <= MaxRounds /\ NoBody(s)
  BY <1>1, <1>6, <1>8, FailIsGood DEF Continue, d
<1>9. CASE s.loops + 1 <= MaxRounds /\ ~NoBody(s)
  BY <1>1, <1>5, <1>6, <1>9, OpenExchangeIsGood DEF Continue, d
<1>10. QED
  BY <1>1, <1>7, <1>8, <1>9

\* A record that only gained or lost executions and gate questions.
Carry(s, run, ask, did) == [s EXCEPT !.running = run, !.asking = ask, !.ran = did]

LEMMA CarryIsGood ==
    ASSUME NEW s, Good(s), s.phase # "idle",
           NEW run \in SUBSET Calls, NEW ask \in SUBSET Calls,
           NEW did \in SUBSET (Exchanges \X Calls),
           ask # {} => s.turn # 0
    PROVE  /\ Good(Carry(s, run, ask, did))
           /\ Carry(s, run, ask, did).phase = s.phase
           /\ Carry(s, run, ask, did).round = s.round
           /\ Carry(s, run, ask, did).turn = s.turn
<1> DEFINE f == [s EXCEPT !.running = run, !.asking = ask, !.ran = did]
<1>1. s \in RequestState
  BY DEF Good
<1>2. f \in RequestState
  BY <1>1, Zenon DEF RequestState
<1>3. /\ f.phase = s.phase /\ f.net = s.net /\ f.msg = s.msg /\ f.round = s.round
      /\ f.loops = s.loops /\ f.turn = s.turn /\ f.told = s.told /\ f.asking = ask
  BY <1>1 DEF RequestState
<1> HIDE DEF f
<1>4. Good(f)
  BY <1>2, <1>3 DEF Good, BeforeRequest, DuringRequest, AfterRequest, TurnIsKnown
<1>5. QED
  BY <1>3, <1>4 DEF f, Carry

\* startExecution: whatever the slot did, one execution is added to the record.
LEMMA StartIsGood ==
    ASSUME NEW s, Good(s), s.phase # "idle", s.turn # 0,
           NEW c \in Calls, NEW out \in Outside
    PROVE  Good(Start(s, c, out)) /\ Start(s, c, out).phase # "idle"
<1> DEFINE n == IF out.slotCancels THEN Fail(s, "cancelled") ELSE s
           run == n.running \cup {c}
           did == n.ran \cup {<<s.net.opened, c>>}
           ask == n.asking
<1>1. Good(n) /\ n.phase # "idle"
  <2>1. CASE s.phase = "live"
    BY <2>1, GoodIsBegun, FailIsGood
  <2>2. CASE s.phase # "live"
    BY <2>2 DEF Fail
  <2>3. QED
    BY <2>1, <2>2
<1>2. n.turn = s.turn
  <2>1. s \in RequestState
    BY DEF Good
  <2>2. [Released(s) EXCEPT !.told = Failure(s.told, "cancelled")].turn = s.turn
    BY <2>1, ReleasedType DEF RequestState
  <2>3. QED
    BY <2>2 DEF Fail
<1>3. n \in RequestState /\ s \in RequestState /\ s.net.opened \in Exchanges
  BY <1>1 DEF Good, RequestState, Net, Exchanges, Turns
<1> HIDE DEF n
<1>4. run \in SUBSET Calls /\ did \in SUBSET (Exchanges \X Calls) /\ ask \in SUBSET Calls
  BY <1>3 DEF RequestState
<1>5. Start(s, c, out) = [n EXCEPT !.running = run, !.ran = did]
  BY DEF Start, n
<1> HIDE DEF run, did
<1>6. [n EXCEPT !.running = run, !.ran = did] = Carry(n, run, ask, did)
  BY <1>3 DEF RequestState, Carry
<1> HIDE DEF ask
<1>7. Good(Carry(n, run, ask, did)) /\ Carry(n, run, ask, did).phase = n.phase
  BY <1>1, <1>2, <1>4, CarryIsGood
<1>8. QED
  BY <1>1, <1>5, <1>6, <1>7

\* A live record whose round is open, and known to come from a turn.
LEMMA RoundIsGood ==
    ASSUME NEW s, Good(s), s.phase = "live", s.turn # 0, NEW q \in Round
    PROVE  LET f == [s EXCEPT !.round = q]
           IN  /\ Good(f) /\ f.phase = "live" /\ f.round = q
               /\ f.turn = s.turn /\ f.msg = s.msg /\ f.asking = s.asking
               /\ f.running = s.running /\ f.ran = s.ran
<1> DEFINE f == [s EXCEPT !.round = q]
<1>1. s \in RequestState
  BY DEF Good
<1>2. f \in RequestState
  BY <1>1 DEF RequestState
<1>3. /\ f.phase = s.phase /\ f.net = s.net /\ f.msg = s.msg /\ f.round = q
      /\ f.loops = s.loops /\ f.turn = s.turn /\ f.told = s.told
      /\ f.asking = s.asking /\ f.running = s.running /\ f.ran = s.ran
  BY <1>1 DEF RequestState
<1> HIDE DEF f
<1>4. Good(f)
  BY <1>2, <1>3 DEF Good, BeforeRequest, DuringRequest, AfterRequest, TurnIsKnown
<1>5. QED
  BY <1>3, <1>4 DEF f

\* The queue walk stays inside the calls of the round.
LEMMA WalkedType ==
    ASSUME NEW q \in Round, NEW T
    PROVE  Walked(q, T) \in Round /\ FirstKnown(q, T) \in SUBSET Calls
<1>1. q.calls \in SUBSET Calls /\ q.sent \in SUBSET Calls /\ q.settled \in SUBSET Calls
  BY DEF Round
<1>2. Unknown(q, T) \in SUBSET Calls /\ FirstKnown(q, T) \in SUBSET Calls
  BY <1>1 DEF Unknown, FirstKnown, Queue
<1>3. /\ q.sent \cup Unknown(q, T) \cup FirstKnown(q, T) \in SUBSET Calls
      /\ q.settled \cup Unknown(q, T) \in SUBSET Calls
  BY <1>1, <1>2
<1>4. Walked(q, T) \in Round
  BY <1>3, Zenon DEF Walked, Round
<1>5. QED
  BY <1>2, <1>4

\* ToolRound::advance.
LEMMA AdvanceIsGood ==
    ASSUME NEW s, Good(s), s.phase = "live", s.turn # 0,
           NEW T, NEW out \in Outside
    PROVE  Good(Advance(s, T, out)) /\ Advance(s, T, out).phase # "idle"
<1> DEFINE first == FirstKnown(s.round, T)
           q == Walked(s.round, T)
           ask == s.asking \cup (first \cap Gated)
           w == [s EXCEPT !.round = q, !.asking = ask]
<1>1. s \in RequestState /\ s.round \in Round
  BY DEF Good, RequestState
<1>2. q \in Round /\ first \in SUBSET Calls
  BY <1>1, WalkedType
<1>3. ask \in SUBSET Calls
  BY <1>1, <1>2 DEF RequestState
<1> HIDE DEF q, ask, first
<1>4. w \in RequestState
  BY <1>1, <1>2, <1>3, Zenon DEF RequestState
<1>5. /\ w.phase = "live" /\ w.net = s.net /\ w.msg = s.msg /\ w.round = q
      /\ w.loops = s.loops /\ w.turn = s.turn /\ w.told = s.told /\ w.asking = ask
  BY <1>1 DEF RequestState
<1> HIDE DEF w
<1>6. Good(w)
  BY <1>4, <1>5 DEF Good, BeforeRequest, DuringRequest, AfterRequest, TurnIsKnown
<1>7. Advance(s, T, out) = IF first \subseteq Gated THEN w
                           ELSE Start(w, CHOOSE c \in first \ Gated : TRUE, out)
  BY DEF Advance, w, q, ask, first
<1>8. CASE first \subseteq Gated
  BY <1>5, <1>6, <1>7, <1>8
<1>9. CASE ~(first \subseteq Gated)
  <2> DEFINE c == CHOOSE c \in first \ Gated : TRUE
  <2>1. c \in Calls
    BY <1>2, <1>9
  <2>2. QED
    BY <1>5, <1>6, <1>7, <1>9, <2>1, StartIsGood
<1>10. QED
  BY <1>8, <1>9

\* driveRound, up to the continuation it may send.
LEMMA DriveIsGood ==
    ASSUME NEW s, Good(s), s.phase # "idle", NEW T, NEW out \in Outside
    PROVE  Good(Drive(s, T, out)) /\ Drive(s, T, out).phase # "idle"
<1> DEFINE next == Advance(s, T, out)
<1>1. CASE s.round.status # "open"
  BY <1>1 DEF Drive
<1>2. CASE s.round.status = "open"
  <2>1. s.phase = "live" /\ s.turn # 0
    BY <1>2 DEF Good, RequestState, AfterRequest, TurnIsKnown
  <2>2. Good(next) /\ next.phase # "idle"
    BY <2>1, AdvanceIsGood
  <2>3. next.round.status = "open" => next.phase = "live"
    BY <2>2 DEF Good, RequestState, AfterRequest
  <2> HIDE DEF next
  <2>4. next.round.status = "open" =>
            Good(Continue(next, out)) /\ Continue(next, out).phase # "idle"
    BY <2>2, <2>3, ContinueIsGood
  <2>5. QED
    BY <1>2, <2>2, <2>4 DEF Drive, next
<1>3. QED
  BY <1>1, <1>2

\* executeToolsFromMessage and beginRound.
LEMMA BeginRoundIsGood ==
    ASSUME NEW s, Good(s), s.phase # "idle", NEW T, NEW out \in Outside
    PROVE  Good(BeginRound(s, T, out)) /\ BeginRound(s, T, out).phase # "idle"
<1>1. CASE s.msg.state # "requires"
  BY <1>1 DEF BeginRound
<1>2. CASE s.msg.state = "requires"
  <2> DEFINE q == IF s.round.status = "open" THEN AddCalls(s.round, s.msg.uses)
                  ELSE NewRound(s.msg.uses)
  <2>1. s \in RequestState /\ s.phase = "live" /\ s.turn # 0
    BY <1>2 DEF Good, RequestState, AfterRequest, TurnIsKnown
  <2>2. s.round \in Round /\ s.msg.uses \in SUBSET Calls
    BY <2>1 DEF RequestState, Message
  <2>3. q \in Round
    BY <2>2 DEF AddCalls, NewRound, Round
  <2> HIDE DEF q
  <2>4. Good([s EXCEPT !.round = q]) /\ [s EXCEPT !.round = q].phase = "live"
    BY <2>1, <2>3, RoundIsGood
  <2>5. BeginRound(s, T, out) = Drive([s EXCEPT !.round = q], T, out)
    BY <1>2 DEF BeginRound, q
  <2>6. QED
    BY <2>4, <2>5, DriveIsGood
<1>3. QED
  BY <1>1, <1>2

\* finalizePendingTool.
LEMMA FinalizeToolIsGood ==
    ASSUME NEW s, Good(s), s.phase # "idle", NEW c, NEW T, NEW out \in Outside
    PROVE  Good(FinalizeTool(s, c, T, out)) /\ FinalizeTool(s, c, T, out).phase # "idle"
<1> DEFINE q == Settle(s.round, c)
           f == [s EXCEPT !.round = q]
<1>1. s \in RequestState /\ s.round \in Round
  BY DEF Good, RequestState
<1>2. q \in Round /\ q.status = s.round.status
  BY <1>1 DEF Settle, Round
<1> HIDE DEF q
<1>3. f \in RequestState
  BY <1>1, <1>2 DEF RequestState
<1>4. /\ f.phase = s.phase /\ f.net = s.net /\ f.msg = s.msg /\ f.round = q
      /\ f.loops = s.loops /\ f.turn = s.turn /\ f.told = s.told
      /\ f.asking = s.asking /\ f.running = s.running
  BY <1>1 DEF RequestState
<1> HIDE DEF f
<1>5. Good(f)
  BY <1>2, <1>3, <1>4 DEF Good, BeforeRequest, DuringRequest, AfterRequest, TurnIsKnown
<1>6. Good(Drive(f, T, out)) /\ Drive(f, T, out).phase # "idle"
  BY <1>4, <1>5, DriveIsGood
<1>7. QED
  BY <1>6 DEF FinalizeTool, f, q

-----------------------------------------------------------------------------
(* What an exchange delivers *)

\* The exchange a live record listens to ends.
LEMMA HearIsGood ==
    ASSUME NEW s, Good(s), s.phase = "live", NEW status \in {"ended", "broken"}
    PROVE  /\ Good(Hear(s, status)) /\ Hear(s, status).phase = "live"
           /\ Hear(s, status).turn = s.turn
<1> DEFINE n == Closed(s.net, status)
           f == [s EXCEPT !.net = n]
<1>1. s \in RequestState /\ s.net \in Net
  BY DEF Good, RequestState
<1>2. n \in Net /\ n.opened = s.net.opened
  <2> DEFINE e == [s.net.exch EXCEPT ![s.net.cur] = status]
  <2>1. e \in [Turns -> {"unsent", "open", "ended", "broken", "aborted"}]
    BY <1>1 DEF Net
  <2> HIDE DEF e
  <2>2. n = [opened |-> s.net.opened, cur |-> 0, exch |-> e]
    BY DEF Closed, e
  <2>3. QED
    BY <1>1, <2>1, <2>2 DEF Net
<1> HIDE DEF n
<1>3. f \in RequestState
  BY <1>1, <1>2 DEF RequestState
<1>4. /\ f.phase = s.phase /\ f.net = n /\ f.msg = s.msg /\ f.round = s.round
      /\ f.loops = s.loops /\ f.turn = s.turn /\ f.told = s.told
      /\ f.asking = s.asking /\ f.running = s.running
  BY <1>1 DEF RequestState
<1> HIDE DEF f
<1>5. Good(f)
  BY <1>2, <1>3, <1>4 DEF Good, BeforeRequest, DuringRequest, AfterRequest, TurnIsKnown
<1>6. QED
  BY <1>4, <1>5 DEF Hear, f, n

\* A live record whose message changes, in a turn some exchange carries.
Said(s, m, t) == [s EXCEPT !.msg = m, !.turn = t]

LEMMA MessageIsGood ==
    ASSUME NEW s, Good(s), s.phase = "live", NEW m \in Message, NEW t \in Turns
    PROVE  /\ Good(Said(s, m, t)) /\ Said(s, m, t).phase = "live"
           /\ Said(s, m, t).turn = t
<1> DEFINE f == [s EXCEPT !.msg = m, !.turn = t]
<1>1. s \in RequestState /\ t \in 0..(MaxRounds + 1) /\ t # 0
  BY DEF Good, Turns
<1>2. f \in RequestState
  BY <1>1, Zenon DEF RequestState
<1>3. /\ f.phase = s.phase /\ f.net = s.net /\ f.msg = m /\ f.round = s.round
      /\ f.loops = s.loops /\ f.turn = t /\ f.told = s.told
      /\ f.asking = s.asking /\ f.running = s.running
  BY <1>1 DEF RequestState
<1> HIDE DEF f
<1>4. Good(f)
  BY <1>1, <1>2, <1>3 DEF Good, BeforeRequest, DuringRequest, AfterRequest, TurnIsKnown
<1>5. QED
  BY <1>3, <1>4 DEF f, Said

\* ensureMessage.
LEMMA StartTurnIsGood ==
    ASSUME NEW s, Good(s), s.phase = "live", NEW t \in Turns
    PROVE  /\ Good(StartTurn(s, t)) /\ StartTurn(s, t).phase = "live"
           /\ StartTurn(s, t).turn = t
<1> DEFINE m == [state |-> "building", uses |-> {}]
<1>1. m \in Message
  BY DEF Message
<1>2. StartTurn(s, t) = Said(s, m, t)
  BY DEF StartTurn, Said
<1> HIDE DEF m
<1>3. QED
  BY <1>1, <1>2, MessageIsGood

\* recordStopReason and applyEffects.
LEMMA FinishTurnIsGood ==
    ASSUME NEW s, Good(s), s.phase = "live", s.turn # 0,
           NEW U \in SUBSET Calls, NEW T, NEW out \in Outside
    PROVE  Good(FinishTurn(s, U, T, out)) /\ FinishTurn(s, U, T, out).phase # "idle"
<1> DEFINE m == [state |-> IF U = {} THEN "done" ELSE "requires", uses |-> U]
           f == [s EXCEPT !.msg = m]
<1>1. m \in Message
  BY DEF Message
<1>2. s \in RequestState /\ s.turn \in Turns
  BY DEF Good, RequestState, Turns
<1> HIDE DEF m
<1>3. f = Said(s, m, s.turn)
  BY <1>1, <1>2 DEF RequestState, Said
<1> HIDE DEF f
<1>4. Good(f) /\ f.phase = "live"
  BY <1>1, <1>2, <1>3, MessageIsGood
<1>5. Good(BeginRound(f, T, out)) /\ BeginRound(f, T, out).phase # "idle"
  BY <1>4, BeginRoundIsGood
<1>6. QED
  BY <1>4, <1>5 DEF FinishTurn, f, m

\* onStreamFinished after a clean end.
LEMMA DrainedIsGood ==
    ASSUME NEW s, Good(s), s.phase # "idle", NEW T, NEW out \in Outside
    PROVE  Good(Drained(s, T, out)) /\ Drained(s, T, out).phase # "idle"
<1> DEFINE h == IF provider = "drain" /\ s.phase = "live" THEN BeginRound(s, T, out) ELSE s
<1>1. Good(h) /\ h.phase # "idle"
  BY BeginRoundIsGood
<1> HIDE DEF h
<1>2. Good(Complete(h)) /\ Complete(h).phase # "idle"
  <2>1. CASE h.phase = "live"
    BY <1>1, <2>1, GoodIsBegun, CompleteIsGood
  <2>2. CASE h.phase # "live"
    BY <1>1, <2>2 DEF Complete
  <2>3. QED
    BY <2>1, <2>2
<1>3. QED
  BY <1>1, <1>2 DEF Drained, h

-----------------------------------------------------------------------------
(* Actions *)

\* A callback that leaves one record good keeps the invariant.
LEMMA BecomesKeepsIInv ==
    ASSUME IInv, alive, NEW r \in Requests, NEW s, Good(s), Becomes(r, s)
    PROVE  IInv'
<1>1. s \in RequestState
  BY DEF Good
<1>2. /\ st \in [Requests -> RequestState] /\ st' = [st EXCEPT ![r] = s]
      /\ tools' = tools /\ alive' = alive /\ provider' = provider
  BY DEF IInv, Becomes
<1>3. st' \in [Requests -> RequestState]
  BY <1>1, <1>2
<1>4. \A x \in Requests : Good(st'[x])
  BY <1>2 DEF IInv
<1>5. QED
  BY <1>2, <1>3, <1>4 DEF IInv

\* createRequest and the first exchange.
LEMMA AskKeepsIInv ==
    ASSUME IInv, NEW r \in Requests, Ask(r)
    PROVE  IInv'
<1>1. alive /\ st[r].phase = "idle" /\ Good(st[r])
  BY DEF Ask, IInv
<1>2. PICK buffered \in BOOLEAN, oneShot \in BOOLEAN, out \in Outside :
          Becomes(r, OpenExchange(Asked(st[r], buffered, oneShot), out))
  BY DEF Ask
<1> DEFINE s == st[r]
           t == [s.told EXCEPT !.future = IF oneShot THEN "pending" ELSE "none"]
           a == [s EXCEPT !.phase = "live", !.buffered = buffered, !.told = t]
<1>3. s \in RequestState /\ s.told \in Report
  BY <1>1 DEF Good, RequestState
<1>4. /\ t \in Report /\ t.future \in {"none", "pending"}
      /\ t.finals = 0 /\ t.fails = 0 /\ t.why = "none"
  BY <1>1, <1>3 DEF Report, Good, BeforeRequest
<1>5. Asked(st[r], buffered, oneShot) = a
  BY DEF Asked
<1> HIDE DEF t
<1>6. a \in RequestState
  BY <1>2, <1>3, <1>4, Zenon DEF RequestState
<1>7. /\ a.phase = "live" /\ a.net = s.net /\ a.loops = s.loops /\ a.msg = s.msg
      /\ a.round = s.round /\ a.asking = s.asking /\ a.turn = s.turn /\ a.told = t
  BY <1>3 DEF RequestState
<1> HIDE DEF a
<1>8. Begun(a) /\ a.net.opened = a.loops /\ a.loops <= MaxRounds
  BY <1>1, <1>4, <1>6, <1>7 DEF Begun, Good, BeforeRequest, TurnIsKnown
<1>9. Good(OpenExchange(a, out))
  BY <1>8, OpenExchangeIsGood
<1>10. QED
  BY <1>1, <1>2, <1>5, <1>9, BecomesKeepsIInv

\* What a streaming callback may assume of its record.
LEMMA StreamingIsGood ==
    ASSUME IInv, NEW r \in Requests, Live(r)
    PROVE  /\ alive /\ Good(st[r]) /\ st[r].phase = "live" /\ Begun(st[r])
           /\ st[r].net.cur \in 0..(MaxRounds + 1)
           /\ st[r].net.cur # 0 => st[r].net.cur \in Turns
           /\ st[r].msg.uses \in SUBSET Calls
<1>1. alive /\ Good(st[r]) /\ st[r].phase = "live"
  BY DEF Live, IInv
<1>2. st[r] \in RequestState /\ st[r].net \in Net /\ st[r].msg \in Message
  BY <1>1 DEF Good, RequestState
<1>3. QED
  BY <1>1, <1>2, GoodIsBegun DEF Net, Message, Turns

\* Every callback of an exchange: content, stop reasons, errors and ends.
LEMMA ExchangeKeepsIInv ==
    ASSUME IInv, NEW r \in Requests, Exchange(r) \/ TurnEndsAgain(r)
    PROVE  IInv'
<1>1. Live(r)
  BY DEF Exchange, TurnStarts, TurnEnds, ProviderError, NativeStop, StreamEnds,
         StreamBreaks, BufferedReply, TurnEndsAgain, Streaming
<1>2. /\ alive /\ Good(st[r]) /\ st[r].phase = "live" /\ Begun(st[r])
      /\ st[r].net.cur \in 0..(MaxRounds + 1)
      /\ st[r].net.cur # 0 => st[r].net.cur \in Turns
      /\ st[r].msg.uses \in SUBSET Calls
  BY <1>1, StreamingIsGood
<1>3. CASE TurnStarts(r)
  BY <1>2, <1>3, StartTurnIsGood, BecomesKeepsIInv DEF TurnStarts, Streaming
<1>4. CASE TurnEnds(r)
  <2>1. PICK U \in SUBSET Calls, out \in Outside :
            Becomes(r, FinishTurn(st[r], U, tools, out))
    BY <1>4 DEF TurnEnds
  <2>2. st[r].turn # 0
    BY <1>4 DEF TurnEnds, Streaming, OnTurn
  <2>3. QED
    BY <1>2, <2>1, <2>2, FinishTurnIsGood, BecomesKeepsIInv
<1>5. CASE TurnEndsAgain(r)
  <2>1. PICK out \in Outside :
            Becomes(r, FinishTurn(st[r], st[r].msg.uses, tools, out))
    BY <1>5 DEF TurnEndsAgain
  <2>2. st[r].turn # 0
    BY <1>5 DEF TurnEndsAgain, Streaming, OnTurn
  <2>3. QED
    BY <1>2, <2>1, <2>2, FinishTurnIsGood, BecomesKeepsIInv
<1>6. CASE ProviderError(r)
  BY <1>2, <1>6, FailIsGood, BecomesKeepsIInv DEF ProviderError
<1>7. CASE NativeStop(r)
  BY <1>2, <1>7, CompleteIsGood, BecomesKeepsIInv DEF NativeStop
<1>8. CASE StreamEnds(r)
  <2> DEFINE h == Hear(st[r], "ended")
  <2>1. Good(h) /\ h.phase = "live" /\ h.turn = st[r].turn
    BY <1>2, HearIsGood
  <2> HIDE DEF h
  <2>2. PICK out \in Outside :
            \/ Becomes(r, Drained(h, tools, out))
            \/ /\ OnTurn(r, {"building"})
               /\ \E U \in SUBSET Calls :
                     Becomes(r, Drained(FinishTurn(h, U, tools, out), tools, out))
    BY <1>8 DEF StreamEnds, h
  <2>3. CASE Becomes(r, Drained(h, tools, out))
    BY <1>2, <2>1, <2>3, DrainedIsGood, BecomesKeepsIInv
  <2>4. CASE /\ OnTurn(r, {"building"})
             /\ \E U \in SUBSET Calls :
                   Becomes(r, Drained(FinishTurn(h, U, tools, out), tools, out))
    <3>1. PICK U \in SUBSET Calls :
              Becomes(r, Drained(FinishTurn(h, U, tools, out), tools, out))
      BY <2>4
    <3>2. h.turn # 0
      BY <1>8, <2>1, <2>4 DEF OnTurn, StreamEnds, Streaming
    <3>3. Good(FinishTurn(h, U, tools, out)) /\ FinishTurn(h, U, tools, out).phase # "idle"
      BY <2>1, <3>2, FinishTurnIsGood
    <3>4. Good(Drained(FinishTurn(h, U, tools, out), tools, out))
      BY <3>3, DrainedIsGood
    <3>5. QED
      BY <1>2, <3>1, <3>4, BecomesKeepsIInv
  <2>5. QED
    BY <2>2, <2>3, <2>4
<1>9. CASE StreamBreaks(r)
  BY <1>2, <1>9, HearIsGood, GoodIsBegun, FailIsGood, BecomesKeepsIInv DEF StreamBreaks
<1>10. CASE BufferedReply(r)
  <2>1. CASE BufferedTurn(r)
    <3> DEFINE turn == StartTurn(Hear(st[r], "ended"), st[r].net.cur)
    <3>1. PICK U \in SUBSET Calls, out \in Outside :
              Becomes(r, Drained(FinishTurn(turn, U, tools, out), tools, out))
      BY <2>1 DEF BufferedTurn
    <3>2. st[r].net.cur \in Turns /\ st[r].net.cur # 0
      BY <1>2, <1>10 DEF BufferedReply
    <3>3. Good(turn) /\ turn.phase = "live" /\ turn.turn = st[r].net.cur
      BY <1>2, <3>2, HearIsGood, StartTurnIsGood
    <3> HIDE DEF turn
    <3>4. Good(FinishTurn(turn, U, tools, out)) /\ FinishTurn(turn, U, tools, out).phase # "idle"
      BY <3>2, <3>3, FinishTurnIsGood
    <3>5. Good(Drained(FinishTurn(turn, U, tools, out), tools, out))
      BY <3>4, DrainedIsGood
    <3>6. QED
      BY <1>2, <3>1, <3>5, BecomesKeepsIInv
  <2>2. CASE Becomes(r, Complete(Hear(st[r], "ended")))
    BY <1>2, <2>2, HearIsGood, GoodIsBegun, CompleteIsGood, BecomesKeepsIInv
  <2>3. CASE Becomes(r, Fail(Hear(st[r], "ended"), "provider"))
    BY <1>2, <2>3, HearIsGood, GoodIsBegun, FailIsGood, BecomesKeepsIInv
  <2>4. CASE Becomes(r, Fail(Hear(st[r], "broken"), "transport"))
    BY <1>2, <2>4, HearIsGood, GoodIsBegun, FailIsGood, BecomesKeepsIInv
  <2>5. QED
    BY <1>10, <2>1, <2>2, <2>3, <2>4 DEF BufferedReply
<1>11. QED
  BY <1>3, <1>4, <1>5, <1>6, <1>7, <1>8, <1>9, <1>10 DEF Exchange

\* An exchange nobody listens to.
LEMMA OldExchangeEndsKeepsIInv ==
    ASSUME IInv, NEW r \in Requests, OldExchangeEnds(r)
    PROVE  IInv'
<1>1. alive /\ Good(st[r])
  BY DEF OldExchangeEnds, IInv
<1>2. PICK t \in Turns : Becomes(r, [st[r] EXCEPT !.net = Forgotten(st[r].net, t)])
  BY DEF OldExchangeEnds
<1> DEFINE s == st[r]
           n == Forgotten(s.net, t)
           f == [s EXCEPT !.net = n]
<1>3. s \in RequestState /\ s.net \in Net
  BY <1>1 DEF Good, RequestState
<1>4. n \in Net /\ n.opened = s.net.opened
  BY <1>3 DEF Forgotten, Net
<1> HIDE DEF n
<1>5. f \in RequestState
  BY <1>3, <1>4 DEF RequestState
<1>6. /\ f.phase = s.phase /\ f.net = n /\ f.msg = s.msg /\ f.round = s.round
      /\ f.loops = s.loops /\ f.turn = s.turn /\ f.told = s.told
      /\ f.asking = s.asking /\ f.running = s.running
  BY <1>3 DEF RequestState
<1> HIDE DEF f
<1>7. Good(f)
  BY <1>1, <1>4, <1>5, <1>6 DEF Good, BeforeRequest, DuringRequest, AfterRequest, TurnIsKnown
<1>8. QED
  BY <1>1, <1>2, <1>7, BecomesKeepsIInv DEF f, n

\* A tool's result or a gate's answer, also after the request's end.
LEMMA ToolEventKeepsIInv ==
    ASSUME IInv, NEW r \in Requests, ToolEvent(r)
    PROVE  IInv'
<1> DEFINE s == st[r]
<1>1. PICK c \in Calls : ToolFinishes(r, c) \/ GateAnswers(r, c)
  BY DEF ToolEvent
<1>2. alive /\ Good(s) /\ s \in RequestState
  BY <1>1 DEF ToolFinishes, GateAnswers, IInv, Good
<1>3. CASE ToolFinishes(r, c)
  <2> DEFINE f == [s EXCEPT !.running = s.running \ {c}]
  <2>1. PICK out \in Outside : Becomes(r, FinalizeTool(f, c, tools, out))
    BY <1>3 DEF ToolFinishes
  <2>2. s.phase # "idle"
    BY <1>2, <1>3 DEF ToolFinishes, Good, BeforeRequest
  <2> DEFINE run == s.running \ {c}
  <2>3. run \in SUBSET Calls /\ s.asking \in SUBSET Calls /\ s.ran \in SUBSET (Exchanges \X Calls)
    BY <1>2 DEF RequestState
  <2> HIDE DEF run
  <2>4. [s EXCEPT !.running = run] = Carry(s, run, s.asking, s.ran)
    BY <1>2, Zenon DEF RequestState, Carry
  <2>5. s.asking # {} => s.turn # 0
    BY <1>2 DEF Good, TurnIsKnown
  <2>6. Good([s EXCEPT !.running = run]) /\ [s EXCEPT !.running = run].phase # "idle"
    BY <1>2, <2>2, <2>3, <2>4, <2>5, CarryIsGood
  <2>7. Good(f) /\ f.phase # "idle"
    BY <2>6 DEF run
  <2> HIDE DEF f
  <2>8. QED
    BY <1>2, <2>1, <2>7, FinalizeToolIsGood, BecomesKeepsIInv
<1>4. CASE GateAnswers(r, c)
  <2> DEFINE f == [s EXCEPT !.asking = s.asking \ {c}]
  <2>1. PICK allowed \in BOOLEAN, out \in Outside :
            Becomes(r, IF allowed /\ c \in tools THEN Start(f, c, out)
                       ELSE FinalizeTool(f, c, tools, out))
    BY <1>4 DEF GateAnswers
  <2>2. s.phase # "idle" /\ s.turn # 0
    BY <1>2, <1>4 DEF GateAnswers, Good, BeforeRequest, TurnIsKnown
  <2> DEFINE ask == s.asking \ {c}
  <2>3. ask \in SUBSET Calls /\ s.running \in SUBSET Calls /\ s.ran \in SUBSET (Exchanges \X Calls)
    BY <1>2 DEF RequestState
  <2> HIDE DEF ask
  <2>4. [s EXCEPT !.asking = ask] = Carry(s, s.running, ask, s.ran)
    BY <1>2, Zenon DEF RequestState, Carry
  <2>5. LET g == [s EXCEPT !.asking = ask]
        IN  Good(g) /\ g.phase # "idle" /\ g.turn # 0
    BY <1>2, <2>2, <2>3, <2>4, CarryIsGood
  <2>6. Good(f) /\ f.phase # "idle" /\ f.turn # 0
    BY <2>5 DEF ask
  <2> HIDE DEF f
  <2>7. Good(Start(f, c, out)) /\ Good(FinalizeTool(f, c, tools, out))
    BY <2>6, StartIsGood, FinalizeToolIsGood
  <2>8. QED
    BY <1>2, <2>1, <2>7, BecomesKeepsIInv
<1>5. QED
  BY <1>1, <1>3, <1>4

\* The destructor leaves no record live and no future pending.
LEMMA OrphanIsOrphaned ==
    ASSUME NEW s, Good(s)
    PROVE  Orphaned(Orphan(s))
<1> DEFINE n == IF s.phase = "live" THEN Released(s) ELSE s
           t == Rejected(n.told)
           f == [n EXCEPT !.asking = {}, !.running = {}, !.told = t]
<1>1. s \in RequestState
  BY DEF Good
<1>2. /\ n \in RequestState /\ n.phase # "live"
      /\ n.told = s.told /\ n.net.opened = s.net.opened
      /\ s.phase = "live" => n.phase = "gone"
      /\ s.phase # "live" => n.phase = s.phase
  BY <1>1, ReleasedType
<1> HIDE DEF n
<1>3. n.told \in Report
  BY <1>2 DEF RequestState
<1>4. /\ t \in Report /\ t.finals = s.told.finals /\ t.fails = s.told.fails
      /\ t.why = s.told.why /\ t.future # "pending"
      /\ t.future = "resolved" => s.told.future = "resolved"
  BY <1>2, <1>3 DEF Rejected, Report
<1> HIDE DEF t
<1>5. f \in RequestState
  BY <1>2, <1>4, Zenon DEF RequestState
<1>6. f.phase = n.phase /\ f.net = n.net /\ f.told = t
  BY <1>2 DEF RequestState
<1>7. Orphan(s) = f
  BY DEF Orphan, n, t
<1> HIDE DEF f
<1>8. s.told.finals \in Nat /\ s.told.fails \in Nat
  BY <1>1 DEF RequestState, Report
<1>9. QED
  BY <1>1, <1>2, <1>4, <1>5, <1>6, <1>7, <1>8
     DEF Orphaned, Good, BeforeRequest, DuringRequest, AfterRequest, RequestState

LEMMA InitIInv == Init => IInv
<1> SUFFICES ASSUME Init PROVE IInv
  OBVIOUS
<1>1. Idle \in RequestState
  BY ConstantRecords DEF Idle, RequestState, Net, Report
<1>2. Good(Idle)
  BY <1>1 DEF Idle, Good, BeforeRequest, DuringRequest, AfterRequest, TurnIsKnown,
              NoRound, NoMessage
<1>3. QED
  BY <1>1, <1>2 DEF Init, IInv

\* Each step of the client keeps the invariant.
LEMMA NextKeepsIInv == IInv /\ [Next]_vars => IInv'
<1> SUFFICES ASSUME IInv, [Next]_vars PROVE IInv'
  OBVIOUS
<1>1. ASSUME NEW r \in Requests, Ask(r) PROVE IInv'
  BY <1>1, AskKeepsIInv
<1>2. ASSUME NEW r \in Requests, Cancel(r) PROVE IInv'
  <2>1. alive /\ Begun(st[r]) /\ Becomes(r, Fail(st[r], "cancelled"))
    BY <1>2, StreamingIsGood DEF Cancel
  <2>2. QED
    BY <2>1, FailIsGood, BecomesKeepsIInv
<1>3. ASSUME NEW r \in Requests, Exchange(r) \/ TurnEndsAgain(r) PROVE IInv'
  BY <1>3, ExchangeKeepsIInv
<1>4. ASSUME NEW r \in Requests, OldExchangeEnds(r) PROVE IInv'
  BY <1>4, OldExchangeEndsKeepsIInv
<1>5. ASSUME NEW r \in Requests, ToolEvent(r) PROVE IInv'
  BY <1>5, ToolEventKeepsIInv
<1>6. CASE RegistryChanges
  BY <1>6 DEF RegistryChanges, IInv
<1>7. CASE Destroy
  <2>1. \A r \in Requests : Orphaned(Orphan(st[r]))
    BY <1>7, OrphanIsOrphaned DEF Destroy, IInv
  <2>2. /\ st' = [r \in Requests |-> Orphan(st[r])] /\ alive' = FALSE
        /\ tools' = tools /\ provider' = provider
    BY <1>7 DEF Destroy
  <2>3. QED
    BY <2>1, <2>2 DEF IInv, Orphaned
<1>8. CASE UNCHANGED vars
  BY <1>8 DEF vars, IInv
<1>9. QED
  BY <1>1, <1>2, <1>3, <1>4, <1>5, <1>6, <1>7, <1>8 DEF Next

-----------------------------------------------------------------------------
(* Theorems *)

\* The inductive invariant holds in every reachable state.
THEOREM InductiveInvariant == Spec => []IInv
<1>1. QED
  BY InitIInv, NextKeepsIInv, PTL DEF Spec

\* Every reachable state is well typed: no callback sends an exchange beyond the
\* limit, runs an unknown call, or leaves a record out of its type.
THEOREM TypeCorrect == Spec => []TypeOK
<1>1. IInv => TypeOK
  BY DEF IInv, TypeOK
<1>2. QED
  BY <1>1, InductiveInvariant, PTL

\* The application is told of a request's end exactly once.
THEOREM TerminalSignalOnce == Spec => []OneTerminalSignal
<1>1. IInv => OneTerminalSignal
  <2> SUFFICES ASSUME IInv, NEW r \in Requests
               PROVE  /\ st[r].told.finals + st[r].told.fails <= 1
                      /\ st[r].told.finals + st[r].told.fails = 1 => st[r].phase = "gone"
                      /\ st[r].phase = "gone" /\ alive
                             => st[r].told.finals + st[r].told.fails = 1
    BY DEF OneTerminalSignal
  <2>1. CASE alive
    BY <2>1 DEF IInv, Good, RequestState, BeforeRequest, DuringRequest, AfterRequest
  <2>2. CASE ~alive
    BY <2>2 DEF IInv, Orphaned
  <2>3. QED
    BY <2>1, <2>2 DEF IInv
<1>2. QED
  BY <1>1, InductiveInvariant, PTL

\* An askOnce future is settled with its request, never before or otherwise.
THEOREM FutureSettledWithRequest == Spec => []FutureFollowsRequest
<1>1. IInv => FutureFollowsRequest
  <2> SUFFICES ASSUME IInv, NEW r \in Requests
               PROVE  /\ st[r].told.future = "pending" => st[r].phase = "live" /\ alive
                      /\ st[r].told.future = "resolved" => st[r].told.finals = 1
                      /\ st[r].told.future = "rejected" => st[r].told.fails = 1 \/ ~alive
    BY DEF FutureFollowsRequest
  <2>1. CASE alive
    BY <2>1 DEF IInv, Good, RequestState, BeforeRequest, DuringRequest, AfterRequest
  <2>2. CASE ~alive
    BY <2>2 DEF IInv, Orphaned
  <2>3. QED
    BY <2>1, <2>2 DEF IInv
<1>2. QED
  BY <1>1, InductiveInvariant, PTL

\* The tool-round limit is exact.
THEOREM LimitExact == Spec => []LimitIsExact
<1>1. IInv => LimitIsExact
  <2> SUFFICES ASSUME IInv, NEW r \in Requests
               PROVE  /\ st[r].net.opened <= MaxRounds + 1
                      /\ st[r].told.why = "limit" => st[r].net.opened = MaxRounds + 1
    BY DEF LimitIsExact
  <2>1. st[r] \in RequestState /\ st[r].net \in Net
    BY DEF IInv, RequestState
  <2>2. st[r].net.opened <= MaxRounds + 1
    BY <2>1 DEF Net
  <2>3. CASE alive
    BY <2>1, <2>2, <2>3
       DEF IInv, Good, RequestState, BeforeRequest, DuringRequest, AfterRequest
  <2>4. CASE ~alive
    BY <2>2, <2>4 DEF IInv, Orphaned
  <2>5. QED
    BY <2>3, <2>4 DEF IInv
<1>2. QED
  BY <1>1, InductiveInvariant, PTL

-----------------------------------------------------------------------------
(* Rounds, turns and what a callback does to a request *)

\* A call of the round that was sent and has not settled is held, and no other is.
Accounts(s) == s.phase = "live" =>
    /\ s.round.settled \subseteq s.round.sent /\ s.round.sent \subseteq s.round.calls
    /\ Held(s) = s.round.sent \ s.round.settled
    /\ s.running \cap s.asking = {}
    /\ s.round.status = "open" \/ Held(s) = {}

\* The calls that may run now are of the turn the newest exchange brought, unless that
\* was empty and has drained.
OfNewest(s) == s.turn = s.net.opened \/ (EmptyTurns /\ provider = "drain")

\* An open round holds the calls of the message, and was begun in the newest exchange
\* unless that has ended.
OnItsTurn(s) == s.phase = "live" =>
    /\ s.net.cur \in {0, s.net.opened} /\ s.turn <= s.net.opened
    /\ s.buffered /\ s.net.cur # 0 => s.turn # s.net.opened
    /\ s.msg.state = "requires" => s.msg.uses # {}
    /\ s.round.status = "open" =>
         /\ s.msg.state = "requires" /\ s.msg.uses = s.round.calls
         /\ s.net.cur # 0 => s.turn = s.net.opened
         /\ OfNewest(s)

\* What ran was run by an earlier exchange, or was sent in the round the newest opened.
History(s) == s.phase = "live" =>
    /\ \A t \in Exchanges, c \in Calls : <<t, c>> \in s.ran => t <= s.net.opened
    /\ \A c \in Calls : <<s.net.opened, c>> \in s.ran =>
         c \in s.round.sent /\ c \notin s.asking /\ s.round.status = "open"

\* A gate asks before its call runs, whatever became of the request.
GateFirst(s) == \A c \in s.asking : <<s.net.opened, c>> \notin s.ran /\ OfNewest(s)

Steady(s) ==
    /\ s.phase = "idle" => s = Idle
    /\ Accounts(s) /\ OnItsTurn(s) /\ History(s) /\ GateFirst(s)

SteadyIInv ==
    /\ alive => \A r \in Requests : Steady(st[r])
    /\ ~alive => \A r \in Requests : st[r].round.status # "open"

\* What a callback does to what the application is told of a request.
Answered(f, outcome) == IF f = "pending" THEN outcome ELSE f

Same(s, f) == f.phase = s.phase /\ f.net.opened = s.net.opened /\ f.told = s.told

Failed(s, f) ==
    /\ s.phase = "live" /\ f.phase = "gone" /\ f.net.opened = s.net.opened
    /\ f.told.finals = 0 /\ f.told.fails = 1
    /\ f.told.future = Answered(s.told.future, "rejected")

Sent(s, f) ==
    /\ s.phase = "live" /\ f.phase = "live" /\ f.net.opened = s.net.opened + 1
    /\ f.told = s.told /\ f.round.status = "closed" /\ f.round.settled = f.msg.uses

Finalized(s, f) ==
    /\ s.phase = "live" /\ f.phase = "gone" /\ f.net.opened = s.net.opened
    /\ f.told.finals = 1 /\ f.told.future = Answered(s.told.future, "resolved")
    /\ provider # "native" =>
         s.round.status # "open" /\ f.net.exch[s.net.opened] = "ended"

\* A call that starts had not run in the newest exchange, and is of the turn that counts.
RunsFresh(s, f) == \A c \in f.running \ s.running :
    <<f.net.opened, c>> \notin s.ran /\ OfNewest(f)

\* The tool loop: it waits, gives up or sends the next exchange.
LoopStep(s, f) ==
    /\ Same(s, f) \/ Failed(s, f) \/ Sent(s, f)
    /\ RunsFresh(s, f)
    /\ f.phase = "live" => f.msg = s.msg

LEMMA GoneIsSteady ==
    ASSUME NEW s, s.phase = "gone", GateFirst(s)
    PROVE  Steady(s)
BY DEF Steady, Accounts, OnItsTurn, History, OfNewest

\* failRequest and what it keeps of a record.
LEMMA FailSteps ==
    ASSUME NEW s, Begun(s), NEW reason \in {"transport", "provider", "cancelled", "limit"}
    PROVE  LET f == Fail(s, reason)
           IN  /\ Failed(s, f) /\ f \in RequestState
               /\ f.running = {} /\ f.asking = s.asking /\ f.ran = s.ran /\ f.turn = s.turn
<1> DEFINE failure == [s.told EXCEPT !.fails = @ + 1, !.why = reason]
           t == Rejected(failure)
           d == Released(s)
           f == [d EXCEPT !.told = t]
<1>1. s \in RequestState /\ s.told \in Report /\ d \in RequestState /\ s.phase = "live"
  BY ReleasedType DEF Begun, RequestState
<1>2. t \in Report /\ t.finals = 0 /\ t.fails = 1 /\ t.future = Answered(s.told.future, "rejected")
  <2>1. s.told.fails + 1 \in Nat /\ s.told.fails + 1 = 1
    BY <1>1 DEF Begun, Report
  <2>2. failure \in Report
    BY <1>1, <2>1, Zenon DEF Report
  <2>3. failure.finals = 0 /\ failure.fails = 1 /\ failure.future = s.told.future
    BY <1>1, <2>1 DEF Begun, Report
  <2> HIDE DEF failure
  <2>4. QED
    BY <2>2, <2>3 DEF Rejected, Report, Answered
<1>3. Fail(s, reason) = f
  BY <1>1 DEF Fail, Failure
<1>4. /\ d.phase = "gone" /\ d.net.opened = s.net.opened /\ d.running = {}
      /\ d.asking = s.asking /\ d.ran = s.ran /\ d.turn = s.turn
  BY <1>1, ReleasedType DEF Released, RequestState
<1> HIDE DEF t, d
<1>5. /\ f \in RequestState /\ f.phase = d.phase /\ f.net = d.net /\ f.running = d.running
      /\ f.asking = d.asking /\ f.ran = d.ran /\ f.turn = d.turn /\ f.told = t
  BY <1>1, <1>2 DEF RequestState
<1> HIDE DEF f
<1>6. QED
  BY <1>1, <1>2, <1>3, <1>4, <1>5 DEF Failed

\* completeRequest.
LEMMA CompleteSteps ==
    ASSUME NEW s, Begun(s)
    PROVE  LET f == Complete(s)
           IN  /\ f.phase = "gone" /\ f.net.opened = s.net.opened
               /\ f.told.finals = 1 /\ f.told.future = Answered(s.told.future, "resolved")
               /\ f.net.exch = [t \in Turns |-> IF t = s.net.cur /\ ~s.buffered THEN "aborted"
                                                ELSE s.net.exch[t]]
               /\ f.running = {} /\ f.asking = s.asking /\ f.ran = s.ran /\ f.turn = s.turn
<1> DEFINE success == [s.told EXCEPT !.finals = @ + 1]
           t == Resolved(success)
           d == Released(s)
           f == [d EXCEPT !.told = t]
<1>1. s \in RequestState /\ s.told \in Report /\ d \in RequestState /\ s.phase = "live"
  BY ReleasedType DEF Begun, RequestState
<1>2. t \in Report /\ t.finals = 1 /\ t.future = Answered(s.told.future, "resolved")
  <2>1. success \in Report /\ success.finals = 1 /\ success.future = s.told.future
    BY <1>1 DEF Begun, Report
  <2> HIDE DEF success
  <2>2. QED
    BY <2>1 DEF Resolved, Report, Answered
<1>3. Complete(s) = f
  BY <1>1 DEF Complete, Success
<1>4. /\ d.phase = "gone" /\ d.net = HungUp(s) /\ d.running = {}
      /\ d.asking = s.asking /\ d.ran = s.ran /\ d.turn = s.turn
  BY <1>1, ReleasedType DEF Released, RequestState
<1> HIDE DEF t, d
<1>5. /\ f.phase = d.phase /\ f.net = d.net /\ f.running = d.running
      /\ f.asking = d.asking /\ f.ran = d.ran /\ f.turn = d.turn /\ f.told = t
  BY <1>1, <1>2 DEF RequestState
<1> HIDE DEF f
<1>6. QED
  BY <1>2, <1>3, <1>4, <1>5 DEF HungUp

\* The queue walk: at most one known call is dispatched, and it was not sent before.
LEMMA WalkedSteps ==
    ASSUME NEW q \in Round, NEW T, q.settled \subseteq q.sent, q.sent \subseteq q.calls
    PROVE  LET w == Walked(q, T)
               F == FirstKnown(q, T)
           IN  /\ w.status = q.status /\ w.calls = q.calls
               /\ w.settled \subseteq w.sent /\ w.sent \subseteq w.calls /\ q.sent \subseteq w.sent
               /\ w.sent \ w.settled = (q.sent \ q.settled) \cup F
               /\ F \cap q.sent = {} /\ F \subseteq w.sent
               /\ \A c, d \in F : c = d
<1> DEFINE w == Walked(q, T)
           F == FirstKnown(q, T)
           U == Unknown(q, T)
<1>1. q.calls \in SUBSET Calls /\ q.sent \in SUBSET Calls /\ q.settled \in SUBSET Calls
  BY DEF Round
<1>2. /\ w.status = q.status /\ w.calls = q.calls
      /\ w.sent = q.sent \cup U \cup F /\ w.settled = q.settled \cup U
  BY DEF Walked, Round
<1>3. F \subseteq q.calls /\ U \subseteq q.calls /\ F \cap q.sent = {} /\ U \cap q.sent = {}
  BY DEF FirstKnown, Unknown, Queue
<1>4. \A c \in Calls : c \in Nat /\ ~(c < c)
  BY DEF Calls
<1>5. F \cap U = {}
  BY <1>1, <1>4 DEF FirstKnown, Unknown, Queue
<1>6. \A c, d \in F : c = d
  <2> SUFFICES ASSUME NEW c \in F, NEW d \in F PROVE c = d
    OBVIOUS
  <2>1. c <= d /\ d <= c /\ c \in Nat /\ d \in Nat
    BY <1>1, <1>4 DEF FirstKnown, Queue
  <2>2. QED
    BY <2>1
<1> HIDE DEF w, F, U
<1>7. w.sent \ w.settled = (q.sent \ q.settled) \cup F
  BY <1>2, <1>3, <1>5
<1>8. w.settled \subseteq w.sent /\ w.sent \subseteq w.calls
  BY <1>2, <1>3
<1>9. QED
  BY <1>2, <1>3, <1>6, <1>7, <1>8 DEF w, F

\* startExecution of a live record: one call runs, whatever the slot did.
LEMMA StartSteps ==
    ASSUME NEW s, Begun(s), s.turn # 0, NEW c \in Calls, NEW out \in Outside
    PROVE  LET a == Start(s, c, out)
           IN  /\ a.turn = s.turn /\ a.asking = s.asking /\ a.ran = s.ran \cup {<<s.net.opened, c>>}
               /\ \/ Failed(s, a) /\ a.running = {c}
                  \/ /\ a.phase = "live" /\ a.running = s.running \cup {c}
                     /\ a.net = s.net /\ a.msg = s.msg /\ a.round = s.round
                     /\ a.told = s.told /\ a.buffered = s.buffered
<1> DEFINE a == Start(s, c, out)
           did == s.ran \cup {<<s.net.opened, c>>}
<1>1. s \in RequestState /\ s.phase = "live"
  BY DEF Begun
<1>2. CASE out.slotCancels
  <2> DEFINE n == Fail(s, "cancelled")
             f == [n EXCEPT !.running = {c}, !.ran = did]
  <2>1. /\ Failed(s, n) /\ n \in RequestState
        /\ n.running = {} /\ n.asking = s.asking /\ n.ran = s.ran /\ n.turn = s.turn
    BY FailSteps
  <2>2. a = [n EXCEPT !.running = n.running \cup {c}, !.ran = n.ran \cup {<<s.net.opened, c>>}]
    BY <1>2 DEF Start
  <2> HIDE DEF n
  <2>3. a = f
    BY <2>1, <2>2
  <2> HIDE DEF did
  <2>4. /\ f.phase = n.phase /\ f.net = n.net /\ f.told = n.told /\ f.turn = n.turn
        /\ f.asking = n.asking /\ f.running = {c} /\ f.ran = did
    BY <2>1 DEF RequestState
  <2> HIDE DEF f, a
  <2>5. Failed(s, a)
    BY <2>1, <2>3, <2>4 DEF Failed
  <2>6. QED
    BY <2>1, <2>3, <2>4, <2>5 DEF a, did
<1>3. CASE ~out.slotCancels
  <2> DEFINE run == s.running \cup {c}
             f == [s EXCEPT !.running = run, !.ran = did]
  <2>1. a = f
    BY <1>3 DEF Start
  <2> HIDE DEF did, run
  <2>2. /\ f.phase = s.phase /\ f.net = s.net /\ f.told = s.told /\ f.turn = s.turn
        /\ f.msg = s.msg /\ f.round = s.round /\ f.buffered = s.buffered
        /\ f.asking = s.asking /\ f.running = run /\ f.ran = did
    BY <1>1 DEF RequestState
  <2> HIDE DEF f, a
  <2>3. QED
    BY <1>1, <2>1, <2>2 DEF a, did, run
<1>4. QED
  BY <1>2, <1>3

\* ToolRound::advance.
LEMMA AdvanceSteps ==
    ASSUME NEW s, Good(s), Steady(s), s.phase = "live", s.round.status = "open",
           NEW T, NEW out \in Outside
    PROVE  LET a == Advance(s, T, out)
           IN  /\ Steady(a) /\ RunsFresh(s, a) /\ a.turn = s.turn
               /\ \/ Failed(s, a)
                  \/ /\ a.phase = "live" /\ a.net = s.net /\ a.told = s.told
                     /\ a.msg = s.msg /\ a.round.status = "open"
<1> DEFINE first == FirstKnown(s.round, T)
           q == Walked(s.round, T)
           ask == s.asking \cup (first \cap Gated)
           w == [s EXCEPT !.round = q, !.asking = ask]
           a == Advance(s, T, out)
<1>1. s \in RequestState /\ s.round \in Round /\ s.turn # 0 /\ s.turn \in Nat
  BY DEF Good, RequestState, TurnIsKnown
<1>2. /\ s.round.settled \subseteq s.round.sent /\ s.round.sent \subseteq s.round.calls
      /\ Held(s) = s.round.sent \ s.round.settled /\ s.running \cap s.asking = {}
  BY DEF Steady, Accounts
<1>3. /\ q.status = "open" /\ q.calls = s.round.calls
      /\ q.settled \subseteq q.sent /\ q.sent \subseteq q.calls /\ s.round.sent \subseteq q.sent
      /\ q.sent \ q.settled = (s.round.sent \ s.round.settled) \cup first
      /\ first \cap s.round.sent = {} /\ first \subseteq q.sent
      /\ \A c, d \in first : c = d
  BY <1>1, <1>2, WalkedSteps
<1>4. q \in Round /\ first \in SUBSET Calls
  BY <1>1, WalkedType
<1>5. a = IF first \subseteq Gated THEN w
          ELSE Start(w, CHOOSE c \in first \ Gated : TRUE, out)
  BY DEF Advance
<1> HIDE DEF q, ask, first, a
<1>6. /\ w.phase = "live" /\ w.net = s.net /\ w.msg = s.msg /\ w.round = q
      /\ w.turn = s.turn /\ w.told = s.told /\ w.asking = ask /\ w.buffered = s.buffered
      /\ w.running = s.running /\ w.ran = s.ran
  BY <1>1 DEF RequestState
<1>7. ask \in SUBSET Calls
  BY <1>1, <1>4 DEF RequestState, ask
<1>8. w \in RequestState
  BY <1>1, <1>4, <1>7, Zenon DEF RequestState
<1> HIDE DEF w
<1>9. \A c \in first : <<s.net.opened, c>> \notin s.ran /\ OfNewest(s)
  BY <1>3, <1>4 DEF Steady, History, OnItsTurn, OfNewest
<1>10. CASE first \subseteq Gated
  <2>1. a = w /\ ask = s.asking \cup first
    BY <1>5, <1>10 DEF ask
  <2>2. Held(w) = Held(s) \cup first
    BY <1>6, <2>1 DEF Held
  <2>3. Accounts(w)
    BY <1>2, <1>3, <1>6, <2>1, <2>2 DEF Accounts, Held
  <2>4. OnItsTurn(w)
    BY <1>3, <1>6 DEF Steady, OnItsTurn, OfNewest
  <2>5. History(w)
    BY <1>3, <1>6, <1>9, <2>1 DEF Steady, History
  <2>6. GateFirst(w)
    BY <1>6, <1>9, <2>1 DEF Steady, GateFirst, OfNewest
  <2>7. QED
    BY <1>3, <1>6, <2>1, <2>3, <2>4, <2>5, <2>6 DEF Steady, RunsFresh, a, OfNewest
<1>11. CASE ~(first \subseteq Gated)
  <2>1. PICK c \in first : c \notin Gated /\ a = Start(w, c, out)
    BY <1>5, <1>11
  <2>2. first = {c} /\ ask = s.asking /\ c \in Calls
    BY <1>3, <1>4, <2>1 DEF ask
  <2>3. Begun(w)
    BY <1>1, <1>6, <1>8 DEF Good, DuringRequest, Begun, TurnIsKnown
  <2>4. /\ a.turn = s.turn /\ a.asking = s.asking /\ a.ran = s.ran \cup {<<s.net.opened, c>>}
        /\ \/ Failed(w, a) /\ a.running = {c}
           \/ /\ a.phase = "live" /\ a.running = s.running \cup {c}
              /\ a.net = s.net /\ a.msg = s.msg /\ a.round = q
              /\ a.told = s.told /\ a.buffered = s.buffered
    BY <1>1, <1>6, <2>1, <2>2, <2>3, StartSteps
  <2>5. c \notin s.asking
    BY <1>2, <1>3, <2>1 DEF Held
  <2>12. a.net.opened = s.net.opened
    BY <1>6, <2>4 DEF Failed
  <2>6. GateFirst(a)
    BY <2>4, <2>5, <2>12 DEF Steady, GateFirst, OfNewest
  <2>7. RunsFresh(s, a)
    BY <1>9, <2>1, <2>2, <2>4, <2>12 DEF RunsFresh, OfNewest
  <2>8. CASE Failed(w, a)
    <3>1. Failed(s, a)
      BY <1>6, <2>8 DEF Failed
    <3>2. QED
      BY <2>4, <2>6, <2>7, <3>1, GoneIsSteady DEF Failed, a
  <2>9. CASE /\ a.phase = "live" /\ a.running = s.running \cup {c}
             /\ a.net = s.net /\ a.msg = s.msg /\ a.round = q
             /\ a.told = s.told /\ a.buffered = s.buffered
    <3>1. Held(a) = Held(s) \cup first
      BY <2>2, <2>4, <2>9 DEF Held
    <3>2. Accounts(a)
      BY <1>2, <1>3, <2>4, <2>5, <2>9, <3>1 DEF Accounts
    <3>3. OnItsTurn(a)
      BY <1>3, <2>4, <2>9 DEF Steady, OnItsTurn, OfNewest
    <3>4. History(a)
      BY <1>3, <1>6, <2>1, <2>4, <2>5, <2>9 DEF Steady, History, Exchanges, Turns
    <3>5. QED
      BY <1>3, <2>4, <2>6, <2>7, <2>9, <3>2, <3>3, <3>4 DEF Steady, a
  <2>10. QED
    BY <2>4, <2>8, <2>9
<1>12. QED
  BY <1>10, <1>11

\* handleToolsCompleted: the limit, or the next exchange with a result for each call.
LEMMA ContinueSteps ==
    ASSUME NEW s, Good(s), Steady(s), s.phase = "live", s.round.status = "open",
           s.round.settled = s.round.calls, NEW out \in Outside
    PROVE  LET f == Continue(s, out)
           IN  /\ Steady(f) /\ (Failed(s, f) \/ Sent(s, f))
               /\ f.running = {} /\ f.turn = s.turn
               /\ f.phase = "live" => f.msg = s.msg
<1> DEFINE q == [s.round EXCEPT !.status = "closed"]
           d == Counted(s)
           f == Continue(s, out)
<1>1. /\ s \in RequestState /\ s.round \in Round /\ s.net \in Net /\ s.loops \in Nat
      /\ s.net.opened = s.loops + 1 /\ s.loops + 1 \in 0..(MaxRounds + 1)
      /\ s.turn \in Nat /\ s.turn # 0
  BY DEF Good, RequestState, DuringRequest, Net, TurnIsKnown
<1>2. s.running = {} /\ s.asking = {} /\ s.round.sent = s.round.calls
  BY DEF Steady, Accounts, Held
<1>3. /\ s.msg.state = "requires" /\ s.msg.uses = s.round.calls /\ s.msg.uses # {}
      /\ s.turn <= s.net.opened
  BY DEF Steady, OnItsTurn, OfNewest
<1>4. /\ q \in Round /\ q.status = "closed" /\ q.calls = s.round.calls
      /\ q.sent = s.round.calls /\ q.settled = s.round.calls
  BY <1>1, <1>2 DEF Round
<1>5. d = [s EXCEPT !.round = q, !.loops = @ + 1]
  BY DEF Counted
<1> HIDE DEF q
<1>6. d \in RequestState
  BY <1>1, <1>4, <1>5, Zenon DEF RequestState
<1>7. /\ d.phase = "live" /\ d.net = s.net /\ d.msg = s.msg /\ d.round = q
      /\ d.asking = {} /\ d.running = {} /\ d.ran = s.ran /\ d.turn = s.turn
      /\ d.told = s.told /\ d.buffered = s.buffered
  BY <1>1, <1>2, <1>5 DEF RequestState
<1>8. Begun(d)
  BY <1>1, <1>6, <1>7 DEF Good, DuringRequest, Begun, TurnIsKnown
<1>9. f = IF s.loops + 1 > MaxRounds THEN Fail(d, "limit") ELSE OpenExchange(d, out)
  BY <1>3 DEF Continue, NoBody, d
<1> HIDE DEF d, f
<1>10. ASSUME NEW reason \in {"transport", "provider", "cancelled", "limit"},
              f = Fail(d, reason)
       PROVE  Steady(f) /\ Failed(s, f) /\ f.running = {} /\ f.turn = s.turn
  <2>1. Failed(d, f) /\ f.running = {} /\ f.asking = {} /\ f.turn = s.turn
    BY <1>7, <1>8, <1>10, FailSteps
  <2>2. Failed(s, f)
    BY <1>7, <2>1 DEF Failed
  <2>3. QED
    BY <2>1, <2>2, GoneIsSteady DEF Failed, GateFirst, OfNewest
<1>11. CASE s.loops + 1 > MaxRounds \/ (out.noStream /\ ~d.buffered)
  <2>1. f = Fail(d, "limit") \/ f = Fail(d, "transport")
    BY <1>9, <1>11 DEF OpenExchange
  <2>2. Steady(f) /\ Failed(s, f) /\ f.running = {} /\ f.turn = s.turn
    BY <1>10, <2>1
  <2>3. QED
    BY <2>2 DEF f, Failed
<1>12. CASE ~(s.loops + 1 > MaxRounds \/ (out.noStream /\ ~d.buffered))
  <2> DEFINE n == Opened(d.net)
             g == [d EXCEPT !.net = n]
  <2>1. f = g
    BY <1>9, <1>12 DEF OpenExchange
  <2>2. n.opened = s.net.opened + 1 /\ n.cur = s.net.opened + 1
    BY <1>7 DEF Opened
  <2> HIDE DEF n
  <2>3. /\ g.phase = d.phase /\ g.net = n /\ g.msg = d.msg /\ g.round = d.round
        /\ g.asking = d.asking /\ g.running = d.running /\ g.ran = d.ran
        /\ g.turn = d.turn /\ g.told = d.told /\ g.buffered = d.buffered
    BY <1>6 DEF RequestState
  <2> HIDE DEF g
  <2>4. /\ f.phase = "live" /\ f.net = n /\ f.msg = s.msg /\ f.round = q
        /\ f.asking = {} /\ f.running = {} /\ f.ran = s.ran
        /\ f.turn = s.turn /\ f.told = s.told
    BY <1>7, <2>1, <2>3
  <2>5. s.net.opened \in Nat /\ f.net.opened = s.net.opened + 1 /\ f.turn < f.net.opened
    BY <1>1, <1>3, <2>2, <2>4
  <2>6. Accounts(f)
    BY <1>4, <2>4 DEF Accounts, Held
  <2>7. OnItsTurn(f)
    BY <1>1, <1>3, <1>4, <2>2, <2>4, <2>5 DEF OnItsTurn, OfNewest
  <2>8. History(f)
    <3>1. \A t \in Exchanges, c \in Calls : <<t, c>> \in s.ran => t <= s.net.opened /\ t \in Nat
      BY DEF Steady, History, Exchanges, Turns
    <3>2. \A t \in Exchanges, c \in Calls : <<t, c>> \in s.ran => t < f.net.opened
      BY <2>5, <3>1
    <3>3. s.ran \subseteq Exchanges \X Calls
      BY <1>1 DEF RequestState
    <3>4. \A c \in Calls : <<f.net.opened, c>> \notin s.ran
      BY <2>5, <3>2, <3>3
    <3>5. \A t \in Exchanges, c \in Calls : <<t, c>> \in s.ran => t <= f.net.opened
      BY <2>5, <3>1
    <3>6. QED
      BY <2>4, <3>4, <3>5 DEF History
  <2>9. Steady(f)
    BY <2>4, <2>6, <2>7, <2>8 DEF Steady, GateFirst, OfNewest
  <2>10. Sent(s, f)
    BY <1>3, <1>4, <2>4, <2>5 DEF Sent
  <2>11. QED
    BY <2>4, <2>9, <2>10 DEF f
<1>13. QED
  BY <1>11, <1>12

\* driveRound.
LEMMA DriveSteps ==
    ASSUME NEW s, Good(s), Steady(s), s.phase # "idle", NEW T, NEW out \in Outside
    PROVE  Steady(Drive(s, T, out)) /\ LoopStep(s, Drive(s, T, out))
<1> DEFINE next == Advance(s, T, out)
           f == Drive(s, T, out)
<1>1. CASE s.round.status # "open"
  <2>1. f = s
    BY <1>1 DEF Drive
  <2>2. QED
    BY <2>1 DEF LoopStep, Same, RunsFresh, OfNewest
<1>2. CASE s.round.status = "open"
  <2>1. s.phase = "live" /\ s.turn # 0
    BY <1>2 DEF Good, RequestState, AfterRequest, TurnIsKnown
  <2>2. /\ Steady(next) /\ RunsFresh(s, next) /\ next.turn = s.turn
        /\ \/ Failed(s, next)
           \/ /\ next.phase = "live" /\ next.net = s.net /\ next.told = s.told
              /\ next.msg = s.msg /\ next.round.status = "open"
    BY <1>2, <2>1, AdvanceSteps
  <2>3. Good(next)
    BY <2>1, AdvanceIsGood
  <2>4. f = IF next.round.status = "open" /\ next.round.settled = next.round.calls
            THEN Continue(next, out) ELSE next
    BY <1>2 DEF Drive
  <2> HIDE DEF next
  <2>5. CASE next.round.status = "open" /\ next.round.settled = next.round.calls
    <3>1. next.phase = "live"
      BY <2>3, <2>5 DEF Good, RequestState, AfterRequest, BeforeRequest
    <3>2. /\ Steady(f) /\ (Failed(next, f) \/ Sent(next, f))
          /\ f.running = {} /\ (f.phase = "live" => f.msg = next.msg)
      BY <2>2, <2>3, <2>4, <2>5, <3>1, ContinueSteps
    <3>3. next.net = s.net /\ next.told = s.told /\ next.msg = s.msg
      BY <2>2, <3>1 DEF Failed
    <3>4. Failed(s, f) \/ Sent(s, f)
      BY <2>1, <3>2, <3>3 DEF Failed, Sent
    <3>5. RunsFresh(s, f)
      BY <3>2 DEF RunsFresh, OfNewest
    <3>6. QED
      BY <3>2, <3>3, <3>4, <3>5 DEF LoopStep, f
  <2>6. CASE ~(next.round.status = "open" /\ next.round.settled = next.round.calls)
    <3>1. f = next
      BY <2>4, <2>6
    <3>2. Failed(s, f) \/ (Same(s, f) /\ f.msg = s.msg)
      BY <2>1, <2>2, <3>1 DEF Same
    <3>3. QED
      BY <2>2, <3>1, <3>2 DEF LoopStep, Failed, f
  <2>7. QED
    BY <2>5, <2>6
<1>3. QED
  BY <1>1, <1>2

\* executeToolsFromMessage and beginRound: offered once or again, the calls of a turn make
\* one round.
LEMMA BeginRoundSteps ==
    ASSUME NEW s, Good(s), Steady(s), s.phase # "idle", NEW T, NEW out \in Outside,
           s.msg.state = "requires" /\ s.round.status # "open" =>
               /\ s.net.cur # 0 => s.turn = s.net.opened
               /\ OfNewest(s)
    PROVE  Steady(BeginRound(s, T, out)) /\ LoopStep(s, BeginRound(s, T, out))
<1> DEFINE b == BeginRound(s, T, out)
<1>1. CASE s.msg.state # "requires"
  <2>1. b = s
    BY <1>1 DEF BeginRound
  <2>2. QED
    BY <2>1 DEF LoopStep, Same, RunsFresh, OfNewest
<1>2. CASE s.msg.state = "requires"
  <2> DEFINE q == IF s.round.status = "open" THEN AddCalls(s.round, s.msg.uses)
                  ELSE NewRound(s.msg.uses)
             f == [s EXCEPT !.round = q]
  <2>1. s \in RequestState /\ s.phase = "live" /\ s.turn # 0
    BY <1>2 DEF Good, RequestState, AfterRequest, TurnIsKnown
  <2>2. s.round \in Round /\ s.msg.uses \in SUBSET Calls
    BY <2>1 DEF RequestState, Message
  <2>3. q \in Round /\ q.status = "open"
    BY <2>2 DEF AddCalls, NewRound, Round
  <2>4. /\ s.round.status = "open" =>
             /\ q.calls = s.round.calls \cup s.msg.uses
             /\ q.sent = s.round.sent /\ q.settled = s.round.settled
        /\ s.round.status # "open" =>
             q.calls = s.msg.uses /\ q.sent = {} /\ q.settled = {}
    BY <2>2 DEF AddCalls, NewRound, Round
  <2>5. b = Drive(f, T, out)
    BY <1>2 DEF BeginRound
  <2> HIDE DEF q, b
  <2>6. Good(f) /\ f.phase = "live"
    BY <2>1, <2>3, RoundIsGood
  <2>7. /\ f.net = s.net /\ f.msg = s.msg /\ f.round = q /\ f.turn = s.turn
        /\ f.told = s.told /\ f.asking = s.asking /\ f.buffered = s.buffered
        /\ f.running = s.running /\ f.ran = s.ran
    BY <2>1 DEF RequestState
  <2> HIDE DEF f
  <2>8. s.round.status = "open" => q.calls = s.round.calls /\ q.calls = s.msg.uses
    BY <2>1, <2>4 DEF Steady, OnItsTurn, OfNewest
  <2>9. Accounts(f)
    BY <2>1, <2>3, <2>4, <2>7, <2>8 DEF Steady, Accounts, Held
  <2>10. OnItsTurn(f)
    BY <1>2, <2>1, <2>3, <2>4, <2>7, <2>8 DEF Steady, OnItsTurn, OfNewest
  <2>11. History(f)
    <3>1. CASE s.round.status = "open"
      BY <2>1, <2>3, <2>4, <2>7, <3>1 DEF Steady, History
    <3>2. CASE s.round.status # "open"
      <4>1. s.net.opened \in Nat
        BY <2>1 DEF RequestState, Net
      <4>2. QED
        BY <1>2, <2>1, <2>3, <2>7, <3>2, <4>1 DEF Steady, History
    <3>3. QED
      BY <3>1, <3>2
  <2>12. Steady(f)
    BY <2>6, <2>7, <2>9, <2>10, <2>11 DEF Steady, GateFirst, OfNewest
  <2>13. Steady(b) /\ LoopStep(f, b)
    BY <2>5, <2>6, <2>12, DriveSteps
  <2>14. LoopStep(s, b)
    BY <2>1, <2>6, <2>7, <2>13 DEF LoopStep, Same, Failed, Sent, RunsFresh, OfNewest
  <2>15. QED
    BY <2>13, <2>14 DEF b
<1>3. QED
  BY <1>1, <1>2

\* finalizePendingTool, for a call that was held until now.
LEMMA FinalizeToolSteps ==
    ASSUME NEW s, Good(s), s.phase # "idle", NEW c \in Calls, NEW T, NEW out \in Outside,
           OnItsTurn(s), History(s), GateFirst(s),
           s.phase = "live" =>
               /\ s.round.settled \subseteq s.round.sent /\ s.round.sent \subseteq s.round.calls
               /\ Held(s) \cup {c} = s.round.sent \ s.round.settled
               /\ c \notin Held(s) /\ s.running \cap s.asking = {}
               /\ s.round.status = "open"
    PROVE  /\ Steady(FinalizeTool(s, c, T, out))
           /\ LoopStep(s, FinalizeTool(s, c, T, out))
<1> DEFINE g == FinalizeTool(s, c, T, out)
           q == Settle(s.round, c)
           f == [s EXCEPT !.round = q]
<1>1. s \in RequestState /\ s.round \in Round
  BY DEF Good, RequestState
<1>2. CASE s.phase = "live"
  <2>1. c \in s.round.calls \ s.round.settled
    BY <1>2
  <2>2. g = Drive(f, T, out)
    BY <2>1 DEF FinalizeTool
  <2>3. /\ q.status = s.round.status /\ q.calls = s.round.calls /\ q.sent = s.round.sent
        /\ q.settled = s.round.settled \cup {c}
    BY <1>1, <2>1 DEF Settle, Round
  <2>4. q \in Round
    BY <1>1 DEF Settle, Round
  <2> HIDE DEF q, g
  <2>5. s.turn # 0
    BY <1>2 DEF Good, TurnIsKnown
  <2>6. Good(f) /\ f.phase = "live"
    BY <1>2, <2>4, <2>5, RoundIsGood
  <2>7. /\ f.net = s.net /\ f.msg = s.msg /\ f.round = q /\ f.turn = s.turn
        /\ f.told = s.told /\ f.asking = s.asking /\ f.buffered = s.buffered
        /\ f.running = s.running /\ f.ran = s.ran
    BY <1>1 DEF RequestState
  <2> HIDE DEF f
  <2>8. Accounts(f)
    <3>1. Held(f) = Held(s)
      BY <2>7 DEF Held
    <3>2. Held(s) = q.sent \ q.settled /\ q.settled \subseteq q.sent
      BY <1>2, <2>3
    <3>3. QED
      BY <1>2, <2>3, <2>7, <3>1, <3>2 DEF Accounts
  <2>9. OnItsTurn(f)
    BY <1>2, <2>3, <2>7 DEF OnItsTurn, OfNewest
  <2>10. History(f)
    BY <1>2, <2>3, <2>7 DEF History
  <2>11. Steady(f)
    BY <2>6, <2>7, <2>8, <2>9, <2>10 DEF Steady, GateFirst, OfNewest
  <2>12. Steady(g) /\ LoopStep(f, g)
    BY <2>2, <2>6, <2>11, DriveSteps
  <2>13. LoopStep(s, g)
    BY <1>2, <2>6, <2>7, <2>12 DEF LoopStep, Same, Failed, Sent, RunsFresh, OfNewest
  <2>14. QED
    BY <2>12, <2>13 DEF g
<1>3. CASE s.phase # "live"
  <2>1. s.phase = "gone" /\ s.round.status = "none"
    BY <1>1, <1>3 DEF Good, AfterRequest, RequestState
  <2>2. q.status = "none"
    BY <1>1, <2>1 DEF Settle, Round
  <2> HIDE DEF q
  <2>3. /\ f.phase = "gone" /\ f.round = q /\ f.net = s.net /\ f.told = s.told
        /\ f.turn = s.turn /\ f.msg = s.msg /\ f.asking = s.asking
        /\ f.running = s.running /\ f.ran = s.ran
    BY <1>1, <2>1 DEF RequestState
  <2>4. g = f \/ g = s
    <3>1. f.round.status # "open"
      BY <2>2, <2>3
    <3>2. Drive(f, T, out) = f
      BY <3>1 DEF Drive
    <3>3. QED
      BY <3>2 DEF FinalizeTool, q
  <2> HIDE DEF f, g
  <2>5. g.phase = "gone" /\ GateFirst(g) /\ LoopStep(s, g)
    BY <2>1, <2>3, <2>4 DEF GateFirst, LoopStep, Same, RunsFresh, OfNewest
  <2>6. QED
    BY <2>5, GoneIsSteady DEF g
<1>4. QED
  BY <1>2, <1>3

\* What a callback may do to one record.
Step(s, f) ==
    /\ Same(s, f) \/ Failed(s, f) \/ Sent(s, f) \/ Finalized(s, f)
    /\ RunsFresh(s, f)

\* Two records the application cannot tell apart, with the same round and executions.
Alike(s, f) ==
    /\ f.phase = s.phase /\ f.net.opened = s.net.opened /\ f.told = s.told
    /\ f.round = s.round /\ f.running = s.running /\ f.ran = s.ran

LEMMA StepFromAlike ==
    ASSUME NEW s, NEW h, NEW f, Alike(s, h), Step(h, f)
    PROVE  Step(s, f)
BY DEF Alike, Step, Same, Failed, Sent, Finalized, RunsFresh, OfNewest

\* The loop step of a record a callback prepared.
LEMMA LoopStepIsStep ==
    ASSUME NEW s, NEW f, LoopStep(s, f)
    PROVE  Step(s, f)
BY DEF LoopStep, Step

\* The end of the exchange a live record listens to.
LEMMA HearSteps ==
    ASSUME NEW s, Good(s), Steady(s), s.phase = "live", s.net.cur # 0,
           NEW status \in {"ended", "broken"}
    PROVE  LET h == Hear(s, status)
           IN  /\ Steady(h) /\ Alike(s, h)
               /\ h.net.cur = 0 /\ h.net.exch[h.net.opened] = status
               /\ h.msg = s.msg /\ h.turn = s.turn
<1> DEFINE n == Closed(s.net, status)
           h == [s EXCEPT !.net = n]
<1>1. s \in RequestState /\ s.net \in Net /\ s.net.cur = s.net.opened /\ s.net.opened \in Turns
  <2>1. s \in RequestState /\ s.net \in Net
    BY DEF Good, RequestState
  <2>2. s.net.cur = s.net.opened
    BY DEF Steady, OnItsTurn, OfNewest
  <2>3. QED
    BY <2>1, <2>2 DEF Net, Turns
<1>2. n.opened = s.net.opened /\ n.cur = 0 /\ n.exch[n.opened] = status
  BY <1>1 DEF Closed, Net
<1> HIDE DEF n
<1>3. /\ h.phase = s.phase /\ h.net = n /\ h.msg = s.msg /\ h.round = s.round
      /\ h.turn = s.turn /\ h.told = s.told /\ h.asking = s.asking
      /\ h.running = s.running /\ h.ran = s.ran
  BY <1>1 DEF RequestState
<1>4. Hear(s, status) = h
  BY DEF Hear, n
<1> HIDE DEF h
<1>5. Accounts(h)
  BY <1>3 DEF Steady, Accounts, Held
<1>6. OnItsTurn(h)
  BY <1>2, <1>3 DEF Steady, OnItsTurn, OfNewest
<1>7. History(h)
  BY <1>2, <1>3 DEF Steady, History
<1>8. Steady(h)
  BY <1>2, <1>3, <1>5, <1>6, <1>7 DEF Steady, GateFirst, OfNewest
<1>9. QED
  BY <1>2, <1>3, <1>4, <1>8 DEF Alike

\* ensureMessage for the newest exchange: a new turn, in which nothing ran.
LEMMA StartTurnSteps ==
    ASSUME NEW s, Good(s), Steady(s), s.phase = "live", s.round.status # "open",
           s.turn # s.net.opened, s.buffered => s.net.cur = 0
    PROVE  LET f == StartTurn(s, s.net.opened)
           IN  /\ Steady(f) /\ Alike(s, f) /\ f.net = s.net /\ f.turn = s.net.opened
               /\ f.msg.state = "building"
<1> DEFINE m == [state |-> "building", uses |-> {}]
           t == s.net.opened
           f == [s EXCEPT !.msg = m, !.turn = t]
<1>1. s \in RequestState /\ t \in Nat /\ s.turn \in Nat
  BY DEF Good, RequestState, Net
<1>2. m.state = "building"
  OBVIOUS
<1>3. StartTurn(s, s.net.opened) = f
  BY DEF StartTurn
<1> HIDE DEF m
<1>4. /\ f.phase = s.phase /\ f.net = s.net /\ f.msg = m /\ f.round = s.round
      /\ f.turn = t /\ f.told = s.told /\ f.asking = s.asking /\ f.buffered = s.buffered
      /\ f.running = s.running /\ f.ran = s.ran
  BY <1>1 DEF RequestState
<1> HIDE DEF f
<1>5. s.turn < t /\ s.running = {} /\ s.asking = {}
  BY <1>1 DEF Steady, OnItsTurn, Accounts, Held, OfNewest
<1>6. Accounts(f)
  BY <1>4 DEF Steady, Accounts, Held
<1>7. OnItsTurn(f)
  BY <1>1, <1>2, <1>4 DEF Steady, OnItsTurn, OfNewest
<1>8. History(f)
  BY <1>4 DEF Steady, History
<1>9. Steady(f)
  BY <1>4, <1>5, <1>6, <1>7, <1>8 DEF Steady, GateFirst, OfNewest
<1>10. QED
  BY <1>2, <1>3, <1>4, <1>9 DEF Alike

\* recordStopReason: the turn of the newest exchange is complete.
Stopped(s, U) ==
    [s EXCEPT !.msg = [state |-> IF U = {} THEN "done" ELSE "requires", uses |-> U]]

LEMMA StoppedSteps ==
    ASSUME NEW s, Good(s), Steady(s), s.phase = "live",
           s.turn = s.net.opened, NEW U \in SUBSET Calls,
           s.round.status = "open" => U = s.msg.uses
    PROVE  LET f == Stopped(s, U)
           IN  /\ Good(f) /\ Steady(f) /\ Alike(s, f) /\ f.net = s.net /\ f.turn = s.turn
               /\ f.msg.state = IF U = {} THEN "done" ELSE "requires"
<1> DEFINE m == [state |-> IF U = {} THEN "done" ELSE "requires", uses |-> U]
           f == [s EXCEPT !.msg = m]
<1>1. s \in RequestState /\ s.turn \in Turns
  <2>1. s \in RequestState /\ s.turn = s.loops + 1 /\ s.loops \in Nat
    BY DEF Good, RequestState, DuringRequest
  <2>2. QED
    BY <2>1 DEF RequestState, Turns
<1>2. m \in Message /\ m.state = (IF U = {} THEN "done" ELSE "requires") /\ m.uses = U
  BY DEF Message
<1>3. Stopped(s, U) = f
  BY DEF Stopped
<1> HIDE DEF m
<1>4. f = Said(s, m, s.turn)
  BY <1>1, <1>2 DEF RequestState, Said
<1>5. Good(f)
  BY <1>1, <1>2, <1>4, MessageIsGood
<1>6. /\ f.phase = s.phase /\ f.net = s.net /\ f.msg = m /\ f.round = s.round
      /\ f.turn = s.turn /\ f.told = s.told /\ f.asking = s.asking /\ f.buffered = s.buffered
      /\ f.running = s.running /\ f.ran = s.ran
  BY <1>1 DEF RequestState
<1> HIDE DEF f
<1>7. Accounts(f)
  BY <1>6 DEF Steady, Accounts, Held
<1>8. OnItsTurn(f)
  BY <1>2, <1>6 DEF Steady, OnItsTurn, OfNewest
<1>9. History(f)
  BY <1>6 DEF Steady, History
<1>10. Steady(f)
  BY <1>6, <1>7, <1>8, <1>9 DEF Steady, GateFirst, OfNewest
<1>11. QED
  BY <1>2, <1>3, <1>5, <1>6, <1>10 DEF Alike

\* recordStopReason and applyEffects in a stream that goes on.
LEMMA FinishTurnSteps ==
    ASSUME NEW s, Good(s), Steady(s), s.phase = "live",
           s.turn = s.net.opened, NEW U \in SUBSET Calls,
           s.round.status = "open" => U = s.msg.uses,
           NEW T, NEW out \in Outside
    PROVE  Steady(FinishTurn(s, U, T, out)) /\ Step(s, FinishTurn(s, U, T, out))
<1> DEFINE f == Stopped(s, U)
           g == FinishTurn(s, U, T, out)
<1>1. /\ Good(f) /\ Steady(f) /\ Alike(s, f) /\ f.net = s.net /\ f.turn = s.turn
  BY StoppedSteps
<1>2. g = IF provider = "event" THEN BeginRound(f, T, out) ELSE f
  BY DEF FinishTurn, Stopped
<1> HIDE DEF f, g
<1>3. CASE provider = "event"
  <2>1. Steady(g) /\ LoopStep(f, g)
    BY <1>1, <1>2, <1>3, BeginRoundSteps DEF Alike, OfNewest
  <2>2. QED
    BY <1>1, <2>1, LoopStepIsStep, StepFromAlike DEF g
<1>4. CASE provider # "event"
  <2>1. g = f
    BY <1>2, <1>4
  <2>2. Step(s, g)
    BY <1>1, <2>1 DEF Alike, Step, Same, RunsFresh, OfNewest
  <2>3. QED
    BY <1>1, <2>1, <2>2 DEF g
<1>5. QED
  BY <1>3, <1>4

\* completeRequest, after the newest exchange ended.
LEMMA CompleteIsStep ==
    ASSUME NEW s, Good(s), Steady(s), s.phase = "live",
           provider # "native" =>
               /\ s.msg.state # "requires"
               /\ s.net.cur = 0 /\ s.net.exch[s.net.opened] = "ended"
    PROVE  Steady(Complete(s)) /\ Step(s, Complete(s))
<1> DEFINE f == Complete(s)
<1>1. /\ f.phase = "gone" /\ f.net.opened = s.net.opened
      /\ f.told.finals = 1 /\ f.told.future = Answered(s.told.future, "resolved")
      /\ f.net.exch = [t \in Turns |-> IF t = s.net.cur /\ ~s.buffered THEN "aborted"
                                       ELSE s.net.exch[t]]
      /\ f.running = {} /\ f.asking = s.asking /\ f.ran = s.ran /\ f.turn = s.turn
  BY GoodIsBegun, CompleteSteps
<1>2. s.net.opened \in Turns /\ s.net.opened # 0
  <2>1. s \in RequestState /\ s.net \in Net /\ s.loops \in Nat /\ s.net.opened = s.loops + 1
    BY DEF Good, RequestState, DuringRequest
  <2>2. QED
    BY <2>1 DEF Net, Turns
<1> HIDE DEF f
<1>3. provider # "native" => s.round.status # "open" /\ f.net.exch[s.net.opened] = "ended"
  BY <1>1, <1>2 DEF Steady, OnItsTurn, OfNewest
<1>4. Finalized(s, f)
  BY <1>1, <1>3 DEF Finalized
<1>5. Steady(f)
  BY <1>1, GoneIsSteady DEF Steady, GateFirst, OfNewest
<1>6. QED
  BY <1>1, <1>4, <1>5 DEF Step, RunsFresh, f, OfNewest

\* onStreamFinished after a clean end of the newest exchange.
LEMMA DrainedSteps ==
    ASSUME NEW s, Good(s), Steady(s), s.phase = "live",
           s.net.cur = 0, s.net.exch[s.net.opened] = "ended",
           s.msg.state = "requires" => EmptyTurns \/ s.turn = s.net.opened,
           NEW T, NEW out \in Outside
    PROVE  Steady(Drained(s, T, out)) /\ Step(s, Drained(s, T, out))
<1> DEFINE h == IF provider = "drain" /\ s.phase = "live" THEN BeginRound(s, T, out) ELSE s
           f == Drained(s, T, out)
<1>1. f = IF h.phase = "live" /\ h.msg.state = "requires" THEN h ELSE Complete(h)
  BY DEF Drained
<1>2. CASE s.msg.state # "requires"
  <2>1. h = s
    BY <1>2 DEF BeginRound
  <2>2. f = Complete(s)
    BY <1>1, <1>2, <2>1
  <2>3. QED
    BY <1>2, <2>2, CompleteIsStep
<1>3. CASE s.msg.state = "requires"
  <2>1. Steady(h) /\ LoopStep(s, h)
    <3>1. provider = "drain" =>
              Steady(BeginRound(s, T, out)) /\ LoopStep(s, BeginRound(s, T, out))
      BY <1>3, BeginRoundSteps DEF OfNewest
    <3>2. LoopStep(s, s)
      BY DEF LoopStep, Same, RunsFresh, OfNewest
    <3>3. QED
      BY <3>1, <3>2
  <2> HIDE DEF h
  <2>2. f = h
    BY <1>1, <1>3, <2>1 DEF LoopStep, Complete
  <2>3. QED
    BY <2>1, <2>2, LoopStepIsStep
<1>4. QED
  BY <1>2, <1>3

\* A turn that ends with its exchange: in the last event of the stream, or in a whole body.
LEMMA FinishDrainedSteps ==
    ASSUME NEW s, Good(s), Steady(s), s.phase = "live", s.turn = s.net.opened,
           s.round.status # "open",
           s.net.cur = 0, s.net.exch[s.net.opened] = "ended",
           NEW U \in SUBSET Calls, NEW T, NEW out \in Outside
    PROVE  LET g == Drained(FinishTurn(s, U, T, out), T, out)
           IN  Steady(g) /\ Step(s, g)
<1> DEFINE f == Stopped(s, U)
           b == FinishTurn(s, U, T, out)
           g == Drained(b, T, out)
<1>1. /\ Good(f) /\ Steady(f) /\ Alike(s, f) /\ f.net = s.net /\ f.turn = s.turn
      /\ f.msg.state = IF U = {} THEN "done" ELSE "requires"
  BY StoppedSteps
<1>2. b = IF provider = "event" THEN BeginRound(f, T, out) ELSE f
  BY DEF FinishTurn, Stopped
<1>3. g = LET h == IF provider = "drain" /\ b.phase = "live" THEN BeginRound(b, T, out) ELSE b
          IN  IF h.phase = "live" /\ h.msg.state = "requires" THEN h ELSE Complete(h)
  BY DEF Drained
<1> HIDE DEF f, b
<1>4. CASE U = {} \/ provider # "event"
  <2>1. b = f
    BY <1>1, <1>2, <1>4 DEF BeginRound
  <2>2. Steady(Drained(f, T, out)) /\ Step(f, Drained(f, T, out))
    BY <1>1, DrainedSteps DEF Alike
  <2>3. QED
    BY <1>1, <2>1, <2>2, StepFromAlike DEF b
<1>5. CASE ~(U = {} \/ provider # "event")
  <2>1. b = BeginRound(f, T, out)
    BY <1>2, <1>5
  <2>2. Steady(b) /\ LoopStep(f, b)
    BY <1>1, <2>1, BeginRoundSteps DEF Alike, OfNewest
  <2>3. b.phase = "live" => b.msg.state = "requires"
    BY <1>1, <1>5, <2>2 DEF LoopStep
  <2>4. b.phase = "live" \/ b.phase = "gone"
    BY <1>1, <2>2 DEF LoopStep, Same, Failed, Sent, Alike
  <2>5. g = b
    BY <1>3, <1>5, <2>3, <2>4 DEF Complete
  <2>6. QED
    BY <1>1, <2>2, <2>5, LoopStepIsStep, StepFromAlike DEF b
<1>6. QED
  BY <1>4, <1>5

\* A request begins, or is refused on the spot.
Begins(s, f) ==
    /\ s.phase = "idle" /\ s.net.opened = 0
    /\ f.running = {} /\ f.told.finals = 0
    /\ \/ /\ f.phase = "live" /\ f.net.opened = 1 /\ f.told.fails = 0
          /\ f.told.future \in {"none", "pending"}
       \/ /\ f.phase = "gone" /\ f.net.opened = 0 /\ f.told.fails = 1
          /\ f.told.future \in {"none", "rejected"}

Moves(s, f) == Step(s, f) \/ Begins(s, f)

\* One callback, seen from its request.
Moved(r) == \E f : Becomes(r, f) /\ Steady(f) /\ Moves(st[r], f)

LEMMA IdleFields ==
    /\ Idle.net.opened = 0 /\ Idle.msg.state = "none" /\ Idle.round.status = "none"
    /\ Idle.round.calls = {} /\ Idle.round.sent = {} /\ Idle.round.settled = {}
    /\ Idle.asking = {} /\ Idle.running = {} /\ Idle.ran = {} /\ Idle.turn = 0
    /\ \A t \in Turns : Idle.net.exch[t] = "unsent"
BY DEF Idle, NoMessage, NoRound

LEMMA AskMoves ==
    ASSUME IInv, SteadyIInv, NEW r \in Requests, Ask(r)
    PROVE  Moved(r)
<1>1. alive /\ st[r].phase = "idle" /\ st[r] = Idle /\ Good(st[r])
  BY DEF Ask, IInv, SteadyIInv, Steady
<1>2. PICK buffered \in BOOLEAN, oneShot \in BOOLEAN, out \in Outside :
          Becomes(r, OpenExchange(Asked(st[r], buffered, oneShot), out))
  BY DEF Ask
<1> DEFINE s == st[r]
           t == [s.told EXCEPT !.future = IF oneShot THEN "pending" ELSE "none"]
           a == [s EXCEPT !.phase = "live", !.buffered = buffered, !.told = t]
           g == OpenExchange(a, out)
<1>3. s \in RequestState /\ s.told \in Report
  BY <1>1 DEF Good, RequestState
<1>4. /\ t \in Report /\ t.future \in {"none", "pending"}
      /\ t.finals = 0 /\ t.fails = 0 /\ t.why = "none"
  BY <1>1, <1>3 DEF Report, Good, BeforeRequest
<1>5. Asked(st[r], buffered, oneShot) = a
  BY DEF Asked
<1> HIDE DEF t
<1>6. a \in RequestState
  BY <1>2, <1>3, <1>4, Zenon DEF RequestState
<1>7. /\ a.phase = "live" /\ a.net = s.net /\ a.msg = s.msg /\ a.round = s.round
      /\ a.asking = s.asking /\ a.running = s.running /\ a.ran = s.ran
      /\ a.turn = s.turn /\ a.told = t
  BY <1>3 DEF RequestState
<1>8. /\ s.net.opened = 0 /\ s.msg.state = "none" /\ s.round.status = "none"
      /\ s.round.calls = {} /\ s.round.sent = {} /\ s.round.settled = {}
      /\ s.asking = {} /\ s.running = {} /\ s.ran = {} /\ s.turn = 0
  BY <1>1, IdleFields
<1> HIDE DEF a
<1>9. Begun(a)
  BY <1>4, <1>6, <1>7, <1>8 DEF Begun, TurnIsKnown
<1>10. CASE out.noStream /\ ~a.buffered
  <2>1. g = Fail(a, "transport")
    BY <1>10 DEF OpenExchange
  <2>2. Failed(a, g) /\ g.running = {} /\ g.asking = {}
    BY <1>7, <1>8, <1>9, <2>1, FailSteps
  <2> HIDE DEF g
  <2>3. Begins(s, g)
    BY <1>1, <1>4, <1>7, <1>8, <2>2 DEF Begins, Failed, Answered
  <2>4. Steady(g)
    BY <2>2, GoneIsSteady DEF Failed, GateFirst, OfNewest
  <2>5. Becomes(r, g)
    BY <1>2, <1>5 DEF g
  <2>6. QED
    BY <2>3, <2>4, <2>5 DEF Moved, Moves
<1>11. CASE ~(out.noStream /\ ~a.buffered)
  <2> DEFINE n == Opened(a.net)
             f == [a EXCEPT !.net = n]
  <2>1. g = f
    BY <1>11 DEF OpenExchange
  <2>2. n.opened = 1 /\ n.cur = 1
    BY <1>7, <1>8 DEF Opened
  <2> HIDE DEF n
  <2>3. /\ f.phase = a.phase /\ f.net = n /\ f.msg = a.msg /\ f.round = a.round
        /\ f.asking = a.asking /\ f.running = a.running /\ f.ran = a.ran
        /\ f.turn = a.turn /\ f.told = a.told
    BY <1>6 DEF RequestState
  <2> HIDE DEF f, g
  <2>4. /\ g.phase = "live" /\ g.net.opened = 1 /\ g.net.cur = 1 /\ g.turn = 0
        /\ g.msg.state = "none" /\ g.round.status = "none"
        /\ g.round.calls = {} /\ g.round.sent = {} /\ g.round.settled = {}
        /\ g.asking = {} /\ g.running = {} /\ g.ran = {} /\ g.told = t
    BY <1>7, <1>8, <2>1, <2>2, <2>3
  <2>5. Steady(g)
    BY <2>4 DEF Steady, Accounts, Held, OnItsTurn, History, GateFirst, OfNewest
  <2>6. Begins(s, g)
    BY <1>1, <1>4, <1>8, <2>4 DEF Begins
  <2>7. Becomes(r, g)
    BY <1>2, <1>5 DEF g
  <2>8. QED
    BY <2>5, <2>6, <2>7 DEF Moved, Moves
<1>12. QED
  BY <1>10, <1>11

\* failRequest.
LEMMA FailIsStep ==
    ASSUME NEW s, Good(s), Steady(s), s.phase = "live",
           NEW reason \in {"transport", "provider", "cancelled", "limit"}
    PROVE  Steady(Fail(s, reason)) /\ Step(s, Fail(s, reason))
<1> DEFINE f == Fail(s, reason)
<1>1. Failed(s, f) /\ f.running = {} /\ f.asking = s.asking /\ f.ran = s.ran /\ f.turn = s.turn
  BY GoodIsBegun, FailSteps
<1> HIDE DEF f
<1>2. Steady(f) /\ Step(s, f)
  BY <1>1, GoneIsSteady DEF Failed, Steady, GateFirst, Step, RunsFresh, OfNewest
<1>3. QED
  BY <1>2 DEF f

\* An exchange nobody listens to.
LEMMA OldExchangeMoves ==
    ASSUME IInv, SteadyIInv, NEW r \in Requests, OldExchangeEnds(r)
    PROVE  Moved(r)
<1> DEFINE s == st[r]
<1>1. alive /\ Good(s) /\ Steady(s)
  BY DEF OldExchangeEnds, IInv, SteadyIInv
<1>2. PICK t \in Turns : s.net.exch[t] = "open"
                         /\ Becomes(r, [s EXCEPT !.net = Forgotten(s.net, t)])
  BY DEF OldExchangeEnds
<1> DEFINE n == Forgotten(s.net, t)
           f == [s EXCEPT !.net = n]
<1>3. s \in RequestState
  BY <1>1 DEF Good
<1>4. s.phase # "idle"
  <2> SUFFICES ASSUME s = Idle PROVE FALSE
    BY <1>1 DEF Steady
  <2>1. s.net.exch[t] = "unsent"
    BY IdleFields
  <2>2. QED
    BY <1>2, <2>1
<1>5. n.opened = s.net.opened /\ n.cur = s.net.cur
  BY DEF Forgotten
<1>6. Becomes(r, f)
  BY <1>2
<1> HIDE DEF n
<1>7. /\ f.phase = s.phase /\ f.net = n /\ f.msg = s.msg /\ f.round = s.round
      /\ f.turn = s.turn /\ f.told = s.told /\ f.asking = s.asking
      /\ f.buffered = s.buffered /\ f.running = s.running /\ f.ran = s.ran
  BY <1>3 DEF RequestState
<1> HIDE DEF f
<1>8. Steady(f)
  BY <1>1, <1>4, <1>5, <1>7
     DEF Steady, Accounts, Held, OnItsTurn, History, GateFirst, OfNewest
<1>9. Step(s, f)
  BY <1>5, <1>7 DEF Step, Same, RunsFresh, OfNewest
<1>10. QED
  BY <1>6, <1>8, <1>9 DEF Moved, Moves

\* A tool's result or a gate's answer.
LEMMA ToolEventMoves ==
    ASSUME IInv, SteadyIInv, NEW r \in Requests, ToolEvent(r)
    PROVE  Moved(r)
<1> DEFINE s == st[r]
<1>1. PICK c \in Calls : ToolFinishes(r, c) \/ GateAnswers(r, c)
  BY DEF ToolEvent
<1>2. /\ alive /\ Good(s) /\ Steady(s) /\ s \in RequestState /\ c \in Held(s)
      /\ s.running \in SUBSET Calls /\ s.asking \in SUBSET Calls
      /\ s.ran \in SUBSET (Exchanges \X Calls)
      /\ s.asking # {} => s.turn # 0
  BY <1>1 DEF ToolFinishes, GateAnswers, IInv, SteadyIInv, Good, Held, TurnIsKnown, RequestState
<1>3. s.phase # "idle"
  BY <1>2 DEF Good, BeforeRequest, Held
<1>4. s.phase = "live" =>
          /\ s.round.settled \subseteq s.round.sent /\ s.round.sent \subseteq s.round.calls
          /\ Held(s) = s.round.sent \ s.round.settled
          /\ s.running \cap s.asking = {} /\ s.round.status = "open"
  BY <1>2 DEF Steady, Accounts
<1>5. CASE ToolFinishes(r, c)
  <2> DEFINE run == s.running \ {c}
             f == [s EXCEPT !.running = run]
  <2>1. PICK out \in Outside : Becomes(r, FinalizeTool(f, c, tools, out))
    BY <1>5 DEF ToolFinishes
  <2>2. run \in SUBSET Calls /\ c \in s.running
    BY <1>2, <1>5 DEF ToolFinishes
  <2> HIDE DEF run
  <2>3. f = Carry(s, run, s.asking, s.ran)
    BY <1>2, Zenon DEF RequestState, Carry
  <2>4. Good(f)
    BY <1>2, <1>3, <2>2, <2>3, CarryIsGood
  <2>5. /\ f.phase = s.phase /\ f.net = s.net /\ f.msg = s.msg /\ f.round = s.round
        /\ f.turn = s.turn /\ f.told = s.told /\ f.asking = s.asking
        /\ f.buffered = s.buffered /\ f.running = run /\ f.ran = s.ran
    BY <1>2 DEF RequestState
  <2> DEFINE g == FinalizeTool(f, c, tools, out)
  <2> HIDE DEF f
  <2>6. f.phase = "live" =>
            /\ f.round.settled \subseteq f.round.sent /\ f.round.sent \subseteq f.round.calls
            /\ Held(f) \cup {c} = f.round.sent \ f.round.settled
            /\ c \notin Held(f) /\ f.running \cap f.asking = {} /\ f.round.status = "open"
    BY <1>4, <2>2, <2>5 DEF Held, run
  <2>7. OnItsTurn(f) /\ History(f) /\ GateFirst(f)
    BY <1>2, <2>5 DEF Steady, OnItsTurn, History, GateFirst, OfNewest
  <2>8. Steady(g) /\ LoopStep(f, g)
    BY <1>3, <2>4, <2>5, <2>6, <2>7, FinalizeToolSteps
  <2> HIDE DEF g
  <2>9. Step(s, g)
    BY <2>5, <2>8 DEF LoopStep, Step, Same, Failed, Sent, RunsFresh, run, OfNewest
  <2>10. QED
    BY <2>1, <2>8, <2>9 DEF Moved, Moves, g
<1>6. CASE GateAnswers(r, c)
  <2> DEFINE ask == s.asking \ {c}
             f == [s EXCEPT !.asking = ask]
  <2>1. PICK allowed \in BOOLEAN, out \in Outside :
            Becomes(r, IF allowed /\ c \in tools THEN Start(f, c, out)
                       ELSE FinalizeTool(f, c, tools, out))
    BY <1>6 DEF GateAnswers
  <2>2. ask \in SUBSET Calls /\ c \in s.asking /\ s.turn # 0
    BY <1>2, <1>6 DEF GateAnswers
  <2> HIDE DEF ask
  <2>3. f = Carry(s, s.running, ask, s.ran)
    BY <1>2, Zenon DEF RequestState, Carry
  <2>4. Good(f)
    BY <1>2, <1>3, <2>2, <2>3, CarryIsGood
  <2>5. /\ f.phase = s.phase /\ f.net = s.net /\ f.msg = s.msg /\ f.round = s.round
        /\ f.turn = s.turn /\ f.told = s.told /\ f.asking = ask
        /\ f.buffered = s.buffered /\ f.running = s.running /\ f.ran = s.ran
    BY <1>2 DEF RequestState
  <2>6. PICK g : Becomes(r, g) /\ (g = Start(f, c, out) \/ g = FinalizeTool(f, c, tools, out))
    BY <2>1
  <2>7. f \in RequestState
    BY <2>4 DEF Good
  <2> HIDE DEF f
  <2>8. <<s.net.opened, c>> \notin s.ran /\ OfNewest(s)
    BY <1>2, <2>2 DEF Steady, GateFirst, OfNewest
  <2>9. CASE g = FinalizeTool(f, c, tools, out)
    <3>1. f.phase = "live" =>
              /\ f.round.settled \subseteq f.round.sent /\ f.round.sent \subseteq f.round.calls
              /\ Held(f) \cup {c} = f.round.sent \ f.round.settled
              /\ c \notin Held(f) /\ f.running \cap f.asking = {} /\ f.round.status = "open"
      BY <1>4, <2>2, <2>5 DEF Held, ask
    <3>2. OnItsTurn(f) /\ History(f) /\ GateFirst(f)
      BY <1>2, <2>5 DEF Steady, OnItsTurn, History, GateFirst, ask, OfNewest
    <3>3. Steady(g) /\ LoopStep(f, g)
      BY <1>3, <2>4, <2>5, <2>9, <3>1, <3>2, FinalizeToolSteps
    <3>4. Step(s, g)
      BY <2>5, <3>3 DEF LoopStep, Step, Same, Failed, Sent, RunsFresh, OfNewest
    <3>5. QED
      BY <2>6, <3>3, <3>4 DEF Moved, Moves
  <2>10. CASE g = Start(f, c, out) /\ s.phase = "live"
    <3>1. Begun(f) /\ f.turn # 0
      BY <2>2, <2>4, <2>5, <2>10, GoodIsBegun
    <3>2. /\ g.turn = f.turn /\ g.asking = f.asking /\ g.ran = f.ran \cup {<<f.net.opened, c>>}
          /\ \/ Failed(f, g) /\ g.running = {c}
             \/ /\ g.phase = "live" /\ g.running = f.running \cup {c}
                /\ g.net = f.net /\ g.msg = f.msg /\ g.round = f.round
                /\ g.told = f.told /\ g.buffered = f.buffered
      BY <2>10, <3>1, StartSteps
    <3>8. g.net.opened = s.net.opened
      BY <2>5, <3>2 DEF Failed
    <3>3. GateFirst(g)
      BY <1>2, <2>5, <3>2, <3>8 DEF Steady, GateFirst, ask, OfNewest
    <3>4. RunsFresh(s, g)
      BY <2>5, <2>8, <3>2, <3>8 DEF RunsFresh, OfNewest
    <3>5. CASE Failed(f, g)
      <4>1. Failed(s, g)
        BY <2>5, <3>5 DEF Failed
      <4>2. QED
        BY <2>6, <3>3, <3>4, <4>1, GoneIsSteady DEF Failed, Moved, Moves, Step
    <3>6. CASE ~Failed(f, g)
      <4>1. /\ g.phase = "live" /\ g.running = s.running \cup {c} /\ g.asking = ask
            /\ g.net = s.net /\ g.msg = s.msg /\ g.round = s.round /\ g.turn = s.turn
            /\ g.told = s.told /\ g.buffered = s.buffered /\ g.ran = s.ran \cup {<<s.net.opened, c>>}
        BY <2>5, <3>2, <3>6
      <4>2. Held(g) = Held(s)
        BY <2>2, <4>1 DEF Held, ask
      <4>3. Accounts(g)
        BY <1>4, <2>10, <4>1, <4>2 DEF Accounts, ask
      <4>4. OnItsTurn(g)
        BY <1>2, <2>10, <4>1 DEF Steady, OnItsTurn, OfNewest
      <4>5. History(g)
        <5>1. c \in s.round.sent /\ s.net.opened \in Nat /\ s.round.status = "open"
          BY <1>2, <1>4, <2>2, <2>10 DEF RequestState, Net
        <5>2. QED
          BY <1>2, <2>10, <4>1, <5>1 DEF Steady, History, ask
      <4>6. Steady(g)
        BY <3>3, <4>1, <4>3, <4>4, <4>5 DEF Steady
      <4>7. QED
        BY <2>6, <2>10, <3>4, <4>1, <4>6 DEF Moved, Moves, Step, Same
    <3>7. QED
      BY <3>5, <3>6
  <2>11. CASE g = Start(f, c, out) /\ s.phase # "live"
    <3> DEFINE on == f.running \cup {c}
               did == f.ran \cup {<<f.net.opened, c>>}
               k == [f EXCEPT !.running = on, !.ran = did]
    <3>1. g = k
      BY <2>5, <2>11 DEF Start, Fail
    <3> HIDE DEF on, did
    <3>2. /\ k.phase = f.phase /\ k.net = f.net /\ k.told = f.told /\ k.turn = f.turn
          /\ k.asking = f.asking /\ k.running = on /\ k.ran = did
      BY <2>7 DEF RequestState
    <3> HIDE DEF k
    <3>3. /\ g.phase = s.phase /\ g.net = s.net /\ g.told = s.told /\ g.turn = s.turn
          /\ g.asking = ask /\ g.running = s.running \cup {c} /\ g.ran = s.ran \cup {<<s.net.opened, c>>}
      BY <2>5, <3>1, <3>2 DEF on, did
    <3>4. s.phase = "gone"
      BY <1>2, <1>3, <2>11 DEF RequestState
    <3>5. GateFirst(g)
      BY <1>2, <3>3 DEF Steady, GateFirst, ask, OfNewest
    <3>6. Step(s, g)
      BY <2>8, <3>3 DEF Step, Same, RunsFresh, OfNewest
    <3>7. QED
      BY <2>6, <3>3, <3>4, <3>5, <3>6, GoneIsSteady DEF Moved, Moves
  <2>12. QED
    BY <2>6, <2>9, <2>10, <2>11
<1>7. QED
  BY <1>1, <1>5, <1>6

\* Every callback of an exchange.
LEMMA ExchangeMoves ==
    ASSUME IInv, SteadyIInv, NEW r \in Requests, Exchange(r) \/ TurnEndsAgain(r)
    PROVE  Moved(r)
<1> DEFINE s == st[r]
<1>1. Live(r)
  BY DEF Exchange, TurnStarts, TurnEnds, ProviderError, NativeStop, StreamEnds,
         StreamBreaks, BufferedReply, TurnEndsAgain, Streaming
<1>2. /\ Good(s) /\ Steady(s) /\ s.phase = "live" /\ s.msg.uses \in SUBSET Calls
      /\ s.net.cur # 0 => s.net.cur = s.net.opened /\ s.net.opened \in Turns
  <2>1. Good(s) /\ Steady(s) /\ s.phase = "live" /\ s.msg.uses \in SUBSET Calls
        /\ (s.net.cur # 0 => s.net.cur \in Turns)
    BY <1>1, StreamingIsGood DEF SteadyIInv
  <2>2. QED
    BY <2>1 DEF Steady, OnItsTurn, OfNewest
<1>3. \A f : Becomes(r, f) /\ Steady(f) /\ Step(s, f) => Moved(r)
  BY DEF Moved, Moves
<1>4. s.round.status = "open" => s.msg.state = "requires" /\ (s.net.cur # 0 => s.turn = s.net.opened)
  BY <1>2 DEF Steady, OnItsTurn, OfNewest
<1>5. CASE TurnStarts(r)
  <2>1. /\ s.net.cur # 0 /\ ~s.buffered /\ s.turn # s.net.opened
        /\ Becomes(r, StartTurn(s, s.net.opened))
    BY <1>2, <1>5 DEF TurnStarts, Streaming
  <2>2. LET f == StartTurn(s, s.net.opened)
        IN  Steady(f) /\ Alike(s, f)
    BY <1>2, <1>4, <2>1, StartTurnSteps
  <2>3. Step(s, StartTurn(s, s.net.opened))
    BY <2>2 DEF Alike, Step, Same, RunsFresh, OfNewest
  <2>4. QED
    BY <1>3, <2>1, <2>2, <2>3
<1>6. CASE TurnEnds(r)
  <2>1. PICK U \in SUBSET Calls, out \in Outside : Becomes(r, FinishTurn(s, U, tools, out))
    BY <1>6 DEF TurnEnds
  <2>2. s.net.cur # 0 /\ s.turn = s.net.opened /\ s.msg.state = "building"
    BY <1>2, <1>6 DEF TurnEnds, Streaming, OnTurn
  <2>3. Steady(FinishTurn(s, U, tools, out)) /\ Step(s, FinishTurn(s, U, tools, out))
    BY <1>2, <1>4, <2>2, FinishTurnSteps
  <2>4. QED
    BY <1>3, <2>1, <2>3
<1>7. CASE TurnEndsAgain(r)
  <2>1. PICK out \in Outside : Becomes(r, FinishTurn(s, s.msg.uses, tools, out))
    BY <1>7 DEF TurnEndsAgain
  <2>2. s.turn = s.net.opened
    BY <1>2, <1>7 DEF TurnEndsAgain, Streaming, OnTurn
  <2>3. /\ Steady(FinishTurn(s, s.msg.uses, tools, out))
        /\ Step(s, FinishTurn(s, s.msg.uses, tools, out))
    BY <1>2, <2>2, FinishTurnSteps
  <2>4. QED
    BY <1>3, <2>1, <2>3
<1>8. CASE ProviderError(r)
  BY <1>2, <1>3, <1>8, FailIsStep DEF ProviderError
<1>9. CASE NativeStop(r)
  BY <1>2, <1>3, <1>9, CompleteIsStep DEF NativeStop
<1> DEFINE h == Hear(s, "ended")
<1>10. s.net.cur # 0 =>
         /\ Good(h) /\ Steady(h) /\ Alike(s, h) /\ h.phase = "live"
         /\ h.net.cur = 0 /\ h.net.exch[h.net.opened] = "ended"
         /\ h.msg = s.msg /\ h.turn = s.turn
  BY <1>2, HearIsGood, HearSteps
<1>11. s.net.cur # 0 =>
         LET b == Hear(s, "broken")
         IN  Good(b) /\ Steady(b) /\ Alike(s, b) /\ b.phase = "live"
  BY <1>2, HearIsGood, HearSteps
<1> HIDE DEF h
<1>12. ASSUME s.net.cur # 0, Becomes(r, Fail(Hear(s, "broken"), "transport"))
       PROVE  Moved(r)
  BY <1>3, <1>11, <1>12, FailIsStep, StepFromAlike
<1>13. CASE StreamEnds(r)
  <2>1. PICK out \in Outside :
            \/ Becomes(r, Drained(h, tools, out))
            \/ /\ OnTurn(r, {"building"})
               /\ \E U \in SUBSET Calls :
                     Becomes(r, Drained(FinishTurn(h, U, tools, out), tools, out))
    BY <1>13 DEF StreamEnds, h
  <2>2. /\ s.net.cur # 0
        /\ EmptyTurns \/ s.msg.state # "requires" \/ s.turn = s.net.opened
    BY <1>2, <1>13 DEF StreamEnds, Streaming, OnTurn
  <2>3. CASE Becomes(r, Drained(h, tools, out))
    <3>1. h.msg.state = "requires" => EmptyTurns \/ h.turn = h.net.opened
      BY <1>10, <2>2 DEF Alike
    <3>2. Steady(Drained(h, tools, out)) /\ Step(h, Drained(h, tools, out))
      BY <1>10, <2>2, <3>1, DrainedSteps
    <3>3. QED
      BY <1>3, <1>10, <2>2, <2>3, <3>2, StepFromAlike
  <2>4. CASE /\ OnTurn(r, {"building"})
             /\ \E U \in SUBSET Calls :
                   Becomes(r, Drained(FinishTurn(h, U, tools, out), tools, out))
    <3>1. PICK U \in SUBSET Calls :
              Becomes(r, Drained(FinishTurn(h, U, tools, out), tools, out))
      BY <2>4
    <3>2. h.turn = h.net.opened /\ h.round.status # "open"
      BY <1>2, <1>4, <1>10, <2>2, <2>4 DEF OnTurn, Alike
    <3>3. LET g == Drained(FinishTurn(h, U, tools, out), tools, out)
          IN  Steady(g) /\ Step(h, g)
      BY <1>10, <2>2, <3>2, FinishDrainedSteps
    <3>4. QED
      BY <1>3, <1>10, <2>2, <3>1, <3>3, StepFromAlike
  <2>5. QED
    BY <2>1, <2>3, <2>4
<1>14. CASE StreamBreaks(r)
  BY <1>12, <1>14 DEF StreamBreaks, Streaming
<1>15. CASE BufferedReply(r)
  <2>1. s.net.cur # 0 /\ s.buffered
    BY <1>15 DEF BufferedReply
  <2>2. CASE BufferedTurn(r)
    <3> DEFINE k == StartTurn(h, s.net.cur)
    <3>1. PICK U \in SUBSET Calls, out \in Outside :
              Becomes(r, Drained(FinishTurn(k, U, tools, out), tools, out))
      BY <2>2 DEF BufferedTurn, h
    <3>2. s.turn # s.net.opened
      BY <1>2, <2>1 DEF Steady, OnItsTurn, OfNewest
    <3>3. h.round.status # "open" /\ h.turn # h.net.opened /\ s.net.cur = h.net.opened
      BY <1>2, <1>4, <1>10, <2>1, <3>2 DEF Alike
    <3>4. /\ Steady(k) /\ Alike(h, k) /\ k.net = h.net /\ k.turn = h.net.opened
          /\ Good(k)
      BY <1>2, <1>10, <2>1, <3>3, StartTurnSteps, StartTurnIsGood
    <3> HIDE DEF k
    <3>5. LET g == Drained(FinishTurn(k, U, tools, out), tools, out)
          IN  Steady(g) /\ Step(k, g)
      BY <1>10, <2>1, <3>3, <3>4, FinishDrainedSteps DEF Alike
    <3>6. QED
      BY <1>3, <1>10, <2>1, <3>1, <3>4, <3>5, StepFromAlike
  <2>3. CASE provider = "native" /\ Becomes(r, Complete(h))
    BY <1>3, <1>10, <2>1, <2>3, CompleteIsStep, StepFromAlike
  <2>4. CASE Becomes(r, Fail(h, "provider"))
    BY <1>3, <1>10, <2>1, <2>4, FailIsStep, StepFromAlike
  <2>5. QED
    BY <1>12, <1>15, <2>1, <2>2, <2>3, <2>4 DEF BufferedReply, h
<1>16. QED
  BY <1>5, <1>6, <1>7, <1>8, <1>9, <1>13, <1>14, <1>15 DEF Exchange

\* Each callback about one request moves that request, and no other.
LEMMA RequestMoves ==
    ASSUME IInv, SteadyIInv, NEW r \in Requests,
           \/ Ask(r) \/ Cancel(r) \/ Exchange(r) \/ TurnEndsAgain(r)
           \/ OldExchangeEnds(r) \/ ToolEvent(r)
    PROVE  Moved(r) /\ alive
<1>1. alive
  BY DEF Ask, Cancel, Exchange, TurnEndsAgain, OldExchangeEnds, ToolEvent, TurnStarts,
         TurnEnds, ProviderError, NativeStop, StreamEnds, StreamBreaks, BufferedReply,
         Streaming, Live, ToolFinishes, GateAnswers
<1>2. CASE Cancel(r)
  <2>1. Good(st[r]) /\ Steady(st[r]) /\ st[r].phase = "live"
        /\ Becomes(r, Fail(st[r], "cancelled"))
    BY <1>2 DEF Cancel, Live, IInv, SteadyIInv
  <2>2. QED
    BY <1>1, <2>1, FailIsStep DEF Moved, Moves
<1>3. QED
  BY <1>1, <1>2, AskMoves, ExchangeMoves, OldExchangeMoves, ToolEventMoves

\* What a step of the client does: one request moves, the client is destroyed, or no
\* request is touched.
LEMMA ClientMoves ==
    ASSUME IInv, SteadyIInv, [Next]_vars
    PROVE  \/ /\ alive /\ alive' = alive
              /\ \E r \in Requests : \E f : /\ st' = [st EXCEPT ![r] = f]
                                            /\ Steady(f) /\ Moves(st[r], f)
           \/ Destroy
           \/ st' = st /\ alive' = alive
<1>1. ASSUME NEW r \in Requests,
             \/ Ask(r) \/ Cancel(r) \/ Exchange(r) \/ TurnEndsAgain(r)
             \/ OldExchangeEnds(r) \/ ToolEvent(r)
      PROVE  /\ alive /\ alive' = alive
             /\ \E x \in Requests : \E f : /\ st' = [st EXCEPT ![x] = f]
                                           /\ Steady(f) /\ Moves(st[x], f)
  BY <1>1, RequestMoves DEF Moved, Becomes
<1>2. CASE RegistryChanges \/ UNCHANGED vars
  BY <1>2 DEF RegistryChanges, vars
<1>3. QED
  BY <1>1, <1>2 DEF Next

\* What the destructor leaves of a request.
LEMMA OrphanFields ==
    ASSUME NEW s, Good(s)
    PROVE  LET f == Orphan(s)
           IN  /\ f.phase = (IF s.phase = "live" THEN "gone" ELSE s.phase)
               /\ f.net.opened = s.net.opened /\ f.round.status # "open" /\ f.running = {}
               /\ f.told.finals = s.told.finals /\ f.told.fails = s.told.fails
               /\ f.told.future = Answered(s.told.future, "rejected")
<1> DEFINE n == IF s.phase = "live" THEN Released(s) ELSE s
           t == Rejected(n.told)
           f == [n EXCEPT !.asking = {}, !.running = {}, !.told = t]
<1>1. s \in RequestState
  BY DEF Good
<1>2. /\ n \in RequestState /\ n.told = s.told /\ n.net.opened = s.net.opened
      /\ n.phase = (IF s.phase = "live" THEN "gone" ELSE s.phase)
      /\ n.round.status # "open"
  BY <1>1, ReleasedType DEF Good, RequestState, BeforeRequest, AfterRequest
<1> HIDE DEF n
<1>3. n.told \in Report
  BY <1>2 DEF RequestState
<1>4. /\ t.finals = s.told.finals /\ t.fails = s.told.fails
      /\ t.future = Answered(s.told.future, "rejected")
  BY <1>2, <1>3 DEF Rejected, Report, Answered
<1>5. Orphan(s) = f
  BY DEF Orphan, n
<1> HIDE DEF t
<1>6. f.phase = n.phase /\ f.net = n.net /\ f.round = n.round /\ f.running = {} /\ f.told = t
  BY <1>2 DEF RequestState
<1> HIDE DEF f
<1>7. QED
  BY <1>2, <1>4, <1>5, <1>6

LEMMA InitSteady == Init => SteadyIInv
<1>1. Steady(Idle)
  BY DEF Idle, NoRound, NoMessage, Steady, Accounts, OnItsTurn, History, GateFirst, OfNewest
<1>2. QED
  BY <1>1 DEF Init, SteadyIInv

\* A client's provider is its class.
LEMMA ProviderStays == ASSUME [Next]_vars PROVE provider' = provider
BY DEF Next, vars, Ask, Cancel, Exchange, TurnStarts, TurnEnds, ProviderError, NativeStop,
       StreamEnds, StreamBreaks, BufferedReply, BufferedTurn, TurnEndsAgain,
       OldExchangeEnds, ToolEvent, ToolFinishes, GateAnswers, RegistryChanges, Destroy,
       Becomes

LEMMA NextKeepsSteady ==
    ASSUME IInv, SteadyIInv, [Next]_vars
    PROVE  SteadyIInv'
<1>1. CASE /\ alive /\ alive' = alive
           /\ \E r \in Requests : \E f : /\ st' = [st EXCEPT ![r] = f]
                                         /\ Steady(f) /\ Moves(st[r], f)
  <2>1. PICK r \in Requests : \E f : st' = [st EXCEPT ![r] = f] /\ Steady(f)
    BY <1>1
  <2>2. \A x \in Requests : Steady(st'[x])
    BY <1>1, <2>1 DEF IInv, SteadyIInv
  <2>3. ASSUME NEW x \in Requests
        PROVE  Steady(st[x])'
    <3>1. PICK f : f = st'[x]
      OBVIOUS
    <3>2. Steady(f)
      BY <2>2, <3>1
    <3>3. provider' = provider
      BY ProviderStays
    <3>4. QED
      BY <3>1, <3>2, <3>3 DEF Steady, Accounts, Held, OnItsTurn, History, GateFirst, OfNewest
  <2>4. QED
    BY <1>1, <2>3 DEF SteadyIInv
<1>2. CASE Destroy
  <2>1. \A r \in Requests : st'[r] = Orphan(st[r]) /\ Good(st[r])
    BY <1>2 DEF Destroy, IInv
  <2>2. \A r \in Requests : st'[r].round.status # "open"
    BY <2>1, OrphanFields
  <2>3. QED
    BY <1>2, <2>2 DEF Destroy, SteadyIInv
<1>3. CASE st' = st /\ alive' = alive
  BY <1>3, ProviderStays
     DEF SteadyIInv, Steady, Accounts, Held, OnItsTurn, History, GateFirst, OfNewest
<1>4. QED
  BY <1>1, <1>2, <1>3, ClientMoves

\* The calls, the rounds and the turns of every request stay in step.
THEOREM RoundsInvariant == Spec => [](IInv /\ SteadyIInv)
<1>1. IInv /\ SteadyIInv /\ [Next]_vars => (IInv /\ SteadyIInv)'
  BY NextKeepsIInv, NextKeepsSteady
<1>2. QED
  BY <1>1, InitIInv, InitSteady, PTL DEF Spec

\* Every call of an open round is queued, settled, or held by exactly one of the tool
\* handler and the gate: none is lost and none can be settled twice.
THEOREM RoundsAccountForCalls == Spec => []RoundAccountsForCalls
<1>1. IInv /\ SteadyIInv => RoundAccountsForCalls
  <2> SUFFICES ASSUME IInv, SteadyIInv, NEW r \in Requests, st[r].round.status = "open"
               PROVE  /\ st[r].phase = "live"
                      /\ st[r].round.settled \subseteq st[r].round.sent
                      /\ st[r].round.sent \ st[r].round.settled
                             = st[r].round.calls \cap Held(st[r])
                      /\ st[r].running \cap st[r].asking = {}
    BY DEF RoundAccountsForCalls
  <2>1. alive /\ Good(st[r]) /\ Steady(st[r])
    BY DEF IInv, SteadyIInv
  <2>2. st[r].phase = "live"
    BY <2>1 DEF Good, RequestState, BeforeRequest, AfterRequest
  <2>3. QED
    BY <2>1, <2>2 DEF Steady, Accounts
<1>2. QED
  BY <1>1, RoundsInvariant, PTL

\* What one step does to one request.
LEMMA RecordMoves ==
    ASSUME IInv, SteadyIInv, [Next]_vars, NEW r \in Requests
    PROVE  st'[r] = st[r] \/ Moves(st[r], st'[r]) \/ (Good(st[r]) /\ st'[r] = Orphan(st[r]))
<1>1. CASE /\ alive /\ alive' = alive
           /\ \E x \in Requests : \E f : /\ st' = [st EXCEPT ![x] = f]
                                         /\ Steady(f) /\ Moves(st[x], f)
  BY <1>1 DEF IInv
<1>2. CASE Destroy
  BY <1>2 DEF Destroy, IInv
<1>3. CASE st' = st /\ alive' = alive
  BY <1>3
<1>4. QED
  BY <1>1, <1>2, <1>3, ClientMoves

\* A request is finalized only by the clean end of its newest exchange, with no round
\* of tools open.
THEOREM FinalizedOnlyByLastExchange == Spec => FinalizedByLastExchange
<1>1. IInv /\ SteadyIInv /\ [Next]_vars =>
          [\A r \in Requests :
             st'[r].told.finals > st[r].told.finals /\ provider # "native" =>
                 /\ st[r].round.status # "open"
                 /\ st'[r].net.opened = st[r].net.opened
                 /\ st'[r].net.exch[st[r].net.opened] = "ended"]_vars
  <2> SUFFICES ASSUME IInv, SteadyIInv, [Next]_vars, NEW r \in Requests,
                      st'[r].told.finals > st[r].told.finals, provider # "native"
               PROVE  /\ st[r].round.status # "open"
                      /\ st'[r].net.opened = st[r].net.opened
                      /\ st'[r].net.exch[st[r].net.opened] = "ended"
    OBVIOUS
  <2>1. st[r].told.finals \in Nat
    BY DEF IInv, RequestState, Report
  <2>2. PICK f : f = st'[r]
    OBVIOUS
  <2>3. ~(f.told.finals = st[r].told.finals) /\ f.told.finals # 0
    BY <2>1, <2>2
  <2>4. Finalized(st[r], f)
    BY <2>2, <2>3, RecordMoves, OrphanFields
       DEF Moves, Begins, Step, Same, Failed, Sent
  <2>5. QED
    BY <2>2, <2>4 DEF Finalized
<1>2. QED
  BY <1>1, RoundsInvariant, PTL DEF Spec, FinalizedByLastExchange

\* A continuation is sent with a result for each call of the model's turn and for no
\* other.
THEOREM ContinuationsAnswerTurns == Spec => ContinuationAnswersTurn
<1>1. IInv /\ SteadyIInv /\ [Next]_vars =>
          [\A r \in Requests :
             st'[r].net.opened > st[r].net.opened /\ st[r].net.opened > 0 =>
                 /\ st'[r].round.status = "closed"
                 /\ st'[r].round.settled = st'[r].msg.uses]_vars
  <2> SUFFICES ASSUME IInv, SteadyIInv, [Next]_vars, NEW r \in Requests,
                      st'[r].net.opened > st[r].net.opened, st[r].net.opened > 0
               PROVE  /\ st'[r].round.status = "closed"
                      /\ st'[r].round.settled = st'[r].msg.uses
    OBVIOUS
  <2>1. st[r].net.opened \in Nat
    BY DEF IInv, RequestState, Net
  <2>2. PICK f : f = st'[r]
    OBVIOUS
  <2>3. f.net.opened # st[r].net.opened /\ st[r].net.opened # 0
    BY <2>1, <2>2
  <2>4. Sent(st[r], f)
    BY <2>2, <2>3, RecordMoves, OrphanFields
       DEF Moves, Begins, Step, Same, Failed, Finalized
  <2>5. QED
    BY <2>2, <2>4 DEF Sent
<1>2. QED
  BY <1>1, RoundsInvariant, PTL DEF Spec, ContinuationAnswersTurn

\* Whatever the turns bring, a call runs at most once for each exchange, and for an
\* earlier turn only at the end of an empty Google continuation.
THEOREM CallsRunOnce == Spec => CallRunsOnce
<1>1. IInv /\ SteadyIInv /\ [Next]_vars =>
          [\A r \in Requests :
             LET s == st'[r]
             IN  \A c \in s.running \ st[r].running :
                    /\ <<s.net.opened, c>> \notin st[r].ran
                    /\ s.turn = s.net.opened \/ (EmptyTurns /\ provider = "drain")]_vars
  <2> SUFFICES ASSUME IInv, SteadyIInv, [Next]_vars, NEW r \in Requests,
                      NEW c \in st'[r].running \ st[r].running
               PROVE  /\ <<st'[r].net.opened, c>> \notin st[r].ran
                      /\ st'[r].turn = st'[r].net.opened \/ (EmptyTurns /\ provider = "drain")
    OBVIOUS
  <2>1. PICK f : f = st'[r]
    OBVIOUS
  <2>2. RunsFresh(st[r], f) \/ f.running \subseteq st[r].running
    BY <2>1, RecordMoves, OrphanFields DEF Moves, Begins, Step
  <2>3. QED
    BY <2>1, <2>2 DEF RunsFresh, OfNewest
<1>2. QED
  BY <1>1, RoundsInvariant, PTL DEF Spec, CallRunsOnce

-----------------------------------------------------------------------------
(* RequestLifecycle implements RequestPromise *)

LEMMA OutcomeIs ==
    ASSUME NEW s
    PROVE  /\ s.phase = "idle" => Outcome(s) = "idle"
           /\ s.phase = "live" => Outcome(s) = "pending"
           /\ s.phase = "gone" /\ s.told.finals > 0 => Outcome(s) = "finalized"
           /\ s.phase = "gone" /\ s.told.finals = 0 /\ s.told.fails > 0 => Outcome(s) = "failed"
           /\ s.phase = "gone" /\ s.told.finals = 0 /\ s.told.fails = 0 => Outcome(s) = "dropped"
BY DEF Outcome

LEMMA OutcomeOfSame ==
    ASSUME NEW s, NEW f, f.phase = s.phase, f.told.finals = s.told.finals,
           f.told.fails = s.told.fails
    PROVE  Outcome(f) = Outcome(s)
BY DEF Outcome

\* A callback of one request is one step of the promise, or none.
LEMMA MoveMaps ==
    ASSUME IInv, IInv', alive, alive' = alive, NEW r \in Requests, NEW f,
           st' = [st EXCEPT ![r] = f], Moves(st[r], f)
    PROVE  Promise!Next \/ UNCHANGED Promise!vars
<1> DEFINE s == st[r]
<1>1. /\ st \in [Requests -> RequestState] /\ st'[r] = f
      /\ \A x \in Requests : x # r => st'[x] = st[x]
      /\ s.net.opened \in Nat /\ f.net.opened <= MaxRounds + 1
  <2>1. st \in [Requests -> RequestState] /\ st' \in [Requests -> RequestState]
    BY DEF IInv
  <2>2. st[r].net \in Net /\ st'[r].net \in Net
    BY <2>1 DEF RequestState
  <2>3. QED
    BY <2>1, <2>2 DEF Net
<1>2. /\ [x \in Requests |-> Outcome(st[x])]' =
             [[x \in Requests |-> Outcome(st[x])] EXCEPT ![r] = Outcome(f)]
      /\ [x \in Requests |-> st[x].net.opened]' =
             [[x \in Requests |-> st[x].net.opened] EXCEPT ![r] = f.net.opened]
      /\ [x \in Requests |-> st[x].told.future]' =
             [[x \in Requests |-> st[x].told.future] EXCEPT ![r] = f.told.future]
  BY <1>1
<1>3. CASE Same(s, f)
  <2>1. Outcome(f) = Outcome(s) /\ f.net.opened = s.net.opened /\ f.told.future = s.told.future
    BY <1>3, OutcomeOfSame DEF Same
  <2>2. QED
    BY <1>2, <2>1 DEF Promise!vars
<1>4. CASE Failed(s, f)
  <2>1. Outcome(s) = "pending" /\ Outcome(f) = "failed" /\ f.net.opened = s.net.opened
        /\ f.told.future = Promise!Settled(s.told.future, "rejected")
    BY <1>4, OutcomeIs DEF Failed, Answered, Promise!Settled
  <2>2. Promise!Fail(r)
    BY <1>2, <2>1 DEF Promise!Fail
  <2>3. QED
    BY <2>2 DEF Promise!Next
<1>5. CASE Sent(s, f)
  <2>1. Outcome(s) = "pending" /\ Outcome(f) = "pending" /\ f.net.opened = s.net.opened + 1
        /\ f.told.future = s.told.future /\ s.net.opened <= MaxRounds
    BY <1>1, <1>5, OutcomeIs DEF Sent
  <2>2. Promise!Continue(r)
    BY <1>2, <2>1 DEF Promise!Continue
  <2>3. QED
    BY <2>2 DEF Promise!Next
<1>6. CASE Finalized(s, f)
  <2>1. Outcome(s) = "pending" /\ Outcome(f) = "finalized" /\ f.net.opened = s.net.opened
        /\ f.told.future = Promise!Settled(s.told.future, "resolved")
    BY <1>6, OutcomeIs DEF Finalized, Answered, Promise!Settled
  <2>2. Promise!Finalize(r)
    BY <1>2, <2>1 DEF Promise!Finalize
  <2>3. QED
    BY <2>2 DEF Promise!Next
<1>7. CASE Begins(s, f)
  <2>1. Outcome(s) = "idle" /\ s.net.opened = 0
    BY <1>7, OutcomeIs DEF Begins
  <2>2. CASE f.phase = "live"
    <3>1. Outcome(f) = "pending" /\ f.net.opened = 1 /\ f.told.future \in {"none", "pending"}
      BY <1>7, <2>2, OutcomeIs DEF Begins
    <3>2. Promise!Begin(r)
      BY <1>2, <2>1, <3>1 DEF Promise!Begin
    <3>3. QED
      BY <3>2 DEF Promise!Next
  <2>3. CASE f.phase # "live"
    <3>1. Outcome(f) = "failed" /\ f.net.opened = 0 /\ f.told.future \in {"none", "rejected"}
      BY <1>7, <2>3, OutcomeIs DEF Begins
    <3>2. UNCHANGED [x \in Requests |-> st[x].net.opened]
      BY <1>1, <2>1, <3>1
    <3>3. Promise!Refuse(r)
      BY <1>2, <2>1, <3>1, <3>2 DEF Promise!Refuse
    <3>4. QED
      BY <3>3 DEF Promise!Next
  <2>4. QED
    BY <2>2, <2>3
<1>8. QED
  BY <1>3, <1>4, <1>5, <1>6, <1>7 DEF Moves, Step

\* The destructor drops every request that was not answered.
LEMMA DestroyMaps ==
    ASSUME IInv, Destroy
    PROVE  Promise!Next
<1>1. /\ alive /\ alive' = FALSE /\ st' = [r \in Requests |-> Orphan(st[r])]
      /\ \A r \in Requests : Good(st[r])
  BY DEF Destroy, IInv
<1>2. ASSUME NEW r \in Requests
      PROVE  /\ Outcome(st'[r]) = IF Outcome(st[r]) = "pending" THEN "dropped"
                                  ELSE Outcome(st[r])
             /\ st'[r].net.opened = st[r].net.opened
             /\ st'[r].told.future = Promise!Settled(st[r].told.future, "rejected")
  <2>1. PICK f : f = st'[r] /\ f = Orphan(st[r]) /\ Good(st[r])
    BY <1>1
  <2>2. /\ f.phase = (IF st[r].phase = "live" THEN "gone" ELSE st[r].phase)
        /\ f.net.opened = st[r].net.opened
        /\ f.told.finals = st[r].told.finals /\ f.told.fails = st[r].told.fails
        /\ f.told.future = Answered(st[r].told.future, "rejected")
    BY <2>1, OrphanFields
  <2>3. CASE st[r].phase = "live"
    <3>1. st[r].told.finals = 0 /\ st[r].told.fails = 0
      BY <2>1, <2>3 DEF Good, DuringRequest
    <3>2. QED
      BY <2>1, <2>2, <2>3, <3>1, OutcomeIs DEF Answered, Promise!Settled
  <2>4. CASE st[r].phase # "live"
    <3>1. Outcome(st[r]) # "pending"
      <4>1. /\ st[r].phase \in {"idle", "gone"}
            /\ st[r].told.finals \in Nat /\ st[r].told.fails \in Nat
        BY <2>1, <2>4 DEF Good, RequestState, Report
      <4>2. QED
        BY <4>1, OutcomeIs
    <3>2. Outcome(f) = Outcome(st[r])
      BY <2>2, <2>4, OutcomeOfSame
    <3>3. QED
      BY <2>1, <2>2, <3>1, <3>2 DEF Answered, Promise!Settled
  <2>5. QED
    BY <2>3, <2>4
<1>3. Promise!Drop
  BY <1>1, <1>2 DEF Promise!Drop
<1>4. QED
  BY <1>1, <1>3 DEF Promise!Next

LEMMA InitPromise == Init => Promise!Init
<1>1. Outcome(Idle) = "idle" /\ Idle.net.opened = 0 /\ Idle.told.future = "none"
  BY DEF Idle, Outcome
<1>2. QED
  BY <1>1 DEF Init, Promise!Init

\* Whatever streams, tools and gates do, the application sees a RequestPromise: a request
\* is answered at most once, sends a bounded number of exchanges, none after its end, and
\* its future is settled in the step that ends it.
THEOREM RequestsKeepTheirPromise == Spec => ImplementsPromise
<1>1. (IInv /\ SteadyIInv) /\ (IInv /\ SteadyIInv)' /\ [Next]_vars
          => [Promise!Next]_(Promise!vars)
  <2> SUFFICES ASSUME IInv, SteadyIInv, IInv', [Next]_vars
               PROVE  Promise!Next \/ UNCHANGED Promise!vars
    OBVIOUS
  <2>1. CASE st' = st /\ alive' = alive
    BY <2>1 DEF Promise!vars
  <2>2. QED
    BY <2>1, ClientMoves, MoveMaps, DestroyMaps
<1>2. QED
  BY <1>1, InitPromise, RoundsInvariant, PTL DEF Spec, ImplementsPromise, Promise!Spec

=============================================================================
