--------------------------- MODULE RequestLifecycle ---------------------------
(***************************************************************************)
(* One BaseClient and its ToolsManager: the life of a request from         *)
(* createRequest to its terminal signal, through the tool loop.            *)
(*                                                                         *)
(* The library runs on one event loop, so an action is one callback that   *)
(* loop delivers, with every synchronous call the callback makes.  Those   *)
(* calls are operators from a request's record to its next record; they    *)
(* compose as the C++ calls nest.                                          *)
(***************************************************************************)
EXTENDS Naturals, FiniteSets

CONSTANTS
    Requests,    \* request ids (createRequest draws a fresh UUID for each)
    NumCalls,    \* tool-use ids are 1..NumCalls, in the order a turn lists them
    Gated,       \* the calls whose tool is Mutating, with an execution gate set
    MaxRounds,   \* BaseClient::setMaxToolContinuations
    EmptyTurns   \* may a 2xx continuation end without one content event?

ASSUME ConstantsAssumption ==
    /\ NumCalls \in Nat
    /\ Gated \subseteq 1..NumCalls
    /\ MaxRounds \in Nat \ {0}
    /\ EmptyTurns \in BOOLEAN

\* When a provider's turn starts the tool loop.
ProviderKind ==
    { "event",    \* Claude, OpenAI, Responses, Ollama: at the turn's last event
      "drain",    \* Google: when the stream has ended (onStreamDrained)
      "native" }  \* llama.cpp /completion: no message, a chunk ends the request

Calls == 1..NumCalls
Turns == 1..(MaxRounds + 1)   \* the HTTP exchanges of one request
Exchanges == {0} \cup Turns   \* 0 before the first

VARIABLES
    provider, \* the client's kind
    st,      \* one record per request id, see RequestState
    tools,   \* the calls whose tool is in ToolRegistry::m_tools
    alive    \* FALSE once the client has been destroyed

vars == <<provider, st, tools, alive>>

\* The exchanges of a request; cur is ActiveRequest::stream, 0 for nullptr.
Net ==
    [ opened : 0..(MaxRounds + 1),
      cur    : 0..(MaxRounds + 1),
      exch   : [Turns -> {"unsent", "open", "ended", "broken", "aborted"}] ]

\* BaseMessage: its state and currentToolUseContent.
Message ==
    [ state : {"none", "building", "requires", "done"}, uses : SUBSET Calls ]

\* ToolRound: m_pending, the part of it before m_next, and those complete.
Round ==
    [ status  : {"none", "open", "closed"},
      calls   : SUBSET Calls,
      sent    : SUBSET Calls,
      settled : SUBSET Calls ]

\* What the application has heard: requestFinalized, requestFailed with its
\* cause, and the future of askOnce (Impl::oneShots).
Report ==
    [ finals : Nat,
      fails  : Nat,
      why    : {"none", "transport", "provider", "cancelled", "limit"},
      future : {"none", "pending", "resolved", "rejected"} ]

RequestState ==
    [ phase    : {"idle", "live", "gone"},    \* membership in Impl::requests
      buffered : BOOLEAN,                     \* RequestMode
      loops    : 0..(MaxRounds + 1),          \* ActiveRequest::toolRounds
      net      : Net,
      msg      : Message,
      turn     : 0..(MaxRounds + 1),          \* the exchange that wrote msg
      round    : Round,                       \* ToolsManager::m_toolRounds
      running  : SUBSET Calls,                \* ToolHandler::m_activeExecutions
      asking   : SUBSET Calls,                \* gate futures not yet answered
      ran      : SUBSET (Exchanges \X Calls), \* history: the calls each exchange ran
      told     : Report ]

NoMessage == [state |-> "none", uses |-> {}]
NoRound   == [status |-> "none", calls |-> {}, sent |-> {}, settled |-> {}]

Idle ==
    [ phase |-> "idle", buffered |-> FALSE, loops |-> 0,
      net |-> [opened |-> 0, cur |-> 0, exch |-> [t \in Turns |-> "unsent"]],
      msg |-> NoMessage, turn |-> 0, round |-> NoRound,
      running |-> {}, asking |-> {}, ran |-> {},
      told |-> [finals |-> 0, fails |-> 0, why |-> "none", future |-> "none"] ]

(* What code outside the library decides inside one callback: whether the  *)
(* application's toolStarted slot cancels the request, and whether         *)
(* HttpTransport::openStream returns a null handle.                        *)
Outside == [slotCancels : BOOLEAN, noStream : BOOLEAN]

-----------------------------------------------------------------------------
(* Exchanges *)

Opened(n) ==
    [opened |-> n.opened + 1, cur |-> n.opened + 1,
     exch |-> [n.exch EXCEPT ![n.opened + 1] = "open"]]

Closed(n, status) ==
    [opened |-> n.opened, cur |-> 0, exch |-> [n.exch EXCEPT ![n.cur] = status]]

\* The end of an exchange nobody listens to.
Forgotten(n, t) ==
    [opened |-> n.opened, cur |-> n.cur, exch |-> [n.exch EXCEPT ![t] = "ended"]]

\* Aborting the current stream; a buffered send has no handle to abort.
HungUp(s) ==
    [opened |-> s.net.opened, cur |-> 0,
     exch |-> [t \in Turns |-> IF t = s.net.cur /\ ~s.buffered THEN "aborted"
                               ELSE s.net.exch[t]]]

-----------------------------------------------------------------------------
(* Ending a request *)

\* Faults (each replaces the definition that follows it in a seeded run).
BugReleasedKeepsRound(s) ==
    [s EXCEPT !.phase = "gone", !.net = HungUp(s), !.msg = NoMessage]

\* cleanupFullRequest, ToolsManager::cleanupRequest, cleanupRequest: the round
\* is abandoned, its executions are cancelled, the current stream is aborted.
\* A gate's answer is still posted.
Released(s) ==
    [s EXCEPT !.phase = "gone", !.net = HungUp(s), !.msg = NoMessage,
              !.round = NoRound, !.running = {}]

\* rejectOneShot and resolveOneShot.
Rejected(t) == [t EXCEPT !.future = IF @ = "pending" THEN "rejected" ELSE @]
Resolved(t) == [t EXCEPT !.future = IF @ = "pending" THEN "resolved" ELSE @]

Failure(t, reason) == Rejected([t EXCEPT !.fails = @ + 1, !.why = reason])
Success(t)         == Resolved([t EXCEPT !.finals = @ + 1])

\* failRequest.
Fail(s, reason) ==
    IF s.phase # "live" THEN s
    ELSE [Released(s) EXCEPT !.told = Failure(s.told, reason)]

BugCompleteUnguarded(s) == [Released(s) EXCEPT !.told.finals = @ + 1]

\* completeRequest.
Complete(s) ==
    IF s.phase # "live" THEN s
    ELSE [Released(s) EXCEPT !.told = Success(s.told)]

-----------------------------------------------------------------------------
(* The tool loop *)

\* startHttpRequest, for the first exchange and for every continuation.
OpenExchange(s, out) ==
    IF out.noStream /\ ~s.buffered THEN Fail(s, "transport")
    ELSE [s EXCEPT !.net = Opened(@)]

Counted(s) == [s EXCEPT !.round = [s.round EXCEPT !.status = "closed"], !.loops = @ + 1]

\* buildReplayContinuation has no message to build the next body from.
NoBody(s) == s.msg.state = "none"

BugContinueEarly(s, out) ==
    IF s.loops + 1 >= MaxRounds THEN Fail(Counted(s), "limit")
    ELSE OpenExchange(Counted(s), out)

\* handleToolsCompleted: count the round, give up at the limit or without a body,
\* else continue.
Continue(s, out) ==
    IF s.loops + 1 > MaxRounds THEN Fail(Counted(s), "limit")
    ELSE IF NoBody(s) THEN Fail(Counted(s), "provider")
    ELSE OpenExchange(Counted(s), out)

\* startExecution for a registered tool.  toolExecutionStarted is emitted
\* first, and executeToolAsync runs whatever the slot did to the request.
Start(s, c, out) ==
    LET noticed == IF out.slotCancels THEN Fail(s, "cancelled") ELSE s
    IN  [noticed EXCEPT !.running = @ \cup {c}, !.ran = @ \cup {<<s.net.opened, c>>}]

\* ToolRound::addCalls skips the ids it knows.
AddCalls(q, U) == [q EXCEPT !.calls = @ \cup U]
NewRound(U)    == [status |-> "open", calls |-> U, sent |-> {}, settled |-> {}]

Settle(q, c) == [q EXCEPT !.settled = @ \cup ({c} \cap q.calls)]

\* ToolRound::advance walks the queue: calls of unknown tools settle on the
\* spot, the first known one is dispatched and ends the walk.
Queue(q) == q.calls \ q.sent
FirstKnown(q, T) == {c \in Queue(q) \cap T : \A d \in Queue(q) \cap T : c <= d}
Unknown(q, T) == {c \in Queue(q) : \A d \in Queue(q) \cap T : c < d}

Walked(q, T) ==
    [q EXCEPT !.sent = @ \cup Unknown(q, T) \cup FirstKnown(q, T),
              !.settled = @ \cup Unknown(q, T)]

Advance(s, T, out) ==
    LET first  == FirstKnown(s.round, T)
        walked == [s EXCEPT !.round = Walked(@, T), !.asking = @ \cup (first \cap Gated)]
    IN  IF first \subseteq Gated THEN walked
        ELSE Start(walked, CHOOSE c \in first \ Gated : TRUE, out)

\* The round closes as soon as everything dispatched so far has settled.
BugDriveIgnoresQueue(s, T, out) ==
    LET waits == s.round.sent # {} /\ s.round.settled = s.round.sent
        next  == IF waits THEN s ELSE Advance(s, T, out)
    IN  IF s.round.status # "open" THEN s
        ELSE IF next.round.status = "open" /\ next.round.sent # {}
                 /\ next.round.settled = next.round.sent
             THEN Continue(next, out)
        ELSE next

\* ToolsManager::driveRound.
Drive(s, T, out) ==
    LET next == Advance(s, T, out)
    IN  IF s.round.status # "open" THEN s
        ELSE IF next.round.status = "open" /\ next.round.settled = next.round.calls
             THEN Continue(next, out)
        ELSE next

BugBeginRoundReplaces(s, T, out) ==
    IF s.msg.state # "requires" THEN s
    ELSE Drive([s EXCEPT !.round = NewRound(s.msg.uses)], T, out)

\* executeToolsFromMessage and beginRound: calls join an open round, a closed
\* one is replaced.
BeginRound(s, T, out) ==
    IF s.msg.state # "requires" THEN s
    ELSE Drive([s EXCEPT !.round = IF @.status = "open" THEN AddCalls(@, s.msg.uses)
                                   ELSE NewRound(s.msg.uses)], T, out)

\* finalizePendingTool.
FinalizeTool(s, c, T, out) ==
    IF c \in s.round.calls \ s.round.settled
    THEN Drive([s EXCEPT !.round = Settle(@, c)], T, out)
    ELSE s

-----------------------------------------------------------------------------
(* What an exchange delivers *)

\* ensureMessage on a content event of a new turn: a message left in
\* RequiresToolExecution starts over.
StartTurn(s, t) == [s EXCEPT !.msg = [state |-> "building", uses |-> {}], !.turn = t]

\* recordStopReason, then applyEffects with toolsReady.
FinishTurn(s, U, T, out) ==
    LET stopped == [s EXCEPT !.msg = [state |-> IF U = {} THEN "done" ELSE "requires",
                                      uses |-> U]]
    IN  IF provider = "event" THEN BeginRound(stopped, T, out) ELSE stopped

\* The message's state is read before the drain hook starts the tool loop.
BugDrainedChecksFirst(s, T, out) ==
    IF s.msg.state = "requires" THEN s
    ELSE Complete(IF provider = "drain" THEN BeginRound(s, T, out) ELSE s)

\* onStreamFinished without an error, after the buffers were flushed: the
\* drain hook, then completion unless the message waits for its tools.
Drained(s, T, out) ==
    LET hooked == IF provider = "drain" /\ s.phase = "live" THEN BeginRound(s, T, out)
                  ELSE s
    IN  IF hooked.phase = "live" /\ hooked.msg.state = "requires" THEN hooked
        ELSE Complete(hooked)

Hear(s, status) == [s EXCEPT !.net = Closed(@, status)]

-----------------------------------------------------------------------------
(* Actions *)

Init ==
    /\ provider \in ProviderKind
    /\ st = [r \in Requests |-> Idle]
    /\ tools \in SUBSET Calls
    /\ alive = TRUE

\* A callback for r leaves its record as s.
Becomes(r, s) ==
    /\ st' = [st EXCEPT ![r] = s]
    /\ UNCHANGED <<provider, tools, alive>>

Live(r) == alive /\ st[r].phase = "live"

Streaming(r) == Live(r) /\ ~st[r].buffered /\ st[r].net.cur # 0

\* The message holds the turn of the exchange that is open now.
OnTurn(r, states) == st[r].turn = st[r].net.cur /\ st[r].msg.state \in states

Asked(s, buffered, oneShot) ==
    [s EXCEPT !.phase = "live", !.buffered = buffered,
              !.told = [s.told EXCEPT !.future = IF oneShot THEN "pending" ELSE "none"]]

\* ask / askOnce / sendMessage: createRequest, storeRequestContext,
\* startHttpRequest.  oneShot says whether askOnce asked.
Ask(r) ==
    /\ alive
    /\ st[r].phase = "idle"
    /\ \E buffered \in BOOLEAN, oneShot \in BOOLEAN, out \in Outside :
          Becomes(r, OpenExchange(Asked(st[r], buffered, oneShot), out))

\* The first content event of a turn.  A provider sends no content after the
\* event that ended the turn.
TurnStarts(r) ==
    /\ Streaming(r)
    /\ provider # "native"
    /\ st[r].turn # st[r].net.cur
    /\ Becomes(r, StartTurn(st[r], st[r].net.cur))

\* The event that carries the stop reason, with the tool calls of the turn.
TurnEnds(r) ==
    /\ Streaming(r)
    /\ OnTurn(r, {"building"})
    /\ \E U \in SUBSET Calls, out \in Outside :
          Becomes(r, FinishTurn(st[r], U, tools, out))

\* A second stop reason in the same turn (Claude's message_delta may repeat)
\* offers the same calls again.
TurnEndsAgain(r) ==
    /\ Streaming(r)
    /\ provider = "event"
    /\ OnTurn(r, {"requires"})
    /\ \E out \in Outside : Becomes(r, FinishTurn(st[r], st[r].msg.uses, tools, out))

\* An error object inside a 2xx stream.
ProviderError(r) ==
    /\ Streaming(r)
    /\ Becomes(r, Fail(st[r], "provider"))

\* LlamaCppClient::processSseEvent on a native chunk with "stop".
NativeStop(r) ==
    /\ Streaming(r)
    /\ provider = "native"
    /\ Becomes(r, Complete(st[r]))

\* HttpStreamHandle::finished after a 2xx status.  The framer may still hold an
\* unterminated last event: the turn then ends inside flushStreamBuffers.
StreamEnds(r) ==
    /\ Streaming(r)
    /\ EmptyTurns \/ st[r].msg.state # "requires" \/ OnTurn(r, {"requires"})
    /\ \E out \in Outside :
          \/ Becomes(r, Drained(Hear(st[r], "ended"), tools, out))
          \/ /\ OnTurn(r, {"building"})
             /\ \E U \in SUBSET Calls :
                   Becomes(r, Drained(FinishTurn(Hear(st[r], "ended"), U, tools, out),
                                      tools, out))

\* errorOccurred, or finished after a status outside 2xx.
StreamBreaks(r) ==
    /\ Streaming(r)
    /\ Becomes(r, Fail(Hear(st[r], "broken"), "transport"))

\* The continuation of HttpTransport::send in Buffered mode: a whole turn, an
\* error object or malformed JSON, an HTTP status or a transport error.
BufferedTurn(r) ==
    /\ provider # "native"
    /\ \E U \in SUBSET Calls, out \in Outside :
          LET turn == StartTurn(Hear(st[r], "ended"), st[r].net.cur)
          IN  Becomes(r, Drained(FinishTurn(turn, U, tools, out), tools, out))

BufferedReply(r) ==
    /\ Live(r)
    /\ st[r].buffered
    /\ st[r].net.cur # 0
    /\ \/ BufferedTurn(r)
       \/ provider = "native" /\ Becomes(r, Complete(Hear(st[r], "ended")))
       \/ Becomes(r, Fail(Hear(st[r], "ended"), "provider"))
       \/ Becomes(r, Fail(Hear(st[r], "broken"), "transport"))

\* The handlers compare no stream: the end of an old one completes the request.
BugOldExchangeEnds(r) ==
    /\ alive
    /\ \E t \in Turns \ {st[r].net.cur} :
          /\ st[r].net.exch[t] = "open"
          /\ Becomes(r, Complete([st[r] EXCEPT !.net.exch[t] = "ended"]))

\* A superseded stream, or a buffered send whose request is gone, ends: the
\* handlers find another stream, or no request, and return.
OldExchangeEnds(r) ==
    /\ alive
    /\ \E t \in Turns \ {st[r].net.cur} :
          /\ st[r].net.exch[t] = "open"
          /\ Becomes(r, [st[r] EXCEPT !.net = Forgotten(st[r].net, t)])

\* A tool's future finishes (onToolExecutionFinished); a result, an error
\* result and an exception all settle the call.
ToolFinishes(r, c) ==
    /\ alive
    /\ c \in st[r].running
    /\ \E out \in Outside :
          Becomes(r, FinalizeTool([st[r] EXCEPT !.running = @ \ {c}], c, tools, out))

\* The gate's answer arrives on the manager: the call is declined, or allowed
\* and its tool is looked up again.
GateAnswers(r, c) ==
    /\ alive
    /\ c \in st[r].asking
    /\ \E allowed \in BOOLEAN, out \in Outside :
          LET s == [st[r] EXCEPT !.asking = @ \ {c}]
          IN  Becomes(r, IF allowed /\ c \in tools THEN Start(s, c, out)
                         ELSE FinalizeTool(s, c, tools, out))

\* cancelRequest, on the client's thread or posted to it.
Cancel(r) ==
    /\ Live(r)
    /\ Becomes(r, Fail(st[r], "cancelled"))

BugOrphan(s) ==
    [IF s.phase = "live" THEN Released(s) ELSE s EXCEPT !.asking = {}, !.running = {}]

\* ~BaseClient: streams are aborted, futures rejected, continuations dropped
\* with their context; no signal is emitted.
Orphan(s) ==
    [IF s.phase = "live" THEN Released(s) ELSE s EXCEPT
        !.asking = {}, !.running = {}, !.told = Rejected(@)]

Destroy ==
    /\ alive
    /\ alive' = FALSE
    /\ st' = [r \in Requests |-> Orphan(st[r])]
    /\ UNCHANGED <<provider, tools>>

\* ToolRegistry::addTool and removeTool; an MCP server that comes and goes
\* calls them through McpToolBinder.
RegistryChanges ==
    /\ alive
    /\ \E c \in Calls : \/ c \notin tools /\ tools' = tools \cup {c}
                        \/ c \in tools /\ tools' = tools \ {c}
    /\ UNCHANGED <<provider, st, alive>>

Exchange(r) ==
    \/ TurnStarts(r) \/ TurnEnds(r) \/ ProviderError(r) \/ NativeStop(r)
    \/ StreamEnds(r) \/ StreamBreaks(r) \/ BufferedReply(r)

ToolEvent(r) == \E c \in Calls : ToolFinishes(r, c) \/ GateAnswers(r, c)

Next ==
    \/ \E r \in Requests :
          \/ Ask(r) \/ Cancel(r) \/ Exchange(r) \/ TurnEndsAgain(r)
          \/ OldExchangeEnds(r) \/ ToolEvent(r)
    \/ RegistryChanges
    \/ Destroy

Spec == Init /\ [][Next]_vars

\* The transport's transfer timeout ends every exchange, a tool's future and a
\* gate's future finish, and the event loop delivers both.
FairSpec ==
    /\ Spec
    /\ \A r \in Requests :
          /\ WF_vars(Exchange(r))
          /\ \A c \in Calls : WF_vars(ToolFinishes(r, c)) /\ WF_vars(GateAnswers(r, c))

-----------------------------------------------------------------------------
(* Properties *)

\* Every record stays in its type.
TypeOK ==
    /\ provider \in ProviderKind
    /\ st \in [Requests -> RequestState]
    /\ tools \subseteq Calls
    /\ alive \in BOOLEAN

\* The application hears of a request's end exactly once (requestFinalized or
\* requestFailed, never both, never twice), unless it destroyed the client.
OneTerminalSignal ==
    \A r \in Requests :
        /\ st[r].told.finals + st[r].told.fails <= 1
        /\ st[r].told.finals + st[r].told.fails = 1 => st[r].phase = "gone"
        /\ st[r].phase = "gone" /\ alive => st[r].told.finals + st[r].told.fails = 1

\* An askOnce future is settled when its request ends, never before, and the
\* way the signal says (resolveOneShot, rejectOneShot, the destructor).
FutureFollowsRequest ==
    \A r \in Requests :
        /\ st[r].told.future = "pending" => st[r].phase = "live" /\ alive
        /\ st[r].told.future = "resolved" => st[r].told.finals = 1
        /\ st[r].told.future = "rejected" => st[r].told.fails = 1 \/ ~alive

Held(s) == s.running \cup s.asking

\* An open round belongs to a live request; each of its calls is queued, or
\* settled, or held by exactly one of the tool handler and the gate.
RoundAccountsForCalls ==
    \A r \in Requests : st[r].round.status = "open" =>
        /\ st[r].phase = "live"
        /\ st[r].round.settled \subseteq st[r].round.sent
        /\ st[r].round.sent \ st[r].round.settled = st[r].round.calls \cap Held(st[r])
        /\ st[r].running \cap st[r].asking = {}

\* The tool-round limit is exact: a request is aborted for it only after all
\* MaxRounds continuations were sent, and no further one is ever sent.
LimitIsExact ==
    \A r \in Requests :
        /\ st[r].net.opened <= MaxRounds + 1
        /\ st[r].told.why = "limit" => st[r].net.opened = MaxRounds + 1

\* A request is finalized only by the clean end of its newest exchange: no
\* round of tools is cut short and no superseded stream completes it
\* (onStreamFinished, the stream guards of startHttpRequest).
FinalizedByLastExchange ==
    [][\A r \in Requests :
          st'[r].told.finals > st[r].told.finals /\ provider # "native" =>
              /\ st[r].round.status # "open"
              /\ st'[r].net.opened = st[r].net.opened
              /\ st'[r].net.exch[st[r].net.opened] = "ended"]_vars

\* A continuation is sent when each call of the model's turn has a result, and
\* with a result for no other call.
ContinuationAnswersTurn ==
    [][\A r \in Requests :
          st'[r].net.opened > st[r].net.opened /\ st[r].net.opened > 0 =>
              /\ st'[r].round.status = "closed"
              /\ st'[r].round.settled = st'[r].msg.uses]_vars

\* A call is executed at most once for each exchange, however its turn, its gate and
\* the stream's end interleave; and for the turn that exchange brought, or, at the end
\* of a Google continuation that brought none, for the turn before it.
CallRunsOnce ==
    [][\A r \in Requests :
          LET s == st'[r]
          IN  \A c \in s.running \ st[r].running :
                 /\ <<s.net.opened, c>> \notin st[r].ran
                 /\ s.turn = s.net.opened \/ (EmptyTurns /\ provider = "drain")]_vars

\* Tools, gates, superseded streams and rounds are invisible in what the
\* application is promised: a request is a RequestPromise.
Outcome(s) ==
    CASE s.phase = "idle" -> "idle"
      [] s.phase = "live" -> "pending"
      [] s.phase = "gone" /\ s.told.finals > 0 -> "finalized"
      [] s.phase = "gone" /\ s.told.finals = 0 /\ s.told.fails > 0 -> "failed"
      [] OTHER -> "dropped"

Promise == INSTANCE RequestPromise WITH
    Limit  <- MaxRounds,
    phase  <- [r \in Requests |-> Outcome(st[r])],
    sent   <- [r \in Requests |-> st[r].net.opened],
    future <- [r \in Requests |-> st[r].told.future],
    open   <- alive

\* Every behaviour of the client is one RequestPromise allows.
ImplementsPromise == Promise!Spec

\* No stream and no round, and the model's turn is of an earlier exchange: the last
\* continuation brought none (the condition of onStreamFinished, BaseClient.cpp:797).
Stalled(r) ==
    /\ st[r].net.cur = 0
    /\ st[r].round.status # "open"
    /\ st[r].msg.state = "requires"
    /\ st[r].turn < st[r].net.opened

\* Every request ends, given that exchanges, tools and gates do, unless an empty
\* continuation leaves it with the calls of a turn it has answered already.
RequestsEnd == \A r \in Requests : Live(r) ~> (~Live(r) \/ Stalled(r))

\* Documented: pending tool calls "trigger the tool execution phase; otherwise
\* the request completes" (docs/architecture/request-lifecycle.md:98): once no
\* exchange is open and no round is open, the request is over.
StreamEndDecides ==
    \A r \in Requests : Live(r) /\ st[r].net.cur = 0 => st[r].round.status = "open"

=============================================================================
