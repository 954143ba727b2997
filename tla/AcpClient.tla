------------------------------- MODULE AcpClient -------------------------------
(***************************************************************************)
(* AcpClient, the host's end of an agent connection: it prompts a session, *)
(* assembles the agent's tool calls from what it is told of them, and      *)
(* serves the agent's requests from the providers it has, the terminals of *)
(* TerminalManager among them.  The peer below it is ProtocolPeer's; here  *)
(* a future that finishes is a continuation in `posted', run by the event  *)
(* loop after what the wire brought before.  One connection is modelled.   *)
(***************************************************************************)
EXTENDS TerminalManager, FiniteSets

CONSTANTS
  ToolCalls,       \* the ids of the agent's tool calls
  Budgets          \* bounds: how many prompts and set providers of the host, updates and
                   \* requests of the agent a behaviour has; it has one of these
ASSUME AcpAssumption ==
  \A b \in Budgets : {b.prompts, b.sets, b.updates, b.asks} \subseteq Nat

VARIABLES
  client,     \* open, initialized, the session known, the prompt in flight, prompts made
  providers,  \* the providers there are
  tools,      \* m_sessions[sid].tools
  shown,      \* history: the last tool call shown to the user, and what the agent meant
  wire,       \* messages on their way to the client
  posted,     \* continuations of the client's calls that have to run
  inbox,      \* the client's requests at the agent
  agent,      \* the turn the agent is in, its session, the last of its turns
  calls,      \* the agent's tool calls: all it has told of them, and in which turn
  asks,       \* the agent's requests: unasked, what they ask, how they ended
  left        \* what is left of the budget
acpVars == << client, providers, tools, shown, wire, posted, inbox, agent, calls, asks, left >>
vars == << acpVars, termVars >>

Providers == {"permission", "fs", "terminal"}
Fields == {"title", "status"}
Empty == [f \in Fields |-> 0]
NoAsk == [kind |-> "none", state |-> "unasked"]

\* A field that is empty in an update leaves what the call had.
mergeToolCall(base, upd) == [f \in Fields |-> IF upd[f] # 0 THEN upd[f] ELSE base[f]]
Known(c) == IF c \in DOMAIN tools THEN tools[c] ELSE Empty

(************************* The host's operations ***************************)
Request(kind, n) == inbox' = Append(inbox, [kind |-> kind, n |-> n])
Spend(what) == left[what] > 0 /\ left' = [left EXCEPT ![what] = @ - 1]
HostOnly == UNCHANGED << termVars, tools, shown, wire, posted, agent, calls, asks >>

\* The capabilities offered are those of the providers there are.
connectAndInitialize ==
  /\ ~ client.open /\ ~ client.over
  /\ client' = [client EXCEPT !.open = TRUE]
  /\ Request("initialize", 0)
  /\ UNCHANGED << providers, left >> /\ HostOnly

setProvider(k, present) ==
  /\ (k \in providers) # present /\ (k = "terminal" /\ present => manager)
  /\ providers' = IF present THEN providers \cup {k} ELSE providers \ {k}
  /\ Spend("sets") /\ UNCHANGED << client, inbox >> /\ HostOnly

\* newSession is known when it is answered; loadSession at once.
OpenSession(kind) ==
  /\ client.open /\ client.initialized /\ ~ client.asked
  /\ client' = [client EXCEPT !.asked = TRUE, !.session = kind = "load"]
  /\ Request(kind, 0)
  /\ UNCHANGED << providers, left >> /\ HostOnly

\* One prompt at a time; a prompt that timed out is given up, and the agent is not.
prompt ==
  /\ client.open /\ client.initialized /\ client.session /\ client.inFlight = 0
  /\ Spend("prompts")
  /\ client' = [client EXCEPT !.prompts = @ + 1, !.inFlight = client.prompts + 1]
  /\ Request("prompt", client.prompts + 1)
  /\ UNCHANGED providers /\ HostOnly
PromptTimesOut ==
  /\ client.inFlight # 0 /\ client.answered # client.inFlight
  /\ client' = [client EXCEPT !.inFlight = 0]
  /\ UNCHANGED << providers, inbox, left >> /\ HostOnly

\* shutdown aborts what the client waits for and closes; terminals and the requests
\* the agent has made are left alone, their answers find no transport.
shutdown ==
  /\ client.open
  /\ client' = [client EXCEPT !.open = FALSE, !.initialized = FALSE, !.inFlight = 0, !.over = TRUE]
  /\ wire' = <<>> /\ inbox' = <<>>
  /\ UNCHANGED << termVars, providers, tools, shown, posted, agent, calls, asks, left >>

(************************ What comes from the agent ************************)
\* A response finishes its future, whose continuation is posted.
TakeResponse(m) ==
  /\ m.kind = "response"
  /\ LET late == m.to.kind = "prompt" /\ m.to.n # client.inFlight
     IN  /\ posted' = IF late THEN posted ELSE Append(posted, m.to)
         /\ client' = IF m.to.kind = "prompt" /\ ~ late THEN [client EXCEPT !.answered = m.to.n] ELSE client
  /\ UNCHANGED << providers, tools, shown, asks, termVars >>

\* handleSessionUpdate: a tool call replaces what is known of it, an update is merged.
TakeUpdate(m) ==
  /\ m.kind \in {"call", "update"}
  /\ LET call == IF m.kind = "call" THEN m.says ELSE mergeToolCall(Known(m.id), m.says)
     IN  /\ tools' = [c \in DOMAIN tools \cup {m.id} |-> IF c = m.id THEN call ELSE tools[c]]
         /\ shown' = [call |-> call, meant |-> m.whole]
  /\ UNCHANGED << client, providers, posted, asks, termVars >>

\* The handler of a request: refused without its provider, else the provider's call.
ProviderOf(kind) ==
  IF kind \in {"permission", "fs"} THEN kind ELSE "terminal"
Ends(a, how) == asks' = [asks EXCEPT ![a].state = how]
TakeRequest(m) ==
  /\ m.kind = "request"
  /\ LET a == m.of  kind == asks[a].kind  there == ProviderOf(kind) \in providers
     IN  CASE kind = "permission" /\ ~ there -> Ends(a, "answered") /\ UNCHANGED termVars
           [] kind # "permission" /\ ~ there -> Ends(a, "refused") /\ UNCHANGED termVars
           [] there /\ kind \in {"permission", "fs"} -> Ends(a, "serving") /\ UNCHANGED termVars
           [] there /\ kind = "create" -> createTerminal(m.arg) /\ Ends(a, "answered")
           [] there /\ kind = "kill" -> killTerminal(m.arg) /\ Ends(a, "answered")
           [] there /\ kind = "release" -> releaseTerminal(m.arg) /\ Ends(a, "answered")
           [] there /\ kind = "wait" -> waitForExit(a, m.arg) /\ Ends(a, "serving")
           [] OTHER -> Ends(a, "answered") /\ UNCHANGED termVars
  /\ UNCHANGED << client, providers, tools, shown, posted >>

Receive ==
  /\ wire # <<>> /\ wire' = Tail(wire)
  /\ TakeResponse(Head(wire)) \/ TakeUpdate(Head(wire)) \/ TakeRequest(Head(wire))
  /\ UNCHANGED << inbox, agent, calls, left >>

(****************************** Continuations ******************************)
BugContinueSession == client' = [client EXCEPT !.session = TRUE] /\ tools' = <<>>
ContinueSession == client' = [client EXCEPT !.session = TRUE] /\ UNCHANGED tools

\* The answer to a prompt ends the turn: its tool calls are forgotten, unless the answer
\* is an error, which no .then sees.
ContinuePrompt ==
  /\ tools' \in {<<>>, tools}
  /\ client' = [client EXCEPT !.inFlight = 0]

Continue ==
  /\ posted # <<>> /\ posted' = Tail(posted)
  /\ CASE Head(posted).kind = "initialize" ->
            client' = [client EXCEPT !.initialized = TRUE] /\ UNCHANGED tools
       [] Head(posted).kind = "prompt" -> ContinuePrompt
       [] OTHER -> ContinueSession
  /\ UNCHANGED << termVars, providers, shown, wire, inbox, agent, calls, asks, left >>

\* The future of a wait is told to the agent; a provider answers, or dies and its
\* promise with it.
WaitEnds(a) ==
  /\ asks[a].kind = "wait" /\ asks[a].state = "serving" /\ waits[a].result \notin {"none", "waiting"}
  /\ Ends(a, IF waits[a].result \in {"refused", "cancelled"} THEN "failed" ELSE "answered")
  /\ UNCHANGED << termVars, client, providers, tools, shown, wire, posted, inbox, agent, calls, left >>
ProviderAnswers(a) ==
  /\ asks[a].state = "serving" /\ asks[a].kind # "wait"
  /\ \E how \in {"answered", "failed"} : Ends(a, how)
  /\ UNCHANGED << termVars, client, providers, tools, shown, wire, posted, inbox, agent, calls, left >>
DestroyTerminals ==
  /\ \E heard \in SUBSET Ids : DestroyManager(heard)
  /\ providers' = providers \ {"terminal"}
  /\ UNCHANGED << client, tools, shown, wire, posted, inbox, agent, calls, asks, left >>

(******************************* The agent *********************************)
AgentOnly == UNCHANGED << termVars, client, providers, tools, shown, posted >>
Says(m) == client.open /\ wire' = Append(wire, m)

\* It answers at once what is not a prompt; a prompt begins a turn.
Serves ==
  /\ inbox # <<>> /\ agent.turn = 0 /\ client.open
  /\ inbox' = Tail(inbox)
  /\ LET m == Head(inbox)
     IN  IF m.kind = "prompt"
         THEN agent' = [agent EXCEPT !.turn = m.n, !.last = m.n] /\ UNCHANGED wire
         ELSE /\ Says([kind |-> "response", to |-> m])
              /\ agent' = IF m.kind = "initialize" THEN agent ELSE [agent EXCEPT !.session = TRUE]
  /\ AgentOnly /\ UNCHANGED << calls, asks, left >>
EndsTurn ==
  /\ agent.turn # 0
  /\ Says([kind |-> "response", to |-> [kind |-> "prompt", n |-> agent.turn]])
  /\ agent' = [agent EXCEPT !.turn = 0]
  /\ AgentOnly /\ UNCHANGED << inbox, calls, asks, left >>

\* It speaks of tool calls in its turns, and of those of an old conversation between
\* the session and the first of them; of each only in the turn it began in.
Speaking == agent.turn # 0 \/ (agent.session /\ agent.last = 0)
Begins(c) ==
  LET call == [f \in Fields |-> 1]
  IN  /\ Speaking /\ Spend("updates") /\ calls[c].turn # agent.last
      /\ Says([kind |-> "call", id |-> c, says |-> call, whole |-> call])
      /\ calls' = [calls EXCEPT ![c] = [turn |-> agent.last, told |-> call]]
      /\ AgentOnly /\ UNCHANGED << inbox, asks, agent >>
Updates(c, f) ==
  LET upd == [Empty EXCEPT ![f] = 2]  whole == mergeToolCall(calls[c].told, upd)
  IN  /\ Speaking /\ Spend("updates") /\ calls[c].turn = agent.last /\ calls[c].told[f] = 1
      /\ Says([kind |-> "update", id |-> c, says |-> upd, whole |-> whole])
      /\ calls' = [calls EXCEPT ![c].told = whole]
      /\ AgentOnly /\ UNCHANGED << inbox, asks, agent >>
AskFor(a, kind, arg) ==
  /\ agent.session /\ Spend("asks")
  /\ asks[a].state = "unasked" /\ \A b \in Asks : b < a => asks[b].state # "unasked"
  /\ asks' = [asks EXCEPT ![a] = [kind |-> kind, state |-> "asked"]]
  /\ Says([kind |-> "request", of |-> a, arg |-> arg])
  /\ AgentOnly /\ UNCHANGED << inbox, calls, agent >>
AnyAsk(a) ==
  \/ \E kind \in {"permission", "fs"} : AskFor(a, kind, 0)
  \/ /\ Cardinality({ b \in Asks : asks[b].kind = "create" }) < MaxTerminals
     /\ \E limit \in Limits : AskFor(a, "create", limit)
  \/ \E kind \in {"wait", "kill", "release"}, i \in 1..MaxTerminals : AskFor(a, kind, i)

AcpInit ==
  /\ TerminalInit
  /\ client = [open |-> FALSE, over |-> FALSE, initialized |-> FALSE, asked |-> FALSE,
               session |-> FALSE, inFlight |-> 0, answered |-> 0, prompts |-> 0]
  /\ providers \in {{}, Providers}
  /\ tools = <<>> /\ shown = [call |-> Empty, meant |-> Empty]
  /\ wire = <<>> /\ posted = <<>> /\ inbox = <<>>
  /\ agent = [turn |-> 0, last |-> 0, session |-> FALSE]
  /\ calls = [c \in ToolCalls |-> [turn |-> -1, told |-> Empty]]
  /\ asks = [a \in Asks |-> NoAsk]
  /\ left \in Budgets

Host ==
  \/ connectAndInitialize \/ prompt \/ PromptTimesOut \/ shutdown
  \/ \E kind \in {"new", "load"} : OpenSession(kind)
  \/ \E k \in Providers, present \in BOOLEAN : setProvider(k, present)
  \/ DestroyTerminals
Serving == Receive \/ Continue \/ \E a \in Asks : WaitEnds(a) \/ ProviderAnswers(a)
Agent ==
  \/ Serves \/ EndsTurn
  \/ \E c \in ToolCalls : Begins(c) \/ \E f \in Fields : Updates(c, f)
  \/ \E a \in Asks : AnyAsk(a)
AcpProcess == Process /\ UNCHANGED acpVars
AcpNext == Host \/ Serving \/ Agent \/ AcpProcess

AcpSpec == AcpInit /\ [][AcpNext]_vars
\* The event loop runs, providers answer, agents end their turns and commands end.
AcpFairSpec == AcpSpec /\ WF_vars(Serving \/ Serves \/ EndsTurn) /\ WF_vars(AcpProcess)

(****************************** Properties *********************************)
\* A tool call that is shown is all the agent has told of it: what an update leaves
\* out is what was told before, whatever response is handled in between and whenever
\* its continuation runs (mergeToolCall, newSession, prompt).
ShownIsMeant == shown.call = shown.meant

\* Of a command that could not be started nobody hears (createTerminal connects no
\* errorOccurred); who waits for it waits until its terminal is released or destroyed.
Unstarted(a) == Held(waits[a].on) /\ processes[waits[a].on].state = "unstarted"

\* Every request of the agent ends, unless the host has shut down: an exit, a crash, a
\* kill, a release or the manager's destruction ends each wait, and only one on a command
\* that could not be started, in a terminal nobody releases, stays (installHandlers).
AsksEnd ==
  <>[](client.open => \A a \in Asks :
         asks[a].state \in {"asked", "serving"} => asks[a].kind = "wait" /\ Unstarted(a))

=============================================================================
