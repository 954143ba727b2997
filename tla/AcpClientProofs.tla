---------------------------- MODULE AcpClientProofs ----------------------------
(***************************************************************************)
(* AcpClient and TerminalManager, for any number of terminals, requests of *)
(* the agent, tool calls and prompts.                                      *)
(*                                                                         *)
(* The terminals need that the output is a window onto what was read, that *)
(* a terminal is finished with its process, and that each waiter stands at *)
(* the one terminal its future is on; the tool calls need that on the wire *)
(* each update fits what precedes it, and that nothing is said of a turn   *)
(* behind the response that ends it.                                       *)
(***************************************************************************)
EXTENDS AcpClient, SequenceTheorems, TLAPS

-----------------------------------------------------------------------------
(* Sequences *)

LEMMA HeadAndTail ==
    ASSUME NEW S, NEW s \in Seq(S), s # <<>>
    PROVE  /\ Len(s) \in Nat \ {0} /\ Head(s) = s[1] /\ Head(s) \in S
           /\ Tail(s) \in Seq(S) /\ Len(Tail(s)) = Len(s) - 1
           /\ \A k \in 1..Len(s) - 1 : Tail(s)[k] = s[k + 1]
OBVIOUS

LEMMA Appended ==
    ASSUME NEW S, NEW s \in Seq(S), NEW e \in S
    PROVE  /\ Len(s) \in Nat /\ Append(s, e) \in Seq(S) /\ Len(Append(s, e)) = Len(s) + 1
           /\ \A k \in 1..Len(s) : Append(s, e)[k] = s[k]
           /\ Append(s, e)[Len(s) + 1] = e
OBVIOUS

LEMMA FunctionIsSeq ==
    ASSUME NEW S, NEW n \in Nat, NEW s \in [1..n -> S]
    PROVE  s \in Seq(S) /\ Len(s) = n
<1>1. s \in Seq(S)
  BY SeqDef
<1> QED
  BY <1>1, LenProperties

-----------------------------------------------------------------------------
(* The terminals *)

\* The numbers of n bytes behind the first b.
Window(b, n) == [k \in 1..n |-> b + k]

Terminal ==
  [held : BOOLEAN, limit : Limits, output : Seq(Nat), truncated : BOOLEAN,
   finished : BOOLEAN, exit : {"unknown", "code", "killed"}, waiters : SUBSET Asks]
ProcessType ==
  [state : {"starting", "running", "unstarted", "ended"}, killed : BOOLEAN,
   written : Nat, read : Nat, exit : {"unknown", "code", "killed"}]
Wait ==
  [on : Nat, result : {"none", "waiting", "refused", "unknown", "cancelled", "code", "killed"}]

TerminalTypes ==
  /\ terminals \in Seq(Terminal) /\ processes \in Seq(ProcessType)
  /\ Len(processes) = Len(terminals)
  /\ waits \in [Asks -> Wait] /\ manager \in BOOLEAN

\* A terminal t and its process p.
Shows(t, p) ==
  /\ p.read <= p.written
  /\ t.output = IF t.limit = 0 \/ p.read <= t.limit THEN Window(0, p.read)
                ELSE Window(p.read - t.limit, t.limit)
  /\ t.truncated = (t.limit > 0 /\ p.read > t.limit)
Finishes(t, p) ==
  /\ t.held => manager /\ (t.finished = (p.state = "ended"))
  /\ t.finished => p.state = "ended" /\ t.exit = p.exit /\ p.read = p.written /\ t.waiters = {}
  /\ ~ t.finished => t.exit = "unknown"
  /\ ~ t.held => t.waiters = {} /\ ~ (p.state \in {"starting", "running"})
  /\ p.state = "ended" => p.exit \in {"code", "killed"}
  /\ p.state \in {"starting", "unstarted"} => p.written = 0

TerminalsOK == \A i \in 1..Len(terminals) :
  Shows(terminals[i], processes[i]) /\ Finishes(terminals[i], processes[i])

\* The future of a waiter and the terminal it is on.
WaitOK(a, w) ==
  /\ \A i \in 1..Len(terminals) : a \in terminals[i].waiters => w.on = i /\ w.result = "waiting"
  /\ w.result = "waiting" => w.on \in 1..Len(terminals) /\ a \in terminals[w.on].waiters
  /\ w.result \in {"code", "killed"} =>
       w.on \in 1..Len(terminals) /\ processes[w.on].state = "ended" /\ processes[w.on].exit = w.result
  /\ w.result \in {"unknown", "cancelled"} =>
       w.on \in 1..Len(terminals) /\ ~ terminals[w.on].held /\ ~ terminals[w.on].finished

WaitsOK == \A a \in Asks : WaitOK(a, waits[a])

TermIInv == TerminalTypes /\ TerminalsOK /\ WaitsOK

-----------------------------------------------------------------------------
(* The connection *)

Call == [Fields -> Nat]
Order == [kind : {"initialize", "new", "load", "prompt"}, n : Nat]
Message ==
  [kind : {"response"}, to : Order]
  \cup [kind : {"call", "update"}, id : ToolCalls, says : Call, whole : Call]
  \cup [kind : {"request"}, of : Asks, arg : Nat]
Kinds == {"none", "permission", "fs", "create", "wait", "kill", "release"}
AskType == [kind : Kinds, state : {"unasked", "asked", "serving", "answered", "refused", "failed"}]

ClientType ==
  [open : BOOLEAN, over : BOOLEAN, initialized : BOOLEAN, asked : BOOLEAN,
   session : BOOLEAN, inFlight : Nat, answered : Nat, prompts : Nat]

AcpTypes ==
  /\ wire \in Seq(Message) /\ posted \in Seq(Order) /\ inbox \in Seq(Order)
  /\ client \in ClientType
  /\ agent \in [turn : Nat, last : Nat, session : BOOLEAN]
  /\ calls \in [ToolCalls -> [turn : Int, told : Call]]
  /\ asks \in [Asks -> AskType]

\* A request that is on the wire has not been served: it waits for nothing yet.
WaitsAreServed ==
  \A a \in Asks : waits[a].result # "none" => asks[a].state \notin {"unasked", "asked"}
RequestsOK ==
  \A k \in 1..Len(wire) : wire[k].kind = "request" =>
    /\ asks[wire[k].of].state = "asked"
    /\ asks[wire[k].of].kind = "create" => wire[k].arg \in Limits
    /\ \A l \in 1..Len(wire) : wire[l].kind = "request" /\ wire[l].of = wire[k].of => l = k

AcpTermIInv ==
  AcpTypes /\ TermIInv /\ WaitsAreServed /\ RequestsOK /\ ("terminal" \in providers => manager)

-----------------------------------------------------------------------------
(* The tool calls *)

Speaks(m) == m.kind \in {"call", "update"}
About(m, c) == Speaks(m) /\ m.id = c
EndsPrompt(m) == m.kind = "response" /\ m.to.kind = "prompt"

\* What an update says fits what was known before it.
Fits(known, m) == m.kind = "update" => mergeToolCall(known, m.says) = m.whole

\* What is on the wire says all of a tool call, or fits what precedes it.
WholeCalls ==
  \A k \in 1..Len(wire) : wire[k].kind = "call" => wire[k].says = wire[k].whole
FirstFits ==
  \A k \in 1..Len(wire) :
    Speaks(wire[k]) /\ (\A l \in 1..k - 1 : ~ About(wire[l], wire[k].id))
    => Fits(Known(wire[k].id), wire[k])
NextFits ==
  \A j, k \in 1..Len(wire) :
    (/\ j < k /\ Speaks(wire[k]) /\ About(wire[j], wire[k].id)
     /\ \A l \in j + 1..k - 1 : ~ About(wire[l], wire[k].id))
    => Fits(wire[j].whole, wire[k])
WireFits == WholeCalls /\ FirstFits /\ NextFits

\* What the agent has told of a call in the turn it is in is what the client will know.
InTurn == agent.turn # 0 \/ agent.last = 0
ToldIsKnown ==
  InTurn => \A c \in ToolCalls : calls[c].turn = agent.last =>
    /\ (\A l \in 1..Len(wire) : ~ About(wire[l], c)) => Known(c) = calls[c].told
    /\ \A k \in 1..Len(wire) :
         About(wire[k], c) /\ (\A l \in k + 1..Len(wire) : ~ About(wire[l], c))
         => wire[k].whole = calls[c].told

\* The prompts: in order at the agent, ended in order, and the end of the last one is the
\* last the agent says until the next.
PromptsOK ==
  /\ client.inFlight \in {0, client.prompts}
  /\ agent.last \in 0..client.prompts /\ agent.turn \in {0, agent.last}
  /\ \A c \in ToolCalls : calls[c].turn <= agent.last
InboxOK ==
  \A k \in 1..Len(inbox) : inbox[k].kind = "prompt" =>
    /\ inbox[k].n \in agent.last + 1..client.prompts
    /\ \A l \in k + 1..Len(inbox) : inbox[l].kind = "prompt" => inbox[l].n > inbox[k].n
EndsOK ==
  \A k \in 1..Len(wire) : EndsPrompt(wire[k]) =>
    /\ wire[k].to.n \in 1..agent.last
    /\ wire[k].to.n = agent.last => agent.turn = 0
    /\ \A l \in k + 1..Len(wire) :
         /\ EndsPrompt(wire[l]) => wire[l].to.n > wire[k].to.n
         /\ Speaks(wire[l]) => wire[k].to.n < agent.last

\* The continuation of a prompt is due: its turn is the last, and all it said was heard.
ContinuesOK ==
  \A k \in 1..Len(posted) : posted[k].kind = "prompt" =>
    /\ client.inFlight # 0 /\ client.answered = client.inFlight
    /\ agent.last = client.inFlight /\ agent.turn = 0
    /\ \A l \in 1..Len(wire) : ~ Speaks(wire[l]) /\ ~ EndsPrompt(wire[l])
    /\ \A l \in 1..Len(posted) : posted[l].kind = "prompt" => l = k

\* Once it is closed nothing is under way; before it was opened nothing was.
ClosedOK ==
  /\ ~ client.open => wire = <<>> /\ inbox = <<>>
  /\ ~ client.open /\ ~ client.over => posted = <<>>

CallsIInv ==
  /\ ClosedOK /\ WireFits
  /\ ~ client.over => ToldIsKnown /\ PromptsOK /\ InboxOK /\ EndsOK /\ ContinuesOK
  /\ client.open => ~ client.over
  /\ ShownIsMeant

-----------------------------------------------------------------------------
(* Windows *)

LEMMA WindowSeq ==
    ASSUME NEW b \in Nat, NEW n \in Nat
    PROVE  Window(b, n) \in Seq(Nat) /\ Len(Window(b, n)) = n
<1>1. Window(b, n) \in [1..n -> Nat]
  BY DEF Window
<1> QED
  BY <1>1, FunctionIsSeq

LEMMA WindowAt ==
    ASSUME NEW b \in Nat, NEW n \in Nat, NEW i \in 1..n
    PROVE  Window(b, n)[i] = b + i
BY DEF Window

\* Two windows, one behind the other.
LEMMA WindowConcat ==
    ASSUME NEW b \in Nat, NEW n \in Nat, NEW m \in Nat
    PROVE  Window(b, n) \o Window(b + n, m) = Window(b, n + m)
<1>1. PICK x \in Seq(Nat), y \in Seq(Nat), t \in Seq(Nat) :
        /\ x = Window(b, n) /\ Len(x) = n
        /\ y = Window(b + n, m) /\ Len(y) = m
        /\ t = Window(b, n + m) /\ Len(t) = n + m
  <2>1. b + n \in Nat /\ n + m \in Nat
    OBVIOUS
  <2> QED
    BY <2>1, WindowSeq
<1>2. x \o y \in Seq(Nat) /\ Len(x \o y) = n + m
  BY <1>1, ConcatProperties
<1>3. \A i \in 1..n + m : (x \o y)[i] = t[i]
  <2> TAKE i \in 1..n + m
  <2>1. (x \o y)[i] = IF i <= n THEN x[i] ELSE y[i - n]
    <3>1. \A j \in 1..Len(x) + Len(y) : (x \o y)[j] = IF j <= Len(x) THEN x[j] ELSE y[j - Len(x)]
      BY ConcatProperties
    <3> QED
      BY <1>1, <3>1
  <2>2. t[i] = b + i
    <3>1. n + m \in Nat
      OBVIOUS
    <3> QED
      BY <1>1, <3>1, WindowAt
  <2>3. CASE i <= n
    <3>1. i \in 1..n
      BY <2>3
    <3>2. x[i] = b + i
      BY <1>1, <3>1, WindowAt
    <3> QED
      BY <2>1, <2>2, <2>3, <3>2
  <2>4. CASE ~ (i <= n)
    <3>1. i - n \in 1..m /\ (b + n) + (i - n) = b + i /\ b + n \in Nat
      BY <2>4
    <3>2. y[i - n] = (b + n) + (i - n)
      BY <1>1, <3>1, WindowAt
    <3> QED
      BY <2>1, <2>2, <2>4, <3>1, <3>2
  <2> QED
    BY <2>3, <2>4
<1>4. x \o y = t
  BY <1>1, <1>2, <1>3, SeqEqual
<1> QED
  BY <1>1, <1>4

\* The end of a window.
LEMMA WindowRight ==
    ASSUME NEW b \in Nat, NEW n \in Nat, NEW l \in 1..n
    PROVE  Right(Window(b, n), l) = Window(b + (n - l), l)
<1> DEFINE s == Window(b, n)
           r == SubSeq(s, n - l + 1, n)
           t == Window(b + (n - l), l)
<1>1. s \in Seq(Nat) /\ Len(s) = n
  BY WindowSeq
<1>2. r \in Seq(Nat) /\ Len(r) = l /\ \A i \in 1..l : r[i] = s[(n - l + 1) + i - 1]
  <2> HIDE DEF s
  <2>1. n - l + 1 \in Int /\ n \in Int /\ n - l + 1 <= n /\ n - (n - l + 1) + 1 = l
    OBVIOUS
  <2>2. \A i \in n - l + 1 .. n : s[i] \in Nat
    BY <1>1
  <2> HIDE DEF r
  <2>3. /\ r \in Seq(Nat) /\ Len(r) = n - (n - l + 1) + 1
        /\ \A i \in 1..n - (n - l + 1) + 1 : r[i] = s[(n - l + 1) + i - 1]
    BY <2>1, <2>2, SubSeqProperties DEF r
  <2> QED
    BY <2>1, <2>3
<1>3. t \in Seq(Nat) /\ Len(t) = l
  BY WindowSeq
<1>4. \A i \in 1..l : r[i] = t[i]
  <2> TAKE i \in 1..l
  <2>1. (n - l + 1) + i - 1 \in 1..n /\ b + ((n - l + 1) + i - 1) = (b + (n - l)) + i
    OBVIOUS
  <2> QED
    BY <1>2, <2>1 DEF Window
<1>5. Right(s, l) = r
  BY <1>1 DEF Right
<1> HIDE DEF s, t, r
<1>6. r = t
  BY <1>2, <1>3, <1>4, SeqEqual
<1> QED
  BY <1>5, <1>6 DEF s, t

-----------------------------------------------------------------------------
(* One terminal *)

LEMMA UnreadIsWindow ==
    ASSUME NEW i
    PROVE  Unread(i) = Window(processes[i].read, processes[i].written - processes[i].read)
BY DEF Unread, Window

\* appendOutput of all that is unread leaves the window the limit allows.
LEMMA AppendOutputOK ==
    ASSUME NEW t \in Terminal, NEW p \in ProcessType, Shows(t, p)
    PROVE  LET u == appendOutput(t, Window(p.read, p.written - p.read))
           IN  /\ u \in Terminal /\ u.limit = t.limit
               /\ u.output = IF t.limit = 0 \/ p.written <= t.limit THEN Window(0, p.written)
                             ELSE Window(p.written - t.limit, t.limit)
               /\ u.truncated = (t.limit > 0 /\ p.written > t.limit)
               /\ u.held = t.held /\ u.finished = t.finished /\ u.exit = t.exit
               /\ u.waiters = t.waiters
<1> DEFINE d == Window(p.read, p.written - p.read)
           u == appendOutput(t, d)
<1>1. /\ p.read \in Nat /\ p.written \in Nat /\ p.read <= p.written
      /\ p.written - p.read \in Nat /\ t.limit \in Nat
  <2>1. t.limit \in Nat
    BY TerminalAssumption DEF Terminal
  <2>2. p.read \in Nat /\ p.written \in Nat
    BY DEF ProcessType
  <2>3. p.read <= p.written
    BY DEF Shows
  <2> QED
    BY <2>1, <2>2, <2>3
<1>2. PICK b \in Nat, n \in Nat :
        /\ b + n = p.read /\ t.output = Window(b, n)
        /\ t.limit = 0 \/ p.read <= t.limit => b = 0
        /\ ~ (t.limit = 0 \/ p.read <= t.limit) => n = t.limit
  <2>1. CASE t.limit = 0 \/ p.read <= t.limit
    BY <1>1, <2>1 DEF Shows
  <2>2. CASE ~ (t.limit = 0 \/ p.read <= t.limit)
    <3>1. t.output = Window(p.read - t.limit, t.limit) /\ p.read - t.limit \in Nat
      BY <1>1, <2>2 DEF Shows
    <3> QED
      BY <1>1, <2>2, <3>1
  <2> QED
    BY <2>1, <2>2
<1>3. PICK l \in Nat : l = n + (p.written - p.read) /\ b + l = p.written
  BY <1>1, <1>2
<1>4. t.output \o d = Window(b, l)
  <2>1. t.output = Window(b, n) /\ d = Window(b + n, p.written - p.read)
    BY <1>2
  <2>2. Window(b, n) \o Window(b + n, p.written - p.read) = Window(b, n + (p.written - p.read))
    BY <1>1, WindowConcat
  <2> QED
    BY <1>3, <2>1, <2>2
<1>5. Window(b, l) \in Seq(Nat) /\ Len(Window(b, l)) = l
  BY WindowSeq
<1>6. u = IF t.limit > 0 /\ l > t.limit
          THEN [t EXCEPT !.output = Right(Window(b, l), t.limit), !.truncated = TRUE]
          ELSE [t EXCEPT !.output = Window(b, l)]
  BY <1>4, <1>5 DEF appendOutput
<1> HIDE DEF u, d
<1>7. CASE t.limit > 0 /\ l > t.limit
  <2>1. Right(Window(b, l), t.limit) = Window(b + (l - t.limit), t.limit)
    BY <1>1, <1>7, WindowRight
  <2>2. b + (l - t.limit) = p.written - t.limit /\ p.written > t.limit /\ p.written - t.limit \in Nat
    BY <1>1, <1>3, <1>7
  <2>3. u = [t EXCEPT !.output = Window(p.written - t.limit, t.limit), !.truncated = TRUE]
    BY <1>6, <1>7, <2>1, <2>2
  <2>4. Window(p.written - t.limit, t.limit) \in Seq(Nat)
    BY <1>1, <2>2, WindowSeq
  <2>5. /\ u \in Terminal /\ u.limit = t.limit /\ u.truncated = TRUE
        /\ u.output = Window(p.written - t.limit, t.limit)
        /\ u.held = t.held /\ u.finished = t.finished /\ u.exit = t.exit
        /\ u.waiters = t.waiters
    BY <2>3, <2>4 DEF Terminal
  <2>6. t.limit > 0 /\ p.written > t.limit /\ ~ (t.limit = 0 \/ p.written <= t.limit)
    BY <1>1, <1>7, <2>2
  <2> QED
    BY <2>5, <2>6 DEF u, d
<1>8. CASE ~ (t.limit > 0 /\ l > t.limit)
  <2>1. u = [t EXCEPT !.output = Window(b, l)]
    BY <1>6, <1>8
  <2>2. Window(b, l) = IF t.limit = 0 \/ p.written <= t.limit THEN Window(0, p.written)
                       ELSE Window(p.written - t.limit, t.limit)
    <3>1. CASE t.limit = 0 \/ p.written <= t.limit
      <4>1. b = 0 /\ l = p.written
        BY <1>1, <1>2, <1>3, <3>1
      <4> QED
        BY <3>1, <4>1
    <3>2. CASE ~ (t.limit = 0 \/ p.written <= t.limit)
      <4>1. l = t.limit /\ b = p.written - t.limit
        BY <1>1, <1>2, <1>3, <1>8, <3>2
      <4> QED
        BY <3>2, <4>1
    <3> QED
      BY <3>1, <3>2
  <2>3. t.truncated = (t.limit > 0 /\ p.written > t.limit)
    BY <1>1, <1>2, <1>3, <1>8 DEF Shows
  <2>4. /\ u \in Terminal /\ u.limit = t.limit /\ u.output = Window(b, l)
        /\ u.truncated = t.truncated
        /\ u.held = t.held /\ u.finished = t.finished /\ u.exit = t.exit
        /\ u.waiters = t.waiters
    BY <1>5, <2>1 DEF Terminal
  <2> QED
    BY <2>2, <2>3, <2>4 DEF u, d
<1> QED
  BY <1>7, <1>8

\* One terminal and its process change, and maybe the futures.
LEMMA OneTerminal ==
    ASSUME TermIInv, NEW i \in 1..Len(terminals), NEW t \in Terminal, NEW p \in ProcessType,
           terminals' = [terminals EXCEPT ![i] = t], processes' = [processes EXCEPT ![i] = p],
           UNCHANGED manager, waits' \in [Asks -> Wait], Shows(t, p), Finishes(t, p), WaitsOK'
    PROVE  TermIInv'
<1>1. /\ terminals' \in Seq(Terminal) /\ Len(terminals') = Len(terminals)
      /\ terminals'[i] = t
      /\ \A j \in 1..Len(terminals) : j # i => terminals'[j] = terminals[j]
  BY DEF TermIInv, TerminalTypes
<1>2. /\ processes' \in Seq(ProcessType) /\ Len(processes') = Len(processes)
      /\ processes'[i] = p
      /\ \A j \in 1..Len(processes) : j # i => processes'[j] = processes[j]
  BY DEF TermIInv, TerminalTypes
<1>3. TerminalTypes'
  BY <1>1, <1>2 DEF TermIInv, TerminalTypes
<1>4. TerminalsOK'
  BY <1>1, <1>2 DEF TermIInv, TerminalTypes, TerminalsOK, Shows, Finishes
<1> QED
  BY <1>3, <1>4 DEF TermIInv

\* One terminal and its process change, and the futures do not.
LEMMA WaitsStay ==
    ASSUME TermIInv, NEW i \in 1..Len(terminals), NEW t \in Terminal, NEW p \in ProcessType,
           terminals' = [terminals EXCEPT ![i] = t], processes' = [processes EXCEPT ![i] = p],
           UNCHANGED waits, t.waiters = terminals[i].waiters,
           processes[i].state = "ended" => p.state = "ended" /\ p.exit = processes[i].exit,
           ~ terminals[i].held /\ ~ terminals[i].finished => ~ t.held /\ ~ t.finished
    PROVE  WaitsOK' /\ waits' \in [Asks -> Wait]
<1>1. /\ Len(terminals') = Len(terminals) /\ terminals'[i] = t
      /\ \A j \in 1..Len(terminals) : j # i => terminals'[j] = terminals[j]
  BY DEF TermIInv, TerminalTypes
<1>2. /\ processes'[i] = p
      /\ \A j \in 1..Len(terminals) : j # i => processes'[j] = processes[j]
  BY DEF TermIInv, TerminalTypes
<1>3. waits' \in [Asks -> Wait]
  BY DEF TermIInv, TerminalTypes
<1>4. WaitsOK'
  BY <1>1, <1>2 DEF TermIInv, WaitsOK, WaitOK
<1> QED
  BY <1>3, <1>4

\* What holds of a terminal of the state, and of its process.
LEMMA TerminalAt ==
    ASSUME TermIInv, NEW i \in 1..Len(terminals)
    PROVE  /\ terminals[i] \in Terminal /\ processes[i] \in ProcessType
           /\ Shows(terminals[i], processes[i]) /\ Finishes(terminals[i], processes[i])
           /\ terminals = [terminals EXCEPT ![i] = terminals[i]]
           /\ processes = [processes EXCEPT ![i] = processes[i]]
BY DEF TermIInv, TerminalTypes, TerminalsOK

LEMMA IdsAre == TerminalTypes => Ids = 1..Len(terminals)
BY DEF Ids, TerminalTypes

LEMMA ProcessOK ==
    ASSUME TermIInv, NEW i \in Ids,
           ProcessStarts(i) \/ ProcessFailsToStart(i) \/ ProcessWrites(i)
    PROVE  TermIInv'
<1> DEFINE t == terminals[i]
           p == processes[i]
<1>1. i \in 1..Len(terminals)
  BY IdsAre DEF TermIInv
<1>2. /\ t \in Terminal /\ p \in ProcessType /\ Shows(t, p) /\ Finishes(t, p)
      /\ terminals = [terminals EXCEPT ![i] = t]
  BY <1>1, TerminalAt
<1>3. PICK q \in ProcessType :
        /\ processes' = [processes EXCEPT ![i] = q]
        /\ q.read = p.read /\ q.exit = p.exit /\ p.written <= q.written
        /\ q.state \in {"running", "unstarted"} /\ p.state \in {"starting", "running"}
        /\ q.state = "unstarted" => q.written = p.written /\ p.state = "starting"
  <2>1. CASE ProcessStarts(i)
    <3> DEFINE q == [p EXCEPT !.state = "running"]
    <3>1. /\ processes' = [processes EXCEPT ![i] = q]
          /\ p.state = "starting"
      BY <1>1, <2>1 DEF ProcessStarts, TermIInv, TerminalTypes
    <3>2. /\ q \in ProcessType
          /\ q.read = p.read
          /\ q.exit = p.exit
          /\ q.written = p.written /\ p.written \in Nat
          /\ q.state = "running"
      BY <1>2 DEF ProcessType
    <3> HIDE DEF q
    <3>3. p.written <= q.written /\ q.state \in {"running", "unstarted"}
      BY <3>1, <3>2
    <3> QED
      BY <3>1, <3>2, <3>3
  <2>2. CASE ProcessFailsToStart(i)
    <3> DEFINE q == [p EXCEPT !.state = "unstarted"]
    <3>1. /\ processes' = [processes EXCEPT ![i] = q]
          /\ p.state = "starting"
      BY <1>1, <2>2 DEF ProcessFailsToStart, TermIInv, TerminalTypes
    <3>2. /\ q \in ProcessType
          /\ q.read = p.read
          /\ q.exit = p.exit
          /\ q.written = p.written /\ p.written \in Nat
          /\ q.state = "unstarted"
      BY <1>2 DEF ProcessType
    <3> HIDE DEF q
    <3>3. p.written <= q.written /\ q.state \in {"running", "unstarted"}
      BY <3>1, <3>2
    <3> QED
      BY <3>1, <3>2, <3>3
  <2>3. CASE ProcessWrites(i)
    <3> DEFINE q == [p EXCEPT !.written = p.written + 1]
    <3>1. /\ processes' = [processes EXCEPT ![i] = q]
          /\ p.state = "running"
      BY <1>1, <2>3 DEF ProcessWrites, TermIInv, TerminalTypes
    <3>2. /\ q \in ProcessType
          /\ q.read = p.read
          /\ q.exit = p.exit
          /\ q.written = p.written + 1 /\ p.written \in Nat
          /\ q.state = "running"
      BY <1>2, <3>1 DEF ProcessType
    <3> HIDE DEF q
    <3>3. p.written <= q.written /\ q.state \in {"running", "unstarted"}
      BY <3>1, <3>2
    <3> QED
      BY <3>1, <3>2, <3>3
  <2> QED
    BY <2>1, <2>2, <2>3
<1>4. UNCHANGED << terminals, waits, manager >>
  BY DEF ProcessStarts, ProcessFailsToStart, ProcessWrites
<1>5. terminals' = [terminals EXCEPT ![i] = t]
  BY <1>2, <1>4
<1>6. Shows(t, q)
  BY <1>2, <1>3 DEF Shows, ProcessType
<1>7. Finishes(t, q)
  BY <1>2, <1>3 DEF Finishes, ProcessType
<1>8. WaitsOK' /\ waits' \in [Asks -> Wait]
  BY <1>1, <1>2, <1>3, <1>4, <1>5, WaitsStay
<1> QED
  BY <1>1, <1>2, <1>3, <1>4, <1>5, <1>6, <1>7, <1>8, OneTerminal

LEMMA ReadyReadOK ==
    ASSUME TermIInv, NEW i \in Ids, readyRead(i)
    PROVE  TermIInv'
<1> DEFINE t == terminals[i]
           p == processes[i]
           u == appendOutput(t, Window(p.read, p.written - p.read))
           q == [p EXCEPT !.read = p.written]
<1>1. i \in 1..Len(terminals)
  BY IdsAre DEF TermIInv
<1>2. t \in Terminal /\ p \in ProcessType /\ Shows(t, p) /\ Finishes(t, p)
  BY <1>1, TerminalAt
<1>3. /\ t.held /\ p.state = "running" /\ UNCHANGED << waits, manager >>
      /\ processes' = [processes EXCEPT ![i] = q]
  BY <1>1 DEF readyRead, TermIInv, TerminalTypes
<1>4. terminals' = [terminals EXCEPT ![i] = u]
  BY <1>1, UnreadIsWindow DEF readyRead, TermIInv, TerminalTypes
<1>5. /\ u \in Terminal /\ u.limit = t.limit
      /\ u.output = IF t.limit = 0 \/ p.written <= t.limit THEN Window(0, p.written)
                    ELSE Window(p.written - t.limit, t.limit)
      /\ u.truncated = (t.limit > 0 /\ p.written > t.limit)
      /\ u.held = t.held /\ u.finished = t.finished /\ u.exit = t.exit /\ u.waiters = t.waiters
  BY <1>2, AppendOutputOK
<1>6. /\ q \in ProcessType /\ q.read = p.written /\ q.written = p.written /\ q.state = p.state
      /\ q.exit = p.exit /\ p.written \in Nat
  BY <1>2 DEF ProcessType
<1> HIDE DEF u, q
<1>7. Shows(u, q)
  BY <1>5, <1>6 DEF Shows
<1>8. Finishes(u, q)
  BY <1>2, <1>3, <1>5, <1>6 DEF Finishes
<1>9. WaitsOK' /\ waits' \in [Asks -> Wait]
  BY <1>1, <1>3, <1>4, <1>5, <1>6, WaitsStay
<1> QED
  BY <1>1, <1>3, <1>4, <1>5, <1>6, <1>7, <1>8, <1>9, OneTerminal

\* One terminal and its process change, and those who wait for it are told.
LEMMA WaitsResolved ==
    ASSUME TermIInv, NEW i \in 1..Len(terminals), NEW t \in Terminal, NEW p \in ProcessType,
           terminals' = [terminals EXCEPT ![i] = t], processes' = [processes EXCEPT ![i] = p],
           NEW exit \in {"unknown", "code", "killed"},
           waits' = Resolved(terminals[i].waiters, exit), t.waiters = {},
           \/ terminals[i].waiters = {}
           \/ exit # "unknown" /\ p.state = "ended" /\ p.exit = exit
           \/ exit = "unknown" /\ ~ t.held /\ ~ t.finished,
           processes[i].state = "ended" => p.state = "ended" /\ p.exit = processes[i].exit,
           ~ terminals[i].held /\ ~ terminals[i].finished => ~ t.held /\ ~ t.finished
    PROVE  WaitsOK' /\ waits' \in [Asks -> Wait]
<1>1. /\ Len(terminals') = Len(terminals) /\ terminals'[i] = t
      /\ \A j \in 1..Len(terminals) : j # i => terminals'[j] = terminals[j]
  BY DEF TermIInv, TerminalTypes
<1>2. /\ processes'[i] = p
      /\ \A j \in 1..Len(terminals) : j # i => processes'[j] = processes[j]
  BY DEF TermIInv, TerminalTypes
<1>3. waits \in [Asks -> Wait]
  BY DEF TermIInv, TerminalTypes
<1>4. \A a \in Asks :
        /\ a \in terminals[i].waiters =>
             waits'[a] \in Wait /\ waits'[a].on = waits[a].on /\ waits'[a].result = exit
        /\ a \notin terminals[i].waiters => waits'[a] = waits[a]
  BY <1>3 DEF Resolved, Wait
<1>5. waits' \in [Asks -> Wait]
  BY <1>3, <1>4 DEF Resolved
<1>6. WaitsOK'
  <2> SUFFICES ASSUME NEW a \in Asks PROVE WaitOK(a, waits[a])'
    BY DEF WaitsOK
  <2>1. WaitOK(a, waits[a])
    BY DEF TermIInv, WaitsOK
  <2>2. CASE a \in terminals[i].waiters
    <3>1. /\ waits[a].on = i /\ waits'[a].on = i /\ waits'[a].result = exit
          /\ \A j \in 1..Len(terminals) : a \in terminals[j].waiters => j = i
      BY <1>4, <2>1, <2>2 DEF WaitOK
    <3>2. \A j \in 1..Len(terminals) : a \notin terminals'[j].waiters
      BY <1>1, <3>1
    <3> QED
      BY <1>1, <1>2, <2>2, <3>1, <3>2 DEF WaitOK
  <2>3. CASE a \notin terminals[i].waiters
    <3>1. waits'[a] = waits[a]
      BY <1>4, <2>3
    <3>2. \A j \in 1..Len(terminals) : a \in terminals'[j].waiters <=> a \in terminals[j].waiters
      BY <1>1, <2>3
    <3> QED
      BY <1>1, <1>2, <2>1, <3>1, <3>2 DEF WaitOK
  <2> QED
    BY <2>2, <2>3
<1> QED
  BY <1>5, <1>6

\* onFinished: what is unread is appended first.
LEMMA ProcessEndsOK ==
    ASSUME TermIInv, NEW i \in Ids, NEW exit \in {"code", "killed"}, ProcessEnds(i, exit)
    PROVE  TermIInv'
<1> DEFINE t == terminals[i]
           p == processes[i]
           u == appendOutput(t, Window(p.read, p.written - p.read))
           v == [u EXCEPT !.finished = TRUE, !.exit = exit, !.waiters = {}]
           q == [p EXCEPT !.state = "ended", !.exit = exit, !.read = p.written]
<1>1. i \in 1..Len(terminals)
  BY IdsAre DEF TermIInv
<1>2. t \in Terminal /\ p \in ProcessType /\ Shows(t, p) /\ Finishes(t, p)
  BY <1>1, TerminalAt
<1>3. /\ t.held /\ p.state = "running" /\ manager /\ UNCHANGED manager
      /\ processes' = [processes EXCEPT ![i] = q]
      /\ waits' = Resolved(t.waiters, exit)
  BY <1>1 DEF ProcessEnds, onFinished, TermIInv, TerminalTypes
<1>4. terminals' = [terminals EXCEPT ![i] = v]
  BY <1>1, UnreadIsWindow DEF ProcessEnds, onFinished, TermIInv, TerminalTypes
<1>5. /\ u \in Terminal /\ u.limit = t.limit
      /\ u.output = IF t.limit = 0 \/ p.written <= t.limit THEN Window(0, p.written)
                    ELSE Window(p.written - t.limit, t.limit)
      /\ u.truncated = (t.limit > 0 /\ p.written > t.limit)
      /\ u.held = t.held
  BY <1>2, AppendOutputOK
<1>6. /\ q \in ProcessType /\ q.read = p.written /\ q.written = p.written /\ q.state = "ended"
      /\ q.exit = exit /\ p.written \in Nat
  BY <1>2 DEF ProcessType
<1> HIDE DEF u, q
<1>7. /\ v \in Terminal /\ v.limit = u.limit /\ v.output = u.output /\ v.truncated = u.truncated
      /\ v.held = u.held /\ v.finished = TRUE /\ v.exit = exit /\ v.waiters = {}
  BY <1>5 DEF Terminal
<1> HIDE DEF v
<1>8. Shows(v, q)
  BY <1>5, <1>6, <1>7 DEF Shows
<1>9. Finishes(v, q)
  BY <1>3, <1>6, <1>7 DEF Finishes
<1>10. WaitsOK' /\ waits' \in [Asks -> Wait]
  BY <1>1, <1>3, <1>4, <1>5, <1>6, <1>7, WaitsResolved
<1> QED
  BY <1>1, <1>3, <1>4, <1>6, <1>7, <1>8, <1>9, <1>10, OneTerminal

\* killTerminal: the process is asked to end; nothing else changes.
LEMMA KillTerminalOK ==
    ASSUME TermIInv, NEW i, killTerminal(i)
    PROVE  TermIInv'
<1> DEFINE t == terminals[i]
           p == processes[i]
           q == [p EXCEPT !.killed = TRUE]
<1>0. UNCHANGED << terminals, waits, manager >>
  BY DEF killTerminal
<1>1. CASE UNCHANGED processes
  BY <1>0, <1>1 DEF TermIInv, TerminalTypes, TerminalsOK, WaitsOK, WaitOK, Shows, Finishes
<1>2. CASE i \in Ids /\ processes' = [processes EXCEPT ![i] = q]
  <2>1. i \in 1..Len(terminals)
    BY <1>2, IdsAre DEF TermIInv
  <2>2. /\ t \in Terminal /\ p \in ProcessType /\ Shows(t, p) /\ Finishes(t, p)
        /\ terminals' = [terminals EXCEPT ![i] = t]
    BY <1>0, <2>1, TerminalAt
  <2>3. /\ q \in ProcessType /\ q.read = p.read /\ q.written = p.written /\ q.state = p.state
        /\ q.exit = p.exit
    BY <2>2 DEF ProcessType
  <2> HIDE DEF q
  <2>4. Shows(t, q) /\ Finishes(t, q)
    BY <2>2, <2>3 DEF Shows, Finishes
  <2>5. WaitsOK' /\ waits' \in [Asks -> Wait]
    BY <1>0, <1>2, <2>1, <2>2, <2>3, WaitsStay
  <2> QED
    BY <1>0, <1>2, <2>1, <2>2, <2>3, <2>4, <2>5, OneTerminal
<1>3. \/ UNCHANGED processes
      \/ i \in Ids /\ processes' = [processes EXCEPT ![i] = q]
  BY IdsAre DEF killTerminal, Held, TermIInv, TerminalTypes
<1> QED
  BY <1>1, <1>2, <1>3

\* releaseTerminal: nothing of the process is heard any more.
LEMMA ReleaseTerminalOK ==
    ASSUME TermIInv, NEW i, releaseTerminal(i)
    PROVE  TermIInv'
<1> DEFINE t == terminals[i]
           p == processes[i]
           v == [t EXCEPT !.held = FALSE, !.waiters = {}]
<1>1. CASE UNCHANGED termVars
  BY <1>1 DEF termVars, TermIInv, TerminalTypes, TerminalsOK, WaitsOK, WaitOK, Shows, Finishes
<1>2. CASE Held(i)
  <2>1. i \in 1..Len(terminals) /\ t.held
    BY <1>2, IdsAre DEF Held, TermIInv
  <2>2. /\ t \in Terminal /\ p \in ProcessType /\ Shows(t, p) /\ Finishes(t, p)
        /\ processes = [processes EXCEPT ![i] = p]
    BY <2>1, TerminalAt
  <2>3. /\ terminals' = [terminals EXCEPT ![i] = v]
        /\ waits' = Resolved(t.waiters, t.exit) /\ UNCHANGED manager
    BY <1>2, <2>1 DEF releaseTerminal, TermIInv, TerminalTypes
  <2>4. PICK q \in ProcessType :
          /\ processes' = [processes EXCEPT ![i] = q] /\ q.read = p.read /\ q.written = p.written
          /\ IF p.state \in {"starting", "running"} THEN q.state = "ended" /\ q.exit = "killed"
             ELSE q = p
    <3>1. CASE p.state \in {"starting", "running"}
      <4> DEFINE q == [p EXCEPT !.state = "ended", !.exit = "killed"]
      <4>1. processes' = [processes EXCEPT ![i] = q]
        BY <1>2, <2>1, <3>1 DEF releaseTerminal, Runs, TermIInv, TerminalTypes
      <4>2. /\ q \in ProcessType /\ q.read = p.read /\ q.written = p.written
            /\ q.state = "ended" /\ q.exit = "killed"
        BY <2>2 DEF ProcessType
      <4> HIDE DEF q
      <4> QED
        BY <3>1, <4>1, <4>2
    <3>2. CASE ~ (p.state \in {"starting", "running"})
      <4>1. processes' = processes
        BY <1>2, <3>2 DEF releaseTerminal, Runs
      <4> QED
        BY <2>2, <3>2, <4>1
    <3> QED
      BY <3>1, <3>2
  <2>5. /\ v \in Terminal /\ v.limit = t.limit /\ v.output = t.output /\ v.truncated = t.truncated
        /\ ~ v.held /\ v.finished = t.finished /\ v.exit = t.exit /\ v.waiters = {}
    BY <2>2 DEF Terminal
  <2> HIDE DEF v
  <2>6. Shows(v, q)
    BY <2>2, <2>4, <2>5 DEF Shows
  <2>7. Finishes(v, q)
    BY <2>1, <2>2, <2>4, <2>5 DEF Finishes
  <2>8. WaitsOK' /\ waits' \in [Asks -> Wait]
    <3>1. t.exit \in {"unknown", "code", "killed"}
      BY <2>2 DEF Terminal
    <3>2. \/ t.waiters = {}
          \/ t.exit = "unknown" /\ ~ v.held /\ ~ v.finished
      BY <2>2, <2>5 DEF Finishes
    <3> QED
      BY <2>1, <2>3, <2>4, <2>5, <3>1, <3>2, WaitsResolved
  <2> QED
    BY <2>1, <2>3, <2>4, <2>5, <2>6, <2>7, <2>8, OneTerminal
<1> QED
  BY <1>1, <1>2 DEF releaseTerminal

\* createTerminal: one more terminal, which nobody waits for.
LEMMA CreateTerminalOK ==
    ASSUME TermIInv, NEW limit \in Limits, manager, createTerminal(limit)
    PROVE  TermIInv'
<1> DEFINE n == Len(terminals)
           t == NoTerminal(limit)
<1>1. /\ t \in Terminal /\ t.held /\ t.finished = FALSE /\ t.exit = "unknown"
      /\ t.waiters = {} /\ t.limit = limit /\ t.output = << >> /\ t.truncated = FALSE
      /\ limit \in Nat
  BY TerminalAssumption DEF NoTerminal, Terminal
<1>2. /\ NoProcess \in ProcessType /\ NoProcess.state = "starting" /\ NoProcess.written = 0
      /\ NoProcess.read = 0
  BY DEF NoProcess, ProcessType
<1>3. /\ terminals' = Append(terminals, t) /\ processes' = Append(processes, NoProcess)
      /\ UNCHANGED << waits, manager >>
  BY DEF createTerminal
<1> HIDE DEF t
<1>4. /\ n \in Nat /\ terminals' \in Seq(Terminal) /\ Len(terminals') = n + 1
      /\ \A j \in 1..n : terminals'[j] = terminals[j]
      /\ terminals'[n + 1] = t
  BY <1>1, <1>3, Appended DEF TermIInv, TerminalTypes
<1>5. /\ processes' \in Seq(ProcessType) /\ Len(processes') = n + 1
      /\ \A j \in 1..n : processes'[j] = processes[j]
      /\ processes'[n + 1] = NoProcess
  BY <1>2, <1>3, Appended DEF TermIInv, TerminalTypes
<1>6. TerminalTypes'
  BY <1>3, <1>4, <1>5 DEF TermIInv, TerminalTypes
<1>7. TerminalsOK'
  <2> SUFFICES ASSUME NEW j \in 1..n + 1
               PROVE  (Shows(terminals[j], processes[j]) /\ Finishes(terminals[j], processes[j]))'
    BY <1>4 DEF TerminalsOK
  <2>1. CASE j \in 1..n
    BY <1>3, <1>4, <1>5, <2>1 DEF TermIInv, TerminalsOK, Shows, Finishes
  <2>2. CASE j = n + 1
    <3>1. Window(0, 0) = << >>
      BY WindowSeq, EmptySeq
    <3>2. terminals'[j] = t /\ processes'[j] = NoProcess
      BY <1>4, <1>5, <2>2
    <3>3. Shows(t, NoProcess)
      <4>1. (limit > 0 /\ 0 > limit) = FALSE /\ (limit = 0 \/ 0 <= limit) /\ 0 <= 0
        BY <1>1
      <4> QED
        BY <1>1, <1>2, <3>1, <4>1 DEF Shows
    <3>4. manager'
      BY <1>3
    <3>5. Finishes(terminals[j], processes[j])'
      BY <1>1, <1>2, <3>2, <3>4 DEF Finishes
    <3> QED
      BY <3>2, <3>3, <3>5 DEF Shows
  <2> QED
    BY <1>4, <2>1, <2>2
<1>8. WaitsOK'
  <2> SUFFICES ASSUME NEW a \in Asks PROVE WaitOK(a, waits[a])'
    BY DEF WaitsOK
  <2>1. WaitOK(a, waits[a]) /\ waits'[a] = waits[a]
    BY <1>3 DEF TermIInv, WaitsOK
  <2>2. \A j \in 1..n + 1 : j \in 1..n \/ (j = n + 1 /\ a \notin terminals'[j].waiters)
    BY <1>1, <1>4
  <2>3. \A j \in 1..n : j \in 1..n + 1
    BY <1>4
  <2> QED
    BY <1>4, <1>5, <2>1, <2>2, <2>3 DEF WaitOK
<1> QED
  BY <1>6, <1>7, <1>8 DEF TermIInv

\* waitForExit, by a caller that does not wait yet.
LEMMA WaitForExitOK ==
    ASSUME TermIInv, NEW a \in Asks, waits[a].result = "none", NEW i \in Nat, waitForExit(a, i)
    PROVE  TermIInv' /\ waits'[a].result # "none" /\ \A b \in Asks \ {a} : waits'[b] = waits[b]
<1> DEFINE t == terminals[i]
           p == processes[i]
           v == [t EXCEPT !.waiters = t.waiters \cup {a}]
<1>1. /\ UNCHANGED << processes, manager >> /\ waits \in [Asks -> Wait]
      /\ WaitOK(a, waits[a])
  BY DEF waitForExit, TermIInv, TerminalTypes, WaitsOK
<1>2. \A j \in 1..Len(terminals) : a \notin terminals[j].waiters
  BY <1>1 DEF WaitOK
<1>3. Held(i) => /\ i \in 1..Len(terminals) /\ t.held /\ t \in Terminal /\ p \in ProcessType
                 /\ Shows(t, p) /\ Finishes(t, p) /\ processes = [processes EXCEPT ![i] = p]
                 /\ terminals = [terminals EXCEPT ![i] = t]
  BY IdsAre, TerminalAt DEF Held, TermIInv
<1>4. CASE Held(i) /\ ~ t.finished
  <2>1. terminals' = [terminals EXCEPT ![i] = v] /\ processes' = [processes EXCEPT ![i] = p]
    BY <1>1, <1>3, <1>4 DEF waitForExit
  <2>2. /\ waits'[a] = [on |-> i, result |-> "waiting"] /\ waits' \in [Asks -> Wait]
        /\ \A b \in Asks \ {a} : waits'[b] = waits[b]
    BY <1>1, <1>4 DEF waitForExit, Wait
  <2>3. /\ v \in Terminal /\ v.limit = t.limit /\ v.output = t.output /\ v.truncated = t.truncated
        /\ v.held = t.held /\ v.finished = t.finished /\ v.exit = t.exit
        /\ v.waiters = t.waiters \cup {a}
    BY <1>3, <1>4 DEF Terminal
  <2> HIDE DEF v
  <2>4. Shows(v, p) /\ Finishes(v, p)
    BY <1>3, <1>4, <2>3 DEF Shows, Finishes
  <2>5. /\ Len(terminals') = Len(terminals) /\ terminals'[i] = v
        /\ \A j \in 1..Len(terminals) : j # i => terminals'[j] = terminals[j]
    BY <1>3, <1>4, <2>1 DEF TermIInv, TerminalTypes
  <2>6. WaitsOK'
    <3> SUFFICES ASSUME NEW b \in Asks PROVE WaitOK(b, waits[b])'
      BY DEF WaitsOK
    <3>1. CASE b = a
      BY <1>1, <1>2, <1>3, <1>4, <2>2, <2>3, <2>5, <3>1 DEF WaitOK
    <3>2. CASE b # a
      <4>1. WaitOK(b, waits[b]) /\ waits'[b] = waits[b]
        BY <2>2, <3>2 DEF TermIInv, WaitsOK
      <4>2. \A j \in 1..Len(terminals) : b \in terminals'[j].waiters <=> b \in terminals[j].waiters
        BY <2>3, <2>5, <3>2
      <4> QED
        BY <1>1, <1>3, <1>4, <2>3, <2>5, <4>1, <4>2 DEF WaitOK
    <3> QED
      BY <3>1, <3>2
  <2>7. TermIInv'
    BY <1>1, <1>3, <1>4, <2>1, <2>2, <2>3, <2>4, <2>6, OneTerminal
  <2> QED
    BY <2>2, <2>7
<1>5. CASE ~ (Held(i) /\ ~ t.finished)
  <2>1. terminals' = terminals
    BY <1>5 DEF waitForExit
  <2>2. PICK r \in {"refused", "code", "killed"} :
          /\ waits' = [waits EXCEPT ![a] = [on |-> i, result |-> r]]
          /\ r # "refused" => i \in 1..Len(terminals) /\ p.state = "ended" /\ p.exit = r
    <3>1. CASE ~ Held(i)
      BY <3>1 DEF waitForExit
    <3>2. CASE Held(i)
      <4>1. t.finished /\ p.state = "ended" /\ t.exit = p.exit /\ p.exit \in {"code", "killed"}
        BY <1>3, <1>5, <3>2 DEF Finishes
      <4>2. waits' = [waits EXCEPT ![a] = [on |-> i, result |-> t.exit]]
        BY <3>2, <4>1 DEF waitForExit
      <4> QED
        BY <1>3, <3>2, <4>1, <4>2
    <3> QED
      BY <3>1, <3>2
  <2>3. /\ waits'[a] = [on |-> i, result |-> r] /\ waits' \in [Asks -> Wait]
        /\ \A b \in Asks \ {a} : waits'[b] = waits[b]
    BY <1>1, <2>2 DEF Wait
  <2>4. TerminalTypes' /\ TerminalsOK'
    BY <1>1, <2>1, <2>3 DEF TermIInv, TerminalTypes, TerminalsOK, Shows, Finishes
  <2>5. WaitsOK'
    <3> SUFFICES ASSUME NEW b \in Asks PROVE WaitOK(b, waits[b])'
      BY DEF WaitsOK
    <3>1. CASE b = a
      BY <1>1, <1>2, <2>1, <2>2, <2>3, <3>1 DEF WaitOK
    <3>2. CASE b # a
      BY <1>1, <2>1, <2>3, <3>2 DEF TermIInv, WaitsOK, WaitOK
    <3> QED
      BY <3>1, <3>2
  <2> QED
    BY <2>3, <2>4, <2>5 DEF TermIInv
<1> QED
  BY <1>4, <1>5

\* ~TerminalManager: no terminal is held, no process runs and nobody waits.
LEMMA DestroyManagerOK ==
    ASSUME TermIInv, NEW heard, DestroyManager(heard)
    PROVE  TermIInv'
<1> DEFINE n == Len(terminals)
           told == UNION { terminals[i].waiters : i \in heard }
           lost == UNION { terminals[i].waiters : i \in Ids \ heard }
<1>1. /\ manager' = FALSE /\ Ids = 1..n /\ n \in Nat
      /\ heard \subseteq { i \in 1..n : terminals[i].held /\ Runs(i) }
      /\ waits' = [a \in Asks |-> IF a \in told THEN [waits[a] EXCEPT !.result = "killed"]
                                  ELSE IF a \in lost THEN [waits[a] EXCEPT !.result = "cancelled"]
                                  ELSE waits[a]]
      /\ processes' = [i \in 1..n |->
            IF Runs(i) THEN [processes[i] EXCEPT !.state = "ended", !.exit = "killed"]
            ELSE processes[i]]
      /\ terminals' = [i \in 1..n |-> [terminals[i] EXCEPT !.held = FALSE, !.waiters = {}]]
  <2>1. Ids = 1..n /\ n \in Nat
    BY IdsAre DEF TermIInv, TerminalTypes
  <2> HIDE DEF n
  <2> QED
    BY <2>1 DEF DestroyManager
<1>2. \A i \in 1..n : /\ terminals[i] \in Terminal /\ processes[i] \in ProcessType
                      /\ Shows(terminals[i], processes[i]) /\ Finishes(terminals[i], processes[i])
  BY TerminalAt
<1>3. \A i \in 1..n :
        /\ terminals'[i] \in Terminal /\ ~ terminals'[i].held /\ terminals'[i].waiters = {}
        /\ terminals'[i].limit = terminals[i].limit /\ terminals'[i].output = terminals[i].output
        /\ terminals'[i].truncated = terminals[i].truncated
        /\ terminals'[i].finished = terminals[i].finished /\ terminals'[i].exit = terminals[i].exit
  BY <1>1, <1>2 DEF Terminal
<1>4. \A i \in 1..n :
        /\ processes'[i] \in ProcessType
        /\ processes'[i].read = processes[i].read /\ processes'[i].written = processes[i].written
        /\ IF Runs(i) THEN processes'[i].state = "ended" /\ processes'[i].exit = "killed"
           ELSE processes'[i] = processes[i]
  BY <1>1, <1>2 DEF ProcessType
<1>5. TerminalTypes'
  <2>1. terminals' \in [1..n -> Terminal] /\ processes' \in [1..n -> ProcessType]
    BY <1>1, <1>3, <1>4
  <2>2. /\ terminals' \in Seq(Terminal) /\ Len(terminals') = n
        /\ processes' \in Seq(ProcessType) /\ Len(processes') = n
    BY <1>1, <2>1, FunctionIsSeq
  <2>3. waits' \in [Asks -> Wait]
    BY <1>1 DEF TermIInv, TerminalTypes, Wait
  <2> QED
    BY <1>1, <2>2, <2>3 DEF TerminalTypes
<1>6. Len(terminals') = n
  <2>1. terminals' \in [1..n -> Terminal]
    BY <1>1, <1>3
  <2> QED
    BY <1>1, <2>1, FunctionIsSeq
<1>7. TerminalsOK'
  <2> SUFFICES ASSUME NEW j \in 1..n
               PROVE  (Shows(terminals[j], processes[j]) /\ Finishes(terminals[j], processes[j]))'
    BY <1>6 DEF TerminalsOK
  <2>1. Shows(terminals'[j], processes'[j])
    BY <1>2, <1>3, <1>4 DEF Shows
  <2>2. Finishes(terminals[j], processes[j])'
    BY <1>2, <1>3, <1>4 DEF Finishes, Runs, ProcessType
  <2> QED
    BY <2>1, <2>2 DEF Shows
<1>8. WaitsOK'
  <2> SUFFICES ASSUME NEW a \in Asks PROVE WaitOK(a, waits[a])'
    BY DEF WaitsOK
  <2>1. WaitOK(a, waits[a]) /\ waits[a] \in Wait
    BY DEF TermIInv, WaitsOK, TerminalTypes
  <2>2. \A j \in 1..n : a \notin terminals'[j].waiters
    BY <1>3
  <2>3. CASE a \in told
    <3>1. PICK i \in 1..n : i \in heard /\ a \in terminals[i].waiters
      BY <1>1, <2>3
    <3>2. waits[a].on = i /\ Runs(i)
      BY <1>1, <2>1, <3>1 DEF WaitOK
    <3>3. waits'[a].on = i /\ waits'[a].result = "killed"
      BY <1>1, <2>1, <2>3, <3>2 DEF Wait
    <3> QED
      BY <1>4, <1>6, <2>2, <3>2, <3>3 DEF WaitOK
  <2>4. CASE a \notin told /\ a \in lost
    <3>1. PICK i \in 1..n : a \in terminals[i].waiters
      BY <1>1, <2>4
    <3>2. waits[a].on = i /\ ~ terminals[i].finished
      BY <1>2, <2>1, <3>1 DEF WaitOK, Finishes
    <3>3. waits'[a].on = i /\ waits'[a].result = "cancelled"
      BY <1>1, <2>1, <2>4, <3>2 DEF Wait
    <3> QED
      BY <1>3, <1>6, <2>2, <3>2, <3>3 DEF WaitOK
  <2>5. CASE a \notin told /\ a \notin lost
    <3>1. waits'[a] = waits[a]
      BY <1>1, <2>5
    <3>2. \A i \in 1..n : a \notin terminals[i].waiters
      BY <1>1, <2>5
    <3> QED
      BY <1>3, <1>4, <1>6, <2>1, <2>2, <3>1, <3>2 DEF WaitOK, Runs
  <2> QED
    BY <2>3, <2>4, <2>5
<1> QED
  BY <1>5, <1>7, <1>8 DEF TermIInv

-----------------------------------------------------------------------------
(* Types *)

LEMMA HostTypes ==
    ASSUME AcpTypes, Host
    PROVE  AcpTypes'
<1> USE DEF AcpTypes, ClientType
<1>1. CASE connectAndInitialize
  <2>1. [kind |-> "initialize", n |-> 0] \in Order
    BY DEF Order
  <2> QED
    BY <1>1, <2>1, Appended DEF connectAndInitialize, Request, HostOnly
<1>2. CASE prompt
  <2>1. client.prompts + 1 \in Nat /\ [kind |-> "prompt", n |-> client.prompts + 1] \in Order
    BY DEF Order
  <2>2. inbox' \in Seq(Order) /\ UNCHANGED << wire, posted, agent, calls, asks >>
    BY <1>2, <2>1, Appended DEF prompt, Request, HostOnly
  <2> QED
    BY <1>2, <2>1, <2>2 DEF prompt
<1>3. CASE PromptTimesOut
  BY <1>3 DEF PromptTimesOut, HostOnly
<1>4. CASE shutdown
  BY <1>4, EmptySeq DEF shutdown
<1>5. ASSUME NEW kind \in {"new", "load"}, OpenSession(kind)
      PROVE  AcpTypes'
  <2>1. [kind |-> kind, n |-> 0] \in Order
    BY DEF Order
  <2>2. inbox' \in Seq(Order) /\ UNCHANGED << wire, posted, agent, calls, asks >>
    BY <1>5, <2>1, Appended DEF OpenSession, Request, HostOnly
  <2>3. client' = [client EXCEPT !.asked = TRUE, !.session = (kind = "load")]
    BY <1>5 DEF OpenSession
  <2> QED
    BY <2>2, <2>3
<1>6. ASSUME NEW k \in Providers, NEW present \in BOOLEAN, setProvider(k, present)
      PROVE  AcpTypes'
  BY <1>6 DEF setProvider, HostOnly
<1>7. CASE DestroyTerminals
  BY <1>7 DEF DestroyTerminals
<1> QED
  BY <1>1, <1>2, <1>3, <1>4, <1>5, <1>6, <1>7 DEF Host

\* The head of the wire, by its kind.
LEMMA MessageParts ==
    ASSUME NEW m \in Message
    PROVE  /\ m.kind = "response" => m.to \in Order
           /\ Speaks(m) => m.id \in ToolCalls /\ m.says \in Call /\ m.whole \in Call
           /\ m.kind = "request" => m.of \in Asks /\ m.arg \in Nat
           /\ m.kind = "response" \/ Speaks(m) \/ m.kind = "request"
<1>1. CASE m \in [kind : {"response"}, to : Order]
  BY <1>1 DEF Speaks
<1>2. CASE m \in [kind : {"call", "update"}, id : ToolCalls, says : Call, whole : Call]
  BY <1>2 DEF Speaks
<1>3. CASE m \in [kind : {"request"}, of : Asks, arg : Nat]
  BY <1>3 DEF Speaks
<1> QED
  BY <1>1, <1>2, <1>3 DEF Message

\* How the handler of a request ends, and what it does to the terminals.
LEMMA RequestTaken ==
    ASSUME NEW m, TakeRequest(m)
    PROVE  /\ \E how \in {"answered", "refused", "serving"} :
                asks' = [asks EXCEPT ![m.of].state = how]
           /\ \/ UNCHANGED termVars
              \/ "terminal" \in providers /\ asks[m.of].kind = "create" /\ createTerminal(m.arg)
              \/ killTerminal(m.arg) \/ releaseTerminal(m.arg) \/ waitForExit(m.of, m.arg)
<1> DEFINE a == m.of
           kind == asks[m.of].kind
           there == ProviderOf(kind) \in providers
<1>1. CASE ~ there
  BY <1>1 DEF TakeRequest, Ends
<1>2. CASE there /\ kind \in {"permission", "fs"}
  BY <1>2 DEF TakeRequest, Ends
<1>3. CASE there /\ kind = "create"
  BY <1>3 DEF TakeRequest, Ends, ProviderOf
<1>4. CASE there /\ kind = "kill"
  BY <1>4 DEF TakeRequest, Ends
<1>5. CASE there /\ kind = "release"
  BY <1>5 DEF TakeRequest, Ends
<1>6. CASE there /\ kind = "wait"
  BY <1>6 DEF TakeRequest, Ends
<1>7. CASE there /\ kind \notin {"permission", "fs", "create", "kill", "release", "wait"}
  BY <1>7 DEF TakeRequest, Ends
<1> QED
  BY <1>1, <1>2, <1>3, <1>4, <1>5, <1>6, <1>7


LEMMA ServingTypes ==
    ASSUME AcpTypes, TermIInv, Serving
    PROVE  AcpTypes'
<1> USE DEF AcpTypes
<1>1. CASE Receive
  <2> DEFINE m == Head(wire)
  <2>1. m \in Message /\ wire' \in Seq(Message) /\ UNCHANGED << inbox, agent, calls >>
    BY <1>1, HeadAndTail DEF Receive
  <2>2. CASE TakeResponse(m)
    <3>1. m.to \in Order /\ m.to.n \in Nat /\ UNCHANGED asks
      BY <2>1, <2>2, MessageParts DEF TakeResponse, Order
    <3>2. posted' \in Seq(Order)
      BY <2>2, <3>1, Appended DEF TakeResponse
    <3>3. client' = client \/ client' = [client EXCEPT !.answered = m.to.n]
      BY <2>2 DEF TakeResponse
    <3>4. client' \in ClientType
      BY <3>1, <3>3 DEF ClientType
    <3> QED
      BY <2>1, <3>1, <3>2, <3>4
  <2>3. CASE TakeUpdate(m)
    BY <2>1, <2>3 DEF TakeUpdate
  <2>4. CASE TakeRequest(m)
    <3>1. PICK how \in {"answered", "refused", "serving"} :
            asks' = [asks EXCEPT ![m.of].state = how]
      BY <2>4, RequestTaken
    <3>2. asks' \in [Asks -> AskType]
      BY <3>1 DEF AskType
    <3>3. UNCHANGED << client, posted >>
      BY <2>4 DEF TakeRequest
    <3> QED
      BY <2>1, <3>2, <3>3
  <2> QED
    BY <1>1, <2>2, <2>3, <2>4 DEF Receive
<1>2. CASE Continue
  <2>1. posted' \in Seq(Order) /\ UNCHANGED << wire, inbox, agent, calls, asks >>
    BY <1>2, HeadAndTail DEF Continue
  <2>2. \/ client' = [client EXCEPT !.initialized = TRUE]
        \/ client' = [client EXCEPT !.inFlight = 0]
        \/ client' = [client EXCEPT !.session = TRUE]
    BY <1>2 DEF Continue, ContinuePrompt, ContinueSession
  <2>3. client' \in ClientType
    <3>1. CASE client' = [client EXCEPT !.initialized = TRUE]
      BY <3>1 DEF ClientType
    <3>2. CASE client' = [client EXCEPT !.inFlight = 0]
      BY <3>2 DEF ClientType
    <3>3. CASE client' = [client EXCEPT !.session = TRUE]
      BY <3>3 DEF ClientType
    <3> QED
      BY <2>2, <3>1, <3>2, <3>3
  <2> QED
    BY <2>1, <2>3
<1>3. ASSUME NEW a \in Asks, WaitEnds(a) \/ ProviderAnswers(a)
      PROVE  AcpTypes'
  <2>1. PICK how \in {"answered", "failed"} : asks' = [asks EXCEPT ![a].state = how]
    BY <1>3 DEF WaitEnds, ProviderAnswers, Ends
  <2>2. asks' \in [Asks -> AskType]
    BY <2>1 DEF AskType
  <2> QED
    BY <1>3, <2>2 DEF WaitEnds, ProviderAnswers
<1> QED
  BY <1>1, <1>2, <1>3 DEF Serving

\* What an update says is a call.
LEMMA Merged ==
    ASSUME NEW base \in Call, NEW upd \in Call
    PROVE  mergeToolCall(base, upd) \in Call
BY DEF Call, mergeToolCall

LEMMA AgentTypes ==
    ASSUME AcpTypes, Agent
    PROVE  AcpTypes'
<1> USE DEF AcpTypes
<1>1. CASE Serves
  <2> DEFINE m == Head(inbox)
  <2>1. m \in Order /\ m.n \in Nat /\ inbox' \in Seq(Order)
    <3>1. inbox # << >> /\ inbox' = Tail(inbox)
      BY <1>1 DEF Serves
    <3>2. m \in Order /\ inbox' \in Seq(Order)
      BY <3>1, HeadAndTail
    <3> QED
      BY <3>2 DEF Order
  <2>2. UNCHANGED << posted, client, calls, asks >>
    BY <1>1 DEF Serves, AgentOnly
  <2>3. [kind |-> "response", to |-> m] \in Message
    BY <2>1 DEF Message
  <2>4. wire' \in Seq(Message)
    <3>1. CASE m.kind = "prompt"
      BY <1>1, <3>1 DEF Serves
    <3>2. CASE m.kind # "prompt"
      <4>1. wire' = Append(wire, [kind |-> "response", to |-> m])
        BY <1>1, <3>2 DEF Serves, Says
      <4> QED
        BY <2>3, <4>1
    <3> QED
      BY <3>1, <3>2
  <2>5. \/ agent' = [agent EXCEPT !.turn = m.n, !.last = m.n] \/ agent' = agent
        \/ agent' = [agent EXCEPT !.session = TRUE]
    BY <1>1 DEF Serves
  <2> QED
    BY <2>1, <2>2, <2>4, <2>5
<1>2. CASE EndsTurn
  <2>1. [kind |-> "response", to |-> [kind |-> "prompt", n |-> agent.turn]] \in Message
    BY DEF Message, Order
  <2>2. wire' \in Seq(Message)
    BY <1>2, <2>1, Appended DEF EndsTurn, Says
  <2> QED
    BY <1>2, <2>2 DEF EndsTurn, AgentOnly
<1>3. ASSUME NEW c \in ToolCalls, Begins(c)
      PROVE  AcpTypes'
  <2> DEFINE call == [f \in Fields |-> 1]
  <2>1. call \in Call
    BY DEF Call
  <2>2. [kind |-> "call", id |-> c, says |-> call, whole |-> call] \in Message
    BY <2>1 DEF Message
  <2>3. wire' \in Seq(Message)
    BY <1>3, <2>2, Appended DEF Begins, Says
  <2>4. calls' = [calls EXCEPT ![c] = [turn |-> agent.last, told |-> call]]
    BY <1>3 DEF Begins
  <2>5. calls' \in [ToolCalls -> [turn : Int, told : Call]]
    BY <2>1, <2>4
  <2> QED
    BY <1>3, <2>3, <2>5 DEF Begins, AgentOnly
<1>4. ASSUME NEW c \in ToolCalls, NEW f \in Fields, Updates(c, f)
      PROVE  AcpTypes'
  <2> DEFINE upd == [Empty EXCEPT ![f] = 2]
             whole == mergeToolCall(calls[c].told, upd)
  <2>1. upd \in Call /\ whole \in Call
    <3>1. upd \in Call
      BY DEF Call, Empty
    <3> HIDE DEF upd
    <3> QED
      BY <3>1, Merged
  <2>2. calls' = [calls EXCEPT ![c].told = whole] /\ wire' =
          Append(wire, [kind |-> "update", id |-> c, says |-> upd, whole |-> whole])
    BY <1>4 DEF Updates, Says
  <2> HIDE DEF upd, whole
  <2>3. [kind |-> "update", id |-> c, says |-> upd, whole |-> whole] \in Message
    BY <2>1 DEF Message
  <2>4. wire' \in Seq(Message)
    BY <2>2, <2>3, Appended
  <2>5. calls' \in [ToolCalls -> [turn : Int, told : Call]]
    BY <2>1, <2>2
  <2> QED
    BY <1>4, <2>4, <2>5 DEF Updates, AgentOnly
<1>5. ASSUME NEW a \in Asks, AnyAsk(a)
      PROVE  AcpTypes'
  <2>1. PICK kind \in Kinds, arg \in Nat : AskFor(a, kind, arg)
    BY <1>5, TerminalAssumption DEF AnyAsk, Kinds
  <2>2. [kind |-> "request", of |-> a, arg |-> arg] \in Message
    BY DEF Message
  <2>3. wire' \in Seq(Message)
    BY <2>1, <2>2, Appended DEF AskFor, Says
  <2>4. asks' \in [Asks -> AskType]
    BY <2>1 DEF AskFor, AskType
  <2> QED
    BY <2>1, <2>3, <2>4 DEF AskFor, AgentOnly
<1> QED
  BY <1>1, <1>2, <1>3, <1>4, <1>5 DEF Agent


-----------------------------------------------------------------------------
(* The terminals of a connection *)

LEMMA ProcessStep ==
    ASSUME TermIInv, Process
    PROVE  TermIInv'
BY ProcessOK, ReadyReadOK, ProcessEndsOK DEF Process

LEMMA NothingOfTerminals ==
    ASSUME TermIInv, UNCHANGED termVars
    PROVE  TermIInv'
BY DEF termVars, TermIInv, TerminalTypes, TerminalsOK, WaitsOK, WaitOK, Shows, Finishes

\* Who does not wait is told nothing.
LEMMA NotWaiting ==
    ASSUME TermIInv, NEW a \in Asks, waits[a].result = "none",
           \/ Process \/ \E heard : DestroyManager(heard)
           \/ \E i : killTerminal(i) \/ releaseTerminal(i)
    PROVE  waits'[a] = waits[a]
<1>1. /\ waits \in [Asks -> Wait] /\ WaitOK(a, waits[a]) /\ Ids = 1..Len(terminals)
  BY IdsAre DEF TermIInv, TerminalTypes, WaitsOK
<1>2. \A i \in Ids : a \notin terminals[i].waiters
  BY <1>1 DEF WaitOK
<1>3. CASE Process
  BY <1>1, <1>2, <1>3 DEF Process, ProcessStarts, ProcessFailsToStart, ProcessWrites, readyRead,
                          ProcessEnds, onFinished, Resolved
<1>4. ASSUME NEW heard, DestroyManager(heard)
      PROVE  waits'[a] = waits[a]
  BY <1>1, <1>2, <1>4 DEF DestroyManager
<1>5. ASSUME NEW i, killTerminal(i)
      PROVE  waits'[a] = waits[a]
  BY <1>5 DEF killTerminal
<1>6. ASSUME NEW i, releaseTerminal(i)
      PROVE  waits'[a] = waits[a]
  BY <1>1, <1>2, <1>6 DEF releaseTerminal, Held, Resolved, termVars
<1> QED
  BY <1>3, <1>4, <1>5, <1>6

\* What is on the wire and what it asks for.
LEMMA RequestsKept ==
    ASSUME RequestsOK, AcpTypes, wire' = wire \/ wire' = << >>,
           \A a \in Asks : asks[a].state = "asked" => asks'[a] = asks[a]
    PROVE  RequestsOK'
<1>1. CASE wire' = wire
  <2>1. \A k \in 1..Len(wire) : wire[k].kind = "request" => wire[k].of \in Asks
    BY MessageParts DEF AcpTypes
  <2> QED
    BY <1>1, <2>1 DEF RequestsOK
<1>2. CASE wire' = << >>
  BY <1>2 DEF RequestsOK
<1> QED
  BY <1>1, <1>2

LEMMA RequestsTaken ==
    ASSUME RequestsOK, AcpTypes, wire # << >>, wire' = Tail(wire),
           \A a \in Asks : asks'[a] = asks[a] \/ (Head(wire).kind = "request" /\ a = Head(wire).of)
    PROVE  RequestsOK'
<1>1. /\ Len(wire) \in Nat \ {0} /\ Head(wire) = wire[1] /\ Len(wire') = Len(wire) - 1
      /\ \A k \in 1..Len(wire) - 1 : wire'[k] = wire[k + 1]
  BY HeadAndTail DEF AcpTypes
<1>2. \A k \in 1..Len(wire) - 1 : k + 1 \in 1..Len(wire) /\ k + 1 # 1
  BY <1>1
<1>3. SUFFICES ASSUME NEW k \in 1..Len(wire) - 1, wire'[k].kind = "request"
               PROVE  /\ asks'[wire'[k].of].state = "asked"
                      /\ asks'[wire'[k].of].kind = "create" => wire'[k].arg \in Limits
                      /\ \A l \in 1..Len(wire) - 1 :
                           wire'[l].kind = "request" /\ wire'[l].of = wire'[k].of => l = k
  BY <1>1 DEF RequestsOK
<1>4. wire'[k] = wire[k + 1] /\ wire[k + 1].of \in Asks
  <2>1. wire'[k] = wire[k + 1] /\ wire[k + 1] \in Message
    BY <1>1, <1>2 DEF AcpTypes
  <2> QED
    BY <1>3, <2>1, MessageParts
<1>5. asks'[wire[k + 1].of] = asks[wire[k + 1].of]
  <2>1. Head(wire).kind = "request" => Head(wire).of # wire[k + 1].of
    BY <1>1, <1>2, <1>3, <1>4 DEF RequestsOK
  <2> QED
    BY <1>4, <2>1
<1>6. \A l \in 1..Len(wire) - 1 :
        wire'[l].kind = "request" /\ wire'[l].of = wire'[k].of => l + 1 = k + 1
  BY <1>1, <1>2, <1>3, <1>4 DEF RequestsOK
<1>7. \A l \in 1..Len(wire) - 1 : l + 1 = k + 1 => l = k
  OBVIOUS
<1> QED
  BY <1>2, <1>3, <1>4, <1>5, <1>6, <1>7 DEF RequestsOK

LEMMA RequestsSaid ==
    ASSUME RequestsOK, AcpTypes, NEW m \in Message, wire' = Append(wire, m), m.kind # "request",
           UNCHANGED asks
    PROVE  RequestsOK'
<1>1. /\ Len(wire) \in Nat /\ Len(wire') = Len(wire) + 1 /\ wire'[Len(wire) + 1] = m
      /\ \A k \in 1..Len(wire) : wire'[k] = wire[k]
  BY Appended DEF AcpTypes
<1>2. \A k \in 1..Len(wire) + 1 : k \in 1..Len(wire) \/ wire'[k].kind # "request"
  BY <1>1
<1> QED
  BY <1>1, <1>2 DEF RequestsOK

LEMMA AskForOK ==
    ASSUME AcpTermIInv, NEW a \in Asks, AnyAsk(a)
    PROVE  AcpTermIInv'
<1>1. PICK kind \in Kinds, arg \in Nat :
        AskFor(a, kind, arg) /\ (kind = "create" => arg \in Limits)
  BY TerminalAssumption DEF AnyAsk, Kinds
<1> DEFINE m == [kind |-> "request", of |-> a, arg |-> arg]
<1>2. /\ asks[a].state = "unasked" /\ asks' = [asks EXCEPT ![a] = [kind |-> kind, state |-> "asked"]]
      /\ wire' = Append(wire, m) /\ UNCHANGED << providers, termVars >>
  BY <1>1 DEF AskFor, Says, AgentOnly
<1>3. m \in Message /\ m.kind = "request" /\ m.of = a /\ m.arg = arg
  BY DEF Message
<1> HIDE DEF m
<1>4. AcpTypes'
  BY AgentTypes DEF AcpTermIInv, Agent
<1>5. TermIInv'
  BY <1>2, NothingOfTerminals DEF AcpTermIInv
<1>6. /\ asks'[a].state = "asked" /\ asks'[a].kind = kind
      /\ \A b \in Asks : b # a => asks'[b] = asks[b]
  BY <1>2 DEF AcpTermIInv, AcpTypes
<1>7. WaitsAreServed'
  BY <1>2, <1>6 DEF AcpTermIInv, WaitsAreServed, termVars
<1>8. RequestsOK'
  <2>1. /\ Len(wire) \in Nat /\ Len(wire') = Len(wire) + 1 /\ wire'[Len(wire) + 1] = m
        /\ \A k \in 1..Len(wire) : wire'[k] = wire[k]
    BY <1>2, <1>3, Appended DEF AcpTermIInv, AcpTypes
  <2>2. \A k \in 1..Len(wire) : wire[k].kind = "request" => wire[k].of \in Asks /\ wire[k].of # a
    BY <1>2, MessageParts DEF AcpTermIInv, AcpTypes, RequestsOK
  <2>3. \A k \in 1..Len(wire) + 1 : k \in 1..Len(wire) \/ k = Len(wire) + 1
    BY <2>1
  <2> QED
    BY <1>1, <1>3, <1>6, <2>1, <2>2, <2>3 DEF AcpTermIInv, RequestsOK
<1> QED
  BY <1>2, <1>4, <1>5, <1>7, <1>8 DEF AcpTermIInv, termVars


LEMMA TakeRequestOK ==
    ASSUME AcpTermIInv, Receive, TakeRequest(Head(wire))
    PROVE  AcpTermIInv'
<1> DEFINE m == Head(wire)
           a == m.of
<1>1. /\ wire # << >> /\ wire' = Tail(wire) /\ m.kind = "request" /\ UNCHANGED providers
      /\ 1 \in 1..Len(wire) /\ m = wire[1]
  BY HeadAndTail DEF Receive, TakeRequest, AcpTermIInv, AcpTypes
<1>2. /\ a \in Asks /\ m.arg \in Nat /\ asks[a].state = "asked"
      /\ asks[a].kind = "create" => m.arg \in Limits
  <2>1. m \in Message
    BY <1>1 DEF AcpTermIInv, AcpTypes
  <2> QED
    BY <1>1, <2>1, MessageParts DEF AcpTermIInv, RequestsOK
<1>3. waits[a].result = "none"
  BY <1>2 DEF AcpTermIInv, WaitsAreServed
<1>4. PICK how \in {"answered", "refused", "serving"} : asks' = [asks EXCEPT ![a].state = how]
  BY RequestTaken
<1>5. \/ UNCHANGED termVars
      \/ "terminal" \in providers /\ asks[a].kind = "create" /\ createTerminal(m.arg)
      \/ killTerminal(m.arg) \/ releaseTerminal(m.arg) \/ waitForExit(a, m.arg)
  BY RequestTaken
<1> HIDE DEF m, a
<1>6. /\ TermIInv' /\ UNCHANGED manager
      /\ \A b \in Asks \ {a} : waits[b].result = "none" => waits'[b] = waits[b]
  <2>1. CASE UNCHANGED termVars
    BY <2>1, NothingOfTerminals DEF AcpTermIInv, termVars
  <2>2. CASE "terminal" \in providers /\ asks[a].kind = "create" /\ createTerminal(m.arg)
    BY <1>2, <2>2, CreateTerminalOK DEF AcpTermIInv, createTerminal
  <2>3. CASE killTerminal(m.arg)
    BY <2>3, KillTerminalOK, NotWaiting DEF AcpTermIInv, killTerminal
  <2>4. CASE releaseTerminal(m.arg)
    BY <2>4, ReleaseTerminalOK, NotWaiting DEF AcpTermIInv, releaseTerminal, termVars
  <2>5. CASE waitForExit(a, m.arg)
    BY <1>2, <1>3, <2>5, WaitForExitOK DEF AcpTermIInv, waitForExit
  <2> QED
    BY <1>5, <2>1, <2>2, <2>3, <2>4, <2>5
<1>7. asks'[a].state = how /\ \A b \in Asks : b # a => asks'[b] = asks[b]
  BY <1>2, <1>4 DEF AcpTermIInv, AcpTypes
<1>8. WaitsAreServed'
  BY <1>6, <1>7 DEF AcpTermIInv, WaitsAreServed
<1>9. RequestsOK'
  <2>1. \A b \in Asks : asks'[b] = asks[b] \/ (Head(wire).kind = "request" /\ b = Head(wire).of)
    BY <1>1, <1>7 DEF m, a
  <2> QED
    BY <1>1, <2>1, RequestsTaken DEF AcpTermIInv
<1>10. AcpTypes'
  BY ServingTypes DEF AcpTermIInv, Serving
<1> QED
  BY <1>1, <1>6, <1>8, <1>9, <1>10 DEF AcpTermIInv

LEMMA TermInit == AcpInit => AcpTermIInv
<1> SUFFICES ASSUME AcpInit PROVE AcpTermIInv
  OBVIOUS
<1>1. AcpTypes
  BY EmptySeq DEF AcpInit, AcpTypes, ClientType, Call, Empty, NoAsk, AskType, Kinds
<1>2. TermIInv
  BY EmptySeq DEF AcpInit, TerminalInit, NoWait, TermIInv, TerminalTypes, TerminalsOK, WaitsOK,
                  WaitOK, Wait
<1>3. WaitsAreServed /\ RequestsOK /\ manager
  BY DEF AcpInit, TerminalInit, NoWait, WaitsAreServed, RequestsOK
<1> QED
  BY <1>1, <1>2, <1>3 DEF AcpTermIInv

LEMMA TermStep == AcpTermIInv /\ [AcpNext]_vars => AcpTermIInv'
<1> SUFFICES ASSUME AcpTermIInv, [AcpNext]_vars PROVE AcpTermIInv'
  OBVIOUS
<1> USE DEF AcpTermIInv
<1>1. CASE Host
  <2>1. AcpTypes' /\ UNCHANGED asks
    BY <1>1, HostTypes DEF Host, HostOnly, connectAndInitialize, prompt, PromptTimesOut, shutdown,
                           OpenSession, setProvider, DestroyTerminals
  <2>2. wire' = wire \/ wire' = << >>
    BY <1>1 DEF Host, HostOnly, connectAndInitialize, prompt, PromptTimesOut, shutdown,
                OpenSession, setProvider, DestroyTerminals
  <2>3. RequestsOK'
    BY <2>1, <2>2, RequestsKept
  <2>4. CASE DestroyTerminals
    <3>1. PICK heard : DestroyManager(heard)
      BY <2>4 DEF DestroyTerminals
    <3>2. TermIInv' /\ \A a \in Asks : waits[a].result = "none" => waits'[a] = waits[a]
      BY <3>1, DestroyManagerOK, NotWaiting
    <3>3. WaitsAreServed'
      BY <2>1, <3>2 DEF WaitsAreServed
    <3> QED
      BY <2>1, <2>3, <2>4, <3>2, <3>3 DEF DestroyTerminals
  <2>5. CASE ~ DestroyTerminals
    <3>1. UNCHANGED termVars /\ ("terminal" \in providers' => manager)
      BY <1>1, <2>5 DEF Host, HostOnly, connectAndInitialize, prompt, PromptTimesOut, shutdown,
                        OpenSession, setProvider
    <3>2. TermIInv' /\ WaitsAreServed' /\ UNCHANGED manager
      BY <2>1, <3>1, NothingOfTerminals DEF WaitsAreServed, termVars
    <3> QED
      BY <2>1, <2>3, <3>1, <3>2
  <2> QED
    BY <2>4, <2>5
<1>2. CASE Receive
  <2>1. wire # << >> /\ wire' = Tail(wire)
    BY <1>2 DEF Receive
  <2>2. CASE TakeRequest(Head(wire))
    BY <1>2, <2>2, TakeRequestOK
  <2>3. CASE TakeResponse(Head(wire)) \/ TakeUpdate(Head(wire))
    <3>1. UNCHANGED << asks, providers, termVars >>
      BY <2>3 DEF TakeResponse, TakeUpdate
    <3>2. AcpTypes' /\ TermIInv'
      BY <1>2, <3>1, ServingTypes, NothingOfTerminals DEF Serving
    <3>3. RequestsOK'
      BY <2>1, <3>1, RequestsTaken
    <3> QED
      BY <3>1, <3>2, <3>3 DEF WaitsAreServed, termVars
  <2> QED
    BY <1>2, <2>2, <2>3 DEF Receive
<1>3. CASE Continue
  <2>1. UNCHANGED << termVars, asks, wire, providers >>
    BY <1>3 DEF Continue
  <2>2. AcpTypes' /\ TermIInv' /\ RequestsOK'
    BY <1>3, <2>1, ServingTypes, NothingOfTerminals, RequestsKept DEF Serving
  <2> QED
    BY <2>1, <2>2 DEF WaitsAreServed, termVars
<1>4. ASSUME NEW a \in Asks, WaitEnds(a) \/ ProviderAnswers(a)
      PROVE  AcpTermIInv'
  <2>1. PICK how \in {"answered", "failed"} :
          /\ asks[a].state = "serving" /\ asks' = [asks EXCEPT ![a].state = how]
          /\ UNCHANGED << termVars, wire, providers >>
    BY <1>4 DEF WaitEnds, ProviderAnswers, Ends
  <2>2. asks'[a].state = how /\ \A b \in Asks : b # a => asks'[b] = asks[b]
    BY <2>1 DEF AcpTypes
  <2>3. AcpTypes' /\ TermIInv' /\ RequestsOK'
    BY <1>4, <2>1, <2>2, ServingTypes, NothingOfTerminals, RequestsKept DEF Serving
  <2> QED
    BY <2>1, <2>2, <2>3 DEF WaitsAreServed, termVars
<1>5. CASE Agent
  <2>1. ASSUME NEW a \in Asks, AnyAsk(a) PROVE AcpTermIInv'
    BY <2>1, AskForOK
  <2>2. CASE Serves \/ EndsTurn \/ \E c \in ToolCalls : Begins(c) \/ \E f \in Fields : Updates(c, f)
    <3>1. UNCHANGED << termVars, asks, providers >>
      BY <2>2 DEF Serves, EndsTurn, Begins, Updates, AgentOnly
    <3>2. AcpTypes' /\ TermIInv'
      BY <1>5, <3>1, AgentTypes, NothingOfTerminals
    <3>3. wire' = wire \/ \E m : m.kind # "request" /\ wire' = Append(wire, m)
      BY <2>2 DEF Serves, EndsTurn, Begins, Updates, Says
    <3>4. RequestsOK'
      <4>1. CASE wire' = wire
        BY <3>1, <4>1, RequestsKept
      <4>2. ASSUME NEW m, m.kind # "request", wire' = Append(wire, m) PROVE RequestsOK'
        <5>1. /\ Len(wire) \in Nat /\ Len(wire') = Len(wire) + 1 /\ wire'[Len(wire) + 1] = m
              /\ wire' \in Seq(Message)
          BY <3>2, <4>2 DEF AcpTypes
        <5>2. m \in Message
          BY <5>1
        <5> QED
          BY <3>1, <4>2, <5>2, RequestsSaid
      <4> QED
        BY <3>3, <4>1, <4>2
    <3> QED
      BY <3>1, <3>2, <3>4 DEF WaitsAreServed, termVars
  <2> QED
    BY <1>5, <2>1, <2>2 DEF Agent
<1>6. CASE AcpProcess
  <2>1. Process /\ UNCHANGED << acpVars, manager >>
    BY <1>6 DEF AcpProcess, Process, ProcessStarts, ProcessFailsToStart, ProcessWrites, readyRead,
                ProcessEnds
  <2>2. TermIInv' /\ \A a \in Asks : waits[a].result = "none" => waits'[a] = waits[a]
    BY <2>1, ProcessStep, NotWaiting
  <2>3. AcpTypes' /\ RequestsOK' /\ UNCHANGED << asks, providers >>
    BY <2>1, RequestsKept DEF acpVars, AcpTypes
  <2> QED
    BY <2>1, <2>2, <2>3 DEF WaitsAreServed
<1>7. CASE UNCHANGED vars
  <2>1. UNCHANGED << acpVars, termVars >>
    BY <1>7 DEF vars
  <2>2. AcpTypes' /\ RequestsOK'
    BY <2>1, RequestsKept DEF acpVars, AcpTypes
  <2> QED
    BY <2>1, <2>2, NothingOfTerminals DEF acpVars, termVars, WaitsAreServed
<1> QED
  BY <1>1, <1>2, <1>3, <1>4, <1>5, <1>6, <1>7 DEF AcpNext, Serving


\* The terminals, for ever: each is a window onto what its process wrote, each waiter
\* stands at the one terminal its future is on, and no request is asked twice.
THEOREM TerminalsInvariant == AcpSpec => []AcpTermIInv
<1> QED
  BY TermInit, TermStep, PTL DEF AcpSpec

\* What a terminal shows is the end of what its process wrote, to the last byte once it
\* reports the exit, however reads, the end of the process and a release fall
\* (appendOutput, onFinished).
THEOREM OutputIsTheTail == AcpSpec => []OutputIsTail
<1>1. AcpTermIInv => OutputIsTail
  <2> SUFFICES ASSUME AcpTermIInv, NEW i \in Ids
               PROVE  LET t == terminals[i]  p == processes[i]  all == [k \in 1..p.read |-> k]
                      IN  /\ t.output = IF t.limit = 0 \/ p.read <= t.limit THEN all
                                        ELSE Right(all, t.limit)
                          /\ t.truncated = (t.limit > 0 /\ p.read > t.limit)
                          /\ t.finished => p.read = p.written
    BY DEF OutputIsTail
  <2> DEFINE t == terminals[i]
             p == processes[i]
             all == [k \in 1..p.read |-> k]
  <2>1. i \in 1..Len(terminals) /\ TermIInv
    BY IdsAre DEF AcpTermIInv, TermIInv
  <2>2. t \in Terminal /\ p \in ProcessType /\ Shows(t, p) /\ Finishes(t, p)
    BY <2>1, TerminalAt
  <2>3. PICK n \in Nat, limit \in Nat : n = p.read /\ limit = t.limit
    BY <2>2, TerminalAssumption DEF Terminal, ProcessType
  <2>4. all = Window(0, n)
    BY <2>3 DEF Window
  <2>5. ~ (limit = 0 \/ n <= limit) => Right(Window(0, n), limit) = Window(n - limit, limit)
    <3> SUFFICES ASSUME ~ (limit = 0 \/ n <= limit)
                 PROVE  Right(Window(0, n), limit) = Window(n - limit, limit)
      OBVIOUS
    <3>1. limit <= n /\ 0 + n - limit = n - limit
      OBVIOUS
    <3> QED
      BY <3>1, WindowRight
  <2> HIDE DEF t, p, all
  <2> QED
    BY <2>2, <2>3, <2>4, <2>5 DEF Shows, Finishes, t, p, all
<1> QED
  BY <1>1, TerminalsInvariant, PTL

\* Who waits for a terminal is told how its process ended, and nothing only if the
\* terminal was released or the manager destroyed before (waitForExit, onFinished).
THEOREM ExitsAreTrue == AcpSpec => []ExitIsTrue
<1>1. AcpTermIInv => ExitIsTrue
  <2> SUFFICES ASSUME AcpTermIInv, NEW a \in Asks
               PROVE  LET w == waits[a]
                      IN  /\ w.result \in {"code", "killed"} => processes[w.on].exit = w.result
                          /\ w.result \in {"unknown", "cancelled"} =>
                               ~ terminals[w.on].held /\ ~ terminals[w.on].finished
                          /\ (w.result = "waiting") = (w.on \in Ids /\ a \in terminals[w.on].waiters)
    BY DEF ExitIsTrue
  <2>1. WaitOK(a, waits[a]) /\ Ids = 1..Len(terminals)
    BY IdsAre DEF AcpTermIInv, TermIInv, WaitsOK
  <2>2. (waits[a].result = "waiting") <=> (waits[a].on \in Ids /\ a \in terminals[waits[a].on].waiters)
    BY <2>1 DEF WaitOK
  <2> QED
    BY <2>1, <2>2 DEF WaitOK
<1> QED
  BY <1>1, TerminalsInvariant, PTL


-----------------------------------------------------------------------------
(* The wire *)

LEMMA WireTail ==
    ASSUME AcpTypes, wire # << >>, wire' = Tail(wire)
    PROVE  /\ Len(wire) \in Nat \ {0} /\ 1 \in 1..Len(wire) /\ Len(wire') = Len(wire) - 1
           /\ Head(wire) = wire[1] /\ Head(wire) \in Message
           /\ \A k \in 1..Len(wire') : k + 1 \in 2..Len(wire) /\ wire'[k] = wire[k + 1]
           /\ \A k \in 2..Len(wire) : k - 1 \in 1..Len(wire') /\ wire'[k - 1] = wire[k]
<1>1. /\ Len(wire) \in Nat \ {0} /\ Head(wire) = wire[1] /\ Head(wire) \in Message
      /\ Len(wire') = Len(wire) - 1
      /\ \A k \in 1..Len(wire) - 1 : wire'[k] = wire[k + 1]
  BY HeadAndTail DEF AcpTypes
<1>2. \A k \in 2..Len(wire) : k - 1 \in 1..Len(wire) - 1 /\ (k - 1) + 1 = k
  BY <1>1
<1> QED
  BY <1>1, <1>2

LEMMA WireAppend ==
    ASSUME AcpTypes, NEW m \in Message, wire' = Append(wire, m)
    PROVE  /\ Len(wire) \in Nat /\ Len(wire') = Len(wire) + 1
           /\ Len(wire) + 1 \in 1..Len(wire') /\ wire'[Len(wire) + 1] = m
           /\ \A k \in 1..Len(wire) : k \in 1..Len(wire') /\ wire'[k] = wire[k]
           /\ \A k \in 1..Len(wire') : k \in 1..Len(wire) \/ k = Len(wire) + 1
<1>1. /\ Len(wire) \in Nat /\ Len(wire') = Len(wire) + 1 /\ wire'[Len(wire) + 1] = m
      /\ \A k \in 1..Len(wire) : wire'[k] = wire[k]
  BY Appended DEF AcpTypes
<1> QED
  BY <1>1

\* A message is taken, and what it says of a tool call becomes known.
LEMMA TailFits ==
    ASSUME AcpTypes, WireFits, wire # << >>, wire' = Tail(wire),
           \A c \in ToolCalls :
             Known(c)' = IF About(Head(wire), c) THEN Head(wire).whole ELSE Known(c)
    PROVE  WireFits'
<1> DEFINE m == Head(wire)
<1>1. /\ 1 \in 1..Len(wire) /\ m = wire[1] /\ Len(wire) \in Nat /\ Len(wire') = Len(wire) - 1
      /\ \A k \in 1..Len(wire') : k + 1 \in 2..Len(wire) /\ wire'[k] = wire[k + 1]
      /\ \A k \in 2..Len(wire) : k - 1 \in 1..Len(wire') /\ wire'[k - 1] = wire[k]
  BY WireTail
<1>2. WholeCalls'
  BY <1>1 DEF WireFits, WholeCalls
<1>3. FirstFits'
  <2> SUFFICES ASSUME NEW k \in 1..Len(wire'), Speaks(wire'[k]),
                      \A l \in 1..k - 1 : ~ About(wire'[l], wire'[k].id)
               PROVE  Fits(Known(wire[k].id), wire[k])'
    BY DEF FirstFits, Speaks, About, Fits
  <2>1. PICK e \in Message : wire'[k] = e /\ wire[k + 1] = e
    BY <1>1 DEF AcpTypes
  <2>2. k + 1 \in 2..Len(wire) /\ Speaks(e) /\ e.id \in ToolCalls
    BY <1>1, <2>1, MessageParts
  <2>3. \A l \in 2..(k + 1) - 1 : ~ About(wire[l], e.id)
    <3> TAKE l \in 2..(k + 1) - 1
    <3>1. l \in 2..Len(wire) /\ l - 1 \in 1..k - 1 /\ wire'[l - 1] = wire[l]
      BY <1>1, <2>2
    <3> QED
      BY <2>1, <3>1
  <2>4. CASE About(m, e.id)
    <3>1. /\ 1 < k + 1 /\ About(wire[1], wire[k + 1].id)
          /\ \A l \in 1 + 1..(k + 1) - 1 : ~ About(wire[l], wire[k + 1].id)
      BY <1>1, <2>1, <2>3, <2>4
    <3>2. Fits(wire[1].whole, wire[k + 1])
      BY <1>1, <2>1, <2>2, <3>1 DEF WireFits, NextFits
    <3>3. Known(e.id)' = wire[1].whole
      BY <1>1, <2>2, <2>4
    <3> QED
      BY <2>1, <3>2, <3>3 DEF Fits, Known
  <2>5. CASE ~ About(m, e.id)
    <3>1. \A l \in 1..(k + 1) - 1 : l = 1 \/ l \in 2..(k + 1) - 1
      OBVIOUS
    <3>2. \A l \in 1..(k + 1) - 1 : ~ About(wire[l], wire[k + 1].id)
      BY <1>1, <2>1, <2>3, <2>5, <3>1
    <3>3. Fits(Known(e.id), e)
      BY <2>1, <2>2, <3>2 DEF WireFits, FirstFits
    <3>4. Known(e.id)' = Known(e.id)
      BY <2>2, <2>5
    <3> QED
      BY <2>1, <3>3, <3>4 DEF Fits, Known
  <2> QED
    BY <2>4, <2>5
<1>4. NextFits'
  <2> SUFFICES ASSUME NEW j \in 1..Len(wire'), NEW k \in 1..Len(wire'), j < k, Speaks(wire'[k]),
                      About(wire'[j], wire'[k].id),
                      \A l \in j + 1..k - 1 : ~ About(wire'[l], wire'[k].id)
               PROVE  Fits(wire'[j].whole, wire'[k])
    BY DEF NextFits, Speaks, About, Fits
  <2>1. /\ j + 1 \in 1..Len(wire) /\ k + 1 \in 1..Len(wire) /\ j + 1 < k + 1
        /\ wire'[j] = wire[j + 1] /\ wire'[k] = wire[k + 1]
    BY <1>1
  <2>2. \A l \in (j + 1) + 1..(k + 1) - 1 : ~ About(wire[l], wire[k + 1].id)
    <3> TAKE l \in (j + 1) + 1..(k + 1) - 1
    <3>1. l \in 2..Len(wire) /\ l - 1 \in j + 1..k - 1 /\ wire'[l - 1] = wire[l]
      BY <1>1, <2>1
    <3> QED
      BY <2>1, <3>1
  <2> QED
    BY <2>1, <2>2 DEF WireFits, NextFits
<1> QED
  BY <1>2, <1>3, <1>4 DEF WireFits

LEMMA TailTold ==
    ASSUME AcpTypes, ToldIsKnown, wire # << >>, wire' = Tail(wire), UNCHANGED << agent, calls >>,
           \A c \in ToolCalls :
             Known(c)' = IF About(Head(wire), c) THEN Head(wire).whole ELSE Known(c)
    PROVE  ToldIsKnown'
<1>1. /\ 1 \in 1..Len(wire) /\ Head(wire) = wire[1] /\ Len(wire) \in Nat /\ Len(wire') = Len(wire) - 1
      /\ \A k \in 1..Len(wire') : k + 1 \in 2..Len(wire) /\ wire'[k] = wire[k + 1]
      /\ \A k \in 2..Len(wire) : k - 1 \in 1..Len(wire') /\ wire'[k - 1] = wire[k]
  BY WireTail
<1> SUFFICES ASSUME InTurn, NEW c \in ToolCalls, calls[c].turn = agent.last
             PROVE  /\ (\A l \in 1..Len(wire') : ~ About(wire'[l], c)) => Known(c)' = calls[c].told
                    /\ \A k \in 1..Len(wire') :
                         About(wire'[k], c) /\ (\A l \in k + 1..Len(wire') : ~ About(wire'[l], c))
                         => wire'[k].whole = calls[c].told
  BY DEF ToldIsKnown, InTurn, About, Speaks
<1>2. ASSUME \A l \in 1..Len(wire') : ~ About(wire'[l], c)
      PROVE  Known(c)' = calls[c].told
  <2>1. \A l \in 2..Len(wire) : ~ About(wire[l], c)
    BY <1>1, <1>2
  <2>2. CASE About(Head(wire), c)
    <3>1. \A l \in 1 + 1..Len(wire) : ~ About(wire[l], c)
      BY <2>1
    <3> QED
      BY <1>1, <2>2, <3>1 DEF ToldIsKnown
  <2>3. CASE ~ About(Head(wire), c)
    <3>1. \A l \in 1..Len(wire) : l = 1 \/ l \in 2..Len(wire)
      BY <1>1
    <3>2. \A l \in 1..Len(wire) : ~ About(wire[l], c)
      BY <1>1, <2>1, <2>3, <3>1
    <3> QED
      BY <2>3, <3>2 DEF ToldIsKnown
  <2> QED
    BY <2>2, <2>3
<1>3. ASSUME NEW k \in 1..Len(wire'), About(wire'[k], c),
             \A l \in k + 1..Len(wire') : ~ About(wire'[l], c)
      PROVE  wire'[k].whole = calls[c].told
  <2>1. k + 1 \in 1..Len(wire) /\ wire'[k] = wire[k + 1]
    BY <1>1
  <2>2. \A l \in (k + 1) + 1..Len(wire) : ~ About(wire[l], c)
    <3> TAKE l \in (k + 1) + 1..Len(wire)
    <3>1. l \in 2..Len(wire) /\ l - 1 \in k + 1..Len(wire') /\ wire'[l - 1] = wire[l]
      BY <1>1, <2>1
    <3> QED
      BY <1>3, <3>1
  <2> QED
    BY <1>3, <2>1, <2>2 DEF ToldIsKnown
<1> QED
  BY <1>2, <1>3


LEMMA TailEnds ==
    ASSUME AcpTypes, EndsOK, wire # << >>, wire' = Tail(wire), UNCHANGED agent
    PROVE  EndsOK'
<1>1. /\ Len(wire) \in Nat /\ Len(wire') = Len(wire) - 1
      /\ \A k \in 1..Len(wire') : k + 1 \in 2..Len(wire) /\ wire'[k] = wire[k + 1]
  BY WireTail
<1> SUFFICES ASSUME NEW k \in 1..Len(wire'), EndsPrompt(wire'[k])
             PROVE  /\ wire'[k].to.n \in 1..agent.last
                    /\ wire'[k].to.n = agent.last => agent.turn = 0
                    /\ \A l \in k + 1..Len(wire') :
                         /\ EndsPrompt(wire'[l]) => wire'[l].to.n > wire'[k].to.n
                         /\ Speaks(wire'[l]) => wire'[k].to.n < agent.last
  BY DEF EndsOK, EndsPrompt, Speaks
<1>2. k + 1 \in 1..Len(wire) /\ wire'[k] = wire[k + 1]
  BY <1>1
<1>3. \A l \in k + 1..Len(wire') : l + 1 \in (k + 1) + 1..Len(wire) /\ wire'[l] = wire[l + 1]
  BY <1>1
<1> QED
  BY <1>2, <1>3 DEF EndsOK

LEMMA AppendFits ==
    ASSUME AcpTypes, WireFits, NEW m \in Message, wire' = Append(wire, m), UNCHANGED tools,
           m.kind = "call" => m.says = m.whole,
           Speaks(m) => /\ (\A l \in 1..Len(wire) : ~ About(wire[l], m.id)) => Fits(Known(m.id), m)
                        /\ \A j \in 1..Len(wire) :
                             About(wire[j], m.id) /\ (\A l \in j + 1..Len(wire) : ~ About(wire[l], m.id))
                             => Fits(wire[j].whole, m)
    PROVE  WireFits'
<1> DEFINE n == Len(wire)
<1>1. /\ n \in Nat /\ Len(wire') = n + 1 /\ wire'[n + 1] = m
      /\ \A k \in 1..n : k \in 1..Len(wire') /\ wire'[k] = wire[k]
      /\ \A k \in 1..Len(wire') : k \in 1..n \/ k = n + 1
  BY WireAppend
<1>2. WholeCalls'
  BY <1>1 DEF WireFits, WholeCalls
<1>3. FirstFits'
  <2> SUFFICES ASSUME NEW k \in 1..Len(wire'), Speaks(wire'[k]),
                      \A l \in 1..k - 1 : ~ About(wire'[l], wire'[k].id)
               PROVE  Fits(Known(wire[k].id), wire[k])'
    BY DEF FirstFits, Speaks, About, Fits
  <2>1. \A l \in 1..k - 1 : l \in 1..n /\ wire'[l] = wire[l]
    BY <1>1
  <2>2. CASE k \in 1..n
    <3>1. wire'[k] = wire[k] /\ Fits(Known(wire[k].id), wire[k])
      BY <1>1, <2>1, <2>2 DEF WireFits, FirstFits
    <3> QED
      BY <3>1 DEF Fits, Known
  <2>3. CASE k = n + 1
    <3>1. \A l \in 1..n : l \in 1..k - 1
      BY <1>1, <2>3
    <3>2. Fits(Known(m.id), m)
      BY <1>1, <2>1, <2>3, <3>1
    <3> QED
      BY <1>1, <2>3, <3>2 DEF Fits, Known
  <2> QED
    BY <1>1, <2>2, <2>3
<1>4. NextFits'
  <2> SUFFICES ASSUME NEW j \in 1..Len(wire'), NEW k \in 1..Len(wire'), j < k, Speaks(wire'[k]),
                      About(wire'[j], wire'[k].id),
                      \A l \in j + 1..k - 1 : ~ About(wire'[l], wire'[k].id)
               PROVE  Fits(wire'[j].whole, wire'[k])
    BY DEF NextFits, Speaks, About, Fits
  <2>1. /\ j \in 1..n /\ wire'[j] = wire[j]
        /\ \A l \in j + 1..k - 1 : l \in 1..n /\ wire'[l] = wire[l]
    BY <1>1
  <2>2. CASE k \in 1..n
    BY <1>1, <2>1, <2>2 DEF WireFits, NextFits
  <2>3. CASE k = n + 1
    <3>1. wire'[k] = m /\ \A l \in j + 1..n : l \in j + 1..k - 1
      BY <1>1, <2>3
    <3> QED
      BY <2>1, <3>1
  <2> QED
    BY <1>1, <2>2, <2>3
<1> QED
  BY <1>2, <1>3, <1>4 DEF WireFits

LEMMA AppendTold ==
    ASSUME AcpTypes, ToldIsKnown, NEW m \in Message, wire' = Append(wire, m), UNCHANGED tools,
           InTurn' => InTurn, agent'.last = agent.last,
           \A c \in ToolCalls : ~ About(m, c) => calls'[c] = calls[c],
           \A c \in ToolCalls : About(m, c) => m.whole = calls'[c].told
    PROVE  ToldIsKnown'
<1> DEFINE n == Len(wire)
<1>1. /\ n \in Nat /\ Len(wire') = n + 1 /\ wire'[n + 1] = m
      /\ \A k \in 1..n : k \in 1..Len(wire') /\ wire'[k] = wire[k]
      /\ \A k \in 1..Len(wire') : k \in 1..n \/ k = n + 1
      /\ n + 1 \in 1..Len(wire')
  BY WireAppend
<1> SUFFICES ASSUME InTurn', NEW c \in ToolCalls, calls'[c].turn = agent.last
             PROVE  /\ (\A l \in 1..Len(wire') : ~ About(wire'[l], c)) => Known(c)' = calls'[c].told
                    /\ \A k \in 1..Len(wire') :
                         About(wire'[k], c) /\ (\A l \in k + 1..Len(wire') : ~ About(wire'[l], c))
                         => wire'[k].whole = calls'[c].told
  BY DEF ToldIsKnown, About, Speaks
<1>2. Known(c)' = Known(c)
  BY DEF Known
<1>3. CASE About(m, c)
  <2>1. \A k \in 1..n : n + 1 \in k + 1..Len(wire')
    BY <1>1
  <2> QED
    BY <1>1, <1>3, <2>1
<1>4. CASE ~ About(m, c)
  <2>1. InTurn /\ calls'[c] = calls[c] /\ calls[c].turn = agent.last
    BY <1>4
  <2>2. \A k \in 1..n : \A l \in k + 1..n : l \in k + 1..Len(wire') /\ wire'[l] = wire[l]
    BY <1>1
  <2> QED
    BY <1>1, <1>2, <1>4, <2>1, <2>2 DEF ToldIsKnown
<1> QED
  BY <1>3, <1>4

LEMMA AppendEnds ==
    ASSUME AcpTypes, EndsOK, NEW m \in Message, wire' = Append(wire, m),
           agent'.last = agent.last, agent'.turn \in {agent.turn, 0},
           EndsPrompt(m) => /\ m.to.n = agent.last /\ m.to.n \in 1..agent.last
                            /\ agent.turn # 0 /\ agent'.turn = 0,
           Speaks(m) => InTurn
    PROVE  EndsOK'
<1> DEFINE n == Len(wire)
<1>1. /\ n \in Nat /\ Len(wire') = n + 1 /\ wire'[n + 1] = m
      /\ \A k \in 1..n : k \in 1..Len(wire') /\ wire'[k] = wire[k]
      /\ \A k \in 1..Len(wire') : k \in 1..n \/ k = n + 1
  BY WireAppend
<1>2. agent.last \in Nat
  BY DEF AcpTypes
<1> SUFFICES ASSUME NEW k \in 1..Len(wire'), EndsPrompt(wire'[k])
             PROVE  /\ wire'[k].to.n \in 1..agent.last
                    /\ wire'[k].to.n = agent.last => agent'.turn = 0
                    /\ \A l \in k + 1..Len(wire') :
                         /\ EndsPrompt(wire'[l]) => wire'[l].to.n > wire'[k].to.n
                         /\ Speaks(wire'[l]) => wire'[k].to.n < agent.last
  BY DEF EndsOK, EndsPrompt, Speaks
<1>3. CASE k \in 1..n
  <2>1. /\ wire'[k] = wire[k] /\ wire[k].to.n \in 1..agent.last
        /\ wire[k].to.n = agent.last => agent.turn = 0
        /\ \A l \in k + 1..n : /\ EndsPrompt(wire[l]) => wire[l].to.n > wire[k].to.n
                               /\ Speaks(wire[l]) => wire[k].to.n < agent.last
    BY <1>1, <1>3 DEF EndsOK
  <2>2. wire[k].to.n = agent.last => agent'.turn = 0
    BY <2>1
  <2>3. agent.turn # 0 \/ agent.last = 0 => wire[k].to.n < agent.last
    BY <1>2, <2>1
  <2>4. \A l \in k + 1..Len(wire') : (l \in k + 1..n /\ wire'[l] = wire[l]) \/ wire'[l] = m
    BY <1>1
  <2> QED
    BY <2>1, <2>2, <2>3, <2>4 DEF InTurn
<1>4. CASE k = n + 1
  <2>1. wire'[k] = m /\ ~ \E l \in k + 1..Len(wire') : TRUE
    BY <1>1, <1>4
  <2> QED
    BY <2>1
<1> QED
  BY <1>1, <1>3, <1>4


-----------------------------------------------------------------------------
(* The steps of the tool calls *)

LEMMA CallsStutter ==
    ASSUME CallsIInv, UNCHANGED << client, tools, shown, wire, posted, inbox, agent, calls >>
    PROVE  CallsIInv'
<1>1. ClosedOK' /\ ShownIsMeant' /\ (client'.open => ~ client'.over)
  BY DEF CallsIInv, ClosedOK, ShownIsMeant
<1>2. WireFits'
  BY DEF CallsIInv, WireFits, WholeCalls, FirstFits, NextFits, Fits, Known
<1>3. ~ client'.over => ToldIsKnown'
  BY DEF CallsIInv, ToldIsKnown, Known, InTurn
<1>4. ~ client'.over => PromptsOK' /\ InboxOK' /\ EndsOK' /\ ContinuesOK'
  BY DEF CallsIInv, PromptsOK, InboxOK, EndsOK, ContinuesOK
<1> QED
  BY <1>1, <1>2, <1>3, <1>4 DEF CallsIInv

\* A closed connection stays closed, and nobody says or shows anything.
LEMMA OverStep ==
    ASSUME AcpTypes, CallsIInv, client'.over, ~ client'.open, wire' = << >>, inbox' = << >>,
           UNCHANGED shown
    PROVE  CallsIInv'
BY DEF CallsIInv, ClosedOK, WireFits, WholeCalls, FirstFits, NextFits, ShownIsMeant

LEMMA OverStays ==
    ASSUME AcpTypes, CallsIInv, client.over, AcpNext
    PROVE  CallsIInv'
<1>1. ~ client.open /\ wire = << >> /\ inbox = << >> /\ client \in ClientType
  BY DEF CallsIInv, ClosedOK, AcpTypes
<1> SUFFICES client'.over /\ ~ client'.open /\ wire' = << >> /\ inbox' = << >> /\ UNCHANGED shown
  BY OverStep
<1>2. CASE Host
  <2>1. DestroyTerminals \/ PromptTimesOut \/ \E k \in Providers, present \in BOOLEAN : setProvider(k, present)
    BY <1>1, <1>2 DEF Host, connectAndInitialize, prompt, shutdown, OpenSession
  <2>2. UNCHANGED << wire, inbox, shown >> /\ client' \in {client, [client EXCEPT !.inFlight = 0]}
    BY <2>1 DEF DestroyTerminals, PromptTimesOut, setProvider, HostOnly
  <2> QED
    BY <1>1, <2>2 DEF ClientType
<1>3. CASE Continue
  <2>1. UNCHANGED << wire, inbox, shown >>
    BY <1>3 DEF Continue
  <2>2. client' \in {[client EXCEPT !.initialized = TRUE], [client EXCEPT !.inFlight = 0],
                     [client EXCEPT !.session = TRUE]}
    BY <1>3 DEF Continue, ContinuePrompt, ContinueSession
  <2>3. client'.over = client.over /\ client'.open = client.open
    BY <1>1, <2>2 DEF ClientType
  <2> QED
    BY <1>1, <2>1, <2>3
<1>4. CASE Agent
  BY <1>1, <1>4 DEF Agent, Serves, EndsTurn, Begins, Updates, AnyAsk, AskFor, Says
<1>5. CASE AcpProcess \/ \E a \in Asks : WaitEnds(a) \/ ProviderAnswers(a)
  BY <1>1, <1>5 DEF AcpProcess, acpVars, WaitEnds, ProviderAnswers
<1>6. CASE Receive
  BY <1>1, <1>6 DEF Receive
<1> QED
  BY <1>2, <1>3, <1>4, <1>5, <1>6 DEF AcpNext, Serving

LEMMA InboxAppend ==
    ASSUME AcpTypes, InboxOK, PromptsOK, NEW o \in Order, inbox' = Append(inbox, o), UNCHANGED agent,
           client'.prompts \in Nat, client'.prompts >= client.prompts,
           o.kind = "prompt" => o.n = client.prompts + 1 /\ client'.prompts = client.prompts + 1
    PROVE  InboxOK'
<1> DEFINE n == Len(inbox)
<1>1. /\ n \in Nat /\ Len(inbox') = n + 1 /\ inbox'[n + 1] = o
      /\ \A k \in 1..n : inbox'[k] = inbox[k]
  BY Appended DEF AcpTypes
<1>2. /\ agent.last \in Nat /\ client.prompts \in Nat /\ agent.last <= client.prompts
  BY DEF AcpTypes, ClientType, PromptsOK
<1> SUFFICES ASSUME NEW k \in 1..n + 1, inbox'[k].kind = "prompt"
             PROVE  /\ inbox'[k].n \in agent.last + 1..client'.prompts
                    /\ \A l \in k + 1..n + 1 : inbox'[l].kind = "prompt" => inbox'[l].n > inbox'[k].n
  BY <1>1 DEF InboxOK
<1>3. CASE k \in 1..n
  <2>1. /\ inbox'[k] = inbox[k] /\ inbox[k].n \in agent.last + 1..client.prompts
        /\ \A l \in k + 1..n : inbox[l].kind = "prompt" => inbox[l].n > inbox[k].n
    BY <1>1, <1>3 DEF InboxOK
  <2>2. inbox[k].n \in agent.last + 1..client'.prompts /\ client.prompts + 1 > inbox[k].n
    BY <1>2, <2>1
  <2>3. \A l \in k + 1..n + 1 : (l \in k + 1..n /\ inbox'[l] = inbox[l]) \/ inbox'[l] = o
    BY <1>1, <1>3
  <2> QED
    BY <2>1, <2>2, <2>3
<1>4. CASE k = n + 1
  <2>1. inbox'[k] = o /\ ~ \E l \in k + 1..n + 1 : TRUE
    BY <1>1, <1>4
  <2>2. o.n \in agent.last + 1..client'.prompts
    BY <1>2, <2>1
  <2> QED
    BY <2>1, <2>2
<1> QED
  BY <1>1, <1>3, <1>4

LEMMA InboxTail ==
    ASSUME AcpTypes, InboxOK, inbox # << >>, inbox' = Tail(inbox), UNCHANGED client,
           \/ agent'.last = agent.last
           \/ Head(inbox).kind = "prompt" /\ agent'.last = Head(inbox).n
    PROVE  InboxOK'
<1> DEFINE n == Len(inbox)
<1>1. /\ n \in Nat \ {0} /\ Head(inbox) = inbox[1] /\ Len(inbox') = n - 1
      /\ \A k \in 1..n - 1 : inbox'[k] = inbox[k + 1]
  BY HeadAndTail DEF AcpTypes
<1> SUFFICES ASSUME NEW k \in 1..n - 1, inbox'[k].kind = "prompt"
             PROVE  /\ inbox'[k].n \in agent'.last + 1..client.prompts
                    /\ \A l \in k + 1..n - 1 : inbox'[l].kind = "prompt" => inbox'[l].n > inbox'[k].n
  BY <1>1 DEF InboxOK
<1>2. k + 1 \in 1..n /\ 1 \in 1..n /\ k + 1 \in 1 + 1..n /\ inbox'[k] = inbox[k + 1]
  BY <1>1
<1>3. inbox[k + 1].n \in agent.last + 1..client.prompts
  BY <1>2 DEF InboxOK
<1>4. Head(inbox).kind = "prompt" =>
        inbox[k + 1].n > Head(inbox).n /\ Head(inbox).n \in agent.last + 1..client.prompts
  BY <1>1, <1>2 DEF InboxOK
<1>5. agent.last \in Nat /\ client.prompts \in Nat
  BY DEF AcpTypes, ClientType
<1>6. inbox[k + 1].n \in agent'.last + 1..client.prompts
  BY <1>3, <1>4, <1>5
<1>7. \A l \in k + 1..n - 1 : l + 1 \in (k + 1) + 1..n /\ inbox'[l] = inbox[l + 1]
  BY <1>1
<1> QED
  BY <1>2, <1>6, <1>7 DEF InboxOK


\* A step of the host's that leaves alone all but the client and what it asks.
LEMMA HostCalls ==
    ASSUME AcpTypes, AcpTypes', CallsIInv, ~ client.over,
           connectAndInitialize \/ prompt \/ PromptTimesOut
           \/ \E kind \in {"new", "load"} : OpenSession(kind)
    PROVE  CallsIInv'
<1>1. /\ UNCHANGED << tools, shown, wire, posted, agent, calls >>
      /\ ToldIsKnown /\ PromptsOK /\ InboxOK /\ EndsOK /\ ContinuesOK /\ ClosedOK /\ WireFits
  BY DEF CallsIInv, connectAndInitialize, prompt, PromptTimesOut, OpenSession, HostOnly
<1>2. WireFits' /\ ShownIsMeant' /\ ToldIsKnown' /\ EndsOK'
  BY <1>1 DEF CallsIInv, WireFits, WholeCalls, FirstFits, NextFits, Fits, Known, ShownIsMeant,
              ToldIsKnown, InTurn, EndsOK
<1>3. client \in ClientType /\ agent.last \in Nat /\ client.prompts \in Nat
  BY DEF AcpTypes, ClientType
<1>4. CASE connectAndInitialize
  <2>1. /\ client'.open /\ client'.over = FALSE /\ client'.inFlight = client.inFlight
        /\ client'.answered = client.answered /\ client'.prompts = client.prompts
    BY <1>3, <1>4 DEF connectAndInitialize, ClientType
  <2>2. \E o \in Order : o.kind # "prompt" /\ inbox' = Append(inbox, o)
    BY <1>4 DEF connectAndInitialize, Request, Order
  <2>3. InboxOK'
    BY <1>1, <1>3, <2>1, <2>2, InboxAppend
  <2>4. PromptsOK' /\ ContinuesOK' /\ ClosedOK'
    BY <1>1, <2>1 DEF PromptsOK, ContinuesOK, ClosedOK
  <2> QED
    BY <1>2, <2>1, <2>3, <2>4 DEF CallsIInv
<1>5. ASSUME NEW kind \in {"new", "load"}, OpenSession(kind)
      PROVE  CallsIInv'
  <2>1. client.open /\ client' = [client EXCEPT !.asked = TRUE, !.session = (kind = "load")]
    BY <1>5 DEF OpenSession
  <2>2. /\ client'.open /\ client'.over = FALSE /\ client'.inFlight = client.inFlight
        /\ client'.answered = client.answered /\ client'.prompts = client.prompts
    BY <1>3, <2>1 DEF ClientType
  <2>3. \E o \in Order : o.kind # "prompt" /\ inbox' = Append(inbox, o)
    BY <1>5 DEF OpenSession, Request, Order
  <2>4. InboxOK'
    BY <1>1, <1>3, <2>2, <2>3, InboxAppend
  <2>5. PromptsOK' /\ ContinuesOK' /\ ClosedOK'
    BY <1>1, <2>2 DEF PromptsOK, ContinuesOK, ClosedOK
  <2> QED
    BY <1>2, <2>2, <2>4, <2>5 DEF CallsIInv
<1>6. CASE prompt
  <2>1. /\ client.open /\ client.inFlight = 0
        /\ client' = [client EXCEPT !.prompts = client.prompts + 1, !.inFlight = client.prompts + 1]
    BY <1>6 DEF prompt
  <2>2. /\ client'.open /\ client'.over = FALSE /\ client'.inFlight = client.prompts + 1
        /\ client'.prompts = client.prompts + 1
    BY <1>3, <2>1 DEF ClientType
  <2>3. \E o \in Order : o.n = client.prompts + 1 /\ inbox' = Append(inbox, o)
    BY <1>3, <1>6 DEF prompt, Request, Order
  <2>4. InboxOK'
    <3>1. client'.prompts \in Nat /\ client'.prompts >= client.prompts
      BY <1>3, <2>2
    <3> QED
      BY <1>1, <2>2, <2>3, <3>1, InboxAppend
  <2>5. PromptsOK'
    <3>1. /\ agent.last \in 0..client.prompts + 1 /\ agent.turn \in {0, agent.last}
          /\ \A c \in ToolCalls : calls[c].turn <= agent.last
      BY <1>1, <1>3 DEF PromptsOK
    <3> QED
      BY <1>1, <2>2, <3>1 DEF PromptsOK
  <2>6. ContinuesOK' /\ ClosedOK'
    BY <1>1, <2>1, <2>2 DEF ContinuesOK, ClosedOK
  <2> QED
    BY <1>2, <2>2, <2>4, <2>5, <2>6 DEF CallsIInv
<1>7. CASE PromptTimesOut
  <2>1. /\ client.answered # client.inFlight /\ client' = [client EXCEPT !.inFlight = 0]
        /\ UNCHANGED inbox
    BY <1>7 DEF PromptTimesOut
  <2>2. /\ client'.open = client.open /\ client'.over = FALSE /\ client'.inFlight = 0
        /\ client'.answered = client.answered /\ client'.prompts = client.prompts
    BY <1>3, <2>1 DEF ClientType
  <2>3. InboxOK' /\ PromptsOK' /\ ContinuesOK' /\ ClosedOK'
    BY <1>1, <2>1, <2>2 DEF InboxOK, PromptsOK, ContinuesOK, ClosedOK
  <2> QED
    BY <1>2, <2>2, <2>3 DEF CallsIInv, ClosedOK
<1> QED
  BY <1>4, <1>5, <1>6, <1>7

\* Nothing that was posted, and no message but the taken one, is of the prompt in flight.
LEMMA TailContinues ==
    ASSUME AcpTypes, ContinuesOK, wire # << >>, wire' = Tail(wire),
           UNCHANGED << client, posted, agent >>
    PROVE  ContinuesOK'
<1>1. \A k \in 1..Len(wire') : k + 1 \in 1..Len(wire) /\ wire'[k] = wire[k + 1]
  BY WireTail
<1> QED
  BY <1>1 DEF ContinuesOK, Speaks, EndsPrompt

LEMMA TakeUpdateCalls ==
    ASSUME AcpTypes, AcpTypes', CallsIInv, ~ client.over, Receive, TakeUpdate(Head(wire))
    PROVE  CallsIInv'
<1>1. /\ ToldIsKnown /\ PromptsOK /\ InboxOK /\ EndsOK /\ ContinuesOK /\ ClosedOK /\ WireFits
      /\ client.open => ~ client.over
  BY DEF CallsIInv
<1>2. /\ wire # << >> /\ wire' = Tail(wire) /\ UNCHANGED << client, posted, inbox, agent, calls >>
  BY DEF Receive, TakeUpdate
<1>3. 1 \in 1..Len(wire) /\ Head(wire) = wire[1] /\ wire[1] \in Message
  BY <1>2, WireTail
<1>4. PICK m \in Message : m = wire[1]
  BY <1>3
<1>5. Speaks(m) /\ m.id \in ToolCalls
  BY <1>3, <1>4, MessageParts DEF TakeUpdate, Speaks
<1>6. /\ tools' = [c \in DOMAIN tools \cup {m.id} |-> IF c = m.id THEN m.whole ELSE tools[c]]
      /\ shown' = [call |-> m.whole, meant |-> m.whole]
  <2>1. CASE m.kind = "call"
    <3>1. m.says = m.whole
      BY <1>1, <1>3, <1>4, <2>1 DEF WireFits, WholeCalls
    <3> QED
      BY <1>3, <1>4, <2>1, <3>1 DEF TakeUpdate
  <2>2. CASE m.kind = "update"
    <3>1. \A l \in 1..1 - 1 : ~ About(wire[l], wire[1].id)
      OBVIOUS
    <3>2. mergeToolCall(Known(m.id), m.says) = m.whole
      BY <1>1, <1>3, <1>4, <1>5, <2>2, <3>1 DEF WireFits, FirstFits, Fits
    <3> QED
      BY <1>3, <1>4, <2>2, <3>2 DEF TakeUpdate
  <2> QED
    BY <1>5, <2>1, <2>2 DEF Speaks
<1>7. \A c \in ToolCalls : Known(c)' = IF About(Head(wire), c) THEN Head(wire).whole ELSE Known(c)
  <2> TAKE c \in ToolCalls
  <2>1. Known(c)' = IF m.id = c THEN m.whole ELSE Known(c)
    BY <1>6 DEF Known
  <2> QED
    BY <1>3, <1>4, <1>5, <2>1 DEF About
<1>8. WireFits' /\ ToldIsKnown' /\ EndsOK' /\ ContinuesOK'
  BY <1>1, <1>2, <1>7, TailFits, TailTold, TailEnds, TailContinues
<1>9. ShownIsMeant'
  BY <1>6 DEF ShownIsMeant
<1>10. ClosedOK' /\ PromptsOK' /\ InboxOK'
  BY <1>1, <1>2 DEF ClosedOK, PromptsOK, InboxOK
<1> QED
  BY <1>1, <1>2, <1>8, <1>9, <1>10 DEF CallsIInv


\* A message that says nothing of tool calls leaves what is known of them.
LEMMA QuietTail ==
    ASSUME AcpTypes, CallsIInv, ~ client.over, wire # << >>, wire' = Tail(wire),
           ~ Speaks(Head(wire)), UNCHANGED << tools, agent, calls >>
    PROVE  WireFits' /\ ToldIsKnown' /\ EndsOK'
<1>1. \A c \in ToolCalls : Known(c)' = IF About(Head(wire), c) THEN Head(wire).whole ELSE Known(c)
  BY DEF Known, About
<1> QED
  BY <1>1, TailFits, TailTold, TailEnds DEF CallsIInv

LEMMA TakeRequestCalls ==
    ASSUME AcpTypes, CallsIInv, ~ client.over, Receive, TakeRequest(Head(wire))
    PROVE  CallsIInv'
<1>1. /\ ToldIsKnown /\ PromptsOK /\ InboxOK /\ EndsOK /\ ContinuesOK /\ ClosedOK /\ WireFits
      /\ (client.open => ~ client.over) /\ ShownIsMeant
  BY DEF CallsIInv
<1>2. /\ wire # << >> /\ wire' = Tail(wire) /\ ~ Speaks(Head(wire))
      /\ UNCHANGED << client, tools, shown, posted, inbox, agent, calls >>
  BY DEF Receive, TakeRequest, Speaks
<1>3. WireFits' /\ ToldIsKnown' /\ EndsOK' /\ ContinuesOK'
  BY <1>1, <1>2, QuietTail, TailContinues
<1>4. ClosedOK' /\ PromptsOK' /\ InboxOK' /\ ShownIsMeant'
  <2>1. client.open
    BY <1>1, <1>2 DEF ClosedOK
  <2> QED
    BY <1>1, <1>2, <2>1 DEF ClosedOK, PromptsOK, InboxOK, ShownIsMeant
<1> QED
  BY <1>1, <1>2, <1>3, <1>4 DEF CallsIInv

\* A response: of the prompt in flight it is the last the agent has said, and nothing of
\* a prompt was posted before.
LEMMA TakeResponseCalls ==
    ASSUME AcpTypes, AcpTypes', CallsIInv, ~ client.over, Receive, TakeResponse(Head(wire))
    PROVE  CallsIInv'
<1>1. /\ ToldIsKnown /\ PromptsOK /\ InboxOK /\ EndsOK /\ ContinuesOK /\ ClosedOK /\ WireFits
      /\ (client.open => ~ client.over) /\ ShownIsMeant
  BY DEF CallsIInv
<1>2. /\ wire # << >> /\ wire' = Tail(wire) /\ ~ Speaks(Head(wire))
      /\ UNCHANGED << tools, shown, inbox, agent, calls >> /\ Head(wire).kind = "response"
  BY DEF Receive, TakeResponse, Speaks
<1>3. WireFits' /\ ToldIsKnown' /\ EndsOK'
  BY <1>2, QuietTail
<1>4. /\ 1 \in 1..Len(wire) /\ Head(wire) = wire[1] /\ Head(wire) \in Message
      /\ \A k \in 1..Len(wire') : k + 1 \in 1 + 1..Len(wire) /\ k + 1 \in 1..Len(wire)
                                  /\ wire'[k] = wire[k + 1]
  BY <1>2, WireTail
<1>5. PICK m \in Message : m = Head(wire)
  BY <1>4
<1>6. m.to \in Order /\ m.kind = "response" /\ client.open /\ client \in ClientType
  BY <1>1, <1>2, <1>5, MessageParts DEF ClosedOK, AcpTypes
<1>7. CASE m.to.kind = "prompt" /\ m.to.n # client.inFlight
  <2>1. UNCHANGED << client, posted >>
    BY <1>5, <1>7 DEF TakeResponse
  <2>2. ContinuesOK' /\ ClosedOK' /\ PromptsOK' /\ InboxOK' /\ ShownIsMeant'
    BY <1>1, <1>2, <1>6, <2>1, TailContinues DEF ClosedOK, PromptsOK, InboxOK, ShownIsMeant
  <2> QED
    BY <1>1, <1>3, <2>1, <2>2 DEF CallsIInv
<1>8. CASE m.to.kind # "prompt"
  <2>1. UNCHANGED client /\ posted' = Append(posted, m.to)
    BY <1>5, <1>8 DEF TakeResponse
  <2>2. /\ Len(posted) \in Nat /\ Len(posted') = Len(posted) + 1
        /\ \A k \in 1..Len(posted) : posted'[k] = posted[k]
        /\ posted'[Len(posted) + 1] = m.to
    BY <1>6, <2>1, Appended DEF AcpTypes
  <2>3. \A k \in 1..Len(posted') : posted'[k].kind = "prompt" =>
          k \in 1..Len(posted) /\ posted'[k] = posted[k]
    BY <1>8, <2>2
  <2>4. ContinuesOK'
    BY <1>1, <1>2, <1>4, <2>1, <2>3 DEF ContinuesOK, Speaks, EndsPrompt
  <2>5. ClosedOK' /\ PromptsOK' /\ InboxOK' /\ ShownIsMeant'
    BY <1>1, <1>2, <1>6, <2>1 DEF ClosedOK, PromptsOK, InboxOK, ShownIsMeant
  <2> QED
    BY <1>1, <1>3, <2>1, <2>4, <2>5 DEF CallsIInv
<1>9. CASE m.to.kind = "prompt" /\ m.to.n = client.inFlight
  <2>1. client' = [client EXCEPT !.answered = m.to.n] /\ posted' = Append(posted, m.to)
    BY <1>5, <1>9 DEF TakeResponse
  <2>2. /\ client'.open /\ client'.over = client.over /\ client'.inFlight = client.inFlight
        /\ client'.answered = m.to.n /\ client'.prompts = client.prompts
    BY <1>6, <2>1 DEF ClientType
  <2>3. EndsPrompt(wire[1])
    BY <1>4, <1>5, <1>6, <1>9 DEF EndsPrompt
  <2>4. /\ m.to.n \in 1..agent.last /\ (m.to.n = agent.last => agent.turn = 0)
        /\ \A l \in 1 + 1..Len(wire) : /\ EndsPrompt(wire[l]) => wire[l].to.n > m.to.n
                                       /\ Speaks(wire[l]) => m.to.n < agent.last
    BY <1>1, <1>4, <1>5, <2>3 DEF EndsOK
  <2>5. m.to.n = agent.last /\ agent.turn = 0 /\ m.to.n # 0 /\ agent.last \in Nat
    <3>1. agent.last \in Nat /\ client.prompts \in Nat
      BY DEF AcpTypes, ClientType
    <3>2. m.to.n # 0 /\ client.inFlight = client.prompts /\ agent.last \in 0..client.prompts
      BY <1>1, <1>9, <2>4 DEF PromptsOK
    <3> QED
      BY <1>9, <2>4, <3>1, <3>2
  <2>6. \A l \in 1..Len(wire') : ~ Speaks(wire'[l]) /\ ~ EndsPrompt(wire'[l])
    <3> TAKE l \in 1..Len(wire')
    <3>1. l + 1 \in 1 + 1..Len(wire) /\ l + 1 \in 1..Len(wire) /\ wire'[l] = wire[l + 1]
      BY <1>4
    <3>2. EndsPrompt(wire[l + 1]) => wire[l + 1].to.n > agent.last /\ wire[l + 1].to.n \in 1..agent.last
      BY <1>1, <2>4, <2>5, <3>1 DEF EndsOK
    <3>3. Speaks(wire[l + 1]) => agent.last < agent.last
      BY <2>4, <2>5, <3>1
    <3> QED
      BY <2>5, <3>1, <3>2, <3>3
  <2>7. \A k \in 1..Len(posted) : posted[k].kind # "prompt"
    BY <1>1, <1>4, <2>3 DEF ContinuesOK
  <2>8. /\ Len(posted) \in Nat /\ Len(posted') = Len(posted) + 1
        /\ \A k \in 1..Len(posted) : posted'[k] = posted[k]
        /\ posted'[Len(posted) + 1] = m.to
    BY <1>6, <2>1, Appended DEF AcpTypes
  <2>9. \A k \in 1..Len(posted') : posted'[k].kind = "prompt" => k = Len(posted) + 1
    BY <2>7, <2>8
  <2>10. ContinuesOK'
    <3>1. client'.inFlight # 0 /\ client'.answered = client'.inFlight
          /\ agent'.last = client'.inFlight /\ agent'.turn = 0
      BY <1>2, <1>9, <2>2, <2>5
    <3> QED
      BY <2>6, <2>9, <3>1 DEF ContinuesOK, Speaks, EndsPrompt
  <2>11. ClosedOK' /\ PromptsOK' /\ InboxOK' /\ ShownIsMeant'
    BY <1>1, <1>2, <2>2 DEF ClosedOK, PromptsOK, InboxOK, ShownIsMeant
  <2> QED
    BY <1>1, <1>3, <2>2, <2>10, <2>11 DEF CallsIInv
<1> QED
  BY <1>7, <1>8, <1>9

\* A continuation: of the prompt in flight it finds nothing on the wire of tool calls.
LEMMA ContinueCalls ==
    ASSUME AcpTypes, CallsIInv, ~ client.over, Continue
    PROVE  CallsIInv'
<1>1. /\ ToldIsKnown /\ PromptsOK /\ InboxOK /\ EndsOK /\ ContinuesOK /\ ClosedOK /\ WireFits
      /\ (client.open => ~ client.over) /\ ShownIsMeant
  BY DEF CallsIInv
<1>2. /\ posted # << >> /\ posted' = Tail(posted) /\ UNCHANGED << wire, shown, inbox, agent, calls >>
  BY DEF Continue
<1>3. /\ 1 \in 1..Len(posted) /\ Head(posted) = posted[1] /\ Len(posted) \in Nat
      /\ Len(posted') = Len(posted) - 1
      /\ \A k \in 1..Len(posted') : k + 1 \in 1..Len(posted) /\ k + 1 # 1 /\ posted'[k] = posted[k + 1]
  BY <1>2, HeadAndTail DEF AcpTypes
<1>4. client \in ClientType /\ client.open
  BY <1>1, <1>2 DEF AcpTypes, ClosedOK
<1>5. InboxOK' /\ EndsOK' /\ ShownIsMeant'
  <2>1. client'.prompts = client.prompts
    BY <1>4 DEF Continue, ContinuePrompt, ContinueSession, ClientType
  <2> QED
    BY <1>1, <1>2, <2>1 DEF InboxOK, EndsOK, ShownIsMeant
<1>6. CASE posted[1].kind # "prompt"
  <2>1. /\ UNCHANGED tools
        /\ client' \in {[client EXCEPT !.initialized = TRUE], [client EXCEPT !.session = TRUE]}
    BY <1>3, <1>6 DEF Continue, ContinueSession
  <2>2. /\ client'.open /\ client'.over = client.over /\ client'.inFlight = client.inFlight
        /\ client'.answered = client.answered /\ client'.prompts = client.prompts
    BY <1>4, <2>1 DEF ClientType
  <2>3. WireFits' /\ ToldIsKnown'
    BY <1>1, <1>2, <2>1 DEF WireFits, WholeCalls, FirstFits, NextFits, Fits, Known, ToldIsKnown, InTurn
  <2>4. ContinuesOK'
    <3> SUFFICES ASSUME NEW k \in 1..Len(posted'), posted'[k].kind = "prompt"
                 PROVE  /\ client'.inFlight # 0 /\ client'.answered = client'.inFlight
                        /\ agent.last = client'.inFlight /\ agent.turn = 0
                        /\ \A l \in 1..Len(wire) : ~ Speaks(wire[l]) /\ ~ EndsPrompt(wire[l])
                        /\ \A l \in 1..Len(posted') : posted'[l].kind = "prompt" => l = k
      BY <1>2 DEF ContinuesOK
    <3>1. k + 1 \in 1..Len(posted) /\ posted'[k] = posted[k + 1]
      BY <1>3
    <3>2. \A l \in 1..Len(posted) : posted[l].kind = "prompt" => l = k + 1
      BY <1>1, <3>1 DEF ContinuesOK
    <3>3. \A l \in 1..Len(posted') : posted'[l].kind = "prompt" => l + 1 = k + 1
      BY <1>3, <3>2
    <3>4. \A l \in 1..Len(posted') : l + 1 = k + 1 => l = k
      OBVIOUS
    <3> QED
      BY <1>1, <2>2, <3>1, <3>3, <3>4 DEF ContinuesOK
  <2>5. ClosedOK' /\ PromptsOK'
    BY <1>1, <1>2, <2>2 DEF ClosedOK, PromptsOK
  <2> QED
    BY <1>1, <1>5, <2>2, <2>3, <2>4, <2>5 DEF CallsIInv
<1>7. CASE posted[1].kind = "prompt"
  <2>1. client' = [client EXCEPT !.inFlight = 0]
    BY <1>3, <1>7 DEF Continue, ContinuePrompt
  <2>2. /\ client'.open /\ client'.over = client.over /\ client'.inFlight = 0
        /\ client'.prompts = client.prompts
    BY <1>4, <2>1 DEF ClientType
  <2>3. /\ client.inFlight # 0 /\ agent.last = client.inFlight /\ agent.turn = 0
        /\ \A l \in 1..Len(wire) : ~ Speaks(wire[l]) /\ ~ EndsPrompt(wire[l])
        /\ \A l \in 1..Len(posted) : posted[l].kind = "prompt" => l = 1
    BY <1>1, <1>3, <1>7 DEF ContinuesOK
  <2>4. WireFits'
    BY <1>1, <1>2, <2>3 DEF WireFits, WholeCalls, FirstFits, NextFits, Speaks
  <2>5. ToldIsKnown'
    BY <1>2, <2>3 DEF ToldIsKnown, InTurn
  <2>6. ContinuesOK'
    BY <1>3, <2>3 DEF ContinuesOK
  <2>7. ClosedOK' /\ PromptsOK'
    BY <1>1, <1>2, <2>2 DEF ClosedOK, PromptsOK
  <2> QED
    BY <1>1, <1>5, <2>2, <2>4, <2>5, <2>6, <2>7 DEF CallsIInv
<1> QED
  BY <1>6, <1>7


\* Something is said that neither speaks of tool calls nor ends a prompt.
LEMMA NeutralSaid ==
    ASSUME AcpTypes, CallsIInv, ~ client.over, NEW m \in Message, wire' = Append(wire, m),
           ~ Speaks(m), ~ EndsPrompt(m), client.open,
           UNCHANGED << client, tools, shown, posted, calls >>,
           agent'.last = agent.last, agent'.turn = agent.turn, InboxOK'
    PROVE  CallsIInv'
<1>1. /\ ToldIsKnown /\ PromptsOK /\ EndsOK /\ ContinuesOK /\ WireFits /\ ShownIsMeant
  BY DEF CallsIInv
<1>2. WireFits'
  BY <1>1, AppendFits DEF Speaks
<1>3. ToldIsKnown'
  BY <1>1, AppendTold DEF About, InTurn
<1>4. EndsOK'
  BY <1>1, AppendEnds
<1>5. ContinuesOK'
  <2>1. \A k \in 1..Len(wire') : (k \in 1..Len(wire) /\ wire'[k] = wire[k]) \/ wire'[k] = m
    BY WireAppend
  <2> QED
    BY <1>1, <2>1 DEF ContinuesOK, Speaks, EndsPrompt
<1>6. ClosedOK' /\ PromptsOK' /\ ShownIsMeant'
  BY <1>1 DEF ClosedOK, PromptsOK, ShownIsMeant
<1> QED
  BY <1>2, <1>3, <1>4, <1>5, <1>6 DEF CallsIInv

LEMMA ServesCalls ==
    ASSUME AcpTypes, CallsIInv, ~ client.over, Serves
    PROVE  CallsIInv'
<1>1. /\ ToldIsKnown /\ PromptsOK /\ InboxOK /\ EndsOK /\ ContinuesOK /\ ClosedOK /\ WireFits
      /\ ShownIsMeant
  BY DEF CallsIInv
<1>2. /\ inbox # << >> /\ inbox' = Tail(inbox) /\ agent.turn = 0 /\ client.open
      /\ UNCHANGED << client, tools, shown, posted, calls >>
  BY DEF Serves, AgentOnly
<1>3. 1 \in 1..Len(inbox) /\ Head(inbox) = inbox[1] /\ inbox[1] \in Order
  BY <1>2, HeadAndTail DEF AcpTypes
<1>4. PICK o \in Order : o = Head(inbox) /\ o = inbox[1] /\ o.n \in Nat
  BY <1>3 DEF Order
<1>5. agent.last \in Nat /\ agent.turn \in Nat /\ client.prompts \in Nat /\ client.inFlight \in Nat
  BY DEF AcpTypes, ClientType
<1>6. CASE o.kind # "prompt"
  <2>1. /\ wire' = Append(wire, [kind |-> "response", to |-> o])
        /\ agent' = agent \/ agent' = [agent EXCEPT !.session = TRUE]
    BY <1>4, <1>6 DEF Serves, Says
  <2>2. agent'.last = agent.last /\ agent'.turn = agent.turn
    BY <2>1 DEF AcpTypes
  <2>3. PICK m \in Message : wire' = Append(wire, m) /\ m.kind = "response" /\ m.to = o
    BY <2>1 DEF Message
  <2>4. ~ Speaks(m) /\ ~ EndsPrompt(m)
    BY <1>6, <2>3 DEF Speaks, EndsPrompt
  <2>5. InboxOK'
    BY <1>1, <1>2, <2>2, InboxTail
  <2> QED
    BY <1>2, <2>2, <2>3, <2>4, <2>5, NeutralSaid
<1>7. CASE o.kind = "prompt"
  <2>1. agent' = [agent EXCEPT !.turn = o.n, !.last = o.n] /\ UNCHANGED wire
    BY <1>4, <1>7 DEF Serves
  <2>2. agent'.last = o.n /\ agent'.turn = o.n
    BY <2>1 DEF AcpTypes
  <2>3. o.n \in agent.last + 1..client.prompts
    BY <1>1, <1>3, <1>4, <1>7 DEF InboxOK
  <2>4. agent.last < o.n /\ o.n <= client.prompts /\ o.n # 0
    BY <1>4, <1>5, <2>3
  <2>5. InboxOK'
    BY <1>1, <1>2, <1>4, <1>7, <2>2, InboxTail
  <2>6. WireFits' /\ ShownIsMeant'
    BY <1>1, <1>2, <2>1 DEF WireFits, WholeCalls, FirstFits, NextFits, Fits, Known, ShownIsMeant
  <2>7. \A c \in ToolCalls : calls[c].turn \in Int /\ calls[c].turn <= agent.last
    BY <1>1 DEF PromptsOK, AcpTypes
  <2>8. \A c \in ToolCalls : calls[c].turn # o.n /\ calls[c].turn <= o.n
    BY <1>4, <1>5, <2>4, <2>7
  <2>9. ToldIsKnown'
    BY <1>2, <2>2, <2>8 DEF ToldIsKnown
  <2>10. PromptsOK'
    BY <1>1, <1>2, <1>4, <1>5, <2>2, <2>4, <2>8 DEF PromptsOK
  <2>11. EndsOK'
    <3>1. \A k \in 1..Len(wire) : EndsPrompt(wire[k]) =>
            /\ wire[k].to.n \in 1..o.n /\ wire[k].to.n < o.n
            /\ \A l \in k + 1..Len(wire) : EndsPrompt(wire[l]) => wire[l].to.n > wire[k].to.n
      <4> TAKE k \in 1..Len(wire)
      <4> HAVE EndsPrompt(wire[k])
      <4>1. /\ wire[k].to.n \in 1..agent.last
            /\ \A l \in k + 1..Len(wire) : EndsPrompt(wire[l]) => wire[l].to.n > wire[k].to.n
        BY <1>1 DEF EndsOK
      <4>2. wire[k].to.n \in 1..o.n /\ wire[k].to.n < o.n
        BY <1>4, <1>5, <2>4, <4>1
      <4> QED
        BY <4>1, <4>2
    <3>2. \A k \in 1..Len(wire) : EndsPrompt(wire[k]) => wire[k].to.n # o.n
      BY <1>4, <3>1
    <3> QED
      BY <2>1, <2>2, <3>1, <3>2 DEF EndsOK
  <2>12. ContinuesOK'
    <3>1. \A k \in 1..Len(posted) : posted[k].kind # "prompt"
      <4> TAKE k \in 1..Len(posted)
      <4>1. posted[k].kind = "prompt" => agent.last = client.inFlight /\ client.inFlight # 0
        BY <1>1 DEF ContinuesOK
      <4>2. client.inFlight # 0 => client.inFlight = client.prompts
        BY <1>1 DEF PromptsOK
      <4> QED
        BY <1>4, <1>5, <2>4, <4>1, <4>2
    <3> QED
      BY <1>2, <3>1 DEF ContinuesOK
  <2>13. ClosedOK'
    BY <1>2 DEF ClosedOK
  <2> QED
    BY <1>2, <2>5, <2>6, <2>9, <2>10, <2>11, <2>12, <2>13 DEF CallsIInv
<1> QED
  BY <1>6, <1>7

LEMMA EndsTurnCalls ==
    ASSUME AcpTypes, CallsIInv, ~ client.over, EndsTurn
    PROVE  CallsIInv'
<1>1. /\ ToldIsKnown /\ PromptsOK /\ InboxOK /\ EndsOK /\ ContinuesOK /\ WireFits /\ ShownIsMeant
  BY DEF CallsIInv
<1>2. /\ agent.turn # 0 /\ client.open /\ agent' = [agent EXCEPT !.turn = 0]
      /\ UNCHANGED << client, tools, shown, posted, inbox, calls >>
  BY DEF EndsTurn, AgentOnly, Says
<1>3. agent.last \in Nat /\ agent.turn = agent.last
  BY <1>1, <1>2 DEF AcpTypes, PromptsOK
<1>4. agent'.turn = 0 /\ agent'.last = agent.last
  BY <1>2 DEF AcpTypes
<1>5. PICK m \in Message : wire' = Append(wire, m) /\ m.kind = "response" /\ m.to.n = agent.turn
  <2>1. [kind |-> "response", to |-> [kind |-> "prompt", n |-> agent.turn]] \in Message
    BY <1>3 DEF Message, Order
  <2> QED
    BY <2>1 DEF EndsTurn, Says
<1>6. ~ Speaks(m)
  BY <1>5 DEF Speaks
<1>7. WireFits'
  BY <1>1, <1>2, <1>5, <1>6, AppendFits DEF Speaks
<1>8. ToldIsKnown'
  BY <1>2, <1>3, <1>4 DEF ToldIsKnown, InTurn
<1>9. EndsOK'
  <2>1. m.to.n = agent.last /\ m.to.n \in 1..agent.last
    BY <1>2, <1>3, <1>5
  <2> QED
    BY <1>1, <1>2, <1>4, <1>5, <1>6, <2>1, AppendEnds
<1>10. ContinuesOK'
  <2>1. \A k \in 1..Len(posted) : posted[k].kind # "prompt"
    BY <1>1, <1>2 DEF ContinuesOK
  <2> QED
    BY <1>2, <2>1 DEF ContinuesOK
<1>11. ClosedOK' /\ PromptsOK' /\ InboxOK' /\ ShownIsMeant'
  BY <1>1, <1>2, <1>4 DEF ClosedOK, PromptsOK, InboxOK, ShownIsMeant
<1> QED
  BY <1>2, <1>7, <1>8, <1>9, <1>10, <1>11 DEF CallsIInv

\* The agent says more of a tool call in its turn: what it says fits what it told last.
LEMMA SpeaksCalls ==
    ASSUME AcpTypes, CallsIInv, ~ client.over, Speaking, client.open,
           NEW m \in Message, wire' = Append(wire, m), Speaks(m),
           UNCHANGED << client, tools, shown, posted, inbox, agent >>,
           m.kind = "call" => m.says = m.whole,
           m.kind = "update" => /\ calls[m.id].turn = agent.last
                                /\ mergeToolCall(calls[m.id].told, m.says) = m.whole,
           calls'[m.id].told = m.whole, calls'[m.id].turn = agent.last,
           \A c \in ToolCalls \ {m.id} : calls'[c] = calls[c]
    PROVE  CallsIInv'
<1>1. /\ ToldIsKnown /\ PromptsOK /\ InboxOK /\ EndsOK /\ ContinuesOK /\ WireFits /\ ShownIsMeant
  BY DEF CallsIInv
<1>2. InTurn /\ m.id \in ToolCalls /\ agent.last \in Nat
  BY MessageParts DEF Speaking, InTurn, AcpTypes
<1>3. WireFits'
  <2>1. CASE m.kind = "call"
    <3>1. \A known : Fits(known, m)
      BY <2>1 DEF Fits
    <3> QED
      BY <1>1, <2>1, <3>1, AppendFits
  <2>2. CASE m.kind = "update"
    <3>1. Fits(calls[m.id].told, m)
      BY <2>2 DEF Fits
    <3>2. (\A l \in 1..Len(wire) : ~ About(wire[l], m.id)) => Known(m.id) = calls[m.id].told
      BY <1>1, <1>2, <2>2 DEF ToldIsKnown
    <3>3. \A j \in 1..Len(wire) :
            About(wire[j], m.id) /\ (\A l \in j + 1..Len(wire) : ~ About(wire[l], m.id))
            => wire[j].whole = calls[m.id].told
      BY <1>1, <1>2, <2>2 DEF ToldIsKnown
    <3>4. m.kind # "call"
      BY <2>2
    <3> QED
      BY <1>1, <3>1, <3>2, <3>3, <3>4, AppendFits
  <2> QED
    BY <2>1, <2>2 DEF Speaks
<1>4. ToldIsKnown'
  <2>1. \A c \in ToolCalls : ~ About(m, c) => calls'[c] = calls[c]
    BY DEF About
  <2>2. \A c \in ToolCalls : About(m, c) => m.whole = calls'[c].told
    BY DEF About
  <2> QED
    BY <1>1, <1>2, <2>1, <2>2, AppendTold
<1>5. EndsOK'
  <2>1. ~ EndsPrompt(m)
    BY DEF Speaks, EndsPrompt
  <2> QED
    BY <1>1, <1>2, <2>1, AppendEnds
<1>6. ContinuesOK'
  <2>1. \A k \in 1..Len(posted) : posted[k].kind # "prompt"
    BY <1>1 DEF ContinuesOK, Speaking
  <2> QED
    BY <2>1 DEF ContinuesOK
<1>7. PromptsOK'
  <2>1. \A c \in ToolCalls : calls'[c].turn <= agent.last
    BY <1>1, <1>2 DEF PromptsOK
  <2> QED
    BY <1>1, <2>1 DEF PromptsOK
<1>8. ClosedOK' /\ InboxOK' /\ ShownIsMeant'
  BY <1>1 DEF ClosedOK, InboxOK, ShownIsMeant
<1> QED
  BY <1>3, <1>4, <1>5, <1>6, <1>7, <1>8 DEF CallsIInv


LEMMA AgentCalls ==
    ASSUME AcpTypes, CallsIInv, ~ client.over, Agent
    PROVE  CallsIInv'
<1>1. CASE Serves
  BY <1>1, ServesCalls
<1>2. CASE EndsTurn
  BY <1>2, EndsTurnCalls
<1>3. ASSUME NEW c \in ToolCalls, Begins(c)
      PROVE  CallsIInv'
  <2> DEFINE call == [f \in Fields |-> 1]
             q == [kind |-> "call", id |-> c, says |-> call, whole |-> call]
  <2>1. call \in Call
    BY DEF Call
  <2>2. /\ Speaking /\ client.open /\ wire' = Append(wire, q)
        /\ calls' = [calls EXCEPT ![c] = [turn |-> agent.last, told |-> call]]
        /\ UNCHANGED << client, tools, shown, posted, inbox, agent >>
    BY <1>3 DEF Begins, Says, AgentOnly
  <2> HIDE DEF call
  <2>3. /\ q \in Message /\ q.kind = "call" /\ q.id = c /\ q.says = call /\ q.whole = call
        /\ Speaks(q)
    BY <2>1 DEF Message, Speaks
  <2> HIDE DEF q
  <2>4. /\ calls'[c].told = call /\ calls'[c].turn = agent.last
        /\ \A b \in ToolCalls \ {c} : calls'[b] = calls[b]
    BY <2>2 DEF AcpTypes
  <2> QED
    BY <2>2, <2>3, <2>4, SpeaksCalls
<1>4. ASSUME NEW c \in ToolCalls, NEW f \in Fields, Updates(c, f)
      PROVE  CallsIInv'
  <2> DEFINE upd == [Empty EXCEPT ![f] = 2]
             whole == mergeToolCall(calls[c].told, upd)
             q == [kind |-> "update", id |-> c, says |-> upd, whole |-> whole]
  <2>1. upd \in Call /\ calls[c].told \in Call
    BY DEF Call, Empty, AcpTypes
  <2>2. /\ Speaking /\ client.open /\ wire' = Append(wire, q) /\ calls[c].turn = agent.last
        /\ calls' = [calls EXCEPT ![c].told = whole]
        /\ UNCHANGED << client, tools, shown, posted, inbox, agent >>
    BY <1>4 DEF Updates, Says, AgentOnly
  <2> HIDE DEF upd
  <2>3. whole \in Call
    BY <2>1, Merged
  <2>4. mergeToolCall(calls[c].told, upd) = whole
    OBVIOUS
  <2> HIDE DEF whole
  <2>5. /\ q \in Message /\ q.kind = "update" /\ q.id = c /\ q.says = upd /\ q.whole = whole
        /\ Speaks(q)
    BY <2>1, <2>3 DEF Message, Speaks
  <2> HIDE DEF q
  <2>6. /\ calls'[c].told = whole /\ calls'[c].turn = agent.last
        /\ \A b \in ToolCalls \ {c} : calls'[b] = calls[b]
    BY <2>2 DEF AcpTypes
  <2> QED
    BY <2>2, <2>4, <2>5, <2>6, SpeaksCalls
<1>5. ASSUME NEW a \in Asks, AnyAsk(a)
      PROVE  CallsIInv'
  <2>1. PICK kind \in Kinds, arg \in Nat : AskFor(a, kind, arg)
    BY <1>5, TerminalAssumption DEF AnyAsk, Kinds
  <2>2. PICK m \in Message : wire' = Append(wire, m) /\ m.kind = "request"
    BY <2>1 DEF AskFor, Says, Message
  <2>3. ~ Speaks(m) /\ ~ EndsPrompt(m) /\ client.open
        /\ UNCHANGED << client, tools, shown, posted, inbox, agent, calls >>
    BY <2>1, <2>2 DEF Speaks, EndsPrompt, AskFor, AgentOnly, Says
  <2>4. InboxOK'
    BY <2>3 DEF CallsIInv, InboxOK
  <2> QED
    BY <2>2, <2>3, <2>4, NeutralSaid
<1> QED
  BY <1>1, <1>2, <1>3, <1>4, <1>5 DEF Agent

LEMMA CallsInit == AcpInit => CallsIInv
<1> SUFFICES ASSUME AcpInit PROVE CallsIInv
  OBVIOUS
<1>1. wire = << >> /\ posted = << >> /\ inbox = << >>
  BY DEF AcpInit
<1>2. ClosedOK /\ WireFits /\ InboxOK /\ EndsOK /\ ContinuesOK
  BY <1>1 DEF ClosedOK, WireFits, WholeCalls, FirstFits, NextFits, InboxOK, EndsOK, ContinuesOK
<1>3. ToldIsKnown /\ PromptsOK /\ ShownIsMeant /\ ~ client.open
  BY DEF AcpInit, ToldIsKnown, PromptsOK, ShownIsMeant
<1> QED
  BY <1>2, <1>3 DEF CallsIInv

LEMMA CallsStep == AcpTypes /\ AcpTypes' /\ CallsIInv /\ [AcpNext]_vars => CallsIInv'
<1> SUFFICES ASSUME AcpTypes, AcpTypes', CallsIInv, [AcpNext]_vars PROVE CallsIInv'
  OBVIOUS
<1>1. CASE UNCHANGED vars
  BY <1>1, CallsStutter DEF vars, acpVars
<1>2. CASE AcpNext /\ client.over
  BY <1>2, OverStays
<1>3. CASE AcpNext /\ ~ client.over
  <2>1. CASE connectAndInitialize \/ prompt \/ PromptTimesOut
             \/ \E kind \in {"new", "load"} : OpenSession(kind)
    BY <1>3, <2>1, HostCalls
  <2>2. CASE shutdown
    <3>1. client'.over /\ ~ client'.open
      BY <2>2 DEF shutdown, AcpTypes, ClientType
    <3> QED
      BY <2>2, <3>1, OverStep DEF shutdown
  <2>3. CASE DestroyTerminals \/ AcpProcess \/ (\E a \in Asks : WaitEnds(a) \/ ProviderAnswers(a))
             \/ \E k \in Providers, present \in BOOLEAN : setProvider(k, present)
    <3>1. UNCHANGED << client, tools, shown, wire, posted, inbox, agent, calls >>
      BY <2>3 DEF DestroyTerminals, AcpProcess, acpVars, WaitEnds, ProviderAnswers, setProvider,
                  HostOnly
    <3> QED
      BY <3>1, CallsStutter
  <2>4. CASE Receive
    BY <1>3, <2>4, TakeResponseCalls, TakeUpdateCalls, TakeRequestCalls DEF Receive
  <2>5. CASE Continue
    BY <1>3, <2>5, ContinueCalls
  <2>6. CASE Agent
    BY <1>3, <2>6, AgentCalls
  <2> QED
    BY <1>3, <2>1, <2>2, <2>3, <2>4, <2>5, <2>6 DEF AcpNext, Host, Serving
<1> QED
  BY <1>1, <1>2, <1>3

\* The tool calls, for ever: what the agent tells of a call fits what precedes it on the
\* wire, and the continuation of a prompt finds all that was said in its turn heard.
THEOREM CallsInvariant == AcpSpec => []CallsIInv
<1>1. AcpTermIInv => AcpTypes
  BY DEF AcpTermIInv
<1>2. AcpSpec => [](AcpTypes)
  BY <1>1, TerminalsInvariant, PTL
<1> QED
  BY <1>2, CallsInit, CallsStep, PTL DEF AcpSpec

\* A tool call that is shown is all the agent has told of it, whatever response is
\* handled in between and whenever its continuation runs (handleSessionUpdate,
\* mergeToolCall, newSession, prompt).
THEOREM ShownAsMeant == AcpSpec => []ShownIsMeant
<1>1. CallsIInv => ShownIsMeant
  BY DEF CallsIInv
<1> QED
  BY <1>1, CallsInvariant, PTL

=============================================================================
