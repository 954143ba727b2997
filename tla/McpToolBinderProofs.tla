------------------------- MODULE McpToolBinderProofs -------------------------
(***************************************************************************)
(* The binder's reconnects are bounded and never refused for nothing, and  *)
(* when nothing is under way the registry is fresh, for any number of      *)
(* chains, versions, lost connections and timeouts, and for either kind of *)
(* transport.                                                              *)
(***************************************************************************)
EXTENDS McpToolBinder, FiniteSetTheorems, SequenceTheorems, TLAPS

Chains == Cardinality(Running(Inits))

ReconnectTypes ==
    /\ timers \in Nat
    /\ {pending, stopping, started} \subseteq BOOLEAN
    /\ stage \in [Tasks -> Stages]

\* What bounds the chains: a second one exists only while reconnectPending is set.
ReconnectIInv ==
    /\ ReconnectTypes
    /\ open => started
    /\ ~started => ~pending /\ timers = 0 /\ Running(Inits) = {}
    /\ PendingIsHonest
    /\ AtMostTwoChains
    /\ ~pending => timers + Chains <= 1

-----------------------------------------------------------------------------
(* What is under way *)

\* A message that belongs to a task, and the stage in which the task awaits it.
Personal(m) == m.kind \in {"initialize", "welcome", "list"}
Awaits(m) == IF m.kind = "list" THEN "listing" ELSE "handshake"

Msgs ==
    [kind : {"void", "changed"}]
        \cup [kind : {"initialize", "welcome", "list"}, task : Tasks]
        \cup [kind : {"list"}, task : Tasks, version : Nat]

\* Each message finds its task waiting for it.
Awaited(q, stg, kinds) ==
    \A k \in 1..Len(q) :
        /\ q[k].kind \in kinds
        /\ Personal(q[k]) => q[k].task \in Tasks /\ stg[q[k].task] = Awaits(q[k])
        /\ q[k].kind \in {"initialize", "welcome"} => q[k].task \in Inits

\* No task has two messages under way, in one queue or in two.
OneEach(q) ==
    \A j, k \in 1..Len(q) :
        Personal(q[j]) /\ Personal(q[k]) /\ q[j].task = q[k].task => j = k
Apart(p, q) ==
    \A j \in 1..Len(p), k \in 1..Len(q) :
        Personal(p[j]) /\ Personal(q[k]) => p[j].task # q[k].task

\* No message of t is in q.
Clear(q, t) == \A k \in 1..Len(q) : Personal(q[k]) => q[k].task # t

\* The tasks of p have a continuation that is due, and each of them one.
Due == {"greeted", "ready", "listed", "failing"}
AreDue(p, stg) == \A k \in 1..Len(p) : p[k] \in Tasks /\ stg[p[k]] \in Due
Distinct(p) == \A j, k \in 1..Len(p) : p[j] = p[k] => j = k

\* What is under way and the stages of the tasks belong together.
QueuesOK ==
    /\ toServer \in Seq(Msgs) /\ toClient \in Seq(Msgs)
    /\ Awaited(toServer, stage, {"initialize", "list", "void"})
    /\ Awaited(toClient, stage, {"welcome", "list", "changed", "void"})
    /\ OneEach(toServer) /\ OneEach(toClient) /\ Apart(toServer, toClient)
DuesOK ==
    /\ posted \in Seq(Tasks)
    /\ AreDue(posted, stage) /\ Distinct(posted)

TrafficIInv ==
    /\ QueuesOK /\ DuesOK
    /\ ~open => toServer = << >> /\ toClient = << >>
    /\ DOMAIN got = Tasks
    /\ \A t \in Syncs : stage[t] \notin {"handshake", "greeted", "ready"}
    /\ ~started => \A t \in Tasks : stage[t] = "idle"
    /\ binding \in {"none", "server", "client", "plain"}
    /\ binding = "plain" => timers = 0 /\ Running(Inits) = {}

LEMMA HeadAndTail ==
    ASSUME NEW S, NEW s \in Seq(S), s # <<>>
    PROVE  /\ Len(s) \in Nat \ {0} /\ Head(s) = s[1] /\ Head(s) \in S
           /\ Tail(s) \in Seq(S) /\ Len(Tail(s)) = Len(s) - 1
           /\ \A k \in 1..Len(s) - 1 : Tail(s)[k] = s[k + 1]
OBVIOUS

LEMMA Appended ==
    ASSUME NEW S, NEW s \in Seq(S), NEW e \in S
    PROVE  /\ Len(s) \in Nat /\ Append(s, e) \in Seq(S) /\ Len(Append(s, e)) = Len(s) + 1
           /\ \A k \in 1..Len(s) : Append(s, e)[k] = s[k]
           /\ Append(s, e)[Len(s) + 1] = e
OBVIOUS

\* p is q, or the tail of q, with some of its messages voided.
Within(p, q) ==
    /\ p \in Seq(Msgs) /\ q \in Seq(Msgs)
    /\ \E d \in {0, 1} : \A k \in 1..Len(p) :
          /\ k + d \in 1..Len(q)
          /\ p[k] = q[k + d] \/ p[k].kind = "void"

\* What holds of every message of a queue, or of every two, holds within it.
LEMMA WithinOK ==
    ASSUME NEW p, NEW q, Within(p, q), NEW stg, NEW kinds, "void" \in kinds
    PROVE  /\ Awaited(q, stg, kinds) => Awaited(p, stg, kinds)
           /\ OneEach(q) => OneEach(p)
           /\ \A r : Apart(q, r) => Apart(p, r)
           /\ \A r : Apart(r, q) => Apart(r, p)
           /\ \A t : Clear(q, t) => Clear(p, t)
<1>1. PICK d \in {0, 1} : \A k \in 1..Len(p) :
          k + d \in 1..Len(q) /\ (p[k] = q[k + d] \/ p[k].kind = "void")
  BY DEF Within
<1>2. \A k \in 1..Len(p) : Personal(p[k]) => p[k] = q[k + d]
  BY <1>1 DEF Personal
<1>3. Len(p) \in Nat /\ Len(q) \in Nat
  BY LenProperties DEF Within
<1>4. Awaited(q, stg, kinds) => Awaited(p, stg, kinds)
  <2> SUFFICES ASSUME Awaited(q, stg, kinds), NEW k \in 1..Len(p)
               PROVE  /\ p[k].kind \in kinds
                      /\ Personal(p[k]) => p[k].task \in Tasks /\ stg[p[k].task] = Awaits(p[k])
                      /\ p[k].kind \in {"initialize", "welcome"} => p[k].task \in Inits
    BY DEF Awaited
  <2>1. CASE p[k] = q[k + d]
    BY <1>1, <2>1 DEF Awaited
  <2>2. CASE p[k].kind = "void"
    BY <2>2 DEF Personal
  <2> QED
    BY <1>1, <2>1, <2>2
<1>5. OneEach(q) => OneEach(p)
  <2> SUFFICES ASSUME OneEach(q), NEW j \in 1..Len(p), NEW k \in 1..Len(p),
                      Personal(p[j]), Personal(p[k]), p[j].task = p[k].task
               PROVE  j = k
    BY DEF OneEach
  <2>1. p[j] = q[j + d] /\ p[k] = q[k + d] /\ j + d \in 1..Len(q) /\ k + d \in 1..Len(q)
    BY <1>1, <1>2
  <2>2. j + d = k + d
    BY <2>1 DEF OneEach
  <2> QED
    BY <2>2, <1>3
<1>6. \A r : Apart(q, r) => Apart(p, r)
  BY <1>1, <1>2 DEF Apart
<1>7. \A r : Apart(r, q) => Apart(r, p)
  BY <1>1, <1>2 DEF Apart
<1>8. \A t : Clear(q, t) => Clear(p, t)
  BY <1>1, <1>2 DEF Clear
<1> QED
  BY <1>4, <1>5, <1>6, <1>7, <1>8

LEMMA WithinSame ==
    ASSUME NEW q \in Seq(Msgs)
    PROVE  Within(q, q)
<1>1. \A k \in 1..Len(q) : k + 0 \in 1..Len(q) /\ q[k] = q[k + 0]
  BY LenProperties
<1> QED
  BY <1>1 DEF Within

LEMMA WithinTail ==
    ASSUME NEW q \in Seq(Msgs), q # << >>
    PROVE  Within(Tail(q), q)
<1>1. Tail(q) \in Seq(Msgs) /\ Len(q) \in Nat /\ Len(Tail(q)) = Len(q) - 1
  BY HeadAndTail
<1>2. \A k \in 1..Len(Tail(q)) : k + 1 \in 1..Len(q) /\ Tail(q)[k] = q[k + 1]
  BY <1>1, HeadAndTail
<1> QED
  BY <1>1, <1>2 DEF Within

\* Voiding the messages of a task clears the queue of them and changes nothing else.
LEMMA WithinVoided ==
    ASSUME NEW q \in Seq(Msgs), NEW t
    PROVE  /\ Voided(q, t) \in Seq(Msgs) /\ Len(Voided(q, t)) = Len(q)
           /\ \A k \in 1..Len(q) : IF Personal(q[k]) /\ q[k].task = t
                                   THEN Voided(q, t)[k].kind = "void"
                                   ELSE Voided(q, t)[k] = q[k]
           /\ Within(Voided(q, t), q) /\ Clear(Voided(q, t), t)
<1> DEFINE v == Voided(q, t)
<1>1. Len(q) \in Nat /\ DOMAIN q = 1..Len(q) /\ \A k \in 1..Len(q) : q[k] \in Msgs
  BY LenProperties
<1>2. /\ v = [k \in 1..Len(q) |-> v[k]]
      /\ \A k \in 1..Len(q) : v[k] = IF Personal(q[k]) /\ q[k].task = t
                                     THEN [kind |-> "void"] ELSE q[k]
  BY <1>1 DEF Voided, Personal
<1>3. [kind |-> "void"] \in Msgs
  BY DEF Msgs
<1>4. \A k \in 1..Len(q) : v[k] \in Msgs
  BY <1>1, <1>2, <1>3
<1> HIDE DEF v
<1>5. v \in [1..Len(q) -> Msgs]
  BY <1>2, <1>4
<1>6. v \in Seq(Msgs) /\ Len(v) = Len(q)
  <2>1. v \in Seq(Msgs)
    BY <1>1, <1>5, SeqDef
  <2> QED
    BY <1>1, <1>5, <2>1, LenProperties
<1>7. \A k \in 1..Len(q) : IF Personal(q[k]) /\ q[k].task = t
                           THEN v[k].kind = "void" ELSE v[k] = q[k]
  BY <1>2
<1>8. Within(v, q)
  <2>1. \A k \in 1..Len(v) : k + 0 \in 1..Len(q) /\ (v[k] = q[k + 0] \/ v[k].kind = "void")
    BY <1>1, <1>6, <1>7
  <2> QED
    BY <1>6, <2>1 DEF Within
<1>9. Clear(v, t)
  BY <1>6, <1>7 DEF Clear, Personal
<1> QED
  BY <1>6, <1>7, <1>8, <1>9 DEF v

\* A message of a task that has none in the queue goes to its end.
LEMMA AppendOK ==
    ASSUME NEW q \in Seq(Msgs), NEW m \in Msgs, NEW stg, NEW kinds
    PROVE  /\ Append(q, m) \in Seq(Msgs)
           /\ /\ Awaited(q, stg, kinds) /\ m.kind \in kinds
              /\ Personal(m) => m.task \in Tasks /\ stg[m.task] = Awaits(m)
              /\ m.kind \in {"initialize", "welcome"} => m.task \in Inits
              => Awaited(Append(q, m), stg, kinds)
           /\ OneEach(q) /\ (Personal(m) => Clear(q, m.task)) => OneEach(Append(q, m))
           /\ \A r : Apart(q, r) /\ (Personal(m) => Clear(r, m.task)) => Apart(Append(q, m), r)
           /\ \A r : Apart(r, q) /\ (Personal(m) => Clear(r, m.task)) => Apart(r, Append(q, m))
<1> DEFINE p == Append(q, m)
<1>1. /\ Len(q) \in Nat /\ p \in Seq(Msgs) /\ Len(p) = Len(q) + 1
      /\ \A k \in 1..Len(q) : p[k] = q[k]
      /\ p[Len(q) + 1] = m
  BY Appended
<1> HIDE DEF p
<1>2. \A k \in 1..Len(p) : (k \in 1..Len(q) /\ p[k] = q[k]) \/ (k = Len(q) + 1 /\ p[k] = m)
  BY <1>1
<1>3. ASSUME Awaited(q, stg, kinds), m.kind \in kinds,
             Personal(m) => m.task \in Tasks /\ stg[m.task] = Awaits(m),
             m.kind \in {"initialize", "welcome"} => m.task \in Inits
      PROVE  Awaited(p, stg, kinds)
  BY <1>2, <1>3 DEF Awaited
<1>4. ASSUME OneEach(q), Personal(m) => Clear(q, m.task)
      PROVE  OneEach(p)
  BY <1>2, <1>4 DEF OneEach, Clear
<1>5. ASSUME NEW r, Apart(q, r), Personal(m) => Clear(r, m.task)
      PROVE  Apart(p, r)
  BY <1>2, <1>5 DEF Apart, Clear
<1>6. ASSUME NEW r, Apart(r, q), Personal(m) => Clear(r, m.task)
      PROVE  Apart(r, p)
  BY <1>2, <1>6 DEF Apart, Clear
<1> QED
  BY <1>1, <1>3, <1>4, <1>5, <1>6 DEF p

\* A task that waits for nothing has no message, one that is not due is not posted.
LEMMA ClearByStage ==
    ASSUME NEW q, NEW stg, NEW kinds, Awaited(q, stg, kinds), NEW t,
           stg[t] \notin {"handshake", "listing"}
    PROVE  Clear(q, t)
BY DEF Awaited, Clear, Awaits

\* A step of t leaves the other tasks' messages awaited and their continuations due.
LEMMA AwaitedMoves ==
    ASSUME NEW q, NEW stg, NEW stg2, NEW kinds, NEW t, Awaited(q, stg, kinds), Clear(q, t),
           \A x \in Tasks : x # t => stg2[x] = stg[x]
    PROVE  Awaited(q, stg2, kinds)
BY DEF Awaited, Clear

LEMMA DueMoves ==
    ASSUME NEW p, NEW stg, NEW stg2, NEW t, AreDue(p, stg), stg[t] \notin Due \/ stg2[t] \in Due,
           \A x \in Tasks : x # t => stg2[x] = stg[x]
    PROVE  AreDue(p, stg2)
BY DEF AreDue

-----------------------------------------------------------------------------
(* Counting chains *)

\* There are finitely many chains.
LEMMA ChainsFinite ==
    /\ IsFiniteSet(Running(Inits)) /\ Chains \in Nat
    /\ Running(Inits) = {} <=> Chains = 0
<1>1. IsFiniteSet(Inits) /\ Running(Inits) \subseteq Inits
  BY BinderAssumption DEF Running
<1>2. IsFiniteSet(Running(Inits))
  BY <1>1, FS_Subset
<1> QED
  BY <1>2, FS_CardinalityType, FS_EmptySet DEF Chains

\* A step that moves chains without starting or ending one.
LEMMA ChainsSame ==
    ASSUME \A t \in Inits : stage'[t] = "idle" <=> stage[t] = "idle"
    PROVE  Running(Inits)' = Running(Inits) /\ Chains' = Chains
<1>1. Running(Inits)' = Running(Inits)
  BY DEF Running
<1> QED
  BY <1>1 DEF Chains

\* A step that starts one.
LEMMA ChainStarts ==
    ASSUME NEW t \in Inits, stage[t] = "idle", NEW s, s # "idle", stage \in [Tasks -> Stages],
           stage' = [stage EXCEPT ![t] = s]
    PROVE  Running(Inits)' # {} /\ Chains' = Chains + 1
<1>1. t \in Tasks /\ \A x \in Inits : x \in Tasks
  BY DEF Tasks
<1>2. \A x \in Inits : stage'[x] = IF x = t THEN s ELSE stage[x]
  BY <1>1
<1>3. Running(Inits)' = Running(Inits) \cup {t} /\ t \notin Running(Inits)
  BY <1>2 DEF Running
<1>4. Cardinality(Running(Inits) \cup {t}) = Cardinality(Running(Inits)) + 1
  BY <1>3, ChainsFinite, FS_AddElement
<1> QED
  BY <1>3, <1>4 DEF Chains

\* A step that ends one.
LEMMA ChainEnds ==
    ASSUME NEW t \in Inits, stage[t] # "idle", stage \in [Tasks -> Stages],
           stage' = [stage EXCEPT ![t] = "idle"]
    PROVE  Chains' = Chains - 1
<1>1. t \in Tasks /\ \A x \in Inits : x \in Tasks
  BY DEF Tasks
<1>2. \A x \in Inits : stage'[x] = IF x = t THEN "idle" ELSE stage[x]
  BY <1>1
<1>3. Running(Inits)' = Running(Inits) \ {t} /\ t \in Running(Inits)
  BY <1>2 DEF Running
<1>4. Cardinality(Running(Inits) \ {t}) = Cardinality(Running(Inits)) - 1
  BY <1>3, ChainsFinite, FS_RemoveElement
<1> QED
  BY <1>3, <1>4 DEF Chains

\* A step that moves one task on.
LEMMA StageMoves ==
    ASSUME NEW t, NEW s \in Stages, s # "idle", stage \in [Tasks -> Stages],
           t \in Inits => stage[t] # "idle",
           stage' = [stage EXCEPT ![t] = s]
    PROVE  /\ stage' \in [Tasks -> Stages]
           /\ \A x \in Inits : stage'[x] = "idle" <=> stage[x] = "idle"
<1>1. \A x \in Inits : x \in Tasks
  BY DEF Tasks
<1>2. \A x \in Tasks : stage'[x] = IF x = t THEN s ELSE stage[x]
  OBVIOUS
<1> QED
  BY <1>1, <1>2

-----------------------------------------------------------------------------
(* The parts the actions share *)

\* scheduleReconnect starts a timer only when it sets reconnectPending.
LEMMA ScheduleCounts ==
    ASSUME NEW p \in BOOLEAN, NEW n \in Nat, stopping \in BOOLEAN, Schedule(p, n)
    PROVE  /\ pending' \in BOOLEAN /\ timers' \in Nat
           /\ \/ pending' = p /\ timers' = n
              \/ p = FALSE /\ pending' = TRUE /\ timers' = n + 1
<1>1. CASE p = TRUE
  BY <1>1 DEF Schedule
<1>2. CASE p = FALSE /\ stopping = TRUE
  BY <1>2 DEF Schedule
<1>3. CASE p = FALSE /\ stopping = FALSE
  <2>1. pending' = TRUE
    BY <1>3, Zenon DEF Schedule
  <2>2. timers' = n + 1
    BY <1>3, Zenon DEF Schedule
  <2>3. timers' \in Nat
    BY <2>2
  <2> QED
    BY <1>3, <2>1, <2>2, <2>3, Zenon
<1>4. p = TRUE \/ (p = FALSE /\ stopping = TRUE) \/ (p = FALSE /\ stopping = FALSE)
  OBVIOUS
<1> QED
  BY <1>1, <1>2, <1>3, <1>4, Zenon

\* A disconnect adds a timer only when it sets reconnectPending.
LEMMA DisconnectedCounts ==
    ASSUME NEW b, NEW n \in Nat, stopping \in BOOLEAN, pending \in BOOLEAN,
           Disconnected(b, n)
    PROVE  /\ pending' \in BOOLEAN /\ timers' \in Nat
           /\ \/ pending' = pending /\ timers' = n
              \/ pending = FALSE /\ pending' = TRUE /\ timers' = n + 1
<1>1. CASE Reconnects(b)
  BY <1>1, ScheduleCounts DEF Disconnected
<1>2. CASE ~Reconnects(b)
  BY <1>2 DEF Disconnected
<1> QED
  BY <1>1, <1>2

\* initializeClient starts one chain, and a failing start at most one timer beside it.
LEMMA InitializeCounts ==
    ASSUME NEW t \in Inits, stage[t] = "idle", NEW b, NEW n \in Nat,
           ReconnectTypes, Initialize(t, b, n)
    PROVE  /\ stage' \in [Tasks -> Stages]
           /\ Running(Inits)' # {} /\ Chains' = Chains + 1
           /\ pending' \in BOOLEAN /\ timers' \in Nat
           /\ \/ pending' = pending /\ timers' = n
              \/ pending = FALSE /\ pending' = TRUE /\ timers' = n + 1
           /\ started' \in BOOLEAN /\ started' /\ (open' => started')
<1>1. PICK s \in {"handshake", "failing"} : stage' = [stage EXCEPT ![t] = s]
  BY DEF Initialize, Enters, EntersAndPosts
<1>2. stage' \in [Tasks -> Stages]
  BY <1>1 DEF ReconnectTypes, Stages
<1>3. Running(Inits)' # {} /\ Chains' = Chains + 1
  BY <1>1, ChainStarts DEF ReconnectTypes
<1>4. started' \in BOOLEAN /\ started' /\ (open' => started')
  <2>1. CASE open' = TRUE /\ started' = TRUE
    BY <2>1
  <2>2. CASE ~open /\ started' = TRUE /\ open' = open
    BY <2>2
  <2>3. CASE ~open /\ started /\ UNCHANGED net
    BY <2>3 DEF net, ReconnectTypes
  <2> QED
    BY <2>1, <2>2, <2>3 DEF Initialize
<1>5. /\ pending' \in BOOLEAN /\ timers' \in Nat
      /\ \/ pending' = pending /\ timers' = n
         \/ pending = FALSE /\ pending' = TRUE /\ timers' = n + 1
  <2>1. CASE Disconnected(b, n)
    BY <2>1, DisconnectedCounts DEF ReconnectTypes
  <2>2. CASE timers' = n /\ pending' = pending
    BY <2>2 DEF ReconnectTypes
  <2> QED
    BY <2>1, <2>2 DEF Initialize
<1> QED
  BY <1>2, <1>3, <1>4, <1>5

\* A step of a chain that neither starts nor ends one, and leaves the flag alone.
LEMMA MovesOn ==
    ASSUME ReconnectIInv, stage' \in [Tasks -> Stages],
           \A t \in Inits : stage'[t] = "idle" <=> stage[t] = "idle",
           UNCHANGED <<started, pending, timers, stopping>>,
           open' => open, binding' \in {binding, "none"}
    PROVE  ReconnectIInv'
<1>1. Running(Inits)' = Running(Inits) /\ Chains' = Chains
  BY ChainsSame
<1>2. ReconnectTypes'
  BY DEF ReconnectIInv, ReconnectTypes
<1>3. PendingIsHonest'
  BY <1>1 DEF ReconnectIInv, PendingIsHonest, Bound
<1>4. AtMostTwoChains'
  BY <1>1 DEF ReconnectIInv, AtMostTwoChains, Chains
<1> QED
  BY <1>1, <1>2, <1>3, <1>4 DEF ReconnectIInv

\* The same for a step that does not touch the chains at all.
LEMMA NothingMoves ==
    ASSUME ReconnectIInv, UNCHANGED <<stage, started, open, pending, timers, stopping>>,
           binding' \in {binding, "none"}
    PROVE  ReconnectIInv'
<1>1. stage' \in [Tasks -> Stages]
  BY DEF ReconnectIInv, ReconnectTypes
<1> QED
  BY <1>1, MovesOn

-----------------------------------------------------------------------------
(* What is under way, step by step *)

\* A step of one task: what becomes of the queues, if it sends nothing.
LEMMA QueuesMove ==
    ASSUME QueuesOK, NEW t, \A x \in Tasks : x # t => stage'[x] = stage[x],
           Within(toServer', toServer), Within(toClient', toClient),
           Clear(toServer', t), Clear(toClient', t)
    PROVE  QueuesOK'
<1>1. /\ Awaited(toServer', stage, {"initialize", "list", "void"})
      /\ Awaited(toClient', stage, {"welcome", "list", "changed", "void"})
      /\ OneEach(toServer') /\ OneEach(toClient')
  BY WithinOK DEF QueuesOK
<1>2. Apart(toServer', toClient')
  <2>1. Apart(toServer', toClient)
    BY WithinOK DEF QueuesOK
  <2> QED
    BY <2>1, WithinOK
<1>3. /\ Awaited(toServer', stage', {"initialize", "list", "void"})
      /\ Awaited(toClient', stage', {"welcome", "list", "changed", "void"})
  BY <1>1, AwaitedMoves
<1>4. toServer' \in Seq(Msgs) /\ toClient' \in Seq(Msgs)
  BY DEF Within
<1> QED
  BY <1>1, <1>2, <1>3, <1>4 DEF QueuesOK

\* And if it sends a request.
LEMMA QueuesSend ==
    ASSUME QueuesOK, NEW t \in Tasks, \A x \in Tasks : x # t => stage'[x] = stage[x],
           Clear(toServer, t), Clear(toClient', t), Within(toClient', toClient),
           NEW m \in Msgs, m.kind \in {"initialize", "list"}, m.task = t,
           m.kind = "initialize" => t \in Inits,
           stage'[t] = Awaits(m), toServer' = Append(toServer, m)
    PROVE  QueuesOK'
<1>1. /\ Awaited(toServer, stage', {"initialize", "list", "void"})
      /\ OneEach(toServer) /\ toServer \in Seq(Msgs)
  BY AwaitedMoves DEF QueuesOK
<1>2. /\ Awaited(toClient', stage', {"welcome", "list", "changed", "void"})
      /\ OneEach(toClient') /\ Apart(toServer, toClient') /\ toClient' \in Seq(Msgs)
  <2>1. /\ Awaited(toClient', stage, {"welcome", "list", "changed", "void"})
        /\ OneEach(toClient')
    BY WithinOK DEF QueuesOK
  <2>2. Apart(toServer, toClient')
    BY WithinOK DEF QueuesOK
  <2> QED
    BY <2>1, <2>2, AwaitedMoves DEF Within
<1>3. /\ toServer' \in Seq(Msgs)
      /\ Awaited(toServer', stage', {"initialize", "list", "void"})
      /\ OneEach(toServer') /\ Apart(toServer', toClient')
  BY <1>1, <1>2, AppendOK DEF Personal
<1> QED
  BY <1>2, <1>3 DEF QueuesOK

LEMMA DuesSame ==
    ASSUME DuesOK, NEW t, stage[t] \notin Due \/ stage'[t] \in Due,
           \A x \in Tasks : x # t => stage'[x] = stage[x], posted' = posted
    PROVE  DuesOK'
<1>1. AreDue(posted, stage')
  BY DueMoves DEF DuesOK
<1> QED
  BY <1>1 DEF DuesOK

\* A continuation of t becomes due.
LEMMA DuesAppend ==
    ASSUME NEW p \in Seq(Tasks), AreDue(p, stage), Distinct(p), NEW t \in Tasks,
           \A k \in 1..Len(p) : p[k] # t,
           stage'[t] \in Due, \A x \in Tasks : x # t => stage'[x] = stage[x],
           posted' = Append(p, t)
    PROVE  DuesOK'
<1>1. /\ Len(p) \in Nat /\ posted' \in Seq(Tasks) /\ Len(posted') = Len(p) + 1
      /\ \A k \in 1..Len(p) : posted'[k] = p[k]
      /\ posted'[Len(p) + 1] = t
  BY Appended
<1>2. \A k \in 1..Len(posted') : \/ k \in 1..Len(p) /\ posted'[k] = p[k]
                                 \/ k = Len(p) + 1 /\ posted'[k] = t
  BY <1>1
<1>3. AreDue(posted', stage')
  BY <1>2 DEF AreDue
<1>4. Distinct(posted')
  BY <1>2 DEF Distinct
<1> QED
  BY <1>1, <1>3, <1>4 DEF DuesOK

\* What is left when the continuation of t has run.
LEMMA DuesLeft ==
    ASSUME DuesOK, NEW t, IsNext(t)
    PROVE  /\ Tail(posted) \in Seq(Tasks) /\ t \in Tasks
           /\ Len(posted) \in Nat /\ Len(Tail(posted)) = Len(posted) - 1
           /\ posted[1] = t /\ \A k \in 1..Len(Tail(posted)) : Tail(posted)[k] = posted[k + 1]
           /\ AreDue(Tail(posted), stage) /\ Distinct(Tail(posted))
           /\ \A k \in 1..Len(Tail(posted)) : Tail(posted)[k] # t
<1>1. /\ posted # << >> /\ Len(posted) \in Nat \ {0} /\ posted[1] = t /\ t \in Tasks
      /\ Tail(posted) \in Seq(Tasks) /\ Len(Tail(posted)) = Len(posted) - 1
      /\ \A k \in 1..Len(Tail(posted)) : Tail(posted)[k] = posted[k + 1]
  BY HeadAndTail DEF DuesOK, IsNext
<1>2. \A k \in 1..Len(Tail(posted)) : k + 1 \in 1..Len(posted) /\ k + 1 # 1 /\ k \in Nat
  BY <1>1
<1>3. 1 \in 1..Len(posted)
  BY <1>1
<1>4. AreDue(Tail(posted), stage)
  BY <1>1, <1>2 DEF DuesOK, AreDue
<1>5. Distinct(Tail(posted))
  <2> SUFFICES ASSUME NEW j \in 1..Len(Tail(posted)), NEW k \in 1..Len(Tail(posted)),
                      Tail(posted)[j] = Tail(posted)[k]
               PROVE  j = k
    BY DEF Distinct
  <2>1. posted[j + 1] = posted[k + 1] /\ j + 1 \in 1..Len(posted) /\ k + 1 \in 1..Len(posted)
    BY <1>1, <1>2
  <2>2. j + 1 = k + 1
    BY <2>1 DEF DuesOK, Distinct
  <2> QED
    BY <2>2, <1>2
<1>6. \A k \in 1..Len(Tail(posted)) : Tail(posted)[k] # t
  BY <1>1, <1>2, <1>3 DEF DuesOK, Distinct
<1> QED
  BY <1>1, <1>4, <1>5, <1>6

LEMMA DuesTail ==
    ASSUME DuesOK, NEW t, IsNext(t), \A x \in Tasks : x # t => stage'[x] = stage[x],
           posted' = Tail(posted)
    PROVE  DuesOK'
<1>1. /\ Tail(posted) \in Seq(Tasks) /\ AreDue(Tail(posted), stage) /\ Distinct(Tail(posted))
      /\ \A k \in 1..Len(Tail(posted)) : Tail(posted)[k] # t
  BY DuesLeft
<1>2. AreDue(Tail(posted), stage')
  BY <1>1 DEF AreDue
<1> QED
  BY <1>1, <1>2 DEF DuesOK

\* The rest of the invariant, when a task goes to stage s.
LEMMA TaskMoves ==
    ASSUME TrafficIInv, ReconnectTypes, NEW t \in Tasks, NEW s, NEW v, Enters(t, s, v),
           t \in Syncs => s \notin {"handshake", "greeted", "ready"},
           QueuesOK', DuesOK', started',
           ~open' => toServer' = << >> /\ toClient' = << >>,
           binding' \in {"none", "server", "client", "plain"},
           binding' = "plain" => timers' = 0 /\ Running(Inits)' = {}
    PROVE  TrafficIInv'
<1>1. \A x \in Tasks : stage'[x] = IF x = t THEN s ELSE stage[x]
  BY DEF Enters, ReconnectTypes
<1>2. DOMAIN got' = Tasks
  BY DEF Enters, TrafficIInv
<1>3. \A x \in Syncs : stage'[x] \notin {"handshake", "greeted", "ready"}
  BY <1>1 DEF Tasks, TrafficIInv
<1> QED
  BY <1>2, <1>3 DEF TrafficIInv

\* An empty queue has nothing in it.
LEMMA EmptyQueue ==
    ASSUME NEW stg, NEW kinds, NEW q
    PROVE  /\ << >> \in Seq(Msgs) /\ Awaited(<< >>, stg, kinds) /\ OneEach(<< >>)
           /\ Apart(<< >>, q) /\ Apart(q, << >>) /\ \A t : Clear(<< >>, t)
<1>1. << >> \in Seq(Msgs) /\ Len(<< >>) = 0
  BY EmptySeq
<1>2. 1..Len(<< >>) = {}
  BY <1>1
<1> QED
  BY <1>1, <1>2 DEF Awaited, OneEach, Apart, Clear

\* A task that waits for nothing and has nothing due is in no queue.
LEMMA FreeOfTraffic ==
    ASSUME QueuesOK, NEW t, stage[t] \notin {"handshake", "listing"}
    PROVE  Clear(toServer, t) /\ Clear(toClient, t)
BY ClearByStage DEF QueuesOK

LEMMA RequestIsMsg ==
    ASSUME NEW t \in Tasks
    PROVE  /\ [kind |-> "initialize", task |-> t] \in Msgs
           /\ [kind |-> "welcome", task |-> t] \in Msgs
           /\ [kind |-> "list", task |-> t] \in Msgs
           /\ [kind |-> "changed"] \in Msgs
           /\ \A v \in Nat : [kind |-> "list", task |-> t, version |-> v] \in Msgs
BY DEF Msgs

LEMMA InitializeTraffic ==
    ASSUME TrafficIInv, ReconnectTypes, NEW t \in Inits, stage[t] = "idle", NEW b, NEW n,
           Initialize(t, b, n)
    PROVE  /\ QueuesOK' /\ DuesOK' /\ started'
           /\ ~open' => toServer' = << >> /\ toClient' = << >>
           /\ \E s \in {"handshake", "failing"}, v \in {0} : Enters(t, s, v)
           /\ stage'[t] = "handshake" \/ ~open'
<1>1. t \in Tasks /\ QueuesOK /\ DuesOK /\ posted \in Seq(Tasks) /\ toServer \in Seq(Msgs)
  BY DEF Tasks, TrafficIInv, DuesOK, QueuesOK
<1>2. Clear(toServer, t) /\ Clear(toClient, t) /\ Within(toServer, toServer)
      /\ Within(toClient, toClient)
  BY <1>1, FreeOfTraffic, WithinSame DEF QueuesOK
<1>3. \A k \in 1..Len(posted) : posted[k] # t
  BY <1>1 DEF DuesOK, AreDue, Due
<1>4. CASE /\ open' = TRUE /\ started' = TRUE
           /\ toServer' = Append(toServer, [kind |-> "initialize", task |-> t])
           /\ Enters(t, "handshake", 0)
           /\ UNCHANGED <<posted, toClient>>
  <2> DEFINE m == [kind |-> "initialize", task |-> t]
  <2>1. m \in Msgs /\ m.kind = "initialize" /\ m.task = t
    BY <1>1, RequestIsMsg
  <2>2. /\ \A x \in Tasks : x # t => stage'[x] = stage[x]
        /\ stage'[t] = "handshake"
    BY <1>1, <1>4 DEF Enters, ReconnectTypes
  <2>3. toServer' = Append(toServer, m)
    BY <1>4
  <2> HIDE DEF m
  <2>4. QueuesOK'
    <3>1. Clear(toClient', t) /\ Within(toClient', toClient) /\ stage'[t] = Awaits(m)
      BY <1>2, <1>4, <2>1, <2>2 DEF Awaits
    <3> QED
      BY <1>1, <1>2, <2>1, <2>2, <2>3, <3>1, QueuesSend
  <2>5. DuesOK'
    <3>1. stage[t] \notin Due /\ posted' = posted
      BY <1>4 DEF Due
    <3> QED
      BY <1>1, <2>2, <3>1, DuesSame
  <2> QED
    BY <1>4, <2>2, <2>4, <2>5
<1>5. CASE /\ ~open /\ started' /\ EntersAndPosts(t, "failing", 0, posted)
           /\ UNCHANGED <<open, toServer, toClient>>
  <2>1. /\ \A x \in Tasks : x # t => stage'[x] = stage[x]
        /\ stage'[t] = "failing" /\ Enters(t, "failing", 0) /\ posted' = Append(posted, t)
    BY <1>1, <1>5 DEF EntersAndPosts, Enters, ReconnectTypes
  <2>2. QueuesOK'
    BY <1>1, <1>2, <1>5, <2>1, QueuesMove
  <2>3. DuesOK'
    <3>1. stage'[t] \in Due /\ AreDue(posted, stage) /\ Distinct(posted)
      BY <1>1, <2>1 DEF Due, DuesOK
    <3> QED
      BY <1>1, <1>3, <2>1, <3>1, DuesAppend
  <2> QED
    BY <1>5, <2>1, <2>2, <2>3 DEF TrafficIInv
<1>6. CASE ~open /\ started /\ EntersAndPosts(t, "failing", 0, posted) /\ UNCHANGED net
  <2>1. started' /\ UNCHANGED <<open, toServer, toClient>>
    BY <1>6 DEF net
  <2> QED
    BY <1>5, <1>6, <2>1
<1> QED
  BY <1>4, <1>5, <1>6 DEF Initialize

\* The message a list of tools is asked for with, or the failure of a shut gate.
LEMMA ListToolsTraffic ==
    ASSUME TrafficIInv, ReconnectTypes, NEW t \in Tasks, stage[t] \in {"idle", "ready"},
           NEW queue \in Seq(Tasks), AreDue(queue, stage), Distinct(queue),
           \A k \in 1..Len(queue) : queue[k] # t,
           ListTools(t, queue), Within(toClient', toClient), open' = open
    PROVE  /\ QueuesOK' /\ DuesOK'
           /\ ~open' => toServer' = << >>
           /\ \E s \in {"listing", "failing"}, v \in {0} : Enters(t, s, v)
           /\ \/ stage'[t] = "listing" /\ posted' = queue
              \/ stage'[t] = "failing" /\ posted' = Append(queue, t)
<1>1. QueuesOK /\ toServer \in Seq(Msgs) /\ toClient \in Seq(Msgs)
  BY DEF TrafficIInv, QueuesOK
<1>2. /\ Clear(toServer, t) /\ Clear(toClient', t) /\ Within(toServer, toServer)
  <2>1. Clear(toServer, t) /\ Clear(toClient, t)
    BY <1>1, FreeOfTraffic
  <2> QED
    BY <1>1, <2>1, WithinOK, WithinSame
<1>3. CASE /\ open /\ Enters(t, "listing", 0) /\ posted' = queue
           /\ toServer' = Append(toServer, [kind |-> "list", task |-> t])
  <2> DEFINE m == [kind |-> "list", task |-> t]
  <2>1. m \in Msgs /\ m.kind = "list" /\ m.task = t /\ toServer' = Append(toServer, m)
    BY <1>3, RequestIsMsg
  <2>2. /\ \A x \in Tasks : x # t => stage'[x] = stage[x]
        /\ stage'[t] = "listing"
    BY <1>3 DEF Enters, ReconnectTypes
  <2> HIDE DEF m
  <2>3. QueuesOK'
    <3>1. stage'[t] = Awaits(m)
      BY <2>1, <2>2 DEF Awaits
    <3> QED
      BY <1>1, <1>2, <2>1, <2>2, <3>1, QueuesSend
  <2>4. DuesOK'
    <3>1. AreDue(queue, stage')
      BY <2>2 DEF AreDue
    <3> QED
      BY <1>3, <3>1 DEF DuesOK
  <2> QED
    BY <1>3, <2>2, <2>3, <2>4
<1>4. CASE EntersAndPosts(t, "failing", 0, queue) /\ UNCHANGED toServer
  <2>1. /\ \A x \in Tasks : x # t => stage'[x] = stage[x]
        /\ stage'[t] = "failing" /\ Enters(t, "failing", 0) /\ posted' = Append(queue, t)
    BY <1>4 DEF EntersAndPosts, Enters, ReconnectTypes
  <2>2. QueuesOK'
    BY <1>1, <1>2, <1>4, <2>1, QueuesMove
  <2>3. DuesOK'
    <3>1. stage'[t] \in Due
      BY <2>1 DEF Due
    <3> QED
      BY <2>1, <3>1, DuesAppend
  <2> QED
    BY <1>4, <2>1, <2>2, <2>3 DEF TrafficIInv
<1> QED
  BY <1>3, <1>4 DEF ListTools

\* The orders of a finite set are sequences of its members, each of them once.
LEMMA OrdersAreDistinct ==
    ASSUME NEW S, IsFiniteSet(S), NEW f \in Orders(S)
    PROVE  /\ f \in Seq(S) /\ Len(f) = Cardinality(S)
           /\ \A j, k \in 1..Len(f) : f[j] = f[k] => j = k
<1> DEFINE n == Cardinality(S)
<1>1. n \in Nat
  BY FS_CardinalityType
<1>2. f \in [1..n -> S] /\ {f[k] : k \in DOMAIN f} = S
  BY DEF Orders
<1> HIDE DEF n
<1>3. f \in Surjection(1..n, S)
  BY <1>2 DEF Surjection
<1>4. IsFiniteSet(1..n) /\ Cardinality(1..n) = n
  BY <1>1, FS_Interval
<1>5. f \in Injection(1..n, S)
  BY <1>3, <1>4, FS_Surjection DEF n
<1>6. f \in Seq(S) /\ Len(f) = n
  <2>1. f \in Seq(S)
    BY <1>1, <1>2, SeqDef
  <2> QED
    BY <1>1, <1>2, <2>1, LenProperties
<1>7. \A j, k \in 1..n : f[j] = f[k] => j = k
  BY <1>2, <1>5 DEF Injection, IsInjective
<1> QED
  BY <1>6, <1>7 DEF n

\* Closing leaves nothing on the way and makes the failures due.
LEMMA ClosesTraffic ==
    ASSUME TrafficIInv, ReconnectTypes, Closes
    PROVE  /\ QueuesOK' /\ DuesOK'
           /\ ~open' /\ toServer' = << >> /\ toClient' = << >>
           /\ \A t \in Tasks : stage'[t] = IF t \in Waiting THEN "failing" ELSE stage[t]
<1>1. /\ ~open' /\ toServer' = << >> /\ toClient' = << >>
      /\ \A t \in Tasks : stage'[t] = IF t \in Waiting THEN "failing" ELSE stage[t]
  BY DEF Closes
<1>2. QueuesOK'
  BY <1>1, EmptyQueue DEF QueuesOK
<1>3. PICK order \in Orders(Waiting) : posted' = posted \o order
  BY DEF Closes
<1>4. IsFiniteSet(Waiting) /\ Waiting \subseteq Tasks
  <2>1. IsFiniteSet(Tasks)
    BY BinderAssumption, FS_Union DEF Tasks
  <2>2. Waiting \subseteq Tasks
    BY DEF Waiting
  <2> QED
    BY <2>1, <2>2, FS_Subset
<1>5. /\ order \in Seq(Waiting)
      /\ \A j, k \in 1..Len(order) : order[j] = order[k] => j = k
  BY <1>4, OrdersAreDistinct
<1>6. /\ order \in Seq(Tasks) /\ Len(order) \in Nat
      /\ \A k \in 1..Len(order) : order[k] \in Waiting
  <2>1. \A k \in 1..Len(order) : order[k] \in Waiting
    BY <1>5, ElementOfSeq
  <2> QED
    BY <1>4, <1>5, <2>1, SeqMonotonic, LenProperties
<1>7. /\ posted \in Seq(Tasks) /\ AreDue(posted, stage) /\ Distinct(posted)
      /\ Len(posted) \in Nat
  BY LenProperties DEF TrafficIInv, DuesOK
<1>8. /\ posted' \in Seq(Tasks) /\ Len(posted') = Len(posted) + Len(order)
      /\ \A k \in 1..Len(posted) + Len(order) :
            posted'[k] = IF k <= Len(posted) THEN posted[k] ELSE order[k - Len(posted)]
  BY <1>3, <1>6, <1>7, ConcatProperties
<1>9. \A k \in 1..Len(posted') :
          \/ k \in 1..Len(posted) /\ posted'[k] = posted[k]
          \/ k - Len(posted) \in 1..Len(order) /\ posted'[k] = order[k - Len(posted)]
  BY <1>6, <1>7, <1>8
<1>10. /\ \A k \in 1..Len(posted) : posted[k] \in Tasks \ Waiting /\ stage[posted[k]] \in Due
       /\ \A k \in 1..Len(order) : order[k] \in Waiting
  BY <1>6, <1>7 DEF AreDue, Waiting, Due
<1>11. AreDue(posted', stage')
  BY <1>1, <1>4, <1>9, <1>10 DEF AreDue, Due
<1>12. Distinct(posted')
  <2> SUFFICES ASSUME NEW j \in 1..Len(posted'), NEW k \in 1..Len(posted'),
                      posted'[j] = posted'[k]
               PROVE  j = k
    BY DEF Distinct
  <2>1. j \in Nat /\ k \in Nat
    BY <1>8
  <2>2. CASE j \in 1..Len(posted) /\ posted'[j] = posted[j]
    <3>1. k \in 1..Len(posted) /\ posted'[k] = posted[k]
      BY <1>9, <1>10, <2>2
    <3> QED
      BY <1>7, <2>2, <3>1 DEF Distinct
  <2>3. CASE j - Len(posted) \in 1..Len(order) /\ posted'[j] = order[j - Len(posted)]
    <3>1. k - Len(posted) \in 1..Len(order) /\ posted'[k] = order[k - Len(posted)]
      BY <1>9, <1>10, <2>3
    <3>2. j - Len(posted) = k - Len(posted)
      BY <1>5, <2>3, <3>1
    <3> QED
      BY <1>7, <2>1, <3>2
  <2> QED
    BY <1>9, <2>2, <2>3
<1> QED
  BY <1>1, <1>2, <1>8, <1>11, <1>12 DEF DuesOK

-----------------------------------------------------------------------------
(* Every action preserves what is under way *)

LEMMA AnswerTraffic ==
    ASSUME TrafficIInv, ReconnectTypes, ReceiveAnswer
    PROVE  /\ TrafficIInv'
           /\ ~UNCHANGED chains => Head(toClient).task \in Waiting
<1> DEFINE m == Head(toClient)
<1>1. /\ QueuesOK /\ DuesOK /\ toClient \in Seq(Msgs) /\ toServer \in Seq(Msgs) /\ toClient # << >>
      /\ toClient' = Tail(toClient) /\ UNCHANGED <<toServer, open, started, binder>>
  BY DEF TrafficIInv, QueuesOK, ReceiveAnswer
<1>2. /\ m = toClient[1] /\ 1 \in 1..Len(toClient) /\ Len(toClient) \in Nat
      /\ Len(toClient') = Len(toClient) - 1
      /\ \A k \in 1..Len(toClient) - 1 : toClient'[k] = toClient[k + 1]
  BY <1>1, HeadAndTail
<1>3. /\ m.kind \in {"welcome", "list", "changed", "void"}
      /\ Personal(m) => m.task \in Tasks /\ stage[m.task] = Awaits(m)
      /\ m.kind \in {"initialize", "welcome"} => m.task \in Inits
  BY <1>1, <1>2 DEF QueuesOK, Awaited
<1>4. Within(toClient', toClient) /\ Within(toServer', toServer)
  BY <1>1, WithinTail, WithinSame
<1>6. /\ UNCHANGED <<binding, timers>>
      /\ ~open' => toServer' = << >> /\ toClient' = << >>
  BY <1>1 DEF binder, TrafficIInv
<1>7. CASE m.kind = "void"
  <2>1. UNCHANGED <<stage, got, posted>> /\ UNCHANGED chains
    BY <1>7 DEF ReceiveAnswer, chains
  <2>2. QueuesOK'
    <3>1. /\ Awaited(toClient', stage, {"welcome", "list", "changed", "void"})
          /\ OneEach(toClient') /\ Apart(toServer, toClient')
      BY <1>1, <1>4, WithinOK DEF QueuesOK
    <3> QED
      BY <1>1, <1>4, <2>1, <3>1 DEF QueuesOK, Within
  <2>3. Running(Inits)' = Running(Inits)
    BY <2>1 DEF Running
  <2> QED
    BY <1>1, <1>6, <2>1, <2>2, <2>3 DEF TrafficIInv, DuesOK
<1>8. CASE m.kind # "void"
  <2>1. Personal(m) /\ m.kind \in {"welcome", "list"}
    BY <1>3, <1>8 DEF ReceiveAnswer, Personal
  <2>2. PICK t \in Tasks : t = m.task
    BY <1>3, <2>1
  <2>3. stage[t] \in {"handshake", "listing"} /\ t \in Waiting /\ (m.kind = "welcome" => t \in Inits)
    BY <1>3, <2>1, <2>2 DEF Awaits, Waiting
  <2>4. PICK s, v :
            /\ s \in {"greeted", "listed"}
            /\ EntersAndPosts(t, s, v, posted)
            /\ s = "greeted" => t \in Inits
    BY <1>3, <1>8, <2>1, <2>2, <2>3 DEF ReceiveAnswer
  <2>5. /\ \A x \in Tasks : x # t => stage'[x] = stage[x]
        /\ stage'[t] = s /\ Enters(t, s, v) /\ posted' = Append(posted, t)
    BY <2>4 DEF EntersAndPosts, Enters, ReconnectTypes
  <2>6. Clear(toClient', t)
    <3> SUFFICES ASSUME NEW k \in 1..Len(toClient'), Personal(toClient'[k]),
                        toClient'[k].task = t
                 PROVE  FALSE
      BY DEF Clear
    <3>1. k \in Nat /\ k + 1 \in 1..Len(toClient) /\ toClient'[k] = toClient[k + 1] /\ k + 1 # 1
      BY <1>2
    <3> QED
      BY <1>1, <1>2, <2>1, <2>2, <3>1 DEF QueuesOK, OneEach
  <2>7. Clear(toServer', t)
    BY <1>1, <1>2, <2>1, <2>2 DEF QueuesOK, Apart, Clear
  <2>8. QueuesOK'
    BY <1>1, <1>4, <2>5, <2>6, <2>7, QueuesMove
  <2>9. DuesOK'
    <3>1. stage'[t] \in Due /\ \A k \in 1..Len(posted) : posted[k] # t
      BY <1>1, <2>3, <2>4, <2>5 DEF DuesOK, AreDue, Due
    <3> QED
      BY <1>1, <2>5, <3>1, DuesAppend DEF DuesOK
  <2>10. started
    BY <2>3 DEF TrafficIInv
  <2>11. Running(Inits)' = Running(Inits)
    <3>1. \A x \in Inits : x \in Tasks
      BY DEF Tasks
    <3> QED
      BY <2>3, <2>4, <2>5, <3>1 DEF Running
  <2>12. TrafficIInv'
    <3>1. t \in Syncs => s \notin {"handshake", "greeted", "ready"}
      BY <2>4, BinderAssumption
    <3>2. /\ binding' \in {"none", "server", "client", "plain"} /\ started'
          /\ binding' = "plain" => timers' = 0 /\ Running(Inits)' = {}
      BY <1>1, <1>6, <2>10, <2>11 DEF TrafficIInv
    <3> QED
      BY <1>6, <2>5, <2>8, <2>9, <3>1, <3>2, TaskMoves
  <2> QED
    BY <2>2, <2>3, <2>12
<1> QED
  BY <1>7, <1>8

LEMMA ChangedTraffic ==
    ASSUME TrafficIInv, ReconnectIInv, ReceiveChanged
    PROVE  TrafficIInv'
<1>1. /\ QueuesOK /\ DuesOK /\ toClient \in Seq(Msgs) /\ toServer \in Seq(Msgs)
      /\ posted \in Seq(Tasks) /\ toClient # << >>
      /\ toClient' = Tail(toClient) /\ UNCHANGED <<open, started, binding, timers>>
  BY DEF TrafficIInv, QueuesOK, DuesOK, ReceiveChanged, binder
<1>2. open /\ Within(toClient', toClient) /\ Within(toServer, toServer)
  BY <1>1, WithinTail, WithinSame DEF TrafficIInv
<1>3. CASE ~Bound
  <2>1. UNCHANGED <<stage, got, posted, toServer>>
    BY <1>3 DEF ReceiveChanged, chains
  <2>2. QueuesOK'
    <3>1. /\ Awaited(toClient', stage, {"welcome", "list", "changed", "void"})
          /\ OneEach(toClient') /\ Apart(toServer, toClient')
      BY <1>1, <1>2, WithinOK DEF QueuesOK
    <3> QED
      BY <1>1, <1>2, <2>1, <3>1 DEF QueuesOK, Within
  <2>3. Running(Inits)' = Running(Inits)
    BY <2>1 DEF Running
  <2> QED
    BY <1>1, <1>2, <2>1, <2>2, <2>3 DEF TrafficIInv, DuesOK
<1>4. CASE Bound
  <2> DEFINE t == CHOOSE x \in Free(Syncs) : TRUE
  <2>1. t \in Syncs /\ t \in Tasks /\ stage[t] = "idle" /\ ListTools(t, posted)
    BY <1>4 DEF ReceiveChanged, Free, Tasks
  <2> HIDE DEF t
  <2>2. /\ AreDue(posted, stage) /\ Distinct(posted)
        /\ \A k \in 1..Len(posted) : posted[k] # t
    BY <1>1, <2>1 DEF DuesOK, AreDue, Due
  <2>3. /\ QueuesOK' /\ DuesOK'
        /\ \E s \in {"listing", "failing"}, v \in {0} : Enters(t, s, v)
    <3>1. ReconnectTypes
      BY DEF ReconnectIInv
    <3> QED
      BY <1>1, <1>2, <2>1, <2>2, <3>1, ListToolsTraffic
  <2>4. PICK s \in {"listing", "failing"}, v \in {0} : Enters(t, s, v)
    BY <2>3
  <2>5. Running(Inits)' = Running(Inits)
    <3>1. \A x \in Inits : x \in Tasks /\ x # t
      BY <2>1, BinderAssumption DEF Tasks
    <3> QED
      BY <2>4, <3>1 DEF Running, Enters, ReconnectIInv, ReconnectTypes
  <2>6. /\ binding' \in {"none", "server", "client", "plain"}
        /\ binding' = "plain" => timers' = 0 /\ Running(Inits)' = {}
        /\ open'
    BY <1>1, <1>2, <2>5 DEF TrafficIInv
  <2>7. started' /\ ReconnectTypes
    BY <1>1, <1>2 DEF ReconnectIInv
  <2> QED
    BY <2>1, <2>3, <2>4, <2>6, <2>7, TaskMoves
<1> QED
  BY <1>3, <1>4

LEMMA AddServerTraffic ==
    ASSUME TrafficIInv, ReconnectIInv, AddServer
    PROVE  TrafficIInv' /\ (\E t \in Inits : stage'[t] = "handshake" \/ ~open')
<1> DEFINE t == CHOOSE x \in Inits : TRUE
<1>1. /\ t \in Inits /\ t \in Tasks /\ stage[t] = "idle" /\ Initialize(t, "server", timers)
      /\ binding' = "server" /\ ReconnectTypes
  BY BinderAssumption DEF AddServer, TrafficIInv, ReconnectIInv, Tasks
<1> HIDE DEF t
<1>2. /\ QueuesOK' /\ DuesOK' /\ started'
      /\ ~open' => toServer' = << >> /\ toClient' = << >>
      /\ \E s \in {"handshake", "failing"}, v \in {0} : Enters(t, s, v)
      /\ stage'[t] = "handshake" \/ ~open'
  BY <1>1, InitializeTraffic
<1>3. PICK s \in {"handshake", "failing"}, v \in {0} : Enters(t, s, v)
  BY <1>2
<1>4. t \notin Syncs
  BY <1>1, BinderAssumption
<1>5. TrafficIInv'
  BY <1>1, <1>2, <1>3, <1>4, TaskMoves
<1> QED
  BY <1>1, <1>2, <1>5

LEMMA ReconnectTraffic ==
    ASSUME TrafficIInv, ReconnectIInv, ReconnectFires
    PROVE  /\ TrafficIInv'
           /\ ~stopping /\ Bound => \E t \in Inits : stage'[t] = "handshake" \/ ~open'
<1>1. CASE stopping \/ ~Bound
  <2>1. UNCHANGED <<net, chains, binding>> /\ timers' = timers - 1 /\ timers > 0
    BY <1>1 DEF ReconnectFires
  <2>2. Running(Inits)' = Running(Inits)
    BY <2>1 DEF Running, chains
  <2> QED
    BY <1>1, <2>1, <2>2 DEF TrafficIInv, QueuesOK, DuesOK, net, chains
<1>2. CASE ~stopping /\ Bound
  <2> DEFINE t == CHOOSE x \in Free(Inits) : TRUE
  <2>1. /\ t \in Inits /\ t \in Tasks /\ stage[t] = "idle" /\ Initialize(t, binding, timers - 1)
        /\ binding' = binding /\ timers > 0 /\ ReconnectTypes
    BY <1>2 DEF ReconnectFires, Free, ReconnectIInv, Tasks
  <2> HIDE DEF t
  <2>2. /\ QueuesOK' /\ DuesOK' /\ started'
        /\ ~open' => toServer' = << >> /\ toClient' = << >>
        /\ \E s \in {"handshake", "failing"}, v \in {0} : Enters(t, s, v)
        /\ stage'[t] = "handshake" \/ ~open'
    BY <2>1, InitializeTraffic
  <2>3. PICK s \in {"handshake", "failing"}, v \in {0} : Enters(t, s, v)
    BY <2>2
  <2>4. t \notin Syncs /\ binding' # "plain" /\ binding' \in {"none", "server", "client", "plain"}
    BY <2>1, BinderAssumption DEF TrafficIInv
  <2>5. TrafficIInv'
    BY <2>1, <2>2, <2>3, <2>4, TaskMoves
  <2> QED
    BY <2>1, <2>2, <2>5
<1> QED
  BY <1>1, <1>2

LEMMA AddClientTraffic ==
    ASSUME TrafficIInv, ReconnectIInv, AddClient
    PROVE  TrafficIInv' /\ toClient' = << >> /\ \E t \in Syncs : stage'[t] = "listing"
<1> DEFINE t == CHOOSE x \in Syncs : TRUE
           m == [kind |-> "list", task |-> t]
<1>1. /\ t \in Syncs /\ t \in Tasks /\ stage[t] = "idle" /\ Enters(t, "listing", 0)
      /\ toServer' = Append(toServer, m)
      /\ binding' \in {"client", "plain"} /\ open' /\ started' /\ ReconnectTypes
      /\ UNCHANGED <<toClient, timers, posted>>
  BY BinderAssumption DEF AddClient, TrafficIInv, ReconnectIInv, Tasks
<1>2. m \in Msgs /\ m.kind = "list" /\ m.task = t
  BY <1>1, RequestIsMsg
<1> HIDE DEF t, m
<1>3. /\ ~started /\ ~open /\ toServer = << >> /\ toClient = << >> /\ timers = 0
      /\ Running(Inits) = {}
  BY DEF AddClient, TrafficIInv, ReconnectIInv
<1>4. /\ \A x \in Tasks : x # t => stage'[x] = stage[x]
      /\ stage'[t] = "listing"
  BY <1>1 DEF Enters, ReconnectTypes
<1>5. QueuesOK /\ DuesOK /\ Clear(toServer, t) /\ Clear(toClient', t)
  BY <1>1, FreeOfTraffic DEF TrafficIInv
<1>6. QueuesOK'
  <2>1. Within(toClient', toClient) /\ stage'[t] = Awaits(m)
    BY <1>1, <1>2, <1>4, <1>5, WithinSame DEF Awaits, QueuesOK
  <2> QED
    BY <1>1, <1>2, <1>4, <1>5, <2>1, QueuesSend
<1>7. DuesOK'
  <2>1. stage[t] \notin Due /\ posted' = posted
    BY <1>1 DEF Due
  <2> QED
    BY <1>4, <1>5, <2>1, DuesSame
<1>8. Running(Inits)' = {}
  <2>1. \A x \in Inits : x \in Tasks /\ x # t
    BY <1>1, BinderAssumption DEF Tasks
  <2> QED
    BY <1>3, <1>4, <2>1 DEF Running
<1>9. TrafficIInv'
  BY <1>1, <1>3, <1>6, <1>7, <1>8, TaskMoves
<1> QED
  BY <1>1, <1>3, <1>4, <1>9

\* Losing the connection, and the binder closing it.
LEMMA CloseTraffic ==
    ASSUME TrafficIInv, ReconnectIInv, Closes,
           UNCHANGED <<started, binding, got>>,
           binding = "plain" => timers' = timers
    PROVE  TrafficIInv'
<1>1. ReconnectTypes
  BY DEF ReconnectIInv
<1>2. /\ QueuesOK' /\ DuesOK'
      /\ ~open' /\ toServer' = << >> /\ toClient' = << >>
      /\ \A t \in Tasks : stage'[t] = IF t \in Waiting THEN "failing" ELSE stage[t]
  BY <1>1, ClosesTraffic
<1>3. \A t \in Tasks : t \in Waiting => stage[t] # "idle"
  BY DEF Waiting
<1>4. Running(Inits)' = Running(Inits)
  <2>1. \A x \in Inits : x \in Tasks
    BY DEF Tasks
  <2> QED
    BY <1>2, <1>3, <2>1 DEF Running
<1>5. /\ \A t \in Syncs : stage'[t] \notin {"handshake", "greeted", "ready"}
      /\ ~started => \A t \in Tasks : stage'[t] = "idle"
  <2>1. \A t \in Syncs : t \in Tasks
    BY DEF Tasks
  <2> QED
    BY <1>2, <1>3, <2>1 DEF TrafficIInv
<1> QED
  BY <1>2, <1>4, <1>5 DEF TrafficIInv

LEMMA ClosingTraffic ==
    ASSUME TrafficIInv, ReconnectIInv, Drop \/ Shutdown
    PROVE  TrafficIInv'
<1>1. CASE Drop
  <2>1. binding = "plain" => timers' = timers
    BY <1>1 DEF Drop, Disconnected, Reconnects
  <2> QED
    BY <1>1, <2>1, CloseTraffic DEF Drop
<1>2. CASE Shutdown /\ Closes
  BY <1>2, CloseTraffic DEF Shutdown
<1>3. CASE Shutdown /\ ~Closes
  <2>1. UNCHANGED <<open, started, binding, timers, toServer, toClient, posted, stage, got>>
    BY <1>3 DEF Shutdown
  <2>2. Running(Inits)' = Running(Inits)
    BY <2>1 DEF Running
  <2> QED
    BY <2>1, <2>2 DEF TrafficIInv, QueuesOK, DuesOK
<1> QED
  BY <1>1, <1>2, <1>3

LEMMA TimeoutTraffic ==
    ASSUME TrafficIInv, ReconnectIInv, NEW t \in Tasks, Timeout(t)
    PROVE  TrafficIInv'
<1>1. /\ QueuesOK /\ DuesOK /\ toClient \in Seq(Msgs) /\ toServer \in Seq(Msgs)
      /\ posted \in Seq(Tasks) /\ AreDue(posted, stage) /\ Distinct(posted) /\ ReconnectTypes
  BY DEF TrafficIInv, QueuesOK, DuesOK, ReconnectIInv
<1>2. /\ stage[t] \in {"handshake", "listing"} /\ UNCHANGED <<open, started, binding, timers>>
      /\ toServer' = Voided(toServer, t) /\ toClient' = Voided(toClient, t)
      /\ Enters(t, "failing", 0) /\ posted' = Append(posted, t)
  BY DEF Timeout, Waiting, binder, EntersAndPosts
<1>3. /\ \A x \in Tasks : x # t => stage'[x] = stage[x]
      /\ stage'[t] = "failing"
  BY <1>1, <1>2 DEF Enters, ReconnectTypes
<1>4. QueuesOK'
  BY <1>1, <1>2, <1>3, WithinVoided, QueuesMove
<1>5. DuesOK'
  <2>1. stage'[t] \in Due /\ \A k \in 1..Len(posted) : posted[k] # t
    BY <1>1, <1>2, <1>3 DEF AreDue, Due
  <2> QED
    BY <1>1, <1>2, <1>3, <2>1, DuesAppend
<1>6. ~open' => toServer' = << >> /\ toClient' = << >>
  <2> SUFFICES ASSUME ~open PROVE toServer' = << >> /\ toClient' = << >>
    BY <1>2
  <2>1. toServer = << >> /\ toClient = << >> /\ Len(<< >>) = 0
    BY DEF TrafficIInv
  <2>2. /\ toServer' \in Seq(Msgs) /\ Len(toServer') = 0
        /\ toClient' \in Seq(Msgs) /\ Len(toClient') = 0
    BY <1>1, <1>2, <2>1, WithinVoided
  <2> QED
    BY <2>2
<1>7. Running(Inits)' = Running(Inits)
  <2>1. \A x \in Inits : x \in Tasks
    BY DEF Tasks
  <2> QED
    BY <1>2, <1>3, <2>1 DEF Running
<1>8. started' /\ binding' \in {"none", "server", "client", "plain"}
      /\ (binding' = "plain" => timers' = 0 /\ Running(Inits)' = {})
  BY <1>2, <1>7 DEF TrafficIInv
<1> QED
  BY <1>1, <1>2, <1>4, <1>5, <1>6, <1>8, TaskMoves

LEMMA GreetedTraffic ==
    ASSUME TrafficIInv, ReconnectIInv, NEW t \in Tasks, Greeted(t)
    PROVE  TrafficIInv' /\ t \in Inits /\ stage'[t] = "ready"
<1>1. /\ QueuesOK /\ DuesOK /\ toClient \in Seq(Msgs) /\ toServer \in Seq(Msgs)
      /\ ReconnectTypes /\ IsNext(t)
  BY DEF TrafficIInv, QueuesOK, ReconnectIInv, Greeted
<1>2. /\ stage[t] = "greeted" /\ UNCHANGED <<open, started, binding, timers, toServer, toClient>>
      /\ Enters(t, "ready", 0) /\ posted' = Append(Tail(posted), t) /\ t \in Inits
  BY DEF Greeted, binder, EntersAndPosts, TrafficIInv, Tasks
<1>3. /\ \A x \in Tasks : x # t => stage'[x] = stage[x]
      /\ stage'[t] = "ready"
  BY <1>1, <1>2 DEF Enters, ReconnectTypes
<1>4. QueuesOK'
  <2>1. Clear(toServer, t) /\ Clear(toClient, t)
    BY <1>1, <1>2, FreeOfTraffic
  <2> QED
    BY <1>1, <1>2, <1>3, <2>1, WithinSame, QueuesMove
<1>5. DuesOK'
  <2>1. stage'[t] \in Due
    BY <1>3 DEF Due
  <2>2. /\ Tail(posted) \in Seq(Tasks) /\ AreDue(Tail(posted), stage) /\ Distinct(Tail(posted))
        /\ \A k \in 1..Len(Tail(posted)) : Tail(posted)[k] # t
    BY <1>1, DuesLeft
  <2> QED
    BY <1>2, <1>3, <2>1, <2>2, DuesAppend
<1>6. Running(Inits)' = Running(Inits)
  <2>1. \A x \in Inits : x \in Tasks
    BY DEF Tasks
  <2> QED
    BY <1>2, <1>3, <2>1 DEF Running
<1>7. /\ started' /\ binding' \in {"none", "server", "client", "plain"}
      /\ (binding' = "plain" => timers' = 0 /\ Running(Inits)' = {})
      /\ (~open' => toServer' = << >> /\ toClient' = << >>)
      /\ t \notin Syncs
  BY <1>2, <1>6, BinderAssumption DEF TrafficIInv
<1>8. TrafficIInv'
  BY <1>1, <1>2, <1>4, <1>5, <1>7, TaskMoves
<1> QED
  BY <1>2, <1>3, <1>8

LEMMA ReadyTraffic ==
    ASSUME TrafficIInv, ReconnectIInv, NEW t \in Tasks, Ready(t)
    PROVE  /\ TrafficIInv' /\ t \in Inits /\ Clear(toClient, t) /\ toClient' = toClient
           /\ \/ stage'[t] = "listing"
              \/ stage'[t] = "failing"
<1>1. /\ QueuesOK /\ DuesOK /\ toClient \in Seq(Msgs) /\ toServer \in Seq(Msgs)
      /\ ReconnectTypes /\ IsNext(t)
  BY DEF TrafficIInv, QueuesOK, ReconnectIInv, Ready
<1>2. /\ stage[t] = "ready" /\ UNCHANGED <<open, started, binding, timers, toClient>>
      /\ ListTools(t, Tail(posted)) /\ t \in Inits
  BY DEF Ready, binder, TrafficIInv, Tasks
<1>3. /\ Tail(posted) \in Seq(Tasks) /\ AreDue(Tail(posted), stage) /\ Distinct(Tail(posted))
      /\ \A k \in 1..Len(Tail(posted)) : Tail(posted)[k] # t
  BY <1>1, DuesLeft
<1>4. /\ QueuesOK' /\ DuesOK'
      /\ ~open' => toServer' = << >>
      /\ \E s \in {"listing", "failing"}, v \in {0} : Enters(t, s, v)
      /\ stage'[t] = "listing" \/ stage'[t] = "failing"
  <2>1. Within(toClient', toClient) /\ stage[t] \in {"idle", "ready"}
    BY <1>1, <1>2, WithinSame
  <2> QED
    BY <1>1, <1>2, <1>3, <2>1, ListToolsTraffic
<1>5. PICK s \in {"listing", "failing"}, v \in {0} : Enters(t, s, v)
  BY <1>4
<1>6. Running(Inits)' = Running(Inits)
  <2>1. \A x \in Inits : x \in Tasks
    BY DEF Tasks
  <2> QED
    BY <1>1, <1>2, <1>5, <2>1 DEF Running, Enters, ReconnectTypes
<1>7. /\ started' /\ binding' \in {"none", "server", "client", "plain"}
      /\ (binding' = "plain" => timers' = 0 /\ Running(Inits)' = {})
      /\ (~open' => toServer' = << >> /\ toClient' = << >>)
      /\ t \notin Syncs
  BY <1>2, <1>4, <1>6, BinderAssumption DEF TrafficIInv
<1>8. TrafficIInv'
  BY <1>1, <1>4, <1>5, <1>7, TaskMoves
<1> QED
  BY <1>1, <1>2, <1>4, <1>8, FreeOfTraffic

\* The end of a chain.
LEMMA EndTraffic ==
    ASSUME TrafficIInv, ReconnectIInv, NEW t \in Tasks,
           Listed(t) \/ InitFailed(t) \/ SyncFailed(t)
    PROVE  TrafficIInv'
<1>1. /\ QueuesOK /\ DuesOK /\ toClient \in Seq(Msgs) /\ toServer \in Seq(Msgs)
      /\ ReconnectTypes /\ IsNext(t)
  BY DEF TrafficIInv, QueuesOK, ReconnectIInv, Listed, InitFailed, SyncFailed
<1>2. /\ stage[t] \in {"listed", "failing"}
      /\ UNCHANGED <<open, started, binding, toServer, toClient>>
      /\ Enters(t, "idle", 0) /\ posted' = Tail(posted)
  BY DEF Listed, InitFailed, SyncFailed, binder, net
<1>3. /\ \A x \in Tasks : x # t => stage'[x] = stage[x]
      /\ stage'[t] = "idle"
  BY <1>1, <1>2 DEF Enters, ReconnectTypes
<1>4. QueuesOK'
  <2>1. Clear(toServer, t) /\ Clear(toClient, t)
    BY <1>1, <1>2, FreeOfTraffic
  <2> QED
    BY <1>1, <1>2, <1>3, <2>1, WithinSame, QueuesMove
<1>5. DuesOK'
  BY <1>1, <1>2, <1>3, DuesTail
<1>6. Running(Inits)' \subseteq Running(Inits)
  <2>1. \A x \in Inits : x \in Tasks
    BY DEF Tasks
  <2> QED
    BY <1>2, <1>3, <2>1 DEF Running
<1>7. binding = "plain" => timers' = timers
  <2>1. CASE InitFailed(t)
    <3>1. t \in Running(Inits)
      BY <1>2, <2>1 DEF InitFailed, Running
    <3> QED
      BY <3>1 DEF TrafficIInv
  <2>2. CASE Listed(t) \/ SyncFailed(t)
    BY <2>2 DEF Listed, SyncFailed, binder
  <2> QED
    BY <2>1, <2>2
<1>8. /\ started' /\ binding' \in {"none", "server", "client", "plain"}
      /\ (binding' = "plain" => timers' = 0 /\ Running(Inits)' = {})
      /\ (~open' => toServer' = << >> /\ toClient' = << >>)
  BY <1>2, <1>6, <1>7 DEF TrafficIInv
<1> QED
  BY <1>1, <1>2, <1>4, <1>5, <1>8, TaskMoves

\* The server answers for the task it was asked by.
LEMMA ServerTraffic ==
    ASSUME TrafficIInv, ReconnectIInv, tools \in Nat, ServerReceives
    PROVE  /\ TrafficIInv' /\ UNCHANGED <<open, stage, binding, timers, posted, got>>
           /\ Len(toClient) \in Nat
           /\ \A k \in 1..Len(toClient) : k \in 1..Len(toClient') /\ toClient'[k] = toClient[k]
           /\ \A k \in 1..Len(toClient') :
                 \/ k \in 1..Len(toClient)
                 \/ /\ k = Len(toClient) + 1
                    /\ toClient'[k].kind = "list" => /\ toClient'[k].version = tools
                                                     /\ toClient'[k].task \in Tasks
                                                     /\ stage[toClient'[k].task] = "listing"
           /\ serverReady' => serverReady \/ \E t \in Inits : stage[t] = "handshake"
<1> DEFINE m == Head(toServer)
           a == IF m.kind = "initialize"
                THEN [kind |-> "welcome", task |-> m.task]
                ELSE [kind |-> "list", task |-> m.task, version |-> tools]
<1>1. /\ QueuesOK /\ DuesOK /\ toClient \in Seq(Msgs) /\ toServer \in Seq(Msgs) /\ toServer # << >>
      /\ toServer' = Tail(toServer)
      /\ UNCHANGED <<open, started, binding, timers, stage, got, posted>>
  BY DEF TrafficIInv, QueuesOK, ServerReceives, binder, chains
<1>2. /\ m = toServer[1] /\ 1 \in 1..Len(toServer) /\ Len(toServer) \in Nat
      /\ Len(toServer') = Len(toServer) - 1
      /\ \A k \in 1..Len(toServer) - 1 : toServer'[k] = toServer[k + 1]
  BY <1>1, HeadAndTail
<1>3. /\ m.kind \in {"initialize", "list", "void"}
      /\ Personal(m) => m.task \in Tasks /\ stage[m.task] = Awaits(m)
      /\ m.kind \in {"initialize", "welcome"} => m.task \in Inits
  BY <1>1, <1>2 DEF QueuesOK, Awaited
<1>4. /\ Awaited(toServer', stage, {"initialize", "list", "void"})
      /\ OneEach(toServer') /\ Apart(toServer', toClient) /\ toServer' \in Seq(Msgs)
  <2>1. Within(toServer', toServer)
    BY <1>1, WithinTail
  <2>2. Apart(toServer', toClient)
    BY <1>1, <2>1, WithinOK DEF QueuesOK
  <2>3. Awaited(toServer', stage, {"initialize", "list", "void"}) /\ OneEach(toServer')
    BY <1>1, <2>1, WithinOK DEF QueuesOK
  <2> QED
    BY <2>1, <2>2, <2>3 DEF Within
<1>5. open /\ open' /\ Len(toClient) \in Nat
  BY <1>1, LenProperties DEF TrafficIInv
<1>6. Running(Inits)' = Running(Inits)
  BY <1>1 DEF Running
<1>7. ASSUME QueuesOK'
      PROVE  TrafficIInv'
  BY <1>1, <1>5, <1>6, <1>7 DEF TrafficIInv, DuesOK
<1>8. serverReady' => serverReady \/ \E t \in Inits : stage[t] = "handshake"
  <2>1. CASE m.kind = "initialize"
    BY <1>3, <2>1 DEF Personal, Awaits
  <2>2. CASE m.kind # "initialize"
    BY <2>2 DEF ServerReceives
  <2> QED
    BY <2>1, <2>2
<1>9. CASE m.kind = "void"
  <2>1. toClient' = toClient
    BY <1>9 DEF ServerReceives
  <2>2. QueuesOK'
    BY <1>1, <1>4, <2>1 DEF QueuesOK
  <2> QED
    BY <1>1, <1>5, <1>7, <1>8, <2>1, <2>2
<1>10. CASE m.kind # "void"
  <2>1. PICK t \in Tasks : t = m.task /\ stage[t] = Awaits(m) /\ Personal(m)
    BY <1>3, <1>10 DEF Personal
  <2>2. toClient' = Append(toClient, a)
    BY <1>10 DEF ServerReceives
  <2>3. /\ a \in Msgs /\ a.kind \in {"welcome", "list"} /\ a.task = t
        /\ a.kind = "welcome" => t \in Inits
        /\ a.kind = "list" => a.version = tools
        /\ Awaits(a) = Awaits(m)
    BY <1>3, <1>10, <2>1, RequestIsMsg DEF Awaits
  <2> HIDE DEF a
  <2>4. Clear(toServer', t)
    <3> SUFFICES ASSUME NEW k \in 1..Len(toServer'), Personal(toServer'[k]),
                        toServer'[k].task = t
                 PROVE  FALSE
      BY DEF Clear
    <3>1. k \in Nat /\ k + 1 \in 1..Len(toServer) /\ toServer'[k] = toServer[k + 1] /\ k + 1 # 1
      BY <1>2
    <3> QED
      BY <1>1, <1>2, <2>1, <3>1 DEF QueuesOK, OneEach
  <2>5. Clear(toClient, t)
    BY <1>1, <1>2, <2>1 DEF QueuesOK, Apart, Clear
  <2>6. /\ Awaited(toClient', stage, {"welcome", "list", "changed", "void"})
        /\ OneEach(toClient') /\ Apart(toServer', toClient') /\ toClient' \in Seq(Msgs)
    BY <1>1, <1>4, <2>1, <2>2, <2>3, <2>4, <2>5, AppendOK DEF QueuesOK
  <2>7. QueuesOK'
    BY <1>1, <1>4, <2>6 DEF QueuesOK
  <2>8. /\ Len(toClient') = Len(toClient) + 1
        /\ \A k \in 1..Len(toClient) : toClient'[k] = toClient[k]
        /\ toClient'[Len(toClient) + 1] = a
    BY <1>1, <2>2, <2>3, Appended
  <2>9. a.kind = "list" => stage[a.task] = "listing"
    BY <2>1, <2>3 DEF Awaits
  <2>10. \A k \in 1..Len(toClient') : k \in 1..Len(toClient) \/ k = Len(toClient) + 1
    BY <1>5, <2>8
  <2>11. \A k \in 1..Len(toClient) : k \in 1..Len(toClient')
    BY <1>5, <2>8
  <2> QED
    BY <1>1, <1>5, <1>7, <1>8, <2>1, <2>3, <2>7, <2>8, <2>9, <2>10, <2>11
<1> QED
  BY <1>9, <1>10

LEMMA NotifyTraffic ==
    ASSUME TrafficIInv, ReconnectIInv, Notify
    PROVE  /\ TrafficIInv' /\ UNCHANGED <<open, stage, binding, timers, posted, got, serverReady>>
           /\ Len(toClient) \in Nat
           /\ serverReady /\ open =>
                 /\ Len(toClient') = Len(toClient) + 1
                 /\ \A k \in 1..Len(toClient) : toClient'[k] = toClient[k]
                 /\ toClient'[Len(toClient) + 1].kind = "changed"
<1>1. /\ QueuesOK /\ toClient \in Seq(Msgs)
      /\ UNCHANGED <<open, started, binding, timers, stage, got, posted, toServer, serverReady>>
  BY DEF TrafficIInv, QueuesOK, Notify, binder, chains
<1>2. Running(Inits)' = Running(Inits) /\ Len(toClient) \in Nat
  BY <1>1, LenProperties DEF Running
<1>3. ASSUME QueuesOK', open \/ toClient' = toClient
      PROVE  TrafficIInv'
  BY <1>1, <1>2, <1>3 DEF TrafficIInv, DuesOK
<1>4. CASE serverReady /\ open
  <2> DEFINE m == [kind |-> "changed"]
  <2>1. m \in Msgs /\ m.kind = "changed" /\ toClient' = Append(toClient, m)
    BY <1>4 DEF Notify, Msgs
  <2> HIDE DEF m
  <2>2. /\ Awaited(toClient', stage, {"welcome", "list", "changed", "void"})
        /\ OneEach(toClient') /\ Apart(toServer, toClient') /\ toClient' \in Seq(Msgs)
    <3>1. ~Personal(m)
      BY <2>1 DEF Personal
    <3> QED
      BY <1>1, <2>1, <3>1, AppendOK DEF QueuesOK
  <2>3. QueuesOK'
    BY <1>1, <2>2 DEF QueuesOK
  <2>4. /\ Len(toClient') = Len(toClient) + 1
        /\ \A k \in 1..Len(toClient) : toClient'[k] = toClient[k]
        /\ toClient'[Len(toClient) + 1] = m
    BY <1>1, <2>1, Appended
  <2> QED
    BY <1>1, <1>2, <1>3, <1>4, <2>1, <2>3, <2>4
<1>5. CASE ~(serverReady /\ open)
  <2>1. toClient' = toClient
    BY <1>5 DEF Notify
  <2>2. QueuesOK'
    BY <1>1, <2>1 DEF QueuesOK
  <2> QED
    BY <1>1, <1>2, <1>3, <1>5, <2>1, <2>2
<1> QED
  BY <1>4, <1>5

LEMMA OtherTraffic ==
    ASSUME TrafficIInv, ToolsChange \/ RemoveClient \/ UNCHANGED vars
    PROVE  TrafficIInv'
<1>1. /\ UNCHANGED <<open, started, timers, stage, got, posted, toServer, toClient>>
      /\ binding' \in {binding, "none"}
  BY DEF ToolsChange, RemoveClient, vars, net, binder, chains
<1>2. Running(Inits)' = Running(Inits)
  BY <1>1 DEF Running
<1> QED
  BY <1>1, <1>2 DEF TrafficIInv, QueuesOK, DuesOK

-----------------------------------------------------------------------------
(* Every action preserves the invariant *)

LEMMA AddServerStep == ReconnectIInv /\ AddServer => ReconnectIInv'
<1> SUFFICES ASSUME ReconnectIInv, AddServer PROVE ReconnectIInv'
  OBVIOUS
<1> DEFINE t == CHOOSE x \in Inits : TRUE
<1>1. t \in Inits /\ stage[t] = "idle"
  BY BinderAssumption DEF AddServer, ReconnectIInv, Running
<1>2. /\ Initialize(t, "server", timers) /\ UNCHANGED stopping
      /\ pending = FALSE /\ timers = 0 /\ Chains = 0 /\ ReconnectTypes
  BY ChainsFinite DEF AddServer, ReconnectIInv, ReconnectTypes
<1> HIDE DEF t
<1>3. /\ stage' \in [Tasks -> Stages]
      /\ Running(Inits)' # {} /\ Chains' = Chains + 1
      /\ pending' \in BOOLEAN /\ timers' \in Nat
      /\ \/ pending' = pending /\ timers' = timers
         \/ pending = FALSE /\ pending' = TRUE /\ timers' = timers + 1
      /\ started' \in BOOLEAN /\ started' /\ (open' => started')
  <2>1. timers \in Nat
    BY <1>2 DEF ReconnectTypes
  <2> QED
    BY <1>1, <1>2, <2>1, InitializeCounts
<1>4. ReconnectTypes'
  BY <1>2, <1>3 DEF ReconnectTypes
<1>5. Chains' = 1
  BY <1>2, <1>3
<1>6. \/ pending' = FALSE /\ timers' = 0
      \/ pending' = TRUE /\ timers' = 1
  BY <1>2, <1>3
<1>7. timers' + Chains' <= 2
  BY <1>5, <1>6
<1>8. ~pending' => timers' + Chains' <= 1
  BY <1>5, <1>6
<1> QED
  BY <1>3, <1>4, <1>7, <1>8 DEF ReconnectIInv, PendingIsHonest, AtMostTwoChains, Chains

LEMMA AddClientStep == ReconnectIInv /\ AddClient => ReconnectIInv'
<1> SUFFICES ASSUME ReconnectIInv, AddClient PROVE ReconnectIInv'
  OBVIOUS
<1> DEFINE t == CHOOSE x \in Syncs : TRUE
<1>1. t \in Syncs /\ stage' = [stage EXCEPT ![t] = "listing"] /\ t \notin Inits
  BY BinderAssumption DEF AddClient, Enters
<1> HIDE DEF t
<1>2. /\ stage' \in [Tasks -> Stages]
      /\ \A x \in Inits : stage'[x] = "idle" <=> stage[x] = "idle"
  BY <1>1, StageMoves DEF Stages, ReconnectIInv, ReconnectTypes
<1>3. Running(Inits)' = Running(Inits) /\ Chains' = Chains
  BY <1>2, ChainsSame
<1>4. /\ pending = FALSE /\ timers = 0 /\ Chains = 0
      /\ started' = TRUE /\ UNCHANGED <<stopping, pending, timers>>
  BY ChainsFinite DEF AddClient, ReconnectIInv, ReconnectTypes
<1>5. ReconnectTypes'
  BY <1>2, <1>4 DEF ReconnectIInv, ReconnectTypes
<1> QED
  BY <1>3, <1>4, <1>5 DEF ReconnectIInv, PendingIsHonest, AtMostTwoChains, Chains

\* Closing fails the tasks that wait, and ends none.
LEMMA ClosesMoves ==
    ASSUME Closes, stage \in [Tasks -> Stages]
    PROVE  /\ stage' \in [Tasks -> Stages] /\ open' = FALSE
           /\ \A t \in Inits : stage'[t] = "idle" <=> stage[t] = "idle"
<1>1. stage' = [t \in Tasks |-> IF t \in Waiting THEN "failing" ELSE stage[t]]
  BY DEF Closes
<1>2. \A t \in Inits : t \in Tasks
  BY DEF Tasks
<1>3. \A t \in Waiting : stage[t] # "idle"
  BY DEF Waiting
<1>4. stage' \in [Tasks -> Stages]
  BY <1>1 DEF Stages
<1> QED
  BY <1>1, <1>2, <1>3, <1>4 DEF Closes

LEMMA DropStep == ReconnectIInv /\ Drop => ReconnectIInv'
<1> SUFFICES ASSUME ReconnectIInv, Drop PROVE ReconnectIInv'
  OBVIOUS
<1>1. /\ open /\ started /\ Closes /\ Disconnected(binding, timers)
      /\ UNCHANGED <<started, binding, stopping>> /\ ReconnectTypes
  BY DEF Drop, ReconnectIInv
<1>2. /\ stage' \in [Tasks -> Stages] /\ open' = FALSE
      /\ \A t \in Inits : stage'[t] = "idle" <=> stage[t] = "idle"
  BY <1>1, ClosesMoves DEF ReconnectTypes
<1>3. Running(Inits)' = Running(Inits) /\ Chains' = Chains
  BY <1>2, ChainsSame
<1>4. /\ pending' \in BOOLEAN /\ timers' \in Nat
      /\ \/ pending' = pending /\ timers' = timers
         \/ pending = FALSE /\ pending' = TRUE /\ timers' = timers + 1
  BY <1>1, DisconnectedCounts DEF ReconnectTypes
<1>5. ReconnectTypes'
  BY <1>1, <1>2, <1>4 DEF ReconnectTypes
<1>6. CASE pending' = pending /\ timers' = timers
  BY <1>1, <1>2, <1>3, <1>5, <1>6
     DEF ReconnectIInv, PendingIsHonest, AtMostTwoChains, Chains, Bound
<1>7. CASE pending = FALSE /\ pending' = TRUE /\ timers' = timers + 1
  <2>1. timers + Chains <= 1 /\ timers \in Nat /\ Chains \in Nat
    BY <1>7, ChainsFinite DEF ReconnectIInv, ReconnectTypes
  <2>2. timers' + Chains' <= 2 /\ timers' > 0
    BY <1>3, <1>7, <2>1
  <2> QED
    BY <1>1, <1>2, <1>5, <1>7, <2>2
       DEF ReconnectIInv, PendingIsHonest, AtMostTwoChains, Chains
<1> QED
  BY <1>4, <1>6, <1>7

LEMMA ShutdownStep == ReconnectIInv /\ Shutdown => ReconnectIInv'
<1> SUFFICES ASSUME ReconnectIInv, Shutdown PROVE ReconnectIInv'
  OBVIOUS
<1>1. stopping' = TRUE /\ UNCHANGED <<started, pending, timers>> /\ ReconnectTypes
  BY DEF Shutdown, ReconnectIInv
<1>2. /\ stage' \in [Tasks -> Stages] /\ (open' => open)
      /\ \A t \in Inits : stage'[t] = "idle" <=> stage[t] = "idle"
  <2>1. CASE Closes
    BY <1>1, <2>1, ClosesMoves DEF ReconnectTypes
  <2>2. CASE UNCHANGED <<open, stage>>
    BY <1>1, <2>2 DEF ReconnectTypes
  <2> QED
    BY <2>1, <2>2 DEF Shutdown
<1>3. Running(Inits)' = Running(Inits) /\ Chains' = Chains
  BY <1>2, ChainsSame
<1>4. ReconnectTypes'
  BY <1>1, <1>2 DEF ReconnectTypes
<1> QED
  BY <1>1, <1>2, <1>3, <1>4 DEF ReconnectIInv, PendingIsHonest, AtMostTwoChains, Chains

LEMMA ReconnectStep == ReconnectIInv /\ ReconnectFires => ReconnectIInv'
<1> SUFFICES ASSUME ReconnectIInv, ReconnectFires PROVE ReconnectIInv'
  OBVIOUS
<1>1. /\ timers \in Nat /\ timers > 0 /\ timers - 1 \in Nat /\ Chains \in Nat
      /\ UNCHANGED <<binding, stopping>> /\ ReconnectTypes /\ started
  BY ChainsFinite DEF ReconnectFires, ReconnectIInv, ReconnectTypes
<1>2. CASE stopping \/ ~Bound
  <2>1. timers' = timers - 1 /\ UNCHANGED <<net, chains, pending>>
    BY <1>2 DEF ReconnectFires
  <2>2. UNCHANGED <<open, started, stage, pending>>
    BY <2>1 DEF net, chains
  <2>3. Running(Inits)' = Running(Inits) /\ Chains' = Chains
    BY <2>2, ChainsSame
  <2>4. timers' \in Nat /\ timers' + Chains' <= timers + Chains
    BY <1>1, <2>1, <2>3
  <2>5. ReconnectTypes'
    BY <1>1, <2>2, <2>4 DEF ReconnectTypes
  <2>6. PendingIsHonest'
    BY <1>1, <1>2 DEF PendingIsHonest, Bound
  <2>7. AtMostTwoChains' /\ (~pending' => timers' + Chains' <= 1)
    BY <1>1, <2>2, <2>3, <2>4 DEF ReconnectIInv, AtMostTwoChains, Chains
  <2> QED
    BY <1>1, <2>2, <2>5, <2>6, <2>7 DEF ReconnectIInv
<1>3. CASE ~stopping /\ Bound
  <2> DEFINE t == CHOOSE x \in Free(Inits) : TRUE
  <2>1. t \in Inits /\ stage[t] = "idle" /\ Initialize(t, binding, timers - 1)
    BY <1>3 DEF ReconnectFires, Free
  <2> HIDE DEF t
  <2>2. /\ stage' \in [Tasks -> Stages]
        /\ Running(Inits)' # {} /\ Chains' = Chains + 1
        /\ pending' \in BOOLEAN /\ timers' \in Nat
        /\ \/ pending' = pending /\ timers' = timers - 1
           \/ pending = FALSE /\ pending' = TRUE /\ timers' = timers - 1 + 1
        /\ started' \in BOOLEAN /\ started' /\ (open' => started')
    BY <1>1, <2>1, InitializeCounts
  <2>3. ReconnectTypes'
    BY <1>1, <2>2 DEF ReconnectTypes
  <2>4. PendingIsHonest'
    BY <2>2 DEF PendingIsHonest
  <2>5. CASE pending' = pending /\ timers' = timers - 1
    <3>1. timers' + Chains' = timers + Chains
      BY <1>1, <2>2, <2>5
    <3> QED
      BY <2>2, <2>3, <2>4, <2>5, <3>1 DEF ReconnectIInv, AtMostTwoChains, Chains
  <2>6. CASE pending = FALSE /\ pending' = TRUE /\ timers' = timers - 1 + 1
    <3>1. timers + Chains <= 1
      BY <2>6 DEF ReconnectIInv
    <3>2. timers' + Chains' <= 2
      BY <1>1, <2>2, <2>6, <3>1
    <3> QED
      BY <2>2, <2>3, <2>4, <2>6, <3>2 DEF ReconnectIInv, AtMostTwoChains, Chains
  <2> QED
    BY <2>2, <2>5, <2>6
<1> QED
  BY <1>2, <1>3

\* A task whose request is sent, or that fails for a shut gate, moves on.
LEMMA ListToolsMoves ==
    ASSUME NEW t, NEW queue, ListTools(t, queue), ReconnectTypes,
           t \in Inits => stage[t] # "idle"
    PROVE  /\ stage' \in [Tasks -> Stages]
           /\ \A x \in Inits : stage'[x] = "idle" <=> stage[x] = "idle"
<1>1. PICK s \in {"listing", "failing"} : stage' = [stage EXCEPT ![t] = s]
  BY DEF ListTools, Enters, EntersAndPosts
<1>2. s \in Stages /\ s # "idle"
  BY DEF Stages
<1> QED
  BY <1>1, <1>2, StageMoves DEF ReconnectTypes

LEMMA AnswerStep == ReconnectIInv /\ TrafficIInv /\ ReceiveAnswer => ReconnectIInv'
<1> SUFFICES ASSUME ReconnectIInv, TrafficIInv, ReceiveAnswer PROVE ReconnectIInv'
  OBVIOUS
<1> DEFINE m == Head(toClient)
<1>1. /\ UNCHANGED <<open, started, binder>> /\ ReconnectTypes
      /\ \/ UNCHANGED chains
         \/ m.task \in Waiting /\ \E s \in {"greeted", "listed"} :
                stage' = [stage EXCEPT ![m.task] = s]
  <2>1. ReconnectTypes
    BY DEF ReconnectIInv
  <2> QED
    BY <2>1, AnswerTraffic DEF ReceiveAnswer, EntersAndPosts, Enters
<1>2. UNCHANGED <<open, started, binding, stopping, pending, timers>>
  BY <1>1 DEF binder
<1>3. CASE UNCHANGED chains
  BY <1>2, <1>3, NothingMoves DEF chains
<1>4. CASE m.task \in Waiting /\ \E s \in {"greeted", "listed"} :
               stage' = [stage EXCEPT ![m.task] = s]
  <2> HIDE DEF m
  <2>1. PICK s \in {"greeted", "listed"} : stage' = [stage EXCEPT ![m.task] = s]
    BY <1>4
  <2>2. s \in Stages /\ s # "idle" /\ stage[m.task] # "idle"
    BY <1>4 DEF Stages, Waiting
  <2>3. /\ stage' \in [Tasks -> Stages]
        /\ \A x \in Inits : stage'[x] = "idle" <=> stage[x] = "idle"
    BY <1>1, <2>1, <2>2, StageMoves DEF ReconnectTypes
  <2> QED
    BY <1>2, <2>3, MovesOn
<1> QED
  BY <1>1, <1>3, <1>4

LEMMA ChangedStep == ReconnectIInv /\ ReceiveChanged => ReconnectIInv'
<1> SUFFICES ASSUME ReconnectIInv, ReceiveChanged PROVE ReconnectIInv'
  OBVIOUS
<1>1. UNCHANGED <<open, started, binding, stopping, pending, timers>> /\ ReconnectTypes
  BY DEF ReceiveChanged, binder, ReconnectIInv
<1>2. CASE ~Bound
  BY <1>1, <1>2, NothingMoves DEF ReceiveChanged, chains
<1>3. CASE Bound
  <2> DEFINE t == CHOOSE x \in Free(Syncs) : TRUE
  <2>1. t \in Syncs /\ t \notin Inits /\ ListTools(t, posted)
    BY <1>3, BinderAssumption DEF ReceiveChanged, Free
  <2> HIDE DEF t
  <2>2. /\ stage' \in [Tasks -> Stages]
        /\ \A x \in Inits : stage'[x] = "idle" <=> stage[x] = "idle"
    BY <1>1, <2>1, ListToolsMoves
  <2> QED
    BY <1>1, <2>2, MovesOn
<1> QED
  BY <1>2, <1>3

\* The continuations that neither end a chain nor fail one, and the timeouts.
LEMMA MovingStep ==
    ASSUME ReconnectIInv, NEW t \in Tasks, Timeout(t) \/ Greeted(t) \/ Ready(t)
    PROVE  ReconnectIInv'
<1>1. /\ UNCHANGED <<open, started, binding, stopping, pending, timers>> /\ ReconnectTypes
      /\ stage[t] # "idle"
  BY DEF Timeout, Greeted, Ready, binder, Waiting, ReconnectIInv
<1>2. CASE Ready(t)
  <2>1. ListTools(t, Tail(posted))
    BY <1>2 DEF Ready
  <2>2. /\ stage' \in [Tasks -> Stages]
        /\ \A x \in Inits : stage'[x] = "idle" <=> stage[x] = "idle"
    BY <1>1, <2>1, ListToolsMoves
  <2> QED
    BY <1>1, <2>2, MovesOn
<1>3. CASE Timeout(t) \/ Greeted(t)
  <2>1. PICK s \in {"failing", "ready"} : stage' = [stage EXCEPT ![t] = s]
    BY <1>3 DEF Timeout, Greeted, EntersAndPosts, Enters
  <2>2. s \in Stages /\ s # "idle"
    BY DEF Stages
  <2>3. /\ stage' \in [Tasks -> Stages]
        /\ \A x \in Inits : stage'[x] = "idle" <=> stage[x] = "idle"
    BY <1>1, <2>1, <2>2, StageMoves DEF ReconnectTypes
  <2> QED
    BY <1>1, <2>3, MovesOn
<1> QED
  BY <1>2, <1>3

\* A resync ends without touching the reconnects.
LEMMA SyncEnds ==
    ASSUME ReconnectIInv, NEW t \in Syncs, Enters(t, "idle", 0),
           UNCHANGED <<open, started, binding, stopping, pending, timers>>
    PROVE  ReconnectIInv'
<1>1. stage' = [stage EXCEPT ![t] = "idle"] /\ stage \in [Tasks -> Stages]
  BY DEF Enters, ReconnectIInv, ReconnectTypes
<1>2. \A x \in Inits : x # t /\ x \in Tasks
  BY BinderAssumption DEF Tasks
<1>3. /\ stage' \in [Tasks -> Stages]
      /\ \A x \in Inits : stage'[x] = "idle" <=> stage[x] = "idle"
  BY <1>1, <1>2 DEF Stages
<1> QED
  BY <1>3, MovesOn

\* What remains to be shown when a chain of initializeClient ends.
LEMMA InitEnds ==
    ASSUME ReconnectIInv, NEW t \in Inits, stage[t] # "idle", Enters(t, "idle", 0),
           UNCHANGED <<open, started, stopping>>,
           pending' \in BOOLEAN, timers' \in Nat,
           \/ timers' = timers
           \/ timers' = timers + 1 /\ pending' = TRUE
    PROVE  /\ Chains' = Chains - 1
           /\ PendingIsHonest' => ReconnectIInv'
<1>1. stage' = [stage EXCEPT ![t] = "idle"] /\ stage \in [Tasks -> Stages]
  BY DEF Enters, ReconnectIInv, ReconnectTypes
<1>2. Chains' = Chains - 1
  BY <1>1, ChainEnds
<1>3. timers \in Nat /\ Chains \in Nat /\ timers + Chains <= 2
  BY ChainsFinite DEF ReconnectIInv, ReconnectTypes, AtMostTwoChains, Chains
<1>4. t \in Running(Inits) /\ started
  BY DEF ReconnectIInv, Running
<1>5. ReconnectTypes'
  <2>1. stage' \in [Tasks -> Stages]
    BY <1>1 DEF Stages
  <2> QED
    BY <2>1 DEF ReconnectIInv, ReconnectTypes
<1>6. CASE timers' = timers
  <2>1. timers' + Chains' <= 1
    BY <1>2, <1>3, <1>6
  <2> QED
    BY <1>2, <1>3, <1>4, <1>5, <2>1 DEF ReconnectIInv, AtMostTwoChains, Chains
<1>7. CASE timers' = timers + 1 /\ pending' = TRUE
  <2>1. timers' + Chains' <= 2
    BY <1>2, <1>3, <1>7
  <2> QED
    BY <1>2, <1>4, <1>7, <1>5, <2>1 DEF ReconnectIInv, AtMostTwoChains, Chains
<1> QED
  BY <1>2, <1>6, <1>7

\* applyTools may clear the flag: no more than one chain is left then.
LEMMA ListedStep ==
    ASSUME ReconnectIInv, NEW t \in Tasks, Listed(t)
    PROVE  ReconnectIInv'
<1>1. /\ Enters(t, "idle", 0) /\ stage[t] # "idle" /\ ReconnectTypes
      /\ UNCHANGED <<open, started, binding, stopping, timers>>
      /\ pending' = (pending /\ ~(Bound /\ t \in Inits))
  BY DEF Listed, net, ReconnectIInv
<1>2. CASE t \in Syncs
  <2>1. t \notin Inits
    BY <1>2, BinderAssumption
  <2>2. pending' = pending
    BY <1>1, <2>1, Zenon DEF ReconnectTypes
  <2> QED
    BY <1>1, <1>2, <2>2, SyncEnds
<1>3. CASE t \in Inits
  <2>1. pending' = (pending /\ ~Bound)
    BY <1>1, <1>3, Zenon
  <2>2. pending' \in BOOLEAN /\ timers' \in Nat /\ timers' = timers
    BY <1>1, <2>1 DEF ReconnectTypes
  <2>3. PendingIsHonest'
    BY <1>1, <2>1 DEF PendingIsHonest, Bound
  <2> QED
    BY <1>1, <1>3, <2>2, <2>3, InitEnds
<1> QED
  BY <1>2, <1>3 DEF Tasks

\* A failing chain is replaced by at most one timer.
LEMMA InitFailedStep ==
    ASSUME ReconnectIInv, NEW t \in Tasks, InitFailed(t)
    PROVE  ReconnectIInv'
<1>1. /\ t \in Inits /\ Enters(t, "idle", 0) /\ stage[t] # "idle" /\ ReconnectTypes
      /\ UNCHANGED <<open, started, binding, stopping>>
  BY DEF InitFailed, net, ReconnectIInv
<1>2. CASE Reconnects(binding)
  <2>1. Schedule(FALSE, timers)
    BY <1>2 DEF InitFailed
  <2>2. /\ pending' \in BOOLEAN /\ timers' \in Nat
        /\ \/ pending' = FALSE /\ timers' = timers
           \/ pending' = TRUE /\ timers' = timers + 1
    BY <1>1, <2>1, ScheduleCounts DEF ReconnectTypes
  <2>3. PendingIsHonest'
    BY <1>1, <2>2 DEF PendingIsHonest, ReconnectTypes
  <2> QED
    BY <1>1, <2>2, <2>3, InitEnds
<1>3. CASE ~Reconnects(binding)
  <2>1. pending' = (pending /\ ~Bound) /\ timers' = timers
    BY <1>3 DEF InitFailed
  <2>2. pending' \in BOOLEAN /\ timers' \in Nat
    BY <1>1, <2>1 DEF ReconnectTypes
  <2>3. PendingIsHonest'
    BY <1>1, <2>1 DEF PendingIsHonest, Bound
  <2> QED
    BY <1>1, <2>1, <2>2, <2>3, InitEnds
<1> QED
  BY <1>2, <1>3

LEMMA SyncFailedStep ==
    ASSUME ReconnectIInv, NEW t \in Tasks, SyncFailed(t)
    PROVE  ReconnectIInv'
BY SyncEnds DEF SyncFailed, net, binder

\* What touches neither the chains nor the timers.
LEMMA OtherStep ==
    ReconnectIInv /\ (ToolsChange \/ Notify \/ ServerReceives \/ RemoveClient \/ UNCHANGED vars)
        => ReconnectIInv'
<1> SUFFICES ASSUME ReconnectIInv,
                    ToolsChange \/ Notify \/ ServerReceives \/ RemoveClient \/ UNCHANGED vars
             PROVE  ReconnectIInv'
  OBVIOUS
<1>1. /\ UNCHANGED <<stage, started, open, pending, timers, stopping>>
      /\ binding' \in {binding, "none"}
  BY DEF ToolsChange, Notify, ServerReceives, RemoveClient, vars, net, binder, chains
<1> QED
  BY <1>1, NothingMoves

-----------------------------------------------------------------------------
(* The theorems *)

\* What is under way belongs to the stages of the tasks, and the reconnects are bounded:
\* each needs the other.
BinderIInv == TrafficIInv /\ ReconnectIInv /\ tools \in Nat

LEMMA InitBinder == Init => BinderIInv
<1> SUFFICES ASSUME Init PROVE BinderIInv
  OBVIOUS
<1>1. /\ ReconnectTypes /\ ~open /\ ~started /\ ~pending /\ timers = 0 /\ tools \in Nat
      /\ \A t \in Tasks : stage[t] = "idle"
  BY DEF Init, ReconnectTypes, Stages
<1>2. Running(Inits) = {}
  BY DEF Init, Running, Tasks
<1>3. Chains = 0
  BY <1>2, ChainsFinite
<1>4. ReconnectIInv
  BY <1>1, <1>2, <1>3 DEF ReconnectIInv, PendingIsHonest, AtMostTwoChains, Chains
<1>5. QueuesOK
  BY EmptyQueue DEF Init, QueuesOK
<1>6. DuesOK
  <2>1. << >> \in Seq(Tasks) /\ Len(<< >>) = 0 /\ 1..0 = {}
    BY EmptySeq
  <2> QED
    BY <2>1 DEF Init, DuesOK, AreDue, Distinct
<1>7. \A t \in Syncs : stage[t] \notin {"handshake", "greeted", "ready"}
  BY <1>1 DEF Tasks
<1> QED
  BY <1>1, <1>2, <1>4, <1>5, <1>6, <1>7 DEF BinderIInv, TrafficIInv, Init

LEMMA NextBinder == BinderIInv /\ [Next]_vars => BinderIInv'
<1> SUFFICES ASSUME TrafficIInv, ReconnectIInv, tools \in Nat, [Next]_vars PROVE BinderIInv'
  BY DEF BinderIInv
<1>1. ReconnectIInv'
  BY AddServerStep, AddClientStep, DropStep, ShutdownStep, ReconnectStep, AnswerStep,
     ChangedStep, MovingStep, ListedStep, InitFailedStep, SyncFailedStep, OtherStep
     DEF Next, Continuation
<1>2. TrafficIInv'
  <2>1. ReconnectTypes
    BY DEF ReconnectIInv
  <2> QED
    BY <2>1, AddServerTraffic, AddClientTraffic, ClosingTraffic, ReconnectTraffic, AnswerTraffic,
       ChangedTraffic, TimeoutTraffic, GreetedTraffic, ReadyTraffic, EndTraffic,
       ServerTraffic, NotifyTraffic, OtherTraffic
       DEF Next, Continuation
<1>3. tools' \in Nat
  <2>1. tools' = tools \/ tools' = tools + 1
    BY DEF Next, ToolsChange, Notify, ServerReceives, AddServer, AddClient, RemoveClient,
           Shutdown, Drop, ReconnectFires, ReceiveAnswer, ReceiveChanged, Timeout,
           Continuation, Greeted, Ready, Listed, InitFailed, SyncFailed, vars, server
  <2> QED
    BY <2>1
<1> QED
  BY <1>1, <1>2, <1>3 DEF BinderIInv

\* The strengthened invariant holds throughout: every message under way finds its task
\* waiting for it, no task has two, and reconnects are counted by reconnectPending.
THEOREM ReconnectInvariant == Spec => []BinderIInv
BY InitBinder, NextBinder, PTL DEF Spec

\* Reconnecting does not multiply: however often the connection is lost, requests time
\* out and chains interleave, timers and chains of initializeClient are two at most.
THEOREM ReconnectsBounded == Spec => []AtMostTwoChains
<1>1. BinderIInv => AtMostTwoChains
  BY DEF BinderIInv, ReconnectIInv
<1> QED
  BY <1>1, ReconnectInvariant, PTL

\* reconnectPending never turns scheduleReconnect away without a reconnect under way,
\* as long as the server is bound and the binder not shut down.
THEOREM PendingStaysHonest == Spec => []PendingIsHonest
<1>1. BinderIInv => PendingIsHonest
  BY DEF BinderIInv, ReconnectIInv
<1> QED
  BY <1>1, ReconnectInvariant, PTL

-----------------------------------------------------------------------------
(* A quiet registry is fresh *)

\* The binder keeps the registry up to date.
Watched == Bound /\ ~stopping /\ open /\ serverReady

\* A tools/list_changed behind the i-th message, and a chain of initializeClient whose
\* listing is none of the first i.
Changed(q, i) == \E j \in 1..Len(q) : j > i /\ q[j].kind = "changed"
Fetching == {"handshake", "greeted", "ready", "failing"}
WillList(q, i, stg) ==
    \E t \in Inits :
        \/ stg[t] \in Fetching
        \/ stg[t] = "listing" /\ \A k \in 1..i : q[k].kind = "list" => q[k].task # t

\* Behind a stale listing comes something that lists the tools again.
Covered(i) ==
    notifying \/ timers > 0 \/ Changed(toClient, i) \/ WillList(toClient, i, stage)
StaleAnswersCovered ==
    \A i \in 1..Len(toClient) :
        toClient[i].kind = "list" /\ toClient[i].version # tools => Covered(i)

\* Something is still coming that posts the end of a chain.
Coming ==
    \/ notifying \/ timers > 0 \/ Changed(toClient, 0)
    \/ \E t \in Inits : stage[t] \notin {"idle", "listed"}
    \/ \E t \in Syncs : stage[t] = "listing"

\* The k-th continuation due ends its chain, and registers tools that are not the present.
Ends(k) == stage[posted[k]] \in {"listed", "failing"}
Stale(k) == stage[posted[k]] = "listed" /\ got[posted[k]] # tools

\* When nothing is coming, the last chain to end lists the present tools or fails.
Settled ==
    /\ \A k \in 1..Len(posted) :
          Stale(k) => \E j \in 1..Len(posted) : j > k /\ Ends(j) /\ ~Stale(j)
    /\ (\A k \in 1..Len(posted) : ~Ends(k)) => missed \/ registered = tools

FreshIInv ==
    Watched => StaleAnswersCovered /\ (~Coming => Settled)

\* A chain on its way to a listing, a timer or a notification covers everything.
LEMMA ComingStep ==
    ASSUME \/ notifying' \/ timers' > 0
           \/ \E t \in Inits : stage'[t] \in Fetching
    PROVE  FreshIInv'
<1>1. \A i : Covered(i)'
  BY DEF Covered, WillList
<1>2. Coming'
  BY DEF Coming, Fetching
<1> QED
  BY <1>1, <1>2 DEF FreshIInv, StaleAnswersCovered

LEMMA UnwatchedStep == ~Watched' => FreshIInv'
BY DEF FreshIInv

\* What covers a message still does when the head of the queue is gone or something in
\* it voided, and a task that was not the cover has moved.
LEMMA StillCovered ==
    ASSUME BinderIInv, BinderIInv', NEW d \in {0, 1},
           \A k \in 1..Len(toClient') :
                /\ k + d \in 1..Len(toClient)
                /\ toClient'[k] = toClient[k + d] \/ toClient'[k].kind = "void",
           \A k \in 1..Len(toClient) : k > d /\ toClient[k].kind = "changed" =>
                k - d \in 1..Len(toClient') /\ toClient'[k - d].kind = "changed",
           UNCHANGED <<notifying, timers>>,
           NEW i \in 1..Len(toClient'), Covered(i + d),
           NEW t, \A x \in Inits : x # t => stage'[x] = stage[x],
           t \in Inits => \/ stage[t] \notin Fetching /\ stage[t] # "listing"
                          \/ stage'[t] \in Fetching
                          \/ stage'[t] = stage[t]
                          \/ /\ stage[t] = "listing"
                             /\ \E k \in 1..i + d : /\ toClient[k].kind = "list"
                                                    /\ toClient[k].task = t
    PROVE  Covered(i)'
<1>1. /\ toClient \in Seq(Msgs) /\ Len(toClient) \in Nat
      /\ toClient' \in Seq(Msgs) /\ Len(toClient') \in Nat
  BY LenProperties DEF BinderIInv, TrafficIInv, QueuesOK
<1>2. i \in Nat /\ d \in Nat
  BY <1>1
<1>3. CASE notifying \/ timers > 0
  BY <1>3 DEF Covered
<1>4. CASE Changed(toClient, i + d)
  <2>1. PICK j \in 1..Len(toClient) : j > i + d /\ toClient[j].kind = "changed"
    BY <1>4 DEF Changed
  <2>2. j - d \in 1..Len(toClient') /\ toClient'[j - d].kind = "changed" /\ j - d > i
    BY <1>1, <1>2, <2>1
  <2> QED
    BY <2>2 DEF Covered, Changed
<1>5. CASE WillList(toClient, i + d, stage)
  <2>1. PICK u \in Inits :
            \/ stage[u] \in Fetching
            \/ /\ stage[u] = "listing"
               /\ \A k \in 1..i + d : toClient[k].kind = "list" => toClient[k].task # u
    BY <1>5 DEF WillList
  <2>2. CASE stage'[u] \in Fetching
    BY <2>2 DEF Covered, WillList
  <2>3. CASE stage'[u] = stage[u] /\ stage'[u] \notin Fetching
    <3>1. \A k \in 1..i : k + d \in 1..i + d /\ k \in 1..Len(toClient')
      <4> SUFFICES ASSUME NEW k \in 1..i PROVE k + d \in 1..i + d /\ k \in 1..Len(toClient')
        OBVIOUS
      <4> QED
        BY <1>1, <1>2
    <3>2. ASSUME NEW k \in 1..i, toClient'[k].kind = "list" PROVE toClient'[k].task # u
      <4>1. toClient'[k] = toClient[k + d]
        BY <3>1, <3>2
      <4> QED
        BY <2>1, <2>3, <3>1, <3>2, <4>1
    <3> QED
      BY <2>1, <2>3, <3>2 DEF Covered, WillList
  <2>4. stage'[u] \in Fetching \/ stage'[u] = stage[u]
    <3>1. u # t => stage'[u] = stage[u]
      OBVIOUS
    <3>2. CASE u = t
      BY <2>1, <3>2 DEF Fetching
    <3> QED
      BY <3>1, <3>2
  <2> QED
    BY <2>2, <2>3, <2>4
<1> QED
  BY <1>3, <1>4, <1>5 DEF Covered

\* Something more behind it does not uncover a message.
LEMMA CoveredBehind ==
    ASSUME BinderIInv, UNCHANGED <<notifying, timers, stage>>,
           \A k \in 1..Len(toClient) : k \in 1..Len(toClient') /\ toClient'[k] = toClient[k],
           NEW i \in 1..Len(toClient), Covered(i)
    PROVE  Covered(i)'
<1>1. toClient \in Seq(Msgs) /\ Len(toClient) \in Nat
  BY LenProperties DEF BinderIInv, TrafficIInv, QueuesOK
<1>2. \A k \in 1..i : k \in 1..Len(toClient)
  BY <1>1
<1>3. Changed(toClient, i) => Changed(toClient, i)'
  BY DEF Changed
<1>4. WillList(toClient, i, stage) => WillList(toClient, i, stage)'
  BY <1>2 DEF WillList
<1> QED
  BY <1>3, <1>4 DEF Covered

\* A chain that ends last, failing or with the present tools, settles what is due.
LEMMA LastSettles ==
    ASSUME NEW n \in Nat, Len(posted') = n + 1,
           stage'[posted'[n + 1]] \in {"listed", "failing"},
           stage'[posted'[n + 1]] = "listed" => got'[posted'[n + 1]] = tools'
    PROVE  Settled'
<1>1. n + 1 \in 1..Len(posted') /\ Ends(n + 1)' /\ ~Stale(n + 1)'
  BY DEF Ends, Stale
<1>2. \A k \in 1..Len(posted') : k = n + 1 \/ n + 1 > k
  OBVIOUS
<1> QED
  BY <1>1, <1>2 DEF Settled

LEMMA ToolsChangeFresh ==
    ASSUME ToolsChange
    PROVE  FreshIInv'
<1>1. CASE serverReady
  BY <1>1, ComingStep DEF ToolsChange
<1>2. CASE ~serverReady
  BY <1>2, UnwatchedStep DEF ToolsChange, Watched
<1> QED
  BY <1>1, <1>2

LEMMA NotifyFresh ==
    ASSUME BinderIInv, FreshIInv, Notify
    PROVE  FreshIInv'
<1>1. /\ UNCHANGED <<open, stage, binding, timers, posted, got, serverReady, stopping, tools>>
      /\ Len(toClient) \in Nat
      /\ serverReady /\ open =>
            /\ Len(toClient') = Len(toClient) + 1
            /\ \A k \in 1..Len(toClient) : toClient'[k] = toClient[k]
            /\ toClient'[Len(toClient) + 1].kind = "changed"
  BY NotifyTraffic DEF Notify, BinderIInv, binder
<1>2. CASE serverReady /\ open
  <2> DEFINE n == Len(toClient) + 1
  <2>1. n \in 1..Len(toClient') /\ toClient'[n].kind = "changed"
    BY <1>1, <1>2
  <2>2. \A i \in 1..Len(toClient') : i = n \/ n > i
    BY <1>1, <1>2
  <2>3. n > 0
    BY <1>1
  <2> HIDE DEF n
  <2>4. Coming'
    BY <2>1, <2>3 DEF Coming, Changed
  <2>5. StaleAnswersCovered'
    <3> SUFFICES ASSUME NEW i \in 1..Len(toClient'), toClient'[i].kind = "list"
                 PROVE  Covered(i)'
      BY DEF StaleAnswersCovered
    <3>1. n > i
      BY <2>1, <2>2
    <3> QED
      BY <2>1, <3>1 DEF Covered, Changed
  <2> QED
    BY <2>4, <2>5 DEF FreshIInv
<1>3. CASE ~(serverReady /\ open)
  BY <1>1, <1>3, UnwatchedStep DEF Watched
<1> QED
  BY <1>2, <1>3

LEMMA ServerFresh ==
    ASSUME BinderIInv, FreshIInv, ServerReceives
    PROVE  FreshIInv'
<1>1. /\ UNCHANGED <<open, stage, binding, timers, posted, got, stopping, tools, notifying,
                     missed, registered>>
      /\ Len(toClient) \in Nat
      /\ \A k \in 1..Len(toClient) : k \in 1..Len(toClient') /\ toClient'[k] = toClient[k]
      /\ \A k \in 1..Len(toClient') :
            \/ k \in 1..Len(toClient)
            \/ /\ k = Len(toClient) + 1
               /\ toClient'[k].kind = "list" => /\ toClient'[k].version = tools
                                                /\ toClient'[k].task \in Tasks
                                                /\ stage[toClient'[k].task] = "listing"
      /\ serverReady' => serverReady \/ \E t \in Inits : stage[t] = "handshake"
  BY ServerTraffic DEF ServerReceives, BinderIInv, binder, aux
<1>2. CASE \E t \in Inits : stage[t] = "handshake"
  BY <1>1, <1>2, ComingStep DEF Fetching
<1>3. CASE ~Watched'
  BY <1>3, UnwatchedStep
<1>4. CASE Watched' /\ ~\E t \in Inits : stage[t] = "handshake"
  <2>1. Watched /\ StaleAnswersCovered /\ (~Coming => Settled)
    BY <1>1, <1>4 DEF Watched, Bound, FreshIInv
  <2>2. StaleAnswersCovered'
    <3> SUFFICES ASSUME NEW i \in 1..Len(toClient'), toClient'[i].kind = "list",
                        toClient'[i].version # tools'
                 PROVE  Covered(i)'
      BY DEF StaleAnswersCovered
    <3>1. i \in 1..Len(toClient)
      BY <1>1
    <3>2. Covered(i)
      BY <1>1, <2>1, <3>1 DEF StaleAnswersCovered
    <3> QED
      BY <1>1, <3>1, <3>2, CoveredBehind
  <2>3. Coming => Coming'
    BY <1>1 DEF Coming, Changed
  <2>4. Settled => Settled'
    BY <1>1 DEF Settled, Ends, Stale
  <2> QED
    BY <2>1, <2>2, <2>3, <2>4 DEF FreshIInv
<1> QED
  BY <1>2, <1>3, <1>4

LEMMA ApplicationFresh ==
    ASSUME BinderIInv, AddServer \/ AddClient \/ RemoveClient \/ Shutdown \/ Drop
    PROVE  FreshIInv'
<1>1. TrafficIInv /\ ReconnectIInv
  BY DEF BinderIInv
<1>2. CASE AddServer
  <2>1. \E t \in Inits : stage'[t] = "handshake" \/ ~open'
    BY <1>1, <1>2, AddServerTraffic
  <2> QED
    BY <2>1, ComingStep, UnwatchedStep DEF Fetching, Watched
<1>3. CASE AddClient
  <2>1. toClient' = << >> /\ \E t \in Syncs : stage'[t] = "listing"
    BY <1>1, <1>3, AddClientTraffic
  <2>2. 1..Len(<< >>) = {}
    OBVIOUS
  <2>3. StaleAnswersCovered' /\ Coming'
    BY <2>1, <2>2 DEF StaleAnswersCovered, Coming
  <2> QED
    BY <2>3 DEF FreshIInv
<1>4. CASE RemoveClient \/ Shutdown
  BY <1>4, UnwatchedStep DEF RemoveClient, Shutdown, Watched, Bound
<1>5. CASE Drop
  BY <1>5, UnwatchedStep DEF Drop, Closes, Watched
<1> QED
  BY <1>2, <1>3, <1>4, <1>5

LEMMA ReconnectFresh ==
    ASSUME BinderIInv, ReconnectFires
    PROVE  FreshIInv'
<1>1. UNCHANGED <<binding, stopping>>
  BY DEF ReconnectFires
<1>2. CASE stopping \/ ~Bound
  BY <1>1, <1>2, UnwatchedStep DEF Watched, Bound
<1>3. CASE ~stopping /\ Bound
  <2>1. \E t \in Inits : stage'[t] = "handshake" \/ ~open'
    BY <1>3, ReconnectTraffic DEF BinderIInv
  <2> QED
    BY <2>1, ComingStep, UnwatchedStep DEF Fetching, Watched
<1> QED
  BY <1>2, <1>3

\* Taking the head of the queue to the client leaves its tail.
LEMMA HeadTaken ==
    ASSUME BinderIInv, toClient # << >>, toClient' = Tail(toClient)
    PROVE  /\ Len(toClient) \in Nat /\ 1 \in 1..Len(toClient) /\ Head(toClient) = toClient[1]
           /\ \A k \in 1..Len(toClient') : k + 1 \in 1..Len(toClient)
                                           /\ toClient'[k] = toClient[k + 1]
           /\ \A k \in 1..Len(toClient) : k > 1 => k - 1 \in 1..Len(toClient')
                                                  /\ toClient'[k - 1] = toClient[k]
<1>1. toClient \in Seq(Msgs)
  BY DEF BinderIInv, TrafficIInv, QueuesOK
<1>2. /\ Len(toClient) \in Nat \ {0} /\ Head(toClient) = toClient[1]
      /\ Len(toClient') = Len(toClient) - 1
      /\ \A k \in 1..Len(toClient) - 1 : toClient'[k] = toClient[k + 1]
  BY <1>1, HeadAndTail
<1>3. \A k \in 1..Len(toClient') : k + 1 \in 1..Len(toClient) /\ toClient'[k] = toClient[k + 1]
  BY <1>2
<1>4. \A k \in 1..Len(toClient) : k > 1 => k - 1 \in 1..Len(toClient')
                                          /\ toClient'[k - 1] = toClient[k]
  <2> SUFFICES ASSUME NEW k \in 1..Len(toClient), k > 1
               PROVE  k - 1 \in 1..Len(toClient') /\ toClient'[k - 1] = toClient[k]
    OBVIOUS
  <2>1. k - 1 \in 1..Len(toClient) - 1 /\ (k - 1) + 1 = k
    BY <1>2
  <2> QED
    BY <1>2, <2>1
<1> QED
  BY <1>2, <1>3, <1>4

\* Taking a head other than tools/list_changed: what was covered is, as long as the chain
\* that moves covered nothing.
LEMMA TakenCovered ==
    ASSUME BinderIInv, BinderIInv', toClient # << >>, toClient' = Tail(toClient),
           UNCHANGED <<notifying, timers, tools>>, StaleAnswersCovered,
           NEW t, \A x \in Inits : x # t => stage'[x] = stage[x],
           t \in Inits => \/ stage'[t] = stage[t]
                          \/ /\ stage[t] = "listing"
                             /\ Head(toClient).kind = "list" /\ Head(toClient).task = t
    PROVE  StaleAnswersCovered'
<1>1. /\ Len(toClient) \in Nat /\ 1 \in 1..Len(toClient) /\ Head(toClient) = toClient[1]
      /\ \A k \in 1..Len(toClient') : k + 1 \in 1..Len(toClient)
                                      /\ toClient'[k] = toClient[k + 1]
      /\ \A k \in 1..Len(toClient) : k > 1 => k - 1 \in 1..Len(toClient')
                                             /\ toClient'[k - 1] = toClient[k]
  BY HeadTaken
<1> SUFFICES ASSUME NEW i \in 1..Len(toClient'), toClient'[i].kind = "list",
                    toClient'[i].version # tools'
             PROVE  Covered(i)'
  BY DEF StaleAnswersCovered
<1>2. Covered(i + 1)
  BY <1>1 DEF StaleAnswersCovered
<1>3. 1 \in 1..i + 1
  <2>1. Len(toClient') \in Nat
    BY LenProperties DEF BinderIInv, TrafficIInv, QueuesOK
  <2> QED
    BY <2>1
<1>4. t \in Inits => \/ stage'[t] = stage[t]
                     \/ /\ stage[t] = "listing"
                        /\ \E k \in 1..i + 1 : toClient[k].kind = "list" /\ toClient[k].task = t
  BY <1>1, <1>3
<1> QED
  BY <1>1, <1>2, <1>4, StillCovered

LEMMA AnswerFresh ==
    ASSUME BinderIInv, BinderIInv', FreshIInv, ReceiveAnswer
    PROVE  FreshIInv'
<1> DEFINE m == Head(toClient)
<1>1. /\ toClient # << >> /\ toClient' = Tail(toClient) /\ m.kind # "changed"
      /\ UNCHANGED <<notifying, timers, tools, binding, stopping, open, serverReady, registered,
                     missed>>
  BY DEF ReceiveAnswer, server, binder, aux
<1>2. /\ Len(toClient) \in Nat /\ 1 \in 1..Len(toClient) /\ m = toClient[1]
      /\ \A k \in 1..Len(toClient') : k + 1 \in 1..Len(toClient)
                                      /\ toClient'[k] = toClient[k + 1]
      /\ \A k \in 1..Len(toClient) : k > 1 => k - 1 \in 1..Len(toClient')
                                             /\ toClient'[k - 1] = toClient[k]
  BY <1>1, HeadTaken
<1>3. CASE ~Watched
  <2>1. ~Watched'
    BY <1>1, <1>3 DEF Watched, Bound
  <2> QED
    BY <2>1, UnwatchedStep
<1>4. ASSUME Watched PROVE StaleAnswersCovered /\ (~Coming => Settled)
  BY <1>4 DEF FreshIInv
<1>5. /\ m.kind \in {"welcome", "list", "void"}
      /\ m.kind = "welcome" => m.task \in Inits
      /\ m.kind \in {"welcome", "list"} => /\ m.task \in Tasks
                                           /\ stage[m.task] \in {"handshake", "listing"}
      /\ m.kind = "list" => stage[m.task] = "listing"
  BY <1>1, <1>2 DEF BinderIInv, TrafficIInv, QueuesOK, Awaited, Awaits, Personal
<1>6. CASE Watched /\ m.kind = "void"
  <2>1. UNCHANGED <<stage, got, posted>>
    BY <1>6 DEF ReceiveAnswer, chains
  <2>2. StaleAnswersCovered'
    BY <1>1, <1>4, <1>6, <2>1, TakenCovered
  <2>3. Coming => Coming'
    <3>1. Changed(toClient, 0) => Changed(toClient', 0)
      <4> SUFFICES ASSUME NEW j \in 1..Len(toClient), toClient[j].kind = "changed"
                   PROVE  Changed(toClient', 0)
        BY DEF Changed
      <4>1. j > 1
        BY <1>2, <1>6
      <4>2. j - 1 \in 1..Len(toClient') /\ toClient'[j - 1].kind = "changed" /\ j - 1 > 0
        BY <1>2, <4>1
      <4> QED
        BY <4>2 DEF Changed
    <3> QED
      BY <1>1, <2>1, <3>1 DEF Coming
  <2>4. Settled => Settled'
    BY <1>1, <2>1 DEF Settled, Ends, Stale
  <2> QED
    BY <1>4, <1>6, <2>2, <2>3, <2>4 DEF FreshIInv
<1>7. CASE m.kind = "welcome"
  <2>1. stage' = [stage EXCEPT ![m.task] = "greeted"]
    BY <1>7 DEF ReceiveAnswer, EntersAndPosts, Enters
  <2>2. m.task \in Inits /\ m.task \in Tasks /\ stage \in [Tasks -> Stages]
    BY <1>5, <1>7 DEF BinderIInv, ReconnectIInv, ReconnectTypes
  <2>3. stage'[m.task] \in Fetching
    BY <2>1, <2>2 DEF Fetching
  <2> QED
    BY <2>2, <2>3, ComingStep
<1>8. CASE Watched /\ m.kind = "list"
  <2> DEFINE t == m.task
  <2>1. /\ t \in Tasks /\ stage[t] = "listing"
        /\ stage' = [stage EXCEPT ![t] = "listed"] /\ got' = [got EXCEPT ![t] = m.version]
        /\ posted' = Append(posted, t)
    BY <1>5, <1>8 DEF ReceiveAnswer, EntersAndPosts, Enters
  <2>2. /\ stage \in [Tasks -> Stages] /\ DOMAIN got = Tasks /\ posted \in Seq(Tasks)
        /\ \A x \in Inits : x \in Tasks
    BY DEF BinderIInv, ReconnectIInv, ReconnectTypes, TrafficIInv, DuesOK, Tasks
  <2>3. /\ \A x \in Tasks : x # t => stage'[x] = stage[x]
        /\ stage'[t] = "listed" /\ got'[t] = m.version
    BY <2>1, <2>2
  <2>4. Head(toClient).kind = "list" /\ Head(toClient).task = t
    BY <1>8
  <2> HIDE DEF t
  <2>5. StaleAnswersCovered'
    BY <1>1, <1>4, <1>8, <2>1, <2>2, <2>3, <2>4, TakenCovered
  <2>6. CASE m.version = tools
    <3>1. /\ Len(posted) \in Nat /\ Len(posted') = Len(posted) + 1
          /\ posted'[Len(posted) + 1] = t
      BY <2>1, <2>2, Appended
    <3>2. Settled'
      BY <1>1, <2>3, <2>6, <3>1, LastSettles
    <3> QED
      BY <2>5, <3>2 DEF FreshIInv
  <2>7. CASE m.version # tools
    <3>1. Covered(1)
      BY <1>2, <1>4, <1>8, <2>7 DEF StaleAnswersCovered
    <3>2. CASE notifying \/ timers > 0
      BY <1>1, <3>2, ComingStep
    <3>3. CASE Changed(toClient, 1)
      <4>1. PICK j \in 1..Len(toClient) : j > 1 /\ toClient[j].kind = "changed"
        BY <3>3 DEF Changed
      <4>2. j - 1 \in 1..Len(toClient') /\ toClient'[j - 1].kind = "changed" /\ j - 1 > 0
        BY <1>2, <4>1
      <4>3. Coming'
        BY <4>2 DEF Coming, Changed
      <4> QED
        BY <2>5, <4>3 DEF FreshIInv
    <3>4. CASE WillList(toClient, 1, stage)
      <4>1. PICK u \in Inits : stage[u] \in Fetching \/ (stage[u] = "listing" /\ u # t)
        <5>1. 1 \in 1..1
          OBVIOUS
        <5> QED
          BY <1>2, <2>4, <3>4, <5>1 DEF WillList
      <4>2. u # t /\ stage'[u] = stage[u]
        BY <2>1, <2>2, <2>3, <4>1 DEF Fetching
      <4>3. Coming'
        BY <4>1, <4>2 DEF Coming, Fetching
      <4> QED
        BY <2>5, <4>3 DEF FreshIInv
    <3> QED
      BY <3>1, <3>2, <3>3, <3>4 DEF Covered
  <2> QED
    BY <2>6, <2>7
<1> QED
  BY <1>3, <1>5, <1>6, <1>7, <1>8

LEMMA ChangedFresh ==
    ASSUME BinderIInv, BinderIInv', FreshIInv, ReceiveChanged
    PROVE  FreshIInv'
<1>1. /\ toClient # << >> /\ toClient' = Tail(toClient)
      /\ UNCHANGED <<notifying, timers, tools, binding, stopping, open, serverReady>>
  BY DEF ReceiveChanged, server, binder
<1>2. CASE ~Watched
  <2>1. ~Watched'
    BY <1>1, <1>2 DEF Watched, Bound
  <2> QED
    BY <2>1, UnwatchedStep
<1>3. CASE Watched
  <2> DEFINE t == CHOOSE x \in Free(Syncs) : TRUE
  <2>1. StaleAnswersCovered /\ t \in Syncs /\ stage[t] = "idle" /\ ListTools(t, posted)
    BY <1>3 DEF FreshIInv, ReceiveChanged, Watched, Free
  <2> HIDE DEF t
  <2>2. t \in Tasks /\ t \notin Inits /\ (\A x \in Inits : x \in Tasks)
        /\ stage \in [Tasks -> Stages] /\ posted \in Seq(Tasks)
    BY <2>1, BinderAssumption
       DEF Tasks, BinderIInv, ReconnectIInv, ReconnectTypes, TrafficIInv, DuesOK
  <2>3. PICK s \in {"listing", "failing"} :
            /\ stage' = [stage EXCEPT ![t] = s]
            /\ s = "failing" => posted' = Append(posted, t)
    BY <2>1 DEF ListTools, Enters, EntersAndPosts
  <2>4. (\A x \in Inits : x # t => stage'[x] = stage[x]) /\ stage'[t] = s
    BY <2>2, <2>3
  <2>5. StaleAnswersCovered'
    BY <1>1, <2>1, <2>2, <2>4, TakenCovered
  <2>6. CASE s = "listing"
    <3>1. Coming'
      BY <2>1, <2>4, <2>6 DEF Coming
    <3> QED
      BY <2>5, <3>1 DEF FreshIInv
  <2>7. CASE s = "failing"
    <3>1. /\ Len(posted) \in Nat /\ Len(posted') = Len(posted) + 1
          /\ posted'[Len(posted) + 1] = t
      BY <2>2, <2>3, <2>7, Appended
    <3>2. Settled'
      BY <2>4, <2>7, <3>1, LastSettles
    <3> QED
      BY <2>5, <3>2 DEF FreshIInv
  <2> QED
    BY <2>3, <2>6, <2>7
<1> QED
  BY <1>2, <1>3

\* Voiding the messages of a task that fails uncovers nothing.
LEMMA TimeoutFresh ==
    ASSUME BinderIInv, BinderIInv', FreshIInv, NEW t \in Tasks, Timeout(t)
    PROVE  FreshIInv'
<1>1. /\ toClient' = Voided(toClient, t) /\ stage' = [stage EXCEPT ![t] = "failing"]
      /\ posted' = Append(posted, t)
      /\ UNCHANGED <<notifying, timers, tools, binding, stopping, open, serverReady>>
  BY DEF Timeout, server, binder, EntersAndPosts, Enters
<1>2. /\ stage \in [Tasks -> Stages] /\ posted \in Seq(Tasks) /\ toClient \in Seq(Msgs)
      /\ \A x \in Inits : x \in Tasks
  BY DEF Tasks, BinderIInv, ReconnectIInv, ReconnectTypes, TrafficIInv, DuesOK, QueuesOK
<1>3. (\A x \in Inits : x # t => stage'[x] = stage[x]) /\ stage'[t] = "failing"
  BY <1>1, <1>2
<1>4. CASE ~Watched
  <2>1. ~Watched'
    BY <1>1, <1>4 DEF Watched, Bound
  <2> QED
    BY <2>1, UnwatchedStep
<1>5. CASE Watched
  <2>1. StaleAnswersCovered
    BY <1>5 DEF FreshIInv
  <2>2. /\ Len(toClient') = Len(toClient) /\ Len(toClient) \in Nat
        /\ \A k \in 1..Len(toClient) : toClient'[k] = toClient[k] \/ toClient'[k].kind = "void"
        /\ \A k \in 1..Len(toClient) : toClient[k].kind = "changed" => toClient'[k] = toClient[k]
    <3>1. /\ Len(toClient') = Len(toClient)
          /\ \A k \in 1..Len(toClient) : IF Personal(toClient[k]) /\ toClient[k].task = t
                                         THEN toClient'[k].kind = "void"
                                         ELSE toClient'[k] = toClient[k]
      <4>1. /\ Len(Voided(toClient, t)) = Len(toClient)
            /\ \A k \in 1..Len(toClient) : IF Personal(toClient[k]) /\ toClient[k].task = t
                                           THEN Voided(toClient, t)[k].kind = "void"
                                           ELSE Voided(toClient, t)[k] = toClient[k]
        BY <1>2, WithinVoided
      <4> QED
        BY <1>1, <4>1
    <3>2. Len(toClient) \in Nat
      BY <1>2, LenProperties
    <3> QED
      BY <3>1, <3>2 DEF Personal
  <2>3. StaleAnswersCovered'
    <3> SUFFICES ASSUME NEW i \in 1..Len(toClient'), toClient'[i].kind = "list",
                        toClient'[i].version # tools'
                 PROVE  Covered(i)'
      BY DEF StaleAnswersCovered
    <3>1. Covered(i) /\ i \in Nat
      BY <1>1, <2>1, <2>2 DEF StaleAnswersCovered
    <3>2. PICK d \in {0, 1} : d = 0
      OBVIOUS
    <3>3. Covered(i + d)
      <4>1. i + d = i
        BY <3>1, <3>2
      <4> QED
        BY <3>1, <4>1
    <3>4. \A k \in 1..Len(toClient') :
              /\ k + d \in 1..Len(toClient)
              /\ toClient'[k] = toClient[k + d] \/ toClient'[k].kind = "void"
      BY <2>2, <3>2
    <3>5. \A k \in 1..Len(toClient) : k > d /\ toClient[k].kind = "changed" =>
              k - d \in 1..Len(toClient') /\ toClient'[k - d].kind = "changed"
      BY <2>2, <3>2
    <3>6. stage'[t] \in Fetching
      BY <1>3 DEF Fetching
    <3>7. UNCHANGED <<notifying, timers>> /\ \A x \in Inits : x # t => stage'[x] = stage[x]
      BY <1>1, <1>3
    <3> QED
      BY <3>3, <3>4, <3>5, <3>6, <3>7, StillCovered
  <2>4. Settled'
    <3>1. /\ Len(posted) \in Nat /\ Len(posted') = Len(posted) + 1
          /\ posted'[Len(posted) + 1] = t
      BY <1>1, <1>2, Appended
    <3> QED
      BY <1>3, <3>1, LastSettles
  <2> QED
    BY <2>3, <2>4 DEF FreshIInv
<1> QED
  BY <1>4, <1>5

LEMMA ReadyFresh ==
    ASSUME BinderIInv, FreshIInv, NEW t \in Tasks, Greeted(t) \/ Ready(t)
    PROVE  FreshIInv'
<1>1. TrafficIInv /\ ReconnectIInv
  BY DEF BinderIInv
<1>2. CASE Greeted(t)
  <2>1. t \in Inits /\ stage'[t] = "ready"
    BY <1>1, <1>2, GreetedTraffic
  <2> QED
    BY <2>1, ComingStep DEF Fetching
<1>3. CASE Ready(t)
  <2>1. /\ t \in Inits /\ Clear(toClient, t) /\ toClient' = toClient
        /\ stage'[t] = "listing" \/ stage'[t] = "failing"
    BY <1>1, <1>3, ReadyTraffic
  <2>2. CASE stage'[t] = "failing"
    BY <2>1, <2>2, ComingStep DEF Fetching
  <2>3. CASE stage'[t] = "listing"
    <3>1. Coming'
      BY <2>1, <2>3 DEF Coming
    <3>2. Len(toClient) \in Nat
      BY LenProperties DEF BinderIInv, TrafficIInv, QueuesOK
    <3>3. StaleAnswersCovered'
      <4> SUFFICES ASSUME NEW i \in 1..Len(toClient') PROVE Covered(i)'
        BY DEF StaleAnswersCovered
      <4>1. \A k \in 1..i : k \in 1..Len(toClient)
        BY <2>1, <3>2
      <4>2. \A k \in 1..i : toClient'[k].kind = "list" => toClient'[k].task # t
        BY <2>1, <4>1 DEF Clear, Personal
      <4> QED
        BY <2>1, <2>3, <4>2 DEF Covered, WillList
    <3> QED
      BY <3>1, <3>3 DEF FreshIInv
  <2> QED
    BY <2>1, <2>2, <2>3
<1> QED
  BY <1>2, <1>3

\* A failing chain of initializeClient schedules the next.
LEMMA InitFailedFresh ==
    ASSUME BinderIInv, FreshIInv, NEW t \in Tasks, InitFailed(t)
    PROVE  FreshIInv'
<1>1. UNCHANGED <<binding, stopping>> /\ t \in Inits /\ stage[t] = "failing"
  BY DEF InitFailed
<1>2. CASE stopping \/ ~Bound
  BY <1>1, <1>2, UnwatchedStep DEF Watched, Bound
<1>3. CASE ~stopping /\ Bound
  <2>1. binding # "plain" /\ binding \in {"none", "server", "client", "plain"}
    <3>1. t \in Running(Inits)
      BY <1>1 DEF Running
    <3> QED
      BY <3>1 DEF BinderIInv, TrafficIInv
  <2>2. Reconnects(binding)
    BY <1>3, <2>1 DEF Reconnects, Bound
  <2>3. timers' = timers + 1 /\ timers \in Nat
    BY <1>3, <2>2 DEF InitFailed, Schedule, BinderIInv, ReconnectIInv, ReconnectTypes
  <2>4. timers' > 0
    BY <2>3
  <2> QED
    BY <2>4, ComingStep
<1> QED
  BY <1>2, <1>3

\* The end of a chain that did not list, or whose listing is now registered.
LEMMA EndFresh ==
    ASSUME BinderIInv, FreshIInv, NEW t \in Tasks, Listed(t) \/ SyncFailed(t)
    PROVE  FreshIInv'
<1>1. /\ UNCHANGED <<notifying, timers, tools, binding, stopping, open, serverReady, toClient>>
      /\ IsNext(t) /\ posted' = Tail(posted) /\ Enters(t, "idle", 0)
      /\ stage[t] = "listed" \/ (stage[t] = "failing" /\ t \in Syncs /\ missed')
      /\ stage[t] = "listed" /\ Bound => registered' = got[t]
  BY DEF Listed, SyncFailed, server, binder, net
<1>2. /\ stage \in [Tasks -> Stages] /\ DOMAIN got = Tasks /\ DuesOK
      /\ \A x \in Tasks : x \in Syncs => x \notin Inits
      /\ \A x \in Inits : x \in Tasks
      /\ \A x \in Syncs : x \in Tasks
  BY BinderAssumption DEF Tasks, BinderIInv, ReconnectIInv, ReconnectTypes, TrafficIInv
<1>3. /\ \A x \in Tasks : x # t => stage'[x] = stage[x] /\ got'[x] = got[x]
      /\ stage'[t] = "idle"
  BY <1>1, <1>2 DEF Enters
<1>4. CASE ~Watched
  <2>1. ~Watched'
    BY <1>1, <1>4 DEF Watched, Bound
  <2> QED
    BY <2>1, UnwatchedStep
<1>5. CASE Watched
  <2>1. StaleAnswersCovered /\ (~Coming => Settled)
    BY <1>5 DEF FreshIInv
  <2>2. StaleAnswersCovered'
    <3> SUFFICES ASSUME NEW i \in 1..Len(toClient'), Covered(i)
                 PROVE  Covered(i)'
      BY <1>1, <2>1 DEF StaleAnswersCovered
    <3>1. CASE notifying \/ timers > 0 \/ Changed(toClient, i)
      BY <1>1, <3>1 DEF Covered
    <3>2. CASE WillList(toClient, i, stage)
      <4>1. PICK u \in Inits :
                \/ stage[u] \in Fetching
                \/ /\ stage[u] = "listing"
                   /\ \A k \in 1..i : toClient[k].kind = "list" => toClient[k].task # u
        BY <3>2 DEF WillList
      <4>2. u # t /\ stage'[u] = stage[u]
        BY <1>1, <1>2, <1>3, <4>1 DEF Fetching
      <4> QED
        BY <1>1, <4>1, <4>2 DEF Covered, WillList
    <3> QED
      BY <3>1, <3>2 DEF Covered
  <2>3. Coming => Coming'
    <3>1. ASSUME NEW x \in Inits, stage[x] \notin {"idle", "listed"} PROVE x # t /\ stage'[x] = stage[x]
      BY <1>1, <1>2, <1>3, <3>1
    <3>2. ASSUME NEW x \in Syncs, stage[x] = "listing" PROVE x # t /\ stage'[x] = stage[x]
      BY <1>1, <1>2, <1>3, <3>2
    <3> QED
      BY <1>1, <3>1, <3>2 DEF Coming
  <2>4. ASSUME Settled PROVE Settled'
    <3>1. /\ Len(posted) \in Nat /\ Len(posted') = Len(posted) - 1 /\ posted[1] = t
          /\ \A k \in 1..Len(posted') : posted'[k] = posted[k + 1] /\ posted'[k] # t
          /\ posted \in Seq(Tasks) /\ posted # << >>
      BY <1>1, <1>2, DuesLeft DEF DuesOK, IsNext
    <3>2. /\ \A k \in 1..Len(posted') : k \in Nat /\ k + 1 \in 1..Len(posted) /\ posted[k + 1] \in Tasks
          /\ 1 \in 1..Len(posted)
      <4>1. Len(posted) # 0
        BY <3>1
      <4> QED
        BY <3>1, <4>1
    <3>3. \A k \in 1..Len(posted') : (Ends(k)' <=> Ends(k + 1)) /\ (Stale(k)' <=> Stale(k + 1))
      BY <1>1, <1>3, <3>1, <3>2 DEF Ends, Stale
    <3>4. \A j \in 1..Len(posted) : j > 1 => j - 1 \in 1..Len(posted') /\ (j - 1) + 1 = j
      BY <3>1
    <3>5. ASSUME NEW k \in 1..Len(posted'), Stale(k)'
          PROVE  \E j \in 1..Len(posted') : j > k /\ Ends(j)' /\ ~Stale(j)'
      <4>1. PICK j \in 1..Len(posted) : j > k + 1 /\ Ends(j) /\ ~Stale(j)
        BY <2>4, <3>2, <3>3, <3>5 DEF Settled
      <4>2. j > 1 /\ j - 1 > k /\ j \in Nat
        BY <3>1, <3>2, <4>1
      <4>3. PICK i \in 1..Len(posted') : i = j - 1 /\ i + 1 = j
        BY <3>4, <4>2
      <4>4. Ends(i)' /\ ~Stale(i)'
        BY <3>3, <4>1, <4>3
      <4> QED
        BY <4>2, <4>3, <4>4
    <3>6. ASSUME \A k \in 1..Len(posted') : ~Ends(k)'
          PROVE  missed' \/ registered' = tools'
      <4>1. CASE stage[t] = "failing"
        BY <1>1, <4>1
      <4>2. CASE stage[t] = "listed"
        <5>1. ~Stale(1)
          <6> SUFFICES ASSUME Stale(1) PROVE FALSE
            OBVIOUS
          <6>1. PICK j \in 1..Len(posted) : j > 1 /\ Ends(j)
            BY <2>4, <3>2 DEF Settled
          <6>2. PICK i \in 1..Len(posted') : i + 1 = j
            BY <3>4, <6>1
          <6> QED
            BY <3>3, <3>6, <6>1, <6>2
        <5>2. got[t] = tools
          BY <3>1, <4>2, <5>1 DEF Stale
        <5> QED
          BY <1>1, <1>5, <4>2, <5>2 DEF Watched
      <4> QED
        BY <1>1, <4>1, <4>2
    <3> QED
      BY <3>5, <3>6 DEF Settled
  <2> QED
    BY <2>1, <2>2, <2>3, <2>4 DEF FreshIInv
<1> QED
  BY <1>4, <1>5

LEMMA StutterFresh ==
    ASSUME FreshIInv, UNCHANGED vars
    PROVE  FreshIInv'
BY DEF FreshIInv, Watched, Bound, StaleAnswersCovered, Covered, WillList, Changed, Coming,
       Settled, Ends, Stale, vars, server, net, binder, chains, aux

LEMMA NextFresh == BinderIInv /\ BinderIInv' /\ FreshIInv /\ [Next]_vars => FreshIInv'
BY ToolsChangeFresh, NotifyFresh, ServerFresh, ApplicationFresh, ReconnectFresh, AnswerFresh,
   ChangedFresh, TimeoutFresh, ReadyFresh, InitFailedFresh, EndFresh, StutterFresh
   DEF Next, Continuation

\* While the binder keeps a server's tools, every listing that is stale has something
\* behind it that lists again, and the last chain due to end has the present tools.
THEOREM FreshInvariant == Spec => []FreshIInv
<1>1. Init => FreshIInv
  BY UnwatchedStep DEF Init, FreshIInv, Watched, Bound
<1> QED
  BY <1>1, InitBinder, NextBinder, NextFresh, PTL DEF Spec

\* Coalesced notifications, the initial listing, resyncs, timeouts and reconnects, in any
\* order: when everything has arrived, the registry has the server's present tools,
\* unless the last listing failed.
THEOREM QuietRegistryIsFresh == Spec => []QuietIsFresh
<1>1. BinderIInv /\ FreshIInv => QuietIsFresh
  <2> SUFFICES ASSUME BinderIInv, FreshIInv, Quiet, Bound, ~stopping, open, serverReady
               PROVE  missed \/ registered = tools
    BY DEF QuietIsFresh
  <2>1. toClient = << >> /\ posted = << >> /\ 1..Len(<< >>) = {}
    BY DEF Quiet
  <2>2. ~Changed(toClient, 0) /\ \A k \in 1..Len(posted) : ~Ends(k)
    BY <2>1 DEF Changed
  <2>3. ~(timers > 0) /\ ~notifying
    BY DEF Quiet
  <2>4. \A t \in Tasks : stage[t] = "idle"
    BY DEF Quiet, Running
  <2>5. ~Coming
    BY <2>2, <2>3, <2>4 DEF Coming, Tasks
  <2> QED
    BY <2>2, <2>5 DEF FreshIInv, Watched, Settled
<1> QED
  BY <1>1, ReconnectInvariant, FreshInvariant, PTL

=============================================================================
