--------------------- MODULE McpHttpServerTransportProofs ---------------------
(***************************************************************************)
(* The HTTP server's table of waiting requests and its queue of messages,  *)
(* for any number of connections, ids, sessions and starts, and any limit  *)
(* of the queue.                                                           *)
(***************************************************************************)
EXTENDS McpHttpServerTransport, TLAPS

\* A connection that got an answer is closed.
RepliesAreOver == \A c \in Conns : reply[c] # None => phase[c] = "closed"

\* A request whose handler still runs has been accepted, and nobody has its answer.
HandlersOweAnswers ==
    \A c \in handling : phase[c] \in {"waiting", "left", "closed"} /\ \A d \in Conns : reply[d] # c

\* What is under way has an open transport to arrive at.
SentWhileOpen == \A c \in Conns : phase[c] = "sent" => open

\* What makes the routing inductive: an answer is given once, and only to the connection
\* the entry of its id names.
RoutingIInv ==
    /\ TypeOK
    /\ WaitersHaveEntries
    /\ RepliesAreOver
    /\ HandlersOweAnswers
    /\ SentWhileOpen
    /\ ForeignOnlyIfReused

\* What makes the queue inductive: nothing goes out before it is sent.
QueueIInv == TypeOK /\ QueueIsRecent /\ flushed <= sent

-----------------------------------------------------------------------------
(* Types *)

\* Before and after its post, a connection has an id.
LEMMA PostHasId == TypeOK => \A c \in Conns : post[c].id \in Ids
<1>1. NoPost.id \in Ids
  BY ServerAssumption DEF NoPost
<1> QED
  BY <1>1 DEF TypeOK, Posts

\* Within shortens by at most its first elements.
LEMMA WithinQueue ==
    ASSUME NEW q \in Seq(Nat), Len(q) <= Cap + 1
    PROVE  /\ Within(q) \in Seq(Nat)
           /\ Len(Within(q)) <= Cap
           /\ \E n \in {0, 1} : /\ Len(Within(q)) = Len(q) - n
                                /\ \A k \in 1 .. Len(q) - n : Within(q)[k] = q[k + n]
           /\ q # << >> => Within(q) # << >>
<1>1. CASE Len(q) <= Cap
  BY <1>1, ServerAssumption DEF Within
<1>2. CASE Len(q) = Cap + 1
  <2>1. Within(q) = SubSeq(q, 2, Len(q))
    BY <1>2, ServerAssumption DEF Within
  <2>2. Within(q) \in Seq(Nat) /\ Len(Within(q)) = Len(q) - 1
    BY <1>2, <2>1, ServerAssumption
  <2>3. \A k \in 1 .. Len(q) - 1 : Within(q)[k] = q[k + 1]
    BY <1>2, <2>1, ServerAssumption
  <2> QED
    BY <1>2, <2>2, <2>3, ServerAssumption
<1> QED
  BY <1>1, <1>2, ServerAssumption

\* Every action keeps the types.
LEMMA TypeStep == ASSUME TypeOK, QueueIsRecent, Next PROVE TypeOK'
<1> USE ServerAssumption DEF TypeOK, conns, Phases, Open, Waiters
<1>1. CASE Start
  BY <1>1 DEF Start
<1>2. CASE Stop
  <2>1. phase' \in [Conns -> Phases]
    BY <1>2 DEF Stop
  <2>2. pending' \in [Ids -> Conns \cup {None}] /\ queue' \in Seq(Nat)
    BY <1>2 DEF Stop
  <2> QED
    BY <1>2, <2>1, <2>2 DEF Stop
<1>3. CASE SendOwn
  <2>1. Append(queue, sent + 1) \in Seq(Nat) /\ Len(Append(queue, sent + 1)) <= Cap + 1
    BY DEF QueueIsRecent
  <2>2. Within(Append(queue, sent + 1)) \in Seq(Nat)
    BY <2>1, WithinQueue
  <2>3. queue' \in Seq(Nat) /\ sent' \in Nat
    BY <1>3, <2>2 DEF SendOwn
  <2> QED
    BY <1>3, <2>3 DEF SendOwn
<1>4. ASSUME NEW c \in Conns, Arrive(c) PROVE TypeOK'
  <2>1. post' \in [Conns -> Posts \cup {NoPost}]
    BY <1>4 DEF Arrive, Posts
  <2>2. phase' \in [Conns -> Phases]
    BY <1>4 DEF Arrive
  <2> QED
    BY <1>4, <2>1, <2>2 DEF Arrive
<1>5. ASSUME NEW c \in Conns, Disconnect(c) PROVE TypeOK'
  BY <1>5 DEF Disconnect
<1>6. ASSUME NEW c \in Conns, Refuse(c) PROVE TypeOK'
  BY <1>6 DEF Refuse
<1>7. ASSUME NEW c \in Conns, Accept(c) PROVE TypeOK'
  BY <1>7, PostHasId DEF Accept
<1>8. ASSUME NEW c \in Conns, TakeNote(c) PROVE TypeOK'
  <2>1. flushed' \in Nat
    BY <1>8 DEF TakeNote, Flushes
  <2> QED
    BY <1>8, <2>1 DEF TakeNote, Flushes
<1>9. ASSUME NEW c \in Conns, EndSession(c) PROVE TypeOK'
  <2>1. phase' \in [Conns -> Phases]
    BY <1>9 DEF EndSession
  <2>2. pending' \in [Ids -> Conns \cup {None}] /\ queue' \in Seq(Nat)
    BY <1>9 DEF EndSession
  <2>3. session' \in Nat \ {0}
    BY <1>9 DEF EndSession
  <2>4. UNCHANGED <<open, post, reply, handling, sent, flushed, starts>>
    BY <1>9 DEF EndSession
  <2> QED
    BY <2>1, <2>2, <2>3, <2>4
<1>10. ASSUME NEW c \in Conns, SendAnswer(c) PROVE TypeOK'
  <2>1. flushed' \in Nat /\ queue' \in Seq(Nat)
    <3>1. CASE Flushes
      BY <3>1 DEF Flushes
    <3>2. CASE UNCHANGED <<queue, flushed>>
      BY <3>2
    <3> QED
      BY <1>10, <3>1, <3>2, Zenon DEF SendAnswer
  <2>2. phase' \in [Conns -> Phases]
    BY <1>10 DEF SendAnswer
  <2>3. pending' \in [Ids -> Conns \cup {None}] /\ reply' \in [Conns -> Conns \cup {None}]
    BY <1>10 DEF SendAnswer
  <2> QED
    BY <1>10, <2>1, <2>2, <2>3 DEF SendAnswer
<1>11. ASSUME NEW i \in Ids, TimeOut(i) PROVE TypeOK'
  BY <1>11 DEF TimeOut
<1> QED
  BY <1>1, <1>2, <1>3, <1>4, <1>5, <1>6, <1>7, <1>8, <1>9, <1>10, <1>11 DEF Next, Process

-----------------------------------------------------------------------------
(* Routing *)

\* Without an entry, after it was accepted.
Gone == {"left", "closed"}

USE DEF Gone, Open

Routing ==
    /\ WaitersHaveEntries /\ RepliesAreOver /\ HandlersOweAnswers
    /\ SentWhileOpen /\ ForeignOnlyIfReused

\* Most steps only close connections, or leave them, and take their entries away.
LEMMA ClosingRoutes ==
    ASSUME RoutingIInv, TypeOK',
           \A c \in Conns : \/ phase'[c] \in {phase[c], "closed"}
                            \/ phase[c] = "waiting" /\ phase'[c] = "left",
           \A i \in Ids : pending'[i] = IF pending[i] # None /\ phase'[pending[i]] \in Gone
                                        THEN None ELSE pending[i],
           UNCHANGED <<post, reply, handling>>,
           open' = open \/ \A c \in Conns : phase'[c] \notin {"sent", "waiting"}
    PROVE  Routing'
<1>1. WaitersHaveEntries'
  <2>1. ASSUME NEW c \in Conns, phase'[c] = "waiting"
        PROVE  open' /\ pending'[post[c].id] = c
    <3>1. phase[c] = "waiting" /\ open' = open
      BY <2>1
    <3>2. open /\ pending[post[c].id] = c /\ post[c].id \in Ids
      BY <3>1, PostHasId DEF RoutingIInv, WaitersHaveEntries
    <3> QED
      BY <2>1, <3>1, <3>2
  <2>2. ASSUME NEW i \in Ids, pending'[i] # None
        PROVE  phase'[pending'[i]] = "waiting" /\ post[pending'[i]].id = i
    <3>1. pending'[i] = pending[i] /\ pending[i] # None /\ phase'[pending[i]] \notin Gone
      BY <2>2
    <3>2. phase[pending[i]] = "waiting" /\ post[pending[i]].id = i /\ pending[i] \in Conns
      BY <3>1 DEF RoutingIInv, WaitersHaveEntries, TypeOK
    <3> QED
      BY <3>1, <3>2
  <2> QED
    BY <2>1, <2>2 DEF WaitersHaveEntries
<1>2. RepliesAreOver'
  BY DEF RoutingIInv, RepliesAreOver
<1>3. HandlersOweAnswers'
  BY DEF RoutingIInv, HandlersOweAnswers, TypeOK
<1>4. ForeignOnlyIfReused'
  BY DEF RoutingIInv, ForeignOnlyIfReused, TypeOK
<1>5. SentWhileOpen'
  BY DEF RoutingIInv, SentWhileOpen
<1> QED
  BY <1>1, <1>2, <1>3, <1>4, <1>5 DEF Routing

\* A step that touches neither connections nor entries.
LEMMA QuietRoutes ==
    ASSUME RoutingIInv, TypeOK', UNCHANGED <<open, phase, post, reply, pending, handling>>
    PROVE  Routing'
<1>1. \A i \in Ids : pending[i] # None => phase[pending[i]] = "waiting"
  BY DEF RoutingIInv, WaitersHaveEntries
<1> QED
  BY <1>1, ClosingRoutes

LEMMA StartRoutes == ASSUME RoutingIInv, TypeOK', Start PROVE Routing'
<1>1. \A i \in Ids : pending[i] # None => phase[pending[i]] = "waiting" /\ pending[i] \in Conns
  BY DEF RoutingIInv, WaitersHaveEntries, TypeOK
<1>2. \A c \in Conns : phase[c] \notin {"sent", "waiting"}
  BY DEF Start, RoutingIInv, WaitersHaveEntries, SentWhileOpen
<1>3. UNCHANGED <<phase, post, reply, pending, handling>>
  BY DEF Start, conns
<1> QED
  BY <1>1, <1>2, <1>3, ClosingRoutes

LEMMA StopRoutes == ASSUME RoutingIInv, TypeOK', Stop PROVE Routing'
<1>1. \A i \in Ids : pending[i] # None => phase[pending[i]] = "waiting" /\ pending[i] \in Conns
  BY DEF RoutingIInv, WaitersHaveEntries, TypeOK
<1>2. \A c \in Conns : phase'[c] = IF phase[c] \in Open THEN "closed" ELSE phase[c]
  BY DEF Stop
<1>3. \A i \in Ids : pending'[i] = None
  BY DEF Stop
<1>4. \A i \in Ids : pending'[i] = IF pending[i] # None /\ phase'[pending[i]] \in Gone
                                   THEN None ELSE pending[i]
  BY <1>1, <1>2, <1>3
<1>5. UNCHANGED <<post, reply, handling>>
  BY DEF Stop
<1> QED
  BY <1>2, <1>4, <1>5, ClosingRoutes

\* Disconnect, refusals, notes and time-outs close one connection.
LEMMA CloseOneRoutes ==
    ASSUME RoutingIInv, TypeOK', NEW c \in Conns,
           phase' = [phase EXCEPT ![c] = "closed"],
           \A i \in Ids : pending'[i] = IF pending[i] = c THEN None ELSE pending[i],
           UNCHANGED <<open, post, reply, handling>>
    PROVE  Routing'
<1>1. \A i \in Ids : pending[i] # None => phase[pending[i]] = "waiting" /\ pending[i] \in Conns
  BY DEF RoutingIInv, WaitersHaveEntries, TypeOK
<1>2. \A d \in Conns : phase'[d] = IF d = c THEN "closed" ELSE phase[d]
  BY DEF RoutingIInv, TypeOK
<1>3. \A i \in Ids : pending'[i] = IF pending[i] # None /\ phase'[pending[i]] \in Gone
                                   THEN None ELSE pending[i]
  BY <1>1, <1>2, ServerAssumption
<1> QED
  BY <1>2, <1>3, ClosingRoutes

\* A connection that does not wait has no entry.
LEMMA NoEntry ==
    ASSUME RoutingIInv, NEW c \in Conns, phase[c] # "waiting"
    PROVE  \A i \in Ids : pending[i] # c
BY ServerAssumption DEF RoutingIInv, WaitersHaveEntries

LEMMA DisconnectRoutes ==
    ASSUME RoutingIInv, TypeOK', NEW c \in Conns, Disconnect(c) PROVE Routing'
BY CloseOneRoutes DEF Disconnect

LEMMA RefuseRoutes ==
    ASSUME RoutingIInv, TypeOK', NEW c \in Conns, Refuse(c) \/ TakeNote(c) PROVE Routing'
<1>1. phase[c] # "waiting"
  BY DEF Refuse, TakeNote
<1>2. \A i \in Ids : pending'[i] = IF pending[i] = c THEN None ELSE pending[i]
  BY <1>1, NoEntry DEF Refuse, TakeNote
<1>3. phase' = [phase EXCEPT ![c] = "closed"] /\ UNCHANGED <<open, post, reply, handling>>
  BY DEF Refuse, TakeNote
<1> QED
  BY <1>2, <1>3, CloseOneRoutes

LEMMA TimeOutRoutes ==
    ASSUME RoutingIInv, TypeOK', NEW i \in Ids, TimeOut(i) PROVE Routing'
<1> DEFINE c == pending[i]
<1>1. c \in Conns /\ \A j \in Ids : pending[j] = c => j = i
  BY DEF TimeOut, RoutingIInv, TypeOK, WaitersHaveEntries
<1>2. \A j \in Ids : pending'[j] = IF pending[j] = c THEN None ELSE pending[j]
  BY <1>1 DEF TimeOut, RoutingIInv, TypeOK
<1> QED
  BY <1>1, <1>2, CloseOneRoutes DEF TimeOut

LEMMA EndSessionRoutes ==
    ASSUME RoutingIInv, TypeOK', NEW c \in Conns, EndSession(c) PROVE Routing'
<1>1. \A d \in Waiters : phase[d] = "waiting"
  BY ServerAssumption DEF Waiters, RoutingIInv, WaitersHaveEntries
<1>2. PICK hidden \in SUBSET Waiters :
        phase' = [d \in Conns |-> IF d \in hidden THEN "left"
                                 ELSE IF d = c \/ d \in Waiters THEN "closed" ELSE phase[d]]
  BY DEF EndSession
<1>3. \A d \in Conns : \/ phase'[d] \in {phase[d], "closed"}
                       \/ phase[d] = "waiting" /\ phase'[d] = "left"
  BY <1>1, <1>2
<1>4. \A i \in Ids : pending[i] # None => pending[i] \in Waiters /\ pending[i] \in Conns
  BY DEF RoutingIInv, TypeOK, Waiters
<1>5. \A i \in Ids : pending[i] # None => phase'[pending[i]] \in Gone
  BY <1>2, <1>4
<1>6. \A i \in Ids : pending'[i] = None
  BY DEF EndSession
<1>7. UNCHANGED <<open, post, reply, handling>>
  BY DEF EndSession
<1> QED
  BY <1>3, <1>5, <1>6, <1>7, ClosingRoutes

\* A post arrives on a connection nobody knows yet.
LEMMA ArriveRoutes ==
    ASSUME RoutingIInv, TypeOK', NEW c \in Conns, Arrive(c) PROVE Routing'
<1>1. \A d \in Conns : phase'[d] = IF d = c THEN "sent" ELSE phase[d]
  BY DEF Arrive, RoutingIInv, TypeOK
<1>2. \A d \in Conns : d # c => post'[d] = post[d]
  BY DEF Arrive
<1>3. phase[c] = "new" /\ UNCHANGED <<open, reply, pending, handling>>
  BY DEF Arrive
<1>4. \A i \in Ids : pending[i] # None => pending[i] \in Conns /\ pending[i] # c
  BY <1>3 DEF RoutingIInv, TypeOK, WaitersHaveEntries
<1>5. c \notin handling /\ reply[c] = None
  BY <1>3 DEF RoutingIInv, HandlersOweAnswers, RepliesAreOver
<1>6. WaitersHaveEntries'
  BY <1>1, <1>2, <1>3, <1>4 DEF RoutingIInv, WaitersHaveEntries
<1>7. RepliesAreOver' /\ HandlersOweAnswers'
  BY <1>1, <1>3, <1>5 DEF RoutingIInv, RepliesAreOver, HandlersOweAnswers, TypeOK
<1>9. SentWhileOpen'
  BY <1>1, <1>3 DEF Arrive, RoutingIInv, SentWhileOpen
<1>8. ForeignOnlyIfReused'
  <2>1. ASSUME NEW d \in Conns, reply[d] \notin {None, d}
        PROVE  /\ d # c /\ reply[d] # c /\ reply[d] \in Conns
               /\ post[reply[d]].id = post[d].id
               /\ phase[reply[d]] \in Gone /\ reply[reply[d]] # reply[d]
    BY <2>1, <1>3, <1>5 DEF RoutingIInv, ForeignOnlyIfReused, TypeOK
  <2> QED
    BY <2>1, <1>1, <1>2, <1>3 DEF ForeignOnlyIfReused
<1> QED
  BY <1>6, <1>7, <1>8, <1>9 DEF Routing

\* An accepted request takes the free entry of its id.
LEMMA AcceptRoutes ==
    ASSUME RoutingIInv, TypeOK', NEW c \in Conns, Accept(c) PROVE Routing'
<1>1. \A d \in Conns : phase'[d] = IF d = c THEN "waiting" ELSE phase[d]
  BY DEF Accept, RoutingIInv, TypeOK
<1>2. \A i \in Ids : pending'[i] = IF i = post[c].id THEN c ELSE pending[i]
  BY DEF Accept, RoutingIInv, TypeOK
<1>3. phase[c] = "sent" /\ pending[post[c].id] = None /\ handling' = handling \cup {c}
      /\ UNCHANGED <<open, post, reply>>
  BY DEF Accept, Duplicate
<1>4. post[c].id \in Ids
  BY PostHasId DEF RoutingIInv
<1>5. open
  BY <1>3 DEF RoutingIInv, SentWhileOpen
<1>6. \A d \in Conns : reply[d] # c
  <2>1. ASSUME NEW d \in Conns, reply[d] = c PROVE FALSE
    <3>1. d # c
      BY <2>1, <1>3, ServerAssumption DEF RoutingIInv, RepliesAreOver
    <3>2. phase[c] \in Gone
      BY <2>1, <3>1, ServerAssumption DEF RoutingIInv, ForeignOnlyIfReused
    <3> QED
      BY <1>3, <3>2
  <2> QED
    BY <2>1
<1>7. WaitersHaveEntries'
  <2>1. ASSUME NEW d \in Conns, phase'[d] = "waiting"
        PROVE  open' /\ pending'[post[d].id] = d
    <3>1. CASE d = c
      BY <3>1, <1>2, <1>3, <1>4, <1>5
    <3>2. CASE d # c
      <4>1. phase[d] = "waiting"
        BY <2>1, <3>2, <1>1
      <4>2. open /\ pending[post[d].id] = d /\ post[d].id \in Ids
        BY <4>1, PostHasId DEF RoutingIInv, WaitersHaveEntries
      <4>3. post[d].id # post[c].id
        BY <4>2, <1>3, ServerAssumption
      <4> QED
        BY <4>2, <4>3, <1>2, <1>3
    <3> QED
      BY <3>1, <3>2
  <2>2. ASSUME NEW i \in Ids, pending'[i] # None
        PROVE  phase'[pending'[i]] = "waiting" /\ post[pending'[i]].id = i
    <3>1. CASE i = post[c].id
      BY <3>1, <1>1, <1>2
    <3>2. CASE i # post[c].id
      <4>1. pending'[i] = pending[i] /\ pending[i] # None /\ pending[i] \in Conns
        BY <2>2, <3>2, <1>2 DEF RoutingIInv, TypeOK
      <4>2. phase[pending[i]] = "waiting" /\ post[pending[i]].id = i
        BY <4>1 DEF RoutingIInv, WaitersHaveEntries
      <4> QED
        BY <4>1, <4>2, <1>1
    <3> QED
      BY <3>1, <3>2
  <2> QED
    BY <2>1, <2>2, <1>3 DEF WaitersHaveEntries
<1>8. RepliesAreOver'
  BY <1>1, <1>3 DEF RoutingIInv, RepliesAreOver
<1>9. HandlersOweAnswers'
  BY <1>1, <1>3, <1>6 DEF RoutingIInv, HandlersOweAnswers, TypeOK
<1>10. SentWhileOpen'
  BY <1>1, <1>3 DEF RoutingIInv, SentWhileOpen
<1>11. ForeignOnlyIfReused'
  BY <1>1, <1>3, <1>6 DEF RoutingIInv, ForeignOnlyIfReused, TypeOK
<1> QED
  BY <1>7, <1>8, <1>9, <1>10, <1>11 DEF Routing

\* An answer that finds no entry is lost.
LEMMA LostAnswerRoutes ==
    ASSUME RoutingIInv, TypeOK', NEW c \in Conns, handling' = handling \ {c},
           UNCHANGED <<open, phase, post, reply, pending>>
    PROVE  Routing'
<1>1. WaitersHaveEntries' /\ RepliesAreOver' /\ ForeignOnlyIfReused' /\ SentWhileOpen'
  BY DEF RoutingIInv, WaitersHaveEntries, RepliesAreOver, ForeignOnlyIfReused, SentWhileOpen
<1>2. HandlersOweAnswers'
  BY DEF RoutingIInv, HandlersOweAnswers
<1> QED
  BY <1>1, <1>2 DEF Routing

\* An answer goes to the connection that waits for its id: another one than its asker's
\* only if the asker's is closed.
LEMMA AnswerRoutes ==
    ASSUME RoutingIInv, TypeOK', NEW c \in Conns, NEW d \in Conns, c \in handling,
           d = pending[post[c].id],
           handling' = handling \ {c},
           pending' = [pending EXCEPT ![post[c].id] = None],
           phase' = [phase EXCEPT ![d] = "closed"],
           reply' = [reply EXCEPT ![d] = c],
           UNCHANGED <<open, post>>
    PROVE  Routing'
<1> DEFINE n == post[c].id
<1>1. n \in Ids
  BY PostHasId DEF RoutingIInv
<1>2. phase[d] = "waiting" /\ post[d].id = n
  BY <1>1, ServerAssumption DEF RoutingIInv, WaitersHaveEntries
<1>3. c # d => phase[c] \in Gone
  BY <1>1 DEF RoutingIInv, WaitersHaveEntries, HandlersOweAnswers
<1>4. \A e \in Conns : reply[e] # c
  BY DEF RoutingIInv, HandlersOweAnswers
<1>5. /\ \A e \in Conns : phase'[e] = IF e = d THEN "closed" ELSE phase[e]
      /\ \A e \in Conns : reply'[e] = IF e = d THEN c ELSE reply[e]
      /\ \A i \in Ids : pending'[i] = IF i = n THEN None ELSE pending[i]
  BY DEF RoutingIInv, TypeOK
<1>6. WaitersHaveEntries'
  <2>1. ASSUME NEW e \in Conns, phase'[e] = "waiting"
        PROVE  open /\ pending'[post[e].id] = e
    <3>1. e # d /\ phase[e] = "waiting"
      BY <2>1, <1>5
    <3>2. open /\ pending[post[e].id] = e /\ post[e].id \in Ids
      BY <3>1, PostHasId DEF RoutingIInv, WaitersHaveEntries
    <3> QED
      BY <3>1, <3>2, <1>5
  <2>2. ASSUME NEW i \in Ids, pending'[i] # None
        PROVE  phase'[pending'[i]] = "waiting" /\ post[pending'[i]].id = i
    <3>1. i # n /\ pending'[i] = pending[i] /\ pending[i] # None /\ pending[i] \in Conns
      BY <2>2, <1>5 DEF RoutingIInv, TypeOK
    <3>2. phase[pending[i]] = "waiting" /\ post[pending[i]].id = i
      BY <3>1 DEF RoutingIInv, WaitersHaveEntries
    <3>3. pending[i] # d
      BY <3>1, <3>2, <1>2
    <3> QED
      BY <3>1, <3>2, <3>3, <1>5
  <2> QED
    BY <2>1, <2>2 DEF WaitersHaveEntries
<1>7. RepliesAreOver' /\ SentWhileOpen'
  BY <1>5 DEF RoutingIInv, RepliesAreOver, SentWhileOpen
<1>8. HandlersOweAnswers'
  BY <1>5 DEF RoutingIInv, HandlersOweAnswers, TypeOK
<1>9. ForeignOnlyIfReused'
  <2>1. ASSUME NEW e \in Conns, reply'[e] \notin {None, e}
        PROVE  /\ post[reply'[e]].id = post[e].id
               /\ phase'[reply'[e]] \in Gone /\ reply'[reply'[e]] # reply'[e]
    <3>1. CASE e = d
      <4>1. reply'[e] = c /\ c # d
        BY <2>1, <3>1, <1>5
      <4> QED
        BY <4>1, <3>1, <1>2, <1>3, <1>4, <1>5
    <3>2. CASE e # d
      <4> DEFINE a == reply[e]
      <4>1. reply'[e] = a /\ a \in Conns /\ a # c
        BY <2>1, <3>2, <1>4, <1>5 DEF RoutingIInv, TypeOK
      <4>2. post[a].id = post[e].id /\ phase[a] \in Gone /\ reply[a] # a
        BY <2>1, <4>1 DEF RoutingIInv, ForeignOnlyIfReused
      <4> QED
        BY <4>1, <4>2, <1>5
    <3> QED
      BY <3>1, <3>2
  <2> QED
    BY <2>1 DEF ForeignOnlyIfReused
<1> QED
  BY <1>6, <1>7, <1>8, <1>9 DEF Routing

LEMMA SendAnswerRoutes ==
    ASSUME RoutingIInv, TypeOK', NEW c \in Conns, SendAnswer(c) PROVE Routing'
<1> DEFINE d == pending[post[c].id]
<1>1. CASE open /\ d # None
  <2>1. d \in Conns
    BY <1>1, PostHasId DEF RoutingIInv, TypeOK
  <2> QED
    BY <1>1, <2>1, AnswerRoutes DEF SendAnswer
<1>2. CASE ~(open /\ d # None)
  BY <1>2, LostAnswerRoutes DEF SendAnswer
<1> QED
  BY <1>1, <1>2

-----------------------------------------------------------------------------
(* The queue *)

LEMMA SendOwnQueues == ASSUME QueueIInv, SendOwn PROVE QueueIsRecent' /\ flushed' <= sent'
<1> DEFINE q == Append(queue, sent + 1)
<1>1. queue \in Seq(Nat) /\ sent \in Nat /\ flushed \in Nat /\ flushed <= sent
  BY DEF QueueIInv, TypeOK
<1>2. sent' = sent + 1 /\ flushed' = flushed /\ queue' = Within(q)
  BY DEF SendOwn
<1>3. q \in Seq(Nat) /\ Len(q) = Len(queue) + 1 /\ Len(q) <= Cap + 1
  <2>1. q \in Seq(Nat) /\ Len(q) = Len(queue) + 1 /\ Len(queue) \in Nat
    BY <1>1
  <2>2. Len(queue) <= Cap
    BY DEF QueueIInv, QueueIsRecent
  <2> QED
    BY <2>1, <2>2, ServerAssumption
<1>4. q[Len(q)] = sent + 1
  <2>1. q[Len(queue) + 1] = sent + 1
    BY <1>1
  <2> QED
    BY <1>3, <2>1
<1>5. \A k \in 1 .. Len(q) : /\ flushed < q[k] /\ q[k] <= sent + 1
                             /\ k < Len(q) => q[k + 1] = q[k] + 1
  <2>1. ASSUME NEW k \in 1 .. Len(queue)
        PROVE  /\ q[k] = queue[k] /\ flushed < queue[k] /\ queue[k] <= sent
               /\ k < Len(queue) => queue[k + 1] = queue[k] + 1
    BY <1>1 DEF QueueIInv, QueueIsRecent
  <2>2. queue # << >> => queue[Len(queue)] = sent
    BY DEF QueueIInv, QueueIsRecent
  <2>3. \A k \in 1 .. Len(queue) : queue[k] \in Nat
    BY <1>1
  <2> HIDE DEF q
  <2>4. ASSUME NEW k \in 1 .. Len(q) PROVE flushed < q[k] /\ q[k] <= sent + 1
    <3>1. CASE k = Len(q)
      BY <3>1, <1>1, <1>4
    <3>2. CASE k # Len(q)
      <4>1. k \in 1 .. Len(queue)
        BY <3>2, <1>1, <1>3
      <4> QED
        BY <4>1, <2>1, <2>3, <1>1
    <3> QED
      BY <3>1, <3>2
  <2>5. ASSUME NEW k \in 1 .. Len(q), k < Len(q) PROVE q[k + 1] = q[k] + 1
    <3>1. k \in 1 .. Len(queue) /\ queue # << >>
      BY <2>5, <1>1, <1>3
    <3>2. CASE k = Len(queue)
      BY <3>1, <3>2, <2>1, <2>2, <1>1, <1>3, <1>4
    <3>3. CASE k # Len(queue)
      <4>1. k < Len(queue) /\ k + 1 \in 1 .. Len(queue)
        BY <3>1, <3>3, <1>1
      <4> QED
        BY <4>1, <3>1, <2>1
    <3> QED
      BY <3>2, <3>3
  <2> QED
    BY <2>4, <2>5
<1> HIDE DEF q
<1>6. PICK n \in {0, 1} : /\ Len(Within(q)) = Len(q) - n
                          /\ \A k \in 1 .. Len(q) - n : Within(q)[k] = q[k + n]
  BY <1>3, WithinQueue
<1>7. Within(q) \in Seq(Nat) /\ Len(Within(q)) <= Cap /\ Within(q) # << >>
  BY <1>3, WithinQueue, <1>1
<1>8. ASSUME NEW k \in 1 .. Len(Within(q))
      PROVE  /\ Within(q)[k] = q[k + n] /\ k + n \in 1 .. Len(q)
             /\ k < Len(Within(q)) => Within(q)[k + 1] = q[(k + n) + 1] /\ k + n < Len(q)
  <2>1. k \in 1 .. Len(q) - n /\ n \in Nat /\ Len(q) \in Nat /\ k \in Nat
    BY <1>3, <1>6
  <2>2. Within(q)[k] = q[k + n] /\ k + n \in 1 .. Len(q)
    BY <1>6, <2>1
  <2>3. ASSUME k < Len(Within(q)) PROVE Within(q)[k + 1] = q[(k + n) + 1] /\ k + n < Len(q)
    <3>1. k + 1 \in 1 .. Len(q) - n /\ k + n < Len(q) /\ (k + 1) + n = (k + n) + 1
      BY <1>6, <2>1, <2>3
    <3> QED
      BY <1>6, <3>1
  <2> QED
    BY <2>2, <2>3
<1>9. Len(Within(q)) \in 1 .. Len(Within(q))
  BY <1>7
<1>10. Within(q)[Len(Within(q))] = sent + 1
  BY <1>4, <1>3, <1>6, <1>7, <1>8, <1>9
<1>11. ASSUME NEW k \in 1 .. Len(Within(q))
       PROVE  /\ flushed < Within(q)[k] /\ Within(q)[k] <= sent + 1
              /\ k < Len(Within(q)) => Within(q)[k + 1] = Within(q)[k] + 1
  BY <1>5, <1>8
<1>12. flushed' <= sent'
  BY <1>1, <1>2
<1> QED
  BY <1>2, <1>7, <1>10, <1>11, <1>12 DEF QueueIsRecent

\* Every other step leaves the queue alone, or empties it.
LEMMA OtherStepsQueue ==
    ASSUME QueueIInv, UNCHANGED sent,
           \/ UNCHANGED <<queue, flushed>>
           \/ queue' = << >> /\ flushed' \in {flushed, sent}
    PROVE  QueueIsRecent' /\ flushed' <= sent'
<1>1. flushed \in Nat /\ sent \in Nat /\ flushed <= sent
  BY DEF QueueIInv, TypeOK
<1>2. CASE UNCHANGED <<queue, flushed>>
  BY <1>2, <1>1 DEF QueueIInv, QueueIsRecent
<1>3. CASE queue' = << >> /\ flushed' \in {flushed, sent}
  BY <1>3, <1>1, ServerAssumption DEF QueueIsRecent
<1> QED
  BY <1>2, <1>3

\* A reply takes the whole queue along.
LEMMA FlushesAll ==
    ASSUME QueueIInv, Flushes PROVE queue' = << >> /\ flushed' \in {flushed, sent}
BY DEF QueueIInv, QueueIsRecent, Flushes

-----------------------------------------------------------------------------
(* The theorems *)

HttpIInv == RoutingIInv /\ QueueIInv

LEMMA RoutingStep == ASSUME RoutingIInv, TypeOK', Next PROVE Routing'
<1>1. CASE SendOwn
  BY <1>1, QuietRoutes DEF SendOwn, conns
<1> QED
  BY <1>1, StartRoutes, StopRoutes, ArriveRoutes, DisconnectRoutes, RefuseRoutes, AcceptRoutes,
     EndSessionRoutes, SendAnswerRoutes, TimeOutRoutes DEF Next, Process

LEMMA QueueStep == ASSUME QueueIInv, Next PROVE QueueIsRecent' /\ flushed' <= sent'
<1>1. CASE SendOwn
  BY <1>1, SendOwnQueues
<1>2. CASE ~SendOwn
  <2>1. UNCHANGED sent
    BY <1>2 DEF Next, Process, Start, Stop, Arrive, Disconnect, Refuse, Accept, TakeNote,
                EndSession, SendAnswer, TimeOut
  <2>2. \/ UNCHANGED <<queue, flushed>>
        \/ queue' = << >> /\ flushed' \in {flushed, sent}
    BY <1>2, FlushesAll DEF Next, Process, Start, Stop, Arrive, Disconnect, Refuse, Accept,
                            TakeNote, EndSession, SendAnswer, TimeOut
  <2> QED
    BY <2>1, <2>2, OtherStepsQueue
<1> QED
  BY <1>1, <1>2

\* The strengthened invariant holds of a server before it is started.
LEMMA HttpInit == Init => HttpIInv
<1> SUFFICES ASSUME Init PROVE HttpIInv
  OBVIOUS
<1>1. /\ open = FALSE /\ session = 1 /\ queue = << >> /\ handling = {}
      /\ sent = 0 /\ flushed = 0 /\ starts = 0
      /\ \A c \in Conns : phase[c] = "new" /\ reply[c] = None
      /\ \A i \in Ids : pending[i] = None
  BY DEF Init
<1>2. TypeOK
  <2>1. queue \in Seq(Nat) /\ session \in Nat \ {0}
    BY <1>1
  <2>2. phase \in [Conns -> Phases]
    BY DEF Init, Phases
  <2>3. post \in [Conns -> Posts \cup {NoPost}]
    BY DEF Init
  <2>4. pending \in [Ids -> Conns \cup {None}] /\ reply \in [Conns -> Conns \cup {None}]
    BY DEF Init
  <2> QED
    BY <1>1, <2>1, <2>2, <2>3, <2>4 DEF TypeOK
<1>3. WaitersHaveEntries /\ RepliesAreOver /\ HandlersOweAnswers /\ SentWhileOpen
      /\ ForeignOnlyIfReused
  BY <1>1 DEF WaitersHaveEntries, RepliesAreOver, HandlersOweAnswers, SentWhileOpen,
              ForeignOnlyIfReused
<1>4. QueueIsRecent
  BY <1>1, ServerAssumption DEF QueueIsRecent
<1> QED
  BY <1>1, <1>2, <1>3, <1>4 DEF HttpIInv, RoutingIInv, QueueIInv

\* HttpIInv holds in every reachable state of the server (processRequest, send, stop and
\* the timers of McpHttpServerTransport).
THEOREM HttpInductive == Spec => []HttpIInv
<1>1. HttpIInv /\ [Next]_vars => HttpIInv'
  <2> SUFFICES ASSUME HttpIInv, [Next]_vars PROVE HttpIInv'
    OBVIOUS
  <2>1. CASE Next
    <3>1. TypeOK'
      BY <2>1, TypeStep DEF HttpIInv, RoutingIInv, QueueIInv
    <3>2. Routing'
      BY <2>1, <3>1, RoutingStep DEF HttpIInv
    <3>3. QueueIsRecent' /\ flushed' <= sent'
      BY <2>1, QueueStep DEF HttpIInv
    <3> QED
      BY <3>1, <3>2, <3>3 DEF HttpIInv, RoutingIInv, QueueIInv, Routing
  <2>2. CASE UNCHANGED vars
    BY <2>2 DEF vars, conns, HttpIInv, RoutingIInv, QueueIInv, TypeOK, WaitersHaveEntries,
                RepliesAreOver, HandlersOweAnswers, SentWhileOpen, ForeignOnlyIfReused,
                QueueIsRecent
  <2> QED
    BY <2>1, <2>2
<1> QED
  BY HttpInit, <1>1, PTL DEF Spec

\* Every variable of the transport stays in its type.
THEOREM HttpTypeCorrect == Spec => []TypeOK
<1>1. HttpIInv => TypeOK
  BY DEF HttpIInv, RoutingIInv
<1> QED
  BY <1>1, HttpInductive, PTL

\* pendingByRequestId and the sockets agree after every request, end of a session, timer
\* and stop, for any number of connections.
THEOREM WaitersAgree == Spec => []WaitersHaveEntries
<1>1. HttpIInv => WaitersHaveEntries
  BY DEF HttpIInv, RoutingIInv
<1> QED
  BY <1>1, HttpInductive, PTL

\* send routes an answer to a stranger only where the id was reused after its asker's
\* connection was lost.
THEOREM AnswersAreRouted == Spec => []ForeignOnlyIfReused
<1>1. HttpIInv => ForeignOnlyIfReused
  BY DEF HttpIInv, RoutingIInv
<1> QED
  BY <1>1, HttpInductive, PTL

\* queuedServerMessages holds the latest messages in order, at any limit, and a message
\* goes out at most once.
THEOREM QueueKeepsRecent == Spec => []QueueIsRecent
<1>1. HttpIInv => QueueIsRecent
  BY DEF HttpIInv, QueueIInv
<1> QED
  BY <1>1, HttpInductive, PTL
=============================================================================
