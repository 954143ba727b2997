------------------------ MODULE McpStreamableHttpProofs ------------------------
(***************************************************************************)
(* McpStreamableHttp, for any sets of messages, any length of the reply    *)
(* streams and any number of server messages and faults.                   *)
(*                                                                         *)
(* The three invariants the runs check need the life of one exchange, what *)
(* is left of a chunk under delivery, that one initialize is under way at  *)
(* a time and nothing listens before its answer, which session an exchange *)
(* carries, and how far the server was heard.                              *)
(***************************************************************************)
EXTENDS McpStreamableHttp, SequenceTheorems, TLAPS

Exchange ==
    [sent : BOOLEAN, live : BOOLEAN, stream : {"none", "opening", "open"}, head : Heads,
     carried : Nat, got : 0..LastEvent, cursor : 0..LastEvent, answered : BOOLEAN,
     resuming : BOOLEAN, timer : BOOLEAN, answers : Nat, failures : Nat,
     dropped : BOOLEAN]

\* The life of one exchange: what was told of it when, and what it still owns.
ExchangeOK(e) ==
    /\ e \in Exchange
    /\ ~e.sent => ~e.live /\ e.answers = 0 /\ e.failures = 0 /\ ~e.dropped
    /\ e.live => /\ e.sent /\ ~e.dropped /\ e.failures = 0
                 /\ e.answers = IF e.answered THEN 1 ELSE 0
    /\ ~e.live => /\ e.stream = "none" /\ ~e.timer
                  /\ e.answers + e.failures <= 1 /\ (e.dropped => e.failures = 0)
    /\ e.timer => e.stream = "none"
    /\ e.answered => e.stream = "open" /\ e.head = "events" /\ e.got = LastEvent

ExchangesOK ==
    /\ exchange \in [Messages -> Exchange]
    /\ \A m \in Messages : ExchangeOK(exchange[m])

\* The chunk under delivery holds events of one exchange up to those it got.
ChunkOK ==
    chunk # NoChunk =>
        \E m \in Messages, b \in Nat, n \in Nat \ {0} :
            /\ chunk = [i \in 1..n |-> <<m, b + i>>]
            /\ b + n <= LastEvent
            /\ exchange[m].sent
            /\ exchange[m].live =>
                   /\ exchange[m].stream = "open" /\ exchange[m].head = "events"
                   /\ ~exchange[m].answered /\ exchange[m].got = b + n

Listen ==
    [stream : {"none", "opening", "open"}, carried : Nat, at : Nat, lastId : Nat,
     accepted : BOOLEAN, refused : BOOLEAN, resumed : BOOLEAN, heard : BOOLEAN,
     up : BOOLEAN, timer : BOOLEAN, wanted : BOOLEAN]

ListenOK ==
    /\ http \in BOOLEAN /\ open \in BOOLEAN /\ listen \in Listen
    /\ ListensOrRetries
    /\ ~(listen.timer /\ listen.stream # "none")
    /\ ~listen.wanted => listen.stream = "none" /\ ~listen.timer
    /\ ~open => ~listen.wanted /\ \A m \in Messages : ~exchange[m].live

\* One initialize at a time, and no listening before its answer.
InitializesOK ==
    /\ \A m \in Initializes : exchange[m].live /\ ~exchange[m].answered => ~listen.wanted
    /\ \A m, n \in Initializes : exchange[m].live /\ exchange[n].live => m = n
    /\ \A m \in Initializes :
           exchange[m].stream = "opening" /\ ~exchange[m].resuming => session = 0

SessionOK ==
    /\ granted \in Nat /\ session \in 0..granted
    /\ forgotten \subseteq 1..granted /\ deleted \subseteq 1..granted
    /\ SessionsAccounted
    /\ \A m \in Messages : exchange[m].stream # "none" =>
           /\ exchange[m].carried \in {0, session}
           /\ exchange[m].stream = "open" /\ exchange[m].head = "gone"
                  => exchange[m].carried \in forgotten
    /\ listen.stream # "none" => listen.carried \in {0, session}

\* Server messages up to the n-th are behind the place the listen stream has reached and
\* the one its next connection asks for.
HeardUpTo(n) ==
    /\ n <= log
    /\ listen.stream = "open" => n <= listen.at /\ listen.at <= log
    /\ listen.lastId # 0 => n <= listen.lastId /\ listen.lastId <= log

OrderOK ==
    /\ log \in Nat /\ seen \in Nat
    /\ HeardUpTo(seen)
    /\ backlog # << >> => \E b, n \in Nat :
           /\ n # 0 /\ backlog = [i \in 1..n |-> b + i]
           /\ seen <= b /\ HeardUpTo(b + n)

OneDelivery == chunk = NoChunk \/ backlog = << >>

IInv == /\ ExchangesOK /\ ChunkOK /\ ListenOK /\ InitializesOK /\ SessionOK /\ OrderOK
        /\ OneDelivery

-----------------------------------------------------------------------------
(* The ends of an exchange *)

Over(e) == ~e.live /\ e.sent /\ e.stream = "none" /\ ~e.answered

\* Release, Drop, Failed and ScheduleResume keep an exchange well formed.
LEMMA ReleaseOK ==
    ASSUME NEW e, ExchangeOK(e)
    PROVE  ExchangeOK(Release(e)) /\ Over(Release(e))
<1>1. NoExchange \in Exchange
  BY HttpAssumption DEF Exchange, NoExchange, Heads
<1>2. /\ e.answers \in Nat /\ e.failures \in Nat /\ e.dropped \in BOOLEAN
      /\ e.answers + e.failures <= 1 /\ (e.dropped => e.failures = 0)
  BY DEF ExchangeOK, Exchange
<1>3. Release(e) \in Exchange
  BY <1>1, <1>2 DEF Exchange, Release
<1>4. /\ Release(e).sent /\ ~Release(e).live /\ Release(e).stream = "none"
      /\ ~Release(e).timer /\ ~Release(e).answered
      /\ Release(e).answers = e.answers /\ Release(e).failures = e.failures
      /\ Release(e).dropped = e.dropped
  BY DEF Release, NoExchange
<1> QED
  BY <1>2, <1>3, <1>4 DEF ExchangeOK, Over

LEMMA DropOK ==
    ASSUME NEW e, ExchangeOK(e), e.live
    PROVE  ExchangeOK(Drop(e)) /\ Over(Drop(e))
<1>1. Release(e) \in Exchange /\ Over(Release(e))
  BY ReleaseOK DEF ExchangeOK
<1>2. Release(e).failures = 0 /\ Release(e).answers \in {0, 1} /\ ~Release(e).timer
  BY DEF Release, NoExchange, ExchangeOK
<1>3. Drop(e) \in Exchange
  BY <1>1 DEF Exchange, Drop
<1>4. /\ Drop(e).sent /\ ~Drop(e).live /\ Drop(e).stream = "none"
      /\ ~Drop(e).timer /\ ~Drop(e).answered
      /\ Drop(e).answers \in {0, 1} /\ Drop(e).failures = 0
  BY <1>1, <1>2 DEF Drop, Exchange, Over
<1> QED
  BY <1>3, <1>4 DEF ExchangeOK, Over

LEMMA FailedOK ==
    ASSUME NEW m, NEW e, ExchangeOK(e), e.live \/ (e.answers = 0 /\ e.failures = 0 /\ ~e.dropped)
    PROVE  ExchangeOK(Failed(m, e)) /\ Over(Failed(m, e))
<1>1. CASE m \in Requests /\ ~e.answered
  <2>1. Failed(m, e) = [Release(e) EXCEPT !.failures = Release(e).failures + 1]
    BY <1>1 DEF Failed
  <2>2. Release(e) \in Exchange /\ Release(e).failures = 0 /\ Release(e).answers = 0
        /\ ~Release(e).live /\ ~Release(e).dropped /\ Release(e).sent /\ Over(Release(e))
    BY <1>1, ReleaseOK DEF ExchangeOK, Exchange, Release, NoExchange, Over
  <2> QED
    BY <2>1, <2>2, ReleaseOK DEF ExchangeOK, Exchange, Over
<1>2. CASE ~(m \in Requests /\ ~e.answered)
  BY <1>2, ReleaseOK DEF Failed
<1> QED
  BY <1>1, <1>2

LEMMA ScheduleResumeOK ==
    ASSUME NEW e, ExchangeOK(e), e.live, ~e.answered
    PROVE  ExchangeOK(ScheduleResume(e))
BY DEF ExchangeOK, Exchange, ScheduleResume

\* What is told of an exchange, whatever state it is in.
LEMMA ToldOnce ==
    ASSUME NEW e, ExchangeOK(e)
    PROVE  e.answers + e.failures <= 1 /\ (e.dropped => e.failures = 0)
BY DEF ExchangeOK, Exchange

-----------------------------------------------------------------------------
(* Steps that carry exchanges on or end them *)

\* One exchange becomes f, the others stay.
LEMMA OnlyOne ==
    ASSUME ExchangesOK, NEW m \in Messages, NEW f, ExchangeOK(f),
           exchange' = [exchange EXCEPT ![m] = f]
    PROVE  /\ ExchangesOK' /\ exchange'[m] = f
           /\ \A k \in Messages \ {m} : exchange'[k] = exchange[k]
BY DEF ExchangesOK, ExchangeOK

\* An exchange in state e becomes f: it is not begun anew, and carries what it carried or
\* the present session.
Follows(e, f) ==
    /\ e.sent => f.sent
    /\ f.live => e.live
    /\ e.answered => f.answered \/ ~f.live
    /\ f.stream = "opening" => f.resuming \/ (e.stream = "opening" /\ ~e.resuming)
    /\ f.stream # "none" => f.carried = session \/ (e.stream # "none" /\ f.carried = e.carried)
    /\ f.stream = "open" /\ f.head = "gone" =>
           \/ f.carried \in forgotten
           \/ e.stream = "open" /\ e.head = "gone" /\ f.carried = e.carried

ExchangesFollow == ExchangesOK' /\ \A m \in Messages : Follows(exchange[m], exchange'[m])

LEMMA SameFollows == \A e : Follows(e, e)
BY DEF Follows

LEMMA OverFollows == \A e, f : Over(f) => Follows(e, f)
BY DEF Follows, Over

\* One exchange is carried on or ended.
LEMMA OneFollows ==
    ASSUME ExchangesOK, NEW m \in Messages, NEW f, ExchangeOK(f), Follows(exchange[m], f),
           exchange' = [exchange EXCEPT ![m] = f]
    PROVE  ExchangesFollow
BY OnlyOne, SameFollows DEF ExchangesFollow

LEMMA SessionFollows ==
    ASSUME SessionOK, ExchangesFollow, UNCHANGED <<session, granted, deleted>>,
           forgotten \subseteq forgotten', forgotten' \subseteq 1..granted, http' => http,
           listen'.stream # "none" => listen'.carried \in {0, session}
    PROVE  SessionOK'
<1>1. \A m \in Messages : exchange'[m].stream # "none" =>
           /\ exchange'[m].carried \in {0, session}
           /\ exchange'[m].stream = "open" /\ exchange'[m].head = "gone"
                  => exchange'[m].carried \in forgotten'
  BY DEF SessionOK, ExchangesFollow, Follows
<1>2. SessionsAccounted'
  BY DEF SessionOK, SessionsAccounted
<1> QED
  BY <1>1, <1>2 DEF SessionOK

LEMMA InitializesFollow ==
    ASSUME ExchangesOK, InitializesOK, ExchangesFollow, UNCHANGED session,
           \/ listen'.wanted => listen.wanted
           \/ \A m \in Initializes : exchange'[m].live => exchange'[m].answered
    PROVE  InitializesOK'
<1>1. \A m \in Initializes : m \in Messages
  BY DEF Messages, Requests
<1>2. \A m \in Initializes : Follows(exchange[m], exchange'[m])
  BY <1>1 DEF ExchangesFollow
<1>3. \A m \in Initializes : exchange'[m].live /\ ~exchange'[m].answered => ~listen'.wanted
  BY <1>2 DEF InitializesOK, Follows
<1>4. \A m, n \in Initializes : exchange'[m].live /\ exchange'[n].live => m = n
  BY <1>2 DEF InitializesOK, Follows
<1>5. \A m \in Initializes :
          exchange'[m].stream = "opening" /\ ~exchange'[m].resuming => session' = 0
  BY <1>2 DEF InitializesOK, Follows
<1> QED
  BY <1>3, <1>4, <1>5 DEF InitializesOK

\* While a chunk is delivered exchanges can only be dropped or superseded.
LEMMA ChunkFollows ==
    ASSUME ChunkOK, UNCHANGED chunk,
           \A m \in Messages : \/ exchange'[m] = exchange[m]
                               \/ exchange'[m].sent /\ ~exchange'[m].live
                               \/ ~exchange[m].sent
    PROVE  ChunkOK'
<1> SUFFICES ASSUME chunk # NoChunk
             PROVE  \E m \in Messages, b \in Nat, n \in Nat \ {0} :
                       /\ chunk' = [i \in 1..n |-> <<m, b + i>>]
                       /\ b + n <= LastEvent
                       /\ exchange'[m].sent
                       /\ exchange'[m].live =>
                             /\ exchange'[m].stream = "open" /\ exchange'[m].head = "events"
                             /\ ~exchange'[m].answered /\ exchange'[m].got = b + n
  BY DEF ChunkOK
<1>1. PICK m \in Messages, b \in Nat, n \in Nat \ {0} :
            /\ chunk = [i \in 1..n |-> <<m, b + i>>]
            /\ b + n <= LastEvent
            /\ exchange[m].sent
            /\ exchange[m].live =>
                   /\ exchange[m].stream = "open" /\ exchange[m].head = "events"
                   /\ ~exchange[m].answered /\ exchange[m].got = b + n
  BY DEF ChunkOK
<1>2. exchange'[m] = exchange[m] \/ (exchange'[m].sent /\ ~exchange'[m].live)
  BY <1>1
<1> WITNESS m \in Messages, b \in Nat, n \in Nat \ {0}
<1> QED
  BY <1>1, <1>2

\* With nothing under delivery there is nothing to say of a chunk.
LEMMA NoChunkOK ==
    ASSUME ~Delivering, UNCHANGED chunk
    PROVE  ChunkOK' /\ OneDelivery' /\ chunk = NoChunk /\ backlog = << >>
BY DEF Delivering, ChunkOK, OneDelivery

-----------------------------------------------------------------------------
(* Steps of the listen stream *)

\* A stream that is not opened, or was open and still is, is where it was.
ListenStays(l) ==
    /\ l.stream = "open" => listen.stream = "open" /\ l.at = listen.at
    /\ l.lastId # 0 => l.lastId = listen.lastId

LEMMA OrderKept ==
    ASSUME OrderOK, UNCHANGED <<log, seen>>, ListenStays(listen'),
           backlog' = backlog \/ backlog' = << >>
    PROVE  OrderOK'
<1>1. \A n \in Nat : HeardUpTo(n) => HeardUpTo(n)'
  BY DEF HeardUpTo, ListenStays
<1>2. HeardUpTo(seen)'
  BY <1>1 DEF OrderOK, HeardUpTo
<1>3. ASSUME backlog' # << >>
      PROVE  \E b, n \in Nat : /\ n # 0 /\ backlog' = [i \in 1..n |-> b + i]
                               /\ seen' <= b /\ HeardUpTo(b + n)'
  <2>1. PICK b, n \in Nat : /\ n # 0 /\ backlog = [i \in 1..n |-> b + i]
                            /\ seen <= b /\ HeardUpTo(b + n)
    BY <1>3 DEF OrderOK
  <2>2. b + n \in Nat
    OBVIOUS
  <2>3. HeardUpTo(b + n)'
    BY <1>1, <2>1, <2>2
  <2> QED
    BY <1>3, <2>1, <2>3
<1> QED
  BY <1>2, <1>3 DEF OrderOK

LEMMA SameListenStays == listen' = listen => ListenStays(listen')
BY DEF ListenStays

LEMMA ListenFollows ==
    ASSUME ListenOK, UNCHANGED <<listen, open, http>>,
           \A m \in Messages : exchange'[m].live => exchange[m].live \/ open
    PROVE  ListenOK'
BY DEF ListenOK, ListensOrRetries

\* Everything that carries exchanges on or ends them and changes at most the chunk besides.
LEMMA ExchangesOnly ==
    ASSUME IInv, ExchangesFollow, ChunkOK', OneDelivery',
           UNCHANGED <<http, open, session, listen, backlog, server, deleted, seen>>
    PROVE  IInv'
<1>1. UNCHANGED <<log, granted, forgotten>>
  BY DEF server
<1>2. ListenOK'
  BY ListenFollows DEF IInv, ExchangesFollow, Follows
<1>3. InitializesOK'
  BY InitializesFollow DEF IInv
<1>4. SessionOK'
  <2>1. forgotten' \subseteq 1..granted /\ (listen'.stream # "none" => listen'.carried \in {0, session})
    BY <1>1 DEF IInv, SessionOK
  <2> QED
    BY <1>1, <2>1, SessionFollows DEF IInv
<1>5. OrderOK'
  BY <1>1, OrderKept, SameListenStays DEF IInv
<1> QED
  BY <1>2, <1>3, <1>4, <1>5 DEF IInv, ExchangesFollow

-----------------------------------------------------------------------------
(* What becomes of an exchange *)

\* abandon: the request is forgotten, in the middle of a chunk too.
LEMMA AbandonOK ==
    ASSUME IInv, NEW m \in Messages, Abandon(m)
    PROVE  IInv'
<1>1. /\ exchange[m].live /\ ExchangeOK(exchange[m])
      /\ exchange' = [exchange EXCEPT ![m] = Drop(exchange[m])]
  BY DEF Abandon, IInv, ExchangesOK
<1>2. ExchangeOK(Drop(exchange[m])) /\ Over(Drop(exchange[m]))
  BY <1>1, DropOK
<1>3. ExchangesFollow
  BY <1>1, <1>2, OneFollows, OverFollows DEF IInv
<1>4. ChunkOK' /\ OneDelivery'
  <2>1. UNCHANGED <<chunk, backlog>>
    BY DEF Abandon
  <2>2. \A k \in Messages : exchange'[k] = exchange[k] \/ (exchange'[k].sent /\ ~exchange'[k].live)
    BY <1>1, <1>2, OnlyOne DEF IInv, Over
  <2> QED
    BY <2>1, <2>2, ChunkFollows DEF IInv, OneDelivery
<1> QED
  BY <1>3, <1>4, ExchangesOnly DEF Abandon

\* One exchange is carried on or ended, and nothing is under delivery.
LEMMA OneExchange ==
    ASSUME IInv, NEW m \in Messages, NEW f, ExchangeOK(f), Follows(exchange[m], f),
           exchange' = [exchange EXCEPT ![m] = f], ~Delivering,
           UNCHANGED <<http, open, session, chunk, listen, backlog, server, deleted, seen>>
    PROVE  IInv'
BY OneFollows, NoChunkOK, ExchangesOnly DEF IInv

\* onFinished of an event stream, and errorOccurred: resumed later or failed.
LEMMA StreamEndsOK ==
    ASSUME IInv, NEW m \in Messages, FinishedEarly(m) \/ FinishedEvents(m) \/ Error(m)
    PROVE  IInv'
<1> DEFINE e == exchange[m]
<1>1. /\ e.stream # "none" /\ ~Delivering
      /\ UNCHANGED <<http, open, session, chunk, listen, backlog, server, deleted, seen>>
      /\ \/ exchange' = [exchange EXCEPT ![m] = Failed(m, e)]
         \/ CanResume(m, e) /\ exchange' = [exchange EXCEPT ![m] = ScheduleResume(e)]
  BY DEF FinishedEarly, FinishedEvents, Error
<1>2. ExchangeOK(e) /\ e.live
  BY <1>1 DEF IInv, ExchangesOK, ExchangeOK
<1>3. CASE exchange' = [exchange EXCEPT ![m] = Failed(m, e)]
  <2>1. ExchangeOK(Failed(m, e)) /\ Over(Failed(m, e))
    BY <1>2, FailedOK
  <2> QED
    BY <1>1, <1>3, <2>1, OverFollows, OneExchange
<1>4. CASE CanResume(m, e) /\ exchange' = [exchange EXCEPT ![m] = ScheduleResume(e)]
  <2>1. ExchangeOK(ScheduleResume(e))
    BY <1>2, <1>4, ScheduleResumeOK DEF CanResume
  <2>2. Follows(e, ScheduleResume(e))
    BY <1>2, <1>4 DEF Follows, ScheduleResume, CanResume, ExchangeOK, Exchange
  <2> QED
    BY <1>1, <1>4, <2>1, <2>2, OneExchange
<1> QED
  BY <1>1, <1>3, <1>4

\* resume: the exchange goes on behind its cursor, or fails.
LEMMA ResumeOK ==
    ASSUME IInv, NEW m \in Messages, Resume(m)
    PROVE  IInv'
<1> DEFINE e == exchange[m]
           f == [e EXCEPT !.timer = FALSE, !.stream = "opening", !.head = "none",
                          !.resuming = TRUE, !.carried = session, !.got = e.cursor]
<1>1. /\ e.timer /\ ~Delivering
      /\ UNCHANGED <<http, open, session, chunk, listen, backlog, server, deleted, seen>>
  BY DEF Resume
<1>2. ExchangeOK(e) /\ e.live /\ ~e.answered /\ e \in Exchange /\ session \in Nat
  BY <1>1 DEF IInv, ExchangesOK, ExchangeOK, SessionOK
<1>3. \/ exchange' = [exchange EXCEPT ![m] = Failed(m, e)]
      \/ exchange' = [exchange EXCEPT ![m] = f]
  BY DEF Resume, IInv, ExchangesOK
<1>4. CASE exchange' = [exchange EXCEPT ![m] = Failed(m, e)]
  <2>1. ExchangeOK(Failed(m, e)) /\ Over(Failed(m, e))
    BY <1>2, FailedOK
  <2> QED
    BY <1>1, <1>4, <2>1, OverFollows, OneExchange
<1>5. CASE exchange' = [exchange EXCEPT ![m] = f]
  <2>1. ExchangeOK(f)
    BY <1>2 DEF ExchangeOK, Exchange, Heads
  <2>2. Follows(e, f)
    BY <1>2 DEF Follows, ExchangeOK, Exchange
  <2> HIDE DEF f
  <2> QED
    BY <1>1, <1>5, <2>1, <2>2, OneExchange
<1> QED
  BY <1>3, <1>4, <1>5

\* onChunk: the events of one exchange come under delivery.
LEMMA ChunkStepOK ==
    ASSUME IInv, NEW m \in Messages, Chunk(m)
    PROVE  IInv'
<1> DEFINE e == exchange[m]
<1>1. PICK n \in e.got + 1 .. LastEvent :
          /\ exchange' = [exchange EXCEPT ![m].got = n, ![m].cursor = IF ids THEN n ELSE 0]
          /\ chunk' = [i \in 1 .. n - e.got |-> <<m, e.got + i>>]
  BY DEF Chunk
<1> DEFINE c == IF ids THEN n ELSE 0
           f == [e EXCEPT !.got = n, !.cursor = c]
<1>2. /\ e.stream = "open" /\ e.head = "events" /\ ~Delivering
      /\ UNCHANGED <<http, open, session, listen, backlog, server, deleted, seen>>
  BY DEF Chunk
<1>3. ExchangeOK(e) /\ e \in Exchange /\ e.live /\ e.sent /\ ~e.timer /\ LastEvent \in Nat
  BY <1>2, HttpAssumption DEF IInv, ExchangesOK, ExchangeOK
<1>4. e.got \in Nat /\ n \in 1..LastEvent /\ n - e.got \in Nat \ {0} /\ e.got + (n - e.got) = n
  BY <1>3 DEF Exchange
<1>5. ~e.answered
  BY <1>3, <1>4 DEF ExchangeOK
<1>6. exchange' = [exchange EXCEPT ![m] = f]
  BY <1>1 DEF IInv, ExchangesOK
<1>7. ExchangeOK(f)
  <2>1. c \in 0..LastEvent
    BY <1>3, <1>4
  <2> HIDE DEF c
  <2>2. n \in 0..LastEvent
    BY <1>4
  <2>3. f \in Exchange
    BY <1>3, <2>1, <2>2 DEF Exchange
  <2> QED
    BY <1>3, <1>5, <2>3 DEF ExchangeOK, Exchange
<1>8. Follows(e, f) /\ f.sent /\ f.stream = "open" /\ f.head = "events" /\ ~f.answered
      /\ f.got = n
  BY <1>2, <1>3, <1>5 DEF Follows, Exchange
<1> HIDE DEF f
<1>9. exchange'[m] = f
  BY <1>6, <1>7, OnlyOne DEF IInv
<1>10. ChunkOK'
  <2> SUFFICES \E k \in Messages, b \in Nat, l \in Nat \ {0} :
                  /\ chunk' = [i \in 1..l |-> <<k, b + i>>]
                  /\ b + l <= LastEvent
                  /\ exchange'[k].sent
                  /\ exchange'[k].live =>
                        /\ exchange'[k].stream = "open" /\ exchange'[k].head = "events"
                        /\ ~exchange'[k].answered /\ exchange'[k].got = b + l
    BY DEF ChunkOK
  <2>1. PICK b \in Nat, l \in Nat \ {0} : b = e.got /\ l = n - e.got /\ b + l = n
    BY <1>4
  <2>2. chunk' = [i \in 1..l |-> <<m, b + i>>]
    BY <1>1, <2>1
  <2>3. b + l <= LastEvent
    BY <1>4, <2>1
  <2> WITNESS m \in Messages, b \in Nat, l \in Nat \ {0}
  <2> QED
    BY <1>8, <1>9, <2>1, <2>2, <2>3
<1>11. OneDelivery'
  BY <1>2 DEF Delivering, OneDelivery
<1> QED
  BY <1>2, <1>6, <1>7, <1>8, <1>10, <1>11, OneFollows, ExchangesOnly DEF IInv

-----------------------------------------------------------------------------
(* Opening the listen stream *)

\* What opening it leaves: a stream under way, or a retry, or neither where the client is
\* closed, was refused or has lost its HTTP transport.
Opened(l) ==
    /\ l \in Listen /\ l.wanted
    /\ ~(l.timer /\ l.stream # "none")
    /\ open /\ http /\ ~l.refused => (l.timer # (l.stream # "none"))
    /\ l.stream # "none" => l.carried = session
    /\ l.stream # "open"
    /\ l.lastId = listen.lastId

LEMMA OpenListenOK ==
    ASSUME NEW l \in Listen, l.wanted, l.stream = "none", ~l.timer, l.lastId = listen.lastId,
           open \in BOOLEAN, http \in BOOLEAN, session \in Nat, OpenListen(l)
    PROVE  Opened(listen')
<1> DEFINE k == [l EXCEPT !.resumed = l.lastId # 0]
<1>1. CASE listen' = l /\ (~open \/ ~http \/ l.refused)
  BY <1>1 DEF Opened
<1>2. CASE listen' = [k EXCEPT !.stream = "opening", !.carried = session]
  BY <1>2 DEF Opened, Listen
<1>3. CASE listen' = RetryListen(k)
  <2>1. listen' = [k EXCEPT !.timer = open /\ http /\ ~k.refused]
    BY <1>3 DEF RetryListen
  <2>2. k \in Listen /\ k.wanted /\ k.stream = "none" /\ k.lastId = l.lastId
    BY DEF Listen
  <2> HIDE DEF k
  <2>3. listen' \in Listen
    BY <2>1, <2>2 DEF Listen
  <2>4. /\ listen'.wanted /\ listen'.stream = "none" /\ listen'.refused = k.refused
        /\ listen'.lastId = l.lastId /\ listen'.timer = (open /\ http /\ ~k.refused)
    BY <2>1, <2>2 DEF Listen
  <2> QED
    BY <2>3, <2>4 DEF Opened
<1> QED
  BY <1>1, <1>2, <1>3 DEF OpenListen

\* The listener's part of the invariant, after an attempt to open the stream.
LEMMA OpenedOK ==
    ASSUME ListenOK, Opened(listen'), UNCHANGED <<open, http>>, open,
           \A m \in Messages : exchange'[m].live => exchange[m].live
    PROVE  ListenOK'
BY DEF ListenOK, ListensOrRetries, Opened

LEMMA OpenedStays ==
    ASSUME Opened(listen')
    PROVE  ListenStays(listen')
BY DEF Opened, ListenStays

\* receive: the answer to an exchange that is not answered yet.
LEMMA ReceivedOK ==
    ASSUME IInv, NEW m \in Messages, Received(m), exchange[m].live, ~exchange[m].answered
    PROVE  listen' = listen \/ (m \in Initializes /\ open /\ Opened(listen'))
<1>1. CASE UNCHANGED <<listen, faults>>
  BY <1>1
<1>2. CASE m \in Initializes /\ OpenListen([listen EXCEPT !.wanted = TRUE])
  <2> DEFINE l == [listen EXCEPT !.wanted = TRUE]
  <2>1. ~listen.wanted /\ listen \in Listen /\ listen.stream = "none" /\ ~listen.timer /\ open
    BY <1>2 DEF IInv, InitializesOK, ListenOK
  <2>2. /\ l \in Listen /\ l.wanted /\ l.stream = "none" /\ ~l.timer
        /\ l.lastId = listen.lastId
    BY <2>1 DEF Listen
  <2>3. open \in BOOLEAN /\ http \in BOOLEAN /\ session \in Nat
    BY DEF IInv, ListenOK, SessionOK
  <2> HIDE DEF l
  <2>4. OpenListen(l)
    BY <1>2 DEF l
  <2> QED
    BY <1>2, <2>1, <2>2, <2>3, <2>4, OpenListenOK
<1> QED
  BY <1>1, <1>2 DEF Received

\* An exchange answered: the others stay, and the client may begin to listen.
LEMMA AnsweredOK ==
    ASSUME IInv, NEW m \in Messages, exchange[m].live, ~exchange[m].answered,
           NEW f, ExchangeOK(f), Follows(exchange[m], f), f.live => f.answered,
           exchange' = [exchange EXCEPT ![m] = f], Received(m), ChunkOK', OneDelivery',
           UNCHANGED <<http, open, session, backlog, server, deleted, seen>>
    PROVE  IInv'
<1>1. ExchangesFollow /\ exchange'[m] = f
  BY OneFollows, OnlyOne DEF IInv
<1>2. listen' = listen \/ (m \in Initializes /\ open /\ Opened(listen'))
  BY ReceivedOK
<1>3. CASE listen' = listen
  BY <1>1, <1>3, ExchangesOnly
<1>4. CASE m \in Initializes /\ open /\ Opened(listen')
  <2>1. \A k \in Messages : exchange'[k].live => exchange[k].live
    BY <1>1 DEF ExchangesFollow, Follows
  <2>2. ListenOK'
    BY <1>4, <2>1, OpenedOK DEF IInv
  <2>3. \A k \in Initializes : exchange'[k].live => exchange'[k].answered
    <3>1. \A k \in Initializes : k \in Messages
      BY DEF Messages, Requests
    <3> QED
      BY <1>1, <1>4, <2>1, <3>1 DEF IInv, InitializesOK
  <2>4. InitializesOK'
    BY <1>1, <2>3, InitializesFollow DEF IInv
  <2>5. UNCHANGED <<granted, forgotten, log>>
    BY DEF server
  <2>6. SessionOK'
    <3>1. forgotten' \subseteq 1..granted
      BY <2>5 DEF IInv, SessionOK
    <3>2. listen'.stream # "none" => listen'.carried \in {0, session}
      BY <1>4 DEF Opened
    <3> QED
      BY <1>1, <2>5, <3>1, <3>2, SessionFollows DEF IInv
  <2>7. OrderOK'
    BY <1>4, <2>5, OrderKept, OpenedStays DEF IInv
  <2> QED
    BY <1>1, <2>2, <2>4, <2>6, <2>7 DEF IInv, ExchangesFollow
<1> QED
  BY <1>2, <1>3, <1>4

\* onFinished with a body.
LEMMA FinishedBodyOK ==
    ASSUME IInv, NEW m \in Messages, FinishedBody(m)
    PROVE  IInv'
<1> DEFINE e == exchange[m]
           f == [Release(e) EXCEPT !.answers = Release(e).answers + 1]
<1>1. /\ e.stream = "open" /\ e.head \in {"json", "accepted"} /\ ~Delivering
      /\ UNCHANGED <<http, open, session, chunk, backlog, server, deleted, seen>>
  BY DEF FinishedBody
<1>2. \/ exchange' = [exchange EXCEPT ![m] = f] /\ Received(m)
      \/ exchange' = [exchange EXCEPT ![m] = Failed(m, e)] /\ UNCHANGED listen
  BY DEF FinishedBody
<1>3. ExchangeOK(e) /\ e.live /\ ~e.answered /\ e.answers = 0 /\ e.failures = 0 /\ ~e.dropped
  BY <1>1 DEF IInv, ExchangesOK, ExchangeOK
<1>4. CASE exchange' = [exchange EXCEPT ![m] = Failed(m, e)] /\ UNCHANGED listen
  <2>1. ExchangeOK(Failed(m, e)) /\ Over(Failed(m, e))
    BY <1>3, FailedOK
  <2> QED
    BY <1>1, <1>4, <2>1, OverFollows, OneExchange
<1>5. CASE exchange' = [exchange EXCEPT ![m] = f] /\ Received(m)
  <2>1. /\ Release(e) \in Exchange /\ Release(e).answers = 0 /\ Release(e).failures = 0
        /\ Over(Release(e)) /\ ~Release(e).timer /\ ~Release(e).dropped
    BY <1>3, ReleaseOK DEF ExchangeOK, Release, NoExchange
  <2>2. ExchangeOK(f) /\ Over(f)
    BY <2>1 DEF ExchangeOK, Exchange, Over
  <2> HIDE DEF f
  <2>3. Follows(e, f) /\ (f.live => f.answered)
    BY <2>2, OverFollows DEF Over
  <2>4. ChunkOK' /\ OneDelivery'
    BY <1>1, NoChunkOK
  <2> QED
    BY <1>1, <1>3, <1>5, <2>2, <2>3, <2>4, AnsweredOK
<1> QED
  BY <1>2, <1>4, <1>5

\* Head and Tail of a run of n elements.
LEMMA HeadTail ==
    ASSUME NEW T, NEW n \in Nat \ {0}, NEW s \in [1..n -> T]
    PROVE  /\ Len(s) = n /\ Head(s) = s[1]
           /\ Tail(s) = [i \in 1..n - 1 |-> s[i + 1]]
           /\ n = 1 => Tail(s) = << >>
<1> DEFINE t == [i \in 1..n - 1 |-> s[i + 1]]
<1>1. s \in Seq(T) /\ Len(s) = n /\ s # << >>
  OBVIOUS
<1>2. Head(s) = s[1]
  BY <1>1
<1>3. Tail(s) \in Seq(T) /\ Len(Tail(s)) = n - 1 /\ \A i \in 1..n - 1 : Tail(s)[i] = s[i + 1]
  BY <1>1
<1>4. t \in Seq(T) /\ Len(t) = n - 1 /\ \A i \in 1..n - 1 : t[i] = s[i + 1]
  <2>1. t \in [1..n - 1 -> T] /\ n - 1 \in Nat
    OBVIOUS
  <2>2. t \in Seq(T)
    BY <2>1, SeqDef
  <2>3. Len(t) = n - 1
    BY <2>1, <2>2, LenProperties
  <2> QED
    BY <2>2, <2>3
<1> HIDE DEF t
<1>5. Tail(s) = t
  BY <1>3, <1>4, SeqEqual
<1>6. ASSUME n = 1
      PROVE  Tail(s) = << >>
  <2>1. Tail(s) \in Seq(T) /\ Len(Tail(s)) = 0
    BY <1>3, <1>6
  <2> QED
    BY <2>1, EmptySeq
<1> QED
  BY <1>1, <1>2, <1>5, <1>6 DEF t

\* Taking the first event of a chunk, and the first server message of a backlog, leaves
\* those behind it.
LEMMA ChunkTail ==
    ASSUME NEW m, NEW b \in Nat, NEW n \in Nat \ {0}, NEW s,
           s = [i \in 1..n |-> <<m, b + i>>]
    PROVE  /\ Head(s) = <<m, b + 1>> /\ Len(s) = n
           /\ Tail(s) = [i \in 1..n - 1 |-> <<m, (b + 1) + i>>]
           /\ n = 1 => Tail(s) = << >>
<1>1. PICK T : s \in [1..n -> T]
  <2>1. s \in [1..n -> {<<m, k>> : k \in Nat}]
    <3>1. \A i \in 1..n : b + i \in Nat
      OBVIOUS
    <3> QED
      BY <3>1
  <2> QED
    BY <2>1
<1>2. /\ Len(s) = n /\ Head(s) = s[1]
      /\ Tail(s) = [i \in 1..n - 1 |-> s[i + 1]]
      /\ n = 1 => Tail(s) = << >>
  BY <1>1, HeadTail
<1>3. \A i \in 1..n - 1 : s[i + 1] = <<m, (b + 1) + i>>
  <2>1. \A i \in 1..n - 1 : i + 1 \in 1..n /\ b + (i + 1) = (b + 1) + i
    OBVIOUS
  <2> QED
    BY <2>1
<1>4. s[1] = <<m, b + 1>>
  OBVIOUS
<1> QED
  BY <1>2, <1>3, <1>4

LEMMA BacklogTail ==
    ASSUME NEW b \in Nat, NEW n \in Nat \ {0}, NEW s, s = [i \in 1..n |-> b + i]
    PROVE  /\ Head(s) = b + 1
           /\ Tail(s) = [i \in 1..n - 1 |-> (b + 1) + i]
           /\ n = 1 => Tail(s) = << >>
<1>1. s \in [1..n -> Nat]
  OBVIOUS
<1>2. /\ Head(s) = s[1]
      /\ Tail(s) = [i \in 1..n - 1 |-> s[i + 1]]
      /\ n = 1 => Tail(s) = << >>
  BY <1>1, HeadTail
<1>3. \A i \in 1..n - 1 : s[i + 1] = (b + 1) + i
  OBVIOUS
<1> QED
  BY <1>2, <1>3

\* One turn of onChunk's loop: the answer is the last event of its chunk.
LEMMA DeliverEventOK ==
    ASSUME IInv, DeliverEvent
    PROVE  IInv'
<1>1. PICK m \in Messages, b \in Nat, n \in Nat \ {0} :
            /\ chunk = [i \in 1..n |-> <<m, b + i>>]
            /\ b + n <= LastEvent
            /\ exchange[m].sent
            /\ exchange[m].live =>
                   /\ exchange[m].stream = "open" /\ exchange[m].head = "events"
                   /\ ~exchange[m].answered /\ exchange[m].got = b + n
  BY DEF DeliverEvent, IInv, ChunkOK
<1> DEFINE e == exchange[m]
           g == [e EXCEPT !.answered = TRUE, !.answers = e.answers + 1]
           last == b + 1 = LastEvent /\ m \in Requests
<1>2. /\ chunk # NoChunk /\ Head(chunk)[1] = m /\ Head(chunk)[2] = b + 1 /\ Len(chunk) = n
      /\ Tail(chunk) = [i \in 1..n - 1 |-> <<m, (b + 1) + i>>]
      /\ n = 1 => Tail(chunk) = << >>
  <2>1. /\ Head(chunk) = <<m, b + 1>> /\ Len(chunk) = n
        /\ Tail(chunk) = [i \in 1..n - 1 |-> <<m, (b + 1) + i>>]
        /\ n = 1 => Tail(chunk) = << >>
    BY <1>1, ChunkTail
  <2>2. chunk # NoChunk
    BY DEF DeliverEvent
  <2> QED
    BY <2>1, <2>2
<1>3. UNCHANGED <<http, open, session, backlog, server, deleted, seen>>
  BY DEF DeliverEvent
<1>4. OneDelivery'
  BY <1>2, <1>3 DEF IInv, OneDelivery
<1>5. ExchangeOK(e) /\ LastEvent \in Nat
  BY HttpAssumption DEF IInv, ExchangesOK
<1>6. CASE ~e.live
  <2>1. chunk' = NoChunk /\ UNCHANGED <<exchange, listen>>
    BY <1>2, <1>6 DEF DeliverEvent
  <2>2. ExchangesFollow
    BY <2>1, SameFollows DEF IInv, ExchangesFollow, ExchangesOK
  <2>3. ChunkOK'
    BY <2>1 DEF ChunkOK
  <2> QED
    BY <1>3, <1>4, <2>1, <2>2, <2>3, ExchangesOnly
<1>7. CASE e.live /\ ~last
  <2>1. chunk' = Tail(chunk) /\ UNCHANGED listen /\ exchange' = [exchange EXCEPT ![m] = e]
    BY <1>1, <1>2, <1>7 DEF DeliverEvent
  <2>2. ExchangesFollow /\ exchange'[m] = e
    BY <1>5, <2>1, OneFollows, OnlyOne, SameFollows DEF IInv
  <2>3. ChunkOK'
    <3>1. CASE n = 1
      BY <1>2, <2>1, <3>1 DEF ChunkOK, NoChunk
    <3>2. CASE n # 1
      <4>1. PICK b2 \in Nat, n2 \in Nat \ {0} : b2 = b + 1 /\ n2 = n - 1 /\ b2 + n2 = b + n
        BY <3>2
      <4>2. chunk' = [i \in 1..n2 |-> <<m, b2 + i>>]
        BY <1>2, <2>1, <4>1
      <4> SUFFICES \E k \in Messages, c \in Nat, l \in Nat \ {0} :
                  /\ chunk' = [i \in 1..l |-> <<k, c + i>>]
                  /\ c + l <= LastEvent
                  /\ exchange'[k].sent
                  /\ exchange'[k].live =>
                        /\ exchange'[k].stream = "open" /\ exchange'[k].head = "events"
                        /\ ~exchange'[k].answered /\ exchange'[k].got = c + l
        BY DEF ChunkOK
      <4> WITNESS m \in Messages, b2 \in Nat, n2 \in Nat \ {0}
      <4> QED
        BY <1>1, <2>2, <4>1, <4>2
    <3> QED
      BY <3>1, <3>2
  <2> QED
    BY <1>3, <1>4, <2>1, <2>2, <2>3, ExchangesOnly
<1>8. CASE e.live /\ last
  <2>1. n = 1 /\ e.got = LastEvent /\ ~e.answered /\ e.stream = "open" /\ e.head = "events"
    BY <1>1, <1>5, <1>8
  <2>2. chunk' = << >> /\ Received(m)
    BY <1>2, <1>8, <2>1 DEF DeliverEvent
  <2>3. exchange' = [exchange EXCEPT ![m] = IF g.resuming /\ g.answered THEN Release(g) ELSE g]
    BY <1>2, <1>8, <2>1 DEF DeliverEvent
  <2>4. ExchangeOK(g) /\ g.answered /\ Follows(e, g)
    <3>1. e \in Exchange /\ e.answers = 0 /\ ~e.timer
      BY <1>5, <1>8, <2>1 DEF ExchangeOK
    <3>2. g \in Exchange
      <4>1. g = [e EXCEPT !.answered = TRUE, !.answers = 1]
        BY <3>1
      <4> HIDE DEF e, g
      <4> QED
        BY <3>1, <4>1 DEF Exchange
    <3> QED
      BY <1>5, <1>8, <2>1, <3>1, <3>2 DEF ExchangeOK, Exchange, Follows
  <2> HIDE DEF g
  <2>5. ExchangeOK(Release(g)) /\ Over(Release(g))
    BY <2>4, ReleaseOK
  <2>6. PICK f : /\ exchange' = [exchange EXCEPT ![m] = f]
                 /\ ExchangeOK(f) /\ Follows(e, f) /\ (f.live => f.answered)
    BY <2>3, <2>4, <2>5, OverFollows DEF Over
  <2>7. ChunkOK'
    BY <2>2 DEF ChunkOK, NoChunk
  <2> QED
    BY <1>3, <1>4, <1>8, <2>1, <2>2, <2>6, <2>7, AnsweredOK
<1> QED
  BY <1>6, <1>7, <1>8

-----------------------------------------------------------------------------
(* stop, and a session the server forgot *)

LEMMA NoListenOK == NoListen \in Listen /\ ~NoListen.wanted /\ NoListen.stream = "none"
                    /\ ~NoListen.timer /\ NoListen.lastId = 0
BY DEF NoListen, Listen

\* deleteSession of the present session, and of none if the server forgot it.
LEMMA DeleteSessionOK ==
    ASSUME SessionOK, NEW s, s = session \/ (s = 0 /\ session \in forgotten \cup {0}),
           DeleteSession(s), UNCHANGED <<http, granted, forgotten>>, session' = 0
    PROVE  deleted' \subseteq 1..granted /\ SessionsAccounted'
<1>1. deleted' = IF http /\ s # 0 THEN deleted \cup {s} ELSE deleted
  BY DEF DeleteSession
<1>2. /\ granted \in Nat /\ session \in 0..granted /\ deleted \subseteq 1..granted
      /\ \A t \in 1..granted : http => t = session \/ t \in deleted \/ t \in forgotten
  BY DEF SessionOK, SessionsAccounted
<1>3. deleted' \subseteq 1..granted
  <2>1. s # 0 => s \in 1..granted
    BY <1>2
  <2>2. \A t \in deleted' : t \in deleted \/ (s # 0 /\ t = s)
    BY <1>1
  <2> QED
    BY <1>2, <2>1, <2>2
<1>4. \A t \in 1..granted : http => t \in deleted' \/ t \in forgotten
  BY <1>1, <1>2
<1>5. 0 \notin deleted'
  BY <1>2, <1>3
<1> QED
  BY <1>3, <1>4, <1>5 DEF SessionsAccounted

\* stop with the exchanges x: those of the state, but for one that is just over.
LEMMA StopsOK ==
    ASSUME IInv, NEW x \in [Messages -> Exchange],
           \A m \in Messages : ExchangeOK(x[m]) /\ (exchange[m].sent => x[m].sent),
           NEW s, s = session \/ (s = 0 /\ session \in forgotten \cup {0}),
           Stops(x, s), UNCHANGED <<http, chunk, server, seen>>
    PROVE  IInv'
<1>1. /\ open' = FALSE /\ session' = 0 /\ exchange' = DropAll(x) /\ listen' = NoListen
      /\ backlog' = << >> /\ DeleteSession(s) /\ UNCHANGED <<log, granted, forgotten>>
  BY DEF Stops, server
<1>2. \A m \in Messages : /\ ExchangeOK(exchange'[m]) /\ ~exchange'[m].live
                          /\ exchange'[m].stream = "none"
                          /\ exchange[m].sent => exchange'[m].sent
  <2> TAKE m \in Messages
  <2>1. exchange'[m] = IF x[m].live THEN Drop(x[m]) ELSE x[m]
    BY <1>1 DEF DropAll
  <2>2. CASE x[m].live
    BY <2>1, <2>2, DropOK DEF Over
  <2>3. CASE ~x[m].live
    BY <2>1, <2>3 DEF ExchangeOK
  <2> QED
    BY <2>2, <2>3
<1>3. ExchangesOK'
  <2>1. exchange' \in [Messages -> Exchange]
    BY <1>1, <1>2 DEF DropAll, ExchangeOK
  <2> QED
    BY <1>2, <2>1 DEF ExchangesOK
<1>4. ChunkOK'
  BY <1>2, ChunkFollows DEF IInv
<1>5. ListenOK'
  <2>1. /\ http' \in BOOLEAN /\ open' = FALSE /\ listen' \in Listen /\ ~listen'.wanted
        /\ listen'.stream = "none" /\ ~listen'.timer
    BY <1>1, NoListenOK DEF IInv, ListenOK
  <2> QED
    BY <1>2, <2>1 DEF ListenOK, ListensOrRetries
<1>6. InitializesOK'
  <2>1. \A m \in Initializes : m \in Messages
    BY DEF Messages, Requests
  <2> QED
    BY <1>1, <1>2, <2>1 DEF InitializesOK
<1>7. SessionOK'
  <2>1. deleted' \subseteq 1..granted /\ SessionsAccounted'
    BY <1>1, DeleteSessionOK DEF IInv
  <2> QED
    BY <1>1, <1>2, <2>1, NoListenOK DEF IInv, SessionOK
<1>8. OrderOK'
  <2>1. ListenStays(listen')
    BY <1>1, NoListenOK DEF ListenStays
  <2> QED
    BY <1>1, <2>1, OrderKept DEF IInv
<1>9. OneDelivery'
  BY <1>1 DEF OneDelivery
<1> QED
  BY <1>3, <1>4, <1>5, <1>6, <1>7, <1>8, <1>9 DEF IInv

LEMMA StopOK ==
    ASSUME IInv, Stop
    PROVE  IInv'
<1>1. /\ exchange \in [Messages -> Exchange]
      /\ \A m \in Messages : ExchangeOK(exchange[m]) /\ (exchange[m].sent => exchange[m].sent)
  BY DEF IInv, ExchangesOK
<1> QED
  BY <1>1, StopsOK DEF Stop

LEMMA StartOK ==
    ASSUME IInv, Start
    PROVE  IInv'
<1>1. /\ ~open /\ open' = TRUE
      /\ UNCHANGED <<http, session, exchange, chunk, listen, backlog, server, deleted, seen>>
  BY DEF Start
<1>2. UNCHANGED <<log, granted, forgotten>>
  BY <1>1 DEF server
<1>3. ExchangesFollow
  BY <1>1, SameFollows DEF IInv, ExchangesFollow, ExchangesOK
<1>4. ListenOK'
  BY <1>1 DEF IInv, ListenOK, ListensOrRetries
<1>5. ChunkOK' /\ OneDelivery'
  BY <1>1 DEF IInv, ChunkOK, OneDelivery
<1>6. InitializesOK'
  BY <1>1, <1>3, InitializesFollow DEF IInv
<1>7. SessionOK'
  <2>1. forgotten' \subseteq 1..granted /\ (listen'.stream # "none" => listen'.carried \in {0, session})
    BY <1>1, <1>2 DEF IInv, SessionOK
  <2> QED
    BY <1>1, <1>2, <1>3, <2>1, SessionFollows DEF IInv
<1>8. OrderOK'
  BY <1>1, <1>2, OrderKept, SameListenStays DEF IInv
<1> QED
  BY <1>3, <1>4, <1>5, <1>6, <1>7, <1>8 DEF IInv, ExchangesFollow

\* onFinished of a refusal; a 404 ends what the transport does.
LEMMA FinishedRefusedOK ==
    ASSUME IInv, NEW m \in Messages, FinishedRefused(m)
    PROVE  IInv'
<1> DEFINE e == exchange[m]
           r == Release(e)
<1>1. /\ e.stream = "open" /\ e.head \in Refusals /\ ~Delivering
      /\ UNCHANGED <<http, chunk, server, seen>>
  BY DEF FinishedRefused
<1>2. ExchangeOK(e) /\ e.live /\ e.sent /\ ~e.answered /\ e.answers = 0 /\ e.failures = 0 /\ ~e.dropped
  BY <1>1 DEF IInv, ExchangesOK, ExchangeOK, Refusals
<1>3. PICK told :
        /\ told \in IF m \in Requests
                    THEN {[r EXCEPT !.answers = r.answers + 1], [r EXCEPT !.failures = r.failures + 1]}
                    ELSE {r}
        /\ IF e.head = "gone" THEN Gone([exchange EXCEPT ![m] = told])
           ELSE /\ exchange' = [exchange EXCEPT ![m] = told]
                /\ UNCHANGED <<open, session, listen, backlog, deleted>>
  BY DEF FinishedRefused
<1>4. ExchangeOK(told) /\ Over(told)
  <2>1. /\ r \in Exchange /\ r.answers = 0 /\ r.failures = 0 /\ Over(r) /\ ~r.timer /\ ~r.dropped
        /\ ExchangeOK(r)
    BY <1>2, ReleaseOK DEF ExchangeOK, Release, NoExchange
  <2> HIDE DEF r
  <2> QED
    BY <1>3, <2>1 DEF ExchangeOK, Exchange, Over
<1>5. CASE /\ exchange' = [exchange EXCEPT ![m] = told]
           /\ UNCHANGED <<open, session, listen, backlog, deleted>>
  BY <1>1, <1>4, <1>5, OverFollows, OneExchange
<1>6. CASE e.head = "gone" /\ Stops([exchange EXCEPT ![m] = told], 0)
  <2> DEFINE x == [exchange EXCEPT ![m] = told]
  <2>1. /\ x \in [Messages -> Exchange]
        /\ \A k \in Messages : ExchangeOK(x[k]) /\ (exchange[k].sent => x[k].sent)
    BY <1>4 DEF IInv, ExchangesOK, ExchangeOK, Over
  <2>2. session \in forgotten
    BY <1>1, <1>6 DEF IInv, SessionOK
  <2> HIDE DEF x
  <2>3. Stops(x, 0)
    BY <1>6 DEF x
  <2> QED
    BY <1>1, <2>1, <2>2, <2>3, StopsOK
<1> QED
  BY <1>3, <1>5, <1>6 DEF Gone

-----------------------------------------------------------------------------
(* Sending *)

\* The exchange of post, begun in session s.
Begun(e, s) == [e EXCEPT !.sent = TRUE, !.live = TRUE, !.stream = "opening", !.carried = s]

LEMMA BegunOK ==
    ASSUME NEW e, ExchangeOK(e), ~e.sent, NEW s \in Nat
    PROVE  /\ ExchangeOK(Begun(e, s)) /\ Begun(e, s).stream = "opening"
           /\ Begun(e, s).carried = s
BY DEF Begun, ExchangeOK, Exchange

\* post that fails at once.
LEMMA RefusedOK ==
    ASSUME NEW m, NEW e, ExchangeOK(e), ~e.sent
    PROVE  /\ ExchangeOK(Failed(m, [e EXCEPT !.sent = TRUE]))
           /\ Over(Failed(m, [e EXCEPT !.sent = TRUE]))
<1>1. /\ ExchangeOK([e EXCEPT !.sent = TRUE]) /\ [e EXCEPT !.sent = TRUE].answers = 0
      /\ [e EXCEPT !.sent = TRUE].failures = 0 /\ ~[e EXCEPT !.sent = TRUE].dropped
  BY DEF ExchangeOK, Exchange
<1> QED
  BY <1>1, FailedOK

LEMMA PostRefusedOK ==
    ASSUME IInv, NEW m \in Messages, ~exchange[m].sent,
           exchange' = [exchange EXCEPT ![m] = Failed(m, [exchange[m] EXCEPT !.sent = TRUE])],
           UNCHANGED <<http, open, session, chunk, listen, backlog, server, deleted, seen>>
    PROVE  IInv'
<1> DEFINE f == Failed(m, [exchange[m] EXCEPT !.sent = TRUE])
<1>1. ExchangeOK(exchange[m])
  BY DEF IInv, ExchangesOK
<1>2. ExchangeOK(f) /\ Over(f)
  BY <1>1, RefusedOK
<1>3. exchange' = [exchange EXCEPT ![m] = f]
  OBVIOUS
<1> HIDE DEF f
<1>4. ExchangesFollow
  BY <1>2, <1>3, OneFollows, OverFollows DEF IInv
<1>5. \A k \in Messages : exchange'[k] = exchange[k] \/ ~exchange[k].sent
  BY <1>3 DEF IInv, ExchangesOK
<1>6. ChunkOK' /\ OneDelivery'
  BY <1>5, ChunkFollows DEF IInv, OneDelivery
<1> QED
  BY <1>4, <1>6, ExchangesOnly

\* send of anything but initialize.
LEMMA SendOK ==
    ASSUME IInv, NEW m \in Messages, Send(m)
    PROVE  IInv'
<1> DEFINE e == exchange[m]
           f == Begun(e, session)
<1>1. /\ open /\ m \in Calls \cup Notes /\ ~e.sent
      /\ UNCHANGED <<http, open, session, chunk, listen, backlog, server, deleted, seen>>
  BY DEF Send
<1>2. \/ exchange' = [exchange EXCEPT ![m] = f]
      \/ exchange' = [exchange EXCEPT ![m] = Failed(m, [e EXCEPT !.sent = TRUE])]
  BY DEF Send, Post, Begun, IInv, ExchangesOK
<1>3. CASE exchange' = [exchange EXCEPT ![m] = Failed(m, [e EXCEPT !.sent = TRUE])]
  BY <1>1, <1>3, PostRefusedOK
<1>4. CASE exchange' = [exchange EXCEPT ![m] = f]
  <2>1. ExchangeOK(f) /\ f.stream = "opening" /\ f.carried = session
    BY <1>1, BegunOK DEF IInv, ExchangesOK, SessionOK
  <2> HIDE DEF f
  <2>2. /\ ExchangesOK' /\ exchange'[m] = f
        /\ \A k \in Messages \ {m} : exchange'[k] = exchange[k]
    BY <1>4, <2>1, OnlyOne DEF IInv
  <2>3. UNCHANGED <<log, granted, forgotten>>
    BY <1>1 DEF server
  <2>4. ChunkOK' /\ OneDelivery'
    BY <1>1, <2>2, ChunkFollows DEF IInv, OneDelivery
  <2>5. ListenOK'
    BY <1>1, <2>2, ListenFollows DEF IInv
  <2>6. InitializesOK'
    <3>1. \A k \in Initializes : k \in Messages /\ k # m
      BY <1>1, HttpAssumption DEF Messages, Requests
    <3> QED
      BY <1>1, <2>2, <3>1 DEF IInv, InitializesOK
  <2>7. SessionOK'
    BY <1>1, <2>1, <2>2, <2>3 DEF IInv, SessionOK, SessionsAccounted
  <2>8. OrderOK'
    BY <1>1, <2>3, OrderKept, SameListenStays DEF IInv
  <2> QED
    BY <2>2, <2>4, <2>5, <2>6, <2>7, <2>8 DEF IInv
<1> QED
  BY <1>2, <1>3, <1>4

\* startNewSession leaves no exchange under way.
LEMMA SupersedeOK ==
    ASSUME ExchangesOK
    PROVE  /\ Supersede(exchange) \in [Messages -> Exchange]
           /\ \A m \in Messages : /\ ExchangeOK(Supersede(exchange)[m])
                                  /\ ~Supersede(exchange)[m].live
                                  /\ exchange[m].sent => Supersede(exchange)[m].sent
                                  /\ ~exchange[m].sent => Supersede(exchange)[m] = exchange[m]
<1>1. \A m \in Messages : /\ ExchangeOK(Supersede(exchange)[m])
                          /\ ~Supersede(exchange)[m].live
                          /\ exchange[m].sent => Supersede(exchange)[m].sent
                          /\ ~exchange[m].sent => Supersede(exchange)[m] = exchange[m]
  <2> TAKE m \in Messages
  <2>1. ExchangeOK(exchange[m])
    BY DEF ExchangesOK
  <2>2. Supersede(exchange)[m] = IF exchange[m].live THEN Failed(m, exchange[m]) ELSE exchange[m]
    BY DEF Supersede
  <2>3. CASE exchange[m].live
    BY <2>1, <2>2, <2>3, FailedOK DEF Over, ExchangeOK
  <2>4. CASE ~exchange[m].live
    BY <2>1, <2>2, <2>4
  <2> QED
    BY <2>3, <2>4
<1>2. Supersede(exchange) \in [Messages -> Exchange]
  BY <1>1 DEF Supersede, ExchangeOK
<1> QED
  BY <1>1, <1>2

\* send of initialize: a new session, where the HTTP transport is still there.
LEMMA SendInitializeOK ==
    ASSUME IInv, NEW m \in Messages, SendInitialize(m)
    PROVE  IInv'
<1> DEFINE x == Supersede(exchange)
           e == x[m]
<1>1. /\ open /\ m \in Initializes /\ ~exchange[m].sent /\ UNCHANGED <<http, open, chunk, server, seen>>
  BY DEF SendInitialize
<1>2. CASE ~http
  <2>1. exchange' = [exchange EXCEPT ![m] = Failed(m, [exchange[m] EXCEPT !.sent = TRUE])]
    BY <1>2 DEF SendInitialize, Post, IInv, ExchangesOK
  <2>2. UNCHANGED <<session, listen, backlog, deleted>>
    BY <1>2 DEF SendInitialize
  <2> QED
    BY <1>1, <2>1, <2>2, PostRefusedOK
<1>3. CASE http
  <2>1. /\ DeleteSession(session) /\ session' = 0 /\ listen' = NoListen /\ backlog' = << >>
        /\ UNCHANGED <<log, granted, forgotten>>
    BY <1>1, <1>3 DEF SendInitialize, server
  <2>2. /\ x \in [Messages -> Exchange]
        /\ \A k \in Messages : /\ ExchangeOK(x[k]) /\ ~x[k].live
                               /\ exchange[k].sent => x[k].sent
        /\ ~e.sent
    BY <1>1, SupersedeOK DEF IInv
  <2>3. \/ exchange' = [x EXCEPT ![m] = Begun(e, 0)]
        \/ exchange' = [x EXCEPT ![m] = Failed(m, [e EXCEPT !.sent = TRUE])]
    <3> HIDE DEF x
    <3>1. Post(m, x, 0)
      BY <1>3 DEF SendInitialize, x
    <3> QED
      BY <2>2, <3>1 DEF Post, Begun
  <2>4. PICK f : /\ exchange' = [x EXCEPT ![m] = f] /\ ExchangeOK(f)
                 /\ f.stream \in {"none", "opening"} /\ (f.stream # "none" => f.carried = 0)
    <3>1. ExchangeOK(Begun(e, 0)) /\ Begun(e, 0).stream = "opening" /\ Begun(e, 0).carried = 0
      BY <2>2, BegunOK
    <3>2. /\ ExchangeOK(Failed(m, [e EXCEPT !.sent = TRUE]))
          /\ Over(Failed(m, [e EXCEPT !.sent = TRUE]))
      BY <2>2, RefusedOK
    <3> QED
      BY <2>3, <3>1, <3>2 DEF Over
  <2> HIDE DEF x
  <2>5. exchange'[m] = f /\ \A k \in Messages \ {m} : exchange'[k] = x[k]
    BY <2>2, <2>4
  <2>6. ExchangesOK'
    BY <2>2, <2>4, <2>5 DEF ExchangesOK, ExchangeOK
  <2>7. ChunkOK' /\ OneDelivery'
    <3>1. \A k \in Messages : (exchange'[k].sent /\ ~exchange'[k].live) \/ ~exchange[k].sent
      BY <1>1, <2>2, <2>5
    <3> QED
      BY <1>1, <2>1, <3>1, ChunkFollows DEF IInv, OneDelivery
  <2>8. ListenOK'
    <3>1. /\ http' \in BOOLEAN /\ open' = TRUE /\ listen' \in Listen /\ ~listen'.wanted
          /\ listen'.stream = "none" /\ ~listen'.timer
      BY <1>1, <2>1, NoListenOK DEF IInv, ListenOK
    <3> QED
      BY <3>1 DEF ListenOK, ListensOrRetries
  <2>9. InitializesOK'
    <3>1. \A k \in Initializes : k \in Messages
      BY DEF Messages, Requests
    <3> QED
      BY <2>1, <2>2, <2>5, <3>1, NoListenOK DEF InitializesOK
  <2>10. SessionOK'
    <3>1. deleted' \subseteq 1..granted /\ SessionsAccounted'
      BY <1>1, <2>1, DeleteSessionOK DEF IInv
    <3>2. \A k \in Messages : exchange'[k].stream # "none" =>
              exchange'[k].stream = "opening" /\ exchange'[k].carried = 0
      BY <2>2, <2>4, <2>5 DEF ExchangeOK
    <3> QED
      BY <2>1, <3>1, <3>2, NoListenOK DEF IInv, SessionOK
  <2>11. OrderOK'
    <3>1. ListenStays(listen')
      BY <2>1, NoListenOK DEF ListenStays
    <3> QED
      BY <1>1, <2>1, <3>1, OrderKept DEF IInv
  <2> QED
    BY <2>6, <2>7, <2>8, <2>9, <2>10, <2>11 DEF IInv
<1> QED
  BY <1>2, <1>3

-----------------------------------------------------------------------------
(* Heads of replies *)

\* onHeaders: a session id in the head becomes the transport's; a new one comes only with
\* the answer to initialize, and then there was none.
LEMMA HeadersOK ==
    ASSUME IInv, NEW m \in Messages, Headers(m)
    PROVE  IInv'
<1> DEFINE e == exchange[m]
<1>1. PICK h \in Replies(m, e) :
        /\ exchange' = [exchange EXCEPT ![m].stream = "open", ![m].head = h]
        /\ IF m \in Initializes /\ h \in {"events", "json"} /\ ~e.resuming /\ sessions
           THEN granted' = granted + 1 /\ session' = granted + 1
           ELSE session' = (IF e.carried # 0 THEN e.carried ELSE session) /\ UNCHANGED granted
  BY DEF Headers
<1> DEFINE f == [e EXCEPT !.stream = "open", !.head = h]
<1>2. /\ e.stream = "opening" /\ ~Delivering
      /\ UNCHANGED <<http, open, chunk, listen, backlog, ids, sessions, log, forgotten, deleted, seen>>
  BY DEF Headers
<1>3. ExchangeOK(e) /\ e.live /\ ~e.answered /\ e \in Exchange
  BY <1>2 DEF IInv, ExchangesOK, ExchangeOK
<1>4. h \in Heads /\ (h = "gone" => e.carried \in forgotten)
  BY <1>1 DEF Replies, Heads, Refusals
<1>5. exchange' = [exchange EXCEPT ![m] = f]
  BY <1>1 DEF IInv, ExchangesOK
<1>6. /\ ExchangeOK(f) /\ Follows(e, f) /\ f.stream = "open" /\ f.carried = e.carried
      /\ f.head = h /\ ~f.answered
  <2>1. f \in Exchange
    BY <1>3, <1>4 DEF Exchange
  <2> QED
    BY <1>2, <1>3, <1>4, <2>1 DEF ExchangeOK, Exchange, Follows
<1> HIDE DEF f
<1>7. e.carried \in {0, session}
  BY <1>2 DEF IInv, SessionOK
<1>8. CASE UNCHANGED <<session, granted>>
  <2>1. UNCHANGED server
    BY <1>2, <1>8 DEF server
  <2> QED
    BY <1>2, <1>5, <1>6, <1>8, <2>1, OneExchange
<1>9. CASE m \in Initializes /\ ~e.resuming /\ granted' = granted + 1 /\ session' = granted + 1
  <2>1. session = 0
    BY <1>2, <1>9 DEF IInv, InitializesOK
  <2>2. /\ ExchangesFollow /\ exchange'[m] = f
        /\ \A k \in Messages \ {m} : exchange'[k] = exchange[k]
    BY <1>5, <1>6, OneFollows, OnlyOne DEF IInv
  <2>3. ChunkOK' /\ OneDelivery'
    BY <1>2, NoChunkOK
  <2>4. ListenOK'
    BY <1>2, <2>2, ListenFollows DEF IInv, ExchangesFollow, Follows
  <2>5. InitializesOK'
    <3>1. \A k \in Initializes : k \in Messages
      BY DEF Messages, Requests
    <3>2. \A k \in Initializes : exchange'[k].live => k = m
      BY <1>3, <1>9, <2>2, <3>1 DEF IInv, InitializesOK, ExchangesFollow, Follows
    <3>3. \A k \in Initializes : exchange'[k].stream # "opening"
      BY <1>6, <2>2, <3>1, <3>2 DEF ExchangesFollow, ExchangesOK, ExchangeOK
    <3>4. \A k \in Initializes : exchange'[k].live /\ ~exchange'[k].answered => ~listen'.wanted
      BY <1>2, <1>3, <1>9, <3>2 DEF IInv, InitializesOK
    <3> QED
      BY <3>2, <3>3, <3>4 DEF InitializesOK
  <2>6. SessionOK'
    <3>1. SessionsAccounted'
      BY <1>2, <1>9, <2>1 DEF IInv, SessionOK, SessionsAccounted
    <3>2. \A k \in Messages : exchange'[k].stream # "none" =>
             /\ exchange'[k].carried = 0
             /\ exchange'[k].stream = "open" /\ exchange'[k].head = "gone"
                    => exchange'[k].carried \in forgotten'
      BY <1>2, <1>4, <1>6, <1>7, <2>1, <2>2 DEF IInv, SessionOK
    <3>3. listen'.stream # "none" => listen'.carried = 0
      BY <1>2, <2>1 DEF IInv, SessionOK
    <3> QED
      BY <1>2, <1>9, <3>1, <3>2, <3>3 DEF IInv, SessionOK
  <2>7. OrderOK'
    BY <1>2, OrderKept, SameListenStays DEF IInv
  <2> QED
    BY <2>2, <2>3, <2>4, <2>5, <2>6, <2>7 DEF IInv, ExchangesFollow
<1> QED
  BY <1>1, <1>7, <1>8, <1>9

-----------------------------------------------------------------------------
(* What becomes of the listen stream *)

\* A step of the listen stream, which may end exchanges with it.
LEMMA ListenOnly ==
    ASSUME IInv, ExchangesFollow, ChunkOK', OneDelivery', ListenOK', OrderOK',
           listen'.wanted => listen.wanted,
           listen'.stream # "none" => listen'.carried \in {0, session},
           http' => http, UNCHANGED <<session, deleted, granted, forgotten>>
    PROVE  IInv'
<1>1. InitializesOK'
  BY InitializesFollow DEF IInv
<1>2. SessionOK'
  <2>1. forgotten' \subseteq 1..granted
    BY DEF IInv, SessionOK
  <2> QED
    BY <2>1, SessionFollows DEF IInv
<1> QED
  BY <1>1, <1>2 DEF IInv, ExchangesFollow

LEMMA SameExchanges ==
    ASSUME ExchangesOK, UNCHANGED exchange
    PROVE  ExchangesFollow
BY SameFollows DEF ExchangesFollow, ExchangesOK

\* The listen stream is gone, a retry is due unless it was refused or the transport is closed.
LEMMA GoneOK ==
    ASSUME IInv, ~Delivering, listen' \in Listen, listen'.stream = "none", listen.wanted,
           listen'.wanted, open /\ http /\ ~listen'.refused => listen'.timer,
           listen'.lastId \in {0, listen.lastId},
           UNCHANGED <<http, open, session, exchange, chunk, backlog, server, deleted, seen>>
    PROVE  IInv'
<1>1. UNCHANGED <<log, granted, forgotten>>
  BY DEF server
<1>2. ExchangesFollow
  BY SameExchanges DEF IInv
<1>3. ChunkOK' /\ OneDelivery'
  BY NoChunkOK
<1>4. ListenOK'
  BY DEF IInv, ListenOK, ListensOrRetries
<1>5. OrderOK'
  BY <1>1, OrderKept DEF IInv, ListenStays
<1> QED
  BY <1>1, <1>2, <1>3, <1>4, <1>5, ListenOnly

\* Closed and RetryListen.
LEMMA ClosedOK ==
    ASSUME NEW l \in Listen
    PROVE  /\ Closed(l) \in Listen /\ Closed(l).stream = "none" /\ Closed(l).wanted = l.wanted
           /\ Closed(l).refused = l.refused /\ Closed(l).timer = l.timer
           /\ Closed(l).lastId = l.lastId
BY DEF Closed, Listen

LEMMA RetryListenOK ==
    ASSUME NEW l \in Listen, open \in BOOLEAN, http \in BOOLEAN
    PROVE  /\ RetryListen(l) \in Listen /\ RetryListen(l).stream = l.stream
           /\ RetryListen(l).wanted = l.wanted /\ RetryListen(l).refused = l.refused
           /\ RetryListen(l).lastId = l.lastId
           /\ open /\ http /\ ~l.refused => RetryListen(l).timer
BY DEF RetryListen, Listen

LEMMA ListenLostOK ==
    ASSUME NEW l \in Listen, NEW brief
    PROVE  /\ ListenLost(l, brief) \in Listen /\ ListenLost(l, brief).stream = "none"
           /\ ListenLost(l, brief).wanted = l.wanted /\ ListenLost(l, brief).timer = l.timer
           /\ ListenLost(l, brief).lastId \in {0, l.lastId}
<1> DEFINE n == IF l.up /\ brief /\ l.resumed /\ ~l.heard THEN 0 ELSE Closed(l).lastId
<1>1. n \in {0, l.lastId} /\ n \in Nat
  BY ClosedOK DEF Listen
<1>2. ListenLost(l, brief) = [Closed(l) EXCEPT !.lastId = n]
  BY DEF ListenLost
<1> HIDE DEF n
<1> QED
  BY <1>1, <1>2, ClosedOK DEF Listen

\* onListenEnded.
LEMMA ListenEndsOK ==
    ASSUME IInv, ListenEnds
    PROVE  IInv'
<1>1. PICK brief \in BOOLEAN : listen' = RetryListen(ListenLost(listen, brief))
  BY DEF ListenEnds
<1>2. /\ listen.stream # "none" /\ ~Delivering
      /\ UNCHANGED <<http, open, session, exchange, chunk, backlog, server, deleted, seen>>
  BY DEF ListenEnds
<1>3. listen \in Listen /\ listen.wanted /\ open \in BOOLEAN /\ http \in BOOLEAN
  BY <1>2 DEF IInv, ListenOK
<1>4. PICK l \in Listen : l = ListenLost(listen, brief)
  BY <1>3, ListenLostOK
<1>5. l.stream = "none" /\ l.wanted /\ l.lastId \in {0, listen.lastId}
  BY <1>3, <1>4, ListenLostOK
<1>6. listen' = RetryListen(l)
  BY <1>1, <1>4
<1>7. /\ listen' \in Listen /\ listen'.stream = "none" /\ listen'.wanted
      /\ listen'.lastId \in {0, listen.lastId} /\ listen'.refused = l.refused
      /\ open /\ http /\ ~l.refused => listen'.timer
  BY <1>3, <1>5, <1>6, RetryListenOK
<1> QED
  BY <1>2, <1>3, <1>7, GoneOK

\* onListenHeaders: the stream is accepted, the session or the event is gone, or the
\* attempt is refused.
LEMMA ListenHeadersOK ==
    ASSUME IInv, ListenHeaders
    PROVE  IInv'
<1> DEFINE off == Closed(listen)
<1>1. /\ listen.stream = "opening" /\ ~Delivering /\ UNCHANGED <<http, chunk, server, seen>>
  BY DEF ListenHeaders
<1>2. /\ listen \in Listen /\ listen.wanted /\ ~listen.timer /\ open \in BOOLEAN /\ http \in BOOLEAN
      /\ ListensOrRetries
  BY <1>1 DEF IInv, ListenOK
<1>3. /\ off \in Listen /\ off.stream = "none" /\ off.wanted /\ off.lastId = listen.lastId
      /\ ~off.timer /\ off.refused = listen.refused
  BY <1>2, ClosedOK
<1>4. CASE /\ listen' = [listen EXCEPT !.stream = "open", !.accepted = TRUE, !.up = TRUE,
                                       !.at = IF listen.lastId # 0 THEN listen.lastId ELSE log]
           /\ UNCHANGED <<open, session, exchange, backlog, deleted>>
  <2> DEFINE at == IF listen.lastId # 0 THEN listen.lastId ELSE log
  <2>1. UNCHANGED <<log, granted, forgotten>>
    BY <1>1 DEF server
  <2>2. at \in Nat /\ seen \in Nat /\ seen <= at /\ at <= log
    BY <1>2 DEF IInv, OrderOK, HeardUpTo, Listen
  <2>3. listen' = [listen EXCEPT !.stream = "open", !.accepted = TRUE, !.up = TRUE, !.at = at]
    BY <1>4
  <2> HIDE DEF at
  <2>4. /\ listen' \in Listen /\ listen'.stream = "open" /\ listen'.at = at
        /\ listen'.lastId = listen.lastId /\ listen'.wanted /\ ~listen'.timer
        /\ listen'.refused = listen.refused /\ listen'.carried = listen.carried
    BY <1>2, <2>2, <2>3 DEF Listen
  <2>5. ListenOK'
    BY <1>1, <1>2, <1>4, <2>4 DEF IInv, ListenOK, ListensOrRetries
  <2>6. OrderOK'
    <3>1. HeardUpTo(seen)'
      BY <1>1, <2>1, <2>2, <2>4 DEF IInv, OrderOK, HeardUpTo
    <3>2. backlog' = << >>
      BY <1>1, <1>4 DEF Delivering
    <3> QED
      BY <1>1, <2>1, <3>1, <3>2 DEF IInv, OrderOK
  <2>7. ExchangesFollow
    BY <1>4, SameExchanges DEF IInv
  <2>8. ChunkOK' /\ OneDelivery'
    BY <1>1, NoChunkOK
  <2>9. listen'.carried \in {0, session}
    BY <1>1, <2>4 DEF IInv, SessionOK
  <2> QED
    BY <1>1, <1>2, <1>4, <2>1, <2>5, <2>6, <2>7, <2>8, <2>9, ListenOnly
<1>5. CASE listen.carried \in forgotten /\ Stops(exchange, 0)
  <2>1. session \in forgotten
    BY <1>1, <1>5 DEF IInv, SessionOK
  <2>2. /\ exchange \in [Messages -> Exchange]
        /\ \A m \in Messages : ExchangeOK(exchange[m]) /\ (exchange[m].sent => exchange[m].sent)
    BY DEF IInv, ExchangesOK
  <2> QED
    BY <1>1, <1>5, <2>1, <2>2, StopsOK
<1>6. CASE listen' = [off EXCEPT !.refused = TRUE]
           /\ UNCHANGED <<open, session, exchange, backlog, deleted>>
  <2> HIDE DEF off
  <2>1. /\ listen' \in Listen /\ listen'.stream = "none" /\ listen'.wanted /\ listen'.refused
        /\ listen'.lastId = listen.lastId
    BY <1>3, <1>6 DEF Listen
  <2> QED
    BY <1>1, <1>2, <1>6, <2>1, GoneOK
<1>7. CASE /\ listen' \in {RetryListen([off EXCEPT !.lastId = 0]), RetryListen(off)}
           /\ UNCHANGED <<open, session, exchange, backlog, deleted>>
  <2> HIDE DEF off
  <2>1. PICK l \in Listen : /\ listen' = RetryListen(l) /\ l.stream = "none" /\ l.wanted
                            /\ l.lastId \in {0, listen.lastId}
    <3>1. /\ [off EXCEPT !.lastId = 0] \in Listen /\ [off EXCEPT !.lastId = 0].stream = "none"
          /\ [off EXCEPT !.lastId = 0].wanted /\ [off EXCEPT !.lastId = 0].lastId = 0
      BY <1>3 DEF Listen
    <3> QED
      BY <1>3, <1>7, <3>1
  <2>2. /\ listen' \in Listen /\ listen'.stream = "none" /\ listen'.wanted
        /\ listen'.lastId \in {0, listen.lastId} /\ listen'.refused = l.refused
        /\ open /\ http /\ ~l.refused => listen'.timer
    BY <1>2, <2>1, RetryListenOK
  <2> QED
    BY <1>1, <1>2, <1>7, <2>2, GoneOK
<1> QED
  BY <1>4, <1>5, <1>6, <1>7 DEF ListenHeaders

\* The retry timer.
LEMMA ListenRetryOK ==
    ASSUME IInv, ListenRetry
    PROVE  IInv'
<1> DEFINE l == [listen EXCEPT !.timer = FALSE]
<1>1. /\ listen.timer /\ ~Delivering
      /\ UNCHANGED <<http, open, session, exchange, chunk, backlog, server, deleted, seen>>
  BY DEF ListenRetry
<1>2. /\ listen \in Listen /\ listen.wanted /\ listen.stream = "none" /\ open /\ http \in BOOLEAN
      /\ open \in BOOLEAN /\ session \in Nat
  BY <1>1 DEF IInv, ListenOK, SessionOK
<1>3. l \in Listen /\ l.wanted /\ l.stream = "none" /\ ~l.timer /\ l.lastId = listen.lastId
  BY <1>2 DEF Listen
<1>4. OpenListen(l)
  BY DEF ListenRetry
<1> HIDE DEF l
<1>5. Opened(listen')
  BY <1>2, <1>3, <1>4, OpenListenOK
<1>6. ListenOK'
  BY <1>1, <1>2, <1>5, OpenedOK DEF IInv
<1>7. UNCHANGED <<log, granted, forgotten>>
  BY <1>1 DEF server
<1>8. OrderOK'
  BY <1>1, <1>5, <1>7, OrderKept, OpenedStays DEF IInv
<1>9. ExchangesFollow
  BY <1>1, SameExchanges DEF IInv
<1>10. ChunkOK' /\ OneDelivery'
  BY <1>1, NoChunkOK
<1>11. listen'.stream # "none" => listen'.carried \in {0, session}
  BY <1>5 DEF Opened
<1> QED
  BY <1>1, <1>2, <1>6, <1>7, <1>8, <1>9, <1>10, <1>11, ListenOnly

\* The HttpTransport is destroyed: its streams end, and no retry is scheduled.
LEMMA HttpDestroyedOK ==
    ASSUME IInv, HttpDestroyed
    PROVE  IInv'
<1>1. PICK brief \in BOOLEAN : listen' = [ListenLost(listen, brief) EXCEPT !.timer = FALSE]
  BY DEF HttpDestroyed
<1>2. /\ ~Delivering /\ http' = FALSE
      /\ exchange' = [m \in Messages |-> IF exchange[m].stream # "none"
                                         THEN Failed(m, exchange[m]) ELSE exchange[m]]
      /\ UNCHANGED <<open, session, chunk, backlog, server, deleted, seen>>
  BY DEF HttpDestroyed
<1>3. UNCHANGED <<log, granted, forgotten>>
  BY <1>2 DEF server
<1>4. PICK l \in Listen : /\ l = ListenLost(listen, brief) /\ l.stream = "none"
                          /\ l.wanted = listen.wanted /\ l.lastId \in {0, listen.lastId}
  BY ListenLostOK DEF IInv, ListenOK
<1>5. /\ listen' \in Listen /\ listen'.stream = "none" /\ ~listen'.timer
      /\ listen'.wanted = listen.wanted /\ listen'.lastId \in {0, listen.lastId}
  BY <1>1, <1>4 DEF Listen
<1>6. \A m \in Messages : ExchangeOK(exchange'[m]) /\ Follows(exchange[m], exchange'[m])
  <2> TAKE m \in Messages
  <2>1. ExchangeOK(exchange[m])
    BY DEF IInv, ExchangesOK
  <2>2. CASE exchange[m].stream # "none"
    <3>1. exchange'[m] = Failed(m, exchange[m])
      BY <1>2, <2>2
    <3>2. exchange[m].live
      BY <2>1, <2>2 DEF ExchangeOK
    <3> QED
      BY <2>1, <3>1, <3>2, FailedOK, OverFollows
  <2>3. CASE exchange[m].stream = "none"
    BY <1>2, <2>1, <2>3, SameFollows
  <2> QED
    BY <2>2, <2>3
<1>7. ExchangesFollow
  <2>1. exchange' \in [Messages -> Exchange]
    BY <1>2, <1>6 DEF ExchangeOK
  <2> QED
    BY <1>6, <2>1 DEF ExchangesFollow, ExchangesOK
<1>8. ChunkOK' /\ OneDelivery'
  BY <1>2, NoChunkOK
<1>9. ListenOK'
  BY <1>2, <1>5, <1>7 DEF IInv, ListenOK, ListensOrRetries, ExchangesFollow, Follows
<1>10. OrderOK'
  BY <1>2, <1>3, <1>5, OrderKept DEF IInv, ListenStays
<1> QED
  BY <1>2, <1>3, <1>5, <1>7, <1>8, <1>9, <1>10, ListenOnly

-----------------------------------------------------------------------------
(* What the server says on its own *)

\* onListenChunk: the messages up to the n-th come under delivery, all of them new.
LEMMA ListenChunkOK ==
    ASSUME IInv, ListenChunk
    PROVE  IInv'
<1>1. PICK n \in listen.at + 1 .. log :
        /\ listen' = [listen EXCEPT !.at = n, !.heard = TRUE, !.lastId = IF ids THEN n ELSE 0]
        /\ backlog' = [i \in 1 .. n - listen.at |-> listen.at + i]
  BY DEF ListenChunk
<1>2. /\ listen.stream = "open" /\ ~Delivering
      /\ UNCHANGED <<http, open, session, exchange, chunk, server, deleted, seen>>
  BY DEF ListenChunk
<1>3. UNCHANGED <<log, granted, forgotten>>
  BY <1>2 DEF server
<1>4. /\ listen \in Listen /\ listen.at \in Nat /\ log \in Nat /\ seen \in Nat /\ seen <= listen.at
      /\ listen.wanted /\ ~listen.timer
  BY <1>2 DEF IInv, ListenOK, OrderOK, HeardUpTo, Listen
<1>5. PICK id \in {0, n} : listen' = [listen EXCEPT !.at = n, !.heard = TRUE, !.lastId = id]
  BY <1>1
<1>6. n \in Nat /\ n <= log /\ id \in Nat
  BY <1>4
<1>7. /\ listen' \in Listen /\ listen'.stream = "open" /\ listen'.at = n /\ listen'.lastId = id
      /\ listen'.wanted /\ ~listen'.timer /\ listen'.refused = listen.refused
      /\ listen'.carried = listen.carried
  BY <1>2, <1>4, <1>5, <1>6 DEF Listen
<1>8. ListenOK'
  BY <1>2, <1>7 DEF IInv, ListenOK, ListensOrRetries
<1>9. OrderOK'
  <2>1. HeardUpTo(n)' /\ HeardUpTo(seen)'
    BY <1>2, <1>3, <1>4, <1>5, <1>6, <1>7 DEF HeardUpTo
  <2>2. PICK b, l \in Nat : b = listen.at /\ l = n - listen.at
    BY <1>4
  <2>3. l # 0 /\ b + l = n /\ seen' <= b /\ backlog' = [i \in 1..l |-> b + i]
    BY <1>1, <1>2, <1>4, <2>2
  <2>4. HeardUpTo(b + l)'
    BY <2>1, <2>3
  <2> QED
    BY <1>2, <1>3, <1>4, <2>1, <2>3, <2>4 DEF OrderOK
<1>10. ExchangesFollow
  BY <1>2, SameExchanges DEF IInv
<1>11. ChunkOK' /\ OneDelivery'
  BY <1>2 DEF Delivering, ChunkOK, OneDelivery
<1>12. listen'.carried \in {0, session}
  BY <1>2, <1>7 DEF IInv, SessionOK
<1> QED
  BY <1>2, <1>3, <1>4, <1>8, <1>9, <1>10, <1>11, <1>12, ListenOnly

LEMMA DeliverServerMessageOK ==
    ASSUME IInv, DeliverServerMessage
    PROVE  IInv'
<1>1. /\ backlog # << >> /\ backlog' = Tail(backlog) /\ seen' = Head(backlog)
      /\ UNCHANGED <<http, open, session, exchange, chunk, listen, server, deleted>>
  BY DEF DeliverServerMessage
<1>2. UNCHANGED <<log, granted, forgotten>>
  BY <1>1 DEF server
<1>3. PICK b, n \in Nat : /\ n # 0 /\ backlog = [i \in 1..n |-> b + i]
                          /\ seen <= b /\ HeardUpTo(b + n)
  BY <1>1 DEF IInv, OrderOK
<1>4. /\ seen' = b + 1 /\ backlog' = [i \in 1..n - 1 |-> (b + 1) + i]
      /\ n = 1 => backlog' = << >>
  BY <1>1, <1>3, BacklogTail
<1>5. log \in Nat /\ listen \in Listen
  BY DEF IInv, OrderOK, ListenOK
<1>6. OrderOK'
  <2>1. HeardUpTo(b + n)'
    BY <1>1, <1>2, <1>3 DEF HeardUpTo
  <2>2. HeardUpTo(seen)'
    BY <1>1, <1>2, <1>3, <1>4, <1>5 DEF HeardUpTo, Listen
  <2>3. ASSUME n # 1
        PROVE  \E c, l \in Nat : /\ l # 0 /\ backlog' = [i \in 1..l |-> c + i]
                                 /\ seen' <= c /\ HeardUpTo(c + l)'
    <3>1. PICK c, l \in Nat : c = b + 1 /\ l = n - 1 /\ l # 0 /\ c + l = b + n
      BY <1>3, <2>3
    <3>2. backlog' = [i \in 1..l |-> c + i] /\ seen' <= c
      BY <1>4, <3>1
    <3>3. HeardUpTo(c + l)'
      BY <2>1, <3>1
    <3> QED
      BY <3>1, <3>2, <3>3
  <2>4. log' \in Nat /\ seen' \in Nat /\ (n = 1 => backlog' = << >>)
    BY <1>2, <1>4, <1>5
  <2> QED
    BY <2>2, <2>3, <2>4 DEF OrderOK
<1>7. ChunkOK' /\ OneDelivery'
  BY <1>1 DEF IInv, ChunkOK, OneDelivery
<1>8. ExchangesFollow
  BY <1>1, SameExchanges DEF IInv
<1>9. ListenOK'
  BY <1>1, ListenFollows DEF IInv
<1>10. listen'.stream # "none" => listen'.carried \in {0, session}
  BY <1>1 DEF IInv, SessionOK
<1> QED
  BY <1>1, <1>2, <1>6, <1>7, <1>8, <1>9, <1>10, ListenOnly

-----------------------------------------------------------------------------
(* The server *)

LEMMA ServerOK ==
    ASSUME IInv, ServerSpeaks \/ ServerForgets
    PROVE  IInv'
<1>1. /\ ~Delivering /\ log' \in Nat /\ log <= log'
      /\ UNCHANGED <<http, open, session, exchange, chunk, listen, backlog, granted, deleted, seen>>
      /\ forgotten \subseteq forgotten' /\ forgotten' \subseteq 1..granted
  <2>1. log \in Nat /\ granted \in Nat /\ forgotten \subseteq 1..granted
    BY DEF IInv, OrderOK, SessionOK
  <2>2. CASE ServerSpeaks
    BY <2>1, <2>2 DEF ServerSpeaks
  <2>3. CASE ServerForgets
    <3>1. PICK s \in (1 .. granted) \ forgotten : forgotten' = forgotten \cup {s}
      BY <2>3 DEF ServerForgets
    <3>2. forgotten \subseteq forgotten' /\ forgotten' \subseteq 1..granted
      BY <2>1, <3>1
    <3> QED
      BY <2>1, <2>3, <3>2 DEF ServerForgets
  <2> QED
    BY <2>2, <2>3
<1>2. OrderOK'
  <2>1. backlog' = << >>
    BY <1>1 DEF Delivering
  <2>2. HeardUpTo(seen)'
    BY <1>1 DEF IInv, OrderOK, HeardUpTo, ListenOK, Listen
  <2> QED
    BY <1>1, <2>1, <2>2 DEF IInv, OrderOK
<1>3. ExchangesFollow
  BY <1>1, SameExchanges DEF IInv
<1>4. ChunkOK' /\ OneDelivery'
  BY <1>1, NoChunkOK
<1>5. ListenOK'
  BY <1>1, ListenFollows DEF IInv
<1>6. InitializesOK'
  BY <1>1, <1>3, InitializesFollow DEF IInv
<1>7. SessionOK'
  <2>1. listen'.stream # "none" => listen'.carried \in {0, session}
    BY <1>1 DEF IInv, SessionOK
  <2> QED
    BY <1>1, <1>3, <2>1, SessionFollows DEF IInv
<1> QED
  BY <1>2, <1>3, <1>4, <1>5, <1>6, <1>7 DEF IInv, ExchangesFollow

-----------------------------------------------------------------------------
(* The specification *)

LEMMA InitOK == Init => IInv
<1> SUFFICES ASSUME Init PROVE IInv
  OBVIOUS
<1>1. \A m \in Messages : exchange[m] = NoExchange
  BY DEF Init
<1>2. /\ NoExchange \in Exchange /\ ~NoExchange.sent /\ ~NoExchange.live /\ ~NoExchange.timer
      /\ NoExchange.stream = "none" /\ ~NoExchange.answered /\ ~NoExchange.dropped
      /\ NoExchange.answers = 0 /\ NoExchange.failures = 0
  BY HttpAssumption DEF NoExchange, Exchange, Heads
<1>3. ExchangesOK
  BY <1>1, <1>2 DEF Init, ExchangesOK, ExchangeOK
<1>4. ChunkOK /\ OneDelivery
  BY DEF Init, ChunkOK, OneDelivery
<1>5. listen \in Listen /\ ~listen.wanted /\ listen.stream = "none" /\ ~listen.timer /\ listen.lastId = 0
  BY NoListenOK DEF Init
<1>6. ListenOK
  BY <1>1, <1>2, <1>5 DEF Init, ListenOK, ListensOrRetries
<1>7. InitializesOK
  BY <1>1, <1>2, <1>5 DEF InitializesOK, Messages, Requests
<1>8. SessionOK
  BY <1>1, <1>2, <1>5 DEF Init, SessionOK, SessionsAccounted
<1>9. OrderOK
  BY <1>5 DEF Init, OrderOK, HeardUpTo
<1> QED
  BY <1>3, <1>4, <1>6, <1>7, <1>8, <1>9 DEF IInv

LEMMA StutterOK == IInv /\ UNCHANGED vars => IInv'
<1> SUFFICES ASSUME IInv, UNCHANGED vars PROVE IInv'
  OBVIOUS
<1>1. UNCHANGED <<http, open, session, exchange, chunk, listen, backlog, server, deleted, seen>>
  BY DEF vars
<1>2. ChunkOK' /\ OneDelivery'
  BY <1>1 DEF IInv, ChunkOK, OneDelivery
<1> QED
  BY <1>1, <1>2, SameExchanges, ExchangesOnly DEF IInv

LEMMA StepOK == IInv /\ [Next]_vars => IInv'
<1> SUFFICES ASSUME IInv, Next PROVE IInv'
  BY StutterOK
<1>1. CASE Start \/ Stop
  BY <1>1, StartOK, StopOK
<1>2. CASE \E m \in Messages : SendInitialize(m) \/ Send(m) \/ Abandon(m)
  BY <1>2, SendInitializeOK, SendOK, AbandonOK
<1>3. CASE \E m \in Messages : Goes(m) \/ Error(m)
  BY <1>3, HeadersOK, ChunkStepOK, StreamEndsOK, FinishedBodyOK, FinishedRefusedOK, ResumeOK
     DEF Goes
<1>4. CASE Delivers
  BY <1>4, DeliverEventOK, DeliverServerMessageOK DEF Delivers
<1>5. CASE ListenHeaders \/ ListenChunk \/ ListenEnds \/ ListenRetry
  BY <1>5, ListenHeadersOK, ListenChunkOK, ListenEndsOK, ListenRetryOK
<1>6. CASE HttpDestroyed \/ ServerSpeaks \/ ServerForgets
  BY <1>6, HttpDestroyedOK, ServerOK
<1> QED
  BY <1>1, <1>2, <1>3, <1>4, <1>5, <1>6 DEF Next

\* The inductive invariant holds in every reachable state of the transport.
THEOREM TransportInvariant == Spec => []IInv
BY InitOK, StepOK, PTL DEF Spec

\* A request is told to the session at most once, whatever breaks, is refused, resumed or
\* superseded, and never as failed once stop() or abandon() dropped it.
THEOREM ToldAtMostOnce == Spec => []OneSignal
<1>1. IInv => OneSignal
  <2> SUFFICES ASSUME IInv, NEW m \in Requests
               PROVE  /\ exchange[m].answers + exchange[m].failures <= 1
                      /\ exchange[m].dropped => exchange[m].failures = 0
    BY DEF OneSignal
  <2>1. ExchangeOK(exchange[m])
    BY DEF IInv, ExchangesOK, Messages
  <2> QED
    BY <2>1, ToldOnce
<1> QED
  BY <1>1, TransportInvariant, PTL

\* From the answer to initialize on the client listens or will retry, and every session it
\* was granted is its present one, was ended, or had been forgotten by the server.
THEOREM SessionKept == Spec => []SessionIsKept
<1>1. IInv => SessionIsKept
  BY DEF IInv, ListenOK, SessionOK, SessionIsKept
<1> QED
  BY <1>1, TransportInvariant, PTL

\* The server message delivered next is newer than all delivered before, across reconnects,
\* stops and new sessions.
THEOREM ServerMessagesInOrder == Spec => []InOrderOnce
<1>1. IInv => InOrderOnce
  <2> SUFFICES ASSUME IInv, backlog # << >>
               PROVE  Head(backlog) > seen
    BY DEF InOrderOnce
  <2>1. PICK b, n \in Nat : n # 0 /\ backlog = [i \in 1..n |-> b + i] /\ seen <= b
    BY DEF IInv, OrderOK
  <2>2. Head(backlog) = b + 1 /\ seen \in Nat
    BY <2>1, BacklogTail DEF IInv, OrderOK
  <2> QED
    BY <2>1, <2>2
<1> QED
  BY <1>1, TransportInvariant, PTL

=============================================================================
