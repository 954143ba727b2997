------------------------ MODULE StdioTransportsProofs -------------------------
(***************************************************************************)
(* Proofs about StdioTransports: for every number of children and of       *)
(* messages, each end of the pipes is given what the other wrote, in       *)
(* order, whole and once (ClientHearsAll, ServerHearsAll).                 *)
(*                                                                         *)
(* The framer and the codec are recursions over a chunk.  They are         *)
(* followed byte by byte with Induction, which is the least element of a   *)
(* well-founded order on a set of numbers; so a chunk that continues what  *)
(* was read, cut at any byte, is framed into the messages it completes and *)
(* the first bytes of the next (ChunkIsFramed, LinesAreMessages).  Over    *)
(* that, the invariants account for every message of a connection: given,  *)
(* queued, about to be posted, inside the codec, or still on the pipe.     *)
(***************************************************************************)
EXTENDS StdioTransports, SequenceTheorems, WellFoundedInduction, TLAPS

-----------------------------------------------------------------------------
(* What is on the pipes *)

IsSeq(q) == \E S : q \in Seq(S)
\* The byte at a place of what an end writes over a connection.
ByteAt(p) == encode((p - 1) \div 3 + 1)[((p - 1) % 3) + 1]
\* The first r bytes of the text of a message.
Cut(done, r) == [s \in 1..r |-> << done + 1, s >>]
Numbers(first, n) == [i \in 1..n |-> first + i]

\* c bytes have been read of the n messages that were written.
Rest(bytes, c, n) ==
    /\ c \in Nat /\ IsSeq(bytes) /\ Len(bytes) + c = 3 * n
    /\ \A i \in 1..Len(bytes) : bytes[i] = ByteAt(c + i)
\* Whole messages are out of the codec, all but the r bytes it keeps of the next.
HasRead(codec, bytes, done, n) ==
    \E r \in 0..2 : codec = Cut(done, r) /\ Rest(bytes, 3 * done + r, n)

(* The invariants *)

StdioTypeOK ==
    /\ starts \in Nat
    /\ client \in [process : {"none", "running", "dead"}, stopping : BOOLEAN, told : BOOLEAN]
    /\ child \in [state : {"none", "up", "gone"}, open : BOOLEAN, told : BOOLEAN]
    /\ DOMAIN reader = {"state", "codec", "posting", "stop"} /\ reader.stop \in BOOLEAN
    /\ reader.state \in {"none", "reading", "posting", "ending", "done"}
    /\ DOMAIN down = {"bytes", "closed"} /\ down.closed \in BOOLEAN
    /\ DOMAIN up = {"bytes", "closed"}
    /\ DOMAIN sent = {"client", "server"} /\ DOMAIN got = {"client", "server"}

\* The thread is stopped with the transport, and only a client that stops closes the pipe.
Basics ==
    /\ StdioTypeOK
    /\ Alive => (child.open <=> ~ reader.stop)
    /\ down.closed => client.stopping \/ ~ Alive

\* The slots are given what was read over this connection, or over one before it.
Current == handling # <<>> /\ handling[1].of = starts
Pending == IF Current THEN Len(handling) ELSE 0
HandlingOK(g) ==
    /\ IsSeq(handling)
    /\ \A i \in 1..Len(handling) :
          /\ handling[i].of = handling[1].of /\ handling[i].of \in 0..starts
          /\ handling[i].of = starts => handling[i].message = g + i
\* The child has sent n messages, and the client was given g of them.
ClientHas(n, g) ==
    /\ n <= MaxSends /\ sent.server = Numbers(0, n) /\ got.client = Numbers(0, g)
    /\ g + Pending <= n
    /\ client.process = "dead" => g = n /\ ~ Alive
    /\ client.process = "running" => HasRead(codecC, up.bytes, g + Pending, n)
    /\ HandlingOK(g)
ClientIInv ==
    /\ client.process = "none" => codecC = <<>>
    /\ \E n \in Nat, g \in Nat : ClientHas(n, g)

\* The end of the input is behind every message in the queue.
Closing == queue # <<>> /\ queue[Len(queue)].closed
Queued == IF Closing THEN Len(queue) - 1 ELSE Len(queue)
QueueOK(g) ==
    /\ IsSeq(queue)
    /\ \A i \in 1..Len(queue) :
          IF queue[i].closed THEN i = Len(queue) /\ reader.state = "done"
          ELSE queue[i].message = g + i
\* What the thread has read of n messages, q of them posted or dispatched.
ReaderOK(n, q) ==
    /\ \E p \in Nat :
          /\ reader.posting = Numbers(q, p)
          /\ HasRead(reader.codec, down.bytes, q + p, n)
          /\ reader.state # "posting" => p = 0
          /\ reader.state \in {"ending", "done"} => down.closed /\ q + p = n
    /\ child.told => reader.state = "done" /\ queue = <<>>
\* The client has sent n messages, and the server was given g of them.
ServerHas(n, g) ==
    /\ n <= MaxSends /\ sent.client = Numbers(0, n) /\ got.server = Numbers(0, g)
    /\ g + Queued <= n
    /\ child.told /\ child.open => g = n
    /\ Alive /\ child.open => ReaderOK(n, g + Queued)
    /\ QueueOK(g)
ServerIInv == \E n \in Nat, g \in Nat : ServerHas(n, g)


-----------------------------------------------------------------------------
(* Induction: a set that holds 0 and the successor of each number it holds *)
(* holds every number                                                      *)

\* The order of the numbers, as a set of pairs, is well-founded.
Below == {ss \in Nat \X Nat : ss[1] < ss[2]}
LEMMA BelowIsWellFounded == IsWellFoundedOn(Below, Nat)
BY NatLessThanWellFounded DEF OpToRel, Below

\* A set of numbers that holds 0, and the successor of each number it holds, holds every number.
LEMMA Induction ==
    ASSUME NEW S, 0 \in S, \A n \in Nat : n \in S => n + 1 \in S
    PROVE  \A n \in Nat : n \in S
<1> DEFINE T == Nat \ S
<1> SUFFICES ASSUME T # {} PROVE FALSE
  OBVIOUS
<1>1. T \subseteq Nat
  OBVIOUS
<1>2. PICK x \in T : \A y \in T : ~ (<< y, x >> \in Below)
  <2> HIDE DEF T
  <2> QED
    BY <1>1, BelowIsWellFounded, WFMin
<1>3. x \in Nat /\ x # 0 /\ x - 1 \in Nat /\ x - 1 < x /\ (x - 1) + 1 = x
  OBVIOUS
<1>4. x - 1 \in S
  BY <1>2, <1>3 DEF Below
<1> QED
  BY <1>3, <1>4

\* An upper bound need not be passed.
LEMMA InductionUpTo ==
    ASSUME NEW N \in Nat, NEW S, 0 \in S, \A n \in 0..N : n < N /\ n \in S => n + 1 \in S
    PROVE  \A n \in 0..N : n \in S
<1> DEFINE T == {n \in Nat : n <= N => n \in S}
<1>1. 0 \in T
  OBVIOUS
<1>2. ASSUME NEW n \in Nat, n \in T PROVE n + 1 \in T
  BY <1>2
<1> HIDE DEF T
<1>3. \A n \in Nat : n \in T
  BY <1>1, <1>2, Induction
<1> QED
  BY <1>3 DEF T

(* The framer and the codec, byte by byte and line by line *)

\* append frames the bytes of a chunk one after the other.
LEMMA FramerRuns ==
    ASSUME NEW buffer, NEW data, Len(data) \in Nat
    PROVE  \E f : /\ append(buffer, data) = f[Len(data)]
                  /\ f[0] = [buffer |-> buffer, lines |-> <<>>]
                  /\ \A n \in 1..Len(data) : f[n] = Frame(f[n - 1], data[n])
<1> DEFINE begin == [buffer |-> buffer, lines |-> <<>>]
           Runs(f, N) == f = [n \in 0..N |-> IF n = 0 THEN begin ELSE Frame(f[n - 1], data[n])]
           S == {N \in Nat : \E f : Runs(f, N)}
<1>1. 0 \in S
  <2>1. Runs([n \in 0..0 |-> begin], 0)
    OBVIOUS
  <2> QED
    BY <2>1
<1>2. ASSUME NEW N \in Nat, N \in S PROVE N + 1 \in S
  <2>1. PICK f : Runs(f, N)
    BY <1>2
  <2> DEFINE g == [n \in 0..N + 1 |-> IF n <= N THEN f[n] ELSE Frame(f[N], data[N + 1])]
  <2>2. ASSUME NEW n \in 0..N + 1
        PROVE  g[n] = IF n = 0 THEN begin ELSE Frame(g[n - 1], data[n])
    <3> HIDE DEF begin
    <3>1. CASE n = 0
      BY <2>1, <3>1
    <3>2. CASE n \in 1..N
      <4>1. n - 1 \in 0..N + 1 /\ n - 1 <= N /\ n <= N /\ n \in 0..N
        BY <3>2
      <4> QED
        BY <2>1, <3>2, <4>1
    <3>3. CASE n = N + 1
      <4>1. n - 1 = N /\ n # 0 /\ ~(n <= N) /\ N \in 0..N + 1
        BY <3>3
      <4> QED
        BY <3>3, <4>1
    <3> QED
      BY <3>1, <3>2, <3>3
  <2>3. Runs(g, N + 1)
    <3> HIDE DEF begin
    <3>1. DOMAIN g = 0..N + 1
      OBVIOUS
    <3>2. g = [n \in 0..N + 1 |-> g[n]]
      OBVIOUS
    <3> HIDE DEF g
    <3> QED
      BY <2>2, <3>1, <3>2
  <2> HIDE DEF g
  <2> QED
    BY <2>3
<1>3. \E f : Runs(f, Len(data))
  <2> HIDE DEF S
  <2>1. \A N \in Nat : N \in S
    BY <1>1, <1>2, Induction
  <2> QED
    BY <2>1 DEF S
<1> DEFINE f == CHOOSE f : Runs(f, Len(data))
<1>4. Runs(f, Len(data))
  BY <1>3
<1>5. append(buffer, data) = f[Len(data)]
  BY DEF append
<1>6. f[0] = begin /\ \A n \in 1..Len(data) : f[n] = Frame(f[n - 1], data[n])
  <2> HIDE DEF f, begin
  <2> QED
    BY <1>4
<1> QED
  BY <1>5, <1>6

\* decode looks at the lines one after the other.
LEMMA DecoderRuns ==
    ASSUME NEW lines, Len(lines) \in Nat
    PROVE  \E f : /\ Messages(lines) = f[Len(lines)]
                  /\ f[0] = <<>>
                  /\ \A n \in 1..Len(lines) : f[n] = Decode(f[n - 1], lines[n])
<1> DEFINE begin == <<>>
           Runs(f, N) == f = [n \in 0..N |-> IF n = 0 THEN begin ELSE Decode(f[n - 1], lines[n])]
           S == {N \in Nat : \E f : Runs(f, N)}
<1>1. 0 \in S
  <2>1. Runs([n \in 0..0 |-> begin], 0)
    OBVIOUS
  <2> QED
    BY <2>1
<1>2. ASSUME NEW N \in Nat, N \in S PROVE N + 1 \in S
  <2>1. PICK f : Runs(f, N)
    BY <1>2
  <2> DEFINE g == [n \in 0..N + 1 |-> IF n <= N THEN f[n] ELSE Decode(f[N], lines[N + 1])]
  <2>2. ASSUME NEW n \in 0..N + 1
        PROVE  g[n] = IF n = 0 THEN begin ELSE Decode(g[n - 1], lines[n])
    <3> HIDE DEF begin
    <3>1. CASE n = 0
      BY <2>1, <3>1
    <3>2. CASE n \in 1..N
      <4>1. n - 1 \in 0..N + 1 /\ n - 1 <= N /\ n <= N /\ n \in 0..N
        BY <3>2
      <4> QED
        BY <2>1, <3>2, <4>1
    <3>3. CASE n = N + 1
      <4>1. n - 1 = N /\ n # 0 /\ ~(n <= N) /\ N \in 0..N + 1
        BY <3>3
      <4> QED
        BY <3>3, <4>1
    <3> QED
      BY <3>1, <3>2, <3>3
  <2>3. Runs(g, N + 1)
    <3> HIDE DEF begin
    <3>1. DOMAIN g = 0..N + 1
      OBVIOUS
    <3>2. g = [n \in 0..N + 1 |-> g[n]]
      OBVIOUS
    <3> HIDE DEF g
    <3> QED
      BY <2>2, <3>1, <3>2
  <2> HIDE DEF g
  <2> QED
    BY <2>3
<1>3. \E f : Runs(f, Len(lines))
  <2> HIDE DEF S
  <2>1. \A N \in Nat : N \in S
    BY <1>1, <1>2, Induction
  <2> QED
    BY <2>1 DEF S
<1> DEFINE f == CHOOSE f : Runs(f, Len(lines))
<1>4. Runs(f, Len(lines))
  BY <1>3
<1>5. Messages(lines) = f[Len(lines)]
  BY DEF Messages
<1>6. f[0] = begin /\ \A n \in 1..Len(lines) : f[n] = Decode(f[n - 1], lines[n])
  <2> HIDE DEF f, begin
  <2> QED
    BY <1>4
<1> QED
  BY <1>5, <1>6

(* What is cut into messages *)

\* Each message is three bytes, the last of which ends its line.
LEMMA ByteIs ==
    ASSUME NEW d \in Nat, NEW r \in 0..2
    PROVE  ByteAt(3 * d + (r + 1)) = IF r = 2 THEN LF ELSE << d + 1, r + 1 >>
<1>1. (3 * d + (r + 1) - 1) \div 3 = d /\ (3 * d + (r + 1) - 1) % 3 = r
  <2>1. 3 * d + (r + 1) - 1 = 3 * d + r
    OBVIOUS
  <2>2. CASE r = 0
    <3>1. (3 * d) \div 3 = d /\ (3 * d) % 3 = 0
      OBVIOUS
    <3> QED
      BY <2>1, <2>2, <3>1
  <2>3. CASE r = 1
    <3>1. (3 * d + 1) \div 3 = d /\ (3 * d + 1) % 3 = 1
      OBVIOUS
    <3> QED
      BY <2>1, <2>3, <3>1
  <2>4. CASE r = 2
    <3>1. (3 * d + 2) \div 3 = d /\ (3 * d + 2) % 3 = 2
      OBVIOUS
    <3> QED
      BY <2>1, <2>4, <3>1
  <2> QED
    BY <2>2, <2>3, <2>4
<1>2. encode(d + 1)[r + 1] = IF r = 2 THEN LF ELSE << d + 1, r + 1 >>
  BY DEF encode
<1> QED
  BY <1>1, <1>2 DEF ByteAt

\* A codec that keeps r bytes of a message, and the byte that comes next.
LEMMA CutIs ==
    ASSUME NEW d, NEW r \in 0..2
    PROVE  /\ IsSeq(Cut(d, r)) /\ Len(Cut(d, r)) = r /\ Cut(d, 0) = << >>
           /\ r < 2 => Append(Cut(d, r), << d + 1, r + 1 >>) = Cut(d, r + 1)
           /\ r > 0 => Cut(d, r) # << >>
<1>1. Cut(d, r) \in Seq(Range(Cut(d, r))) /\ Len(Cut(d, r)) = r
  BY DEF Cut, Range
<1>2. Cut(d, 0) = << >>
  BY DEF Cut
<1>3. ASSUME r < 2 PROVE Append(Cut(d, r), << d + 1, r + 1 >>) = Cut(d, r + 1)
  <2>1. CASE r = 0
    BY <2>1 DEF Cut
  <2>2. CASE r = 1
    BY <2>2 DEF Cut
  <2> QED
    BY <1>3, <2>1, <2>2
<1>4. r > 0 => Cut(d, r) # << >>
  BY <1>1
<1> QED
  BY <1>1, <1>2, <1>3, <1>4 DEF IsSeq

\* A run of consecutive messages: its length, its elements, its ends.
LEMMA NumbersAre ==
    ASSUME NEW first \in Nat, NEW n \in Nat
    PROVE  /\ Numbers(first, n) \in Seq(Nat) /\ Len(Numbers(first, n)) = n
           /\ \A i \in 1..n : Numbers(first, n)[i] = first + i
           /\ Append(Numbers(first, n), first + n + 1) = Numbers(first, n + 1)
           /\ n # 0 => /\ Head(Numbers(first, n)) = first + 1
                       /\ Tail(Numbers(first, n)) = Numbers(first + 1, n - 1)
           /\ Numbers(first, 0) = << >>
<1>1. /\ Numbers(first, n) \in Seq(Nat) /\ Len(Numbers(first, n)) = n
      /\ \A i \in 1..n : Numbers(first, n)[i] = first + i
  BY DEF Numbers
<1>2. Append(Numbers(first, n), first + n + 1) = Numbers(first, n + 1)
  <2> DEFINE a == Append(Numbers(first, n), first + n + 1)
             b == Numbers(first, n + 1)
  <2>1. first + n + 1 \in Nat /\ a \in Seq(Nat) /\ Len(a) = n + 1
        /\ (\A i \in 1..n : a[i] = first + i) /\ a[n + 1] = first + n + 1
    BY <1>1, AppendProperties
  <2>2. b \in Seq(Nat) /\ Len(b) = n + 1 /\ \A i \in 1..n + 1 : b[i] = first + i
    BY DEF Numbers
  <2> HIDE DEF a, b
  <2>3. \A i \in 1..n + 1 : a[i] = b[i]
    BY <2>1, <2>2
  <2>4. a = b
    BY <2>1, <2>2, <2>3, SeqEqual
  <2> QED
    BY <2>4 DEF a, b
<1>3. ASSUME n # 0
      PROVE  /\ Head(Numbers(first, n)) = first + 1
             /\ Tail(Numbers(first, n)) = Numbers(first + 1, n - 1)
  <2> DEFINE a == Tail(Numbers(first, n))
             b == Numbers(first + 1, n - 1)
  <2>1. /\ Numbers(first, n) # << >> /\ Head(Numbers(first, n)) = first + 1
        /\ a \in Seq(Nat) /\ Len(a) = n - 1
        /\ \A i \in 1..n - 1 : a[i] = Numbers(first, n)[i + 1]
    BY <1>1, <1>3, HeadTailProperties
  <2>2. b \in Seq(Nat) /\ Len(b) = n - 1 /\ \A i \in 1..n - 1 : b[i] = first + 1 + i
    BY <1>3 DEF Numbers
  <2>3. \A i \in 1..n - 1 : Numbers(first, n)[i + 1] = first + 1 + i
    BY <1>1
  <2> HIDE DEF a, b
  <2>4. \A i \in 1..n - 1 : a[i] = b[i]
    BY <2>1, <2>2, <2>3
  <2>5. a = b
    BY <2>1, <2>2, <2>4, SeqEqual
  <2> QED
    BY <2>1, <2>5 DEF a, b
<1>4. Numbers(first, 0) = << >>
  BY DEF Numbers
<1> QED
  BY <1>1, <1>2, <1>3, <1>4

\* A chunk that continues what has been read, and what it is framed into.
Continues(data, c) == \A i \in 1..Len(data) : data[i] = ByteAt(c + i)
Completes(d0, r0, data, k, r) ==
    /\ 3 * d0 + r0 + Len(data) = 3 * (d0 + k) + r
    /\ append(Cut(d0, r0), data)
          = [buffer |-> Cut(d0 + k, r), lines |-> [i \in 1..k |-> Cut(d0 + i - 1, 2)]]

\* A chunk of what was written, framed: the messages it completes and the rest of the last.
LEMMA ChunkIsFramed ==
    ASSUME NEW d0 \in Nat, NEW r0 \in 0..2, NEW n \in Nat, n <= MaxSends,
           NEW data, Len(data) \in Nat, 3 * d0 + r0 + Len(data) <= 3 * n,
           Continues(data, 3 * d0 + r0)
    PROVE  \E k \in Nat, r \in 0..2 : Completes(d0, r0, data, k, r)
<1>1. PICK f : /\ append(Cut(d0, r0), data) = f[Len(data)]
               /\ f[0] = [buffer |-> Cut(d0, r0), lines |-> << >>]
               /\ \A i \in 1..Len(data) : f[i] = Frame(f[i - 1], data[i])
  BY FramerRuns
<1> DEFINE Lines(k) == [i \in 1..k |-> Cut(d0 + i - 1, 2)]
           Framed(k, r) == [buffer |-> Cut(d0 + k, r), lines |-> Lines(k)]
           Good(j, k, r) == 3 * d0 + r0 + j = 3 * (d0 + k) + r /\ f[j] = Framed(k, r)
           S == {j \in 0..Len(data) : \E k \in Nat, r \in 0..2 : Good(j, k, r)}
<1>2. 0 \in S
  <2>1. Lines(0) = << >> /\ d0 + 0 = d0
    OBVIOUS
  <2>2. Good(0, 0, r0)
    BY <1>1, <2>1
  <2> HIDE DEF Good
  <2> QED
    BY <2>2
<1>3. ASSUME NEW j \in 0..Len(data), j < Len(data), j \in S PROVE j + 1 \in S
  <2>1. PICK k \in Nat, r \in 0..2 : 3 * d0 + r0 + j = 3 * (d0 + k) + r /\ f[j] = Framed(k, r)
    BY <1>3
  <2>2. j + 1 \in 1..Len(data) /\ (j + 1) - 1 = j
    BY <1>3
  <2> DEFINE d == d0 + k
  <2>3. d \in Nat /\ 3 * d0 + r0 + (j + 1) = 3 * d + (r + 1)
    BY <2>1
  <2>4. data[j + 1] = IF r = 2 THEN LF ELSE << d + 1, r + 1 >>
    <3>1. data[j + 1] = ByteAt(3 * d0 + r0 + (j + 1))
      BY <2>2 DEF Continues
    <3> HIDE DEF d
    <3> QED
      BY <2>3, <3>1, ByteIs
  <2>5. f[j + 1] = Frame(Framed(k, r), data[j + 1])
    BY <1>1, <2>1, <2>2
  <2>6. Framed(k, r).buffer = Cut(d, r) /\ Framed(k, r).lines = Lines(k)
    OBVIOUS
  <2>7. CASE r < 2
    <3>1. d + 1 \in 1..MaxSends /\ r + 1 \in {1, 2}
      BY <2>2, <2>3, <2>7, StdioAssumption
    <3>2. data[j + 1] # LF
      BY <2>4, <2>7, <3>1, StdioAssumption
    <3>3. Append(Cut(d, r), data[j + 1]) = Cut(d, r + 1)
      <4> HIDE DEF d
      <4> QED
        <5>1. data[j + 1] = << d + 1, r + 1 >>
          BY <2>4, <2>7
        <5>2. Append(Cut(d, r), << d + 1, r + 1 >>) = Cut(d, r + 1)
          BY <2>7, CutIs
        <5> QED
          BY <5>1, <5>2
    <3>4. f[j + 1] = Framed(k, r + 1)
      <4> HIDE DEF Lines
      <4>1. f[j + 1] = [Framed(k, r) EXCEPT !.buffer = Append(@, data[j + 1])]
        BY <2>5, <3>2 DEF Frame
      <4> QED
        BY <3>3, <4>1
    <3>5. Good(j + 1, k, r + 1) /\ r + 1 \in 0..2
      <4> HIDE DEF Framed
      <4> QED
        BY <2>3, <2>7, <3>4
    <3> HIDE DEF Good
    <3> QED
      BY <2>2, <3>5
  <2>8. CASE r = 2
    <3>1. Cut(d, r) # << >> /\ Cut(d + 1, 0) = << >> /\ d + 1 \in Nat
      <4>1. Cut(d, r) # << >>
        BY <2>8, CutIs
      <4>2. Cut(d + 1, 0) = << >>
        BY DEF Cut
      <4> QED
        BY <2>3, <4>1, <4>2
    <3>2. Append(Lines(k), Cut(d, 2)) = Lines(k + 1)
      <4>1. \A i : IsSeq(Cut(i, 2))
        BY CutIs
      <4> DEFINE T == {Cut(i, 2) : i \in Nat}
                 a == Append(Lines(k), Cut(d, 2))
                 b == Lines(k + 1)
      <4>2. Lines(k) \in Seq(T) /\ Len(Lines(k)) = k /\ Cut(d, 2) \in T
        <5>1. \A i \in 1..k : d0 + i - 1 \in Nat
          OBVIOUS
        <5>2. \A i \in 1..k : Cut(d0 + i - 1, 2) \in T
          BY <5>1
        <5> HIDE DEF T
        <5>3. Lines(k) \in [1..k -> T]
          BY <5>2
        <5>4. Cut(d, 2) \in T
          BY <2>3 DEF T
        <5> HIDE DEF Lines
        <5> QED
          BY <5>3, <5>4
      <4>3. b \in Seq(T) /\ Len(b) = k + 1 /\ \A i \in 1..k + 1 : b[i] = Cut(d0 + i - 1, 2)
        OBVIOUS
      <4>4. \A i \in 1..k : Lines(k)[i] = Cut(d0 + i - 1, 2)
        OBVIOUS
      <4> HIDE DEF T, Lines
      <4>5. a \in Seq(T) /\ Len(a) = k + 1 /\ (\A i \in 1..k : a[i] = Lines(k)[i])
            /\ a[k + 1] = Cut(d, 2)
        BY <4>2, AppendProperties
      <4>6. d0 + (k + 1) - 1 = d
        OBVIOUS
      <4> HIDE DEF a, b, d
      <4>7. \A i \in 1..k + 1 : a[i] = b[i]
        BY <4>3, <4>4, <4>5, <4>6
      <4>8. a = b
        BY <4>3, <4>5, <4>7, SeqEqual
      <4> QED
        BY <4>8 DEF a, b
    <3>3. f[j + 1] = [buffer |-> << >>, lines |-> Append(Lines(k), Cut(d, r))]
      <4> HIDE DEF Lines, d
      <4> QED
        BY <2>4, <2>5, <2>6, <2>8, <3>1 DEF Frame
    <3>4. d + 1 = d0 + (k + 1)
      OBVIOUS
    <3>5. f[j + 1] = Framed(k + 1, 0)
      <4> HIDE DEF Lines, d
      <4> QED
        BY <2>8, <3>1, <3>2, <3>3, <3>4
    <3>6. 3 * d0 + r0 + (j + 1) = 3 * (d0 + (k + 1)) + 0 /\ k + 1 \in Nat
      BY <2>3, <2>8
    <3>7. Good(j + 1, k + 1, 0)
      <4> HIDE DEF Framed
      <4> QED
        BY <3>5, <3>6
    <3> HIDE DEF Good
    <3>8. 0 \in 0..2
      OBVIOUS
    <3> QED
      BY <2>2, <3>6, <3>7, <3>8
  <2>9. r < 2 \/ r = 2
    OBVIOUS
  <2> HIDE DEF S
  <2> QED
    BY <2>7, <2>8, <2>9
<1> HIDE DEF S
<1>4. \A j \in 0..Len(data) : j \in S
  BY <1>2, <1>3, InductionUpTo
<1>5. Len(data) \in S /\ Len(data) \in 0..Len(data)
  BY <1>4
<1>6. PICK k \in Nat, r \in 0..2 : Good(Len(data), k, r)
  <2> HIDE DEF Good
  <2> QED
    BY <1>5 DEF S
<1>7. Completes(d0, r0, data, k, r)
  BY <1>1, <1>6 DEF Completes
<1> QED
  BY <1>7

\* Its lines are messages, one number after the other.
LEMMA LinesAreMessages ==
    ASSUME NEW d0 \in Nat, NEW k \in Nat
    PROVE  Messages([i \in 1..k |-> Cut(d0 + i - 1, 2)]) = Numbers(d0, k)
<1> DEFINE lines == [i \in 1..k |-> Cut(d0 + i - 1, 2)]
<1>1. Len(lines) = k
  OBVIOUS
<1>2. ASSUME NEW i \in 1..k PROVE IsMessage(lines[i]) /\ lines[i][1][1] = d0 + i
  BY <1>2 DEF IsMessage, Cut
<1> HIDE DEF lines
<1>3. PICK f : /\ Messages(lines) = f[k] /\ f[0] = << >>
               /\ \A i \in 1..k : f[i] = Decode(f[i - 1], lines[i])
  BY <1>1, DecoderRuns
<1> DEFINE S == {j \in 0..k : f[j] = Numbers(d0, j)}
<1>4. 0 \in S
  <2>1. Numbers(d0, 0) = << >>
    BY DEF Numbers
  <2> QED
    BY <1>3, <2>1
<1>5. ASSUME NEW j \in 0..k, j < k, j \in S PROVE j + 1 \in S
  <2>1. j + 1 \in 1..k /\ (j + 1) - 1 = j /\ f[j] = Numbers(d0, j)
    BY <1>5
  <2>2. f[j + 1] = Append(Numbers(d0, j), d0 + j + 1)
    <3>1. f[j + 1] = Decode(f[j], lines[j + 1])
      BY <1>3, <2>1
    <3>2. IsMessage(lines[j + 1]) /\ lines[j + 1][1][1] = d0 + j + 1
      BY <1>2, <2>1
    <3> QED
      BY <2>1, <3>1, <3>2 DEF Decode
  <2>3. f[j + 1] = Numbers(d0, j + 1)
    <3>1. j \in Nat
      OBVIOUS
    <3>2. Append(Numbers(d0, j), d0 + j + 1) = Numbers(d0, j + 1)
      BY <3>1, NumbersAre
    <3> QED
      BY <2>2, <3>2
  <2> QED
    BY <2>1, <2>3
<1> HIDE DEF S
<1>6. \A j \in 0..k : j \in S
  BY <1>4, <1>5, InductionUpTo
<1>7. f[k] = Numbers(d0, k)
  BY <1>6 DEF S
<1> QED
  BY <1>3, <1>7 DEF lines

(* A pipe and the codec at its end *)

\* A pipe on which nothing was written is read.
LEMMA NothingRead == HasRead(<< >>, << >>, 0, 0)
<1>1. Cut(0, 0) = << >> /\ IsSeq(<< >>) /\ Len(<< >>) = 0 /\ 1..0 = {}
  BY DEF Cut, IsSeq
<1>2. Rest(<< >>, 3 * 0 + 0, 0)
  BY <1>1 DEF Rest
<1> QED
  BY <1>1, <1>2 DEF HasRead

\* No more messages are read than were written; all of them, when the pipe is empty.
LEMMA ReadIsWritten ==
    ASSUME NEW codec, NEW bytes, NEW done \in Nat, NEW n \in Nat, HasRead(codec, bytes, done, n)
    PROVE  /\ done <= n /\ Len(bytes) \in Nat
           /\ bytes = << >> => done = n /\ codec = << >>
<1>1. PICK r \in 0..2 : codec = Cut(done, r) /\ Rest(bytes, 3 * done + r, n)
  BY DEF HasRead
<1>2. Len(bytes) \in Nat /\ Len(bytes) + (3 * done + r) = 3 * n
  BY <1>1, LenProperties DEF Rest, IsSeq
<1>3. done <= n
  BY <1>2
<1>4. ASSUME bytes = << >> PROVE done = n /\ codec = << >>
  <2>1. Len(bytes) = 0
    BY <1>4
  <2>2. r = 0 /\ done = n
    BY <1>2, <2>1
  <2> QED
    BY <1>1, <2>2 DEF Cut
<1> QED
  BY <1>2, <1>3, <1>4

\* One more message is written.
LEMMA WrittenOn ==
    ASSUME NEW codec, NEW bytes, NEW done \in Nat, NEW n \in Nat, HasRead(codec, bytes, done, n)
    PROVE  HasRead(codec, bytes \o encode(n + 1), done, n + 1)
<1> DEFINE e == encode(n + 1)
           b == bytes \o e
<1>1. PICK r \in 0..2 : codec = Cut(done, r) /\ Rest(bytes, 3 * done + r, n)
  BY DEF HasRead
<1>2. PICK T : bytes \in Seq(T) /\ e \in Seq(T)
  <2>1. PICK T : bytes \in Seq(T)
    BY <1>1 DEF Rest, IsSeq
  <2>2. bytes \in Seq(T \cup {<< n + 1, 1 >>, << n + 1, 2 >>, LF})
    BY <2>1, SeqMonotonic
  <2>3. e \in Seq(T \cup {<< n + 1, 1 >>, << n + 1, 2 >>, LF})
    BY DEF encode
  <2> QED
    BY <2>2, <2>3
<1>3. Len(e) = 3 /\ \A s \in 0..2 : e[s + 1] = ByteAt(3 * n + (s + 1))
  <2>1. Len(e) = 3
    BY DEF encode
  <2>2. ASSUME NEW s \in 0..2 PROVE e[s + 1] = ByteAt(3 * n + (s + 1))
    <3>1. e[s + 1] = IF s = 2 THEN LF ELSE << n + 1, s + 1 >>
      BY DEF encode
    <3> QED
      BY <3>1, ByteIs
  <2> QED
    BY <2>1, <2>2
<1> HIDE DEF e
<1>4. /\ Len(bytes) \in Nat /\ b \in Seq(T) /\ Len(b) = Len(bytes) + 3
      /\ \A i \in 1..Len(bytes) : b[i] = bytes[i]
      /\ \A i \in Len(bytes) + 1..Len(bytes) + 3 : b[i] = e[i - Len(bytes)]
  <2>1. Len(bytes) \in Nat
    BY <1>2, LenProperties
  <2>2. /\ b \in Seq(T) /\ Len(b) = Len(bytes) + Len(e)
        /\ \A i \in 1..Len(bytes) + Len(e) :
              b[i] = IF i <= Len(bytes) THEN bytes[i] ELSE e[i - Len(bytes)]
    BY <1>2, ConcatProperties
  <2> HIDE DEF b
  <2> QED
    BY <1>3, <2>1, <2>2
<1> HIDE DEF b
<1>5. Len(bytes) + (3 * done + r) = 3 * n
  BY <1>1 DEF Rest
<1>6. ASSUME NEW i \in 1..Len(b) PROVE b[i] = ByteAt(3 * done + r + i)
  <2>1. CASE i \in 1..Len(bytes)
    BY <1>1, <1>4, <2>1 DEF Rest
  <2>2. CASE i \in Len(bytes) + 1..Len(bytes) + 3
    <3>1. PICK s \in 0..2 : s + 1 = i - Len(bytes)
      <4>1. i - Len(bytes) - 1 \in 0..2 /\ (i - Len(bytes) - 1) + 1 = i - Len(bytes)
        BY <1>4, <2>2
      <4> QED
        BY <4>1
    <3>2. 3 * n + (s + 1) = 3 * done + r + i
      BY <1>4, <1>5, <3>1
    <3>3. b[i] = e[s + 1]
      BY <1>4, <2>2, <3>1
    <3> QED
      BY <1>3, <3>2, <3>3
  <2> QED
    BY <1>4, <2>1, <2>2
<1>7. Rest(b, 3 * done + r, n + 1)
  <2>1. 3 * done + r \in Nat /\ Len(b) + (3 * done + r) = 3 * (n + 1)
    BY <1>4, <1>5
  <2> QED
    BY <1>4, <1>6, <2>1 DEF Rest, IsSeq
<1> QED
  BY <1>1, <1>7 DEF HasRead, b, e

\* Some bytes are read: they complete some messages, the next in order.
LEMMA ReadOn ==
    ASSUME NEW codec, NEW bytes, NEW done \in Nat, NEW n \in Nat, n <= MaxSends,
           HasRead(codec, bytes, done, n), NEW k \in 1..Len(bytes)
    PROVE  \E m \in Nat :
              /\ Messages(append(codec, SubSeq(bytes, 1, k)).lines) = Numbers(done, m)
              /\ HasRead(append(codec, SubSeq(bytes, 1, k)).buffer,
                         SubSeq(bytes, k + 1, Len(bytes)), done + m, n)
<1> DEFINE data == SubSeq(bytes, 1, k)
           left == SubSeq(bytes, k + 1, Len(bytes))
<1>1. PICK r \in 0..2 : codec = Cut(done, r) /\ Rest(bytes, 3 * done + r, n)
  BY DEF HasRead
<1>2. PICK T : bytes \in Seq(T)
  BY <1>1 DEF Rest, IsSeq
<1>3. /\ Len(bytes) \in Nat /\ k \in Nat /\ k <= Len(bytes)
      /\ Len(data) = k /\ \A i \in 1..k : data[i] = bytes[i]
  BY <1>2, LenProperties, SubSeqProperties
<1>4. /\ left \in Seq(T) /\ Len(left) = Len(bytes) - k
      /\ \A i \in 1..Len(bytes) - k : left[i] = bytes[k + i]
  <2>1. CASE k < Len(bytes)
    <3>1. k + 1 \in 1..Len(bytes) /\ Len(bytes) \in 1..Len(bytes)
      BY <1>3, <2>1
    <3>2. left \in Seq(T) /\ Len(left) = Len(bytes) - (k + 1) + 1
          /\ \A i \in 1..Len(bytes) - (k + 1) + 1 : left[i] = bytes[k + 1 + i - 1]
      BY <1>2, <3>1, SubSeqProperties
    <3>3. Len(bytes) - (k + 1) + 1 = Len(bytes) - k
      BY <1>3
    <3> HIDE DEF left
    <3>4. ASSUME NEW i \in 1..Len(bytes) - k PROVE left[i] = bytes[k + i]
      <4>1. left[i] = bytes[k + 1 + i - 1]
        BY <3>2, <3>3
      <4>2. k + 1 + i - 1 = k + i
        BY <1>3
      <4> QED
        BY <4>1, <4>2
    <3> QED
      BY <3>2, <3>3, <3>4
  <2>2. CASE k = Len(bytes)
    <3>1. left = << >>
      BY <1>2, <1>3, <2>2, SubSeqProperties
    <3> QED
      BY <1>3, <2>2, <3>1
  <2> QED
    BY <1>3, <2>1, <2>2
<1> HIDE DEF data, left
<1>5. Len(bytes) + (3 * done + r) = 3 * n /\ \A i \in 1..Len(bytes) : bytes[i] = ByteAt(3 * done + r + i)
  BY <1>1 DEF Rest
<1>6. 3 * done + r + Len(data) <= 3 * n /\ Len(data) \in Nat
  BY <1>3, <1>5
<1>7. Continues(data, 3 * done + r)
  BY <1>3, <1>5 DEF Continues
<1>8. PICK m \in Nat, s \in 0..2 : Completes(done, r, data, m, s)
  BY <1>6, <1>7, ChunkIsFramed
<1>9. Messages(append(codec, data).lines) = Numbers(done, m)
  BY <1>1, <1>8, LinesAreMessages DEF Completes
<1>10. Rest(left, 3 * (done + m) + s, n)
  <2>1. 3 * done + r + k = 3 * (done + m) + s
    BY <1>3, <1>8 DEF Completes
  <2>2. 3 * (done + m) + s \in Nat /\ Len(left) + (3 * (done + m) + s) = 3 * n
    <3>1. k \in Nat /\ Len(bytes) \in Nat /\ Len(left) = Len(bytes) - k
          /\ Len(bytes) + (3 * done + r) = 3 * n
      BY <1>3, <1>4, <1>5
    <3> QED
      BY <2>1, <3>1
  <2>3. ASSUME NEW i \in 1..Len(left) PROVE left[i] = ByteAt(3 * (done + m) + s + i)
    <3>1. k + i \in 1..Len(bytes) /\ 3 * done + r + (k + i) = 3 * (done + m) + s + i
      BY <1>3, <1>4, <2>1
    <3>2. left[i] = bytes[k + i]
      BY <1>3, <1>4
    <3> QED
      BY <1>5, <3>1, <3>2
  <2> QED
    BY <1>4, <2>2, <2>3 DEF Rest, IsSeq
<1>11. append(codec, data).buffer = Cut(done + m, s)
  BY <1>1, <1>8 DEF Completes
<1> QED
  BY <1>9, <1>10, <1>11 DEF HasRead, data, left

(* The basics *)

\* The pipes and the ends before the first start.
LEMMA BasicsInit == Init => Basics
BY DEF Init, Basics, StdioTypeOK, NoReader, NoPipe, Alive

\* Every step keeps the types, the stop flag of the thread and the pipe the client closes.
LEMMA BasicsStep == ASSUME Basics, [Next]_vars PROVE Basics'
<1>1. CASE UNCHANGED vars
  BY <1>1 DEF Basics, StdioTypeOK, Alive, vars
<1>2. ASSUME NEW runs \in BOOLEAN, start(runs) PROVE Basics'
  BY <1>2 DEF Basics, StdioTypeOK, Alive, start, NoReader, NoPipe, Pipe
<1>3. CASE StopBegins
  BY <1>3 DEF Basics, StdioTypeOK, Alive, StopBegins, serverVars
<1>4. CASE StopEnds
  BY <1>4 DEF Basics, StdioTypeOK, Alive, StopEnds, serverVars, NoPipe
<1>5. CASE Kill \/ Quit \/ Dies
  BY <1>5 DEF Basics, StdioTypeOK, Alive, Kill, Quit, Dies, clientVars
<1>6. CASE sendC
  BY <1>6 DEF Basics, StdioTypeOK, Alive, sendC, clientVars, serverVars
<1>7. ASSUME NEW k \in 1..Len(up.bytes), onReadyReadStdout(k) PROVE Basics'
  BY <1>7 DEF Basics, StdioTypeOK, Alive, onReadyReadStdout, serverVars, Taken
<1>8. CASE DeliverC
  BY <1>8 DEF Basics, StdioTypeOK, Alive, DeliverC, serverVars
<1>9. CASE onProcessFinished
  BY <1>9 DEF Basics, StdioTypeOK, Alive, onProcessFinished, serverVars
<1>10. ASSUME NEW k \in 1..Len(down.bytes), Read(k) PROVE Basics'
  BY <1>10 DEF Basics, StdioTypeOK, Alive, Read, clientVars, Taken
<1>11. CASE ReadEnd \/ NextRead \/ PostClosed \/ PostMessage
  BY <1>11 DEF Basics, StdioTypeOK, Alive, ReadEnd, NextRead, PostClosed, PostMessage, clientVars
<1>12. CASE Dispatch
  BY <1>12 DEF Basics, StdioTypeOK, Alive, Dispatch, clientVars
<1>13. CASE sendS
  BY <1>13 DEF Basics, StdioTypeOK, Alive, sendS, clientVars, serverVars
<1>14. CASE stopS
  BY <1>14 DEF Basics, StdioTypeOK, Alive, stopS, clientVars
<1> QED
  BY <1>1, <1>2, <1>3, <1>4, <1>5, <1>6, <1>7, <1>8, <1>9, <1>10, <1>11, <1>12, <1>13, <1>14
     DEF Next, ClientReads, ServerReads

(* The client *)

\* A client that was never started was given nothing.
LEMMA ClientInit == Init => ClientIInv
<1> SUFFICES ASSUME Init PROVE ClientIInv
  OBVIOUS
<1> USE DEF Init
<1>1. Numbers(0, 0) = << >> /\ 1..Len(<< >>) = {} /\ IsSeq(<< >>)
  BY DEF Numbers, IsSeq
<1>2. Pending = 0
  BY DEF Pending, Current
<1>3. MaxSends \in Nat
  BY StdioAssumption
<1>4. ClientHas(0, 0)
  BY <1>1, <1>2, <1>3 DEF ClientHas, HandlingOK, Alive
<1> QED
  BY <1>4 DEF ClientIInv

\* What the child, the thread and the sends of the client do leaves the client as it was.
LEMMA ClientFrame ==
    ASSUME ClientIInv, client.process' = client.process, Alive' => Alive,
           UNCHANGED << codecC, handling, up, starts, sent.server, got.client >>
    PROVE  ClientIInv'
<1>1. PICK n \in Nat, g \in Nat : ClientHas(n, g)
  BY DEF ClientIInv
<1>2. Pending' = Pending
  BY DEF Pending, Current
<1>3. HandlingOK(g) => HandlingOK(g)'
  BY DEF HandlingOK
<1>4. HasRead(codecC, up.bytes, g + Pending, n)' <=> HasRead(codecC, up.bytes, g + Pending, n)
  BY <1>2 DEF HasRead, Rest
<1>5. ClientHas(n, g)'
  BY <1>1, <1>2, <1>3, <1>4 DEF ClientHas
<1> QED
  BY <1>5 DEF ClientIInv

\* A start begins a connection: what is still to be delivered is of an older one.
LEMMA ClientStarts == ASSUME Basics, ClientIInv, NEW runs \in BOOLEAN, start(runs) PROVE ClientIInv'
<1>1. PICK n \in Nat, g \in Nat : ClientHas(n, g)
  BY DEF ClientIInv
<1>2. starts \in Nat /\ starts' = starts + 1 /\ handling' = handling /\ codecC' = codecC /\ codecC = << >>
  BY DEF start, Basics, StdioTypeOK, ClientIInv
<1>3. HandlingOK(g)
  BY <1>1 DEF ClientHas
<1>4. \A i \in 1..Len(handling) : handling[i].of # starts'
  BY <1>2, <1>3 DEF HandlingOK
<1>5. handling # << >> => 1 \in 1..Len(handling)
  BY <1>3 DEF HandlingOK, IsSeq
<1>6. Pending' = 0
  BY <1>2, <1>4, <1>5 DEF Pending, Current
<1>7. HandlingOK(0)'
  BY <1>2, <1>3, <1>4 DEF HandlingOK
<1>8. sent'.server = << >> /\ got'.client = << >> /\ Numbers(0, 0) = << >>
  BY DEF start, Numbers
<1>9. client'.process = "running" => up'.bytes = << >>
  BY DEF start, Pipe
<1>10. client'.process = "dead" => ~ Alive'
  BY DEF start, Alive
<1>11. 0 <= MaxSends /\ 0 + 0 = 0
  BY StdioAssumption
<1>12. client'.process = "running" => HasRead(codecC, up.bytes, 0 + Pending, 0)'
  BY <1>2, <1>6, <1>9, <1>11, NothingRead DEF HasRead, Rest
<1>13. ClientHas(0, 0)'
  BY <1>6, <1>7, <1>8, <1>10, <1>11, <1>12 DEF ClientHas
<1>14. client'.process # "none"
  BY DEF start
<1> QED
  BY <1>13, <1>14 DEF ClientIInv

\* A stop gives up what the codec holds; what is to be delivered stays.
LEMMA ClientStops == ASSUME Basics, ClientIInv, StopEnds PROVE ClientIInv'
<1>1. PICK n \in Nat, g \in Nat : ClientHas(n, g)
  BY DEF ClientIInv
<1>2. Pending' = Pending /\ (HandlingOK(g) => HandlingOK(g)')
  BY DEF StopEnds, Pending, Current, HandlingOK
<1>3. client'.process = "none" /\ codecC' = << >>
  BY DEF StopEnds
<1>4. ClientHas(n, g)'
  BY <1>1, <1>2, <1>3 DEF ClientHas, StopEnds
<1> QED
  BY <1>3, <1>4 DEF ClientIInv

\* The child sends: one more message is on the pipe.
LEMMA ChildSends == ASSUME Basics, ClientIInv, sendS PROVE ClientIInv'
<1>1. PICK n \in Nat, g \in Nat : ClientHas(n, g)
  BY DEF ClientIInv
<1>2. Pending' = Pending /\ (HandlingOK(g) => HandlingOK(g)')
  BY DEF sendS, clientVars, Pending, Current, HandlingOK
<1>3. /\ client' = client /\ codecC' = codecC /\ Alive /\ got' = got
      /\ Len(sent.server) < MaxSends
  BY DEF sendS, clientVars
<1>4. sent.server = Numbers(0, n) /\ Len(sent.server) = n
  BY <1>1, NumbersAre DEF ClientHas
<1>5. sent'.server = Append(sent.server, Len(sent.server) + 1)
  BY DEF sendS, Basics, StdioTypeOK
<1>6. up'.bytes = up.bytes \o encode(n + 1)
  BY <1>4 DEF sendS, Basics, StdioTypeOK
<1>7. sent'.server = Numbers(0, n + 1)
  <2>1. 0 + n + 1 = n + 1 /\ 0 \in Nat
    OBVIOUS
  <2> QED
    BY <1>4, <1>5, <2>1, NumbersAre
<1>8. MaxSends \in Nat /\ n + 1 <= MaxSends /\ n + 1 \in Nat
  BY <1>3, <1>4, StdioAssumption
<1>9. g + Pending \in Nat /\ g + Pending <= n + 1
  <2>1. Pending \in Nat
    <3>1. IsSeq(handling)
      BY <1>1 DEF ClientHas, HandlingOK
    <3> QED
      BY <3>1, LenProperties DEF Pending, IsSeq
  <2>2. g + Pending <= n
    BY <1>1 DEF ClientHas
  <2> QED
    BY <2>1, <2>2
<1>10. client.process = "running" => HasRead(codecC, up'.bytes, g + Pending, n + 1)
  <2>1. SUFFICES ASSUME client.process = "running" PROVE HasRead(codecC, up'.bytes, g + Pending, n + 1)
    OBVIOUS
  <2>2. HasRead(codecC, up.bytes, g + Pending, n)
    BY <1>1, <2>1 DEF ClientHas
  <2> QED
    BY <1>6, <1>9, <2>2, WrittenOn
<1>11. client.process = "running" => HasRead(codecC, up.bytes, g + Pending, n + 1)'
  BY <1>2, <1>3, <1>10 DEF HasRead, Rest
<1>12. client.process # "dead"
  BY <1>1, <1>3 DEF ClientHas
<1>13. got'.client = Numbers(0, g) /\ HandlingOK(g)'
  BY <1>1, <1>2, <1>3 DEF ClientHas
<1>14. ClientHas(n + 1, g)'
  BY <1>2, <1>3, <1>7, <1>8, <1>9, <1>11, <1>12, <1>13 DEF ClientHas
<1> QED
  BY <1>3, <1>8, <1>14 DEF ClientIInv

\* The client reads a chunk: the messages it completes are the ones to be delivered.
LEMMA ClientReadsOn ==
    ASSUME Basics, ClientIInv, NEW k \in 1..Len(up.bytes), onReadyReadStdout(k)
    PROVE  ClientIInv'
<1>1. PICK n \in Nat, g \in Nat : ClientHas(n, g)
  BY DEF ClientIInv
<1>2. /\ client' = client /\ starts' = starts /\ sent' = sent /\ got' = got
      /\ client.process = "running" /\ handling = << >>
      /\ up'.bytes = SubSeq(up.bytes, k + 1, Len(up.bytes))
  BY DEF onReadyReadStdout, EventLoop, Running, Taken, Basics, StdioTypeOK
<1> DEFINE framed == append(codecC, SubSeq(up.bytes, 1, k))
<1>3. /\ codecC' = framed.buffer
      /\ handling' = [j \in DOMAIN Messages(framed.lines) |->
                        [of |-> starts, message |-> Messages(framed.lines)[j]]]
  BY DEF onReadyReadStdout
<1> HIDE DEF framed
<1>4. Pending = 0 /\ g + 0 = g
  BY <1>2 DEF Pending, Current
<1>5. n <= MaxSends /\ HasRead(codecC, up.bytes, g, n)
  BY <1>1, <1>2, <1>4 DEF ClientHas
<1>6. PICK m \in Nat :
         /\ Messages(framed.lines) = Numbers(g, m)
         /\ HasRead(framed.buffer, SubSeq(up.bytes, k + 1, Len(up.bytes)), g + m, n)
  BY <1>5, ReadOn DEF framed
<1>7. handling' = [j \in 1..m |-> [of |-> starts, message |-> g + j]]
  <2>1. DOMAIN Numbers(g, m) = 1..m /\ \A j \in 1..m : Numbers(g, m)[j] = g + j
    BY DEF Numbers
  <2> QED
    BY <1>3, <1>6, <2>1
<1> DEFINE h == [j \in 1..m |-> [of |-> starts, message |-> g + j]]
           T == {[of |-> starts, message |-> i] : i \in Nat}
<1>8. /\ h \in Seq(T) /\ Len(h) = m
      /\ \A j \in 1..m : h[j].of = starts /\ h[j].message = g + j
  <2>1. \A j \in 1..m : [of |-> starts, message |-> g + j] \in T
    <3>1. \A j \in 1..m : g + j \in Nat
      OBVIOUS
    <3> QED
      BY <3>1
  <2>2. h \in [1..m -> T]
    <3> HIDE DEF T
    <3> QED
      BY <2>1
  <2>3. \A j \in 1..m : h[j].of = starts /\ h[j].message = g + j
    OBVIOUS
  <2> HIDE DEF h, T
  <2> QED
    BY <2>2, <2>3
<1>9. h # << >> <=> m # 0
  BY <1>8
<1> HIDE DEF h, T
<1>10. Pending' = m
  <2>1. CASE m = 0
    BY <1>7, <1>9, <2>1 DEF Pending, Current, h
  <2>2. CASE m # 0
    <3>1. 1 \in 1..m
      BY <2>2
    <3>2. h # << >> /\ h[1].of = starts /\ Len(h) = m
      BY <1>8, <1>9, <2>2, <3>1
    <3>3. handling' = h
      BY <1>7 DEF h
    <3> QED
      BY <1>2, <3>2, <3>3 DEF Pending, Current
  <2> QED
    BY <2>1, <2>2
<1>11. HandlingOK(g)'
  <2>1. handling' = h
    BY <1>7 DEF h
  <2>2. starts \in Nat
    BY DEF Basics, StdioTypeOK
  <2>3. IsSeq(h)
    BY <1>8 DEF IsSeq
  <2>4. ASSUME NEW i \in 1..Len(h)
        PROVE  /\ h[i].of = h[1].of /\ h[i].of \in 0..starts
               /\ h[i].message = g + i
    <3>1. i \in 1..m /\ 1 \in 1..m
      BY <1>8, <2>4
    <3> QED
      BY <1>8, <2>2, <3>1
  <2> QED
    BY <1>2, <2>1, <2>3, <2>4 DEF HandlingOK, IsSeq
<1>12. HasRead(codecC, up.bytes, g + Pending, n)'
  <2>1. HasRead(codecC', up'.bytes, g + m, n)
    BY <1>2, <1>3, <1>6
  <2> QED
    BY <1>10, <2>1 DEF HasRead, Rest
<1>13. g + m <= n
  BY <1>6, ReadIsWritten
<1>14. sent'.server = Numbers(0, n) /\ got'.client = Numbers(0, g)
  BY <1>1, <1>2 DEF ClientHas
<1>15. ClientHas(n, g)'
  BY <1>2, <1>5, <1>10, <1>11, <1>12, <1>13, <1>14 DEF ClientHas
<1> QED
  BY <1>2, <1>15 DEF ClientIInv

\* A slot is given a message of this connection, or one of a connection that was stopped.
LEMMA ClientIsGiven == ASSUME Basics, ClientIInv, DeliverC PROVE ClientIInv'
<1>1. PICK n \in Nat, g \in Nat : ClientHas(n, g)
  BY DEF ClientIInv
<1>2. /\ UNCHANGED << client, codecC, up, sent, starts >> /\ Alive' = Alive
      /\ handling # << >> /\ handling' = Tail(handling)
  BY DEF DeliverC, serverVars, Alive
<1>3. HandlingOK(g)
  BY <1>1 DEF ClientHas
<1>4. PICK T : handling \in Seq(T)
  BY <1>3 DEF HandlingOK, IsSeq
<1>5. /\ Len(handling) \in Nat /\ Len(handling) # 0 /\ Head(handling) = handling[1]
      /\ handling' \in Seq(T) /\ Len(handling') = Len(handling) - 1
      /\ \A i \in 1..Len(handling') : handling'[i] = handling[i + 1]
  BY <1>2, <1>4, EmptySeq, HeadTailProperties
<1>6. handling' # << >> <=> Len(handling') # 0
  BY <1>5, EmptySeq
<1>7. \A i \in 1..Len(handling) :
         /\ handling[i].of = handling[1].of /\ handling[i].of \in 0..starts
         /\ handling[i].of = starts => handling[i].message = g + i
  BY <1>3 DEF HandlingOK
<1>8. \A i \in 1..Len(handling') : i + 1 \in 1..Len(handling) /\ handling'[i] = handling[i + 1]
  BY <1>5
<1>9. IsSeq(handling')
  BY <1>5 DEF IsSeq
<1>10. Current' => Current
  <2>1. SUFFICES ASSUME Current' PROVE Current
    OBVIOUS
  <2>2. 1 \in 1..Len(handling')
    BY <1>5, <1>6, <2>1 DEF Current
  <2> QED
    BY <1>2, <1>7, <1>8, <2>1, <2>2 DEF Current
<1>11. CASE Current
  <2>1. handling[1].of = starts /\ handling[1].message = g + 1
    <3>1. 1 \in 1..Len(handling)
      BY <1>5
    <3> QED
      BY <1>7, <1>11, <3>1 DEF Current
  <2>2. got'.client = Append(got.client, g + 1)
    BY <1>5, <2>1 DEF DeliverC, Basics, StdioTypeOK
  <2>3. got'.client = Numbers(0, g + 1)
    <3>1. got.client = Numbers(0, g) /\ 0 + g + 1 = g + 1 /\ 0 \in Nat
      BY <1>1 DEF ClientHas
    <3> QED
      BY <2>2, <3>1, NumbersAre
  <2>4. Pending = Len(handling) /\ Pending' = Len(handling) - 1
    <3>1. CASE handling' = << >>
      BY <1>5, <1>6, <1>11, <3>1 DEF Pending, Current
    <3>2. CASE handling' # << >>
      <4>1. 1 \in 1..Len(handling')
        BY <1>5, <1>6, <3>2
      <4>2. handling'[1].of = starts
        BY <1>7, <1>8, <2>1, <4>1
      <4> QED
        BY <1>2, <1>5, <1>11, <3>2, <4>2 DEF Pending, Current
    <3> QED
      BY <3>1, <3>2
  <2>5. (g + 1) + Pending' = g + Pending /\ g + 1 \in Nat
    BY <1>5, <2>4
  <2>6. HandlingOK(g + 1)'
    <3>1. ASSUME NEW i \in 1..Len(handling')
          PROVE  /\ handling'[i].of = handling'[1].of /\ handling'[i].of \in 0..starts
                 /\ handling'[i].of = starts => handling'[i].message = (g + 1) + i
      <4>1. 1 \in 1..Len(handling') /\ g + (i + 1) = (g + 1) + i
        BY <1>5
      <4> QED
        BY <1>7, <1>8, <4>1
    <3> QED
      BY <1>2, <1>9, <3>1 DEF HandlingOK, IsSeq
  <2>7. client.process = "running" => HasRead(codecC, up.bytes, (g + 1) + Pending, n)'
    <3>1. client.process = "running" => HasRead(codecC, up.bytes, g + Pending, n)
      BY <1>1 DEF ClientHas
    <3> QED
      BY <1>2, <2>5, <3>1 DEF HasRead, Rest
  <2>8. /\ n <= MaxSends /\ sent'.server = Numbers(0, n) /\ (g + 1) + Pending' <= n
        /\ client.process # "dead"
    <3>1. g + Pending <= n /\ Pending > 0 /\ Pending \in Nat
      BY <1>1, <1>5, <2>4 DEF ClientHas
    <3>2. g # n
      BY <3>1
    <3> QED
      BY <1>1, <1>2, <2>5, <3>1, <3>2 DEF ClientHas
  <2>9. ClientHas(n, g + 1)'
    BY <1>2, <2>3, <2>6, <2>7, <2>8 DEF ClientHas
  <2> QED
    BY <1>2, <2>5, <2>9 DEF ClientIInv
<1>12. CASE ~ Current
  <2>1. got' = got
    BY <1>2, <1>5, <1>12 DEF DeliverC, Current
  <2>2. Pending' = Pending
    BY <1>10, <1>12 DEF Pending
  <2>3. HandlingOK(g)'
    <3>1. \A i \in 1..Len(handling) : handling[i].of # starts
      BY <1>2, <1>7, <1>12 DEF Current
    <3>2. ASSUME NEW i \in 1..Len(handling')
          PROVE  /\ handling'[i].of = handling'[1].of /\ handling'[i].of \in 0..starts
                 /\ handling'[i].of # starts
      <4>1. 1 \in 1..Len(handling')
        BY <1>5
      <4> QED
        BY <1>7, <1>8, <3>1, <4>1
    <3> QED
      BY <1>2, <1>9, <3>2 DEF HandlingOK, IsSeq
  <2>4. client.process = "running" => HasRead(codecC, up.bytes, g + Pending, n)'
    <3>1. client.process = "running" => HasRead(codecC, up.bytes, g + Pending, n)
      BY <1>1 DEF ClientHas
    <3> QED
      BY <1>2, <2>2, <3>1 DEF HasRead, Rest
  <2>5. ClientHas(n, g)'
    BY <1>1, <1>2, <2>1, <2>2, <2>3, <2>4 DEF ClientHas
  <2> QED
    BY <1>2, <2>5 DEF ClientIInv
<1> QED
  BY <1>11, <1>12

\* finished() comes when nothing is left to read: the client was given everything.
LEMMA ClientIsTold == ASSUME Basics, ClientIInv, onProcessFinished PROVE ClientIInv'
<1>1. PICK n \in Nat, g \in Nat : ClientHas(n, g)
  BY DEF ClientIInv
<1>2. /\ UNCHANGED << codecC, handling, up, sent, got, starts >> /\ ~ Alive'
      /\ client.process = "running" /\ handling = << >> /\ up.bytes = << >>
      /\ client'.process = "dead"
  BY DEF onProcessFinished, serverVars, EventLoop, Running, Alive, Basics, StdioTypeOK
<1>3. Pending = 0 /\ Pending' = Pending /\ g + 0 = g
  BY <1>2 DEF Pending, Current
<1>4. HasRead(codecC, up.bytes, g, n)
  BY <1>1, <1>2, <1>3 DEF ClientHas
<1>5. g = n
  BY <1>2, <1>4, ReadIsWritten
<1>6. HandlingOK(g)'
  BY <1>1, <1>2 DEF ClientHas, HandlingOK
<1>7. ClientHas(n, g)'
  BY <1>1, <1>2, <1>3, <1>5, <1>6 DEF ClientHas
<1> QED
  BY <1>2, <1>7 DEF ClientIInv

\* Every step keeps what the client was given, is to be given and has not read.
LEMMA ClientStep == ASSUME Basics, ClientIInv, [Next]_vars PROVE ClientIInv'
<1> DEFINE Frame0 ==
             /\ client.process' = client.process /\ (Alive' => Alive)
             /\ UNCHANGED << codecC, handling, up, starts, sent.server, got.client >>
<1>1. CASE UNCHANGED vars
  <2>1. Frame0
    BY <1>1 DEF vars, Alive
  <2> QED
    BY <2>1, ClientFrame
<1>2. ASSUME NEW runs \in BOOLEAN, start(runs) PROVE ClientIInv'
  BY <1>2, ClientStarts
<1>3. CASE StopBegins \/ Kill \/ sendC
  <2>1. Frame0
    BY <1>3 DEF StopBegins, Kill, sendC, clientVars, serverVars, Alive, Basics, StdioTypeOK
  <2> QED
    BY <2>1, ClientFrame
<1>4. CASE StopEnds
  BY <1>4, ClientStops
<1>5. ASSUME NEW k \in 1..Len(up.bytes), onReadyReadStdout(k) PROVE ClientIInv'
  BY <1>5, ClientReadsOn
<1>6. CASE DeliverC
  BY <1>6, ClientIsGiven
<1>7. CASE onProcessFinished
  BY <1>7, ClientIsTold
<1>8. ASSUME NEW k \in 1..Len(down.bytes), Read(k) PROVE ClientIInv'
  <2>1. Frame0
    BY <1>8 DEF Read, clientVars, Alive
  <2> QED
    BY <2>1, ClientFrame
<1>9. CASE ReadEnd \/ NextRead \/ PostMessage \/ PostClosed \/ Dispatch
  <2>1. Frame0
    BY <1>9 DEF ReadEnd, NextRead, PostMessage, PostClosed, Dispatch, clientVars, Alive,
                Basics, StdioTypeOK
  <2> QED
    BY <2>1, ClientFrame
<1>10. CASE sendS
  BY <1>10, ChildSends
<1>11. CASE stopS \/ Quit \/ Dies
  <2>1. Frame0
    BY <1>11 DEF stopS, Quit, Dies, clientVars, Alive, Basics, StdioTypeOK
  <2> QED
    BY <2>1, ClientFrame
<1> QED
  BY <1>1, <1>2, <1>3, <1>4, <1>5, <1>6, <1>7, <1>8, <1>9, <1>10, <1>11
     DEF Next, ClientReads, ServerReads

(* The server *)

\* A server that was never started was given nothing.
LEMMA ServerInit == Init => ServerIInv
<1> SUFFICES ASSUME Init PROVE ServerIInv
  OBVIOUS
<1> USE DEF Init
<1>1. Numbers(0, 0) = << >> /\ 1..Len(<< >>) = {} /\ IsSeq(<< >>)
  BY DEF Numbers, IsSeq
<1>2. Queued = 0
  BY DEF Queued, Closing
<1>3. MaxSends \in Nat
  BY StdioAssumption
<1>4. ServerHas(0, 0)
  BY <1>1, <1>2, <1>3 DEF ServerHas, QueueOK, Alive
<1> QED
  BY <1>4 DEF ServerIInv

\* What the client does but for its sends, the sends of the child and its end leave the
\* thread and the loop as they were.
LEMMA ServerFrame ==
    ASSUME ServerIInv, Alive' => /\ Alive /\ down'.bytes = down.bytes
                                 /\ down.closed => down'.closed,
           UNCHANGED << child.open, child.told, reader, queue, sent.client, got.server >>
    PROVE  ServerIInv'
<1>1. PICK n \in Nat, g \in Nat : ServerHas(n, g)
  BY DEF ServerIInv
<1>2. Queued' = Queued
  BY DEF Queued, Closing
<1>3. QueueOK(g)'
  BY <1>1 DEF QueueOK, ServerHas
<1>4. ASSUME Alive', child'.open PROVE ReaderOK(n, g + Queued)'
  <2>1. ReaderOK(n, g + Queued)
    BY <1>1, <1>4 DEF ServerHas
  <2>2. PICK p \in Nat :
          /\ reader.posting = Numbers(g + Queued, p)
          /\ HasRead(reader.codec, down.bytes, g + Queued + p, n)
          /\ reader.state # "posting" => p = 0
          /\ reader.state \in {"ending", "done"} => down.closed /\ g + Queued + p = n
    BY <2>1 DEF ReaderOK
  <2>3. HasRead(reader.codec, down.bytes, g + Queued + p, n)'
    BY <1>2, <1>4, <2>2 DEF HasRead, Rest
  <2> QED
    BY <1>2, <1>4, <2>1, <2>2, <2>3 DEF ReaderOK, Numbers
<1>5. ServerHas(n, g)'
  BY <1>1, <1>2, <1>3, <1>4 DEF ServerHas
<1> QED
  BY <1>5 DEF ServerIInv

\* The queue holds messages, and at most its last event is the end of the input.
LEMMA QueuedIs ==
    ASSUME NEW g, QueueOK(g)
    PROVE  /\ Len(queue) \in Nat /\ Queued \in Nat
           /\ reader.state # "done" => Queued = Len(queue)
           /\ \A i \in 1..Len(queue) : ~ queue[i].closed => i <= Queued
           /\ queue = << >> => Queued = 0
<1>1. IsSeq(queue)
  BY DEF QueueOK
<1>2. Len(queue) \in Nat /\ (queue # << >> => Len(queue) # 0)
  BY <1>1, LenProperties, EmptySeq DEF IsSeq
<1>3. Queued \in Nat
  BY <1>2 DEF Queued, Closing
<1>4. Closing => Len(queue) \in 1..Len(queue)
  BY <1>2 DEF Closing
<1>5. Closing => reader.state = "done"
  BY <1>4 DEF Closing, QueueOK
<1>6. ASSUME NEW i \in 1..Len(queue), ~ queue[i].closed PROVE i <= Queued
  <2>1. CASE i = Len(queue)
    BY <1>2, <1>6, <2>1 DEF Queued, Closing
  <2>2. CASE i # Len(queue)
    BY <1>2, <2>2 DEF Queued
  <2> QED
    BY <2>1, <2>2
<1>7. queue = << >> => Queued = 0
  BY DEF Queued, Closing
<1> QED
  BY <1>2, <1>3, <1>5, <1>6, <1>7 DEF Queued

\* A start begins with an empty queue and a thread that has read nothing.
LEMMA ServerStarts == ASSUME Basics, NEW runs \in BOOLEAN, start(runs) PROVE ServerIInv'
<1>1. /\ queue' = << >> /\ sent'.client = << >> /\ got'.server = << >>
      /\ child'.told = FALSE /\ child'.open = runs /\ (Alive' => runs)
      /\ runs => /\ reader' = [state |-> "reading", codec |-> << >>, posting |-> << >>, stop |-> FALSE]
                 /\ down'.bytes = << >>
  BY DEF start, Alive, NoReader, Pipe
<1>2. Numbers(0, 0) = << >> /\ 1..Len(<< >>) = {} /\ IsSeq(<< >>) /\ MaxSends \in Nat
  BY StdioAssumption DEF Numbers, IsSeq
<1>3. Queued' = 0 /\ QueueOK(0)'
  BY <1>1, <1>2 DEF Queued, Closing, QueueOK, IsSeq
<1>4. ASSUME runs PROVE ReaderOK(0, 0 + Queued)'
  <2>1. 0 + 0 = 0
    OBVIOUS
  <2>2. reader'.posting = Numbers(0, 0) /\ reader'.state = "reading" /\ ~ child'.told
    BY <1>1, <1>2, <1>4
  <2>3. HasRead(reader.codec, down.bytes, 0 + Queued + 0, 0)'
    BY <1>1, <1>3, <1>4, <2>1, NothingRead DEF HasRead, Rest
  <2> QED
    BY <1>3, <2>1, <2>2, <2>3 DEF ReaderOK, Numbers
<1>5. ServerHas(0, 0)'
  BY <1>1, <1>2, <1>3, <1>4 DEF ServerHas, Numbers
<1> QED
  BY <1>5 DEF ServerIInv

\* The client sends: the pipe is open, so the end of the input has not been read.
LEMMA ClientSends == ASSUME Basics, ServerIInv, sendC PROVE ServerIInv'
<1>1. PICK n \in Nat, g \in Nat : ServerHas(n, g)
  BY DEF ServerIInv
<1>2. /\ UNCHANGED << client, child, reader, queue, got >> /\ ~ client.stopping /\ Alive
      /\ Len(sent.client) < MaxSends
  BY DEF sendC, clientVars, serverVars, Alive
<1>3. sent.client = Numbers(0, n) /\ Len(sent.client) = n
  BY <1>1, NumbersAre DEF ServerHas
<1>4. sent'.client = Append(sent.client, Len(sent.client) + 1)
      /\ down'.bytes = down.bytes \o encode(n + 1) /\ down'.closed = down.closed
  BY <1>3 DEF sendC, Basics, StdioTypeOK
<1>5. sent'.client = Numbers(0, n + 1)
  <2>1. 0 + n + 1 = n + 1 /\ 0 \in Nat
    OBVIOUS
  <2> QED
    BY <1>3, <1>4, <2>1, NumbersAre
<1>6. MaxSends \in Nat /\ n + 1 <= MaxSends /\ n + 1 \in Nat
  BY <1>2, <1>3, StdioAssumption
<1>7. ~ down.closed
  BY <1>2 DEF Basics
<1>8. Queued' = Queued /\ (QueueOK(g) => QueueOK(g)')
  BY <1>2 DEF Queued, Closing, QueueOK
<1>9. Queued \in Nat
  BY <1>1, QueuedIs DEF ServerHas
<1>10. ASSUME child.open
       PROVE  ReaderOK(n + 1, g + Queued)' /\ ~ child.told
  <2>1. ReaderOK(n, g + Queued)
    BY <1>1, <1>2, <1>10 DEF ServerHas
  <2>2. PICK p \in Nat :
          /\ reader.posting = Numbers(g + Queued, p)
          /\ HasRead(reader.codec, down.bytes, g + Queued + p, n)
          /\ reader.state # "posting" => p = 0
          /\ reader.state \in {"ending", "done"} => down.closed /\ g + Queued + p = n
    BY <2>1 DEF ReaderOK
  <2>3. reader.state \notin {"ending", "done"} /\ ~ child.told
    BY <1>7, <2>1, <2>2 DEF ReaderOK
  <2>4. HasRead(reader.codec, down'.bytes, g + Queued + p, n + 1)
    <3>1. g + Queued + p \in Nat
      BY <1>9
    <3> QED
      BY <1>4, <2>2, <3>1, WrittenOn
  <2>5. HasRead(reader.codec, down.bytes, g + Queued + p, n + 1)'
    BY <1>2, <1>8, <2>4 DEF HasRead, Rest
  <2> QED
    BY <1>2, <1>8, <2>2, <2>3, <2>5 DEF ReaderOK, Numbers
<1>11. g + Queued <= n + 1 /\ QueueOK(g)' /\ got'.server = Numbers(0, g)
  <2>1. g + Queued <= n
    BY <1>1 DEF ServerHas
  <2>2. g + Queued <= n + 1
    BY <1>9, <2>1
  <2> QED
    BY <1>1, <1>2, <1>8, <2>2 DEF ServerHas
<1>12. ServerHas(n + 1, g)'
  BY <1>2, <1>5, <1>6, <1>8, <1>10, <1>11 DEF ServerHas
<1> QED
  BY <1>6, <1>12 DEF ServerIInv

\* The transport that stopped reading has no use for what its thread does.
LEMMA ThreadOfStopped ==
    ASSUME Basics, ServerIInv, Alive', ~ child.open, reader'.state # "done" => reader.state # "done",
           UNCHANGED << child, queue, sent, got >>
    PROVE  ServerIInv'
<1>1. PICK n \in Nat, g \in Nat : ServerHas(n, g)
  BY DEF ServerIInv
<1>2. Queued' = Queued /\ QueueOK(g)'
  BY <1>1 DEF Queued, Closing, QueueOK, ServerHas
<1>3. ServerHas(n, g)'
  BY <1>1, <1>2 DEF ServerHas
<1> QED
  BY <1>3 DEF ServerIInv

\* The thread of a transport that is open: it has read what it posted and what it is to post.
LEMMA ThreadStep ==
    ASSUME Basics, ServerIInv, Alive, Alive', child.open, reader.state # "done",
           UNCHANGED << child, sent, got >>,
           \A n \in Nat, g \in Nat, p \in Nat :
              /\ ServerHas(n, g) /\ Queued = Len(queue) /\ Queued \in Nat /\ ~ child.told
              /\ reader.posting = Numbers(g + Queued, p)
              /\ HasRead(reader.codec, down.bytes, g + Queued + p, n)
              /\ reader.state # "posting" => p = 0
              /\ reader.state = "ending" => down.closed /\ g + Queued + p = n
              => /\ QueueOK(g)' /\ g + Queued' <= n
                 /\ ReaderOK(n, g + Queued)'
    PROVE  ServerIInv'
<1>1. PICK n \in Nat, g \in Nat : ServerHas(n, g)
  BY DEF ServerIInv
<1>2. ReaderOK(n, g + Queued)
  BY <1>1 DEF ServerHas
<1>3. PICK p \in Nat :
        /\ reader.posting = Numbers(g + Queued, p)
        /\ HasRead(reader.codec, down.bytes, g + Queued + p, n)
        /\ reader.state # "posting" => p = 0
        /\ reader.state \in {"ending", "done"} => down.closed /\ g + Queued + p = n
  BY <1>2 DEF ReaderOK
<1>4. ~ child.told
  BY <1>2 DEF ReaderOK
<1>5. Queued = Len(queue) /\ Queued \in Nat
  BY <1>1, QueuedIs DEF ServerHas
<1>6. QueueOK(g)' /\ g + Queued' <= n /\ ReaderOK(n, g + Queued)'
  BY <1>1, <1>3, <1>4, <1>5
<1>7. ServerHas(n, g)'
  BY <1>1, <1>4, <1>6 DEF ServerHas
<1> QED
  BY <1>7 DEF ServerIInv

\* The thread reads a chunk: the messages it completes are the next to be posted.
LEMMA ThreadReads ==
    ASSUME Basics, ServerIInv, NEW k \in 1..Len(down.bytes), Read(k)
    PROVE  ServerIInv'
<1> DEFINE framed == append(reader.codec, SubSeq(down.bytes, 1, k))
           left == SubSeq(down.bytes, k + 1, Len(down.bytes))
<1>1. /\ UNCHANGED << child, queue, sent, got >> /\ Alive /\ Alive' /\ reader.state = "reading"
      /\ reader'.state = "posting" /\ down'.bytes = left
      /\ reader'.codec = framed.buffer /\ reader'.posting = Messages(framed.lines)
  BY DEF Read, clientVars, Alive, Taken, Basics, StdioTypeOK
<1> HIDE DEF framed, left
<1>2. CASE ~ child.open
  BY <1>1, <1>2, ThreadOfStopped
<1>3. CASE child.open
  <2>1. ASSUME NEW n \in Nat, NEW g \in Nat, NEW p \in Nat,
               ServerHas(n, g), Queued = Len(queue), Queued \in Nat, ~ child.told,
               reader.posting = Numbers(g + Queued, p),
               HasRead(reader.codec, down.bytes, g + Queued + p, n),
               reader.state # "posting" => p = 0,
               reader.state = "ending" => down.closed /\ g + Queued + p = n
        PROVE  QueueOK(g)' /\ g + Queued' <= n /\ ReaderOK(n, g + Queued)'
    <3>1. p = 0 /\ g + Queued \in Nat /\ g + Queued + p = g + Queued /\ n <= MaxSends
      BY <1>1, <2>1 DEF ServerHas
    <3>2. PICK m \in Nat :
             /\ Messages(framed.lines) = Numbers(g + Queued, m)
             /\ HasRead(framed.buffer, left, g + Queued + m, n)
      BY <2>1, <3>1, ReadOn DEF framed, left
    <3>3. Queued' = Queued
      BY <1>1 DEF Queued, Closing
    <3>4. HasRead(reader.codec, down.bytes, g + Queued + m, n)'
      BY <1>1, <3>2, <3>3 DEF HasRead, Rest
    <3>5. reader'.posting = Numbers(g + Queued', m)
      BY <1>1, <3>2, <3>3
    <3>6. ReaderOK(n, g + Queued)'
      BY <1>1, <2>1, <3>3, <3>4, <3>5 DEF ReaderOK, Numbers
    <3>7. QueueOK(g)'
      BY <1>1, <2>1 DEF ServerHas, QueueOK
    <3> QED
      BY <2>1, <3>3, <3>6, <3>7 DEF ServerHas
  <2> QED
    BY <1>1, <1>3, <2>1, ThreadStep
<1> QED
  BY <1>2, <1>3

\* The thread sees the end of the input, goes on reading, or tells the transport of the end.
LEMMA ThreadTurns == ASSUME Basics, ServerIInv, ReadEnd \/ NextRead PROVE ServerIInv'
<1>1. /\ UNCHANGED << child, queue, down, sent, got >> /\ Alive /\ Alive'
      /\ reader.state \in {"reading", "posting"} /\ reader'.state \in {"reading", "ending"}
      /\ reader'.codec = reader.codec /\ reader'.posting = reader.posting
  BY DEF ReadEnd, NextRead, clientVars, Alive, Basics, StdioTypeOK
<1>2. CASE ~ child.open
  BY <1>1, <1>2, ThreadOfStopped
<1>3. CASE child.open
  <2>1. ~ reader.stop
    BY <1>1, <1>3 DEF Basics
  <2>2. /\ reader'.state = "ending" => reader.state = "reading" /\ down.bytes = << >> /\ down.closed
        /\ reader.state = "posting" => reader.posting = << >>
    BY <2>1 DEF ReadEnd, NextRead, Basics, StdioTypeOK
  <2>3. ASSUME NEW n \in Nat, NEW g \in Nat, NEW p \in Nat,
               ServerHas(n, g), Queued = Len(queue), Queued \in Nat, ~ child.told,
               reader.posting = Numbers(g + Queued, p),
               HasRead(reader.codec, down.bytes, g + Queued + p, n),
               reader.state # "posting" => p = 0,
               reader.state = "ending" => down.closed /\ g + Queued + p = n
        PROVE  QueueOK(g)' /\ g + Queued' <= n /\ ReaderOK(n, g + Queued)'
    <3>1. g + Queued \in Nat /\ g + Queued + p \in Nat
      BY <2>3
    <3>2. p = 0
      <4>1. Len(reader.posting) = p
        BY <2>3, <3>1, NumbersAre
      <4> QED
        BY <1>1, <2>2, <2>3, <4>1
    <3>3. down.bytes = << >> => g + Queued + p = n
      BY <2>3, <3>1, ReadIsWritten
    <3>4. Queued' = Queued
      BY <1>1 DEF Queued, Closing
    <3>5. HasRead(reader.codec, down.bytes, g + Queued + p, n)'
      BY <1>1, <2>3, <3>4 DEF HasRead, Rest
    <3>6. ReaderOK(n, g + Queued)'
      BY <1>1, <2>2, <2>3, <3>2, <3>3, <3>4, <3>5 DEF ReaderOK, Numbers
    <3>7. QueueOK(g)'
      BY <1>1, <2>3 DEF ServerHas, QueueOK
    <3> QED
      BY <2>3, <3>4, <3>6, <3>7 DEF ServerHas
  <2> QED
    BY <1>1, <1>3, <2>3, ThreadStep
<1> QED
  BY <1>2, <1>3

\* An event behind a queue.
LEMMA QueueGrows ==
    ASSUME NEW g \in Nat, QueueOK(g), NEW event, queue' = Append(queue, event),
           reader.state # "done",
           event.closed => reader'.state = "done",
           ~ event.closed => event.message = g + Queued + 1
    PROVE  /\ QueueOK(g)'
           /\ Queued' = IF event.closed THEN Queued ELSE Queued + 1
<1>1. PICK S : queue \in Seq(S)
  BY DEF QueueOK, IsSeq
<1> DEFINE T == S \cup {event}
<1>2. queue \in Seq(T) /\ event \in T
  BY <1>1, SeqMonotonic
<1> HIDE DEF T
<1>3. /\ queue' \in Seq(T) /\ queue' # << >> /\ Len(queue') = Len(queue) + 1
      /\ \A i \in 1..Len(queue) : queue'[i] = queue[i]
      /\ queue'[Len(queue) + 1] = event
  BY <1>2, AppendProperties
<1>4. Queued = Len(queue) /\ Len(queue) \in Nat
  BY QueuedIs
<1>5. Queued' = IF event.closed THEN Queued ELSE Queued + 1
  BY <1>3, <1>4 DEF Queued, Closing
<1>6. ASSUME NEW i \in 1..Len(queue')
      PROVE  IF queue'[i].closed THEN i = Len(queue') /\ reader'.state = "done"
             ELSE queue'[i].message = g + i
  <2>1. CASE i \in 1..Len(queue)
    <3>1. ~ queue[i].closed /\ queue[i].message = g + i
      BY <2>1 DEF QueueOK
    <3> QED
      BY <1>3, <2>1, <3>1
  <2>2. CASE i = Len(queue) + 1
    <3>1. g + Queued + 1 = g + i
      BY <1>4, <2>2
    <3> QED
      BY <1>3, <2>2, <3>1
  <2> QED
    BY <1>3, <1>4, <2>1, <2>2
<1>7. IsSeq(queue')
  BY <1>3 DEF IsSeq
<1>8. QueueOK(g)'
  BY <1>6, <1>7 DEF QueueOK, IsSeq
<1> QED
  BY <1>5, <1>8

\* The thread posts a message behind those it posted before.
LEMMA ThreadPosts == ASSUME Basics, ServerIInv, PostMessage PROVE ServerIInv'
<1>1. UNCHANGED << child, down, sent, got >> /\ Alive /\ Alive' /\ reader.state = "posting"
      /\ reader.posting # << >>
  BY DEF PostMessage, clientVars, Alive
<1>2. CASE ~ child.open
  <2>1. reader.stop /\ queue' = queue
    BY <1>1, <1>2 DEF PostMessage, Posted, Basics
  <2> QED
    BY <1>1, <1>2, <2>1, ThreadOfStopped
<1>3. CASE child.open
  <2> DEFINE event == [closed |-> FALSE, message |-> Head(reader.posting)]
  <2>1. /\ queue' = Append(queue, event) /\ reader'.state = "posting"
        /\ reader'.posting = Tail(reader.posting) /\ reader'.codec = reader.codec
    BY <1>1, <1>3 DEF PostMessage, Posted, Basics, StdioTypeOK
  <2>2. ASSUME NEW n \in Nat, NEW g \in Nat, NEW p \in Nat,
               ServerHas(n, g), Queued = Len(queue), Queued \in Nat, ~ child.told,
               reader.posting = Numbers(g + Queued, p),
               HasRead(reader.codec, down.bytes, g + Queued + p, n),
               reader.state # "posting" => p = 0,
               reader.state = "ending" => down.closed /\ g + Queued + p = n
        PROVE  QueueOK(g)' /\ g + Queued' <= n /\ ReaderOK(n, g + Queued)'
    <3>1. g + Queued \in Nat /\ g + Queued + p \in Nat /\ QueueOK(g)
      BY <2>2 DEF ServerHas
    <3>2. p # 0
      BY <1>1, <2>2, <3>1, NumbersAre
    <3>3. /\ Head(reader.posting) = g + Queued + 1
          /\ reader'.posting = Numbers(g + Queued + 1, p - 1)
      <4> DEFINE q == g + Queued
      <4>1. q \in Nat /\ reader.posting = Numbers(q, p)
        BY <2>2, <3>1
      <4> HIDE DEF q
      <4>2. Head(Numbers(q, p)) = q + 1 /\ Tail(Numbers(q, p)) = Numbers(q + 1, p - 1)
        BY <3>2, <4>1, NumbersAre
      <4>3. Head(reader.posting) = q + 1 /\ reader'.posting = Numbers(q + 1, p - 1)
        BY <2>1, <4>1, <4>2
      <4> QED
        BY <4>3 DEF q
    <3>4. event.closed = FALSE /\ event.message = g + Queued + 1
      BY <3>3
    <3> HIDE DEF event
    <3>5. QueueOK(g)' /\ Queued' = Queued + 1
      BY <1>1, <2>1, <3>1, <3>4, QueueGrows
    <3>6. /\ g + Queued' = g + Queued + 1 /\ g + Queued' + (p - 1) = g + Queued + p
          /\ p - 1 \in Nat
      BY <2>2, <3>2, <3>5
    <3>7. g + Queued + p <= n
      BY <2>2, <3>1, ReadIsWritten
    <3>8. HasRead(reader.codec, down.bytes, g + Queued + (p - 1), n)'
      BY <1>1, <2>1, <2>2, <3>6 DEF HasRead, Rest
    <3>9. ReaderOK(n, g + Queued)'
      <4>1. reader'.posting = Numbers(g + Queued', p - 1)
        BY <3>3, <3>6
      <4>2. (reader.posting = Numbers(g + Queued, p - 1))'
        BY <4>1 DEF Numbers
      <4>3. reader'.state = "posting" /\ ~ child'.told
        BY <1>1, <2>1, <2>2
      <4> QED
        BY <3>6, <3>8, <4>2, <4>3 DEF ReaderOK
    <3>10. g + Queued' <= n
      BY <2>2, <3>2, <3>5, <3>7
    <3> QED
      BY <3>5, <3>9, <3>10
  <2> HIDE DEF event
  <2> QED
    BY <1>1, <1>3, <2>2, ThreadStep
<1> QED
  BY <1>2, <1>3

\* The thread posts the end of the input behind every message.
LEMMA ThreadTells == ASSUME Basics, ServerIInv, PostClosed PROVE ServerIInv'
<1>1. UNCHANGED << child, down, sent, got >> /\ Alive /\ Alive' /\ reader.state = "ending"
      /\ reader'.state = "done" /\ reader'.codec = reader.codec /\ reader'.posting = reader.posting
  BY DEF PostClosed, clientVars, Alive, Basics, StdioTypeOK
<1>2. CASE ~ child.open
  <2>1. queue' = queue
    BY <1>1, <1>2 DEF PostClosed, Posted, Basics
  <2> QED
    BY <1>1, <1>2, <2>1, ThreadOfStopped
<1>3. CASE child.open
  <2> DEFINE event == [closed |-> TRUE, message |-> 0]
  <2>1. queue' = Append(queue, event) /\ event.closed
    BY <1>1, <1>3 DEF PostClosed, Posted, Basics
  <2> HIDE DEF event
  <2>2. ASSUME NEW n \in Nat, NEW g \in Nat, NEW p \in Nat,
               ServerHas(n, g), Queued = Len(queue), Queued \in Nat, ~ child.told,
               reader.posting = Numbers(g + Queued, p),
               HasRead(reader.codec, down.bytes, g + Queued + p, n),
               reader.state # "posting" => p = 0,
               reader.state = "ending" => down.closed /\ g + Queued + p = n
        PROVE  QueueOK(g)' /\ g + Queued' <= n /\ ReaderOK(n, g + Queued)'
    <3>1. QueueOK(g) /\ g + Queued <= n
      BY <2>2 DEF ServerHas
    <3>2. QueueOK(g)' /\ Queued' = Queued
      BY <1>1, <2>1, <3>1, QueueGrows
    <3>3. HasRead(reader.codec, down.bytes, g + Queued + p, n)'
      BY <1>1, <2>2, <3>2 DEF HasRead, Rest
    <3>4. ReaderOK(n, g + Queued)'
      BY <1>1, <2>2, <3>2, <3>3 DEF ReaderOK, Numbers
    <3> QED
      BY <3>1, <3>2, <3>4
  <2> QED
    BY <1>1, <1>3, <2>2, ThreadStep
<1> QED
  BY <1>2, <1>3

\* What was posted is emitted: a message to the server, or the end of the input.
LEMMA ServerIsGiven == ASSUME Basics, ServerIInv, Dispatch PROVE ServerIInv'
<1>1. PICK n \in Nat, g \in Nat : ServerHas(n, g)
  BY DEF ServerIInv
<1>2. /\ UNCHANGED << reader, down, sent >> /\ Alive /\ (Alive' => Alive)
      /\ queue # << >> /\ queue' = Tail(queue) /\ child'.open = child.open
  BY DEF Dispatch, clientVars, Alive, Basics, StdioTypeOK
<1>3. QueueOK(g)
  BY <1>1 DEF ServerHas
<1>4. PICK T : queue \in Seq(T)
  BY <1>3 DEF QueueOK, IsSeq
<1>5. /\ Len(queue) \in Nat /\ Len(queue) # 0 /\ Head(queue) = queue[1]
      /\ queue' \in Seq(T) /\ Len(queue') = Len(queue) - 1
      /\ \A i \in 1..Len(queue') : queue'[i] = queue[i + 1]
  BY <1>2, <1>4, EmptySeq, HeadTailProperties
<1>6. queue' # << >> <=> Len(queue') # 0
  BY <1>5, EmptySeq
<1>7. IsSeq(queue')
  BY <1>5 DEF IsSeq
<1>8. \A i \in 1..Len(queue) :
         IF queue[i].closed THEN i = Len(queue) /\ reader.state = "done"
         ELSE queue[i].message = g + i
  BY <1>3 DEF QueueOK
<1>9. /\ Queued \in Nat /\ 1 \in 1..Len(queue)
      /\ ~ queue[1].closed => 1 <= Queued
  BY <1>3, <1>5, QueuedIs
<1>10. ASSUME child.open PROVE ReaderOK(n, g + Queued) /\ ~ child.told
  <2>1. ReaderOK(n, g + Queued)
    BY <1>1, <1>2, <1>10 DEF ServerHas
  <2> QED
    BY <1>2, <2>1 DEF ReaderOK
<1>11. CASE queue[1].closed
  <2>1. child'.told = TRUE /\ got' = got
    BY <1>5, <1>11 DEF Dispatch, Basics, StdioTypeOK
  <2>2. Len(queue) = 1 /\ reader.state = "done" /\ queue' = << >>
    <3>1. 1 = Len(queue) /\ reader.state = "done"
      BY <1>8, <1>9, <1>11
    <3>2. Len(queue') = 0
      <4>1. Len(queue') = Len(queue) - 1
        BY <1>5
      <4>2. Len(queue) = 1
        BY <3>1
      <4>3. Len(queue') = 1 - 1
        BY <4>1, <4>2
      <4> QED
        BY <4>3
    <3> QED
      BY <1>6, <3>1, <3>2
  <2>3. Queued = 0 /\ Queued' = 0
    BY <1>11, <2>2, <1>2 DEF Queued, Closing
  <2>4. QueueOK(g)'
    BY <1>5, <1>7, <2>2 DEF QueueOK, IsSeq
  <2>5. ASSUME child.open PROVE g = n /\ ReaderOK(n, g + Queued)'
    <3>1. ReaderOK(n, g + Queued)
      BY <1>10, <2>5
    <3>2. PICK p \in Nat :
            /\ reader.posting = Numbers(g + Queued, p)
            /\ HasRead(reader.codec, down.bytes, g + Queued + p, n)
            /\ reader.state # "posting" => p = 0
            /\ reader.state \in {"ending", "done"} => down.closed /\ g + Queued + p = n
      BY <3>1 DEF ReaderOK
    <3>3. p = 0 /\ g + Queued + p = n
      BY <2>2, <3>2
    <3>4. g = n
      BY <2>3, <3>3
    <3>5. HasRead(reader.codec, down.bytes, g + Queued + p, n)'
      BY <1>2, <2>3, <3>2 DEF HasRead, Rest
    <3>6. ReaderOK(n, g + Queued)'
      BY <1>2, <2>2, <2>3, <3>2, <3>5 DEF ReaderOK, Numbers
    <3> QED
      BY <3>4, <3>6
  <2>6. ServerHas(n, g)'
    BY <1>1, <1>2, <2>1, <2>3, <2>4, <2>5 DEF ServerHas
  <2> QED
    BY <2>6 DEF ServerIInv
<1>12. CASE ~ queue[1].closed
  <2>1. child' = child /\ got'.server = Append(got.server, queue[1].message)
    BY <1>5, <1>12 DEF Dispatch, Basics, StdioTypeOK
  <2>2. queue[1].message = g + 1
    BY <1>8, <1>9, <1>12
  <2>3. got'.server = Numbers(0, g + 1)
    <3>1. got.server = Numbers(0, g) /\ 0 + g + 1 = g + 1 /\ 0 \in Nat
      BY <1>1 DEF ServerHas
    <3>2. got'.server = Append(Numbers(0, g), 0 + g + 1)
      BY <2>1, <2>2, <3>1
    <3> QED
      BY <3>1, <3>2, NumbersAre
  <2>4. Queued' = Queued - 1
    <3>1. CASE queue' = << >>
      <4>1. Len(queue') = 0
        BY <1>6, <3>1
      <4>2. Len(queue) = 1
        BY <1>5, <4>1
      <4>3. ~ Closing
        BY <1>12, <4>2 DEF Closing
      <4> QED
        BY <3>1, <4>1, <4>2, <4>3 DEF Queued, Closing
    <3>2. CASE queue' # << >>
      <4>1. Len(queue') \in 1..Len(queue') /\ Len(queue') + 1 = Len(queue)
        BY <1>5, <1>6, <3>2
      <4>2. queue'[Len(queue')] = queue[Len(queue)]
        BY <1>5, <4>1
      <4>3. Closing' <=> Closing
        BY <1>2, <3>2, <4>2 DEF Closing
      <4> QED
        BY <1>5, <4>3 DEF Queued
    <3> QED
      BY <3>1, <3>2
  <2>5. g + 1 \in Nat /\ (g + 1) + Queued' = g + Queued
    BY <1>9, <2>4
  <2>6. QueueOK(g + 1)'
    <3>1. ASSUME NEW i \in 1..Len(queue')
          PROVE  IF queue'[i].closed THEN i = Len(queue') /\ reader'.state = "done"
                 ELSE queue'[i].message = (g + 1) + i
      <4>1. i + 1 \in 1..Len(queue) /\ g + (i + 1) = (g + 1) + i
            /\ (i + 1 = Len(queue) => i = Len(queue'))
        BY <1>5
      <4>2. queue'[i] = queue[i + 1]
        BY <1>5
      <4> QED
        BY <1>2, <1>8, <4>1, <4>2
    <3> QED
      BY <1>7, <3>1 DEF QueueOK, IsSeq
  <2>7. ASSUME child.open PROVE ReaderOK(n, (g + 1) + Queued)'
    <3>1. ReaderOK(n, g + Queued) /\ ~ child.told
      BY <1>10, <2>7
    <3>2. PICK p \in Nat :
            /\ reader.posting = Numbers(g + Queued, p)
            /\ HasRead(reader.codec, down.bytes, g + Queued + p, n)
            /\ reader.state # "posting" => p = 0
            /\ reader.state \in {"ending", "done"} => down.closed /\ g + Queued + p = n
      BY <3>1 DEF ReaderOK
    <3>3. HasRead(reader.codec, down.bytes, (g + 1) + Queued + p, n)'
      BY <1>2, <2>5, <3>2 DEF HasRead, Rest
    <3>4. (reader.posting = Numbers((g + 1) + Queued, p))'
      BY <1>2, <2>5, <3>2 DEF Numbers
    <3> QED
      BY <1>2, <2>1, <2>5, <3>1, <3>2, <3>3, <3>4 DEF ReaderOK
  <2>8. child.told /\ child.open => g + 1 = n
    BY <1>10
  <2>9. (g + 1) + Queued' <= n
    BY <1>1, <2>5 DEF ServerHas
  <2>10. ServerHas(n, g + 1)'
    BY <1>1, <1>2, <2>1, <2>3, <2>6, <2>7, <2>8, <2>9 DEF ServerHas
  <2> QED
    BY <2>5, <2>10 DEF ServerIInv
<1> QED
  BY <1>11, <1>12

\* A transport that stops is given no more by its thread.
LEMMA ServerStops == ASSUME Basics, ServerIInv, stopS PROVE ServerIInv'
<1>1. PICK n \in Nat, g \in Nat : ServerHas(n, g)
  BY DEF ServerIInv
<1>2. /\ UNCHANGED << queue, sent, got >> /\ ~ child'.open /\ reader'.state = reader.state
  BY DEF stopS, clientVars, Basics, StdioTypeOK
<1>3. Queued' = Queued /\ QueueOK(g)'
  BY <1>1, <1>2 DEF Queued, Closing, QueueOK, ServerHas
<1>4. ServerHas(n, g)'
  BY <1>1, <1>2, <1>3 DEF ServerHas
<1> QED
  BY <1>4 DEF ServerIInv

\* Every step keeps what the server was given, is queued, is to be posted and was not read.
LEMMA ServerStep == ASSUME Basics, ServerIInv, [Next]_vars PROVE ServerIInv'
<1> DEFINE Frame0 ==
             /\ Alive' => Alive /\ down'.bytes = down.bytes /\ (down.closed => down'.closed)
             /\ UNCHANGED << child.open, child.told, reader, queue, sent.client, got.server >>
<1>1. CASE UNCHANGED vars
  <2>1. Frame0
    BY <1>1 DEF vars, Alive
  <2> QED
    BY <2>1, ServerFrame
<1>2. ASSUME NEW runs \in BOOLEAN, start(runs) PROVE ServerIInv'
  BY <1>2, ServerStarts
<1>3. CASE StopBegins \/ StopEnds \/ Kill \/ Quit \/ Dies
  <2>1. Frame0
    BY <1>3 DEF StopBegins, StopEnds, Kill, Quit, Dies, clientVars, serverVars, Alive,
                Basics, StdioTypeOK
  <2> QED
    BY <2>1, ServerFrame
<1>4. CASE sendC
  BY <1>4, ClientSends
<1>5. ASSUME NEW k \in 1..Len(up.bytes), onReadyReadStdout(k) PROVE ServerIInv'
  <2>1. Frame0
    BY <1>5 DEF onReadyReadStdout, serverVars, Alive
  <2> QED
    BY <2>1, ServerFrame
<1>6. CASE DeliverC \/ onProcessFinished \/ sendS
  <2>1. Frame0
    BY <1>6 DEF DeliverC, onProcessFinished, sendS, clientVars, serverVars, Alive,
                Basics, StdioTypeOK
  <2> QED
    BY <2>1, ServerFrame
<1>7. ASSUME NEW k \in 1..Len(down.bytes), Read(k) PROVE ServerIInv'
  BY <1>7, ThreadReads
<1>8. CASE ReadEnd \/ NextRead
  BY <1>8, ThreadTurns
<1>9. CASE PostMessage
  BY <1>9, ThreadPosts
<1>10. CASE PostClosed
  BY <1>10, ThreadTells
<1>11. CASE Dispatch
  BY <1>11, ServerIsGiven
<1>12. CASE stopS
  BY <1>12, ServerStops
<1> QED
  BY <1>1, <1>2, <1>3, <1>4, <1>5, <1>6, <1>7, <1>8, <1>9, <1>10, <1>11, <1>12
     DEF Next, ClientReads, ServerReads

(* The theorems *)

\* The invariant of the two ends: what is on a pipe continues what its reader has made of
\* it, and what a reader has made of it is delivered, posted or about to be.
THEOREM StdioInvariant == Spec => [](Basics /\ ClientIInv /\ ServerIInv)
<1>1. Init => Basics /\ ClientIInv /\ ServerIInv
  BY BasicsInit, ClientInit, ServerInit
<1>2. Basics /\ ClientIInv /\ ServerIInv /\ [Next]_vars => (Basics /\ ClientIInv /\ ServerIInv)'
  BY BasicsStep, ClientStep, ServerStep
<1> QED
  BY <1>1, <1>2, PTL DEF Spec

\* The first messages are a prefix of all.
LEMMA FewerIsPrefix ==
    ASSUME NEW g \in Nat, NEW n \in Nat, g <= n
    PROVE  IsPrefix(Numbers(0, g), Numbers(0, n))
<1>1. Len(Numbers(0, g)) = g /\ Len(Numbers(0, n)) = n
  BY DEF Numbers
<1>2. SubSeq(Numbers(0, g), 1, g) = SubSeq(Numbers(0, n), 1, g)
  BY DEF Numbers
<1> QED
  BY <1>1, <1>2 DEF IsPrefix

\* onReadyReadStdout: the client is given what its child wrote, in order, whole and once,
\* however the pipe cuts it and whatever a slot does to the transport; and all of it
\* before it hears of the child's end.
THEOREM ClientHearsEverything == Spec => []ClientHearsAll
<1>1. ClientIInv => ClientHearsAll
  <2>1. SUFFICES ASSUME ClientIInv PROVE ClientHearsAll
    OBVIOUS
  <2>2. PICK n \in Nat, g \in Nat : ClientHas(n, g)
    BY <2>1 DEF ClientIInv
  <2>3. IsSeq(handling)
    BY <2>2 DEF ClientHas, HandlingOK
  <2>4. Pending \in Nat
    BY <2>3, LenProperties DEF Pending, IsSeq
  <2>5. g <= n
    BY <2>2, <2>4 DEF ClientHas
  <2> QED
    BY <2>2, <2>5, FewerIsPrefix DEF ClientHas, ClientHearsAll
<1> QED
  BY <1>1, StdioInvariant, PTL

\* run and postToOwner: the server is given what its client wrote, in order, whole and
\* once, and is told of the end of its input after all of it.
THEOREM ServerHearsEverything == Spec => []ServerHearsAll
<1>1. ServerIInv => ServerHearsAll
  <2>1. SUFFICES ASSUME ServerIInv PROVE ServerHearsAll
    OBVIOUS
  <2>2. PICK n \in Nat, g \in Nat : ServerHas(n, g)
    BY <2>1 DEF ServerIInv
  <2>3. Queued \in Nat
    BY <2>2, QueuedIs DEF ServerHas
  <2>4. g <= n
    BY <2>2, <2>3 DEF ServerHas
  <2> QED
    BY <2>2, <2>4, FewerIsPrefix DEF ServerHas, ServerHearsAll
<1> QED
  BY <1>1, StdioInvariant, PTL

=============================================================================
