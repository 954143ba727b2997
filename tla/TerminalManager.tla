---------------------------- MODULE TerminalManager ----------------------------
(***************************************************************************)
(* TerminalManager, the terminals an ACP agent asks its host for: one      *)
(* QProcess per terminal, the tail of what it writes, and the futures of   *)
(* the callers that wait for its end.  A terminal is its number in the     *)
(* order of creation.  The process runs beside the event loop; finished()  *)
(* is its only signal the manager hears of its end.                        *)
(***************************************************************************)
EXTENDS Naturals, Sequences, SequencesExt, TLC

CONSTANTS
  Asks,            \* the agent's requests, in the order it makes them
  Limits,          \* the values of outputByteLimit, 0 for none
  MaxTerminals,    \* bound: terminals
  MaxBytes         \* bound: what a process writes
ASSUME TerminalAssumption == Limits \subseteq Nat /\ Asks \subseteq Nat /\ {MaxTerminals, MaxBytes} \subseteq Nat

VARIABLES
  terminals,    \* the Terminal records; held: in m_terminals
  processes,    \* their processes
  waits,        \* the wait_for_exit futures: the terminal and the result
  manager       \* the TerminalManager exists
termVars == << terminals, processes, waits, manager >>

Ids == DOMAIN terminals
NoTerminal(limit) ==
  [held |-> TRUE, limit |-> limit, output |-> <<>>, truncated |-> FALSE,
   finished |-> FALSE, exit |-> "unknown", waiters |-> {}]
NoProcess == [state |-> "starting", killed |-> FALSE, written |-> 0, read |-> 0, exit |-> "unknown"]
NoWait == [on |-> 0, result |-> "none"]
Runs(i) == processes[i].state \in {"starting", "running"}

\* The tail of a sequence, and the bytes a process has written and nobody has read.
Right(s, n) == SubSeq(s, Len(s) - n + 1, Len(s))
Unread(i) == [k \in 1..(processes[i].written - processes[i].read) |-> processes[i].read + k]

appendOutput(t, data) ==
  LET output == t.output \o data
  IN  IF t.limit > 0 /\ Len(output) > t.limit
      THEN [t EXCEPT !.output = Right(output, t.limit), !.truncated = TRUE]
      ELSE [t EXCEPT !.output = output]

\* The waiters' futures finish with what the terminal knows of the exit.
Resolved(calls, exit) ==
  [a \in Asks |-> IF a \in calls THEN [waits[a] EXCEPT !.result = exit] ELSE waits[a]]

(****************************** The process ********************************)
ProcessStarts(i) ==
  /\ processes[i].state = "starting"
  /\ processes' = [processes EXCEPT ![i].state = "running"]
  /\ UNCHANGED << terminals, waits, manager >>

\* A command that cannot be run: errorOccurred, which nothing is connected to.
ProcessFailsToStart(i) ==
  /\ processes[i].state = "starting"
  /\ processes' = [processes EXCEPT ![i].state = "unstarted"]
  /\ UNCHANGED << terminals, waits, manager >>

ProcessWrites(i) ==
  /\ processes[i].state = "running" /\ ~ processes[i].killed /\ processes[i].written < MaxBytes
  /\ processes' = [processes EXCEPT ![i].written = @ + 1]
  /\ UNCHANGED << terminals, waits, manager >>

\* readyReadStandardOutput, of a terminal that is still held.
readyRead(i) ==
  /\ manager /\ terminals[i].held /\ processes[i].state = "running" /\ Unread(i) # <<>>
  /\ terminals' = [terminals EXCEPT ![i] = appendOutput(@, Unread(i))]
  /\ processes' = [processes EXCEPT ![i].read = processes[i].written]
  /\ UNCHANGED << waits, manager >>

\* The process ends with a code, or crashes, by itself or because it was killed, and
\* onFinished settles those who wait: every crash is told as "killed".
BugOnFinished(i, exit) ==
  /\ terminals' = [terminals EXCEPT ![i] = [@ EXCEPT !.finished = TRUE, !.exit = exit, !.waiters = {}]]
  /\ waits' = Resolved(terminals[i].waiters, exit)
onFinished(i, exit) ==
  /\ terminals' = [terminals EXCEPT ![i] =
                     [appendOutput(@, Unread(i)) EXCEPT !.finished = TRUE, !.exit = exit, !.waiters = {}]]
  /\ waits' = Resolved(terminals[i].waiters, exit)

ProcessEnds(i, exit) ==
  /\ processes[i].state = "running"
  /\ manager /\ terminals[i].held
  /\ processes' = [processes EXCEPT ![i].state = "ended", ![i].exit = exit,
                                    ![i].read = processes[i].written]
  /\ onFinished(i, exit)
  /\ UNCHANGED manager

(***************************** The operations ******************************)
createTerminal(limit) ==
  /\ terminals' = Append(terminals, NoTerminal(limit))
  /\ processes' = Append(processes, NoProcess)
  /\ UNCHANGED << waits, manager >>

Held(i) == i \in Ids /\ terminals[i].held

\* waitForExit: of an unknown terminal it fails, of a finished one it is ready.
BugWaitForExit(a, i) ==
  /\ UNCHANGED << processes, manager >>
  /\ waits' = [waits EXCEPT ![a] = [on |-> i, result |-> IF Held(i) THEN "waiting" ELSE "refused"]]
  /\ terminals' = IF Held(i) THEN [terminals EXCEPT ![i].waiters = @ \cup {a}] ELSE terminals
waitForExit(a, i) ==
  /\ UNCHANGED << processes, manager >>
  /\ IF ~ Held(i) THEN waits' = [waits EXCEPT ![a] = [on |-> i, result |-> "refused"]]
     ELSE waits' = [waits EXCEPT ![a] =
                      [on |-> i, result |-> IF terminals[i].finished THEN terminals[i].exit ELSE "waiting"]]
  /\ terminals' = IF Held(i) /\ ~ terminals[i].finished
                  THEN [terminals EXCEPT ![i].waiters = @ \cup {a}] ELSE terminals

killTerminal(i) ==
  /\ processes' = IF Held(i) /\ Runs(i) THEN [processes EXCEPT ![i].killed = TRUE] ELSE processes
  /\ UNCHANGED << terminals, waits, manager >>

\* releaseTerminal: nothing of the process is heard any more, it is killed and
\* deleted, and those who wait are told what is known: nothing, unless it finished.
BugReleaseTerminal(i) ==
  IF ~ Held(i) THEN UNCHANGED termVars
  ELSE /\ terminals' = [terminals EXCEPT ![i] = [@ EXCEPT !.held = FALSE, !.waiters = {}]]
       /\ processes' = IF Runs(i) THEN [processes EXCEPT ![i].state = "ended", ![i].exit = "killed"]
                       ELSE processes
       /\ UNCHANGED << waits, manager >>
releaseTerminal(i) ==
  IF ~ Held(i) THEN UNCHANGED termVars
  ELSE /\ terminals' = [terminals EXCEPT ![i] = [@ EXCEPT !.held = FALSE, !.waiters = {}]]
       /\ processes' = IF Runs(i) THEN [processes EXCEPT ![i].state = "ended", ![i].exit = "killed"]
                       ELSE processes
       /\ waits' = Resolved(terminals[i].waiters, terminals[i].exit)
       /\ UNCHANGED manager

\* ~TerminalManager: the processes are killed; finished() comes while it waits for
\* them, for some, and the futures of the others are cancelled.
DestroyManager(heard) ==
  /\ manager /\ manager' = FALSE
  /\ heard \subseteq { i \in Ids : terminals[i].held /\ Runs(i) }
  /\ LET told == UNION { terminals[i].waiters : i \in heard }
         lost == UNION { terminals[i].waiters : i \in Ids \ heard }
     IN  waits' = [a \in Asks |-> IF a \in told THEN [waits[a] EXCEPT !.result = "killed"]
                                  ELSE IF a \in lost THEN [waits[a] EXCEPT !.result = "cancelled"]
                                  ELSE waits[a]]
  /\ processes' = [i \in Ids |-> IF Runs(i) THEN [processes[i] EXCEPT !.state = "ended", !.exit = "killed"]
                                 ELSE processes[i]]
  /\ terminals' = [i \in Ids |-> [terminals[i] EXCEPT !.held = FALSE, !.waiters = {}]]

TerminalInit ==
  /\ terminals = <<>> /\ processes = <<>>
  /\ waits = [a \in Asks |-> NoWait] /\ manager = TRUE

Process ==
  \E i \in Ids :
    \/ ProcessStarts(i) \/ ProcessFailsToStart(i) \/ ProcessWrites(i) \/ readyRead(i)
    \/ \E exit \in {"code", "killed"} : ProcessEnds(i, exit)

(****************************** Properties *********************************)
\* What a terminal shows is the end of what its process wrote, as much as the limit
\* allows and with nothing left out in between, and it says when the beginning is
\* gone; when it reports the exit it shows the output to its last byte, also what was
\* unread as the process died (appendOutput, onFinished).
OutputIsTail ==
  \A i \in Ids :
    LET t == terminals[i]  p == processes[i]  all == [k \in 1..p.read |-> k]
    IN  /\ t.output = IF t.limit = 0 \/ p.read <= t.limit THEN all ELSE Right(all, t.limit)
        /\ t.truncated = (t.limit > 0 /\ p.read > t.limit)
        /\ t.finished => p.read = p.written

\* Whoever waits for a terminal is told how its process ended, each caller the same,
\* and nothing only if the terminal was released or the manager destroyed before
\* (waitForExit, onFinished, releaseTerminal).
ExitIsTrue ==
  \A a \in Asks :
    LET w == waits[a]
    IN  /\ w.result \in {"code", "killed"} => processes[w.on].exit = w.result
        /\ w.result \in {"unknown", "cancelled"} => ~ terminals[w.on].held /\ ~ terminals[w.on].finished
        /\ (w.result = "waiting") = (w.on \in Ids /\ a \in terminals[w.on].waiters)
=============================================================================
