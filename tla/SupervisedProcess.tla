--------------------------- MODULE SupervisedProcess ---------------------------
(***************************************************************************)
(* internal/process/process.go with container.go: one supervised process,  *)
(* its two readers, the goroutine that waits for it, the supervisor, and a *)
(* client that reads the output by cursor.                                 *)
(*                                                                         *)
(* Output is counted in units, and a chunk is where in its stream it       *)
(* starts and how long it is.  What exec.Cmd does to the child and to the  *)
(* pipes is modelled from how the two files use it.  Terminals and         *)
(* validation of the request are left out: containers refuse the former,   *)
(* and the latter keeps no state.                                          *)
(***************************************************************************)
EXTENDS Integers, Sequences, SequencesExt

CONSTANTS
  Stream,        \* the streams that are read
  ChunkUnits,    \* the most a chunk holds
  MemoryUnits,   \* what the chunks in memory may hold together
  Limits,        \* how many chunks a client asks for at once
  Faults,        \* whether the spill file may fail
  MaxOutput      \* bound: what the process writes to one stream

ASSUME ProcessAssumption ==
  /\ ChunkUnits \in Nat \ {0} /\ MemoryUnits \in Nat /\ MaxOutput \in Nat
  /\ Limits \subseteq Nat \ {0}
  /\ Faults \in BOOLEAN

VARIABLES
  child,         \* the process: where it is and its exit code
  written,       \* what it has written to each stream
  taken,         \* what was read of each stream
  pipes,         \* whether the reading ends are open
  reader,        \* the goroutine of each stream: the length it holds, if any
  ctx,           \* the context the process was started with
  waiter,        \* the goroutine in Wait, until it has told the supervisor
  supervisor,
  next,          \* the cursor given last
  memory,
  spill,         \* the lines of the spill file, once there is one
  spilled,
  failed,        \* history: whether the file failed
  outcome,
  client         \* what a client has read so far

vars == <<child, written, taken, pipes, reader, ctx, waiter, supervisor, next,
          memory, spill, spilled, failed, outcome, client>>

processVars == <<child, written>>
store == <<next, memory, spill, spilled, failed>>
goroutines == <<waiter, supervisor>>

Reading == [at |-> "reading", units |-> 0]
Holding(n) == [at |-> "holding", units |-> n]
Ended == [at |-> "ended", units |-> 0]

\* A line of the file that is no chunk, after a write that stopped half-way.
Broken == [cursor |-> 0, long |-> FALSE]

Chunk ==
  [cursor : Nat \ {0}, stream : Stream, from : 0 .. MaxOutput, units : 1 .. ChunkUnits,
   long : BOOLEAN]

Units(chunks) == FoldLeft(LAMBDA sum, c : sum + c.units, 0, chunks)

TypeOK ==
  /\ child \in [at : {"none", "running", "exited", "reaped"}, code : {-1, 0, 1}, killed : BOOLEAN]
  /\ written \in [Stream -> 0 .. MaxOutput]
  /\ \A s \in Stream : taken[s] \in 0 .. written[s]
  /\ pipes \in BOOLEAN
  /\ \A s \in Stream : reader[s] \in {Reading, Ended} \cup {Holding(n) : n \in 1 .. ChunkUnits}
  /\ ctx \in {"open", "deadline", "canceled"}
  /\ waiter \in {"waiting", "sent"}
  /\ supervisor \in {"start", "select", "grace", "await", "drain", "done", "refused"}
  /\ next \in Nat
  /\ \A i \in 1 .. Len(memory) : memory[i] \in Chunk
  /\ \A i \in 1 .. Len(spill) : spill[i] \in Chunk \cup {Broken}
  /\ Units(memory) <= MemoryUnits
  /\ spilled \in BOOLEAN /\ failed \in BOOLEAN
  /\ spilled => memory = <<>>
  /\ ~spilled => spill = <<>>
  /\ outcome \in [code : {-1, 0, 1}, timedOut : BOOLEAN, canceled : BOOLEAN,
                  truncated : BOOLEAN, spilled : BOOLEAN]
  /\ client \in Seq(Nat)

Init ==
  /\ child = [at |-> "none", code |-> 0, killed |-> FALSE]
  /\ written = [s \in Stream |-> 0]
  /\ taken = [s \in Stream |-> 0]
  /\ pipes = FALSE
  /\ reader = [s \in Stream |-> Ended]
  /\ ctx = "open"
  /\ waiter = "waiting"
  /\ supervisor = "start"
  /\ next = 0
  /\ memory = <<>>
  /\ spill = <<>> /\ spilled = FALSE /\ failed = FALSE
  /\ outcome = [code |-> 0, timedOut |-> FALSE, canceled |-> FALSE, truncated |-> FALSE, spilled |-> FALSE]
  /\ client = <<>>

-----------------------------------------------------------------------------
(* The process, and what exec.Cmd does to it.                              *)

Refuse ==
  /\ supervisor = "start"
  /\ supervisor' = "refused" /\ ctx' = "canceled"
  /\ UNCHANGED <<processVars, taken, pipes, reader, waiter, store, outcome, client>>

Start ==
  /\ supervisor = "start" /\ ctx = "open"
  /\ supervisor' = "select"
  /\ child' = [child EXCEPT !.at = "running"]
  /\ pipes' = TRUE
  /\ reader' = [s \in Stream |-> Reading]
  /\ UNCHANGED <<written, taken, ctx, waiter, store, outcome, client>>

Write(s) ==
  /\ child.at = "running" /\ written[s] < MaxOutput
  /\ written' = [written EXCEPT ![s] = @ + 1]
  /\ UNCHANGED <<child, taken, pipes, reader, ctx, goroutines, store, outcome, client>>

\* It exits by itself, or because of a signal it handles.
Exit(code) ==
  /\ child.at = "running"
  /\ child' = [at |-> "exited", code |-> code, killed |-> FALSE]
  /\ UNCHANGED <<written, taken, pipes, reader, ctx, goroutines, store, outcome, client>>

Killed == [at |-> "exited", code |-> -1, killed |-> TRUE]

\* exec.CommandContext kills the process when the context is over.  One that
\* had exited well is reported with the context's error.
CommandKill ==
  /\ ctx # "open"
  /\ \/ child.at = "running"
     \/ child.at = "exited" /\ child.code = 0
  /\ child' = Killed
  /\ UNCHANGED <<written, taken, pipes, reader, ctx, goroutines, store, outcome, client>>

\* Cmd.Wait closes the reading ends of the pipes when it has seen the exit,
\* whatever is left in them.
Wait ==
  /\ child.at = "exited"
  /\ child' = [child EXCEPT !.at = "reaped"]
  /\ pipes' = FALSE
  /\ waiter' = "sent"
  /\ UNCHANGED <<written, taken, reader, ctx, supervisor, store, outcome, client>>

Deadline ==
  /\ supervisor \notin {"start", "refused", "done"} /\ ctx = "open"
  /\ ctx' = "deadline"
  /\ UNCHANGED <<processVars, taken, pipes, reader, goroutines, store, outcome, client>>

\* process_cancel, or the caller's context ends.
Cancel ==
  /\ supervisor \notin {"start", "refused", "done"} /\ ctx = "open"
  /\ ctx' = "canceled"
  /\ UNCHANGED <<processVars, taken, pipes, reader, goroutines, store, outcome, client>>

\* process_signal: what the process does not handle ends it.
Signal ==
  /\ child.at = "running"
  /\ child' = Killed
  /\ UNCHANGED <<written, taken, pipes, reader, ctx, goroutines, store, outcome, client>>

-----------------------------------------------------------------------------
(* The readers.                                                            *)

Left(s) == written[s] - taken[s]

Receive(s, n) ==
  /\ reader[s] = Reading /\ pipes
  /\ n <= Left(s)
  /\ reader' = [reader EXCEPT ![s] = Holding(n)]
  /\ taken' = [taken EXCEPT ![s] = @ + n]
  /\ UNCHANGED <<processVars, pipes, ctx, goroutines, store, outcome, client>>

EndOfFile(s) == pipes /\ child.at # "running" /\ Left(s) = 0

\* The end of the stream, or the closed pipe.
Fails(s) == EndOfFile(s) \/ ~pipes

ReaderEnds(s) ==
  /\ reader[s] = Reading /\ Fails(s)
  /\ reader' = [reader EXCEPT ![s] = Ended]
  /\ UNCHANGED <<processVars, taken, pipes, ctx, goroutines, store, outcome, client>>

\* A line that follows a broken one becomes part of it.
Line(lines, c) == IF lines # <<>> /\ Last(lines) = Broken THEN lines ELSE Append(lines, c)

\* writeChunk, whose error nobody looks at: the line is there, or nothing of
\* it, or a part of it.
Lines(lines, c) == {Line(lines, c), lines, Line(lines, Broken)}

Files(lines, cs) == FoldLeft(LAMBDA files, c : UNION {Lines(f, c) : f \in files}, {lines}, cs)

Complete(lines, cs) == FoldLeft(Line, lines, cs)

\* What was to be written is there, or some of it failed.
WriteChunks(lines, cs) ==
  \/ spill' = Complete(lines, cs) /\ UNCHANGED failed
  \/ Faults /\ failed' = TRUE /\ spill' \in Files(lines, cs) \ {Complete(lines, cs)}

FitsAlone(c) == c.units <= MemoryUnits

Fits(c) == Units(memory) + c.units <= MemoryUnits

KeepInMemory(c) ==
  /\ ~spilled /\ Fits(c)
  /\ memory' = Append(memory, c)
  /\ UNCHANGED <<spill, spilled, failed, outcome>>

SpillAlone(c) ==
  /\ ~spilled /\ ~Fits(c)
  /\ spilled' = TRUE /\ memory' = <<>>
  /\ WriteChunks(<<>>, <<c>>)
  /\ UNCHANGED outcome

\* The file is created and what was in memory goes first.
OpenSpill(c) ==
  /\ ~spilled /\ ~Fits(c)
  /\ spilled' = TRUE /\ memory' = <<>>
  /\ WriteChunks(<<>>, Append(memory, c))
  /\ UNCHANGED outcome

AppendSpill(c) ==
  /\ spilled
  /\ WriteChunks(spill, <<c>>)
  /\ UNCHANGED <<memory, spilled, outcome>>

\* The file cannot be created: the chunk is dropped, and its cursor with it.
DropChunk(c) ==
  /\ Faults /\ ~spilled /\ ~Fits(c)
  /\ outcome' = [outcome EXCEPT !.truncated = TRUE] /\ failed' = TRUE
  /\ UNCHANGED <<memory, spill, spilled>>

\* A long chunk is one whose line in the file would be longer than a scanner
\* takes: JSON writes a control character in six.
AppendChunk(s) ==
  /\ reader[s].at = "holding"
  /\ next' = next + 1
  /\ \E long \in {FALSE} \cup {reader[s].units = ChunkUnits} :
       LET n == reader[s].units
           c == [cursor |-> next + 1, stream |-> s, from |-> taken[s] - n, units |-> n, long |-> long]
       IN  KeepInMemory(c) \/ OpenSpill(c) \/ AppendSpill(c) \/ DropChunk(c)
  /\ reader' = [reader EXCEPT ![s] = Reading]
  /\ UNCHANGED <<processVars, taken, pipes, ctx, goroutines, client>>

-----------------------------------------------------------------------------
(* The supervisor.                                                         *)

WaitDone ==
  /\ supervisor \in {"select", "await"} /\ waiter = "sent"
  /\ supervisor' = "drain"
  /\ UNCHANGED <<processVars, taken, pipes, reader, ctx, waiter, store, outcome, client>>

\* killGroup asks first, and waits half a second for what only the supervisor
\* itself would do.
Terminate ==
  /\ supervisor = "select" /\ ctx # "open"
  /\ supervisor' = "grace"
  /\ child' \in {child} \cup IF child.at = "running" THEN {Killed} ELSE {}
  /\ UNCHANGED <<written, taken, pipes, reader, ctx, waiter, store, outcome, client>>

KillAgain ==
  /\ supervisor = "grace"
  /\ supervisor' = "select"
  /\ child' = IF child.at = "running" THEN Killed ELSE child
  /\ UNCHANGED <<written, taken, pipes, reader, ctx, waiter, store, outcome, client>>

KillGroup ==
  /\ supervisor = "grace"
  /\ supervisor' = "await"
  /\ child' = IF child.at = "running" THEN Killed ELSE child
  /\ UNCHANGED <<written, taken, pipes, reader, ctx, waiter, store, outcome, client>>

NobodyWaitedFor == TRUE

ReadersDone == \A s \in Stream : reader[s] = Ended

Finish ==
  /\ supervisor = "drain" /\ ReadersDone
  /\ supervisor' = "done"
  /\ outcome' = [outcome EXCEPT !.code = child.code, !.timedOut = (ctx = "deadline"),
                                !.canceled = (ctx = "canceled"), !.spilled = spilled]
  /\ UNCHANGED <<processVars, taken, pipes, reader, ctx, waiter, store, client>>

-----------------------------------------------------------------------------
(* The client.                                                             *)

After(lines, cursor) ==
  FoldLeft(LAMBDA result, c : IF c.cursor > cursor THEN Append(result, c) ELSE result, <<>>, lines)

FirstOf(lines, n) == SubSeq(lines, 1, IF Len(lines) < n THEN Len(lines) ELSE n)

\* The scanner has looked at one line more than it needs when it stops, and
\* fails on a line that is too long; only lines that are needed are decoded.
Readable(cursor, limit) ==
  LET Enough(n) == Len(After(SubSeq(spill, 1, n), cursor)) >= limit
  IN  \A i \in 1 .. Len(spill) :
        /\ spill[i].long => Enough(i - 2)
        /\ spill[i] = Broken => Enough(i - 1)

Kept == spill \o memory

Result(cursor, limit) == FirstOf(After(Kept, cursor), limit)

Seen == IF client = <<>> THEN 0 ELSE Last(client)

Read(limit) ==
  /\ supervisor \notin {"start", "refused"}
  /\ Readable(Seen, limit)
  /\ Result(Seen, limit) # <<>>
  /\ client' = client \o [i \in 1 .. Len(Result(Seen, limit)) |-> Result(Seen, limit)[i].cursor]
  /\ UNCHANGED <<processVars, taken, pipes, reader, ctx, goroutines, store, outcome>>

-----------------------------------------------------------------------------
Finished ==
  /\ supervisor \in {"done", "refused"}
  /\ UNCHANGED vars

ReaderStep(s) == ReaderEnds(s) \/ AppendChunk(s) \/ \E n \in 1 .. ChunkUnits : Receive(s, n)

SupervisorStep == WaitDone \/ Terminate \/ KillGroup \/ Finish

Next ==
  \/ Refuse \/ Start
  \/ CommandKill \/ Wait \/ Deadline \/ Cancel \/ Signal
  \/ \E code \in {0, 1} : Exit(code)
  \/ \E s \in Stream : Write(s) \/ ReaderStep(s)
  \/ SupervisorStep
  \/ \E limit \in Limits : Read(limit)
  \/ Finished

Spec == Init /\ [][Next]_vars

(***************************************************************************)
(* A started process runs into its timeout, and each goroutine goes on     *)
(* while it can.  Nothing is assumed of the process itself but that it     *)
(* ends when it is killed, nor of the client.                              *)
(***************************************************************************)
FairSpec ==
  /\ Spec
  /\ WF_vars(Refuse \/ Start)
  /\ WF_vars(Deadline) /\ WF_vars(CommandKill) /\ WF_vars(Wait)
  /\ WF_vars(SupervisorStep)
  /\ \A s \in Stream : WF_vars(ReaderStep(s))
=============================================================================
