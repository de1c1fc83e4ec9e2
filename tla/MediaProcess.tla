----------------------------- MODULE MediaProcess -----------------------------
(***************************************************************************)
(* run_ffmpeg of media/ffmpeg.py: one child process, a pipe for each of its *)
(* two streams, a thread that forwards each pipe to an unbounded queue, and *)
(* the caller, which polls the child, takes lines from the queue and gives  *)
(* up when it is cancelled, late or interrupted.                            *)
(*                                                                         *)
(* A line is its number within its stream.  The caller's two looks at the   *)
(* loop condition, process.poll() and events.empty(), are steps of their    *)
(* own, as are the three stages of _terminate; the child, the threads and   *)
(* the clock move between any two of them.                                  *)
(***************************************************************************)
EXTENDS Naturals, Sequences

CONSTANTS
    Streams,        \* stdout and stderr
    Stderr,         \* the one whose tail is kept
    Lines,          \* bound: how many lines the child has for each stream
    PipeSize,       \* how many lines a pipe holds
    MaxStderrLines, \* max_stderr_lines
    MaxInterrupts,  \* bound: how often the owner presses Ctrl-C
    Eof             \* the None a thread puts last

ASSUME MediaAssumption ==
    /\ Stderr \in Streams
    /\ Lines \in Nat /\ MaxInterrupts \in Nat
    /\ PipeSize \in Nat \ {0} /\ MaxStderrLines \in Nat \ {0}
    /\ Eof \notin 1 .. Lines

VARIABLES
    child,      \* the process, and how it ended
    asked,      \* it was sent SIGTERM
    written,    \* lines it has written to each stream
    forwarded,  \* lines a thread has moved to the queue
    ended,      \* the thread has put its Eof
    queue,      \* events
    pc,         \* where the caller is
    after,      \* where it goes on when _terminate returns
    tail,       \* stderr_lines
    cancel,     \* cancel_event is set
    cancelled,  \* the caller has noticed
    late,       \* timeout_seconds have passed
    interrupts,
    outcome     \* what run_ffmpeg returned or raised

childVars == <<child, asked, written>>
readerVars == <<forwarded, ended, queue>>
callerVars == <<pc, after, tail, cancelled, outcome>>
vars == <<childVars, readerVars, callerVars, cancel, late, interrupts>>

\* finished: everything written, exit 0; stopped: exit 0 on SIGTERM before that;
\* stuck: in a system call that no signal interrupts.
Dead == {"finished", "stopped", "failed", "killed"}
Alive == {"running", "stuck"}

\* poll .. handle: the loop; term, grace, kill: _terminate; finally, join: the
\* finally block; wait: process.wait() and what follows.
Labels == {"started", "poll", "empty", "turn", "get", "term", "grace", "kill",
           "finally", "join", "wait", "done"}

Outcomes == {"none", "ok", "failed", "cancelled", "timed out", "interrupted"}

Init ==
    /\ child = "running" /\ asked = FALSE
    /\ written = [s \in Streams |-> 0]
    /\ forwarded = [s \in Streams |-> 0]
    /\ ended = [s \in Streams |-> FALSE]
    /\ queue = <<>>
    /\ pc = "started" /\ after = "get"
    /\ tail = <<>>
    /\ cancel = FALSE /\ cancelled = FALSE /\ late = FALSE
    /\ interrupts = 0
    /\ outcome = "none"

-----------------------------------------------------------------------------
\* The child.

InPipe(s) == written[s] - forwarded[s]

\* A full pipe blocks it.
Write(s) ==
    /\ child = "running" /\ written[s] < Lines /\ InPipe(s) < PipeSize
    /\ written' = [written EXCEPT ![s] = @ + 1]
    /\ UNCHANGED <<child, asked, readerVars, callerVars, cancel, late, interrupts>>

Become(state) ==
    /\ child = "running"
    /\ child' = state
    /\ UNCHANGED <<asked, written, readerVars, callerVars, cancel, late, interrupts>>

Finish == (\A s \in Streams : written[s] = Lines) /\ Become("finished")
Fail == Become("failed")
StopOnRequest == asked /\ Become("stopped")
GetStuck == Become("stuck")

-----------------------------------------------------------------------------
\* The threads.  A thread takes a line from its pipe and puts it to the queue;
\* when the pipe is empty and has no writer any more it puts Eof and ends.

Forward(s) ==
    /\ pc # "started" /\ InPipe(s) > 0
    /\ forwarded' = [forwarded EXCEPT ![s] = @ + 1]
    /\ queue' = Append(queue, <<s, forwarded'[s]>>)
    /\ UNCHANGED <<childVars, ended, callerVars, cancel, late, interrupts>>

PutEof(s) ==
    /\ pc # "started" /\ InPipe(s) = 0 /\ child \in Dead /\ ~ended[s]
    /\ ended' = [ended EXCEPT ![s] = TRUE]
    /\ queue' = Append(queue, <<s, Eof>>)
    /\ UNCHANGED <<childVars, forwarded, callerVars, cancel, late, interrupts>>

-----------------------------------------------------------------------------
\* The caller.

Goto(label) == pc' = label

\* thread.start() twice; the try block begins.
StartThreads ==
    /\ pc = "started" /\ Goto("poll")
    /\ UNCHANGED <<childVars, readerVars, after, tail, cancelled, outcome, cancel, late, interrupts>>

\* The left operand of the loop condition ...
Poll ==
    /\ pc = "poll"
    /\ Goto(IF child \in Alive THEN "turn" ELSE "empty")
    /\ UNCHANGED <<childVars, readerVars, after, tail, cancelled, outcome, cancel, late, interrupts>>

\* ... and the right one.
LookAtQueue ==
    /\ pc = "empty"
    /\ Goto(IF queue = <<>> THEN "finally" ELSE "turn")
    /\ UNCHANGED <<childVars, readerVars, after, tail, cancelled, outcome, cancel, late, interrupts>>

\* _terminate is called; what follows it is label.
Terminate(label) == Goto("term") /\ after' = label

Turn ==
    /\ pc = "turn"
    /\ \/ /\ cancel
          /\ cancelled' = TRUE /\ Terminate("get")
       \/ /\ ~cancel /\ late
          /\ Terminate("raise") /\ UNCHANGED cancelled
       \/ /\ ~cancel /\ ~late
          /\ Goto("get") /\ UNCHANGED <<after, cancelled>>
    /\ UNCHANGED <<childVars, readerVars, tail, outcome, cancel, late, interrupts>>

\* del stderr_lines[:-max_stderr_lines]
\* Mutant of Kept: the list grows with the output.
KeptWhole(lines) == lines

Kept(lines) ==
    IF Len(lines) > MaxStderrLines
    THEN SubSeq(lines, Len(lines) - MaxStderrLines + 1, Len(lines)) ELSE lines

\* events.get(timeout=0.05): nothing, or the next event.
Get ==
    /\ pc = "get" /\ Goto("poll")
    /\ \/ /\ queue = <<>>
          /\ UNCHANGED <<queue, tail>>
       \/ /\ queue # <<>>
          /\ queue' = Tail(queue)
          /\ LET event == Head(queue) IN
             tail' = IF event[1] = Stderr /\ event[2] # Eof THEN Kept(Append(tail, event[2])) ELSE tail
    /\ UNCHANGED <<childVars, forwarded, ended, after, cancelled, outcome, cancel, late, interrupts>>

\* _terminate returns, to the loop, to the raise of the timeout or to the finally block.
Return ==
    /\ Goto(IF after = "raise" THEN "finally" ELSE after)
    /\ outcome' = IF after = "raise" THEN "timed out" ELSE outcome

\* process.poll() and process.terminate()
SendTerminate ==
    /\ pc = "term"
    /\ \/ /\ child \in Dead /\ Return /\ UNCHANGED asked
       \/ /\ child \in Alive /\ asked' = TRUE /\ Goto("grace") /\ UNCHANGED outcome
    /\ UNCHANGED <<child, written, readerVars, after, tail, cancelled, cancel, late, interrupts>>

\* process.wait(timeout=grace_seconds): the child is dead, or TimeoutExpired.
\* Mutant of Grace: a child that is still there after the grace is left alone.
GracePolite ==
    /\ pc = "grace" /\ Return
    /\ UNCHANGED <<childVars, readerVars, after, tail, cancelled, cancel, late, interrupts>>

Grace ==
    /\ pc = "grace"
    /\ \/ child \in Dead /\ Return
       \/ child \in Alive /\ Goto("kill") /\ UNCHANGED outcome
    /\ UNCHANGED <<childVars, readerVars, after, tail, cancelled, cancel, late, interrupts>>

\* process.kill() and a second wait, which only a stuck child outlasts.
Kill ==
    /\ pc = "kill" /\ Return
    /\ child' = IF child = "running" THEN "killed" ELSE child
    /\ UNCHANGED <<asked, written, readerVars, after, tail, cancelled, cancel, late, interrupts>>

Finally ==
    /\ pc = "finally"
    /\ \/ child \in Alive /\ Terminate("join")
       \/ child \in Dead /\ Goto("join") /\ UNCHANGED after
    /\ UNCHANGED <<childVars, readerVars, tail, cancelled, outcome, cancel, late, interrupts>>

\* thread.join(timeout=1), twice: the threads have ended or a second has passed.
\* Mutant of Join: join without a timeout.
JoinForever ==
    /\ pc = "join" /\ \A s \in Streams : ended[s]
    /\ Goto("wait")
    /\ UNCHANGED <<childVars, readerVars, after, tail, cancelled, outcome, cancel, late, interrupts>>

Join ==
    /\ pc = "join" /\ Goto("wait")
    /\ UNCHANGED <<childVars, readerVars, after, tail, cancelled, outcome, cancel, late, interrupts>>

\* An exception on its way ends the call here; otherwise process.wait(), then
\* FFmpegCancelled, FFmpegExecutionError or a result.
\* Mutant of Verdict: the exit code alone decides.
VerdictByCode == IF child \in {"finished", "stopped"} THEN "ok" ELSE "failed"

Verdict ==
    IF cancelled THEN "cancelled"
    ELSE IF child \in {"finished", "stopped"} THEN "ok" ELSE "failed"

Conclude ==
    /\ pc = "wait" /\ Goto("done")
    /\ \/ outcome # "none" /\ UNCHANGED outcome
       \/ outcome = "none" /\ child \in Dead /\ outcome' = Verdict
    /\ UNCHANGED <<childVars, readerVars, after, tail, cancelled, cancel, late, interrupts>>

-----------------------------------------------------------------------------
\* What comes from outside: the caller's cancel_event, the clock, Ctrl-C.

Cancel ==
    /\ ~cancel /\ cancel' = TRUE /\ pc # "done"
    /\ UNCHANGED <<childVars, readerVars, callerVars, late, interrupts>>

TimePasses ==
    /\ ~late /\ late' = TRUE /\ pc # "done"
    /\ UNCHANGED <<childVars, readerVars, callerVars, cancel, interrupts>>

InTry ==
    \/ pc \in {"poll", "empty", "turn", "get"}
    \/ pc \in {"term", "grace", "kill"} /\ after \in {"get", "raise"}

InHandler == pc \in {"term", "grace", "kill"} /\ after = "finally"

\* KeyboardInterrupt: in the try block it becomes FFmpegCancelled after another
\* _terminate; in that handler it replaces FFmpegCancelled and the finally block
\* follows; before the try block and in the finally block it leaves at once.
Interrupt ==
    /\ interrupts < MaxInterrupts /\ pc # "done"
    /\ interrupts' = interrupts + 1
    /\ \/ /\ InTry
          /\ Terminate("finally") /\ outcome' = "cancelled"
       \/ /\ InHandler
          /\ Goto("finally") /\ outcome' = "interrupted" /\ UNCHANGED after
       \/ /\ ~InTry /\ ~InHandler
          /\ Goto("done") /\ outcome' = "interrupted" /\ UNCHANGED after
    /\ UNCHANGED <<childVars, readerVars, tail, cancelled, cancel, late>>

-----------------------------------------------------------------------------
Child == (\E s \in Streams : Write(s)) \/ Finish \/ Fail \/ StopOnRequest \/ GetStuck

Reader(s) == Forward(s) \/ PutEof(s)

Caller ==
    \/ StartThreads \/ Poll \/ LookAtQueue \/ Turn \/ Get
    \/ SendTerminate \/ Grace \/ Kill \/ Finally \/ Join \/ Conclude

Next ==
    \/ Child
    \/ \E s \in Streams : Reader(s)
    \/ Caller
    \/ Cancel \/ TimePasses \/ Interrupt

Spec == Init /\ [][Next]_vars

\* The operating system runs both threads and the caller; nothing is assumed of
\* the child, which may hang, nor of the clock, the owner or cancel_event.
FairSpec == Spec /\ WF_vars(Caller) /\ \A s \in Streams : WF_vars(Reader(s))

-----------------------------------------------------------------------------
\* Types; what is kept of stderr is bounded whatever the child prints.
TypeOK ==
    /\ child \in Alive \cup Dead /\ asked \in BOOLEAN
    /\ written \in [Streams -> 0 .. Lines]
    /\ forwarded \in [Streams -> 0 .. Lines]
    /\ ended \in [Streams -> BOOLEAN]
    /\ queue \in Seq(Streams \X (1 .. Lines \cup {Eof}))
    /\ pc \in Labels /\ after \in {"get", "raise", "finally", "join"}
    /\ tail \in Seq(1 .. Lines) /\ Len(tail) <= MaxStderrLines
    /\ cancel \in BOOLEAN /\ cancelled \in BOOLEAN /\ late \in BOOLEAN
    /\ interrupts \in 0 .. MaxInterrupts
    /\ outcome \in Outcomes

\* However the call ends, short of a Ctrl-C outside the try block, the child does
\* not go on encoding into a file the caller has given up: it has ended, or not
\* even SIGKILL could end it.  It holds for a child that ignores SIGTERM, for one
\* Ctrl-C in the middle of _terminate, and for a timeout during a cancellation.
NoChildLeftRunning == outcome \in Outcomes \ {"none", "interrupted"} /\ pc = "done" => child # "running"

\* A result is returned only for a child that wrote all it had and ended by
\* itself: an exit code of 0 obtained by terminating it is never taken for success.
AcceptedIsWhole == outcome = "ok" => child = "finished"

\* A call that is late ends, whatever the child does: hang, flood its pipes,
\* ignore SIGTERM, or hold its pipes open in an uninterruptible call.  The one
\* exception is a cancelled child that cannot be killed, which the loop terminates
\* again and again without a look at the clock.
RunEnds == late ~> pc = "done" \/ (cancel /\ child = "stuck")
=============================================================================
