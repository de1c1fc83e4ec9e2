-------------------------- MODULE MediaProcessProofs --------------------------
(***************************************************************************)
(* Theorems about run_ffmpeg as MediaProcess.tla models it, for any number  *)
(* of streams, lines and interrupts and any size of the pipes: its types    *)
(* and its two safety properties.                                          *)
(***************************************************************************)
EXTENDS MediaProcess, TLAPS

InTerminate == pc \in {"term", "grace", "kill"}

\* The child behind each place of the caller: the loop is left only when the
\* child is dead or an exception is on its way, and the finally block only when
\* the child is dead or stuck.
ChildFollowsCaller ==
    /\ pc = "empty" => child \in Dead
    /\ pc = "finally" /\ outcome = "none" => child \in Dead
    /\ pc \in {"join", "wait"} => child # "running"
    /\ pc = "done" /\ outcome # "interrupted" => child # "running"

\* Why the child was asked to stop: somebody has seen cancel_event, an exception
\* is on its way, or the timeout is about to raise one.
AskedForAReason ==
    /\ InTerminate /\ after = "get" => cancelled
    /\ InTerminate /\ after \in {"finally", "join"} => outcome # "none"
    /\ child = "stopped" => asked
    /\ asked => cancelled \/ outcome # "none" \/ (InTerminate /\ after = "raise")

\* The places and outcomes, as far as the arguments need them.
Shape ==
    /\ child \in Alive \cup Dead
    /\ pc \in Labels /\ after \in {"get", "raise", "finally", "join"}
    /\ outcome \in Outcomes

IInv == Shape /\ ChildFollowsCaller /\ AskedForAReason /\ AcceptedIsWhole

\* The invariant holds at the start.
LEMMA InitIInv == Init => IInv
  BY DEF Init, IInv, Shape, ChildFollowsCaller, AskedForAReason, AcceptedIsWhole, InTerminate,
         Alive, Dead, Labels, Outcomes

\* Steps of the child: it dies or gets stuck, and stops at exit code 0 only on request.
LEMMA ChildStep == ASSUME IInv, Child PROVE IInv'
  <1> USE DEF IInv, Shape, ChildFollowsCaller, AskedForAReason, AcceptedIsWhole, InTerminate,
              Alive, Dead, Labels, Outcomes, callerVars
  <1>1. CASE \E s \in Streams : Write(s)
    <2>1. UNCHANGED child /\ UNCHANGED asked /\ UNCHANGED callerVars
      BY <1>1, Zenon DEF Write
    <2>2. Shape' /\ ChildFollowsCaller' /\ AcceptedIsWhole'
      BY <2>1
    <2>3. AskedForAReason'
      BY <2>1, Zenon
    <2> QED BY <2>2, <2>3, Zenon
  <1>2. CASE Finish
    BY <1>2 DEF Finish, Become
  <1>3. CASE Fail
    BY <1>3 DEF Fail, Become
  <1>4. CASE StopOnRequest
    BY <1>4 DEF StopOnRequest, Become
  <1>5. CASE GetStuck
    BY <1>5 DEF GetStuck, Become
  <1> QED BY <1>1, <1>2, <1>3, <1>4, <1>5 DEF Child

\* Steps of the caller in the loop.
LEMMA LoopStep ==
    ASSUME IInv, StartThreads \/ Poll \/ LookAtQueue \/ Turn \/ Get PROVE IInv'
  <1> USE DEF IInv, Shape, ChildFollowsCaller, AskedForAReason, AcceptedIsWhole, InTerminate,
              Alive, Dead, Labels, Outcomes, childVars, Goto
  <1>1. CASE StartThreads
    BY <1>1 DEF StartThreads
  <1>2. CASE Poll
    BY <1>2 DEF Poll
  <1>3. CASE LookAtQueue
    BY <1>3 DEF LookAtQueue
  <1>4. CASE Turn
    BY <1>4 DEF Turn, Terminate
  <1>5. CASE Get
    BY <1>5 DEF Get
  <1> QED BY <1>1, <1>2, <1>3, <1>4, <1>5

\* Steps of _terminate: when it returns the child is dead, or survived a SIGKILL.
LEMMA TerminateStep == ASSUME IInv, SendTerminate \/ Grace \/ Kill PROVE IInv'
  <1> USE DEF IInv, Shape, ChildFollowsCaller, AskedForAReason, AcceptedIsWhole, InTerminate,
              Alive, Dead, Labels, Outcomes, childVars, Goto, Return
  <1>1. CASE SendTerminate
    BY <1>1 DEF SendTerminate
  <1>2. CASE Grace
    BY <1>2 DEF Grace
  <1>3. CASE Kill
    BY <1>3 DEF Kill
  <1> QED BY <1>1, <1>2, <1>3

\* Steps of the finally block and of what follows.
LEMMA EndStep == ASSUME IInv, Finally \/ Join \/ Conclude PROVE IInv'
  <1> USE DEF IInv, Shape, ChildFollowsCaller, AskedForAReason, AcceptedIsWhole, InTerminate,
              Alive, Dead, Labels, Outcomes, childVars, Goto
  <1>1. CASE Finally
    BY <1>1 DEF Finally, Terminate
  <1>2. CASE Join
    BY <1>2 DEF Join
  <1>3. CASE Conclude
    BY <1>3 DEF Conclude, Verdict
  <1> QED BY <1>1, <1>2, <1>3

\* Steps from outside.
LEMMA OutsideStep == ASSUME IInv, Cancel \/ TimePasses \/ Interrupt PROVE IInv'
  <1> USE DEF IInv, Shape, ChildFollowsCaller, AskedForAReason, AcceptedIsWhole, InTerminate,
              Alive, Dead, Labels, Outcomes, childVars, callerVars
  <1>1. CASE Cancel \/ TimePasses
    <2>1. UNCHANGED child /\ UNCHANGED asked /\ UNCHANGED callerVars
      BY <1>1, Zenon DEF Cancel, TimePasses
    <2>2. Shape' /\ ChildFollowsCaller' /\ AcceptedIsWhole'
      BY <2>1
    <2>3. AskedForAReason'
      BY <2>1, Zenon
    <2> QED BY <2>2, <2>3, Zenon
  <1>2. CASE Interrupt
    BY <1>2 DEF Interrupt, InTry, InHandler, Terminate, Goto
  <1> QED BY <1>1, <1>2

\* Every step keeps the invariant; the threads touch none of its variables.
LEMMA NextIInv == IInv /\ [Next]_vars => IInv'
  <1> SUFFICES ASSUME IInv, [Next]_vars PROVE IInv'
    OBVIOUS
  <1>1. CASE \E s \in Streams : Reader(s)
    BY <1>1 DEF Reader, Forward, PutEof, childVars, callerVars, IInv, Shape, ChildFollowsCaller,
                AskedForAReason, AcceptedIsWhole, InTerminate
  <1>2. CASE UNCHANGED vars
    BY <1>2 DEF vars, childVars, callerVars, IInv, Shape, ChildFollowsCaller,
                AskedForAReason, AcceptedIsWhole, InTerminate
  <1> QED BY <1>1, <1>2, ChildStep, LoopStep, TerminateStep, EndStep, OutsideStep DEF Next, Caller

\* The invariant holds throughout.
LEMMA IInvHolds == Spec => []IInv
  BY InitIInv, NextIInv, PTL DEF Spec

\* A call that ends, other than by a Ctrl-C outside its try block, leaves no
\* running child behind (run_ffmpeg's docstring: terminate on cancellation).
THEOREM NoChildLeft == Spec => []NoChildLeftRunning
  <1>1. IInv => NoChildLeftRunning
    BY DEF IInv, ChildFollowsCaller, NoChildLeftRunning
  <1> QED BY <1>1, IInvHolds, PTL

\* A result is returned only for a child that ended by itself with all written.
THEOREM AcceptedWhole == Spec => []AcceptedIsWhole
  <1>1. IInv => AcceptedIsWhole
    BY DEF IInv
  <1> QED BY <1>1, IInvHolds, PTL

-----------------------------------------------------------------------------
(***************************************************************************)
(* Types.  A thread is never ahead of the child, so what it puts to the     *)
(* queue is a line the child has written or the end mark.                   *)
(***************************************************************************)

Line == 1 .. Lines
Event == Streams \X (Line \cup {Eof})

\* A thread forwards only what the child has written.
Behind == \A s \in Streams : forwarded[s] <= written[s]

TInv == TypeOK /\ Behind

\* The types of the child and the threads, and those of the caller.
ProcessTypes ==
    /\ child \in Alive \cup Dead /\ asked \in BOOLEAN
    /\ written \in [Streams -> 0 .. Lines]
    /\ forwarded \in [Streams -> 0 .. Lines]
    /\ ended \in [Streams -> BOOLEAN]
    /\ queue \in Seq(Event)

CallerTypes ==
    /\ pc \in Labels /\ after \in {"get", "raise", "finally", "join"}
    /\ tail \in Seq(Line) /\ Len(tail) <= MaxStderrLines
    /\ cancelled \in BOOLEAN /\ outcome \in Outcomes

OutsideTypes == cancel \in BOOLEAN /\ late \in BOOLEAN /\ interrupts \in 0 .. MaxInterrupts

\* The type invariant is the three together.
LEMMA TypeParts == TypeOK <=> ProcessTypes /\ CallerTypes /\ OutsideTypes
  BY DEF TypeOK, ProcessTypes, CallerTypes, OutsideTypes, Line, Event

\* del stderr_lines[:-max_stderr_lines] leaves at most max_stderr_lines lines,
\* each of them a line that was there.
LEMMA KeptType ==
    ASSUME NEW S, NEW lines \in Seq(S)
    PROVE  Kept(lines) \in Seq(S) /\ Len(Kept(lines)) <= MaxStderrLines
  <1> USE MediaAssumption DEF MediaAssumption
  <1>1. CASE Len(lines) > MaxStderrLines
    <2> DEFINE from == Len(lines) - MaxStderrLines + 1
    <2>1. from \in 1 .. Len(lines)
      BY <1>1
    <2>2. \A i \in from .. Len(lines) : lines[i] \in S
      BY <2>1
    <2>3. Len(SubSeq(lines, from, Len(lines))) = MaxStderrLines
      BY <2>1
    <2>4. SubSeq(lines, from, Len(lines)) \in Seq(S)
      BY <2>1, <2>2
    <2> QED BY <1>1, <2>3, <2>4 DEF Kept
  <1>2. CASE ~(Len(lines) > MaxStderrLines)
    BY <1>2 DEF Kept
  <1> QED BY <1>1, <1>2

\* The types hold at the start.
LEMMA InitTInv == Init => TInv
  <1> SUFFICES ASSUME Init PROVE TInv
    OBVIOUS
  <1>1. written = [s \in Streams |-> 0] /\ forwarded = [s \in Streams |-> 0]
    BY Zenon DEF Init
  <1>2. child \in Alive \cup Dead /\ asked \in BOOLEAN /\ ended \in [Streams -> BOOLEAN]
        /\ queue = <<>>
    BY Zenon DEF Init, Alive
  <1>3. ProcessTypes
    BY <1>1, <1>2, MediaAssumption DEF MediaAssumption, ProcessTypes
  <1>4. Behind
    <2>1. SUFFICES ASSUME NEW s \in Streams PROVE forwarded[s] <= written[s]
      BY DEF Behind
    <2>2. written[s] = 0 /\ forwarded[s] = 0
      BY <1>1, Zenon
    <2> QED BY <2>2
  <1>5. pc = "started" /\ after = "get" /\ outcome = "none" /\ cancelled \in BOOLEAN
    BY Zenon DEF Init
  <1>6. tail \in Seq(Line) /\ Len(tail) <= MaxStderrLines
    <2>1. tail = <<>>
      BY Zenon DEF Init
    <2> QED BY <2>1, MediaAssumption DEF MediaAssumption
  <1>7. CallerTypes
    BY <1>5, <1>6 DEF CallerTypes, Labels, Outcomes
  <1>8. interrupts = 0 /\ cancel \in BOOLEAN /\ late \in BOOLEAN
    BY Zenon DEF Init
  <1>9. OutsideTypes
    BY <1>8, MediaAssumption DEF MediaAssumption, OutsideTypes
  <1> QED BY <1>3, <1>4, <1>7, <1>9, TypeParts DEF TInv

\* The child: it writes at most its lines, and is in one of its states.
LEMMA ChildTypes == ASSUME TInv, Child PROVE TInv'
  <1> USE MediaAssumption, TypeParts DEF TInv, MediaAssumption
  <1>1. CallerTypes' /\ OutsideTypes'
    <2>1. UNCHANGED <<callerVars, cancel, late, interrupts>>
      BY Zenon DEF Child, Write, Finish, Fail, StopOnRequest, GetStuck, Become
    <2> QED BY <2>1 DEF CallerTypes, OutsideTypes, callerVars
  <1>2. ASSUME NEW s \in Streams, Write(s) PROVE ProcessTypes' /\ Behind'
    BY <1>2 DEF Write, ProcessTypes, Behind, readerVars
  <1>3. ASSUME Finish \/ Fail \/ StopOnRequest \/ GetStuck PROVE ProcessTypes' /\ Behind'
    <2>1. child' \in Alive \cup Dead /\ UNCHANGED <<asked, written, readerVars>>
      BY <1>3 DEF Finish, Fail, StopOnRequest, GetStuck, Become, Alive, Dead
    <2> QED BY <2>1 DEF ProcessTypes, Behind, readerVars
  <1>4. ProcessTypes' /\ Behind'
    BY <1>2, <1>3 DEF Child
  <1>5. TypeOK'
    BY <1>1, <1>4 DEF TypeOK, ProcessTypes, CallerTypes, OutsideTypes, Line, Event
  <1> QED BY <1>4, <1>5

\* A thread: the line it forwards is one that was written.
LEMMA ReaderTypes == ASSUME TInv, NEW s \in Streams, Reader(s) PROVE TInv'
  <1> USE MediaAssumption, TypeParts DEF TInv, MediaAssumption
  <1>1. CallerTypes' /\ OutsideTypes' /\ UNCHANGED childVars
    BY DEF Reader, Forward, PutEof, CallerTypes, OutsideTypes, callerVars
  <1>2. CASE Forward(s)
    <2>1. /\ forwarded' = [forwarded EXCEPT ![s] = @ + 1]
          /\ queue' = Append(queue, <<s, forwarded'[s]>>)
          /\ ended' = ended
      BY <1>2 DEF Forward
    <2>2. forwarded[s] < written[s] /\ written[s] \in 0 .. Lines /\ forwarded[s] \in 0 .. Lines
      BY <1>2 DEF Forward, InPipe, ProcessTypes
    <2>3. forwarded'[s] \in Line /\ forwarded'[s] <= written[s]
      BY <2>1, <2>2 DEF Line, ProcessTypes
    <2>4. queue' \in Seq(Event)
      BY <2>1, <2>3 DEF ProcessTypes, Event
    <2>5. forwarded' \in [Streams -> 0 .. Lines]
      BY <2>1, <2>2 DEF ProcessTypes
    <2>6. Behind'
      BY <1>1, <2>1, <2>3 DEF Behind, childVars, ProcessTypes
    <2> QED BY <1>1, <2>1, <2>4, <2>5, <2>6 DEF ProcessTypes, childVars, TypeOK, CallerTypes,
               OutsideTypes, Line, Event
  <1>3. CASE PutEof(s)
    <2>1. /\ queue' = Append(queue, <<s, Eof>>) /\ forwarded' = forwarded
          /\ ended' = [ended EXCEPT ![s] = TRUE]
      BY <1>3 DEF PutEof
    <2>2. queue' \in Seq(Event)
      BY <2>1 DEF ProcessTypes, Event
    <2>3. ended' \in [Streams -> BOOLEAN]
      BY <2>1 DEF ProcessTypes
    <2> QED BY <1>1, <2>1, <2>2, <2>3
            DEF ProcessTypes, Behind, childVars, TypeOK, CallerTypes, OutsideTypes, Line, Event
  <1> QED BY <1>2, <1>3 DEF Reader

\* The caller takes an event: the line it appends to stderr_lines is a line.
LEMMA GetTypes == ASSUME TInv, Get PROVE TInv'
  <1> USE MediaAssumption, TypeParts DEF TInv, MediaAssumption
  <1>1. UNCHANGED <<childVars, forwarded, ended, after, cancelled, outcome, cancel, late, interrupts>>
        /\ pc' = "poll"
    BY DEF Get, Goto
  <1>2. queue' \in Seq(Event) /\ tail' \in Seq(Line) /\ Len(tail') <= MaxStderrLines
    <2>1. CASE queue = <<>>
      BY <2>1 DEF Get, ProcessTypes, CallerTypes
    <2>2. CASE queue # <<>>
      <3> DEFINE event == Head(queue)
      <3>1. event \in Event /\ Tail(queue) \in Seq(Event)
        BY <2>2 DEF ProcessTypes
      <3>2. CASE event[1] = Stderr /\ event[2] # Eof
        <4>1. event[2] \in Line
          BY <3>1, <3>2 DEF Event
        <4>2. Append(tail, event[2]) \in Seq(Line)
          BY <4>1 DEF CallerTypes
        <4>3. tail' = Kept(Append(tail, event[2])) /\ queue' = Tail(queue)
          BY <2>2, <3>2 DEF Get
        <4> QED BY <3>1, <4>2, <4>3, KeptType
      <3>3. CASE ~(event[1] = Stderr /\ event[2] # Eof)
        BY <2>2, <3>1, <3>3 DEF Get, CallerTypes
      <3> QED BY <3>2, <3>3
    <2> QED BY <2>1, <2>2
  <1>3. ProcessTypes' /\ Behind'
    BY <1>1, <1>2 DEF ProcessTypes, Behind, childVars
  <1>4. CallerTypes' /\ OutsideTypes'
    BY <1>1, <1>2 DEF CallerTypes, OutsideTypes, Labels
  <1> QED BY <1>3, <1>4 DEF TypeOK, ProcessTypes, CallerTypes, OutsideTypes, Line, Event

\* The other steps of the caller, and those from outside, move it from place to
\* place; the threads' state and the output are not touched.
LEMMA CallerStepTypes ==
    ASSUME TInv,
           \/ StartThreads \/ Poll \/ LookAtQueue \/ Turn
           \/ SendTerminate \/ Grace \/ Kill \/ Finally \/ Join \/ Conclude
           \/ Cancel \/ TimePasses \/ Interrupt
    PROVE  TInv'
  <1> USE MediaAssumption, TypeParts DEF TInv, MediaAssumption
  <1>1. UNCHANGED <<written, readerVars, tail>>
    BY DEF StartThreads, Poll, LookAtQueue, Turn, SendTerminate, Grace, Kill, Finally, Join,
       Conclude,
           Cancel, TimePasses, Interrupt, childVars, callerVars
  <1>2. child' \in Alive \cup Dead /\ asked' \in BOOLEAN
    BY DEF StartThreads, Poll, LookAtQueue, Turn, SendTerminate, Grace, Kill, Finally, Join,
       Conclude,
           Cancel, TimePasses, Interrupt, childVars, ProcessTypes, Alive, Dead
  <1>3. ProcessTypes' /\ Behind'
    BY <1>1, <1>2 DEF ProcessTypes, Behind, readerVars
  <1>4. pc' \in Labels /\ after' \in {"get", "raise", "finally", "join"}
    BY DEF StartThreads, Poll, LookAtQueue, Turn, SendTerminate, Grace, Kill, Finally, Join,
       Conclude,
           Cancel, TimePasses, Interrupt, callerVars, CallerTypes, Labels, Goto, Return, Terminate
  <1>5. cancelled' \in BOOLEAN /\ outcome' \in Outcomes
    BY DEF StartThreads, Poll, LookAtQueue, Turn, SendTerminate, Grace, Kill, Finally, Join,
       Conclude,
           Cancel, TimePasses, Interrupt, callerVars, CallerTypes, Outcomes, Return, Verdict
  <1>6. OutsideTypes'
    <2>1. CASE StartThreads \/ Poll \/ LookAtQueue \/ Turn \/ SendTerminate \/ Grace \/ Kill \/ Finally
               \/ Join \/ Conclude
      <3>1. UNCHANGED <<cancel, late, interrupts>>
        BY <2>1, Zenon DEF StartThreads, Poll, LookAtQueue, Turn, SendTerminate, Grace, Kill,
           Finally, Join,
                           Conclude
      <3> QED BY <3>1 DEF OutsideTypes
    <2>2. CASE Cancel
      BY <2>2 DEF Cancel, OutsideTypes
    <2>3. CASE TimePasses
      BY <2>3 DEF TimePasses, OutsideTypes
    <2>4. CASE Interrupt
      BY <2>4 DEF Interrupt, OutsideTypes
    <2> QED BY <2>1, <2>2, <2>3, <2>4
  <1> QED BY <1>1, <1>3, <1>4, <1>5, <1>6
          DEF TypeOK, ProcessTypes, CallerTypes, OutsideTypes, Line, Event

\* Types hold throughout: what is kept of stderr is bounded whatever the child
\* prints, and no thread forwards a line that was not written.
THEOREM TypeCorrect == Spec => []TypeOK
  <1>1. TInv /\ [Next]_vars => TInv'
    <2> SUFFICES ASSUME TInv, [Next]_vars PROVE TInv'
      OBVIOUS
    <2>1. CASE UNCHANGED vars
      BY <2>1 DEF vars, childVars, readerVars, callerVars, TInv, TypeOK, Behind
    <2> QED BY <2>1, ChildTypes, ReaderTypes, GetTypes, CallerStepTypes DEF Next, Caller
  <1>2. TInv => TypeOK
    BY DEF TInv
  <1> QED BY <1>1, <1>2, InitTInv, PTL DEF Spec
=============================================================================
