---------------------------- MODULE HostLifetime ----------------------------
(***************************************************************************)
(* The life of the native host process: main and RunHost (the thread that  *)
(* reads stdin), the protocol it drives from the first line to the close,  *)
(* the controller below it, the writer thread, and InputLifetime, the      *)
(* watcher that ends a process whose other threads no longer can.          *)
(*                                                                         *)
(* RunHost looks at the health of the channel only between two lines, and  *)
(* waits for the next line without a timeout.  A request that waits for    *)
(* the SDK reads further lines through the control pump, so ProcessLine is *)
(* entered again inside itself, and a close asked for in there can only    *)
(* be remembered.  Open and Cleanup wait without reading.  The watcher     *)
(* sees a closed stdin or a failed channel within one poll and then grants *)
(* one grace period (750 ms), after which it calls _Exit.                  *)
(***************************************************************************)
EXTENDS ControllerLifecycle

CONSTANTS
  LineLimit      \* bound of the model: lines the peer writes to stdin

ASSUME LifetimeAssumption == LineLimit \in Nat

VARIABLES
  main,          \* where the main thread is
  lines,         \* complete lines in stdin, not yet read
  written,       \* lines the peer has written so far
  stdin,         \* "open", "overrun": open within a line that is too long,
                 \* "closed", or "torn": closed within a line
  protocol,      \* HostProtocol::state_
  depth,         \* processing_depth_
  close_requested,
  cancellation,  \* depth of the request behind cancellation_pending_, or 0
  keep,          \* keep_running of the line that is answered next
  channel_failed,\* HostProtocol::channel_failed_
  output,        \* BoundedOutput: healthy_
  writer,        \* writer thread: "running", "stuck" in a write, "ended"
  running,       \* RunHost's running
  invalid_input,
  dispatch_failed,
  watcher,       \* InputLifetime::Watch: "polling", "grace", "ended"
  failed,        \* InputLifetime::failed_
  released,      \* InputLifetime::stopping_, set by its destructor
  exit           \* "none", "success", "failure" or "killed"

loop == <<running, invalid_input, dispatch_failed>>
channel == <<channel_failed, output, failed>>
input == <<lines, written, stdin>>
session == <<protocol, depth, close_requested, cancellation, keep>>
process == <<writer, watcher, released, exit>>
vars == <<main, input, session, channel, loop, process, controller>>

Alive == exit = "none"
Healthy == ~channel_failed /\ output = "healthy"

Init ==
  /\ ControllerInit
  /\ main = "check"
  /\ lines = 0
  /\ written = 0
  /\ stdin = "open"
  /\ protocol = "AwaitFlow"
  /\ depth = 0
  /\ close_requested = FALSE
  /\ cancellation = 0
  /\ keep = TRUE
  /\ channel_failed = FALSE
  /\ output = "healthy"
  /\ writer = "running"
  /\ running = TRUE
  /\ invalid_input = FALSE
  /\ dispatch_failed = FALSE
  /\ watcher = "polling"
  /\ failed = FALSE
  /\ released = FALSE
  /\ exit = "none"

\* A step of the main thread from one place to another.
Moves(from, to) == Alive /\ main = from /\ main' = to

-----------------------------------------------------------------------------
(* RunHost: the loop and the answer to a line.                             *)

\* The loop condition of RunHost.
Check ==
  /\ Moves("check", IF running /\ Healthy THEN "poll" ELSE "close")
  /\ UNCHANGED <<input, session, channel, loop, process, controller>>

\* BoundedInput::Next returns a line, and ProcessLine is entered.
ReadsLine(from) ==
  /\ Moves(from, "line")
  /\ lines > 0
  /\ lines' = lines - 1
  /\ depth' = depth + 1
  /\ UNCHANGED <<written, stdin, protocol, close_requested, cancellation, keep,
                 channel, loop, process, controller>>

\* BoundedInput::Next returns End or Invalid.
ReadsEnd ==
  /\ lines = 0
  /\ stdin # "open"
  /\ invalid_input' = (stdin # "closed")

Poll ==
  \/ ReadsLine("poll")
  \/ /\ Moves("poll", "close")
     /\ ReadsEnd
     /\ UNCHANGED <<input, session, channel, running, dispatch_failed, process,
                    controller>>

\* FailChannel and BoundedOutput::Fail call InputLifetime::Fail.
ChannelFails == channel_failed' = TRUE /\ failed' = TRUE /\ UNCHANGED output
OutputFails == output' = "failed" /\ failed' = TRUE /\ UNCHANGED channel_failed

\* The end of ProcessLine: leaving the outermost line, a close that was only
\* remembered, or a channel that failed meanwhile, is acted upon.
TailCloses == depth = 1 /\ protocol # "Closed" /\ (close_requested \/ channel_failed)

TailClose ==
  /\ Moves("reply", "close")
  /\ TailCloses
  /\ keep' = FALSE
  /\ UNCHANGED <<input, protocol, depth, close_requested, cancellation, channel,
                 loop, process, controller>>

\* dispatch: a line answered after the loop was ended changes nothing; an
\* unhealthy channel or a refused reply or activation ends the loop;
\* otherwise keep_running decides.
DispatchEnds(refused) ==
  IF running
    THEN /\ running' = (keep /\ Healthy /\ ~refused)
         /\ dispatch_failed' = (dispatch_failed \/ ~Healthy \/ refused)
    ELSE UNCHANGED <<running, dispatch_failed>>

Dispatch ==
  /\ Moves("reply", IF depth = 1 THEN "check" ELSE "waiting")
  /\ ~TailCloses
  /\ \E refused \in BOOLEAN : DispatchEnds(refused)
  /\ depth' = depth - 1
  /\ UNCHANGED <<input, protocol, close_requested, cancellation, keep, channel,
                 invalid_input, process, controller>>

-----------------------------------------------------------------------------
(* HostProtocol: one line.                                                 *)

\* RequestClose.
Remembers ==
  /\ close_requested' = TRUE
  /\ protocol' = IF protocol = "Closed" THEN "Closed" ELSE "Closing"

\* Close called for a line: inside another line it is only remembered.
CloseLine ==
  /\ Alive /\ main = "line"
  /\ keep' = FALSE
  /\ IF depth > 1 THEN main' = "reply" /\ Remembers
                  ELSE main' = "close" /\ UNCHANGED <<close_requested, protocol>>
  /\ UNCHANGED <<input, depth, cancellation, loop, process, controller>>

\* A failed channel, a malformed line, one that the state does not allow, a
\* request identifier that does not increase; or the close request.
EndsSession == CloseLine /\ UNCHANGED channel

\* The line is answered at once and the loop goes on.
AnswersLine(state) ==
  /\ Moves("line", "reply")
  /\ ~channel_failed
  /\ protocol' = state
  /\ keep' = TRUE
  /\ UNCHANGED <<input, depth, close_requested, cancellation, channel, loop,
                 process, controller>>

FlowOpen == protocol = "AwaitFlow" /\ AnswersLine("AwaitOpen")

\* health, a report_ack that is accepted, an invalid request, and inside
\* another line a request refused as busy.
Answer == protocol = "Open" /\ AnswersLine("Open")

\* A report_ack that the credit manager refuses.
RefuseAck ==
  /\ protocol = "Open" /\ ~channel_failed
  /\ ChannelFails
  /\ CloseLine

OpenRequest ==
  /\ Moves("line", "opening")
  /\ protocol = "AwaitOpen" /\ ~channel_failed
  /\ OpenBegins
  /\ UNCHANGED <<input, session, channel, loop, process>>

\* Mutant of OpenReturns: a failed open leaves the session open.
OpenReturnsAnyway ==
  /\ stage = "idle"
  /\ Moves("opening", "reply")
  /\ keep' = TRUE
  /\ protocol' = "Open"
  /\ UNCHANGED <<input, depth, close_requested, cancellation, channel, loop,
                 process, controller>>

\* backend_.Open returns; a channel that failed meanwhile suppresses the answer.
OpenReturns ==
  LET suppressed == close_requested \/ channel_failed IN
  /\ stage = "idle"
  /\ Moves("opening", IF outcome = "ok" \/ suppressed THEN "reply" ELSE "close")
  /\ keep' = (outcome = "ok" /\ ~suppressed)
  /\ protocol' = IF keep' THEN "Open" ELSE protocol
  /\ UNCHANGED <<input, depth, close_requested, cancellation, channel, loop,
                 process, controller>>

\* A request that waits for the SDK, and the one cancellation that may do so
\* inside another line.
Operate ==
  /\ Moves("line", "waiting")
  /\ protocol = "Open" /\ ~channel_failed
  /\ \/ depth = 1 /\ UNCHANGED cancellation
     \/ cancellation = 0 /\ cancellation' = depth
  /\ UNCHANGED <<input, protocol, depth, close_requested, keep, channel, loop,
                 process, controller>>

\* The wait is over: the SDK answered or the deadline passed.  A close that
\* was remembered, or a failed channel, suppresses the answer.
OperationReturns(answered) ==
  /\ Moves("waiting", "reply")
  /\ keep' = answered
  /\ cancellation' = IF cancellation = depth THEN 0 ELSE cancellation
  /\ UNCHANGED <<input, depth, channel, loop, process, controller>>

WaitEnds ==
  /\ OperationReturns(~close_requested /\ ~channel_failed)
  /\ UNCHANGED <<protocol, close_requested>>

\* The control pump during a wait: a line, the end of input, or the reason
\* to give up the operation.
PumpLine == running /\ ReadsLine("waiting")

PumpEnd ==
  /\ Alive /\ main = "waiting"
  /\ running /\ ReadsEnd
  /\ running' = FALSE
  /\ UNCHANGED <<main, input, session, channel, dispatch_failed, process, controller>>

PumpStops ==
  /\ ~(running /\ Healthy)
  /\ OperationReturns(FALSE)
  /\ Remembers

\* Where Close returns to.
AfterClose == IF depth > 0 THEN "reply" ELSE "joining"

\* HostProtocol::Close: the backend is closed when it is open.
Close ==
  /\ Moves("close", IF opened THEN "cleanup" ELSE AfterClose)
  /\ protocol' = "Closed"
  /\ IF opened THEN CloseBegins ELSE UNCHANGED controller
  /\ UNCHANGED <<input, depth, close_requested, cancellation, keep, channel,
                 loop, process>>

Closed ==
  /\ stage = "idle"
  /\ Moves("cleanup", AfterClose)
  /\ UNCHANGED <<input, session, channel, loop, process, controller>>

-----------------------------------------------------------------------------
(* The end of the process.                                                 *)

\* Mutant of Join: a failed dispatch does not count.
JoinForgives ==
  /\ Moves("joining", IF ~invalid_input /\ Healthy THEN "succeeded" ELSE "unsuccessful")
  /\ writer = "ended"
  /\ UNCHANGED <<input, session, channel, loop, process, controller>>

\* writer.Stop() returns when the writer thread has ended, and RunHost
\* returns its result.
Join ==
  /\ Moves("joining", IF ~invalid_input /\ ~dispatch_failed /\ Healthy
                        THEN "succeeded" ELSE "unsuccessful")
  /\ writer = "ended"
  /\ UNCHANGED <<input, session, channel, loop, process, controller>>

\* The destructor of InputLifetime: stopping_, then the join of Watch.
EndWatch ==
  /\ Alive
  /\ main \in {"succeeded", "unsuccessful"}
  /\ ~released
  /\ released' = TRUE
  /\ UNCHANGED <<main, input, session, channel, loop, writer, watcher, exit, controller>>

Exit ==
  /\ Alive
  /\ main \in {"succeeded", "unsuccessful"}
  /\ released
  /\ watcher = "ended"
  /\ exit' = IF main = "succeeded" THEN "success" ELSE "failure"
  /\ UNCHANGED <<main, input, session, channel, loop, writer, watcher, released, controller>>

-----------------------------------------------------------------------------
(* The other threads.                                                      *)

\* Open, Cleanup and Work go on while the main thread is inside them.
Controls(steps) ==
  /\ Alive
  /\ steps
  /\ UNCHANGED <<main, input, session, channel, loop, process>>

\* An SDK callback meets an exhausted or malformed channel.
CallbackFails ==
  /\ Alive
  /\ sdk = "ready" /\ "event_loop" \in held
  /\ protocol = "Open"
  /\ ~channel_failed
  /\ ChannelFails
  /\ UNCHANGED <<main, input, session, loop, process, controller>>

\* A report, control frame or reply exceeds its reservation.
EnqueueRefused ==
  /\ Alive
  /\ protocol = "Open" \/ main = "reply"
  /\ output = "healthy"
  /\ OutputFails
  /\ UNCHANGED <<main, input, session, loop, process, controller>>

\* The pipe is full and the peer does not read.
WriterSticks ==
  /\ Alive
  /\ writer = "running"
  /\ writer' = "stuck"
  /\ UNCHANGED <<main, input, session, channel, loop, watcher, released, exit, controller>>

\* The peer has closed stdout: the write fails and the thread returns.
WriterFails ==
  /\ Alive
  /\ writer = "running"
  /\ output = "healthy"
  /\ OutputFails
  /\ writer' = "ended"
  /\ UNCHANGED <<main, input, session, loop, watcher, released, exit, controller>>

\* stopping_ is set by Stop, after which everything pending is written
\* first, or by Fail, which drops it.
WriterEnds ==
  /\ Alive
  /\ writer = "running"
  /\ main = "joining" \/ output = "failed"
  /\ writer' = "ended"
  /\ UNCHANGED <<main, input, session, channel, loop, watcher, released, exit, controller>>

Hangup == stdin \in {"closed", "torn"}

\* Mutant of Alarm: only the hang-up of stdin is watched.
AlarmHangup == Hangup

Alarm == failed \/ Hangup

\* Watch: one turn of the polling loop sees failed_ or the hang-up, and ends
\* when stopping_ is set.
WatchMoves(from, to) ==
  /\ Alive
  /\ watcher \in from
  /\ watcher' = to
  /\ UNCHANGED <<main, input, session, channel, loop, writer, released, exit, controller>>

WatchSees == ~released /\ Alarm /\ WatchMoves({"polling"}, "grace")
WatchEnds == released /\ WatchMoves({"polling", "grace"}, "ended")

\* The grace expires while the destructor has not run.
GraceExpires ==
  /\ Alive
  /\ watcher = "grace"
  /\ ~released
  /\ exit' = "killed"
  /\ UNCHANGED <<main, input, session, channel, loop, writer, watcher, released, controller>>

-----------------------------------------------------------------------------
(* The peer.                                                               *)

PeerWrites ==
  /\ Alive
  /\ stdin = "open"
  /\ written < LineLimit
  /\ written' = written + 1
  /\ lines' = lines + 1
  /\ UNCHANGED <<main, stdin, session, channel, loop, process, controller>>

\* A line longer than a frame: nothing after it is read.
PeerOverruns ==
  /\ Alive
  /\ stdin = "open"
  /\ stdin' = "overrun"
  /\ UNCHANGED <<main, lines, written, session, channel, loop, process, controller>>

PeerCloses ==
  /\ Alive
  /\ ~Hangup
  /\ stdin' \in IF stdin = "open" THEN {"closed", "torn"} ELSE {"torn"}
  /\ UNCHANGED <<main, lines, written, session, channel, loop, process, controller>>

Line == EndsSession \/ FlowOpen \/ Answer \/ RefuseAck \/ OpenRequest \/ Operate
Wait == WaitEnds \/ PumpLine \/ PumpEnd \/ PumpStops
Main == Check \/ Poll \/ TailClose \/ Dispatch \/ Line \/ OpenReturns \/ Wait \/
        Close \/ Closed \/ Join \/ EndWatch \/ Exit
Faults == CallbackFails \/ EnqueueRefused \/ WriterSticks \/ WriterFails \/
          Controls(SdkSticks) \/ Controls(ExecuteOverdue)

Next ==
  \/ Main
  \/ Controls(ControllerSteps)
  \/ Controls(SdkSteps)
  \/ WriterEnds \/ WatchSees \/ WatchEnds \/ GraceExpires
  \/ Faults \/ PeerWrites \/ PeerOverruns \/ PeerCloses

Spec == Init /\ [][Next]_vars

\* Every thread that can move does, and a timer that runs expires.
FairSpec ==
  /\ Spec
  /\ WF_vars(Main)
  /\ WF_vars(Controls(ControllerSteps))
  /\ WF_vars(Controls(SdkSteps))
  /\ WF_vars(WriterEnds)
  /\ WF_vars(WatchSees \/ WatchEnds)
  /\ WF_vars(GraceExpires)
-----------------------------------------------------------------------------
(* Properties.                                                             *)

\* Exit status 0 means that no read, reply, activation, channel or write has
\* failed, that every frame accepted for output was written, and that the
\* controller was taken down: nothing can fail between RunHost's verdict and
\* the exit, and no failure inside a nested line is forgotten.
SuccessIsHonest ==
  exit = "success" =>
    /\ Healthy /\ ~invalid_input /\ ~dispatch_failed /\ writer = "ended"
    /\ protocol = "Closed" /\ depth = 0

\* Between two operations of the controller everything is held or nothing:
\* a session is open only over a whole controller, no failed or overdue
\* start leaves a part of one behind, and a process that ends by itself has
\* released the store.
WholeOrNothing ==
  /\ stage = "idle" => held = IF opened THEN Everything ELSE {}
  /\ protocol = "Open" => opened
  /\ exit \in {"success", "failure"} => held = {} /\ protocol = "Closed"

\* Whatever is stuck, a process that lost its stdin or failed its channel
\* ends: no thread can keep it alive beyond the grace.
Terminates == (Hangup \/ ~Healthy) ~> ~Alive
=============================================================================
