------------------------- MODULE HostLifetime_proofs -------------------------
(***************************************************************************)
(* Proofs about HostLifetime and the ControllerLifecycle below it, for     *)
(* every number of lines.  One inductive invariant carries them all, since *)
(* what the controller holds depends on where the main thread is, and what *)
(* the exit status may claim depends on what the controller has released.  *)
(***************************************************************************)
EXTENDS HostLifetime, TLAPS

Resources == {"memory", "storage", "sdk_storage", "paa_store", "verifier",
              "group", "factory", "system_state", "event_loop", "commissioner"}

TypeOK ==
  /\ held \subseteq Resources
  /\ alive \in BOOLEAN /\ abandoned \in BOOLEAN /\ opened \in BOOLEAN
  /\ stage \in {"idle", "acquiring", "setup", "cleanup", "shutdown"}
  /\ action \in {"None", "Setup", "Shutdown"}
  /\ work \in {"none", "scheduled", "running"}
  /\ work_done \in BOOLEAN /\ work_error \in BOOLEAN
  /\ depth \in Nat
  /\ main \in {"line", "reply", "waiting", "opening"} => depth # 0

\* A resource is held only together with the one acquired before it.
Chain ==
  /\ "storage" \in held => "memory" \in held
  /\ "sdk_storage" \in held => "storage" \in held
  /\ "paa_store" \in held => "sdk_storage" \in held
  /\ "verifier" \in held => "paa_store" \in held
  /\ "group" \in held => "verifier" \in held
  /\ "factory" \in held => "group" \in held
  /\ "system_state" \in held => "factory" \in held
  /\ "event_loop" \in held => "system_state" \in held
  /\ "commissioner" \in held => "event_loop" \in held

\* The SDK's commissioner does not outlive the one the controller holds.
Owner ==
  /\ alive => "commissioner" \in held \/ abandoned
  /\ stage = "shutdown" /\ work_done => ~alive \/ abandoned

\* The errand of Execute: whose work it is, and what the host thread holds
\* while it waits for it.
Errand ==
  /\ work # "none" => ~work_done /\ (\/ action = "Setup" /\ stage = "setup"
                                     \/ action = "Shutdown" /\ stage = "shutdown")
  /\ stage = "acquiring" => "commissioner" \notin held
  /\ stage = "setup" => "event_loop" \in held
  /\ stage = "setup" /\ work_done /\ ~work_error => "commissioner" \in held
  /\ stage = "shutdown" => "commissioner" \in held

\* Where the main thread is while the controller is at work, and what it
\* finds when the controller has finished.
Place ==
  /\ stage # "idle" => main \in {"opening", "cleanup"} /\ ~opened
  /\ stage = "idle" => held = IF opened THEN Resources ELSE {}
  /\ main = "opening" => protocol = "AwaitOpen" /\ (outcome = "ok" => opened)
  /\ main = "cleanup" => protocol = "Closed" /\ stage \in {"idle", "cleanup", "shutdown"}
  /\ protocol = "Open" => opened
  /\ opened => protocol # "Closed"

\* What RunHost has found out when it returns stays true until the exit.
Verdict ==
  /\ main \in {"joining", "succeeded", "unsuccessful"} => protocol = "Closed" /\ depth = 0
  /\ main = "succeeded" => Healthy /\ ~invalid_input /\ ~dispatch_failed /\ writer = "ended"
  /\ exit = "success" => main = "succeeded"
  /\ exit = "failure" => main = "unsuccessful"

IInv == TypeOK /\ Chain /\ Owner /\ Errand /\ Place /\ Verdict

-----------------------------------------------------------------------------
(* The chain of resources.                                                 *)

\* The resources by name.
LEMMA EverythingIs == Everything = Resources
  <1>1. DOMAIN Acquired = 1..9 BY DEF Acquired
  <1>2. {Acquired[i] : i \in 1..9} =
          {"memory", "storage", "sdk_storage", "paa_store", "verifier",
           "group", "factory", "system_state", "event_loop"}
    BY DEF Acquired
  <1> QED BY <1>1, <1>2 DEF Everything, Resources

\* What Open acquires next, and what it already has.
LEMMA AcquiresNext ==
  ASSUME NEW r, Acquires(r)
  PROVE  /\ r \in Resources \ {"commissioner"}
         /\ r = "storage" => "memory" \in held
         /\ r = "sdk_storage" => "storage" \in held
         /\ r = "paa_store" => "sdk_storage" \in held
         /\ r = "verifier" => "paa_store" \in held
         /\ r = "group" => "verifier" \in held
         /\ r = "factory" => "group" \in held
         /\ r = "system_state" => "factory" \in held
         /\ r = "event_loop" => "system_state" \in held
  <1>1. DOMAIN Acquired = 1..9 BY DEF Acquired
  <1>2. PICK i \in 1..9 : Acquired[i] = r /\ \A j \in 1..(i - 1) : Acquired[j] \in held
    BY <1>1 DEF Acquires
  <1>3. i > 1 => Acquired[i - 1] \in held BY <1>2
  <1> QED BY <1>2, <1>3 DEF Acquired, Resources

\* What Cleanup releases next, and what it no longer has.
LEMMA ReleasesNext ==
  ASSUME NEW r, Releases(r)
  PROVE  /\ r \in Resources \ {"commissioner", "event_loop"}
         /\ r = "memory" => "storage" \notin held
         /\ r = "storage" => "sdk_storage" \notin held
         /\ r = "sdk_storage" => "paa_store" \notin held
         /\ r = "paa_store" => "verifier" \notin held
         /\ r = "verifier" => "group" \notin held
         /\ r = "group" => "factory" \notin held
         /\ r = "factory" => "system_state" \notin held
  <1>1. DOMAIN Released = 1..8 BY DEF Released
  <1>2. PICK i \in 1..8 : Released[i] = r /\ \A j \in 1..(i - 1) : Released[j] \notin held
    BY <1>1 DEF Releases
  <1>3. i > 1 => Released[i - 1] \notin held BY <1>2
  <1> QED BY <1>2, <1>3 DEF Released, Resources

\* With the chain whole, each resource has what it was given.
LEMMA ChainNeeds == ASSUME TypeOK, Chain PROVE \A r \in held : Needs[r] \subseteq held
  <1> SUFFICES ASSUME NEW r \in held PROVE Needs[r] \subseteq held OBVIOUS
  <1>1. r \in Everything /\ r \in Resources BY EverythingIs DEF TypeOK
  <1> QED BY <1>1 DEF Needs, Chain, Resources
-----------------------------------------------------------------------------
(* The inductive invariant.                                                *)

\* A process that starts.
LEMMA InitIInv == Init => IInv
  <1> SUFFICES ASSUME Init PROVE IInv OBVIOUS
  <1> USE DEF Init, ControllerInit
  <1>1. TypeOK /\ Chain /\ Owner BY DEF TypeOK, Chain, Owner
  <1>2. Errand /\ Place BY DEF Errand, Place
  <1>3. Verdict BY DEF Verdict
  <1> QED BY <1>1, <1>2, <1>3 DEF IInv

USE DEF execute, controller, loop, channel, input, session, process, Moves, Alive

\* The main thread outside of Open and Cleanup: the controller is left alone.
LEMMA MainStep ==
  ASSUME IInv,
         \/ Check \/ Poll \/ TailClose \/ Dispatch \/ EndsSession \/ FlowOpen \/ Answer
         \/ RefuseAck \/ Operate \/ OpenReturns \/ Wait \/ Closed \/ Join \/ EndWatch \/ Exit
  PROVE  IInv'
  <1> USE DEF IInv
  <1>1. CASE Check
    BY <1>1 DEF Check, TypeOK, Chain, Owner, Errand, Place, Verdict, Healthy
  <1>2. CASE Poll
    BY <1>2 DEF Poll, ReadsLine, ReadsEnd, TypeOK, Chain, Owner, Errand, Place, Verdict, Healthy
  <1>3. CASE TailClose
    BY <1>3 DEF TailClose, TailCloses, TypeOK, Chain, Owner, Errand, Place, Verdict, Healthy
  <1>4. CASE Dispatch
    BY <1>4 DEF Dispatch, DispatchEnds, TailCloses, TypeOK, Chain, Owner, Errand, Place, Verdict, Healthy
  <1>5. CASE EndsSession
    BY <1>5 DEF EndsSession, CloseLine, Remembers, TypeOK, Chain, Owner, Errand, Place, Verdict, Healthy
  <1>6. CASE FlowOpen
    BY <1>6 DEF FlowOpen, AnswersLine, TypeOK, Chain, Owner, Errand, Place, Verdict, Healthy
  <1>7. CASE Answer
    BY <1>7 DEF Answer, AnswersLine, TypeOK, Chain, Owner, Errand, Place, Verdict, Healthy
  <1>8. CASE RefuseAck
    BY <1>8 DEF RefuseAck, ChannelFails, CloseLine, Remembers, TypeOK, Chain, Owner, Errand, Place, Verdict, Healthy
  <1>9. CASE Operate
    BY <1>9 DEF Operate, TypeOK, Chain, Owner, Errand, Place, Verdict, Healthy
  <1>10. CASE OpenReturns
    BY <1>10 DEF OpenReturns, TypeOK, Chain, Owner, Errand, Place, Verdict, Healthy
  <1>11. CASE WaitEnds
    BY <1>11 DEF WaitEnds, OperationReturns, TypeOK, Chain, Owner, Errand, Place, Verdict, Healthy
  <1>12. CASE PumpLine
    BY <1>12 DEF PumpLine, ReadsLine, TypeOK, Chain, Owner, Errand, Place, Verdict, Healthy
  <1>13. CASE PumpEnd
    BY <1>13 DEF PumpEnd, ReadsEnd, TypeOK, Chain, Owner, Errand, Place, Verdict, Healthy
  <1>14. CASE PumpStops
    BY <1>14 DEF PumpStops, OperationReturns, Remembers, TypeOK, Chain, Owner, Errand, Place, Verdict, Healthy
  <1>15. CASE Closed
    BY <1>15 DEF Closed, AfterClose, TypeOK, Chain, Owner, Errand, Place, Verdict, Healthy
  <1>16. CASE Join
    BY <1>16 DEF Join, TypeOK, Chain, Owner, Errand, Place, Verdict, Healthy
  <1>17. CASE EndWatch
    BY <1>17 DEF EndWatch, TypeOK, Chain, Owner, Errand, Place, Verdict, Healthy
  <1>18. CASE Exit
    BY <1>18 DEF Exit, TypeOK, Chain, Owner, Errand, Place, Verdict, Healthy
  <1> QED BY <1>1, <1>2, <1>3, <1>4, <1>5, <1>6, <1>7, <1>8, <1>9, <1>10, <1>11, <1>12, <1>13, <1>14, <1>15, <1>16, <1>17, <1>18 DEF Wait

\* The main thread enters Open or Cleanup.
LEMMA EnterStep == ASSUME IInv, OpenRequest \/ Close PROVE IInv'
  <1> USE DEF IInv
  <1>1. CASE OpenRequest
    BY <1>1 DEF OpenRequest, OpenBegins, TypeOK, Chain, Owner, Errand, Place, Verdict, Healthy
  <1>2. CASE Close
    <2> USE <1>2 DEF Close, CloseBegins, CleanupBegins, AfterClose, Resources
    <2>1. TypeOK'
      <3>1. CASE opened BY <3>1 DEF TypeOK
      <3>2. CASE ~opened
        <4>1. UNCHANGED <<controller, depth>> /\ main' = IF depth > 0 THEN "reply" ELSE "joining"
          BY <3>2
        <4> QED BY <4>1 DEF TypeOK
      <3> QED BY <3>1, <3>2
    <2>2. Chain' BY DEF Chain
    <2>3. Owner' BY DEF Owner, TypeOK, Errand
    <2>4. Errand' BY DEF Errand, TypeOK, Chain, Place
    <2>5. Place' BY DEF Place, TypeOK, Errand
    <2>6. Verdict' BY DEF Verdict, Healthy, TypeOK, Place
    <2> QED BY <2>1, <2>2, <2>3, <2>4, <2>5, <2>6
  <1> QED BY <1>1, <1>2

\* A step of Open.
LEMMA OpenStep ==
  ASSUME IInv, Controls(Acquire \/ AcquireFails \/ ExecuteSetup \/ SetupReturns)
  PROVE  IInv'
  <1> USE DEF IInv, Controls
  <1>1. CASE Acquire
    <2>1. PICK r : Acquires(r) /\ held' = held \cup {r} BY <1>1 DEF Acquire
    <2>2. stage = "acquiring" /\ UNCHANGED <<alive, abandoned, opened, stage, outcome, execute, sdk>>
      BY <1>1, <2>1 DEF Acquire, Acquires
    <2>3. TypeOK' BY <2>1, <2>2, AcquiresNext DEF TypeOK
    <2>4. Chain' BY <2>1, <2>2, AcquiresNext DEF Chain
    <2>5. Owner' BY <2>1, <2>2 DEF Owner
    <2>6. Errand' BY <2>1, <2>2, AcquiresNext DEF Errand
    <2>7. Place' /\ Verdict' BY <2>2 DEF Place, Verdict, Healthy
    <2> QED BY <2>3, <2>4, <2>5, <2>6, <2>7
  <1>2. CASE AcquireFails
    <2> USE <1>2 DEF AcquireFails, Acquires, CleanupBegins
    <2>1. TypeOK' BY DEF TypeOK
    <2>2. Chain' BY DEF Chain
    <2>3. Owner' BY DEF Owner, TypeOK, Errand
    <2>4. Errand' BY DEF Errand, TypeOK, Chain, Place
    <2>5. Place' BY DEF Place, TypeOK, Errand
    <2>6. Verdict' BY DEF Verdict, Healthy, TypeOK, Place
    <2> QED BY <2>1, <2>2, <2>3, <2>4, <2>5, <2>6
  <1>3. CASE ExecuteSetup
    <2> USE <1>3, EverythingIs DEF ExecuteSetup, Schedules, NotScheduled, CleanupBegins, Resources
    <2>1. TypeOK' BY DEF TypeOK, Place
    <2>2. Chain' BY DEF Chain
    <2>3. Owner' BY DEF Owner, TypeOK, Errand
    <2>4. Errand' BY DEF Errand, TypeOK, Chain, Place
    <2>5. Place' BY DEF Place, TypeOK, Errand
    <2>6. Verdict' BY DEF Verdict, Healthy, TypeOK, Place
    <2> QED BY <2>1, <2>2, <2>3, <2>4, <2>5, <2>6
  <1>4. CASE SetupReturns
    BY <1>4 DEF SetupReturns, WaitIsOver, CleanupBegins, TypeOK, Chain, Owner, Errand, Place,
                Verdict, Healthy, Resources
  <1> QED BY <1>1, <1>2, <1>3, <1>4

\* A step of Cleanup.
LEMMA CleanupStep ==
  ASSUME IInv,
         Controls(ExecuteShutdown \/ ShutdownReturns \/ StopEventLoop \/ Release \/ CleanupReturns)
  PROVE  IInv'
  <1> USE DEF IInv, Controls
  <1>1. CASE ExecuteShutdown
    BY <1>1 DEF ExecuteShutdown, ShutsDown, Schedules, NotScheduled, TypeOK, Chain, Owner,
                Errand, Place, Verdict, Healthy
  <1>2. CASE ShutdownReturns
    BY <1>2 DEF ShutdownReturns, WaitIsOver, TypeOK, Chain, Owner, Errand, Place, Verdict, Healthy
  <1>3. CASE StopEventLoop
    BY <1>3 DEF StopEventLoop, ShutsDown, TypeOK, Chain, Owner, Errand, Place, Verdict, Healthy
  <1>4. CASE Release
    <2>1. PICK r : Releases(r) /\ held' = held \ {r} BY <1>4 DEF Release
    <2>2. /\ stage = "cleanup" /\ "event_loop" \notin held
          /\ UNCHANGED <<alive, abandoned, opened, stage, outcome, execute, sdk>>
      BY <1>4 DEF Release
    <2>3. TypeOK' BY <2>1, <2>2 DEF TypeOK
    <2>4. Chain' BY <2>1, <2>2, ReleasesNext DEF Chain
    <2>5. Owner' BY <2>1, <2>2, ReleasesNext DEF Owner
    <2>6. Errand' BY <2>1, <2>2 DEF Errand
    <2>7. Place' /\ Verdict' BY <2>2 DEF Place, Verdict, Healthy
    <2> QED BY <2>3, <2>4, <2>5, <2>6, <2>7
  <1>5. CASE CleanupReturns
    BY <1>5 DEF CleanupReturns, TypeOK, Chain, Owner, Errand, Place, Verdict, Healthy
  <1> QED BY <1>1, <1>2, <1>3, <1>4, <1>5

\* A step of the SDK thread, and the timeout of Execute.
LEMMA SdkStep ==
  ASSUME IInv, Controls(SdkSteps) \/ Controls(SdkSticks) \/ Controls(ExecuteOverdue)
  PROVE  IInv'
  <1> USE DEF IInv, Controls
  <1>1. CASE Controls(WorkBegins)
    BY <1>1 DEF WorkBegins, TypeOK, Chain, Owner, Errand, Place, Verdict, Healthy
  <1>2. CASE Controls(SetupWork)
    <2>1. PICK set_up, failing \in BOOLEAN :
            /\ set_up \/ failing
            /\ alive' = set_up
            /\ held' = IF set_up THEN held \cup {"commissioner"} ELSE held
            /\ WorkReturns(failing)
      BY <1>2 DEF SetupWork
    <2>2. action = "Setup" /\ stage = "setup" /\ "event_loop" \in held
      BY <1>2, <2>1 DEF SetupWork, WorkReturns, Errand
    <2> USE <2>1, <2>2, <1>2 DEF WorkReturns
    <2>3. TypeOK' BY DEF TypeOK, Resources
    <2>4. Chain' BY DEF Chain
    <2>5. Owner' BY DEF Owner
    <2>6. Errand' BY DEF Errand
    <2>7. Place' /\ Verdict' BY DEF Place, Verdict, Healthy
    <2> QED BY <2>3, <2>4, <2>5, <2>6, <2>7
  <1>3. CASE Controls(ShutdownWork)
    BY <1>3 DEF ShutdownWork, WorkReturns, TypeOK, Chain, Owner, Errand, Place, Verdict, Healthy
  <1>4. CASE Controls(SdkSticks)
    BY <1>4 DEF SdkSticks, TypeOK, Chain, Owner, Errand, Place, Verdict, Healthy
  <1>5. CASE Controls(ExecuteOverdue)
    BY <1>5 DEF ExecuteOverdue, TypeOK, Chain, Owner, Errand, Place, Verdict, Healthy
  <1> QED BY <1>1, <1>2, <1>3, <1>4, <1>5 DEF SdkSteps

\* The writer, the watcher, the callbacks and the peer.
LEMMA OtherStep ==
  ASSUME IInv,
         \/ CallbackFails \/ EnqueueRefused \/ WriterSticks \/ WriterFails \/ WriterEnds
         \/ WatchSees \/ WatchEnds \/ GraceExpires \/ PeerWrites \/ PeerOverruns
         \/ PeerCloses
  PROVE  IInv'
  <1> USE DEF IInv
  <1>1. CASE CallbackFails
    BY <1>1 DEF CallbackFails, ChannelFails, TypeOK, Chain, Owner, Errand, Place, Verdict, Healthy
  <1>2. CASE EnqueueRefused
    BY <1>2 DEF EnqueueRefused, OutputFails, TypeOK, Chain, Owner, Errand, Place, Verdict, Healthy
  <1>3. CASE WriterSticks
    BY <1>3 DEF WriterSticks, TypeOK, Chain, Owner, Errand, Place, Verdict, Healthy
  <1>4. CASE WriterFails
    BY <1>4 DEF WriterFails, OutputFails, TypeOK, Chain, Owner, Errand, Place, Verdict, Healthy
  <1>5. CASE WriterEnds
    BY <1>5 DEF WriterEnds, TypeOK, Chain, Owner, Errand, Place, Verdict, Healthy
  <1>6. CASE WatchSees
    BY <1>6 DEF WatchSees, WatchMoves, TypeOK, Chain, Owner, Errand, Place, Verdict, Healthy
  <1>7. CASE WatchEnds
    BY <1>7 DEF WatchEnds, WatchMoves, TypeOK, Chain, Owner, Errand, Place, Verdict, Healthy
  <1>8. CASE GraceExpires
    BY <1>8 DEF GraceExpires, TypeOK, Chain, Owner, Errand, Place, Verdict, Healthy
  <1>9. CASE PeerWrites
    BY <1>9 DEF PeerWrites, TypeOK, Chain, Owner, Errand, Place, Verdict, Healthy
  <1>10. CASE PeerOverruns
    BY <1>10 DEF PeerOverruns, TypeOK, Chain, Owner, Errand, Place, Verdict, Healthy
  <1>11. CASE PeerCloses
    BY <1>11 DEF PeerCloses, TypeOK, Chain, Owner, Errand, Place, Verdict, Healthy
  <1> QED BY <1>1, <1>2, <1>3, <1>4, <1>5, <1>6, <1>7, <1>8, <1>9, <1>10, <1>11

\* Every step keeps the invariant.
LEMMA IInvStep == IInv /\ [Next]_vars => IInv'
  <1> SUFFICES ASSUME IInv, [Next]_vars PROVE IInv' OBVIOUS
  <1>1. CASE Main
    BY <1>1, MainStep, EnterStep DEF Main, Line
  <1>2. CASE Controls(ControllerSteps)
    BY <1>2, OpenStep, CleanupStep DEF ControllerSteps, Controls
  <1>3. CASE Controls(SdkSteps) BY <1>3, SdkStep
  <1>4. CASE Faults BY <1>4, SdkStep, OtherStep DEF Faults
  <1>5. CASE UNCHANGED vars
    BY <1>5 DEF vars, IInv, TypeOK, Chain, Owner, Errand, Place, Verdict, Healthy
  <1> QED BY <1>1, <1>2, <1>3, <1>4, <1>5, OtherStep DEF Next

\* The invariant holds always.
LEMMA IInvCorrect == Spec => []IInv
  BY InitIInv, IInvStep, PTL DEF Spec

\* Resources are released only after all that use them, on every failure of
\* Open and on every close (Controller::Cleanup).
THEOREM UnwoundCorrect == Spec => []UnwoundInOrder
  <1>1. IInv => UnwoundInOrder BY ChainNeeds DEF IInv, Owner, UnwoundInOrder
  <1> QED BY IInvCorrect, <1>1, PTL

\* Work runs only for the Execute that waits for it.
THEOREM OwnWorkCorrect == Spec => []OwnWork
  <1>1. IInv => OwnWork BY DEF IInv, Errand, OwnWork
  <1> QED BY IInvCorrect, <1>1, PTL

\* Between two operations of the controller everything is held or nothing,
\* and a process that ends by itself holds nothing.
THEOREM WholeOrNothingCorrect == Spec => []WholeOrNothing
  <1>1. IInv => WholeOrNothing BY EverythingIs DEF IInv, Place, Verdict, WholeOrNothing
  <1> QED BY IInvCorrect, <1>1, PTL

\* Exit status 0 is true: no failure after RunHost's verdict, and none
\* forgotten before it.
THEOREM SuccessCorrect == Spec => []SuccessIsHonest
  <1>1. IInv => SuccessIsHonest BY DEF IInv, Verdict, SuccessIsHonest
  <1> QED BY IInvCorrect, <1>1, PTL
=============================================================================
