------------------------ MODULE ControllerLifecycle ------------------------
(***************************************************************************)
(* Open and Cleanup of the controller (native/src/controller.cpp): a chain *)
(* of resources that Open acquires one after the other, the setup of the   *)
(* commissioner on the SDK thread, and the Cleanup that every failure and  *)
(* every close runs.                                                       *)
(*                                                                         *)
(* The two threads meet in Execute: the host thread writes action_,        *)
(* schedules Work and waits; Work reads action_ when the event loop comes  *)
(* to it.  When the wait has timed out Execute goes on to wait, without a  *)
(* bound, until Work has returned.                                         *)
(***************************************************************************)
EXTENDS Naturals, Sequences

VARIABLES
  held,                  \* resources acquired: the flags and owning pointers
  alive,                 \* the SDK's commissioner is set up
  abandoned,             \* the SDK did not take the work that shuts it down
  opened,                \* open_
  stage,                 \* where the host thread is in Open or Cleanup
  outcome,               \* result of the last Open
  action,                \* action_
  work,                  \* Work: "none", "scheduled" or "running"
  work_done,             \* work_done_
  work_error,            \* work_error_ is an error
  overdue,               \* wait_for of Execute has timed out
  sdk                    \* SDK: "ready", or "stuck" and never answering again

execute == <<action, work, work_done, work_error, overdue>>
controller == <<held, alive, abandoned, opened, stage, outcome, execute, sdk>>

\* The order of Open and the order of Cleanup.
Acquired == <<"memory", "storage", "sdk_storage", "paa_store", "verifier",
              "group", "factory", "system_state", "event_loop">>
Released == <<"system_state", "factory", "group", "verifier", "paa_store",
              "sdk_storage", "storage", "memory">>

Everything == {Acquired[i] : i \in DOMAIN Acquired} \cup {"commissioner"}

\* What a resource was given when it was made, and uses until it is released.
Needs == [r \in Everything |->
  CASE r = "memory"       -> {}
    [] r = "storage"      -> {"memory"}
    [] r = "sdk_storage"  -> {"storage"}
    [] r = "paa_store"    -> {"memory"}
    [] r = "verifier"     -> {"paa_store"}
    [] r = "group"        -> {"storage"}
    [] r = "factory"      -> {"storage", "sdk_storage", "group"}
    [] r = "system_state" -> {"factory"}
    [] r = "event_loop"   -> {"system_state"}
    [] r = "commissioner" -> {"event_loop", "factory", "verifier", "group", "storage"}]

ControllerInit ==
  /\ held = {}
  /\ alive = FALSE
  /\ abandoned = FALSE
  /\ opened = FALSE
  /\ stage = "idle"
  /\ outcome = "none"
  /\ action = "None"
  /\ work = "none"
  /\ work_done = FALSE
  /\ work_error = TRUE
  /\ overdue = FALSE
  /\ sdk = "ready"

-----------------------------------------------------------------------------
(* Open.                                                                   *)

OpenBegins ==
  /\ ~opened /\ "memory" \notin held
  /\ stage' = "acquiring"
  /\ outcome' = "none"
  /\ UNCHANGED <<held, alive, abandoned, opened, execute, sdk>>

\* The next resource of the chain.
Acquires(r) ==
  /\ stage = "acquiring"
  /\ \E i \in DOMAIN Acquired :
       /\ Acquired[i] = r
       /\ r \notin held
       /\ \A j \in 1..(i - 1) : Acquired[j] \in held

Acquire ==
  /\ \E r \in Everything : Acquires(r) /\ held' = held \cup {r}
  /\ UNCHANGED <<alive, abandoned, opened, stage, outcome, execute, sdk>>

\* Cleanup begins: open_ and accepting_interactions_ are cleared.
CleanupBegins == stage' = "cleanup" /\ opened' = FALSE

\* Every step can fail but RetainSystemState; what Open acquired so far is
\* released by Cleanup.
AcquireFails ==
  /\ \E r \in Everything \ {"system_state"} : Acquires(r)
  /\ CleanupBegins
  /\ outcome' = "failed"
  /\ UNCHANGED <<held, alive, abandoned, execute, sdk>>

-----------------------------------------------------------------------------
(* Execute and Work.                                                       *)

\* The work is scheduled.
Schedules(a) ==
  /\ action' = a
  /\ work_done' = FALSE
  /\ work_error' = TRUE
  /\ overdue' = FALSE
  /\ work' = "scheduled"

\* ScheduleWork returns an error, and so does Execute.
NotScheduled(a) ==
  /\ action' = a
  /\ work_done' = FALSE
  /\ work_error' = TRUE
  /\ UNCHANGED <<work, overdue>>

ExecuteSetup ==
  /\ stage = "acquiring"
  /\ held = Everything \ {"commissioner"}
  /\ \/ Schedules("Setup") /\ stage' = "setup" /\ UNCHANGED <<opened, outcome>>
     \/ NotScheduled("Setup") /\ CleanupBegins /\ outcome' = "failed"
  /\ UNCHANGED <<held, alive, abandoned, sdk>>

\* The event loop runs Work; nothing else runs on that thread meanwhile.
WorkBegins ==
  /\ work = "scheduled"
  /\ "event_loop" \in held
  /\ sdk = "ready"
  /\ work' = "running"
  /\ UNCHANGED <<held, alive, abandoned, opened, stage, outcome, action,
                 work_done, work_error, overdue, sdk>>

WorkReturns(failed) ==
  /\ work = "running"
  /\ sdk = "ready"
  /\ work' = "none"
  /\ work_done' = TRUE
  /\ work_error' = failed
  /\ UNCHANGED <<abandoned, opened, stage, outcome, action, overdue, sdk>>

\* SetupOnSdkThread fails before the commissioner is set up, or after it (the
\* identity or the IPK), or succeeds.
SetupWork ==
  /\ action = "Setup"
  /\ \E set_up, failed \in BOOLEAN :
       /\ set_up \/ failed
       /\ alive' = set_up
       /\ held' = IF set_up THEN held \cup {"commissioner"} ELSE held
       /\ WorkReturns(failed)

\* All operations are aborted and the commissioner is shut down.
ShutdownWork ==
  /\ action = "Shutdown"
  /\ WorkReturns(FALSE)
  /\ alive' = FALSE
  /\ UNCHANGED held

ExecuteOverdue ==
  /\ stage \in {"setup", "shutdown"}
  /\ ~work_done /\ ~overdue
  /\ overdue' = TRUE
  /\ UNCHANGED <<held, alive, abandoned, opened, stage, outcome, action, work,
                 work_done, work_error, sdk>>

\* Mutant of WaitIsOver: Execute returns as soon as its timeout has passed.
WaitIsOverAtTimeout == work_done \/ overdue

WaitIsOver == work_done

\* Execute(Setup) returns to Open.
SetupReturns ==
  /\ stage = "setup"
  /\ WaitIsOver
  /\ IF work_error \/ overdue
       THEN CleanupBegins /\ outcome' = IF overdue THEN "timeout" ELSE "failed"
       ELSE stage' = "idle" /\ opened' = TRUE /\ outcome' = "ok"
  /\ UNCHANGED <<held, alive, abandoned, execute, sdk>>

-----------------------------------------------------------------------------
(* Cleanup.                                                                *)

\* Mutant of ShutsDown: a commissioner is shut down only by a close.
ShutsDownWhenOpen == "commissioner" \in held /\ outcome = "ok"

ShutsDown == {"commissioner", "event_loop"} \subseteq held

\* Execute(Shutdown); its result is not looked at.
ExecuteShutdown ==
  /\ stage = "cleanup"
  /\ ShutsDown
  /\ \/ Schedules("Shutdown") /\ stage' = "shutdown" /\ UNCHANGED <<held, abandoned>>
     \/ /\ NotScheduled("Shutdown")
        /\ held' = held \ {"commissioner"}
        /\ abandoned' = TRUE
        /\ UNCHANGED stage
  /\ UNCHANGED <<alive, opened, outcome, sdk>>

ShutdownReturns ==
  /\ stage = "shutdown"
  /\ WaitIsOver
  /\ stage' = "cleanup"
  /\ held' = held \ {"commissioner"}
  /\ UNCHANGED <<alive, abandoned, opened, outcome, execute, sdk>>

\* StopEventLoopTask joins the SDK thread.
StopEventLoop ==
  /\ stage = "cleanup"
  /\ ~ShutsDown
  /\ "event_loop" \in held
  /\ sdk = "ready" /\ work # "running"
  /\ held' = held \ {"event_loop"}
  /\ UNCHANGED <<alive, abandoned, opened, stage, outcome, execute, sdk>>

\* The next of Cleanup's remaining statements that has something to release.
Releases(r) ==
  \E i \in DOMAIN Released :
    Released[i] = r /\ r \in held /\ \A j \in 1..(i - 1) : Released[j] \notin held

Release ==
  /\ stage = "cleanup"
  /\ ~ShutsDown /\ "event_loop" \notin held
  /\ \E r \in held : Releases(r) /\ held' = held \ {r}
  /\ UNCHANGED <<alive, abandoned, opened, stage, outcome, execute, sdk>>

CleanupReturns ==
  /\ stage = "cleanup"
  /\ held = {}
  /\ stage' = "idle"
  /\ UNCHANGED <<held, alive, abandoned, opened, outcome, execute, sdk>>

\* Close of the controller.
CloseBegins ==
  /\ CleanupBegins
  /\ UNCHANGED <<held, alive, abandoned, outcome, execute, sdk>>

SdkSticks ==
  /\ sdk = "ready"
  /\ "event_loop" \in held
  /\ sdk' = "stuck"
  /\ UNCHANGED <<held, alive, abandoned, opened, stage, outcome, execute>>

ControllerSteps ==
  \/ Acquire \/ AcquireFails \/ ExecuteSetup \/ SetupReturns
  \/ ExecuteShutdown \/ ShutdownReturns \/ StopEventLoop \/ Release \/ CleanupReturns

SdkSteps == WorkBegins \/ SetupWork \/ ShutdownWork
-----------------------------------------------------------------------------
(* Properties.                                                             *)

\* Whatever is still held has everything it was given: resources are released
\* only after all that use them, on every failure of Open and on every close,
\* and a commissioner that a late setup left behind is shut down on the SDK
\* thread first.  The one exception is an SDK that does not take the work.
UnwoundInOrder ==
  /\ \A r \in held : Needs[r] \subseteq held
  /\ alive => "commissioner" \in held \/ abandoned

\* Work never runs for an Execute that has returned, nor with the action of
\* another one: the object it gets stays the one that scheduled it.
OwnWork ==
  work # "none" => stage = (IF action = "Setup" THEN "setup" ELSE "shutdown")
=============================================================================
