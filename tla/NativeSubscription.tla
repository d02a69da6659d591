------------------------- MODULE NativeSubscription -------------------------
(***************************************************************************)
(* One native subscription (native/src/controller.cpp, NativeSubscription, *)
(* with the SubscriptionBuffer and SubscriptionRecovery it owns) between   *)
(* the two threads that share it.  The SDK thread runs the callbacks of    *)
(* the ReadClient, the recovery timer and the scheduled work items.  The   *)
(* host thread runs the subscribe and unsubscribe requests of HostProtocol *)
(* (native/src/protocol.cpp) and the activation after the reply.           *)
(*                                                                         *)
(* A step is one critical section: whatever is done under one acquisition  *)
(* of mutex_ or of the protocol's subscription_mutex_.  `sdk' and `host'   *)
(* say which section comes next, so every interleaving of the two threads  *)
(* between two sections is a behaviour.  The credit of a stream is         *)
(* ReportCredit's: here a report of a live stream is taken or overflows.   *)
(***************************************************************************)
EXTENDS Naturals, Sequences, FiniteSets, Functions

CONSTANTS
  QueueLimit,            \* queue_limit of the request
  MaximumAttempts,       \* SubscriptionRecovery::kMaximumAttempts, 5
  Paths,                 \* attribute paths of the request
  Events,                \* event identities: path and event number
  EventCacheLimit,       \* identities event_id_cache_ keeps, 1024
  ReportLimit,           \* bound of the model: path results the device sends
  GenerationLimit        \* bound of the model: stream generations

ASSUME SubscriptionAssumption ==
  /\ QueueLimit \in Nat \ {0}
  /\ MaximumAttempts \in Nat \ {0}
  /\ EventCacheLimit \in Nat \ {0}
  /\ ReportLimit \in Nat
  /\ GenerationLimit \in Nat \ {0}

VARIABLES
  response,              \* response_: [ok, generation]
  published,             \* published_
  cancelled,             \* cancelled_
  failure_emitted,       \* failure_emitted_
  cancel_scheduled,      \* cancel_scheduled_
  done,                  \* done_
  buffer,                \* buffer_
  recovery,              \* recovery_
  timer,                 \* the recovery timer: "none", "armed", or only
                         \* "claimed" by recovery_timer_active_
  sdk,                   \* next section of the SDK thread, "idle" in its loop
  after,                 \* the section that follows FailActive or MarkDone
  carried,               \* reports the SDK thread has taken and not emitted
  client,                \* the ReadClient (external)
  reporting,             \* the ReadClient is between report begin and end
  work,                  \* scheduled work of this subscription, in order
  refused,               \* ScheduleWork has failed once
  reaped,                \* Reap has dropped the last owner of the object
  host,                  \* next section of the host thread
  result,                \* what Wait returned
  taken,                 \* reports Activate has taken and not emitted
  asked,                 \* generation of the unsubscribe request
  cancel_ok,             \* result of CancelSubscription
  entry,                 \* HostProtocol's subscriptions_ entry
  live,                  \* generation of the live stream, 0 when none
  wire,                  \* frames written for this subscription
  healthy,               \* HostProtocol::healthy()
  produced               \* path results sent by the device so far

flags == <<response, published, cancelled, failure_emitted, cancel_scheduled, done>>
sdkside == <<sdk, after, carried, client, reporting, timer>>
works == <<work, refused, reaped>>
hostside == <<host, result, taken, asked, cancel_ok>>
protocol == <<entry, live, wire, healthy>>
vars == <<flags, buffer, recovery, sdkside, works, hostside, protocol, produced>>

Frame(kind, generation, n) == [kind |-> kind, generation |-> generation, n |-> n]
ReportFrame(report, thread) ==
  [kind |-> "report", generation |-> report.generation, n |-> report.n,
   id |-> report.id, initial |-> report.initial, thread |-> thread]
NoEntry == [generation |-> 0, resubscribe |-> FALSE, recovering |-> FALSE, attempt |-> 0]

Init ==
  /\ response = [ok |-> FALSE, generation |-> 0]
  /\ published = FALSE
  /\ cancelled = FALSE
  /\ failure_emitted = FALSE
  /\ cancel_scheduled = FALSE
  /\ done = FALSE
  /\ \E kind \in {"attribute", "event"} :
       buffer = [kind |-> kind, active |-> TRUE, in_report |-> FALSE,
                 established |-> FALSE, activated |-> FALSE, buffered |-> << >>,
                 ready |-> << >>, generation |-> 1, current |-> {},
                 initial |-> {}, cache |-> << >>]
  /\ \E resubscribe \in BOOLEAN :
       recovery = [resubscribe |-> resubscribe, enabled |-> resubscribe,
                   recovering |-> FALSE, attempts |-> 0, generation |-> 1]
  /\ timer = "none"
  /\ sdk = "idle"
  /\ after = "idle"
  /\ carried = << >>
  /\ client = "none"
  /\ reporting = FALSE
  /\ work = << >>
  /\ refused = FALSE
  /\ reaped = FALSE
  /\ host = "submit"
  /\ result = [ok |-> FALSE, generation |-> 0]
  /\ taken = << >>
  /\ asked = 0
  /\ cancel_ok = FALSE
  /\ entry = NoEntry
  /\ live = 0
  /\ wire = << >>
  /\ healthy = TRUE
  /\ produced = 0

\* The process goes on: the dispatch loop has not ended.
Running == host # "down" /\ healthy

-----------------------------------------------------------------------------
(* SubscriptionBuffer and SubscriptionRecovery.                            *)

BeginReport(b) ==
  IF b.active /\ ~b.in_report THEN [b EXCEPT !.in_report = TRUE, !.current = {}]
                              ELSE [b EXCEPT !.active = FALSE]

\* What the device can report to the request.
Reportable(b) == IF b.kind = "event" THEN Events ELSE Paths

\* DuplicateInCurrentReport and SuppressedDuplicate: Add takes the result
\* and drops it.
Duplicate(b, id) ==
  \/ id \in b.current
  \/ b.kind = "attribute" /\ ~b.established /\ id \in b.initial
  \/ b.kind = "event" /\ id \in Range(b.cache)

\* Add of a path result that is no protocol-defined duplicate.
CanAdd(b) ==
  /\ b.active /\ b.in_report
  /\ Len(b.buffered) + Len(b.ready) < QueueLimit

\* The oldest identities leave the cache.
Newest(cache) ==
  IF Len(cache) > EventCacheLimit THEN Tail(cache) ELSE cache

\* Add records the identity.
Record(b, id) ==
  IF b.kind = "event"
    THEN [b EXCEPT !.current = @ \cup {id}, !.cache = Newest(Append(@, id))]
    ELSE [b EXCEPT !.current = @ \cup {id},
                   !.initial = IF b.established THEN @ ELSE @ \cup {id}]

AddTo(b, report) ==
  IF b.activated THEN [b EXCEPT !.ready = Append(@, report)]
                 ELSE [b EXCEPT !.buffered = Append(@, report)]

\* current and initial are looked at only inside a report and before the
\* establishment; here they are emptied as soon as they are out of use.
EndReport(b) == [b EXCEPT !.in_report = FALSE, !.current = {}]

CanEstablish(b) == b.active /\ ~b.established
Establish(b) == [b EXCEPT !.established = TRUE, !.initial = {}]

CanPrepare(b, generation) == b.active /\ generation = b.generation + 1

\* PrepareRecovery but for the generation and the event cache, which stays.
Emptied(b) ==
  [b EXCEPT !.in_report = FALSE, !.established = FALSE, !.activated = FALSE,
            !.buffered = << >>, !.ready = << >>, !.current = {}, !.initial = {}]

\* Mutants of PrepareRecovery: the buffer keeps its generation; the event
\* cache is cleared with the rest.
PrepareSameGeneration(b, generation) == Emptied(b)
PrepareForgetful(b, generation) ==
  [Emptied(b) EXCEPT !.generation = generation, !.cache = << >>]

PrepareRecovery(b, generation) == [Emptied(b) EXCEPT !.generation = generation]

ActivateBuffer(b) ==
  IF b.active /\ b.established /\ ~b.activated
    THEN [b EXCEPT !.activated = TRUE, !.ready = @ \o b.buffered, !.buffered = << >>]
    ELSE b

CancelBuffer(b) == [b EXCEPT !.active = FALSE, !.buffered = << >>, !.ready = << >>]
TakeReady(b) == [b EXCEPT !.ready = << >>]

\* SubscriptionRecovery::Next up to the decision.
Recovering(r) ==
  IF r.recovering THEN r
    ELSE [r EXCEPT !.recovering = TRUE, !.attempts = 0, !.generation = @ + 1]
Attempted(r) == [r EXCEPT !.attempts = @ + 1]

Settled(r) == [r EXCEPT !.recovering = FALSE, !.attempts = 0]
CancelRecovery(r) == [Settled(r) EXCEPT !.enabled = FALSE]

-----------------------------------------------------------------------------
(* Sections both threads use.                                              *)

\* Mutant of ScheduleCancel: a subscription that is done is cancelled too.
ScheduleCancelWhenDone ==
  IF cancel_scheduled
    THEN UNCHANGED <<cancel_scheduled, done, work, refused>>
    ELSE /\ cancel_scheduled' = TRUE
         /\ work' = Append(work, "cancel")
         /\ UNCHANGED <<done, refused>>

\* ScheduleCancelLocked.  A refused work item leaves the subscription done.
ScheduleCancel ==
  IF cancel_scheduled \/ done
    THEN UNCHANGED <<cancel_scheduled, done, work, refused>>
    ELSE /\ cancel_scheduled' = TRUE
         /\ \/ work' = Append(work, "cancel") /\ UNCHANGED <<done, refused>>
            \/ done' = TRUE /\ refused' = TRUE /\ UNCHANGED work

\* Mutant of MarkDone: nothing is scheduled to reap the object.
MarkDoneOnly == done' = TRUE /\ UNCHANGED <<work, refused>>

\* MarkDone: the reaping work is scheduled once.
MarkDone ==
  IF done
    THEN UNCHANGED <<done, work, refused>>
    ELSE /\ done' = TRUE
         /\ \/ work' = Append(work, "reap") /\ UNCHANGED refused
            \/ refused' = TRUE /\ UNCHANGED work

\* PublishFailure.
PublishFailure == published' = TRUE /\ UNCHANGED response

\* Writing frames and changing the protocol's record of the subscription.
Emits(frames, e, l) ==
  /\ wire' = wire \o frames
  /\ entry' = e
  /\ live' = l

\* Mutant of EmitReport: the generation of the report is not compared.
EmitReportStale(report, thread) ==
  /\ Emits(<<ReportFrame(report, thread)>>, entry, live)
  /\ UNCHANGED healthy

\* EmitReport: a stale report is dropped; one of the live stream is taken by
\* the credit manager or overflows, which retires the stream.
EmitReport(report, thread) ==
  /\ report.generation = live
  /\ Emits(<<ReportFrame(report, thread)>>, entry, live)
  /\ UNCHANGED healthy
EmitReportRefused(report) ==
  \/ /\ report.generation # live
     /\ UNCHANGED protocol
  \/ /\ report.generation = live
     /\ Emits(<<Frame("error", live, 0), Frame("retired", live, 0)>>, NoEntry, 0)
     /\ UNCHANGED healthy

\* EmitStatus, resubscribing.
StatusAdmitted(generation, attempt) ==
  /\ entry.generation # 0
  /\ entry.resubscribe
  /\ IF entry.recovering
       THEN generation = entry.generation /\ attempt = entry.attempt + 1
       ELSE generation = entry.generation + 1 /\ attempt = 1

EmitResubscribing(generation, attempt) ==
  LET status == Frame("resubscribing", generation, 0)
      next == [entry EXCEPT !.generation = generation, !.recovering = TRUE,
                            !.attempt = attempt]
  IN  /\ StatusAdmitted(generation, attempt)
      /\ entry.recovering \/ live = entry.generation
      /\ Emits(IF entry.recovering THEN <<status>>
                 ELSE <<status, Frame("retired", live, 0)>>,
               next, IF entry.recovering THEN live ELSE generation)
      /\ UNCHANGED healthy

\* EmitStatus, resubscribing: refused, or BeginRecovery fails the channel.
ResubscribingRefused(generation, attempt) ==
  \/ ~StatusAdmitted(generation, attempt) /\ UNCHANGED protocol
  \/ /\ StatusAdmitted(generation, attempt)
     /\ ~entry.recovering /\ live # entry.generation
     /\ healthy' = FALSE
     /\ Emits(<<Frame("resubscribing", generation, 0)>>, entry, live)

\* EmitStatus, resubscribed.
SettleAdmitted(generation, attempt) ==
  /\ entry.generation = generation
  /\ entry.resubscribe
  /\ entry.recovering
  /\ entry.attempt = attempt

-----------------------------------------------------------------------------
(* The SDK thread.                                                         *)

\* Where a callback may start.
SdkIdle == Running /\ sdk = "idle"
Listening == client \in {"priming", "subscribed"}

StartWork ==
  /\ SdkIdle /\ work # << >> /\ Head(work) = "start"
  /\ work' = Tail(work)
  /\ \/ client' = "connecting" /\ sdk' = "idle" /\ UNCHANGED published
     \/ PublishFailure /\ sdk' = "mark" /\ UNCHANGED client
  /\ UNCHANGED <<response, cancelled, failure_emitted, cancel_scheduled, done,
                 buffer, recovery, after, carried, reporting, timer, refused,
                 reaped, hostside, protocol, produced>>

\* CancelOnSdkThread.
CancelWork ==
  /\ SdkIdle /\ work # << >> /\ Head(work) = "cancel"
  /\ work' = Tail(work)
  /\ cancelled' = TRUE
  /\ recovery' = CancelRecovery(recovery)
  /\ buffer' = CancelBuffer(buffer)
  /\ timer' = "none"
  /\ client' = "gone"
  /\ reporting' = FALSE
  /\ sdk' = "mark"
  /\ UNCHANGED <<response, published, failure_emitted, cancel_scheduled, done,
                 after, carried, refused, reaped, hostside, protocol, produced>>

ReapWork ==
  /\ SdkIdle /\ work # << >> /\ Head(work) = "reap"
  /\ work' = Tail(work)
  /\ reaped' = TRUE
  /\ UNCHANGED <<flags, buffer, recovery, sdkside, refused, hostside, protocol,
                 produced>>

Mark ==
  /\ Running /\ sdk = "mark"
  /\ MarkDone
  /\ sdk' = "idle"
  /\ UNCHANGED <<response, published, cancelled, failure_emitted,
                 cancel_scheduled, buffer, recovery, after, carried, client,
                 reporting, timer, reaped, hostside, protocol, produced>>

\* OnConnected, and the failures of the connection and of the submission.
OnConnected ==
  /\ SdkIdle /\ client = "connecting"
  /\ client' = "priming"
  /\ UNCHANGED <<flags, buffer, recovery, sdk, after, carried, reporting, timer,
                 works, hostside, protocol, produced>>

ConnectionFailed ==
  /\ SdkIdle /\ client = "connecting"
  /\ PublishFailure
  /\ client' = "gone"
  /\ sdk' = "mark"
  /\ UNCHANGED <<cancelled, failure_emitted, cancel_scheduled, done, buffer,
                 recovery, after, carried, reporting, timer, works, hostside,
                 protocol, produced>>

OnReportBegin ==
  /\ SdkIdle /\ Listening /\ ~reporting
  /\ produced < ReportLimit
  /\ reporting' = TRUE
  /\ buffer' = BeginReport(buffer)
  /\ UNCHANGED <<flags, recovery, sdk, after, carried, client, timer, works,
                 hostside, protocol, produced>>

\* Calls FailActive next; `then' is what the SDK thread does after it.
Fails(then) == sdk' = "fail" /\ after' = then

\* OnAttributeData or OnEventData: the result is added, dropped as a
\* duplicate, or rejected by its status, by its decoding or by Add.
OnData ==
  /\ SdkIdle /\ Listening /\ reporting
  /\ produced < ReportLimit
  /\ produced' = produced + 1
  /\ \/ /\ \E id \in Reportable(buffer) :
             \/ /\ buffer.active /\ buffer.in_report /\ Duplicate(buffer, id)
                /\ UNCHANGED buffer
             \/ /\ CanAdd(buffer) /\ ~Duplicate(buffer, id)
                /\ buffer' = Record(AddTo(buffer,
                     [generation |-> buffer.generation, n |-> produced + 1,
                      id |-> id, initial |-> ~buffer.established]), id)
        /\ UNCHANGED <<sdk, after>>
     \/ /\ buffer' \in {buffer, [buffer EXCEPT !.active = FALSE]}
        /\ Fails("idle")
  /\ UNCHANGED <<flags, recovery, carried, client, reporting, timer, works,
                 hostside, protocol>>

OnReportEnd ==
  /\ SdkIdle /\ Listening /\ reporting
  /\ reporting' = FALSE
  /\ carried' = buffer.ready
  /\ buffer' = TakeReady(EndReport(buffer))
  /\ sdk' = "emit"
  /\ UNCHANGED <<flags, recovery, after, client, timer, works, hostside,
                 protocol, produced>>

\* Emit on the SDK thread: one report, or the end of the loop.
EmitOne ==
  /\ Running /\ sdk = "emit" /\ carried # << >>
  /\ \/ /\ EmitReport(Head(carried), "sdk")
        /\ carried' = Tail(carried)
        /\ UNCHANGED <<sdk, after>>
     \/ /\ EmitReportRefused(Head(carried))
        /\ carried' = << >>
        /\ sdk' = "cancel" /\ after' = "idle"
  /\ UNCHANGED <<flags, buffer, recovery, client, reporting, timer, works,
                 hostside, produced>>

EmitEnds ==
  /\ Running /\ sdk = "emit" /\ carried = << >>
  /\ sdk' = "idle"
  /\ UNCHANGED <<flags, buffer, recovery, after, carried, client, reporting,
                 timer, works, hostside, protocol, produced>>

\* FailActive: the first failure wins.
FailActive ==
  /\ Running /\ sdk = "fail"
  /\ IF failure_emitted
       THEN sdk' = after /\ UNCHANGED <<flags, buffer>>
       ELSE /\ failure_emitted' = TRUE
            /\ buffer' = CancelBuffer(buffer)
            /\ published' = TRUE
            /\ sdk' = IF response.ok THEN "emitfailure" ELSE "cancel"
            /\ UNCHANGED <<response, cancelled, cancel_scheduled, done>>
  /\ UNCHANGED <<recovery, after, carried, client, reporting, timer, works,
                 hostside, protocol, produced>>

\* Mutant of EmitFailure: a stream that is no longer live fails too.
EmitFailureAlways ==
  /\ Running /\ sdk = "emitfailure"
  /\ Emits(<<Frame("error", recovery.generation, 0)>>, NoEntry, 0)
  /\ sdk' = "cancel"
  /\ UNCHANGED <<flags, buffer, recovery, after, carried, client, reporting,
                 timer, works, hostside, healthy, produced>>

\* EmitFailure: a failure of a stream that is not live is dropped.
EmitFailure ==
  /\ Running /\ sdk = "emitfailure"
  /\ IF live = recovery.generation
       THEN Emits(<<Frame("error", live, 0), Frame("retired", live, 0)>>, NoEntry, 0)
       ELSE UNCHANGED <<wire, entry, live>>
  /\ sdk' = "cancel"
  /\ UNCHANGED <<flags, buffer, recovery, after, carried, client, reporting,
                 timer, works, hostside, healthy, produced>>

SdkCancels ==
  /\ Running /\ sdk = "cancel"
  /\ ScheduleCancel
  /\ sdk' = after
  /\ UNCHANGED <<response, published, cancelled, failure_emitted, buffer,
                 recovery, after, carried, client, reporting, timer, reaped,
                 hostside, protocol, produced>>

\* OnSubscriptionEstablished, with intervals the ReadClient cannot give.
EstablishedWithout ==
  /\ SdkIdle /\ client = "priming" /\ ~reporting
  /\ client' = "subscribed"
  /\ IF response.ok
       THEN Fails("idle") /\ UNCHANGED <<published, response>>
       ELSE PublishFailure /\ sdk' = "cancel" /\ after' = "idle"
  /\ UNCHANGED <<cancelled, failure_emitted, cancel_scheduled, done, buffer,
                 recovery, carried, reporting, timer, works, hostside, protocol,
                 produced>>

\* OnSubscriptionEstablished, the first section: Establish refuses.
EstablishRefused ==
  /\ SdkIdle /\ client = "priming" /\ ~reporting
  /\ client' = "subscribed"
  /\ buffer' = [buffer EXCEPT !.active = FALSE]
  /\ IF recovery.recovering
       THEN Fails("idle") /\ UNCHANGED <<published, cancel_scheduled, done, work, refused>>
       ELSE published' = TRUE /\ ScheduleCancel /\ UNCHANGED <<sdk, after>>
  /\ UNCHANGED <<response, cancelled, failure_emitted, recovery, carried,
                 reporting, timer, reaped, hostside, protocol, produced>>

\* OnSubscriptionEstablished, the first section: Establish accepts.
Established ==
  /\ SdkIdle /\ client = "priming" /\ ~reporting
  /\ CanEstablish(buffer)
  /\ client' = "subscribed"
  /\ IF recovery.recovering
       THEN LET active == ActivateBuffer(Establish(buffer)) IN
            /\ carried' = active.ready
            /\ buffer' = TakeReady(active)
            /\ sdk' = "announce"
       ELSE /\ buffer' = Establish(buffer)
            /\ sdk' = "publish"
            /\ UNCHANGED carried
  /\ UNCHANGED <<flags, recovery, after, reporting, timer, works, hostside,
                 protocol, produced>>

\* OnSubscriptionEstablished: the response is published for Wait.
Publish ==
  /\ Running /\ sdk = "publish"
  /\ response' = [ok |-> TRUE, generation |-> buffer.generation]
  /\ published' = TRUE
  /\ sdk' = "idle"
  /\ UNCHANGED <<cancelled, failure_emitted, cancel_scheduled, done, buffer,
                 recovery, after, carried, client, reporting, timer, works,
                 hostside, protocol, produced>>

\* OnSubscriptionEstablished of a recovery: the status before the reports.
Announce ==
  /\ Running /\ sdk = "announce"
  /\ timer' = "none"
  /\ IF SettleAdmitted(recovery.generation, recovery.attempts)
       THEN /\ Emits(<<Frame("resubscribed", recovery.generation, 0)>>,
                     [entry EXCEPT !.recovering = FALSE, !.attempt = 0], live)
            /\ sdk' = "settle"
            /\ UNCHANGED <<after, carried>>
       ELSE Fails("idle") /\ carried' = << >> /\ UNCHANGED <<wire, entry, live>>
  /\ UNCHANGED <<flags, buffer, recovery, client, reporting, works, hostside,
                 healthy, produced>>

Settle ==
  /\ Running /\ sdk = "settle"
  /\ recovery' = Settled(recovery)
  /\ sdk' = "emit"
  /\ UNCHANGED <<flags, buffer, after, carried, client, reporting, timer, works,
                 hostside, protocol, produced>>

\* The device is lost: OnResubscriptionNeeded of an automatic subscription,
\* OnError of any other.
Lost ==
  /\ SdkIdle /\ Listening
  /\ ~recovery.resubscribe \/ ~response.ok \/ cancelled \/ done
  /\ Fails("ondone")
  /\ UNCHANGED <<flags, buffer, recovery, carried, client, reporting, timer,
                 works, hostside, protocol, produced>>

\* OnResubscriptionNeeded, the first section; `late' is a recovery beyond
\* its maximum duration.
OnResubscriptionNeeded ==
  /\ SdkIdle /\ Listening
  /\ recovery.resubscribe /\ response.ok /\ ~cancelled /\ ~done
  /\ recovery.recovering \/ recovery.generation < GenerationLimit
  /\ reporting' = FALSE
  /\ LET begun == Recovering(recovery)
         first == begun.attempts = 0
     IN  \/ /\ begun.attempts < MaximumAttempts
            /\ first => CanPrepare(buffer, begun.generation)
            /\ recovery' = Attempted(begun)
            /\ buffer' = IF first THEN PrepareRecovery(buffer, begun.generation) ELSE buffer
            /\ sdk' = "status"
            /\ UNCHANGED after
         \/ /\ first /\ ~CanPrepare(buffer, begun.generation)
            /\ recovery' = Attempted(begun)
            /\ buffer' = [buffer EXCEPT !.active = FALSE]
            /\ Fails("ondone")
         \/ /\ ~first
            /\ recovery' = begun
            /\ Fails("ondone")
            /\ UNCHANGED buffer
  /\ UNCHANGED <<flags, carried, client, timer, works, hostside, protocol, produced>>

\* OnResubscriptionNeeded: the timer of the first attempt, then the status.
Resubscribing ==
  /\ Running /\ sdk = "status"
  /\ timer' = IF recovery.attempts = 1 THEN "armed"
              ELSE IF timer = "none" THEN "claimed" ELSE timer
  /\ \/ /\ EmitResubscribing(recovery.generation, recovery.attempts)
        /\ client' = "priming"
        /\ sdk' = "idle"
        /\ UNCHANGED after
     \/ /\ ResubscribingRefused(recovery.generation, recovery.attempts)
        /\ Fails("ondone")
        /\ UNCHANGED client
  /\ UNCHANGED <<flags, buffer, recovery, carried, reporting, works, hostside,
                 produced>>

TimerRefused ==
  /\ Running /\ sdk = "status"
  /\ recovery.attempts = 1
  /\ Fails("ondone")
  /\ UNCHANGED <<flags, buffer, recovery, carried, client, reporting, timer,
                 works, hostside, protocol, produced>>

RecoveryDeadline ==
  /\ SdkIdle /\ timer = "armed"
  /\ timer' = "none"
  /\ Fails("idle")
  /\ UNCHANGED <<flags, buffer, recovery, carried, client, reporting, works,
                 hostside, protocol, produced>>

\* OnDone, after OnError or by itself.
Closes ==
  /\ SdkIdle /\ Listening
  /\ sdk' = "ondone"
  /\ UNCHANGED <<flags, buffer, recovery, after, carried, client, reporting,
                 timer, works, hostside, protocol, produced>>

OnDone ==
  /\ Running /\ sdk = "ondone"
  /\ timer' = "none"
  /\ client' = "gone"
  /\ reporting' = FALSE
  /\ IF response.ok /\ ~cancelled /\ ~failure_emitted
       THEN Fails("mark") ELSE sdk' = "mark" /\ UNCHANGED after
  /\ UNCHANGED <<flags, buffer, recovery, carried, works, hostside, protocol,
                 produced>>

-----------------------------------------------------------------------------
(* The host thread.                                                        *)

HostAt(pc) == Running /\ host = pc

\* The lookup by identity and generation of the backend.
Found(generation) == ~reaped /\ recovery.generation = generation /\ ~done

\* Subscribe: the object is registered and its start scheduled.
Submit ==
  /\ HostAt("submit")
  /\ host' = "wait"
  /\ \/ work' = Append(work, "start") /\ UNCHANGED <<published, done, refused>>
     \/ PublishFailure /\ MarkDone
  /\ UNCHANGED <<response, cancelled, failure_emitted, cancel_scheduled, buffer,
                 recovery, sdkside, reaped, result, taken, asked, cancel_ok,
                 protocol, produced>>

WaitReturns ==
  /\ HostAt("wait") /\ published
  /\ result' = response
  /\ host' = "answer"
  /\ UNCHANGED <<flags, buffer, recovery, sdkside, works, taken, asked,
                 cancel_ok, protocol, produced>>

\* Wait: the deadline passes; the mutex is released to schedule the
\* cancellation and taken again to read the response.
WaitTimesOut ==
  /\ HostAt("wait") /\ ~published
  /\ published' = TRUE
  /\ host' = "expired"
  /\ UNCHANGED <<response, cancelled, failure_emitted, cancel_scheduled, done,
                 buffer, recovery, sdkside, works, result, taken, asked,
                 cancel_ok, protocol, produced>>

Expired ==
  /\ HostAt("expired")
  /\ ScheduleCancel
  /\ host' = "wait"
  /\ UNCHANGED <<response, published, cancelled, failure_emitted, buffer,
                 recovery, sdkside, reaped, result, taken, asked, cancel_ok,
                 protocol, produced>>

\* The subscribe handler after Wait: a refusal is answered, a success opens
\* the stream.  A stream that is not admitted is cancelled and forgotten.
AnswerFailure ==
  /\ HostAt("answer") /\ ~result.ok
  /\ host' = "refused"
  /\ UNCHANGED <<flags, buffer, recovery, sdkside, works, result, taken, asked,
                 cancel_ok, protocol, produced>>

AddStream ==
  /\ HostAt("answer") /\ result.ok
  /\ entry' = [generation |-> result.generation, resubscribe |-> recovery.resubscribe,
               recovering |-> FALSE, attempt |-> 0]
  /\ live' = result.generation
  /\ host' = "reply"
  /\ UNCHANGED <<flags, buffer, recovery, sdkside, works, result, taken, asked,
                 cancel_ok, wire, healthy, produced>>

AddStreamRefused ==
  /\ HostAt("answer") /\ result.ok
  /\ IF Found(result.generation)
       THEN ScheduleCancel
       ELSE UNCHANGED <<cancel_scheduled, done, work, refused>>
  /\ host' = "refused"
  /\ UNCHANGED <<response, published, cancelled, failure_emitted, buffer,
                 recovery, sdkside, reaped, result, taken, asked, cancel_ok,
                 protocol, produced>>

Reply ==
  /\ HostAt("reply")
  /\ wire' = Append(wire, Frame("subscribed", result.generation, 0))
  /\ host' = "activate"
  /\ UNCHANGED <<flags, buffer, recovery, sdkside, works, result, taken, asked,
                 cancel_ok, entry, live, healthy, produced>>

\* ActivateSubscription: the lookup.
FindForActivation ==
  /\ HostAt("activate")
  /\ host' = IF Found(result.generation) THEN "take" ELSE "down"
  /\ UNCHANGED <<flags, buffer, recovery, sdkside, works, result, taken, asked,
                 cancel_ok, protocol, produced>>

\* Activate takes the reports under mutex_ and emits them after it.
Activate ==
  /\ HostAt("take")
  /\ IF response.ok /\ ~done /\ ~cancelled
       THEN LET active == ActivateBuffer(buffer) IN
            /\ taken' = active.ready
            /\ buffer' = TakeReady(active)
            /\ host' = "emit"
       ELSE host' = "down" /\ UNCHANGED <<buffer, taken>>
  /\ UNCHANGED <<flags, recovery, sdkside, works, result, asked, cancel_ok,
                 protocol, produced>>

ActivateEmits ==
  /\ HostAt("emit") /\ taken # << >>
  /\ \/ /\ EmitReport(Head(taken), "host")
        /\ taken' = Tail(taken)
        /\ UNCHANGED <<host, cancel_scheduled, done, work, refused>>
     \/ /\ EmitReportRefused(Head(taken))
        /\ ScheduleCancel
        /\ taken' = << >>
        /\ host' = "down"
  /\ UNCHANGED <<response, published, cancelled, failure_emitted, buffer,
                 recovery, sdkside, reaped, result, asked, cancel_ok, produced>>

Activated ==
  /\ HostAt("emit") /\ taken = << >>
  /\ host' = "serving"
  /\ UNCHANGED <<flags, buffer, recovery, sdkside, works, result, taken, asked,
                 cancel_ok, protocol, produced>>

\* The unsubscribe handler, first section.  A refused or already retired
\* generation is answered and changes nothing.
Unsubscribe(generation) ==
  /\ HostAt("serving")
  /\ live = generation
  /\ asked' = generation
  /\ host' = "find"
  /\ UNCHANGED <<flags, buffer, recovery, sdkside, works, result, taken,
                 cancel_ok, protocol, produced>>

\* CancelSubscription: the lookup, then CancelAndWait.
FindForCancel ==
  /\ HostAt("find")
  /\ cancel_ok' = FALSE
  /\ host' = IF Found(asked) THEN "schedule" ELSE "cancelled"
  /\ UNCHANGED <<flags, buffer, recovery, sdkside, works, result, taken, asked,
                 protocol, produced>>

HostCancels ==
  /\ HostAt("schedule")
  /\ ScheduleCancel
  /\ host' = "join"
  /\ UNCHANGED <<response, published, cancelled, failure_emitted, buffer,
                 recovery, sdkside, reaped, result, taken, asked, cancel_ok,
                 protocol, produced>>

CancelWaitEnds ==
  /\ HostAt("join")
  /\ cancel_ok' = done
  /\ host' = "cancelled"
  /\ UNCHANGED <<flags, buffer, recovery, sdkside, works, result, taken, asked,
                 protocol, produced>>

\* The unsubscribe handler after the cancellation: a stream that ended by
\* itself is a success, a failed cancellation is answered as such, and
\* otherwise the stream must still be live to be retired; if it is not, the
\* handler closes the host.
CancelAnswered ==
  /\ HostAt("cancelled")
  /\ \/ /\ entry.generation = 0
        /\ wire' = Append(wire, Frame("unsubscribed", asked, 0))
     \/ /\ entry.generation # 0 /\ ~cancel_ok
        /\ UNCHANGED wire
  /\ host' = "serving"
  /\ UNCHANGED <<flags, buffer, recovery, sdkside, works, result, taken, asked,
                 cancel_ok, entry, live, healthy, produced>>

CancelRetires ==
  /\ HostAt("cancelled")
  /\ entry.generation # 0 /\ cancel_ok
  /\ IF live = asked
       THEN /\ Emits(<<Frame("retired", live, 0)>>, entry, 0)
            /\ host' = "erase"
       ELSE host' = "down" /\ UNCHANGED <<wire, entry, live>>
  /\ UNCHANGED <<flags, buffer, recovery, sdkside, works, result, taken, asked,
                 cancel_ok, healthy, produced>>

CancelErases ==
  /\ HostAt("erase")
  /\ entry' = NoEntry
  /\ wire' = Append(wire, Frame("unsubscribed", asked, 0))
  /\ host' = "serving"
  /\ UNCHANGED <<flags, buffer, recovery, sdkside, works, result, taken, asked,
                 cancel_ok, live, healthy, produced>>

-----------------------------------------------------------------------------
\* What the SDK thread does by itself once it may.
SdkSteps == Mark \/ EmitOne \/ EmitEnds \/ FailActive \/ EmitFailure \/
            SdkCancels \/ Publish \/ Announce \/ Settle \/ Resubscribing \/
            TimerRefused \/ OnDone
Work == StartWork \/ CancelWork \/ ReapWork

\* What the device and the SDK may report.
Callbacks == OnConnected \/ ConnectionFailed \/ OnReportBegin \/ OnData \/
             OnReportEnd \/ EstablishedWithout \/ EstablishRefused \/
             Established \/ Lost \/ OnResubscriptionNeeded \/
             RecoveryDeadline \/ Closes

HostSteps == Submit \/ WaitReturns \/ WaitTimesOut \/ Expired \/ AnswerFailure \/
             AddStream \/ AddStreamRefused \/ Reply \/ FindForActivation \/
             Activate \/ ActivateEmits \/ Activated \/ FindForCancel \/
             HostCancels \/ CancelWaitEnds \/ CancelAnswered \/ CancelRetires \/
             CancelErases

Requests == \E generation \in 1..GenerationLimit : Unsubscribe(generation)

Next == SdkSteps \/ Work \/ Callbacks \/ HostSteps \/ Requests

Spec == Init /\ [][Next]_vars

\* A section that can run does.  The SDK's event loop serves its work queue
\* on every turn, so callbacks cannot keep a work item waiting (SF), and
\* every wait of the host thread has a deadline.
FairSpec == Spec /\ WF_vars(SdkSteps) /\ SF_vars(Work) /\ WF_vars(HostSteps)
-----------------------------------------------------------------------------
(* Properties.                                                             *)

At(kind, generation) ==
  {i \in DOMAIN wire : wire[i].kind = kind /\ wire[i].generation = generation}
Errors == {i \in DOMAIN wire : wire[i].kind = "error"}

\* However its failures, its overflow, its cancellation and its recovery
\* overlap, a subscription has one terminal error at most, no report or
\* status follows it, a stream generation has one barrier, and the success
\* of a cancellation follows the barrier of the generation it names
\* (FailActive, EmitReport, EmitFailure, CancelAndWait).
OneTerminal ==
  /\ Cardinality(Errors) <= 1
  /\ \A i \in Errors : \A j \in DOMAIN wire :
       j > i => wire[j].kind \in {"retired", "subscribed", "unsubscribed"}
  /\ \A g \in 1..GenerationLimit :
       /\ Cardinality(At("retired", g)) <= 1
       /\ \A i \in At("unsubscribed", g) : \E j \in At("retired", g) : j < i

\* A report reaches the wire only while its stream generation is open: after
\* the reply or the resubscribed status of that generation, and before its
\* barrier, though it was taken from the buffer under another mutex.
GenerationFence ==
  \A i \in DOMAIN wire :
    wire[i].kind = "report" =>
      LET g == wire[i].generation IN
      /\ \E j \in At("subscribed", g) \cup At("resubscribed", g) : j < i
      /\ \A j \in At("retired", g) : j > i

Reports == {i \in DOMAIN wire : wire[i].kind = "report"}

\* An event identity is reported once, also across recoveries, unless as
\* many other results came between as the cache remembers; an initial
\* attribute path is reported once in a generation, also when the device
\* sends its priming report again in a further attempt (Add,
\* PrepareRecovery, which keeps the event cache).
ReportedOnce ==
  \A i, j \in Reports :
    i # j /\ wire[i].n <= wire[j].n /\ wire[i].id = wire[j].id =>
      IF buffer.kind = "event"
        THEN wire[j].n - wire[i].n > EventCacheLimit
        ELSE wire[i].initial /\ wire[j].initial =>
               wire[i].generation # wire[j].generation

\* A report of the SDK thread is newer than every report before it: only
\* the one batch that Activate emits on the host thread can be overtaken,
\* while it is emitted, and never overtakes (Activate against OnReportEnd,
\* also when a recovery comes between the reply and the activation).
InOrder ==
  \A i, j \in Reports :
    i < j /\ wire[j].thread = "sdk" => wire[i].n < wire[j].n

\* The peer gets what the device reported, once and in order.
OnceInOrder == ReportedOnce /\ InOrder

\* Once the subscription is done, which is what CancelAndWait waits for, the
\* SDK holds nothing that could call it: no client and no timer; when it is
\* reaped, no scheduled work still points at it.  Only a work item that the
\* SDK refused can leave a client behind.
QuietWhenDone ==
  /\ done /\ ~refused => client \in {"none", "gone"} /\ timer # "armed"
  /\ reaped => /\ work = << >> /\ sdk = "idle"
               /\ client \in {"none", "gone"} /\ timer # "armed"

Healthily == Running /\ sdk = "idle" /\ ~failure_emitted /\ ~cancelled /\ ~cancel_scheduled

\* Between two callbacks of a subscription that is served, buffer, recovery,
\* protocol entry and credit stream name one generation and one recovery,
\* though each is changed under its own mutex; and a recovery never runs
\* without its deadline, nor a deadline without a recovery.
RecoveryAgrees ==
  Healthily =>
    /\ recovery.recovering <=> timer = "armed"
    /\ entry.generation # 0 =>
         /\ entry.generation = live
         /\ entry.generation = recovery.generation
         /\ entry.generation = buffer.generation
         /\ entry.recovering = recovery.recovering
         /\ entry.attempt = recovery.attempts

\* Nothing keeps a failed or cancelled subscription: it is reaped unless
\* the SDK refused to schedule its work or the process goes down.
Reaped == (failure_emitted \/ cancel_scheduled) ~> (reaped \/ refused \/ ~Running)

\* The loss of a subscription is terminal: a stream the peer was told of
\* does not stay live after the subscription behind it is gone.
LossIsTerminal ==
  reaped /\ host = "serving" => live = 0
=============================================================================
