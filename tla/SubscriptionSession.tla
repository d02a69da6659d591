------------------------ MODULE SubscriptionSession -------------------------
(***************************************************************************)
(* The subscriptions of one session seen from both ends: the BEAM          *)
(* connection (lib/wotex/matter/native/connection.ex) and the native host  *)
(* (native/src/protocol.cpp), joined by two ordered channels.  Requests    *)
(* and frames cross on them: a cancellation meets a recovery, a loss or    *)
(* another cancellation that the other end has already begun.              *)
(*                                                                         *)
(* A BEAM step is one message of the connection's mailbox.  The host is    *)
(* one section at a time, as NativeSubscription has them, without the      *)
(* races inside the controller: the answer invalid_subscription is given   *)
(* for a generation that is over, and not in the short time in which the   *)
(* controller's subscription is done and its loss not yet emitted.  Credit *)
(* is ReportFlow's: what is kept of it is whether a retired stream still   *)
(* has an outstanding-credit record.                                       *)
(***************************************************************************)
EXTENDS Naturals, Sequences, FiniteSets

CONSTANTS
  Subs,                  \* subscriptions
  NoSub,                 \* no subscription
  MaximumAttempts,       \* recovery attempts, 5
  GenerationLimit,       \* bound of the model: stream generations
  ReportLimit,           \* bound of the model: reports of the session
  ChannelLimit           \* bound of the model: frames of events under way

ASSUME SessionAssumption ==
  /\ NoSub \notin Subs
  /\ MaximumAttempts \in Nat \ {0}
  /\ GenerationLimit \in Nat \ {0}
  /\ ReportLimit \in Nat
  /\ ChannelLimit \in Nat \ {0}

VARIABLES
  sub,                   \* subscriptions: status, generation, attempt, retiring
  resubscribe,           \* resubscribe of the subscribe request
  call,                  \* the blocking call of the connection
  internal,              \* internal_requests: cancellations not answered
  watched,               \* cancellation_deadlines
  terminals,             \* {:error, _} messages sent to the receiver
  session,               \* "up", "failing" (channel_failed) or "down"
  cause,                 \* why the session went down
  requests,              \* BEAM to host
  frames,                \* host to BEAM
  stream,                \* the host's stream of each subscription
  record,                \* generation of a retired stream with credit out, or 0
  registering,           \* subscribe request the host is in
  cancelling,            \* unsubscribe request the host is in
  host,                  \* "up" or "down"
  reported               \* reports sent so far

connection == <<sub, call, internal, watched, terminals, session, cause>>
native == <<stream, record, registering, cancelling, host, reported>>
vars == <<connection, resubscribe, requests, frames, native>>

NoCall == [op |-> "none", sub |-> NoSub]
NoStream == [live |-> FALSE, generation |-> 0, recovering |-> FALSE, attempt |-> 0]
Idle == [sub |-> NoSub, stage |-> "idle"]
NoRequest == [op |-> "none", sub |-> NoSub, generation |-> 0, internal |-> FALSE]

Request(op, s, generation, own) ==
  [op |-> op, sub |-> s, generation |-> generation, internal |-> own]
Event(kind, s, generation, attempt) ==
  [kind |-> kind, sub |-> s, generation |-> generation, attempt |-> attempt,
   internal |-> FALSE, result |-> "ok"]
Reply(request, result) ==
  [kind |-> request.op, sub |-> request.sub, generation |-> request.generation,
   attempt |-> 0, internal |-> request.internal, result |-> result]

Init ==
  /\ sub = [s \in Subs |-> [status |-> "none", generation |-> 0, attempt |-> 0,
                            retiring |-> 0, terminal |-> FALSE]]
  /\ resubscribe \in [Subs -> BOOLEAN]
  /\ call = NoCall
  /\ internal = {}
  /\ watched = {}
  /\ terminals = [s \in Subs |-> 0]
  /\ session = "up"
  /\ cause = "none"
  /\ requests = << >>
  /\ frames = << >>
  /\ stream = [s \in Subs |-> NoStream]
  /\ record = [s \in Subs |-> 0]
  /\ registering = Idle
  /\ cancelling = NoRequest
  /\ host = "up"
  /\ reported = 0

-----------------------------------------------------------------------------
(* The connection: helpers.                                                *)

Serving == session # "down"
Status(s) == sub[s].status
Awake(s) == Status(s) \in {"active", "recovering"}

\* notify_session_failure, then terminate: every receiver that was not told
\* yet is.  The stream of a subscribe call under way has been dropped.
Stop(reason) ==
  /\ session' = "down"
  /\ cause' = reason
  /\ terminals' = [s \in Subs |-> IF Awake(s) THEN terminals[s] + 1 ELSE terminals[s]]
  /\ UNCHANGED <<sub, call, internal, watched, requests>>

\* complete_cancellation: the deadline is dropped once the cancellation is
\* done, unless it has already passed, which fails the session's input.
CompleteCancellation(s, done) ==
  \/ /\ s \in watched
     /\ session' = "failing"
     /\ UNCHANGED watched
  \/ /\ watched' = IF done THEN watched \ {s} ELSE watched
     /\ UNCHANGED session

\* Mutant of Closed: the deadline of the cancellation is kept.
ClosedWatched(s) ==
  /\ sub' = [sub EXCEPT ![s].status = "closed"]
  /\ UNCHANGED <<watched, session>>

\* retire_subscription.
Closed(s) ==
  /\ sub' = [sub EXCEPT ![s].status = "closed"]
  /\ CompleteCancellation(s, s \notin internal)

\* cancel_subscription of an established stream; `told' is 1 when the
\* receiver is sent the error that ends its stream.  The port may refuse
\* the request.
CancelSubscription(s, told) ==
  /\ sub' = [sub EXCEPT ![s].status = "closing"]
  /\ watched' = watched \cup {s}
  /\ terminals' = [terminals EXCEPT ![s] = @ + told]
  /\ \/ /\ requests' = Append(requests, Request("unsubscribe", s, sub[s].generation, TRUE))
        /\ internal' = internal \cup {s}
        /\ UNCHANGED session
     \/ /\ session' = "failing"
        /\ UNCHANGED <<requests, internal>>
  /\ UNCHANGED <<call, cause>>

\* cancel_subscription before the reply: nothing can be named to the host.
CancelEstablishing(s, told) ==
  /\ sub' = [sub EXCEPT ![s].status = "closing"]
  /\ watched' = watched \cup {s}
  /\ terminals' = [terminals EXCEPT ![s] = @ + told]
  /\ session' = "failing"
  /\ UNCHANGED <<call, internal, requests, cause>>

-----------------------------------------------------------------------------
(* The connection: callers, receivers and timers.                          *)

CallSubscribe(s) ==
  /\ session = "up" /\ call = NoCall /\ Status(s) = "none"
  /\ sub' = [sub EXCEPT ![s].status = "establishing", ![s].generation = 1]
  /\ call' = [op |-> "subscribe", sub |-> s]
  /\ requests' = Append(requests, Request("subscribe", s, 1, FALSE))
  /\ UNCHANGED <<internal, watched, terminals, session, cause, resubscribe,
                 frames, native>>

\* unsubscribe_active, or join_cancellation of one under way.
CallUnsubscribe(s) ==
  /\ session = "up" /\ call = NoCall
  /\ \/ /\ Awake(s)
        /\ sub' = [sub EXCEPT ![s].status = "closing"]
        /\ requests' = Append(requests, Request("unsubscribe", s, sub[s].generation, FALSE))
        /\ call' = [op |-> "unsubscribe", sub |-> s]
     \/ /\ Status(s) = "closing" \/ (Status(s) = "closed" /\ s \in watched)
        /\ call' = [op |-> "join", sub |-> s]
        /\ UNCHANGED <<sub, requests>>
  /\ UNCHANGED <<internal, watched, terminals, session, cause, resubscribe,
                 frames, native>>

JoinReturns ==
  /\ Serving /\ call.op = "join"
  /\ Status(call.sub) = "closed" /\ call.sub \notin internal
  /\ call' = NoCall
  /\ UNCHANGED <<sub, internal, watched, terminals, session, cause, resubscribe,
                 requests, frames, native>>

\* DOWN of the receiver, or of the stream owner, which the receiver is told.
Down(s) ==
  /\ Serving
  /\ \E told \in {0, 1} :
       \/ Awake(s) /\ CancelSubscription(s, told)
       \/ Status(s) = "establishing" /\ CancelEstablishing(s, told)
  /\ UNCHANGED <<resubscribe, frames, native>>

\* The deadline of the call or of a cancellation passes.
Expires ==
  /\ Serving
  /\ call # NoCall \/ watched # {}
  /\ Stop("deadline")
  /\ UNCHANGED <<resubscribe, frames, native>>

\* native_input_failed.
InputFailed ==
  /\ session = "failing"
  /\ Stop("input")
  /\ UNCHANGED <<resubscribe, frames, native>>

\* exit_status, after the frames the host wrote.
HostExits ==
  /\ Serving /\ host = "down" /\ frames = << >>
  /\ Stop("exit")
  /\ UNCHANGED <<resubscribe, frames, native>>

-----------------------------------------------------------------------------
(* The connection: frames of the host.                                     *)

Received(kind) == Serving /\ frames # << >> /\ Head(frames).kind = kind
Taken == frames' = Tail(frames) /\ UNCHANGED <<resubscribe, native>>
The == Head(frames)
Rest == UNCHANGED <<call, internal, session, cause, requests>>

\* subscription_ids has the stream of the frame.
Named(f) ==
  /\ Status(f.sub) \notin {"none", "closed"}
  /\ f.generation \in {sub[f.sub].generation, sub[f.sub].retiring} \ {0}

\* A report is delivered, dropped while closing, or overflows its receiver.
ReadReport ==
  /\ Received("report") /\ Named(The) /\ Taken
  /\ \/ /\ Status(The.sub) \in {"establishing", "active", "closing"}
        /\ UNCHANGED <<sub, watched, terminals>> /\ Rest
     \/ Status(The.sub) = "active" /\ CancelSubscription(The.sub, 1)

\* begin_recovery.
FirstAttempt(f) ==
  /\ resubscribe[f.sub] /\ Status(f.sub) = "active"
  /\ f.generation = sub[f.sub].generation + 1
  /\ f.attempt = 1 /\ sub[f.sub].retiring = 0
NextAttempt(f) ==
  /\ Status(f.sub) = "recovering"
  /\ f.generation = sub[f.sub].generation
  /\ f.attempt = sub[f.sub].attempt + 1

ReadResubscribing ==
  /\ Received("resubscribing") /\ Taken
  /\ \/ /\ FirstAttempt(The)
        /\ sub' = [sub EXCEPT ![The.sub] =
             [status |-> "recovering", generation |-> The.generation,
              attempt |-> 1, retiring |-> @.generation, terminal |-> @.terminal]]
     \/ /\ NextAttempt(The)
        /\ sub' = [sub EXCEPT ![The.sub].attempt = The.attempt]
  /\ UNCHANGED <<watched, terminals>> /\ Rest

\* The receiver of the status is full: deliver_subscription_status sends the
\* error and cancels, but the caller takes {:overflow, _} for a bad frame and
\* stops with the state before the cancellation, which tells the receiver
\* again.
ResubscribingOverflows ==
  /\ Received("resubscribing") /\ Taken
  /\ FirstAttempt(The) \/ NextAttempt(The)
  /\ session' = "down"
  /\ cause' = "status_overflow"
  /\ terminals' = [s \in Subs |->
       terminals[s] + (IF Awake(s) THEN 1 ELSE 0) + (IF s = The.sub THEN 1 ELSE 0)]
  /\ UNCHANGED <<sub, call, internal, watched, requests>>

\* finish_recovery.
Recovered(f) ==
  /\ Status(f.sub) = "recovering"
  /\ f.generation = sub[f.sub].generation
  /\ f.attempt = sub[f.sub].attempt
  /\ sub[f.sub].retiring = 0

ReadResubscribed ==
  /\ Received("resubscribed") /\ Recovered(The) /\ Taken
  /\ \/ /\ sub' = [sub EXCEPT ![The.sub].status = "active"]
        /\ UNCHANGED <<watched, terminals>> /\ Rest
     \/ CancelSubscription(The.sub, 1)

\* retire_stream_generation: the generation a recovery left behind, or the
\* stream itself.
RetiresOld(f) ==
  /\ Named(f) /\ sub[f.sub].retiring = f.generation
  /\ Status(f.sub) \in {"recovering", "closing"}
RetiresStream(f) ==
  /\ Named(f) /\ Status(f.sub) = "closing"
  /\ sub[f.sub].generation = f.generation /\ sub[f.sub].retiring = 0

ReadBarrier ==
  /\ Received("retired") /\ Taken
  /\ \/ /\ RetiresOld(The)
        /\ sub' = [sub EXCEPT ![The.sub].retiring = 0]
        /\ UNCHANGED <<watched, session>>
     \/ /\ ~RetiresOld(The) /\ RetiresStream(The)
        /\ Closed(The.sub)
  /\ UNCHANGED <<call, internal, terminals, cause, requests>>

\* Mutant of ReadError: the receiver is told though the stream is closing.
ReadErrorAgain ==
  /\ Received("error") /\ Named(The) /\ ~sub[The.sub].terminal /\ Taken
  /\ terminals' = [terminals EXCEPT ![The.sub] = @ + 1]
  /\ sub' = [sub EXCEPT ![The.sub].status = "closing", ![The.sub].terminal = TRUE]
  /\ watched' = watched \cup {The.sub}
  /\ Rest

ReadError ==
  /\ Received("error") /\ Named(The) /\ ~sub[The.sub].terminal /\ Taken
  /\ terminals' = IF Status(The.sub) = "closing" THEN terminals
                  ELSE [terminals EXCEPT ![The.sub] = @ + 1]
  /\ sub' = [sub EXCEPT ![The.sub].status = "closing", ![The.sub].terminal = TRUE]
  /\ watched' = watched \cup {The.sub}
  /\ Rest

\* A frame without a place in the state of its stream: the fall-through of
\* each handler.
Placed(f) ==
  CASE f.kind = "report" -> Named(f) /\ Status(f.sub) # "recovering"
    [] f.kind = "resubscribing" -> FirstAttempt(f) \/ NextAttempt(f)
    [] f.kind = "resubscribed" -> Recovered(f)
    [] f.kind = "retired" -> RetiresOld(f) \/ RetiresStream(f)
    [] f.kind = "error" -> Named(f) /\ ~sub[f.sub].terminal
    [] OTHER -> TRUE

\* Why a frame is refused: a status crosses a cancellation or comes before
\* the reply, the session is ending anyway, or the frame has no place at all.
Crossing(f) ==
  LET status == f.kind \in {"resubscribing", "resubscribed"}
  IN  CASE status /\ session = "failing" -> "input"
        [] status /\ session = "up" /\ Status(f.sub) = "closing" -> "crossing"
        [] status /\ session = "up" /\ Status(f.sub) = "establishing" -> "early"
        [] OTHER -> f.kind

RefuseFrame ==
  /\ Serving /\ frames # << >> /\ ~Placed(The) /\ Taken
  /\ Stop(Crossing(The))

\* The answer to an internal cancellation; only a success has a clause.
ReadCancelled ==
  /\ Received("unsubscribe") /\ The.internal /\ The.result = "ok" /\ Taken
  /\ internal' = internal \ {The.sub}
  /\ CompleteCancellation(The.sub, Status(The.sub) = "closed")
  /\ UNCHANGED <<sub, call, terminals, cause, requests>>

RefuseCancelled ==
  /\ Received("unsubscribe") /\ The.internal /\ The.result # "ok" /\ Taken
  /\ Stop(IF The.result = "timeout" THEN "timeout" ELSE "cancellation_refused")

\* The answer to the unsubscribe call.
ReadUnsubscribed ==
  /\ Received("unsubscribe") /\ ~The.internal /\ Taken
  /\ IF The.result = "invalid" \/ (The.result = "ok" /\ Status(The.sub) = "closed")
       \/ The.result = "busy"
       THEN /\ call' = NoCall
            /\ UNCHANGED <<sub, internal, watched, terminals, session, cause, requests>>
       ELSE Stop(IF The.result = "ok" THEN "unsubscribed" ELSE "timeout")

\* The answer to the subscribe call: establish_subscription, or the drop.
ReadSubscribed ==
  /\ Received("subscribe") /\ The.result = "ok" /\ Taken
  /\ IF Status(The.sub) = "establishing"
       THEN /\ sub' = [sub EXCEPT ![The.sub].status = "active"]
            /\ call' = NoCall
            /\ UNCHANGED <<internal, watched, terminals, session, cause, requests>>
       ELSE Stop("lost_while_subscribing")

ReadNotSubscribed ==
  /\ Received("subscribe") /\ The.result # "ok" /\ Taken
  /\ sub' = [sub EXCEPT ![The.sub] =
       [status |-> "none", generation |-> 0, attempt |-> 0, retiring |-> 0,
        terminal |-> FALSE]]
  /\ call' = NoCall
  /\ UNCHANGED <<internal, watched, terminals, session, cause, requests>>

Reads ==
  \/ ReadReport \/ ReadResubscribing \/ ResubscribingOverflows \/ ReadResubscribed
  \/ ReadBarrier \/ ReadError \/ RefuseFrame \/ ReadCancelled \/ RefuseCancelled
  \/ ReadUnsubscribed \/ ReadSubscribed \/ ReadNotSubscribed

-----------------------------------------------------------------------------
(* The host.                                                               *)

HostUp == host = "up" /\ Serving
Writes(written) == frames' = frames \o written
HostStep == UNCHANGED <<connection, resubscribe>>

\* The thread reads a request between two operations, or inside a wait.
Reading(op) ==
  /\ HostUp /\ requests # << >> /\ Head(requests).op = op
  /\ registering.stage \in {"idle", "wait"}
  /\ requests' = Tail(requests)

HostSubscribe ==
  /\ Reading("subscribe")
  /\ IF registering = Idle /\ cancelling = NoRequest
       THEN /\ registering' = [sub |-> Head(requests).sub, stage |-> "wait"]
            /\ UNCHANGED frames
       ELSE Writes(<<Reply(Head(requests), "busy")>>) /\ UNCHANGED registering
  /\ UNCHANGED <<stream, record, cancelling, host, reported>> /\ HostStep

\* The subscribe handler: the backend refuses, or the stream is added.
HostRefuses ==
  /\ HostUp /\ registering.stage = "wait" /\ cancelling = NoRequest
  /\ Writes(<<Reply(Request("subscribe", registering.sub, 1, FALSE), "failed")>>)
  /\ registering' = Idle
  /\ UNCHANGED <<requests, stream, record, cancelling, host, reported>> /\ HostStep

AddStream ==
  /\ HostUp /\ registering.stage = "wait" /\ cancelling = NoRequest
  /\ stream' = [stream EXCEPT ![registering.sub] =
       [live |-> TRUE, generation |-> 1, recovering |-> FALSE, attempt |-> 0]]
  /\ registering' = [registering EXCEPT !.stage = "added"]
  /\ UNCHANGED <<requests, frames, record, cancelling, host, reported>> /\ HostStep

HostReplies ==
  /\ HostUp /\ registering.stage = "added"
  /\ Writes(<<Reply(Request("subscribe", registering.sub, 1, FALSE), "ok")>>)
  /\ registering' = [registering EXCEPT !.stage = "activate"]
  /\ UNCHANGED <<requests, stream, record, cancelling, host, reported>> /\ HostStep

\* ActivateSubscription: a stream that is gone or in recovery ends the host.
HostActivates ==
  /\ HostUp /\ registering.stage = "activate"
  /\ registering' = Idle
  /\ host' = IF stream[registering.sub].live /\ stream[registering.sub].generation = 1
               THEN "up" ELSE "down"
  /\ UNCHANGED <<requests, frames, stream, record, cancelling, reported>> /\ HostStep

\* The unsubscribe handler before the backend is called.
Verdict(request) ==
  LET s == request.sub IN
  IF cancelling # NoRequest THEN "busy"
  ELSE IF stream[s].live /\ stream[s].generation # request.generation THEN "invalid"
  ELSE IF record[s] = request.generation THEN "ok"
  ELSE IF ~stream[s].live THEN "invalid"
  ELSE "cancel"

HostUnsubscribe ==
  /\ Reading("unsubscribe")
  /\ IF Verdict(Head(requests)) = "cancel"
       THEN cancelling' = Head(requests) /\ UNCHANGED frames
       ELSE /\ Writes(<<Reply(Head(requests), Verdict(Head(requests)))>>)
            /\ UNCHANGED cancelling
  /\ UNCHANGED <<stream, record, registering, host, reported>> /\ HostStep

\* Retire: the stream ends; its record stays while credit is out.
Retires(s) ==
  /\ stream' = [stream EXCEPT ![s] = NoStream]
  /\ \E kept \in {0, stream[s].generation} : record' = [record EXCEPT ![s] = kept]

\* The unsubscribe handler after CancelSubscription.
CancelReturns ==
  LET s == cancelling.sub
      barrier == Event("retired", s, cancelling.generation, 0)
  IN /\ HostUp /\ cancelling # NoRequest
     /\ cancelling' = NoRequest
     /\ \/ /\ ~stream[s].live
           /\ Writes(<<Reply(cancelling, "ok")>>)
           /\ UNCHANGED <<stream, record, host>>
        \/ /\ stream[s].live
           /\ \E result \in {"invalid", "timeout"} :
                /\ result = "invalid" => stream[s].generation # cancelling.generation
                /\ Writes(<<Reply(cancelling, result)>>)
           /\ UNCHANGED <<stream, record, host>>
        \/ /\ stream[s].live /\ stream[s].generation = cancelling.generation
           /\ Retires(s)
           /\ Writes(<<barrier, Reply(cancelling, "ok")>>)
           /\ UNCHANGED host
        \/ /\ stream[s].live /\ stream[s].generation # cancelling.generation
           /\ host' = "down"
           /\ UNCHANGED <<stream, record, frames>>
     /\ UNCHANGED <<requests, registering, reported>> /\ HostStep

\* The last acknowledgement of a retired stream.
RecordErased(s) ==
  /\ HostUp /\ record[s] # 0
  /\ record' = [record EXCEPT ![s] = 0]
  /\ UNCHANGED <<requests, frames, stream, registering, cancelling, host, reported>>
  /\ HostStep

-----------------------------------------------------------------------------
(* The SDK callbacks.                                                      *)

\* The stream of s can report something.
Eventful(s) ==
  /\ HostUp /\ stream[s].live
  /\ Len(frames) < ChannelLimit

Callback == UNCHANGED <<requests, registering, cancelling, host>> /\ HostStep

EmitReport(s) ==
  /\ Eventful(s) /\ ~stream[s].recovering /\ registering.sub # s
  /\ reported < ReportLimit
  /\ reported' = reported + 1
  /\ Writes(<<Event("report", s, stream[s].generation, 0)>>)
  /\ UNCHANGED <<stream, record>> /\ Callback

EmitFailure(s) ==
  /\ Eventful(s)
  /\ Writes(<<Event("error", s, stream[s].generation, 0),
              Event("retired", s, stream[s].generation, 0)>>)
  /\ Retires(s)
  /\ UNCHANGED reported /\ Callback

\* Mutant of EmitResubscribing: the barrier precedes the status.
EmitResubscribingLate(s) ==
  /\ Eventful(s) /\ resubscribe[s] /\ ~stream[s].recovering
  /\ stream[s].generation < GenerationLimit
  /\ Writes(<<Event("retired", s, stream[s].generation, 0),
              Event("resubscribing", s, stream[s].generation + 1, 1)>>)
  /\ stream' = [stream EXCEPT ![s].generation = @ + 1, ![s].recovering = TRUE,
                              ![s].attempt = 1]
  /\ UNCHANGED <<record, reported>> /\ Callback

\* EmitStatus: the first attempt retires the generation, later ones do not.
EmitResubscribing(s) ==
  /\ Eventful(s) /\ resubscribe[s]
  /\ \/ /\ ~stream[s].recovering /\ stream[s].generation < GenerationLimit
        /\ Writes(<<Event("resubscribing", s, stream[s].generation + 1, 1),
                    Event("retired", s, stream[s].generation, 0)>>)
        /\ stream' = [stream EXCEPT ![s].generation = @ + 1,
                                    ![s].recovering = TRUE, ![s].attempt = 1]
     \/ /\ stream[s].recovering /\ stream[s].attempt < MaximumAttempts
        /\ Writes(<<Event("resubscribing", s, stream[s].generation, stream[s].attempt + 1)>>)
        /\ stream' = [stream EXCEPT ![s].attempt = @ + 1]
  /\ UNCHANGED <<record, reported>> /\ Callback

EmitResubscribed(s) ==
  /\ Eventful(s) /\ stream[s].recovering
  /\ Writes(<<Event("resubscribed", s, stream[s].generation, stream[s].attempt)>>)
  /\ stream' = [stream EXCEPT ![s].recovering = FALSE, ![s].attempt = 0]
  /\ UNCHANGED <<record, reported>> /\ Callback

-----------------------------------------------------------------------------
HostSteps == HostSubscribe \/ HostRefuses \/ AddStream \/ HostReplies \/
             HostActivates \/ HostUnsubscribe \/ CancelReturns

Timers == Expires \/ InputFailed \/ HostExits

Next ==
  \/ Reads
  \/ HostSteps
  \/ Timers
  \/ JoinReturns
  \/ \E s \in Subs :
       \/ CallSubscribe(s) \/ CallUnsubscribe(s) \/ Down(s)
       \/ RecordErased(s) \/ EmitReport(s) \/ EmitFailure(s)
       \/ EmitResubscribing(s) \/ EmitResubscribed(s)

Spec == Init /\ [][Next]_vars

-----------------------------------------------------------------------------
(* Properties.                                                             *)

\* Whatever the two ends do to a stream at the same time, no report,
\* barrier, error or status of the host is one the connection has no place
\* for: the only frames it refuses are the ones that cross a cancellation or
\* precede the reply (decode_async_frame against EmitReport, EmitStatus,
\* EmitFailure and the unsubscribe handler).
ProtocolAgrees ==
  cause \notin {"report", "retired", "error", "resubscribing", "resubscribed",
               "unsubscribed"}

\* A receiver is told once that its stream has ended, by its own overflow,
\* by the loss of the stream or by the loss of the session, except when the
\* overflow is met while delivering :resubscribing.
TerminalOnce == cause # "status_overflow" => \A s \in Subs : terminals[s] <= 1

Events == {"report", "error", "retired", "resubscribing", "resubscribed"}

\* A subscription the connection has closed is closed: the host has no live
\* stream for it and no event of it is under way, so that none of its
\* frames can meet a connection that has forgotten it.
ClosedIsSilent ==
  Serving => \A s \in Subs : Status(s) = "closed" =>
    /\ ~stream[s].live
    /\ \A i \in DOMAIN frames : frames[i].sub = s => frames[i].kind \notin Events

\* A subscription ends once and stays ended, for its receiver and for the
\* host (retire_subscription, notify_session_failure against EmitFailure).
EndsOnce == TerminalOnce /\ ClosedIsSilent

\* Every internal cancellation is watched, and none is watched once it is
\* complete, since a deadline left behind would stop a working session; one
\* completed too late is left behind, but ends the session itself.
WatchedWhileOpen ==
  Serving => /\ internal \subseteq watched
             /\ session = "up" =>
                  \A s \in watched : Status(s) = "closed" => s \in internal

\* A closing subscription has a deadline: its call's or its cancellation's.
Unattended(s) ==
  /\ Serving /\ Status(s) = "closing"
  /\ s \notin watched /\ call # [op |-> "unsubscribe", sub |-> s]

\* A deadline is held exactly as long as it may be needed.  In particular a
\* subscription that is being closed is attended to until it is closed, and
\* only the unsubscribe call that the host refuses as busy leaves one behind
\* that nobody closes any more (unsubscribe_active, complete_cancellation,
\* join_cancellation).
CancellationWatched ==
  [][/\ WatchedWhileOpen'
     /\ \A s \in Subs : Unattended(s)' =>
          \/ Unattended(s)
          \/ Received("unsubscribe") /\ The.sub = s /\ The.result = "busy"]_vars
=============================================================================
