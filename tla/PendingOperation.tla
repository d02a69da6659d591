-------------------------- MODULE PendingOperation --------------------------
(***************************************************************************)
(* The finite operations of the native controller                          *)
(* (native/src/controller.cpp): reads, writes and invokes (Pending),       *)
(* commissioning windows (PendingWindow) and commissioning                 *)
(* (PendingCommissioning).  The host thread adds a context, schedules its  *)
(* start and waits for its answer until a deadline; the SDK thread starts  *)
(* it, receives its callbacks, publishes the answer and schedules the work *)
(* item that releases the context.                                         *)
(*                                                                         *)
(* A deadline ends the wait, not the operation: the context of a timed-out *)
(* operation stays until the SDK has finished with it, while the host      *)
(* serves further requests.  A step is one critical section of a context,  *)
(* or what the SDK thread does between two of them.  `late' is time: once  *)
(* it is TRUE, Remaining() is 0.                                           *)
(***************************************************************************)
EXTENDS Naturals, Sequences, FiniteSets

CONSTANTS
  Ops,                   \* requests of one session
  NoOp,                  \* no request
  MaximumPending         \* contexts of interactions, 64

ASSUME PendingAssumption ==
  /\ NoOp \notin Ops
  /\ MaximumPending \in Nat \ {0}

VARIABLES
  kind,                  \* per request: what it asks for, "none" before
  host,                  \* host thread: "idle", "waiting", "aborting" (Wait has
                         \* timed out, ScheduleAbort is next), "shutdown",
                         \* "stopping", "stopped"
  current,               \* the request Wait belongs to
  closing,               \* close_requested_, or the channel failed
  held,                  \* contexts in pending_, commissioning_ and window_
  late,                  \* per request: the deadline has passed
  published, response,   \* published_, response_: "ok" or the effect of a failure
  submitted,             \* MutationCompletion, submitted_
  started,               \* fabric_mutation_may_have_started_
  error, responses,      \* overall_error_, mutation_responses_
  done,                  \* done_
  client,                \* what the SDK holds of the context (external)
  setup,                 \* the peer's CASE setup is retained by the SDK
  work,                  \* SDK work queue
  sdk,                   \* section of the SDK thread: [at, op, result]
  down,                  \* Work has run Action::Shutdown
  refused,               \* the SDK refused to schedule a reaper or an abort
  told,                  \* what the peer was told
  sent                   \* the device may have been changed by the request

context == <<published, response, submitted, started, error, responses, done>>
hostside == <<host, current, closing, told>>
outside == <<client, setup, sent>>
vars == <<kind, held, late, down, refused, work, sdk, context, hostside, outside>>

Kinds == {"read", "mutate", "window", "commission"}
Control == {"window", "commission"}
Effects == {"no_effect", "unknown"}
Idle == [at |-> "idle", op |-> NoOp, result |-> "none"]

Interactions == {o \in held : kind[o] \in {"read", "mutate"}}
Controls == {o \in held : kind[o] \in Control}
Active == {o \in held : ~done[o]}

Init ==
  /\ kind = [o \in Ops |-> "none"]
  /\ host = "idle" /\ current = NoOp /\ closing = FALSE
  /\ held = {}
  /\ late = [o \in Ops |-> FALSE]
  /\ published = [o \in Ops |-> FALSE]
  /\ response = [o \in Ops |-> "none"]
  /\ submitted = [o \in Ops |-> FALSE]
  /\ started = [o \in Ops |-> FALSE]
  /\ error = [o \in Ops |-> "none"]
  /\ responses = [o \in Ops |-> 0]
  /\ done = [o \in Ops |-> FALSE]
  /\ client = [o \in Ops |-> "none"]
  /\ setup = FALSE
  /\ work = << >>
  /\ sdk = Idle
  /\ down = FALSE /\ refused = FALSE
  /\ told = [o \in Ops |-> "none"]
  /\ sent = [o \in Ops |-> FALSE]

-----------------------------------------------------------------------------
(* The host thread.                                                        *)

\* Interact, Commission and OpenWindow: whether there is room for a context.
Admits(k) ==
  /\ Cardinality(Interactions) < MaximumPending
  /\ k \in Control => Controls = {}

\* A request is taken from stdin: between two operations, or by the control
\* pump of the one that waits.
Accept(o, k) ==
  /\ host \in {"idle", "waiting"} /\ ~closing
  /\ kind[o] = "none"
  /\ kind' = [kind EXCEPT ![o] = k]

Answer(o, result) == told' = [told EXCEPT ![o] = IF closing THEN "dropped" ELSE result]

Call(o, k) ==
  /\ Accept(o, k) /\ host = "idle" /\ Admits(k)
  /\ held' = held \cup {o}
  /\ work' = Append(work, [do |-> "start", op |-> o])
  /\ host' = "waiting" /\ current' = o
  /\ UNCHANGED <<closing, told, late, down, refused, sdk, context, outside>>

\* interaction_busy: no operation is begun inside the wait of another, nor
\* without room for its context.
Busy(o, k) ==
  /\ Accept(o, k)
  /\ host = "waiting" \/ ~Admits(k)
  /\ Answer(o, "no_effect")
  /\ UNCHANGED <<host, current, closing, held, late, down, refused, work, sdk, context, outside>>

\* ScheduleWork refuses the start: an interaction is reaped at once; a control
\* context is left to a reaper that must itself be scheduled.
Unavailable(o, k) ==
  /\ Accept(o, k) /\ host = "idle" /\ Admits(k)
  /\ published' = [published EXCEPT ![o] = TRUE]
  /\ response' = [response EXCEPT ![o] = "no_effect"]
  /\ done' = [done EXCEPT ![o] = TRUE]
  /\ \/ /\ k \notin Control
        /\ UNCHANGED <<held, work, refused>>
     \/ /\ k \in Control
        /\ held' = held \cup {o}
        /\ work' = Append(work, [do |-> "reap", op |-> o])
        /\ UNCHANGED refused
     \/ /\ k \in Control
        /\ held' = held \cup {o}
        /\ refused' = TRUE
        /\ UNCHANGED work
  /\ host' = "waiting" /\ current' = o
  /\ UNCHANGED <<closing, told, late, down, sdk, submitted, started, error, responses, outside>>

\* Wait, the answer is there.
WaitReturns ==
  /\ host = "waiting" /\ published[current]
  /\ Answer(current, response[current])
  /\ host' = "idle" /\ current' = NoOp
  /\ UNCHANGED <<closing, kind, held, late, down, refused, work, sdk, context, outside>>

\* The effect a failure of the context must admit, as Wait and
\* AbortOnSdkThread compute it.
EffectOf(o) ==
  LET mutating == CASE kind[o] = "read" -> FALSE
                    [] kind[o] = "commission" -> started[o]
                    [] OTHER -> submitted[o]
  IN  IF mutating THEN "unknown" ELSE "no_effect"

\* Mutant of TimeoutEffect: a timeout is always said to have no effect.
TimeoutEffectNone(o) == "no_effect"

TimeoutEffect(o) == EffectOf(o)

\* Wait at its deadline, or when the control pump ends the session: it
\* answers itself, whatever the operation does from now on.
WaitExpires ==
  /\ host = "waiting"
  /\ closing \/ (late[current] /\ ~published[current])
  /\ response' = [response EXCEPT ![current] = TimeoutEffect(current)]
  /\ published' = [published EXCEPT ![current] = TRUE]
  /\ IF kind[current] \in Control
       THEN host' = "aborting" /\ UNCHANGED <<current, told>>
       ELSE /\ Answer(current, response'[current])
            /\ host' = "idle" /\ current' = NoOp
  /\ UNCHANGED <<closing, kind, held, late, down, refused, work, sdk, submitted, started,
                 error, responses, done, outside>>

\* ScheduleAbort, with the context's mutex released.
ScheduleAbort ==
  /\ host = "aborting"
  /\ \/ work' = Append(work, [do |-> "abort", op |-> current]) /\ UNCHANGED refused
     \/ refused' = TRUE /\ UNCHANGED work
  /\ Answer(current, response[current])
  /\ host' = "idle" /\ current' = NoOp
  /\ UNCHANGED <<closing, kind, held, late, down, sdk, context, outside>>

\* A close request, a closed stdin or a failed channel: read between two
\* requests or by the control pump of a wait.
Closes ==
  /\ host \in {"idle", "waiting"} /\ ~closing
  /\ closing' = TRUE
  /\ UNCHANGED <<host, current, told, kind, held, late, down, refused, work, sdk, context, outside>>

\* Cleanup: Execute schedules the shutdown and waits for it without bound.
Cleanup ==
  /\ host = "idle" /\ closing
  /\ \/ /\ work' = Append(work, [do |-> "shutdown", op |-> NoOp])
        /\ host' = "shutdown"
     \/ host' = "stopping" /\ UNCHANGED work
  /\ UNCHANGED <<current, closing, told, kind, held, late, down, refused, sdk, context, outside>>

ShutdownDone ==
  /\ host = "shutdown" /\ down /\ sdk = Idle
  /\ host' = "stopping"
  /\ UNCHANGED <<current, closing, told, kind, held, late, down, refused, work, sdk, context, outside>>

\* StopEventLoopTask has joined the SDK thread; only then are the contexts
\* released.
LoopStops ==
  /\ host = "stopping" /\ sdk = Idle
  /\ host' = "stopped"
  /\ held' = {} /\ work' = << >>
  /\ client' = [o \in Ops |-> "none"]
  /\ setup' = FALSE
  /\ UNCHANGED <<current, closing, told, kind, late, down, refused, sdk, context, sent>>

\* Time passes.
Expires(o) ==
  /\ o \in held /\ ~done[o] /\ ~late[o]
  /\ late' = [late EXCEPT ![o] = TRUE]
  /\ UNCHANGED <<kind, held, down, refused, work, sdk, context, hostside, outside>>

HostSteps ==
  \/ WaitReturns \/ WaitExpires \/ ScheduleAbort \/ Cleanup \/ ShutdownDone \/ LoopStops

-----------------------------------------------------------------------------
(* The SDK thread: work items.                                             *)

SdkIdle == sdk = Idle /\ host # "stopped"

Enters(at, o, result) == sdk' = [at |-> at, op |-> o, result |-> result]

Item(do) == SdkIdle /\ work # << >> /\ Head(work).do = do
Next1 == Head(work).op

\* Start of an interaction: too late, refused by GetConnectedDevice, or on
\* the way to a session.
StartInteraction ==
  /\ Item("start") /\ kind[Next1] \notin Control
  /\ work' = Tail(work)
  /\ \/ /\ ~late[Next1]
        /\ client' = [client EXCEPT ![Next1] = "connecting"]
        /\ setup' = TRUE
        /\ UNCHANGED sdk
     \/ Enters("publish", Next1, "no_effect") /\ UNCHANGED <<client, setup>>
  /\ UNCHANGED <<kind, held, late, down, refused, context, hostside, sent>>

StartWindow ==
  /\ Item("start") /\ kind[Next1] = "window"
  /\ work' = Tail(work)
  /\ IF late[Next1] THEN Enters("publish", Next1, "no_effect")
                    ELSE Enters("encode", Next1, "none")
  /\ UNCHANGED <<kind, held, late, down, refused, context, hostside, outside>>

\* Discovery and PairDevice, either of which may be refused.
StartCommissioning ==
  /\ Item("start") /\ kind[Next1] = "commission"
  /\ work' = Tail(work)
  /\ \/ /\ ~late[Next1]
        /\ client' = [client EXCEPT ![Next1] = "pairing"]
        /\ submitted' = [submitted EXCEPT ![Next1] = TRUE]
        /\ UNCHANGED sdk
     \/ /\ Enters("publish", Next1, "no_effect")
        /\ \/ UNCHANGED submitted
           \/ ~late[Next1] /\ submitted' = [submitted EXCEPT ![Next1] = TRUE]
        /\ UNCHANGED client
  /\ UNCHANGED <<kind, held, late, down, refused, published, response, started, error,
                 responses, done, setup, sent, hostside>>

\* AbortOnSdkThread of a window or a commissioning: the SDK lets go of it.
AbortWork ==
  /\ Item("abort")
  /\ work' = Tail(work)
  /\ client' = [client EXCEPT ![Next1] = "none"]
  /\ Enters("publish", Next1, EffectOf(Next1))
  /\ UNCHANGED <<kind, held, late, down, refused, context, hostside, setup, sent>>

\* Mutant of Releases: the setup is released whoever still connects.
ReleasesAlways(remaining) == TRUE

\* ReleaseUnusedSessionSetup, the contexts of this peer that remain.
Releases(remaining) == remaining = {}

\* ReapPending, ReapWindow and ReapCommissioning.
ReapWork ==
  /\ Item("reap")
  /\ work' = Tail(work)
  /\ held' = IF done[Next1] THEN held \ {Next1} ELSE held
  /\ setup' = (setup /\ ~Releases(Active \ {Next1}))
  /\ UNCHANGED <<kind, late, down, refused, sdk, context, hostside, client, sent>>

\* Work, Action::Shutdown: every context is aborted while the host waits.
ShutdownWork ==
  LET reapers == {o \in Controls : ~done[o]}
  IN  /\ Item("shutdown")
      /\ client' = [o \in Ops |-> IF o \in held THEN "none" ELSE client[o]]
      /\ response' = [o \in Ops |-> IF o \in held /\ ~published[o] THEN EffectOf(o)
                                                                 ELSE response[o]]
      /\ published' = [o \in Ops |-> published[o] \/ o \in held]
      /\ done' = [o \in Ops |-> done[o] \/ o \in held]
      /\ IF reapers = {} THEN work' = Tail(work)
           ELSE work' = Append(Tail(work), [do |-> "reap", op |-> CHOOSE o \in reapers : TRUE])
      /\ down' = TRUE
      /\ UNCHANGED <<kind, held, late, refused, sdk, submitted, started, error, responses,
                     hostside, setup, sent>>

Work ==
  \/ StartInteraction \/ StartWindow \/ StartCommissioning
  \/ AbortWork \/ ReapWork \/ ShutdownWork

-----------------------------------------------------------------------------
(* The SDK thread: sections inside a callback.                             *)

At(at) == sdk.at = at

\* Publish: the first answer stays.
Publish ==
  /\ At("publish")
  /\ IF published[sdk.op] THEN UNCHANGED <<published, response>>
       ELSE /\ published' = [published EXCEPT ![sdk.op] = TRUE]
            /\ response' = [response EXCEPT ![sdk.op] = sdk.result]
  /\ Enters("mark", sdk.op, "none")
  /\ UNCHANGED <<kind, held, late, down, refused, work, submitted, started, error, responses,
                 done, hostside, outside>>

\* Mutant of MarkDone: the reaper is left to the next request.
MarkDoneOnly ==
  /\ At("mark")
  /\ done' = [done EXCEPT ![sdk.op] = TRUE]
  /\ sdk' = Idle
  /\ UNCHANGED <<kind, held, late, down, refused, work, published, response, submitted,
                 started, error, responses, hostside, outside>>

MarkDone ==
  /\ At("mark")
  /\ done' = [done EXCEPT ![sdk.op] = TRUE]
  /\ \/ done[sdk.op] /\ UNCHANGED <<work, refused>>
     \/ /\ ~done[sdk.op]
        /\ work' = Append(work, [do |-> "reap", op |-> sdk.op])
        /\ UNCHANGED refused
     \/ ~done[sdk.op] /\ refused' = TRUE /\ UNCHANGED work
  /\ sdk' = Idle
  /\ UNCHANGED <<kind, held, late, down, published, response, submitted, started, error,
                 responses, hostside, outside>>

\* StartWrite, StartInvoke and the window's Start: the value is encoded and
\* the mutation is marked as submitted before it is sent.
Submit ==
  /\ At("encode")
  /\ \/ /\ submitted' = [submitted EXCEPT ![sdk.op] = TRUE]
        /\ Enters("send", sdk.op, "none")
     \/ /\ kind[sdk.op] = "mutate"
        /\ Enters("publish", sdk.op, "no_effect")
        /\ UNCHANGED submitted
  /\ UNCHANGED <<kind, held, late, down, refused, work, published, response, started, error,
                 responses, done, hostside, outside>>

\* SendWriteRequest, SendCommandRequest and OpenCommissioningWindow.
Send ==
  /\ At("send")
  /\ client' = [client EXCEPT ![sdk.op] = "exchange"]
  /\ sent' = [sent EXCEPT ![sdk.op] = TRUE]
  /\ sdk' = Idle
  /\ UNCHANGED <<kind, held, late, down, refused, work, context, hostside, setup>>

\* They fail and nothing has left; only a window withdraws the mark.
SendFails ==
  /\ At("send")
  /\ IF kind[sdk.op] = "window" THEN submitted' = [submitted EXCEPT ![sdk.op] = FALSE]
                                ELSE UNCHANGED submitted
  /\ Enters("publish", sdk.op, "no_effect")
  /\ UNCHANGED <<kind, held, late, down, refused, work, published, response, started, error,
                 responses, done, hostside, outside>>

\* The stage that OnCommissioningStageStart announced reaches the device.
StageSent ==
  /\ At("stage")
  /\ sent' = [sent EXCEPT ![sdk.op] = TRUE]
  /\ sdk' = Idle
  /\ UNCHANGED <<kind, held, late, down, refused, work, context, hostside, client, setup>>

Sections == Publish \/ MarkDone \/ Submit \/ Send \/ SendFails \/ StageSent

-----------------------------------------------------------------------------
(* The SDK thread: callbacks.                                              *)

Awaits(o, what) == SdkIdle /\ client[o] = what

\* Connected: the session is there, and there is time left.
OnConnected(o) ==
  /\ Awaits(o, "connecting") /\ ~late[o]
  /\ \/ /\ kind[o] = "mutate"
        /\ Enters("encode", o, "none")
        /\ client' = [client EXCEPT ![o] = "none"]
     \/ /\ kind[o] = "read"
        /\ client' = [client EXCEPT ![o] = "exchange"]
        /\ UNCHANGED sdk
  /\ UNCHANGED <<kind, held, late, down, refused, work, context, hostside, setup, sent>>

\* There is no session, not enough time for a timed request or any, or the
\* read is refused: nothing is submitted.
ConnectionFailed(o) ==
  /\ Awaits(o, "connecting")
  /\ client' = [client EXCEPT ![o] = "none"]
  /\ Enters("publish", o, "no_effect")
  /\ UNCHANGED <<kind, held, late, down, refused, work, context, hostside, setup, sent>>

\* OnAttributeData, OnEventData: AppendResult beyond its limits.
ResultOverflows(o) ==
  /\ Awaits(o, "exchange") /\ kind[o] = "read"
  /\ error' = [error EXCEPT ![o] = "no_effect"]
  /\ UNCHANGED <<kind, held, late, down, refused, work, sdk, published, response, submitted,
                 started, responses, done, hostside, outside>>

\* OnError, OnNoResponse, and a response that is not the one requested.
OnError(o) ==
  /\ Awaits(o, "exchange") /\ kind[o] \notin Control
  /\ error' = [error EXCEPT ![o] = EffectOf(o)]
  /\ UNCHANGED <<kind, held, late, down, refused, work, sdk, published, response, submitted,
                 started, responses, done, hostside, outside>>

\* OnResponse of the WriteClient or the CommandSender, with success; a peer
\* may send more than one.
OnResponse(o) ==
  /\ Awaits(o, "exchange") /\ kind[o] = "mutate"
  /\ responses[o] < 2
  /\ responses' = [responses EXCEPT ![o] = @ + 1]
  /\ UNCHANGED <<kind, held, late, down, refused, work, sdk, published, response, submitted,
                 started, error, done, hostside, outside>>

\* FinishRead, FinishMutation.
Outcome(o) ==
  IF error[o] # "none" THEN error[o]
  ELSE IF kind[o] = "mutate" /\ responses[o] # 1 THEN "unknown"
  ELSE "ok"

OnDone(o) ==
  /\ Awaits(o, "exchange") /\ kind[o] \notin Control
  /\ client' = [client EXCEPT ![o] = "none"]
  /\ Enters("publish", o, Outcome(o))
  /\ UNCHANGED <<kind, held, late, down, refused, work, context, hostside, setup, sent>>

\* Opened: the window is open, or the device, the code or the payload failed.
Opened(o) ==
  /\ Awaits(o, "exchange") /\ kind[o] = "window"
  /\ client' = [client EXCEPT ![o] = "none"]
  /\ \E result \in {"ok", "unknown"} : Enters("publish", o, result)
  /\ UNCHANGED <<kind, held, late, down, refused, work, context, hostside, setup, sent>>

\* OnCommissioningStageStart finds its context in commissioning_, and marks
\* it before the stage that changes the fabric is sent.
StageStarted(o) ==
  /\ Awaits(o, "pairing") /\ o \in Controls
  /\ started' = [started EXCEPT ![o] = TRUE]
  /\ Enters("stage", o, "none")
  /\ UNCHANGED <<kind, held, late, down, refused, work, published, response, submitted,
                 error, responses, done, hostside, outside>>

\* OnCommissioningComplete: on to the final CASE session, or failed.
CommissioningComplete(o) ==
  /\ Awaits(o, "pairing") /\ o \in Controls
  /\ \/ /\ client' = [client EXCEPT ![o] = "case"]
        /\ setup' = TRUE
        /\ UNCHANGED sdk
     \/ /\ client' = [client EXCEPT ![o] = "none"]
        /\ \/ Enters("publish", o, EffectOf(o))
           \/ Enters("publish", o, "unknown")
        /\ UNCHANGED setup
  /\ UNCHANGED <<kind, held, late, down, refused, work, context, hostside, sent>>

CaseConnected(o) ==
  /\ Awaits(o, "case")
  /\ client' = [client EXCEPT ![o] = "none"]
  /\ \E result \in {"ok", "unknown"} : Enters("publish", o, result)
  /\ UNCHANGED <<kind, held, late, down, refused, work, context, hostside, setup, sent>>

\* The SDK ends every exchange it began: each has its own time limit.
Ends(o) ==
  \/ OnConnected(o) \/ ConnectionFailed(o) \/ OnDone(o) \/ Opened(o)
  \/ CommissioningComplete(o) \/ CaseConnected(o)

Callbacks(o) == Ends(o) \/ ResultOverflows(o) \/ OnError(o) \/ OnResponse(o) \/ StageStarted(o)

-----------------------------------------------------------------------------
Next ==
  \/ HostSteps \/ Closes
  \/ Work \/ Sections
  \/ \E o \in Ops :
       \/ Expires(o) \/ Callbacks(o)
       \/ \E k \in Kinds : Call(o, k) \/ Busy(o, k) \/ Unavailable(o, k)

Spec == Init /\ [][Next]_vars

-----------------------------------------------------------------------------
(* Properties.                                                             *)

\* Contexts are kept exactly as long as the SDK may call them: a context that
\* is done has nothing registered with the SDK, and one that was released has
\* no work item but an abort, which owns it; nor is the peer's session setup
\* released while a context still connects through it.
ContextOutlivesCallbacks ==
  /\ \A o \in Ops : done[o] => client[o] = "none"
  /\ \A o \in Ops \ held :
       /\ client[o] = "none"
       /\ \A i \in DOMAIN work : work[i].op = o => work[i].do = "abort"
  /\ \A o \in Ops : client[o] \in {"connecting", "case"} => setup

\* An answer is right when it is decided: a failure said to have no effect
\* has sent nothing by then, and a success of a mutation had exactly one
\* response and no error (Wait against Submit and the callbacks).
EffectWhenDecided ==
  [][\A o \in Ops : response'[o] # response[o] =>
       /\ response'[o] = "no_effect" => ~sent[o]
       /\ response'[o] = "ok" /\ kind[o] = "mutate" =>
            sent[o] /\ responses[o] = 1 /\ error[o] = "none"]_vars

\* No context is kept for nothing: while the controller works, each one that
\* holds a slot has a work item, an SDK registration or a callback that will
\* release it, unless the SDK has refused a work item.
NoOrphan ==
  ~down /\ ~refused /\ host # "stopped" =>
    \A o \in held :
      \/ client[o] # "none" \/ sdk.op = o
      \/ \E i \in DOMAIN work : work[i].op = o

\* A failure that was said to have no effect has none: the operation is not
\* submitted after its timeout was answered.
NoEffectAfterTimeout == \A o \in Ops : told[o] = "no_effect" => ~sent[o]
=============================================================================
