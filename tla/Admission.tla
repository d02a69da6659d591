------------------------------ MODULE Admission ------------------------------
(***************************************************************************)
(* The calls of one native connection (native/admission.ex and             *)
(* native/connection.ex).  A caller reserves one of the slots of a public  *)
(* ETS table before it sends its call; the connection queues the call,     *)
(* submits it to the Port when its turn comes, and answers.  Callers time  *)
(* out and die on their own, a closer puts one closing record into the     *)
(* table, and a tick every 50 ms reclaims what was abandoned.              *)
(*                                                                         *)
(* A step of a caller is one operation on the table, on its submission     *)
(* marker or on the mailbox; a step of the connection is one message, or   *)
(* what it does between two operations that callers can see.  Every call   *)
(* is a mutation: a read differs only in that its effect is never unknown. *)
(* The mailbox is a set, since messages of different callers arrive in any *)
(* order.                                                                  *)
(***************************************************************************)
EXTENDS Naturals, Sequences, FiniteSets, SequencesExt

CONSTANTS
  Calls,                 \* calls, each of a caller of its own
  NoCall,
  Closers,               \* callers of disconnect or invalidate
  NoCloser,
  MaximumSlots           \* slots of the table, 64

ASSUME AdmissionAssumption ==
  /\ NoCall \notin Calls /\ NoCloser \notin Closers
  /\ MaximumSlots \in Nat \ {0}

VARIABLES
  phase,                 \* caller: where it is, or what it returned
  probe,                 \* caller: the slot reserve/3 tries next
  late,                  \* the deadline of the call has passed
  token,                 \* submission marker: 0 new, 1 submitted, 2 cancelled
  table,                 \* slots of the table: slot -> call
  sent,                  \* {:bounded, ...} messages not yet received
  reply,                 \* GenServer.reply not yet received
  closing,               \* {:closing, ...} record: its closer
  closer,                \* closers: "new", "first", "sent", "waiting", "done";
                         \* "lost" and "dead" have died before and after sending
  close_late,            \* the deadline of the closing record has passed
  conn,                  \* connection: "idle", "dispatching", "marked",
                         \* "awaiting", "disconnecting", "down"
  order,                 \* call_order
  active,                \* active_call
  drain,                 \* drain_scheduled: a :drain_calls is in the mailbox
  submitted              \* the Port took the frame of the call

callers == <<phase, probe, late>>
closers == <<closing, closer, close_late>>
connection == <<conn, order, active, drain>>
vars == <<callers, closers, connection, token, table, sent, reply, submitted>>

Slots == 1..MaximumSlots
Pending == {"probing", "reserved", "holding", "waiting"}
Queued == Range(order) \cup ({active} \ {NoCall})
Up == conn # "down"
Alive(c) == phase[c] # "dead"
Owned(c) == \E s \in DOMAIN table : table[s] = c

Init ==
  /\ phase = [c \in Calls |-> "new"]
  /\ probe = [c \in Calls |-> 1]
  /\ late = [c \in Calls |-> FALSE]
  /\ token = [c \in Calls |-> 0]
  /\ table = << >>
  /\ sent = {}
  /\ reply = [c \in Calls |-> "none"]
  /\ closing = NoCloser
  /\ closer = [k \in Closers |-> "new"]
  /\ close_late = FALSE
  /\ conn = "idle" /\ order = << >> /\ active = NoCall /\ drain = FALSE
  /\ submitted = [c \in Calls |-> FALSE]

-----------------------------------------------------------------------------
(* The caller.                                                             *)

Returns(c, result) == phase' = [phase EXCEPT ![c] = result]
Goes(c, next) == phase' = [phase EXCEPT ![c] = next]

\* release of the slots of the given calls.
Without(released) == [s \in {t \in DOMAIN table : table[t] \notin released} |-> table[s]]

\* acquire: the identity and the closing record are looked up first.
Acquire(c) ==
  /\ phase[c] = "new"
  /\ IF Up /\ closing = NoCloser THEN Goes(c, "probing") ELSE Returns(c, "no_effect")
  /\ UNCHANGED <<probe, late, closers, connection, token, table, sent, reply, submitted>>

\* reserve: insert_new takes the slot, or the next one is tried.
Reserve(c) ==
  /\ phase[c] = "probing"
  /\ \/ /\ Up /\ probe[c] \in Slots \ DOMAIN table
        /\ table' = [s \in DOMAIN table \cup {probe[c]} |->
                       IF s = probe[c] THEN c ELSE table[s]]
        /\ Goes(c, "reserved")
        /\ probe' = [probe EXCEPT ![c] = 1]
     \/ /\ Up /\ probe[c] \in DOMAIN table
        /\ probe' = [probe EXCEPT ![c] = @ + 1]
        /\ UNCHANGED <<table, phase>>
     \/ /\ ~Up \/ probe[c] \notin Slots
        /\ Returns(c, "no_effect")
        /\ probe' = [probe EXCEPT ![c] = 1]
        /\ UNCHANGED table
  /\ UNCHANGED <<late, closers, connection, token, sent, reply, submitted>>

\* reserve_empty looks for a closing record that came meanwhile.
Reserved(c) ==
  /\ phase[c] = "reserved"
  /\ IF Up /\ closing = NoCloser
       THEN Goes(c, "holding") /\ UNCHANGED table
       ELSE Returns(c, "no_effect") /\ table' = Without({c})
  /\ UNCHANGED <<probe, late, closers, connection, token, sent, reply, submitted>>

\* await_call without time left.
Abandon(c) ==
  /\ phase[c] = "holding" /\ late[c]
  /\ table' = Without({c})
  /\ Returns(c, "no_effect")
  /\ UNCHANGED <<probe, late, closers, connection, token, sent, reply, submitted>>

\* GenServer.call; the time may pass between the check and the message.
Send(c) ==
  /\ phase[c] = "holding"
  /\ sent' = IF Up THEN sent \cup {c} ELSE sent
  /\ Goes(c, "waiting")
  /\ UNCHANGED <<probe, late, closers, connection, token, table, reply, submitted>>

Answered(c) ==
  /\ phase[c] = "waiting" /\ reply[c] # "none"
  /\ Returns(c, reply[c])
  /\ reply' = [reply EXCEPT ![c] = "none"]
  /\ UNCHANGED <<probe, late, closers, connection, token, table, sent, submitted>>

\* Mutant of CancelUnsubmitted: the marker is only read.
CancelUnsubmittedRead(c) == token[c]

\* cancel_unsubmitted, the marker after it.
CancelUnsubmitted(c) == IF token[c] = 0 THEN 2 ELSE token[c]

\* call_error, after the call timed out or the connection was lost.
Fails(c) ==
  /\ phase[c] = "waiting" /\ reply[c] = "none"
  /\ late[c] \/ ~Up
  /\ token' = [token EXCEPT ![c] = CancelUnsubmitted(c)]
  /\ Returns(c, IF token[c] = 1 THEN "unknown" ELSE "no_effect")
  /\ UNCHANGED <<probe, late, closers, connection, table, sent, reply, submitted>>

\* The caller is killed, wherever it is.
Dies(c) ==
  /\ phase[c] \in Pending /\ Up
  /\ Goes(c, "dead")
  /\ UNCHANGED <<probe, late, closers, connection, token, table, sent, reply, submitted>>

Expires(c) ==
  /\ ~late[c]
  /\ phase[c] \in Pending \/ Owned(c) \/ c \in sent
  /\ late' = [late EXCEPT ![c] = TRUE]
  /\ UNCHANGED <<phase, probe, closers, connection, token, table, sent, reply, submitted>>

-----------------------------------------------------------------------------
(* Closers: disconnect and invalidate.                                     *)

BeginClose(k) ==
  /\ closer[k] = "new"
  /\ IF ~Up THEN closer' = [closer EXCEPT ![k] = "done"] /\ UNCHANGED closing
     ELSE IF closing = NoCloser
       THEN closer' = [closer EXCEPT ![k] = "first"] /\ closing' = k
       ELSE closer' = [closer EXCEPT ![k] = "waiting"] /\ UNCHANGED closing
  /\ UNCHANGED <<close_late, callers, connection, token, table, sent, reply, submitted>>

SendClose(k) ==
  /\ closer[k] = "first"
  /\ closer' = [closer EXCEPT ![k] = "sent"]
  /\ UNCHANGED <<closing, close_late, callers, connection, token, table, sent, reply, submitted>>

\* The answer, the exit of the connection, or await_connection_close.
CloseReturns(k) ==
  /\ closer[k] \in {"first", "sent", "waiting"} /\ ~Up
  /\ closer' = [closer EXCEPT ![k] = "done"]
  /\ UNCHANGED <<closing, close_late, callers, connection, token, table, sent, reply, submitted>>

\* A closer that only waits, or whose connection is gone, matters to nobody.
CloserDies(k) ==
  /\ closer[k] \in {"first", "sent"} /\ Up
  /\ closer' = [closer EXCEPT ![k] = IF @ = "sent" THEN "dead" ELSE "lost"]
  /\ UNCHANGED <<closing, close_late, callers, connection, token, table, sent, reply, submitted>>

CloseExpires ==
  /\ closing # NoCloser /\ ~close_late
  /\ close_late' = TRUE
  /\ UNCHANGED <<closing, closer, callers, connection, token, table, sent, reply, submitted>>

-----------------------------------------------------------------------------
(* The connection.                                                         *)

\* The connection receives messages, in its loop or in await_owner_line.
Serving == conn \in {"idle", "awaiting", "disconnecting"}

Tells(told, result) ==
  reply' = [c \in Calls |-> IF c \in told /\ phase[c] = "waiting" THEN result ELSE reply[c]]

\* finish_call, up to the queue: the slot is released and the caller answered.
Finish(c, result) == table' = Without({c}) /\ Tells({c}, result)

\* schedule_drain.
Schedules(o) == drain' = (drain \/ (active' = NoCall /\ o # << >>))

\* The connection stops: the active call is answered with `result', terminate
\* answers the others, and the table goes with its owner.
Stop(result) ==
  /\ conn' = "down" /\ order' = << >> /\ active' = NoCall /\ drain' = FALSE
  /\ table' = << >> /\ sent' = {}
  /\ reply' = [c \in Calls |-> IF c \notin Queued \/ phase[c] # "waiting" THEN reply[c]
                               ELSE IF c = active THEN result ELSE "no_effect"]

\* enqueue_call.
Enqueue(c) ==
  /\ Serving /\ c \in sent
  /\ sent' = sent \ {c}
  /\ IF Owned(c) /\ closing = NoCloser /\ Alive(c) /\ ~late[c]
       THEN /\ order' = Append(order, c)
            /\ drain' = (drain \/ active = NoCall)
            /\ UNCHANGED <<table, reply>>
       ELSE /\ table' = Without({c})
            /\ Tells({c}, "no_effect")
            /\ UNCHANGED <<order, drain>>
  /\ UNCHANGED <<conn, active, callers, closers, token, submitted>>

\* expire_call, and the :DOWN of a caller whose call is queued.  A call is in
\* the queue once, so the filter of finish_call takes out one place.
Drops(c) ==
  /\ Serving
  /\ late[c] \/ ~Alive(c)
  /\ \E i \in DOMAIN order : order[i] = c /\ order' = RemoveAt(order, i)
  /\ Finish(c, "no_effect")
  /\ UNCHANGED <<conn, active, drain, sent, callers, closers, token, submitted>>

\* drain_calls: nothing is left, the call has no more claim, or it is begun.
DrainEmpty ==
  /\ conn = "idle" /\ drain /\ order = << >>
  /\ drain' = FALSE
  /\ UNCHANGED <<conn, order, active, sent, reply, table, callers, closers, token, submitted>>

\* Also a request that does not pass its validation.
DrainRefuses ==
  /\ conn = "idle" /\ drain /\ order # << >>
  /\ Finish(Head(order), "no_effect")
  /\ order' = Tail(order)
  /\ drain' = (Tail(order) # << >>)
  /\ UNCHANGED <<conn, active, sent, callers, closers, token, submitted>>

DrainBegins ==
  /\ conn = "idle" /\ drain /\ order # << >>
  /\ closing = NoCloser /\ Alive(Head(order)) /\ ~late[Head(order)]
  /\ active' = Head(order)
  /\ order' = Tail(order)
  /\ drain' = FALSE
  /\ conn' = "dispatching"
  /\ UNCHANGED <<sent, reply, table, callers, closers, token, submitted>>

\* submit_request sets the marker.  A caller that has cancelled, a deadline
\* that has passed or exhausted request ids stop the session instead.
MarkSubmission ==
  /\ conn = "dispatching"
  /\ \/ /\ token[active] = 0
        /\ token' = [token EXCEPT ![active] = 1]
        /\ conn' = "marked"
        /\ UNCHANGED <<order, active, drain, table, sent, reply>>
     \/ Stop("no_effect") /\ UNCHANGED token
  /\ UNCHANGED <<callers, closers, submitted>>

\* Port.command takes the frame, or not.
Command ==
  /\ conn = "marked"
  /\ submitted' = [submitted EXCEPT ![active] = TRUE]
  /\ conn' = "awaiting"
  /\ UNCHANGED <<order, active, drain, sent, reply, table, token, callers, closers>>

CommandFails ==
  /\ conn = "marked"
  /\ token' = [token EXCEPT ![active] = 2]
  /\ Stop("no_effect")
  /\ UNCHANGED <<callers, closers, submitted>>

\* The host answers in time: with a result, or with an error of its own.
Respond ==
  /\ conn = "awaiting"
  /\ \E result \in {"ok", "failed"} :
       /\ result = "ok" => ~late[active]
       /\ Finish(active, result)
  /\ active' = NoCall
  /\ conn' = "idle"
  /\ Schedules(order)
  /\ UNCHANGED <<order, sent, callers, closers, token, submitted>>

\* A channel error while a response is awaited: an invalid frame, the end of
\* the Port or of the owner, the deadline, the death of the caller; or the
\* host answers with a timeout.
ChannelError ==
  /\ conn = "awaiting"
  /\ \E result \in {"unknown", "failed"} : Stop(result)
  /\ UNCHANGED <<callers, closers, token, submitted>>

\* The Port, the owner or the input fails between two calls.
Lost ==
  /\ conn \in {"idle", "disconnecting"}
  /\ Stop("no_effect")
  /\ UNCHANGED <<callers, closers, token, submitted>>

\* The process is killed: nobody is answered.
Killed ==
  /\ Up
  /\ conn' = "down" /\ order' = << >> /\ active' = NoCall /\ drain' = FALSE
  /\ table' = << >> /\ sent' = {}
  /\ UNCHANGED <<reply, callers, closers, token, submitted>>

\* close_control: a disconnect begins its own exchange with the host, which
\* ends in a stop; an invalidate, or one too late, stops at once.  Within
\* another exchange it is a channel error.
CloseControl ==
  /\ conn = "idle" /\ closing # NoCloser /\ closer[closing] \in {"sent", "dead"}
  /\ \/ /\ ~close_late /\ conn' = "disconnecting"
        /\ UNCHANGED <<order, active, drain, sent, reply, table>>
     \/ Stop("no_effect")
  /\ UNCHANGED <<callers, closers, token, submitted>>

\* Mutant of Reclaims: only calls that were sent.
ReclaimsSent(c) == c \in sent /\ Owned(c) /\ (late[c] \/ ~Alive(c))

\* reap_admission: reservations of nobody, whose call was not yet received.
Reclaims(c) == Owned(c) /\ c \notin Queued /\ (late[c] \/ ~Alive(c))

\* Mutant of CloseFailure: the closing record is not looked at.
CloseFailureNever == FALSE

\* close_failure.
CloseFailure == closing # NoCloser /\ (close_late \/ closer[closing] \in {"lost", "dead"})

\* reap_admission, each 50 ms.  When the close has failed, what it reclaims
\* before the stop goes with the table, and its callers fail with the rest.
Reap ==
  LET abandoned == {c \in Calls : Reclaims(c)}
  IN  /\ Serving
      /\ \/ /\ ~CloseFailure /\ abandoned # {}
            /\ sent' = sent \ abandoned
            /\ table' = Without(abandoned)
            /\ Tells(abandoned \cap sent, "no_effect")
            /\ UNCHANGED <<conn, order, active, drain>>
         \/ CloseFailure /\ Stop("unknown")
      /\ UNCHANGED <<callers, closers, token, submitted>>

-----------------------------------------------------------------------------
Caller(c) ==
  \/ Acquire(c) \/ Reserve(c) \/ Reserved(c) \/ Abandon(c) \/ Send(c)
  \/ Answered(c) \/ Fails(c)

Dispatch == MarkSubmission \/ Command \/ CommandFails

Drain == DrainEmpty \/ DrainRefuses \/ DrainBegins

Next ==
  \/ \E c \in Calls : Caller(c) \/ Dies(c) \/ Expires(c) \/ Enqueue(c) \/ Drops(c)
  \/ \E k \in Closers : BeginClose(k) \/ SendClose(k) \/ CloseReturns(k) \/ CloserDies(k)
  \/ Dispatch \/ Drain \/ Respond \/ ChannelError \/ Lost \/ Killed
  \/ CloseControl \/ Reap \/ CloseExpires

Spec == Init /\ [][Next]_vars

\* Time passes, the maintenance tick comes every 50 ms whatever else the
\* connection does (SF), the steps between two messages end, and an exchange
\* has a deadline.
FairSpec ==
  /\ Spec
  /\ \A c \in Calls : WF_vars(Expires(c)) /\ SF_vars(Drops(c))
  /\ WF_vars(CloseExpires) /\ SF_vars(Reap)
  /\ WF_vars(Dispatch) /\ WF_vars(Respond \/ ChannelError)
-----------------------------------------------------------------------------
(* Properties.                                                             *)

\* A caller that returned a failure without effect can rely on it: the Port
\* has not taken its call and never will, whether the caller timed out, the
\* connection stopped or was killed, or the two met (call_error against
\* submit_request).
NoEffectIsHonest == \A c \in Calls : phase[c] = "no_effect" => ~submitted[c]

\* No slot is lost: whoever dies or forgets, the slot of a call is free again
\* in the end, or the whole connection is gone.
SlotsReclaimed == \A c \in Calls : Owned(c) ~> ~Owned(c)

\* A close that has begun ends the connection, even if the closer dies
\* before it sends its message.
CloseEnds == closing # NoCloser ~> ~Up
=============================================================================
