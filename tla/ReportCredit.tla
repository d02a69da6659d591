---------------------------- MODULE ReportCredit ----------------------------
(***************************************************************************)
(* ReportCreditManager (native/src/subscription.cpp) together with the     *)
(* handlers of HostProtocol (native/src/protocol.cpp) that call it.        *)
(*                                                                         *)
(* The manager bounds the report frames the native host may have in flight *)
(* towards the BEAM: a session credit in frames and in encoded bytes, a    *)
(* per-stream credit, and a bounded queue for the reports that have no     *)
(* credit.  Every handler runs under subscription_mutex_.  A handler whose *)
(* body is a loop is modelled one iteration per step: `phase' says which   *)
(* loop holds the mutex, and no other handler can start before it is       *)
(* "idle" again.                                                           *)
(*                                                                         *)
(* The acknowledgements are whatever the peer sends: Acknowledge is        *)
(* enabled for every sequence and byte count, right or wrong.              *)
(***************************************************************************)
EXTENDS Integers, Sequences, FiniteSets, SequencesExt

CONSTANTS
  Streams,               \* stream keys "subscription_id:generation"
  QueueLimits,           \* queue_limit values of subscribe requests
  Bodies,                \* encoded report lengths without the sequence digits
  SessionReportCredit,   \* kSessionReportCredit, 64
  SessionByteCredit,     \* kSessionByteCredit, 1048576
  StreamReportCredit,    \* kStreamReportCredit, 16
  MaximumQueuedReports,  \* kMaximumQueuedReports, 64
  MaximumQueuedBytes,    \* kMaximumQueuedBytes, 1048576
  MaximumLive,           \* live streams AddStream admits, 64
  MaximumStreams,        \* stream records AddStream admits, 128
  MaximumSequence,       \* the largest uint64_t, for next_sequence_
  MaximumBytes,          \* the largest uint64_t, for the byte counters
  OutputFrames,          \* frames BoundedOutput holds before a write fails
  Digits,                \* Digits[n]: length of the decimal sequence n
  NoStream               \* no stream

ASSUME CreditAssumption ==
  /\ QueueLimits \subseteq Nat \ {0}
  /\ Bodies \subseteq Nat \ {0}
  /\ SessionReportCredit \in Nat
  /\ SessionByteCredit \in Nat
  /\ StreamReportCredit \in Nat
  /\ MaximumQueuedReports \in Nat
  /\ MaximumQueuedBytes \in Nat
  /\ MaximumLive \in Nat
  /\ MaximumStreams \in Nat
  /\ MaximumSequence \in Nat \ {0}
  /\ MaximumBytes \in Nat
  /\ OutputFrames \in Nat
  /\ Digits \in [1..MaximumSequence -> Nat \ {0}]
  /\ \A n \in 1..MaximumSequence : Digits[n] <= Digits[MaximumSequence]
  /\ MaximumStreams >= MaximumLive + SessionReportCredit
  /\ NoStream \notin Streams

VARIABLES
  status,                \* streams_: "absent" is no entry in the map
  queue_limit,           \* per stream, 0 when absent
  stream_outstanding,    \* per stream, its frames in outstanding_
  stream_queued,         \* per stream, its frames in queued_
  last_transmitted,      \* per stream, the sequence its barrier names
  outstanding,           \* outstanding_: transmitted, not acknowledged
  queued,                \* queued_: waiting for credit
  outstanding_bytes,
  queued_bytes,
  next_sequence,
  cumulative_bytes,      \* cumulative_transmitted_bytes_
  acknowledged_sequence,
  acknowledged_bytes,
  wire,                  \* frames transmit_ accepted, not yet read by the peer
  healthy,               \* HostProtocol::healthy()
  phase,                 \* the loop that holds subscription_mutex_
  victim,                \* stream being retired or recovered
  successor,             \* stream BeginRecovery adds after the drain
  limit,                 \* its queue_limit
  target                 \* acknowledgement being applied

streams == <<status, queue_limit, stream_outstanding, stream_queued,
             last_transmitted>>
counters == <<outstanding_bytes, queued_bytes, next_sequence, cumulative_bytes>>
acknowledged == <<acknowledged_sequence, acknowledged_bytes>>
control == <<phase, victim, successor, limit, target>>
vars == <<streams, outstanding, queued, counters, acknowledged, wire, healthy,
          control>>

-----------------------------------------------------------------------------
(* Data.                                                                   *)

\* streams_.emplace and streams_.erase.
Open(s, bound) ==
  /\ status' = [status EXCEPT ![s] = "live"]
  /\ queue_limit' = [queue_limit EXCEPT ![s] = bound]
  /\ UNCHANGED <<stream_outstanding, stream_queued, last_transmitted>>

Erase(s) ==
  /\ status' = [status EXCEPT ![s] = "absent"]
  /\ queue_limit' = [queue_limit EXCEPT ![s] = 0]
  /\ stream_outstanding' = [stream_outstanding EXCEPT ![s] = 0]
  /\ stream_queued' = [stream_queued EXCEPT ![s] = 0]
  /\ last_transmitted' = [last_transmitted EXCEPT ![s] = 0]

\* encoded.size() + 1: the frame carries its own sequence in decimal.
Encoded(body, sequence) == body + Digits[sequence] + 1

\* A queued frame is measured as if it carried the largest sequence.
Reserved(body) == Encoded(body, MaximumSequence)

QueuedFrame(s, body) == [stream |-> s, body |-> body, bytes |-> Reserved(body)]

\* Mutant of SentFrame: the total before the frame is recorded.
SentFrameStaleTotal(s, body) ==
  [stream |-> s, sequence |-> next_sequence,
   bytes |-> Encoded(body, next_sequence), cumulative |-> cumulative_bytes]

SentFrame(s, body) ==
  [stream |-> s, sequence |-> next_sequence,
   bytes |-> Encoded(body, next_sequence),
   cumulative |-> cumulative_bytes + Encoded(body, next_sequence)]

ReportMessage(frame) ==
  [event |-> "subscription_report", stream |-> frame.stream,
   sequence |-> frame.sequence, bytes |-> frame.bytes]
\* Mutant of Barrier: it names the last report of the session.
BarrierOfSession(s) ==
  [event |-> "stream_retired", stream |-> s, sequence |-> next_sequence - 1, bytes |-> 0]

Barrier(s) ==
  [event |-> "stream_retired", stream |-> s,
   sequence |-> last_transmitted[s], bytes |-> 0]
Control(event, s) == [event |-> event, stream |-> s, sequence |-> 0, bytes |-> 0]

IsLive(s) == status[s] = "live"
IsRetired(s) == status[s] = "retired"
Records == {s \in Streams : status[s] # "absent"}
Live == {s \in Streams : IsLive(s)}

\* The output takes n more frames; otherwise the write fails the channel.
Room(n) == Len(wire) + n <= OutputFrames

LesserOf(a, b) == IF a <= b THEN a ELSE b

\* Mutant of CanTransmit: one frame beyond the session's credit.
CanTransmitOneMore(s, bytes) ==
  /\ Len(outstanding) <= SessionReportCredit
  /\ bytes <= SessionByteCredit - outstanding_bytes
  /\ stream_outstanding[s] < LesserOf(StreamReportCredit, queue_limit[s])

CanTransmit(s, bytes) ==
  /\ Len(outstanding) < SessionReportCredit
  /\ outstanding_bytes <= SessionByteCredit
  /\ bytes <= SessionByteCredit - outstanding_bytes
  /\ stream_outstanding[s] < LesserOf(StreamReportCredit, queue_limit[s])

\* Mutant of CountersAllow: the sequence may pass its maximum.
CountersAllowWrap(bytes) == bytes <= MaximumBytes - cumulative_bytes

\* The counters allow one more frame of this length.
CountersAllow(bytes) ==
  /\ next_sequence # MaximumSequence
  /\ bytes <= MaximumBytes - cumulative_bytes

-----------------------------------------------------------------------------
Init ==
  /\ status = [s \in Streams |-> "absent"]
  /\ queue_limit = [s \in Streams |-> 0]
  /\ stream_outstanding = [s \in Streams |-> 0]
  /\ stream_queued = [s \in Streams |-> 0]
  /\ last_transmitted = [s \in Streams |-> 0]
  /\ outstanding = << >>
  /\ queued = << >>
  /\ outstanding_bytes = 0
  /\ queued_bytes = 0
  /\ next_sequence = 1
  /\ cumulative_bytes = 0
  /\ acknowledged_sequence = 0
  /\ acknowledged_bytes = 0
  /\ wire = << >>
  /\ healthy = TRUE
  /\ phase = "idle"
  /\ victim = NoStream
  /\ successor = NoStream
  /\ limit = 0
  /\ target = [sequence |-> 0, bytes |-> 0]

\* FailChannel: the host stops; no handler runs on this generation again.
FailChannel ==
  /\ healthy' = FALSE
  /\ UNCHANGED <<streams, outstanding, queued, counters, acknowledged, wire,
                 control>>

\* A handler may start: the mutex is free and the host is healthy.
Ready == healthy /\ phase = "idle"

\* The mutex is released.
Finish ==
  /\ phase' = "idle"
  /\ victim' = NoStream
  /\ successor' = NoStream
  /\ limit' = 0
  /\ target' = [sequence |-> 0, bytes |-> 0]

Admits(s) ==
  /\ Cardinality(Live) < MaximumLive
  /\ Cardinality(Records) < MaximumStreams
  /\ status[s] = "absent"

\* The subscribe handler after the backend has registered the subscription.
\* A refused stream is cancelled in the backend and answered with
\* subscription_busy: the manager is unchanged.
AddStream(s, bound) ==
  /\ Ready
  /\ Admits(s)
  /\ Open(s, bound)
  /\ UNCHANGED <<outstanding, queued, counters, acknowledged, wire, healthy,
                 control>>

\* TransmitFrame when the write succeeds.
TransmitFrame(s, body) ==
  LET frame == SentFrame(s, body) IN
  /\ CountersAllow(frame.bytes)
  /\ Room(1)
  /\ next_sequence' = next_sequence + 1
  /\ cumulative_bytes' = frame.cumulative
  /\ outstanding_bytes' = outstanding_bytes + frame.bytes
  /\ outstanding' = Append(outstanding, frame)
  /\ stream_outstanding' = [stream_outstanding EXCEPT ![s] = @ + 1]
  /\ last_transmitted' = [last_transmitted EXCEPT ![s] = next_sequence]
  /\ wire' = Append(wire, ReportMessage(frame))

\* Mutant of Direct: a report with credit overtakes the queue.
DirectOvertakes(s, body) == CanTransmit(s, Encoded(body, next_sequence))

\* Submit transmits at once only when nothing waits before it.
Direct(s, body) ==
  /\ CanTransmit(s, Encoded(body, next_sequence))
  /\ queued = << >>

Fits(s, body) ==
  /\ Len(queued) < MaximumQueuedReports
  /\ queued_bytes <= MaximumQueuedBytes
  /\ Reserved(body) <= MaximumQueuedBytes - queued_bytes
  /\ stream_queued[s] < queue_limit[s]

Oversized(body) == Encoded(body, next_sequence) > SessionByteCredit

\* EmitReport, Submit = Transmitted.
SubmitTransmits(s, body) ==
  /\ Ready
  /\ IsLive(s)
  /\ next_sequence # MaximumSequence
  /\ ~Oversized(body)
  /\ Direct(s, body)
  /\ TransmitFrame(s, body)
  /\ UNCHANGED <<status, queue_limit, stream_queued, queued, queued_bytes,
                 acknowledged, healthy, control>>

\* EmitReport, Submit = Queued.
SubmitQueues(s, body) ==
  /\ Ready
  /\ IsLive(s)
  /\ next_sequence # MaximumSequence
  /\ ~Oversized(body)
  /\ ~Direct(s, body)
  /\ Fits(s, body)
  /\ queued' = Append(queued, QueuedFrame(s, body))
  /\ queued_bytes' = queued_bytes + Reserved(body)
  /\ stream_queued' = [stream_queued EXCEPT ![s] = @ + 1]
  /\ UNCHANGED <<status, queue_limit, stream_outstanding, last_transmitted,
                 outstanding, outstanding_bytes, next_sequence,
                 cumulative_bytes, acknowledged, wire, healthy, control>>

\* Retire up to its loop: the stream stops being live and the loop that
\* erases its queued frames starts.  `before' is what was written first.
BeginRetire(s, before, next, bound) ==
  /\ status' = [status EXCEPT ![s] = "retired"]
  /\ Room(Len(before))
  /\ wire' = wire \o before
  /\ phase' = "purge"
  /\ victim' = s
  /\ successor' = next
  /\ limit' = bound
  /\ UNCHANGED <<queue_limit, stream_outstanding, stream_queued,
                 last_transmitted, outstanding, queued, counters,
                 acknowledged, healthy, target>>

\* EmitReport, Submit = StreamOverflow: one subscription_error, then Retire.
SubmitOverflows(s, body) ==
  /\ Ready
  /\ IsLive(s)
  /\ next_sequence # MaximumSequence
  /\ Oversized(body) \/ (~Direct(s, body) /\ ~Fits(s, body))
  /\ BeginRetire(s, <<Control("subscription_error", s)>>, NoStream, 0)

\* EmitReport, Submit = Invalid: a counter is exhausted.
SubmitInvalid(s, body) ==
  /\ Ready
  /\ IsLive(s)
  /\ \/ next_sequence = MaximumSequence
     \/ /\ ~Oversized(body)
        /\ Direct(s, body)
        /\ ~CountersAllow(Encoded(body, next_sequence))
  /\ FailChannel

\* EmitFailure: the SDK subscription is lost.
EmitFailure(s) ==
  /\ Ready
  /\ IsLive(s)
  /\ BeginRetire(s, <<Control("subscription_error", s)>>, NoStream, 0)

\* The unsubscribe handler once the backend has cancelled.
Unsubscribe(s) ==
  /\ Ready
  /\ IsLive(s)
  /\ BeginRetire(s, << >>, NoStream, 0)

\* EmitStatus for the first resubscribing attempt: the status frame, then
\* BeginRecovery from generation s to generation t of one subscription.
BeginRecovery(s, t) ==
  /\ Ready
  /\ IsLive(s)
  /\ s # t
  /\ status[t] = "absent"
  /\ BeginRetire(s, <<Control("resubscribing", t)>>, t, queue_limit[s])

QueuedOf(s) == {i \in DOMAIN queued : queued[i].stream = s}

DropAt(frames, i) ==
  [j \in 1..(Len(frames) - 1) |-> IF j < i THEN frames[j] ELSE frames[j + 1]]

\* Retire: one iteration of the loop over queued_.
Purge ==
  /\ healthy
  /\ phase = "purge"
  /\ \E i \in QueuedOf(victim) :
       /\ \A j \in QueuedOf(victim) : i <= j
       /\ queued' = DropAt(queued, i)
       /\ queued_bytes' = queued_bytes - queued[i].bytes
  /\ stream_queued' = [stream_queued EXCEPT ![victim] = @ - 1]
  /\ UNCHANGED <<status, queue_limit, stream_outstanding, last_transmitted,
                 outstanding, outstanding_bytes, next_sequence,
                 cumulative_bytes, acknowledged, wire, healthy, control>>

\* Retire: the barrier, and the record dropped when nothing is outstanding.
RetireBarrier ==
  /\ healthy
  /\ phase = "purge"
  /\ QueuedOf(victim) = {}
  /\ Room(1)
  /\ wire' = Append(wire, Barrier(victim))
  /\ IF stream_outstanding[victim] = 0 THEN Erase(victim)
                                       ELSE UNCHANGED streams
  /\ phase' = "drain"
  /\ victim' = NoStream
  /\ UNCHANGED <<outstanding, queued, counters, acknowledged, healthy,
                 successor, limit, target>>

\* Mutant of Acknowledge: the byte total is not compared.
AcknowledgeAnyBytes(sequence, bytes) ==
  /\ Ready
  /\ sequence > acknowledged_sequence
  /\ \E i \in DOMAIN outstanding : outstanding[i].sequence = sequence
  /\ phase' = "pop"
  /\ target' = [sequence |-> sequence, bytes |-> bytes]
  /\ UNCHANGED <<streams, outstanding, queued, counters, acknowledged, wire,
                 healthy, victim, successor, limit>>

\* report_ack: Acknowledge up to its loop.
Acknowledge(sequence, bytes) ==
  /\ Ready
  /\ sequence > acknowledged_sequence
  /\ \E i \in DOMAIN outstanding :
       /\ outstanding[i].sequence = sequence
       /\ outstanding[i].cumulative = bytes
  /\ phase' = "pop"
  /\ target' = [sequence |-> sequence, bytes |-> bytes]
  /\ UNCHANGED <<streams, outstanding, queued, counters, acknowledged, wire,
                 healthy, victim, successor, limit>>

\* report_ack: a repeated, decreased, untransmitted or wrong-byte
\* acknowledgement fails the channel and closes the host.
AcknowledgeRejected(sequence, bytes) ==
  /\ Ready
  /\ \/ sequence <= acknowledged_sequence
     \/ \A i \in DOMAIN outstanding :
          \/ outstanding[i].sequence # sequence
          \/ outstanding[i].cumulative # bytes
  /\ FailChannel

Popping ==
  /\ outstanding # << >>
  /\ Head(outstanding).sequence <= target.sequence

\* The record of stream s when one of its frames is acknowledged: the last
\* frame of a retired stream takes the record with it.
Release(s) ==
  IF status[s] # "live" /\ stream_outstanding[s] = 1 /\ stream_queued[s] = 0
    THEN Erase(s)
    ELSE /\ stream_outstanding' = [stream_outstanding EXCEPT ![s] = @ - 1]
         /\ UNCHANGED <<status, queue_limit, stream_queued, last_transmitted>>

\* Acknowledge: one iteration of the loop over outstanding_.
Pop ==
  /\ healthy
  /\ phase = "pop"
  /\ Popping
  /\ LET frame == Head(outstanding) IN
     /\ outstanding' = Tail(outstanding)
     /\ outstanding_bytes' = outstanding_bytes - frame.bytes
     /\ IF stream_outstanding[frame.stream] > 0 THEN Release(frame.stream)
                                                ELSE UNCHANGED streams
  /\ UNCHANGED <<queued, queued_bytes, next_sequence, cumulative_bytes,
                 acknowledged, wire, healthy, control>>

\* Mutant of Popped: the queue is not drained after the acknowledgement.
PoppedWithoutDrain ==
  /\ healthy
  /\ phase = "pop"
  /\ ~Popping
  /\ acknowledged_sequence' = target.sequence
  /\ acknowledged_bytes' = target.bytes
  /\ phase' = "idle"
  /\ target' = [sequence |-> 0, bytes |-> 0]
  /\ UNCHANGED <<streams, outstanding, queued, counters, wire, healthy, victim,
                 successor, limit>>

\* Acknowledge: the loop has ended; Drain follows.
Popped ==
  /\ healthy
  /\ phase = "pop"
  /\ ~Popping
  /\ acknowledged_sequence' = target.sequence
  /\ acknowledged_bytes' = target.bytes
  /\ phase' = "drain"
  /\ target' = [sequence |-> 0, bytes |-> 0]
  /\ UNCHANGED <<streams, outstanding, queued, counters, wire, healthy, victim,
                 successor, limit>>

\* Drain also drops a waiting frame whose stream is gone, and BeginRecovery
\* fails when AddStream refuses the next generation.  DefensiveBranches
\* shows that neither can happen, so neither is an action.
Draining == healthy /\ phase = "drain"
Pending == Head(queued)
Blocked == ~CanTransmit(Pending.stream, Encoded(Pending.body, next_sequence))

\* Mutant of DrainTransmits: the queue gives back the transmitted length,
\* not the length it reserved.
DrainTransmitsUneven ==
  /\ Draining
  /\ queued # << >>
  /\ IsLive(Pending.stream)
  /\ ~Blocked
  /\ queued' = Tail(queued)
  /\ queued_bytes' = queued_bytes - Encoded(Pending.body, next_sequence)
  /\ TransmitFrame(Pending.stream, Pending.body)
  /\ stream_queued' = [stream_queued EXCEPT ![Pending.stream] = @ - 1]
  /\ UNCHANGED <<status, queue_limit, acknowledged, healthy, control>>

\* Drain: the first waiting frame has credit; it is encoded again with the
\* sequence it really gets.
DrainTransmits ==
  /\ Draining
  /\ queued # << >>
  /\ IsLive(Pending.stream)
  /\ ~Blocked
  /\ queued' = Tail(queued)
  /\ queued_bytes' = queued_bytes - Pending.bytes
  /\ TransmitFrame(Pending.stream, Pending.body)
  /\ stream_queued' = [stream_queued EXCEPT ![Pending.stream] = @ - 1]
  /\ UNCHANGED <<status, queue_limit, acknowledged, healthy, control>>

\* Drain: the frame has left the queue and TransmitFrame returns false, for
\* an exhausted counter or a failed write.
DrainFails ==
  /\ Draining
  /\ queued # << >>
  /\ IsLive(Pending.stream)
  /\ ~Blocked
  /\ healthy' = FALSE
  /\ queued' = Tail(queued)
  /\ queued_bytes' = queued_bytes - Pending.bytes
  /\ stream_queued' = [stream_queued EXCEPT ![Pending.stream] = @ - 1]
  /\ UNCHANGED <<status, queue_limit, stream_outstanding, last_transmitted,
                 outstanding, outstanding_bytes, next_sequence,
                 cumulative_bytes, acknowledged, wire, control>>

DrainEnds == queued # << >> => (IsLive(Pending.stream) /\ Blocked)

\* Drain ends; a recovery then adds the stream of the next generation.
Drained ==
  /\ Draining
  /\ DrainEnds
  /\ successor # NoStream => Admits(successor)
  /\ IF successor = NoStream THEN UNCHANGED streams ELSE Open(successor, limit)
  /\ Finish
  /\ UNCHANGED <<outstanding, queued, counters, acknowledged, wire, healthy>>

\* WriteFrame fails in a handler (the report or the error of a live stream)
\* or on the barrier of Retire.
WriteFails ==
  /\ healthy
  /\ \/ phase = "idle" /\ Live # {}
     \/ phase = "purge" /\ QueuedOf(victim) = {}
  /\ FailChannel

-----------------------------------------------------------------------------
Locked == Purge \/ RetireBarrier \/ Pop \/ Popped \/ DrainTransmits \/
          DrainFails \/ Drained

Handler(s) ==
  \/ \E q \in QueueLimits : AddStream(s, q)
  \/ \E b \in Bodies : SubmitTransmits(s, b)
  \/ \E b \in Bodies : SubmitQueues(s, b)
  \/ \E b \in Bodies : SubmitOverflows(s, b)
  \/ \E b \in Bodies : SubmitInvalid(s, b)
  \/ EmitFailure(s)
  \/ Unsubscribe(s)
  \/ \E t \in Streams : BeginRecovery(s, t)

\* The peer reads the next frame.
PeerReads ==
  /\ wire # << >>
  /\ wire' = Tail(wire)
  /\ UNCHANGED <<streams, outstanding, queued, counters, acknowledged, healthy,
                 control>>

PeerAcknowledges ==
  \E sequence \in 0..MaximumSequence, bytes \in 0..MaximumBytes :
    Acknowledge(sequence, bytes) \/ AcknowledgeRejected(sequence, bytes)

Next ==
  \/ \E s \in Streams : Handler(s)
  \/ Locked
  \/ WriteFails
  \/ PeerReads
  \/ PeerAcknowledges

Spec == Init /\ [][Next]_vars
-----------------------------------------------------------------------------
(* Properties.                                                             *)

SentFrames == [stream : Streams, sequence : Nat, bytes : Nat, cumulative : Nat]
QueuedFrames == [stream : Streams, body : Nat, bytes : Nat]
Messages == [event : {"subscription_report", "stream_retired",
                      "subscription_error", "resubscribing"},
             stream : Streams, sequence : Nat, bytes : Nat]

StreamsOK ==
  /\ status \in [Streams -> {"absent", "live", "retired"}]
  /\ queue_limit \in [Streams -> Nat]
  /\ stream_outstanding \in [Streams -> Int]
  /\ stream_queued \in [Streams -> Int]
  /\ last_transmitted \in [Streams -> Nat]

SentOK ==
  /\ outstanding \in Seq(SentFrames)
  /\ outstanding_bytes \in Int
  /\ next_sequence \in 1..MaximumSequence
  /\ cumulative_bytes \in 0..MaximumBytes

QueuedOK ==
  /\ queued \in Seq(QueuedFrames)
  /\ queued_bytes \in Int

AcknowledgedOK ==
  /\ acknowledged_sequence \in Nat
  /\ acknowledged_bytes \in Nat

ChannelOK ==
  /\ wire \in Seq(Messages)
  /\ healthy \in BOOLEAN

ControlOK ==
  /\ phase \in {"idle", "purge", "pop", "drain"}
  /\ victim \in Streams \cup {NoStream}
  /\ phase = "purge" => victim \in Streams
  /\ successor \in Streams \cup {NoStream}
  /\ limit \in Nat
  /\ target \in [sequence : Nat, bytes : Nat]

\* Type invariant of the manager and of the handlers that hold its mutex:
\* what ReportCreditManager's members and the locals of its loops can hold.
TypeOK ==
  /\ StreamsOK
  /\ SentOK
  /\ QueuedOK
  /\ AcknowledgedOK
  /\ ChannelOK
  /\ ControlOK

SessionCredit ==
  /\ Len(outstanding) <= SessionReportCredit
  /\ 0 <= outstanding_bytes
  /\ outstanding_bytes <= SessionByteCredit

StreamCredit ==
  \A s \in Streams :
    stream_outstanding[s] <= LesserOf(StreamReportCredit, queue_limit[s])

\* Whatever the peer acknowledges, the frames in flight never exceed the
\* session's frame and byte credit, nor a stream its own credit
\* (CanTransmit, and the counters Acknowledge gives back).
CreditBound == SessionCredit /\ StreamCredit

\* The queue of reports without credit stays within its frame, byte and
\* per-stream limits (Submit).
QueueBound ==
  /\ Len(queued) <= MaximumQueuedReports
  /\ queued_bytes <= MaximumQueuedBytes
  /\ \A s \in Streams : stream_queued[s] <= queue_limit[s]

\* Every limit of the manager at once: credit in flight and reports queued.
Limits == CreditBound /\ QueueBound

BytesOf(frames) ==
  LET sum[n \in 0..Len(frames)] ==
        IF n = 0 THEN 0 ELSE sum[n - 1] + frames[n].bytes
  IN  sum[Len(frames)]
CountOf(frames, s) == Cardinality({i \in DOMAIN frames : frames[i].stream = s})

Consecutive ==
  \A i \in DOMAIN outstanding :
    outstanding[i].sequence = next_sequence - Len(outstanding) + i - 1

Chained ==
  \A i \in DOMAIN outstanding :
    i > 1 => outstanding[i].cumulative =
               outstanding[i - 1].cumulative + outstanding[i].bytes

Ordered ==
  /\ \A i, j \in DOMAIN outstanding :
       i < j => outstanding[i].cumulative <=
                  outstanding[j].cumulative - outstanding[j].bytes
  /\ \A i \in DOMAIN outstanding : outstanding[i].cumulative <= cumulative_bytes

Totals ==
  IF outstanding = << >> THEN outstanding_bytes = 0
  ELSE /\ outstanding[Len(outstanding)].cumulative = cumulative_bytes
       /\ outstanding_bytes =
            cumulative_bytes - outstanding[1].cumulative + outstanding[1].bytes

AtWindowStart(sequence, bytes) ==
  /\ sequence = next_sequence - 1 - Len(outstanding)
  /\ bytes = cumulative_bytes - outstanding_bytes

AcknowledgedTotals ==
  /\ phase # "pop" => AtWindowStart(acknowledged_sequence, acknowledged_bytes)
  /\ acknowledged_sequence < next_sequence
  /\ acknowledged_bytes <= cumulative_bytes

PopTarget ==
  phase = "pop" =>
    /\ acknowledged_sequence < target.sequence
    /\ target.sequence < next_sequence
    /\ acknowledged_bytes <= target.bytes
    /\ target.bytes <= cumulative_bytes
    /\ \/ AtWindowStart(target.sequence, target.bytes)
       \/ \E i \in DOMAIN outstanding :
            /\ outstanding[i].sequence = target.sequence
            /\ outstanding[i].cumulative = target.bytes

\* The frames in flight are exactly the sequences after the last one
\* acknowledged, in order, and each carries the running byte total the
\* acknowledgement for it must quote; outstanding_bytes_ is what lies
\* between the two totals, and the loop of Acknowledge ends exactly at the
\* frame the acknowledgement names (TransmitFrame against Acknowledge).
Window ==
  /\ Consecutive
  /\ Chained
  /\ Ordered
  /\ Totals
  /\ AcknowledgedTotals
  /\ PopTarget

Counters ==
  /\ outstanding_bytes = BytesOf(outstanding)
  /\ queued_bytes = BytesOf(queued)
  /\ \A s \in Streams :
       /\ stream_outstanding[s] = CountOf(outstanding, s)
       /\ stream_queued[s] = CountOf(queued, s)

NoRecordLeak ==
  phase # "purge" =>
    \A s \in Streams :
      /\ IsRetired(s) <=> (~IsLive(s) /\ CountOf(outstanding, s) > 0)
      /\ ~IsLive(s) => CountOf(queued, s) = 0

\* Drain never meets a frame whose stream is gone, and the record a recovery
\* adds always fits, with every live stream in use: the generation it
\* replaces was retired first (Drain, BeginRecovery).
DefensiveBranches ==
  phase = "drain" =>
    /\ queued # << >> => IsLive(Pending.stream)
    /\ successor # NoStream => Admits(successor)

\* The byte and frame counters the manager keeps are the sizes of its two
\* queues, per stream and in total, so none of them can wrap below zero; and
\* a retired record is kept exactly as long as one of its frames is
\* unacknowledged (Retire and Acknowledge erase it), so records cannot
\* accumulate, no queued frame outlives its stream, and the branches of Drain
\* and BeginRecovery that would meet such a state are dead.
Accounting == Counters /\ NoRecordLeak /\ DefensiveBranches

On(event, s) == {i \in DOMAIN wire : wire[i].event = event /\ wire[i].stream = s}

\* The reports of stream s before position i, back to its previous barrier.
Opening(s, i) ==
  {j \in On("subscription_report", s) :
     j < i /\ \A k \in On("stream_retired", s) : k < j \/ k >= i}

\* On the wire the barrier of a stream names the last of the reports before
\* it, and none follows it unless the key was opened again (Retire against
\* Submit and Drain).
BarrierIsLast ==
  healthy => \A s \in Streams :
    /\ \A i \in On("stream_retired", s) :
         Opening(s, i) # {} => wire[Max(Opening(s, i))].sequence = wire[i].sequence
    /\ On("stream_retired", s) # {} /\ ~IsLive(s) /\ victim # s
         => Opening(s, Len(wire) + 1) = {}

\* No head-of-line report waits while it has credit: whenever the mutex is
\* free, the first queued report is blocked (Drain ends every handler that
\* gives credit back).
NoIdleCredit ==
  (healthy /\ phase = "idle" /\ queued # << >>) =>
     (IsLive(Pending.stream) /\ Blocked)

\* Transmission keeps the order of submission: a report leaves the queue
\* only from its front, and Submit never overtakes a waiting report.
NoOvertaking ==
  [][\/ Len(outstanding') <= Len(outstanding)
     \/ queued = << >>
     \/ queued' = Tail(queued) /\ outstanding'[Len(outstanding')].stream = Pending.stream]_vars

ForwardAcknowledgement ==
  /\ acknowledged_sequence <= acknowledged_sequence'
  /\ acknowledged_bytes <= acknowledged_bytes'
  /\ acknowledged_sequence' < next_sequence
  /\ acknowledged_bytes' <= cumulative_bytes
  /\ Len(outstanding') < Len(outstanding) => phase = "pop"

\* An accepted acknowledgement moves both totals forward, to totals that
\* were transmitted; nothing but Acknowledge returns frame credit.
AcknowledgeMonotone == [][ForwardAcknowledgement]_vars
=============================================================================
