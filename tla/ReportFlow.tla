----------------------------- MODULE ReportFlow -----------------------------
(***************************************************************************)
(* Report credit end to end: the native ReportCreditManager of             *)
(* ReportCredit against the peer it really has, the ReportLedger of the    *)
(* BEAM connection (lib/wotex/matter/native/report_ledger.ex) with the     *)
(* clauses of connection.ex that call it.                                  *)
(*                                                                         *)
(* The two sides share nothing: reports and barriers come through `wire',  *)
(* acknowledgements go back through `acks'.  ReportCredit is shown safe    *)
(* against any acknowledgement; here the question is whether the two       *)
(* accounts stay one, so that no honest session is torn down and no credit *)
(* is lost.  Each BEAM step is one message of the connection's mailbox.    *)
(***************************************************************************)
EXTENDS ReportCredit

CONSTANTS
  LedgerReports,         \* reports register admits, 64
  LedgerBytes,           \* bytes register admits, 1048576
  LedgerStreams,         \* streams open admits, 128
  MaximumSubscriptions   \* subscriptions subscribe admits, 64

\* The ledger has room for all that the host has credit to send, and for a
\* retiring generation beside those of every subscription.
ASSUME LedgerAssumption ==
  /\ {LedgerReports, LedgerBytes, LedgerStreams, MaximumSubscriptions} \subseteq Nat
  /\ LedgerReports >= SessionReportCredit
  /\ LedgerBytes >= SessionByteCredit
  /\ LedgerStreams > MaximumSubscriptions

VARIABLES
  ledger_next,           \* next_sequence
  ledger_acknowledged,   \* acknowledged_sequence, acknowledged_bytes
  pending,               \* pending: sequence to [stream, bytes, consumed]
  last,                  \* streams: stream to its last registered sequence
  subscribing,           \* stream of the subscribe request under way
  closing,               \* streams whose subscription is :closing or retiring
  ancestor,              \* retiring_generation: the stream a new one replaces
  delivered,             \* sequences whose envelope awaits its consumption
  acks,                  \* report_ack frames not yet read by the host
  session                \* "up", "failing" (channel_failed) or "down"

ledger == <<ledger_next, ledger_acknowledged, pending, last>>
beam == <<ledger, subscribing, closing, ancestor, delivered, acks, session>>
native == vars
allvars == <<native, beam>>

FlowInit ==
  /\ Init
  /\ ledger_next = 1
  /\ ledger_acknowledged = [sequence |-> 0, bytes |-> 0]
  /\ pending = << >>
  /\ last = << >>
  /\ subscribing = NoStream
  /\ closing = {}
  /\ ancestor = [s \in Streams |-> NoStream]
  /\ delivered = {}
  /\ acks = << >>
  /\ session = "up"

Up == session # "down"
Known == DOMAIN last

-----------------------------------------------------------------------------
(* ReportLedger.                                                           *)

CanOpen(s) == Cardinality(Known) < LedgerStreams /\ s \notin Known
Opened(s) == [k \in Known \cup {s} |-> IF k = s THEN 0 ELSE last[k]]

\* The bytes of the reports up to sequence n.
NoReport == [stream |-> NoStream, bytes |-> 0, consumed |-> TRUE]
BytesUpTo(reports, n) ==
  BytesOf([k \in 1..n |-> IF k \in DOMAIN reports THEN reports[k] ELSE NoReport])

Retained == BytesUpTo(pending, ledger_next - 1)

\* register; the range of its counters is the native one, and a report longer
\* than the frame limit of both ends has failed in the host's output before.
CanRegister(s, sequence, bytes) ==
  /\ sequence < MaximumSequence
  /\ sequence = ledger_next
  /\ s \in Known
  /\ Cardinality(DOMAIN pending) < LedgerReports
  /\ Retained + bytes <= LedgerBytes
  /\ ledger_acknowledged.bytes + Retained + bytes <= MaximumBytes

Registered(s, bytes) ==
  [n \in DOMAIN pending \cup {ledger_next} |->
     IF n = ledger_next THEN [stream |-> s, bytes |-> bytes, consumed |-> FALSE]
                        ELSE pending[n]]

Consumed(reports, n) == [reports EXCEPT ![n].consumed = TRUE]

\* Mutant of RetiredReports: a barrier leaves the reports to the receiver.
RetiredReportsHeld(s) == pending

\* retire: the stream's reports are consumed, the stream forgotten.
RetiredReports(s) ==
  [n \in DOMAIN pending |->
     [pending[n] EXCEPT !.consumed = @ \/ pending[n].stream = s]]
Without(s) == [k \in Known \ {s} |-> last[k]]

\* advance and consume_prefix: the end of the consumed prefix.
Prefix(reports) ==
  Max({n \in ledger_acknowledged.sequence..ledger_next :
         \A k \in (ledger_acknowledged.sequence + 1)..n :
           k \in DOMAIN reports /\ reports[k].consumed})

\* Mutant of Total: only the bytes of the new prefix are quoted.
TotalOfPrefix(reports, n) == BytesUpTo(reports, n)

\* The total to quote for sequence n; what was acknowledged before has left
\* the reports.
Total(reports, n) == ledger_acknowledged.bytes + BytesUpTo(reports, n)

\* Mutant of Advance: the ledger moves on though the frame was not sent.
AdvanceUnsent(reports) ==
  LET n == Prefix(reports)
      ack == [sequence |-> n, bytes |-> Total(reports, n)]
  IN /\ ledger_acknowledged' = ack
     /\ pending' = [k \in DOMAIN reports \ (1..n) |-> reports[k]]
     /\ IF n = ledger_acknowledged.sequence
          THEN UNCHANGED <<acks, session>>
          ELSE \/ acks' = Append(acks, ack) /\ UNCHANGED session
               \/ session' = "failing" /\ UNCHANGED acks

\* advance_acknowledgement on the ledger that holds `reports': the new
\* ledger is installed only when the port takes the frame.
Advance(reports) ==
  LET n == Prefix(reports)
      ack == [sequence |-> n, bytes |-> Total(reports, n)]
  IN IF n = ledger_acknowledged.sequence
       THEN pending' = reports /\ UNCHANGED <<ledger_acknowledged, acks, session>>
       ELSE \/ /\ acks' = Append(acks, ack)
               /\ ledger_acknowledged' = ack
               /\ pending' = [k \in DOMAIN reports \ (1..n) |-> reports[k]]
               /\ UNCHANGED session
            \/ /\ pending' = reports
               /\ session' = "failing"
               /\ UNCHANGED <<ledger_acknowledged, acks>>

-----------------------------------------------------------------------------
(* The connection.                                                         *)

\* The subscriptions, each by the stream of its present generation.
Subscriptions == Known \ {ancestor[t] : t \in Known}

\* subscribe: the stream is open in the ledger before the request is sent.
\* Identities are random, so a key the host still holds is never reused.
Subscribe(s) ==
  /\ Up /\ subscribing = NoStream
  /\ Cardinality(Subscriptions) < MaximumSubscriptions
  /\ status[s] = "absent" /\ CanOpen(s)
  /\ \A i \in DOMAIN wire : wire[i].stream # s
  /\ last' = Opened(s)
  /\ subscribing' = s
  /\ UNCHANGED <<native, ledger_next, ledger_acknowledged, pending, closing,
                 ancestor, delivered, acks, session>>

\* The host registers the subscription.
Subscribed(s, q) ==
  /\ subscribing = s
  /\ AddStream(s, q)
  /\ subscribing' = NoStream
  /\ UNCHANGED <<ledger, closing, ancestor, delivered, acks, session>>

\* The request is refused: drop_subscription.
SubscribeFails(s) ==
  /\ Up /\ Ready /\ subscribing = s
  /\ last' = Without(s)
  /\ subscribing' = NoStream
  /\ UNCHANGED <<native, ledger_next, ledger_acknowledged, pending, closing,
                 ancestor, delivered, acks, session>>

\* cancel_subscription or unsubscribe_active: the request to the host is
\* Unsubscribe, enabled by `closing'.
Cancel(s) ==
  /\ Up /\ s \in Known \ closing
  /\ IsLive(s)
  /\ closing' = closing \cup {s}
  /\ UNCHANGED <<native, ledger, subscribing, ancestor, delivered, acks, session>>

\* The next frame of the port.
Received(event) == Up /\ wire # << >> /\ Head(wire).event = event

\* A report that the ledger takes: delivered, acknowledged at once while
\* closing, or acknowledged and cancelled when the receiver is full.
ReadReport ==
  /\ Received("subscription_report")
  /\ PeerReads
  /\ LET m == Head(wire)
         reports == Registered(m.stream, m.bytes)
     IN /\ CanRegister(m.stream, m.sequence, m.bytes)
        /\ ledger_next' = m.sequence + 1
        /\ last' = [last EXCEPT ![m.stream] = m.sequence]
        /\ \/ /\ m.stream \notin closing
              /\ delivered' = delivered \cup {m.sequence}
              /\ pending' = reports
              /\ UNCHANGED <<closing, ledger_acknowledged, acks, session>>
           \/ /\ closing' = closing \cup {m.stream}
              /\ LET consumed == Consumed(reports, m.sequence) IN Advance(consumed)
              /\ UNCHANGED delivered
  /\ UNCHANGED <<subscribing, ancestor>>

\* begin_recovery accepts the generation after that of a subscription that
\* is not closing.
CanRecover(t) == ancestor[t] \in Known \ closing

\* resubscribing: the next generation opens, the old one is retiring.
ReadResubscribing ==
  /\ Received("resubscribing")
  /\ PeerReads
  /\ CanRecover(Head(wire).stream)
  /\ CanOpen(Head(wire).stream)
  /\ last' = Opened(Head(wire).stream)
  /\ closing' = closing \cup {ancestor[Head(wire).stream]}
  /\ UNCHANGED <<ledger_next, ledger_acknowledged, pending, subscribing,
                 ancestor, delivered, acks, session>>

ReadError ==
  /\ Received("subscription_error")
  /\ PeerReads
  /\ Head(wire).stream \in Known
  /\ closing' = closing \cup {Head(wire).stream}
  /\ UNCHANGED <<ledger, subscribing, ancestor, delivered, acks, session>>

CanRetire(s, sequence) == s \in Known \cap closing /\ last[s] = sequence

\* stream_retired: retire_stream_generation and consume_retired_reports.
ReadBarrier ==
  /\ Received("stream_retired")
  /\ PeerReads
  /\ LET s == Head(wire).stream IN
     /\ CanRetire(s, Head(wire).sequence)
     /\ last' = Without(s)
     /\ closing' = closing \ {s}
     /\ ancestor' = [t \in Streams |-> IF ancestor[t] = s THEN NoStream ELSE ancestor[t]]
     /\ Advance(RetiredReports(s))
  /\ UNCHANGED <<ledger_next, subscribing, delivered>>

\* What the ledger cannot take.
LedgerRefuses(m) ==
  \/ m.event = "subscription_report" /\ ~CanRegister(m.stream, m.sequence, m.bytes)
  \/ m.event = "resubscribing" /\ ~CanOpen(m.stream)
  \/ m.event = "stream_retired" /\ ~CanRetire(m.stream, m.sequence)
  \/ m.event = "subscription_error" /\ m.stream \notin Known

\* A frame that is refused is invalid_frame, which stops the connection.
ReadRefused ==
  /\ Up /\ wire # << >>
  /\ \/ LedgerRefuses(Head(wire))
     \/ Head(wire).event = "resubscribing" /\ ~CanRecover(Head(wire).stream)
  /\ PeerReads
  /\ session' = "down"
  /\ UNCHANGED <<ledger, subscribing, closing, ancestor, delivered, acks>>

\* native_report_admitted or native_report_consumed, once for an envelope.
\* A report that a barrier has consumed meanwhile is ignored.
Consume(n) ==
  /\ Up /\ n \in delivered
  /\ delivered' = delivered \ {n}
  /\ IF n \in DOMAIN pending /\ ~pending[n].consumed
       THEN LET consumed == Consumed(pending, n) IN Advance(consumed)
       ELSE UNCHANGED <<ledger_acknowledged, pending, acks, session>>
  /\ UNCHANGED <<native, ledger_next, last, subscribing, closing, ancestor>>

\* native_report_admitted of a subscription that is not :active any more.
Ignore(n) ==
  /\ Up /\ n \in delivered
  /\ n \in DOMAIN pending /\ pending[n].stream \in closing
  /\ delivered' = delivered \ {n}
  /\ UNCHANGED <<native, ledger, subscribing, closing, ancestor, acks, session>>

\* native_input_failed.
Stops ==
  /\ session = "failing"
  /\ session' = "down"
  /\ UNCHANGED <<native, ledger, subscribing, closing, ancestor, delivered, acks>>

-----------------------------------------------------------------------------
(* The host, driven by the connection.                                     *)

HostOnly == UNCHANGED beam

HostSubmits(s) ==
  /\ \E b \in Bodies : \/ SubmitTransmits(s, b) \/ SubmitQueues(s, b)
                       \/ SubmitOverflows(s, b) \/ SubmitInvalid(s, b)
  /\ HostOnly
HostEnds(s) == EmitFailure(s) \/ (s \in closing /\ Unsubscribe(s))

HostRecovers(s, t) ==
  /\ t \notin Known
  /\ \A i \in DOMAIN wire : wire[i].stream # t
  /\ BeginRecovery(s, t)
  /\ ancestor' = [ancestor EXCEPT ![t] = s]
  /\ UNCHANGED <<ledger, subscribing, closing, delivered, acks, session>>

HostAcknowledged ==
  /\ acks # << >>
  /\ acks' = Tail(acks)
  /\ \/ Acknowledge(Head(acks).sequence, Head(acks).bytes)
     \/ AcknowledgeRejected(Head(acks).sequence, Head(acks).bytes)
  /\ UNCHANGED <<ledger, subscribing, closing, ancestor, delivered, session>>

-----------------------------------------------------------------------------
Reads == ReadReport \/ ReadResubscribing \/ ReadError \/ ReadBarrier \/ ReadRefused

FlowNext ==
  \/ Reads
  \/ Stops
  \/ HostAcknowledged
  \/ (Locked \/ WriteFails) /\ HostOnly
  \/ \E n \in delivered : Consume(n) \/ Ignore(n)
  \/ \E s \in Streams :
       \/ Subscribe(s)
       \/ \E q \in QueueLimits : Subscribed(s, q)
       \/ SubscribeFails(s)
       \/ Cancel(s)
       \/ HostSubmits(s)
       \/ HostEnds(s) /\ HostOnly
       \/ \E t \in Streams : HostRecovers(s, t)

FlowSpec == FlowInit /\ [][FlowNext]_allvars

-----------------------------------------------------------------------------
(* Properties.                                                             *)

\* Every acknowledgement under way, when its turn comes, is one the host
\* accepts: it names a frame that is still outstanding, with the byte total
\* the host computed for it.  The host closes on any other
\* (Acknowledge in subscription.cpp against advance in report_ledger.ex).
AcksAccepted ==
  healthy => \A i \in DOMAIN acks :
    /\ \E k \in DOMAIN outstanding :
         /\ outstanding[k].sequence = acks[i].sequence
         /\ outstanding[k].cumulative = acks[i].bytes
    /\ i > 1 => acks[i - 1].sequence < acks[i].sequence

\* No frame of a working host is beyond the ledger: each report is the next
\* sequence of a stream the ledger knows and fits its limits, each new
\* generation fits, and each barrier names the stream's last report.
LedgerTakesAll ==
  healthy /\ Up /\ wire # << >> => ~LedgerRefuses(Head(wire))

\* Whatever crosses on the two channels, neither end refuses what the other
\* has sent: a refusal by either would end an honest session.
EndsAgree == AcksAccepted /\ LedgerTakesAll

InFlight == {i \in DOMAIN wire : wire[i].event = "subscription_report"}

\* Credit is conserved: a frame the host counts as outstanding is on the
\* wire, in the ledger, or covered by an acknowledgement under way, and in
\* exactly one of the three places.
CreditConserved ==
  healthy /\ Up /\ phase # "pop" =>
    /\ ledger_next + Cardinality(InFlight) = next_sequence
    /\ DOMAIN pending = (ledger_acknowledged.sequence + 1)..(ledger_next - 1)
    /\ ledger_acknowledged =
         IF acks = << >>
           THEN [sequence |-> acknowledged_sequence, bytes |-> acknowledged_bytes]
           ELSE acks[Len(acks)]

\* Nothing leaks: once every frame is read, every envelope answered, every
\* closing stream retired and every acknowledgement applied, the host has
\* its whole credit back and no record of a retired stream, whatever order
\* consumption, retirement and acknowledgement took.
CreditComesBack ==
  /\ healthy /\ session = "up" /\ Ready
  /\ wire = << >> /\ acks = << >> /\ delivered = {} /\ closing = {}
  => outstanding = << >> /\ \A s \in Streams : ~IsRetired(s)
=============================================================================
