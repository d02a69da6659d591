-------------------------- MODULE ReportFlow_proofs --------------------------
(***************************************************************************)
(* Proofs about ReportCredit, for every set of streams and every limit,    *)
(* and then about ReportFlow: the native credit and the BEAM ledger are    *)
(* one account.  The theorems of the first part say Spec, the manager      *)
(* against any peer; those of the second FlowSpec, with the ledger.        *)
(***************************************************************************)
EXTENDS ReportFlow, FiniteSetTheorems, WellFoundedInduction, TLAPS

-----------------------------------------------------------------------------
(* The credit manager.                                                     *)

\* Lengths are natural numbers.
LEMMA EncodedType ==
  ASSUME NEW b \in Nat, NEW n \in 1..MaximumSequence
  PROVE  Encoded(b, n) \in Nat
  BY CreditAssumption DEF Encoded

\* DropAt keeps a sequence a sequence over the same set, one shorter.
LEMMA DropAtType ==
  ASSUME NEW S, NEW q \in Seq(S), NEW i \in DOMAIN q
  PROVE  /\ DropAt(q, i) \in Seq(S)
         /\ Len(DropAt(q, i)) = Len(q) - 1
  BY DEF DropAt

\* Type correctness, part by part.
USE DEF StreamsOK, QueuedOK, AcknowledgedOK, ChannelOK, ControlOK

\* The freshly constructed ReportCreditManager is well typed.
LEMMA InitTypeOK == Init => TypeOK
  BY CreditAssumption
  DEF Init, TypeOK, SentOK, SentFrames, QueuedFrames, Messages

\* TransmitFrame keeps the types of what it changes.
LEMMA TransmitType ==
  ASSUME SentOK, ChannelOK, StreamsOK,
         NEW s \in Streams, NEW b \in Nat, TransmitFrame(s, b)
  PROVE  /\ SentOK'
         /\ wire' \in Seq(Messages)
         /\ stream_outstanding' \in [Streams -> Int]
         /\ last_transmitted' \in [Streams -> Nat]
  <1> DEFINE f == SentFrame(s, b)
  <1>1. next_sequence \in 1..MaximumSequence /\ cumulative_bytes \in 0..MaximumBytes
    BY DEF SentOK
  <1>2. Encoded(b, next_sequence) \in Nat
    BY <1>1, EncodedType
  <1>3. f \in SentFrames
    BY <1>1, <1>2 DEF SentFrame, SentFrames
  <1>4. ReportMessage(f) \in Messages
    BY <1>3 DEF ReportMessage, Messages, SentFrames
  <1>5. outstanding' \in Seq(SentFrames)
    BY <1>3 DEF SentOK, TransmitFrame
  <1>6. wire' \in Seq(Messages)
    BY <1>4 DEF TransmitFrame
  <1>7. next_sequence' \in 1..MaximumSequence
    BY <1>1, CreditAssumption DEF TransmitFrame, CountersAllow
  <1>8. outstanding_bytes' \in Int
    BY <1>2 DEF SentOK, TransmitFrame, SentFrame
  <1>9. cumulative_bytes' \in 0..MaximumBytes
    <2>1. /\ Encoded(b, next_sequence) <= MaximumBytes - cumulative_bytes
          /\ cumulative_bytes' = cumulative_bytes + Encoded(b, next_sequence)
      BY DEF TransmitFrame, CountersAllow, SentFrame
    <2>2. PICK e \in Nat : e = Encoded(b, next_sequence) BY <1>2
    <2>3. MaximumBytes \in Nat BY CreditAssumption
    <2> QED BY <1>1, <2>1, <2>2, <2>3
  <1>10. /\ stream_outstanding' \in [Streams -> Int]
         /\ last_transmitted' \in [Streams -> Nat]
    BY <1>1, CreditAssumption DEF TransmitFrame
  <1> QED BY <1>5, <1>6, <1>7, <1>8, <1>9, <1>10 DEF SentOK

\* Retire keeps the types up to its loop.
LEMMA RetireType ==
  ASSUME TypeOK, NEW s \in Streams, NEW before \in Seq(Messages),
         NEW t \in Streams \cup {NoStream}, NEW q \in Nat,
         BeginRetire(s, before, t, q)
  PROVE  TypeOK'
  <1>1. StreamsOK' BY DEF TypeOK, BeginRetire
  <1>2. ChannelOK' BY DEF TypeOK, BeginRetire
  <1>3. ControlOK' BY DEF TypeOK, BeginRetire
  <1> QED BY <1>1, <1>2, <1>3
          DEF TypeOK, SentOK, BeginRetire, counters, acknowledged

\* Every handler and every loop iteration keeps the type invariant.
LEMMA TypeStep == TypeOK /\ [Next]_vars => TypeOK'
  <1> SUFFICES ASSUME TypeOK, [Next]_vars PROVE TypeOK'
    OBVIOUS
  <1> USE DEF streams, counters, acknowledged, control
  <1>1. CASE \E s \in Streams : Handler(s)
    <2>0. PICK s \in Streams : Handler(s) BY <1>1
    <2>1. CASE \E q \in QueueLimits : AddStream(s, q)
      <3>0. PICK q \in QueueLimits : AddStream(s, q) BY <2>1
      <3>1. StreamsOK' BY <3>0, CreditAssumption DEF AddStream, Open, TypeOK
      <3> QED BY <3>0, <3>1 DEF AddStream, TypeOK, SentOK
    <2>2. CASE \E b \in Bodies : SubmitTransmits(s, b)
      <3>0. PICK b \in Bodies : SubmitTransmits(s, b) BY <2>2
      <3>1. b \in Nat /\ TransmitFrame(s, b)
        BY <3>0, CreditAssumption DEF SubmitTransmits
      <3>2. /\ SentOK'
            /\ wire' \in Seq(Messages)
            /\ stream_outstanding' \in [Streams -> Int]
            /\ last_transmitted' \in [Streams -> Nat]
        BY <3>1, TransmitType DEF TypeOK
      <3> QED BY <3>0, <3>2 DEF SubmitTransmits, TypeOK
    <2>3. CASE \E b \in Bodies : SubmitQueues(s, b)
      <3>0. PICK b \in Bodies : SubmitQueues(s, b) BY <2>3
      <3>1. b \in Nat /\ Reserved(b) \in Nat
        BY EncodedType, CreditAssumption DEF Reserved
      <3>2. QueuedFrame(s, b) \in QueuedFrames
        BY <3>1 DEF QueuedFrame, QueuedFrames
      <3>3. QueuedOK' BY <3>0, <3>1, <3>2 DEF SubmitQueues, TypeOK
      <3>4. StreamsOK' BY <3>0 DEF SubmitQueues, TypeOK
      <3> QED BY <3>0, <3>3, <3>4 DEF SubmitQueues, TypeOK, SentOK
    <2>4. CASE \E b \in Bodies : SubmitOverflows(s, b)
      <3>1. <<Control("subscription_error", s)>> \in Seq(Messages)
        BY DEF Control, Messages
      <3> QED BY <2>4, <3>1, RetireType DEF SubmitOverflows
    <2>5. CASE \E b \in Bodies : SubmitInvalid(s, b)
      BY <2>5 DEF SubmitInvalid, FailChannel, TypeOK, SentOK
    <2>6. CASE EmitFailure(s)
      <3>1. <<Control("subscription_error", s)>> \in Seq(Messages)
        BY DEF Control, Messages
      <3> QED BY <2>6, <3>1, RetireType DEF EmitFailure
    <2>7. CASE Unsubscribe(s)
      <3>1. << >> \in Seq(Messages)
        OBVIOUS
      <3> QED BY <2>7, <3>1, RetireType DEF Unsubscribe
    <2>8. CASE \E t \in Streams : BeginRecovery(s, t)
      <3>0. PICK t \in Streams : BeginRecovery(s, t) BY <2>8
      <3>1. <<Control("resubscribing", t)>> \in Seq(Messages)
        BY DEF Control, Messages
      <3>2. queue_limit[s] \in Nat BY DEF TypeOK
      <3> QED BY <3>0, <3>1, <3>2, RetireType DEF BeginRecovery
    <2> QED BY <2>0, <2>1, <2>2, <2>3, <2>4, <2>5, <2>6, <2>7, <2>8 DEF Handler
  <1>2. CASE Purge
    <2>1. victim \in Streams BY <1>2 DEF Purge, TypeOK
    <2>2. PICK i \in QueuedOf(victim) :
            /\ queued' = DropAt(queued, i)
            /\ queued_bytes' = queued_bytes - queued[i].bytes
      BY <1>2 DEF Purge
    <2>3. i \in DOMAIN queued BY DEF QueuedOf
    <2>4. queued \in Seq(QueuedFrames) /\ queued_bytes \in Int BY DEF TypeOK
    <2>5. queued' \in Seq(QueuedFrames) BY <2>2, <2>3, <2>4, DropAtType
    <2>6. queued[i] \in QueuedFrames BY <2>3, <2>4
    <2>7. QueuedOK' BY <2>2, <2>4, <2>5, <2>6 DEF QueuedFrames
    <2>8. StreamsOK' BY <1>2, <2>1 DEF Purge, TypeOK
    <2> QED BY <1>2, <2>7, <2>8 DEF Purge, TypeOK, SentOK
  <1>3. CASE RetireBarrier
    <2>1. victim \in Streams BY <1>3 DEF RetireBarrier, TypeOK
    <2>2. Barrier(victim) \in Messages
      BY <2>1 DEF Barrier, Messages, TypeOK
    <2>3. StreamsOK'
      <3>1. CASE Erase(victim) BY <2>1, <3>1 DEF Erase, TypeOK
      <3>2. CASE UNCHANGED streams BY <3>2 DEF TypeOK
      <3> QED BY <1>3, <3>1, <3>2 DEF RetireBarrier
    <2>4. ChannelOK' BY <1>3, <2>2 DEF RetireBarrier, TypeOK
    <2> QED BY <1>3, <2>3, <2>4 DEF RetireBarrier, TypeOK, SentOK
  <1>4. CASE Pop
    <2> DEFINE s == Head(outstanding).stream
    <2>1. Head(outstanding) \in SentFrames /\ Tail(outstanding) \in Seq(SentFrames)
      BY <1>4 DEF Pop, Popping, TypeOK, SentOK
    <2>2. s \in Streams BY <2>1 DEF SentFrames
    <2>3. StreamsOK'
      <3>1. CASE Erase(s) BY <2>2, <3>1 DEF Erase, TypeOK
      <3>2. CASE UNCHANGED streams BY <3>2 DEF TypeOK
      <3>3. CASE /\ stream_outstanding' = [stream_outstanding EXCEPT ![s] = @ - 1]
                 /\ UNCHANGED <<status, queue_limit, stream_queued, last_transmitted>>
        BY <2>2, <3>3 DEF TypeOK
      <3> QED BY <1>4, <3>1, <3>2, <3>3 DEF Pop, Release
    <2>4. SentOK'
      <3>1. Head(outstanding).bytes \in Nat BY <2>1 DEF SentFrames
      <3>2. outstanding_bytes \in Int BY DEF TypeOK, SentOK
      <3>3. outstanding_bytes' \in Int BY <1>4, <3>1, <3>2 DEF Pop
      <3> QED BY <1>4, <2>1, <3>3 DEF Pop, TypeOK, SentOK
    <2> QED BY <1>4, <2>3, <2>4 DEF Pop, TypeOK
  <1>5. CASE Popped
    BY <1>5 DEF Popped, TypeOK, SentOK
  <1>6. CASE DrainTransmits
    <2>1. Pending \in QueuedFrames /\ Tail(queued) \in Seq(QueuedFrames)
      BY <1>6 DEF DrainTransmits, Pending, TypeOK
    <2>2. Pending.stream \in Streams /\ Pending.body \in Nat /\ Pending.bytes \in Nat
      BY <2>1 DEF QueuedFrames
    <2>3. TransmitFrame(Pending.stream, Pending.body)
      BY <1>6 DEF DrainTransmits
    <2>4. /\ SentOK'
          /\ wire' \in Seq(Messages)
          /\ stream_outstanding' \in [Streams -> Int]
          /\ last_transmitted' \in [Streams -> Nat]
      BY <2>2, <2>3, TransmitType DEF TypeOK
    <2>5. QueuedOK' BY <1>6, <2>1, <2>2 DEF DrainTransmits, TypeOK
    <2>6. stream_queued' = [stream_queued EXCEPT ![Pending.stream] = @ - 1]
      BY <1>6 DEF DrainTransmits
    <2>7. stream_queued' \in [Streams -> Int]
      <3>1. stream_queued \in [Streams -> Int] BY DEF TypeOK
      <3> QED BY <2>2, <2>6, <3>1
    <2>8. StreamsOK' BY <1>6, <2>4, <2>7 DEF DrainTransmits, TypeOK
    <2> QED BY <1>6, <2>4, <2>5, <2>8 DEF DrainTransmits, TypeOK
  <1>7. CASE DrainFails
    <2>1. Pending \in QueuedFrames /\ Tail(queued) \in Seq(QueuedFrames)
      BY <1>7 DEF DrainFails, Pending, TypeOK
    <2>2. Pending.stream \in Streams /\ Pending.bytes \in Nat
      BY <2>1 DEF QueuedFrames
    <2>3. QueuedOK' BY <1>7, <2>1, <2>2 DEF DrainFails, TypeOK
    <2>4. stream_queued' = [stream_queued EXCEPT ![Pending.stream] = @ - 1]
      BY <1>7 DEF DrainFails
    <2>5. stream_queued' \in [Streams -> Int]
      <3>1. stream_queued \in [Streams -> Int] BY DEF TypeOK
      <3> QED BY <2>2, <2>4, <3>1
    <2>6. StreamsOK' BY <1>7, <2>5 DEF DrainFails, TypeOK
    <2> QED BY <1>7, <2>3, <2>6 DEF DrainFails, TypeOK, SentOK
  <1>8. CASE Drained
    <2>1. StreamsOK' BY <1>8 DEF Drained, Open, TypeOK
    <2>2. ControlOK' BY <1>8 DEF Drained, Finish, TypeOK
    <2> QED BY <1>8, <2>1, <2>2 DEF Drained, TypeOK, SentOK
  <1>9. CASE WriteFails
    BY <1>9 DEF WriteFails, FailChannel, TypeOK, SentOK
  <1>10. CASE PeerReads
    <2>1. ChannelOK' BY <1>10 DEF PeerReads, TypeOK
    <2> QED BY <1>10, <2>1 DEF PeerReads, TypeOK, SentOK
  <1>11. CASE PeerAcknowledges
    <2>0. PICK n \in 0..MaximumSequence, m \in 0..MaximumBytes :
            Acknowledge(n, m) \/ AcknowledgeRejected(n, m)
      BY <1>11 DEF PeerAcknowledges
    <2>1. CASE Acknowledge(n, m)
      <3>1. ControlOK' BY <2>1, CreditAssumption DEF Acknowledge, TypeOK
      <3> QED BY <2>1, <3>1 DEF Acknowledge, TypeOK, SentOK
    <2>2. CASE AcknowledgeRejected(n, m)
      BY <2>2 DEF AcknowledgeRejected, FailChannel, TypeOK, SentOK
    <2> QED BY <2>0, <2>1, <2>2
  <1>12. CASE UNCHANGED vars
    BY <1>12 DEF vars, TypeOK, SentOK
  <1> QED BY <1>1, <1>2, <1>3, <1>4, <1>5, <1>6, <1>7, <1>8, <1>9, <1>10, <1>11,
             <1>12 DEF Next, Locked

\* The type invariant of the manager holds in every reachable state.
THEOREM TypeCorrect == Spec => []TypeOK
  BY InitTypeOK, TypeStep, PTL DEF Spec

-----------------------------------------------------------------------------
(* The window of frames in flight.  Its part of the state changes in four  *)
(* ways only: a frame is transmitted, an acknowledgement is accepted, the  *)
(* loop pops a frame, the loop ends.  Every other step is quiet.           *)

Quiet ==
  /\ UNCHANGED <<outstanding, outstanding_bytes, next_sequence,
                 cumulative_bytes, acknowledged>>
  /\ \/ UNCHANGED <<phase, target>>
     \/ phase # "pop" /\ phase' # "pop"

\* Nothing is in flight after flow_open, so the window is empty.
LEMMA InitWindow == Init => Window
  <1> SUFFICES ASSUME Init PROVE Window
    OBVIOUS
  <1>1. /\ outstanding = << >> /\ outstanding_bytes = 0 /\ next_sequence = 1
        /\ cumulative_bytes = 0 /\ acknowledged_sequence = 0
        /\ acknowledged_bytes = 0 /\ phase = "idle"
    BY DEF Init
  <1>2. Consecutive /\ Chained /\ Ordered /\ Totals
    BY <1>1 DEF Consecutive, Chained, Ordered, Totals
  <1>3. AcknowledgedTotals /\ PopTarget
    <2>1. Len(outstanding) = 0 BY <1>1
    <2>2. /\ next_sequence - 1 - Len(outstanding) = 0
          /\ cumulative_bytes - outstanding_bytes = 0
          /\ 0 < next_sequence /\ 0 <= cumulative_bytes
      <3>1. next_sequence = 1 /\ cumulative_bytes = 0 /\ outstanding_bytes = 0
        BY <1>1
      <3> QED BY <2>1, <3>1
    <2>3. AcknowledgedTotals
      BY <1>1, <2>2, Zenon DEF AcknowledgedTotals, AtWindowStart
    <2>4. PopTarget BY <1>1 DEF PopTarget
    <2> QED BY <2>3, <2>4
  <1> QED BY <1>2, <1>3 DEF Window

\* A step that touches neither the sent frames nor the totals keeps the window.
LEMMA WindowQuiet == ASSUME Window, Quiet PROVE Window'
  <1>1. UNCHANGED <<outstanding, outstanding_bytes, next_sequence,
                    cumulative_bytes, acknowledged_sequence, acknowledged_bytes>>
    BY DEF Quiet, acknowledged
  <1>2. Consecutive' /\ Chained' /\ Ordered' /\ Totals'
    BY <1>1 DEF Window, Consecutive, Chained, Ordered, Totals
  <1>3. AcknowledgedTotals'
    BY <1>1 DEF Window, AcknowledgedTotals, AtWindowStart, Quiet
  <1>4. PopTarget'
    BY <1>1 DEF Window, PopTarget, AtWindowStart, Quiet
  <1> QED BY <1>2, <1>3, <1>4 DEF Window

\* No credit is owed to the peer: the bytes in flight are never negative.
NonNegative == 0 <= outstanding_bytes

\* The bytes of a window add up to outstanding_bytes.
LEMMA WindowNonNegative == TypeOK /\ Window => NonNegative
  <1> SUFFICES ASSUME TypeOK, Window PROVE outstanding_bytes >= 0
    BY DEF TypeOK, SentOK, NonNegative
  <1>1. CASE outstanding = << >>
    BY <1>1 DEF Window, Totals
  <1>2. CASE outstanding # << >>
    <2>1. outstanding[1] \in SentFrames /\ 1 \in DOMAIN outstanding
      BY <1>2 DEF TypeOK, SentOK
    <2>2. outstanding[1].cumulative \in Nat /\ outstanding[1].bytes \in Nat
      BY <2>1 DEF SentFrames
    <2>3. outstanding[1].cumulative <= cumulative_bytes
      BY <2>1 DEF Window, Ordered
    <2>4. cumulative_bytes \in Nat BY CreditAssumption DEF TypeOK, SentOK
    <2> QED BY <1>2, <2>2, <2>3, <2>4 DEF Window, Totals
  <1> QED BY <1>1, <1>2

\* Transmitting a frame extends the window at its end.
LEMMA WindowTransmit ==
  ASSUME TypeOK, Window, NEW s \in Streams, NEW b \in Nat, TransmitFrame(s, b),
         phase # "pop", UNCHANGED <<acknowledged, phase>>
  PROVE  Window'
  <1> DEFINE f == SentFrame(s, b)
             n == Len(outstanding)
             B == Encoded(b, next_sequence)
  <1>1. /\ next_sequence \in Nat /\ cumulative_bytes \in Nat
        /\ outstanding \in Seq(SentFrames) /\ outstanding_bytes \in Int
    BY CreditAssumption DEF TypeOK, SentOK
  <1>2. B \in Nat BY EncodedType DEF TypeOK, SentOK
  <1>3. /\ f.sequence = next_sequence
        /\ f.bytes = B
        /\ f.cumulative = cumulative_bytes + B
    BY DEF SentFrame
  <1>4. /\ outstanding' = Append(outstanding, f)
        /\ next_sequence' = next_sequence + 1
        /\ cumulative_bytes' = cumulative_bytes + B
        /\ outstanding_bytes' = outstanding_bytes + B
    BY <1>3 DEF TransmitFrame
  <1> HIDE DEF f, B
  <1>5. /\ Len(outstanding') = n + 1
        /\ n \in Nat
        /\ DOMAIN outstanding = 1..n
        /\ DOMAIN outstanding' = 1..(n + 1)
        /\ \A i \in 1..n : outstanding'[i] = outstanding[i]
        /\ outstanding'[n + 1] = f
    BY <1>1, <1>4
  <1>6. \A i \in 1..n : /\ outstanding[i].cumulative \in Nat
                        /\ outstanding[i].bytes \in Nat
    <2>1. \A i \in 1..n : outstanding[i] \in SentFrames BY <1>1
    <2> QED BY <2>1 DEF SentFrames
  <1>7. \A i \in 1..n : outstanding[i].cumulative <= cumulative_bytes
    BY <1>5 DEF Window, Ordered
  <1>8. Consecutive'
    <2> SUFFICES ASSUME NEW i \in 1..(n + 1)
                 PROVE  outstanding'[i].sequence = next_sequence' - (n + 1) + i - 1
      BY <1>5 DEF Consecutive
    <2>1. CASE i = n + 1
      <3>1. outstanding'[i].sequence = next_sequence BY <1>3, <1>5, <2>1
      <3> QED BY <1>1, <1>4, <1>5, <2>1, <3>1
    <2>2. CASE i \in 1..n
      <3>1. outstanding'[i].sequence = outstanding[i].sequence BY <1>5, <2>2
      <3>2. outstanding[i].sequence = next_sequence - n + i - 1
        BY <1>5, <2>2 DEF Window, Consecutive
      <3> QED BY <1>1, <1>4, <1>5, <2>2, <3>1, <3>2
    <2> QED BY <2>1, <2>2, <1>5
  <1>9. Chained'
    <2> SUFFICES ASSUME NEW i \in 1..(n + 1), i > 1
                 PROVE  outstanding'[i].cumulative =
                          outstanding'[i - 1].cumulative + outstanding'[i].bytes
      BY <1>5 DEF Chained
    <2>1. CASE i = n + 1
      <3>1. outstanding # << >> /\ i - 1 = n /\ n \in 1..n BY <1>5, <2>1
      <3>2. outstanding[n].cumulative = cumulative_bytes
        BY <3>1 DEF Window, Totals
      <3> QED BY <1>1, <1>2, <1>3, <1>5, <2>1, <3>1, <3>2
    <2>2. CASE i \in 1..n
      <3>1. i - 1 \in 1..n BY <2>2, <1>5
      <3> QED BY <1>5, <2>2, <3>1 DEF Window, Chained
    <2> QED BY <2>1, <2>2, <1>5
  <1>10. Ordered'
    <2>1. ASSUME NEW i \in 1..(n + 1)
          PROVE  outstanding'[i].cumulative <= cumulative_bytes'
      <3>1. CASE i = n + 1 BY <1>1, <1>2, <1>3, <1>4, <1>5, <3>1
      <3>2. CASE i \in 1..n BY <1>1, <1>2, <1>4, <1>5, <1>6, <1>7, <3>2
      <3> QED BY <1>5, <3>1, <3>2
    <2>2. ASSUME NEW i \in 1..(n + 1), NEW j \in 1..(n + 1), i < j
          PROVE  outstanding'[i].cumulative <=
                   outstanding'[j].cumulative - outstanding'[j].bytes
      <3>0. i \in 1..n BY <1>5, <2>2
      <3>1. CASE j = n + 1
        BY <1>1, <1>2, <1>3, <1>5, <1>6, <1>7, <3>0, <3>1
      <3>2. CASE j \in 1..n BY <1>5, <2>2, <3>0, <3>2 DEF Window, Ordered
      <3> QED BY <1>5, <3>1, <3>2
    <2> QED BY <1>5, <2>1, <2>2 DEF Ordered
  <1>11. Totals'
    <2>1. outstanding' # << >> BY <1>1, <1>4
    <2>2. CASE n = 0
      <3>1. outstanding_bytes = 0 BY <1>1, <2>2 DEF Window, Totals
      <3> QED BY <1>1, <1>2, <1>3, <1>4, <1>5, <2>1, <2>2, <3>1 DEF Totals
    <2>3. CASE n # 0
      <3>1. /\ 1 \in 1..n
            /\ outstanding_bytes =
                 cumulative_bytes - outstanding[1].cumulative + outstanding[1].bytes
        BY <1>1, <2>3 DEF Window, Totals
      <3>2. outstanding'[1] = outstanding[1] BY <1>5, <3>1
      <3>3. outstanding[1].cumulative \in Nat /\ outstanding[1].bytes \in Nat
        BY <1>6, <3>1
      <3>4. outstanding_bytes' = cumulative_bytes' - outstanding'[1].cumulative
                                   + outstanding'[1].bytes
        <4>1. PICK x \in Nat, y \in Nat : x = outstanding[1].cumulative /\ y = outstanding[1].bytes
          BY <3>3
        <4>2. outstanding'[1].cumulative = x /\ outstanding'[1].bytes = y BY <3>2, <4>1
        <4>3. PICK c \in Nat, o \in Int, e \in Nat :
                 c = cumulative_bytes /\ o = outstanding_bytes /\ e = B
          BY <1>1, <1>2
        <4>4. o = c - x + y BY <3>1, <4>1, <4>3
        <4>5. cumulative_bytes' = c + e /\ outstanding_bytes' = o + e BY <1>4, <4>3
        <4>6. o + e = (c + e) - x + y BY <4>4
        <4> QED BY <4>2, <4>5, <4>6
      <3>5. outstanding'[Len(outstanding')].cumulative = cumulative_bytes'
        BY <1>3, <1>4, <1>5
      <3> QED BY <2>1, <3>4, <3>5 DEF Totals
    <2> QED BY <2>2, <2>3
  <1>12. AcknowledgedTotals'
    <2>1. /\ acknowledged_sequence' = acknowledged_sequence
          /\ acknowledged_bytes' = acknowledged_bytes
      BY DEF acknowledged
    <2>2. /\ acknowledged_sequence = next_sequence - 1 - n
          /\ acknowledged_bytes = cumulative_bytes - outstanding_bytes
          /\ acknowledged_bytes <= cumulative_bytes
      BY DEF Window, AcknowledgedTotals, AtWindowStart
    <2> QED BY <1>1, <1>2, <1>4, <1>5, <2>1, <2>2
            DEF AcknowledgedTotals, AtWindowStart
  <1>13. PopTarget' BY DEF PopTarget
  <1> QED BY <1>8, <1>9, <1>10, <1>11, <1>12, <1>13 DEF Window

\* An accepted acknowledgement names a frame of the window.
LEMMA WindowAcknowledge ==
  ASSUME TypeOK, Window, NEW n \in Nat, NEW m \in Nat, Acknowledge(n, m)
  PROVE  Window'
  <1> USE DEF counters, acknowledged
  <1>1. phase = "idle" /\ phase' = "pop" /\ n > acknowledged_sequence
    BY DEF Acknowledge, Ready
  <1>2. UNCHANGED <<outstanding, outstanding_bytes, next_sequence,
                    cumulative_bytes, acknowledged_sequence, acknowledged_bytes>>
    BY DEF Acknowledge
  <1>3. target'.sequence = n /\ target'.bytes = m
    BY DEF Acknowledge
  <1>4. PICK i \in DOMAIN outstanding :
          outstanding[i].sequence = n /\ outstanding[i].cumulative = m
    BY DEF Acknowledge
  <1>5. Consecutive' /\ Chained' /\ Ordered' /\ Totals'
    BY <1>2 DEF Window, Consecutive, Chained, Ordered, Totals
  <1>6. AcknowledgedTotals'
    BY <1>1, <1>2 DEF Window, AcknowledgedTotals
  <1>7. n < next_sequence
    BY <1>4 DEF Window, Consecutive, TypeOK, SentOK
  <1>8. m <= cumulative_bytes
    BY <1>4 DEF Window, Ordered
  <1>9. acknowledged_bytes <= m
    <2>1. outstanding # << >> /\ outstanding \in Seq(SentFrames) /\ 1 \in DOMAIN outstanding
      BY <1>4 DEF TypeOK, SentOK
    <2>2. /\ outstanding[1].cumulative \in Nat /\ outstanding[1].bytes \in Nat
          /\ outstanding[i].bytes \in Nat /\ i \in Nat /\ i >= 1
      <3>1. outstanding[1] \in SentFrames /\ outstanding[i] \in SentFrames
        BY <1>4, <2>1
      <3> QED BY <1>4, <2>1, <3>1 DEF SentFrames
    <2>3. /\ acknowledged_bytes = cumulative_bytes - outstanding_bytes
          /\ outstanding_bytes =
               cumulative_bytes - outstanding[1].cumulative + outstanding[1].bytes
      BY <1>1, <2>1 DEF Window, AcknowledgedTotals, AtWindowStart, Totals
    <2>4. cumulative_bytes \in Nat BY CreditAssumption DEF TypeOK, SentOK
    <2>5. acknowledged_bytes <= outstanding[1].cumulative
      BY <2>2, <2>3, <2>4
    <2>6. CASE i = 1 BY <1>4, <2>5, <2>6
    <2>7. CASE i > 1
      <3>1. outstanding[1].cumulative <= outstanding[i].cumulative - outstanding[i].bytes
        BY <1>4, <2>1, <2>7 DEF Window, Ordered
      <3> QED BY <1>4, <2>2, <2>3, <2>4, <2>5, <3>1
    <2> QED BY <2>2, <2>6, <2>7
  <1>10. PopTarget'
    BY <1>1, <1>2, <1>3, <1>4, <1>7, <1>8, <1>9 DEF PopTarget
  <1> QED BY <1>5, <1>6, <1>10 DEF Window

\* Popping the oldest frame moves the start of the window by one frame.
LEMMA WindowPop == ASSUME TypeOK, Window, Pop PROVE Window'
  <1> DEFINE n == Len(outstanding)
  <1>1. /\ next_sequence \in Nat /\ cumulative_bytes \in Nat
        /\ outstanding \in Seq(SentFrames) /\ outstanding_bytes \in Int
    BY CreditAssumption DEF TypeOK, SentOK
  <1>2. /\ outstanding # << >>
        /\ phase = "pop"
        /\ outstanding[1].sequence <= target.sequence
        /\ outstanding' = Tail(outstanding)
        /\ outstanding_bytes' = outstanding_bytes - outstanding[1].bytes
    BY <1>1 DEF Pop, Popping
  <1>3. UNCHANGED <<next_sequence, cumulative_bytes, acknowledged_sequence,
                    acknowledged_bytes, phase, target>>
    BY DEF Pop, acknowledged, control
  <1>4. /\ n \in Nat /\ n >= 1
        /\ Len(outstanding') = n - 1
        /\ DOMAIN outstanding = 1..n
        /\ DOMAIN outstanding' = 1..(n - 1)
        /\ \A i \in 1..(n - 1) : /\ outstanding'[i] = outstanding[i + 1]
                                 /\ i + 1 \in 1..n
    BY <1>1, <1>2
  <1>5. \A i \in 1..n : /\ outstanding[i].cumulative \in Nat
                        /\ outstanding[i].bytes \in Nat
                        /\ outstanding[i].sequence \in Nat
    <2>1. \A i \in 1..n : outstanding[i] \in SentFrames BY <1>1
    <2> QED BY <2>1 DEF SentFrames
  <1>6. Consecutive'
    <2>1. \A i \in 1..n : outstanding[i].sequence = next_sequence - n + i - 1
      BY <1>4 DEF Window, Consecutive
    <2>2. ASSUME NEW i \in 1..(n - 1)
          PROVE  outstanding'[i].sequence = next_sequence - (n - 1) + i - 1
      BY <1>1, <1>4, <2>1
    <2> QED BY <1>3, <1>4, <2>2 DEF Consecutive
  <1>7. Chained'
    <2>1. ASSUME NEW i \in 1..(n - 1), i > 1
          PROVE  outstanding'[i].cumulative =
                   outstanding'[i - 1].cumulative + outstanding'[i].bytes
      <3>1. /\ i - 1 \in 1..(n - 1) /\ (i - 1) + 1 = i /\ i + 1 > 1
            /\ (i + 1) - 1 = i
        BY <1>4, <2>1
      <3>2. outstanding[i + 1].cumulative =
              outstanding[(i + 1) - 1].cumulative + outstanding[i + 1].bytes
        BY <1>4, <3>1 DEF Window, Chained
      <3> QED BY <1>4, <3>1, <3>2
    <2> QED BY <1>4, <2>1 DEF Chained
  <1>8. Ordered'
    <2>1. ASSUME NEW i \in 1..(n - 1), NEW j \in 1..(n - 1), i < j
          PROVE  outstanding'[i].cumulative <=
                   outstanding'[j].cumulative - outstanding'[j].bytes
      <3>1. i + 1 < j + 1 BY <2>1
      <3> QED BY <1>4, <3>1 DEF Window, Ordered
    <2>2. ASSUME NEW i \in 1..(n - 1)
          PROVE  outstanding'[i].cumulative <= cumulative_bytes'
      BY <1>3, <1>4 DEF Window, Ordered
    <2> QED BY <1>4, <2>1, <2>2 DEF Ordered
  <1>9. /\ outstanding[n].cumulative = cumulative_bytes
        /\ outstanding_bytes =
             cumulative_bytes - outstanding[1].cumulative + outstanding[1].bytes
        /\ 1 \in 1..n
    BY <1>2, <1>4 DEF Window, Totals
  <1>10. outstanding_bytes' = cumulative_bytes - outstanding[1].cumulative
    BY <1>1, <1>2, <1>5, <1>9
  <1>11. Totals'
    <2>1. CASE n = 1
      <3>1. outstanding' = << >> BY <1>1, <1>2, <2>1
      <3>2. outstanding_bytes' = 0 BY <1>1, <1>9, <1>10, <2>1
      <3> QED BY <3>1, <3>2 DEF Totals
    <2>2. CASE n > 1
      <3>1. /\ outstanding' # << >>
            /\ 2 \in 1..n /\ 1 \in 1..(n - 1) /\ n - 1 \in 1..(n - 1)
            /\ (n - 1) + 1 = n /\ 1 + 1 = 2 /\ 2 - 1 = 1
        <4>1. Len(outstanding') # 0 BY <1>4, <2>2
        <4>2. outstanding' # << >> BY <4>1
        <4> HIDE DEF n
        <4> QED BY <1>4, <2>2, <4>2
      <3>2. outstanding[2].cumulative = outstanding[1].cumulative + outstanding[2].bytes
        BY <1>4, <3>1 DEF Window, Chained
      <3>3. outstanding'[1] = outstanding[2] /\ outstanding'[n - 1] = outstanding[n]
        BY <1>4, <3>1
      <3>4. outstanding_bytes' = cumulative_bytes' - outstanding'[1].cumulative
                                   + outstanding'[1].bytes
        <4>1. outstanding[1].cumulative \in Nat /\ outstanding[2].bytes \in Nat
          BY <1>5, <1>9, <3>1
        <4> QED BY <1>1, <1>3, <1>10, <3>2, <3>3, <4>1
      <3>5. outstanding'[Len(outstanding')].cumulative = cumulative_bytes'
        BY <1>3, <1>4, <1>9, <3>3
      <3> QED BY <3>1, <3>4, <3>5 DEF Totals
    <2> QED BY <1>4, <2>1, <2>2
  <1>12. AcknowledgedTotals'
    BY <1>2, <1>3 DEF Window, AcknowledgedTotals
  <1>13. PopTarget'
    <2>1. /\ acknowledged_sequence < target.sequence
          /\ target.sequence < next_sequence
          /\ acknowledged_bytes <= target.bytes
          /\ target.bytes <= cumulative_bytes
      BY <1>2 DEF Window, PopTarget
    <2>2. outstanding[1].sequence = next_sequence - n
      BY <1>1, <1>4, <1>9 DEF Window, Consecutive
    <2>3. ~AtWindowStart(target.sequence, target.bytes)
      <3>1. target.sequence \in Nat BY DEF TypeOK
      <3> QED BY <1>1, <1>2, <1>4, <2>2, <3>1 DEF AtWindowStart
    <2>4. PICK i \in 1..n : /\ outstanding[i].sequence = target.sequence
                            /\ outstanding[i].cumulative = target.bytes
      BY <1>2, <1>4, <2>3 DEF Window, PopTarget
    <2>5. CASE i = 1
      <3>1. target.sequence = next_sequence - 1 - (n - 1)
        BY <1>1, <1>4, <2>2, <2>4, <2>5
      <3>2. target.bytes = cumulative_bytes - outstanding_bytes'
        BY <1>1, <1>5, <1>10, <1>9, <2>4, <2>5
      <3>3. AtWindowStart(target.sequence, target.bytes)'
        BY <1>3, <1>4, <3>1, <3>2 DEF AtWindowStart
      <3> QED BY <1>3, <2>1, <3>3 DEF PopTarget
    <2>6. CASE i > 1
      <3>1. i - 1 \in 1..(n - 1) /\ (i - 1) + 1 = i BY <1>4, <2>6
      <3>2. outstanding'[i - 1] = outstanding[i] BY <1>4, <3>1
      <3> QED BY <1>3, <1>4, <2>1, <2>4, <3>1, <3>2 DEF PopTarget
    <2> QED BY <2>5, <2>6
  <1> QED BY <1>6, <1>7, <1>8, <1>11, <1>12, <1>13 DEF Window

\* When the loop ends the acknowledged totals are the start of the window.
LEMMA WindowPopped == ASSUME TypeOK, Window, Popped PROVE Window'
  <1> USE DEF counters, acknowledged
  <1>1. UNCHANGED <<outstanding, outstanding_bytes, next_sequence, cumulative_bytes>>
    BY DEF Popped
  <1>2. /\ acknowledged_sequence' = target.sequence
        /\ acknowledged_bytes' = target.bytes
        /\ phase = "pop" /\ phase' = "drain"
        /\ ~Popping
    BY DEF Popped
  <1>3. Consecutive' /\ Chained' /\ Ordered' /\ Totals'
    BY <1>1 DEF Window, Consecutive, Chained, Ordered, Totals
  <1>4. AtWindowStart(target.sequence, target.bytes)
    <2>1. SUFFICES ASSUME NEW i \in DOMAIN outstanding,
                          outstanding[i].sequence = target.sequence
                   PROVE  FALSE
      BY <1>2 DEF Window, PopTarget
    <2>2. /\ outstanding # << >> /\ outstanding \in Seq(SentFrames)
          /\ 1 \in DOMAIN outstanding /\ i \in Nat /\ i >= 1
          /\ next_sequence \in Nat /\ Len(outstanding) \in Nat
      <3>1. outstanding \in Seq(SentFrames) /\ next_sequence \in 1..MaximumSequence
        BY DEF TypeOK, SentOK
      <3>2. Len(outstanding) \in Nat /\ DOMAIN outstanding = 1..Len(outstanding)
        BY <3>1
      <3>3. outstanding # << >> BY <3>2
      <3> QED BY <3>1, <3>2, <3>3, CreditAssumption
    <2>3. /\ outstanding[1].sequence = next_sequence - Len(outstanding)
          /\ outstanding[i].sequence = next_sequence - Len(outstanding) + i - 1
      BY <2>2 DEF Window, Consecutive
    <2>4. ~(outstanding[1].sequence <= target.sequence)
      BY <1>2, <2>2 DEF Popping
    <2> QED BY <2>1, <2>2, <2>3, <2>4
  <1>5. AcknowledgedTotals' /\ PopTarget'
    BY <1>1, <1>2, <1>4
    DEF Window, AcknowledgedTotals, AtWindowStart, PopTarget
  <1> QED BY <1>3, <1>5 DEF Window

\* Every handler and every loop iteration keeps the window.
LEMMA WindowStep == TypeOK /\ Window /\ [Next]_vars => Window'
  <1> SUFFICES ASSUME TypeOK, Window, [Next]_vars PROVE Window'
    OBVIOUS
  <1> USE DEF counters, acknowledged, control
  <1>1. CASE \E s \in Streams : Handler(s)
    <2>0. PICK s \in Streams : Handler(s) BY <1>1
    <2>1. CASE \E b \in Bodies : SubmitTransmits(s, b)
      <3>0. PICK b \in Bodies : SubmitTransmits(s, b) BY <2>1
      <3>1. /\ b \in Nat /\ TransmitFrame(s, b) /\ phase # "pop"
            /\ UNCHANGED <<acknowledged, phase>>
        BY <3>0, CreditAssumption DEF SubmitTransmits, Ready
      <3> QED BY <3>1, WindowTransmit
    <2>2. CASE ~ \E b \in Bodies : SubmitTransmits(s, b)
      <3>1. Quiet
        <4>1. ASSUME NEW q \in QueueLimits, AddStream(s, q) PROVE Quiet
          BY <4>1 DEF AddStream, Quiet
        <4>2. ASSUME NEW b \in Bodies, SubmitQueues(s, b) PROVE Quiet
          BY <4>2 DEF SubmitQueues, Quiet
        <4>3. ASSUME NEW b \in Bodies, SubmitOverflows(s, b) PROVE Quiet
          BY <4>3 DEF SubmitOverflows, BeginRetire, Ready, Quiet
        <4>4. ASSUME NEW b \in Bodies, SubmitInvalid(s, b) PROVE Quiet
          BY <4>4 DEF SubmitInvalid, FailChannel, Quiet
        <4>5. ASSUME EmitFailure(s) PROVE Quiet
          BY <4>5 DEF EmitFailure, BeginRetire, Ready, Quiet
        <4>6. ASSUME Unsubscribe(s) PROVE Quiet
          BY <4>6 DEF Unsubscribe, BeginRetire, Ready, Quiet
        <4>7. ASSUME NEW t \in Streams, BeginRecovery(s, t) PROVE Quiet
          BY <4>7 DEF BeginRecovery, BeginRetire, Ready, Quiet
        <4> QED BY <2>0, <2>2, <4>1, <4>2, <4>3, <4>4, <4>5, <4>6, <4>7 DEF Handler
      <3> QED BY <3>1, WindowQuiet
    <2> QED BY <2>1, <2>2
  <1>2. CASE Purge
    BY <1>2, WindowQuiet DEF Purge, Quiet
  <1>3. CASE RetireBarrier
    BY <1>3, WindowQuiet DEF RetireBarrier, Quiet
  <1>4. CASE Pop
    BY <1>4, WindowPop
  <1>5. CASE Popped
    BY <1>5, WindowPopped
  <1>6. CASE DrainTransmits
    <2>1. Pending \in QueuedFrames
      BY <1>6 DEF DrainTransmits, Pending, TypeOK
    <2>2. Pending.stream \in Streams /\ Pending.body \in Nat
      BY <2>1 DEF QueuedFrames
    <2>3. /\ TransmitFrame(Pending.stream, Pending.body) /\ phase # "pop"
          /\ UNCHANGED <<acknowledged, phase>>
      BY <1>6 DEF DrainTransmits, Draining
    <2> QED BY <2>2, <2>3, WindowTransmit
  <1>7. CASE DrainFails
    BY <1>7, WindowQuiet DEF DrainFails, Quiet
  <1>8. CASE Drained
    BY <1>8, WindowQuiet DEF Drained, Draining, Finish, Quiet
  <1>9. CASE WriteFails
    BY <1>9, WindowQuiet DEF WriteFails, FailChannel, Quiet
  <1>10. CASE PeerReads
    BY <1>10, WindowQuiet DEF PeerReads, Quiet
  <1>11. CASE PeerAcknowledges
    <2>0. PICK n \in 0..MaximumSequence, m \in 0..MaximumBytes :
            Acknowledge(n, m) \/ AcknowledgeRejected(n, m)
      BY <1>11 DEF PeerAcknowledges
    <2>1. CASE Acknowledge(n, m)
      BY <2>1, WindowAcknowledge, CreditAssumption
    <2>2. CASE AcknowledgeRejected(n, m)
      BY <2>2, WindowQuiet DEF AcknowledgeRejected, FailChannel, Quiet
    <2> QED BY <2>0, <2>1, <2>2
  <1>12. CASE UNCHANGED vars
    BY <1>12, WindowQuiet DEF vars, Quiet
  <1> QED BY <1>1, <1>2, <1>3, <1>4, <1>5, <1>6, <1>7, <1>8, <1>9, <1>10, <1>11,
             <1>12 DEF Next, Locked

\* The frames in flight are always the consecutive, byte-chained sequences
\* after the acknowledged totals.
THEOREM WindowCorrect == Spec => []Window
  <1>1. Init => TypeOK /\ Window
    BY InitTypeOK, InitWindow
  <1>2. TypeOK /\ Window /\ [Next]_vars => TypeOK' /\ Window'
    BY TypeStep, WindowStep
  <1> QED BY <1>1, <1>2, PTL DEF Spec

-----------------------------------------------------------------------------
(* The credit itself.                                                      *)

\* A frame CanTransmit allows fits in the session's and the stream's credit.
LEMMA CreditTransmit ==
  ASSUME TypeOK, Window, CreditBound, NEW s \in Streams, NEW b \in Nat,
         CanTransmit(s, Encoded(b, next_sequence)), TransmitFrame(s, b),
         UNCHANGED queue_limit
  PROVE  CreditBound'
  <1>1. /\ outstanding \in Seq(SentFrames) /\ outstanding_bytes \in Int
        /\ next_sequence \in 1..MaximumSequence
    BY DEF TypeOK, SentOK
  <1>2. Encoded(b, next_sequence) \in Nat BY <1>1, EncodedType
  <1>3. /\ outstanding' = Append(outstanding, SentFrame(s, b))
        /\ outstanding_bytes' = outstanding_bytes + Encoded(b, next_sequence)
        /\ stream_outstanding' = [stream_outstanding EXCEPT ![s] = @ + 1]
    BY DEF TransmitFrame, SentFrame
  <1>4. /\ Len(outstanding) < SessionReportCredit
        /\ Encoded(b, next_sequence) <= SessionByteCredit - outstanding_bytes
        /\ stream_outstanding[s] < LesserOf(StreamReportCredit, queue_limit[s])
    BY DEF CanTransmit
  <1>5. SessionCredit'
    <2>1. Len(outstanding') = Len(outstanding) + 1 /\ Len(outstanding) \in Nat
      BY <1>1, <1>3
    <2>2. 0 <= outstanding_bytes BY DEF CreditBound, SessionCredit
    <2>3. PICK e \in Nat : e = Encoded(b, next_sequence) BY <1>2
    <2>4. 0 <= outstanding_bytes' /\ outstanding_bytes' <= SessionByteCredit
      BY <1>1, <1>3, <1>4, <2>2, <2>3, CreditAssumption
    <2>5. Len(outstanding') <= SessionReportCredit BY <1>4, <2>1, CreditAssumption
    <2> QED BY <2>4, <2>5 DEF SessionCredit
  <1>6. StreamCredit'
    <2> SUFFICES ASSUME NEW t \in Streams
                 PROVE  stream_outstanding'[t] <=
                          LesserOf(StreamReportCredit, queue_limit'[t])
      BY DEF StreamCredit
    <2>1. stream_outstanding \in [Streams -> Int] /\ queue_limit \in [Streams -> Nat]
      BY DEF TypeOK
    <2>2. CASE t = s
      BY <1>3, <1>4, <2>1, <2>2, CreditAssumption DEF LesserOf
    <2>3. CASE t # s
      BY <1>3, <2>1, <2>3 DEF CreditBound, StreamCredit
    <2> QED BY <2>2, <2>3
  <1> QED BY <1>5, <1>6 DEF CreditBound

\* A record that is not in streams_ holds no credit.
AbsentHoldsNothing ==
  \A s \in Streams : status[s] = "absent" => stream_outstanding[s] = 0

CreditInv == TypeOK /\ Window /\ CreditBound /\ AbsentHoldsNothing

\* A step that transmits nothing and changes no record keeps every bound.
LEMMA CreditSame ==
  ASSUME CreditBound, AbsentHoldsNothing,
         UNCHANGED <<outstanding, outstanding_bytes, stream_outstanding, queue_limit>>,
         \/ UNCHANGED status
         \/ \E s \in Streams : status' = [status EXCEPT ![s] = "retired"],
         TypeOK
  PROVE  CreditBound' /\ AbsentHoldsNothing'
  <1>1. CreditBound'
    BY DEF CreditBound, SessionCredit, StreamCredit
  <1>2. AbsentHoldsNothing'
    BY DEF AbsentHoldsNothing, TypeOK
  <1> QED BY <1>1, <1>2

\* Opening a stream and erasing one keep the per-stream bound.
LEMMA RecordCredit ==
  ASSUME TypeOK, StreamCredit, AbsentHoldsNothing, NEW s \in Streams,
         \/ Erase(s)
         \/ status[s] = "absent" /\ \E q \in Nat : Open(s, q)
  PROVE  StreamCredit' /\ AbsentHoldsNothing'
  <1>1. /\ stream_outstanding \in [Streams -> Int]
        /\ queue_limit \in [Streams -> Nat]
        /\ status \in [Streams -> {"absent", "live", "retired"}]
    BY DEF TypeOK
  <1>2. CASE Erase(s)
    <2>1. StreamCredit'
      BY <1>1, <1>2, CreditAssumption DEF StreamCredit, Erase, LesserOf
    <2>2. AbsentHoldsNothing'
      BY <1>1, <1>2 DEF AbsentHoldsNothing, Erase
    <2> QED BY <2>1, <2>2
  <1>3. CASE status[s] = "absent" /\ \E q \in Nat : Open(s, q)
    <2>0. PICK q \in Nat : Open(s, q) BY <1>3
    <2>1. stream_outstanding[s] = 0 BY <1>3 DEF AbsentHoldsNothing
    <2>2. StreamCredit'
      BY <1>1, <2>0, <2>1, CreditAssumption DEF StreamCredit, Open, LesserOf
    <2>3. AbsentHoldsNothing'
      BY <1>1, <2>0 DEF AbsentHoldsNothing, Open
    <2> QED BY <2>2, <2>3
  <1> QED BY <1>2, <1>3

\* Transmitting for a live stream creates no absent holder.
LEMMA AbsentTransmit ==
  ASSUME TypeOK, AbsentHoldsNothing, NEW s \in Streams, NEW b, IsLive(s),
         TransmitFrame(s, b), UNCHANGED status
  PROVE  AbsentHoldsNothing'
  <1>1. stream_outstanding \in [Streams -> Int] BY DEF TypeOK
  <1>2. stream_outstanding' = [stream_outstanding EXCEPT ![s] = @ + 1]
    BY DEF TransmitFrame
  <1> QED BY <1>1, <1>2 DEF AbsentHoldsNothing, IsLive

\* No credit is in use after flow_open.
LEMMA InitCredit == Init => CreditBound /\ AbsentHoldsNothing
  <1> SUFFICES ASSUME Init PROVE CreditBound /\ AbsentHoldsNothing
    OBVIOUS
  <1>1. outstanding = << >> /\ outstanding_bytes = 0 BY DEF Init
  <1>2. /\ stream_outstanding = [s \in Streams |-> 0]
        /\ queue_limit = [s \in Streams |-> 0]
    BY DEF Init
  <1>3. SessionCredit BY <1>1, CreditAssumption DEF SessionCredit
  <1>4. StreamCredit BY <1>2, CreditAssumption DEF StreamCredit, LesserOf
  <1>5. AbsentHoldsNothing BY <1>2 DEF AbsentHoldsNothing
  <1> QED BY <1>3, <1>4, <1>5 DEF CreditBound

\* Every handler and every loop iteration stays within the credit.
LEMMA CreditStep == CreditInv /\ [Next]_vars => (CreditBound /\ AbsentHoldsNothing)'
  <1> SUFFICES ASSUME TypeOK, Window, CreditBound, AbsentHoldsNothing, [Next]_vars
               PROVE  (CreditBound /\ AbsentHoldsNothing)'
    BY DEF CreditInv
  <1> USE DEF streams, counters, acknowledged, control
  <1>1. CASE \E s \in Streams : Handler(s)
    <2>0. PICK s \in Streams : Handler(s) BY <1>1
    <2>1. CASE \E q \in QueueLimits : AddStream(s, q)
      <3>0. PICK q \in QueueLimits : AddStream(s, q) BY <2>1
      <3>1. status[s] = "absent" /\ q \in Nat /\ Open(s, q)
        BY <3>0, CreditAssumption DEF AddStream, Admits
      <3>2. StreamCredit' /\ AbsentHoldsNothing'
        BY <3>1, RecordCredit DEF CreditBound
      <3> QED BY <3>0, <3>2 DEF AddStream, CreditBound, SessionCredit
    <2>2. CASE \E b \in Bodies : SubmitTransmits(s, b)
      <3>0. PICK b \in Bodies : SubmitTransmits(s, b) BY <2>2
      <3>1. /\ b \in Nat /\ TransmitFrame(s, b) /\ IsLive(s)
            /\ CanTransmit(s, Encoded(b, next_sequence))
            /\ UNCHANGED <<queue_limit, status>>
        BY <3>0, CreditAssumption DEF SubmitTransmits, Direct
      <3> QED BY <3>1, CreditTransmit, AbsentTransmit
    <2>3. CASE \E b \in Bodies : SubmitQueues(s, b)
      BY <2>3, CreditSame DEF SubmitQueues
    <2>4. CASE \E b \in Bodies : SubmitOverflows(s, b)
      BY <2>4, CreditSame DEF SubmitOverflows, BeginRetire
    <2>5. CASE \E b \in Bodies : SubmitInvalid(s, b)
      BY <2>5, CreditSame DEF SubmitInvalid, FailChannel
    <2>6. CASE EmitFailure(s)
      BY <2>6, CreditSame DEF EmitFailure, BeginRetire
    <2>7. CASE Unsubscribe(s)
      BY <2>7, CreditSame DEF Unsubscribe, BeginRetire
    <2>8. CASE \E t \in Streams : BeginRecovery(s, t)
      BY <2>8, CreditSame DEF BeginRecovery, BeginRetire
    <2> QED BY <2>0, <2>1, <2>2, <2>3, <2>4, <2>5, <2>6, <2>7, <2>8 DEF Handler
  <1>2. CASE Purge
    BY <1>2, CreditSame DEF Purge
  <1>3. CASE RetireBarrier
    <2>1. victim \in Streams BY <1>3 DEF RetireBarrier, TypeOK
    <2>2. UNCHANGED <<outstanding, outstanding_bytes>> BY <1>3 DEF RetireBarrier
    <2>3. CASE Erase(victim)
      <3>1. StreamCredit' /\ AbsentHoldsNothing'
        BY <2>1, <2>3, RecordCredit DEF CreditBound
      <3> QED BY <2>2, <3>1 DEF CreditBound, SessionCredit
    <2>4. CASE UNCHANGED streams
      BY <2>2, <2>4, CreditSame
    <2> QED BY <1>3, <2>3, <2>4 DEF RetireBarrier
  <1>4. CASE Pop
    <2> DEFINE s == Head(outstanding).stream
    <2>1. /\ Head(outstanding) \in SentFrames /\ outstanding \in Seq(SentFrames)
          /\ outstanding # << >> /\ outstanding_bytes \in Int
      BY <1>4 DEF Pop, Popping, TypeOK, SentOK
    <2>2. s \in Streams /\ Head(outstanding).bytes \in Nat BY <2>1 DEF SentFrames
    <2>3. StreamCredit' /\ AbsentHoldsNothing'
      <3>0. /\ stream_outstanding \in [Streams -> Int]
            /\ queue_limit \in [Streams -> Nat]
        BY DEF TypeOK
      <3>1. CASE Erase(s)
        BY <2>2, <3>1, RecordCredit DEF CreditBound
      <3>2. CASE UNCHANGED streams
        BY <3>2 DEF CreditBound, StreamCredit, AbsentHoldsNothing
      <3>3. CASE /\ stream_outstanding[s] > 0
                 /\ stream_outstanding' = [stream_outstanding EXCEPT ![s] = @ - 1]
                 /\ UNCHANGED <<status, queue_limit, stream_queued, last_transmitted>>
        <4>1. StreamCredit'
          <5> SUFFICES ASSUME NEW t \in Streams
                       PROVE  stream_outstanding'[t] <=
                                LesserOf(StreamReportCredit, queue_limit[t])
            BY <3>3 DEF StreamCredit
          <5>1. stream_outstanding[t] <= LesserOf(StreamReportCredit, queue_limit[t])
            BY DEF CreditBound, StreamCredit
          <5>2. LesserOf(StreamReportCredit, queue_limit[t]) \in Int
            BY <3>0, CreditAssumption DEF LesserOf
          <5>3. stream_outstanding'[t] <= stream_outstanding[t]
                /\ stream_outstanding'[t] \in Int /\ stream_outstanding[t] \in Int
            BY <2>2, <3>0, <3>3
          <5> QED BY <5>1, <5>2, <5>3
        <4>2. AbsentHoldsNothing'
          BY <2>2, <3>0, <3>3 DEF AbsentHoldsNothing
        <4> QED BY <4>1, <4>2
      <3> QED BY <1>4, <3>1, <3>2, <3>3 DEF Pop, Release
    <2>4. SessionCredit'
      <3>1. outstanding' = Tail(outstanding) BY <1>4 DEF Pop
      <3>2. outstanding_bytes' = outstanding_bytes - Head(outstanding).bytes
        BY <1>4 DEF Pop
      <3>3. Len(outstanding') = Len(outstanding) - 1 /\ Len(outstanding) \in Nat
        BY <2>1, <3>1
      <3>4. 0 <= outstanding_bytes'
        <4>1. TypeOK' BY TypeStep
        <4>2. Window' BY WindowPop, <1>4
        <4>3. (TypeOK /\ Window)' => NonNegative' BY WindowNonNegative, PTL
        <4> QED BY <4>1, <4>2, <4>3 DEF NonNegative
      <3> QED BY <2>1, <2>2, <3>2, <3>3, <3>4, CreditAssumption
              DEF CreditBound, SessionCredit
    <2> QED BY <2>3, <2>4 DEF CreditBound
  <1>5. CASE Popped
    BY <1>5, CreditSame DEF Popped
  <1>6. CASE DrainTransmits
    <2>1. Pending \in QueuedFrames
      BY <1>6 DEF DrainTransmits, Pending, TypeOK
    <2>2. Pending.stream \in Streams /\ Pending.body \in Nat
      BY <2>1 DEF QueuedFrames
    <2>3. /\ TransmitFrame(Pending.stream, Pending.body) /\ IsLive(Pending.stream)
          /\ CanTransmit(Pending.stream, Encoded(Pending.body, next_sequence))
          /\ UNCHANGED <<queue_limit, status>>
      BY <1>6 DEF DrainTransmits, Blocked
    <2> QED BY <2>2, <2>3, CreditTransmit, AbsentTransmit
  <1>7. CASE DrainFails
    BY <1>7, CreditSame DEF DrainFails
  <1>8. CASE Drained
    <2>1. UNCHANGED <<outstanding, outstanding_bytes>> BY <1>8 DEF Drained
    <2>2. CASE successor = NoStream
      BY <1>8, <2>2, CreditSame DEF Drained
    <2>3. CASE successor # NoStream
      <3>1. /\ successor \in Streams /\ limit \in Nat
            /\ status[successor] = "absent" /\ Open(successor, limit)
        BY <1>8, <2>3 DEF Drained, Admits, TypeOK
      <3>2. StreamCredit' /\ AbsentHoldsNothing'
        BY <3>1, RecordCredit DEF CreditBound
      <3> QED BY <2>1, <3>2 DEF CreditBound, SessionCredit
    <2> QED BY <2>2, <2>3
  <1>9. CASE WriteFails
    BY <1>9, CreditSame DEF WriteFails, FailChannel
  <1>10. CASE PeerReads
    BY <1>10, CreditSame DEF PeerReads
  <1>11. CASE PeerAcknowledges
    BY <1>11, CreditSame
    DEF PeerAcknowledges, Acknowledge, AcknowledgeRejected, FailChannel
  <1>12. CASE UNCHANGED vars
    BY <1>12, CreditSame DEF vars
  <1> QED BY <1>1, <1>2, <1>3, <1>4, <1>5, <1>6, <1>7, <1>8, <1>9, <1>10, <1>11,
             <1>12 DEF Next, Locked

\* The credit bounds hold whatever the peer acknowledges, for every credit,
\* queue limit and set of streams.
THEOREM CreditCorrect == Spec => []CreditBound
  <1>1. Init => CreditInv
    BY InitTypeOK, InitWindow, InitCredit DEF CreditInv
  <1>2. CreditInv /\ [Next]_vars => CreditInv'
    BY TypeStep, WindowStep, CreditStep DEF CreditInv
  <1>3. CreditInv => CreditBound
    BY DEF CreditInv
  <1> QED BY <1>1, <1>2, <1>3, PTL DEF Spec

-----------------------------------------------------------------------------
(* The queue of reports that wait for credit.                              *)

AbsentQueuesNothing ==
  \A s \in Streams : status[s] = "absent" => stream_queued[s] <= 0

QueueInv == TypeOK /\ QueueBound /\ AbsentQueuesNothing

\* A step that changes neither the queue nor its counters keeps the limits.
LEMMA QueueSame ==
  ASSUME TypeOK, QueueBound, AbsentQueuesNothing,
         UNCHANGED <<queued, queued_bytes, stream_queued, queue_limit>>,
         \/ UNCHANGED status
         \/ \E s \in Streams : status' = [status EXCEPT ![s] = "retired"]
  PROVE  QueueBound' /\ AbsentQueuesNothing'
  <1>1. QueueBound' BY DEF QueueBound
  <1>2. AbsentQueuesNothing' BY DEF AbsentQueuesNothing, TypeOK
  <1> QED BY <1>1, <1>2

\* A frame leaves the queue: its length, bytes and stream count fall.
LEMMA QueueShrinks ==
  ASSUME TypeOK, QueueBound, AbsentQueuesNothing, NEW s \in Streams, NEW n \in Nat,
         Len(queued') <= Len(queued), Len(queued') \in Nat,
         queued_bytes' = queued_bytes - n,
         stream_queued' = [stream_queued EXCEPT ![s] = @ - 1],
         UNCHANGED <<status, queue_limit>>
  PROVE  QueueBound' /\ AbsentQueuesNothing'
  <1>1. /\ stream_queued \in [Streams -> Int] /\ queue_limit \in [Streams -> Nat]
        /\ queued_bytes \in Int /\ Len(queued) \in Nat
    BY DEF TypeOK
  <1>2. \A t \in Streams : /\ stream_queued'[t] <= stream_queued[t]
                           /\ stream_queued'[t] \in Int
    BY <1>1
  <1>3. Len(queued') <= MaximumQueuedReports
    BY <1>1, CreditAssumption DEF QueueBound
  <1>4. queued_bytes' <= MaximumQueuedBytes
    BY <1>1, CreditAssumption DEF QueueBound
  <1>5. \A t \in Streams : stream_queued'[t] <= queue_limit'[t]
    BY <1>1, <1>2 DEF QueueBound
  <1>6. AbsentQueuesNothing'
    BY <1>1, <1>2 DEF AbsentQueuesNothing
  <1> QED BY <1>3, <1>4, <1>5, <1>6 DEF QueueBound

\* AddStream opens a record that queues nothing; erasing a record that
\* queues nothing leaves the others alone.
LEMMA RecordQueue ==
  ASSUME TypeOK, QueueBound, AbsentQueuesNothing, NEW s \in Streams,
         UNCHANGED <<queued, queued_bytes>>,
         \/ Erase(s)
         \/ status[s] = "absent" /\ \E q \in Nat : Open(s, q)
  PROVE  QueueBound' /\ AbsentQueuesNothing'
  <1>1. /\ stream_queued \in [Streams -> Int]
        /\ queue_limit \in [Streams -> Nat]
        /\ status \in [Streams -> {"absent", "live", "retired"}]
    BY DEF TypeOK
  <1>2. CASE Erase(s)
    <2>1. QueueBound' BY <1>1, <1>2 DEF QueueBound, Erase
    <2>2. AbsentQueuesNothing' BY <1>1, <1>2 DEF AbsentQueuesNothing, Erase
    <2> QED BY <2>1, <2>2
  <1>3. CASE status[s] = "absent" /\ \E q \in Nat : Open(s, q)
    <2>0. PICK q \in Nat : Open(s, q) BY <1>3
    <2>1. stream_queued[s] <= q BY <1>1, <1>3 DEF AbsentQueuesNothing
    <2>2. QueueBound' BY <1>1, <2>0, <2>1 DEF QueueBound, Open
    <2>3. AbsentQueuesNothing' BY <1>1, <2>0 DEF AbsentQueuesNothing, Open
    <2> QED BY <2>2, <2>3
  <1> QED BY <1>2, <1>3

\* Nothing is queued after flow_open.
LEMMA InitQueue == Init => QueueBound /\ AbsentQueuesNothing
  <1> SUFFICES ASSUME Init PROVE QueueBound /\ AbsentQueuesNothing
    OBVIOUS
  <1>1. /\ queued = << >> /\ queued_bytes = 0
        /\ stream_queued = [s \in Streams |-> 0]
        /\ queue_limit = [s \in Streams |-> 0]
    BY DEF Init
  <1> QED BY <1>1, CreditAssumption DEF QueueBound, AbsentQueuesNothing

\* Every handler and every loop iteration stays within the queue limits.
LEMMA QueueStep == QueueInv /\ [Next]_vars => (QueueBound /\ AbsentQueuesNothing)'
  <1> SUFFICES ASSUME TypeOK, QueueBound, AbsentQueuesNothing, [Next]_vars
               PROVE  (QueueBound /\ AbsentQueuesNothing)'
    BY DEF QueueInv
  <1> USE DEF streams, counters, acknowledged, control
  <1>1. CASE \E s \in Streams : Handler(s)
    <2>0. PICK s \in Streams : Handler(s) BY <1>1
    <2>1. CASE \E q \in QueueLimits : AddStream(s, q)
      <3>0. PICK q \in QueueLimits : AddStream(s, q) BY <2>1
      <3>1. /\ status[s] = "absent" /\ q \in Nat /\ Open(s, q)
            /\ UNCHANGED <<queued, queued_bytes>>
        BY <3>0, CreditAssumption DEF AddStream, Admits
      <3> QED BY <3>1, RecordQueue
    <2>2. CASE \E b \in Bodies : SubmitTransmits(s, b)
      BY <2>2, QueueSame DEF SubmitTransmits
    <2>3. CASE \E b \in Bodies : SubmitQueues(s, b)
      <3>0. PICK b \in Bodies : SubmitQueues(s, b) BY <2>3
      <3>1. /\ stream_queued \in [Streams -> Int] /\ queue_limit \in [Streams -> Nat]
            /\ queued \in Seq(QueuedFrames) /\ queued_bytes \in Int
        BY DEF TypeOK
      <3>2. b \in Nat /\ Reserved(b) \in Nat
        BY EncodedType, CreditAssumption DEF Reserved
      <3>3. /\ queued' = Append(queued, QueuedFrame(s, b))
            /\ queued_bytes' = queued_bytes + Reserved(b)
            /\ stream_queued' = [stream_queued EXCEPT ![s] = @ + 1]
            /\ UNCHANGED <<status, queue_limit>>
        BY <3>0 DEF SubmitQueues
      <3>4. /\ Len(queued) < MaximumQueuedReports
            /\ Reserved(b) <= MaximumQueuedBytes - queued_bytes
            /\ stream_queued[s] < queue_limit[s]
            /\ status[s] = "live"
        BY <3>0 DEF SubmitQueues, Fits, IsLive
      <3>5. Len(queued') <= MaximumQueuedReports
        BY <3>1, <3>3, <3>4, CreditAssumption
      <3>6. queued_bytes' <= MaximumQueuedBytes
        BY <3>1, <3>2, <3>3, <3>4, CreditAssumption
      <3>7. \A t \in Streams : stream_queued'[t] <= queue_limit'[t]
        BY <3>1, <3>3, <3>4 DEF QueueBound
      <3>8. AbsentQueuesNothing'
        BY <3>1, <3>3, <3>4 DEF AbsentQueuesNothing
      <3> QED BY <3>5, <3>6, <3>7, <3>8 DEF QueueBound
    <2>4. CASE \E b \in Bodies : SubmitOverflows(s, b)
      BY <2>4, QueueSame DEF SubmitOverflows, BeginRetire
    <2>5. CASE \E b \in Bodies : SubmitInvalid(s, b)
      BY <2>5, QueueSame DEF SubmitInvalid, FailChannel
    <2>6. CASE EmitFailure(s)
      BY <2>6, QueueSame DEF EmitFailure, BeginRetire
    <2>7. CASE Unsubscribe(s)
      BY <2>7, QueueSame DEF Unsubscribe, BeginRetire
    <2>8. CASE \E t \in Streams : BeginRecovery(s, t)
      BY <2>8, QueueSame DEF BeginRecovery, BeginRetire
    <2> QED BY <2>0, <2>1, <2>2, <2>3, <2>4, <2>5, <2>6, <2>7, <2>8 DEF Handler
  <1>2. CASE Purge
    <2>1. victim \in Streams BY <1>2 DEF Purge, TypeOK
    <2>2. PICK i \in QueuedOf(victim) :
            /\ queued' = DropAt(queued, i)
            /\ queued_bytes' = queued_bytes - queued[i].bytes
      BY <1>2 DEF Purge
    <2>3. i \in DOMAIN queued /\ queued \in Seq(QueuedFrames)
      BY DEF QueuedOf, TypeOK
    <2>4. Len(queued') = Len(queued) - 1 BY <2>2, <2>3, DropAtType
    <2>5. Len(queued) \in Nat /\ Len(queued) >= 1 BY <2>3
    <2>6. queued[i] \in QueuedFrames BY <2>3
    <2>7. queued[i].bytes \in Nat BY <2>6 DEF QueuedFrames
    <2>8. /\ stream_queued' = [stream_queued EXCEPT ![victim] = @ - 1]
          /\ UNCHANGED <<status, queue_limit>>
      BY <1>2 DEF Purge
    <2>9. Len(queued') <= Len(queued) /\ Len(queued') \in Nat BY <2>4, <2>5
    <2> QED BY <2>1, <2>2, <2>7, <2>8, <2>9, QueueShrinks
  <1>3. CASE RetireBarrier
    <2>1. victim \in Streams BY <1>3 DEF RetireBarrier, TypeOK
    <2>2. UNCHANGED <<queued, queued_bytes>> BY <1>3 DEF RetireBarrier
    <2>3. CASE Erase(victim) BY <2>1, <2>2, <2>3, RecordQueue
    <2>4. CASE UNCHANGED streams BY <2>2, <2>4, QueueSame
    <2> QED BY <1>3, <2>3, <2>4 DEF RetireBarrier
  <1>4. CASE Pop
    <2> DEFINE s == Head(outstanding).stream
    <2>1. Head(outstanding) \in SentFrames
      BY <1>4 DEF Pop, Popping, TypeOK, SentOK
    <2>2. s \in Streams BY <2>1 DEF SentFrames
    <2>3. UNCHANGED <<queued, queued_bytes>> BY <1>4 DEF Pop
    <2>4. CASE Erase(s) BY <2>2, <2>3, <2>4, RecordQueue
    <2>5. CASE UNCHANGED <<status, queue_limit, stream_queued>>
      BY <2>3, <2>5, QueueSame
    <2> QED BY <1>4, <2>4, <2>5 DEF Pop, Release
  <1>5. CASE Popped
    BY <1>5, QueueSame DEF Popped
  <1>6. CASE DrainTransmits \/ DrainFails
    <2>1. /\ queued # << >> /\ queued' = Tail(queued)
          /\ queued_bytes' = queued_bytes - Pending.bytes
          /\ stream_queued' = [stream_queued EXCEPT ![Pending.stream] = @ - 1]
          /\ UNCHANGED <<status, queue_limit>>
      BY <1>6 DEF DrainTransmits, DrainFails
    <2>2. queued \in Seq(QueuedFrames) BY DEF TypeOK
    <2>3. Pending \in QueuedFrames BY <2>1, <2>2 DEF Pending
    <2>4. Pending.stream \in Streams /\ Pending.bytes \in Nat
      BY <2>3 DEF QueuedFrames
    <2>5. Len(queued') <= Len(queued) /\ Len(queued') \in Nat BY <2>1, <2>2
    <2> QED BY <2>1, <2>4, <2>5, QueueShrinks
  <1>8. CASE Drained
    <2>1. UNCHANGED <<queued, queued_bytes>> BY <1>8 DEF Drained
    <2>2. CASE successor = NoStream
      BY <1>8, <2>2, QueueSame DEF Drained
    <2>3. CASE successor # NoStream
      <3>1. /\ successor \in Streams /\ limit \in Nat
            /\ status[successor] = "absent" /\ Open(successor, limit)
        BY <1>8, <2>3 DEF Drained, Admits, TypeOK
      <3> QED BY <2>1, <3>1, RecordQueue
    <2> QED BY <2>2, <2>3
  <1>9. CASE WriteFails
    BY <1>9, QueueSame DEF WriteFails, FailChannel
  <1>10. CASE PeerReads
    BY <1>10, QueueSame DEF PeerReads
  <1>11. CASE PeerAcknowledges
    BY <1>11, QueueSame
    DEF PeerAcknowledges, Acknowledge, AcknowledgeRejected, FailChannel
  <1>12. CASE UNCHANGED vars
    BY <1>12, QueueSame DEF vars
  <1> QED BY <1>1, <1>2, <1>3, <1>4, <1>5, <1>6, <1>8, <1>9, <1>10, <1>11,
             <1>12 DEF Next, Locked

\* The queue limits hold in every reachable state.
THEOREM QueueCorrect == Spec => []QueueBound
  <1>1. Init => QueueInv
    BY InitTypeOK, InitQueue DEF QueueInv
  <1>2. QueueInv /\ [Next]_vars => QueueInv'
    BY TypeStep, QueueStep DEF QueueInv
  <1>3. QueueInv => QueueBound
    BY DEF QueueInv
  <1> QED BY <1>1, <1>2, <1>3, PTL DEF Spec

\* Every limit of the manager holds in every reachable state: what Submit
\* queues and TransmitFrame sends fits, whatever the peer acknowledges.
THEOREM LimitsCorrect == Spec => []Limits
  BY CreditCorrect, QueueCorrect, PTL DEF Limits

-----------------------------------------------------------------------------
(* What a step may do to the acknowledged totals.                          *)

\* Every step moves the acknowledged totals forward or leaves them alone.
LEMMA ForwardStep == TypeOK /\ Window /\ [Next]_vars => [ForwardAcknowledgement]_vars
  <1> SUFFICES ASSUME TypeOK, Window, Next PROVE ForwardAcknowledgement
    OBVIOUS
  <1> USE DEF streams, counters, acknowledged, control
  <1>0. /\ acknowledged_sequence \in Nat /\ acknowledged_bytes \in Nat
        /\ acknowledged_sequence < next_sequence
        /\ acknowledged_bytes <= cumulative_bytes
        /\ outstanding \in Seq(SentFrames) /\ Len(outstanding) \in Nat
    BY DEF TypeOK, SentOK, Window, AcknowledgedTotals
  <1>1. ASSUME UNCHANGED <<acknowledged_sequence, acknowledged_bytes>>,
               \/ phase = "pop"
               \/ UNCHANGED outstanding
               \/ \E f \in SentFrames : outstanding' = Append(outstanding, f)
        PROVE  ForwardAcknowledgement
    <2>1. Len(outstanding') < Len(outstanding) => phase = "pop"
      BY <1>0, <1>1
    <2> QED BY <1>0, <1>1, <2>1 DEF ForwardAcknowledgement
  <1>2. ASSUME NEW s \in Streams, NEW b \in Nat, TransmitFrame(s, b)
        PROVE  \E f \in SentFrames : outstanding' = Append(outstanding, f)
    <2>1. Encoded(b, next_sequence) \in Nat BY EncodedType DEF TypeOK, SentOK
    <2>2. next_sequence \in Nat /\ cumulative_bytes \in Nat
      BY CreditAssumption DEF TypeOK, SentOK
    <2>3. SentFrame(s, b) \in SentFrames BY <2>1, <2>2 DEF SentFrame, SentFrames
    <2> QED BY <1>2, <2>3 DEF TransmitFrame
  <1>3. CASE \E s \in Streams : Handler(s)
    <2>0. PICK s \in Streams : Handler(s) BY <1>3
    <2>1. CASE \E b \in Bodies : SubmitTransmits(s, b)
      BY <2>1, <1>1, <1>2, CreditAssumption DEF SubmitTransmits
    <2>2. CASE ~ \E b \in Bodies : SubmitTransmits(s, b)
      <3>1. UNCHANGED <<outstanding, acknowledged_sequence, acknowledged_bytes>>
        BY <2>0, <2>2
        DEF Handler, AddStream, SubmitQueues, SubmitOverflows, SubmitInvalid,
            FailChannel, EmitFailure, Unsubscribe, BeginRecovery, BeginRetire
      <3> QED BY <3>1, <1>1
    <2> QED BY <2>1, <2>2
  <1>4. CASE Purge \/ RetireBarrier \/ DrainFails \/ Drained \/ WriteFails
             \/ PeerReads \/ PeerAcknowledges
    <2>1. UNCHANGED <<outstanding, acknowledged_sequence, acknowledged_bytes>>
      BY <1>4 DEF Purge, RetireBarrier, DrainFails, Drained, WriteFails,
         FailChannel, PeerReads, PeerAcknowledges, Acknowledge, AcknowledgeRejected
    <2> QED BY <2>1, <1>1
  <1>5. CASE Pop
    BY <1>5, <1>1 DEF Pop
  <1>6. CASE Popped
    <2>1. /\ acknowledged_sequence' = target.sequence
          /\ acknowledged_bytes' = target.bytes
          /\ phase = "pop"
      BY <1>6 DEF Popped
    <2>2. target.sequence \in Nat /\ target.bytes \in Nat BY DEF TypeOK
    <2>3. /\ acknowledged_sequence < target.sequence
          /\ target.sequence < next_sequence
          /\ acknowledged_bytes <= target.bytes
          /\ target.bytes <= cumulative_bytes
      BY <2>1 DEF Window, PopTarget
    <2> QED BY <1>0, <2>1, <2>2, <2>3 DEF ForwardAcknowledgement
  <1>7. CASE DrainTransmits
    <2>1. Pending \in QueuedFrames
      BY <1>7 DEF DrainTransmits, Pending, TypeOK
    <2>2. Pending.stream \in Streams /\ Pending.body \in Nat
      BY <2>1 DEF QueuedFrames
    <2> QED BY <1>7, <1>1, <1>2, <2>2 DEF DrainTransmits
  <1> QED BY <1>3, <1>4, <1>5, <1>6, <1>7 DEF Next, Locked

\* Acknowledged totals only move forward, to totals that were transmitted,
\* and only the loop of Acknowledge gives frame credit back.
THEOREM AcknowledgeForward == Spec => AcknowledgeMonotone
  <1>1. Init => TypeOK /\ Window
    BY InitTypeOK, InitWindow
  <1>2. TypeOK /\ Window /\ [Next]_vars => TypeOK' /\ Window'
    BY TypeStep, WindowStep
  <1> QED BY <1>1, <1>2, ForwardStep, PTL DEF Spec, AcknowledgeMonotone

-----------------------------------------------------------------------------
(* Order of transmission, and what waits while the mutex is free.          *)

\* A step that transmits takes the front of the queue, or finds it empty.
LEMMA OvertakingStep ==
  ASSUME TypeOK, Next
  PROVE  \/ Len(outstanding') <= Len(outstanding)
         \/ queued = << >>
         \/ /\ queued' = Tail(queued)
            /\ outstanding'[Len(outstanding')].stream = Pending.stream
  <1>0. outstanding \in Seq(SentFrames) /\ Len(outstanding) \in Nat
    BY DEF TypeOK, SentOK
  <1>1. ASSUME UNCHANGED outstanding PROVE Len(outstanding') <= Len(outstanding)
    BY <1>0, <1>1
  <1> USE DEF counters
  <1>2. CASE \E s \in Streams : Handler(s)
    <2>1. CASE \E s \in Streams, b \in Bodies : SubmitTransmits(s, b)
      BY <2>1 DEF SubmitTransmits, Direct
    <2>2. CASE ~ \E s \in Streams, b \in Bodies : SubmitTransmits(s, b)
      <3>1. UNCHANGED outstanding
        BY <1>2, <2>2
        DEF Handler, AddStream, SubmitQueues, SubmitOverflows, SubmitInvalid,
            FailChannel, EmitFailure, Unsubscribe, BeginRecovery, BeginRetire
      <3> QED BY <1>1, <3>1
    <2> QED BY <2>1, <2>2
  <1>3. CASE DrainTransmits
    <2>1. queued' = Tail(queued) /\ TransmitFrame(Pending.stream, Pending.body)
      BY <1>3 DEF DrainTransmits
    <2>2. outstanding' = Append(outstanding, SentFrame(Pending.stream, Pending.body))
      BY <2>1 DEF TransmitFrame
    <2>3. outstanding'[Len(outstanding')] = SentFrame(Pending.stream, Pending.body)
      BY <1>0, <2>2
    <2> QED BY <2>1, <2>3 DEF SentFrame
  <1>4. CASE Pop
    BY <1>0, <1>4 DEF Pop, Popping
  <1>5. CASE Purge \/ RetireBarrier \/ Popped \/ DrainFails \/ Drained \/ WriteFails
             \/ PeerReads \/ PeerAcknowledges
    <2>1. UNCHANGED outstanding
      BY <1>5 DEF Purge, RetireBarrier, Popped, DrainFails, Drained, WriteFails,
         FailChannel, PeerReads, PeerAcknowledges, Acknowledge, AcknowledgeRejected
    <2> QED BY <1>1, <2>1
  <1> QED BY <1>2, <1>3, <1>4, <1>5 DEF Next, Locked

\* Reports are transmitted in the order in which Submit took them.
THEOREM OrderCorrect == Spec => NoOvertaking
  <1>1. TypeOK /\ [Next]_vars =>
          [\/ Len(outstanding') <= Len(outstanding)
           \/ queued = << >>
           \/ queued' = Tail(queued) /\ outstanding'[Len(outstanding')].stream = Pending.stream]_vars
    BY OvertakingStep
  <1> QED BY <1>1, TypeCorrect, PTL DEF Spec, NoOvertaking

\* A step that leaves the front of the queue, its credit and its stream alone
\* leaves it blocked.
LEMMA IdleSame ==
  ASSUME TypeOK, NoIdleCredit, phase = "idle", healthy,
         UNCHANGED <<stream_outstanding, outstanding, outstanding_bytes, next_sequence>>,
         queued # << >>, queued' # << >>, Head(queued') = Head(queued),
         status'[Pending.stream] = status[Pending.stream],
         queue_limit'[Pending.stream] = queue_limit[Pending.stream]
  PROVE  NoIdleCredit'
  BY DEF NoIdleCredit, Blocked, CanTransmit, IsLive, Pending

\* Every step that frees the mutex leaves the front of the queue blocked.
LEMMA IdleStep == TypeOK /\ NoIdleCredit /\ [Next]_vars => NoIdleCredit'
  <1> SUFFICES ASSUME TypeOK, NoIdleCredit, [Next]_vars,
                      healthy', phase' = "idle", queued' # << >>
               PROVE  IsLive(Pending.stream)' /\ Blocked'
    BY DEF NoIdleCredit
  <1> USE DEF streams, counters, acknowledged, control
  <1>0. /\ queued \in Seq(QueuedFrames)
        /\ status \in [Streams -> {"absent", "live", "retired"}]
        /\ queue_limit \in [Streams -> Nat]
    BY DEF TypeOK
  <1>1. ASSUME NEW s \in Streams, Handler(s) PROVE NoIdleCredit'
    <2>1. CASE \E q \in QueueLimits : AddStream(s, q)
      <3>0. PICK q \in QueueLimits : AddStream(s, q) BY <2>1
      <3>1. /\ healthy /\ phase = "idle" /\ status[s] = "absent" /\ Open(s, q)
            /\ UNCHANGED <<queued, outstanding, outstanding_bytes, next_sequence>>
        BY <3>0 DEF AddStream, Ready, Admits
      <3>2. IsLive(Pending.stream) BY <3>1 DEF NoIdleCredit
      <3>3. Pending.stream # s BY <3>1, <3>2 DEF IsLive
      <3>4. Pending.stream \in Streams
        <4>1. Pending \in QueuedFrames BY <1>0, <3>1 DEF Pending
        <4> QED BY <4>1 DEF QueuedFrames
      <3>5. /\ status'[Pending.stream] = status[Pending.stream]
            /\ queue_limit'[Pending.stream] = queue_limit[Pending.stream]
            /\ UNCHANGED stream_outstanding
        BY <1>0, <3>1, <3>3, <3>4 DEF Open
      <3> QED BY <3>1, <3>5, IdleSame
    <2>2. CASE \E b \in Bodies : SubmitTransmits(s, b)
      BY <2>2 DEF SubmitTransmits, Direct, NoIdleCredit
    <2>3. CASE \E b \in Bodies : SubmitQueues(s, b)
      <3>0. PICK b \in Bodies : SubmitQueues(s, b) BY <2>3
      <3>1. /\ healthy /\ phase = "idle" /\ ~Direct(s, b) /\ IsLive(s)
            /\ queued' = Append(queued, QueuedFrame(s, b))
            /\ UNCHANGED <<status, queue_limit, stream_outstanding, outstanding,
                           outstanding_bytes, next_sequence>>
        BY <3>0 DEF SubmitQueues, Ready
      <3>2. CASE queued = << >>
        <4>1. Pending' = QueuedFrame(s, b) BY <3>1, <3>2 DEF Pending
        <4>2. Pending'.stream = s /\ Pending'.body = b BY <4>1 DEF QueuedFrame
        <4>3. ~CanTransmit(s, Encoded(b, next_sequence)) BY <3>1, <3>2 DEF Direct
        <4> QED BY <3>1, <4>2, <4>3
                DEF NoIdleCredit, IsLive, Blocked, CanTransmit, Encoded, LesserOf
      <3>3. CASE queued # << >>
        <4>1. Head(queued') = Head(queued) BY <1>0, <3>1, <3>3
        <4> QED BY <3>1, <3>3, <4>1, IdleSame
      <3> QED BY <3>2, <3>3
    <2>4. CASE \E b \in Bodies : SubmitOverflows(s, b)
      BY <2>4 DEF SubmitOverflows, BeginRetire
    <2>5. CASE \E b \in Bodies : SubmitInvalid(s, b)
      BY <2>5 DEF SubmitInvalid, FailChannel
    <2>6. CASE EmitFailure(s) \/ Unsubscribe(s) \/ \E t \in Streams : BeginRecovery(s, t)
      BY <2>6 DEF EmitFailure, Unsubscribe, BeginRecovery, BeginRetire
    <2> QED BY <1>1, <2>1, <2>2, <2>3, <2>4, <2>5, <2>6 DEF Handler
  <1>2. CASE Purge \/ RetireBarrier \/ Pop \/ Popped \/ DrainTransmits \/ DrainFails
             \/ WriteFails
    BY <1>2 DEF Purge, RetireBarrier, Pop, Popped, DrainTransmits, DrainFails,
       Draining, WriteFails, FailChannel
  <1>3. CASE Drained
    <2>1. /\ DrainEnds /\ queued # << >>
          /\ UNCHANGED <<queued, outstanding, outstanding_bytes, next_sequence>>
      BY <1>3 DEF Drained
    <2>2. IsLive(Pending.stream) /\ Blocked BY <2>1 DEF DrainEnds
    <2>3. Pending.stream \in Streams
      <3>1. Pending \in QueuedFrames BY <1>0, <2>1 DEF Pending
      <3> QED BY <3>1 DEF QueuedFrames
    <2>4. /\ status'[Pending.stream] = status[Pending.stream]
          /\ queue_limit'[Pending.stream] = queue_limit[Pending.stream]
          /\ UNCHANGED stream_outstanding
      <3>1. CASE successor = NoStream BY <1>3, <3>1 DEF Drained
      <3>2. CASE successor # NoStream
        <4>1. Open(successor, limit) /\ status[successor] = "absent"
          BY <1>3, <3>2 DEF Drained, Admits
        <4> QED BY <1>0, <2>2, <2>3, <4>1 DEF Open, IsLive
      <3> QED BY <3>1, <3>2
    <2> QED BY <2>1, <2>2, <2>4 DEF IsLive, Blocked, CanTransmit, Pending
  <1>4. CASE PeerReads \/ UNCHANGED vars
    <2>1. UNCHANGED <<queued, healthy, phase, streams, outstanding, outstanding_bytes,
                      next_sequence>>
      BY <1>4 DEF PeerReads, vars
    <2> QED BY <2>1 DEF NoIdleCredit, IsLive, Blocked, CanTransmit, Pending
  <1>5. CASE PeerAcknowledges
    BY <1>5 DEF PeerAcknowledges, Acknowledge, AcknowledgeRejected, FailChannel
  <1> QED BY <1>1, <1>2, <1>3, <1>4, <1>5 DEF Next, Locked, NoIdleCredit

\* Whenever the mutex is free the first queued report has no credit.
THEOREM NoIdleCorrect == Spec => []NoIdleCredit
  <1>1. Init => NoIdleCredit BY DEF Init, NoIdleCredit
  <1> QED BY <1>1, IdleStep, TypeCorrect, PTL DEF Spec

-----------------------------------------------------------------------------
(* Sums over a queue.  The library's induction theorems take an operator,  *)
(* which the provers cannot instantiate; that a set of naturals has a      *)
(* least element (WFMin) serves in their place.                            *)

\* A set of naturals has a least element.
LEMMA Least ==
  ASSUME NEW T, T \subseteq Nat, T # {}
  PROVE  \E m \in T : \A k \in T : m <= k
  <1> DEFINE R == OpToRel(<, Nat)
  <1>1. IsWellFoundedOn(R, Nat) BY NatLessThanWellFounded
  <1>2. \A x, y \in Nat : x < y => <<x, y>> \in R BY DEF OpToRel
  <1> HIDE DEF R
  <1>3. PICK m \in T : \A k \in T : ~ (<<k, m>> \in R) BY <1>1, WFMin
  <1>4. ASSUME NEW k \in T PROVE m <= k
    <2>1. k \in Nat /\ m \in Nat OBVIOUS
    <2>2. ~ (k < m) BY <1>2, <1>3, <2>1
    <2> QED BY <2>1, <2>2
  <1> QED BY <1>3, <1>4

\* g is the running total of the bytes of the frames q.
Running(q, n, g) ==
  /\ g \in [0..n -> Int]
  /\ g[0] = 0
  /\ \A i \in 1..n : g[i] = g[i - 1] + q[i].bytes

\* There is one running total.
LEMMA RunningUnique ==
  ASSUME NEW q, NEW n \in Nat, NEW g, NEW h, Running(q, n, g), Running(q, n, h)
  PROVE  \A i \in 0..n : g[i] = h[i]
  <1> DEFINE T == {i \in 0..n : g[i] # h[i]}
  <1> SUFFICES ASSUME T # {} PROVE FALSE OBVIOUS
  <1>0. T \subseteq Nat OBVIOUS
  <1>1. PICK i \in T : \A k \in T : i <= k BY <1>0, Least
  <1>2. i \in 0..n /\ g[i] # h[i] BY <1>1
  <1>3. i # 0 BY <1>2 DEF Running
  <1>4. i - 1 \in 0..n /\ ~(i <= i - 1) BY <1>2, <1>3
  <1>5. i - 1 \notin T BY <1>1, <1>4
  <1>6. g[i - 1] = h[i - 1] BY <1>4, <1>5
  <1>7. i \in 1..n BY <1>2, <1>3
  <1> QED BY <1>2, <1>6, <1>7 DEF Running

\* Every queue has a running total.
LEMMA RunningExists ==
  ASSUME NEW S, \A f \in S : f.bytes \in Int, NEW q \in Seq(S)
  PROVE  \E g : Running(q, Len(q), g)
  <1> DEFINE T == {k \in 0..Len(q) : ~ \E g : Running(q, k, g)}
  <1>0. Len(q) \in Nat OBVIOUS
  <1>1. SUFFICES ASSUME T # {} PROVE FALSE
    BY <1>0
  <1>2. PICK k \in T : \A j \in T : k <= j
    <2>1. T \subseteq Nat BY <1>0
    <2> QED BY <1>1, <2>1, Least
  <1>3. k \in 0..Len(q) /\ ~ \E g : Running(q, k, g) BY <1>2
  <1>4. k # 0
    <2>1. Running(q, 0, [i \in 0..0 |-> 0]) BY DEF Running
    <2> QED BY <1>3, <2>1
  <1>5. k - 1 \in 0..Len(q) /\ ~(k <= k - 1) /\ k \in 1..Len(q) /\ k - 1 \in Nat
    BY <1>0, <1>3, <1>4
  <1>6. PICK g : Running(q, k - 1, g) BY <1>2, <1>5
  <1> DEFINE h == [i \in 0..k |-> IF i = k THEN g[k - 1] + q[k].bytes ELSE g[i]]
  <1>7. Running(q, k, h)
    <2>1. g \in [0..(k - 1) -> Int] /\ q[k].bytes \in Int BY <1>5, <1>6 DEF Running
    <2>2. h \in [0..k -> Int] BY <1>5, <2>1
    <2>3. h[0] = 0 BY <1>4, <1>5, <1>6 DEF Running
    <2>4. \A i \in 1..k : h[i] = h[i - 1] + q[i].bytes BY <1>5, <1>6 DEF Running
    <2> QED BY <2>2, <2>3, <2>4 DEF Running
  <1> QED BY <1>3, <1>7

\* BytesOf is the last value of the running total.
LEMMA BytesRunning ==
  ASSUME NEW S, \A f \in S : f.bytes \in Int, NEW q \in Seq(S),
         NEW g, Running(q, Len(q), g)
  PROVE  BytesOf(q) = g[Len(q)]
  <1> DEFINE Rule(f) == f = [n \in 0..Len(q) |-> IF n = 0 THEN 0 ELSE f[n - 1] + q[n].bytes]
             h == CHOOSE f : Rule(f)
  <1>0. Len(q) \in Nat OBVIOUS
  <1>1. BytesOf(q) = h[Len(q)] BY DEF BytesOf
  <1>2. Rule(g)
    <2>1. g = [n \in 0..Len(q) |-> g[n]] BY DEF Running
    <2>2. \A n \in 0..Len(q) : g[n] = IF n = 0 THEN 0 ELSE g[n - 1] + q[n].bytes
      BY <1>0 DEF Running
    <2> QED BY <2>1, <2>2
  <1>3. Rule(h) BY <1>2
  <1> HIDE DEF h
  <1>4. \A n \in 0..Len(q) : h[n] = IF n = 0 THEN 0 ELSE h[n - 1] + q[n].bytes
    BY <1>3
  <1> DEFINE T == {i \in 0..Len(q) : g[i] # h[i]}
  <1>5. T = {}
    <2>1. SUFFICES ASSUME T # {} PROVE FALSE OBVIOUS
    <2>2. T \subseteq Nat BY <1>0
    <2>3. PICK i \in T : \A k \in T : i <= k BY <2>1, <2>2, Least
    <2>4. i \in 0..Len(q) /\ g[i] # h[i] BY <2>3
    <2>5. i # 0 BY <1>0, <1>4, <2>4 DEF Running
    <2>6. i - 1 \in 0..Len(q) /\ ~(i <= i - 1) /\ i \in 1..Len(q) BY <1>0, <2>4, <2>5
    <2>7. g[i - 1] = h[i - 1] BY <2>3, <2>6
    <2>8. g[i] = g[i - 1] + q[i].bytes BY <2>6 DEF Running
    <2>9. h[i] = h[i - 1] + q[i].bytes BY <1>4, <2>4, <2>5
    <2> QED BY <2>4, <2>7, <2>8, <2>9
  <1> QED BY <1>0, <1>1, <1>5

\* A frame appended adds its bytes.
LEMMA BytesAppend ==
  ASSUME NEW S, \A f \in S : f.bytes \in Int, NEW q \in Seq(S), NEW x \in S
  PROVE  BytesOf(Append(q, x)) = BytesOf(q) + x.bytes
  <1>0. Len(q) \in Nat /\ Append(q, x) \in Seq(S) /\ Len(Append(q, x)) = Len(q) + 1
    OBVIOUS
  <1>1. PICK g : Running(q, Len(q), g) BY RunningExists
  <1> DEFINE n == Len(q)
             h == [i \in 0..(n + 1) |-> IF i = n + 1 THEN g[n] + x.bytes ELSE g[i]]
  <1>2. Running(Append(q, x), n + 1, h)
    <2>1. g \in [0..n -> Int] /\ x.bytes \in Int BY <1>1 DEF Running
    <2>2. h \in [0..(n + 1) -> Int] BY <1>0, <2>1
    <2>3. h[0] = 0 BY <1>0, <1>1 DEF Running
    <2>4. ASSUME NEW i \in 1..(n + 1) PROVE h[i] = h[i - 1] + Append(q, x)[i].bytes
      <3>1. CASE i = n + 1
        <4>1. Append(q, x)[n + 1] = x BY <1>0
        <4> QED BY <1>0, <3>1, <4>1
      <3>2. CASE i \in 1..n
        <4>1. Append(q, x)[i] = q[i] BY <1>0, <3>2
        <4> QED BY <1>0, <1>1, <3>2, <4>1 DEF Running
      <3> QED BY <1>0, <3>1, <3>2
    <2> QED BY <2>2, <2>3, <2>4 DEF Running
  <1>3. BytesOf(Append(q, x)) = h[n + 1]
    <2> HIDE DEF h
    <2> QED BY <1>0, <1>2, BytesRunning
  <1>4. BytesOf(q) = g[n] BY <1>1, BytesRunning
  <1> QED BY <1>0, <1>3, <1>4

\* A frame removed takes its bytes.
LEMMA BytesDrop ==
  ASSUME NEW S, \A f \in S : f.bytes \in Int, NEW q \in Seq(S), NEW d \in DOMAIN q
  PROVE  BytesOf(DropAt(q, d)) = BytesOf(q) - q[d].bytes
  <1> DEFINE n == Len(q)
             r == DropAt(q, d)
  <1>0. /\ n \in Nat /\ d \in 1..n /\ r \in Seq(S) /\ Len(r) = n - 1
        /\ q[d].bytes \in Int
    BY DropAtType
  <1>1. PICK g : Running(q, n, g) BY RunningExists
  <1>2. g \in [0..n -> Int] BY <1>1 DEF Running
  <1> DEFINE h == [i \in 0..(n - 1) |-> IF i < d THEN g[i] ELSE g[i + 1] - q[d].bytes]
  <1>3. Running(r, n - 1, h)
    <2>1. h \in [0..(n - 1) -> Int] BY <1>0, <1>2
    <2>2. h[0] = 0 BY <1>0, <1>1 DEF Running
    <2>3. ASSUME NEW i \in 1..(n - 1) PROVE h[i] = h[i - 1] + r[i].bytes
      <3>0. r[i] = IF i < d THEN q[i] ELSE q[i + 1] BY <1>0 DEF DropAt
      <3>1. q[i].bytes \in Int /\ q[i + 1].bytes \in Int BY <1>0
      <3>2. g[i] = g[i - 1] + q[i].bytes /\ g[i + 1] = g[i] + q[i + 1].bytes
        BY <1>0, <1>1 DEF Running
      <3>3. g[i - 1] \in Int /\ g[i] \in Int /\ g[i + 1] \in Int
        <4>1. i - 1 \in 0..n /\ i \in 0..n /\ i + 1 \in 0..n BY <1>0
        <4> QED BY <1>2, <4>1
      <3>4. CASE i < d
        <4>1. h[i] = g[i] /\ h[i - 1] = g[i - 1] BY <1>0, <3>4
        <4> QED BY <3>0, <3>2, <3>4, <4>1
      <3>5. CASE i = d
        <4>1. h[i] = g[i + 1] - q[d].bytes /\ h[i - 1] = g[i - 1] BY <1>0, <3>5
        <4>2. r[i] = q[i + 1] BY <3>0, <3>5
        <4>3. q[d] = q[i] BY <3>5
        <4> HIDE DEF h, r
        <4> QED BY <3>1, <3>2, <3>3, <4>1, <4>2, <4>3
      <3>6. CASE i > d
        <4>1. h[i] = g[i + 1] - q[d].bytes /\ h[i - 1] = g[i] - q[d].bytes
          BY <1>0, <3>6
        <4>2. r[i] = q[i + 1] BY <1>0, <3>0, <3>6
        <4>3. q[d].bytes \in Int BY <1>0
        <4> HIDE DEF h, r
        <4> QED BY <3>1, <3>2, <3>3, <4>1, <4>2, <4>3, SMTT(30)
      <3> QED BY <1>0, <3>4, <3>5, <3>6
    <2> QED BY <2>1, <2>2, <2>3 DEF Running
  <1>4. h[n - 1] = g[n] - q[d].bytes
    <2>1. CASE d = n
      <3>1. g[n] = g[n - 1] + q[n].bytes BY <1>0, <1>1 DEF Running
      <3>2. h[n - 1] = g[n - 1] BY <1>0, <2>1
      <3>3. g[n - 1] \in Int
        <4>1. n - 1 \in 0..n BY <1>0
        <4> QED BY <1>2, <4>1
      <3>4. q[n] = q[d] BY <2>1
      <3> HIDE DEF h
      <3> QED BY <1>0, <3>1, <3>2, <3>3, <3>4
    <2>2. CASE d # n BY <1>0, <1>2, <2>2
    <2> QED BY <2>1, <2>2
  <1>5. BytesOf(r) = h[n - 1]
    <2> HIDE DEF h, r
    <2> QED BY <1>0, <1>3, BytesRunning
  <1>6. BytesOf(q) = g[n] BY <1>1, BytesRunning
  <1> QED BY <1>4, <1>5, <1>6

\* The front of a queue is dropped by Tail.
LEMMA TailDrops ==
  ASSUME NEW S, NEW q \in Seq(S), q # << >>
  PROVE  Tail(q) = DropAt(q, 1) /\ 1 \in DOMAIN q /\ Head(q) = q[1]
  <1>1. Len(q) \in Nat \ {0} /\ 1 \in DOMAIN q /\ Head(q) = q[1] OBVIOUS
  <1>2. Tail(q) \in Seq(S) /\ Len(Tail(q)) = Len(q) - 1 BY <1>1
  <1>3. \A i \in 1..(Len(q) - 1) : Tail(q)[i] = q[i + 1] BY <1>1
  <1>4. \A i \in 1..(Len(q) - 1) : DropAt(q, 1)[i] = q[i + 1] BY <1>1 DEF DropAt
  <1>5. DropAt(q, 1) \in Seq(S) /\ Len(DropAt(q, 1)) = Len(q) - 1 BY <1>1, DropAtType
  <1> QED BY <1>1, <1>2, <1>3, <1>4, <1>5

\* The positions of the frames of one stream.
At(q, s) == {i \in DOMAIN q : q[i].stream = s}

\* A count is a natural number, zero when the stream has no frame.
LEMMA CountType ==
  ASSUME NEW S, NEW q \in Seq(S), NEW s
  PROVE  /\ IsFiniteSet(At(q, s)) /\ CountOf(q, s) = Cardinality(At(q, s))
         /\ CountOf(q, s) \in Nat
         /\ CountOf(q, s) = 0 <=> At(q, s) = {}
  <1>1. At(q, s) \in SUBSET (1..Len(q)) /\ Len(q) \in Nat BY DEF At
  <1>2. IsFiniteSet(1..Len(q)) BY <1>1, FS_Interval
  <1>3. IsFiniteSet(At(q, s)) BY <1>1, <1>2, FS_Subset
  <1>4. CountOf(q, s) = Cardinality(At(q, s)) BY DEF CountOf, At
  <1> QED BY <1>3, <1>4, FS_CardinalityType, FS_EmptySet

\* A frame appended adds one to its stream.
LEMMA CountAppend ==
  ASSUME NEW S, NEW q \in Seq(S), NEW x \in S, NEW s
  PROVE  CountOf(Append(q, x), s) = CountOf(q, s) + (IF x.stream = s THEN 1 ELSE 0)
  <1> DEFINE n == Len(q)
             r == Append(q, x)
  <1>0. n \in Nat /\ r \in Seq(S) /\ DOMAIN r = 1..(n + 1) /\ DOMAIN q = 1..n
    OBVIOUS
  <1>1. r[n + 1] = x /\ \A i \in 1..n : r[i] = q[i] BY <1>0
  <1>2. At(r, s) = IF x.stream = s THEN At(q, s) \cup {n + 1} ELSE At(q, s)
    <2> HIDE DEF r
    <2> QED BY <1>0, <1>1 DEF At
  <1>3. n + 1 \notin At(q, s) BY <1>0 DEF At
  <1>4. /\ IsFiniteSet(At(q, s)) /\ CountOf(q, s) = Cardinality(At(q, s))
        /\ CountOf(q, s) \in Nat /\ CountOf(r, s) = Cardinality(At(r, s))
    BY <1>0, CountType
  <1>5. Cardinality(At(q, s) \cup {n + 1}) = Cardinality(At(q, s)) + 1
    BY <1>3, <1>4, FS_AddElement
  <1> QED BY <1>2, <1>4, <1>5

\* A frame removed takes one from its stream.
LEMMA CountDrop ==
  ASSUME NEW S, NEW q \in Seq(S), NEW d \in DOMAIN q, NEW s
  PROVE  CountOf(DropAt(q, d), s) = CountOf(q, s) - (IF q[d].stream = s THEN 1 ELSE 0)
  <1> DEFINE n == Len(q)
             r == DropAt(q, d)
             A == At(q, s) \ {d}
             B == At(r, s)
             f == [i \in A |-> IF i < d THEN i ELSE i - 1]
             b == [i \in B |-> IF i < d THEN i ELSE i + 1]
  <1>0. n \in Nat /\ d \in 1..n /\ DOMAIN q = 1..n /\ r \in Seq(S) /\ DOMAIN r = 1..(n - 1)
    BY DropAtType
  <1>1. \A i \in 1..(n - 1) : r[i] = IF i < d THEN q[i] ELSE q[i + 1] BY <1>0 DEF DropAt
  <1> HIDE DEF r
  <1>2. \A i \in A : i \in 1..n /\ i # d /\ q[i].stream = s BY <1>0 DEF At
  <1>3. ASSUME NEW i \in A PROVE f[i] \in B
    <2>1. i \in 1..n /\ i # d /\ q[i].stream = s BY <1>2
    <2>2. CASE i < d
      <3>1. i \in 1..(n - 1) /\ r[i] = q[i] BY <1>0, <1>1, <2>1, <2>2
      <3> QED BY <1>0, <2>1, <2>2, <3>1 DEF At
    <2>3. CASE ~(i < d)
      <3>1. i - 1 \in 1..(n - 1) /\ ~(i - 1 < d) /\ (i - 1) + 1 = i BY <1>0, <2>1, <2>3
      <3>2. r[i - 1] = q[i] BY <1>1, <3>1
      <3> QED BY <1>0, <2>1, <2>3, <3>1, <3>2 DEF At
    <2> QED BY <2>2, <2>3
  <1>4. ASSUME NEW i \in B PROVE b[i] \in A /\ f[b[i]] = i
    <2>1. i \in 1..(n - 1) /\ r[i].stream = s BY <1>0 DEF At
    <2>2. CASE i < d
      <3>1. i \in 1..n /\ q[i].stream = s /\ i # d BY <1>0, <1>1, <2>1, <2>2
      <3>2. b[i] = i /\ i \in A BY <1>0, <2>2, <3>1 DEF At
      <3> QED BY <2>2, <3>2
    <2>3. CASE ~(i < d)
      <3>1. i + 1 \in 1..n /\ q[i + 1].stream = s /\ i + 1 # d /\ ~(i + 1 < d)
        BY <1>0, <1>1, <2>1, <2>3
      <3>2. b[i] = i + 1 /\ i + 1 \in A BY <1>0, <2>3, <3>1 DEF At
      <3>3. f[i + 1] = i BY <2>1, <3>1, <3>2
      <3> QED BY <3>2, <3>3
    <2> QED BY <2>2, <2>3
  <1>5. ASSUME NEW i \in A, NEW j \in A, f[i] = f[j] PROVE i = j
    BY <1>0, <1>2, <1>5
  <1>6. f \in Bijection(A, B)
    <2>1. f \in [A -> B] BY <1>3
    <2>2. f \in Injection(A, B)
      <3> HIDE DEF A, B
      <3> QED BY <1>5, <2>1 DEF Injection, IsInjective
    <2>3. f \in Surjection(A, B)
      <3> HIDE DEF A, B, f, b
      <3> QED BY <1>4, <2>1 DEF Surjection
    <2> QED BY <2>2, <2>3 DEF Bijection
  <1>7. /\ IsFiniteSet(At(q, s)) /\ CountOf(q, s) = Cardinality(At(q, s))
        /\ CountOf(q, s) \in Nat /\ CountOf(r, s) = Cardinality(B)
    BY <1>0, CountType
  <1>8. /\ IsFiniteSet(A)
        /\ Cardinality(A) = IF d \in At(q, s) THEN CountOf(q, s) - 1 ELSE CountOf(q, s)
    BY <1>7, FS_RemoveElement
  <1>9. Cardinality(B) = Cardinality(A)
    <2> HIDE DEF A, B, f
    <2> QED BY <1>6, <1>8, FS_Bijection DEF ExistsBijection
  <1>10. d \in At(q, s) <=> q[d].stream = s BY DEF At
  <1> HIDE DEF A, B
  <1> QED BY <1>7, <1>8, <1>9, <1>10 DEF r

-----------------------------------------------------------------------------
(* The counters are the sizes of the two queues, and a record lives as     *)
(* long as one of its frames is unacknowledged.                            *)

SentCounted ==
  /\ outstanding_bytes = BytesOf(outstanding)
  /\ \A s \in Streams : stream_outstanding[s] = CountOf(outstanding, s)

QueuedCounted ==
  /\ queued_bytes = BytesOf(queued)
  /\ \A s \in Streams : stream_queued[s] = CountOf(queued, s)

\* A record that is gone holds nothing; one that is retired, and is not being
\* retired, waits for an acknowledgement only.
Homed ==
  \A s \in Streams :
    /\ status[s] = "absent" => stream_outstanding[s] = 0 /\ stream_queued[s] = 0
    /\ status[s] = "retired" /\ victim # s
         => stream_outstanding[s] > 0 /\ stream_queued[s] = 0

\* Whose loop holds the mutex, and the place kept for the next generation.
Attended ==
  /\ phase # "purge" => victim = NoStream
  /\ phase = "purge" => status[victim] = "retired"
  /\ phase \in {"idle", "pop"} => successor = NoStream
  /\ IsFiniteSet(Records)
  /\ Cardinality(Live) <= MaximumLive
  /\ successor # NoStream =>
       status[successor] = "absent" /\ Cardinality(Live) < MaximumLive

AccountInv == TypeOK /\ SentCounted /\ QueuedCounted /\ Homed /\ Attended

\* The lengths of frames are integers, so they can be summed.
LEMMA FrameBytes ==
  /\ \A f \in SentFrames : f.bytes \in Int
  /\ \A f \in QueuedFrames : f.bytes \in Int
  BY DEF SentFrames, QueuedFrames

\* TransmitFrame counts what it appends.
LEMMA CountedTransmit ==
  ASSUME TypeOK, SentCounted, NEW s \in Streams, NEW b \in Nat, TransmitFrame(s, b)
  PROVE  SentCounted'
  <1> DEFINE f == SentFrame(s, b)
  <1>1. /\ next_sequence \in 1..MaximumSequence /\ cumulative_bytes \in Nat
        /\ outstanding \in Seq(SentFrames)
        /\ stream_outstanding \in [Streams -> Int]
    BY CreditAssumption DEF TypeOK, SentOK
  <1>2. Encoded(b, next_sequence) \in Nat BY <1>1, EncodedType
  <1>3. f \in SentFrames /\ f.stream = s
    BY <1>1, <1>2, CreditAssumption DEF SentFrame, SentFrames
  <1>4. /\ outstanding' = Append(outstanding, f)
        /\ outstanding_bytes' = outstanding_bytes + f.bytes
        /\ stream_outstanding' = [stream_outstanding EXCEPT ![s] = @ + 1]
    BY DEF TransmitFrame
  <1> HIDE DEF f
  <1>5. outstanding_bytes' = BytesOf(outstanding')
    BY <1>1, <1>3, <1>4, FrameBytes, BytesAppend DEF SentCounted
  <1>6. ASSUME NEW t \in Streams PROVE stream_outstanding'[t] = CountOf(outstanding', t)
    <2>1. CountOf(outstanding', t) = CountOf(outstanding, t) + (IF s = t THEN 1 ELSE 0)
      BY <1>1, <1>3, <1>4, CountAppend
    <2>2. stream_outstanding[t] = CountOf(outstanding, t) BY DEF SentCounted
    <2>3. stream_outstanding[t] \in Int BY <1>1
    <2> QED BY <1>1, <1>4, <2>1, <2>2, <2>3
  <1> QED BY <1>5, <1>6 DEF SentCounted

\* The loop of Acknowledge counts what it pops.
LEMMA CountedPop ==
  ASSUME TypeOK, SentCounted, outstanding # << >>,
         outstanding' = Tail(outstanding),
         outstanding_bytes' = outstanding_bytes - Head(outstanding).bytes,
         stream_outstanding' =
           [stream_outstanding EXCEPT ![Head(outstanding).stream] = @ - 1]
  PROVE  SentCounted'
  <1>1. outstanding \in Seq(SentFrames) /\ stream_outstanding \in [Streams -> Int]
    BY DEF TypeOK, SentOK
  <1>2. /\ outstanding' = DropAt(outstanding, 1) /\ 1 \in DOMAIN outstanding
        /\ Head(outstanding) = outstanding[1]
    BY <1>1, TailDrops
  <1>3. outstanding_bytes' = BytesOf(outstanding')
    BY <1>1, <1>2, FrameBytes, BytesDrop DEF SentCounted
  <1>4. ASSUME NEW t \in Streams PROVE stream_outstanding'[t] = CountOf(outstanding', t)
    <2>1. CountOf(outstanding', t) =
            CountOf(outstanding, t) - (IF Head(outstanding).stream = t THEN 1 ELSE 0)
      BY <1>1, <1>2, CountDrop
    <2>2. stream_outstanding[t] = CountOf(outstanding, t) BY DEF SentCounted
    <2>3. stream_outstanding[t] \in Int BY <1>1
    <2> QED BY <1>1, <2>1, <2>2, <2>3
  <1> QED BY <1>3, <1>4 DEF SentCounted

\* Submit counts what it queues.
LEMMA CountedQueue ==
  ASSUME TypeOK, QueuedCounted, NEW s \in Streams, NEW f \in QueuedFrames, f.stream = s,
         queued' = Append(queued, f), queued_bytes' = queued_bytes + f.bytes,
         stream_queued' = [stream_queued EXCEPT ![s] = @ + 1]
  PROVE  QueuedCounted'
  <1>1. queued \in Seq(QueuedFrames) /\ stream_queued \in [Streams -> Int]
    BY DEF TypeOK
  <1>2. queued_bytes' = BytesOf(queued')
    BY <1>1, FrameBytes, BytesAppend DEF QueuedCounted
  <1>3. ASSUME NEW t \in Streams PROVE stream_queued'[t] = CountOf(queued', t)
    <2>1. CountOf(queued', t) = CountOf(queued, t) + (IF s = t THEN 1 ELSE 0)
      BY <1>1, CountAppend
    <2>2. stream_queued[t] = CountOf(queued, t) BY DEF QueuedCounted
    <2>3. stream_queued[t] \in Int BY <1>1
    <2> QED BY <1>1, <2>1, <2>2, <2>3
  <1> QED BY <1>2, <1>3 DEF QueuedCounted

\* Drain and the loop of Retire count what they take from the queue.
LEMMA CountedDequeue ==
  ASSUME TypeOK, QueuedCounted, NEW d \in DOMAIN queued,
         queued' = DropAt(queued, d), queued_bytes' = queued_bytes - queued[d].bytes,
         stream_queued' = [stream_queued EXCEPT ![queued[d].stream] = @ - 1]
  PROVE  QueuedCounted'
  <1>1. queued \in Seq(QueuedFrames) /\ stream_queued \in [Streams -> Int]
    BY DEF TypeOK
  <1>2. queued_bytes' = BytesOf(queued')
    BY <1>1, FrameBytes, BytesDrop DEF QueuedCounted
  <1>3. ASSUME NEW t \in Streams PROVE stream_queued'[t] = CountOf(queued', t)
    <2>1. CountOf(queued', t) =
            CountOf(queued, t) - (IF queued[d].stream = t THEN 1 ELSE 0)
      BY <1>1, CountDrop
    <2>2. stream_queued[t] = CountOf(queued, t) BY DEF QueuedCounted
    <2>3. stream_queued[t] \in Int BY <1>1
    <2> QED BY <1>1, <2>1, <2>2, <2>3
  <1> QED BY <1>2, <1>3 DEF QueuedCounted

\* A queue and counters that a step leaves alone stay in step.
LEMMA CountedSame ==
  /\ SentCounted /\ UNCHANGED <<outstanding, outstanding_bytes, stream_outstanding>>
       => SentCounted'
  /\ QueuedCounted /\ UNCHANGED <<queued, queued_bytes, stream_queued>>
       => QueuedCounted'
  BY DEF SentCounted, QueuedCounted

\* A stream with a frame in a queue has a positive count.
LEMMA CountedPositive ==
  ASSUME TypeOK
  PROVE  /\ SentCounted => \A i \in DOMAIN outstanding :
                              /\ outstanding[i].stream \in Streams
                              /\ stream_outstanding[outstanding[i].stream] > 0
         /\ QueuedCounted => \A i \in DOMAIN queued :
                              /\ queued[i].stream \in Streams
                              /\ stream_queued[queued[i].stream] > 0
         /\ QueuedCounted => \A s \in Streams : QueuedOf(s) = {} => stream_queued[s] = 0
  <1>1. outstanding \in Seq(SentFrames) /\ queued \in Seq(QueuedFrames)
    BY DEF TypeOK, SentOK
  <1>2. ASSUME SentCounted, NEW i \in DOMAIN outstanding
        PROVE  /\ outstanding[i].stream \in Streams
               /\ stream_outstanding[outstanding[i].stream] > 0
    <2>1. outstanding[i] \in SentFrames BY <1>1
    <2>2. outstanding[i].stream \in Streams BY <2>1 DEF SentFrames
    <2>3. At(outstanding, outstanding[i].stream) # {} BY DEF At
    <2> QED BY <1>1, <1>2, <2>2, <2>3, CountType DEF SentCounted
  <1>3. ASSUME QueuedCounted, NEW i \in DOMAIN queued
        PROVE  queued[i].stream \in Streams /\ stream_queued[queued[i].stream] > 0
    <2>1. queued[i] \in QueuedFrames BY <1>1
    <2>2. queued[i].stream \in Streams BY <2>1 DEF QueuedFrames
    <2>3. At(queued, queued[i].stream) # {} BY DEF At
    <2> QED BY <1>1, <1>3, <2>2, <2>3, CountType DEF QueuedCounted
  <1>4. ASSUME QueuedCounted, NEW s \in Streams, QueuedOf(s) = {}
        PROVE  stream_queued[s] = 0
    <2>1. At(queued, s) = {} BY <1>4 DEF At, QueuedOf
    <2> QED BY <1>1, <1>4, <2>1, CountType DEF QueuedCounted
  <1> QED BY <1>2, <1>3, <1>4

\* What the three changes of a record do to the number of live streams.
LEMMA RecordChanges ==
  ASSUME TypeOK, IsFiniteSet(Records), NEW s \in Streams
  PROVE  /\ Cardinality(Live) \in Nat
         /\ status[s] = "absent" /\ status' = [status EXCEPT ![s] = "live"]
              => IsFiniteSet(Records') /\ Cardinality(Live') = Cardinality(Live) + 1
         /\ status[s] = "live" /\ status' = [status EXCEPT ![s] = "retired"]
              => IsFiniteSet(Records') /\ Cardinality(Live') = Cardinality(Live) - 1
         /\ status[s] # "live" /\ status' = [status EXCEPT ![s] = "absent"]
              => IsFiniteSet(Records') /\ Cardinality(Live') = Cardinality(Live)
  <1>1. status \in [Streams -> {"absent", "live", "retired"}] BY DEF TypeOK
  <1>2. Live \subseteq Records BY DEF Live, Records, IsLive
  <1>3. IsFiniteSet(Live) BY <1>2, FS_Subset
  <1>4. Cardinality(Live) \in Nat BY <1>3, FS_CardinalityType
  <1>5. ASSUME status[s] = "absent", status' = [status EXCEPT ![s] = "live"]
        PROVE  IsFiniteSet(Records') /\ Cardinality(Live') = Cardinality(Live) + 1
    <2>1. Records' = Records \cup {s} BY <1>1, <1>5 DEF Records
    <2>2. Live' = Live \cup {s} /\ s \notin Live BY <1>1, <1>5 DEF Live, IsLive
    <2> QED BY <1>3, <2>1, <2>2, FS_AddElement
  <1>6. ASSUME status[s] = "live", status' = [status EXCEPT ![s] = "retired"]
        PROVE  IsFiniteSet(Records') /\ Cardinality(Live') = Cardinality(Live) - 1
    <2>1. Records' = Records BY <1>1, <1>6 DEF Records
    <2>2. Live' = Live \ {s} /\ s \in Live BY <1>1, <1>6 DEF Live, IsLive
    <2> QED BY <1>3, <2>1, <2>2, FS_RemoveElement
  <1>7. ASSUME status[s] # "live", status' = [status EXCEPT ![s] = "absent"]
        PROVE  IsFiniteSet(Records') /\ Cardinality(Live') = Cardinality(Live)
    <2>1. Records' = Records \ {s} BY <1>1, <1>7 DEF Records
    <2>2. Live' = Live BY <1>1, <1>7 DEF Live, IsLive
    <2> QED BY <1>3, <2>1, <2>2, FS_RemoveElement
  <1> QED BY <1>4, <1>5, <1>6, <1>7

\* A step that leaves the records and the loop alone keeps both.
LEMMA AttendedSame ==
  ASSUME Attended, UNCHANGED <<status, phase, victim, successor>>
  PROVE  Attended'
  <1>1. Records' = Records /\ Live' = Live BY DEF Records, Live, IsLive
  <1> QED BY <1>1 DEF Attended

\* AddStream, also for the next generation of a recovery.
LEMMA AccountOpens ==
  ASSUME AccountInv, NEW s \in Streams, NEW q \in Nat, Open(s, q), Admits(s), phase # "purge",
         UNCHANGED <<outstanding, queued, counters, victim>>,
         phase' = "idle", successor' = NoStream
  PROVE  (SentCounted /\ QueuedCounted /\ Homed /\ Attended)'
  <1>1. SentCounted' /\ QueuedCounted'
    BY CountedSame DEF AccountInv, Open, counters
  <1>2. /\ status[s] = "absent" /\ status' = [status EXCEPT ![s] = "live"]
        /\ status \in [Streams -> {"absent", "live", "retired"}]
        /\ UNCHANGED <<stream_outstanding, stream_queued>>
    BY DEF Admits, Open, AccountInv, TypeOK
  <1>3. Homed' BY <1>2 DEF AccountInv, Homed
  <1>4. /\ Cardinality(Live) \in Nat /\ IsFiniteSet(Records')
        /\ Cardinality(Live') = Cardinality(Live) + 1
    BY <1>2, RecordChanges DEF AccountInv, Attended
  <1>5. Cardinality(Live') <= MaximumLive
    BY <1>4, CreditAssumption DEF Admits
  <1>6. Attended' BY <1>4, <1>5 DEF AccountInv, Attended
  <1> QED BY <1>1, <1>3, <1>6

\* Retire up to its loop.
LEMMA AccountRetires ==
  ASSUME AccountInv, phase = "idle", NEW s \in Streams, status[s] = "live", NEW before,
         NEW t \in Streams \cup {NoStream}, t # NoStream => status[t] = "absent", NEW q,
         BeginRetire(s, before, t, q)
  PROVE  (SentCounted /\ QueuedCounted /\ Homed /\ Attended)'
  <1>1. /\ status' = [status EXCEPT ![s] = "retired"] /\ victim' = s
        /\ phase' = "purge" /\ successor' = t
        /\ UNCHANGED <<outstanding, queued, outstanding_bytes, queued_bytes,
                       stream_outstanding, stream_queued>>
    BY DEF BeginRetire, counters
  <1>2. SentCounted' /\ QueuedCounted' BY <1>1, CountedSame DEF AccountInv
  <1>3. status \in [Streams -> {"absent", "live", "retired"}] BY DEF AccountInv, TypeOK
  <1>4. victim = NoStream /\ NoStream \notin Streams
    BY CreditAssumption DEF AccountInv, Attended
  <1>5. Homed' BY <1>1, <1>3, <1>4 DEF AccountInv, Homed
  <1>6. /\ Cardinality(Live) \in Nat /\ IsFiniteSet(Records')
        /\ Cardinality(Live') = Cardinality(Live) - 1
    BY <1>1, RecordChanges DEF AccountInv, Attended
  <1>7. /\ Cardinality(Live') <= MaximumLive /\ Cardinality(Live') < MaximumLive
    BY <1>6, CreditAssumption DEF AccountInv, Attended
  <1>8. status'[s] = "retired" /\ (t # NoStream => status'[t] = "absent")
    BY <1>1, <1>3
  <1>9. Attended' BY <1>1, <1>6, <1>7, <1>8 DEF Attended
  <1> QED BY <1>2, <1>5, <1>9

\* Records are opened empty.
LEMMA InitAccount == Init => SentCounted /\ QueuedCounted /\ Homed /\ Attended
  <1> SUFFICES ASSUME Init PROVE SentCounted /\ QueuedCounted /\ Homed /\ Attended
    OBVIOUS
  <1>1. /\ outstanding = << >> /\ queued = << >> /\ outstanding_bytes = 0
        /\ queued_bytes = 0 /\ phase = "idle" /\ victim = NoStream /\ successor = NoStream
        /\ status = [s \in Streams |-> "absent"]
        /\ stream_outstanding = [s \in Streams |-> 0]
        /\ stream_queued = [s \in Streams |-> 0]
    BY DEF Init
  <1>2. BytesOf(<< >>) = 0
    <2>1. << >> \in Seq(SentFrames) /\ Len(<< >>) = 0 OBVIOUS
    <2>2. Running(<< >>, 0, [i \in 0..0 |-> 0]) BY DEF Running
    <2>3. BytesOf(<< >>) = [i \in 0..0 |-> 0][0]
      BY <2>1, <2>2, FrameBytes, BytesRunning
    <2> QED BY <2>3
  <1>3. ASSUME NEW s PROVE CountOf(<< >>, s) = 0
    <2>1. << >> \in Seq(SentFrames) /\ At(<< >>, s) = {} BY DEF At
    <2> QED BY <2>1, CountType
  <1>4. Records = {} /\ Live = {} BY <1>1 DEF Records, Live, IsLive
  <1>5. IsFiniteSet(Records) /\ Cardinality(Live) = 0 BY <1>4, FS_EmptySet
  <1>6. SentCounted /\ QueuedCounted BY <1>1, <1>2, <1>3 DEF SentCounted, QueuedCounted
  <1>7. Homed BY <1>1 DEF Homed
  <1>8. Attended BY <1>1, <1>5, CreditAssumption DEF Attended
  <1> QED BY <1>6, <1>7, <1>8

\* Every handler and every loop iteration keeps the accounts.
LEMMA AccountStep ==
  AccountInv /\ [Next]_vars => (SentCounted /\ QueuedCounted /\ Homed /\ Attended)'
  <1> DEFINE Goal == (SentCounted /\ QueuedCounted /\ Homed /\ Attended)'
  <1> SUFFICES ASSUME AccountInv, [Next]_vars PROVE Goal
    OBVIOUS
  <1> USE DEF streams, counters, acknowledged, control
  <1>0. /\ TypeOK /\ SentCounted /\ QueuedCounted /\ Homed /\ Attended
        /\ status \in [Streams -> {"absent", "live", "retired"}]
        /\ stream_outstanding \in [Streams -> Int] /\ stream_queued \in [Streams -> Int]
        /\ NoStream \notin Streams
    BY CreditAssumption DEF AccountInv, TypeOK
  <1>q. ASSUME UNCHANGED <<status, stream_outstanding, stream_queued, outstanding, queued,
                           outstanding_bytes, queued_bytes, victim, successor>>,
               UNCHANGED phase \/ (phase \in {"idle", "pop"} /\ phase' \in {"pop", "drain"})
        PROVE  Goal
    <2>1. SentCounted' /\ QueuedCounted' BY <1>0, <1>q, CountedSame
    <2>2. Homed' BY <1>0, <1>q DEF Homed
    <2>3. Records' = Records /\ Live' = Live BY <1>q DEF Records, Live, IsLive
    <2>4. Attended' BY <1>0, <1>q, <2>3 DEF Attended
    <2> QED BY <2>1, <2>2, <2>4
  <1>1. CASE \E s \in Streams : Handler(s)
    <2>0. PICK s \in Streams : Handler(s) BY <1>1
    <2>1. CASE \E q \in QueueLimits : AddStream(s, q)
      <3>0. PICK q \in QueueLimits : AddStream(s, q) BY <2>1
      <3>1. /\ phase = "idle" /\ Admits(s) /\ Open(s, q) /\ q \in Nat
            /\ UNCHANGED <<outstanding, queued, counters, victim, successor, phase>>
        BY <3>0, CreditAssumption DEF AddStream, Ready
      <3>2. successor = NoStream BY <1>0, <3>1 DEF Attended
      <3> QED BY <3>1, <3>2, AccountOpens
    <2>2. CASE \E b \in Bodies : SubmitTransmits(s, b)
      <3>0. PICK b \in Bodies : SubmitTransmits(s, b) BY <2>2
      <3>1. b \in Nat /\ TransmitFrame(s, b) /\ status[s] = "live"
        BY <3>0, CreditAssumption DEF SubmitTransmits, IsLive
      <3>2. /\ UNCHANGED <<status, stream_queued, queued, queued_bytes, victim, phase, successor>>
            /\ stream_outstanding' = [stream_outstanding EXCEPT ![s] = @ + 1]
        BY <3>0, <3>1 DEF SubmitTransmits, TransmitFrame
      <3>3. SentCounted' BY <1>0, <3>1, CountedTransmit
      <3>4. QueuedCounted' BY <1>0, <3>2, CountedSame
      <3>5. Homed' BY <1>0, <3>1, <3>2 DEF Homed
      <3>6. Attended' BY <1>0, <3>2, AttendedSame
      <3> QED BY <3>3, <3>4, <3>5, <3>6
    <2>3. CASE \E b \in Bodies : SubmitQueues(s, b)
      <3>0. PICK b \in Bodies : SubmitQueues(s, b) BY <2>3
      <3>1. b \in Nat /\ Reserved(b) \in Nat BY EncodedType, CreditAssumption DEF Reserved
      <3>2. /\ QueuedFrame(s, b) \in QueuedFrames /\ QueuedFrame(s, b).stream = s
            /\ QueuedFrame(s, b).bytes = Reserved(b)
        BY <3>1 DEF QueuedFrame, QueuedFrames
      <3>3. /\ status[s] = "live" /\ queued' = Append(queued, QueuedFrame(s, b))
            /\ queued_bytes' = queued_bytes + Reserved(b)
            /\ stream_queued' = [stream_queued EXCEPT ![s] = @ + 1]
            /\ UNCHANGED <<status, stream_outstanding, outstanding, outstanding_bytes, victim,
                           phase, successor>>
        BY <3>0 DEF SubmitQueues, IsLive
      <3>4. QueuedCounted' BY <1>0, <3>2, <3>3, CountedQueue
      <3>5. SentCounted' BY <1>0, <3>3, CountedSame
      <3>6. Homed' BY <1>0, <3>3 DEF Homed
      <3>7. Attended' BY <1>0, <3>3, AttendedSame
      <3> QED BY <3>4, <3>5, <3>6, <3>7
    <2>4. CASE \E b \in Bodies : SubmitOverflows(s, b)
      BY <1>0, <2>4, AccountRetires DEF SubmitOverflows, Ready, IsLive
    <2>5. CASE \E b \in Bodies : SubmitInvalid(s, b)
      BY <1>q, <2>5 DEF SubmitInvalid, FailChannel
    <2>6. CASE EmitFailure(s)
      BY <1>0, <2>6, AccountRetires DEF EmitFailure, Ready, IsLive
    <2>7. CASE Unsubscribe(s)
      BY <1>0, <2>7, AccountRetires DEF Unsubscribe, Ready, IsLive
    <2>8. CASE \E t \in Streams : BeginRecovery(s, t)
      BY <1>0, <2>8, AccountRetires DEF BeginRecovery, Ready, IsLive
    <2> QED BY <2>0, <2>1, <2>2, <2>3, <2>4, <2>5, <2>6, <2>7, <2>8 DEF Handler
  <1>2. CASE Purge
    <2>1. PICK d \in QueuedOf(victim) :
            /\ queued' = DropAt(queued, d)
            /\ queued_bytes' = queued_bytes - queued[d].bytes
      BY <1>2 DEF Purge
    <2>2. d \in DOMAIN queued /\ queued[d].stream = victim BY DEF QueuedOf
    <2>3. /\ stream_queued' = [stream_queued EXCEPT ![victim] = @ - 1]
          /\ UNCHANGED <<status, stream_outstanding, outstanding, outstanding_bytes, victim,
                         phase, successor>>
          /\ phase = "purge"
      BY <1>2 DEF Purge
    <2>4. QueuedCounted' BY <1>0, <2>1, <2>2, <2>3, CountedDequeue
    <2>5. SentCounted' BY <1>0, <2>3, CountedSame
    <2>6. victim \in Streams /\ status[victim] = "retired" BY <1>0, <2>3 DEF TypeOK, Attended
    <2>7. Homed' BY <1>0, <2>3, <2>6 DEF Homed
    <2>8. Attended' BY <1>0, <2>3, AttendedSame
    <2> QED BY <2>4, <2>5, <2>7, <2>8
  <1>3. CASE RetireBarrier
    <2>1. /\ phase = "purge" /\ QueuedOf(victim) = {} /\ phase' = "drain" /\ victim' = NoStream
          /\ UNCHANGED <<outstanding, queued, outstanding_bytes, queued_bytes, successor>>
          /\ victim \in Streams /\ status[victim] = "retired"
      BY <1>0, <1>3 DEF RetireBarrier, TypeOK, Attended
    <2>2. stream_queued[victim] = 0 BY <1>0, <2>1, CountedPositive
    <2>3. CASE stream_outstanding[victim] = 0
      <3>1. Erase(victim) BY <1>3, <2>3 DEF RetireBarrier
      <3>2. UNCHANGED <<stream_outstanding, stream_queued>>
        BY <1>0, <2>1, <2>2, <2>3, <3>1 DEF Erase
      <3>3. status' = [status EXCEPT ![victim] = "absent"] BY <3>1 DEF Erase
      <3>4. SentCounted' /\ QueuedCounted' BY <1>0, <2>1, <3>2, CountedSame
      <3>5. Homed' BY <1>0, <2>1, <2>2, <2>3, <3>2, <3>3 DEF Homed
      <3>6. IsFiniteSet(Records') /\ Cardinality(Live') = Cardinality(Live)
        BY <1>0, <2>1, <3>3, RecordChanges DEF Attended
      <3>7. successor # NoStream => status'[successor] = "absent"
        BY <1>0, <2>1, <3>3 DEF Attended, TypeOK
      <3>8. Attended' BY <1>0, <2>1, <3>6, <3>7 DEF Attended
      <3> QED BY <3>4, <3>5, <3>8
    <2>4. CASE stream_outstanding[victim] # 0
      <3>1. UNCHANGED <<status, stream_outstanding, stream_queued>>
        BY <1>3, <2>4 DEF RetireBarrier
      <3>2. SentCounted' /\ QueuedCounted' BY <1>0, <2>1, <3>1, CountedSame
      <3>3. stream_outstanding[victim] > 0
        <4>1. outstanding \in Seq(SentFrames) BY <1>0 DEF TypeOK, SentOK
        <4>2. stream_outstanding[victim] \in Nat
          BY <1>0, <2>1, <4>1, CountType DEF SentCounted
        <4> QED BY <2>4, <4>2
      <3>4. Homed' BY <1>0, <2>1, <2>2, <3>1, <3>3 DEF Homed
      <3>5. Records' = Records /\ Live' = Live BY <3>1 DEF Records, Live, IsLive
      <3>6. Attended' BY <1>0, <2>1, <3>1, <3>5 DEF Attended
      <3> QED BY <3>2, <3>4, <3>6
    <2> QED BY <2>3, <2>4
  <1>4. CASE Pop
    <2>1. PICK s : s = Head(outstanding).stream OBVIOUS
    <2>2. /\ outstanding # << >> /\ outstanding' = Tail(outstanding)
          /\ outstanding_bytes' = outstanding_bytes - Head(outstanding).bytes
          /\ phase = "pop"
          /\ UNCHANGED <<queued, queued_bytes, phase, victim, successor>>
      BY <1>4 DEF Pop, Popping
    <2>3. s \in Streams /\ stream_outstanding[s] > 0
      <3>1. outstanding \in Seq(SentFrames) BY <1>0 DEF TypeOK, SentOK
      <3>2. 1 \in DOMAIN outstanding /\ Head(outstanding) = outstanding[1]
        BY <2>2, <3>1, TailDrops
      <3> QED BY <1>0, <2>1, <3>2, CountedPositive
    <2>4. Release(s) BY <1>4, <2>1, <2>3 DEF Pop
    <2>5. victim = NoStream /\ successor = NoStream /\ status[s] # "absent"
      BY <1>0, <2>2, <2>3 DEF Attended, Homed
    <2>6. CASE status[s] # "live" /\ stream_outstanding[s] = 1 /\ stream_queued[s] = 0
      <3>1. Erase(s) BY <2>4, <2>6 DEF Release
      <3>2. /\ stream_outstanding' = [stream_outstanding EXCEPT ![s] = @ - 1]
            /\ UNCHANGED stream_queued
            /\ status' = [status EXCEPT ![s] = "absent"]
        BY <1>0, <2>3, <2>6, <3>1 DEF Erase
      <3>3. SentCounted' BY <1>0, <2>1, <2>2, <3>2, CountedPop
      <3>4. QueuedCounted' BY <1>0, <2>2, <3>2, CountedSame
      <3>5. Homed' BY <1>0, <2>2, <2>3, <2>6, <3>2 DEF Homed
      <3>6. IsFiniteSet(Records') /\ Cardinality(Live') = Cardinality(Live)
        BY <1>0, <2>3, <2>6, <3>2, RecordChanges DEF Attended
      <3>7. Attended' BY <1>0, <2>2, <2>5, <3>6 DEF Attended
      <3> QED BY <3>3, <3>4, <3>5, <3>7
    <2>7. CASE ~(status[s] # "live" /\ stream_outstanding[s] = 1 /\ stream_queued[s] = 0)
      <3>1. /\ stream_outstanding' = [stream_outstanding EXCEPT ![s] = @ - 1]
            /\ UNCHANGED <<status, stream_queued>>
        BY <2>4, <2>7 DEF Release
      <3>2. SentCounted' BY <1>0, <2>1, <2>2, <3>1, CountedPop
      <3>3. QueuedCounted' BY <1>0, <2>2, <3>1, CountedSame
      <3>4. status[s] = "retired" => stream_outstanding[s] > 1
        BY <1>0, <2>3, <2>5, <2>7 DEF Homed
      <3>5. Homed' BY <1>0, <2>2, <2>3, <2>5, <3>1, <3>4 DEF Homed
      <3>6. Attended' BY <1>0, <2>2, <3>1, AttendedSame
      <3> QED BY <3>2, <3>3, <3>5, <3>6
    <2> QED BY <2>6, <2>7
  <1>5. CASE Popped
    BY <1>q, <1>5 DEF Popped
  <1>6. CASE DrainTransmits \/ DrainFails
    <2>1. PICK s : s = Pending.stream OBVIOUS
    <2>2. /\ queued # << >> /\ status[s] = "live" /\ queued' = Tail(queued)
          /\ queued_bytes' = queued_bytes - Pending.bytes
          /\ stream_queued' = [stream_queued EXCEPT ![s] = @ - 1]
          /\ UNCHANGED <<status, victim, phase, successor>>
      BY <1>6, <2>1 DEF DrainTransmits, DrainFails, IsLive
    <2>3. queued \in Seq(QueuedFrames) BY <1>0 DEF TypeOK
    <2>4. Pending \in QueuedFrames BY <2>2, <2>3 DEF Pending
    <2>5. s \in Streams /\ Pending.body \in Nat BY <2>1, <2>4 DEF QueuedFrames
    <2>6. queued' = DropAt(queued, 1) /\ 1 \in DOMAIN queued /\ Pending = queued[1]
      BY <2>2, <2>3, TailDrops DEF Pending
    <2>7. QueuedCounted' BY <1>0, <2>1, <2>2, <2>6, CountedDequeue
    <2>8. Attended' BY <1>0, <2>2, AttendedSame
    <2>9. CASE DrainTransmits
      <3>1. TransmitFrame(s, Pending.body) BY <2>1, <2>9 DEF DrainTransmits
      <3>2. SentCounted' BY <1>0, <2>5, <3>1, CountedTransmit
      <3>3. stream_outstanding' = [stream_outstanding EXCEPT ![s] = @ + 1]
        BY <3>1 DEF TransmitFrame
      <3>4. Homed' BY <1>0, <2>2, <2>5, <3>3 DEF Homed
      <3> QED BY <2>7, <2>8, <3>2, <3>4
    <2>10. CASE DrainFails
      <3>1. UNCHANGED <<outstanding, outstanding_bytes, stream_outstanding>>
        BY <2>10 DEF DrainFails
      <3>2. SentCounted' BY <1>0, <3>1, CountedSame
      <3>3. Homed' BY <1>0, <2>2, <2>5, <3>1 DEF Homed
      <3> QED BY <2>7, <2>8, <3>2, <3>3
    <2> QED BY <1>6, <2>9, <2>10
  <1>7. CASE Drained
    <2>1. /\ phase = "drain" /\ phase' = "idle" /\ victim' = NoStream /\ successor' = NoStream
          /\ UNCHANGED <<outstanding, queued, counters>>
      BY <1>7 DEF Drained, Draining, Finish
    <2>2. victim = NoStream BY <1>0, <2>1 DEF Attended
    <2>3. CASE successor = NoStream
      <3>1. UNCHANGED streams BY <1>7, <2>3 DEF Drained
      <3>2. SentCounted' /\ QueuedCounted' BY <1>0, <2>1, <3>1, CountedSame
      <3>3. Homed' BY <1>0, <2>1, <2>2, <3>1 DEF Homed
      <3>4. Records' = Records /\ Live' = Live BY <3>1 DEF Records, Live, IsLive
      <3>5. Attended' BY <1>0, <2>1, <3>4 DEF Attended
      <3> QED BY <3>2, <3>3, <3>5
    <2>4. CASE successor # NoStream
      <3>1. successor \in Streams /\ limit \in Nat BY <1>0, <2>4 DEF TypeOK
      <3>2. Open(successor, limit) /\ Admits(successor) BY <1>7, <2>4 DEF Drained
      <3> QED BY <2>1, <2>2, <3>1, <3>2, AccountOpens
    <2> QED BY <2>3, <2>4
  <1>8. CASE WriteFails \/ PeerReads \/ UNCHANGED vars
    BY <1>q, <1>8 DEF WriteFails, FailChannel, PeerReads, vars
  <1>9. CASE PeerAcknowledges
    <2>0. PICK n \in 0..MaximumSequence, m \in 0..MaximumBytes :
            Acknowledge(n, m) \/ AcknowledgeRejected(n, m)
      BY <1>9 DEF PeerAcknowledges
    <2> QED BY <1>q, <2>0 DEF Acknowledge, AcknowledgeRejected, FailChannel, Ready
  <1> QED BY <1>1, <1>2, <1>3, <1>4, <1>5, <1>6, <1>7, <1>8, <1>9 DEF Next, Locked

\* The accounts give what the property states: with the credit bound the
\* retired records are no more than the frames in flight, so the record of
\* a recovery always fits.
LEMMA AccountImplies == AccountInv /\ CreditBound => Accounting
  <1> SUFFICES ASSUME AccountInv, CreditBound PROVE Accounting
    OBVIOUS
  <1>0. /\ TypeOK /\ SentCounted /\ QueuedCounted /\ Homed /\ Attended
        /\ status \in [Streams -> {"absent", "live", "retired"}]
        /\ outstanding \in Seq(SentFrames) /\ queued \in Seq(QueuedFrames)
        /\ NoStream \notin Streams
    BY CreditAssumption DEF AccountInv, TypeOK, SentOK
  <1>1. Counters BY <1>0 DEF Counters, SentCounted, QueuedCounted
  <1>2. NoRecordLeak
    <2> SUFFICES ASSUME phase # "purge", NEW s \in Streams
                 PROVE  /\ IsRetired(s) <=> (~IsLive(s) /\ CountOf(outstanding, s) > 0)
                        /\ ~IsLive(s) => CountOf(queued, s) = 0
      BY DEF NoRecordLeak
    <2>1. victim # s BY <1>0 DEF Attended
    <2>2. /\ stream_outstanding[s] = CountOf(outstanding, s)
          /\ stream_queued[s] = CountOf(queued, s)
      BY <1>0 DEF SentCounted, QueuedCounted
    <2>3. status[s] \in {"absent", "live", "retired"} BY <1>0
    <2>4. CountOf(outstanding, s) \in Nat BY <1>0, CountType
    <2> QED BY <1>0, <2>1, <2>2, <2>3, <2>4 DEF Homed, IsRetired, IsLive
  <1>3. DefensiveBranches
    <2> SUFFICES ASSUME phase = "drain"
                 PROVE  /\ queued # << >> => IsLive(Pending.stream)
                        /\ successor # NoStream => Admits(successor)
      BY DEF DefensiveBranches
    <2>1. victim = NoStream BY <1>0 DEF Attended
    <2>2. ASSUME queued # << >> PROVE IsLive(Pending.stream)
      <3>1. 1 \in DOMAIN queued /\ Pending = queued[1]
        BY <1>0, <2>2, TailDrops DEF Pending
      <3>2. Pending.stream \in Streams /\ stream_queued[Pending.stream] > 0
        BY <1>0, <3>1, CountedPositive
      <3> QED BY <1>0, <2>1, <3>2 DEF Homed, IsLive
    <2>3. ASSUME successor # NoStream PROVE Admits(successor)
      <3> DEFINE Retired == Records \ Live
                 f == [i \in 1..Len(outstanding) |-> outstanding[i].stream]
      <3>1. status[successor] = "absent" /\ Cardinality(Live) < MaximumLive
        BY <1>0, <2>3 DEF Attended
      <3>2. IsFiniteSet(Records) /\ Live \subseteq Records
        BY <1>0 DEF Attended, Live, Records, IsLive
      <3>3. /\ IsFiniteSet(Live) /\ IsFiniteSet(Retired)
            /\ Cardinality(Live) \in Nat /\ Cardinality(Retired) \in Nat
        BY <3>2, FS_Subset, FS_CardinalityType
      <3>4. Cardinality(Records) = Cardinality(Live) + Cardinality(Retired)
        <4>1. Records = Live \cup Retired /\ Live \cap Retired = {} BY <3>2
        <4>2. Cardinality(Records) =
                Cardinality(Live) + Cardinality(Retired) - Cardinality(Live \cap Retired)
          BY <3>3, <4>1, FS_Union
        <4>3. Cardinality(Live \cap Retired) = 0 BY <4>1, FS_EmptySet
        <4> HIDE DEF Retired
        <4> QED BY <3>3, <4>2, <4>3
      <3>5. Retired \subseteq Range(f)
        <4> SUFFICES ASSUME NEW s \in Retired PROVE s \in Range(f)
          OBVIOUS
        <4>1. s \in Streams /\ status[s] = "retired"
          BY <1>0 DEF Records, Live, IsLive
        <4>2. stream_outstanding[s] > 0 BY <1>0, <2>1, <4>1 DEF Homed
        <4>3. CountOf(outstanding, s) # 0 BY <1>0, <4>1, <4>2 DEF SentCounted
        <4>4. At(outstanding, s) # {} BY <1>0, <4>3, CountType
        <4>5. PICK i \in DOMAIN outstanding : outstanding[i].stream = s
          BY <4>4 DEF At
        <4>6. i \in 1..Len(outstanding) BY <1>0
        <4>7. f[i] = s /\ i \in DOMAIN f BY <4>5, <4>6
        <4> HIDE DEF f
        <4> QED BY <4>7 DEF Range
      <3>6. Cardinality(Range(f)) <= Len(outstanding) /\ IsFiniteSet(Range(f))
        <4>1. Len(outstanding) \in Nat BY <1>0
        <4>2. /\ IsFiniteSet(1..Len(outstanding))
              /\ Cardinality(1..Len(outstanding)) = Len(outstanding)
          <5>1. 1 \in Int /\ Len(outstanding) \in Int BY <4>1
          <5>2. /\ IsFiniteSet(1..Len(outstanding))
                /\ Cardinality(1..Len(outstanding)) =
                     IF 1 > Len(outstanding) THEN 0 ELSE Len(outstanding) - 1 + 1
            BY <5>1, FS_Interval
          <5> QED BY <4>1, <5>2
        <4>3. f \in Surjection(1..Len(outstanding), Range(f))
          <5>1. DOMAIN f = 1..Len(outstanding) /\ f = [i \in DOMAIN f |-> f[i]] OBVIOUS
          <5> HIDE DEF f
          <5> QED BY <5>1 DEF Range, Surjection
        <4> HIDE DEF f
        <4> QED BY <4>2, <4>3, FS_Surjection
      <3>7. Cardinality(Retired) <= Cardinality(Range(f)) /\ Cardinality(Range(f)) \in Nat
        BY <3>5, <3>6, FS_Subset, FS_CardinalityType
      <3>8. Len(outstanding) <= SessionReportCredit /\ Len(outstanding) \in Nat
        BY <1>0 DEF CreditBound, SessionCredit
      <3> HIDE DEF Retired, f
      <3>9. Cardinality(Records) < MaximumStreams
        BY <3>1, <3>3, <3>4, <3>6, <3>7, <3>8, CreditAssumption
      <3>10. Cardinality(Live) < MaximumLive BY <3>1
      <3> QED BY <3>1, <3>9, <3>10 DEF Admits
    <2> QED BY <2>2, <2>3
  <1> QED BY <1>1, <1>2, <1>3 DEF Accounting

\* The accounts and the loops agree in every state.
LEMMA AccountCorrect == Spec => []AccountInv
  <1>1. Init => AccountInv BY InitTypeOK, InitAccount DEF AccountInv
  <1>2. AccountInv /\ [Next]_vars => AccountInv'
    BY TypeStep, AccountStep DEF AccountInv
  <1> QED BY <1>1, <1>2, PTL DEF Spec

\* The counters of the manager are the sizes of its queues, no record leaks,
\* and the defensive branches of Drain and BeginRecovery are dead.
THEOREM AccountingCorrect == Spec => []Accounting
  BY AccountCorrect, AccountImplies, CreditCorrect, PTL

-----------------------------------------------------------------------------
(* Barriers on the wire.                                                   *)

\* A bounded set of naturals has a greatest element.
LEMMA Greatest ==
  ASSUME NEW n \in Nat, NEW T, T \subseteq 0..n, T # {}
  PROVE  Max(T) \in T /\ \A k \in T : k <= Max(T)
  <1> DEFINE U == {i \in 0..n : n - i \in T}
  <1>1. U \subseteq Nat OBVIOUS
  <1>2. U # {}
    <2>1. PICK k \in T : TRUE OBVIOUS
    <2>2. k \in 0..n /\ n - k \in 0..n /\ n - (n - k) = k OBVIOUS
    <2> QED BY <2>2
  <1>3. PICK m \in U : \A i \in U : m <= i BY <1>1, <1>2, Least
  <1>4. m \in 0..n /\ n - m \in T BY <1>3
  <1>5. ASSUME NEW k \in T PROVE n - m >= k
    <2>1. k \in 0..n /\ n - k \in 0..n /\ n - (n - k) = k OBVIOUS
    <2>2. n - k \in U BY <2>1
    <2>3. m <= n - k BY <1>3, <2>2
    <2> QED BY <1>4, <2>1, <2>3
  <1>6. \E x \in T : \A y \in T : x >= y BY <1>4, <1>5
  <1>7. Max(T) \in T /\ \A y \in T : Max(T) >= y BY <1>6 DEF Max
  <1>8. \A y \in T : y \in Nat OBVIOUS
  <1> QED BY <1>7, <1>8

Counts(m) == m.event \in {"subscription_report", "stream_retired"}

\* Frame j is the report of stream s that a barrier at position i closes.
LastReport(s, i, j) ==
  /\ j \in DOMAIN wire /\ j < i
  /\ wire[j].event = "subscription_report" /\ wire[j].stream = s
  /\ \A k \in DOMAIN wire : j < k /\ k < i => ~(wire[k].stream = s /\ Counts(wire[k]))

\* A barrier names the last report before it.
Named ==
  \A s \in Streams : \A i \in On("stream_retired", s) : \A j \in DOMAIN wire :
    LastReport(s, i, j) => wire[j].sequence = wire[i].sequence

\* A report that no barrier follows belongs to a stream that can still send
\* one, and is the last that this stream has transmitted.
Current ==
  \A s \in Streams : \A j \in DOMAIN wire :
    LastReport(s, Len(wire) + 1, j) =>
      (IsLive(s) \/ victim = s) /\ wire[j].sequence = last_transmitted[s]

WireInv == healthy => Named /\ Current

\* A frame is appended that is neither a report nor a barrier, or none.
LEMMA WireSame ==
  ASSUME TypeOK, Named, Current, NEW m,
         wire' = wire \/ (wire' = Append(wire, m) /\ ~Counts(m)),
         UNCHANGED last_transmitted,
         \A s \in Streams : IsLive(s) \/ victim = s => IsLive(s)' \/ victim' = s
  PROVE  Named' /\ Current'
  <1>0. wire \in Seq(Messages) /\ Len(wire) \in Nat BY DEF TypeOK
  <1>1. CASE wire' = wire
    <2>1. Named' BY <1>1 DEF Named, On, LastReport
    <2>2. Current' BY <1>1 DEF Current, LastReport
    <2> QED BY <2>1, <2>2
  <1>2. CASE wire' = Append(wire, m) /\ ~Counts(m)
    <2>1. /\ DOMAIN wire = 1..Len(wire) /\ DOMAIN wire' = 1..(Len(wire) + 1)
          /\ Len(wire') = Len(wire) + 1
          /\ \A k \in DOMAIN wire : wire'[k] = wire[k] /\ k \in DOMAIN wire'
          /\ wire'[Len(wire) + 1] = m
      BY <1>0, <1>2
    <2>2. m.event # "subscription_report" /\ m.event # "stream_retired"
      BY <1>2 DEF Counts
    <2>3. ASSUME NEW s \in Streams, NEW i \in DOMAIN wire, NEW j \in DOMAIN wire',
                 LastReport(s, i, j)'
          PROVE  LastReport(s, i, j)
      BY <2>1, <2>3 DEF LastReport, Counts
    <2>4. ASSUME NEW s \in Streams, NEW j \in DOMAIN wire', LastReport(s, Len(wire) + 1, j)'
          PROVE  LastReport(s, Len(wire) + 1, j)
      <3>1. j # Len(wire) + 1 BY <2>1, <2>2, <2>4 DEF LastReport
      <3>2. j \in DOMAIN wire BY <2>1, <3>1
      <3> QED BY <1>0, <2>1, <2>4, <3>2 DEF LastReport, Counts
    <2>5. Named'
      <3> SUFFICES ASSUME NEW s \in Streams, NEW i \in On("stream_retired", s)',
                          NEW j \in DOMAIN wire', LastReport(s, i, j)'
                   PROVE  wire'[j].sequence = wire'[i].sequence
        BY DEF Named
      <3>1. i \in DOMAIN wire' /\ wire'[i].event = "stream_retired" /\ wire'[i].stream = s
        BY DEF On
      <3>2. i \in DOMAIN wire BY <2>1, <2>2, <3>1
      <3>3. i \in On("stream_retired", s) BY <2>1, <3>1, <3>2 DEF On
      <3>4. LastReport(s, i, j) /\ j \in DOMAIN wire BY <2>3, <3>2 DEF LastReport
      <3> QED BY <2>1, <3>2, <3>3, <3>4 DEF Named
    <2>6. Current'
      <3> SUFFICES ASSUME NEW s \in Streams, NEW j \in DOMAIN wire',
                          LastReport(s, Len(wire) + 1, j)'
                   PROVE  /\ IsLive(s)' \/ victim' = s
                          /\ wire'[j].sequence = last_transmitted'[s]
        BY DEF Current
      <3>1. LastReport(s, Len(wire) + 1, j) /\ j \in DOMAIN wire BY <2>4 DEF LastReport
      <3> QED BY <2>1, <3>1 DEF Current
    <2> QED BY <2>5, <2>6
  <1> QED BY <1>1, <1>2

\* TransmitFrame: the report is now the last of its stream.
LEMMA WireReport ==
  ASSUME TypeOK, Named, Current, NEW s \in Streams, NEW b \in Nat, TransmitFrame(s, b),
         IsLive(s), UNCHANGED <<status, victim>>
  PROVE  Named' /\ Current'
  <1> DEFINE m == ReportMessage(SentFrame(s, b))
  <1>0. wire \in Seq(Messages) /\ Len(wire) \in Nat /\ last_transmitted \in [Streams -> Nat]
    BY SMTT(30) DEF TypeOK, ChannelOK, StreamsOK
  <1>1. /\ wire' = Append(wire, m) /\ m.event = "subscription_report" /\ m.stream = s
        /\ m.sequence = next_sequence
        /\ last_transmitted' = [last_transmitted EXCEPT ![s] = next_sequence]
    BY DEF TransmitFrame, ReportMessage, SentFrame
  <1> HIDE DEF m
  <1>2. /\ DOMAIN wire = 1..Len(wire) /\ DOMAIN wire' = 1..(Len(wire) + 1)
        /\ Len(wire') = Len(wire) + 1
        /\ \A k \in DOMAIN wire : wire'[k] = wire[k] /\ k \in DOMAIN wire'
        /\ wire'[Len(wire) + 1] = m
    BY <1>0, <1>1
  <1>3. Named'
    <2> SUFFICES ASSUME NEW t \in Streams, NEW i \in On("stream_retired", t)',
                        NEW j \in DOMAIN wire', LastReport(t, i, j)'
                 PROVE  wire'[j].sequence = wire'[i].sequence
      BY DEF Named
    <2>1. i \in DOMAIN wire' /\ wire'[i].event = "stream_retired" /\ wire'[i].stream = t
      BY DEF On
    <2>2. i \in DOMAIN wire BY <1>1, <1>2, <2>1
    <2>3. i \in On("stream_retired", t) BY <1>2, <2>1, <2>2 DEF On
    <2>4. j \in DOMAIN wire /\ LastReport(t, i, j)
      BY <1>2, <2>2 DEF LastReport, Counts
    <2> QED BY <1>2, <2>2, <2>3, <2>4 DEF Named
  <1>4. Current'
    <2> SUFFICES ASSUME NEW t \in Streams, NEW j \in DOMAIN wire',
                        LastReport(t, Len(wire) + 1, j)'
                 PROVE  /\ IsLive(t)' \/ victim' = t
                        /\ wire'[j].sequence = last_transmitted'[t]
      BY DEF Current
    <2>1. CASE t = s
      <3>1. j = Len(wire) + 1
        <4>1. SUFFICES ASSUME j # Len(wire) + 1 PROVE FALSE OBVIOUS
        <4>2. /\ Len(wire) + 1 \in DOMAIN wire' /\ j < Len(wire) + 1
              /\ Len(wire) + 1 < Len(wire') + 1
          BY <1>0, <1>2, <4>1
        <4>3. ~(wire'[Len(wire) + 1].stream = t /\ Counts(wire'[Len(wire) + 1]))
          BY <4>2 DEF LastReport
        <4> QED BY <1>1, <1>2, <2>1, <4>3 DEF Counts
      <3> QED BY <1>0, <1>1, <1>2, <2>1, <3>1 DEF IsLive
    <2>2. CASE t # s
      <3>1. j # Len(wire) + 1 BY <1>1, <1>2, <2>2 DEF LastReport
      <3>2. j \in DOMAIN wire BY <1>2, <3>1
      <3>3. LastReport(t, Len(wire) + 1, j)
        BY <1>0, <1>2, <3>2 DEF LastReport, Counts
      <3>4. (IsLive(t) \/ victim = t) /\ wire[j].sequence = last_transmitted[t]
        BY <3>2, <3>3 DEF Current
      <3> QED BY <1>0, <1>1, <1>2, <2>2, <3>2, <3>4 DEF IsLive
    <2> QED BY <2>1, <2>2
  <1> QED BY <1>3, <1>4

\* Retire: the barrier closes the reports of its stream.
LEMMA WireBarrier ==
  ASSUME TypeOK, Named, Current, victim \in Streams, ~IsLive(victim),
         wire' = Append(wire, Barrier(victim)), victim' = NoStream,
         \A s \in Streams : s # victim => status'[s] = status[s]
                                         /\ last_transmitted'[s] = last_transmitted[s]
  PROVE  Named' /\ Current'
  <1> DEFINE m == Barrier(victim)
  <1>0. wire \in Seq(Messages) /\ Len(wire) \in Nat BY DEF TypeOK
  <1>1. /\ wire' = Append(wire, m) /\ m.event = "stream_retired" /\ m.stream = victim
        /\ m.sequence = last_transmitted[victim]
    BY DEF Barrier
  <1> HIDE DEF m
  <1>2. /\ DOMAIN wire = 1..Len(wire) /\ DOMAIN wire' = 1..(Len(wire) + 1)
        /\ Len(wire') = Len(wire) + 1
        /\ \A k \in DOMAIN wire : wire'[k] = wire[k] /\ k \in DOMAIN wire'
        /\ wire'[Len(wire) + 1] = m
    BY <1>0, <1>1
  <1>3. Named'
    <2> SUFFICES ASSUME NEW t \in Streams, NEW i \in On("stream_retired", t)',
                        NEW j \in DOMAIN wire', LastReport(t, i, j)'
                 PROVE  wire'[j].sequence = wire'[i].sequence
      BY DEF Named
    <2>1. i \in DOMAIN wire' /\ wire'[i].event = "stream_retired" /\ wire'[i].stream = t
      BY DEF On
    <2>2. j \in DOMAIN wire /\ LastReport(t, i, j)
      BY <1>0, <1>2, <2>1 DEF LastReport, Counts
    <2>3. CASE i \in DOMAIN wire
      <3>1. i \in On("stream_retired", t) BY <1>2, <2>1, <2>3 DEF On
      <3> QED BY <1>2, <2>2, <2>3, <3>1 DEF Named
    <2>4. CASE i = Len(wire) + 1
      <3>1. t = victim BY <1>1, <1>2, <2>1, <2>4
      <3>2. wire[j].sequence = last_transmitted[victim] BY <2>2, <2>4, <3>1 DEF Current
      <3> QED BY <1>1, <1>2, <2>2, <2>4, <3>2
    <2> QED BY <1>2, <2>1, <2>3, <2>4
  <1>4. Current'
    <2> SUFFICES ASSUME NEW t \in Streams, NEW j \in DOMAIN wire',
                        LastReport(t, Len(wire) + 1, j)'
                 PROVE  /\ IsLive(t)' \/ victim' = t
                        /\ wire'[j].sequence = last_transmitted'[t]
      BY DEF Current
    <2>1. j # Len(wire) + 1 BY <1>1, <1>2 DEF LastReport
    <2>2. j \in DOMAIN wire BY <1>2, <2>1
    <2>3. /\ Len(wire) + 1 \in DOMAIN wire' /\ j < Len(wire) + 1
          /\ Len(wire) + 1 < Len(wire') + 1
      BY <1>0, <1>2, <2>2
    <2>4. ~(wire'[Len(wire) + 1].stream = t /\ Counts(wire'[Len(wire) + 1]))
      BY <2>3 DEF LastReport
    <2>5. t # victim BY <1>1, <1>2, <2>4 DEF Counts
    <2>6. LastReport(t, Len(wire) + 1, j)
      BY <1>0, <1>2, <2>2 DEF LastReport, Counts
    <2>7. (IsLive(t) \/ victim = t) /\ wire[j].sequence = last_transmitted[t]
      BY <2>2, <2>6 DEF Current
    <2> QED BY <1>2, <2>2, <2>5, <2>7 DEF IsLive
  <1> QED BY <1>3, <1>4

\* The peer reads a frame: positions move by one.
LEMMA WireRead ==
  ASSUME TypeOK, Named, Current, wire # << >>, wire' = Tail(wire),
         UNCHANGED <<status, victim, last_transmitted>>
  PROVE  Named' /\ Current'
  <1>0. wire \in Seq(Messages) /\ Len(wire) \in Nat \ {0} BY DEF TypeOK
  <1>1. /\ DOMAIN wire = 1..Len(wire) /\ DOMAIN wire' = 1..(Len(wire) - 1)
        /\ Len(wire') = Len(wire) - 1
        /\ \A k \in DOMAIN wire' : wire'[k] = wire[k + 1] /\ k + 1 \in DOMAIN wire
    BY <1>0
  <1>2. ASSUME NEW s, NEW i \in Nat, NEW j \in DOMAIN wire', LastReport(s, i, j)'
        PROVE  LastReport(s, i + 1, j + 1)
    <2>1. ASSUME NEW k \in DOMAIN wire, j + 1 < k, k < i + 1
          PROVE  ~(wire[k].stream = s /\ Counts(wire[k]))
      <3>1. /\ k - 1 \in DOMAIN wire' /\ j < k - 1 /\ k - 1 < i /\ (k - 1) + 1 = k
        BY <1>1, <1>2, <2>1
      <3>2. wire'[k - 1] = wire[k] BY <1>1, <3>1
      <3> QED BY <1>2, <3>1, <3>2 DEF LastReport, Counts
    <2>2. j + 1 \in DOMAIN wire /\ j + 1 < i + 1 /\ wire'[j] = wire[j + 1]
      BY <1>1, <1>2 DEF LastReport
    <2> QED BY <1>2, <2>1, <2>2 DEF LastReport
  <1>3. Named'
    <2> SUFFICES ASSUME NEW t \in Streams, NEW i \in On("stream_retired", t)',
                        NEW j \in DOMAIN wire', LastReport(t, i, j)'
                 PROVE  wire'[j].sequence = wire'[i].sequence
      BY DEF Named
    <2>1. i \in DOMAIN wire' /\ wire'[i].event = "stream_retired" /\ wire'[i].stream = t
      BY DEF On
    <2>2. i \in Nat /\ i + 1 \in On("stream_retired", t) BY <1>1, <2>1 DEF On
    <2>3. LastReport(t, i + 1, j + 1) BY <1>2, <2>2
    <2> QED BY <1>1, <2>1, <2>2, <2>3 DEF Named
  <1>4. Current'
    <2> SUFFICES ASSUME NEW t \in Streams, NEW j \in DOMAIN wire',
                        LastReport(t, Len(wire) + 1, j)'
                 PROVE  /\ IsLive(t)' \/ victim' = t
                        /\ wire'[j].sequence = last_transmitted'[t]
      BY DEF Current
    <2>0. Len(wire) \in Nat /\ Len(wire') + 1 = Len(wire) BY <1>0, <1>1
    <2>1. PICK n \in Nat : n = Len(wire) /\ Len(wire') + 1 = n BY <2>0, Zenon
    <2>2. LastReport(t, n, j)' BY <2>1 DEF LastReport
    <2>3. LastReport(t, n + 1, j + 1) BY <1>2, <2>2
    <2>4. (IsLive(t) \/ victim = t) /\ wire[j + 1].sequence = last_transmitted[t]
      BY <1>1, <2>1, <2>3 DEF Current
    <2> QED BY <1>1, <2>4 DEF IsLive
  <1> QED BY <1>3, <1>4

\* Retire up to its loop: at most one control frame is written.
LEMMA WireRetires ==
  ASSUME TypeOK, Named, Current, victim = NoStream, NEW s \in Streams, NEW before, NEW t, NEW q,
         \/ before = << >>
         \/ \E e, u : before = <<Control(e, u)>> /\ e \in {"subscription_error", "resubscribing"},
         BeginRetire(s, before, t, q)
  PROVE  Named' /\ Current'
  <1>0. wire \in Seq(Messages) /\ status \in [Streams -> {"absent", "live", "retired"}]
    BY DEF TypeOK
  <1>1. /\ wire' = wire \o before /\ victim' = s /\ UNCHANGED last_transmitted
        /\ status' = [status EXCEPT ![s] = "retired"]
    BY DEF BeginRetire
  <1>2. \A r \in Streams : IsLive(r) \/ victim = r => IsLive(r)' \/ victim' = r
    BY <1>0, <1>1, CreditAssumption DEF IsLive
  <1>3. CASE before = << >>
    <2>1. wire' = wire BY <1>0, <1>1, <1>3
    <2> QED BY <1>1, <1>2, <2>1, WireSame
  <1>4. CASE \E e, u : before = <<Control(e, u)>> /\ e \in {"subscription_error", "resubscribing"}
    <2>1. PICK e, u : before = <<Control(e, u)>> /\ e \in {"subscription_error", "resubscribing"}
      BY <1>4
    <2>2. PICK m : m = Control(e, u) OBVIOUS
    <2>3. ~Counts(m) BY <2>1, <2>2 DEF Control, Counts
    <2>4. wire' = Append(wire, m) BY <1>0, <1>1, <2>1, <2>2
    <2> QED BY <1>1, <1>2, <2>3, <2>4, WireSame
  <1> QED BY <1>3, <1>4

\* Every step keeps what the wire says of a stream true of its record.
LEMMA WireStep == AccountInv /\ WireInv /\ [Next]_vars => WireInv'
  <1> SUFFICES ASSUME AccountInv, WireInv, [Next]_vars, healthy' PROVE Named' /\ Current'
    BY DEF WireInv
  <1> USE DEF streams, counters, acknowledged, control
  <1>0. /\ TypeOK /\ Attended /\ SentCounted /\ Homed /\ NoStream \notin Streams
        /\ status \in [Streams -> {"absent", "live", "retired"}]
        /\ last_transmitted \in [Streams -> Nat]
    BY CreditAssumption DEF AccountInv, TypeOK
  <1>h. healthy => Named /\ Current BY DEF WireInv
  <1>s. ASSUME healthy, UNCHANGED <<wire, last_transmitted, status, victim>>
        PROVE  Named' /\ Current'
    BY <1>0, <1>h, <1>s, WireSame DEF IsLive
  <1>o. ASSUME healthy, NEW s \in Streams, NEW q, Open(s, q), UNCHANGED <<wire, victim>>
        PROVE  Named' /\ Current'
    <2>1. \A r \in Streams : IsLive(r) \/ victim = r => IsLive(r)' \/ victim' = r
      BY <1>0, <1>o DEF IsLive, Open
    <2> QED BY <1>0, <1>h, <1>o, <2>1, WireSame DEF Open
  <1>1. CASE \E s \in Streams : Handler(s)
    <2>0. PICK s \in Streams : Handler(s) BY <1>1
    <2>1. CASE \E q \in QueueLimits : AddStream(s, q)
      BY <1>o, <2>1 DEF AddStream, Ready
    <2>2. CASE \E b \in Bodies : SubmitTransmits(s, b)
      <3>0. PICK b \in Bodies : SubmitTransmits(s, b) BY <2>2
      <3>1. /\ b \in Nat /\ TransmitFrame(s, b) /\ IsLive(s) /\ healthy
            /\ UNCHANGED <<status, victim>>
        BY <3>0, CreditAssumption DEF SubmitTransmits, Ready
      <3> QED BY <1>0, <1>h, <3>1, WireReport
    <2>3. CASE \E b \in Bodies : SubmitQueues(s, b)
      BY <1>s, <2>3 DEF SubmitQueues, Ready
    <2>4. CASE \E b \in Bodies : SubmitInvalid(s, b)
      BY <2>4 DEF SubmitInvalid, FailChannel
    <2>5. CASE \/ \E b \in Bodies : SubmitOverflows(s, b)
               \/ EmitFailure(s) \/ Unsubscribe(s)
               \/ \E t \in Streams : BeginRecovery(s, t)
      <3>1. Ready BY <2>5 DEF SubmitOverflows, EmitFailure, Unsubscribe, BeginRecovery
      <3>2. healthy /\ victim = NoStream BY <1>0, <3>1 DEF Ready, Attended
      <3>3. \E before, t, q :
              /\ \/ before = << >>
                 \/ \E e, u : /\ before = <<Control(e, u)>>
                              /\ e \in {"subscription_error", "resubscribing"}
              /\ BeginRetire(s, before, t, q)
        BY <2>5 DEF SubmitOverflows, EmitFailure, Unsubscribe, BeginRecovery
      <3> QED BY <1>0, <1>h, <3>2, <3>3, WireRetires
    <2> QED BY <2>0, <2>1, <2>2, <2>3, <2>4, <2>5 DEF Handler
  <1>2. CASE Purge \/ Popped
    BY <1>2, <1>s DEF Purge, Popped
  <1>3. CASE RetireBarrier
    <2>1. /\ healthy /\ phase = "purge" /\ victim' = NoStream
          /\ wire' = Append(wire, Barrier(victim))
          /\ Erase(victim) \/ UNCHANGED streams
      BY <1>3 DEF RetireBarrier
    <2>2. victim \in Streams /\ ~IsLive(victim) BY <1>0, <2>1 DEF TypeOK, Attended, IsLive
    <2>3. \A s \in Streams : s # victim => /\ status'[s] = status[s]
                                           /\ last_transmitted'[s] = last_transmitted[s]
      BY <1>0, <2>1 DEF Erase
    <2> QED BY <1>0, <1>h, <2>1, <2>2, <2>3, WireBarrier
  <1>4. CASE Pop
    <2>1. PICK s : s = Head(outstanding).stream OBVIOUS
    <2>2. /\ healthy /\ phase = "pop" /\ UNCHANGED <<wire, victim>>
          /\ Release(s) \/ UNCHANGED streams
      BY <1>4, <2>1 DEF Pop
    <2>3. victim = NoStream BY <1>0, <2>2 DEF Attended
    <2>4. CASE UNCHANGED <<status, last_transmitted>> BY <1>s, <2>2, <2>4
    <2>5. CASE Erase(s) /\ ~IsLive(s) /\ s \in Streams
      <3>1. /\ status' = [status EXCEPT ![s] = "absent"]
            /\ last_transmitted' = [last_transmitted EXCEPT ![s] = 0]
        BY <2>5 DEF Erase
      <3>2. Named' BY <1>h, <2>2 DEF Named, On, LastReport
      <3>3. Current'
        <4> SUFFICES ASSUME NEW t \in Streams, NEW j \in DOMAIN wire',
                            LastReport(t, Len(wire) + 1, j)'
                     PROVE  /\ IsLive(t)' \/ victim' = t
                            /\ wire'[j].sequence = last_transmitted'[t]
          BY DEF Current
        <4>1. LastReport(t, Len(wire) + 1, j) /\ j \in DOMAIN wire BY <2>2 DEF LastReport
        <4>2. IsLive(t) /\ wire[j].sequence = last_transmitted[t]
          BY <1>0, <1>h, <2>2, <2>3, <4>1 DEF Current
        <4>3. t # s BY <2>5, <4>2
        <4> QED BY <1>0, <2>2, <3>1, <4>2, <4>3 DEF IsLive
      <3> QED BY <3>2, <3>3
    <2>6. s \in Streams
      <3>1. outstanding \in Seq(SentFrames) /\ outstanding # << >>
        BY <1>0, <1>4 DEF TypeOK, SentOK, Pop, Popping
      <3>2. Head(outstanding) \in SentFrames BY <3>1
      <3> QED BY <2>1, <3>2 DEF SentFrames
    <2> QED BY <2>2, <2>4, <2>5, <2>6 DEF Release, IsLive
  <1>5. CASE DrainTransmits
    <2>1. /\ healthy /\ queued # << >> /\ IsLive(Pending.stream)
          /\ TransmitFrame(Pending.stream, Pending.body) /\ UNCHANGED <<status, victim>>
      BY <1>5 DEF DrainTransmits, Draining
    <2>2. Pending \in QueuedFrames BY <1>0, <2>1 DEF TypeOK, Pending
    <2>3. Pending.stream \in Streams /\ Pending.body \in Nat BY <2>2 DEF QueuedFrames
    <2> QED BY <1>0, <1>h, <2>1, <2>3, WireReport
  <1>6. CASE DrainFails \/ WriteFails
    BY <1>6 DEF DrainFails, WriteFails, FailChannel
  <1>7. CASE Drained
    <2>1. /\ healthy /\ phase = "drain" /\ victim' = NoStream /\ UNCHANGED wire
      BY <1>7 DEF Drained, Draining, Finish
    <2>2. victim = NoStream BY <1>0, <2>1 DEF Attended
    <2>3. CASE successor = NoStream BY <1>7, <1>s, <2>1, <2>2, <2>3 DEF Drained
    <2>4. CASE successor # NoStream
      <3>1. successor \in Streams /\ Open(successor, limit)
        BY <1>0, <1>7, <2>4 DEF Drained, TypeOK
      <3> QED BY <1>o, <2>1, <2>2, <3>1
    <2> QED BY <2>3, <2>4
  <1>8. CASE PeerReads
    BY <1>0, <1>h, <1>8, WireRead DEF PeerReads
  <1>9. CASE PeerAcknowledges
    <2>0. PICK n \in 0..MaximumSequence, m \in 0..MaximumBytes :
            Acknowledge(n, m) \/ AcknowledgeRejected(n, m)
      BY <1>9 DEF PeerAcknowledges
    <2> QED BY <1>s, <2>0 DEF Acknowledge, AcknowledgeRejected, FailChannel, Ready
  <1>10. CASE UNCHANGED vars
    BY <1>s, <1>10 DEF vars
  <1> QED BY <1>1, <1>2, <1>3, <1>4, <1>5, <1>6, <1>7, <1>8, <1>9, <1>10 DEF Next, Locked

\* The greatest report of Opening is the one the barrier closes.
LEMMA OpeningLast ==
  ASSUME TypeOK, NEW s, NEW i \in 1..(Len(wire) + 1), Opening(s, i) # {}
  PROVE  LastReport(s, i, Max(Opening(s, i)))
  <1> DEFINE T == Opening(s, i)
  <1>0. wire \in Seq(Messages) /\ Len(wire) \in Nat /\ DOMAIN wire = 1..Len(wire)
    BY DEF TypeOK
  <1>1. T \subseteq 0..Len(wire) BY <1>0 DEF Opening, On
  <1>2. PICK m : m = Max(T) OBVIOUS
  <1>3. m \in T /\ \A k \in T : k <= m BY <1>0, <1>1, <1>2, Greatest
  <1>4. /\ m \in DOMAIN wire /\ m < i
        /\ wire[m].event = "subscription_report" /\ wire[m].stream = s
        /\ \A k \in On("stream_retired", s) : k < m \/ k >= i
    BY <1>3 DEF Opening, On
  <1>5. ASSUME NEW k \in DOMAIN wire, m < k, k < i
        PROVE  ~(wire[k].stream = s /\ Counts(wire[k]))
    <2>1. SUFFICES ASSUME wire[k].stream = s, Counts(wire[k]) PROVE FALSE OBVIOUS
    <2>2. CASE wire[k].event = "stream_retired"
      <3>1. k \in On("stream_retired", s) BY <2>1, <2>2 DEF On
      <3> QED BY <1>0, <1>4, <1>5, <3>1
    <2>3. CASE wire[k].event = "subscription_report"
      <3>1. k \in On("subscription_report", s) BY <2>1, <2>3 DEF On
      <3>2. \A l \in On("stream_retired", s) : l < k \/ l >= i
        BY <1>0, <1>4, <1>5 DEF On
      <3>3. k \in T BY <1>5, <3>1, <3>2 DEF Opening
      <3> QED BY <1>0, <1>3, <1>4, <1>5, <3>3
    <2> QED BY <2>1, <2>2, <2>3 DEF Counts
  <1> QED BY <1>2, <1>4, <1>5 DEF LastReport

\* On the wire a barrier is the last word on its stream, and names the last
\* of its reports.
THEOREM BarrierCorrect == Spec => []BarrierIsLast
  <1>1. Init => AccountInv /\ WireInv
    <2>1. Init => WireInv BY DEF Init, WireInv, Named, Current, On
    <2> QED BY <2>1, InitTypeOK, InitAccount DEF AccountInv
  <1>2. AccountInv /\ WireInv /\ [Next]_vars => AccountInv' /\ WireInv'
    BY TypeStep, AccountStep, WireStep DEF AccountInv
  <1>3. AccountInv /\ WireInv => BarrierIsLast
    <2> SUFFICES ASSUME TypeOK, Named, Current, NEW s \in Streams
                 PROVE  /\ \A i \in On("stream_retired", s) :
                              Opening(s, i) # {} =>
                                wire[Max(Opening(s, i))].sequence = wire[i].sequence
                        /\ On("stream_retired", s) # {} /\ ~IsLive(s) /\ victim # s
                              => Opening(s, Len(wire) + 1) = {}
      BY DEF AccountInv, WireInv, BarrierIsLast
    <2>0. wire \in Seq(Messages) /\ Len(wire) \in Nat /\ DOMAIN wire = 1..Len(wire)
      BY DEF TypeOK
    <2>1. ASSUME NEW i \in On("stream_retired", s), Opening(s, i) # {}
          PROVE  wire[Max(Opening(s, i))].sequence = wire[i].sequence
      <3>1. i \in 1..(Len(wire) + 1) BY <2>0 DEF On
      <3>2. LastReport(s, i, Max(Opening(s, i))) BY <2>1, <3>1, OpeningLast
      <3>3. Max(Opening(s, i)) \in DOMAIN wire BY <3>2 DEF LastReport
      <3> QED BY <3>2, <3>3 DEF Named
    <2>2. ASSUME ~IsLive(s), victim # s PROVE Opening(s, Len(wire) + 1) = {}
      <3>1. SUFFICES ASSUME Opening(s, Len(wire) + 1) # {} PROVE FALSE OBVIOUS
      <3>2. Len(wire) + 1 \in 1..(Len(wire) + 1) BY <2>0
      <3>3. LastReport(s, Len(wire) + 1, Max(Opening(s, Len(wire) + 1)))
        BY <3>1, <3>2, OpeningLast
      <3>4. Max(Opening(s, Len(wire) + 1)) \in DOMAIN wire BY <3>3 DEF LastReport
      <3> QED BY <2>2, <3>3, <3>4 DEF Current
    <2> QED BY <2>1, <2>2
  <1> QED BY <1>1, <1>2, <1>3, PTL DEF Spec

HIDE DEF StreamsOK, QueuedOK, AcknowledgedOK, ChannelOK, ControlOK

-----------------------------------------------------------------------------
(* The inductive invariant: the numbers.                                   *)

\* The host has forgotten the frames up to this sequence.
Base == next_sequence - 1 - Len(outstanding)

\* The frame in flight with sequence n, and the total up to it.
Frame(n) == outstanding[n - Base]
Cum(n) == IF n = Base THEN cumulative_bytes - outstanding_bytes ELSE Frame(n).cumulative

\* What the host has accepted, also while it pops.
Accepted == IF phase = "pop" THEN target.sequence ELSE acknowledged_sequence

Reports == [stream : Streams, bytes : Nat, consumed : BOOLEAN]
AckFrames == [sequence : Nat, bytes : Int]

LedgerType ==
  /\ ledger_next \in Nat
  /\ ledger_acknowledged \in AckFrames
  /\ pending \in [(ledger_acknowledged.sequence + 1)..(ledger_next - 1) -> Reports]
  /\ acks \in Seq(AckFrames)
  /\ session \in {"up", "failing", "down"}

ConnectionType ==
  /\ Known \subseteq Streams /\ IsFiniteSet(Known)
  /\ last \in [Known -> Nat]
  /\ closing \subseteq Streams
  /\ subscribing \in Streams \cup {NoStream}
  /\ ancestor \in [Streams -> Streams \cup {NoStream}]

\* x quotes the total up to the frame that it names, m carries its frame.
Quotes(x) == \A n \in Nat : x.sequence = n => x.bytes = Cum(n)
Carries(m) == \A n \in Nat : m.sequence = n => m.bytes = Frame(n).bytes

\* The ledger has acknowledged and registered what the host has in flight.
Registry ==
  /\ Accepted <= ledger_acknowledged.sequence
  /\ ledger_acknowledged.sequence < ledger_next
  /\ ledger_next <= next_sequence
  /\ Quotes(ledger_acknowledged)
  /\ \A n \in DOMAIN pending : pending[n].bytes = Frame(n).bytes

\* Each acknowledgement under way quotes the total of a later frame.
Quoted ==
  /\ \A i \in DOMAIN acks :
       /\ Accepted < acks[i].sequence /\ acks[i].sequence <= ledger_acknowledged.sequence
       /\ Quotes(acks[i])
  /\ \A i, j \in DOMAIN acks : i < j => acks[i].sequence < acks[j].sequence
  /\ acks = << >> => ledger_acknowledged.sequence = Accepted
  /\ acks # << >> => acks[Len(acks)] = ledger_acknowledged

\* The reports on the wire are those the ledger has not registered, in order.
Numbered ==
  Up =>
    /\ \A i \in InFlight :
         /\ ledger_next <= wire[i].sequence /\ wire[i].sequence < next_sequence
         /\ Carries(wire[i])
    /\ \A i, j \in InFlight : i < j => wire[i].sequence < wire[j].sequence
    /\ \A n \in ledger_next..(next_sequence - 1) : \E i \in InFlight : wire[i].sequence = n

\* A report that nobody has consumed is with its receiver, or its stream
\* will be retired; and while the port works the first report is such a one.
Held ==
  /\ \A n \in DOMAIN pending :
       pending[n].consumed \/ n \in delivered \/ pending[n].stream \in closing
  /\ session = "up" /\ ledger_acknowledged.sequence + 1 \in DOMAIN pending
       => ~pending[ledger_acknowledged.sequence + 1].consumed

LedgerInv == LedgerType /\ Registry /\ Quoted /\ Held

NumberInv == LedgerInv /\ ConnectionType /\ Numbered

-----------------------------------------------------------------------------
(* The inductive invariant: the streams.                                   *)

\* The host may still send for stream s.
Sender(s) == IsLive(s) \/ victim = s \/ successor = s \/ subscribing = s

\* A recovery status comes before all else of its stream, which the ledger
\* does not know before.
StatusFirst(s) ==
  \A i \in On("resubscribing", s) :
    s \notin Known /\ \A j \in DOMAIN wire : wire[j].stream = s /\ j # i => i < j

\* The ledger knows a stream from its subscription or its recovery status on.
Opens(s) ==
  Sender(s) \/ (\E j \in DOMAIN wire : wire[j].stream = s)
    => s \in Known \/ On("resubscribing", s) # {}

\* A barrier comes after all else of its stream.
BarrierLast(s) ==
  \A i \in On("stream_retired", s) :
    ~Sender(s) /\ \A j \in DOMAIN wire : wire[j].stream = s /\ j # i => j < i

\* A subscription that the host has not registered yet.
Asked(s) ==
  subscribing = s =>
    /\ s \in Known \ closing
    /\ status[s] = "absent" /\ victim # s /\ successor # s /\ ancestor[s] = NoStream
    /\ \A j \in DOMAIN wire : wire[j].stream # s

\* The connection expects a barrier when it comes.
Announced(s) ==
  On("stream_retired", s) # {} \/ victim = s =>
    \/ s \in closing
    \/ On("subscription_error", s) # {}
    \/ \E t \in Streams : ancestor[t] = s /\ On("resubscribing", t) # {}

IsBarrier(j, s) == j \in DOMAIN wire /\ wire[j].event = "stream_retired" /\ wire[j].stream = s

\* After the recovery status of a stream comes the barrier of the one that it
\* replaces, and nothing in between.
Replaces(t) ==
  /\ \A j \in On("resubscribing", t) :
       /\ ancestor[t] # NoStream
       /\ IsBarrier(j + 1, ancestor[t]) \/ (j = Len(wire) /\ victim = ancestor[t])
  /\ ancestor[t] # NoStream =>
       /\ ancestor[t] # t
       /\ \/ On("resubscribing", t) # {}
          \/ /\ t \in Known /\ ancestor[t] \in Known
             /\ IsBarrier(1, ancestor[t]) \/ (wire = << >> /\ victim = ancestor[t])

\* The last report of stream s, in the ledger or still on the wire, is n.
LastIs(s, n) ==
  IF On("subscription_report", s) = {}
    THEN n = IF s \in Known THEN last[s] ELSE 0
    ELSE \E i \in On("subscription_report", s) :
           wire[i].sequence = n /\ \A j \in On("subscription_report", s) : j <= i

Lasts(s) ==
  /\ Sender(s) => LastIs(s, last_transmitted[s])
  /\ \A i \in On("stream_retired", s) : LastIs(s, wire[i].sequence)
  /\ status[s] = "absent" => last_transmitted[s] = 0

Own(s) == StatusFirst(s) /\ Opens(s) /\ BarrierLast(s) /\ Asked(s) /\ Lasts(s)

StreamOK(s) == Own(s) /\ Announced(s) /\ Replaces(s)

AllStreams ==
  /\ closing \subseteq Known
  /\ Cardinality(Subscriptions) <= MaximumSubscriptions
  /\ \A s \in Streams : StreamOK(s)

StreamInv == healthy /\ Up => AllStreams
-----------------------------------------------------------------------------
(* Every step of the composition is one of the manager.                    *)

\* A step of the connection or of the host, against the ledger, is a step
\* against an arbitrary peer.
LEMMA FlowStep == ASSUME TypeOK, Window, FlowNext PROVE [Next]_vars
  <1>1. CASE HostAcknowledged
    <2> DEFINE n == Head(acks).sequence
               b == Head(acks).bytes
    <2>1. CASE Acknowledge(n, b)
      <3>1. PICK i \in DOMAIN outstanding :
              outstanding[i].sequence = n /\ outstanding[i].cumulative = b
        BY <2>1 DEF Acknowledge
      <3>2. /\ outstanding \in Seq(SentFrames) /\ next_sequence \in 1..MaximumSequence
            /\ cumulative_bytes \in 0..MaximumBytes
        BY DEF TypeOK, SentOK
      <3>3. outstanding[i] \in SentFrames /\ Len(outstanding) \in Nat /\ i \in 1..Len(outstanding)
        BY <3>2
      <3>4. n \in Nat /\ b \in Nat BY <3>1, <3>3 DEF SentFrames
      <3>5. n = next_sequence - Len(outstanding) + i - 1
        BY <3>1 DEF Window, Consecutive
      <3>6. n <= MaximumSequence BY <3>2, <3>3, <3>5, CreditAssumption
      <3>7. b <= cumulative_bytes BY <3>1 DEF Window, Ordered
      <3>8. n \in 0..MaximumSequence /\ b \in 0..MaximumBytes
        BY <3>2, <3>4, <3>6, <3>7, CreditAssumption
      <3> QED BY <2>1, <3>8 DEF Next, PeerAcknowledges
    <2>2. CASE AcknowledgeRejected(n, b)
      <3>1. AcknowledgeRejected(0, 0)
        BY <2>2 DEF AcknowledgeRejected, TypeOK, AcknowledgedOK
      <3>2. 0 \in 0..MaximumSequence /\ 0 \in 0..MaximumBytes BY CreditAssumption
      <3> QED BY <3>1, <3>2 DEF Next, PeerAcknowledges
    <2> QED BY <1>1, <2>1, <2>2 DEF HostAcknowledged
  <1>2. CASE Reads
    BY <1>2 DEF Reads, ReadReport, ReadResubscribing, ReadError, ReadBarrier, ReadRefused, Next
  <1>3. CASE Stops \/ \E n \in delivered : Consume(n) \/ Ignore(n)
    BY <1>3 DEF Stops, Consume, Ignore, native
  <1>4. CASE Locked \/ WriteFails
    BY <1>4 DEF Next
  <1>5. ASSUME NEW s \in Streams, Subscribe(s) \/ SubscribeFails(s) \/ Cancel(s)
        PROVE  [Next]_vars
    BY <1>5 DEF Subscribe, SubscribeFails, Cancel, native
  <1>6. ASSUME NEW s \in Streams,
               \/ \E q \in QueueLimits : Subscribed(s, q)
               \/ HostSubmits(s) \/ HostEnds(s)
               \/ \E t \in Streams : HostRecovers(s, t)
        PROVE  [Next]_vars
    BY <1>6 DEF Subscribed, HostSubmits, HostEnds, HostRecovers, Handler, Next
  <1> QED BY <1>1, <1>2, <1>3, <1>4, <1>5, <1>6 DEF FlowNext

\* The composition implements the manager against an arbitrary peer, so all
\* that is proved of ReportCredit holds of the host with the real ledger.
THEOREM FlowImplements == FlowSpec => Spec
  <1>1. FlowInit => Init /\ TypeOK /\ Window
    BY InitTypeOK, InitWindow DEF FlowInit
  <1>2. TypeOK /\ Window /\ [FlowNext]_allvars => [Next]_vars
    BY FlowStep DEF allvars, native
  <1>3. TypeOK /\ Window /\ [Next]_vars => (TypeOK /\ Window)'
    BY TypeStep, WindowStep
  <1> QED BY <1>1, <1>2, <1>3, PTL DEF FlowSpec, Spec

-----------------------------------------------------------------------------
(* The frames in flight, by their sequence.                                *)

\* What Window says of the frame with sequence n.
LEMMA FrameIs ==
  ASSUME TypeOK, Window
  PROVE  /\ Len(outstanding) \in Nat /\ Base \in Int /\ next_sequence \in Nat
         /\ Accepted \in Nat /\ Base <= Accepted /\ Accepted < next_sequence
         /\ phase # "pop" => Base = acknowledged_sequence /\ Cum(Base) = acknowledged_bytes
         /\ \A n \in (Base + 1)..(next_sequence - 1) :
              /\ n - Base \in DOMAIN outstanding
              /\ Frame(n) \in SentFrames /\ Frame(n).sequence = n
              /\ Frame(n).bytes \in Nat
              /\ Cum(n) = Cum(n - 1) + Frame(n).bytes
         /\ \A n \in Base..(next_sequence - 1) : Cum(n) \in Int /\ Cum(n) <= cumulative_bytes
         /\ Cum(Base) = cumulative_bytes - outstanding_bytes
  <1>1. /\ outstanding \in Seq(SentFrames) /\ Len(outstanding) \in Nat
        /\ next_sequence \in Nat /\ cumulative_bytes \in Int /\ outstanding_bytes \in Int
        /\ acknowledged_sequence \in Nat /\ acknowledged_bytes \in Nat
        /\ target.sequence \in Nat /\ 0 <= outstanding_bytes
    BY CreditAssumption, WindowNonNegative DEF TypeOK, SentOK, AcknowledgedOK, ControlOK, NonNegative
  <1>2. PICK len \in Nat : len = Len(outstanding) BY <1>1
  <1>3. DOMAIN outstanding = 1..len /\ Base = next_sequence - 1 - len /\ Base \in Int
    BY <1>1, <1>2 DEF Base
  <1>4. PICK a \in Int : a = Base BY <1>3
  <1>5. /\ phase # "pop" => acknowledged_sequence = a
        /\ phase # "pop" => acknowledged_bytes = cumulative_bytes - outstanding_bytes
        /\ acknowledged_sequence < next_sequence
    BY <1>1, <1>2, <1>3, <1>4 DEF Window, AcknowledgedTotals, AtWindowStart
  <1>6. ASSUME NEW i \in 1..len
        PROVE  /\ outstanding[i] \in SentFrames /\ outstanding[i].sequence = a + i
               /\ outstanding[i].bytes \in Nat /\ outstanding[i].cumulative \in Nat
               /\ outstanding[i].cumulative <= cumulative_bytes
    <2>1. outstanding[i] \in SentFrames BY <1>1, <1>2
    <2>2. outstanding[i].sequence = next_sequence - Len(outstanding) + i - 1
      BY <1>3 DEF Window, Consecutive
    <2>3. outstanding[i].cumulative <= cumulative_bytes BY <1>3 DEF Window, Ordered
    <2> QED BY <1>1, <1>2, <1>3, <1>4, <2>1, <2>2, <2>3 DEF SentFrames
  <1>7. phase = "pop" => a <= target.sequence /\ target.sequence < next_sequence
    <2> SUFFICES ASSUME phase = "pop" PROVE a <= target.sequence /\ target.sequence < next_sequence
      OBVIOUS
    <2>1. target.sequence < next_sequence BY DEF Window, PopTarget
    <2>2. CASE AtWindowStart(target.sequence, target.bytes)
      BY <1>1, <1>2, <1>3, <1>4, <2>1, <2>2 DEF AtWindowStart
    <2>3. CASE \E i \in DOMAIN outstanding : outstanding[i].sequence = target.sequence
      BY <1>1, <1>3, <1>6, <2>1, <2>3
    <2> QED BY <2>1, <2>2, <2>3 DEF Window, PopTarget
  <1>8. ASSUME NEW n \in (a + 1)..(next_sequence - 1)
        PROVE  /\ n - a \in 1..len /\ Frame(n) = outstanding[n - a]
               /\ Cum(n) = outstanding[n - a].cumulative
    BY <1>1, <1>2, <1>3, <1>4 DEF Frame, Cum
  <1>9. Cum(a) = cumulative_bytes - outstanding_bytes BY <1>4 DEF Cum
  <1>10. ASSUME NEW n \in (a + 1)..(next_sequence - 1)
         PROVE  Cum(n) = Cum(n - 1) + Frame(n).bytes
    <2>1. PICK i \in 1..len : i = n - a BY <1>8
    <2>2. CASE i = 1
      <3>1. outstanding # << >> BY <1>1, <1>2, <2>1
      <3>2. outstanding_bytes = cumulative_bytes - outstanding[1].cumulative + outstanding[1].bytes
        BY <3>1 DEF Window, Totals
      <3>3. n - 1 = a BY <1>4, <2>1, <2>2
      <3>4. Cum(n) = outstanding[1].cumulative /\ Frame(n) = outstanding[1]
        BY <1>8, <2>1, <2>2
      <3>5. Cum(n - 1) = cumulative_bytes - outstanding_bytes BY <1>9, <3>3
      <3>6. outstanding[1].bytes \in Nat /\ outstanding[1].cumulative \in Nat
        BY <1>6, <2>1, <2>2
      <3>7. outstanding[1].cumulative = (cumulative_bytes - outstanding_bytes) + outstanding[1].bytes
        <4>1. PICK c \in Nat, b \in Nat, u \in Int, v \in Int :
                /\ c = outstanding[1].cumulative /\ b = outstanding[1].bytes
                /\ u = cumulative_bytes /\ v = outstanding_bytes
          BY <1>1, <3>6
        <4>2. v = u - c + b BY <3>2, <4>1
        <4>3. c = (u - v) + b BY <4>2
        <4> QED BY <4>1, <4>3
      <3> QED BY <3>4, <3>5, <3>7
    <2>3. CASE i > 1
      <3>1. outstanding[i].cumulative = outstanding[i - 1].cumulative + outstanding[i].bytes
        BY <1>3, <2>1, <2>3 DEF Window, Chained
      <3>2. n - 1 \in (a + 1)..(next_sequence - 1) /\ (n - 1) - a = i - 1
        BY <1>1, <1>4, <2>1, <2>3
      <3>3. Cum(n - 1) = outstanding[i - 1].cumulative BY <1>8, <3>2
      <3> QED BY <1>8, <2>1, <3>1, <3>3
    <2> QED BY <2>1, <2>2, <2>3
  <1>11. ASSUME NEW n \in a..(next_sequence - 1)
         PROVE  Cum(n) \in Int /\ Cum(n) <= cumulative_bytes
    <2>1. CASE n = a BY <1>1, <1>9, <2>1
    <2>2. CASE n # a
      <3>1. n \in (a + 1)..(next_sequence - 1) BY <1>1, <1>4, <2>2
      <3> QED BY <1>6, <1>8, <3>1
    <2> QED BY <2>1, <2>2
  <1>12. Accepted \in Nat /\ a <= Accepted /\ Accepted < next_sequence
    BY <1>1, <1>5, <1>7 DEF Accepted
  <1>13. ASSUME NEW n \in (a + 1)..(next_sequence - 1)
         PROVE  Frame(n) \in SentFrames /\ Frame(n).sequence = n /\ Frame(n).bytes \in Nat
    <2>1. a + (n - a) = n BY <1>4
    <2> QED BY <1>6, <1>8, <2>1
  <1> QED BY <1>1, <1>3, <1>4, <1>5, <1>8, <1>9, <1>10, <1>11, <1>12, <1>13

\* The manager forgets frames from the front and numbers them at the end: the
\* frame of a sequence and the total up to it stay what they are.
Kept ==
  /\ next_sequence \in Nat /\ next_sequence' \in Nat /\ next_sequence <= next_sequence'
  /\ Base' \in Int /\ Base' <= Accepted /\ Accepted' = Accepted
  /\ \A n \in (Base' + 1)..(next_sequence - 1) : Frame(n)' = Frame(n)
  /\ \A n \in Base'..(next_sequence - 1) : Cum(n)' = Cum(n)

\* A step that leaves the frames in flight alone keeps them.
LEMMA KeptSame ==
  ASSUME TypeOK, Window, UNCHANGED <<outstanding, next_sequence, cumulative_bytes,
         outstanding_bytes>>, Accepted' = Accepted
  PROVE  Kept
  <1>1. Base' = Base BY DEF Base
  <1> QED BY <1>1, FrameIs DEF Kept, Frame, Cum, Base

\* A transmission adds a frame after them.
LEMMA KeptTransmit ==
  ASSUME TypeOK, Window, NEW s \in Streams, NEW b \in Nat, TransmitFrame(s, b),
         Accepted' = Accepted, NEW m, m = next_sequence
  PROVE  Kept /\ next_sequence' = m + 1 /\ Frame(m)' = SentFrame(s, b)
  <1>1. /\ next_sequence' = next_sequence + 1
        /\ outstanding' = Append(outstanding, SentFrame(s, b))
        /\ cumulative_bytes' = cumulative_bytes + Encoded(b, next_sequence)
        /\ outstanding_bytes' = outstanding_bytes + Encoded(b, next_sequence)
    BY DEF TransmitFrame, SentFrame
  <1>2. /\ outstanding \in Seq(SentFrames) /\ next_sequence \in 1..MaximumSequence
        /\ next_sequence \in Nat /\ Len(outstanding) \in Nat
        /\ cumulative_bytes \in Int /\ outstanding_bytes \in Int
    BY CreditAssumption DEF TypeOK, SentOK
  <1>3. Encoded(b, next_sequence) \in Nat BY <1>2, EncodedType
  <1>4. PICK len \in Nat : len = Len(outstanding) BY <1>2
  <1>5. /\ Len(outstanding') = len + 1 /\ outstanding'[len + 1] = SentFrame(s, b)
        /\ \A i \in 1..len : outstanding'[i] = outstanding[i]
    BY <1>1, <1>2, <1>4
  <1>6. PICK a \in Int : a = Base BY FrameIs
  <1>7. Base' = a /\ next_sequence = a + 1 + len BY <1>1, <1>2, <1>4, <1>5, <1>6 DEF Base
  <1>8. \A n \in (a + 1)..(next_sequence - 1) : n - a \in 1..len
    BY <1>2, <1>7
  <1>9. \A n \in (a + 1)..(next_sequence - 1) : Frame(n)' = Frame(n)
    BY <1>5, <1>6, <1>7, <1>8 DEF Frame
  <1>10. cumulative_bytes' - outstanding_bytes' = cumulative_bytes - outstanding_bytes
    BY <1>1, <1>2, <1>3
  <1>11. ASSUME NEW n \in a..(next_sequence - 1) PROVE Cum(n)' = Cum(n)
    <2>1. CASE n = a BY <1>6, <1>7, <1>10, <2>1 DEF Cum
    <2>2. CASE n # a
      <3>1. n \in (a + 1)..(next_sequence - 1) BY <1>2, <2>2
      <3> QED BY <1>6, <1>7, <1>9, <2>2, <3>1 DEF Cum
    <2> QED BY <2>1, <2>2
  <1>12. next_sequence - a = len + 1 BY <1>2, <1>7
  <1>13. Frame(m)' = outstanding'[len + 1]
    <2>1. m - Base' = len + 1 BY <1>7, <1>12
    <2> QED BY <2>1 DEF Frame
  <1>14. a <= Accepted BY <1>6, FrameIs
  <1>15. Kept
    <2>1. next_sequence' \in Nat /\ next_sequence <= next_sequence' BY <1>1, <1>2
    <2>2. Base' \in Int /\ Base' <= Accepted BY <1>7, <1>14
    <2>3. \A n \in Base'..(next_sequence - 1) : Cum(n)' = Cum(n) BY <1>7, <1>11
    <2>4. \A n \in (Base' + 1)..(next_sequence - 1) : Frame(n)' = Frame(n) BY <1>7, <1>9
    <2> QED BY <1>2, <2>1, <2>2, <2>3, <2>4 DEF Kept
  <1>16. next_sequence' = m + 1 BY <1>1
  <1>17. Frame(m)' = SentFrame(s, b) BY <1>5, <1>13
  <1> QED BY <1>15, <1>16, <1>17

\* The loop of Acknowledge forgets only frames that are accepted.
LEMMA KeptPop == ASSUME TypeOK, Window, Pop PROVE Kept
  <1>1. /\ outstanding # << >> /\ Head(outstanding).sequence <= target.sequence
        /\ phase = "pop" /\ outstanding' = Tail(outstanding)
        /\ outstanding_bytes' = outstanding_bytes - Head(outstanding).bytes
        /\ UNCHANGED <<next_sequence, cumulative_bytes, phase, target, acknowledged_sequence>>
    BY DEF Pop, Popping, control, acknowledged
  <1>2. /\ outstanding \in Seq(SentFrames) /\ next_sequence \in Nat /\ Len(outstanding) \in Nat
        /\ cumulative_bytes \in Int /\ outstanding_bytes \in Int
    BY CreditAssumption DEF TypeOK, SentOK
  <1>3. PICK len \in Nat : len = Len(outstanding) BY <1>2
  <1>4. /\ len > 0 /\ Len(outstanding') = len - 1 /\ Head(outstanding) = outstanding[1]
        /\ \A i \in 1..(len - 1) : outstanding'[i] = outstanding[i + 1]
    BY <1>1, <1>2, <1>3
  <1>5. PICK a \in Int : a = Base BY FrameIs
  <1>6. next_sequence = a + 1 + len BY <1>2, <1>3, <1>5 DEF Base
  <1>7. Base' = a + 1
    <2>1. Base' = next_sequence - 1 - (len - 1) BY <1>1, <1>4 DEF Base
    <2> QED BY <1>2, <1>6, <2>1
  <1>8. ASSUME NEW n \in (a + 2)..(next_sequence - 1) PROVE Frame(n)' = Frame(n)
    <2>1. n - a \in 2..len /\ n - (a + 1) \in 1..(len - 1) /\ (n - (a + 1)) + 1 = n - a
      BY <1>2, <1>6
    <2>2. Frame(n)' = outstanding'[n - (a + 1)] BY <1>7 DEF Frame
    <2>3. Frame(n) = outstanding[n - a] BY <1>5 DEF Frame
    <2>4. outstanding'[n - (a + 1)] = outstanding[n - a] BY <1>4, <2>1
    <2> QED BY <2>2, <2>3, <2>4
  <1>9. a + 1 \in (Base + 1)..(next_sequence - 1) BY <1>2, <1>4, <1>5, <1>6
  <1>10. /\ Frame(a + 1) = outstanding[1] /\ outstanding[1].bytes \in Nat
         /\ outstanding[1].sequence = a + 1
         /\ Cum(a + 1) = (cumulative_bytes - outstanding_bytes) + outstanding[1].bytes
    <2>1. (a + 1) - a = 1 /\ (a + 1) - 1 = a BY <1>5
    <2>2. Frame(a + 1) = outstanding[1] BY <1>5, <2>1 DEF Frame
    <2>3. /\ Frame(a + 1).bytes \in Nat /\ Frame(a + 1).sequence = a + 1
          /\ Cum(a + 1) = Cum((a + 1) - 1) + Frame(a + 1).bytes
      BY <1>9, FrameIs
    <2>4. Cum(a) = cumulative_bytes - outstanding_bytes BY <1>5, FrameIs
    <2> QED BY <2>1, <2>2, <2>3, <2>4
  <1>11. ASSUME NEW n \in (a + 1)..(next_sequence - 1) PROVE Cum(n)' = Cum(n)
    <2>1. CASE n = a + 1
      <3>1. Cum(n)' = cumulative_bytes - (outstanding_bytes - outstanding[1].bytes)
        BY <1>1, <1>4, <1>7, <2>1 DEF Cum
      <3> QED BY <1>2, <1>10, <2>1, <3>1
    <2>2. CASE n # a + 1
      <3>1. n \in (a + 2)..(next_sequence - 1) BY <1>2, <1>5, <2>2
      <3>2. n # a BY <1>5
      <3> QED BY <1>5, <1>7, <1>8, <2>2, <3>1, <3>2 DEF Cum
    <2> QED BY <2>1, <2>2
  <1>12. Accepted = target.sequence /\ Accepted' = Accepted BY <1>1 DEF Accepted
  <1>13. a + 1 <= Accepted BY <1>1, <1>4, <1>10, <1>12
  <1>14. (a + 1) + 1 = a + 2 BY <1>5
  <1> QED BY <1>1, <1>2, <1>5, <1>7, <1>8, <1>11, <1>12, <1>13, <1>14 DEF Kept

\* A step of the host that is not the start of an acknowledgement.
HostStep ==
  \/ \E s \in Streams : Handler(s)
  \/ Locked \/ WriteFails \/ PeerReads
  \/ UNCHANGED vars

\* Every step of the host keeps the frames that are not accepted.
LEMMA KeptStep == ASSUME TypeOK, Window, HostStep PROVE Kept
  <1> USE DEF streams, counters, acknowledged, control
  <1>1. CASE \E s \in Streams : Handler(s)
    <2>0. PICK s \in Streams : Handler(s) BY <1>1
    <2>1. CASE \E b \in Bodies : SubmitTransmits(s, b)
      <3>1. PICK b \in Bodies : SubmitTransmits(s, b) BY <2>1
      <3>2. b \in Nat /\ TransmitFrame(s, b) /\ Accepted' = Accepted
        BY <3>1, CreditAssumption DEF SubmitTransmits, Accepted
      <3> QED BY <3>2, KeptTransmit
    <2>2. CASE ~ \E b \in Bodies : SubmitTransmits(s, b)
      <3>1. UNCHANGED <<outstanding, next_sequence, cumulative_bytes, outstanding_bytes>>
        BY <2>0, <2>2 DEF Handler, AddStream, SubmitQueues, SubmitOverflows, SubmitInvalid,
           EmitFailure, Unsubscribe, BeginRecovery, BeginRetire, FailChannel
      <3>2. Accepted' = Accepted
        <4>1. \/ UNCHANGED <<phase, target, acknowledged_sequence>>
              \/ phase = "idle" /\ phase' = "purge" /\ UNCHANGED acknowledged_sequence
          BY <2>0, <2>2 DEF Handler, AddStream, SubmitQueues, SubmitOverflows, SubmitInvalid,
             EmitFailure, Unsubscribe, BeginRecovery, BeginRetire, FailChannel, Ready
        <4> QED BY <4>1 DEF Accepted
      <3> QED BY <3>1, <3>2, KeptSame
    <2> QED BY <2>1, <2>2
  <1>2. CASE Purge \/ RetireBarrier \/ DrainFails \/ Drained \/ WriteFails \/ PeerReads
    <2>1. UNCHANGED <<outstanding, next_sequence, cumulative_bytes, outstanding_bytes,
                      acknowledged_sequence>>
      BY <1>2 DEF Purge, RetireBarrier, DrainFails, Drained, WriteFails, FailChannel, PeerReads
    <2>2. UNCHANGED <<phase, target>> \/ (phase # "pop" /\ phase' # "pop")
      BY <1>2 DEF Purge, RetireBarrier, DrainFails, Drained, WriteFails, FailChannel, PeerReads,
         Draining, Finish
    <2>3. Accepted' = Accepted BY <2>1, <2>2 DEF Accepted
    <2> QED BY <2>1, <2>3, KeptSame
  <1>3. CASE Pop BY <1>3, KeptPop
  <1>4. CASE Popped
    <2>1. /\ UNCHANGED <<outstanding, next_sequence, cumulative_bytes, outstanding_bytes>>
          /\ Accepted' = Accepted
      BY <1>4 DEF Popped, Accepted
    <2> QED BY <2>1, KeptSame
  <1>5. CASE DrainTransmits
    <2>1. /\ queued # << >> /\ TransmitFrame(Pending.stream, Pending.body)
          /\ Accepted' = Accepted
      BY <1>5 DEF DrainTransmits, Accepted
    <2>2. Pending \in QueuedFrames BY <2>1 DEF TypeOK, QueuedOK, Pending
    <2>3. Pending.stream \in Streams /\ Pending.body \in Nat BY <2>2 DEF QueuedFrames
    <2> QED BY <2>1, <2>3, KeptTransmit
  <1>6. CASE UNCHANGED vars
    BY <1>6, KeptSame DEF vars, Accepted
  <1> QED BY <1>1, <1>2, <1>3, <1>4, <1>5, <1>6 DEF HostStep, Locked

-----------------------------------------------------------------------------
(* The totals of the ledger.                                               *)

\* BytesUpTo adds the reports one by one.
LEMMA UpTo ==
  ASSUME NEW D, NEW r \in [D -> Reports]
  PROVE  /\ BytesUpTo(r, 0) = 0
         /\ \A n \in Nat : BytesUpTo(r, n) \in Int
         /\ \A n \in Nat : BytesUpTo(r, n + 1) =
                             BytesUpTo(r, n) + (IF n + 1 \in D THEN r[n + 1].bytes ELSE 0)
  <1> DEFINE S == Reports \cup {NoReport}
             at(k) == IF k \in DOMAIN r THEN r[k] ELSE NoReport
             q(n) == [k \in 1..n |-> at(k)]
  <1>1. \A f \in S : f.bytes \in Int BY DEF Reports, NoReport
  <1>2. \A k : at(k) \in S OBVIOUS
  <1>3. \A n \in Nat : q(n) \in Seq(S) /\ Len(q(n)) = n
    <2> HIDE DEF S, at
    <2> QED BY <1>2
  <1>4. \A n : BytesUpTo(r, n) = BytesOf(q(n)) BY DEF BytesUpTo
  <1>5. ASSUME NEW n \in Nat PROVE BytesUpTo(r, n) \in Int
    <2>1. PICK g : Running(q(n), Len(q(n)), g)
      <3> HIDE DEF S, q
      <3> QED BY <1>1, <1>3, RunningExists
    <2>2. BytesOf(q(n)) = g[Len(q(n))]
      <3> HIDE DEF S, q
      <3> QED BY <1>1, <1>3, <2>1, BytesRunning
    <2> HIDE DEF S, q
    <2>3. Len(q(n)) = n /\ BytesUpTo(r, n) = BytesOf(q(n)) BY <1>3, <1>4
    <2>4. g \in [0..n -> Int] BY <2>1, <2>3 DEF Running
    <2>5. n \in 0..n OBVIOUS
    <2>6. g[n] \in Int BY <2>4, <2>5
    <2> QED BY <2>2, <2>3, <2>6
  <1>6. BytesUpTo(r, 0) = 0
    <2>1. Running(q(0), 0, [i \in 0..0 |-> 0]) BY DEF Running
    <2>2. BytesOf(q(0)) = [i \in 0..0 |-> 0][0]
      <3> HIDE DEF S, q
      <3> QED BY <1>1, <1>3, <2>1, BytesRunning
    <2>3. [i \in 0..0 |-> 0][0] = 0 OBVIOUS
    <2>4. BytesUpTo(r, 0) = BytesOf(q(0)) BY <1>4
    <2> HIDE DEF q
    <2> QED BY <2>2, <2>3, <2>4
  <1>7. ASSUME NEW n \in Nat
        PROVE  BytesUpTo(r, n + 1) = BytesUpTo(r, n) + at(n + 1).bytes
    <2>1. q(n + 1) = Append(q(n), at(n + 1))
      <3>1. Len(q(n)) = n BY <1>3
      <3> HIDE DEF at
      <3> QED BY <3>1
    <2>2. BytesOf(Append(q(n), at(n + 1))) = BytesOf(q(n)) + at(n + 1).bytes
      <3> HIDE DEF S, q, at
      <3> QED BY <1>1, <1>2, <1>3, BytesAppend
    <2> HIDE DEF q, at
    <2> QED BY <1>4, <2>1, <2>2
  <1>8. \A k : at(k).bytes = IF k \in D THEN r[k].bytes ELSE 0 BY DEF NoReport
  <1> HIDE DEF at
  <1> QED BY <1>5, <1>6, <1>7, <1>8

\* Reports whose bytes are the steps of c add up to the difference of c.
LEMMA UpToDifference ==
  ASSUME NEW a \in Nat, NEW m \in Nat, NEW r \in [(a + 1)..m -> Reports], NEW c,
         \A n \in a..m : c[n] \in Int,
         \A n \in (a + 1)..m : c[n] = c[n - 1] + r[n].bytes
  PROVE  \A n \in a..m : BytesUpTo(r, n) = c[n] - c[a]
  <1> DEFINE T == {n \in 0..m : BytesUpTo(r, n) # IF n <= a THEN 0 ELSE c[n] - c[a]}
  <1>1. T = {}
    <2>1. SUFFICES ASSUME T # {} PROVE FALSE OBVIOUS
    <2>2. PICK n \in T : \A k \in T : n <= k
      <3>1. T \subseteq Nat OBVIOUS
      <3> QED BY <2>1, <3>1, Least
    <2>3. n \in 0..m /\ BytesUpTo(r, n) # IF n <= a THEN 0 ELSE c[n] - c[a] BY <2>2
    <2>4. n # 0 BY <2>3, UpTo
    <2>5. n - 1 \in 0..m /\ n - 1 \in Nat /\ ~(n <= n - 1) /\ (n - 1) + 1 = n BY <2>3, <2>4
    <2>6. BytesUpTo(r, n - 1) = IF n - 1 <= a THEN 0 ELSE c[n - 1] - c[a] BY <2>2, <2>5
    <2>7. BytesUpTo(r, n) =
            BytesUpTo(r, n - 1) + (IF n \in (a + 1)..m THEN r[n].bytes ELSE 0)
      <3>1. \A k \in Nat : BytesUpTo(r, k + 1) =
              BytesUpTo(r, k) + (IF k + 1 \in (a + 1)..m THEN r[k + 1].bytes ELSE 0)
        BY UpTo
      <3> HIDE DEF T
      <3> QED BY <2>5, <3>1
    <2>8. CASE n <= a
      <3>1. n \notin (a + 1)..m /\ n - 1 <= a BY <2>3, <2>8
      <3> QED BY <2>3, <2>6, <2>7, <2>8, <3>1
    <2>9. CASE n = a + 1
      <3>1. n \in (a + 1)..m /\ n - 1 = a /\ a \in a..m /\ n \in a..m /\ ~(n <= a) BY <2>3, <2>9
      <3>2. c[n] = c[a] + r[n].bytes /\ c[a] \in Int /\ c[n] \in Int BY <3>1
      <3>3. r[n].bytes \in Nat BY <3>1 DEF Reports
      <3>4. BytesUpTo(r, n) = r[n].bytes BY <2>6, <2>7, <3>1, <3>3
      <3> QED BY <2>3, <3>1, <3>2, <3>3, <3>4
    <2>10. CASE n > a + 1
      <3>1. /\ n \in (a + 1)..m /\ n - 1 \in a..m /\ ~(n - 1 <= a) /\ ~(n <= a) /\ a \in a..m
            /\ n \in a..m
        BY <2>3, <2>10
      <3>2. c[n] = c[n - 1] + r[n].bytes /\ c[a] \in Int /\ c[n - 1] \in Int /\ c[n] \in Int
        BY <3>1
      <3>3. r[n].bytes \in Nat BY <3>1 DEF Reports
      <3>4. BytesUpTo(r, n) = (c[n - 1] - c[a]) + r[n].bytes BY <2>6, <2>7, <3>1
      <3> QED BY <2>3, <3>1, <3>2, <3>3, <3>4
    <2> QED BY <2>3, <2>8, <2>9, <2>10
  <1>2. ASSUME NEW n \in a..m PROVE BytesUpTo(r, n) = c[n] - c[a]
    <2>0. n \in 0..m OBVIOUS
    <2>1. n \in 0..m /\ n \notin T
      <3> HIDE DEF T
      <3> QED BY <1>1, <2>0
    <2>2. BytesUpTo(r, n) = IF n <= a THEN 0 ELSE c[n] - c[a] BY <2>1
    <2>3. n <= a => n = a BY <1>2
    <2>4. c[a] \in Int BY <1>2
    <2> QED BY <2>2, <2>3, <2>4
  <1> QED BY <1>2

\* The ledger quotes the host's own totals.
LEMMA TotalIs ==
  ASSUME TypeOK, Window, LedgerType, Registry,
         NEW a \in Nat, a = ledger_acknowledged.sequence,
         NEW m \in Nat, a <= m, m < next_sequence, NEW r \in [(a + 1)..m -> Reports],
         \A n \in (a + 1)..m : r[n].bytes = Frame(n).bytes
  PROVE  \A n \in a..m : Total(r, n) = Cum(n) /\ BytesUpTo(r, n) = Cum(n) - Cum(a)
  <1> DEFINE c == [n \in a..m |-> Cum(n)]
  <1>1. Base \in Int /\ Base <= a /\ next_sequence \in Nat BY FrameIs DEF Registry, LedgerType
  <1>2. PICK z \in Int : z = Base BY <1>1
  <1>3. \A n \in a..m : n \in z..(next_sequence - 1) BY <1>1, <1>2
  <1>4. \A n \in a..m : Cum(n) \in Int BY <1>2, <1>3, FrameIs
  <1>5. \A n \in (a + 1)..m : n \in (z + 1)..(next_sequence - 1) /\ n - 1 \in a..m /\ n \in a..m
    BY <1>1, <1>2
  <1>6. \A n \in (a + 1)..m : Cum(n) = Cum(n - 1) + Frame(n).bytes BY <1>2, <1>5, FrameIs
  <1>7. \A n \in a..m : c[n] \in Int BY <1>4
  <1>8. \A n \in (a + 1)..m : c[n] = c[n - 1] + r[n].bytes BY <1>5, <1>6
  <1>9. \A n \in a..m : BytesUpTo(r, n) = c[n] - c[a]
    <2> HIDE DEF c
    <2>1. PICK d : d = c OBVIOUS
    <2>2. \A n \in a..m : d[n] \in Int BY <1>7, <2>1
    <2>3. \A n \in (a + 1)..m : d[n] = d[n - 1] + r[n].bytes BY <1>8, <2>1
    <2>4. \A n \in a..m : BytesUpTo(r, n) = d[n] - d[a]
      BY ONLY a \in Nat, m \in Nat, r \in [(a + 1)..m -> Reports], <2>2, <2>3, UpToDifference
    <2> QED BY <2>1, <2>4
  <1>10. ASSUME NEW n \in a..m PROVE Total(r, n) = Cum(n) /\ BytesUpTo(r, n) = Cum(n) - Cum(a)
    <2>1. a \in a..m OBVIOUS
    <2>2. c[n] = Cum(n) /\ c[a] = Cum(a) BY <2>1
    <2>3. BytesUpTo(r, n) = Cum(n) - Cum(a) BY <1>9, <2>2
    <2>4. ledger_acknowledged.bytes = Cum(a) BY DEF Registry, Quotes
    <2>5. Cum(n) \in Int /\ Cum(a) \in Int BY <1>4, <2>1
    <2>6. Cum(a) + (Cum(n) - Cum(a)) = Cum(n) BY <2>5
    <2> QED BY <2>3, <2>4, <2>6 DEF Total
  <1> QED BY <1>10

\* What advance does: nothing while the first report is not consumed; else it
\* quotes the end of the consumed prefix, or fails to send and changes nothing.
LEMMA AdvanceIs ==
  ASSUME TypeOK, Window, LedgerType, Registry,
         NEW a \in Nat, a = ledger_acknowledged.sequence,
         NEW m \in Nat, ledger_next - 1 <= m, m <= ledger_next, m < next_sequence,
         NEW r \in [(a + 1)..m -> Reports],
         \A n \in (a + 1)..m : r[n].bytes = Frame(n).bytes,
         Advance(r)
  PROVE  \/ /\ a + 1 \in (a + 1)..m => ~r[a + 1].consumed
            /\ pending' = r /\ UNCHANGED <<ledger_acknowledged, acks, session>>
         \/ \E n \in (a + 1)..m :
              /\ ledger_acknowledged' = [sequence |-> n, bytes |-> Cum(n)]
              /\ acks' = Append(acks, ledger_acknowledged')
              /\ pending' = [k \in (n + 1)..m |-> r[k]]
              /\ n + 1 \in (a + 1)..m => ~r[n + 1].consumed
              /\ UNCHANGED session
         \/ pending' = r /\ session' = "failing" /\ UNCHANGED <<ledger_acknowledged, acks>>
  <1> DEFINE T == {n \in a..ledger_next : \A k \in (a + 1)..n : k \in DOMAIN r /\ r[k].consumed}
  <1>1. ledger_next \in Nat /\ a < ledger_next /\ DOMAIN r = (a + 1)..m
    BY DEF LedgerType, Registry
  <1>2. a \in T /\ T \subseteq 0..ledger_next BY <1>1
  <1>3. Prefix(r) = Max(T) BY DEF Prefix
  <1>4. Max(T) \in T /\ \A k \in T : k <= Max(T)
    <2> HIDE DEF T
    <2> QED BY <1>1, <1>2, Greatest
  <1>5. PICK n \in T : n = Prefix(r) /\ \A k \in T : k <= n BY <1>3, <1>4
  <1>6. n \in a..ledger_next /\ \A k \in (a + 1)..n : k \in (a + 1)..m /\ r[k].consumed
    BY <1>1, <1>5
  <1>7. n \in a..m
    <2>1. CASE n = a BY <1>1, <2>1
    <2>2. CASE n # a
      <3>1. n \in (a + 1)..n BY <1>6, <2>2
      <3> QED BY <1>6, <3>1
    <2> QED BY <2>1, <2>2
  <1>8. ASSUME n + 1 \in (a + 1)..m PROVE ~r[n + 1].consumed
    <2>1. SUFFICES ASSUME r[n + 1].consumed PROVE FALSE OBVIOUS
    <2>2. n + 1 \in a..ledger_next /\ n \in Nat
      <3> HIDE DEF T
      <3> QED BY <1>1, <1>7, <1>8
    <2>3. ASSUME NEW k \in (a + 1)..(n + 1) PROVE k \in DOMAIN r /\ r[k].consumed
      <3>1. k = n + 1 \/ k \in (a + 1)..n BY <2>2
      <3> QED BY <1>1, <1>6, <1>8, <2>1, <3>1
    <2>4. n + 1 \in T BY <2>2, <2>3
    <2>5. n + 1 <= n BY <1>5, <2>4
    <2> QED BY <2>2, <2>5
  <1>9. Total(r, n) = Cum(n)
    <2>1. a <= m BY <1>1
    <2> HIDE DEF T
    <2> QED BY <1>7, <2>1, TotalIs
  <1> DEFINE ack == [sequence |-> n, bytes |-> Cum(n)]
  <1>10. IF n = a
           THEN pending' = r /\ UNCHANGED <<ledger_acknowledged, acks, session>>
           ELSE \/ /\ acks' = Append(acks, ack)
                   /\ ledger_acknowledged' = ack
                   /\ pending' = [k \in DOMAIN r \ (1..n) |-> r[k]]
                   /\ UNCHANGED session
                \/ /\ pending' = r
                   /\ session' = "failing"
                   /\ UNCHANGED <<ledger_acknowledged, acks>>
    BY <1>5, <1>9 DEF Advance
  <1> HIDE DEF T, ack
  <1>11. CASE n = a BY <1>8, <1>10, <1>11
  <1>12. CASE n # a
    <2>1. n \in (a + 1)..m BY <1>7, <1>12
    <2>2. DOMAIN r \ (1..n) = (n + 1)..m BY <1>1, <2>1
    <2>3. CASE /\ acks' = Append(acks, ack) /\ ledger_acknowledged' = ack
               /\ pending' = [k \in DOMAIN r \ (1..n) |-> r[k]] /\ UNCHANGED session
      <3>1. pending' = [k \in (n + 1)..m |-> r[k]] BY <2>2, <2>3
      <3> QED BY <1>8, <2>1, <2>3, <3>1 DEF ack
    <2> QED BY <1>10, <1>12, <2>3
  <1> QED BY <1>11, <1>12

\* What Kept says from the acknowledged sequence on.
LEMMA KeptFrom ==
  ASSUME TypeOK, Window, Kept, NEW a \in Nat, Accepted <= a
  PROVE  /\ \A n \in a..(next_sequence - 1) : Cum(n)' = Cum(n)
         /\ \A n \in (a + 1)..(next_sequence - 1) : Frame(n)' = Frame(n)
  <1>1. PICK z \in Int : z = Base' BY DEF Kept
  <1>2. z <= a /\ next_sequence \in Nat BY <1>1, FrameIs DEF Kept
  <1>3. \A n \in a..(next_sequence - 1) : n \in z..(next_sequence - 1) BY <1>2
  <1>4. \A n \in (a + 1)..(next_sequence - 1) : n \in (z + 1)..(next_sequence - 1) BY <1>2
  <1> QED BY <1>1, <1>3, <1>4 DEF Kept

\* A step of the connection that acknowledges nothing keeps the ledger right.
LEMMA LedgerTakes ==
  ASSUME TypeOK, Window, LedgerInv, Kept,
         NEW a \in Nat, a = ledger_acknowledged.sequence,
         NEW m \in Nat, a <= m, m < next_sequence, ledger_next' = m + 1,
         NEW r \in [(a + 1)..m -> Reports],
         \A n \in (a + 1)..m : r[n].bytes = Frame(n).bytes,
         \A n \in (a + 1)..m : r[n].consumed \/ n \in delivered' \/ r[n].stream \in closing',
         UNCHANGED <<ledger_acknowledged, acks>>, pending' = r,
         session' \in {"up", "failing", "down"},
         session' = "up" /\ a + 1 \in (a + 1)..m => ~r[a + 1].consumed
  PROVE  LedgerInv'
  <1>1. /\ LedgerType /\ Registry /\ Quoted /\ Held /\ Accepted <= a /\ a < ledger_next
        /\ ledger_next \in Nat /\ ledger_acknowledged \in AckFrames /\ acks \in Seq(AckFrames)
        /\ session \in {"up", "failing", "down"} /\ Accepted' = Accepted
        /\ next_sequence \in Nat /\ next_sequence' \in Nat /\ next_sequence <= next_sequence'
        /\ Accepted \in Nat
    BY FrameIs DEF LedgerInv, LedgerType, Registry, Kept
  <1>2. /\ \A n \in a..(next_sequence - 1) : Cum(n)' = Cum(n)
        /\ \A n \in (a + 1)..(next_sequence - 1) : Frame(n)' = Frame(n)
    BY <1>1, KeptFrom
  <1>3. a <= m /\ a \in a..(next_sequence - 1) BY <1>1
  <1>4. ASSUME NEW n \in a..(next_sequence - 1) PROVE Cum(n) \in Int
    <2>1. PICK z \in Int : z = Base BY FrameIs
    <2>2. z <= a BY <1>1, <2>1, FrameIs
    <2>3. n \in z..(next_sequence - 1) BY <1>1, <2>2
    <2> QED BY <2>1, <2>3, FrameIs
  <1>5. \A i \in DOMAIN acks : acks[i] \in AckFrames /\ acks[i].sequence \in Nat /\ Accepted < acks[i].sequence
                               /\ acks[i].sequence <= a /\ Quotes(acks[i])
    <2>1. \A i \in DOMAIN acks : acks[i] \in AckFrames BY <1>1
    <2>2. \A i \in DOMAIN acks : Accepted < acks[i].sequence /\ acks[i].sequence <= a /\ Quotes(acks[i])
      BY <1>1 DEF Quoted
    <2> QED BY <2>1, <2>2 DEF AckFrames
  <1>6. \A n \in Accepted..(next_sequence - 1) : Cum(n)' = Cum(n)
    <2>1. PICK e \in Nat : e = Accepted BY <1>1
    <2>2. Accepted <= e BY <2>1
    <2> QED BY <2>1, <2>2, KeptFrom
  <1>11. ledger_acknowledged'.sequence = a /\ ledger_next' - 1 = m OBVIOUS
  <1>12. LedgerType' BY <1>1, <1>11 DEF LedgerType
  <1>13. Registry'
    <2>1. Quotes(ledger_acknowledged)' BY <1>1, <1>2, <1>3 DEF Registry, Quotes
    <2>2. \A n \in (a + 1)..m : n \in (a + 1)..(next_sequence - 1) BY <1>1
    <2>3. \A n \in (a + 1)..m : r[n].bytes = (Frame(n)').bytes BY <1>2, <2>2
    <2>4. \A n \in DOMAIN pending' : pending'[n].bytes = (Frame(n)').bytes BY <2>3
    <2> QED BY <1>1, <1>3, <1>11, <2>1, <2>4 DEF Registry
  <1>14. Quoted'
    <2>1. ASSUME NEW i \in DOMAIN acks PROVE Quotes(acks[i])'
      <3>1. PICK c \in Nat : c = acks[i].sequence BY <1>5
      <3>3. acks'[i] = acks[i] /\ acks[i].bytes = Cum(c) BY <1>5, <3>1 DEF Quotes
      <3>4. Cum(c)' = Cum(c)
        <4>1. Accepted < c /\ c <= a BY <1>5, <3>1
        <4>2. c \in Accepted..(next_sequence - 1) BY <1>1, <1>3, <4>1
        <4> QED BY <1>6, <4>2
      <3> QED BY <3>1, <3>3, <3>4 DEF Quotes
    <2> QED BY <1>1, <1>11, <2>1 DEF Quoted
  <1>15. Held' BY <1>11 DEF Held
  <1> QED BY <1>12, <1>13, <1>14, <1>15 DEF LedgerInv

\* A step of the connection that may advance keeps the ledger right.
LEMMA LedgerAdvance ==
  ASSUME TypeOK, Window, LedgerInv, Kept,
         NEW a \in Nat, a = ledger_acknowledged.sequence,
         NEW m \in Nat, ledger_next - 1 <= m, m <= ledger_next, m < next_sequence,
         ledger_next' = m + 1,
         NEW r \in [(a + 1)..m -> Reports],
         \A n \in (a + 1)..m : r[n].bytes = Frame(n).bytes,
         \A n \in (a + 1)..m : r[n].consumed \/ n \in delivered' \/ r[n].stream \in closing',
         Advance(r)
  PROVE  LedgerInv'
  <1>1. /\ LedgerType /\ Registry /\ Quoted /\ Held /\ Accepted <= a /\ a < ledger_next
        /\ ledger_next \in Nat /\ ledger_acknowledged \in AckFrames /\ acks \in Seq(AckFrames)
        /\ session \in {"up", "failing", "down"} /\ Accepted' = Accepted
        /\ next_sequence \in Nat /\ next_sequence' \in Nat /\ next_sequence <= next_sequence'
        /\ Accepted \in Nat
    BY FrameIs DEF LedgerInv, LedgerType, Registry, Kept
  <1>2. /\ \A n \in a..(next_sequence - 1) : Cum(n)' = Cum(n)
        /\ \A n \in (a + 1)..(next_sequence - 1) : Frame(n)' = Frame(n)
    BY <1>1, KeptFrom
  <1>3. a <= m /\ a \in a..(next_sequence - 1) BY <1>1
  <1>4. ASSUME NEW n \in a..(next_sequence - 1) PROVE Cum(n) \in Int
    <2>1. PICK z \in Int : z = Base BY FrameIs
    <2>2. z <= a BY <1>1, <2>1, FrameIs
    <2>3. n \in z..(next_sequence - 1) BY <1>1, <2>2
    <2> QED BY <2>1, <2>3, FrameIs
  <1>5. \A i \in DOMAIN acks : acks[i] \in AckFrames /\ acks[i].sequence \in Nat /\ Accepted < acks[i].sequence
                               /\ acks[i].sequence <= a /\ Quotes(acks[i])
    <2>1. \A i \in DOMAIN acks : acks[i] \in AckFrames BY <1>1
    <2>2. \A i \in DOMAIN acks : Accepted < acks[i].sequence /\ acks[i].sequence <= a /\ Quotes(acks[i])
      BY <1>1 DEF Quoted
    <2> QED BY <2>1, <2>2 DEF AckFrames
  <1>6. \A n \in Accepted..(next_sequence - 1) : Cum(n)' = Cum(n)
    <2>1. PICK e \in Nat : e = Accepted BY <1>1
    <2>2. Accepted <= e BY <2>1
    <2> QED BY <2>1, <2>2, KeptFrom
  <1>7. ASSUME NEW n \in (a + 1)..m,
               ledger_acknowledged' = [sequence |-> n, bytes |-> Cum(n)],
               acks' = Append(acks, ledger_acknowledged'),
               pending' = [k \in (n + 1)..m |-> r[k]],
               n + 1 \in (a + 1)..m => ~r[n + 1].consumed,
               UNCHANGED session
        PROVE  LedgerInv'
    <2>1. /\ n \in Nat /\ n \in a..(next_sequence - 1) /\ ledger_next' - 1 = m
          /\ ledger_acknowledged'.sequence = n /\ ledger_acknowledged'.bytes = Cum(n)
      <3>1. n \in Nat /\ n \in a..(next_sequence - 1) BY <1>1
      <3>2. ledger_next' - 1 = m OBVIOUS
      <3> QED BY <1>7, <3>1, <3>2
    <2>2. ledger_acknowledged' \in AckFrames BY <1>4, <1>7, <2>1 DEF AckFrames
    <2>3. LedgerType'
      <3>1. acks' \in Seq(AckFrames) BY <1>1, <1>7, <2>2
      <3>2. \A k \in (n + 1)..m : k \in (a + 1)..m BY <2>1
      <3>3. pending' \in [(n + 1)..m -> Reports] BY <1>7, <3>2
      <3>4. ledger_next' \in Nat /\ session' \in {"up", "failing", "down"} BY <1>1, <1>7
      <3>5. pending' \in [(ledger_acknowledged'.sequence + 1)..(ledger_next' - 1) -> Reports]
        BY <2>1, <3>3
      <3> QED BY <2>2, <3>1, <3>4, <3>5 DEF LedgerType
    <2>4. Quotes(ledger_acknowledged)' BY <1>2, <2>1 DEF Quotes
    <2>5. Registry'
      <3>1. \A k \in (n + 1)..m : k \in (a + 1)..(next_sequence - 1) /\ k \in (a + 1)..m
        BY <1>1, <2>1
      <3>2. \A k \in (n + 1)..m : r[k].bytes = (Frame(k)').bytes BY <1>2, <3>1
      <3>3. \A k \in DOMAIN pending' : pending'[k].bytes = (Frame(k)').bytes BY <1>7, <3>2
      <3>4. Accepted <= n /\ n < m + 1 /\ m + 1 <= next_sequence' BY <1>1, <1>7
      <3> QED BY <1>1, <2>1, <2>4, <3>3, <3>4 DEF Registry
    <2>6. PICK len \in Nat : len = Len(acks) BY <1>1
    <2>7. /\ DOMAIN acks = 1..len /\ DOMAIN acks' = 1..(len + 1) /\ Len(acks') = len + 1
          /\ acks'[len + 1] = ledger_acknowledged' /\ \A i \in 1..len : acks'[i] = acks[i]
          /\ acks' # << >>
      <3>1. PICK x \in AckFrames : x = ledger_acknowledged' BY <2>2
      <3>2. acks' = Append(acks, x) BY <1>7, <3>1
      <3> QED BY <1>1, <2>6, <3>1, <3>2
    <2>8. Quoted'
      <3>1. ASSUME NEW i \in 1..(len + 1)
            PROVE  /\ Accepted < acks'[i].sequence /\ acks'[i].sequence <= n
                   /\ Quotes(acks[i])'
        <4>1. CASE i = len + 1
          <5>1. acks'[i] = ledger_acknowledged' BY <2>7, <4>1
          <5>2. acks'[i].sequence = n BY <2>1, <5>1
          <5>3. Accepted < n
            <6>1. Accepted <= a /\ Accepted \in Nat BY <1>1
            <6>2. a < n /\ n \in Nat BY <2>1, <1>7
            <6> QED BY <6>1, <6>2
          <5>4. n <= n BY <2>1
          <5>5. Quotes(acks[i])' BY <2>4, <5>1 DEF Quotes
          <5> QED BY <5>2, <5>3, <5>4, <5>5
        <4>2. CASE i # len + 1
          <5>1. i \in 1..len /\ acks'[i] = acks[i] BY <2>7, <4>2
          <5>2. PICK c \in Nat : c = acks[i].sequence BY <1>5, <2>7, <5>1
          <5>3. Accepted < c /\ c <= a /\ acks[i].bytes = Cum(c)
            BY <1>5, <2>7, <5>1, <5>2 DEF Quotes
          <5>5. c \in Accepted..(next_sequence - 1) BY <1>1, <1>3, <5>3
          <5>6. Cum(c)' = Cum(c) BY <1>6, <5>5
          <5>7. c <= n BY <1>7, <5>3
          <5> QED BY <5>1, <5>2, <5>3, <5>6, <5>7 DEF Quotes
        <4> QED BY <4>1, <4>2
      <3>2. ASSUME NEW i \in 1..(len + 1), NEW j \in 1..(len + 1), i < j
            PROVE  acks'[i].sequence < acks'[j].sequence
        <4>1. i \in 1..len /\ acks'[i] = acks[i] BY <2>7, <3>2
        <4>2. CASE j = len + 1
          <5>1. acks[i].sequence \in Nat /\ acks[i].sequence <= a BY <1>5, <2>7, <4>1
          <5>2. acks'[j].sequence = n BY <2>1, <2>7, <4>2
          <5>3. a < n BY <1>7
          <5>4. acks[i].sequence < n BY <5>1, <5>3, <2>1
          <5> QED BY <4>1, <5>2, <5>4
        <4>3. CASE j # len + 1
          <5>1. j \in 1..len /\ acks'[j] = acks[j] BY <2>7, <4>3
          <5> QED BY <1>1, <2>7, <3>2, <4>1, <5>1 DEF Quoted
        <4> QED BY <4>2, <4>3
      <3> QED BY <1>1, <2>1, <2>7, <3>1, <3>2 DEF Quoted
    <2>9. Held'
      <3>1. \A k \in (n + 1)..m : k \in (a + 1)..m BY <2>1
      <3>2. n + 1 \in (n + 1)..m => n + 1 \in (a + 1)..m BY <3>1
      <3> QED BY <1>7, <2>1, <3>1, <3>2 DEF Held
    <2> QED BY <2>3, <2>5, <2>8, <2>9 DEF LedgerInv
  <1>8. \/ /\ a + 1 \in (a + 1)..m => ~r[a + 1].consumed
           /\ pending' = r /\ UNCHANGED <<ledger_acknowledged, acks, session>>
        \/ \E n \in (a + 1)..m :
             /\ ledger_acknowledged' = [sequence |-> n, bytes |-> Cum(n)]
             /\ acks' = Append(acks, ledger_acknowledged')
             /\ pending' = [k \in (n + 1)..m |-> r[k]]
             /\ n + 1 \in (a + 1)..m => ~r[n + 1].consumed
             /\ UNCHANGED session
        \/ pending' = r /\ session' = "failing" /\ UNCHANGED <<ledger_acknowledged, acks>>
    BY <1>1, AdvanceIs
  <1>10. CASE /\ UNCHANGED <<ledger_acknowledged, acks>> /\ pending' = r
              /\ session' \in {"up", "failing", "down"}
              /\ session' = "up" /\ a + 1 \in (a + 1)..m => ~r[a + 1].consumed
    BY <1>3, <1>10, LedgerTakes
  <1> QED BY <1>1, <1>7, <1>8, <1>10

\* A step that leaves the ledger alone keeps it right.
LEMMA LedgerSame ==
  ASSUME TypeOK, Window, LedgerInv, Kept,
         UNCHANGED <<ledger_next, ledger_acknowledged, pending, acks>>,
         session' \in {"up", "failing", "down"}, session' = "up" => session = "up",
         \A n \in DOMAIN pending :
           n \in delivered \/ pending[n].stream \in closing
             => pending[n].consumed \/ n \in delivered' \/ pending[n].stream \in closing'
  PROVE  LedgerInv'
  <1>1. /\ LedgerType /\ Registry /\ Held /\ ledger_next \in Nat
        /\ ledger_acknowledged.sequence \in Nat
        /\ ledger_acknowledged.sequence < ledger_next /\ ledger_next <= next_sequence
        /\ next_sequence \in Nat
    BY FrameIs DEF LedgerInv, LedgerType, Registry, AckFrames
  <1>2. PICK a \in Nat, m \in Nat : a = ledger_acknowledged.sequence /\ m = ledger_next - 1
    BY <1>1
  <1>3. a <= m /\ m < next_sequence /\ ledger_next' = m + 1 BY <1>1, <1>2
  <1>4. PICK r \in [(a + 1)..m -> Reports] : r = pending BY <1>1, <1>2 DEF LedgerType
  <1>5. DOMAIN pending = (a + 1)..m BY <1>4
  <1>6. \A n \in (a + 1)..m : r[n].bytes = Frame(n).bytes BY <1>1, <1>4, <1>5 DEF Registry
  <1>7. \A n \in (a + 1)..m : r[n].consumed \/ n \in delivered' \/ r[n].stream \in closing'
    BY <1>1, <1>4, <1>5 DEF Held
  <1>8. session' = "up" /\ a + 1 \in (a + 1)..m => ~r[a + 1].consumed
    BY <1>1, <1>2, <1>4, <1>5 DEF Held
  <1>9. pending' = r BY <1>4
  <1> QED BY <1>2, <1>3, <1>6, <1>7, <1>8, <1>9, LedgerTakes

\* An acknowledgement under way is accepted when its turn comes.
LEMMA AckOutstanding ==
  ASSUME TypeOK, Window, LedgerInv, NEW i \in DOMAIN acks
  PROVE  \E k \in DOMAIN outstanding : /\ outstanding[k].sequence = acks[i].sequence
                                       /\ outstanding[k].cumulative = acks[i].bytes
  <1>1. /\ acks[i].sequence \in Nat /\ Accepted < acks[i].sequence
        /\ acks[i].sequence < next_sequence /\ Quotes(acks[i]) /\ next_sequence \in Nat
    <2>1. acks \in Seq(AckFrames) BY DEF LedgerInv, LedgerType
    <2>2. acks[i] \in AckFrames BY <2>1
    <2>3. /\ Accepted < acks[i].sequence /\ acks[i].sequence <= ledger_acknowledged.sequence
          /\ Quotes(acks[i])
      BY DEF LedgerInv, Quoted
    <2>4. /\ ledger_acknowledged.sequence < ledger_next /\ ledger_next <= next_sequence
          /\ ledger_next \in Nat /\ ledger_acknowledged.sequence \in Nat
      BY DEF LedgerInv, Registry, LedgerType, AckFrames
    <2>5. next_sequence \in Nat BY FrameIs
    <2> QED BY <2>2, <2>3, <2>4, <2>5 DEF AckFrames
  <1>2. PICK c \in Nat : c = acks[i].sequence BY <1>1
  <1>3. acks[i].bytes = Cum(c) BY <1>1, <1>2 DEF Quotes
  <1>4. PICK z \in Int : z = Base BY FrameIs
  <1>5. z < c BY <1>1, <1>2, <1>4, FrameIs
  <1>6. c \in (z + 1)..(next_sequence - 1) /\ c # z BY <1>1, <1>2, <1>5
  <1>7. c - z \in DOMAIN outstanding /\ Frame(c).sequence = c BY <1>4, <1>6, FrameIs
  <1>8. Frame(c) = outstanding[c - z] /\ Cum(c) = outstanding[c - z].cumulative
    BY <1>4, <1>6 DEF Frame, Cum
  <1> QED BY <1>2, <1>3, <1>7, <1>8

\* The host takes the next acknowledgement.
LEMMA LedgerAcknowledged ==
  ASSUME TypeOK, Window, LedgerInv, HostAcknowledged
  PROVE  LedgerInv' /\ Ready
         /\ Acknowledge(Head(acks).sequence, Head(acks).bytes)
  <1>1. /\ acks # << >> /\ acks \in Seq(AckFrames) /\ acks' = Tail(acks)
        /\ UNCHANGED <<ledger_next, ledger_acknowledged, pending, closing, delivered, session>>
    BY DEF HostAcknowledged, LedgerInv, LedgerType, ledger
  <1>2. PICK len \in Nat : len = Len(acks) BY <1>1
  <1>3. /\ len > 0 /\ DOMAIN acks = 1..len /\ Head(acks) = acks[1]
        /\ DOMAIN acks' = 1..(len - 1) /\ Len(acks') = len - 1 /\ acks' \in Seq(AckFrames)
        /\ \A i \in 1..(len - 1) : acks'[i] = acks[i + 1]
        /\ len = 1 => acks' = << >>
    <2> QED BY <1>1, <1>2
  <1>4. 1 \in DOMAIN acks BY <1>3
  <1>5. PICK c \in Nat : c = acks[1].sequence
    <2>1. acks[1] \in AckFrames BY <1>1, <1>4
    <2> QED BY <2>1 DEF AckFrames
  <1>6. Accepted < c /\ c <= ledger_acknowledged.sequence
    BY <1>4, <1>5 DEF LedgerInv, Quoted
  <1>7. Ready /\ Accepted = acknowledged_sequence
    BY DEF HostAcknowledged, Acknowledge, AcknowledgeRejected, Ready, Accepted
  <1>8. ~AcknowledgeRejected(Head(acks).sequence, Head(acks).bytes)
    <2>1. \E k \in DOMAIN outstanding : /\ outstanding[k].sequence = acks[1].sequence
                                        /\ outstanding[k].cumulative = acks[1].bytes
      BY <1>4, AckOutstanding
    <2>2. ~(acks[1].sequence <= acknowledged_sequence)
      <3>1. acknowledged_sequence \in Nat BY DEF TypeOK, AcknowledgedOK
      <3> QED BY <1>5, <1>6, <1>7, <3>1
    <2> QED BY <1>3, <2>1, <2>2 DEF AcknowledgeRejected
  <1>9. Acknowledge(Head(acks).sequence, Head(acks).bytes) BY <1>8 DEF HostAcknowledged
  <1>10. /\ Accepted' = c
         /\ UNCHANGED <<outstanding, next_sequence, cumulative_bytes, outstanding_bytes>>
    BY <1>3, <1>5, <1>9 DEF Acknowledge, Accepted, counters
  <1>11. Base' = Base /\ (\A n : Frame(n)' = Frame(n)) /\ (\A n : Cum(n)' = Cum(n))
    BY <1>10 DEF Base, Frame, Cum
  <1>12. LedgerType' BY <1>1, <1>3 DEF LedgerInv, LedgerType
  <1>13. Registry' BY <1>1, <1>6, <1>10, <1>11 DEF LedgerInv, Registry, Quotes
  <1>14. Quoted'
    <2>1. \A i \in 1..(len - 1) : i + 1 \in DOMAIN acks /\ 1 < i + 1 BY <1>3
    <2>2. ASSUME NEW i \in DOMAIN acks'
          PROVE  /\ Accepted' < acks'[i].sequence
                 /\ acks'[i].sequence <= ledger_acknowledged'.sequence /\ Quotes(acks[i])'
      <3>1. i + 1 \in DOMAIN acks /\ 1 < i + 1 /\ acks'[i] = acks[i + 1] BY <1>3, <2>1
      <3>2. Quotes(acks[i + 1]) /\ acks[i + 1].sequence <= ledger_acknowledged.sequence
            /\ c < acks[i + 1].sequence
        BY <1>4, <1>5, <3>1 DEF LedgerInv, Quoted
      <3> QED BY <1>1, <1>10, <1>11, <3>1, <3>2 DEF Quotes
    <2>3. ASSUME NEW i \in DOMAIN acks', NEW j \in DOMAIN acks', i < j
          PROVE  acks'[i].sequence < acks'[j].sequence
      <3>1. /\ i + 1 \in DOMAIN acks /\ acks'[i] = acks[i + 1]
            /\ j + 1 \in DOMAIN acks /\ acks'[j] = acks[j + 1] /\ i + 1 < j + 1
        <4>1. i \in 1..(len - 1) /\ j \in 1..(len - 1) BY <1>3
        <4> QED BY <1>3, <2>1, <2>3, <4>1
      <3> QED BY <3>1 DEF LedgerInv, Quoted
    <2>4. acks' = << >> => ledger_acknowledged'.sequence = Accepted'
      <3> SUFFICES ASSUME acks' = << >> PROVE ledger_acknowledged.sequence = c
        BY <1>1, <1>10
      <3>1. len = 1 BY <1>3
      <3> QED BY <1>1, <1>2, <1>5, <3>1 DEF LedgerInv, Quoted
    <2>5. acks' # << >> => acks'[Len(acks')] = ledger_acknowledged'
      <3> SUFFICES ASSUME acks' # << >> PROVE acks'[Len(acks')] = ledger_acknowledged
        BY <1>1
      <3>1. len # 1 BY <1>3
      <3>2. len - 1 \in 1..(len - 1) /\ (len - 1) + 1 = len BY <1>3, <3>1
      <3>3. acks'[len - 1] = acks[len] BY <1>3, <3>2
      <3> QED BY <1>1, <1>2, <1>3, <3>3 DEF LedgerInv, Quoted
    <2> QED BY <2>2, <2>3, <2>4, <2>5 DEF Quoted
  <1>15. Held' BY <1>1 DEF LedgerInv, Held
  <1> QED BY <1>7, <1>9, <1>12, <1>13, <1>14, <1>15 DEF LedgerInv

\* The frame that the connection reads.
LEMMA HeadIs ==
  ASSUME TypeOK, wire # << >>
  PROVE  /\ Head(wire) = wire[1] /\ 1 \in DOMAIN wire /\ wire[1] \in Messages
         /\ wire[1].stream \in Streams /\ wire[1].sequence \in Nat /\ wire[1].bytes \in Nat
  <1>1. wire \in Seq(Messages) BY DEF TypeOK, ChannelOK
  <1>2. Head(wire) = wire[1] /\ 1 \in DOMAIN wire /\ wire[1] \in Messages BY <1>1
  <1> QED BY <1>2 DEF Messages

\* A report that is read is the ledger's next.
LEMMA LedgerReport ==
  ASSUME TypeOK, Window, LedgerInv, Numbered, ReadReport
  PROVE  LedgerInv'
  <1>1. /\ wire # << >> /\ Up /\ Head(wire).event = "subscription_report" /\ PeerReads
        /\ UNCHANGED <<subscribing, ancestor>>
    BY DEF ReadReport, Received
  <1>2. PICK x : x = Head(wire) OBVIOUS
  <1>3. x = wire[1] /\ 1 \in InFlight /\ x.stream \in Streams /\ x.bytes \in Nat
    BY <1>1, <1>2, HeadIs DEF InFlight
  <1>4. /\ CanRegister(x.stream, x.sequence, x.bytes) /\ ledger_next' = x.sequence + 1
        /\ \/ /\ x.stream \notin closing /\ delivered' = delivered \cup {x.sequence}
              /\ pending' = Registered(x.stream, x.bytes)
              /\ UNCHANGED <<closing, ledger_acknowledged, acks, session>>
           \/ /\ closing' = closing \cup {x.stream}
              /\ Advance(Consumed(Registered(x.stream, x.bytes), x.sequence))
              /\ UNCHANGED delivered
    BY <1>2 DEF ReadReport
  <1>5. Kept BY <1>1, KeptStep DEF HostStep
  <1>6. /\ LedgerType /\ Registry /\ Held /\ ledger_next \in Nat
        /\ ledger_acknowledged.sequence \in Nat
        /\ ledger_acknowledged.sequence < ledger_next /\ next_sequence \in Nat
        /\ session \in {"up", "failing", "down"}
    BY FrameIs DEF LedgerInv, LedgerType, Registry, AckFrames
  <1>7. PICK a \in Nat, m \in Nat : a = ledger_acknowledged.sequence /\ m = ledger_next
    BY <1>6
  <1>8. x.sequence = m /\ x.sequence < next_sequence /\ Carries(x)
    BY <1>1, <1>3, <1>4, <1>7 DEF CanRegister, Numbered
  <1>9. a < m /\ m < next_sequence /\ x.bytes = Frame(m).bytes BY <1>6, <1>7, <1>8 DEF Carries
  <1>10. pending \in [(a + 1)..(m - 1) -> Reports] BY <1>6, <1>7 DEF LedgerType
  <1>11. (a + 1)..(m - 1) \cup {m} = (a + 1)..m BY <1>9
  <1>12. PICK r : r = Registered(x.stream, x.bytes) OBVIOUS
  <1>13. /\ r \in [(a + 1)..m -> Reports]
         /\ r[m] = [stream |-> x.stream, bytes |-> x.bytes, consumed |-> FALSE]
         /\ \A n \in (a + 1)..(m - 1) : r[n] = pending[n]
    <2>1. r = [n \in (a + 1)..m |->
                 IF n = m THEN [stream |-> x.stream, bytes |-> x.bytes, consumed |-> FALSE]
                          ELSE pending[n]]
      BY <1>7, <1>10, <1>11, <1>12 DEF Registered
    <2>2. [stream |-> x.stream, bytes |-> x.bytes, consumed |-> FALSE] \in Reports
      BY <1>3 DEF Reports
    <2>3. \A n \in (a + 1)..m : n = m \/ n \in (a + 1)..(m - 1) BY <1>9
    <2>4. m \in (a + 1)..m BY <1>9
    <2>5. \A n \in (a + 1)..(m - 1) : n # m /\ n \in (a + 1)..m OBVIOUS
    <2> QED BY <1>10, <2>1, <2>2, <2>3, <2>4, <2>5
  <1>14. \A n \in (a + 1)..m : n = m \/ n \in (a + 1)..(m - 1) BY <1>9
  <1>15. \A n \in (a + 1)..m : r[n].bytes = Frame(n).bytes
    BY <1>6, <1>9, <1>10, <1>13, <1>14 DEF Registry
  <1>16. \A n \in (a + 1)..(m - 1) :
           r[n].consumed \/ n \in delivered \/ r[n].stream \in closing
    BY <1>6, <1>10, <1>13 DEF Held
  <1>17. CASE /\ delivered' = delivered \cup {x.sequence} /\ pending' = r
              /\ UNCHANGED <<closing, ledger_acknowledged, acks, session>>
    <2>1. \A n \in (a + 1)..m : r[n].consumed \/ n \in delivered' \/ r[n].stream \in closing'
      BY <1>8, <1>14, <1>16, <1>17
    <2>2. session' = "up" /\ a + 1 \in (a + 1)..m => ~r[a + 1].consumed
      <3> SUFFICES ASSUME session = "up", a + 1 \in (a + 1)..m PROVE ~r[a + 1].consumed
        BY <1>17
      <3>1. CASE a + 1 = m BY <1>13, <3>1
      <3>2. CASE a + 1 \in (a + 1)..(m - 1)
        BY <1>6, <1>7, <1>10, <1>13, <3>2 DEF Held
      <3> QED BY <1>14, <3>1, <3>2
    <2>3. a <= m /\ ledger_next' = m + 1 /\ session' \in {"up", "failing", "down"}
      BY <1>4, <1>6, <1>8, <1>9, <1>17
    <2> QED BY <1>5, <1>7, <1>9, <1>13, <1>15, <1>17, <2>1, <2>2, <2>3, LedgerTakes
  <1>18. CASE closing' = closing \cup {x.stream} /\ Advance(Consumed(r, m)) /\ UNCHANGED delivered
    <2>1. PICK q : q = Consumed(r, m) OBVIOUS
    <2>2. /\ q \in [(a + 1)..m -> Reports] /\ q[m].consumed /\ q[m].bytes = r[m].bytes
          /\ \A n \in (a + 1)..(m - 1) : q[n] = r[n]
      <3>1. m \in (a + 1)..m BY <1>9
      <3>2. q = [n \in (a + 1)..m |-> IF n = m THEN [r[m] EXCEPT !.consumed = TRUE] ELSE r[n]]
        BY <1>13, <2>1, <3>1 DEF Consumed
      <3>3. r[m] \in Reports BY <1>13, <3>1
      <3>4. [r[m] EXCEPT !.consumed = TRUE] \in Reports BY <3>3 DEF Reports
      <3>5. [r[m] EXCEPT !.consumed = TRUE].consumed /\ [r[m] EXCEPT !.consumed = TRUE].bytes = r[m].bytes
        BY <3>3 DEF Reports
      <3>6. \A n \in (a + 1)..(m - 1) : n # m /\ n \in (a + 1)..m OBVIOUS
      <3> QED BY <1>13, <3>1, <3>2, <3>4, <3>5, <3>6
    <2>3. \A n \in (a + 1)..m : q[n].bytes = Frame(n).bytes
      <3>1. \A n \in (a + 1)..m : q[n].bytes = r[n].bytes BY <1>14, <2>2
      <3> QED BY <1>15, <3>1
    <2>4. \A n \in (a + 1)..m : q[n].consumed \/ n \in delivered' \/ q[n].stream \in closing'
      BY <1>14, <1>16, <1>18, <2>2
    <2>5. ledger_next - 1 <= m /\ m <= ledger_next /\ ledger_next' = m + 1 BY <1>4, <1>7, <1>8
    <2>6. Advance(q) BY <1>18, <2>1
    <2> QED BY <1>5, <1>7, <1>9, <2>2, <2>3, <2>4, <2>5, <2>6, LedgerAdvance
  <1> QED BY <1>4, <1>8, <1>12, <1>17, <1>18

\* Reports that differ from the pending ones in their consumption only.
LEMMA LedgerMarks ==
  ASSUME TypeOK, Window, LedgerInv, Kept, UNCHANGED ledger_next,
         NEW r \in [DOMAIN pending -> Reports],
         \A n \in DOMAIN pending : r[n].bytes = pending[n].bytes,
         \A n \in DOMAIN pending : r[n].consumed \/ n \in delivered' \/ r[n].stream \in closing',
         Advance(r)
  PROVE  LedgerInv'
  <1>1. /\ LedgerType /\ Registry /\ ledger_next \in Nat /\ ledger_acknowledged.sequence \in Nat
        /\ ledger_acknowledged.sequence < ledger_next /\ ledger_next <= next_sequence
        /\ next_sequence \in Nat
    BY FrameIs DEF LedgerInv, LedgerType, Registry, AckFrames
  <1>2. PICK a \in Nat, m \in Nat : a = ledger_acknowledged.sequence /\ m = ledger_next - 1
    BY <1>1
  <1>3. /\ ledger_next - 1 <= m /\ m <= ledger_next /\ m < next_sequence
        /\ ledger_next' = m + 1
    BY <1>1, <1>2
  <1>4. DOMAIN pending = (a + 1)..m BY <1>1, <1>2 DEF LedgerType
  <1>5. \A n \in (a + 1)..m : r[n].bytes = Frame(n).bytes BY <1>1, <1>4 DEF Registry
  <1>6. r \in [(a + 1)..m -> Reports] BY <1>4
  <1>7. \A n \in (a + 1)..m : r[n].consumed \/ n \in delivered' \/ r[n].stream \in closing'
    BY <1>4
  <1> QED BY <1>2, <1>3, <1>5, <1>6, <1>7, LedgerAdvance

\* A barrier consumes the reports of its stream.
LEMMA LedgerBarrier == ASSUME TypeOK, Window, LedgerInv, ReadBarrier PROVE LedgerInv'
  <1>1. PICK s : s = Head(wire).stream OBVIOUS
  <1>2. /\ PeerReads /\ closing' = closing \ {s} /\ Advance(RetiredReports(s))
        /\ UNCHANGED <<ledger_next, delivered>>
    BY <1>1 DEF ReadBarrier
  <1>3. Kept BY <1>2, KeptStep DEF HostStep
  <1>4. PICK r : r = RetiredReports(s) OBVIOUS
  <1>5. pending \in [DOMAIN pending -> Reports] BY DEF LedgerInv, LedgerType
  <1>6. ASSUME NEW n \in DOMAIN pending
        PROVE  /\ r[n] \in Reports /\ r[n].bytes = pending[n].bytes
               /\ r[n].stream = pending[n].stream
               /\ r[n].consumed <=> (pending[n].consumed \/ pending[n].stream = s)
    <2>1. pending[n] \in Reports BY <1>5
    <2>2. r[n] = [pending[n] EXCEPT !.consumed = @ \/ pending[n].stream = s]
      BY <1>4 DEF RetiredReports
    <2> QED BY <2>1, <2>2 DEF Reports
  <1>7. r \in [DOMAIN pending -> Reports]
    <2>1. r = [n \in DOMAIN pending |-> r[n]] BY <1>4 DEF RetiredReports
    <2> QED BY <1>6, <2>1
  <1>8. \A n \in DOMAIN pending : r[n].consumed \/ n \in delivered' \/ r[n].stream \in closing'
    BY <1>2, <1>6 DEF LedgerInv, Held
  <1>9. Advance(r) BY <1>2, <1>4
  <1> QED BY <1>2, <1>3, <1>6, <1>7, <1>8, <1>9, LedgerMarks

\* A receiver has consumed a report.
LEMMA LedgerConsume ==
  ASSUME TypeOK, Window, LedgerInv, NEW k, Consume(k)
  PROVE  LedgerInv'
  <1>1. /\ UNCHANGED <<vars, ledger_next, closing>> /\ delivered' = delivered \ {k}
    BY DEF Consume, native
  <1>2. Kept BY <1>1, KeptStep DEF HostStep
  <1>3. pending \in [DOMAIN pending -> Reports] /\ session \in {"up", "failing", "down"}
    BY DEF LedgerInv, LedgerType
  <1>4. CASE k \in DOMAIN pending /\ ~pending[k].consumed
    <2>1. PICK r : r = Consumed(pending, k) OBVIOUS
    <2>2. Advance(r) BY <1>4, <2>1 DEF Consume
    <2>3. pending[k] \in Reports BY <1>3, <1>4
    <2>4. r = [n \in DOMAIN pending |->
                 IF n = k THEN [pending[k] EXCEPT !.consumed = TRUE] ELSE pending[n]]
      BY <1>3, <1>4, <2>1 DEF Consumed
    <2>5. PICK x : x = [pending[k] EXCEPT !.consumed = TRUE] OBVIOUS
    <2>6. x \in Reports /\ x.bytes = pending[k].bytes /\ x.consumed BY <2>3, <2>5 DEF Reports
    <2>7. r = [n \in DOMAIN pending |-> IF n = k THEN x ELSE pending[n]] BY <2>4, <2>5
    <2>8. \A n \in DOMAIN pending : pending[n] \in Reports BY <1>3
    <2>9. r \in [DOMAIN pending -> Reports] BY <2>6, <2>7, <2>8
    <2>10. \A n \in DOMAIN pending : r[n].bytes = pending[n].bytes BY <2>6, <2>7
    <2>11. \A n \in DOMAIN pending : r[n].consumed \/ n \in delivered' \/ r[n].stream \in closing'
      BY <1>1, <2>6, <2>7 DEF LedgerInv, Held
    <2> QED BY <1>1, <1>2, <2>2, <2>9, <2>10, <2>11, LedgerMarks
  <1>5. CASE ~(k \in DOMAIN pending /\ ~pending[k].consumed)
    <2>1. UNCHANGED <<ledger_acknowledged, pending, acks, session>> BY <1>5 DEF Consume
    <2> QED BY <1>1, <1>2, <1>3, <1>5, <2>1, LedgerSame
  <1> QED BY <1>4, <1>5

\* Every step keeps the ledger right.
LEMMA LedgerStep ==
  ASSUME TypeOK, Window, LedgerInv, Numbered, FlowNext
  PROVE  LedgerInv'
  <1>0. session \in {"up", "failing", "down"} BY DEF LedgerInv, LedgerType
  <1> USE DEF ledger, beam, native
  <1>1. CASE ReadReport BY <1>1, LedgerReport
  <1>2. CASE ReadBarrier BY <1>2, LedgerBarrier
  <1>3. CASE \E n \in delivered : Consume(n) BY <1>3, LedgerConsume
  <1>4. CASE HostAcknowledged BY <1>4, LedgerAcknowledged
  <1>5. ASSUME HostStep, UNCHANGED <<ledger_next, ledger_acknowledged, pending, acks, delivered>>,
               closing \subseteq closing', session' = session \/ session' = "down"
        PROVE  LedgerInv'
    <2>1. Kept BY <1>5, KeptStep
    <2> QED BY <1>0, <1>5, <2>1, LedgerSame
  <1>6. CASE ReadResubscribing \/ ReadError \/ ReadRefused
    BY <1>5, <1>6 DEF ReadResubscribing, ReadError, ReadRefused, HostStep
  <1>7. CASE Stops \/ (Locked /\ HostOnly) \/ (WriteFails /\ HostOnly)
    BY <1>5, <1>7 DEF Stops, HostOnly, HostStep
  <1>8. CASE \E n \in delivered : Ignore(n)
    <2>1. PICK k \in delivered : Ignore(k) BY <1>8
    <2>2. Kept BY <2>1, KeptStep DEF Ignore, HostStep
    <2>3. \A n \in DOMAIN pending :
            n \in delivered \/ pending[n].stream \in closing
              => pending[n].consumed \/ n \in delivered' \/ pending[n].stream \in closing'
      BY <2>1 DEF Ignore
    <2>4. UNCHANGED <<ledger_next, ledger_acknowledged, pending, acks, session>> BY <2>1 DEF Ignore
    <2> QED BY <1>0, <2>2, <2>3, <2>4, LedgerSame
  <1>9. ASSUME NEW s \in Streams, Subscribe(s) \/ SubscribeFails(s) \/ Cancel(s)
        PROVE  LedgerInv'
    BY <1>5, <1>9 DEF Subscribe, SubscribeFails, Cancel, HostStep
  <1>10. ASSUME NEW s \in Streams,
                \/ \E q \in QueueLimits : Subscribed(s, q)
                \/ HostSubmits(s) \/ (HostEnds(s) /\ HostOnly)
                \/ \E t \in Streams : HostRecovers(s, t)
         PROVE  LedgerInv'
    <2>1. Handler(s)
      BY <1>10 DEF Subscribed, HostSubmits, HostEnds, HostRecovers, Handler
    <2>2. UNCHANGED <<ledger_next, ledger_acknowledged, pending, acks, delivered, closing, session>>
      BY <1>10 DEF Subscribed, HostSubmits, HostRecovers, HostOnly
    <2> QED BY <1>5, <2>1, <2>2 DEF HostStep
  <1> QED BY <1>1, <1>2, <1>3, <1>4, <1>6, <1>7, <1>8, <1>9, <1>10 DEF FlowNext, Reads

-----------------------------------------------------------------------------
(* The wire.                                                               *)

IsReport(x) == x.event = "subscription_report"

\* The steps of the host that write, and what they write.
HostWrites == (\E s \in Streams : Handler(s)) \/ Locked \/ WriteFails \/ UNCHANGED vars

\* What a step of the host does to the wire and to the next sequence.
LEMMA HostWire ==
  ASSUME TypeOK, Window, HostWrites
  PROVE  \/ UNCHANGED <<wire, next_sequence>>
         \/ \E x \in Messages : ~IsReport(x) /\ wire' = Append(wire, x) /\ UNCHANGED next_sequence
         \/ \E x \in Messages : /\ IsReport(x) /\ wire' = Append(wire, x)
                                /\ x.sequence = next_sequence /\ next_sequence' = next_sequence + 1
                                /\ \A n : n = next_sequence => x.bytes = (Frame(n)').bytes
  <1> USE DEF streams, counters, acknowledged, control
  <1>0. wire \in Seq(Messages) /\ last_transmitted \in [Streams -> Nat]
    BY DEF TypeOK, ChannelOK, StreamsOK
  <1>1. ASSUME NEW s \in Streams, NEW b \in Nat, TransmitFrame(s, b), Accepted' = Accepted
        PROVE  \E x \in Messages : /\ IsReport(x) /\ wire' = Append(wire, x)
                                   /\ x.sequence = next_sequence /\ next_sequence' = next_sequence + 1
                                   /\ \A n : n = next_sequence => x.bytes = (Frame(n)').bytes
    <2>1. PICK m \in Nat : m = next_sequence BY FrameIs
    <2>2. Kept /\ next_sequence' = m + 1 /\ Frame(m)' = SentFrame(s, b)
      BY <1>1, <2>1, KeptTransmit
    <2>3. PICK x : x = ReportMessage(SentFrame(s, b)) OBVIOUS
    <2>4. wire' = Append(wire, x) BY <1>1, <2>3 DEF TransmitFrame
    <2>5. Encoded(b, next_sequence) \in Nat
      <3>1. next_sequence \in 1..MaximumSequence BY DEF TypeOK, SentOK
      <3> QED BY <3>1, EncodedType
    <2>6. /\ x.event = "subscription_report" /\ x.stream = s /\ x.sequence = next_sequence
          /\ x.bytes = Encoded(b, next_sequence) /\ x.bytes = SentFrame(s, b).bytes /\ x \in Messages
      BY <2>1, <2>3, <2>5 DEF ReportMessage, SentFrame, Messages
    <2> QED BY <2>1, <2>2, <2>4, <2>6 DEF IsReport
  <1>2. ASSUME NEW x \in Messages, ~IsReport(x), wire' = wire \o <<x>>
        PROVE  wire' = Append(wire, x)
    BY <1>0, <1>2
  <1>3. ASSUME NEW e \in {"subscription_error", "resubscribing"}, NEW s \in Streams
        PROVE  Control(e, s) \in Messages /\ ~IsReport(Control(e, s))
    BY DEF Control, Messages, IsReport
  <1>4. CASE \E s \in Streams : Handler(s)
    <2>0. PICK s \in Streams : Handler(s) BY <1>4
    <2>1. CASE \E b \in Bodies : SubmitTransmits(s, b)
      <3>1. PICK b \in Bodies : SubmitTransmits(s, b) BY <2>1
      <3>2. b \in Nat /\ TransmitFrame(s, b) /\ Accepted' = Accepted
        BY <3>1, CreditAssumption DEF SubmitTransmits, Accepted
      <3> QED BY <1>1, <3>2
    <2>2. CASE \/ \E q \in QueueLimits : AddStream(s, q)
               \/ \E b \in Bodies : SubmitQueues(s, b) \/ SubmitInvalid(s, b)
      BY <2>2 DEF AddStream, SubmitQueues, SubmitInvalid, FailChannel
    <2>3. ASSUME NEW e \in {"subscription_error", "resubscribing"}, NEW t \in Streams,
                 wire' = wire \o <<Control(e, t)>>, UNCHANGED next_sequence
          PROVE  \E x \in Messages : ~IsReport(x) /\ wire' = Append(wire, x) /\ UNCHANGED next_sequence
      BY <1>2, <1>3, <2>3
    <2>4. CASE EmitFailure(s) \/ \E b \in Bodies : SubmitOverflows(s, b)
      BY <2>3, <2>4 DEF EmitFailure, SubmitOverflows, BeginRetire
    <2>5. CASE \E t \in Streams : BeginRecovery(s, t)
      BY <2>3, <2>5 DEF BeginRecovery, BeginRetire
    <2>6. CASE Unsubscribe(s)
      <3>1. wire' = wire \o << >> /\ UNCHANGED next_sequence BY <2>6 DEF Unsubscribe, BeginRetire
      <3> QED BY <1>0, <3>1
    <2> QED BY <2>0, <2>1, <2>2, <2>4, <2>5, <2>6 DEF Handler
  <1>5. CASE Purge \/ Pop \/ Popped \/ DrainFails \/ Drained \/ WriteFails \/ UNCHANGED vars
    BY <1>5 DEF Purge, Pop, Popped, DrainFails, Drained, WriteFails, FailChannel, vars
  <1>6. CASE RetireBarrier
    <2>1. victim \in Streams BY <1>6 DEF RetireBarrier, TypeOK, ControlOK
    <2>2. Barrier(victim) \in Messages /\ ~IsReport(Barrier(victim))
      BY <1>0, <2>1 DEF Barrier, Messages, IsReport
    <2> QED BY <1>6, <2>2 DEF RetireBarrier
  <1>7. CASE DrainTransmits
    <2>1. /\ queued # << >> /\ TransmitFrame(Pending.stream, Pending.body)
          /\ Accepted' = Accepted
      BY <1>7 DEF DrainTransmits, Accepted
    <2>2. Pending \in QueuedFrames BY <2>1 DEF TypeOK, QueuedOK, Pending
    <2>3. Pending.stream \in Streams /\ Pending.body \in Nat BY <2>2 DEF QueuedFrames
    <2> QED BY <1>1, <2>1, <2>3
  <1> QED BY <1>4, <1>5, <1>6, <1>7 DEF HostWrites, Locked

\* Where a sequence with one more element has what.
LEMMA Appended ==
  ASSUME NEW S, NEW q \in Seq(S), NEW x \in S
  PROVE  /\ Len(q) \in Nat /\ DOMAIN q = 1..Len(q) /\ Append(q, x) \in Seq(S)
         /\ DOMAIN Append(q, x) = 1..(Len(q) + 1)
         /\ Len(Append(q, x)) = Len(q) + 1
         /\ Append(q, x)[Len(q) + 1] = x
         /\ \A i \in 1..Len(q) : Append(q, x)[i] = q[i]
  OBVIOUS

\* The sequence without its first element.
LEMMA Shifted ==
  ASSUME NEW S, NEW q \in Seq(S), q # << >>
  PROVE  /\ Len(q) \in Nat /\ Len(q) > 0 /\ DOMAIN q = 1..Len(q)
         /\ DOMAIN Tail(q) = 1..(Len(q) - 1) /\ Len(Tail(q)) = Len(q) - 1
         /\ \A i \in 1..(Len(q) - 1) : Tail(q)[i] = q[i + 1]
  OBVIOUS

\* The host writes.
LEMMA NumberedWrites ==
  ASSUME TypeOK, Window, LedgerInv, Numbered, HostWrites, UNCHANGED ledger_next, Up' => Up
  PROVE  Numbered'
  <1> SUFFICES ASSUME Up, Up' PROVE Numbered'
    BY DEF Numbered
  <1>1. wire \in Seq(Messages) BY DEF TypeOK, ChannelOK
  <1>2. Kept BY KeptStep DEF HostWrites, HostStep
  <1>3. PICK a \in Nat, e \in Nat, N \in Nat :
          a = ledger_acknowledged.sequence /\ e = ledger_next /\ N = next_sequence
    BY FrameIs DEF LedgerInv, LedgerType, AckFrames
  <1>4. a < e /\ e <= N /\ Accepted <= a BY <1>3 DEF LedgerInv, Registry
  <1>5. \A n \in (a + 1)..(N - 1) : Frame(n)' = Frame(n) BY <1>2, <1>3, <1>4, KeptFrom
  <1>6. \A i \in InFlight : /\ i \in DOMAIN wire /\ wire[i].sequence \in Nat
                            /\ e <= wire[i].sequence /\ wire[i].sequence < N /\ Carries(wire[i])
    <2>1. \A i \in InFlight : i \in DOMAIN wire /\ wire[i] \in Messages BY <1>1 DEF InFlight
    <2> QED BY <1>3, <2>1 DEF Numbered, Messages
  <1>7. /\ \A i, j \in InFlight : i < j => wire[i].sequence < wire[j].sequence
        /\ \A n \in e..(N - 1) : \E i \in InFlight : wire[i].sequence = n
    BY <1>3 DEF Numbered
  <1>8. ASSUME NEW x \in Messages, Carries(x), e <= x.sequence, x.sequence < N
        PROVE  Carries(x)'
    <2>1. PICK n \in Nat : n = x.sequence BY DEF Messages
    <2>2. n \in (a + 1)..(N - 1) BY <1>4, <1>8, <2>1
    <2> QED BY <1>5, <1>8, <2>1, <2>2 DEF Carries
  <1>9. ASSUME NEW i \in InFlight PROVE wire[i] \in Messages
    BY <1>1 DEF InFlight
  <1>10. CASE UNCHANGED <<wire, next_sequence>>
    <2>1. InFlight' = InFlight BY <1>10 DEF InFlight
    <2>2. ASSUME NEW i \in InFlight PROVE Carries(wire[i])'
      <3>1. PICK x \in Messages : x = wire[i] BY <1>9
      <3>2. Carries(x)' BY <1>6, <1>8, <3>1
      <3>3. wire'[i] = x BY <1>10, <3>1
      <3> QED BY <3>2, <3>3 DEF Carries
    <2> QED BY <1>3, <1>6, <1>7, <1>10, <2>1, <2>2 DEF Numbered
  <1>11. ASSUME NEW x \in Messages, wire' = Append(wire, x)
         PROVE  /\ InFlight' = IF IsReport(x) THEN InFlight \cup {Len(wire) + 1} ELSE InFlight
                /\ \A i \in InFlight : wire'[i] = wire[i] /\ i < Len(wire) + 1
                /\ wire'[Len(wire) + 1] = x /\ Len(wire) + 1 \notin InFlight
    <2>1. PICK len \in Nat : len = Len(wire) BY <1>1
    <2>2. /\ DOMAIN wire = 1..len /\ DOMAIN wire' = 1..(len + 1) /\ wire'[len + 1] = x
          /\ \A i \in 1..len : wire'[i] = wire[i]
      BY <1>1, <1>11, <2>1, Appended
    <2>3. \A i \in 1..(len + 1) : i = len + 1 \/ i \in 1..len OBVIOUS
    <2>4. \A i \in 1..len : i \in 1..(len + 1) /\ i < len + 1 OBVIOUS
    <2>5. len + 1 \in 1..(len + 1) OBVIOUS
    <2> QED BY <2>1, <2>2, <2>3, <2>4, <2>5 DEF InFlight, IsReport
  <1>12. ASSUME NEW x \in Messages, NEW i \in InFlight, wire' = Append(wire, x)
         PROVE  Carries(wire[i])'
    <2>1. PICK y \in Messages : y = wire[i] BY <1>9
    <2>2. Carries(y)' BY <1>6, <1>8, <2>1
    <2>3. wire'[i] = y BY <1>11, <1>12, <2>1
    <2> QED BY <2>2, <2>3 DEF Carries
  <1>13. CASE \E x \in Messages : ~IsReport(x) /\ wire' = Append(wire, x) /\ UNCHANGED next_sequence
    <2>1. PICK x \in Messages : ~IsReport(x) /\ wire' = Append(wire, x) /\ UNCHANGED next_sequence
      BY <1>13
    <2>2. InFlight' = InFlight /\ \A i \in InFlight : wire'[i] = wire[i] BY <1>11, <2>1
    <2>3. \A i \in InFlight : Carries(wire[i])' BY <1>12, <2>1
    <2> QED BY <1>3, <1>6, <1>7, <2>1, <2>2, <2>3 DEF Numbered
  <1>14. CASE \E x \in Messages : /\ IsReport(x) /\ wire' = Append(wire, x)
                                  /\ x.sequence = next_sequence /\ next_sequence' = next_sequence + 1
                                  /\ \A n : n = next_sequence => x.bytes = (Frame(n)').bytes
    <2>1. PICK x \in Messages : /\ IsReport(x) /\ wire' = Append(wire, x)
                                /\ x.sequence = N /\ next_sequence' = N + 1
                                /\ x.bytes = (Frame(N)').bytes
      BY <1>3, <1>14
    <2>2. PICK k : k = Len(wire) + 1 OBVIOUS
    <2>3. /\ InFlight' = InFlight \cup {k} /\ wire'[k] = x /\ k \notin InFlight
          /\ \A i \in InFlight : wire'[i] = wire[i] /\ i < k
      BY <1>11, <2>1, <2>2
    <2>4. \A i \in InFlight : Carries(wire[i])' BY <1>12, <2>1
    <2>5. Carries(wire[k])' BY <2>1, <2>3 DEF Carries
    <2>6. ASSUME NEW i \in InFlight'
          PROVE  ledger_next' <= wire'[i].sequence /\ wire'[i].sequence < next_sequence'
      <3>1. CASE i = k
        <4>1. wire'[i].sequence = N /\ ledger_next' = e /\ next_sequence' = N + 1
          BY <1>3, <2>1, <2>3, <3>1
        <4> QED BY <1>4, <4>1
      <3>2. CASE i \in InFlight
        <4>1. PICK c \in Nat : c = wire[i].sequence /\ e <= c /\ c < N BY <1>6, <3>2
        <4>2. wire'[i].sequence = c /\ ledger_next' = e /\ c < N + 1 BY <1>3, <2>3, <3>2, <4>1
        <4> QED BY <2>1, <4>1, <4>2
      <3> QED BY <2>3, <3>1, <3>2
    <2>7. ASSUME NEW i \in InFlight', NEW j \in InFlight', i < j
          PROVE  wire'[i].sequence < wire'[j].sequence
      <3>1. k \in Nat BY <1>1, <2>2
      <3>2. i # k
        <4>1. SUFFICES ASSUME i = k PROVE FALSE OBVIOUS
        <4>2. j = k \/ j < k BY <2>3
        <4>3. j \in Int BY <1>1, <2>3, <3>1 DEF InFlight
        <4> QED BY <2>7, <3>1, <4>1, <4>2, <4>3
      <3>3. i \in InFlight BY <2>3, <3>2
      <3>4. CASE j = k BY <1>6, <2>1, <2>3, <3>3, <3>4
      <3>5. CASE j # k BY <1>7, <2>3, <2>7, <3>3, <3>5
      <3> QED BY <3>4, <3>5
    <2>8. ASSUME NEW n \in ledger_next'..(next_sequence' - 1)
          PROVE  \E i \in InFlight' : wire'[i].sequence = n
      <3>1. n = N \/ n \in e..(N - 1) BY <1>3, <1>4, <2>1
      <3> QED BY <1>7, <2>1, <2>3, <3>1
    <2> QED BY <2>3, <2>4, <2>5, <2>6, <2>7, <2>8 DEF Numbered
  <1> QED BY <1>10, <1>13, <1>14, HostWire

\* The connection reads.
LEMMA NumberedReads ==
  ASSUME TypeOK, Window, LedgerInv, Numbered, Up, PeerReads,
         IF IsReport(Head(wire)) THEN ReadReport ELSE UNCHANGED ledger_next
  PROVE  Numbered'
  <1>1. wire \in Seq(Messages) /\ wire # << >> /\ wire' = Tail(wire)
    BY DEF TypeOK, ChannelOK, PeerReads
  <1>2. Kept BY KeptStep DEF HostStep
  <1>3. PICK a \in Nat, e \in Nat, N \in Nat :
          a = ledger_acknowledged.sequence /\ e = ledger_next /\ N = next_sequence
    BY FrameIs DEF LedgerInv, LedgerType, AckFrames
  <1>4. a < e /\ e <= N /\ Accepted <= a /\ next_sequence' = N
    BY <1>3 DEF LedgerInv, Registry, PeerReads, counters
  <1>5. \A n \in (a + 1)..(N - 1) : Frame(n)' = Frame(n) BY <1>2, <1>3, <1>4, KeptFrom
  <1>6. PICK len \in Nat : len = Len(wire) BY <1>1
  <1>7. /\ len > 0 /\ DOMAIN wire = 1..len /\ DOMAIN wire' = 1..(len - 1)
        /\ \A i \in 1..(len - 1) : wire'[i] = wire[i + 1]
    BY <1>1, <1>6, Shifted
  <1>8. /\ \A i \in InFlight : e <= wire[i].sequence /\ wire[i].sequence < N /\ Carries(wire[i])
        /\ \A i, j \in InFlight : i < j => wire[i].sequence < wire[j].sequence
        /\ \A n \in e..(N - 1) : \E i \in InFlight : wire[i].sequence = n
    BY <1>3 DEF Numbered
  <1>9. ASSUME NEW i \in InFlight
        PROVE  wire[i].sequence \in Nat /\ i \in 1..len /\ wire[i] \in Messages
    <2>1. i \in 1..len /\ wire[i] \in Messages BY <1>1, <1>7 DEF InFlight
    <2> QED BY <2>1 DEF Messages
  <1>10. ASSUME NEW i \in InFlight'
         PROVE  i \in 1..(len - 1) /\ i + 1 \in InFlight /\ i + 1 # 1 /\ wire'[i] = wire[i + 1]
    <2>1. i \in 1..(len - 1) /\ wire'[i].event = "subscription_report" BY <1>7 DEF InFlight
    <2>2. i + 1 \in 1..len /\ i + 1 # 1 BY <2>1
    <2> QED BY <1>7, <2>1, <2>2 DEF InFlight
  <1>11. ASSUME NEW i \in InFlight, i # 1
         PROVE  i - 1 \in InFlight' /\ wire'[i - 1] = wire[i]
    <2>1. i \in 1..len BY <1>9
    <2>2. i - 1 \in 1..(len - 1) /\ (i - 1) + 1 = i BY <1>11, <2>1
    <2>3. wire'[i - 1] = wire[i] BY <1>7, <2>2
    <2> QED BY <1>7, <2>2, <2>3 DEF InFlight
  <1>12. PICK f \in Nat : /\ f = ledger_next' /\ e <= f /\ f <= N
                          /\ \A i \in InFlight : i # 1 => f <= wire[i].sequence
                          /\ \A n \in f..(N - 1) : \E i \in InFlight : i # 1 /\ wire[i].sequence = n
    <2>1. Head(wire) = wire[1] /\ 1 \in 1..len BY <1>1, <1>7, HeadIs
    <2>2. CASE IsReport(Head(wire))
      <3>1. 1 \in InFlight BY <1>7, <2>1, <2>2 DEF InFlight, IsReport
      <3>2. wire[1].sequence = e /\ ledger_next' = e + 1
        BY <1>3, <2>1, <2>2 DEF ReadReport, CanRegister
      <3>3. e < N BY <1>8, <3>1, <3>2
      <3>4. ASSUME NEW i \in InFlight, i # 1 PROVE e + 1 <= wire[i].sequence
        <4>1. 1 < i BY <1>9, <3>4
        <4>2. wire[1].sequence < wire[i].sequence BY <1>8, <3>1, <4>1
        <4> QED BY <1>9, <3>2, <4>2
      <3>5. ASSUME NEW n \in (e + 1)..(N - 1)
            PROVE  \E i \in InFlight : i # 1 /\ wire[i].sequence = n
        <4>1. n \in e..(N - 1) /\ n # e OBVIOUS
        <4> QED BY <1>8, <3>2, <4>1
      <3>6. e + 1 \in Nat /\ e <= e + 1 /\ e + 1 <= N BY <3>3
      <3> QED BY <3>2, <3>4, <3>5, <3>6
    <2>3. CASE ~IsReport(Head(wire))
      <3>1. 1 \notin InFlight BY <2>1, <2>3 DEF InFlight, IsReport
      <3>2. ledger_next' = e BY <1>3, <2>3
      <3> QED BY <1>4, <1>8, <3>1, <3>2
    <2> QED BY <2>2, <2>3
  <1>13. ASSUME NEW i \in InFlight'
         PROVE  /\ f <= wire'[i].sequence /\ wire'[i].sequence < N /\ Carries(wire[i])'
    <2>1. i + 1 \in InFlight /\ i + 1 # 1 /\ wire'[i] = wire[i + 1] BY <1>10
    <2>2. PICK x : x = wire[i + 1] OBVIOUS
    <2>3. x.sequence \in Nat /\ e <= x.sequence /\ x.sequence < N /\ Carries(x) /\ f <= x.sequence
      BY <1>8, <1>9, <1>12, <2>1, <2>2
    <2>4. PICK c \in Nat : c = x.sequence BY <2>3
    <2>5. c \in (a + 1)..(N - 1) BY <1>4, <2>3, <2>4
    <2>6. x.bytes = (Frame(c)').bytes BY <1>5, <2>3, <2>4, <2>5 DEF Carries
    <2>7. Carries(x)' BY <2>4, <2>6 DEF Carries
    <2>8. Carries(wire[i])' BY <2>1, <2>2, <2>7 DEF Carries
    <2> QED BY <2>1, <2>2, <2>3, <2>8
  <1>14. ASSUME NEW i \in InFlight', NEW j \in InFlight', i < j
         PROVE  wire'[i].sequence < wire'[j].sequence
    <2>1. /\ i + 1 \in InFlight /\ wire'[i] = wire[i + 1] /\ i \in 1..(len - 1)
          /\ j + 1 \in InFlight /\ wire'[j] = wire[j + 1] /\ j \in 1..(len - 1)
      BY <1>10
    <2>2. i + 1 < j + 1 BY <1>14, <2>1
    <2> QED BY <1>8, <2>1, <2>2
  <1>15. \A n \in f..(N - 1) : \E i \in InFlight' : wire'[i].sequence = n
    BY <1>11, <1>12
  <1> QED BY <1>4, <1>12, <1>13, <1>14, <1>15 DEF Numbered

\* Every step keeps the reports on the wire in order.
LEMMA NumberedStep ==
  ASSUME TypeOK, Window, LedgerInv, Numbered, FlowNext
  PROVE  Numbered'
  <1> USE DEF ledger, beam, native
  <1>1. CASE Reads
    <2>1. CASE ReadRefused BY <2>1 DEF ReadRefused, Numbered, Up
    <2>2. CASE ReadReport
      BY <2>2, NumberedReads DEF ReadReport, Received, IsReport
    <2>3. CASE ReadResubscribing \/ ReadError \/ ReadBarrier
      BY <2>3, NumberedReads
         DEF ReadResubscribing, ReadError, ReadBarrier, Received, IsReport
    <2> QED BY <1>1, <2>1, <2>2, <2>3 DEF Reads
  <1>2. ASSUME HostWrites, UNCHANGED ledger_next, Up' => Up PROVE Numbered'
    BY <1>2, NumberedWrites
  <1>3. CASE Stops \/ (Locked /\ HostOnly) \/ (WriteFails /\ HostOnly)
    BY <1>2, <1>3 DEF Stops, HostOnly, HostWrites, Up
  <1>4. ASSUME NEW n \in delivered, Consume(n) \/ Ignore(n) PROVE Numbered'
    BY <1>2, <1>4 DEF Consume, Ignore, HostWrites
  <1>5. ASSUME NEW s \in Streams, Subscribe(s) \/ SubscribeFails(s) \/ Cancel(s)
        PROVE  Numbered'
    BY <1>2, <1>5 DEF Subscribe, SubscribeFails, Cancel, HostWrites
  <1>6. ASSUME NEW s \in Streams,
                \/ \E q \in QueueLimits : Subscribed(s, q)
                \/ HostSubmits(s) \/ (HostEnds(s) /\ HostOnly)
                \/ \E t \in Streams : HostRecovers(s, t)
         PROVE  Numbered'
    <2>1. Handler(s)
      BY <1>6 DEF Subscribed, HostSubmits, HostEnds, HostRecovers, Handler
    <2>2. UNCHANGED <<ledger_next, session>>
      BY <1>6 DEF Subscribed, HostSubmits, HostRecovers, HostOnly
    <2> QED BY <1>2, <2>1, <2>2 DEF HostWrites, Up
  <1>7. CASE HostAcknowledged
    <2>1. Acknowledge(Head(acks).sequence, Head(acks).bytes) BY <1>7, LedgerAcknowledged
    <2>2. /\ UNCHANGED <<outstanding, next_sequence, wire, ledger_next, session>>
      BY <1>7, <2>1 DEF Acknowledge, HostAcknowledged, counters
    <2>3. InFlight' = InFlight /\ \A n : Frame(n)' = Frame(n)
      BY <2>2 DEF InFlight, Frame, Base
    <2>4. \A i : Carries(wire[i])' <=> Carries(wire[i]) BY <2>2, <2>3 DEF Carries
    <2> QED BY <2>2, <2>3, <2>4 DEF Numbered, Up
  <1> QED BY <1>1, <1>3, <1>4, <1>5, <1>6, <1>7 DEF FlowNext

\* Every step keeps the types of the connection's tables.
LEMMA ConnectionStep ==
  ASSUME TypeOK, ConnectionType, FlowNext
  PROVE  ConnectionType'
  <1> USE DEF ledger, beam, native
  <1>0. /\ Known \subseteq Streams /\ IsFiniteSet(Known) /\ last \in [Known -> Nat]
        /\ closing \subseteq Streams /\ subscribing \in Streams \cup {NoStream}
        /\ ancestor \in [Streams -> Streams \cup {NoStream}]
    BY DEF ConnectionType
  <1>1. ASSUME UNCHANGED last PROVE Known' = Known BY <1>1 DEF Known
  <1>2. ASSUME NEW s \in Streams, last' = Opened(s)
        PROVE  Known' \subseteq Streams /\ IsFiniteSet(Known') /\ last' \in [Known' -> Nat]
    <2>1. Known' = Known \cup {s} BY <1>2 DEF Opened, Known
    <2>2. IsFiniteSet(Known') BY <1>0, <2>1, FS_AddElement
    <2>3. last' \in [Known \cup {s} -> Nat] BY <1>0, <1>2 DEF Opened
    <2> QED BY <1>0, <2>1, <2>2, <2>3
  <1>3. ASSUME NEW s \in Streams, last' = Without(s)
        PROVE  Known' \subseteq Streams /\ IsFiniteSet(Known') /\ last' \in [Known' -> Nat]
    <2>1. Known' = Known \ {s} BY <1>3 DEF Without, Known
    <2>2. IsFiniteSet(Known') BY <1>0, <2>1, FS_RemoveElement
    <2>3. last' \in [Known \ {s} -> Nat] BY <1>0, <1>3 DEF Without
    <2> QED BY <1>0, <2>1, <2>2, <2>3
  <1>4. CASE Reads
    <2>0. /\ wire # << >> /\ Head(wire).stream \in Streams /\ Head(wire).sequence \in Nat
      <3>1. wire # << >>
        BY <1>4 DEF Reads, ReadReport, ReadResubscribing, ReadError, ReadBarrier, ReadRefused, Received
      <3> QED BY <3>1, HeadIs
    <2>1. PICK s \in Streams : s = Head(wire).stream BY <2>0
    <2>2. CASE ReadReport
      <3>1. /\ s \in Known /\ last' = [last EXCEPT ![s] = Head(wire).sequence]
            /\ closing' \subseteq closing \cup {s} /\ UNCHANGED <<subscribing, ancestor>>
        BY <2>1, <2>2 DEF ReadReport, CanRegister
      <3>2. last' \in [Known -> Nat] /\ Known' = Known BY <1>0, <2>0, <3>1 DEF Known
      <3> QED BY <1>0, <2>1, <3>1, <3>2 DEF ConnectionType
    <2>3. CASE ReadResubscribing
      <3>1. last' = Opened(s) /\ closing' = closing \cup {ancestor[s]} /\ ancestor[s] \in Known
            /\ UNCHANGED <<subscribing, ancestor>>
        BY <2>1, <2>3 DEF ReadResubscribing, CanRecover
      <3> QED BY <1>0, <1>2, <3>1 DEF ConnectionType
    <2>4. CASE ReadError \/ ReadRefused
      <3>1. UNCHANGED <<last, subscribing, ancestor>> /\ closing' \subseteq closing \cup {s}
        BY <2>1, <2>4 DEF ReadError, ReadRefused
      <3> QED BY <1>0, <1>1, <2>1, <3>1 DEF ConnectionType
    <2>5. CASE ReadBarrier
      <3>1. /\ last' = Without(s) /\ closing' = closing \ {s} /\ UNCHANGED subscribing
            /\ ancestor' = [t \in Streams |-> IF ancestor[t] = s THEN NoStream ELSE ancestor[t]]
        BY <2>1, <2>5 DEF ReadBarrier
      <3>2. ancestor' \in [Streams -> Streams \cup {NoStream}] BY <1>0, <3>1
      <3> QED BY <1>0, <1>3, <3>1, <3>2 DEF ConnectionType
    <2> QED BY <1>4, <2>2, <2>3, <2>4, <2>5 DEF Reads
  <1>5. ASSUME UNCHANGED <<last, closing, ancestor>>, subscribing' \in {subscribing, NoStream}
        PROVE  ConnectionType'
    BY <1>0, <1>1, <1>5 DEF ConnectionType
  <1>6. CASE \/ Stops \/ HostAcknowledged \/ (Locked /\ HostOnly) \/ (WriteFails /\ HostOnly)
             \/ \E n \in delivered : Consume(n) \/ Ignore(n)
    BY <1>5, <1>6 DEF Stops, HostAcknowledged, HostOnly, Consume, Ignore
  <1>7. ASSUME NEW s \in Streams,
                \/ \E q \in QueueLimits : Subscribed(s, q)
                \/ HostSubmits(s) \/ (HostEnds(s) /\ HostOnly)
        PROVE  ConnectionType'
    BY <1>5, <1>7 DEF Subscribed, HostSubmits, HostOnly
  <1>8. ASSUME NEW s \in Streams, NEW t \in Streams, HostRecovers(s, t)
        PROVE  ConnectionType'
    <2>1. ancestor' = [ancestor EXCEPT ![t] = s] /\ UNCHANGED <<last, closing, subscribing>>
      BY <1>8 DEF HostRecovers
    <2>2. ancestor' \in [Streams -> Streams \cup {NoStream}] BY <1>0, <2>1
    <2> QED BY <1>0, <1>1, <2>1, <2>2 DEF ConnectionType
  <1>9. ASSUME NEW s \in Streams, Subscribe(s) PROVE ConnectionType'
    <2>1. last' = Opened(s) /\ subscribing' = s /\ UNCHANGED <<closing, ancestor>>
      BY <1>9 DEF Subscribe
    <2> QED BY <1>0, <1>2, <2>1 DEF ConnectionType
  <1>10. ASSUME NEW s \in Streams, SubscribeFails(s) PROVE ConnectionType'
    <2>1. last' = Without(s) /\ subscribing' = NoStream /\ UNCHANGED <<closing, ancestor>>
      BY <1>10 DEF SubscribeFails
    <2> QED BY <1>0, <1>3, <2>1 DEF ConnectionType
  <1>11. ASSUME NEW s \in Streams, Cancel(s) PROVE ConnectionType'
    BY <1>0, <1>1, <1>11 DEF Cancel, ConnectionType
  <1> QED BY <1>4, <1>6, <1>7, <1>8, <1>9, <1>10, <1>11 DEF FlowNext

\* The numbers stay right.
LEMMA NumberStep ==
  ASSUME TypeOK, Window, NumberInv, FlowNext
  PROVE  NumberInv'
  BY LedgerStep, NumberedStep, ConnectionStep DEF NumberInv

-----------------------------------------------------------------------------
(* Credit.                                                                 *)

\* The numbers say that every acknowledgement under way is accepted.
LEMMA NumberAcks == TypeOK /\ Window /\ NumberInv => AcksAccepted
  <1> SUFFICES ASSUME TypeOK, Window, NumberInv, NEW i \in DOMAIN acks
               PROVE  /\ \E k \in DOMAIN outstanding :
                           /\ outstanding[k].sequence = acks[i].sequence
                           /\ outstanding[k].cumulative = acks[i].bytes
                      /\ i > 1 => acks[i - 1].sequence < acks[i].sequence
    BY DEF AcksAccepted
  <1>1. LedgerInv /\ acks \in Seq(AckFrames) BY DEF NumberInv, LedgerInv, LedgerType
  <1>2. ASSUME i > 1 PROVE acks[i - 1].sequence < acks[i].sequence
    <2>1. i \in Nat /\ i - 1 \in DOMAIN acks /\ i - 1 < i BY <1>1, <1>2
    <2> QED BY <1>1, <2>1 DEF LedgerInv, Quoted
  <1> QED BY <1>1, <1>2, AckOutstanding

\* There are as many reports on the wire as the ledger has not registered.
LEMMA CountInFlight ==
  ASSUME TypeOK, Window, NumberInv, Up
  PROVE  ledger_next + Cardinality(InFlight) = next_sequence
  <1>1. PICK e \in Nat, N \in Nat : e = ledger_next /\ N = next_sequence /\ e <= N
    BY FrameIs DEF NumberInv, LedgerInv, LedgerType, Registry
  <1>2. /\ \A i \in InFlight : e <= wire[i].sequence /\ wire[i].sequence < N
        /\ \A i, j \in InFlight : i < j => wire[i].sequence < wire[j].sequence
        /\ \A n \in e..(N - 1) : \E i \in InFlight : wire[i].sequence = n
    BY <1>1 DEF NumberInv, Numbered
  <1>3. wire \in Seq(Messages) BY DEF TypeOK, ChannelOK
  <1>4. PICK len \in Nat : len = Len(wire) /\ DOMAIN wire = 1..len BY <1>3
  <1>5. InFlight \subseteq 1..len BY <1>4 DEF InFlight
  <1>6. \A i \in InFlight : wire[i].sequence \in Nat
    <2>1. \A i \in InFlight : wire[i] \in Messages BY <1>3, <1>4, <1>5
    <2> QED BY <2>1 DEF Messages
  <1>7. IsFiniteSet(InFlight)
    <2>1. IsFiniteSet(1..len) BY FS_Interval
    <2> QED BY <1>5, <2>1, FS_Subset
  <1> DEFINE f == [i \in InFlight |-> wire[i].sequence]
  <1>8. \A i \in InFlight : f[i] = wire[i].sequence OBVIOUS
  <1>9. f \in [InFlight -> e..(N - 1)]
    <2>1. \A i \in InFlight : wire[i].sequence \in e..(N - 1) BY <1>2, <1>6
    <2> QED BY <2>1
  <1> HIDE DEF f
  <1>10. ASSUME NEW i \in InFlight, NEW j \in InFlight, f[i] = f[j] PROVE i = j
    <2>1. i \in Nat /\ j \in Nat BY <1>5
    <2>2. i < j => f[i] < f[j] BY <1>2, <1>8
    <2>3. j < i => f[j] < f[i] BY <1>2, <1>8
    <2>4. f[i] \in Nat /\ f[j] \in Nat BY <1>6, <1>8
    <2>5. ~(i < j) /\ ~(j < i) BY <1>10, <2>2, <2>3, <2>4
    <2> QED BY <2>1, <2>5
  <1>11. \A n \in e..(N - 1) : \E i \in InFlight : f[i] = n BY <1>2, <1>8
  <1>12. ExistsBijection(InFlight, e..(N - 1))
    <2>1. f \in Injection(InFlight, e..(N - 1))
      BY <1>9, <1>10 DEF Injection, IsInjective
    <2>2. f \in Surjection(InFlight, e..(N - 1)) BY <1>9, <1>11 DEF Surjection
    <2> QED BY <2>1, <2>2 DEF ExistsBijection, Bijection
  <1>13. Cardinality(e..(N - 1)) = Cardinality(InFlight) BY <1>7, <1>12, FS_Bijection
  <1>14. Cardinality(e..(N - 1)) = IF e > N - 1 THEN 0 ELSE (N - 1) - e + 1
    <2>1. e \in Int /\ N - 1 \in Int OBVIOUS
    <2> QED BY <2>1, FS_Interval
  <1>15. Cardinality(InFlight) = N - e BY <1>1, <1>13, <1>14
  <1> QED BY <1>1, <1>15

\* The numbers say that credit is conserved.
LEMMA NumberConserves == TypeOK /\ Window /\ NumberInv => CreditConserved
  <1> SUFFICES ASSUME TypeOK, Window, NumberInv, Up, phase # "pop"
               PROVE  /\ ledger_next + Cardinality(InFlight) = next_sequence
                      /\ DOMAIN pending = (ledger_acknowledged.sequence + 1)..(ledger_next - 1)
                      /\ ledger_acknowledged =
                           IF acks = << >>
                             THEN [sequence |-> acknowledged_sequence, bytes |-> acknowledged_bytes]
                             ELSE acks[Len(acks)]
    BY DEF CreditConserved
  <1>1. DOMAIN pending = (ledger_acknowledged.sequence + 1)..(ledger_next - 1)
    BY DEF NumberInv, LedgerInv, LedgerType
  <1>2. /\ ledger_acknowledged \in AckFrames /\ Quotes(ledger_acknowledged)
        /\ acks = << >> => ledger_acknowledged.sequence = Accepted
        /\ acks # << >> => acks[Len(acks)] = ledger_acknowledged
    BY DEF NumberInv, LedgerInv, LedgerType, Registry, Quoted
  <1>3. ASSUME acks = << >>
        PROVE  ledger_acknowledged = [sequence |-> acknowledged_sequence, bytes |-> acknowledged_bytes]
    <2>1. PICK a \in Nat : a = acknowledged_sequence BY DEF TypeOK, AcknowledgedOK
    <2>2. Accepted = a /\ Base = a /\ Cum(a) = acknowledged_bytes
      BY <2>1, FrameIs DEF Accepted
    <2>3. ledger_acknowledged.sequence = a /\ ledger_acknowledged.bytes = Cum(a)
      BY <1>2, <1>3, <2>2 DEF Quotes
    <2> QED BY <1>2, <2>1, <2>2, <2>3 DEF AckFrames
  <1> QED BY <1>1, <1>2, <1>3, CountInFlight

\* The numbers, and the records of the host, say that all credit comes back.
LEMMA NumberComesBack ==
  TypeOK /\ Window /\ Accounting /\ NumberInv => CreditComesBack
  <1> SUFFICES ASSUME TypeOK, Window, Accounting, NumberInv, healthy, session = "up", Ready,
                      wire = << >>, acks = << >>, delivered = {}, closing = {}
               PROVE  outstanding = << >> /\ \A s \in Streams : ~IsRetired(s)
    BY DEF CreditComesBack
  <1>1. PICK a \in Nat, e \in Nat, N \in Nat, len \in Nat :
          /\ a = ledger_acknowledged.sequence /\ e = ledger_next /\ N = next_sequence
          /\ len = Len(outstanding)
    BY FrameIs DEF NumberInv, LedgerInv, LedgerType, AckFrames
  <1>2. /\ a < e /\ e <= N /\ a = Accepted /\ phase # "pop"
        /\ pending \in [(a + 1)..(e - 1) -> Reports]
    BY <1>1 DEF NumberInv, LedgerInv, LedgerType, Registry, Quoted, Ready
  <1>3. e = N
    <2>1. InFlight = {} BY DEF InFlight
    <2>2. Up BY DEF Up
    <2>3. \A n \in e..(N - 1) : FALSE BY <1>1, <2>1, <2>2 DEF NumberInv, Numbered
    <2> QED BY <1>2, <2>3
  <1>4. e = a + 1
    <2>1. SUFFICES ASSUME e # a + 1 PROVE FALSE OBVIOUS
    <2>2. a + 1 \in (a + 1)..(e - 1) BY <1>2, <2>1
    <2>3. a + 1 \in DOMAIN pending BY <1>2, <2>2
    <2> QED BY <1>1, <2>3 DEF NumberInv, LedgerInv, Held
  <1>5. acknowledged_sequence = a BY <1>2 DEF Accepted
  <1>6. N - 1 - len = a BY <1>1, <1>2, <1>5, FrameIs DEF Base
  <1>7. len = 0 BY <1>3, <1>4, <1>6
  <1>8. outstanding \in Seq(SentFrames) BY DEF TypeOK, SentOK
  <1>9. outstanding = << >>
    <2>1. Len(outstanding) = 0 BY <1>1, <1>7
    <2> QED BY <1>8, <2>1
  <1>10. ASSUME NEW s \in Streams PROVE ~IsRetired(s)
    <2>1. At(outstanding, s) = {} BY <1>9 DEF At
    <2>2. CountOf(outstanding, s) = 0 BY <1>8, <2>1, CountType
    <2> QED BY <2>2 DEF Accounting, NoRecordLeak, Ready
  <1> QED BY <1>9, <1>10

\* The ledger starts as the manager does.
LEMMA InitNumber == FlowInit => NumberInv
  <1> SUFFICES ASSUME FlowInit PROVE NumberInv
    OBVIOUS
  <1>1. /\ Init /\ ledger_next = 1 /\ ledger_acknowledged = [sequence |-> 0, bytes |-> 0]
        /\ pending = << >> /\ last = << >> /\ subscribing = NoStream /\ closing = {}
        /\ ancestor = [s \in Streams |-> NoStream] /\ acks = << >> /\ session = "up"
        /\ next_sequence = 1 /\ outstanding = << >> /\ cumulative_bytes = 0 /\ outstanding_bytes = 0
        /\ acknowledged_sequence = 0 /\ phase = "idle" /\ wire = << >>
    BY DEF FlowInit, Init
  <1>2. Base = 0 /\ Cum(0) = 0 /\ Accepted = 0
    <2>1. Len(outstanding) = 0 BY <1>1
    <2>2. Base = 0
      <3>1. next_sequence = 1 BY <1>1
      <3> QED BY <2>1, <3>1 DEF Base
    <2> QED BY <1>1, <2>2 DEF Cum, Accepted
  <1>3. 1..0 = {} OBVIOUS
  <1>4. LedgerType
    <2>1. ledger_acknowledged.sequence + 1 = 1 /\ ledger_next - 1 = 0 BY <1>1
    <2>2. pending \in [1..0 -> Reports] BY <1>1, <1>3
    <2>3. acks \in Seq(AckFrames) BY <1>1
    <2>4. ledger_acknowledged \in AckFrames BY <1>1 DEF AckFrames
    <2>5. pending \in [(ledger_acknowledged.sequence + 1)..(ledger_next - 1) -> Reports]
      BY <2>1, <2>2
    <2> QED BY <1>1, <2>3, <2>4, <2>5 DEF LedgerType
  <1>5. Registry /\ Quoted /\ Held
    <2>1. DOMAIN pending = {} /\ DOMAIN acks = {} BY <1>1
    <2>2. Quotes(ledger_acknowledged) BY <1>1, <1>2 DEF Quotes
    <2> QED BY <1>1, <1>2, <2>1, <2>2 DEF Registry, Quoted, Held
  <1>6. ConnectionType
    <2>1. Known = {} BY <1>1 DEF Known
    <2>2. last \in [{} -> Nat] /\ IsFiniteSet({}) BY <1>1, FS_EmptySet
    <2> QED BY <1>1, <2>1, <2>2 DEF ConnectionType
  <1>7. Numbered
    <2>1. InFlight = {} BY <1>1 DEF InFlight
    <2>2. ledger_next..(next_sequence - 1) = {} BY <1>1
    <2> QED BY <2>1, <2>2 DEF Numbered
  <1> QED BY <1>4, <1>5, <1>6, <1>7 DEF NumberInv, LedgerInv

\* A step, or a stutter, keeps the numbers right.
LEMMA NumberSame == TypeOK /\ Window /\ NumberInv /\ [FlowNext]_allvars => NumberInv'
  <1> SUFFICES ASSUME TypeOK, Window, NumberInv, [FlowNext]_allvars PROVE NumberInv'
    OBVIOUS
  <1>1. CASE FlowNext BY <1>1, NumberStep
  <1>2. CASE UNCHANGED allvars
    BY <1>2 DEF allvars, native, beam, ledger, vars, streams, counters, acknowledged, control,
       NumberInv, LedgerInv, LedgerType, Registry, Quoted, Held, ConnectionType, Numbered,
       Quotes, Carries, InFlight, Known, Up, Cum, Frame, Base, Accepted
  <1> QED BY <1>1, <1>2

\* The numbers are right in every state.
LEMMA NumberCorrect == FlowSpec => []NumberInv
  BY InitNumber, NumberSame, FlowImplements, TypeCorrect, WindowCorrect, PTL DEF FlowSpec

\* Credit is conserved whatever crosses on the two channels: a frame in flight
\* is on the wire, in the ledger, or covered by an acknowledgement under way.
THEOREM CreditConservedCorrect == FlowSpec => []CreditConserved
  BY NumberCorrect, NumberConserves, FlowImplements, TypeCorrect, WindowCorrect, PTL

\* When all has been read, answered, retired and acknowledged, the host has
\* its whole credit back and no record of a retired stream.
THEOREM CreditComesBackCorrect == FlowSpec => []CreditComesBack
  BY NumberCorrect, NumberComesBack, FlowImplements, TypeCorrect, WindowCorrect,
     AccountingCorrect, PTL

-----------------------------------------------------------------------------
(* The streams: what a step that is not theirs leaves.                     *)

\* The frames of stream s as they were.
Untouched(s) ==
  /\ \A j : j \in DOMAIN wire' /\ wire'[j].stream = s <=> j \in DOMAIN wire /\ wire[j].stream = s
  /\ \A j \in DOMAIN wire : wire[j].stream = s => wire'[j] = wire[j]

\* Nor does the step change what the ledger knows of s, make it a sender, or
\* subscribe to it.
Aside(s) ==
  /\ s \in Known' <=> s \in Known
  /\ s \in Known => last'[s] = last[s]
  /\ Sender(s)' => Sender(s) /\ last_transmitted'[s] = last_transmitted[s]
  /\ status'[s] = "absent" => last_transmitted'[s] = 0
  /\ subscribing' = s =>
       /\ subscribing = s /\ s \notin closing' /\ status'[s] = "absent"
       /\ victim' # s /\ successor' # s /\ ancestor'[s] = ancestor[s]

\* A step that is aside of stream s keeps what is said of s alone.
LEMMA OwnSame ==
  ASSUME NEW s \in Streams, Own(s), Untouched(s), Aside(s)
  PROVE  Own(s)'
  <1>1. \A e : On(e, s)' = On(e, s) BY DEF Untouched, On
  <1>2. \A e : \A i \in On(e, s) : i \in DOMAIN wire /\ wire'[i] = wire[i] BY DEF Untouched, On
  <1>3. StatusFirst(s)' BY <1>1 DEF Own, StatusFirst, Untouched, Aside
  <1>4. Opens(s)' BY <1>1 DEF Own, Opens, Untouched, Aside
  <1>5. BarrierLast(s)' BY <1>1 DEF Own, BarrierLast, Untouched, Aside
  <1>6. Asked(s)' BY DEF Own, Asked, Untouched, Aside
  <1>7. ASSUME NEW n, LastIs(s, n) PROVE LastIs(s, n)'
    BY <1>1, <1>2, <1>7 DEF LastIs, Aside
  <1>8. Lasts(s)'
    <2>1. ASSUME Sender(s)' PROVE LastIs(s, last_transmitted[s])'
      <3>1. PICK n : n = last_transmitted[s] OBVIOUS
      <3>2. LastIs(s, n) /\ last_transmitted'[s] = n BY <2>1, <3>1 DEF Own, Lasts, Aside
      <3>3. LastIs(s, n)' BY <1>7, <3>2
      <3> QED BY <3>2, <3>3 DEF LastIs
    <2>2. ASSUME NEW i \in On("stream_retired", s)' PROVE LastIs(s, wire[i].sequence)'
      <3>1. PICK n : n = wire[i].sequence OBVIOUS
      <3>2. i \in On("stream_retired", s) /\ wire'[i] = wire[i] BY <1>1, <1>2
      <3>3. LastIs(s, n)' BY <1>7, <3>1, <3>2 DEF Own, Lasts
      <3>4. wire'[i].sequence = n BY <3>1, <3>2
      <3> QED BY <3>3, <3>4 DEF LastIs
    <2> QED BY <2>1, <2>2 DEF Lasts, Aside
  <1> QED BY <1>3, <1>4, <1>5, <1>6, <1>8 DEF Own

\* The frames on the wire stay; others may follow.
Extended == \A i \in DOMAIN wire : i \in DOMAIN wire' /\ wire'[i] = wire[i]

\* A barrier that was expected still is, when nothing has left the wire.
LEMMA AnnouncedSame ==
  ASSUME NEW s \in Streams, Announced(s), Extended,
         On("stream_retired", s)' # {} \/ victim' = s => On("stream_retired", s) # {} \/ victim = s,
         s \in closing => s \in closing',
         \A t \in Streams : ancestor[t] = s /\ On("resubscribing", t) # {} => ancestor'[t] = s
  PROVE  Announced(s)'
  <1>1. \A e, t : On(e, t) # {} => On(e, t)' # {} BY DEF Extended, On
  <1> QED BY <1>1 DEF Announced

\* The barrier of a replaced stream still follows its status.
LEMMA ReplacesSame ==
  ASSUME TypeOK, TypeOK', NEW t \in Streams, Replaces(t), ancestor'[t] = ancestor[t], Extended,
         On("resubscribing", t)' = On("resubscribing", t),
         t \in Known => t \in Known',
         ancestor[t] # NoStream /\ ancestor[t] \in Known => ancestor[t] \in Known',
         victim # NoStream =>
           \/ wire' = wire /\ victim' = victim
           \/ /\ Len(wire) + 1 \in DOMAIN wire'
              /\ wire'[Len(wire) + 1].event = "stream_retired"
              /\ wire'[Len(wire) + 1].stream = victim
  PROVE  Replaces(t)'
  <1>1. \A j : IsBarrier(j, ancestor[t]) => IsBarrier(j, ancestor[t])'
    BY DEF IsBarrier, Extended
  <1>2. wire = << >> => Len(wire) + 1 = 1 OBVIOUS
  <1> QED BY <1>1, <1>2 DEF Replaces, IsBarrier

\* A step that writes nothing for the connection to read, and opens or
\* forgets nothing in the ledger.
LEMMA QuietStreams ==
  ASSUME TypeOK, TypeOK', AllStreams, UNCHANGED <<wire, last, ancestor>>,
         closing \subseteq closing', closing' \subseteq Known,
         \A s \in Streams : Aside(s),
         victim # NoStream => victim' = victim,
         \A s \in Streams : victim' = s => victim = s \/ s \in closing'
  PROVE  AllStreams'
  <1>1. Known' = Known /\ Subscriptions' = Subscriptions BY DEF Known, Subscriptions
  <1>2. Extended /\ \A e, s : On(e, s)' = On(e, s) BY DEF Extended, On
  <1>3. ASSUME NEW s \in Streams PROVE StreamOK(s)'
    <2>1. Own(s) /\ Announced(s) /\ Replaces(s) BY DEF AllStreams, StreamOK
    <2>2. Untouched(s) BY DEF Untouched
    <2>3. Own(s)' BY <2>1, <2>2, OwnSame
    <2>4. Announced(s)'
      <3>1. CASE victim' = s /\ victim # s BY <3>1 DEF Announced
      <3>2. CASE ~(victim' = s /\ victim # s)
        BY <1>2, <2>1, <3>2, AnnouncedSame
      <3> QED BY <3>1, <3>2
    <2>5. Replaces(s)' BY <1>1, <1>2, <2>1, ReplacesSame
    <2> QED BY <2>3, <2>4, <2>5 DEF StreamOK
  <1> QED BY <1>1, <1>3 DEF AllStreams

\* Nothing that concerns the streams changes.
StreamsSame == UNCHANGED <<status, last_transmitted, victim, successor, last, subscribing, ancestor>>

\* Such a step is aside of every stream.
LEMMA AsideSame ==
  ASSUME NEW s \in Streams, StreamOK(s), StreamsSame, subscribing = s => s \notin closing'
  PROVE  Aside(s)
  BY DEF StreamOK, Own, Lasts, Asked, Aside, StreamsSame, Sender, IsLive, Known

\* A step that concerns no stream keeps them all.
LEMMA StreamsIdle ==
  ASSUME TypeOK, TypeOK', AllStreams, StreamsSame, UNCHANGED <<wire, closing>>
  PROVE  AllStreams'
  <1>1. \A s \in Streams : Aside(s)
    <2>1. \A s \in Streams : StreamOK(s) /\ (subscribing = s => s \notin closing')
      BY DEF AllStreams, StreamOK, Own, Asked
    <2> QED BY <2>1, AsideSame
  <1>2. closing' \subseteq Known BY DEF AllStreams
  <1> QED BY <1>1, <1>2, QuietStreams DEF StreamsSame

\* Cancellation.
LEMMA StreamsCancel ==
  ASSUME TypeOK, TypeOK', AllStreams, NEW s \in Streams, Cancel(s)
  PROVE  AllStreams'
  <1>1. /\ s \in Known /\ IsLive(s) /\ closing' = closing \cup {s}
        /\ StreamsSame /\ UNCHANGED wire
    BY DEF Cancel, StreamsSame, native, vars, streams, control, ledger
  <1>2. \A u \in Streams : Aside(u)
    <2>1. \A u \in Streams : StreamOK(u) /\ (subscribing = u => u \notin closing')
      BY <1>1 DEF AllStreams, StreamOK, Own, Asked, IsLive
    <2> QED BY <1>1, <2>1, AsideSame
  <1>3. closing \subseteq closing' /\ closing' \subseteq Known BY <1>1 DEF AllStreams
  <1> QED BY <1>1, <1>2, <1>3, QuietStreams DEF StreamsSame

\* The host forgets the record of a retired stream, or keeps it.
LEMMA StreamsPop ==
  ASSUME AccountInv, TypeOK', AllStreams, Pop, HostOnly
  PROVE  AllStreams'
  <1>1. /\ TypeOK /\ phase = "pop" /\ outstanding # << >> /\ SentCounted
        /\ UNCHANGED <<wire, last, ancestor, closing, victim, successor, subscribing>>
        /\ status \in [Streams -> {"absent", "live", "retired"}]
        /\ last_transmitted \in [Streams -> Nat]
    BY DEF Pop, Popping, HostOnly, beam, ledger, control, AccountInv, TypeOK, StreamsOK
  <1>2. PICK f : f = Head(outstanding).stream OBVIOUS
  <1>3. f \in Streams /\ status[f] # "absent"
    <2>1. outstanding \in Seq(SentFrames) BY <1>1 DEF TypeOK, SentOK
    <2>2. 1 \in DOMAIN outstanding /\ Head(outstanding) = outstanding[1] BY <1>1, <2>1
    <2>3. f \in Streams /\ stream_outstanding[f] > 0 BY <1>1, <1>2, <2>2, CountedPositive
    <2> QED BY <2>3 DEF AccountInv, Homed
  <1>4. \/ UNCHANGED <<status, last_transmitted>>
        \/ /\ status[f] # "live" /\ status' = [status EXCEPT ![f] = "absent"]
           /\ last_transmitted' = [last_transmitted EXCEPT ![f] = 0]
    BY <1>2 DEF Pop, Release, Erase, streams
  <1>5. victim = NoStream /\ successor = NoStream /\ NoStream \notin Streams
    BY <1>1, CreditAssumption DEF AccountInv, Attended
  <1>6. CASE UNCHANGED <<status, last_transmitted>>
    BY <1>1, <1>6, StreamsIdle DEF StreamsSame
  <1>7. CASE /\ status[f] # "live" /\ status' = [status EXCEPT ![f] = "absent"]
             /\ last_transmitted' = [last_transmitted EXCEPT ![f] = 0]
    <2>1. ASSUME NEW s \in Streams PROVE Aside(s)
      <3>1. StreamOK(s) BY DEF AllStreams
      <3>2. s # f => status'[s] = status[s] /\ last_transmitted'[s] = last_transmitted[s]
        BY <1>1, <1>3, <1>7
      <3>3. status'[f] = "absent" /\ last_transmitted'[f] = 0 /\ subscribing # f
        BY <1>1, <1>3, <1>7 DEF AllStreams, StreamOK, Own, Asked
      <3> QED BY <1>1, <1>3, <1>5, <1>7, <3>1, <3>2, <3>3
          DEF StreamOK, Own, Lasts, Asked, Aside, Sender, IsLive, Known
    <2> QED BY <1>1, <2>1, QuietStreams DEF AllStreams
  <1> QED BY <1>4, <1>6, <1>7

\* The host registers the subscription.
LEMMA StreamsSubscribed ==
  ASSUME AccountInv, TypeOK', AllStreams, NEW s \in Streams, NEW q, Subscribed(s, q)
  PROVE  AllStreams'
  <1>1. /\ TypeOK /\ subscribing = s /\ subscribing' = NoStream
        /\ status' = [status EXCEPT ![s] = "live"] /\ status[s] = "absent"
        /\ UNCHANGED <<wire, last, ancestor, closing, victim, successor, last_transmitted>>
        /\ status \in [Streams -> {"absent", "live", "retired"}]
    BY DEF Subscribed, AddStream, Admits, Open, ledger, control, AccountInv, TypeOK, StreamsOK
  <1>2. ASSUME NEW u \in Streams PROVE Aside(u)
    <2>1. StreamOK(u) BY DEF AllStreams
    <2>2. u # s => status'[u] = status[u] BY <1>1
    <2>3. status'[s] = "live" /\ NoStream \notin Streams BY <1>1, CreditAssumption
    <2> QED BY <1>1, <2>1, <2>2, <2>3
        DEF StreamOK, Own, Lasts, Asked, Aside, Sender, IsLive, Known
  <1> QED BY <1>1, <1>2, QuietStreams DEF AllStreams

\* The host starts to retire a stream that was cancelled.
LEMMA StreamsUnsubscribe ==
  ASSUME AccountInv, TypeOK', AllStreams, NEW s \in Streams, s \in closing, Unsubscribe(s), HostOnly
  PROVE  AllStreams'
  <1>1. /\ TypeOK /\ phase = "idle" /\ status' = [status EXCEPT ![s] = "retired"]
        /\ status[s] = "live" /\ wire' = wire \o << >> /\ victim' = s /\ successor' = NoStream
        /\ UNCHANGED <<last, ancestor, closing, subscribing, last_transmitted>>
        /\ status \in [Streams -> {"absent", "live", "retired"}] /\ wire \in Seq(Messages)
    BY DEF Unsubscribe, BeginRetire, HostOnly, beam, ledger, Ready, IsLive, AccountInv, TypeOK,
       StreamsOK, ChannelOK
  <1>2. wire' = wire BY <1>1
  <1>3. victim = NoStream /\ successor = NoStream /\ NoStream \notin Streams
    BY <1>1, CreditAssumption DEF AccountInv, Attended
  <1>4. ASSUME NEW u \in Streams PROVE Aside(u)
    <2>1. StreamOK(u) BY DEF AllStreams
    <2>2. u # s => status'[u] = status[u] BY <1>1
    <2>3. status'[s] = "retired" BY <1>1
    <2> QED BY <1>1, <1>3, <2>1, <2>2, <2>3
        DEF StreamOK, Own, Lasts, Asked, Aside, Sender, IsLive, Known
  <1> QED BY <1>1, <1>2, <1>3, <1>4, QuietStreams DEF AllStreams

\* The drain ends, and a recovery adds its stream.
LEMMA StreamsDrained ==
  ASSUME AccountInv, TypeOK', AllStreams, Drained, HostOnly
  PROVE  AllStreams'
  <1>1. /\ TypeOK /\ phase = "drain" /\ victim' = NoStream /\ successor' = NoStream
        /\ UNCHANGED <<wire, last, ancestor, closing, subscribing, last_transmitted>>
        /\ IF successor = NoStream THEN UNCHANGED status
                                   ELSE status' = [status EXCEPT ![successor] = "live"]
        /\ status \in [Streams -> {"absent", "live", "retired"}]
        /\ successor \in Streams \cup {NoStream}
    BY DEF Drained, Draining, Finish, Open, streams, HostOnly, beam, ledger, AccountInv, TypeOK,
       StreamsOK, ControlOK
  <1>2. victim = NoStream /\ NoStream \notin Streams
    BY <1>1, CreditAssumption DEF AccountInv, Attended
  <1>3. ASSUME NEW u \in Streams PROVE Aside(u)
    <2>1. StreamOK(u) BY DEF AllStreams
    <2>2. u # successor => status'[u] = status[u] BY <1>1
    <2>3. u = successor => status'[u] = "live" BY <1>1, <1>2
    <2> QED BY <1>1, <1>2, <2>1, <2>2, <2>3
        DEF StreamOK, Own, Lasts, Asked, Aside, Sender, IsLive, Known
  <1> QED BY <1>1, <1>2, <1>3, QuietStreams DEF AllStreams

\* No stream is subscribed to and replaced, nor replaces one that is not known.
LEMMA AncestorKnown ==
  ASSUME AllStreams, ConnectionType, NEW t \in Known, ancestor[t] # NoStream
  PROVE  /\ t \in Streams /\ ancestor[t] \in Known
         /\ IsBarrier(1, ancestor[t]) \/ (wire = << >> /\ victim = ancestor[t])
  <1>1. t \in Streams BY DEF ConnectionType
  <1>2. StatusFirst(t) /\ Replaces(t) BY <1>1 DEF AllStreams, StreamOK, Own
  <1> QED BY <1>1, <1>2 DEF StatusFirst, Replaces

\* The connection opens a stream and asks for it.
LEMMA StreamsSubscribe ==
  ASSUME AccountInv, TypeOK', ConnectionType, AllStreams, NEW s \in Streams, Subscribe(s)
  PROVE  AllStreams'
  <1>1. /\ TypeOK /\ subscribing = NoStream /\ subscribing' = s /\ status[s] = "absent"
        /\ s \notin Known /\ (\A i \in DOMAIN wire : wire[i].stream # s)
        /\ Cardinality(Subscriptions) < MaximumSubscriptions
        /\ last' = [k \in Known \cup {s} |-> IF k = s THEN 0 ELSE last[k]]
        /\ UNCHANGED <<wire, status, last_transmitted, victim, successor, closing, ancestor>>
        /\ NoStream \notin Streams
    BY CreditAssumption DEF Subscribe, CanOpen, Opened, native, vars, streams, control, AccountInv
  <1>2. Known' = Known \cup {s} /\ last'[s] = 0 /\ \A k \in Known : k # s => last'[k] = last[k]
    BY <1>1 DEF Known
  <1>3. closing \subseteq Known /\ \A u \in Streams : StreamOK(u) BY DEF AllStreams
  <1>4. \A e : On(e, s) = {} BY <1>1 DEF On
  <1>5. /\ ~Sender(s) /\ ancestor[s] = NoStream /\ last_transmitted[s] = 0
    BY <1>1, <1>3, <1>4 DEF StreamOK, Own, Opens, Replaces, Lasts
  <1>6. Extended /\ \A e, u : On(e, u)' = On(e, u) BY <1>1 DEF Extended, On
  <1>7. Own(s)'
    <2>1. StatusFirst(s)' /\ BarrierLast(s)' BY <1>4, <1>6 DEF StatusFirst, BarrierLast
    <2>2. Opens(s)' BY <1>2 DEF Opens
    <2>3. Asked(s)' BY <1>1, <1>2, <1>3, <1>5 DEF Asked, Sender
    <2>4. Lasts(s)' BY <1>1, <1>2, <1>4, <1>5, <1>6 DEF Lasts, LastIs
    <2> QED BY <2>1, <2>2, <2>3, <2>4 DEF Own
  <1>8. ASSUME NEW u \in Streams PROVE StreamOK(u)'
    <2>1. Own(u)'
      <3>1. CASE u = s BY <1>7, <3>1
      <3>2. CASE u # s
        <4>1. Untouched(u) BY <1>1 DEF Untouched
        <4>2. Aside(u) BY <1>1, <1>2, <1>3, <3>2 DEF StreamOK, Own, Lasts, Aside, Sender, IsLive
        <4> QED BY <1>3, <4>1, <4>2, OwnSame DEF StreamOK
      <3> QED BY <3>1, <3>2
    <2>2. Announced(u)' BY <1>1, <1>3, <1>6, AnnouncedSame DEF StreamOK
    <2>3. Replaces(u)' BY <1>1, <1>2, <1>3, <1>6, ReplacesSame DEF StreamOK
    <2> QED BY <2>1, <2>2, <2>3 DEF StreamOK
  <1>9. Cardinality(Subscriptions') <= MaximumSubscriptions
    <2>1. Subscriptions' \subseteq Subscriptions \cup {s} BY <1>1, <1>2 DEF Subscriptions
    <2>2. IsFiniteSet(Subscriptions) BY FS_Subset DEF Subscriptions, ConnectionType
    <2>3. /\ IsFiniteSet(Subscriptions \cup {s}) /\ Cardinality(Subscriptions) \in Nat
          /\ Cardinality(Subscriptions \cup {s}) <= Cardinality(Subscriptions) + 1
          /\ Cardinality(Subscriptions \cup {s}) \in Nat
      BY <2>2, FS_AddElement, FS_CardinalityType
    <2>4. /\ Cardinality(Subscriptions') <= Cardinality(Subscriptions \cup {s})
          /\ IsFiniteSet(Subscriptions')
      BY <2>1, <2>3, FS_Subset
    <2>5. Cardinality(Subscriptions') \in Nat /\ MaximumSubscriptions \in Nat
      BY <2>4, FS_CardinalityType, LedgerAssumption
    <2> QED BY <1>1, <2>3, <2>4, <2>5
  <1> QED BY <1>1, <1>2, <1>3, <1>8, <1>9 DEF AllStreams

\* A request that is refused.
LEMMA StreamsRefused ==
  ASSUME AccountInv, TypeOK', ConnectionType, AllStreams, NEW s \in Streams, SubscribeFails(s)
  PROVE  AllStreams'
  <1>1. /\ TypeOK /\ subscribing = s /\ subscribing' = NoStream
        /\ last' = [k \in Known \ {s} |-> last[k]]
        /\ UNCHANGED <<wire, status, last_transmitted, victim, successor, closing, ancestor>>
        /\ NoStream \notin Streams
    BY CreditAssumption DEF SubscribeFails, Without, native, vars, streams, control, AccountInv
  <1>2. Known' = Known \ {s} /\ \A k \in Known : k # s => last'[k] = last[k] BY <1>1 DEF Known
  <1>3. closing \subseteq Known /\ \A u \in Streams : StreamOK(u) BY DEF AllStreams
  <1>4. /\ s \in Known \ closing /\ status[s] = "absent" /\ victim # s /\ successor # s
        /\ ancestor[s] = NoStream /\ \A j \in DOMAIN wire : wire[j].stream # s
    BY <1>1, <1>3 DEF StreamOK, Own, Asked
  <1>5. Extended /\ \A e, u : On(e, u)' = On(e, u) BY <1>1 DEF Extended, On
  <1>6. ASSUME NEW t \in Streams PROVE ancestor[t] # s
    <2>1. ~IsBarrier(1, s) /\ \A j : ~IsBarrier(j, s) BY <1>4 DEF IsBarrier
    <2>2. Replaces(t) BY <1>3 DEF StreamOK
    <2> QED BY <1>1, <1>4, <2>1, <2>2 DEF Replaces
  <1>7. Own(s)'
    <2>1. \A e : On(e, s) = {} BY <1>4 DEF On
    <2>2. StatusFirst(s)' /\ BarrierLast(s)' BY <1>5, <2>1 DEF StatusFirst, BarrierLast
    <2>3. ~Sender(s)' BY <1>1, <1>4 DEF Sender, IsLive
    <2>4. Opens(s)' /\ Asked(s)' BY <1>1, <1>4, <2>3 DEF Opens, Asked
    <2>5. Lasts(s)' BY <1>1, <1>3, <1>5, <2>1, <2>3 DEF StreamOK, Own, Lasts
    <2> QED BY <2>2, <2>4, <2>5 DEF Own
  <1>8. ASSUME NEW u \in Streams PROVE StreamOK(u)'
    <2>1. Own(u)'
      <3>1. CASE u = s BY <1>7, <3>1
      <3>2. CASE u # s
        <4>1. Untouched(u) BY <1>1 DEF Untouched
        <4>2. Aside(u) BY <1>1, <1>2, <1>3, <3>2 DEF StreamOK, Own, Lasts, Aside, Sender, IsLive
        <4> QED BY <1>3, <4>1, <4>2, OwnSame DEF StreamOK
      <3> QED BY <3>1, <3>2
    <2>2. Announced(u)' BY <1>1, <1>3, <1>5, AnnouncedSame DEF StreamOK
    <2>3. Replaces(u)'
      <3>1. CASE ancestor[u] = NoStream
        BY <1>1, <1>3, <1>5, <3>1 DEF StreamOK, Replaces
      <3>2. CASE ancestor[u] # NoStream
        <4>1. u # s /\ ancestor[u] # s BY <1>4, <1>6, <3>2
        <4> QED BY <1>1, <1>2, <1>3, <1>5, <4>1, ReplacesSame DEF StreamOK
      <3> QED BY <3>1, <3>2
    <2> QED BY <2>1, <2>2, <2>3 DEF StreamOK
  <1>9. Cardinality(Subscriptions') <= MaximumSubscriptions
    <2>1. Subscriptions' \subseteq Subscriptions
      <3>1. \A u \in Known : u \in Streams BY DEF ConnectionType
      <3> QED BY <1>1, <1>2, <1>4, <3>1 DEF Subscriptions
    <2>2. IsFiniteSet(Subscriptions) BY FS_Subset DEF Subscriptions, ConnectionType
    <2>3. /\ Cardinality(Subscriptions') <= Cardinality(Subscriptions)
          /\ Cardinality(Subscriptions') \in Nat /\ Cardinality(Subscriptions) \in Nat
      BY <2>1, <2>2, FS_Subset, FS_CardinalityType
    <2> QED BY <2>3, LedgerAssumption DEF AllStreams
  <1> QED BY <1>1, <1>2, <1>3, <1>4, <1>8, <1>9 DEF AllStreams

-----------------------------------------------------------------------------
(* The streams: what the host writes.                                      *)

\* One more frame on the wire.
LEMMA Written ==
  ASSUME TypeOK, NEW x \in Messages, wire' = Append(wire, x)
  PROVE  \E k \in Nat : /\ k = Len(wire) + 1 /\ Len(wire') = k
                        /\ k \in DOMAIN wire' /\ wire'[k] = x
                        /\ \A j \in DOMAIN wire' : j \in DOMAIN wire \/ j = k
                        /\ \A j \in DOMAIN wire : /\ j \in Nat /\ j # k /\ j < k /\ j \in DOMAIN wire'
                                                  /\ wire'[j] = wire[j]
                        /\ k \notin DOMAIN wire
                        /\ wire = << >> => k = 1
  <1>1. wire \in Seq(Messages) BY DEF TypeOK, ChannelOK
  <1>2. PICK len \in Nat : len = Len(wire) BY <1>1
  <1>3. /\ DOMAIN wire = 1..len /\ DOMAIN wire' = 1..(len + 1) /\ wire'[len + 1] = x
        /\ Len(wire') = len + 1 /\ \A i \in 1..len : wire'[i] = wire[i]
    BY <1>1, <1>2, Appended
  <1>4. \A j \in 1..(len + 1) : j \in 1..len \/ j = len + 1 OBVIOUS
  <1>5. \A j \in 1..len : j \in Nat /\ j # len + 1 /\ j < len + 1 /\ j \in 1..(len + 1) OBVIOUS
  <1>6. wire = << >> => len + 1 = 1 BY <1>2
  <1>7. len + 1 \in 1..(len + 1) /\ len + 1 \notin 1..len /\ len + 1 \in Nat OBVIOUS
  <1> QED BY <1>2, <1>3, <1>4, <1>5, <1>6, <1>7

\* What this does to the sets of positions.
LEMMA WrittenOn ==
  ASSUME TypeOK, NEW x \in Messages, wire' = Append(wire, x), NEW k, k = Len(wire) + 1
  PROVE  /\ Extended
         /\ \A e, u : ~(x.event = e /\ x.stream = u) => On(e, u)' = On(e, u)
         /\ On(x.event, x.stream)' = On(x.event, x.stream) \cup {k}
         /\ \A u : u # x.stream => Untouched(u)
         /\ k \notin DOMAIN wire /\ wire'[k] = x
  <1>1. /\ k \in DOMAIN wire' /\ wire'[k] = x /\ k \notin DOMAIN wire
        /\ \A j \in DOMAIN wire' : j \in DOMAIN wire \/ j = k
        /\ \A j \in DOMAIN wire : j \in DOMAIN wire' /\ wire'[j] = wire[j]
    BY Written
  <1> QED BY <1>1 DEF Extended, On, Untouched

\* A report of a live stream.
LEMMA StreamsTransmit ==
  ASSUME AccountInv, TypeOK', AllStreams, NEW s \in Streams, NEW b \in Nat, IsLive(s),
         TransmitFrame(s, b), phase # "purge", UNCHANGED <<status, control>>, HostOnly
  PROVE  AllStreams'
  <1>1. /\ TypeOK /\ UNCHANGED <<last, ancestor, closing, subscribing, victim, successor>>
        /\ last_transmitted \in [Streams -> Nat] /\ next_sequence \in Nat
        /\ last_transmitted' = [last_transmitted EXCEPT ![s] = next_sequence]
    BY CreditAssumption DEF TransmitFrame, HostOnly, beam, ledger, control, AccountInv, TypeOK,
       StreamsOK, SentOK
  <1>2. victim = NoStream /\ NoStream \notin Streams
    BY CreditAssumption DEF AccountInv, Attended
  <1>3. PICK x : x = ReportMessage(SentFrame(s, b)) OBVIOUS
  <1>4. /\ x.event = "subscription_report" /\ x.stream = s /\ x.sequence = next_sequence
        /\ x \in Messages /\ wire' = Append(wire, x)
    <2>1. Encoded(b, next_sequence) \in Nat
      <3>1. next_sequence \in 1..MaximumSequence BY <1>1 DEF TypeOK, SentOK
      <3> QED BY <3>1, EncodedType
    <2> QED BY <1>1, <1>3, <2>1 DEF ReportMessage, SentFrame, Messages, TransmitFrame
  <1>5. PICK k \in Nat : /\ k = Len(wire) + 1 /\ k \in DOMAIN wire' /\ wire'[k] = x
                         /\ \A j \in DOMAIN wire' : j \in DOMAIN wire \/ j = k
                         /\ \A j \in DOMAIN wire : j \in Nat /\ j # k /\ j < k /\ wire'[j] = wire[j]
    BY <1>1, <1>4, Written
  <1>6. /\ Extended /\ \A u : u # s => Untouched(u)
        /\ \A e, u : e # "subscription_report" => On(e, u)' = On(e, u)
        /\ On("subscription_report", s)' = On("subscription_report", s) \cup {k}
    BY <1>1, <1>4, <1>5, WrittenOn
  <1>7. Known' = Known /\ Subscriptions' = Subscriptions BY <1>1 DEF Known, Subscriptions
  <1>8. \A u \in Streams : StreamOK(u) BY DEF AllStreams
  <1>9. Own(s)'
    <2>1. StatusFirst(s) /\ Opens(s) /\ BarrierLast(s) /\ Asked(s) /\ Lasts(s) /\ Sender(s)
      BY <1>8 DEF StreamOK, Own, Sender
    <2>2. Sender(s)' /\ On("stream_retired", s) = {} /\ subscribing # s /\ status[s] = "live"
      BY <1>1, <2>1 DEF Sender, IsLive, BarrierLast, Asked
    <2>3. \A e : \A i \in On(e, s) : i \in DOMAIN wire BY DEF On
    <2>4. StatusFirst(s)' BY <1>5, <1>6, <1>7, <2>1, <2>3 DEF StatusFirst
    <2>5. Opens(s)' BY <1>6, <1>7, <2>1 DEF Opens
    <2>6. BarrierLast(s)' /\ Asked(s)' BY <1>1, <1>6, <2>2 DEF BarrierLast, Asked
    <2>7. LastIs(s, last_transmitted[s])'
      <3>1. PICK n : n = next_sequence OBVIOUS
      <3>2. last_transmitted'[s] = n /\ wire'[k].sequence = n BY <1>1, <1>4, <1>5, <3>1
      <3>3. \A j \in On("subscription_report", s)' : j <= k BY <1>5, <1>6, <2>3
      <3>4. LastIs(s, n)' BY <1>6, <3>2, <3>3 DEF LastIs
      <3> QED BY <3>2, <3>4 DEF LastIs
    <2>8. Lasts(s)' BY <1>1, <1>6, <2>2, <2>7 DEF Lasts
    <2> QED BY <2>4, <2>5, <2>6, <2>8 DEF Own
  <1>10. ASSUME NEW u \in Streams PROVE StreamOK(u)'
    <2>1. Own(u)'
      <3>1. CASE u = s BY <1>9, <3>1
      <3>2. CASE u # s
        <4>1. last_transmitted'[u] = last_transmitted[u] BY <1>1, <3>2
        <4>2. Aside(u)
          BY <1>1, <1>7, <1>8, <3>2, <4>1 DEF StreamOK, Own, Lasts, Asked, Aside, Sender, IsLive
        <4> QED BY <1>6, <1>8, <3>2, <4>2, OwnSame DEF StreamOK
      <3> QED BY <3>1, <3>2
    <2>2. Announced(u)' BY <1>1, <1>6, <1>8, AnnouncedSame DEF StreamOK
    <2>3. Replaces(u)' BY <1>1, <1>2, <1>6, <1>7, <1>8, ReplacesSame DEF StreamOK
    <2> QED BY <2>1, <2>2, <2>3 DEF StreamOK
  <1> QED BY <1>1, <1>7, <1>10 DEF AllStreams

\* The host writes a frame that is no report and starts to retire stream s:
\* what this leaves to all streams but that of the frame.
LEMMA RetireLeaves ==
  ASSUME AccountInv, AllStreams, phase = "idle", NEW s \in Streams, NEW u \in Streams, IsLive(s),
         NEW t \in Streams \cup {NoStream}, t # u, victim' = s, successor' = t,
         status' = [status EXCEPT ![s] = "retired"], Untouched(u),
         UNCHANGED <<last, closing, subscribing, last_transmitted>>, ancestor'[u] = ancestor[u]
  PROVE  Own(u)'
  <1>1. status \in [Streams -> {"absent", "live", "retired"}] BY DEF AccountInv, TypeOK, StreamsOK
  <1>2. status'[s] = "retired" /\ (u # s => status'[u] = status[u]) BY <1>1
  <1>3. victim = NoStream /\ successor = NoStream /\ NoStream \notin Streams
    BY CreditAssumption DEF AccountInv, Attended
  <1>4. Own(u) BY DEF AllStreams, StreamOK
  <1>5. Aside(u) BY <1>2, <1>3, <1>4 DEF Own, Lasts, Asked, Aside, Sender, IsLive, Known
  <1> QED BY <1>4, <1>5, OwnSame

\* An error, and the stream is retired.
LEMMA StreamsError ==
  ASSUME AccountInv, TypeOK', AllStreams, NEW s \in Streams, Ready, IsLive(s),
         BeginRetire(s, <<Control("subscription_error", s)>>, NoStream, 0), HostOnly
  PROVE  AllStreams'
  <1>1. /\ TypeOK /\ phase = "idle" /\ status' = [status EXCEPT ![s] = "retired"]
        /\ victim' = s /\ successor' = NoStream /\ status[s] = "live"
        /\ UNCHANGED <<last, ancestor, closing, subscribing, last_transmitted>>
        /\ status \in [Streams -> {"absent", "live", "retired"}] /\ wire \in Seq(Messages)
        /\ wire' = wire \o <<Control("subscription_error", s)>>
    BY DEF BeginRetire, HostOnly, beam, ledger, Ready, IsLive, AccountInv, TypeOK, StreamsOK, ChannelOK
  <1>2. PICK x : x = Control("subscription_error", s) OBVIOUS
  <1>3. x.event = "subscription_error" /\ x.stream = s /\ x \in Messages /\ wire' = Append(wire, x)
    BY <1>1, <1>2 DEF Control, Messages
  <1>4. PICK k \in Nat : /\ k = Len(wire) + 1 /\ k \in DOMAIN wire' /\ wire'[k] = x
                         /\ \A j \in DOMAIN wire' : j \in DOMAIN wire \/ j = k
                         /\ \A j \in DOMAIN wire : j \in Nat /\ j # k /\ j < k /\ wire'[j] = wire[j]
    BY <1>1, <1>3, Written
  <1>5. /\ Extended /\ \A u : u # s => Untouched(u)
        /\ \A e, u : e # "subscription_error" => On(e, u)' = On(e, u)
        /\ On("subscription_error", s)' = On("subscription_error", s) \cup {k}
    <2>1. TypeOK BY DEF AccountInv
    <2> QED BY <1>3, <1>4, <2>1, WrittenOn
  <1>6. Known' = Known /\ Subscriptions' = Subscriptions BY <1>1 DEF Known, Subscriptions
  <1>7. \A u \in Streams : StreamOK(u) BY DEF AllStreams
  <1>8. victim = NoStream /\ NoStream \notin Streams
    BY <1>1, CreditAssumption DEF AccountInv, Attended
  <1>9. Own(s)'
    <2>1. StatusFirst(s) /\ Opens(s) /\ BarrierLast(s) /\ Asked(s) /\ Lasts(s) /\ Sender(s)
      BY <1>7 DEF StreamOK, Own, Sender
    <2>2. Sender(s)' /\ On("stream_retired", s) = {} /\ subscribing # s /\ status'[s] = "retired"
      BY <1>1, <2>1 DEF Sender, IsLive, BarrierLast, Asked
    <2>3. \A e : \A i \in On(e, s) : i \in DOMAIN wire BY DEF On
    <2>4. StatusFirst(s)' BY <1>4, <1>5, <1>6, <2>1, <2>3 DEF StatusFirst
    <2>5. Opens(s)' BY <1>5, <1>6, <2>1 DEF Opens
    <2>6. BarrierLast(s)' /\ Asked(s)' BY <1>1, <1>5, <2>2 DEF BarrierLast, Asked
    <2>7. LastIs(s, last_transmitted[s])'
      <3>1. PICK n : n = last_transmitted[s] OBVIOUS
      <3>2. LastIs(s, n) /\ last_transmitted'[s] = n BY <1>1, <2>1, <3>1 DEF Lasts
      <3>3. \A i \in On("subscription_report", s) : wire'[i] = wire[i] BY <1>4, <2>3
      <3>4. LastIs(s, n)' BY <1>1, <1>5, <1>6, <3>2, <3>3 DEF LastIs
      <3> QED BY <3>2, <3>4 DEF LastIs
    <2>8. Lasts(s)' BY <1>1, <1>5, <2>2, <2>7 DEF Lasts
    <2> QED BY <2>4, <2>5, <2>6, <2>8 DEF Own
  <1>10. ASSUME NEW u \in Streams PROVE StreamOK(u)'
    <2>1. Own(u)'
      <3>1. CASE u = s BY <1>9, <3>1
      <3>2. CASE u # s BY <1>1, <1>5, <1>8, <3>2, RetireLeaves
      <3> QED BY <3>1, <3>2
    <2>2. Announced(u)'
      <3>1. CASE u = s BY <1>5, <3>1 DEF Announced
      <3>2. CASE u # s BY <1>1, <1>5, <1>7, <3>2, AnnouncedSame DEF StreamOK
      <3> QED BY <3>1, <3>2
    <2>3. Replaces(u)' BY <1>1, <1>5, <1>6, <1>7, <1>8, ReplacesSame DEF StreamOK
    <2> QED BY <2>1, <2>2, <2>3 DEF StreamOK
  <1> QED BY <1>1, <1>6, <1>10 DEF AllStreams

\* A recovery: the status of the next generation, and the old one is retired.
LEMMA StreamsRecover ==
  ASSUME AccountInv, TypeOK', ConnectionType, AllStreams, NEW s \in Streams, NEW t \in Streams,
         HostRecovers(s, t)
  PROVE  AllStreams'
  <1>1. /\ TypeOK /\ phase = "idle" /\ status' = [status EXCEPT ![s] = "retired"]
        /\ victim' = s /\ successor' = t /\ status[s] = "live" /\ s # t /\ status[t] = "absent"
        /\ UNCHANGED <<last, closing, subscribing, last_transmitted>>
        /\ ancestor' = [ancestor EXCEPT ![t] = s] /\ ancestor \in [Streams -> Streams \cup {NoStream}]
        /\ status \in [Streams -> {"absent", "live", "retired"}] /\ wire \in Seq(Messages)
        /\ wire' = wire \o <<Control("resubscribing", t)>>
        /\ t \notin Known /\ \A i \in DOMAIN wire : wire[i].stream # t
    BY DEF HostRecovers, BeginRecovery, BeginRetire, ledger, Ready, IsLive, AccountInv, TypeOK,
       StreamsOK, ChannelOK, ConnectionType
  <1>2. PICK x : x = Control("resubscribing", t) OBVIOUS
  <1>3. x.event = "resubscribing" /\ x.stream = t /\ x \in Messages /\ wire' = Append(wire, x)
    BY <1>1, <1>2 DEF Control, Messages
  <1>4. PICK k \in Nat : /\ k = Len(wire) + 1 /\ Len(wire') = k /\ k \in DOMAIN wire' /\ wire'[k] = x
                         /\ \A j \in DOMAIN wire' : j \in DOMAIN wire \/ j = k
                         /\ \A j \in DOMAIN wire : j \in Nat /\ j # k /\ j < k /\ wire'[j] = wire[j]
    BY <1>1, <1>3, Written
  <1>5. /\ Extended /\ \A u : u # t => Untouched(u)
        /\ \A e, u : ~(e = "resubscribing" /\ u = t) => On(e, u)' = On(e, u)
        /\ On("resubscribing", t)' = On("resubscribing", t) \cup {k}
    <2>1. TypeOK BY DEF AccountInv
    <2> QED BY <1>3, <1>4, <2>1, WrittenOn
  <1>6. /\ ancestor'[t] = s /\ \A u \in Streams : u # t => ancestor'[u] = ancestor[u]
        /\ NoStream \notin Streams /\ victim = NoStream /\ successor = NoStream
    BY <1>1, CreditAssumption DEF AccountInv, Attended
  <1>7. \A u \in Streams : StreamOK(u) BY DEF AllStreams
  <1>8. \A e : On(e, t) = {} BY <1>1 DEF On
  <1>9. Known' = Known /\ Subscriptions' = Subscriptions
    <2>1. Known' = Known BY <1>1 DEF Known
    <2>2. \A u \in Known : u \in Streams /\ u # t BY <1>1 DEF ConnectionType
    <2> QED BY <1>6, <2>1, <2>2 DEF Subscriptions
  <1>10. Own(t)'
    <2>1. On("resubscribing", t)' = {k} /\ \A e : e # "resubscribing" => On(e, t)' = {}
      BY <1>5, <1>8
    <2>2. \A j \in DOMAIN wire' : wire'[j].stream = t => j = k BY <1>1, <1>4
    <2>3. StatusFirst(t)' /\ Opens(t)' /\ BarrierLast(t)'
      BY <1>1, <1>9, <2>1, <2>2 DEF StatusFirst, Opens, BarrierLast
    <2>4. subscribing # t BY <1>1, <1>7 DEF StreamOK, Own, Asked
    <2>5. last_transmitted'[t] = 0 BY <1>1, <1>7 DEF StreamOK, Own, Lasts
    <2>6. Lasts(t)' BY <1>1, <1>9, <2>1, <2>5 DEF Lasts, LastIs
    <2> QED BY <1>1, <2>3, <2>4, <2>6 DEF Own, Asked
  <1>11. ASSUME NEW u \in Streams PROVE StreamOK(u)'
    <2>1. Own(u)'
      <3>1. CASE u = t BY <1>10, <3>1
      <3>2. CASE u # t BY <1>1, <1>5, <1>6, <3>2, RetireLeaves DEF IsLive
      <3> QED BY <3>1, <3>2
    <2>2. Announced(u)'
      <3>1. CASE u = s BY <1>5, <1>6, <3>1 DEF Announced
      <3>2. CASE u # s
        <4>1. \A v \in Streams : ancestor[v] = u /\ On("resubscribing", v) # {} => ancestor'[v] = u
          BY <1>6, <1>8
        <4> QED BY <1>1, <1>5, <1>7, <3>2, <4>1, AnnouncedSame DEF StreamOK
      <3> QED BY <3>1, <3>2
    <2>3. Replaces(u)'
      <3>1. CASE u = t
        <4>1. On("resubscribing", t)' = {k} BY <1>5, <1>8
        <4>2. k = Len(wire') /\ victim' = ancestor'[t] /\ ancestor'[t] # NoStream /\ ancestor'[t] # t
          BY <1>1, <1>4, <1>6
        <4> QED BY <3>1, <4>1, <4>2 DEF Replaces
      <3>2. CASE u # t BY <1>1, <1>5, <1>6, <1>7, <1>9, <3>2, ReplacesSame DEF StreamOK
      <3> QED BY <3>1, <3>2
    <2> QED BY <2>1, <2>2, <2>3 DEF StreamOK
  <1> QED BY <1>1, <1>9, <1>11 DEF AllStreams

\* The barrier of the stream that is being retired.
LEMMA StreamsBarrier ==
  ASSUME AccountInv, TypeOK', AllStreams, RetireBarrier, HostOnly
  PROVE  AllStreams'
  <1>1. PICK v \in Streams : v = victim
    BY DEF RetireBarrier, AccountInv, TypeOK, ControlOK
  <1>2. /\ TypeOK /\ phase = "purge" /\ victim' = NoStream /\ wire' = Append(wire, Barrier(v))
        /\ UNCHANGED <<last, ancestor, closing, subscribing, successor>>
        /\ \/ UNCHANGED <<status, last_transmitted>>
           \/ /\ status' = [status EXCEPT ![v] = "absent"]
              /\ last_transmitted' = [last_transmitted EXCEPT ![v] = 0]
        /\ status \in [Streams -> {"absent", "live", "retired"}]
        /\ last_transmitted \in [Streams -> Nat]
    BY <1>1 DEF RetireBarrier, Erase, streams, HostOnly, beam, ledger, AccountInv, TypeOK, StreamsOK
  <1>3. PICK x : x = Barrier(v) OBVIOUS
  <1>4. /\ x.event = "stream_retired" /\ x.stream = v /\ x.sequence = last_transmitted[v]
        /\ x \in Messages
    BY <1>2, <1>3 DEF Barrier, Messages
  <1>5. wire' = Append(wire, x) BY <1>2, <1>3
  <1>6. PICK k \in Nat : /\ k = Len(wire) + 1 /\ k \in DOMAIN wire' /\ wire'[k] = x
                         /\ \A j \in DOMAIN wire' : j \in DOMAIN wire \/ j = k
                         /\ \A j \in DOMAIN wire : j \in Nat /\ j # k /\ j < k /\ wire'[j] = wire[j]
    BY <1>2, <1>4, <1>5, Written
  <1>7. /\ Extended /\ \A u : u # v => Untouched(u)
        /\ \A e, u : ~(e = "stream_retired" /\ u = v) => On(e, u)' = On(e, u)
        /\ On("stream_retired", v)' = On("stream_retired", v) \cup {k}
    <2>1. TypeOK BY DEF AccountInv
    <2> QED BY <1>4, <1>5, <1>6, <2>1, WrittenOn
  <1>8. /\ status[v] = "retired" /\ NoStream \notin Streams
        /\ successor # v
    BY <1>1, <1>2, CreditAssumption DEF AccountInv, Attended
  <1>9. \A u \in Streams : StreamOK(u) BY DEF AllStreams
  <1>10. /\ status'[v] # "live" /\ status'[v] = "absent" => last_transmitted'[v] = 0
         /\ \A u \in Streams : u # v => /\ status'[u] = status[u]
                                        /\ last_transmitted'[u] = last_transmitted[u]
    BY <1>2, <1>8
  <1>11. Known' = Known /\ Subscriptions' = Subscriptions BY <1>2 DEF Known, Subscriptions
  <1>12. subscribing # v BY <1>8, <1>9 DEF StreamOK, Own, Asked
  <1>13. Own(v)'
    <2>1. StatusFirst(v) /\ Opens(v) /\ BarrierLast(v) /\ Lasts(v) /\ Sender(v)
      BY <1>1, <1>9 DEF StreamOK, Own, Sender
    <2>2. ~Sender(v)'
      BY <1>2, <1>8, <1>10, <1>12 DEF Sender, IsLive
    <2>3. On("stream_retired", v) = {} /\ On("stream_retired", v)' = {k}
      BY <1>7, <2>1 DEF BarrierLast
    <2>4. \A e : \A i \in On(e, v) : i \in DOMAIN wire BY DEF On
    <2>5. StatusFirst(v)' BY <1>6, <1>7, <1>11, <2>1, <2>4 DEF StatusFirst
    <2>6. Opens(v)' BY <1>7, <1>11, <2>1 DEF Opens
    <2>7. BarrierLast(v)' BY <1>6, <2>2, <2>3 DEF BarrierLast
    <2>8. Asked(v)' BY <1>2, <1>12 DEF Asked
    <2>9. LastIs(v, wire[k].sequence)'
      <3>1. PICK n : n = last_transmitted[v] OBVIOUS
      <3>2. LastIs(v, n) /\ wire'[k].sequence = n BY <1>4, <1>6, <2>1, <3>1 DEF Lasts
      <3>3. \A i \in On("subscription_report", v) : wire'[i] = wire[i] BY <1>6, <2>4
      <3>4. LastIs(v, n)' BY <1>2, <1>7, <1>11, <3>2, <3>3 DEF LastIs
      <3> QED BY <3>2, <3>4 DEF LastIs
    <2>10. Lasts(v)' BY <1>10, <2>2, <2>3, <2>9 DEF Lasts
    <2> QED BY <2>5, <2>6, <2>7, <2>8, <2>10 DEF Own
  <1>14. ASSUME NEW u \in Streams PROVE StreamOK(u)'
    <2>1. Own(u)'
      <3>1. CASE u = v BY <1>13, <3>1
      <3>2. CASE u # v
        <4>1. Aside(u)
          BY <1>1, <1>2, <1>8, <1>9, <1>10, <1>11, <3>2
             DEF StreamOK, Own, Lasts, Asked, Aside, Sender, IsLive
        <4> QED BY <1>7, <1>9, <3>2, <4>1, OwnSame DEF StreamOK
      <3> QED BY <3>1, <3>2
    <2>2. Announced(u)'
      <3>1. On("stream_retired", u)' # {} \/ victim' = u => On("stream_retired", u) # {} \/ victim = u
        BY <1>1, <1>2, <1>7, <1>8
      <3> QED BY <1>2, <1>7, <1>9, <3>1, AnnouncedSame DEF StreamOK
    <2>3. Replaces(u)'
      <3>1. /\ Len(wire) + 1 \in DOMAIN wire' /\ wire'[Len(wire) + 1].event = "stream_retired"
            /\ wire'[Len(wire) + 1].stream = victim
        BY <1>1, <1>4, <1>6
      <3>2. Replaces(u) /\ ancestor'[u] = ancestor[u] BY <1>2, <1>9 DEF StreamOK
      <3>3. On("resubscribing", u)' = On("resubscribing", u) BY <1>7
      <3> QED BY <1>2, <1>7, <1>11, <3>1, <3>2, <3>3, ReplacesSame
    <2> QED BY <2>1, <2>2, <2>3 DEF StreamOK
  <1> QED BY <1>2, <1>11, <1>14 DEF AllStreams

-----------------------------------------------------------------------------
(* The streams: what the connection reads.                                 *)

\* One frame less.
Shift ==
  /\ 1 \in DOMAIN wire
  /\ \A j \in DOMAIN wire' : j \in Nat /\ j + 1 \in DOMAIN wire /\ j + 1 # 1 /\ wire'[j] = wire[j + 1]
  /\ \A j \in DOMAIN wire : j \in Nat /\ (j # 1 => j - 1 \in DOMAIN wire' /\ (j - 1) + 1 = j
                                                     /\ wire'[j - 1] = wire[j])

\* Reading a frame shifts the wire and leaves the host alone.
LEMMA ReadShifts ==
  ASSUME TypeOK, PeerReads
  PROVE  /\ Shift /\ Head(wire) = wire[1] /\ wire # << >>
         /\ \A j \in Nat : j + 1 = Len(wire) => j = Len(wire')
         /\ Len(wire) = 1 => wire' = << >>
         /\ UNCHANGED <<status, victim, successor, last_transmitted>>
         /\ wire[1] \in Messages /\ wire[1].stream \in Streams
  <1>1. wire \in Seq(Messages) /\ wire # << >> /\ wire' = Tail(wire)
    BY DEF TypeOK, ChannelOK, PeerReads
  <1>2. PICK len \in Nat : len = Len(wire) BY <1>1
  <1>3. /\ len > 0 /\ DOMAIN wire = 1..len /\ DOMAIN wire' = 1..(len - 1) /\ Len(wire') = len - 1
        /\ \A i \in 1..(len - 1) : wire'[i] = wire[i + 1]
    BY <1>1, <1>2, Shifted
  <1>4. \A j \in 1..(len - 1) : j \in Nat /\ j + 1 \in 1..len /\ j + 1 # 1 BY <1>3
  <1>5. \A j \in 1..len : j \in Nat /\ (j # 1 => j - 1 \in 1..(len - 1) /\ (j - 1) + 1 = j) BY <1>3
  <1>6. 1 \in 1..len BY <1>3
  <1>7. Shift BY <1>3, <1>4, <1>5, <1>6 DEF Shift
  <1>8. Len(wire) = 1 => wire' = << >> BY <1>1
  <1>9. \A j \in Nat : j + 1 = len => j = len - 1 OBVIOUS
  <1> QED BY <1>1, <1>2, <1>3, <1>7, <1>8, <1>9, HeadIs DEF PeerReads, streams, control

\* The positions of a stream's frames afterwards.
LEMMA ShiftOn ==
  ASSUME Shift
  PROVE  /\ \A e, s : \A i \in On(e, s)' : i \in Nat /\ i + 1 \in On(e, s) /\ i + 1 # 1 /\ wire'[i] = wire[i + 1]
         /\ \A e, s : \A i \in On(e, s) : i \in Nat /\ (i # 1 => i - 1 \in On(e, s)' /\ (i - 1) + 1 = i
                                                          /\ wire'[i - 1] = wire[i])
  BY DEF Shift, On

\* What a frame that the connection takes does to stream s.
Reading(s) ==
  /\ s \in Known' <=> (s \in Known \/ 1 \in On("resubscribing", s)) /\ 1 \notin On("stream_retired", s)
  /\ s \in Known' => last'[s] = IF 1 \in On("subscription_report", s) THEN wire[1].sequence
                                ELSE IF s \in Known THEN last[s] ELSE 0
  /\ 1 \in On("subscription_report", s) => s \in Known
  /\ subscribing = s => s \notin closing'
  /\ s \in closing => s \in closing' \/ 1 \in On("stream_retired", s)
  /\ 1 \in On("subscription_error", s) => s \in closing'
  /\ 1 \in On("resubscribing", s) => ancestor[s] \in Known /\ ancestor[s] \in closing'
  /\ ancestor'[s] = IF 1 \in On("stream_retired", ancestor[s]) THEN NoStream ELSE ancestor[s]

HostSame == UNCHANGED <<status, victim, successor, last_transmitted, subscribing>>

\* The first frame has one event.
LEMMA OneEvent ==
  ASSUME NEW d, NEW e, d # e, NEW s, NEW u, 1 \in On(d, s)
  PROVE  1 \notin On(e, u)
  BY DEF On

\* The last report is the same when the first frame has left the wire.
LEMMA LastRead ==
  ASSUME Shift, NEW s, NEW n, LastIs(s, n),
         1 \in On("subscription_report", s) => s \in Known' /\ last'[s] = wire[1].sequence,
         1 \notin On("subscription_report", s) =>
           (IF s \in Known' THEN last'[s] ELSE 0) = (IF s \in Known THEN last[s] ELSE 0)
  PROVE  LastIs(s, n)'
  <1> DEFINE On1 == On("subscription_report", s)
  <1>1. /\ \A i \in On1' : i \in Nat /\ i + 1 \in On1 /\ i + 1 # 1 /\ wire'[i] = wire[i + 1]
        /\ \A i \in On1 : i \in Nat /\ (i # 1 => i - 1 \in On1' /\ (i - 1) + 1 = i
                                                  /\ wire'[i - 1] = wire[i])
    BY ShiftOn
  <1>2. CASE On1 = {}
    <2>1. On1' = {} BY <1>1, <1>2
    <2>2. n = IF s \in Known THEN last[s] ELSE 0 BY <1>2 DEF LastIs
    <2>3. n = IF s \in Known' THEN last'[s] ELSE 0 BY <1>2, <2>2
    <2> QED BY <2>1, <2>3 DEF LastIs
  <1>3. CASE On1 # {}
    <2>1. PICK i \in On1 : wire[i].sequence = n /\ \A j \in On1 : j <= i BY <1>3 DEF LastIs
    <2>2. CASE i = 1
      <3>1. On1' = {}
        <4> SUFFICES ASSUME NEW j \in On1' PROVE FALSE OBVIOUS
        <4>1. j \in Nat /\ j + 1 # 1 /\ j + 1 <= 1 BY <1>1, <2>1, <2>2
        <4> QED BY <4>1
      <3>2. s \in Known' /\ last'[s] = n BY <2>1, <2>2
      <3> QED BY <3>1, <3>2 DEF LastIs
    <2>3. CASE i # 1
      <3>1. i \in Nat /\ i - 1 \in On1' /\ wire'[i - 1] = wire[i] BY <1>1, <2>3
      <3>2. \A j \in On1' : j \in Nat /\ j + 1 <= i BY <1>1, <2>1
      <3>3. \A j \in On1' : j <= i - 1 BY <3>1, <3>2
      <3>4. wire'[i - 1].sequence = n BY <2>1, <3>1
      <3> QED BY <3>1, <3>3, <3>4 DEF LastIs
    <2> QED BY <2>2, <2>3
  <1> QED BY <1>2, <1>3

\* A frame that the connection takes keeps what is said of one stream alone.
LEMMA OwnRead ==
  ASSUME ConnectionType, NEW s \in Streams, Own(s), Shift, HostSame, Reading(s)
  PROVE  Own(s)'
  <1>1. StatusFirst(s) /\ Opens(s) /\ BarrierLast(s) /\ Asked(s) /\ Lasts(s) BY DEF Own
  <1>2. /\ \A e : \A i \in On(e, s)' : i \in Nat /\ i + 1 \in On(e, s) /\ i + 1 # 1 /\ wire'[i] = wire[i + 1]
        /\ \A e : \A i \in On(e, s) : i \in Nat /\ (i # 1 => i - 1 \in On(e, s)')
    BY ShiftOn
  <1>3. /\ \A j \in DOMAIN wire' : j \in Nat /\ j + 1 \in DOMAIN wire /\ j + 1 # 1
                                   /\ wire'[j] = wire[j + 1]
        /\ 1 \in DOMAIN wire
    BY DEF Shift
  <1>4. Sender(s)' <=> Sender(s) BY DEF Sender, IsLive, HostSame
  <1>5. \A e : \A i \in On(e, s) : i \in DOMAIN wire /\ wire[i].stream = s BY DEF On
  <1>6. \A i, j \in Nat : (i + 1 < j + 1 => i < j) /\ (i + 1 # 1 => ~(i + 1 < 1)) /\ (i + 1 = j + 1 => i = j)
    OBVIOUS
  <1>7. 1 \in On("stream_retired", s) => ~Sender(s) /\ \A j \in DOMAIN wire' : wire'[j].stream # s
    BY <1>1, <1>3, <1>6 DEF BarrierLast
  <1>8. 1 \in On("resubscribing", s) => s \notin Known /\ On("resubscribing", s)' = {}
    BY <1>1, <1>2, <1>3, <1>5, <1>6 DEF StatusFirst
  <1>9. StatusFirst(s)'
    <2> SUFFICES ASSUME NEW i \in On("resubscribing", s)'
                 PROVE  /\ s \notin Known'
                        /\ \A j \in DOMAIN wire' : wire'[j].stream = s /\ j # i => i < j
      BY DEF StatusFirst
    <2>1. i \in Nat /\ i + 1 \in On("resubscribing", s) BY <1>2
    <2>2. s \notin Known' BY <1>1, <1>8, <2>1 DEF StatusFirst, Reading
    <2>3. ASSUME NEW j \in DOMAIN wire', wire'[j].stream = s, j # i PROVE i < j
      <3>1. j \in Nat /\ j + 1 \in DOMAIN wire /\ wire[j + 1].stream = s BY <1>3, <2>3
      <3>2. j + 1 # i + 1 BY <1>6, <2>1, <2>3, <3>1
      <3>3. i + 1 < j + 1 BY <1>1, <2>1, <3>1, <3>2 DEF StatusFirst
      <3> QED BY <1>6, <2>1, <3>1, <3>3
    <2> QED BY <2>2, <2>3
  <1>10. Opens(s)'
    <2> SUFFICES ASSUME Sender(s) \/ \E j \in DOMAIN wire' : wire'[j].stream = s
                 PROVE  s \in Known' \/ On("resubscribing", s)' # {}
      BY <1>4 DEF Opens
    <2>1. s \in Known \/ On("resubscribing", s) # {} BY <1>1, <1>3 DEF Opens
    <2>2. 1 \notin On("stream_retired", s) BY <1>7
    <2> QED BY <1>2, <2>1, <2>2 DEF Reading
  <1>11. BarrierLast(s)'
    <2> SUFFICES ASSUME NEW i \in On("stream_retired", s)'
                 PROVE  ~Sender(s) /\ \A j \in DOMAIN wire' : wire'[j].stream = s /\ j # i => j < i
      BY <1>4 DEF BarrierLast
    <2>1. i \in Nat /\ i + 1 \in On("stream_retired", s) BY <1>2
    <2>2. ASSUME NEW j \in DOMAIN wire', wire'[j].stream = s, j # i PROVE j < i
      <3>1. j \in Nat /\ j + 1 \in DOMAIN wire /\ wire[j + 1].stream = s BY <1>3, <2>2
      <3>2. j + 1 # i + 1 BY <1>6, <2>1, <2>2, <3>1
      <3>3. j + 1 < i + 1 BY <1>1, <2>1, <3>1, <3>2 DEF BarrierLast
      <3> QED BY <1>6, <2>1, <3>1, <3>3
    <2> QED BY <1>1, <2>1, <2>2 DEF BarrierLast
  <1>12. Asked(s)'
    <2> SUFFICES ASSUME subscribing = s PROVE Asked(s)' BY DEF Asked, HostSame
    <2>1. /\ s \in Known \ closing /\ ancestor[s] = NoStream
          /\ status[s] = "absent" /\ victim # s /\ successor # s
          /\ \A j \in DOMAIN wire : wire[j].stream # s
      BY <1>1 DEF Asked
    <2>2. s \in Known' /\ s \notin closing' BY <1>5, <2>1 DEF Reading
    <2>3. ancestor'[s] = NoStream BY <2>1 DEF Reading
    <2>4. \A j \in DOMAIN wire' : wire'[j].stream # s BY <1>3, <2>1
    <2> QED BY <2>1, <2>2, <2>3, <2>4 DEF Asked, HostSame
  <1>13. ASSUME NEW n, LastIs(s, n), 1 \notin On("stream_retired", s) PROVE LastIs(s, n)'
    <2>1. 1 \in On("subscription_report", s) => s \in Known' /\ last'[s] = wire[1].sequence
      BY <1>13 DEF Reading
    <2>2. 1 \notin On("subscription_report", s) =>
            (IF s \in Known' THEN last'[s] ELSE 0) = (IF s \in Known THEN last[s] ELSE 0)
      BY <1>8, <1>13 DEF Reading
    <2> QED BY <1>13, <2>1, <2>2, LastRead
  <1>14. Lasts(s)'
    <2>1. ASSUME Sender(s)' PROVE LastIs(s, last_transmitted[s])'
      <3>1. PICK n : n = last_transmitted[s] OBVIOUS
      <3>2. LastIs(s, n) /\ last_transmitted'[s] = n BY <1>1, <1>4, <2>1, <3>1 DEF Lasts, HostSame
      <3>3. LastIs(s, n)' BY <1>4, <1>7, <1>13, <2>1, <3>2
      <3> QED BY <3>2, <3>3 DEF LastIs
    <2>2. ASSUME NEW i \in On("stream_retired", s)' PROVE LastIs(s, wire[i].sequence)'
      <3>1. i + 1 \in On("stream_retired", s) /\ wire'[i] = wire[i + 1] BY <1>2
      <3>2. PICK n : n = wire[i + 1].sequence OBVIOUS
      <3>3. LastIs(s, n) BY <1>1, <3>1, <3>2 DEF Lasts
      <3>4. i \in DOMAIN wire' /\ wire'[i].stream = s BY DEF On
      <3>5. LastIs(s, n)' BY <1>7, <1>13, <3>3, <3>4
      <3>6. wire'[i].sequence = n BY <3>1, <3>2
      <3> QED BY <3>5, <3>6 DEF LastIs
    <2>3. status'[s] = "absent" => last_transmitted'[s] = 0 BY <1>1 DEF Lasts, HostSame
    <2> QED BY <2>1, <2>2, <2>3 DEF Lasts
  <1> QED BY <1>9, <1>10, <1>11, <1>12, <1>14 DEF Own

\* A barrier that is expected still is, after the frame that announced it.
LEMMA AnnouncedRead ==
  ASSUME NEW s \in Streams, Announced(s), BarrierLast(s), Shift, HostSame,
         \A u \in Streams : Reading(u)
  PROVE  Announced(s)'
  <1> SUFFICES ASSUME On("stream_retired", s)' # {} \/ victim' = s
               PROVE  \/ s \in closing'
                      \/ On("subscription_error", s)' # {}
                      \/ \E t \in Streams : ancestor'[t] = s /\ On("resubscribing", t)' # {}
    BY DEF Announced
  <1>1. /\ \A e, t : \A i \in On(e, t)' : i \in Nat /\ i + 1 \in On(e, t) /\ i + 1 # 1
        /\ \A e, t : \A i \in On(e, t) : i \in Nat /\ (i # 1 => i - 1 \in On(e, t)')
    BY ShiftOn
  <1>2. 1 \notin On("stream_retired", s)
    <2> SUFFICES ASSUME 1 \in On("stream_retired", s) PROVE FALSE OBVIOUS
    <2>1. CASE victim' = s BY <2>1 DEF BarrierLast, Sender, HostSame
    <2>2. CASE On("stream_retired", s)' # {}
      <3>1. PICK i \in Nat : i + 1 \in On("stream_retired", s) /\ i + 1 # 1 BY <1>1, <2>2
      <3>2. i + 1 \in DOMAIN wire /\ wire[i + 1].stream = s BY <3>1 DEF On
      <3>3. i + 1 < 1 BY <3>1, <3>2 DEF BarrierLast
      <3> QED BY <3>3
    <2> QED BY <2>1, <2>2
  <1>3. On("stream_retired", s) # {} \/ victim = s BY <1>1 DEF HostSame
  <1>4. CASE s \in closing BY <1>2, <1>4 DEF Reading
  <1>5. CASE On("subscription_error", s) # {} BY <1>1, <1>5 DEF Reading
  <1>6. ASSUME NEW t \in Streams, ancestor[t] = s, On("resubscribing", t) # {}
        PROVE  s \in closing' \/ (ancestor'[t] = s /\ On("resubscribing", t)' # {})
    <2>1. ancestor'[t] = s BY <1>2, <1>6 DEF Reading
    <2>2. 1 \in On("resubscribing", t) => s \in closing' BY <1>6 DEF Reading
    <2> QED BY <1>1, <1>6, <2>1, <2>2
  <1> QED BY <1>3, <1>4, <1>5, <1>6 DEF Announced

\* After the status has been read the barrier is the next frame.
LEMMA ReplacesRead ==
  ASSUME TypeOK, PeerReads, ConnectionType, AllStreams, NEW t \in Streams, HostSame,
         \A u \in Streams : Reading(u)
  PROVE  Replaces(t)'
  <1>1. /\ Shift /\ (\A j \in Nat : j + 1 = Len(wire) => j = Len(wire')) /\ wire # << >>
        /\ Len(wire) = 1 => wire' = << >>
    BY ReadShifts
  <1>2. /\ \A e, u : \A i \in On(e, u)' : i \in Nat /\ i + 1 \in On(e, u) /\ i + 1 # 1
        /\ \A e, u : \A i \in On(e, u) : i \in Nat /\ (i # 1 => i - 1 \in On(e, u)')
    BY <1>1, ShiftOn
  <1>3. PICK a : a = ancestor[t] OBVIOUS
  <1>4. /\ \A j \in On("resubscribing", t) :
             a # NoStream /\ (IsBarrier(j + 1, a) \/ (j = Len(wire) /\ victim = a))
        /\ a # NoStream =>
             /\ a # t /\ a \in Streams
             /\ On("resubscribing", t) # {} \/ (t \in Known /\ a \in Known /\ IsBarrier(1, a))
    BY <1>1, <1>3 DEF AllStreams, StreamOK, Replaces, ConnectionType
  <1>5. \A j \in Nat : j # 0 => (IsBarrier(j + 1, a) => IsBarrier(j, a)')
    <2> SUFFICES ASSUME NEW j \in Nat, j # 0, IsBarrier(j + 1, a) PROVE IsBarrier(j, a)' OBVIOUS
    <2>1. j + 1 \in DOMAIN wire /\ j + 1 # 1 /\ (j + 1) - 1 = j BY DEF IsBarrier
    <2>2. j \in DOMAIN wire' /\ wire'[j] = wire[j + 1] BY <1>1, <2>1 DEF Shift
    <2> QED BY <2>2 DEF IsBarrier
  <1>6. ancestor'[t] = IF 1 \in On("stream_retired", a) THEN NoStream ELSE a
    BY <1>3 DEF Reading
  <1>7. ASSUME NEW j \in On("resubscribing", t)'
        PROVE  ancestor'[t] # NoStream
               /\ (IsBarrier(j + 1, a)' \/ (j = Len(wire') /\ victim' = a))
               /\ ancestor'[t] = a
    <2>1. j \in Nat /\ j + 1 \in On("resubscribing", t) BY <1>2
    <2>2. a # NoStream /\ a \in Streams
          /\ (IsBarrier((j + 1) + 1, a) \/ (j + 1 = Len(wire) /\ victim = a))
      BY <1>4, <2>1
    <2>3. 1 \notin On("stream_retired", a)
      <3> SUFFICES ASSUME 1 \in On("stream_retired", a) PROVE FALSE OBVIOUS
      <3>1. ~Sender(a) /\ \A i \in DOMAIN wire : wire[i].stream = a /\ i # 1 => i < 1
        BY <2>2 DEF AllStreams, StreamOK, Own, BarrierLast
      <3>2. ~((j + 1) + 1 < 1) /\ (j + 1) + 1 # 1 BY <2>1
      <3> QED BY <2>2, <3>1, <3>2 DEF IsBarrier, Sender
    <2>4. j + 1 \in Nat /\ j + 1 # 0 BY <2>1
    <2>5. IsBarrier((j + 1) + 1, a) => IsBarrier(j + 1, a)' BY <1>5, <2>4
    <2>6. j + 1 = Len(wire) => j = Len(wire') BY <1>1, <2>1
    <2> QED BY <1>6, <2>2, <2>3, <2>5, <2>6 DEF HostSame
  <1>8. ASSUME ancestor'[t] # NoStream
        PROVE  /\ ancestor'[t] = a /\ a # t
               /\ \/ On("resubscribing", t)' # {}
                  \/ /\ t \in Known' /\ a \in Known'
                     /\ IsBarrier(1, a)' \/ (wire' = << >> /\ victim' = a)
    <2>1. ancestor'[t] = a /\ 1 \notin On("stream_retired", a) /\ a # NoStream BY <1>6, <1>8
    <2>2. ~IsBarrier(1, a) BY <2>1 DEF IsBarrier, On
    <2>3. PICK j \in On("resubscribing", t) : TRUE BY <1>4, <2>1, <2>2
    <2>4. CASE j # 1 BY <1>2, <1>4, <2>1, <2>3, <2>4
    <2>5. CASE j = 1
      <3>1. IsBarrier(1 + 1, a) \/ (1 = Len(wire) /\ victim = a) BY <1>4, <2>3, <2>5
      <3>2. IsBarrier(1 + 1, a) => IsBarrier(1, a)' BY <1>5
      <3>3. \A u : 1 \notin On("stream_retired", u) BY <2>3, <2>5, OneEvent
      <3>4. t \in Known' /\ a \in Known /\ a \in Known'
        <4>1. Reading(t) /\ Reading(a) BY <1>4, <2>1
        <4> QED BY <1>3, <2>3, <2>5, <3>3, <4>1 DEF Reading
      <3> QED BY <1>1, <1>4, <2>1, <3>1, <3>2, <3>4 DEF HostSame
    <2> QED BY <2>4, <2>5
  <1>9. \A j : (IsBarrier(j, a)' /\ ancestor'[t] = a) => IsBarrier(j, ancestor[t])'
    BY DEF IsBarrier
  <1> QED BY <1>7, <1>8, <1>9 DEF Replaces

\* The streams after a frame that the connection takes.
LEMMA ReadStreams ==
  ASSUME TypeOK, PeerReads, ConnectionType, AllStreams, HostSame,
         \A u \in Streams : Reading(u), NEW s \in Streams
  PROVE  StreamOK(s)'
  <1>1. Shift BY ReadShifts
  <1>2. Own(s) /\ BarrierLast(s) /\ Announced(s) BY DEF AllStreams, StreamOK, Own
  <1>3. Own(s)' BY <1>1, <1>2, OwnRead
  <1>4. Announced(s)' BY <1>1, <1>2, AnnouncedRead
  <1>5. Replaces(s)' BY ReplacesRead
  <1> QED BY <1>3, <1>4, <1>5 DEF StreamOK

\* The stream of the first frame is not one that is still asked for.
LEMMA HeadNotAsked ==
  ASSUME TypeOK, PeerReads, AllStreams
  PROVE  wire[1].stream \in Streams /\ subscribing # wire[1].stream
  <1>1. 1 \in DOMAIN wire /\ wire[1].stream \in Streams BY ReadShifts DEF Shift
  <1> QED BY <1>1 DEF AllStreams, StreamOK, Own, Asked

\* A report or an error: the ledger knows the same streams.
LEMMA StreamsReadKeeps ==
  ASSUME TypeOK, TypeOK', ConnectionType, AllStreams, ReadReport \/ ReadError
  PROVE  AllStreams'
  <1>1. PICK s : s = wire[1].stream OBVIOUS
  <1>2. PICK n : n = wire[1].sequence OBVIOUS
  <1>3. PeerReads BY DEF ReadReport, ReadError
  <1>4. /\ Shift /\ Head(wire) = wire[1] /\ wire # << >> /\ s \in Streams /\ subscribing # s
        /\ UNCHANGED <<status, victim, successor, last_transmitted>> /\ 1 \in DOMAIN wire
    BY <1>1, <1>3, ReadShifts, HeadNotAsked DEF Shift
  <1>5. /\ UNCHANGED <<subscribing, ancestor>> /\ s \in Known
        /\ closing \subseteq closing' /\ closing' \subseteq closing \cup {s}
        /\ last' = IF wire[1].event = "subscription_report" THEN [last EXCEPT ![s] = n] ELSE last
        /\ wire[1].event \in {"subscription_report", "subscription_error"}
        /\ wire[1].event = "subscription_error" => s \in closing'
    <2>1. CASE ReadReport
      <3>1. /\ wire[1].event = "subscription_report" /\ s \in Known
            /\ last' = [last EXCEPT ![s] = n] /\ UNCHANGED <<subscribing, ancestor>>
            /\ closing' = closing \/ closing' = closing \cup {s}
        BY <1>1, <1>2, <1>4, <2>1 DEF ReadReport, Received, CanRegister
      <3> QED BY <3>1
    <2>2. CASE ReadError
      BY <1>1, <1>4, <2>2 DEF ReadError, Received, ledger
    <2> QED BY <2>1, <2>2
  <1>6. Known' = Known /\ Subscriptions' = Subscriptions BY <1>5 DEF Known, Subscriptions
  <1>7. ASSUME NEW u \in Streams PROVE Reading(u)
    <2>1. \A e : 1 \in On(e, u) => u = s /\ wire[1].event = e BY <1>1 DEF On
    <2>2. /\ \A v : 1 \notin On("stream_retired", v) /\ 1 \notin On("resubscribing", v)
      BY <1>5 DEF On
    <2>3. u \in Known => last'[u] = IF 1 \in On("subscription_report", u) THEN n ELSE last[u]
      <3>1. 1 \in On("subscription_report", u) <=> u = s /\ wire[1].event = "subscription_report"
        BY <1>1, <1>4 DEF On
      <3> QED BY <1>5, <3>1 DEF Known, ConnectionType
    <2>4. subscribing = u => u \notin closing' BY <1>4, <1>5 DEF AllStreams, StreamOK, Own, Asked
    <2> QED BY <1>2, <1>5, <1>6, <2>1, <2>2, <2>3, <2>4 DEF Reading
  <1>8. HostSame BY <1>4, <1>5 DEF HostSame
  <1>9. \A u \in Streams : StreamOK(u)' BY <1>3, <1>7, <1>8, ReadStreams
  <1>10. closing' \subseteq Known' BY <1>5, <1>6 DEF AllStreams
  <1> QED BY <1>6, <1>9, <1>10 DEF AllStreams

\* When a recovery status comes, no known stream replaces another.
LEMMA NoneReplaced ==
  ASSUME ConnectionType, AllStreams, wire # << >>, wire[1].event = "resubscribing"
  PROVE  /\ \A u \in Known : ancestor[u] = NoStream
         /\ Subscriptions = Known
  <1>1. ASSUME NEW u \in Known PROVE ancestor[u] = NoStream
    <2>1. ~IsBarrier(1, ancestor[u]) BY DEF IsBarrier
    <2> QED BY <2>1, AncestorKnown
  <1>2. NoStream \notin Known BY CreditAssumption DEF ConnectionType
  <1> QED BY <1>1, <1>2 DEF Subscriptions

\* The status of a recovery.
LEMMA StreamsReadStatus ==
  ASSUME TypeOK, TypeOK', ConnectionType, AllStreams, ReadResubscribing
  PROVE  AllStreams'
  <1>1. PICK t : t = wire[1].stream OBVIOUS
  <1>2. PICK a : a = ancestor[t] OBVIOUS
  <1>3. PeerReads BY DEF ReadResubscribing
  <1>4. /\ Shift /\ Head(wire) = wire[1] /\ wire # << >> /\ t \in Streams /\ subscribing # t
        /\ UNCHANGED <<status, victim, successor, last_transmitted>> /\ 1 \in DOMAIN wire
    BY <1>1, <1>3, ReadShifts, HeadNotAsked DEF Shift
  <1>5. /\ UNCHANGED <<subscribing, ancestor>> /\ wire[1].event = "resubscribing"
        /\ a \in Known \ closing /\ t \notin Known /\ closing' = closing \cup {a}
        /\ last' = [k \in Known \cup {t} |-> IF k = t THEN 0 ELSE last[k]]
    BY <1>1, <1>2, <1>4 DEF ReadResubscribing, Received, CanRecover, CanOpen, Opened
  <1>6. Known' = Known \cup {t} /\ last'[t] = 0 /\ \A k \in Known : last'[k] = last[k]
    BY <1>5 DEF Known
  <1>7. a \in Streams /\ a # NoStream /\ a # t BY <1>5, CreditAssumption DEF ConnectionType
  <1>8. subscribing # a
    <2>1. 1 \in On("resubscribing", t) BY <1>1, <1>4, <1>5 DEF On
    <2>2. IsBarrier(1 + 1, a) \/ victim = a
      BY <1>2, <1>4, <2>1 DEF AllStreams, StreamOK, Replaces
    <2>3. Asked(a) BY <1>7 DEF AllStreams, StreamOK, Own
    <2> QED BY <2>2, <2>3 DEF Asked, IsBarrier
  <1>9. ASSUME NEW u \in Streams PROVE Reading(u)
    <2>1. \A e, v : e # "resubscribing" => 1 \notin On(e, v) BY <1>5 DEF On
    <2>2. 1 \in On("resubscribing", u) <=> u = t BY <1>1, <1>4, <1>5 DEF On
    <2>3. subscribing = u => u \notin closing' BY <1>5, <1>8 DEF AllStreams, StreamOK, Own, Asked
    <2>4. u = t => ancestor[u] \in Known /\ ancestor[u] \in closing' BY <1>2, <1>5
    <2>5. u \in Known' => last'[u] = IF u \in Known THEN last[u] ELSE 0 BY <1>6
    <2> QED BY <1>5, <1>6, <2>1, <2>2, <2>3, <2>4, <2>5 DEF Reading
  <1>10. HostSame BY <1>4, <1>5 DEF HostSame
  <1>11. \A u \in Streams : StreamOK(u)' BY <1>3, <1>9, <1>10, ReadStreams
  <1>12. closing' \subseteq Known' BY <1>5, <1>6 DEF AllStreams
  <1>13. Cardinality(Subscriptions') <= MaximumSubscriptions
    <2>1. Subscriptions = Known BY <1>4, <1>5, NoneReplaced
    <2>2. Subscriptions' \subseteq (Known \ {a}) \cup {t} BY <1>2, <1>5, <1>6 DEF Subscriptions
    <2>3. IsFiniteSet(Known) BY DEF ConnectionType
    <2>4. /\ IsFiniteSet(Known \ {a}) /\ Cardinality(Known \ {a}) = Cardinality(Known) - 1
      BY <1>5, <2>3, FS_RemoveElement
    <2>5. /\ IsFiniteSet((Known \ {a}) \cup {t})
          /\ Cardinality((Known \ {a}) \cup {t}) = Cardinality(Known \ {a}) + 1
      BY <1>5, <2>4, FS_AddElement
    <2>6. /\ Cardinality(Subscriptions') <= Cardinality((Known \ {a}) \cup {t})
          /\ IsFiniteSet(Subscriptions')
      BY <2>2, <2>5, FS_Subset
    <2>7. Cardinality(Known) \in Nat /\ Cardinality(Subscriptions') \in Nat
      BY <2>3, <2>6, FS_CardinalityType
    <2>8. Cardinality(Known) <= MaximumSubscriptions BY <2>1 DEF AllStreams
    <2> QED BY <2>4, <2>5, <2>6, <2>7, <2>8, LedgerAssumption
  <1> QED BY <1>11, <1>12, <1>13 DEF AllStreams

\* A barrier.
LEMMA StreamsReadBarrier ==
  ASSUME TypeOK, TypeOK', ConnectionType, AllStreams, ReadBarrier
  PROVE  AllStreams'
  <1>1. PICK s : s = wire[1].stream OBVIOUS
  <1>2. PeerReads BY DEF ReadBarrier
  <1>3. /\ Shift /\ Head(wire) = wire[1] /\ wire # << >> /\ s \in Streams /\ subscribing # s
        /\ UNCHANGED <<status, victim, successor, last_transmitted>> /\ 1 \in DOMAIN wire
    BY <1>1, <1>2, ReadShifts, HeadNotAsked DEF Shift
  <1>4. /\ UNCHANGED subscribing /\ wire[1].event = "stream_retired"
        /\ s \in Known /\ closing' = closing \ {s}
        /\ last' = [k \in Known \ {s} |-> last[k]]
        /\ ancestor' = [t \in Streams |-> IF ancestor[t] = s THEN NoStream ELSE ancestor[t]]
    BY <1>1, <1>3 DEF ReadBarrier, Received, CanRetire, Without
  <1>5. Known' = Known \ {s} /\ \A k \in Known \ {s} : last'[k] = last[k] BY <1>4 DEF Known
  <1>6. \A v : 1 \in On("stream_retired", v) <=> v = s BY <1>1, <1>3, <1>4 DEF On
  <1>7. ASSUME NEW u \in Streams PROVE Reading(u)
    <2>1. \A e, v : e # "stream_retired" => 1 \notin On(e, v) BY <1>4 DEF On
    <2>2. subscribing = u => u \notin closing' BY <1>4 DEF AllStreams, StreamOK, Own, Asked
    <2>3. ancestor'[u] = IF 1 \in On("stream_retired", ancestor[u]) THEN NoStream ELSE ancestor[u]
      BY <1>4, <1>6
    <2> QED BY <1>4, <1>5, <1>6, <2>1, <2>2, <2>3 DEF Reading
  <1>8. HostSame BY <1>3, <1>4 DEF HostSame
  <1>9. \A u \in Streams : StreamOK(u)' BY <1>2, <1>7, <1>8, ReadStreams
  <1>10. closing' \subseteq Known' BY <1>4, <1>5 DEF AllStreams
  <1>11. Cardinality(Subscriptions') <= MaximumSubscriptions
    <2>1. ASSUME NEW x \in Known, x # s, NEW u \in Known, ancestor[u] = x
          PROVE  FALSE
      <3>1. u \in Streams /\ x # NoStream BY <2>1, CreditAssumption DEF ConnectionType
      <3>2. IsBarrier(1, x) \/ wire = << >> BY <2>1, <3>1, AncestorKnown
      <3> QED BY <1>1, <1>3, <2>1, <3>2 DEF IsBarrier
    <2>2. Subscriptions' \subseteq Subscriptions BY <1>5, <2>1 DEF Subscriptions
    <2>3. IsFiniteSet(Subscriptions) BY FS_Subset DEF Subscriptions, ConnectionType
    <2>4. /\ Cardinality(Subscriptions') <= Cardinality(Subscriptions)
          /\ Cardinality(Subscriptions') \in Nat /\ Cardinality(Subscriptions) \in Nat
      BY <2>2, <2>3, FS_Subset, FS_CardinalityType
    <2> QED BY <2>4, LedgerAssumption DEF AllStreams
  <1> QED BY <1>9, <1>10, <1>11 DEF AllStreams

-----------------------------------------------------------------------------
(* The streams: every step.                                                *)

\* A host that works and a session that is up have been so before.
LEMMA WorkedBefore ==
  ASSUME FlowNext, healthy', Up'
  PROVE  healthy /\ Up
  <1>1. ASSUME healthy' = healthy \/ healthy' = FALSE PROVE healthy BY <1>1
  <1>2. CASE Reads
    <2>1. healthy' = healthy /\ Up
      BY <1>2 DEF Reads, ReadReport, ReadResubscribing, ReadError, ReadBarrier, ReadRefused,
         PeerReads, Received
    <2> QED BY <1>1, <2>1
  <1>3. CASE Stops BY <1>3 DEF Stops, Up
  <1>4. CASE HostAcknowledged
    BY <1>4 DEF HostAcknowledged, Acknowledge, AcknowledgeRejected, FailChannel, Ready, Up
  <1>5. CASE (Locked \/ WriteFails) /\ HostOnly
    BY <1>5 DEF Locked, Purge, RetireBarrier, Pop, Popped, DrainTransmits, DrainFails, Drained,
       Draining, WriteFails, HostOnly, beam, Up
  <1>6. CASE \E n \in delivered : Consume(n) \/ Ignore(n)
    BY <1>6 DEF Consume, Ignore, native, vars, Up
  <1>7. ASSUME NEW s \in Streams, Subscribe(s) \/ SubscribeFails(s) \/ Cancel(s)
        PROVE  healthy /\ Up
    BY <1>7 DEF Subscribe, SubscribeFails, Cancel, native, vars, Up
  <1>8. ASSUME NEW s \in Streams,
               \/ \E q \in QueueLimits : Subscribed(s, q)
               \/ HostSubmits(s) \/ (HostEnds(s) /\ HostOnly)
               \/ \E t \in Streams : HostRecovers(s, t)
        PROVE  healthy /\ Up
    BY <1>8 DEF Subscribed, AddStream, HostSubmits, SubmitTransmits, SubmitQueues, SubmitOverflows,
       SubmitInvalid, HostEnds, EmitFailure, Unsubscribe, HostRecovers, BeginRecovery, Ready,
       HostOnly, beam, Up
  <1> QED BY <1>2, <1>3, <1>4, <1>5, <1>6, <1>7, <1>8 DEF FlowNext

\* The steps of the loops.
LEMMA StreamsLocked ==
  ASSUME AccountInv, TypeOK', AllStreams, Locked, healthy', HostOnly
  PROVE  AllStreams'
  <1>1. TypeOK /\ UNCHANGED <<last, ancestor, closing, subscribing>>
    BY DEF AccountInv, HostOnly, beam, ledger
  <1>2. CASE Purge \/ Popped
    <2>1. UNCHANGED <<status, last_transmitted, victim, successor, wire>>
      BY <1>2 DEF Purge, Popped, streams, control
    <2> QED BY <1>1, <2>1, StreamsIdle DEF StreamsSame
  <1>3. CASE RetireBarrier BY <1>3, StreamsBarrier
  <1>4. CASE Pop BY <1>4, StreamsPop
  <1>5. CASE DrainTransmits
    <2>1. PICK s, b : s = Pending.stream /\ b = Pending.body OBVIOUS
    <2>2. Pending \in QueuedFrames
      <3>1. queued # << >> /\ queued \in Seq(QueuedFrames)
        BY <1>1, <1>5 DEF DrainTransmits, TypeOK, QueuedOK
      <3> QED BY <3>1 DEF Pending
    <2>3. s \in Streams /\ b \in Nat BY <2>1, <2>2 DEF QueuedFrames
    <2>4. IsLive(s) /\ TransmitFrame(s, b) /\ phase # "purge" /\ UNCHANGED <<status, control>>
      BY <1>5, <2>1 DEF DrainTransmits, Draining
    <2> QED BY <2>3, <2>4, StreamsTransmit
  <1>6. CASE DrainFails BY <1>6 DEF DrainFails
  <1>7. CASE Drained BY <1>7, StreamsDrained
  <1> QED BY <1>2, <1>3, <1>4, <1>5, <1>6, <1>7 DEF Locked

\* What the host submits.
LEMMA StreamsSubmits ==
  ASSUME AccountInv, TypeOK', AllStreams, NEW s \in Streams, HostSubmits(s), healthy'
  PROVE  AllStreams'
  <1>1. TypeOK /\ HostOnly /\ UNCHANGED <<last, ancestor, closing, subscribing>>
    BY DEF AccountInv, HostSubmits, HostOnly, beam, ledger
  <1>2. PICK b \in Bodies : \/ SubmitTransmits(s, b) \/ SubmitQueues(s, b)
                            \/ SubmitOverflows(s, b) \/ SubmitInvalid(s, b)
    BY DEF HostSubmits
  <1>3. CASE SubmitTransmits(s, b)
    <2>1. b \in Nat BY CreditAssumption
    <2>2. IsLive(s) /\ TransmitFrame(s, b) /\ phase # "purge" /\ UNCHANGED <<status, control>>
      BY <1>3 DEF SubmitTransmits, Ready
    <2> QED BY <1>1, <2>1, <2>2, StreamsTransmit
  <1>4. CASE SubmitQueues(s, b)
    <2>1. UNCHANGED <<status, last_transmitted, victim, successor, wire>>
      BY <1>4 DEF SubmitQueues, control
    <2> QED BY <1>1, <2>1, StreamsIdle DEF StreamsSame
  <1>5. CASE SubmitOverflows(s, b)
    BY <1>1, <1>5, StreamsError DEF SubmitOverflows
  <1>6. CASE SubmitInvalid(s, b) BY <1>6 DEF SubmitInvalid, FailChannel
  <1> QED BY <1>2, <1>3, <1>4, <1>5, <1>6

\* Every step of a working host and session keeps the streams.
LEMMA StreamsStep ==
  ASSUME AccountInv, TypeOK', ConnectionType, AllStreams, FlowNext, healthy', Up'
  PROVE  AllStreams'
  <1>0. TypeOK BY DEF AccountInv
  <1>1. CASE ReadReport \/ ReadError BY <1>0, <1>1, StreamsReadKeeps
  <1>2. CASE ReadResubscribing BY <1>0, <1>2, StreamsReadStatus
  <1>3. CASE ReadBarrier BY <1>0, <1>3, StreamsReadBarrier
  <1>4. CASE ReadRefused \/ Stops BY <1>4 DEF ReadRefused, Stops, Up
  <1>5. CASE HostAcknowledged
    <2>1. UNCHANGED <<status, last_transmitted, victim, successor, wire>>
      BY <1>5 DEF HostAcknowledged, Acknowledge, AcknowledgeRejected, FailChannel, streams, control
    <2>2. UNCHANGED <<last, ancestor, closing, subscribing>> BY <1>5 DEF HostAcknowledged, ledger
    <2> QED BY <1>0, <2>1, <2>2, StreamsIdle DEF StreamsSame
  <1>6. CASE Locked /\ HostOnly BY <1>6, StreamsLocked
  <1>7. CASE WriteFails BY <1>7 DEF WriteFails, FailChannel
  <1>8. ASSUME NEW n \in delivered, Consume(n) \/ Ignore(n) PROVE AllStreams'
    <2>1. /\ UNCHANGED <<status, last_transmitted, victim, successor, wire>>
          /\ UNCHANGED <<last, ancestor, closing, subscribing>>
      BY <1>8 DEF Consume, Ignore, native, vars, streams, control, ledger
    <2> QED BY <1>0, <2>1, StreamsIdle DEF StreamsSame
  <1>9. ASSUME NEW s \in Streams,
               \/ Subscribe(s) \/ SubscribeFails(s) \/ Cancel(s)
               \/ \E q \in QueueLimits : Subscribed(s, q)
        PROVE  AllStreams'
    BY <1>0, <1>9, StreamsSubscribe, StreamsRefused, StreamsCancel, StreamsSubscribed
  <1>10. ASSUME NEW s \in Streams, HostSubmits(s) PROVE AllStreams'
    BY <1>10, StreamsSubmits
  <1>11. ASSUME NEW s \in Streams, HostEnds(s), HostOnly PROVE AllStreams'
    <2>1. CASE EmitFailure(s) BY <1>11, <2>1, StreamsError DEF EmitFailure
    <2>2. CASE s \in closing /\ Unsubscribe(s) BY <1>11, <2>2, StreamsUnsubscribe
    <2> QED BY <1>11, <2>1, <2>2 DEF HostEnds
  <1>12. ASSUME NEW s \in Streams, NEW t \in Streams, HostRecovers(s, t) PROVE AllStreams'
    BY <1>12, StreamsRecover
  <1> QED BY <1>1, <1>2, <1>3, <1>4, <1>5, <1>6, <1>7, <1>8, <1>9, <1>10, <1>11, <1>12
      DEF FlowNext, Reads

\* At first there are no streams.
LEMMA InitStream == FlowInit => StreamInv
  <1> SUFFICES ASSUME FlowInit PROVE AllStreams
    BY DEF StreamInv
  <1>1. /\ wire = << >> /\ last = << >> /\ closing = {} /\ subscribing = NoStream
        /\ victim = NoStream /\ successor = NoStream
        /\ ancestor = [s \in Streams |-> NoStream]
        /\ status = [s \in Streams |-> "absent"]
        /\ last_transmitted = [s \in Streams |-> 0]
    BY DEF FlowInit, Init
  <1>2. DOMAIN wire = {} /\ Known = {} /\ NoStream \notin Streams
    BY <1>1, CreditAssumption DEF Known
  <1>3. \A e, s : On(e, s) = {} BY <1>2 DEF On
  <1>4. ASSUME NEW s \in Streams PROVE StreamOK(s)
    <2>1. ~Sender(s) /\ last_transmitted[s] = 0 /\ ancestor[s] = NoStream /\ subscribing # s
      BY <1>1, <1>2 DEF Sender, IsLive
    <2>2. Own(s)
      BY <1>2, <1>3, <2>1 DEF Own, StatusFirst, Opens, BarrierLast, Asked, Lasts
    <2>3. Announced(s) BY <1>1, <1>2, <1>3 DEF Announced
    <2>4. Replaces(s) BY <1>3, <2>1 DEF Replaces
    <2> QED BY <2>2, <2>3, <2>4 DEF StreamOK
  <1>5. Cardinality(Subscriptions) <= MaximumSubscriptions
    <2>1. Subscriptions = {} BY <1>2 DEF Subscriptions
    <2>2. Cardinality({}) = 0 BY FS_EmptySet
    <2> QED BY <2>1, <2>2, LedgerAssumption
  <1> QED BY <1>1, <1>2, <1>4, <1>5 DEF AllStreams

\* A step, or a stutter, keeps the streams right.
LEMMA StreamSame ==
  AccountInv /\ TypeOK' /\ NumberInv /\ StreamInv /\ [FlowNext]_allvars => StreamInv'
  <1> SUFFICES ASSUME AccountInv, TypeOK', NumberInv, StreamInv, [FlowNext]_allvars, healthy', Up'
               PROVE  AllStreams'
    BY DEF StreamInv
  <1>1. CASE FlowNext
    BY <1>1, WorkedBefore, StreamsStep DEF StreamInv, NumberInv
  <1>2. CASE UNCHANGED allvars
    <2>1. StreamsSame /\ UNCHANGED <<wire, closing, healthy, session>>
      BY <1>2 DEF StreamsSame, allvars, native, beam, ledger, vars, streams, control
    <2>2. healthy /\ Up /\ TypeOK BY <2>1 DEF Up, AccountInv
    <2> QED BY <2>1, <2>2, StreamsIdle DEF StreamInv
  <1> QED BY <1>1, <1>2

\* The streams are right in every state of a working session.
LEMMA StreamCorrect == FlowSpec => []StreamInv
  <1>1. AccountInv => TypeOK BY DEF AccountInv
  <1> QED BY <1>1, InitStream, StreamSame, NumberCorrect, FlowImplements, TypeCorrect,
         AccountCorrect, PTL DEF FlowSpec

-----------------------------------------------------------------------------
(* The two ends agree.                                                     *)

\* The stream of the first frame is known, unless the frame opens it.
LEMMA HeadKnown ==
  ASSUME TypeOK, AllStreams, wire # << >>, wire[1].event # "resubscribing"
  PROVE  wire[1].stream \in Known
  <1>1. PICK s \in Streams : s = wire[1].stream BY HeadIs
  <1>2. 1 \in DOMAIN wire BY HeadIs
  <1>3. StatusFirst(s) /\ Opens(s) BY DEF AllStreams, StreamOK, Own
  <1>4. ASSUME NEW i \in On("resubscribing", s) PROVE FALSE
    <2>1. i \in DOMAIN wire /\ i # 1 BY DEF On
    <2>2. i < 1 BY <1>1, <1>2, <1>3, <2>1 DEF StatusFirst
    <2>3. i \in Nat /\ i >= 1
      <3>1. wire \in Seq(Messages) BY DEF TypeOK, ChannelOK
      <3> QED BY <2>1, <3>1
    <2> QED BY <2>2, <2>3
  <1> QED BY <1>1, <1>2, <1>3, <1>4 DEF Opens

\* The total never falls below where the window starts.
LEMMA CumAbove ==
  ASSUME TypeOK, Window, NEW n \in Base..(next_sequence - 1)
  PROVE  Cum(Base) <= Cum(n)
  <1>1. /\ Base \in Int /\ next_sequence \in Nat /\ Len(outstanding) \in Nat
        /\ Cum(Base) \in Int /\ Cum(n) \in Int
        /\ outstanding_bytes \in Int /\ cumulative_bytes \in Int
        /\ outstanding \in Seq(SentFrames)
    <2>1. Base \in Int /\ next_sequence \in Nat /\ Len(outstanding) \in Nat /\ Base < next_sequence
      BY FrameIs
    <2>2. Base \in Base..(next_sequence - 1) BY <2>1
    <2> QED BY <2>1, <2>2, FrameIs DEF TypeOK, SentOK
  <1>2. CASE n = Base BY <1>1, <1>2
  <1>3. CASE n # Base
    <2>1. PICK len \in Nat : len = Len(outstanding) BY <1>1
    <2>2. PICK k \in Int : k = n - Base BY <1>1
    <2>3. k \in 1..len /\ DOMAIN outstanding = 1..len /\ 1 \in 1..len
      BY <1>1, <1>3, <2>1, <2>2 DEF Base
    <2>4. Cum(n) = outstanding[k].cumulative BY <1>3, <2>2 DEF Cum, Frame
    <2>5. outstanding # << >> BY <2>3
    <2>6. /\ outstanding[1].cumulative \in Nat /\ outstanding[1].bytes \in Nat
          /\ outstanding[k].cumulative \in Nat /\ outstanding[k].bytes \in Nat
      <3>1. outstanding[1] \in SentFrames /\ outstanding[k] \in SentFrames BY <1>1, <2>3
      <3> QED BY <3>1 DEF SentFrames
    <2>7. Cum(Base) = outstanding[1].cumulative - outstanding[1].bytes
      <3>1. outstanding_bytes = cumulative_bytes - outstanding[1].cumulative + outstanding[1].bytes
        BY <2>5 DEF Window, Totals
      <3>2. Cum(Base) = cumulative_bytes - outstanding_bytes BY FrameIs
      <3>3. PICK x \in Nat, y \in Nat : x = outstanding[1].cumulative /\ y = outstanding[1].bytes
        BY <2>6
      <3>4. PICK c \in Int, o \in Int : c = cumulative_bytes /\ o = outstanding_bytes BY <1>1
      <3>5. o = c - x + y BY <3>1, <3>3, <3>4
      <3>6. c - o = x - y BY <3>5
      <3> QED BY <3>2, <3>3, <3>4, <3>6
    <2>8. 1 < k => outstanding[1].cumulative <= outstanding[k].cumulative - outstanding[k].bytes
      BY <2>3 DEF Window, Ordered
    <2>9. k = 1 \/ 1 < k BY <2>3
    <2> QED BY <2>4, <2>6, <2>7, <2>8, <2>9
  <1> QED BY <1>2, <1>3

\* A report that comes is the next one, of a known stream, and fits.
LEMMA TakesReport ==
  ASSUME TypeOK, Window, CreditBound, NumberInv, AllStreams, Up, wire # << >>,
         wire[1].event = "subscription_report"
  PROVE  CanRegister(wire[1].stream, wire[1].sequence, wire[1].bytes)
  <1>1. 1 \in InFlight /\ wire[1].sequence \in Nat /\ wire[1].bytes \in Nat
    BY HeadIs DEF InFlight
  <1>2. /\ LedgerType /\ Registry /\ ledger_acknowledged.sequence \in Nat /\ ledger_next \in Nat
    BY DEF NumberInv, LedgerInv, LedgerType, AckFrames
  <1>3. PICK a \in Nat, e \in Nat, N \in Nat, z \in Int, len \in Nat :
          /\ a = ledger_acknowledged.sequence /\ e = ledger_next /\ N = next_sequence
          /\ z = Base /\ len = Len(outstanding)
    BY <1>2, FrameIs
  <1>4. z <= a /\ a < e /\ e <= N /\ z = N - 1 - len
    BY <1>2, <1>3, FrameIs DEF Registry, Base
  <1>5. /\ \A i \in InFlight : e <= wire[i].sequence /\ wire[i].sequence < N /\ Carries(wire[i])
        /\ \A i, j \in InFlight : i < j => wire[i].sequence < wire[j].sequence
        /\ \A n \in e..(N - 1) : \E i \in InFlight : wire[i].sequence = n
    BY <1>3 DEF NumberInv, Numbered
  <1>6. wire[1].sequence = e /\ e < N /\ wire[1].bytes = Frame(e).bytes
    <2>1. e <= wire[1].sequence /\ wire[1].sequence < N BY <1>1, <1>5
    <2>2. e \in e..(N - 1) BY <1>1, <2>1
    <2>3. PICK i \in InFlight : wire[i].sequence = e BY <1>5, <2>2
    <2>4. i = 1 \/ 1 < i
      <3>1. wire \in Seq(Messages) BY DEF TypeOK, ChannelOK
      <3>2. i \in DOMAIN wire BY DEF InFlight
      <3> QED BY <3>1, <3>2
    <2>5. wire[1].sequence = e BY <1>1, <1>5, <2>1, <2>3, <2>4
    <2> QED BY <1>1, <1>5, <2>1, <2>5 DEF Carries
  <1>7. wire[1].stream \in Known BY HeadKnown
  <1>8. wire[1].sequence < MaximumSequence
    <2>1. N \in 1..MaximumSequence BY <1>3 DEF TypeOK, SentOK
    <2> QED BY <1>6, <2>1, CreditAssumption
  <1>9. pending \in [(a + 1)..(e - 1) -> Reports] BY <1>2, <1>3 DEF LedgerType
  <1>10. Cardinality(DOMAIN pending) < LedgerReports
    <2>1. DOMAIN pending = (a + 1)..(e - 1) BY <1>9
    <2>2. Cardinality((a + 1)..(e - 1)) = IF a + 1 > e - 1 THEN 0 ELSE (e - 1) - (a + 1) + 1
      BY FS_Interval
    <2>3. Cardinality((a + 1)..(e - 1)) < len BY <1>4, <1>6, <2>2
    <2>4. len <= SessionReportCredit BY <1>3 DEF CreditBound, SessionCredit
    <2> QED BY <2>1, <2>2, <2>3, <2>4, CreditAssumption, LedgerAssumption
  <1>11. Retained = Cum(e - 1) - Cum(a)
    <2>1. PICK m \in Nat : m = e - 1 BY <1>4
    <2>2. a <= m /\ m < next_sequence /\ m \in a..m BY <1>3, <1>4, <1>6, <2>1
    <2>3. PICK r : r = pending OBVIOUS
    <2>4. r \in [(a + 1)..m -> Reports] /\ \A n \in (a + 1)..m : r[n].bytes = Frame(n).bytes
      BY <1>2, <1>9, <2>1, <2>3 DEF Registry
    <2>5. BytesUpTo(r, m) = Cum(m) - Cum(a) BY <1>2, <1>3, <2>2, <2>4, TotalIs
    <2> QED BY <1>3, <2>1, <2>3, <2>5 DEF Retained
  <1>12. PICK ce, cp, ca, cz \in Int :
           ce = Cum(e) /\ cp = Cum(e - 1) /\ ca = Cum(a) /\ cz = Cum(z)
    <2>1. /\ e \in z..(N - 1) /\ e - 1 \in z..(N - 1) /\ a \in z..(N - 1) /\ z \in z..(N - 1)
      BY <1>4, <1>6
    <2> QED BY <1>3, <2>1, FrameIs
  <1>13. ce = cp + wire[1].bytes
    <2>1. e \in (z + 1)..(N - 1) BY <1>4, <1>6
    <2> QED BY <1>3, <1>6, <1>12, <2>1, FrameIs
  <1>14. cz <= ca /\ ce <= cumulative_bytes
    <2>1. a \in z..(N - 1) /\ e \in z..(N - 1) BY <1>4, <1>6
    <2> QED BY <1>3, <1>12, <2>1, CumAbove, FrameIs
  <1>15. /\ cz = cumulative_bytes - outstanding_bytes /\ outstanding_bytes <= SessionByteCredit
         /\ cumulative_bytes \in Int /\ outstanding_bytes \in Int /\ cumulative_bytes <= MaximumBytes
    BY <1>3, <1>12, FrameIs, CreditAssumption DEF CreditBound, SessionCredit, TypeOK, SentOK
  <1>16. Retained + wire[1].bytes = ce - ca BY <1>1, <1>11, <1>12, <1>13
  <1>17. Retained + wire[1].bytes <= LedgerBytes
    BY <1>14, <1>15, <1>16, CreditAssumption, LedgerAssumption
  <1>18. ledger_acknowledged.bytes + Retained + wire[1].bytes <= MaximumBytes
    <2>1. ledger_acknowledged.bytes = ca BY <1>2, <1>3, <1>12 DEF Registry, Quotes
    <2>2. Retained = cp - ca BY <1>11, <1>12
    <2>3. PICK b \in Nat, c \in Int : b = wire[1].bytes /\ c = cumulative_bytes BY <1>1, <1>15
    <2>4. ledger_acknowledged.bytes + Retained + wire[1].bytes = ce
      <3>1. ce = cp + b /\ ca + (cp - ca) + b = cp + b BY <1>13, <2>3
      <3> QED BY <2>1, <2>2, <2>3, <3>1
    <2> QED BY <1>14, <1>15, <2>3, <2>4, CreditAssumption
  <1> QED BY <1>3, <1>6, <1>7, <1>8, <1>10, <1>17, <1>18 DEF CanRegister

\* A generation that comes is new, and there is room for it.
LEMMA TakesStatus ==
  ASSUME TypeOK, ConnectionType, AllStreams, wire # << >>, wire[1].event = "resubscribing"
  PROVE  CanOpen(wire[1].stream)
  <1>1. PICK s \in Streams : s = wire[1].stream BY HeadIs
  <1>2. 1 \in On("resubscribing", s) BY <1>1, HeadIs DEF On
  <1>3. s \notin Known BY <1>2 DEF AllStreams, StreamOK, Own, StatusFirst
  <1>4. Subscriptions = Known BY NoneReplaced
  <1>5. Cardinality(Known) <= MaximumSubscriptions /\ Cardinality(Known) \in Nat
    BY <1>4, FS_CardinalityType DEF AllStreams, ConnectionType
  <1> QED BY <1>1, <1>3, <1>5, LedgerAssumption DEF CanOpen

\* A barrier that comes is expected, and names the last report.
LEMMA TakesBarrier ==
  ASSUME TypeOK, ConnectionType, AllStreams, wire # << >>, wire[1].event = "stream_retired"
  PROVE  CanRetire(wire[1].stream, wire[1].sequence)
  <1>1. PICK s \in Streams : s = wire[1].stream BY HeadIs
  <1>2. 1 \in On("stream_retired", s) BY <1>1, HeadIs DEF On
  <1>3. s \in Known BY <1>1, HeadKnown
  <1>4. BarrierLast(s) /\ Announced(s) /\ Lasts(s) BY DEF AllStreams, StreamOK, Own
  <1>5. \A i \in DOMAIN wire : i \in Nat /\ ~(i < 1)
    <2>1. wire \in Seq(Messages) BY DEF TypeOK, ChannelOK
    <2> QED BY <2>1
  <1>6. ~Sender(s) /\ \A i \in DOMAIN wire : wire[i].stream = s => i = 1
    BY <1>2, <1>4, <1>5 DEF BarrierLast
  <1>7. \A e : e # "stream_retired" => On(e, s) = {} BY <1>6 DEF On
  <1>8. s \in closing
    <2>1. ASSUME NEW t \in Streams, ancestor[t] = s, On("resubscribing", t) # {} PROVE FALSE
      <3>1. PICK j \in On("resubscribing", t) : TRUE BY <2>1
      <3>2. IsBarrier(j + 1, s) \/ victim = s BY <2>1, <3>1 DEF AllStreams, StreamOK, Replaces
      <3>3. IsBarrier(j + 1, s) BY <1>6, <3>2 DEF Sender
      <3>4. j + 1 = 1 BY <1>6, <3>3 DEF IsBarrier
      <3>5. j \in DOMAIN wire BY DEF On
      <3>6. j \in Nat /\ ~(j < 1) BY <1>5, <3>5
      <3> QED BY <3>4, <3>6
    <2> QED BY <1>2, <1>4, <1>7, <2>1 DEF Announced
  <1>9. last[s] = wire[1].sequence
    <2>1. LastIs(s, wire[1].sequence) BY <1>2, <1>4 DEF Lasts
    <2> QED BY <1>3, <1>7, <2>1 DEF LastIs
  <1> QED BY <1>1, <1>3, <1>8, <1>9 DEF CanRetire

\* Neither end refuses what the other has sent.
LEMMA EndsTake ==
  TypeOK /\ Window /\ CreditBound /\ NumberInv /\ StreamInv => EndsAgree
  <1> SUFFICES ASSUME TypeOK, Window, CreditBound, NumberInv, StreamInv PROVE EndsAgree
    OBVIOUS
  <1>1. ASSUME healthy, Up, wire # << >> PROVE ~LedgerRefuses(Head(wire))
    <2>1. AllStreams /\ ConnectionType BY <1>1 DEF StreamInv, NumberInv
    <2>2. Head(wire) = wire[1] BY <1>1, HeadIs
    <2>3. PICK x : x = wire[1] OBVIOUS
    <2>4. x.event = "subscription_report" => CanRegister(x.stream, x.sequence, x.bytes)
      BY <1>1, <2>1, <2>3, TakesReport
    <2>5. x.event = "resubscribing" => CanOpen(x.stream) BY <1>1, <2>1, <2>3, TakesStatus
    <2>6. x.event = "stream_retired" => CanRetire(x.stream, x.sequence)
      BY <1>1, <2>1, <2>3, TakesBarrier
    <2>7. x.event = "subscription_error" => x.stream \in Known BY <1>1, <2>1, <2>3, HeadKnown
    <2> QED BY <2>2, <2>3, <2>4, <2>5, <2>6, <2>7 DEF LedgerRefuses
  <1>2. LedgerTakesAll BY <1>1 DEF LedgerTakesAll
  <1>3. AcksAccepted BY NumberAcks
  <1> QED BY <1>2, <1>3 DEF EndsAgree

\* Whatever crosses on the two channels, each acknowledgement under way is one
\* that Acknowledge accepts, and each frame of a working host one that the
\* ledger takes: no honest session is torn down by its own bookkeeping.
THEOREM EndsAgreeCorrect == FlowSpec => []EndsAgree
  BY NumberCorrect, StreamCorrect, EndsTake, FlowImplements, TypeCorrect, WindowCorrect,
     CreditCorrect, PTL
==============================================================================
