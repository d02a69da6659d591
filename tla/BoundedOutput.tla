---------------------------- MODULE BoundedOutput ----------------------------
(***************************************************************************)
(* BoundedOutput (native/src/protocol.cpp): the queue between the threads  *)
(* that produce frames and the one thread that writes them to stdout.      *)
(*                                                                         *)
(* A frame belongs to a class with a reservation of its own.  The writer   *)
(* takes a frame under mutex_, writes it with the mutex released, and      *)
(* gives the reservation back under mutex_ again: three steps, and the     *)
(* producers and the peer run between them.  Reports are produced by       *)
(* TransmitFrame of ReportCreditManager, which holds its own credit: a     *)
(* report is enqueued only within the session's unacknowledged frames and  *)
(* bytes, and the peer acknowledges reports once it has read them.         *)
(***************************************************************************)
EXTENDS Integers, Sequences, FiniteSets

CONSTANTS
  Classes,               \* Report, Control and Reply
  Report,                \* the class of subscription reports
  Sizes,                 \* Sizes[c]: lengths of frames of class c, newline included
  MaximumFrames,         \* maximum_frames of each class
  MaximumBytes,          \* maximum_bytes of each class
  MaximumFrame,          \* maximum_frame_bytes of each class
  SessionReportCredit,   \* kSessionReportCredit
  SessionByteCredit,     \* kSessionByteCredit
  PipeFrames,            \* frames the stdout pipe holds before a write blocks
  AcceptedLimit,         \* bound of the model: frames accepted in one run
  NoFrame                \* the writer holds no frame

ASSUME OutputAssumption ==
  /\ Report \in Classes
  /\ \A c \in Classes : Sizes[c] \subseteq Nat \ {0}
  /\ MaximumFrames \in [Classes -> Nat]
  /\ MaximumBytes \in [Classes -> Nat]
  /\ MaximumFrame \in [Classes -> Nat]
  /\ SessionReportCredit \in Nat
  /\ SessionByteCredit \in Nat
  /\ PipeFrames \in Nat \ {0}
  /\ AcceptedLimit \in Nat

VARIABLES
  pending,               \* pending_
  frames,                \* report_frames_, control_frames_, reply_frames_
  bytes,                 \* report_bytes_, control_bytes_, reply_bytes_
  healthy,               \* healthy_
  stopping,              \* stopping_
  writer,                \* where the writer thread is in Write()
  writing,               \* the frame it holds
  cause,                 \* what Fail() was called for, "none" before
  accepted,              \* number of frames accepted so far
  pipe,                  \* frames in the stdout pipe
  last_read,             \* number of frames the peer has read
  peer,                  \* the peer's end of the pipe: "open" or "closed"
  unacked,               \* lengths of the reports not acknowledged
  consumed               \* how many of them the peer has read

queue == <<pending, frames, bytes, accepted>>
credit == <<unacked, consumed>>
outside == <<pipe, last_read, peer>>
vars == <<queue, healthy, stopping, writer, writing, cause, outside, credit>>

\* A frame in the queue; the id is the number of its acceptance.
Frames == [class : Classes, size : Nat \ {0}, id : Nat]
Frame(class, size) == [class |-> class, size |-> size, id |-> accepted + 1]

ASSUME NoFrameAssumption == NoFrame \notin Frames

Init ==
  /\ pending = << >>
  /\ frames = [c \in Classes |-> 0]
  /\ bytes = [c \in Classes |-> 0]
  /\ healthy = TRUE
  /\ stopping = FALSE
  /\ writer = "waiting"
  /\ writing = NoFrame
  /\ cause = "none"
  /\ accepted = 0
  /\ pipe = << >>
  /\ last_read = 0
  /\ peer = "open"
  /\ unacked = << >>
  /\ consumed = 0

\* Fail, called with mutex_ held: the first call wins.
Fail(why) ==
  /\ IF healthy
       THEN /\ healthy' = FALSE
            /\ stopping' = TRUE
            /\ pending' = << >>
            /\ cause' = why
       ELSE UNCHANGED <<healthy, stopping, pending, cause>>

\* The reservation of the class takes one more frame of this size.
Fits(class, size) ==
  /\ size <= MaximumFrame[class]
  /\ frames[class] < MaximumFrames[class]
  /\ bytes[class] <= MaximumBytes[class]
  /\ size <= MaximumBytes[class] - bytes[class]

\* Enqueue.  A refused frame fails the output; a frame that comes after the
\* output has failed or stopped is dropped and changes nothing.
Enqueue(class, size) ==
  /\ healthy /\ ~stopping
  /\ accepted < AcceptedLimit
  /\ IF Fits(class, size)
       THEN /\ frames' = [frames EXCEPT ![class] = @ + 1]
            /\ bytes' = [bytes EXCEPT ![class] = @ + size]
            /\ pending' = Append(pending, Frame(class, size))
            /\ accepted' = accepted + 1
            /\ UNCHANGED <<healthy, stopping, cause>>
       ELSE /\ Fail(class)
            /\ UNCHANGED <<frames, bytes, accepted>>
  /\ UNCHANGED <<writer, writing, outside>>

Total(sizes) == LET n == Len(sizes)
                    sum[i \in 0..n] == IF i = 0 THEN 0 ELSE sizes[i] + sum[i - 1]
                IN  sum[n]

\* TransmitFrame of a report for which CanTransmit holds; a report the
\* output refuses is not recorded.
EnqueueReport(size) ==
  /\ Len(unacked) < SessionReportCredit
  /\ size <= SessionByteCredit - Total(unacked)
  /\ Enqueue(Report, size)
  /\ unacked' = IF Fits(Report, size) THEN Append(unacked, size) ELSE unacked
  /\ UNCHANGED consumed

EnqueueOther(class, size) ==
  /\ class # Report
  /\ Enqueue(class, size)
  /\ UNCHANGED credit

\* Stop up to the join.
Stop ==
  /\ ~stopping
  /\ stopping' = TRUE
  /\ UNCHANGED <<queue, healthy, writer, writing, cause, outside, credit>>

\* Mutant of Take: the newest frame is written first.
TakeNewest ==
  /\ writer = "waiting"
  /\ pending # << >>
  /\ writing' = pending[Len(pending)]
  /\ pending' = SubSeq(pending, 1, Len(pending) - 1)
  /\ writer' = "writing"
  /\ UNCHANGED <<frames, bytes, accepted, healthy, stopping, cause, outside, credit>>

\* Write: the front frame is taken under mutex_.
Take ==
  /\ writer = "waiting"
  /\ pending # << >>
  /\ writing' = Head(pending)
  /\ pending' = Tail(pending)
  /\ writer' = "writing"
  /\ UNCHANGED <<frames, bytes, accepted, healthy, stopping, cause, outside, credit>>

\* Write: the frame goes out with mutex_ released.  A full pipe blocks.
WriteOut ==
  /\ writer = "writing"
  /\ peer = "open"
  /\ Len(pipe) < PipeFrames
  /\ pipe' = Append(pipe, writing)
  /\ writer' = "written"
  /\ UNCHANGED <<queue, healthy, stopping, writing, cause, last_read, peer, credit>>

\* Write: the write fails; SIGPIPE is ignored.
WriteError ==
  /\ writer = "writing"
  /\ peer = "closed"
  /\ writer' = "unwritten"
  /\ UNCHANGED <<queue, healthy, stopping, writing, cause, outside, credit>>

\* Write: the reservation is given back under mutex_.
GiveBack ==
  /\ frames' = [frames EXCEPT ![writing.class] = @ - 1]
  /\ bytes' = [bytes EXCEPT ![writing.class] = @ - writing.size]
  /\ writing' = NoFrame

Account ==
  /\ writer = "written"
  /\ GiveBack
  /\ writer' = "waiting"
  /\ UNCHANGED <<pending, accepted, healthy, stopping, cause, outside, credit>>

AccountError ==
  /\ writer = "unwritten"
  /\ GiveBack
  /\ Fail("write")
  /\ writer' = "ended"
  /\ UNCHANGED <<accepted, outside, credit>>

\* Mutant of WorkerEnds: only after an orderly Stop.
WorkerEndsHealthy ==
  /\ writer = "waiting"
  /\ pending = << >>
  /\ stopping /\ healthy
  /\ writer' = "ended"
  /\ UNCHANGED <<queue, healthy, stopping, writing, cause, outside, credit>>

\* Write: nothing is left and Stop or Fail has been called.
WorkerEnds ==
  /\ writer = "waiting"
  /\ pending = << >>
  /\ stopping
  /\ writer' = "ended"
  /\ UNCHANGED <<queue, healthy, stopping, writing, cause, outside, credit>>

\* The peer reads the next frame from the pipe.
PeerReads ==
  /\ pipe # << >>
  /\ peer = "open"
  /\ last_read' = Head(pipe).id
  /\ consumed' = IF Head(pipe).class = Report THEN consumed + 1 ELSE consumed
  /\ pipe' = Tail(pipe)
  /\ UNCHANGED <<queue, healthy, stopping, writer, writing, cause, peer, unacked>>

\* The peer's acknowledgement of the oldest report reaches the manager.
PeerAcknowledges ==
  /\ consumed > 0
  /\ consumed' = consumed - 1
  /\ unacked' = Tail(unacked)
  /\ UNCHANGED <<queue, healthy, stopping, writer, writing, cause, outside>>

PeerCloses ==
  /\ peer = "open"
  /\ peer' = "closed"
  /\ UNCHANGED <<queue, healthy, stopping, writer, writing, cause, pipe, last_read,
                 credit>>

Writer == Take \/ WriteOut \/ WriteError \/ Account \/ AccountError \/ WorkerEnds

Next ==
  \/ \E size \in Sizes[Report] : EnqueueReport(size)
  \/ \E c \in Classes : \E size \in Sizes[c] : EnqueueOther(c, size)
  \/ Stop
  \/ Writer
  \/ PeerReads
  \/ PeerAcknowledges
  \/ PeerCloses

Spec == Init /\ [][Next]_vars

\* The writer thread is scheduled, and the peer keeps reading until it
\* closes its end (the BEAM's port driver reads whenever the port is open).
FairSpec == Spec /\ WF_vars(Writer) /\ WF_vars(PeerReads)
-----------------------------------------------------------------------------
(* Properties.                                                             *)

Held == IF writing = NoFrame THEN << >> ELSE <<writing>>
Unsent == IF writer = "written" THEN pending ELSE Held \o pending

\* What is written is what was accepted, in the order of acceptance with
\* nothing missing: the ids in the pipe and in the queue run on from the
\* last frame the peer read, and reach the last accepted frame unless the
\* output has failed (Enqueue against Write, across the unlocked write); the
\* writer that ends an orderly Stop leaves none behind.
NothingLost ==
  LET waiting == pipe \o Unsent IN
  /\ \A i \in DOMAIN waiting : waiting[i].id = last_read + i
  /\ healthy => last_read + Len(waiting) = accepted
  /\ healthy /\ writer = "ended" => Unsent = << >>

\* The reservation of a class is what its queued frames and the frame being
\* written hold; it cannot be exceeded, and after a failure it never wraps
\* below what is still held.  The report reservation exceeds the
\* unacknowledged reports by the one frame being accounted at most: the
\* writer gives a report back only after the peer may have acknowledged it.
Reservations ==
  LET held == Held \o pending
      of(c) == {i \in DOMAIN held : held[i].class = c}
  IN  \A c \in Classes :
        /\ frames[c] <= MaximumFrames[c] /\ bytes[c] <= MaximumBytes[c]
        /\ frames[c] >= Cardinality(of(c)) /\ bytes[c] >= Cardinality(of(c))
        /\ healthy => frames[c] = Cardinality(of(c))
        /\ c = Report => frames[c] <= Len(unacked) + (IF writer = "written" THEN 1 ELSE 0)

\* What the output accepts is kept until it is written, and so is its
\* reservation, across the write that runs without the mutex.
OutputKept == NothingLost /\ Reservations

\* Stop's join returns: once stopping, the writer thread ends, whether the
\* peer reads or closes the pipe.
StopReturns == stopping ~> writer = "ended"
=============================================================================
