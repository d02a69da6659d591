---------------------- MODULE NativeSubscription_proofs ----------------------
(***************************************************************************)
(* Proofs about NativeSubscription: what one subscription tells its peer,  *)
(* for every queue, cache and attempt limit, every set of paths and events *)
(* and any number of reports and generations.                              *)
(*                                                                         *)
(* The inductive invariant Inv has seven parts: the types; the control,    *)
(* which says what each thread may hold while the other is at a section;   *)
(* the errors and the barriers on the wire; the fence, which follows a     *)
(* report from the buffer to the wire; the order of the reports; and the   *)
(* memory, which relates all reports that are known to the buffer's cache. *)
(***************************************************************************)
EXTENDS NativeSubscription, FiniteSetTheorems, SequenceTheorems, TLAPS

-----------------------------------------------------------------------------
(* Types.                                                                  *)

Ids == Paths \cup Events
Held == [generation : Nat \ {0}, n : Nat \ {0}, id : Ids, initial : BOOLEAN]
Plain == [kind : {"error", "retired", "resubscribing", "resubscribed",
                  "subscribed", "unsubscribed"}, generation : Nat, n : Nat]
Written == [kind : {"report"}, generation : Nat \ {0}, n : Nat \ {0}, id : Ids,
            initial : BOOLEAN, thread : {"sdk", "host"}]
Buffers ==
  [kind : {"attribute", "event"}, active : BOOLEAN, in_report : BOOLEAN,
   established : BOOLEAN, activated : BOOLEAN, buffered : Seq(Held),
   ready : Seq(Held), generation : Nat \ {0}, current : SUBSET Ids,
   initial : SUBSET Ids, cache : Seq(Ids)]
Recoveries ==
  [resubscribe : BOOLEAN, enabled : BOOLEAN, recovering : BOOLEAN,
   attempts : Nat, generation : Nat \ {0}]

FlagsOK ==
  /\ response \in [ok : BOOLEAN, generation : Nat]
  /\ published \in BOOLEAN
  /\ cancelled \in BOOLEAN
  /\ failure_emitted \in BOOLEAN
  /\ cancel_scheduled \in BOOLEAN
  /\ done \in BOOLEAN

SdkOK ==
  /\ timer \in {"none", "armed", "claimed"}
  /\ sdk \in {"idle", "mark", "emit", "fail", "emitfailure", "cancel", "publish",
              "announce", "settle", "status", "ondone"}
  /\ after \in {"idle", "mark", "ondone"}
  /\ carried \in Seq(Held)
  /\ client \in {"none", "connecting", "priming", "subscribed", "gone"}
  /\ reporting \in BOOLEAN
  /\ refused \in BOOLEAN
  /\ reaped \in BOOLEAN

Before == {"submit", "wait", "expired", "answer"}
Unsubscribing == {"find", "schedule", "join", "cancelled", "erase"}
Serves == {"activate", "take", "emit", "serving"} \cup Unsubscribing

HostOK ==
  /\ host \in Before \cup {"refused", "reply", "down"} \cup Serves
  /\ result \in [ok : BOOLEAN, generation : Nat]
  /\ taken \in Seq(Held)
  /\ asked \in Nat
  /\ cancel_ok \in BOOLEAN
  /\ entry \in [generation : Nat, resubscribe : BOOLEAN, recovering : BOOLEAN, attempt : Nat]
  /\ live \in Nat
  /\ wire \in Seq(Plain \cup Written)
  /\ healthy \in BOOLEAN
  /\ produced \in Nat

TypeOK == FlagsOK /\ SdkOK /\ HostOK /\ buffer \in Buffers /\ recovery \in Recoveries

-----------------------------------------------------------------------------
(* The work queue.                                                         *)

QStart == <<"start">>
QStartCancel == <<"start", "cancel">>
QCancel == <<"cancel">>
QReap == <<"reap">>
QCancelReap == <<"cancel", "reap">>

Starting == work \in {QStart, QStartCancel}
Cancelling == work \in {QCancel, QStartCancel, QCancelReap}
Reaping == work \in {QReap, QCancelReap}

Queue ==
  /\ work = << >> \/ Starting \/ Cancelling \/ Reaping
  /\ Starting => ~cancelled /\ (done => cancel_scheduled /\ refused)
  /\ Cancelling => cancel_scheduled /\ ~cancelled
  /\ Reaping \/ reaped => done /\ ~refused
  /\ refused => done
  /\ cancelled => cancel_scheduled
  /\ reaped => work = << >> /\ sdk = "idle"
  /\ done /\ ~refused => sdk \in {"idle", "mark"}

Client ==
  /\ host = "submit" \/ Starting => client = "none" /\ sdk = "idle"
  /\ host = "submit" => work = << >> /\ ~done /\ ~cancelled
  /\ done /\ ~refused => client \in {"none", "gone"}
  /\ client \in {"none", "connecting", "gone"} => timer = "none"
  /\ client \in {"none", "connecting"} => sdk \in {"idle", "mark"}
  /\ sdk = "mark" => client \in {"none", "gone"}
  /\ client = "gone" => /\ sdk \in {"idle", "mark", "fail", "emitfailure", "cancel"}
                        /\ sdk \in {"fail", "emitfailure", "cancel"} => after = "mark"
  /\ sdk \in {"fail", "emitfailure", "cancel"} /\ after = "mark" => client = "gone"
  /\ cancelled => client = "gone" /\ sdk \in {"idle", "mark"}

-----------------------------------------------------------------------------
(* The response, the buffer and the recovery.                              *)

Unanswered ==
  /\ recovery.generation = 1 /\ ~recovery.recovering
  /\ buffer.generation = 1 /\ ~buffer.activated
  /\ timer = "none"
  /\ sdk \notin {"status", "announce", "settle", "emitfailure"}
  /\ ~result.ok

Response ==
  /\ response.ok => published /\ response.generation = 1
  /\ ~response.ok => Unanswered
  /\ client \in {"none", "connecting"} => ~response.ok
  /\ sdk = "publish" => ~response.ok /\ buffer.established
  /\ result.ok => result.generation = 1
  /\ host \in {"submit", "wait", "expired"} => ~result.ok
  /\ host \in {"reply"} \cup Serves => result.ok

Buffered ==
  /\ recovery.recovering <=> recovery.attempts # 0
  /\ response.ok /\ ~recovery.recovering => buffer.established \/ ~buffer.active
  /\ buffer.active => buffer.generation = recovery.generation
  /\ failure_emitted \/ cancelled => ~buffer.active
  /\ sdk \in {"announce", "settle"} =>
       buffer.active /\ buffer.established /\ buffer.activated /\ recovery.recovering
  /\ sdk = "status" => recovery.recovering
  /\ buffer.established /\ ~buffer.activated => buffer.generation = 1
  /\ buffer.activated => buffer.established

-----------------------------------------------------------------------------
(* The agreement of the four generations.                                  *)

Alive == ~failure_emitted /\ ~cancelled /\ ~cancel_scheduled

\* Nobody has told the protocol of a recovery that is not over.
Same ==
  /\ entry.generation = live /\ entry.generation = recovery.generation
  /\ entry.recovering <=> recovery.recovering
  /\ entry.attempt = recovery.attempts

Between ==
  /\ recovery.recovering <=> timer = "armed"
  /\ entry.generation # 0 => Same
  /\ host \in Before => ~recovery.recovering /\ recovery.generation = 1

FirstStatus ==
  /\ entry.generation # 0 =>
       /\ entry.generation = live /\ entry.generation + 1 = recovery.generation
       /\ ~entry.recovering
  /\ host \in Before => recovery.generation = 2

NextStatus ==
  /\ timer = "armed"
  /\ host \notin Before
  /\ entry.generation # 0 =>
       /\ entry.generation = live /\ entry.generation = recovery.generation
       /\ entry.recovering /\ entry.attempt + 1 = recovery.attempts

Settling ==
  /\ timer # "armed"
  /\ host \notin Before
  /\ entry.generation # 0 =>
       /\ entry.generation = live /\ entry.generation = recovery.generation
       /\ ~entry.recovering /\ entry.attempt = 0

Agreement ==
  /\ done /\ Alive => ~response.ok /\ client \in {"none", "gone"}
  /\ sdk = "emitfailure" => failure_emitted
  /\ sdk = "mark" /\ Alive => ~response.ok
  /\ Alive /\ response.ok =>
       /\ sdk \in {"idle", "emit", "status", "announce", "settle"} =>
            buffer.generation = recovery.generation
       /\ sdk \in {"idle", "emit"} => Between
       /\ sdk = "status" => IF recovery.attempts = 1 THEN FirstStatus ELSE NextStatus
       /\ sdk = "announce" => Between
       /\ sdk = "settle" => Settling
  /\ cancel_ok => done
  /\ host = "erase" => done

-----------------------------------------------------------------------------
(* The stream and the frames.                                              *)

Stream ==
  /\ live # 0 => entry.generation = live
  /\ host \in Before \cup {"refused"} => entry = NoEntry /\ live = 0
  /\ host = "erase" => live = 0
  /\ entry.generation # 0 => response.ok
  /\ ~entry.recovering => entry.attempt = 0

Errs == \A i \in DOMAIN wire : wire[i].kind = "error" =>
  /\ live = 0 /\ entry.generation = 0
  /\ \A j \in DOMAIN wire :
       j # i => wire[j].kind # "error" /\
         (j > i => wire[j].kind \in {"retired", "subscribed", "unsubscribed"})

Barriers ==
  /\ \A i \in DOMAIN wire : wire[i].kind = "retired" =>
       /\ live = 0 \/ wire[i].generation < live
       /\ \A j \in DOMAIN wire :
            j # i /\ wire[j].kind = "retired" => wire[j].generation # wire[i].generation
  /\ host \in Before \cup {"refused"} => wire = << >>
  /\ \A i \in DOMAIN wire : wire[i].kind = "unsubscribed" =>
       \E j \in DOMAIN wire :
         j < i /\ wire[j].kind = "retired" /\ wire[j].generation = wire[i].generation
  /\ host \in Unsubscribing =>
       asked # 0 /\ (live = asked \/ \E i \in DOMAIN wire :
                       wire[i].kind = "retired" /\ wire[i].generation = asked)

-----------------------------------------------------------------------------
(* The fence.                                                              *)

Announced(g) == \E i \in DOMAIN wire :
  wire[i].kind \in {"subscribed", "resubscribed"} /\ wire[i].generation = g

Holding ==
  /\ \A i \in DOMAIN buffer.ready : buffer.ready[i].generation = buffer.generation
  /\ \A i \in DOMAIN buffer.buffered : buffer.buffered[i].generation = buffer.generation
  /\ buffer.ready # << >> => Announced(buffer.generation)
  /\ buffer.active /\ buffer.activated /\ sdk \notin {"announce", "fail"} =>
       Announced(buffer.generation)
  /\ \A i \in DOMAIN taken : Announced(taken[i].generation)
  /\ carried # << >> => sdk \in {"emit", "announce", "settle"}
  /\ sdk = "emit" => \A i \in DOMAIN carried : Announced(carried[i].generation)
  /\ sdk \in {"announce", "settle"} =>
       \A i \in DOMAIN carried : carried[i].generation = buffer.generation

Fence ==
  /\ host \in Serves => Announced(1)
  /\ Holding
  /\ GenerationFence

-----------------------------------------------------------------------------
(* The order.                                                              *)

Sorted(s) == \A i, j \in DOMAIN s : i < j => s[i].n < s[j].n
Below(s, t) == \A i \in DOMAIN s, j \in DOMAIN t : s[i].n < t[j].n
Sent(t) == \A i \in Reports, j \in DOMAIN t : wire[i].n < t[j].n

Lined ==
  /\ Sorted(buffer.ready) /\ Sorted(buffer.buffered) /\ Sorted(carried) /\ Sorted(taken)
  /\ Below(taken, carried) /\ Below(taken, buffer.ready) /\ Below(taken, buffer.buffered)
  /\ carried # << >> => buffer.ready = << >> /\ buffer.buffered = << >>
  /\ buffer.activated => buffer.buffered = << >>
  /\ ~buffer.activated => buffer.ready = << >>

Passed ==
  /\ Sent(buffer.ready) /\ Sent(buffer.buffered) /\ Sent(carried)
  /\ \A i \in Reports, j \in DOMAIN taken : wire[i].n # taken[j].n
  /\ \A i, j \in Reports : i # j => wire[i].n # wire[j].n
  /\ InOrder

Order == Lined /\ Passed

Report(f) == [generation |-> f.generation, n |-> f.n, id |-> f.id, initial |-> f.initial]
Known ==
  Range(buffer.ready) \cup Range(buffer.buffered) \cup Range(carried) \cup Range(taken)
    \cup {Report(wire[i]) : i \in Reports}

\* The cache holds the event of r, or has been filled since.
Cached(r) ==
  \/ produced - r.n >= EventCacheLimit
  \/ \E k \in DOMAIN buffer.cache :
       buffer.cache[k] = r.id /\ Len(buffer.cache) - k <= produced - r.n

Once(r, q) ==
  r.n < q.n /\ r.id = q.id =>
    IF buffer.kind = "event" THEN q.n - r.n > EventCacheLimit
      ELSE r.initial /\ q.initial => r.generation # q.generation

Memory ==
  /\ \A r \in Known : r.n <= produced /\ r.generation <= buffer.generation
  /\ Len(buffer.cache) <= EventCacheLimit
  /\ buffer.kind = "event" => \A r \in Known : Cached(r)
  /\ buffer.kind = "attribute" => \A r \in Known :
       r.initial /\ r.generation = buffer.generation /\ ~buffer.established =>
         r.id \in buffer.initial
  /\ \A r, q \in Known : Once(r, q)
-----------------------------------------------------------------------------
(* The buffer.                                                             *)

\* The buffer keeps its type.
LEMMA BufferTypes ==
  ASSUME NEW b \in Buffers
  PROVE  /\ BeginReport(b) \in Buffers
         /\ EndReport(b) \in Buffers
         /\ Establish(b) \in Buffers
         /\ ActivateBuffer(b) \in Buffers
         /\ CancelBuffer(b) \in Buffers
         /\ TakeReady(b) \in Buffers
         /\ Emptied(b) \in Buffers
         /\ [b EXCEPT !.active = FALSE] \in Buffers
  <1>0. /\ << >> \in Seq(Held) /\ b.ready \in Seq(Held) /\ b.buffered \in Seq(Held)
        /\ b.ready \o b.buffered \in Seq(Held) /\ {} \in SUBSET Ids
    <2>1. b.ready \in Seq(Held) /\ b.buffered \in Seq(Held) BY DEF Buffers
    <2> QED BY <2>1
  <1>1. BeginReport(b) \in Buffers BY DEF Buffers, BeginReport
  <1>2. EndReport(b) \in Buffers BY DEF Buffers, EndReport
  <1>3. Establish(b) \in Buffers BY DEF Buffers, Establish
  <1>4. ActivateBuffer(b) \in Buffers BY ONLY b \in Buffers, <1>0 DEF Buffers, ActivateBuffer
  <1>5. CancelBuffer(b) \in Buffers BY ONLY b \in Buffers, <1>0 DEF Buffers, CancelBuffer
  <1>6. TakeReady(b) \in Buffers BY ONLY b \in Buffers, <1>0 DEF Buffers, TakeReady
  <1>7. Emptied(b) \in Buffers BY ONLY b \in Buffers, <1>0 DEF Buffers, Emptied
  <1>8. [b EXCEPT !.active = FALSE] \in Buffers BY DEF Buffers
  <1> QED BY <1>1, <1>2, <1>3, <1>4, <1>5, <1>6, <1>7, <1>8

\* PrepareRecovery gives a buffer (subscription.cpp).
LEMMA PrepareType ==
  ASSUME NEW b \in Buffers, NEW g \in Nat \ {0}
  PROVE  PrepareRecovery(b, g) \in Buffers
  <1> DEFINE c == Emptied(b)
  <1>1. c \in Buffers BY BufferTypes
  <1>2. PrepareRecovery(b, g) = [c EXCEPT !.generation = g] BY DEF PrepareRecovery
  <1> HIDE DEF c
  <1> QED BY <1>1, <1>2 DEF Buffers

\* Add gives a buffer (subscription.cpp).
LEMMA AddType ==
  ASSUME NEW b \in Buffers, NEW r \in Held, NEW id \in Ids
  PROVE  Record(AddTo(b, r), id) \in Buffers
  <1>0. b.ready \in Seq(Held) /\ b.buffered \in Seq(Held) BY DEF Buffers
  <1>00. Append(b.ready, r) \in Seq(Held) /\ Append(b.buffered, r) \in Seq(Held) BY <1>0
  <1>1. AddTo(b, r) \in Buffers BY ONLY b \in Buffers, <1>00 DEF Buffers, AddTo
  <1>2. ASSUME NEW c \in Buffers PROVE Record(c, id) \in Buffers
    <2>1. c.cache \in Seq(Ids) BY DEF Buffers
    <2>2. Append(c.cache, id) \in Seq(Ids) /\ Append(c.cache, id) # << >> BY <2>1
    <2>3. Newest(Append(c.cache, id)) \in Seq(Ids) BY <2>2 DEF Newest
    <2> QED BY <2>3 DEF Buffers, Record
  <1> QED BY <1>1, <1>2

\* The fields each operation of the buffer sets.
LEMMA BufferFields ==
  ASSUME NEW b \in Buffers
  PROVE  /\ LET c == BeginReport(b) IN
              /\ c.active => b.active
              /\ c.kind = b.kind /\ c.established = b.established
              /\ c.activated = b.activated /\ c.buffered = b.buffered
              /\ c.ready = b.ready /\ c.generation = b.generation
              /\ c.initial = b.initial /\ c.cache = b.cache
         /\ LET c == TakeReady(EndReport(b)) IN
              /\ c.active = b.active
              /\ c.kind = b.kind /\ c.established = b.established
              /\ c.activated = b.activated /\ c.buffered = b.buffered
              /\ c.ready = << >> /\ c.generation = b.generation
              /\ c.initial = b.initial /\ c.cache = b.cache
         /\ LET c == CancelBuffer(b) IN
              /\ ~c.active
              /\ c.kind = b.kind /\ c.established = b.established
              /\ c.activated = b.activated /\ c.buffered = << >>
              /\ c.ready = << >> /\ c.generation = b.generation
              /\ c.initial = b.initial /\ c.cache = b.cache
         /\ LET c == [b EXCEPT !.active = FALSE] IN
              /\ ~c.active
              /\ c.kind = b.kind /\ c.established = b.established
              /\ c.activated = b.activated /\ c.buffered = b.buffered
              /\ c.ready = b.ready /\ c.generation = b.generation
              /\ c.initial = b.initial /\ c.cache = b.cache
         /\ LET c == Establish(b) IN
              /\ c.active = b.active
              /\ c.kind = b.kind /\ c.established
              /\ c.activated = b.activated /\ c.buffered = b.buffered
              /\ c.ready = b.ready /\ c.generation = b.generation
              /\ c.cache = b.cache
  <1> USE DEF Buffers
  <1>1. LET c == BeginReport(b) IN
              /\ c.active => b.active
              /\ c.kind = b.kind /\ c.established = b.established
              /\ c.activated = b.activated /\ c.buffered = b.buffered
              /\ c.ready = b.ready /\ c.generation = b.generation
              /\ c.initial = b.initial /\ c.cache = b.cache
    BY DEF BeginReport
  <1>2. LET c == TakeReady(EndReport(b)) IN
              /\ c.active = b.active
              /\ c.kind = b.kind /\ c.established = b.established
              /\ c.activated = b.activated /\ c.buffered = b.buffered
              /\ c.ready = << >> /\ c.generation = b.generation
              /\ c.initial = b.initial /\ c.cache = b.cache
    BY DEF TakeReady, EndReport
  <1>3. LET c == CancelBuffer(b) IN
              /\ ~c.active
              /\ c.kind = b.kind /\ c.established = b.established
              /\ c.activated = b.activated /\ c.buffered = << >>
              /\ c.ready = << >> /\ c.generation = b.generation
              /\ c.initial = b.initial /\ c.cache = b.cache
    BY DEF CancelBuffer
  <1>4. LET c == [b EXCEPT !.active = FALSE] IN
              /\ ~c.active
              /\ c.kind = b.kind /\ c.established = b.established
              /\ c.activated = b.activated /\ c.buffered = b.buffered
              /\ c.ready = b.ready /\ c.generation = b.generation
              /\ c.initial = b.initial /\ c.cache = b.cache
    OBVIOUS
  <1>5. LET c == Establish(b) IN
              /\ c.active = b.active
              /\ c.kind = b.kind /\ c.established
              /\ c.activated = b.activated /\ c.buffered = b.buffered
              /\ c.ready = b.ready /\ c.generation = b.generation
              /\ c.cache = b.cache
    BY DEF Establish
  <1> QED BY <1>1, <1>2, <1>3, <1>4, <1>5

\* What Activate does to each field of the buffer (subscription.cpp).
LEMMA ActivateFields ==
  ASSUME NEW b \in Buffers
  PROVE  LET c == ActivateBuffer(b) IN
         /\ c.active = b.active
         /\ c.kind = b.kind /\ c.established = b.established
         /\ c.generation = b.generation /\ c.initial = b.initial /\ c.cache = b.cache
         /\ IF b.active /\ b.established /\ ~b.activated
              THEN c.activated /\ c.ready = b.ready \o b.buffered /\ c.buffered = << >>
              ELSE /\ c.activated = b.activated /\ c.ready = b.ready
                   /\ c.buffered = b.buffered
  <1>1. CASE b.active /\ b.established /\ ~b.activated
    BY <1>1 DEF Buffers, ActivateBuffer
  <1>2. CASE ~(b.active /\ b.established /\ ~b.activated)
    BY <1>2 DEF Buffers, ActivateBuffer
  <1> QED BY <1>1, <1>2

\* TakeReady empties the ready reports and leaves every other field
\* (subscription.cpp).
LEMMA TakeFields ==
  ASSUME NEW b \in Buffers
  PROVE  LET c == TakeReady(b) IN
         /\ c.active = b.active
         /\ c.kind = b.kind /\ c.established = b.established
         /\ c.activated = b.activated /\ c.buffered = b.buffered
         /\ c.ready = << >> /\ c.generation = b.generation
         /\ c.initial = b.initial /\ c.cache = b.cache
  BY DEF Buffers, TakeReady

\* What PrepareRecovery does to each field of the buffer; it keeps the event
\* cache (subscription.cpp).
LEMMA PrepareFields ==
  ASSUME NEW b \in Buffers, NEW g \in Nat \ {0}
  PROVE  LET c == PrepareRecovery(b, g) IN
         /\ c.active = b.active
         /\ c.kind = b.kind /\ ~c.established
         /\ ~c.activated /\ c.buffered = << >>
         /\ c.ready = << >> /\ c.generation = g
         /\ c.initial = {} /\ c.cache = b.cache
  <1> DEFINE d == Emptied(b)
  <1>1. /\ d \in Buffers /\ d.active = b.active /\ d.kind = b.kind /\ ~d.established
        /\ ~d.activated /\ d.buffered = << >> /\ d.ready = << >> /\ d.initial = {}
        /\ d.cache = b.cache
    <2>1. d \in Buffers BY BufferTypes
    <2> QED BY <2>1 DEF Buffers, Emptied
  <1>2. PrepareRecovery(b, g) = [d EXCEPT !.generation = g] BY DEF PrepareRecovery
  <1> HIDE DEF d
  <1> QED BY <1>1, <1>2 DEF Buffers

\* What Add does to each field of the buffer (subscription.cpp).
LEMMA AddFields ==
  ASSUME NEW b \in Buffers, NEW r \in Held, NEW id \in Ids
  PROVE  LET c == Record(AddTo(b, r), id) IN
         /\ c.active = b.active
         /\ c.kind = b.kind /\ c.established = b.established
         /\ c.activated = b.activated /\ c.generation = b.generation
         /\ b.activated => c.ready = Append(b.ready, r) /\ c.buffered = b.buffered
         /\ ~b.activated => c.ready = b.ready /\ c.buffered = Append(b.buffered, r)
         /\ c.cache = IF b.kind = "event" THEN Newest(Append(b.cache, id)) ELSE b.cache
         /\ c.initial = IF b.kind = "event" \/ b.established THEN b.initial
                        ELSE b.initial \cup {id}
  <1> DEFINE d == AddTo(b, r)
  <1>1. /\ d \in Buffers /\ d.active = b.active /\ d.kind = b.kind
        /\ d.established = b.established /\ d.activated = b.activated
        /\ d.generation = b.generation /\ d.cache = b.cache /\ d.initial = b.initial
        /\ IF b.activated
             THEN d.ready = Append(b.ready, r) /\ d.buffered = b.buffered
             ELSE d.ready = b.ready /\ d.buffered = Append(b.buffered, r)
    <2>0. b.ready \in Seq(Held) /\ b.buffered \in Seq(Held) BY DEF Buffers
    <2>1. Append(b.ready, r) \in Seq(Held) /\ Append(b.buffered, r) \in Seq(Held) BY <2>0
    <2> QED BY ONLY b \in Buffers, <2>1 DEF Buffers, AddTo
  <1>0. d = AddTo(b, r) OBVIOUS
  <1> HIDE DEF d
  <1>2. d.current \cup {id} \in SUBSET Ids /\ d.initial \cup {id} \in SUBSET Ids
    BY <1>1 DEF Buffers
  <1>3. Newest(Append(d.cache, id)) \in Seq(Ids)
    <2>1. d.cache \in Seq(Ids) BY <1>1 DEF Buffers
    <2>2. Append(d.cache, id) \in Seq(Ids) /\ Append(d.cache, id) # << >> BY <2>1
    <2> QED BY <2>2 DEF Newest
  <1>4. CASE b.kind = "event"
    <2>1. Record(d, id) = [d EXCEPT !.current = @ \cup {id}, !.cache = Newest(Append(@, id))]
      BY <1>1, <1>4 DEF Record
    <2> DEFINE u == d.current \cup {id}
               v == Newest(Append(d.cache, id))
    <2>2. Record(d, id) = [d EXCEPT !.current = u, !.cache = v] BY <2>1, <1>1 DEF Buffers
    <2> HIDE DEF u, v
    <2>3. LET c == Record(d, id) IN
          /\ c.active = d.active /\ c.kind = d.kind /\ c.established = d.established
          /\ c.activated = d.activated /\ c.generation = d.generation
          /\ c.ready = d.ready /\ c.buffered = d.buffered /\ c.initial = d.initial
          /\ c.cache = v
      BY ONLY <1>1, <2>2 DEF Buffers
    <2> QED BY <1>0, <1>1, <1>4, <2>3 DEF v
  <1>5. CASE b.kind # "event"
    <2>1. Record(d, id) = [d EXCEPT !.current = @ \cup {id},
                              !.initial = IF b.established THEN @ ELSE @ \cup {id}]
      BY <1>1, <1>5 DEF Record
    <2> DEFINE u == d.current \cup {id}
               v == IF b.established THEN d.initial ELSE d.initial \cup {id}
    <2>2. Record(d, id) = [d EXCEPT !.current = u, !.initial = v] BY <2>1, <1>1 DEF Buffers
    <2> HIDE DEF u, v
    <2>3. LET c == Record(d, id) IN
          /\ c.active = d.active /\ c.kind = d.kind /\ c.established = d.established
          /\ c.activated = d.activated /\ c.generation = d.generation
          /\ c.ready = d.ready /\ c.buffered = d.buffered /\ c.cache = d.cache
          /\ c.initial = v
      BY ONLY <1>1, <2>2 DEF Buffers
    <2> QED BY <1>0, <1>1, <1>5, <2>3 DEF v
  <1> QED BY <1>4, <1>5

-----------------------------------------------------------------------------
(* Types.                                                                  *)

\* Writing one plain frame or two keeps the type of the wire.
LEMMA FrameTypes ==
  ASSUME NEW g \in Nat, NEW h \in Nat, NEW w \in Seq(Plain \cup Written)
  PROVE  /\ w \o <<Frame("error", g, 0), Frame("retired", h, 0)>> \in Seq(Plain \cup Written)
         /\ w \o <<Frame("resubscribing", g, 0), Frame("retired", h, 0)>>
              \in Seq(Plain \cup Written)
         /\ w \o <<Frame("resubscribing", g, 0)>> \in Seq(Plain \cup Written)
         /\ w \o <<Frame("resubscribed", g, 0)>> \in Seq(Plain \cup Written)
         /\ w \o <<Frame("retired", g, 0)>> \in Seq(Plain \cup Written)
         /\ Append(w, Frame("subscribed", g, 0)) \in Seq(Plain \cup Written)
         /\ Append(w, Frame("unsubscribed", g, 0)) \in Seq(Plain \cup Written)
  <1>1. /\ Frame("error", g, 0) \in Plain /\ Frame("retired", g, 0) \in Plain
        /\ Frame("retired", h, 0) \in Plain /\ Frame("resubscribing", g, 0) \in Plain
        /\ Frame("resubscribed", g, 0) \in Plain /\ Frame("subscribed", g, 0) \in Plain
        /\ Frame("unsubscribed", g, 0) \in Plain
    BY DEF Plain, Frame
  <1> QED BY <1>1

\* No entry of HostProtocol's subscriptions_ has the type of an entry.
LEMMA NoEntryType ==
  NoEntry \in [generation : Nat, resubscribe : BOOLEAN, recovering : BOOLEAN, attempt : Nat]
  BY DEF NoEntry

\* Writing the frame of a report keeps the type of the wire.
LEMMA ReportTypes ==
  ASSUME NEW r \in Held, NEW w \in Seq(Plain \cup Written), NEW thread \in {"sdk", "host"}
  PROVE  w \o <<ReportFrame(r, thread)>> \in Seq(Plain \cup Written)
  <1>1. ReportFrame(r, thread) \in Plain \cup Written BY DEF Held, Written, ReportFrame
  <1> QED BY <1>1

\* Every section of the SDK thread keeps the types.
LEMMA SdkTypes ==
  ASSUME TypeOK,
         StartWork \/ CancelWork \/ ReapWork \/ Mark \/ OnConnected \/
         ConnectionFailed \/ OnReportBegin \/ OnData \/ OnReportEnd \/
         EmitOne \/ EmitEnds \/ FailActive \/ EmitFailure \/ SdkCancels \/
         EstablishedWithout \/ EstablishRefused \/ Established \/ Publish \/
         Announce \/ Settle \/ Lost \/ OnResubscriptionNeeded \/
         Resubscribing \/ TimerRefused \/ RecoveryDeadline \/ Closes \/
         OnDone
  PROVE  TypeOK'
  <1>1. CASE StartWork
    <2> USE <1>1 DEF StartWork, SdkIdle, PublishFailure, flags, sdkside, works, hostside, protocol
    <2>1. FlagsOK' BY DEF TypeOK, FlagsOK, Buffers
    <2>2. SdkOK' BY DEF TypeOK, SdkOK, Buffers
    <2>3. HostOK' BY DEF TypeOK, HostOK, FlagsOK
    <2>4. buffer' \in Buffers BY BufferTypes DEF TypeOK
    <2>5. recovery' \in Recoveries BY DEF TypeOK, Recoveries
    <2> QED BY <2>1, <2>2, <2>3, <2>4, <2>5 DEF TypeOK
  <1>2. CASE CancelWork
    <2> USE <1>2 DEF CancelWork, SdkIdle, CancelRecovery, Settled, flags, sdkside, works, hostside, protocol
    <2>1. FlagsOK' BY DEF TypeOK, FlagsOK, Buffers
    <2>2. SdkOK' BY DEF TypeOK, SdkOK, Buffers
    <2>3. HostOK' BY DEF TypeOK, HostOK, FlagsOK
    <2>4. buffer' \in Buffers BY BufferTypes DEF TypeOK
    <2>5. recovery' \in Recoveries BY DEF TypeOK, Recoveries
    <2> QED BY <2>1, <2>2, <2>3, <2>4, <2>5 DEF TypeOK
  <1>3. CASE ReapWork
    <2> USE <1>3 DEF ReapWork, SdkIdle, flags, sdkside, works, hostside, protocol
    <2>1. FlagsOK' BY DEF TypeOK, FlagsOK, Buffers
    <2>2. SdkOK' BY DEF TypeOK, SdkOK, Buffers
    <2>3. HostOK' BY DEF TypeOK, HostOK, FlagsOK
    <2>4. buffer' \in Buffers BY BufferTypes DEF TypeOK
    <2>5. recovery' \in Recoveries BY DEF TypeOK, Recoveries
    <2> QED BY <2>1, <2>2, <2>3, <2>4, <2>5 DEF TypeOK
  <1>4. CASE Mark
    <2> USE <1>4 DEF Mark, MarkDone, flags, sdkside, works, hostside, protocol
    <2>1. FlagsOK' BY DEF TypeOK, FlagsOK, Buffers
    <2>2. SdkOK' BY DEF TypeOK, SdkOK, Buffers
    <2>3. HostOK' BY DEF TypeOK, HostOK, FlagsOK
    <2>4. buffer' \in Buffers BY BufferTypes DEF TypeOK
    <2>5. recovery' \in Recoveries BY DEF TypeOK, Recoveries
    <2> QED BY <2>1, <2>2, <2>3, <2>4, <2>5 DEF TypeOK
  <1>5. CASE OnConnected
    <2> USE <1>5 DEF OnConnected, SdkIdle, flags, sdkside, works, hostside, protocol
    <2>1. FlagsOK' BY DEF TypeOK, FlagsOK, Buffers
    <2>2. SdkOK' BY DEF TypeOK, SdkOK, Buffers
    <2>3. HostOK' BY DEF TypeOK, HostOK, FlagsOK
    <2>4. buffer' \in Buffers BY BufferTypes DEF TypeOK
    <2>5. recovery' \in Recoveries BY DEF TypeOK, Recoveries
    <2> QED BY <2>1, <2>2, <2>3, <2>4, <2>5 DEF TypeOK
  <1>6. CASE ConnectionFailed
    <2> USE <1>6 DEF ConnectionFailed, SdkIdle, PublishFailure, flags, sdkside, works, hostside, protocol
    <2>1. FlagsOK' BY DEF TypeOK, FlagsOK, Buffers
    <2>2. SdkOK' BY DEF TypeOK, SdkOK, Buffers
    <2>3. HostOK' BY DEF TypeOK, HostOK, FlagsOK
    <2>4. buffer' \in Buffers BY BufferTypes DEF TypeOK
    <2>5. recovery' \in Recoveries BY DEF TypeOK, Recoveries
    <2> QED BY <2>1, <2>2, <2>3, <2>4, <2>5 DEF TypeOK
  <1>7. CASE OnReportBegin
    <2> USE <1>7 DEF OnReportBegin, SdkIdle, Listening, flags, sdkside, works, hostside, protocol
    <2>1. FlagsOK' BY DEF TypeOK, FlagsOK, Buffers
    <2>2. SdkOK' BY DEF TypeOK, SdkOK, Buffers
    <2>3. HostOK' BY DEF TypeOK, HostOK, FlagsOK
    <2>4. buffer' \in Buffers BY BufferTypes DEF TypeOK
    <2>5. recovery' \in Recoveries BY DEF TypeOK, Recoveries
    <2> QED BY <2>1, <2>2, <2>3, <2>4, <2>5 DEF TypeOK
  <1>8. CASE OnData
    <2> USE <1>8 DEF OnData, SdkIdle, Listening, Fails, flags, sdkside, works, hostside, protocol
    <2>1. FlagsOK' BY DEF TypeOK, FlagsOK, Buffers
    <2>2. SdkOK' BY DEF TypeOK, SdkOK, Buffers
    <2>3. HostOK' BY DEF TypeOK, HostOK, FlagsOK
    <2>4. buffer' \in Buffers
      <3>1. CASE \E id \in Reportable(buffer) : buffer' =
                  Record(AddTo(buffer, [generation |-> buffer.generation, n |-> produced + 1,
                                        id |-> id, initial |-> ~buffer.established]), id)
        <4>1. PICK id \in Reportable(buffer) : buffer' =
                  Record(AddTo(buffer, [generation |-> buffer.generation, n |-> produced + 1,
                                        id |-> id, initial |-> ~buffer.established]), id)
          BY <3>1
        <4>2. id \in Ids BY DEF Reportable, Ids
        <4>3. [generation |-> buffer.generation, n |-> produced + 1,
               id |-> id, initial |-> ~buffer.established] \in Held
          BY <4>2 DEF TypeOK, HostOK, Held, Buffers
        <4> QED BY <4>1, <4>2, <4>3, AddType DEF TypeOK
      <3>2. CASE buffer' \in {buffer, [buffer EXCEPT !.active = FALSE]}
        BY <3>2, BufferTypes DEF TypeOK
      <3> QED BY <3>1, <3>2
    <2>5. recovery' \in Recoveries BY DEF TypeOK, Recoveries
    <2> QED BY <2>1, <2>2, <2>3, <2>4, <2>5 DEF TypeOK
  <1>9. CASE OnReportEnd
    <2> USE <1>9 DEF OnReportEnd, SdkIdle, Listening, flags, sdkside, works, hostside, protocol
    <2>1. FlagsOK' BY DEF TypeOK, FlagsOK, Buffers
    <2>2. SdkOK'
      <3>1. buffer.ready \in Seq(Held) BY DEF TypeOK, Buffers
      <3> QED BY <3>1 DEF TypeOK, SdkOK
    <2>3. HostOK' BY DEF TypeOK, HostOK, FlagsOK
    <2>4. buffer' \in Buffers BY BufferTypes DEF TypeOK
    <2>5. recovery' \in Recoveries BY DEF TypeOK, Recoveries
    <2> QED BY <2>1, <2>2, <2>3, <2>4, <2>5 DEF TypeOK
  <1>10. CASE EmitOne
    <2> USE <1>10 DEF EmitOne, EmitReport, EmitReportRefused, Emits, flags, sdkside, works, hostside, protocol
    <2>1. FlagsOK' BY DEF TypeOK, FlagsOK, Buffers
    <2>2. SdkOK'
      <3>0. carried \in Seq(Held) /\ carried # << >> BY DEF TypeOK, SdkOK
      <3>1. Tail(carried) \in Seq(Held) /\ << >> \in Seq(Held) BY <3>0
      <3> QED BY <3>1 DEF TypeOK, SdkOK
    <2>3. HostOK'
      <3>0. carried \in Seq(Held) /\ carried # << >> BY DEF TypeOK, SdkOK, HostOK
      <3>1. Head(carried) \in Held /\ Tail(carried) \in Seq(Held) /\ << >> \in Seq(Held) BY <3>0
      <3>2. CASE EmitReport(Head(carried), "sdk") /\ UNCHANGED host
        <4>1. wire' \in Seq(Plain \cup Written) BY <3>1, <3>2, ReportTypes DEF TypeOK, HostOK
        <4> QED BY <3>1, <3>2, <4>1 DEF TypeOK, HostOK
      <3>3. CASE EmitReportRefused(Head(carried)) /\ UNCHANGED hostside
        <4>0. wire \in Seq(Plain \cup Written) /\ live \in Nat BY DEF TypeOK, HostOK
        <4>1. wire' \in Seq(Plain \cup Written) BY <3>3, <4>0, FrameTypes
        <4>2. (entry' = entry \/ entry' = NoEntry) /\ (live' = live \/ live' = 0) BY <3>3
        <4>3. UNCHANGED <<result, asked, cancel_ok, produced, healthy>> BY <3>3
        <4> QED BY ONLY TypeOK, <3>1, <3>3, <4>1, <4>2, <4>3, NoEntryType
               DEF TypeOK, HostOK, Before, Serves, hostside
      <3> QED BY <3>2, <3>3
    <2>4. buffer' \in Buffers BY BufferTypes DEF TypeOK
    <2>5. recovery' \in Recoveries BY DEF TypeOK, Recoveries
    <2> QED BY <2>1, <2>2, <2>3, <2>4, <2>5 DEF TypeOK
  <1>11. CASE EmitEnds
    <2> USE <1>11 DEF EmitEnds, flags, sdkside, works, hostside, protocol
    <2>1. FlagsOK' BY DEF TypeOK, FlagsOK, Buffers
    <2>2. SdkOK' BY DEF TypeOK, SdkOK, Buffers
    <2>3. HostOK' BY DEF TypeOK, HostOK, FlagsOK
    <2>4. buffer' \in Buffers BY BufferTypes DEF TypeOK
    <2>5. recovery' \in Recoveries BY DEF TypeOK, Recoveries
    <2> QED BY <2>1, <2>2, <2>3, <2>4, <2>5 DEF TypeOK
  <1>12. CASE FailActive
    <2> USE <1>12 DEF FailActive, flags, sdkside, works, hostside, protocol
    <2>1. FlagsOK' BY DEF TypeOK, FlagsOK, Buffers
    <2>2. SdkOK' BY DEF TypeOK, SdkOK, Buffers
    <2>3. HostOK' BY DEF TypeOK, HostOK, FlagsOK
    <2>4. buffer' \in Buffers BY BufferTypes DEF TypeOK
    <2>5. recovery' \in Recoveries BY DEF TypeOK, Recoveries
    <2> QED BY <2>1, <2>2, <2>3, <2>4, <2>5 DEF TypeOK
  <1>13. CASE EmitFailure
    <2> USE <1>13 DEF EmitFailure, Emits, flags, sdkside, works, hostside, protocol
    <2>1. FlagsOK' BY DEF TypeOK, FlagsOK, Buffers
    <2>2. SdkOK' BY DEF TypeOK, SdkOK, Buffers
    <2>3. HostOK'
      <3>0. /\ wire \in Seq(Plain \cup Written) /\ live \in Nat /\ asked \in Nat
            /\ recovery.generation \in Nat /\ result.generation \in Nat
        BY DEF TypeOK, HostOK, Recoveries
      <3>01. \/ wire' = wire
             \/ wire' = wire \o <<Frame("error", live, 0), Frame("retired", live, 0)>>
        OBVIOUS
      <3>02. wire \o <<Frame("error", live, 0), Frame("retired", live, 0)>> \in Seq(Plain \cup Written)
        BY ONLY <3>0, FrameTypes
      <3>1. wire' \in Seq(Plain \cup Written) BY ONLY <3>0, <3>01, <3>02
      <3> QED BY <3>1, NoEntryType DEF TypeOK, HostOK
    <2>4. buffer' \in Buffers BY BufferTypes DEF TypeOK
    <2>5. recovery' \in Recoveries BY DEF TypeOK, Recoveries
    <2> QED BY <2>1, <2>2, <2>3, <2>4, <2>5 DEF TypeOK
  <1>14. CASE SdkCancels
    <2> USE <1>14 DEF SdkCancels, ScheduleCancel, flags, sdkside, works, hostside, protocol
    <2>1. FlagsOK' BY DEF TypeOK, FlagsOK, Buffers
    <2>2. SdkOK' BY DEF TypeOK, SdkOK, Buffers
    <2>3. HostOK' BY DEF TypeOK, HostOK, FlagsOK
    <2>4. buffer' \in Buffers BY BufferTypes DEF TypeOK
    <2>5. recovery' \in Recoveries BY DEF TypeOK, Recoveries
    <2> QED BY <2>1, <2>2, <2>3, <2>4, <2>5 DEF TypeOK
  <1>15. CASE EstablishedWithout
    <2> USE <1>15 DEF EstablishedWithout, SdkIdle, Fails, PublishFailure, flags, sdkside, works, hostside, protocol
    <2>1. FlagsOK' BY DEF TypeOK, FlagsOK, Buffers
    <2>2. SdkOK' BY DEF TypeOK, SdkOK, Buffers
    <2>3. HostOK' BY DEF TypeOK, HostOK, FlagsOK
    <2>4. buffer' \in Buffers BY BufferTypes DEF TypeOK
    <2>5. recovery' \in Recoveries BY DEF TypeOK, Recoveries
    <2> QED BY <2>1, <2>2, <2>3, <2>4, <2>5 DEF TypeOK
  <1>16. CASE EstablishRefused
    <2> USE <1>16 DEF EstablishRefused, SdkIdle, Fails, ScheduleCancel, flags, sdkside, works, hostside, protocol
    <2>1. FlagsOK' BY DEF TypeOK, FlagsOK, Buffers
    <2>2. SdkOK' BY DEF TypeOK, SdkOK, Buffers
    <2>3. HostOK' BY DEF TypeOK, HostOK, FlagsOK
    <2>4. buffer' \in Buffers BY BufferTypes DEF TypeOK
    <2>5. recovery' \in Recoveries BY DEF TypeOK, Recoveries
    <2> QED BY <2>1, <2>2, <2>3, <2>4, <2>5 DEF TypeOK
  <1>17. CASE Established
    <2> USE <1>17 DEF Established, SdkIdle, CanEstablish, flags, sdkside, works, hostside, protocol
    <2>1. FlagsOK' BY DEF TypeOK, FlagsOK, Buffers
    <2>2. SdkOK'
      <3>1. (ActivateBuffer(Establish(buffer))).ready \in Seq(Held)
        BY BufferTypes DEF TypeOK, Buffers
      <3> QED BY <3>1 DEF TypeOK, SdkOK
    <2>3. HostOK' BY DEF TypeOK, HostOK, FlagsOK
    <2>4. buffer' \in Buffers BY BufferTypes DEF TypeOK
    <2>5. recovery' \in Recoveries BY DEF TypeOK, Recoveries
    <2> QED BY <2>1, <2>2, <2>3, <2>4, <2>5 DEF TypeOK
  <1>18. CASE Publish
    <2> USE <1>18 DEF Publish, flags, sdkside, works, hostside, protocol
    <2>1. FlagsOK' BY DEF TypeOK, FlagsOK, Buffers
    <2>2. SdkOK' BY DEF TypeOK, SdkOK, Buffers
    <2>3. HostOK' BY DEF TypeOK, HostOK, FlagsOK
    <2>4. buffer' \in Buffers BY BufferTypes DEF TypeOK
    <2>5. recovery' \in Recoveries BY DEF TypeOK, Recoveries
    <2> QED BY <2>1, <2>2, <2>3, <2>4, <2>5 DEF TypeOK
  <1>19. CASE Announce
    <2> USE <1>19 DEF Announce, Emits, SettleAdmitted, Fails, flags, sdkside, works, hostside, protocol
    <2>1. FlagsOK' BY DEF TypeOK, FlagsOK, Buffers
    <2>2. SdkOK'
      <3>1. << >> \in Seq(Held) OBVIOUS
      <3> QED BY <3>1 DEF TypeOK, SdkOK
    <2>3. HostOK'
      <3>0. /\ wire \in Seq(Plain \cup Written) /\ live \in Nat /\ asked \in Nat
            /\ recovery.generation \in Nat /\ result.generation \in Nat
        BY DEF TypeOK, HostOK, Recoveries
      <3>1. wire' \in Seq(Plain \cup Written) BY ZenonT(30), <3>0, FrameTypes
      <3>2. [entry EXCEPT !.recovering = FALSE, !.attempt = 0] \in
              [generation : Nat, resubscribe : BOOLEAN, recovering : BOOLEAN, attempt : Nat]
        BY DEF TypeOK, HostOK
      <3> QED BY <3>1, <3>2 DEF TypeOK, HostOK
    <2>4. buffer' \in Buffers BY BufferTypes DEF TypeOK
    <2>5. recovery' \in Recoveries BY DEF TypeOK, Recoveries
    <2> QED BY <2>1, <2>2, <2>3, <2>4, <2>5 DEF TypeOK
  <1>20. CASE Settle
    <2> USE <1>20 DEF Settle, Settled, flags, sdkside, works, hostside, protocol
    <2>1. FlagsOK' BY DEF TypeOK, FlagsOK, Buffers
    <2>2. SdkOK' BY DEF TypeOK, SdkOK, Buffers
    <2>3. HostOK' BY DEF TypeOK, HostOK, FlagsOK
    <2>4. buffer' \in Buffers BY BufferTypes DEF TypeOK
    <2>5. recovery' \in Recoveries BY DEF TypeOK, Recoveries
    <2> QED BY <2>1, <2>2, <2>3, <2>4, <2>5 DEF TypeOK
  <1>21. CASE Lost
    <2> USE <1>21 DEF Lost, SdkIdle, Listening, Fails, flags, sdkside, works, hostside, protocol
    <2>1. FlagsOK' BY DEF TypeOK, FlagsOK, Buffers
    <2>2. SdkOK' BY DEF TypeOK, SdkOK, Buffers
    <2>3. HostOK' BY DEF TypeOK, HostOK, FlagsOK
    <2>4. buffer' \in Buffers BY BufferTypes DEF TypeOK
    <2>5. recovery' \in Recoveries BY DEF TypeOK, Recoveries
    <2> QED BY <2>1, <2>2, <2>3, <2>4, <2>5 DEF TypeOK
  <1>22. CASE OnResubscriptionNeeded
    <2> USE <1>22 DEF OnResubscriptionNeeded, SdkIdle, Listening, Fails, Recovering, Attempted, CanPrepare, flags, sdkside, works, hostside, protocol
    <2>1. FlagsOK' BY DEF TypeOK, FlagsOK, Buffers
    <2>2. SdkOK'
      <3>1. sdk' \in {"status", "fail"} /\ after' \in {after, "ondone"} OBVIOUS
      <3> QED BY <3>1 DEF TypeOK, SdkOK
    <2>3. HostOK' BY DEF TypeOK, HostOK, FlagsOK
    <2>4. buffer' \in Buffers
      <3>1. (Recovering(recovery)).generation \in Nat \ {0} BY DEF TypeOK, Recoveries
      <3> QED BY <3>1, BufferTypes, PrepareType DEF TypeOK
    <2>5. recovery' \in Recoveries
      <3>1. recovery.attempts + 1 \in Nat /\ 0 + 1 \in Nat /\ recovery.generation + 1 \in Nat \ {0} BY DEF TypeOK, Recoveries
      <3>2. Recovering(recovery) \in Recoveries BY <3>1 DEF TypeOK, Recoveries
      <3>3. Attempted(Recovering(recovery)) \in Recoveries BY <3>2 DEF Recoveries
      <3> QED BY <3>2, <3>3
    <2> QED BY <2>1, <2>2, <2>3, <2>4, <2>5 DEF TypeOK
  <1>23. CASE Resubscribing
    <2> USE <1>23 DEF Resubscribing, Emits, EmitResubscribing, ResubscribingRefused, StatusAdmitted, Fails, flags, sdkside, works, hostside, protocol
    <2>1. FlagsOK' BY DEF TypeOK, FlagsOK, Buffers
    <2>2. SdkOK' BY DEF TypeOK, SdkOK, Buffers
    <2>3. HostOK'
      <3>0. /\ wire \in Seq(Plain \cup Written) /\ live \in Nat /\ asked \in Nat
            /\ recovery.generation \in Nat /\ result.generation \in Nat
        BY DEF TypeOK, HostOK, Recoveries
      <3>01. \/ wire' = wire
             \/ wire' = wire \o <<Frame("resubscribing", recovery.generation, 0)>>
             \/ wire' = wire \o <<Frame("resubscribing", recovery.generation, 0),
                                 Frame("retired", live, 0)>>
        OBVIOUS
      <3>02. /\ wire \o <<Frame("resubscribing", recovery.generation, 0)>> \in Seq(Plain \cup Written)
             /\ wire \o <<Frame("resubscribing", recovery.generation, 0),
                          Frame("retired", live, 0)>> \in Seq(Plain \cup Written)
        BY ONLY <3>0, FrameTypes
      <3>1. wire' \in Seq(Plain \cup Written) BY ONLY <3>0, <3>01, <3>02
      <3>2. recovery.attempts \in Nat BY DEF TypeOK, Recoveries
      <3> QED BY <3>0, <3>1, <3>2 DEF TypeOK, HostOK
    <2>4. buffer' \in Buffers BY BufferTypes DEF TypeOK
    <2>5. recovery' \in Recoveries BY DEF TypeOK, Recoveries
    <2> QED BY <2>1, <2>2, <2>3, <2>4, <2>5 DEF TypeOK
  <1>24. CASE TimerRefused
    <2> USE <1>24 DEF TimerRefused, Fails, flags, sdkside, works, hostside, protocol
    <2>1. FlagsOK' BY DEF TypeOK, FlagsOK, Buffers
    <2>2. SdkOK' BY DEF TypeOK, SdkOK, Buffers
    <2>3. HostOK' BY DEF TypeOK, HostOK, FlagsOK
    <2>4. buffer' \in Buffers BY BufferTypes DEF TypeOK
    <2>5. recovery' \in Recoveries BY DEF TypeOK, Recoveries
    <2> QED BY <2>1, <2>2, <2>3, <2>4, <2>5 DEF TypeOK
  <1>25. CASE RecoveryDeadline
    <2> USE <1>25 DEF RecoveryDeadline, SdkIdle, Fails, flags, sdkside, works, hostside, protocol
    <2>1. FlagsOK' BY DEF TypeOK, FlagsOK, Buffers
    <2>2. SdkOK' BY DEF TypeOK, SdkOK, Buffers
    <2>3. HostOK' BY DEF TypeOK, HostOK, FlagsOK
    <2>4. buffer' \in Buffers BY BufferTypes DEF TypeOK
    <2>5. recovery' \in Recoveries BY DEF TypeOK, Recoveries
    <2> QED BY <2>1, <2>2, <2>3, <2>4, <2>5 DEF TypeOK
  <1>26. CASE Closes
    <2> USE <1>26 DEF Closes, SdkIdle, Listening, flags, sdkside, works, hostside, protocol
    <2>1. FlagsOK' BY DEF TypeOK, FlagsOK, Buffers
    <2>2. SdkOK' BY DEF TypeOK, SdkOK, Buffers
    <2>3. HostOK' BY DEF TypeOK, HostOK, FlagsOK
    <2>4. buffer' \in Buffers BY BufferTypes DEF TypeOK
    <2>5. recovery' \in Recoveries BY DEF TypeOK, Recoveries
    <2> QED BY <2>1, <2>2, <2>3, <2>4, <2>5 DEF TypeOK
  <1>27. CASE OnDone
    <2> USE <1>27 DEF OnDone, Fails, flags, sdkside, works, hostside, protocol
    <2>1. FlagsOK' BY DEF TypeOK, FlagsOK, Buffers
    <2>2. SdkOK' BY DEF TypeOK, SdkOK, Buffers
    <2>3. HostOK' BY DEF TypeOK, HostOK, FlagsOK
    <2>4. buffer' \in Buffers BY BufferTypes DEF TypeOK
    <2>5. recovery' \in Recoveries BY DEF TypeOK, Recoveries
    <2> QED BY <2>1, <2>2, <2>3, <2>4, <2>5 DEF TypeOK
  <1> QED BY <1>1, <1>2, <1>3, <1>4, <1>5, <1>6, <1>7, <1>8, <1>9, <1>10,
         <1>11, <1>12, <1>13, <1>14, <1>15, <1>16, <1>17, <1>18, <1>19,
         <1>20, <1>21, <1>22, <1>23, <1>24, <1>25, <1>26, <1>27

\* Every section of the host thread keeps the types.
LEMMA HostTypes ==
  ASSUME TypeOK,
         Submit \/ WaitReturns \/ WaitTimesOut \/ Expired \/ AnswerFailure \/
         AddStream \/ AddStreamRefused \/ Reply \/ FindForActivation \/
         Activate \/ ActivateEmits \/ Activated \/ FindForCancel \/
         HostCancels \/ CancelWaitEnds \/ CancelAnswered \/ CancelRetires \/
         CancelErases
  PROVE  TypeOK'
  <1> USE DEF HostAt
  <1>1. CASE Submit
    <2> USE <1>1 DEF Submit, PublishFailure, MarkDone, flags, sdkside, works, hostside, protocol
    <2>1. FlagsOK' BY DEF TypeOK, FlagsOK, Buffers
    <2>2. SdkOK'
      <3>1. refused' \in BOOLEAN BY DEF TypeOK, SdkOK
      <3>2. UNCHANGED <<timer, sdk, after, carried, client, reporting, reaped>> OBVIOUS
      <3> QED BY ONLY TypeOK, <3>1, <3>2 DEF TypeOK, SdkOK
    <2>3. HostOK' BY DEF TypeOK, HostOK, FlagsOK, Before, Serves, Unsubscribing
    <2>4. buffer' \in Buffers BY BufferTypes DEF TypeOK
    <2>5. recovery' \in Recoveries BY DEF TypeOK, Recoveries
    <2> QED BY <2>1, <2>2, <2>3, <2>4, <2>5 DEF TypeOK
  <1>2. CASE WaitReturns
    <2> USE <1>2 DEF WaitReturns, flags, sdkside, works, hostside, protocol
    <2>1. FlagsOK' BY DEF TypeOK, FlagsOK, Buffers
    <2>2. SdkOK' BY DEF TypeOK, SdkOK, Buffers
    <2>3. HostOK' BY DEF TypeOK, HostOK, FlagsOK, Before, Serves, Unsubscribing
    <2>4. buffer' \in Buffers BY BufferTypes DEF TypeOK
    <2>5. recovery' \in Recoveries BY DEF TypeOK, Recoveries
    <2> QED BY <2>1, <2>2, <2>3, <2>4, <2>5 DEF TypeOK
  <1>3. CASE WaitTimesOut
    <2> USE <1>3 DEF WaitTimesOut, flags, sdkside, works, hostside, protocol
    <2>1. FlagsOK' BY DEF TypeOK, FlagsOK, Buffers
    <2>2. SdkOK' BY DEF TypeOK, SdkOK, Buffers
    <2>3. HostOK' BY DEF TypeOK, HostOK, FlagsOK, Before, Serves, Unsubscribing
    <2>4. buffer' \in Buffers BY BufferTypes DEF TypeOK
    <2>5. recovery' \in Recoveries BY DEF TypeOK, Recoveries
    <2> QED BY <2>1, <2>2, <2>3, <2>4, <2>5 DEF TypeOK
  <1>4. CASE Expired
    <2> USE <1>4 DEF Expired, ScheduleCancel, flags, sdkside, works, hostside, protocol
    <2>1. FlagsOK' BY DEF TypeOK, FlagsOK, Buffers
    <2>2. SdkOK'
      <3>1. refused' \in BOOLEAN BY DEF TypeOK, SdkOK
      <3>2. UNCHANGED <<timer, sdk, after, carried, client, reporting, reaped>> OBVIOUS
      <3> QED BY ONLY TypeOK, <3>1, <3>2 DEF TypeOK, SdkOK
    <2>3. HostOK' BY DEF TypeOK, HostOK, FlagsOK, Before, Serves, Unsubscribing
    <2>4. buffer' \in Buffers BY BufferTypes DEF TypeOK
    <2>5. recovery' \in Recoveries BY DEF TypeOK, Recoveries
    <2> QED BY <2>1, <2>2, <2>3, <2>4, <2>5 DEF TypeOK
  <1>5. CASE AnswerFailure
    <2> USE <1>5 DEF AnswerFailure, flags, sdkside, works, hostside, protocol
    <2>1. FlagsOK' BY DEF TypeOK, FlagsOK, Buffers
    <2>2. SdkOK' BY DEF TypeOK, SdkOK, Buffers
    <2>3. HostOK' BY DEF TypeOK, HostOK, FlagsOK, Before, Serves, Unsubscribing
    <2>4. buffer' \in Buffers BY BufferTypes DEF TypeOK
    <2>5. recovery' \in Recoveries BY DEF TypeOK, Recoveries
    <2> QED BY <2>1, <2>2, <2>3, <2>4, <2>5 DEF TypeOK
  <1>6. CASE AddStream
    <2> USE <1>6 DEF AddStream, flags, sdkside, works, hostside, protocol
    <2>1. FlagsOK' BY DEF TypeOK, FlagsOK, Buffers
    <2>2. SdkOK' BY DEF TypeOK, SdkOK, Buffers
    <2>3. HostOK' BY DEF TypeOK, HostOK, FlagsOK, Recoveries, Before, Serves
    <2>4. buffer' \in Buffers BY BufferTypes DEF TypeOK
    <2>5. recovery' \in Recoveries BY DEF TypeOK, Recoveries
    <2> QED BY <2>1, <2>2, <2>3, <2>4, <2>5 DEF TypeOK
  <1>7. CASE AddStreamRefused
    <2> USE <1>7 DEF AddStreamRefused, ScheduleCancel, Found, flags, sdkside, works, hostside, protocol
    <2>1. FlagsOK' BY DEF TypeOK, FlagsOK, Buffers
    <2>2. SdkOK'
      <3>1. refused' \in BOOLEAN BY DEF TypeOK, SdkOK
      <3>2. UNCHANGED <<timer, sdk, after, carried, client, reporting, reaped>> OBVIOUS
      <3> QED BY ONLY TypeOK, <3>1, <3>2 DEF TypeOK, SdkOK
    <2>3. HostOK' BY DEF TypeOK, HostOK, FlagsOK, Before, Serves, Unsubscribing
    <2>4. buffer' \in Buffers BY BufferTypes DEF TypeOK
    <2>5. recovery' \in Recoveries BY DEF TypeOK, Recoveries
    <2> QED BY <2>1, <2>2, <2>3, <2>4, <2>5 DEF TypeOK
  <1>8. CASE Reply
    <2> USE <1>8 DEF Reply, flags, sdkside, works, hostside, protocol
    <2>1. FlagsOK' BY DEF TypeOK, FlagsOK, Buffers
    <2>2. SdkOK' BY DEF TypeOK, SdkOK, Buffers
    <2>3. HostOK'
      <3>0. /\ wire \in Seq(Plain \cup Written) /\ live \in Nat /\ asked \in Nat
            /\ recovery.generation \in Nat /\ result.generation \in Nat
        BY DEF TypeOK, HostOK, Recoveries
      <3>1. wire' \in Seq(Plain \cup Written) BY <3>0, FrameTypes
      <3> QED BY <3>1, NoEntryType DEF TypeOK, HostOK, Serves, Before, Unsubscribing
    <2>4. buffer' \in Buffers BY BufferTypes DEF TypeOK
    <2>5. recovery' \in Recoveries BY DEF TypeOK, Recoveries
    <2> QED BY <2>1, <2>2, <2>3, <2>4, <2>5 DEF TypeOK
  <1>9. CASE FindForActivation
    <2> USE <1>9 DEF FindForActivation, Found, flags, sdkside, works, hostside, protocol
    <2>1. FlagsOK' BY DEF TypeOK, FlagsOK, Buffers
    <2>2. SdkOK' BY DEF TypeOK, SdkOK, Buffers
    <2>3. HostOK' BY DEF TypeOK, HostOK, FlagsOK, Before, Serves, Unsubscribing
    <2>4. buffer' \in Buffers BY BufferTypes DEF TypeOK
    <2>5. recovery' \in Recoveries BY DEF TypeOK, Recoveries
    <2> QED BY <2>1, <2>2, <2>3, <2>4, <2>5 DEF TypeOK
  <1>10. CASE Activate
    <2> USE <1>10 DEF Activate, flags, sdkside, works, hostside, protocol
    <2>1. FlagsOK' BY DEF TypeOK, FlagsOK, Buffers
    <2>2. SdkOK' BY DEF TypeOK, SdkOK, Buffers
    <2>3. HostOK'
      <3>1. (ActivateBuffer(buffer)).ready \in Seq(Held)
        BY BufferTypes DEF TypeOK, Buffers
      <3> QED BY <3>1 DEF TypeOK, HostOK, Before, Serves
    <2>4. buffer' \in Buffers BY BufferTypes DEF TypeOK
    <2>5. recovery' \in Recoveries BY DEF TypeOK, Recoveries
    <2> QED BY <2>1, <2>2, <2>3, <2>4, <2>5 DEF TypeOK
  <1>11. CASE ActivateEmits
    <2> USE <1>11 DEF ActivateEmits, EmitReport, EmitReportRefused, Emits, ScheduleCancel, flags, sdkside, works, hostside, protocol
    <2>1. FlagsOK' BY DEF TypeOK, FlagsOK, Buffers
    <2>2. SdkOK'
      <3>1. refused' \in BOOLEAN BY DEF TypeOK, SdkOK
      <3>2. UNCHANGED <<timer, sdk, after, carried, client, reporting, reaped>> OBVIOUS
      <3> QED BY ONLY TypeOK, <3>1, <3>2 DEF TypeOK, SdkOK
    <2>3. HostOK'
      <3>0. taken \in Seq(Held) /\ taken # << >> BY DEF TypeOK, SdkOK, HostOK
      <3>1. Head(taken) \in Held /\ Tail(taken) \in Seq(Held) /\ << >> \in Seq(Held) BY <3>0
      <3>2. CASE EmitReport(Head(taken), "host") /\ UNCHANGED host
        <4>1. wire' \in Seq(Plain \cup Written) BY <3>1, <3>2, ReportTypes DEF TypeOK, HostOK
        <4> QED BY <3>1, <3>2, <4>1 DEF TypeOK, HostOK
      <3>3. CASE EmitReportRefused(Head(taken)) /\ taken' = << >> /\ host' = "down"
        <4>0. wire \in Seq(Plain \cup Written) /\ live \in Nat BY DEF TypeOK, HostOK
        <4>1. wire' \in Seq(Plain \cup Written) BY <3>3, <4>0, FrameTypes
        <4>2. (entry' = entry \/ entry' = NoEntry) /\ (live' = live \/ live' = 0) BY <3>3
        <4>3. UNCHANGED <<result, asked, cancel_ok, produced, healthy>> BY <3>3
        <4> QED BY ONLY TypeOK, <3>1, <3>3, <4>1, <4>2, <4>3, NoEntryType
               DEF TypeOK, HostOK, Before, Serves, hostside
      <3> QED BY <3>2, <3>3
    <2>4. buffer' \in Buffers BY BufferTypes DEF TypeOK
    <2>5. recovery' \in Recoveries BY DEF TypeOK, Recoveries
    <2> QED BY <2>1, <2>2, <2>3, <2>4, <2>5 DEF TypeOK
  <1>12. CASE Activated
    <2> USE <1>12 DEF Activated, flags, sdkside, works, hostside, protocol
    <2>1. FlagsOK' BY DEF TypeOK, FlagsOK, Buffers
    <2>2. SdkOK' BY DEF TypeOK, SdkOK, Buffers
    <2>3. HostOK' BY DEF TypeOK, HostOK, FlagsOK, Before, Serves, Unsubscribing
    <2>4. buffer' \in Buffers BY BufferTypes DEF TypeOK
    <2>5. recovery' \in Recoveries BY DEF TypeOK, Recoveries
    <2> QED BY <2>1, <2>2, <2>3, <2>4, <2>5 DEF TypeOK
  <1>13. CASE FindForCancel
    <2> USE <1>13 DEF FindForCancel, Found, flags, sdkside, works, hostside, protocol
    <2>1. FlagsOK' BY DEF TypeOK, FlagsOK, Buffers
    <2>2. SdkOK' BY DEF TypeOK, SdkOK, Buffers
    <2>3. HostOK' BY DEF TypeOK, HostOK, FlagsOK, Before, Serves, Unsubscribing
    <2>4. buffer' \in Buffers BY BufferTypes DEF TypeOK
    <2>5. recovery' \in Recoveries BY DEF TypeOK, Recoveries
    <2> QED BY <2>1, <2>2, <2>3, <2>4, <2>5 DEF TypeOK
  <1>14. CASE HostCancels
    <2> USE <1>14 DEF HostCancels, ScheduleCancel, flags, sdkside, works, hostside, protocol
    <2>1. FlagsOK' BY DEF TypeOK, FlagsOK, Buffers
    <2>2. SdkOK'
      <3>1. refused' \in BOOLEAN BY DEF TypeOK, SdkOK
      <3>2. UNCHANGED <<timer, sdk, after, carried, client, reporting, reaped>> OBVIOUS
      <3> QED BY ONLY TypeOK, <3>1, <3>2 DEF TypeOK, SdkOK
    <2>3. HostOK' BY DEF TypeOK, HostOK, FlagsOK, Before, Serves, Unsubscribing
    <2>4. buffer' \in Buffers BY BufferTypes DEF TypeOK
    <2>5. recovery' \in Recoveries BY DEF TypeOK, Recoveries
    <2> QED BY <2>1, <2>2, <2>3, <2>4, <2>5 DEF TypeOK
  <1>15. CASE CancelWaitEnds
    <2> USE <1>15 DEF CancelWaitEnds, flags, sdkside, works, hostside, protocol
    <2>1. FlagsOK' BY DEF TypeOK, FlagsOK, Buffers
    <2>2. SdkOK' BY DEF TypeOK, SdkOK, Buffers
    <2>3. HostOK' BY DEF TypeOK, HostOK, FlagsOK, Before, Serves, Unsubscribing
    <2>4. buffer' \in Buffers BY BufferTypes DEF TypeOK
    <2>5. recovery' \in Recoveries BY DEF TypeOK, Recoveries
    <2> QED BY <2>1, <2>2, <2>3, <2>4, <2>5 DEF TypeOK
  <1>16. CASE CancelAnswered
    <2> USE <1>16 DEF CancelAnswered, flags, sdkside, works, hostside, protocol
    <2>1. FlagsOK' BY DEF TypeOK, FlagsOK, Buffers
    <2>2. SdkOK' BY DEF TypeOK, SdkOK, Buffers
    <2>3. HostOK'
      <3>0. /\ wire \in Seq(Plain \cup Written) /\ live \in Nat /\ asked \in Nat
            /\ recovery.generation \in Nat /\ result.generation \in Nat
        BY DEF TypeOK, HostOK, Recoveries
      <3>1. wire' \in Seq(Plain \cup Written) BY <3>0, FrameTypes
      <3> QED BY <3>1, NoEntryType DEF TypeOK, HostOK, Serves, Before, Unsubscribing
    <2>4. buffer' \in Buffers BY BufferTypes DEF TypeOK
    <2>5. recovery' \in Recoveries BY DEF TypeOK, Recoveries
    <2> QED BY <2>1, <2>2, <2>3, <2>4, <2>5 DEF TypeOK
  <1>17. CASE CancelRetires
    <2> USE <1>17 DEF CancelRetires, Emits, flags, sdkside, works, hostside, protocol
    <2>1. FlagsOK' BY DEF TypeOK, FlagsOK, Buffers
    <2>2. SdkOK' BY DEF TypeOK, SdkOK, Buffers
    <2>3. HostOK'
      <3>0. /\ wire \in Seq(Plain \cup Written) /\ live \in Nat /\ asked \in Nat
            /\ recovery.generation \in Nat /\ result.generation \in Nat
        BY DEF TypeOK, HostOK, Recoveries
      <3>1. wire' \in Seq(Plain \cup Written) BY <3>0, FrameTypes
      <3> QED BY <3>1, NoEntryType DEF TypeOK, HostOK, Serves, Before, Unsubscribing
    <2>4. buffer' \in Buffers BY BufferTypes DEF TypeOK
    <2>5. recovery' \in Recoveries BY DEF TypeOK, Recoveries
    <2> QED BY <2>1, <2>2, <2>3, <2>4, <2>5 DEF TypeOK
  <1>18. CASE CancelErases
    <2> USE <1>18 DEF CancelErases, flags, sdkside, works, hostside, protocol
    <2>1. FlagsOK' BY DEF TypeOK, FlagsOK, Buffers
    <2>2. SdkOK' BY DEF TypeOK, SdkOK, Buffers
    <2>3. HostOK'
      <3>0. /\ wire \in Seq(Plain \cup Written) /\ live \in Nat /\ asked \in Nat
            /\ recovery.generation \in Nat /\ result.generation \in Nat
        BY DEF TypeOK, HostOK, Recoveries
      <3>1. wire' \in Seq(Plain \cup Written) BY <3>0, FrameTypes
      <3> QED BY <3>1, NoEntryType DEF TypeOK, HostOK, Serves, Before, Unsubscribing
    <2>4. buffer' \in Buffers BY BufferTypes DEF TypeOK
    <2>5. recovery' \in Recoveries BY DEF TypeOK, Recoveries
    <2> QED BY <2>1, <2>2, <2>3, <2>4, <2>5 DEF TypeOK
  <1> QED BY <1>1, <1>2, <1>3, <1>4, <1>5, <1>6, <1>7, <1>8, <1>9, <1>10,
         <1>11, <1>12, <1>13, <1>14, <1>15, <1>16, <1>17, <1>18

-----------------------------------------------------------------------------
(* Control.                                                                *)

\* The work queues there are, and what is taken from them and put to them.
LEMMA Works ==
  /\ QStart # << >> /\ QStartCancel # << >> /\ QCancel # << >> /\ QReap # << >>
  /\ QCancelReap # << >>
  /\ QStart # QStartCancel /\ QStart # QCancel /\ QStart # QReap /\ QStart # QCancelReap
  /\ QStartCancel # QCancel /\ QStartCancel # QReap /\ QStartCancel # QCancelReap
  /\ QCancel # QReap /\ QCancel # QCancelReap /\ QReap # QCancelReap
  /\ Head(QStart) = "start" /\ Head(QStartCancel) = "start" /\ Head(QCancel) = "cancel"
  /\ Head(QReap) = "reap" /\ Head(QCancelReap) = "cancel"
  /\ Tail(QStart) = << >> /\ Tail(QStartCancel) = QCancel /\ Tail(QCancel) = << >>
  /\ Tail(QReap) = << >> /\ Tail(QCancelReap) = QReap
  /\ Append(<< >>, "start") = QStart /\ Append(<< >>, "cancel") = QCancel
  /\ Append(QStart, "cancel") = QStartCancel /\ Append(<< >>, "reap") = QReap
  /\ Append(QCancel, "reap") = QCancelReap
  <1> USE DEF QStart, QStartCancel, QCancel, QReap, QCancelReap
  <1>1. /\ QStart # << >> /\ QStartCancel # << >> /\ QCancel # << >> /\ QReap # << >>
        /\ QCancelReap # << >>
    OBVIOUS
  <1>2. /\ QStart # QStartCancel /\ QStart # QCancel /\ QStart # QReap /\ QStart # QCancelReap
        /\ QStartCancel # QCancel /\ QStartCancel # QReap /\ QStartCancel # QCancelReap
        /\ QCancel # QReap /\ QCancel # QCancelReap /\ QReap # QCancelReap
    <2>1. QStart # QStartCancel /\ QStart # QCancel /\ QStart # QReap OBVIOUS
    <2>2. QStart # QCancelReap /\ QStartCancel # QCancel /\ QStartCancel # QReap OBVIOUS
    <2>3. QStartCancel # QCancelReap OBVIOUS
    <2>4. QCancel # QReap /\ QCancel # QCancelReap /\ QReap # QCancelReap OBVIOUS
    <2> QED BY <2>1, <2>2, <2>3, <2>4
  <1>3. /\ Head(QStart) = "start" /\ Head(QStartCancel) = "start" /\ Head(QCancel) = "cancel"
        /\ Head(QReap) = "reap" /\ Head(QCancelReap) = "cancel"
    OBVIOUS
  <1>4. /\ Tail(QStart) = << >> /\ Tail(QCancel) = << >> /\ Tail(QReap) = << >>
    OBVIOUS
  <1>5. Tail(QStartCancel) = QCancel OBVIOUS
  <1>6. Tail(QCancelReap) = QReap OBVIOUS
  <1>7. /\ Append(<< >>, "start") = QStart /\ Append(<< >>, "cancel") = QCancel
        /\ Append(<< >>, "reap") = QReap
    OBVIOUS
  <1>8. Append(QStart, "cancel") = QStartCancel
    <2> DEFINE K == {"start", "cancel", "reap"}
    <2>0. "cancel" \in K OBVIOUS
    <2>1. QStart \in Seq(K) /\ QStartCancel \in Seq(K) OBVIOUS
    <2>2. Append(QStart, "cancel") \in Seq(K) BY <2>1
    <2>3. /\ Len(QStart) = 1 /\ QStart[1] = "start" /\ Len(QStartCancel) = 2
          /\ QStartCancel[1] = "start" /\ QStartCancel[2] = "cancel"
      OBVIOUS
    <2> DEFINE a == Append(QStart, "cancel")
    <2> HIDE DEF K, QStart, QStartCancel
    <2>4. Len(a) = 2 /\ a[1] = QStart[1] /\ a[2] = "cancel"
      <3>1. /\ Len(a) = Len(QStart) + 1 /\ a[Len(QStart) + 1] = "cancel"
            /\ \A i \in 1..Len(QStart) : a[i] = QStart[i]
        BY ONLY <2>0, <2>1, AppendProperties
      <3> HIDE DEF a
      <3> QED BY ONLY <2>3, <3>1
    <2>5. \A i \in 1..Len(a) : a[i] = QStartCancel[i] BY <2>3, <2>4
    <2>6. a \in Seq(K) /\ Len(a) = Len(QStartCancel) BY <2>2, <2>3, <2>4
    <2> HIDE DEF a
    <2>7. a = QStartCancel BY ONLY <2>1, <2>5, <2>6, SeqEqual
    <2> QED BY <2>7 DEF a
  <1>9. Append(QCancel, "reap") = QCancelReap
    <2> DEFINE K == {"start", "cancel", "reap"}
    <2>0. "reap" \in K OBVIOUS
    <2>1. QCancel \in Seq(K) /\ QCancelReap \in Seq(K) OBVIOUS
    <2>2. Append(QCancel, "reap") \in Seq(K) BY <2>1
    <2>3. /\ Len(QCancel) = 1 /\ QCancel[1] = "cancel" /\ Len(QCancelReap) = 2
          /\ QCancelReap[1] = "cancel" /\ QCancelReap[2] = "reap"
      OBVIOUS
    <2> DEFINE a == Append(QCancel, "reap")
    <2> HIDE DEF K, QCancel, QCancelReap
    <2>4. Len(a) = 2 /\ a[1] = QCancel[1] /\ a[2] = "reap"
      <3>1. /\ Len(a) = Len(QCancel) + 1 /\ a[Len(QCancel) + 1] = "reap"
            /\ \A i \in 1..Len(QCancel) : a[i] = QCancel[i]
        BY ONLY <2>0, <2>1, AppendProperties
      <3> HIDE DEF a
      <3> QED BY ONLY <2>3, <3>1
    <2>5. \A i \in 1..Len(a) : a[i] = QCancelReap[i] BY <2>3, <2>4
    <2>6. a \in Seq(K) /\ Len(a) = Len(QCancelReap) BY <2>2, <2>3, <2>4
    <2> HIDE DEF a
    <2>7. a = QCancelReap BY ONLY <2>1, <2>5, <2>6, SeqEqual
    <2> QED BY <2>7 DEF a
  <1> HIDE DEF QStart, QStartCancel, QCancel, QReap, QCancelReap
  <1> QED BY <1>1, <1>2, <1>3, <1>4, <1>5, <1>6, <1>7, <1>8, <1>9

\* No entry names generation 0 and no recovery.
LEMMA NoEntryIs ==
  NoEntry.generation = 0 /\ ~NoEntry.recovering /\ NoEntry.attempt = 0
  BY DEF NoEntry

\* ScheduleCancelLocked leaves the subscription cancelling or done
\* (controller.cpp).
LEMMA ScheduleCancelIs ==
  ASSUME Queue, ScheduleCancel, TypeOK
  PROVE  \/ /\ UNCHANGED <<cancel_scheduled, done, work, refused>>
            /\ cancel_scheduled \/ done
         \/ /\ cancel_scheduled' /\ ~cancel_scheduled /\ ~done
            /\ \/ work = << >> /\ work' = QCancel
               \/ work = QStart /\ work' = QStartCancel
            /\ UNCHANGED <<done, refused>>
         \/ /\ cancel_scheduled' /\ ~cancel_scheduled /\ ~done /\ done' /\ refused'
            /\ UNCHANGED work
  BY Works DEF Queue, Starting, Cancelling, Reaping, ScheduleCancel, TypeOK, FlagsOK

\* MarkDone leaves the subscription done (controller.cpp).
LEMMA MarkDoneIs ==
  ASSUME Queue, MarkDone, ~Starting, TypeOK
  PROVE  \/ UNCHANGED <<done, work, refused>> /\ done
         \/ /\ done' /\ ~done /\ UNCHANGED refused
            /\ \/ work = << >> /\ work' = QReap
               \/ work = QCancel /\ work' = QCancelReap
         \/ /\ done' /\ ~done /\ refused' /\ UNCHANGED work
  BY Works DEF Queue, Starting, Cancelling, Reaping, MarkDone, TypeOK, FlagsOK

\* OnAttributeData and OnEventData leave what the control needs of the
\* buffer (controller.cpp).
LEMMA OnDataIs ==
  ASSUME TypeOK, OnData
  PROVE  /\ buffer' \in Buffers
         /\ buffer'.generation = buffer.generation
         /\ buffer'.established = buffer.established /\ buffer'.activated = buffer.activated
         /\ buffer'.active => buffer.active
         /\ UNCHANGED <<sdk, after>> \/ (sdk' = "fail" /\ after' = "idle")
  <1>1. CASE \E id \in Reportable(buffer) : buffer' =
               Record(AddTo(buffer, [generation |-> buffer.generation, n |-> produced + 1,
                                     id |-> id, initial |-> ~buffer.established]), id)
    <2>1. PICK id \in Reportable(buffer) : buffer' =
               Record(AddTo(buffer, [generation |-> buffer.generation, n |-> produced + 1,
                                     id |-> id, initial |-> ~buffer.established]), id)
      BY <1>1
    <2>2. id \in Ids BY DEF Reportable, Ids
    <2>3. [generation |-> buffer.generation, n |-> produced + 1,
           id |-> id, initial |-> ~buffer.established] \in Held
      BY <2>2 DEF TypeOK, HostOK, Held, Buffers
    <2>4. UNCHANGED <<sdk, after>> \/ (sdk' = "fail" /\ after' = "idle")
      BY DEF OnData, Fails
    <2> DEFINE r == [generation |-> buffer.generation, n |-> produced + 1,
                     id |-> id, initial |-> ~buffer.established]
               c == Record(AddTo(buffer, r), id)
    <2>5. buffer' = c /\ r \in Held /\ buffer \in Buffers BY <2>1, <2>3 DEF TypeOK
    <2> HIDE DEF r
    <2>6. /\ c \in Buffers /\ c.generation = buffer.generation /\ c.active = buffer.active
          /\ c.established = buffer.established /\ c.activated = buffer.activated
      BY <2>2, <2>5, AddType, AddFields
    <2> HIDE DEF c
    <2> QED BY <2>4, <2>5, <2>6
  <1>2. CASE buffer' = buffer BY <1>2 DEF OnData, Fails, TypeOK
  <1>3. CASE buffer' = [buffer EXCEPT !.active = FALSE]
    <2>1. UNCHANGED <<sdk, after>> \/ (sdk' = "fail" /\ after' = "idle")
      BY DEF OnData, Fails
    <2> QED BY <1>3, <2>1, BufferTypes, BufferFields DEF TypeOK
  <1> QED BY <1>1, <1>2, <1>3 DEF OnData

\* OnSubscriptionEstablished establishes the buffer, and activates it in a
\* recovery (controller.cpp).
LEMMA EstablishedIs ==
  ASSUME TypeOK, Established, Buffered
  PROVE  /\ buffer' \in Buffers
         /\ buffer'.generation = buffer.generation /\ buffer'.active /\ buffer.active
         /\ buffer'.established
         /\ buffer'.activated = IF recovery.recovering THEN TRUE ELSE buffer.activated
  <1> DEFINE e == Establish(buffer)
             a == ActivateBuffer(e)
  <1>1. /\ e \in Buffers /\ e.active /\ e.established /\ e.generation = buffer.generation
        /\ e.activated = buffer.activated /\ ~buffer.activated
    BY ZenonT(30), BufferTypes, BufferFields DEF TypeOK, Established, CanEstablish, Buffered, Buffers
  <1>2. a \in Buffers /\ TakeReady(a) \in Buffers BY <1>1, BufferTypes
  <1>3. a.active /\ a.established /\ a.generation = buffer.generation /\ a.activated
    BY <1>1, ActivateFields
  <1>4. buffer' = IF recovery.recovering THEN TakeReady(a) ELSE e BY DEF Established
  <1> HIDE DEF e, a
  <1> QED BY <1>1, <1>2, <1>3, <1>4, TakeFields DEF Established, CanEstablish, TypeOK, Buffers

\* OnResubscriptionNeeded begins an attempt, or fails (controller.cpp).
LEMMA NeededIs ==
  ASSUME TypeOK, OnResubscriptionNeeded, Buffered
  PROVE   /\ buffer' \in Buffers /\ recovery' \in Recoveries
          /\ recovery'.recovering /\ recovery'.attempts # 0
          /\ \/ /\ ~recovery.recovering /\ recovery.attempts = 0
                /\ recovery'.generation = recovery.generation + 1 /\ recovery'.attempts = 1
                /\ sdk' = "status" /\ UNCHANGED after
                /\ buffer.active /\ buffer'.active /\ ~buffer'.established /\ ~buffer'.activated
                /\ buffer'.generation = recovery'.generation
                /\ buffer.generation = recovery.generation
             \/ /\ recovery.recovering /\ recovery'.generation = recovery.generation
                /\ recovery'.attempts = recovery.attempts + 1 /\ UNCHANGED buffer
                /\ sdk' = "status" /\ UNCHANGED after
             \/ /\ ~recovery.recovering /\ recovery'.generation = recovery.generation + 1
                /\ ~buffer'.active /\ buffer'.generation = buffer.generation
                /\ buffer'.established = buffer.established
                /\ buffer'.activated = buffer.activated
                /\ sdk' = "fail" /\ after' = "ondone"
             \/ /\ recovery.recovering /\ UNCHANGED <<recovery, buffer>>
                /\ sdk' = "fail" /\ after' = "ondone"
  <1> DEFINE r == Recovering(recovery)
             t == Attempted(r)
  <1>0. /\ recovery \in Recoveries /\ recovery.generation \in Nat \ {0}
        /\ recovery.attempts \in Nat /\ buffer \in Buffers
    BY DEF TypeOK, Recoveries
  <1>1. CASE ~recovery.recovering
    <2>1. /\ r \in Recoveries /\ r.recovering /\ r.attempts = 0 /\ recovery.attempts = 0
          /\ r.generation = recovery.generation + 1
      <3>1. recovery.attempts = 0 BY <1>1 DEF Buffered
      <3>2. r = [recovery EXCEPT !.recovering = TRUE, !.attempts = 0, !.generation = @ + 1]
        BY <1>1 DEF Recovering
      <3>3. recovery.generation + 1 \in Nat \ {0} BY <1>0
      <3> QED BY ONLY <1>0, <3>1, <3>2, <3>3 DEF Recoveries
    <2>2. /\ t \in Recoveries /\ t.recovering /\ t.attempts = 1
          /\ t.generation = recovery.generation + 1
      BY <2>1 DEF Attempted, Recoveries
    <2>3. \/ /\ CanPrepare(buffer, r.generation) /\ recovery' = t
             /\ buffer' = PrepareRecovery(buffer, r.generation)
             /\ sdk' = "status" /\ UNCHANGED after
          \/ /\ recovery' = t /\ buffer' = [buffer EXCEPT !.active = FALSE]
             /\ sdk' = "fail" /\ after' = "ondone"
      BY <2>1 DEF OnResubscriptionNeeded, Fails
    <2> HIDE DEF r, t
    <2>4. r.generation \in Nat \ {0} BY <2>1 DEF Recoveries
    <2>5. CASE CanPrepare(buffer, r.generation) /\ recovery' = t
               /\ buffer' = PrepareRecovery(buffer, r.generation)
               /\ sdk' = "status" /\ UNCHANGED after
      BY <1>0, <1>1, <2>1, <2>2, <2>4, <2>5, PrepareType, PrepareFields DEF CanPrepare, Buffered
    <2>6. CASE recovery' = t /\ buffer' = [buffer EXCEPT !.active = FALSE]
               /\ sdk' = "fail" /\ after' = "ondone"
      BY <1>0, <1>1, <2>1, <2>2, <2>6, BufferTypes, BufferFields
    <2> QED BY <2>3, <2>5, <2>6
  <1>2. CASE recovery.recovering
    <2>1. r = recovery /\ recovery.attempts # 0 BY <1>2 DEF Recovering, Buffered
    <2>2. /\ t \in Recoveries /\ t.recovering /\ t.attempts = recovery.attempts + 1
          /\ t.generation = recovery.generation
      BY <1>0, <1>2, <2>1 DEF Attempted, Recoveries
    <2>3. \/ /\ recovery' = t /\ UNCHANGED buffer /\ sdk' = "status" /\ UNCHANGED after
          \/ UNCHANGED <<recovery, buffer>> /\ sdk' = "fail" /\ after' = "ondone"
      BY <2>1 DEF OnResubscriptionNeeded, Fails
    <2> HIDE DEF r, t
    <2> QED BY <1>0, <1>2, <2>1, <2>2, <2>3
  <1> QED BY <1>1, <1>2

Control == Queue /\ Client /\ Response /\ Buffered /\ Agreement /\ Stream

\* Every section of the SDK thread keeps the control.
LEMMA SdkControl ==
  ASSUME TypeOK, Control,
         StartWork \/ CancelWork \/ ReapWork \/ Mark \/ OnConnected \/
         ConnectionFailed \/ OnReportBegin \/ OnData \/ OnReportEnd \/
         EmitOne \/ EmitEnds \/ FailActive \/ EmitFailure \/ SdkCancels \/
         EstablishedWithout \/ EstablishRefused \/ Established \/ Publish \/
         Announce \/ Settle \/ Lost \/ OnResubscriptionNeeded \/
         Resubscribing \/ TimerRefused \/ RecoveryDeadline \/ Closes \/
         OnDone
  PROVE  Control'
  <1> USE DEF Control, Running
  <1>1. CASE StartWork
    <2> USE <1>1 DEF StartWork, SdkIdle, PublishFailure, flags, sdkside, works, hostside, protocol
    <2>0. Starting /\ ~response.ok /\ work' \in {<< >>, QCancel}
      BY Works DEF Queue, Starting, Cancelling, Reaping, Client, Response
    <2>1. Queue'
      BY <2>0, Works DEF Queue, Starting, Cancelling, Reaping, Client, TypeOK, FlagsOK,
             SdkOK, HostOK
    <2>2. Client'
      BY <2>0, Works DEF Client, Starting, Cancelling, Queue, Reaping, Response,
             Unanswered, TypeOK, FlagsOK, SdkOK, HostOK
    <2>3. Response'
      BY <2>0 DEF Response, Unanswered, Buffered, Client, Before, Serves,
             Unsubscribing, TypeOK, FlagsOK, SdkOK, HostOK
    <2>4. Buffered'
      BY <2>0 DEF Buffered, Response, Unanswered, Client, TypeOK, FlagsOK,
             SdkOK, HostOK
    <2>5. Agreement'
      BY <2>0, NoEntryIs DEF Agreement, Alive, Same, Between, FirstStatus, NextStatus,
             Settling, Response, Unanswered, Stream, Client, Queue,
             Buffered, Starting, Before, Serves, TypeOK, FlagsOK, SdkOK,
             HostOK
    <2>6. Stream'
      BY <2>0, NoEntryIs DEF Stream, Response, Unanswered, Agreement, Before, Serves,
             TypeOK, FlagsOK, SdkOK, HostOK
    <2> QED BY <2>1, <2>2, <2>3, <2>4, <2>5, <2>6 DEF Control
  <1>2. CASE CancelWork
    <2> USE <1>2 DEF CancelWork, SdkIdle, CancelRecovery, Settled, flags, sdkside, works, hostside, protocol
    <2>0. /\ buffer' \in Buffers
          /\ buffer'.generation = buffer.generation
          /\ buffer'.established = buffer.established /\ buffer'.activated = buffer.activated
          /\ ~buffer'.active
          /\ recovery'.generation = recovery.generation /\ ~recovery'.recovering
          /\ recovery'.attempts = 0
      <3>1. /\ recovery'.generation = recovery.generation /\ ~recovery'.recovering
            /\ recovery'.attempts = 0
        BY DEF TypeOK, Recoveries
      <3> QED BY <3>1, BufferTypes, BufferFields DEF TypeOK
    <2>1. Queue'
      BY <2>0, Works DEF Queue, Starting, Cancelling, Reaping, Client, TypeOK, FlagsOK,
             SdkOK, HostOK
    <2>2. Client'
      BY <2>0, Works DEF Client, Starting, Cancelling, Queue, Reaping, Response,
             Unanswered, TypeOK, FlagsOK, SdkOK, HostOK
    <2>3. Response'
      BY <2>0 DEF Response, Unanswered, Buffered, Client, Before, Serves,
             Unsubscribing, TypeOK, FlagsOK, SdkOK, HostOK
    <2>4. Buffered'
      BY <2>0 DEF Buffered, Response, Unanswered, Client, TypeOK, FlagsOK,
             SdkOK, HostOK
    <2>5. Agreement'
      BY <2>0, NoEntryIs DEF Agreement, Alive, Same, Between, FirstStatus, NextStatus,
             Settling, Response, Unanswered, Stream, Client, Queue,
             Buffered, Starting, Before, Serves, TypeOK, FlagsOK, SdkOK,
             HostOK
    <2>6. Stream'
      BY <2>0, NoEntryIs DEF Stream, Response, Unanswered, Agreement, Before, Serves,
             TypeOK, FlagsOK, SdkOK, HostOK
    <2> QED BY <2>1, <2>2, <2>3, <2>4, <2>5, <2>6 DEF Control
  <1>3. CASE ReapWork
    <2> USE <1>3 DEF ReapWork, SdkIdle, flags, sdkside, works, hostside, protocol
    <2>1. Queue'
      BY Works DEF Queue, Starting, Cancelling, Reaping, Client, TypeOK, FlagsOK,
             SdkOK, HostOK
    <2>2. Client'
      BY Works DEF Client, Starting, Cancelling, Queue, Reaping, Response,
             Unanswered, TypeOK, FlagsOK, SdkOK, HostOK
    <2>3. Response'
      BY DEF Response, Unanswered, Buffered, Client, Before, Serves,
             Unsubscribing, TypeOK, FlagsOK, SdkOK, HostOK
    <2>4. Buffered'
      BY DEF Buffered, Response, Unanswered, Client, TypeOK, FlagsOK,
             SdkOK, HostOK
    <2>5. Agreement'
      BY NoEntryIs DEF Agreement, Alive, Same, Between, FirstStatus, NextStatus,
             Settling, Response, Unanswered, Stream, Client, Queue,
             Buffered, Starting, Before, Serves, TypeOK, FlagsOK, SdkOK,
             HostOK
    <2>6. Stream'
      BY NoEntryIs DEF Stream, Response, Unanswered, Agreement, Before, Serves,
             TypeOK, FlagsOK, SdkOK, HostOK
    <2> QED BY <2>1, <2>2, <2>3, <2>4, <2>5, <2>6 DEF Control
  <1>4. CASE Mark
    <2> USE <1>4 DEF Mark, flags, sdkside, works, hostside, protocol
    <2>0. \/ UNCHANGED <<done, work, refused>> /\ done
          \/ /\ done' /\ ~done /\ UNCHANGED refused
             /\ \/ work = << >> /\ work' = QReap
                \/ work = QCancel /\ work' = QCancelReap
          \/ /\ done' /\ ~done /\ refused' /\ UNCHANGED work
      BY MarkDoneIs DEF Client
    <2>1. Queue'
      BY <2>0, Works DEF Queue, Starting, Cancelling, Reaping, Client, TypeOK, FlagsOK,
             SdkOK, HostOK
    <2>2. Client'
      BY <2>0, Works DEF Client, Starting, Cancelling, Queue, Reaping, Response,
             Unanswered, TypeOK, FlagsOK, SdkOK, HostOK
    <2>3. Response'
      BY <2>0 DEF Response, Unanswered, Buffered, Client, Before, Serves,
             Unsubscribing, TypeOK, FlagsOK, SdkOK, HostOK
    <2>4. Buffered'
      BY <2>0 DEF Buffered, Response, Unanswered, Client, TypeOK, FlagsOK,
             SdkOK, HostOK
    <2>5. Agreement'
      BY <2>0, NoEntryIs DEF Agreement, Alive, Same, Between, FirstStatus, NextStatus,
             Settling, Response, Unanswered, Stream, Client, Queue,
             Buffered, Starting, Before, Serves, TypeOK, FlagsOK, SdkOK,
             HostOK
    <2>6. Stream'
      BY <2>0, NoEntryIs DEF Stream, Response, Unanswered, Agreement, Before, Serves,
             TypeOK, FlagsOK, SdkOK, HostOK
    <2> QED BY <2>1, <2>2, <2>3, <2>4, <2>5, <2>6 DEF Control
  <1>5. CASE OnConnected
    <2> USE <1>5 DEF OnConnected, SdkIdle, flags, sdkside, works, hostside, protocol
    <2>1. Queue'
      BY Works DEF Queue, Starting, Cancelling, Reaping, Client, TypeOK, FlagsOK,
             SdkOK, HostOK
    <2>2. Client'
      BY Works DEF Client, Starting, Cancelling, Queue, Reaping, Response,
             Unanswered, TypeOK, FlagsOK, SdkOK, HostOK
    <2>3. Response'
      BY DEF Response, Unanswered, Buffered, Client, Before, Serves,
             Unsubscribing, TypeOK, FlagsOK, SdkOK, HostOK
    <2>4. Buffered'
      BY DEF Buffered, Response, Unanswered, Client, TypeOK, FlagsOK,
             SdkOK, HostOK
    <2>5. Agreement'
      BY NoEntryIs DEF Agreement, Alive, Same, Between, FirstStatus, NextStatus,
             Settling, Response, Unanswered, Stream, Client, Queue,
             Buffered, Starting, Before, Serves, TypeOK, FlagsOK, SdkOK,
             HostOK
    <2>6. Stream'
      BY NoEntryIs DEF Stream, Response, Unanswered, Agreement, Before, Serves,
             TypeOK, FlagsOK, SdkOK, HostOK
    <2> QED BY <2>1, <2>2, <2>3, <2>4, <2>5, <2>6 DEF Control
  <1>6. CASE ConnectionFailed
    <2> USE <1>6 DEF ConnectionFailed, SdkIdle, PublishFailure, flags, sdkside, works, hostside, protocol
    <2>1. Queue'
      BY Works DEF Queue, Starting, Cancelling, Reaping, Client, TypeOK, FlagsOK,
             SdkOK, HostOK
    <2>2. Client'
      BY Works DEF Client, Starting, Cancelling, Queue, Reaping, Response,
             Unanswered, TypeOK, FlagsOK, SdkOK, HostOK
    <2>3. Response'
      BY DEF Response, Unanswered, Buffered, Client, Before, Serves,
             Unsubscribing, TypeOK, FlagsOK, SdkOK, HostOK
    <2>4. Buffered'
      BY DEF Buffered, Response, Unanswered, Client, TypeOK, FlagsOK,
             SdkOK, HostOK
    <2>5. Agreement'
      BY NoEntryIs DEF Agreement, Alive, Same, Between, FirstStatus, NextStatus,
             Settling, Response, Unanswered, Stream, Client, Queue,
             Buffered, Starting, Before, Serves, TypeOK, FlagsOK, SdkOK,
             HostOK
    <2>6. Stream'
      BY NoEntryIs DEF Stream, Response, Unanswered, Agreement, Before, Serves,
             TypeOK, FlagsOK, SdkOK, HostOK
    <2> QED BY <2>1, <2>2, <2>3, <2>4, <2>5, <2>6 DEF Control
  <1>7. CASE OnReportBegin
    <2> USE <1>7 DEF OnReportBegin, SdkIdle, Listening, flags, sdkside, works, hostside, protocol
    <2>0. /\ buffer' \in Buffers
          /\ buffer'.generation = buffer.generation
          /\ buffer'.established = buffer.established /\ buffer'.activated = buffer.activated
          /\ buffer'.active => buffer.active
      BY BufferTypes, BufferFields DEF TypeOK
    <2>1. Queue'
      BY <2>0, Works DEF Queue, Starting, Cancelling, Reaping, Client, TypeOK, FlagsOK,
             SdkOK, HostOK
    <2>2. Client'
      BY <2>0, Works DEF Client, Starting, Cancelling, Queue, Reaping, Response,
             Unanswered, TypeOK, FlagsOK, SdkOK, HostOK
    <2>3. Response'
      BY <2>0 DEF Response, Unanswered, Buffered, Client, Before, Serves,
             Unsubscribing, TypeOK, FlagsOK, SdkOK, HostOK
    <2>4. Buffered'
      BY <2>0 DEF Buffered, Response, Unanswered, Client, TypeOK, FlagsOK,
             SdkOK, HostOK
    <2>5. Agreement'
      BY <2>0, NoEntryIs DEF Agreement, Alive, Same, Between, FirstStatus, NextStatus,
             Settling, Response, Unanswered, Stream, Client, Queue,
             Buffered, Starting, Before, Serves, TypeOK, FlagsOK, SdkOK,
             HostOK
    <2>6. Stream'
      BY <2>0, NoEntryIs DEF Stream, Response, Unanswered, Agreement, Before, Serves,
             TypeOK, FlagsOK, SdkOK, HostOK
    <2> QED BY <2>1, <2>2, <2>3, <2>4, <2>5, <2>6 DEF Control
  <1>8. CASE OnData
    <2> USE <1>8 DEF OnData, SdkIdle, Listening, Fails, flags, sdkside, works, hostside, protocol
    <2>0. /\ buffer' \in Buffers
          /\ buffer'.generation = buffer.generation
          /\ buffer'.established = buffer.established /\ buffer'.activated = buffer.activated
          /\ buffer'.active => buffer.active
          /\ UNCHANGED <<sdk, after>> \/ (sdk' = "fail" /\ after' = "idle")
      BY OnDataIs
    <2>1. Queue'
      BY <2>0, Works DEF Queue, Starting, Cancelling, Reaping, Client, TypeOK, FlagsOK,
             SdkOK, HostOK
    <2>2. Client'
      BY <2>0, Works DEF Client, Starting, Cancelling, Queue, Reaping, Response,
             Unanswered, TypeOK, FlagsOK, SdkOK, HostOK
    <2>3. Response'
      BY <2>0 DEF Response, Unanswered, Buffered, Client, Before, Serves,
             Unsubscribing, TypeOK, FlagsOK, SdkOK, HostOK
    <2>4. Buffered'
      BY <2>0 DEF Buffered, Response, Unanswered, Client, TypeOK, FlagsOK,
             SdkOK, HostOK
    <2>5. Agreement'
      BY <2>0, NoEntryIs DEF Agreement, Alive, Same, Between, FirstStatus, NextStatus,
             Settling, Response, Unanswered, Stream, Client, Queue,
             Buffered, Starting, Before, Serves, TypeOK, FlagsOK, SdkOK,
             HostOK
    <2>6. Stream'
      BY <2>0, NoEntryIs DEF Stream, Response, Unanswered, Agreement, Before, Serves,
             TypeOK, FlagsOK, SdkOK, HostOK
    <2> QED BY <2>1, <2>2, <2>3, <2>4, <2>5, <2>6 DEF Control
  <1>9. CASE OnReportEnd
    <2> USE <1>9 DEF OnReportEnd, SdkIdle, Listening, flags, sdkside, works, hostside, protocol
    <2>0. /\ buffer' \in Buffers
          /\ buffer'.generation = buffer.generation
          /\ buffer'.established = buffer.established /\ buffer'.activated = buffer.activated
          /\ buffer'.active = buffer.active
      BY BufferTypes, BufferFields DEF TypeOK
    <2>1. Queue'
      BY <2>0, Works DEF Queue, Starting, Cancelling, Reaping, Client, TypeOK, FlagsOK,
             SdkOK, HostOK
    <2>2. Client'
      BY <2>0, Works DEF Client, Starting, Cancelling, Queue, Reaping, Response,
             Unanswered, TypeOK, FlagsOK, SdkOK, HostOK
    <2>3. Response'
      BY <2>0 DEF Response, Unanswered, Buffered, Client, Before, Serves,
             Unsubscribing, TypeOK, FlagsOK, SdkOK, HostOK
    <2>4. Buffered'
      BY <2>0 DEF Buffered, Response, Unanswered, Client, TypeOK, FlagsOK,
             SdkOK, HostOK
    <2>5. Agreement'
      BY <2>0, NoEntryIs DEF Agreement, Alive, Same, Between, FirstStatus, NextStatus,
             Settling, Response, Unanswered, Stream, Client, Queue,
             Buffered, Starting, Before, Serves, TypeOK, FlagsOK, SdkOK,
             HostOK
    <2>6. Stream'
      BY <2>0, NoEntryIs DEF Stream, Response, Unanswered, Agreement, Before, Serves,
             TypeOK, FlagsOK, SdkOK, HostOK
    <2> QED BY <2>1, <2>2, <2>3, <2>4, <2>5, <2>6 DEF Control
  <1>10. CASE EmitOne
    <2> USE <1>10 DEF EmitOne, EmitReport, EmitReportRefused, Emits, flags, sdkside, works, hostside, protocol
    <2>0. (entry' = entry /\ live' = live) \/ (entry' = NoEntry /\ live' = 0)
      OBVIOUS
    <2>1. Queue'
      BY <2>0, Works DEF Queue, Starting, Cancelling, Reaping, Client, TypeOK, FlagsOK,
             SdkOK, HostOK
    <2>2. Client'
      BY <2>0, Works DEF Client, Starting, Cancelling, Queue, Reaping, Response,
             Unanswered, TypeOK, FlagsOK, SdkOK, HostOK
    <2>3. Response'
      BY <2>0 DEF Response, Unanswered, Buffered, Client, Before, Serves,
             Unsubscribing, TypeOK, FlagsOK, SdkOK, HostOK
    <2>4. Buffered'
      BY <2>0 DEF Buffered, Response, Unanswered, Client, TypeOK, FlagsOK,
             SdkOK, HostOK
    <2>5. Agreement'
      BY <2>0, NoEntryIs DEF Agreement, Alive, Same, Between, FirstStatus, NextStatus,
             Settling, Response, Unanswered, Stream, Client, Queue,
             Buffered, Starting, Before, Serves, TypeOK, FlagsOK, SdkOK,
             HostOK
    <2>6. Stream'
      BY <2>0, NoEntryIs DEF Stream, Response, Unanswered, Agreement, Before, Serves,
             TypeOK, FlagsOK, SdkOK, HostOK
    <2> QED BY <2>1, <2>2, <2>3, <2>4, <2>5, <2>6 DEF Control
  <1>11. CASE EmitEnds
    <2> USE <1>11 DEF EmitEnds, flags, sdkside, works, hostside, protocol
    <2>1. Queue'
      BY Works DEF Queue, Starting, Cancelling, Reaping, Client, TypeOK, FlagsOK,
             SdkOK, HostOK
    <2>2. Client'
      BY Works DEF Client, Starting, Cancelling, Queue, Reaping, Response,
             Unanswered, TypeOK, FlagsOK, SdkOK, HostOK
    <2>3. Response'
      BY DEF Response, Unanswered, Buffered, Client, Before, Serves,
             Unsubscribing, TypeOK, FlagsOK, SdkOK, HostOK
    <2>4. Buffered'
      BY DEF Buffered, Response, Unanswered, Client, TypeOK, FlagsOK,
             SdkOK, HostOK
    <2>5. Agreement'
      BY NoEntryIs DEF Agreement, Alive, Same, Between, FirstStatus, NextStatus,
             Settling, Response, Unanswered, Stream, Client, Queue,
             Buffered, Starting, Before, Serves, TypeOK, FlagsOK, SdkOK,
             HostOK
    <2>6. Stream'
      BY NoEntryIs DEF Stream, Response, Unanswered, Agreement, Before, Serves,
             TypeOK, FlagsOK, SdkOK, HostOK
    <2> QED BY <2>1, <2>2, <2>3, <2>4, <2>5, <2>6 DEF Control
  <1>12. CASE FailActive
    <2> USE <1>12 DEF FailActive, flags, sdkside, works, hostside, protocol
    <2>0. /\ buffer' \in Buffers
          /\ buffer'.generation = buffer.generation
          /\ buffer'.established = buffer.established /\ buffer'.activated = buffer.activated
          /\ IF failure_emitted THEN buffer' = buffer ELSE ~buffer'.active
      <3>1. CASE failure_emitted BY <3>1 DEF TypeOK
      <3>2. CASE ~failure_emitted
        <4>1. buffer' = CancelBuffer(buffer) BY <3>2
        <4> QED BY ONLY TypeOK, <3>2, <4>1, BufferTypes, BufferFields DEF TypeOK
      <3> QED BY <3>1, <3>2
    <2>1. Queue'
      BY <2>0, Works DEF Queue, Starting, Cancelling, Reaping, Client, TypeOK, FlagsOK,
             SdkOK, HostOK
    <2>2. Client'
      BY <2>0, Works DEF Client, Starting, Cancelling, Queue, Reaping, Response,
             Unanswered, TypeOK, FlagsOK, SdkOK, HostOK
    <2>3. Response'
      BY <2>0 DEF Response, Unanswered, Buffered, Client, Before, Serves,
             Unsubscribing, TypeOK, FlagsOK, SdkOK, HostOK
    <2>4. Buffered'
      BY <2>0 DEF Buffered, Response, Unanswered, Client, TypeOK, FlagsOK,
             SdkOK, HostOK
    <2>5. Agreement'
      BY <2>0, NoEntryIs DEF Agreement, Alive, Same, Between, FirstStatus, NextStatus,
             Settling, Response, Unanswered, Stream, Client, Queue,
             Buffered, Starting, Before, Serves, TypeOK, FlagsOK, SdkOK,
             HostOK
    <2>6. Stream'
      BY <2>0, NoEntryIs DEF Stream, Response, Unanswered, Agreement, Before, Serves,
             TypeOK, FlagsOK, SdkOK, HostOK
    <2> QED BY <2>1, <2>2, <2>3, <2>4, <2>5, <2>6 DEF Control
  <1>13. CASE EmitFailure
    <2> USE <1>13 DEF EmitFailure, Emits, flags, sdkside, works, hostside, protocol
    <2>1. Queue'
      BY Works DEF Queue, Starting, Cancelling, Reaping, Client, TypeOK, FlagsOK,
             SdkOK, HostOK
    <2>2. Client'
      BY Works DEF Client, Starting, Cancelling, Queue, Reaping, Response,
             Unanswered, TypeOK, FlagsOK, SdkOK, HostOK
    <2>3. Response'
      BY DEF Response, Unanswered, Buffered, Client, Before, Serves,
             Unsubscribing, TypeOK, FlagsOK, SdkOK, HostOK
    <2>4. Buffered'
      BY DEF Buffered, Response, Unanswered, Client, TypeOK, FlagsOK,
             SdkOK, HostOK
    <2>5. Agreement'
      BY NoEntryIs DEF Agreement, Alive, Same, Between, FirstStatus, NextStatus,
             Settling, Response, Unanswered, Stream, Client, Queue,
             Buffered, Starting, Before, Serves, TypeOK, FlagsOK, SdkOK,
             HostOK
    <2>6. Stream'
      BY NoEntryIs DEF Stream, Response, Unanswered, Agreement, Before, Serves,
             TypeOK, FlagsOK, SdkOK, HostOK
    <2> QED BY <2>1, <2>2, <2>3, <2>4, <2>5, <2>6 DEF Control
  <1>14. CASE SdkCancels
    <2> USE <1>14 DEF SdkCancels, flags, sdkside, works, hostside, protocol
    <2>0. \/ /\ UNCHANGED <<cancel_scheduled, done, work, refused>>
             /\ cancel_scheduled \/ done
          \/ /\ cancel_scheduled' /\ ~cancel_scheduled /\ ~done
             /\ \/ work = << >> /\ work' = QCancel
                \/ work = QStart /\ work' = QStartCancel
             /\ UNCHANGED <<done, refused>>
          \/ /\ cancel_scheduled' /\ ~cancel_scheduled /\ ~done /\ done' /\ refused'
             /\ UNCHANGED work
      BY ScheduleCancelIs
    <2>1. Queue'
      BY <2>0, Works DEF Queue, Starting, Cancelling, Reaping, Client, TypeOK, FlagsOK,
             SdkOK, HostOK
    <2>2. Client'
      BY <2>0, Works DEF Client, Starting, Cancelling, Queue, Reaping, Response,
             Unanswered, TypeOK, FlagsOK, SdkOK, HostOK
    <2>3. Response'
      BY <2>0 DEF Response, Unanswered, Buffered, Client, Before, Serves,
             Unsubscribing, TypeOK, FlagsOK, SdkOK, HostOK
    <2>4. Buffered'
      BY <2>0 DEF Buffered, Response, Unanswered, Client, TypeOK, FlagsOK,
             SdkOK, HostOK
    <2>5. Agreement'
      BY <2>0, NoEntryIs DEF Agreement, Alive, Same, Between, FirstStatus, NextStatus,
             Settling, Response, Unanswered, Stream, Client, Queue,
             Buffered, Starting, Before, Serves, TypeOK, FlagsOK, SdkOK,
             HostOK
    <2>6. Stream'
      BY <2>0, NoEntryIs DEF Stream, Response, Unanswered, Agreement, Before, Serves,
             TypeOK, FlagsOK, SdkOK, HostOK
    <2> QED BY <2>1, <2>2, <2>3, <2>4, <2>5, <2>6 DEF Control
  <1>15. CASE EstablishedWithout
    <2> USE <1>15 DEF EstablishedWithout, SdkIdle, Fails, PublishFailure, flags, sdkside, works, hostside, protocol
    <2>1. Queue'
      BY Works DEF Queue, Starting, Cancelling, Reaping, Client, TypeOK, FlagsOK,
             SdkOK, HostOK
    <2>2. Client'
      BY Works DEF Client, Starting, Cancelling, Queue, Reaping, Response,
             Unanswered, TypeOK, FlagsOK, SdkOK, HostOK
    <2>3. Response'
      BY DEF Response, Unanswered, Buffered, Client, Before, Serves,
             Unsubscribing, TypeOK, FlagsOK, SdkOK, HostOK
    <2>4. Buffered'
      BY DEF Buffered, Response, Unanswered, Client, TypeOK, FlagsOK,
             SdkOK, HostOK
    <2>5. Agreement'
      BY NoEntryIs DEF Agreement, Alive, Same, Between, FirstStatus, NextStatus,
             Settling, Response, Unanswered, Stream, Client, Queue,
             Buffered, Starting, Before, Serves, TypeOK, FlagsOK, SdkOK,
             HostOK
    <2>6. Stream'
      BY NoEntryIs DEF Stream, Response, Unanswered, Agreement, Before, Serves,
             TypeOK, FlagsOK, SdkOK, HostOK
    <2> QED BY <2>1, <2>2, <2>3, <2>4, <2>5, <2>6 DEF Control
  <1>16. CASE EstablishRefused
    <2> USE <1>16 DEF EstablishRefused, SdkIdle, Fails, flags, sdkside, works, hostside, protocol
    <2>00. /\ buffer' \in Buffers
           /\ buffer'.generation = buffer.generation
           /\ buffer'.established = buffer.established /\ buffer'.activated = buffer.activated
           /\ ~buffer'.active
      BY BufferTypes, BufferFields DEF TypeOK
    <2>0. /\ buffer' \in Buffers
          /\ buffer'.generation = buffer.generation
          /\ buffer'.established = buffer.established /\ buffer'.activated = buffer.activated
          /\ ~buffer'.active
          /\ IF recovery.recovering
               THEN /\ sdk' = "fail" /\ after' = "idle"
                    /\ UNCHANGED <<published, cancel_scheduled, done, work, refused>>
               ELSE /\ published' /\ UNCHANGED <<sdk, after>>
                    /\ \/ /\ UNCHANGED <<cancel_scheduled, done, work, refused>>
                          /\ cancel_scheduled \/ done
                       \/ /\ cancel_scheduled' /\ ~cancel_scheduled /\ ~done
                          /\ \/ work = << >> /\ work' = QCancel
                             \/ work = QStart /\ work' = QStartCancel
                          /\ UNCHANGED <<done, refused>>
                       \/ /\ cancel_scheduled' /\ ~cancel_scheduled /\ ~done /\ done' /\ refused'
                          /\ UNCHANGED work
      BY <2>00, ScheduleCancelIs
    <2>1. Queue'
      BY <2>0, Works DEF Queue, Starting, Cancelling, Reaping, Client, TypeOK, FlagsOK,
             SdkOK, HostOK
    <2>2. Client'
      BY <2>0, Works DEF Client, Starting, Cancelling, Queue, Reaping, Response,
             Unanswered, TypeOK, FlagsOK, SdkOK, HostOK
    <2>3. Response'
      BY <2>0 DEF Response, Unanswered, Buffered, Client, Before, Serves,
             Unsubscribing, TypeOK, FlagsOK, SdkOK, HostOK
    <2>4. Buffered'
      BY <2>0 DEF Buffered, Response, Unanswered, Client, TypeOK, FlagsOK,
             SdkOK, HostOK
    <2>5. Agreement'
      BY <2>0, NoEntryIs DEF Agreement, Alive, Same, Between, FirstStatus, NextStatus,
             Settling, Response, Unanswered, Stream, Client, Queue,
             Buffered, Starting, Before, Serves, TypeOK, FlagsOK, SdkOK,
             HostOK
    <2>6. Stream'
      BY <2>0, NoEntryIs DEF Stream, Response, Unanswered, Agreement, Before, Serves,
             TypeOK, FlagsOK, SdkOK, HostOK
    <2> QED BY <2>1, <2>2, <2>3, <2>4, <2>5, <2>6 DEF Control
  <1>17. CASE Established
    <2> USE <1>17 DEF Established, SdkIdle, CanEstablish, flags, sdkside, works, hostside, protocol
    <2>0. /\ buffer' \in Buffers
          /\ buffer'.generation = buffer.generation /\ buffer'.active /\ buffer.active
          /\ buffer'.established
          /\ buffer'.activated = IF recovery.recovering THEN TRUE ELSE buffer.activated
      BY EstablishedIs
    <2>1. Queue'
      BY <2>0, Works DEF Queue, Starting, Cancelling, Reaping, Client, TypeOK, FlagsOK,
             SdkOK, HostOK
    <2>2. Client'
      BY <2>0, Works DEF Client, Starting, Cancelling, Queue, Reaping, Response,
             Unanswered, TypeOK, FlagsOK, SdkOK, HostOK
    <2>3. Response'
      BY <2>0 DEF Response, Unanswered, Buffered, Client, Before, Serves,
             Unsubscribing, TypeOK, FlagsOK, SdkOK, HostOK
    <2>4. Buffered'
      BY <2>0 DEF Buffered, Response, Unanswered, Client, TypeOK, FlagsOK,
             SdkOK, HostOK
    <2>5. Agreement'
      BY <2>0, NoEntryIs DEF Agreement, Alive, Same, Between, FirstStatus, NextStatus,
             Settling, Response, Unanswered, Stream, Client, Queue,
             Buffered, Starting, Before, Serves, TypeOK, FlagsOK, SdkOK,
             HostOK
    <2>6. Stream'
      BY <2>0, NoEntryIs DEF Stream, Response, Unanswered, Agreement, Before, Serves,
             TypeOK, FlagsOK, SdkOK, HostOK
    <2> QED BY <2>1, <2>2, <2>3, <2>4, <2>5, <2>6 DEF Control
  <1>18. CASE Publish
    <2> USE <1>18 DEF Publish, flags, sdkside, works, hostside, protocol
    <2>1. Queue'
      BY Works DEF Queue, Starting, Cancelling, Reaping, Client, TypeOK, FlagsOK,
             SdkOK, HostOK
    <2>2. Client'
      BY Works DEF Client, Starting, Cancelling, Queue, Reaping, Response,
             Unanswered, TypeOK, FlagsOK, SdkOK, HostOK
    <2>3. Response'
      BY DEF Response, Unanswered, Buffered, Client, Before, Serves,
             Unsubscribing, TypeOK, FlagsOK, SdkOK, HostOK
    <2>4. Buffered'
      BY DEF Buffered, Response, Unanswered, Client, TypeOK, FlagsOK,
             SdkOK, HostOK
    <2>5. Agreement'
      BY NoEntryIs DEF Agreement, Alive, Same, Between, FirstStatus, NextStatus,
             Settling, Response, Unanswered, Stream, Client, Queue,
             Buffered, Starting, Before, Serves, TypeOK, FlagsOK, SdkOK,
             HostOK
    <2>6. Stream'
      BY NoEntryIs DEF Stream, Response, Unanswered, Agreement, Before, Serves,
             TypeOK, FlagsOK, SdkOK, HostOK
    <2> QED BY <2>1, <2>2, <2>3, <2>4, <2>5, <2>6 DEF Control
  <1>19. CASE Announce
    <2> USE <1>19 DEF Announce, Emits, SettleAdmitted, Fails, flags, sdkside, works, hostside, protocol
    <2>0. IF SettleAdmitted(recovery.generation, recovery.attempts)
            THEN /\ entry'.generation = entry.generation /\ ~entry'.recovering
                 /\ entry'.attempt = 0 /\ live' = live /\ sdk' = "settle"
            ELSE UNCHANGED <<entry, live>> /\ sdk' = "fail"
      BY DEF TypeOK, HostOK
    <2>1. Queue'
      BY <2>0, Works DEF Queue, Starting, Cancelling, Reaping, Client, TypeOK, FlagsOK,
             SdkOK, HostOK
    <2>2. Client'
      BY <2>0, Works DEF Client, Starting, Cancelling, Queue, Reaping, Response,
             Unanswered, TypeOK, FlagsOK, SdkOK, HostOK
    <2>3. Response'
      BY <2>0 DEF Response, Unanswered, Buffered, Client, Before, Serves,
             Unsubscribing, TypeOK, FlagsOK, SdkOK, HostOK
    <2>4. Buffered'
      BY <2>0 DEF Buffered, Response, Unanswered, Client, TypeOK, FlagsOK,
             SdkOK, HostOK
    <2>5. Agreement'
      BY <2>0, NoEntryIs DEF Agreement, Alive, Same, Between, FirstStatus, NextStatus,
             Settling, Response, Unanswered, Stream, Client, Queue,
             Buffered, Starting, Before, Serves, TypeOK, FlagsOK, SdkOK,
             HostOK
    <2>6. Stream'
      BY <2>0, NoEntryIs DEF Stream, Response, Unanswered, Agreement, Before, Serves,
             TypeOK, FlagsOK, SdkOK, HostOK
    <2> QED BY <2>1, <2>2, <2>3, <2>4, <2>5, <2>6 DEF Control
  <1>20. CASE Settle
    <2> USE <1>20 DEF Settle, Settled, flags, sdkside, works, hostside, protocol
    <2>0. /\ recovery'.generation = recovery.generation /\ ~recovery'.recovering
          /\ recovery'.attempts = 0 /\ recovery'.resubscribe = recovery.resubscribe
      BY DEF TypeOK, Recoveries
    <2>1. Queue'
      BY <2>0, Works DEF Queue, Starting, Cancelling, Reaping, Client, TypeOK, FlagsOK,
             SdkOK, HostOK
    <2>2. Client'
      BY <2>0, Works DEF Client, Starting, Cancelling, Queue, Reaping, Response,
             Unanswered, TypeOK, FlagsOK, SdkOK, HostOK
    <2>3. Response'
      BY <2>0 DEF Response, Unanswered, Buffered, Client, Before, Serves,
             Unsubscribing, TypeOK, FlagsOK, SdkOK, HostOK
    <2>4. Buffered'
      BY <2>0 DEF Buffered, Response, Unanswered, Client, TypeOK, FlagsOK,
             SdkOK, HostOK
    <2>5. Agreement'
      <3>1. (done /\ Alive => ~response.ok /\ client \in {"none", "gone"})'
        BY <2>0, NoEntryIs DEF Agreement, Alive, Same, Between, FirstStatus, NextStatus,
               Settling, Response, Unanswered, Stream, Client, Queue,
               Buffered, Starting, Before, Serves, TypeOK, FlagsOK, SdkOK,
               HostOK
      <3>2. (sdk = "emitfailure" => failure_emitted)'
        BY <2>0, NoEntryIs DEF Agreement, Alive, Same, Between, FirstStatus, NextStatus,
               Settling, Response, Unanswered, Stream, Client, Queue,
               Buffered, Starting, Before, Serves, TypeOK, FlagsOK, SdkOK,
               HostOK
      <3>3. (sdk = "mark" /\ Alive => ~response.ok)'
        BY <2>0, NoEntryIs DEF Agreement, Alive, Same, Between, FirstStatus, NextStatus,
               Settling, Response, Unanswered, Stream, Client, Queue,
               Buffered, Starting, Before, Serves, TypeOK, FlagsOK, SdkOK,
               HostOK
      <3>4. (Alive /\ response.ok /\ sdk \in {"idle", "emit", "status", "announce", "settle"} =>
             buffer.generation = recovery.generation)'
        BY <2>0, NoEntryIs DEF Agreement, Alive, Same, Between, FirstStatus, NextStatus,
               Settling, Response, Unanswered, Stream, Client, Queue,
               Buffered, Starting, Before, Serves, TypeOK, FlagsOK, SdkOK,
               HostOK
      <3>5. (Alive /\ response.ok /\ sdk \in {"idle", "emit"} => Between)'
        BY <2>0, NoEntryIs DEF Agreement, Alive, Same, Between, FirstStatus, NextStatus,
               Settling, Response, Unanswered, Stream, Client, Queue,
               Buffered, Starting, Before, Serves, TypeOK, FlagsOK, SdkOK,
               HostOK
      <3>6. (Alive /\ response.ok /\ sdk = "status" =>
             IF recovery.attempts = 1 THEN FirstStatus ELSE NextStatus)'
        BY <2>0, NoEntryIs DEF Agreement, Alive, Same, Between, FirstStatus, NextStatus,
               Settling, Response, Unanswered, Stream, Client, Queue,
               Buffered, Starting, Before, Serves, TypeOK, FlagsOK, SdkOK,
               HostOK
      <3>7. (Alive /\ response.ok /\ sdk = "announce" => Between)'
        BY <2>0, NoEntryIs DEF Agreement, Alive, Same, Between, FirstStatus, NextStatus,
               Settling, Response, Unanswered, Stream, Client, Queue,
               Buffered, Starting, Before, Serves, TypeOK, FlagsOK, SdkOK,
               HostOK
      <3>8. (Alive /\ response.ok /\ sdk = "settle" => Settling)'
        BY <2>0, NoEntryIs DEF Agreement, Alive, Same, Between, FirstStatus, NextStatus,
               Settling, Response, Unanswered, Stream, Client, Queue,
               Buffered, Starting, Before, Serves, TypeOK, FlagsOK, SdkOK,
               HostOK
      <3>9. (cancel_ok => done)' /\ (host = "erase" => done)'
        BY <2>0, NoEntryIs DEF Agreement, Alive, Same, Between, FirstStatus, NextStatus,
               Settling, Response, Unanswered, Stream, Client, Queue,
               Buffered, Starting, Before, Serves, TypeOK, FlagsOK, SdkOK,
               HostOK
      <3> QED BY <3>1, <3>2, <3>3, <3>4, <3>5, <3>6, <3>7, <3>8, <3>9 DEF Agreement
    <2>6. Stream'
      BY <2>0, NoEntryIs DEF Stream, Response, Unanswered, Agreement, Before, Serves,
             TypeOK, FlagsOK, SdkOK, HostOK
    <2> QED BY <2>1, <2>2, <2>3, <2>4, <2>5, <2>6 DEF Control
  <1>21. CASE Lost
    <2> USE <1>21 DEF Lost, SdkIdle, Listening, Fails, flags, sdkside, works, hostside, protocol
    <2>1. Queue'
      BY Works DEF Queue, Starting, Cancelling, Reaping, Client, TypeOK, FlagsOK,
             SdkOK, HostOK
    <2>2. Client'
      BY Works DEF Client, Starting, Cancelling, Queue, Reaping, Response,
             Unanswered, TypeOK, FlagsOK, SdkOK, HostOK
    <2>3. Response'
      BY DEF Response, Unanswered, Buffered, Client, Before, Serves,
             Unsubscribing, TypeOK, FlagsOK, SdkOK, HostOK
    <2>4. Buffered'
      BY DEF Buffered, Response, Unanswered, Client, TypeOK, FlagsOK,
             SdkOK, HostOK
    <2>5. Agreement'
      BY NoEntryIs DEF Agreement, Alive, Same, Between, FirstStatus, NextStatus,
             Settling, Response, Unanswered, Stream, Client, Queue,
             Buffered, Starting, Before, Serves, TypeOK, FlagsOK, SdkOK,
             HostOK
    <2>6. Stream'
      BY NoEntryIs DEF Stream, Response, Unanswered, Agreement, Before, Serves,
             TypeOK, FlagsOK, SdkOK, HostOK
    <2> QED BY <2>1, <2>2, <2>3, <2>4, <2>5, <2>6 DEF Control
  <1>22. CASE OnResubscriptionNeeded
    <2> USE <1>22 DEF OnResubscriptionNeeded, SdkIdle, Listening, Fails, Recovering, Attempted, CanPrepare, flags, sdkside, works, hostside, protocol
    <2>0. /\ buffer' \in Buffers /\ recovery' \in Recoveries
          /\ recovery'.recovering /\ recovery'.attempts # 0
          /\ \/ /\ ~recovery.recovering /\ recovery.attempts = 0
                /\ recovery'.generation = recovery.generation + 1 /\ recovery'.attempts = 1
                /\ sdk' = "status" /\ UNCHANGED after
                /\ buffer.active /\ buffer'.active /\ ~buffer'.established /\ ~buffer'.activated
                /\ buffer'.generation = recovery'.generation
                /\ buffer.generation = recovery.generation
             \/ /\ recovery.recovering /\ recovery'.generation = recovery.generation
                /\ recovery'.attempts = recovery.attempts + 1 /\ UNCHANGED buffer
                /\ sdk' = "status" /\ UNCHANGED after
             \/ /\ ~recovery.recovering /\ recovery'.generation = recovery.generation + 1
                /\ ~buffer'.active /\ buffer'.generation = buffer.generation
                /\ buffer'.established = buffer.established
                /\ buffer'.activated = buffer.activated
                /\ sdk' = "fail" /\ after' = "ondone"
             \/ /\ recovery.recovering /\ UNCHANGED <<recovery, buffer>>
                /\ sdk' = "fail" /\ after' = "ondone"
      BY NeededIs
    <2>1. Queue'
      BY <2>0, Works DEF Queue, Starting, Cancelling, Reaping, Client, TypeOK, FlagsOK,
             SdkOK, HostOK
    <2>2. Client'
      BY <2>0, Works DEF Client, Starting, Cancelling, Queue, Reaping, Response,
             Unanswered, TypeOK, FlagsOK, SdkOK, HostOK
    <2>3. Response'
      BY <2>0 DEF Response, Unanswered, Buffered, Client, Before, Serves,
             Unsubscribing, TypeOK, FlagsOK, SdkOK, HostOK
    <2>4. Buffered'
      BY <2>0 DEF Buffered, Response, Unanswered, Client, TypeOK, FlagsOK,
             SdkOK, HostOK
    <2>5. Agreement'
      <3>1. (done /\ Alive => ~response.ok /\ client \in {"none", "gone"})'
        BY <2>0, NoEntryIs DEF Agreement, Alive, Same, Between, FirstStatus, NextStatus,
               Settling, Response, Unanswered, Stream, Client, Queue,
               Buffered, Starting, Before, Serves, TypeOK, FlagsOK, SdkOK,
               HostOK
      <3>2. (sdk = "emitfailure" => failure_emitted)'
        BY <2>0, NoEntryIs DEF Agreement, Alive, Same, Between, FirstStatus, NextStatus,
               Settling, Response, Unanswered, Stream, Client, Queue,
               Buffered, Starting, Before, Serves, TypeOK, FlagsOK, SdkOK,
               HostOK
      <3>3. (sdk = "mark" /\ Alive => ~response.ok)'
        BY <2>0, NoEntryIs DEF Agreement, Alive, Same, Between, FirstStatus, NextStatus,
               Settling, Response, Unanswered, Stream, Client, Queue,
               Buffered, Starting, Before, Serves, TypeOK, FlagsOK, SdkOK,
               HostOK
      <3>4. (Alive /\ response.ok /\ sdk \in {"idle", "emit", "status", "announce", "settle"} =>
             buffer.generation = recovery.generation)'
        BY <2>0, NoEntryIs DEF Agreement, Alive, Same, Between, FirstStatus, NextStatus,
               Settling, Response, Unanswered, Stream, Client, Queue,
               Buffered, Starting, Before, Serves, TypeOK, FlagsOK, SdkOK,
               HostOK
      <3>5. (Alive /\ response.ok /\ sdk \in {"idle", "emit"} => Between)'
        BY <2>0, NoEntryIs DEF Agreement, Alive, Same, Between, FirstStatus, NextStatus,
               Settling, Response, Unanswered, Stream, Client, Queue,
               Buffered, Starting, Before, Serves, TypeOK, FlagsOK, SdkOK,
               HostOK
      <3>6. (Alive /\ response.ok /\ sdk = "status" =>
             IF recovery.attempts = 1 THEN FirstStatus ELSE NextStatus)'
        BY <2>0, NoEntryIs DEF Agreement, Alive, Same, Between, FirstStatus, NextStatus,
               Settling, Response, Unanswered, Stream, Client, Queue,
               Buffered, Starting, Before, Serves, TypeOK, FlagsOK, SdkOK,
               HostOK
      <3>7. (Alive /\ response.ok /\ sdk = "announce" => Between)'
        BY <2>0, NoEntryIs DEF Agreement, Alive, Same, Between, FirstStatus, NextStatus,
               Settling, Response, Unanswered, Stream, Client, Queue,
               Buffered, Starting, Before, Serves, TypeOK, FlagsOK, SdkOK,
               HostOK
      <3>8. (Alive /\ response.ok /\ sdk = "settle" => Settling)'
        BY <2>0, NoEntryIs DEF Agreement, Alive, Same, Between, FirstStatus, NextStatus,
               Settling, Response, Unanswered, Stream, Client, Queue,
               Buffered, Starting, Before, Serves, TypeOK, FlagsOK, SdkOK,
               HostOK
      <3>9. (cancel_ok => done)' /\ (host = "erase" => done)'
        BY <2>0, NoEntryIs DEF Agreement, Alive, Same, Between, FirstStatus, NextStatus,
               Settling, Response, Unanswered, Stream, Client, Queue,
               Buffered, Starting, Before, Serves, TypeOK, FlagsOK, SdkOK,
               HostOK
      <3> QED BY <3>1, <3>2, <3>3, <3>4, <3>5, <3>6, <3>7, <3>8, <3>9 DEF Agreement
    <2>6. Stream'
      BY <2>0, NoEntryIs DEF Stream, Response, Unanswered, Agreement, Before, Serves,
             TypeOK, FlagsOK, SdkOK, HostOK
    <2> QED BY <2>1, <2>2, <2>3, <2>4, <2>5, <2>6 DEF Control
  <1>23. CASE Resubscribing
    <2> USE <1>23 DEF Resubscribing, Emits, EmitResubscribing, ResubscribingRefused, StatusAdmitted, Fails, flags, sdkside, works, hostside, protocol
    <2>0. \/ /\ StatusAdmitted(recovery.generation, recovery.attempts)
             /\ entry.recovering \/ live = entry.generation
             /\ entry'.generation = recovery.generation /\ entry'.recovering
             /\ entry'.attempt = recovery.attempts
             /\ live' = IF entry.recovering THEN live ELSE recovery.generation
             /\ client' = "priming" /\ sdk' = "idle" /\ UNCHANGED <<healthy, after>>
          \/ /\ sdk' = "fail" /\ after' = "ondone" /\ UNCHANGED <<client, entry, live>>
      BY DEF TypeOK, HostOK
    <2>1. Queue'
      BY <2>0, Works DEF Queue, Starting, Cancelling, Reaping, Client, TypeOK, FlagsOK,
             SdkOK, HostOK
    <2>2. Client'
      BY <2>0, Works DEF Client, Starting, Cancelling, Queue, Reaping, Response,
             Unanswered, TypeOK, FlagsOK, SdkOK, HostOK
    <2>3. Response'
      BY <2>0 DEF Response, Unanswered, Buffered, Client, Before, Serves,
             Unsubscribing, TypeOK, FlagsOK, SdkOK, HostOK
    <2>4. Buffered'
      BY <2>0 DEF Buffered, Response, Unanswered, Client, TypeOK, FlagsOK,
             SdkOK, HostOK
    <2>5. Agreement'
      BY ZenonT(30), <2>0, NoEntryIs DEF Agreement, Alive, Same, Between, FirstStatus, NextStatus,
             Settling, Response, Unanswered, Stream, Client, Queue,
             Buffered, Starting, Before, Serves, TypeOK, FlagsOK, SdkOK,
             HostOK
    <2>6. Stream'
      BY ZenonT(30), <2>0, NoEntryIs DEF Stream, Response, Unanswered, Agreement, Before, Serves,
             TypeOK, FlagsOK, SdkOK, HostOK
    <2> QED BY <2>1, <2>2, <2>3, <2>4, <2>5, <2>6 DEF Control
  <1>24. CASE TimerRefused
    <2> USE <1>24 DEF TimerRefused, Fails, flags, sdkside, works, hostside, protocol
    <2>1. Queue'
      BY Works DEF Queue, Starting, Cancelling, Reaping, Client, TypeOK, FlagsOK,
             SdkOK, HostOK
    <2>2. Client'
      BY Works DEF Client, Starting, Cancelling, Queue, Reaping, Response,
             Unanswered, TypeOK, FlagsOK, SdkOK, HostOK
    <2>3. Response'
      BY DEF Response, Unanswered, Buffered, Client, Before, Serves,
             Unsubscribing, TypeOK, FlagsOK, SdkOK, HostOK
    <2>4. Buffered'
      BY DEF Buffered, Response, Unanswered, Client, TypeOK, FlagsOK,
             SdkOK, HostOK
    <2>5. Agreement'
      BY NoEntryIs DEF Agreement, Alive, Same, Between, FirstStatus, NextStatus,
             Settling, Response, Unanswered, Stream, Client, Queue,
             Buffered, Starting, Before, Serves, TypeOK, FlagsOK, SdkOK,
             HostOK
    <2>6. Stream'
      BY NoEntryIs DEF Stream, Response, Unanswered, Agreement, Before, Serves,
             TypeOK, FlagsOK, SdkOK, HostOK
    <2> QED BY <2>1, <2>2, <2>3, <2>4, <2>5, <2>6 DEF Control
  <1>25. CASE RecoveryDeadline
    <2> USE <1>25 DEF RecoveryDeadline, SdkIdle, Fails, flags, sdkside, works, hostside, protocol
    <2>1. Queue'
      BY Works DEF Queue, Starting, Cancelling, Reaping, Client, TypeOK, FlagsOK,
             SdkOK, HostOK
    <2>2. Client'
      BY Works DEF Client, Starting, Cancelling, Queue, Reaping, Response,
             Unanswered, TypeOK, FlagsOK, SdkOK, HostOK
    <2>3. Response'
      BY DEF Response, Unanswered, Buffered, Client, Before, Serves,
             Unsubscribing, TypeOK, FlagsOK, SdkOK, HostOK
    <2>4. Buffered'
      BY DEF Buffered, Response, Unanswered, Client, TypeOK, FlagsOK,
             SdkOK, HostOK
    <2>5. Agreement'
      BY NoEntryIs DEF Agreement, Alive, Same, Between, FirstStatus, NextStatus,
             Settling, Response, Unanswered, Stream, Client, Queue,
             Buffered, Starting, Before, Serves, TypeOK, FlagsOK, SdkOK,
             HostOK
    <2>6. Stream'
      BY NoEntryIs DEF Stream, Response, Unanswered, Agreement, Before, Serves,
             TypeOK, FlagsOK, SdkOK, HostOK
    <2> QED BY <2>1, <2>2, <2>3, <2>4, <2>5, <2>6 DEF Control
  <1>26. CASE Closes
    <2> USE <1>26 DEF Closes, SdkIdle, Listening, flags, sdkside, works, hostside, protocol
    <2>1. Queue'
      BY Works DEF Queue, Starting, Cancelling, Reaping, Client, TypeOK, FlagsOK,
             SdkOK, HostOK
    <2>2. Client'
      BY Works DEF Client, Starting, Cancelling, Queue, Reaping, Response,
             Unanswered, TypeOK, FlagsOK, SdkOK, HostOK
    <2>3. Response'
      BY DEF Response, Unanswered, Buffered, Client, Before, Serves,
             Unsubscribing, TypeOK, FlagsOK, SdkOK, HostOK
    <2>4. Buffered'
      BY DEF Buffered, Response, Unanswered, Client, TypeOK, FlagsOK,
             SdkOK, HostOK
    <2>5. Agreement'
      BY NoEntryIs DEF Agreement, Alive, Same, Between, FirstStatus, NextStatus,
             Settling, Response, Unanswered, Stream, Client, Queue,
             Buffered, Starting, Before, Serves, TypeOK, FlagsOK, SdkOK,
             HostOK
    <2>6. Stream'
      BY NoEntryIs DEF Stream, Response, Unanswered, Agreement, Before, Serves,
             TypeOK, FlagsOK, SdkOK, HostOK
    <2> QED BY <2>1, <2>2, <2>3, <2>4, <2>5, <2>6 DEF Control
  <1>27. CASE OnDone
    <2> USE <1>27 DEF OnDone, Fails, flags, sdkside, works, hostside, protocol
    <2>1. Queue'
      BY Works DEF Queue, Starting, Cancelling, Reaping, Client, TypeOK, FlagsOK,
             SdkOK, HostOK
    <2>2. Client'
      BY Works DEF Client, Starting, Cancelling, Queue, Reaping, Response,
             Unanswered, TypeOK, FlagsOK, SdkOK, HostOK
    <2>3. Response'
      BY DEF Response, Unanswered, Buffered, Client, Before, Serves,
             Unsubscribing, TypeOK, FlagsOK, SdkOK, HostOK
    <2>4. Buffered'
      BY DEF Buffered, Response, Unanswered, Client, TypeOK, FlagsOK,
             SdkOK, HostOK
    <2>5. Agreement'
      BY NoEntryIs DEF Agreement, Alive, Same, Between, FirstStatus, NextStatus,
             Settling, Response, Unanswered, Stream, Client, Queue,
             Buffered, Starting, Before, Serves, TypeOK, FlagsOK, SdkOK,
             HostOK
    <2>6. Stream'
      BY NoEntryIs DEF Stream, Response, Unanswered, Agreement, Before, Serves,
             TypeOK, FlagsOK, SdkOK, HostOK
    <2> QED BY <2>1, <2>2, <2>3, <2>4, <2>5, <2>6 DEF Control
  <1> QED BY <1>1, <1>2, <1>3, <1>4, <1>5, <1>6, <1>7, <1>8, <1>9, <1>10,
         <1>11, <1>12, <1>13, <1>14, <1>15, <1>16, <1>17, <1>18, <1>19,
         <1>20, <1>21, <1>22, <1>23, <1>24, <1>25, <1>26, <1>27

\* Every section of the host thread keeps the control.
LEMMA HostControl ==
  ASSUME TypeOK, Control,
         Submit \/ WaitReturns \/ WaitTimesOut \/ Expired \/ AnswerFailure \/
         AddStream \/ AddStreamRefused \/ Reply \/ FindForActivation \/
         Activate \/ ActivateEmits \/ Activated \/ FindForCancel \/
         HostCancels \/ CancelWaitEnds \/ CancelAnswered \/ CancelRetires \/
         CancelErases
  PROVE  Control'
  <1> USE DEF Control, Running, HostAt
  <1>1. CASE Submit
    <2> USE <1>1 DEF Submit, PublishFailure, flags, sdkside, works, hostside, protocol
    <2>0. \/ work' = QStart /\ UNCHANGED <<published, done, refused>>
          \/ /\ published' /\ done' /\ ~done /\ UNCHANGED <<response, refused>> /\ work' = QReap
          \/ /\ published' /\ done' /\ ~done /\ refused' /\ UNCHANGED <<response, work>>
      BY MarkDoneIs, Works DEF Client, Starting
    <2>1. Queue'
      BY <2>0, Works DEF Queue, Starting, Cancelling, Reaping, Client, TypeOK, FlagsOK,
             SdkOK, HostOK
    <2>2. Client'
      BY <2>0, Works DEF Client, Starting, Cancelling, Queue, Reaping, Response,
             Unanswered, TypeOK, FlagsOK, SdkOK, HostOK
    <2>3. Response'
      BY <2>0 DEF Response, Unanswered, Buffered, Client, Before, Serves,
             Unsubscribing, TypeOK, FlagsOK, SdkOK, HostOK
    <2>4. Buffered'
      BY <2>0 DEF Buffered, Response, Unanswered, Client, TypeOK, FlagsOK,
             SdkOK, HostOK
    <2>5. Agreement'
      BY <2>0, NoEntryIs DEF Agreement, Alive, Same, Between, FirstStatus, NextStatus,
             Settling, Response, Unanswered, Stream, Client, Queue,
             Buffered, Starting, Before, Serves, TypeOK, FlagsOK, SdkOK,
             HostOK
    <2>6. Stream'
      BY <2>0, NoEntryIs DEF Stream, Response, Unanswered, Agreement, Before, Serves,
             TypeOK, FlagsOK, SdkOK, HostOK
    <2> QED BY <2>1, <2>2, <2>3, <2>4, <2>5, <2>6 DEF Control
  <1>2. CASE WaitReturns
    <2> USE <1>2 DEF WaitReturns, flags, sdkside, works, hostside, protocol
    <2>1. Queue'
      BY Works DEF Queue, Starting, Cancelling, Reaping, Client, TypeOK, FlagsOK,
             SdkOK, HostOK
    <2>2. Client'
      BY Works DEF Client, Starting, Cancelling, Queue, Reaping, Response,
             Unanswered, TypeOK, FlagsOK, SdkOK, HostOK
    <2>3. Response'
      BY DEF Response, Unanswered, Buffered, Client, Before, Serves,
             Unsubscribing, TypeOK, FlagsOK, SdkOK, HostOK
    <2>4. Buffered'
      BY DEF Buffered, Response, Unanswered, Client, TypeOK, FlagsOK,
             SdkOK, HostOK
    <2>5. Agreement'
      BY NoEntryIs DEF Agreement, Alive, Same, Between, FirstStatus, NextStatus,
             Settling, Response, Unanswered, Stream, Client, Queue,
             Buffered, Starting, Before, Serves, TypeOK, FlagsOK, SdkOK,
             HostOK
    <2>6. Stream'
      BY NoEntryIs DEF Stream, Response, Unanswered, Agreement, Before, Serves,
             TypeOK, FlagsOK, SdkOK, HostOK
    <2> QED BY <2>1, <2>2, <2>3, <2>4, <2>5, <2>6 DEF Control
  <1>3. CASE WaitTimesOut
    <2> USE <1>3 DEF WaitTimesOut, flags, sdkside, works, hostside, protocol
    <2>1. Queue'
      BY Works DEF Queue, Starting, Cancelling, Reaping, Client, TypeOK, FlagsOK,
             SdkOK, HostOK
    <2>2. Client'
      BY Works DEF Client, Starting, Cancelling, Queue, Reaping, Response,
             Unanswered, TypeOK, FlagsOK, SdkOK, HostOK
    <2>3. Response'
      BY DEF Response, Unanswered, Buffered, Client, Before, Serves,
             Unsubscribing, TypeOK, FlagsOK, SdkOK, HostOK
    <2>4. Buffered'
      BY DEF Buffered, Response, Unanswered, Client, TypeOK, FlagsOK,
             SdkOK, HostOK
    <2>5. Agreement'
      BY NoEntryIs DEF Agreement, Alive, Same, Between, FirstStatus, NextStatus,
             Settling, Response, Unanswered, Stream, Client, Queue,
             Buffered, Starting, Before, Serves, TypeOK, FlagsOK, SdkOK,
             HostOK
    <2>6. Stream'
      BY NoEntryIs DEF Stream, Response, Unanswered, Agreement, Before, Serves,
             TypeOK, FlagsOK, SdkOK, HostOK
    <2> QED BY <2>1, <2>2, <2>3, <2>4, <2>5, <2>6 DEF Control
  <1>4. CASE Expired
    <2> USE <1>4 DEF Expired, flags, sdkside, works, hostside, protocol
    <2>0. \/ /\ UNCHANGED <<cancel_scheduled, done, work, refused>>
             /\ cancel_scheduled \/ done
          \/ /\ cancel_scheduled' /\ ~cancel_scheduled /\ ~done
             /\ \/ work = << >> /\ work' = QCancel
                \/ work = QStart /\ work' = QStartCancel
             /\ UNCHANGED <<done, refused>>
          \/ /\ cancel_scheduled' /\ ~cancel_scheduled /\ ~done /\ done' /\ refused'
             /\ UNCHANGED work
      BY ScheduleCancelIs
    <2>1. Queue'
      BY <2>0, Works DEF Queue, Starting, Cancelling, Reaping, Client, TypeOK, FlagsOK,
             SdkOK, HostOK
    <2>2. Client'
      BY <2>0, Works DEF Client, Starting, Cancelling, Queue, Reaping, Response,
             Unanswered, TypeOK, FlagsOK, SdkOK, HostOK
    <2>3. Response'
      BY <2>0 DEF Response, Unanswered, Buffered, Client, Before, Serves,
             Unsubscribing, TypeOK, FlagsOK, SdkOK, HostOK
    <2>4. Buffered'
      BY <2>0 DEF Buffered, Response, Unanswered, Client, TypeOK, FlagsOK,
             SdkOK, HostOK
    <2>5. Agreement'
      BY <2>0, NoEntryIs DEF Agreement, Alive, Same, Between, FirstStatus, NextStatus,
             Settling, Response, Unanswered, Stream, Client, Queue,
             Buffered, Starting, Before, Serves, TypeOK, FlagsOK, SdkOK,
             HostOK
    <2>6. Stream'
      BY <2>0, NoEntryIs DEF Stream, Response, Unanswered, Agreement, Before, Serves,
             TypeOK, FlagsOK, SdkOK, HostOK
    <2> QED BY <2>1, <2>2, <2>3, <2>4, <2>5, <2>6 DEF Control
  <1>5. CASE AnswerFailure
    <2> USE <1>5 DEF AnswerFailure, flags, sdkside, works, hostside, protocol
    <2>1. Queue'
      BY Works DEF Queue, Starting, Cancelling, Reaping, Client, TypeOK, FlagsOK,
             SdkOK, HostOK
    <2>2. Client'
      BY Works DEF Client, Starting, Cancelling, Queue, Reaping, Response,
             Unanswered, TypeOK, FlagsOK, SdkOK, HostOK
    <2>3. Response'
      BY DEF Response, Unanswered, Buffered, Client, Before, Serves,
             Unsubscribing, TypeOK, FlagsOK, SdkOK, HostOK
    <2>4. Buffered'
      BY DEF Buffered, Response, Unanswered, Client, TypeOK, FlagsOK,
             SdkOK, HostOK
    <2>5. Agreement'
      BY NoEntryIs DEF Agreement, Alive, Same, Between, FirstStatus, NextStatus,
             Settling, Response, Unanswered, Stream, Client, Queue,
             Buffered, Starting, Before, Serves, TypeOK, FlagsOK, SdkOK,
             HostOK
    <2>6. Stream'
      BY NoEntryIs DEF Stream, Response, Unanswered, Agreement, Before, Serves,
             TypeOK, FlagsOK, SdkOK, HostOK
    <2> QED BY <2>1, <2>2, <2>3, <2>4, <2>5, <2>6 DEF Control
  <1>6. CASE AddStream
    <2> USE <1>6 DEF AddStream, flags, sdkside, works, hostside, protocol
    <2>0. /\ entry'.generation = result.generation /\ ~entry'.recovering
          /\ entry'.attempt = 0 /\ live' = result.generation /\ host' = "reply"
      OBVIOUS
    <2>1. Queue'
      BY <2>0, Works DEF Queue, Starting, Cancelling, Reaping, Client, TypeOK, FlagsOK,
             SdkOK, HostOK
    <2>2. Client'
      BY <2>0, Works DEF Client, Starting, Cancelling, Queue, Reaping, Response,
             Unanswered, TypeOK, FlagsOK, SdkOK, HostOK
    <2>3. Response'
      BY <2>0 DEF Response, Unanswered, Buffered, Client, Before, Serves,
             Unsubscribing, TypeOK, FlagsOK, SdkOK, HostOK
    <2>4. Buffered'
      BY <2>0 DEF Buffered, Response, Unanswered, Client, TypeOK, FlagsOK,
             SdkOK, HostOK
    <2>5. Agreement'
      <3>1. (done /\ Alive => ~response.ok /\ client \in {"none", "gone"})'
        BY <2>0, NoEntryIs DEF Agreement, Alive, Same, Between, FirstStatus, NextStatus,
               Settling, Response, Unanswered, Stream, Client, Queue,
               Buffered, Starting, Before, Serves, TypeOK, FlagsOK, SdkOK,
               HostOK
      <3>2. (sdk = "emitfailure" => failure_emitted)'
        BY <2>0, NoEntryIs DEF Agreement, Alive, Same, Between, FirstStatus, NextStatus,
               Settling, Response, Unanswered, Stream, Client, Queue,
               Buffered, Starting, Before, Serves, TypeOK, FlagsOK, SdkOK,
               HostOK
      <3>3. (sdk = "mark" /\ Alive => ~response.ok)'
        BY <2>0, NoEntryIs DEF Agreement, Alive, Same, Between, FirstStatus, NextStatus,
               Settling, Response, Unanswered, Stream, Client, Queue,
               Buffered, Starting, Before, Serves, TypeOK, FlagsOK, SdkOK,
               HostOK
      <3>4. (Alive /\ response.ok /\ sdk \in {"idle", "emit", "status", "announce", "settle"} =>
             buffer.generation = recovery.generation)'
        BY <2>0, NoEntryIs DEF Agreement, Alive, Same, Between, FirstStatus, NextStatus,
               Settling, Response, Unanswered, Stream, Client, Queue,
               Buffered, Starting, Before, Serves, TypeOK, FlagsOK, SdkOK,
               HostOK
      <3>5. (Alive /\ response.ok /\ sdk \in {"idle", "emit"} => Between)'
        BY <2>0, NoEntryIs DEF Agreement, Alive, Same, Between, FirstStatus, NextStatus,
               Settling, Response, Unanswered, Stream, Client, Queue,
               Buffered, Starting, Before, Serves, TypeOK, FlagsOK, SdkOK,
               HostOK
      <3>6. (Alive /\ response.ok /\ sdk = "status" =>
             IF recovery.attempts = 1 THEN FirstStatus ELSE NextStatus)'
        BY <2>0, NoEntryIs DEF Agreement, Alive, Same, Between, FirstStatus, NextStatus,
               Settling, Response, Unanswered, Stream, Client, Queue,
               Buffered, Starting, Before, Serves, TypeOK, FlagsOK, SdkOK,
               HostOK
      <3>7. (Alive /\ response.ok /\ sdk = "announce" => Between)'
        BY <2>0, NoEntryIs DEF Agreement, Alive, Same, Between, FirstStatus, NextStatus,
               Settling, Response, Unanswered, Stream, Client, Queue,
               Buffered, Starting, Before, Serves, TypeOK, FlagsOK, SdkOK,
               HostOK
      <3>8. (Alive /\ response.ok /\ sdk = "settle" => Settling)'
        BY <2>0, NoEntryIs DEF Agreement, Alive, Same, Between, FirstStatus, NextStatus,
               Settling, Response, Unanswered, Stream, Client, Queue,
               Buffered, Starting, Before, Serves, TypeOK, FlagsOK, SdkOK,
               HostOK
      <3>9. (cancel_ok => done)' /\ (host = "erase" => done)'
        BY <2>0, NoEntryIs DEF Agreement, Alive, Same, Between, FirstStatus, NextStatus,
               Settling, Response, Unanswered, Stream, Client, Queue,
               Buffered, Starting, Before, Serves, TypeOK, FlagsOK, SdkOK,
               HostOK
      <3> QED BY <3>1, <3>2, <3>3, <3>4, <3>5, <3>6, <3>7, <3>8, <3>9 DEF Agreement
    <2>6. Stream'
      BY <2>0, NoEntryIs DEF Stream, Response, Unanswered, Agreement, Before, Serves,
             TypeOK, FlagsOK, SdkOK, HostOK
    <2> QED BY <2>1, <2>2, <2>3, <2>4, <2>5, <2>6 DEF Control
  <1>7. CASE AddStreamRefused
    <2> USE <1>7 DEF AddStreamRefused, Found, flags, sdkside, works, hostside, protocol
    <2>0. \/ UNCHANGED <<cancel_scheduled, done, work, refused>>
          \/ /\ cancel_scheduled' /\ ~cancel_scheduled /\ ~done
             /\ \/ work = << >> /\ work' = QCancel
                \/ work = QStart /\ work' = QStartCancel
             /\ UNCHANGED <<done, refused>>
          \/ /\ cancel_scheduled' /\ ~cancel_scheduled /\ ~done /\ done' /\ refused'
             /\ UNCHANGED work
      BY ScheduleCancelIs
    <2>1. Queue'
      BY <2>0, Works DEF Queue, Starting, Cancelling, Reaping, Client, TypeOK, FlagsOK,
             SdkOK, HostOK
    <2>2. Client'
      BY <2>0, Works DEF Client, Starting, Cancelling, Queue, Reaping, Response,
             Unanswered, TypeOK, FlagsOK, SdkOK, HostOK
    <2>3. Response'
      BY <2>0 DEF Response, Unanswered, Buffered, Client, Before, Serves,
             Unsubscribing, TypeOK, FlagsOK, SdkOK, HostOK
    <2>4. Buffered'
      BY <2>0 DEF Buffered, Response, Unanswered, Client, TypeOK, FlagsOK,
             SdkOK, HostOK
    <2>5. Agreement'
      BY <2>0, NoEntryIs DEF Agreement, Alive, Same, Between, FirstStatus, NextStatus,
             Settling, Response, Unanswered, Stream, Client, Queue,
             Buffered, Starting, Before, Serves, TypeOK, FlagsOK, SdkOK,
             HostOK
    <2>6. Stream'
      BY <2>0, NoEntryIs DEF Stream, Response, Unanswered, Agreement, Before, Serves,
             TypeOK, FlagsOK, SdkOK, HostOK
    <2> QED BY <2>1, <2>2, <2>3, <2>4, <2>5, <2>6 DEF Control
  <1>8. CASE Reply
    <2> USE <1>8 DEF Reply, flags, sdkside, works, hostside, protocol
    <2>1. Queue'
      BY Works DEF Queue, Starting, Cancelling, Reaping, Client, TypeOK, FlagsOK,
             SdkOK, HostOK
    <2>2. Client'
      BY Works DEF Client, Starting, Cancelling, Queue, Reaping, Response,
             Unanswered, TypeOK, FlagsOK, SdkOK, HostOK
    <2>3. Response'
      BY DEF Response, Unanswered, Buffered, Client, Before, Serves,
             Unsubscribing, TypeOK, FlagsOK, SdkOK, HostOK
    <2>4. Buffered'
      BY DEF Buffered, Response, Unanswered, Client, TypeOK, FlagsOK,
             SdkOK, HostOK
    <2>5. Agreement'
      BY NoEntryIs DEF Agreement, Alive, Same, Between, FirstStatus, NextStatus,
             Settling, Response, Unanswered, Stream, Client, Queue,
             Buffered, Starting, Before, Serves, TypeOK, FlagsOK, SdkOK,
             HostOK
    <2>6. Stream'
      BY NoEntryIs DEF Stream, Response, Unanswered, Agreement, Before, Serves,
             TypeOK, FlagsOK, SdkOK, HostOK
    <2> QED BY <2>1, <2>2, <2>3, <2>4, <2>5, <2>6 DEF Control
  <1>9. CASE FindForActivation
    <2> USE <1>9 DEF FindForActivation, Found, flags, sdkside, works, hostside, protocol
    <2>1. Queue'
      BY Works DEF Queue, Starting, Cancelling, Reaping, Client, TypeOK, FlagsOK,
             SdkOK, HostOK
    <2>2. Client'
      BY Works DEF Client, Starting, Cancelling, Queue, Reaping, Response,
             Unanswered, TypeOK, FlagsOK, SdkOK, HostOK
    <2>3. Response'
      BY DEF Response, Unanswered, Buffered, Client, Before, Serves,
             Unsubscribing, TypeOK, FlagsOK, SdkOK, HostOK
    <2>4. Buffered'
      BY DEF Buffered, Response, Unanswered, Client, TypeOK, FlagsOK,
             SdkOK, HostOK
    <2>5. Agreement'
      BY NoEntryIs DEF Agreement, Alive, Same, Between, FirstStatus, NextStatus,
             Settling, Response, Unanswered, Stream, Client, Queue,
             Buffered, Starting, Before, Serves, TypeOK, FlagsOK, SdkOK,
             HostOK
    <2>6. Stream'
      BY NoEntryIs DEF Stream, Response, Unanswered, Agreement, Before, Serves,
             TypeOK, FlagsOK, SdkOK, HostOK
    <2> QED BY <2>1, <2>2, <2>3, <2>4, <2>5, <2>6 DEF Control
  <1>10. CASE Activate
    <2> USE <1>10 DEF Activate, flags, sdkside, works, hostside, protocol
    <2>0. /\ buffer' \in Buffers
          /\ buffer'.generation = buffer.generation /\ buffer'.active = buffer.active
          /\ buffer'.established = buffer.established
          /\ buffer'.activated # buffer.activated =>
               buffer'.activated /\ buffer.established /\ response.ok
      <3>1. ActivateBuffer(buffer) \in Buffers BY BufferTypes DEF TypeOK
      <3>2. buffer' = buffer \/ (response.ok /\ buffer' = TakeReady(ActivateBuffer(buffer)))
        OBVIOUS
      <3>3. CASE buffer' = buffer BY <3>3 DEF TypeOK
      <3>4. CASE response.ok /\ buffer' = TakeReady(ActivateBuffer(buffer))
        <4>1. TakeReady(ActivateBuffer(buffer)) \in Buffers BY <3>1, BufferTypes
        <4>2. buffer \in Buffers /\ buffer.activated \in BOOLEAN BY DEF TypeOK, Buffers
        <4> QED BY ONLY <3>1, <3>4, <4>1, <4>2, TakeFields, ActivateFields
      <3> QED BY <3>2, <3>3, <3>4
    <2>1. Queue'
      BY <2>0, Works DEF Queue, Starting, Cancelling, Reaping, Client, TypeOK, FlagsOK,
             SdkOK, HostOK
    <2>2. Client'
      BY <2>0, Works DEF Client, Starting, Cancelling, Queue, Reaping, Response,
             Unanswered, TypeOK, FlagsOK, SdkOK, HostOK
    <2>3. Response'
      BY <2>0 DEF Response, Unanswered, Buffered, Client, Before, Serves,
             Unsubscribing, TypeOK, FlagsOK, SdkOK, HostOK
    <2>4. Buffered'
      BY <2>0 DEF Buffered, Response, Unanswered, Client, TypeOK, FlagsOK,
             SdkOK, HostOK
    <2>5. Agreement'
      BY <2>0, NoEntryIs DEF Agreement, Alive, Same, Between, FirstStatus, NextStatus,
             Settling, Response, Unanswered, Stream, Client, Queue,
             Buffered, Starting, Before, Serves, TypeOK, FlagsOK, SdkOK,
             HostOK
    <2>6. Stream'
      BY <2>0, NoEntryIs DEF Stream, Response, Unanswered, Agreement, Before, Serves,
             TypeOK, FlagsOK, SdkOK, HostOK
    <2> QED BY <2>1, <2>2, <2>3, <2>4, <2>5, <2>6 DEF Control
  <1>11. CASE ActivateEmits
    <2> USE <1>11 DEF ActivateEmits, EmitReport, EmitReportRefused, Emits, flags, sdkside, works, hostside, protocol
    <2>0. \/ UNCHANGED <<cancel_scheduled, done, work, refused, host, entry, live>>
          \/ /\ host' = "down"
             /\ (entry' = entry /\ live' = live) \/ (entry' = NoEntry /\ live' = 0)
             /\ \/ /\ UNCHANGED <<cancel_scheduled, done, work, refused>>
                   /\ cancel_scheduled \/ done
                \/ /\ cancel_scheduled' /\ ~cancel_scheduled /\ ~done
                   /\ \/ work = << >> /\ work' = QCancel
                      \/ work = QStart /\ work' = QStartCancel
                   /\ UNCHANGED <<done, refused>>
                \/ /\ cancel_scheduled' /\ ~cancel_scheduled /\ ~done /\ done' /\ refused'
                   /\ UNCHANGED work
      <3>1. CASE EmitReport(Head(taken), "host") /\ UNCHANGED <<host, cancel_scheduled, done, work, refused>>
        BY <3>1
      <3>2. CASE EmitReportRefused(Head(taken)) /\ ScheduleCancel /\ host' = "down"
        <4>1. (entry' = entry /\ live' = live) \/ (entry' = NoEntry /\ live' = 0) BY <3>2
        <4> QED BY <3>2, <4>1, ScheduleCancelIs
      <3> QED BY <3>1, <3>2
    <2>1. Queue'
      BY SMTT(20), <2>0, Works DEF Queue, Starting, Cancelling, Reaping, Client, TypeOK, FlagsOK,
             SdkOK, HostOK
    <2>2. Client'
      BY SMTT(20), <2>0, Works DEF Client, Starting, Cancelling, Queue, Reaping, Response,
             Unanswered, TypeOK, FlagsOK, SdkOK, HostOK
    <2>3. Response'
      BY <2>0 DEF Response, Unanswered, Buffered, Client, Before, Serves,
             Unsubscribing, TypeOK, FlagsOK, SdkOK, HostOK
    <2>4. Buffered'
      BY <2>0 DEF Buffered, Response, Unanswered, Client, TypeOK, FlagsOK,
             SdkOK, HostOK
    <2>5. Agreement'
      BY <2>0, NoEntryIs DEF Agreement, Alive, Same, Between, FirstStatus, NextStatus,
             Settling, Response, Unanswered, Stream, Client, Queue,
             Buffered, Starting, Before, Serves, TypeOK, FlagsOK, SdkOK,
             HostOK
    <2>6. Stream'
      BY <2>0, NoEntryIs DEF Stream, Response, Unanswered, Agreement, Before, Serves,
             TypeOK, FlagsOK, SdkOK, HostOK
    <2> QED BY <2>1, <2>2, <2>3, <2>4, <2>5, <2>6 DEF Control
  <1>12. CASE Activated
    <2> USE <1>12 DEF Activated, flags, sdkside, works, hostside, protocol
    <2>1. Queue'
      BY Works DEF Queue, Starting, Cancelling, Reaping, Client, TypeOK, FlagsOK,
             SdkOK, HostOK
    <2>2. Client'
      BY Works DEF Client, Starting, Cancelling, Queue, Reaping, Response,
             Unanswered, TypeOK, FlagsOK, SdkOK, HostOK
    <2>3. Response'
      BY DEF Response, Unanswered, Buffered, Client, Before, Serves,
             Unsubscribing, TypeOK, FlagsOK, SdkOK, HostOK
    <2>4. Buffered'
      BY DEF Buffered, Response, Unanswered, Client, TypeOK, FlagsOK,
             SdkOK, HostOK
    <2>5. Agreement'
      BY NoEntryIs DEF Agreement, Alive, Same, Between, FirstStatus, NextStatus,
             Settling, Response, Unanswered, Stream, Client, Queue,
             Buffered, Starting, Before, Serves, TypeOK, FlagsOK, SdkOK,
             HostOK
    <2>6. Stream'
      BY NoEntryIs DEF Stream, Response, Unanswered, Agreement, Before, Serves,
             TypeOK, FlagsOK, SdkOK, HostOK
    <2> QED BY <2>1, <2>2, <2>3, <2>4, <2>5, <2>6 DEF Control
  <1>13. CASE FindForCancel
    <2> USE <1>13 DEF FindForCancel, Found, flags, sdkside, works, hostside, protocol
    <2>1. Queue'
      BY Works DEF Queue, Starting, Cancelling, Reaping, Client, TypeOK, FlagsOK,
             SdkOK, HostOK
    <2>2. Client'
      BY Works DEF Client, Starting, Cancelling, Queue, Reaping, Response,
             Unanswered, TypeOK, FlagsOK, SdkOK, HostOK
    <2>3. Response'
      BY DEF Response, Unanswered, Buffered, Client, Before, Serves,
             Unsubscribing, TypeOK, FlagsOK, SdkOK, HostOK
    <2>4. Buffered'
      BY DEF Buffered, Response, Unanswered, Client, TypeOK, FlagsOK,
             SdkOK, HostOK
    <2>5. Agreement'
      BY NoEntryIs DEF Agreement, Alive, Same, Between, FirstStatus, NextStatus,
             Settling, Response, Unanswered, Stream, Client, Queue,
             Buffered, Starting, Before, Serves, TypeOK, FlagsOK, SdkOK,
             HostOK
    <2>6. Stream'
      BY NoEntryIs DEF Stream, Response, Unanswered, Agreement, Before, Serves,
             TypeOK, FlagsOK, SdkOK, HostOK
    <2> QED BY <2>1, <2>2, <2>3, <2>4, <2>5, <2>6 DEF Control
  <1>14. CASE HostCancels
    <2> USE <1>14 DEF HostCancels, flags, sdkside, works, hostside, protocol
    <2>0. \/ /\ UNCHANGED <<cancel_scheduled, done, work, refused>>
             /\ cancel_scheduled \/ done
          \/ /\ cancel_scheduled' /\ ~cancel_scheduled /\ ~done
             /\ \/ work = << >> /\ work' = QCancel
                \/ work = QStart /\ work' = QStartCancel
             /\ UNCHANGED <<done, refused>>
          \/ /\ cancel_scheduled' /\ ~cancel_scheduled /\ ~done /\ done' /\ refused'
             /\ UNCHANGED work
      BY ScheduleCancelIs
    <2>1. Queue'
      BY <2>0, Works DEF Queue, Starting, Cancelling, Reaping, Client, TypeOK, FlagsOK,
             SdkOK, HostOK
    <2>2. Client'
      BY <2>0, Works DEF Client, Starting, Cancelling, Queue, Reaping, Response,
             Unanswered, TypeOK, FlagsOK, SdkOK, HostOK
    <2>3. Response'
      BY <2>0 DEF Response, Unanswered, Buffered, Client, Before, Serves,
             Unsubscribing, TypeOK, FlagsOK, SdkOK, HostOK
    <2>4. Buffered'
      BY <2>0 DEF Buffered, Response, Unanswered, Client, TypeOK, FlagsOK,
             SdkOK, HostOK
    <2>5. Agreement'
      BY <2>0, NoEntryIs DEF Agreement, Alive, Same, Between, FirstStatus, NextStatus,
             Settling, Response, Unanswered, Stream, Client, Queue,
             Buffered, Starting, Before, Serves, TypeOK, FlagsOK, SdkOK,
             HostOK
    <2>6. Stream'
      BY <2>0, NoEntryIs DEF Stream, Response, Unanswered, Agreement, Before, Serves,
             TypeOK, FlagsOK, SdkOK, HostOK
    <2> QED BY <2>1, <2>2, <2>3, <2>4, <2>5, <2>6 DEF Control
  <1>15. CASE CancelWaitEnds
    <2> USE <1>15 DEF CancelWaitEnds, flags, sdkside, works, hostside, protocol
    <2>1. Queue'
      BY Works DEF Queue, Starting, Cancelling, Reaping, Client, TypeOK, FlagsOK,
             SdkOK, HostOK
    <2>2. Client'
      BY Works DEF Client, Starting, Cancelling, Queue, Reaping, Response,
             Unanswered, TypeOK, FlagsOK, SdkOK, HostOK
    <2>3. Response'
      BY DEF Response, Unanswered, Buffered, Client, Before, Serves,
             Unsubscribing, TypeOK, FlagsOK, SdkOK, HostOK
    <2>4. Buffered'
      BY DEF Buffered, Response, Unanswered, Client, TypeOK, FlagsOK,
             SdkOK, HostOK
    <2>5. Agreement'
      BY NoEntryIs DEF Agreement, Alive, Same, Between, FirstStatus, NextStatus,
             Settling, Response, Unanswered, Stream, Client, Queue,
             Buffered, Starting, Before, Serves, TypeOK, FlagsOK, SdkOK,
             HostOK
    <2>6. Stream'
      BY NoEntryIs DEF Stream, Response, Unanswered, Agreement, Before, Serves,
             TypeOK, FlagsOK, SdkOK, HostOK
    <2> QED BY <2>1, <2>2, <2>3, <2>4, <2>5, <2>6 DEF Control
  <1>16. CASE CancelAnswered
    <2> USE <1>16 DEF CancelAnswered, flags, sdkside, works, hostside, protocol
    <2>1. Queue'
      BY Works DEF Queue, Starting, Cancelling, Reaping, Client, TypeOK, FlagsOK,
             SdkOK, HostOK
    <2>2. Client'
      BY Works DEF Client, Starting, Cancelling, Queue, Reaping, Response,
             Unanswered, TypeOK, FlagsOK, SdkOK, HostOK
    <2>3. Response'
      BY DEF Response, Unanswered, Buffered, Client, Before, Serves,
             Unsubscribing, TypeOK, FlagsOK, SdkOK, HostOK
    <2>4. Buffered'
      BY DEF Buffered, Response, Unanswered, Client, TypeOK, FlagsOK,
             SdkOK, HostOK
    <2>5. Agreement'
      BY NoEntryIs DEF Agreement, Alive, Same, Between, FirstStatus, NextStatus,
             Settling, Response, Unanswered, Stream, Client, Queue,
             Buffered, Starting, Before, Serves, TypeOK, FlagsOK, SdkOK,
             HostOK
    <2>6. Stream'
      BY NoEntryIs DEF Stream, Response, Unanswered, Agreement, Before, Serves,
             TypeOK, FlagsOK, SdkOK, HostOK
    <2> QED BY <2>1, <2>2, <2>3, <2>4, <2>5, <2>6 DEF Control
  <1>17. CASE CancelRetires
    <2> USE <1>17 DEF CancelRetires, Emits, flags, sdkside, works, hostside, protocol
    <2>1. Queue'
      BY Works DEF Queue, Starting, Cancelling, Reaping, Client, TypeOK, FlagsOK,
             SdkOK, HostOK
    <2>2. Client'
      BY Works DEF Client, Starting, Cancelling, Queue, Reaping, Response,
             Unanswered, TypeOK, FlagsOK, SdkOK, HostOK
    <2>3. Response'
      BY DEF Response, Unanswered, Buffered, Client, Before, Serves,
             Unsubscribing, TypeOK, FlagsOK, SdkOK, HostOK
    <2>4. Buffered'
      BY DEF Buffered, Response, Unanswered, Client, TypeOK, FlagsOK,
             SdkOK, HostOK
    <2>5. Agreement'
      BY NoEntryIs DEF Agreement, Alive, Same, Between, FirstStatus, NextStatus,
             Settling, Response, Unanswered, Stream, Client, Queue,
             Buffered, Starting, Before, Serves, TypeOK, FlagsOK, SdkOK,
             HostOK
    <2>6. Stream'
      BY NoEntryIs DEF Stream, Response, Unanswered, Agreement, Before, Serves,
             TypeOK, FlagsOK, SdkOK, HostOK
    <2> QED BY <2>1, <2>2, <2>3, <2>4, <2>5, <2>6 DEF Control
  <1>18. CASE CancelErases
    <2> USE <1>18 DEF CancelErases, flags, sdkside, works, hostside, protocol
    <2>1. Queue'
      BY Works DEF Queue, Starting, Cancelling, Reaping, Client, TypeOK, FlagsOK,
             SdkOK, HostOK
    <2>2. Client'
      BY Works DEF Client, Starting, Cancelling, Queue, Reaping, Response,
             Unanswered, TypeOK, FlagsOK, SdkOK, HostOK
    <2>3. Response'
      BY DEF Response, Unanswered, Buffered, Client, Before, Serves,
             Unsubscribing, TypeOK, FlagsOK, SdkOK, HostOK
    <2>4. Buffered'
      BY DEF Buffered, Response, Unanswered, Client, TypeOK, FlagsOK,
             SdkOK, HostOK
    <2>5. Agreement'
      BY NoEntryIs DEF Agreement, Alive, Same, Between, FirstStatus, NextStatus,
             Settling, Response, Unanswered, Stream, Client, Queue,
             Buffered, Starting, Before, Serves, TypeOK, FlagsOK, SdkOK,
             HostOK
    <2>6. Stream'
      BY NoEntryIs DEF Stream, Response, Unanswered, Agreement, Before, Serves,
             TypeOK, FlagsOK, SdkOK, HostOK
    <2> QED BY <2>1, <2>2, <2>3, <2>4, <2>5, <2>6 DEF Control
  <1> QED BY <1>1, <1>2, <1>3, <1>4, <1>5, <1>6, <1>7, <1>8, <1>9, <1>10,
         <1>11, <1>12, <1>13, <1>14, <1>15, <1>16, <1>17, <1>18

-----------------------------------------------------------------------------
(* What a step writes.                                                     *)

Frames == Plain \cup Written

\* The wire is what it was, and these frames after it.
Wrote1(f) ==
  /\ Len(wire') = Len(wire) + 1
  /\ \A i \in 1..Len(wire) : wire'[i] = wire[i]
  /\ wire'[Len(wire) + 1] = f
Wrote2(f, g) ==
  /\ Len(wire') = Len(wire) + 2
  /\ \A i \in 1..Len(wire) : wire'[i] = wire[i]
  /\ wire'[Len(wire) + 1] = f
  /\ wire'[Len(wire) + 2] = g

\* Writing one frame or two is appending them.
LEMMA Writing ==
  ASSUME NEW f \in Frames, NEW g \in Frames, wire \in Seq(Frames)
  PROVE  /\ wire' = wire \o <<f>> => Wrote1(f)
         /\ wire' = Append(wire, f) => Wrote1(f)
         /\ wire' = wire \o <<f, g>> => Wrote2(f, g)
  <1>1. <<f>> \in Seq(Frames) /\ <<f, g>> \in Seq(Frames) OBVIOUS
  <1>2. /\ Len(<<f>>) = 1 /\ Len(<<f, g>>) = 2 /\ <<f>>[1] = f
        /\ <<f, g>>[1] = f /\ <<f, g>>[2] = g
    OBVIOUS
  <1>3. ASSUME wire' = wire \o <<f>> PROVE Wrote1(f)
    <2> DEFINE t == <<f>>
    <2>1. t \in Seq(Frames) /\ Len(t) = 1 /\ t[1] = f BY <1>1, <1>2
    <2>2. wire' = wire \o t BY <1>3
    <2> HIDE DEF t
    <2>3. /\ Len(wire \o t) = Len(wire) + Len(t)
          /\ \A i \in 1..(Len(wire) + Len(t)) :
               (wire \o t)[i] = IF i <= Len(wire) THEN wire[i] ELSE t[i - Len(wire)]
      BY ONLY <2>1, wire \in Seq(Frames), ConcatProperties
    <2>4. Len(wire) \in Nat OBVIOUS
    <2> QED BY <2>1, <2>2, <2>3, <2>4 DEF Wrote1
  <1>4. ASSUME wire' = Append(wire, f) PROVE Wrote1(f)
    BY <1>4, AppendProperties DEF Wrote1
  <1>5. ASSUME wire' = wire \o <<f, g>> PROVE Wrote2(f, g)
    <2> DEFINE t == <<f, g>>
    <2>1. t \in Seq(Frames) /\ Len(t) = 2 /\ t[1] = f /\ t[2] = g BY <1>1, <1>2
    <2>2. wire' = wire \o t BY <1>5
    <2> HIDE DEF t
    <2>3. /\ Len(wire \o t) = Len(wire) + Len(t)
          /\ \A i \in 1..(Len(wire) + Len(t)) :
               (wire \o t)[i] = IF i <= Len(wire) THEN wire[i] ELSE t[i - Len(wire)]
      BY ONLY <2>1, wire \in Seq(Frames), ConcatProperties
    <2>4. Len(wire) \in Nat OBVIOUS
    <2> QED BY <2>1, <2>2, <2>3, <2>4 DEF Wrote2
  <1> QED BY <1>3, <1>4, <1>5

\* A frame that is no report.
LEMMA PlainFrame ==
  ASSUME NEW kind \in {"error", "retired", "resubscribing", "resubscribed",
                       "subscribed", "unsubscribed"}, NEW g \in Nat
  PROVE  /\ Frame(kind, g, 0) \in Frames
         /\ Frame(kind, g, 0).kind = kind /\ Frame(kind, g, 0).generation = g
  BY DEF Frame, Frames, Plain

\* The frame of a report.
LEMMA ReportFrameIs ==
  ASSUME NEW r \in Held, NEW thread \in {"sdk", "host"}
  PROVE  LET f == ReportFrame(r, thread) IN
         /\ f \in Frames /\ f.kind = "report" /\ f.generation = r.generation
         /\ f.n = r.n /\ f.id = r.id /\ f.initial = r.initial /\ f.thread = thread
  BY DEF ReportFrame, Frames, Written, Held

\* What the frames say of their kinds.
LEMMA FrameKinds ==
  ASSUME TypeOK
  PROVE  /\ wire \in Seq(Frames) /\ DOMAIN wire = 1..Len(wire) /\ Len(wire) \in Nat
         /\ \A i \in DOMAIN wire : wire[i] \in Frames /\ wire[i].generation \in Nat
         /\ \A i \in DOMAIN wire : wire[i].kind = "report" => wire[i] \in Written
  <1>1. /\ wire \in Seq(Frames) /\ DOMAIN wire = 1..Len(wire) /\ Len(wire) \in Nat
        /\ \A i \in DOMAIN wire : wire[i] \in Frames
    BY DEF TypeOK, HostOK, Frames
  <1>2. \A f \in Frames : f.generation \in Nat /\ (f.kind = "report" => f \in Written)
    BY DEF Frames, Plain, Written
  <1> QED BY <1>1, <1>2

\* The sections that write no frame and leave the protocol's record alone.
Silent == UNCHANGED <<wire, entry, live>>

\* The sections that write no frame and leave the protocol's entry.
LEMMA SilentSteps ==
  ASSUME StartWork \/ CancelWork \/ ReapWork \/ Mark \/ OnConnected \/
         ConnectionFailed \/ OnReportBegin \/ OnData \/ OnReportEnd \/ EmitEnds \/
         FailActive \/ SdkCancels \/ EstablishedWithout \/ EstablishRefused \/
         Established \/ Publish \/ Settle \/ Lost \/ OnResubscriptionNeeded \/
         TimerRefused \/ RecoveryDeadline \/ Closes \/ OnDone \/ Submit \/
         WaitReturns \/ WaitTimesOut \/ Expired \/ AnswerFailure \/
         AddStreamRefused \/ FindForActivation \/ Activate \/ Activated \/
         FindForCancel \/ HostCancels \/ CancelWaitEnds \/ Requests
  PROVE  Silent
  <1> USE DEF Silent, protocol
  <1>1. CASE StartWork \/ CancelWork \/ ReapWork \/ Mark \/ OnConnected \/ ConnectionFailed
    BY <1>1 DEF StartWork, CancelWork, ReapWork, Mark, OnConnected, ConnectionFailed
  <1>2. CASE OnReportBegin \/ OnData \/ OnReportEnd \/ EmitEnds \/ FailActive \/ SdkCancels
    BY <1>2 DEF OnReportBegin, OnData, OnReportEnd, EmitEnds, FailActive, SdkCancels
  <1>3. CASE EstablishedWithout \/ EstablishRefused \/ Established \/ Publish \/ Settle
    BY <1>3 DEF EstablishedWithout, EstablishRefused, Established, Publish, Settle
  <1>4. CASE Lost \/ OnResubscriptionNeeded \/ TimerRefused \/ RecoveryDeadline \/ Closes \/
             OnDone
    BY <1>4 DEF Lost, OnResubscriptionNeeded, TimerRefused, RecoveryDeadline, Closes, OnDone
  <1>5. CASE Submit \/ WaitReturns \/ WaitTimesOut \/ Expired \/ AnswerFailure \/
             AddStreamRefused \/ FindForActivation \/ Activate
    BY <1>5 DEF Submit, WaitReturns, WaitTimesOut, Expired, AnswerFailure,
                AddStreamRefused, FindForActivation, Activate
  <1>6. CASE Activated \/ FindForCancel \/ HostCancels \/ CancelWaitEnds \/ Requests
    BY <1>6 DEF Activated, FindForCancel, HostCancels, CancelWaitEnds, Requests, Unsubscribe
  <1> QED BY <1>1, <1>2, <1>3, <1>4, <1>5, <1>6

\* What a step writes, and what becomes of the stream and of the entry.
Speaks ==
  \E f \in Frames :
    /\ Wrote1(f) /\ f.kind \in {"report", "resubscribing", "resubscribed"}
    /\ f.kind = "report" => f.generation = live /\ live # 0
    /\ entry.generation # 0 /\ live' = live /\ entry'.generation = entry.generation
Answers ==
  \E f \in Frames :
    /\ Wrote1(f) /\ f.kind = "subscribed" /\ host = "reply"
    /\ live' = live /\ entry'.generation = entry.generation
Confirms ==
  \E f \in Frames :
    /\ Wrote1(f) /\ f.kind = "unsubscribed" /\ f.generation = asked
    /\ host \in Unsubscribing /\ live = 0 /\ live' = 0 /\ entry'.generation = 0
Retires ==
  /\ live # 0 /\ entry.generation # 0
  /\ live' = 0 \/ live' > live
  /\ \E g \in Frames :
       /\ g.kind = "retired" /\ g.generation = live
       /\ \/ Wrote1(g)
          \/ \E f \in Frames : /\ Wrote2(f, g)
                               /\ \/ f.kind = "error" /\ live' = 0 /\ entry'.generation = 0
                                  \/ f.kind = "resubscribing"
Opens == host = "answer" /\ host' = "reply" /\ wire' = wire
Writes == Silent \/ Speaks \/ Answers \/ Confirms \/ Retires \/ Opens

\* Every section that writes does one of these.
LEMMA WritingSteps ==
  ASSUME TypeOK, Control, Barriers,
         EmitOne \/ EmitFailure \/ Announce \/ Resubscribing \/ AddStream \/ Reply \/
         ActivateEmits \/ CancelAnswered \/ CancelRetires \/ CancelErases
  PROVE  Writes
  <1> USE DEF Writes
  <1>0. /\ wire \in Seq(Frames) /\ live \in Nat /\ entry.generation \in Nat
        /\ asked \in Nat /\ result.generation \in Nat
        /\ recovery.generation \in Nat \ {0} /\ (live # 0 => entry.generation = live)
    BY FrameKinds DEF TypeOK, HostOK, Recoveries, Control, Stream
  <1>a. ASSUME NEW r \in Held, NEW thread \in {"sdk", "host"}, EmitReport(r, thread) PROVE Writes
    <2>1. r.generation # 0 /\ live = r.generation BY <1>a DEF EmitReport, Held
    <2>2. Wrote1(ReportFrame(r, thread)) /\ UNCHANGED <<entry, live>>
      BY <1>0, <1>a, Writing, ReportFrameIs DEF EmitReport, Emits
    <2>3. Speaks BY <1>0, <2>1, <2>2, ReportFrameIs DEF Speaks
    <2> QED BY <2>3
  <1>b. ASSUME wire' = wire \o <<Frame("error", live, 0), Frame("retired", live, 0)>>,
               entry' = NoEntry, live' = 0, live # 0
        PROVE  Writes
    <2>1. Wrote2(Frame("error", live, 0), Frame("retired", live, 0))
      BY <1>0, <1>b, Writing, PlainFrame
    <2> DEFINE f == Frame("error", live, 0)
               g == Frame("retired", live, 0)
    <2>2. /\ f \in Frames /\ f.kind = "error" /\ g \in Frames /\ g.kind = "retired"
          /\ g.generation = live
      BY <1>0, PlainFrame
    <2>3. Wrote2(f, g) /\ live' = 0 /\ entry'.generation = 0 BY <1>b, <2>1, NoEntryIs
    <2> HIDE DEF f, g
    <2>4. entry.generation # 0 BY <1>0, <1>b
    <2>5. Retires BY <1>b, <2>2, <2>3, <2>4 DEF Retires
    <2> QED BY <2>5
  <1>c. ASSUME NEW r \in Held, EmitReportRefused(r) PROVE Writes
    <2>1. CASE UNCHANGED protocol BY <2>1 DEF protocol, Silent
    <2>2. CASE ~UNCHANGED protocol
      BY <1>b, <1>c, <2>2 DEF EmitReportRefused, Emits, Held
    <2> QED BY <2>1, <2>2
  <1>1. CASE EmitOne
    <2>1. Head(carried) \in Held BY <1>1 DEF EmitOne, TypeOK, SdkOK
    <2>2. EmitReport(Head(carried), "sdk") \/ EmitReportRefused(Head(carried)) BY <1>1 DEF EmitOne
    <2> QED BY <1>a, <1>c, <2>1, <2>2
  <1>2. CASE EmitFailure
    <2>1. CASE live = recovery.generation BY <1>0, <1>2, <1>b, <2>1 DEF EmitFailure, Emits
    <2>2. CASE live # recovery.generation BY <1>2, <2>2 DEF EmitFailure, Silent
    <2> QED BY <2>1, <2>2
  <1>3. CASE Announce
    <2>1. CASE SettleAdmitted(recovery.generation, recovery.attempts)
      <3>1. /\ wire' = wire \o <<Frame("resubscribed", recovery.generation, 0)>>
            /\ live' = live /\ entry'.generation = entry.generation
        BY <1>3, <2>1 DEF Announce, Emits, TypeOK, HostOK
      <3>2. Wrote1(Frame("resubscribed", recovery.generation, 0))
        BY <1>0, <3>1, Writing, PlainFrame
      <3>3. entry.generation # 0 BY <1>0, <2>1 DEF SettleAdmitted
      <3>4. Speaks BY SMTT(20), <1>0, <3>1, <3>2, <3>3, PlainFrame DEF Speaks
      <3> QED BY <3>4
    <2>2. CASE ~SettleAdmitted(recovery.generation, recovery.attempts)
      BY <1>3, <2>2 DEF Announce, Silent
    <2> QED BY <2>1, <2>2
  <1>4. CASE Resubscribing
    <2> DEFINE g == recovery.generation
               s == Frame("resubscribing", g, 0)
    <2>0. s \in Frames /\ s.kind = "resubscribing" BY <1>0, PlainFrame
    <2>1. CASE EmitResubscribing(g, recovery.attempts) /\ entry.recovering
      <3>1. /\ wire' = wire \o <<s>> /\ live' = live /\ entry'.generation = entry.generation
            /\ entry.generation # 0
        BY <2>1 DEF EmitResubscribing, StatusAdmitted, Emits, TypeOK, HostOK
      <3> HIDE DEF s
      <3>2. Speaks BY <1>0, <2>0, <3>1, Writing DEF Speaks
      <3> QED BY <3>2
    <2>2. CASE EmitResubscribing(g, recovery.attempts) /\ ~entry.recovering
      <3>1. /\ wire' = wire \o <<s, Frame("retired", live, 0)>> /\ live' = g
            /\ entry.generation # 0 /\ live = entry.generation /\ g = entry.generation + 1
        BY <2>2 DEF EmitResubscribing, StatusAdmitted, Emits, TypeOK, HostOK
      <3> HIDE DEF s
      <3> DEFINE f == Frame("retired", live, 0)
      <3>2. Wrote2(s, f) BY <1>0, <2>0, <3>1, Writing, PlainFrame
      <3>3. f \in Frames /\ f.kind = "retired" /\ f.generation = live BY <1>0, PlainFrame
      <3>4. live' > live /\ live # 0 BY <1>0, <3>1
      <3> HIDE DEF f
      <3>5. Retires BY <2>0, <3>1, <3>2, <3>3, <3>4 DEF Retires
      <3> QED BY <3>5
    <2>3. CASE ResubscribingRefused(g, recovery.attempts)
      <3>1. CASE UNCHANGED protocol BY <3>1 DEF protocol, Silent
      <3>2. CASE ~UNCHANGED protocol
        <4>1. /\ wire' = wire \o <<s>> /\ UNCHANGED <<live, entry>> /\ entry.generation # 0
          BY <2>3, <3>2 DEF ResubscribingRefused, StatusAdmitted, Emits
        <4> HIDE DEF s
        <4>2. Speaks BY <1>0, <2>0, <4>1, Writing DEF Speaks
        <4> QED BY <4>2
      <3> QED BY <3>1, <3>2
    <2> QED BY <1>4, <2>1, <2>2, <2>3 DEF Resubscribing
  <1>5. CASE AddStream BY <1>5 DEF AddStream, HostAt, Opens
  <1>6. CASE Reply
    <2>1. /\ wire' = Append(wire, Frame("subscribed", result.generation, 0))
          /\ UNCHANGED <<entry, live>> /\ host = "reply"
      BY <1>6 DEF Reply, HostAt
    <2>2. Answers BY <1>0, <2>1, Writing, PlainFrame DEF Answers
    <2> QED BY <2>2
  <1>7. CASE ActivateEmits
    <2>1. Head(taken) \in Held BY <1>7 DEF ActivateEmits, TypeOK, HostOK
    <2>2. EmitReport(Head(taken), "host") \/ EmitReportRefused(Head(taken))
      BY <1>7 DEF ActivateEmits
    <2> QED BY <1>a, <1>c, <2>1, <2>2
  <1>8. CASE CancelAnswered
    <2>1. CASE entry.generation = 0
      <3>1. /\ wire' = Append(wire, Frame("unsubscribed", asked, 0))
            /\ UNCHANGED <<entry, live>> /\ host \in Unsubscribing /\ live = 0
        BY <1>0, <1>8, <2>1 DEF CancelAnswered, HostAt, Unsubscribing
      <3> DEFINE f == Frame("unsubscribed", asked, 0)
      <3>2. f \in Frames /\ f.kind = "unsubscribed" /\ f.generation = asked BY <1>0, PlainFrame
      <3>3. Wrote1(f) BY <1>0, <3>1, <3>2, Writing
      <3> HIDE DEF f
      <3>4. Confirms BY <2>1, <3>1, <3>2, <3>3 DEF Confirms
      <3> QED BY <3>4
    <2>2. CASE entry.generation # 0 BY <1>8, <2>2 DEF CancelAnswered, Silent
    <2> QED BY <2>1, <2>2
  <1>9. CASE CancelRetires
    <2>1. CASE live = asked
      <3>1. /\ wire' = wire \o <<Frame("retired", live, 0)>> /\ live' = 0
            /\ host \in Unsubscribing
        BY <1>9, <2>1 DEF CancelRetires, Emits, HostAt, Unsubscribing
      <3>2. live # 0 BY <2>1, <3>1 DEF Barriers
      <3> DEFINE f == Frame("retired", live, 0)
      <3>3. f \in Frames /\ f.kind = "retired" /\ f.generation = live BY <1>0, PlainFrame
      <3>4. Wrote1(f) BY <1>0, <3>1, <3>3, Writing
      <3> HIDE DEF f
      <3>5. Retires BY <1>0, <3>1, <3>2, <3>3, <3>4 DEF Retires
      <3> QED BY <3>5
    <2>2. CASE live # asked BY <1>9, <2>2 DEF CancelRetires, Silent
    <2> QED BY <2>1, <2>2
  <1>10. CASE CancelErases
    <2>1. /\ wire' = Append(wire, Frame("unsubscribed", asked, 0))
          /\ entry' = NoEntry /\ live' = live /\ host \in Unsubscribing /\ live = 0
      BY <1>10 DEF CancelErases, HostAt, Unsubscribing, Control, Stream
    <2>2. Confirms BY ZenonT(30), <1>0, <2>1, Writing, PlainFrame, NoEntryIs DEF Confirms
    <2> QED BY <2>2
  <1> QED BY <1>1, <1>2, <1>3, <1>4, <1>5, <1>6, <1>7, <1>8, <1>9, <1>10

\* Where the host thread can be.
HostMoves ==
  /\ host' \in Before \cup {"refused"} => host \in Before \cup {"refused"}
  /\ host' \in Unsubscribing =>
       \/ host \in Unsubscribing /\ asked' = asked
       \/ Silent /\ live # 0 /\ asked' = live

\* The SDK thread leaves the host thread where it is.
LEMMA SdkMoves ==
  ASSUME SdkSteps \/ Work \/ Callbacks
  PROVE  UNCHANGED hostside
  <1>1. CASE SdkSteps
    BY <1>1 DEF SdkSteps, Mark, EmitOne, EmitEnds, FailActive, EmitFailure, SdkCancels,
                Publish, Announce, Settle, Resubscribing, TimerRefused, OnDone
  <1>2. CASE Work BY <1>2 DEF Work, StartWork, CancelWork, ReapWork
  <1>3. CASE Callbacks
    BY <1>3 DEF Callbacks, OnConnected, ConnectionFailed, OnReportBegin, OnData, OnReportEnd,
                EstablishedWithout, EstablishRefused, Established, Lost,
                OnResubscriptionNeeded, RecoveryDeadline, Closes
  <1> QED BY <1>1, <1>2, <1>3

\* Where the host thread goes in a step of either thread (protocol.cpp, the
\* subscribe and unsubscribe handlers).
LEMMA Moves ==
  ASSUME TypeOK, Next
  PROVE  HostMoves
  <1> USE DEF HostMoves, Before, Unsubscribing, HostAt
  <1>1. CASE SdkSteps \/ Work \/ Callbacks BY <1>1, SdkMoves DEF hostside
  <1>2. CASE Submit \/ WaitReturns \/ WaitTimesOut \/ Expired \/ AnswerFailure \/
             AddStream \/ AddStreamRefused \/ Reply
    BY <1>2 DEF Submit, WaitReturns, WaitTimesOut, Expired, AnswerFailure, AddStream,
                AddStreamRefused, Reply
  <1>3. CASE FindForActivation \/ Activate \/ ActivateEmits \/ Activated
    BY <1>3 DEF FindForActivation, Activate, ActivateEmits, Activated
  <1>4. CASE FindForCancel \/ HostCancels \/ CancelWaitEnds \/ CancelAnswered \/
             CancelRetires \/ CancelErases
    BY <1>4 DEF FindForCancel, HostCancels, CancelWaitEnds, CancelAnswered, CancelRetires,
                CancelErases
  <1>5. CASE Requests
    <2>1. PICK g \in 1..GenerationLimit : Unsubscribe(g) BY <1>5 DEF Requests
    <2>2. g # 0 BY SubscriptionAssumption
    <2> QED BY <2>1, <2>2 DEF Unsubscribe, Silent, protocol
  <1> QED BY <1>1, <1>2, <1>3, <1>4, <1>5 DEF Next, HostSteps

\* A step is one of those that write or of those that do not.
LEMMA NextWrites ==
  ASSUME TypeOK, Control, Barriers, Next
  PROVE  Writes
  <1>1. CASE SdkSteps BY <1>1, SilentSteps, WritingSteps DEF SdkSteps, Writes
  <1>2. CASE Work BY <1>2, SilentSteps DEF Work, Writes
  <1>3. CASE Callbacks BY <1>3, SilentSteps DEF Callbacks, Writes
  <1>4. CASE HostSteps BY <1>4, SilentSteps, WritingSteps DEF HostSteps, Writes
  <1>5. CASE Requests BY <1>5, SilentSteps DEF Writes
  <1> QED BY <1>1, <1>2, <1>3, <1>4, <1>5 DEF Next

\* A terminal error is the only one, its stream is over, and neither a report
\* nor a status follows it.
LEMMA ErrsStep ==
  ASSUME TypeOK, TypeOK', Control, Barriers, Errs, Writes
  PROVE  Errs'
  <1>0. /\ DOMAIN wire = 1..Len(wire) /\ Len(wire) \in Nat /\ DOMAIN wire' = 1..Len(wire')
    BY FrameKinds DEF TypeOK, HostOK
  <1>1. CASE Silent BY <1>1 DEF Silent, Errs
  <1>2. CASE Speaks BY <1>0, <1>2 DEF Speaks, Errs, Wrote1
  <1>3. CASE Answers BY <1>0, <1>3 DEF Answers, Errs, Wrote1
  <1>4. CASE Confirms BY <1>0, <1>4 DEF Confirms, Errs, Wrote1
  <1>5. CASE Retires
    <2>1. \A i \in DOMAIN wire : wire[i].kind # "error" BY <1>5 DEF Retires, Errs
    <2>2. PICK g \in Frames :
            /\ g.kind = "retired" /\ g.generation = live
            /\ \/ Wrote1(g)
               \/ \E f \in Frames : /\ Wrote2(f, g)
                                    /\ \/ f.kind = "error" /\ live' = 0 /\ entry'.generation = 0
                                       \/ f.kind = "resubscribing"
      BY <1>5 DEF Retires
    <2>3. CASE Wrote1(g) BY <1>0, <2>1, <2>2, <2>3 DEF Errs, Wrote1
    <2>4. ASSUME NEW f \in Frames, Wrote2(f, g), f.kind = "error", live' = 0, entry'.generation = 0
          PROVE  Errs'
      <3>1. \A i \in DOMAIN wire' : wire'[i].kind = "error" => i = Len(wire) + 1
        BY <1>0, <2>1, <2>2, <2>4 DEF Wrote2
      <3>2. wire'[Len(wire) + 2].kind = "retired" BY <2>2, <2>4 DEF Wrote2
      <3>3. \A j \in DOMAIN wire' : j > Len(wire) + 1 => j = Len(wire) + 2
        BY <1>0, <2>4 DEF Wrote2
      <3> QED BY <2>4, <3>1, <3>2, <3>3 DEF Errs
    <2>5. ASSUME NEW f \in Frames, Wrote2(f, g), f.kind = "resubscribing" PROVE Errs'
      <3>1. \A i \in DOMAIN wire' : wire'[i].kind # "error"
        BY <1>0, <2>1, <2>2, <2>5 DEF Wrote2
      <3> QED BY <3>1 DEF Errs
    <2> QED BY <2>2, <2>3, <2>4, <2>5
  <1>6. CASE Opens BY <1>6 DEF Opens, Errs, Barriers, Before
  <1> QED BY <1>1, <1>2, <1>3, <1>4, <1>5, <1>6 DEF Writes

\* A generation has one barrier, before the success of its cancellation.
LEMMA BarriersStep ==
  ASSUME TypeOK, TypeOK', Control, Barriers, Writes, HostMoves
  PROVE  Barriers'
  <1>0. /\ DOMAIN wire = 1..Len(wire) /\ Len(wire) \in Nat /\ DOMAIN wire' = 1..Len(wire')
        /\ live \in Nat /\ live' \in Nat /\ asked \in Nat
        /\ \A i \in DOMAIN wire : wire[i].generation \in Nat
    BY FrameKinds DEF TypeOK, HostOK
  <1> DEFINE Retired(g) == \E i \in DOMAIN wire : wire[i].kind = "retired" /\ wire[i].generation = g
  <1>1. ASSUME wire' = wire, live' = live \/ wire = << >>,
               host' \in Before \cup {"refused"} => wire = << >>,
               host' \in Unsubscribing =>
                 asked' # 0 /\ (live' = asked' \/ Retired(asked'))
        PROVE Barriers'
    BY <1>0, <1>1 DEF Barriers
  <1>2. ASSUME NEW f \in Frames, Wrote1(f), f.kind # "retired", live' = live, host \notin Before \cup {"refused"},
               f.kind = "unsubscribed" => Retired(f.generation)
        PROVE Barriers'
    <2>1. (\A i \in DOMAIN wire : wire[i].kind = "retired" =>
            /\ live = 0 \/ wire[i].generation < live
            /\ \A j \in DOMAIN wire :
                 j # i /\ wire[j].kind = "retired" => wire[j].generation # wire[i].generation)'
      BY <1>0, <1>2 DEF Barriers, Wrote1
    <2>2. (host \in Before \cup {"refused"} => wire = << >>)' BY <1>2 DEF HostMoves
    <2>3. (\A i \in DOMAIN wire : wire[i].kind = "unsubscribed" =>
             \E j \in DOMAIN wire :
               j < i /\ wire[j].kind = "retired" /\ wire[j].generation = wire[i].generation)'
      <3> SUFFICES ASSUME NEW i \in DOMAIN wire', wire'[i].kind = "unsubscribed"
                   PROVE  \E j \in DOMAIN wire' : j < i /\ wire'[j].kind = "retired" /\
                                                  wire'[j].generation = wire'[i].generation
        OBVIOUS
      <3>1. CASE i \in DOMAIN wire
        <4>1. PICK j \in DOMAIN wire :
                j < i /\ wire[j].kind = "retired" /\ wire[j].generation = wire[i].generation
          BY <1>0, <1>2, <3>1 DEF Barriers, Wrote1
        <4> QED BY <1>0, <1>2, <3>1, <4>1 DEF Wrote1
      <3>2. CASE i = Len(wire) + 1
        <4>1. PICK j \in DOMAIN wire : wire[j].kind = "retired" /\ wire[j].generation = f.generation
          BY <1>2, <3>2 DEF Wrote1
        <4> QED BY <1>0, <1>2, <3>2, <4>1 DEF Wrote1
      <3> QED BY <1>0, <1>2, <3>1, <3>2 DEF Wrote1
    <2>4. (host \in Unsubscribing =>
             asked # 0 /\ (live = asked \/ \E i \in DOMAIN wire :
                             wire[i].kind = "retired" /\ wire[i].generation = asked))'
      BY <1>0, <1>2 DEF Barriers, Wrote1, HostMoves, Silent
    <2> QED BY <2>1, <2>2, <2>3, <2>4 DEF Barriers
  <1>3. CASE Silent
    <2>1. host' \in Before \cup {"refused"} => wire = << >> BY DEF HostMoves, Barriers
    <2>2. host' \in Unsubscribing => asked' # 0 /\ (live' = asked' \/ Retired(asked'))
      BY <1>3 DEF HostMoves, Barriers, Silent
    <2> QED BY <1>1, <1>3, <2>1, <2>2 DEF Silent
  <1>4. CASE Speaks \/ Answers
    <2>1. PICK f \in Frames : /\ Wrote1(f) /\ live' = live
                              /\ f.kind \in {"report", "resubscribing", "resubscribed", "subscribed"}
                              /\ entry.generation # 0 \/ host = "reply"
      BY <1>4 DEF Speaks, Answers
    <2>2. host \notin Before \cup {"refused"} BY <2>1, NoEntryIs DEF Control, Stream, Before
    <2> QED BY <1>2, <2>1, <2>2
  <1>5. CASE Confirms
    <2>1. PICK f \in Frames : /\ Wrote1(f) /\ live = 0 /\ live' = live /\ f.kind = "unsubscribed"
                              /\ f.generation = asked /\ host \in Unsubscribing
      BY <1>5 DEF Confirms
    <2>2. host \notin Before \cup {"refused"} BY <2>1 DEF Before, Unsubscribing
    <2>3. Retired(asked) BY <2>1 DEF Barriers
    <2> QED BY <1>2, <2>1, <2>2, <2>3
  <1>6. CASE Retires
    <2>1. PICK g \in Frames :
            /\ g.kind = "retired" /\ g.generation = live
            /\ \/ Wrote1(g)
               \/ \E f \in Frames : Wrote2(f, g) /\ f.kind \in {"error", "resubscribing"}
      BY <1>6 DEF Retires
    <2>2. PICK k \in 1..2 :
            /\ Len(wire') = Len(wire) + k /\ wire'[Len(wire) + k] = g
            /\ \A i \in 1..Len(wire) : wire'[i] = wire[i]
            /\ k = 2 => wire'[Len(wire) + 1].kind \in {"error", "resubscribing"}
      <3>1. CASE Wrote1(g) BY <3>1 DEF Wrote1
      <3>2. ASSUME NEW f \in Frames, Wrote2(f, g), f.kind \in {"error", "resubscribing"}
            PROVE  /\ Len(wire') = Len(wire) + 2 /\ wire'[Len(wire) + 2] = g
                   /\ \A i \in 1..Len(wire) : wire'[i] = wire[i]
                   /\ wire'[Len(wire) + 1].kind \in {"error", "resubscribing"}
        BY <3>2 DEF Wrote2
      <3> QED BY <2>1, <3>1, <3>2
    <2>3. /\ live # 0 /\ entry.generation # 0
          /\ live' = 0 \/ live' > live
      BY <1>6 DEF Retires
    <2>4. /\ \A i \in DOMAIN wire : wire[i].kind = "retired" => wire[i].generation < live
          /\ \A i, j \in DOMAIN wire :
               i # j /\ wire[i].kind = "retired" /\ wire[j].kind = "retired" =>
                 wire[j].generation # wire[i].generation
      BY <2>3 DEF Barriers
    <2>5. \A i \in DOMAIN wire' : wire'[i].kind = "retired" =>
            (i \in DOMAIN wire /\ wire'[i] = wire[i]) \/ (i = Len(wire) + k /\ wire'[i].generation = live)
      BY <1>0, <2>1, <2>2
    <2>6. (\A i \in DOMAIN wire : wire[i].kind = "retired" =>
            /\ live = 0 \/ wire[i].generation < live
            /\ \A j \in DOMAIN wire :
                 j # i /\ wire[j].kind = "retired" => wire[j].generation # wire[i].generation)'
      <3>1. \A i \in DOMAIN wire' : wire'[i].kind = "retired" =>
              live' = 0 \/ wire'[i].generation < live'
        BY <1>0, <2>3, <2>4, <2>5
      <3>2. \A i, j \in DOMAIN wire' :
               i # j /\ wire'[i].kind = "retired" /\ wire'[j].kind = "retired" =>
                 wire'[j].generation # wire'[i].generation
        BY <1>0, <2>4, <2>5
      <3> QED BY <3>1, <3>2
    <2>7. (host \in Before \cup {"refused"} => wire = << >>)'
      BY <2>3, NoEntryIs DEF HostMoves, Control, Stream
    <2>8. (\A i \in DOMAIN wire : wire[i].kind = "unsubscribed" =>
             \E j \in DOMAIN wire :
               j < i /\ wire[j].kind = "retired" /\ wire[j].generation = wire[i].generation)'
      <3>1. \A i \in DOMAIN wire' : wire'[i].kind = "unsubscribed" =>
              i \in DOMAIN wire /\ wire'[i] = wire[i]
        BY <1>0, <2>1, <2>2
      <3>2. \A i \in DOMAIN wire : i \in DOMAIN wire' /\ wire'[i] = wire[i] BY <1>0, <2>2
      <3> QED BY <3>1, <3>2 DEF Barriers
    <2>9. (host \in Unsubscribing =>
             asked # 0 /\ (live = asked \/ \E i \in DOMAIN wire :
                             wire[i].kind = "retired" /\ wire[i].generation = asked))'
      <3> SUFFICES ASSUME host' \in Unsubscribing
                   PROVE  asked' # 0 /\ \E i \in DOMAIN wire' :
                             wire'[i].kind = "retired" /\ wire'[i].generation = asked'
        OBVIOUS
      <3>1. ~Silent BY <1>0, <2>3 DEF Silent
      <3>2. host \in Unsubscribing /\ asked' = asked BY <3>1 DEF HostMoves
      <3>3. asked # 0 /\ (live = asked \/ Retired(asked)) BY <3>2 DEF Barriers
      <3>4. CASE live = asked
        <4>1. Len(wire) + k \in DOMAIN wire' BY <1>0, <2>2
        <4> QED BY <2>1, <2>2, <3>2, <3>3, <3>4, <4>1
      <3>5. CASE Retired(asked)
        <4>1. \A i \in DOMAIN wire : i \in DOMAIN wire' /\ wire'[i] = wire[i] BY <1>0, <2>2
        <4> QED BY <3>2, <3>3, <3>5, <4>1
      <3> QED BY <3>3, <3>4, <3>5
    <2> QED BY <2>6, <2>7, <2>8, <2>9 DEF Barriers
  <1>7. CASE Opens
    <2>1. wire = << >> /\ wire' = wire BY <1>7 DEF Opens, Barriers, Before
    <2>2. host' \notin Unsubscribing BY <1>7 DEF Opens, Unsubscribing
    <2> QED BY <1>1, <2>1, <2>2
  <1> QED BY <1>3, <1>4, <1>5, <1>6, <1>7 DEF Writes

\* The errors and the barriers make the terminal one.
LEMMA TerminalFacts ==
  ASSUME TypeOK, Errs, Barriers
  PROVE  OneTerminal
  <1>0. /\ DOMAIN wire = 1..Len(wire) /\ Len(wire) \in Nat BY FrameKinds
  <1>1. ASSUME NEW S \in SUBSET DOMAIN wire, \A i, j \in S : i = j
        PROVE  Cardinality(S) <= 1
    <2>1. CASE S = {} BY <2>1, FS_EmptySet
    <2>2. CASE S # {}
      <3>1. PICK x \in S : TRUE BY <2>2
      <3>2. S = {x} BY <1>1, <3>1
      <3> QED BY <3>2, FS_Singleton
    <2> QED BY <2>1, <2>2
  <1>2. Cardinality(Errors) <= 1
    <2>1. Errors \in SUBSET DOMAIN wire /\ \A i, j \in Errors : i = j BY DEF Errs, Errors
    <2> QED BY <1>1, <2>1
  <1>3. \A i \in Errors : \A j \in DOMAIN wire :
          j > i => wire[j].kind \in {"retired", "subscribed", "unsubscribed"}
    BY <1>0 DEF Errs, Errors
  <1>4. ASSUME NEW g \in 1..GenerationLimit
        PROVE  /\ Cardinality(At("retired", g)) <= 1
               /\ \A i \in At("unsubscribed", g) : \E j \in At("retired", g) : j < i
    <2>1. /\ At("retired", g) \in SUBSET DOMAIN wire
          /\ \A i, j \in At("retired", g) : i = j
      BY DEF Barriers, At
    <2>2. \A i \in At("unsubscribed", g) : \E j \in At("retired", g) : j < i BY DEF Barriers, At
    <2> QED BY <1>1, <2>1, <2>2
  <1> QED BY <1>2, <1>3, <1>4 DEF OneTerminal

-----------------------------------------------------------------------------
(* What a step does to the buffered reports.                               *)

\* The buffer keeps its reports and what it remembers.
Keeps ==
  /\ buffer'.ready = buffer.ready /\ buffer'.buffered = buffer.buffered
  /\ buffer'.generation = buffer.generation /\ buffer'.kind = buffer.kind
  /\ buffer'.cache = buffer.cache /\ buffer'.initial = buffer.initial
  /\ buffer'.established = buffer.established /\ buffer'.activated = buffer.activated
  /\ buffer'.active => buffer.active

\* The buffer is cancelled.
Drops ==
  /\ buffer'.ready = << >> /\ buffer'.buffered = << >>
  /\ buffer'.generation = buffer.generation /\ buffer'.kind = buffer.kind
  /\ buffer'.cache = buffer.cache /\ buffer'.initial = buffer.initial
  /\ buffer'.established = buffer.established /\ buffer'.activated = buffer.activated
  /\ ~buffer'.active

\* The buffer begins a generation.
Begins ==
  /\ buffer'.ready = << >> /\ buffer'.buffered = << >>
  /\ buffer'.generation = buffer.generation + 1 /\ buffer'.kind = buffer.kind
  /\ buffer'.cache = buffer.cache
  /\ ~buffer'.established /\ ~buffer'.activated

\* The ready reports are taken; an activation makes the buffered ones ready.
Hands(s) ==
  /\ IF buffer.active /\ buffer'.established /\ ~buffer.activated
       THEN s = buffer.buffered /\ buffer'.buffered = << >> /\ buffer'.activated
       ELSE /\ s = buffer.ready /\ buffer'.buffered = buffer.buffered
            /\ buffer'.activated = buffer.activated
  /\ buffer'.ready = << >> /\ buffer'.active = buffer.active
  /\ buffer'.generation = buffer.generation /\ buffer'.kind = buffer.kind
  /\ buffer'.cache = buffer.cache

\* A report is added.
Adds(r) ==
  /\ r \in Held /\ r.generation = buffer.generation /\ r.n = produced + 1
  /\ r.initial = ~buffer.established /\ ~Duplicate(buffer, r.id) /\ buffer.active
  /\ IF buffer.activated
       THEN buffer'.ready = Append(buffer.ready, r) /\ buffer'.buffered = buffer.buffered
       ELSE buffer'.ready = buffer.ready /\ buffer'.buffered = Append(buffer.buffered, r)
  /\ buffer'.generation = buffer.generation /\ buffer'.kind = buffer.kind
  /\ buffer'.cache = IF buffer.kind = "event" THEN Newest(Append(buffer.cache, r.id))
                     ELSE buffer.cache
  /\ buffer'.initial = IF buffer.kind = "event" \/ buffer.established THEN buffer.initial
                       ELSE buffer.initial \cup {r.id}
  /\ buffer'.established = buffer.established /\ buffer'.activated = buffer.activated

\* OnAttributeData and OnEventData add a report or leave the buffered ones.
LEMMA OnDataEffect ==
  ASSUME TypeOK, OnData
  PROVE  /\ Keeps \/ (UNCHANGED sdk /\ \E r : Adds(r))
         /\ sdk' \in {"idle", "fail"}
  <1>0. sdk = "idle" /\ sdk' \in {"idle", "fail"} /\ buffer \in Buffers /\ produced \in Nat
    BY DEF OnData, SdkIdle, Fails, TypeOK, HostOK
  <1>1. ASSUME NEW id \in Reportable(buffer), CanAdd(buffer), ~Duplicate(buffer, id),
               buffer' = Record(AddTo(buffer,
                           [generation |-> buffer.generation, n |-> produced + 1,
                            id |-> id, initial |-> ~buffer.established]), id)
        PROVE  \E r : Adds(r)
    <2> DEFINE r == [generation |-> buffer.generation, n |-> produced + 1,
                     id |-> id, initial |-> ~buffer.established]
               c == Record(AddTo(buffer, r), id)
    <2>1. id \in Ids BY DEF Reportable, Ids
    <2>2. /\ r \in Held /\ r.generation = buffer.generation /\ r.n = produced + 1
          /\ r.initial = ~buffer.established /\ r.id = id
      BY <1>0, <2>1 DEF Held, Buffers
    <2>3. buffer' = c BY <1>1
    <2> HIDE DEF r
    <2>4. /\ c.kind = buffer.kind /\ c.established = buffer.established
          /\ c.activated = buffer.activated /\ c.generation = buffer.generation
          /\ IF buffer.activated
               THEN c.ready = Append(buffer.ready, r) /\ c.buffered = buffer.buffered
               ELSE c.ready = buffer.ready /\ c.buffered = Append(buffer.buffered, r)
          /\ c.cache = IF buffer.kind = "event" THEN Newest(Append(buffer.cache, id))
                       ELSE buffer.cache
          /\ c.initial = IF buffer.kind = "event" \/ buffer.established THEN buffer.initial
                         ELSE buffer.initial \cup {id}
      <3> HIDE DEF c
      <3>1. c = Record(AddTo(buffer, r), id) BY DEF c
      <3>2. buffer \in Buffers /\ r \in Held /\ id \in Ids BY <1>0, <2>1, <2>2
      <3>3. /\ c.kind = buffer.kind /\ c.established = buffer.established
            /\ c.activated = buffer.activated /\ c.generation = buffer.generation
        BY ONLY <3>1, <3>2, AddFields
      <3>4. IF buffer.activated
              THEN c.ready = Append(buffer.ready, r) /\ c.buffered = buffer.buffered
              ELSE c.ready = buffer.ready /\ c.buffered = Append(buffer.buffered, r)
        <4>1. CASE buffer.activated
          <5>1. c.ready = Append(buffer.ready, r) BY ONLY <3>1, <3>2, <4>1, AddFields
          <5>2. c.buffered = buffer.buffered BY ONLY <3>1, <3>2, <4>1, AddFields
          <5> QED BY <4>1, <5>1, <5>2
        <4>2. CASE ~buffer.activated
          <5>1. c.buffered = Append(buffer.buffered, r) BY ONLY <3>1, <3>2, <4>2, AddFields
          <5>2. c.ready = buffer.ready BY ONLY <3>1, <3>2, <4>2, AddFields
          <5> QED BY <4>2, <5>1, <5>2
        <4> QED BY <4>1, <4>2
      <3>5. c.cache = IF buffer.kind = "event" THEN Newest(Append(buffer.cache, id))
                      ELSE buffer.cache
        BY ONLY <3>1, <3>2, AddFields
      <3>6. c.initial = IF buffer.kind = "event" \/ buffer.established THEN buffer.initial
                        ELSE buffer.initial \cup {id}
        BY ONLY <3>1, <3>2, AddFields
      <3> QED BY <3>3, <3>4, <3>5, <3>6
    <2> HIDE DEF c
    <2>5. Adds(r) BY <1>1, <2>2, <2>3, <2>4 DEF Adds, CanAdd
    <2> QED BY <2>5
  <1>2. CASE buffer' = buffer BY <1>0, <1>2 DEF Keeps
  <1>3. CASE buffer' = [buffer EXCEPT !.active = FALSE]
    <2>1. Keeps BY <1>0, <1>3, BufferFields DEF Keeps
    <2> QED BY <1>0, <2>1
  <1>4. CASE \E id \in Reportable(buffer) :
               /\ CanAdd(buffer) /\ ~Duplicate(buffer, id) /\ UNCHANGED sdk
               /\ buffer' = Record(AddTo(buffer,
                     [generation |-> buffer.generation, n |-> produced + 1,
                      id |-> id, initial |-> ~buffer.established]), id)
    BY <1>0, <1>1, <1>4
  <1> QED BY <1>2, <1>3, <1>4 DEF OnData

\* OnSubscriptionEstablished: only a recovery hands over the reports.
LEMMA EstablishedEffect ==
  ASSUME TypeOK, Control, Order, Established
  PROVE  /\ ~buffer.activated /\ buffer'.established
         /\ \/ /\ sdk' = "announce" /\ Hands(carried')
            \/ /\ sdk' = "publish" /\ UNCHANGED carried /\ ~buffer'.activated
               /\ buffer'.ready = buffer.ready /\ buffer'.buffered = buffer.buffered
               /\ buffer'.generation = buffer.generation /\ buffer'.kind = buffer.kind
               /\ buffer'.cache = buffer.cache
  <1> DEFINE e == Establish(buffer)
             a == ActivateBuffer(e)
  <1>0. buffer \in Buffers /\ buffer.active /\ ~buffer.established /\ ~buffer.activated
    BY DEF TypeOK, Established, CanEstablish, Control, Buffered
  <1>1. /\ e \in Buffers /\ e.active = buffer.active /\ e.established /\ e.generation = buffer.generation
        /\ e.activated = buffer.activated /\ e.kind = buffer.kind /\ e.cache = buffer.cache
        /\ e.ready = buffer.ready /\ e.buffered = buffer.buffered
    BY <1>0, BufferTypes, BufferFields
  <1>2. /\ buffer' = IF recovery.recovering THEN TakeReady(a) ELSE e
        /\ IF recovery.recovering THEN sdk' = "announce" /\ carried' = a.ready
             ELSE sdk' = "publish" /\ UNCHANGED carried
    BY DEF Established
  <1>3. a \in Buffers BY <1>1, BufferTypes
  <1> HIDE DEF e
  <1>4. /\ a.activated /\ a.ready = e.ready \o e.buffered /\ a.buffered = << >>
        /\ a.active = e.active /\ a.kind = e.kind /\ a.established = e.established
        /\ a.generation = e.generation /\ a.cache = e.cache
    BY <1>0, <1>1, ActivateFields
  <1> HIDE DEF a
  <1>5. CASE ~recovery.recovering BY <1>0, <1>1, <1>2, <1>5
  <1>6. CASE recovery.recovering
    <2>1. buffer.ready \in Seq(Held) /\ buffer.buffered \in Seq(Held) BY <1>0 DEF Buffers
    <2>2. buffer.ready = << >> BY <1>0 DEF Order, Lined
    <2>3. a.ready = buffer.buffered BY <1>1, <1>4, <2>1, <2>2, ConcatEmptySeq
    <2>4. buffer' = TakeReady(a) /\ sdk' = "announce" /\ carried' = a.ready BY <1>2, <1>6
    <2>5. /\ buffer'.active = a.active /\ buffer'.kind = a.kind
          /\ buffer'.established = a.established /\ buffer'.activated = a.activated
          /\ buffer'.buffered = a.buffered /\ buffer'.ready = << >>
          /\ buffer'.generation = a.generation /\ buffer'.cache = a.cache
      BY ONLY <1>3, <2>4, TakeFields
    <2>6. Hands(carried') BY <1>0, <1>1, <1>4, <2>3, <2>4, <2>5 DEF Hands
    <2> QED BY <1>0, <1>1, <1>4, <2>4, <2>5, <2>6
  <1> QED BY <1>5, <1>6

\* Activate hands over the reports once the response is published.
LEMMA ActivateEffect ==
  ASSUME TypeOK, Order, Activate
  PROVE  \/ UNCHANGED <<buffer, taken>>
         \/ /\ Hands(taken') /\ buffer'.established = buffer.established
            /\ buffer'.initial = buffer.initial
  <1> DEFINE a == ActivateBuffer(buffer)
  <1>0. buffer \in Buffers /\ a \in Buffers BY BufferTypes DEF TypeOK
  <1>1. CASE UNCHANGED <<buffer, taken>> BY <1>1
  <1>2. CASE taken' = a.ready /\ buffer' = TakeReady(a)
    <2>1. /\ a.active = buffer.active /\ a.kind = buffer.kind
          /\ a.established = buffer.established /\ a.generation = buffer.generation
          /\ a.initial = buffer.initial /\ a.cache = buffer.cache
          /\ IF buffer.active /\ buffer.established /\ ~buffer.activated
               THEN a.activated /\ a.ready = buffer.ready \o buffer.buffered /\ a.buffered = << >>
               ELSE /\ a.activated = buffer.activated /\ a.ready = buffer.ready
                    /\ a.buffered = buffer.buffered
      BY <1>0, ActivateFields
    <2> HIDE DEF a
    <2>2. /\ buffer'.active = a.active /\ buffer'.kind = a.kind
          /\ buffer'.established = a.established /\ buffer'.activated = a.activated
          /\ buffer'.buffered = a.buffered /\ buffer'.ready = << >>
          /\ buffer'.generation = a.generation /\ buffer'.cache = a.cache
          /\ buffer'.initial = a.initial
      BY ONLY <1>0, <1>2, TakeFields
    <2>3. buffer.ready \in Seq(Held) /\ buffer.buffered \in Seq(Held) BY <1>0 DEF Buffers
    <2>4. CASE buffer.active /\ buffer.established /\ ~buffer.activated
      <3>1. buffer.ready = << >> BY <2>4 DEF Order, Lined
      <3>2. taken' = buffer.buffered BY <1>2, <2>1, <2>3, <2>4, <3>1, ConcatEmptySeq
      <3> QED BY <2>1, <2>2, <2>4, <3>2 DEF Hands
    <2>5. CASE ~(buffer.active /\ buffer.established /\ ~buffer.activated)
      BY <1>2, <2>1, <2>2, <2>5 DEF Hands
    <2> QED BY <2>4, <2>5
  <1> QED BY <1>1, <1>2 DEF Activate

\* OnResubscriptionNeeded begins a generation, once in a recovery.
LEMMA NeededEffect ==
  ASSUME TypeOK, Control, OnResubscriptionNeeded
  PROVE  /\ Keeps \/ Begins
         /\ sdk' \in {"status", "fail"}
  <1> DEFINE g == Recovering(recovery).generation
  <1>0. buffer \in Buffers /\ recovery \in Recoveries BY DEF TypeOK
  <1>1. sdk' \in {"status", "fail"} BY DEF OnResubscriptionNeeded, Fails
  <1>2. CASE UNCHANGED buffer BY <1>1, <1>2 DEF Keeps
  <1>3. CASE buffer' = [buffer EXCEPT !.active = FALSE]
    <2>1. Keeps BY <1>0, <1>3, BufferFields DEF Keeps
    <2> QED BY <1>1, <2>1
  <1>4. CASE CanPrepare(buffer, g) /\ buffer' = PrepareRecovery(buffer, g)
    <2>1. g = buffer.generation + 1 /\ buffer.generation \in Nat /\ g \in Nat \ {0}
      BY <1>0, <1>4 DEF CanPrepare, Buffers
    <2> HIDE DEF g
    <2>2. Begins BY <1>0, <1>4, <2>1, PrepareFields DEF Begins
    <2> QED BY <1>1, <2>2
  <1> QED BY <1>2, <1>3, <1>4 DEF OnResubscriptionNeeded

\* The other operations on the buffer.
LEMMA BufferEffects ==
  ASSUME TypeOK
  PROVE  /\ CancelWork => Drops
         /\ OnReportBegin => Keeps
         /\ EstablishRefused => Keeps
         /\ FailActive => UNCHANGED buffer \/ Drops
         /\ OnReportEnd =>
              /\ carried' = buffer.ready /\ buffer'.ready = << >>
              /\ buffer'.buffered = buffer.buffered /\ buffer'.active = buffer.active
              /\ buffer'.generation = buffer.generation /\ buffer'.kind = buffer.kind
              /\ buffer'.cache = buffer.cache /\ buffer'.initial = buffer.initial
              /\ buffer'.established = buffer.established
              /\ buffer'.activated = buffer.activated
  <1>0. buffer \in Buffers BY DEF TypeOK
  <1>1. buffer' = CancelBuffer(buffer) => Drops BY <1>0, BufferFields DEF Drops
  <1>2. CancelWork => Drops BY <1>1 DEF CancelWork
  <1>3. FailActive => UNCHANGED buffer \/ Drops BY <1>1 DEF FailActive
  <1>4. OnReportBegin => Keeps BY <1>0, BufferFields DEF Keeps, OnReportBegin
  <1>5. EstablishRefused => Keeps BY <1>0, BufferFields DEF Keeps, EstablishRefused
  <1>6. ASSUME OnReportEnd
        PROVE /\ carried' = buffer.ready /\ buffer'.ready = << >>
              /\ buffer'.buffered = buffer.buffered /\ buffer'.active = buffer.active
              /\ buffer'.generation = buffer.generation /\ buffer'.kind = buffer.kind
              /\ buffer'.cache = buffer.cache /\ buffer'.initial = buffer.initial
              /\ buffer'.established = buffer.established
              /\ buffer'.activated = buffer.activated
    <2>1. carried' = buffer.ready /\ buffer' = TakeReady(EndReport(buffer))
      BY <1>6 DEF OnReportEnd
    <2> QED BY ONLY <1>0, <2>1, BufferFields
  <1> QED BY <1>2, <1>3, <1>4, <1>5, <1>6

-----------------------------------------------------------------------------
(* The fence.                                                              *)

\* What is written stays written.
LEMMA Grows ==
  ASSUME TypeOK, TypeOK', Writes
  PROVE  /\ \A i \in DOMAIN wire : i \in DOMAIN wire' /\ wire'[i] = wire[i]
         /\ \A g \in Nat : Announced(g) => Announced(g)'
  <1>0. /\ DOMAIN wire = 1..Len(wire) /\ Len(wire) \in Nat
        /\ DOMAIN wire' = 1..Len(wire') /\ Len(wire') \in Nat
    BY FrameKinds DEF TypeOK, HostOK
  <1>1. \A i \in DOMAIN wire : i \in DOMAIN wire' /\ wire'[i] = wire[i]
    <2>1. CASE Silent \/ Opens BY <2>1 DEF Silent, Opens
    <2>2. CASE Speaks BY <1>0, <2>2 DEF Speaks, Wrote1
    <2>3. CASE Answers BY <1>0, <2>3 DEF Answers, Wrote1
    <2>4. CASE Confirms BY <1>0, <2>4 DEF Confirms, Wrote1
    <2>5. CASE Retires
      <3>1. PICK g \in Frames : Wrote1(g) \/ \E f \in Frames : Wrote2(f, g)
        BY <2>5 DEF Retires
      <3>2. CASE Wrote1(g) BY <1>0, <3>2 DEF Wrote1
      <3>3. ASSUME NEW f \in Frames, Wrote2(f, g)
            PROVE  \A i \in DOMAIN wire : i \in DOMAIN wire' /\ wire'[i] = wire[i]
        BY <1>0, <3>3 DEF Wrote2
      <3> QED BY <3>1, <3>2, <3>3
    <2> QED BY <2>1, <2>2, <2>3, <2>4, <2>5 DEF Writes
  <1>2. \A g \in Nat : Announced(g) => Announced(g)' BY <1>1 DEF Announced
  <1> QED BY <1>1, <1>2

\* A report is written between the announcement and the barrier of its
\* generation when its generation is live and has been announced.
LEMMA FenceWire ==
  ASSUME TypeOK, TypeOK', Control, Barriers, GenerationFence, Writes,
         \A i \in DOMAIN wire' : i > Len(wire) /\ wire'[i].kind = "report" => Announced(live)
  PROVE  GenerationFence'
  <1>0. /\ DOMAIN wire = 1..Len(wire) /\ Len(wire) \in Nat /\ live \in Nat
        /\ DOMAIN wire' = 1..Len(wire') /\ Len(wire') \in Nat
    BY FrameKinds DEF TypeOK, HostOK
  <1>1. CASE Silent \/ Opens BY <1>1 DEF Silent, Opens, GenerationFence, At
  <1>2. ASSUME NEW k \in 1..2, Len(wire') = Len(wire) + k,
               \A i \in DOMAIN wire : wire'[i] = wire[i],
               \A i \in DOMAIN wire' : i > Len(wire) => wire'[i].kind # "report"
        PROVE  GenerationFence'
    <2> SUFFICES ASSUME NEW i \in DOMAIN wire', wire'[i].kind = "report"
                 PROVE  /\ \E j \in DOMAIN wire' : /\ wire'[j].kind \in {"subscribed", "resubscribed"}
                                                   /\ wire'[j].generation = wire'[i].generation
                                                   /\ j < i
                        /\ \A j \in DOMAIN wire' : wire'[j].kind = "retired" /\
                             wire'[j].generation = wire'[i].generation => j > i
      BY DEF GenerationFence, At
    <2>1. i \in DOMAIN wire /\ wire'[i] = wire[i] BY <1>0, <1>2
    <2>2. /\ \E j \in DOMAIN wire : /\ wire[j].kind \in {"subscribed", "resubscribed"}
                                    /\ wire[j].generation = wire[i].generation /\ j < i
          /\ \A j \in DOMAIN wire : wire[j].kind = "retired" /\
               wire[j].generation = wire[i].generation => j > i
      BY <2>1 DEF GenerationFence, At
    <2>3. \A j \in DOMAIN wire : j \in DOMAIN wire' /\ wire'[j] = wire[j] BY <1>0, <1>2
    <2>4. \A j \in DOMAIN wire' : j \in DOMAIN wire \/ j > i BY <1>0, <2>1
    <2> QED BY <2>1, <2>2, <2>3, <2>4
  <1>3. CASE Speaks
    <2>1. PICK f \in Frames :
            /\ Wrote1(f) /\ f.kind \in {"report", "resubscribing", "resubscribed"}
            /\ f.kind = "report" => f.generation = live /\ live # 0
      BY <1>3 DEF Speaks
    <2>2. CASE f.kind # "report"
      BY <1>0, <1>2, <2>1, <2>2 DEF Wrote1
    <2>3. CASE f.kind = "report"
      <3> SUFFICES ASSUME NEW i \in DOMAIN wire', wire'[i].kind = "report"
                   PROVE  /\ \E j \in DOMAIN wire' : /\ wire'[j].kind \in {"subscribed", "resubscribed"}
                                                     /\ wire'[j].generation = wire'[i].generation
                                                     /\ j < i
                          /\ \A j \in DOMAIN wire' : wire'[j].kind = "retired" /\
                               wire'[j].generation = wire'[i].generation => j > i
        BY DEF GenerationFence, At
      <3>0. \A j \in DOMAIN wire : j \in DOMAIN wire' /\ wire'[j] = wire[j]
        BY <1>0, <2>1 DEF Wrote1
      <3>1. CASE i \in DOMAIN wire
        <4>1. /\ \E j \in DOMAIN wire : /\ wire[j].kind \in {"subscribed", "resubscribed"}
                                        /\ wire[j].generation = wire[i].generation /\ j < i
              /\ \A j \in DOMAIN wire : wire[j].kind = "retired" /\
                   wire[j].generation = wire[i].generation => j > i
          BY <3>0, <3>1 DEF GenerationFence, At
        <4>2. \A j \in DOMAIN wire' : j \in DOMAIN wire \/ j > i BY <1>0, <3>1
        <4> QED BY <3>0, <3>1, <4>1, <4>2
      <3>2. CASE i \notin DOMAIN wire
        <4>1. i = Len(wire) + 1 /\ wire'[i] = f BY <1>0, <2>1, <3>2 DEF Wrote1
        <4>2. PICK j \in DOMAIN wire : wire[j].kind \in {"subscribed", "resubscribed"} /\
                                       wire[j].generation = live
          BY <1>0, <4>1 DEF Announced
        <4>3. \A m \in DOMAIN wire' : wire'[m].kind = "retired" => m \in DOMAIN wire
          BY <1>0, <2>1, <2>3, <4>1 DEF Wrote1
        <4>4. \A m \in DOMAIN wire : wire[m].kind = "retired" => wire[m].generation # live
          BY <1>0, <2>1, <2>3, FrameKinds DEF Barriers
        <4> QED BY <1>0, <2>1, <2>3, <3>0, <4>1, <4>2, <4>3, <4>4
      <3> QED BY <3>1, <3>2
    <2> QED BY <2>2, <2>3
  <1>4. CASE Answers \/ Confirms
    <2>1. PICK f \in Frames : Wrote1(f) /\ f.kind \in {"subscribed", "unsubscribed"}
      BY <1>4 DEF Answers, Confirms
    <2> QED BY <1>0, <1>2, <2>1 DEF Wrote1
  <1>5. CASE Retires
    <2>1. PICK g \in Frames :
            /\ g.kind = "retired"
            /\ \/ Wrote1(g)
               \/ \E f \in Frames : Wrote2(f, g) /\ f.kind \in {"error", "resubscribing"}
      BY <1>5 DEF Retires
    <2>2. CASE Wrote1(g) BY <1>0, <1>2, <2>1, <2>2 DEF Wrote1
    <2>3. ASSUME NEW f \in Frames, Wrote2(f, g), f.kind \in {"error", "resubscribing"}
          PROVE  GenerationFence'
      <3>1. \A i \in DOMAIN wire' : i > Len(wire) => wire'[i].kind # "report"
        BY <1>0, <2>1, <2>3 DEF Wrote2
      <3> QED BY <1>0, <1>2, <2>3, <3>1 DEF Wrote2
    <2> QED BY <2>1, <2>2, <2>3
  <1> QED BY <1>1, <1>3, <1>4, <1>5 DEF Writes

\* The host thread serves only after the reply.
LEMMA ServesStep ==
  ASSUME TypeOK, TypeOK', Control, Fence, Writes, Next
  PROVE  host' \in Serves => Announced(1)'
  <1>1. CASE Reply
    <2> DEFINE f == Frame("subscribed", result.generation, 0)
    <2>1. result.generation = 1 /\ wire' = Append(wire, f)
      BY <1>1 DEF Reply, HostAt, Control, Response
    <2>2. f \in Frames /\ f.kind = "subscribed" /\ f.generation = 1 BY <2>1, PlainFrame
    <2>3. Wrote1(f) BY <2>1, <2>2, Writing, FrameKinds
    <2> HIDE DEF f
    <2>4. DOMAIN wire' = 1..Len(wire') /\ Len(wire) \in Nat BY FrameKinds DEF TypeOK, HostOK
    <2> QED BY <2>2, <2>3, <2>4 DEF Wrote1, Announced
  <1>2. CASE ~Reply
    <2> USE DEF Serves, Unsubscribing, HostAt
    <2>0. host' \in Serves => host \in Serves
      <3>1. CASE SdkSteps \/ Work \/ Callbacks BY <3>1, SdkMoves DEF hostside
      <3>2. CASE Submit \/ WaitReturns \/ WaitTimesOut \/ Expired \/ AnswerFailure \/
                 AddStream \/ AddStreamRefused
        BY <3>2 DEF Submit, WaitReturns, WaitTimesOut, Expired, AnswerFailure, AddStream,
                    AddStreamRefused
      <3>3. CASE FindForActivation \/ Activate \/ ActivateEmits \/ Activated
        BY <3>3 DEF FindForActivation, Activate, ActivateEmits, Activated
      <3>4. CASE FindForCancel \/ HostCancels \/ CancelWaitEnds \/ CancelAnswered \/
                 CancelRetires \/ CancelErases
        BY <3>4 DEF FindForCancel, HostCancels, CancelWaitEnds, CancelAnswered, CancelRetires,
                    CancelErases
      <3>5. CASE Requests BY <3>5 DEF Requests, Unsubscribe
      <3> QED BY <1>2, <3>1, <3>2, <3>3, <3>4, <3>5 DEF Next, HostSteps
    <2> QED BY <2>0, Grows DEF Fence
  <1> QED BY <1>1, <1>2

\* The sections that leave the reports where they are.
Calm ==
  /\ UNCHANGED <<buffer, carried, taken, produced>>
  /\ \/ sdk' = sdk
     \/ /\ sdk \notin {"announce", "fail", "settle"} /\ (sdk = "emit" => carried = << >>)
        /\ sdk' \notin {"emit", "announce", "settle"}

\* Every section but those that call the buffer or emit its reports is calm.
LEMMA CalmSteps ==
  ASSUME TypeOK,
         StartWork \/ ReapWork \/ Mark \/ OnConnected \/ ConnectionFailed \/ EmitEnds \/
         EmitFailure \/ SdkCancels \/ EstablishedWithout \/ Publish \/ Lost \/
         Resubscribing \/ TimerRefused \/ RecoveryDeadline \/ Closes \/ OnDone \/
         Submit \/ WaitReturns \/ WaitTimesOut \/ Expired \/ AnswerFailure \/
         AddStream \/ AddStreamRefused \/ Reply \/ FindForActivation \/ Activated \/
         FindForCancel \/ HostCancels \/ CancelWaitEnds \/ CancelAnswered \/
         CancelRetires \/ CancelErases \/ Requests
  PROVE  Calm
  <1> USE DEF Calm, flags, sdkside
  <1>1. CASE StartWork \/ ReapWork \/ Mark \/ OnConnected \/ ConnectionFailed \/ EmitEnds
    BY <1>1 DEF StartWork, ReapWork, Mark, OnConnected, ConnectionFailed, EmitEnds, SdkIdle, hostside
  <1>2. CASE EmitFailure \/ SdkCancels \/ EstablishedWithout \/ Publish \/ Lost
    <2>1. CASE EmitFailure BY <2>1 DEF EmitFailure, hostside
    <2>2. CASE SdkCancels BY <2>2 DEF SdkCancels, hostside, TypeOK, SdkOK
    <2>3. CASE EstablishedWithout \/ Publish \/ Lost
      BY <2>3 DEF EstablishedWithout, Publish, Lost, SdkIdle, Fails, hostside
    <2> QED BY <1>2, <2>1, <2>2, <2>3
  <1>3. CASE Resubscribing \/ TimerRefused \/ RecoveryDeadline \/ Closes \/ OnDone
    BY <1>3 DEF Resubscribing, TimerRefused, RecoveryDeadline, Closes, OnDone, SdkIdle, Fails,
                hostside
  <1>4. CASE Submit \/ WaitReturns \/ WaitTimesOut \/ Expired \/ AnswerFailure \/
             AddStream \/ AddStreamRefused \/ Reply
    BY <1>4 DEF Submit, WaitReturns, WaitTimesOut, Expired, AnswerFailure, AddStream,
                AddStreamRefused, Reply
  <1>5. CASE FindForActivation \/ Activated \/ FindForCancel \/ HostCancels \/ CancelWaitEnds
    BY <1>5 DEF FindForActivation, Activated, FindForCancel, HostCancels, CancelWaitEnds
  <1>6. CASE CancelAnswered \/ CancelRetires \/ CancelErases \/ Requests
    BY <1>6 DEF CancelAnswered, CancelRetires, CancelErases, Requests, Unsubscribe
  <1> QED BY <1>1, <1>2, <1>3, <1>4, <1>5, <1>6

\* Only the two emitting loops write reports.
PlainWrites == \A i \in DOMAIN wire' : i > Len(wire) => wire'[i].kind # "report"

\* A step in which neither loop emits a report writes none.
LEMMA NextPlain ==
  ASSUME TypeOK, TypeOK', Control, Barriers, Next,
         ~(EmitOne /\ EmitReport(Head(carried), "sdk")),
         ~(ActivateEmits /\ EmitReport(Head(taken), "host"))
  PROVE  PlainWrites
  <1>0. /\ DOMAIN wire = 1..Len(wire) /\ Len(wire) \in Nat /\ wire \in Seq(Frames)
        /\ DOMAIN wire' = 1..Len(wire') /\ Len(wire') \in Nat
        /\ live \in Nat /\ asked \in Nat /\ result.generation \in Nat
        /\ recovery.generation \in Nat
    BY FrameKinds DEF TypeOK, HostOK, Recoveries
  <1>1. CASE wire' = wire BY <1>0, <1>1 DEF PlainWrites
  <1>2. ASSUME NEW f \in Frames, f.kind # "report", wire' = wire \o <<f>> \/ wire' = Append(wire, f)
        PROVE  PlainWrites
    <2>1. Wrote1(f) BY <1>0, <1>2, Writing
    <2> QED BY <1>0, <1>2, <2>1 DEF Wrote1, PlainWrites
  <1>3. ASSUME NEW f \in Frames, NEW g \in Frames, f.kind # "report", g.kind # "report",
               wire' = wire \o <<f, g>>
        PROVE  PlainWrites
    <2>1. Wrote2(f, g) BY <1>0, <1>3, Writing
    <2> QED BY <1>0, <1>3, <2>1 DEF Wrote2, PlainWrites
  <1>4. CASE wire' = wire \o <<Frame("error", live, 0), Frame("retired", live, 0)>>
    BY <1>0, <1>3, <1>4, PlainFrame
  <1>5. CASE EmitOne
    BY <1>1, <1>4, <1>5 DEF EmitOne, EmitReportRefused, Emits, protocol
  <1>6. CASE ActivateEmits
    BY <1>1, <1>4, <1>6 DEF ActivateEmits, EmitReportRefused, Emits, protocol
  <1>7. CASE EmitFailure BY <1>1, <1>4, <1>7 DEF EmitFailure, Emits
  <1>8. CASE Announce
    <2>1. \/ wire' = wire
          \/ wire' = wire \o <<Frame("resubscribed", recovery.generation, 0)>>
      BY <1>8 DEF Announce, Emits
    <2>2. CASE wire' = wire \o <<Frame("resubscribed", recovery.generation, 0)>> BY <1>0, <1>2, <2>2, PlainFrame
    <2> QED BY <1>1, <2>1, <2>2
  <1>9. CASE Resubscribing
    <2>1. \/ wire' = wire
          \/ wire' = wire \o <<Frame("resubscribing", recovery.generation, 0)>>
          \/ wire' = wire \o <<Frame("resubscribing", recovery.generation, 0),
                               Frame("retired", live, 0)>>
      BY <1>9 DEF Resubscribing, EmitResubscribing, ResubscribingRefused, Emits, protocol
    <2>2. CASE wire' = wire \o <<Frame("resubscribing", recovery.generation, 0),
                                 Frame("retired", live, 0)>>
      BY <1>0, <1>3, <2>2, PlainFrame
    <2>3. CASE wire' = wire \o <<Frame("resubscribing", recovery.generation, 0)>>
      BY <1>0, <1>2, <2>3, PlainFrame
    <2> QED BY <1>1, <2>1, <2>2, <2>3
  <1>10. CASE Reply
    <2>1. wire' = Append(wire, Frame("subscribed", result.generation, 0)) BY <1>10 DEF Reply
    <2> QED BY <1>0, <1>2, <2>1, PlainFrame
  <1>11. CASE CancelAnswered \/ CancelErases
    <2>1. wire' = wire \/ wire' = Append(wire, Frame("unsubscribed", asked, 0))
      BY <1>11 DEF CancelAnswered, CancelErases
    <2> QED BY <1>0, <1>1, <1>2, <2>1, PlainFrame
  <1>12. CASE CancelRetires
    <2>1. wire' = wire \/ wire' = wire \o <<Frame("retired", live, 0)>>
      BY <1>12 DEF CancelRetires, Emits
    <2>2. CASE wire' = wire \o <<Frame("retired", live, 0)>> BY <1>0, <1>2, <2>2, PlainFrame
    <2> QED BY <1>1, <2>1, <2>2
  <1>13. CASE AddStream BY <1>1, <1>13 DEF AddStream
  <1>14. CASE SdkSteps
    BY <1>14, <1>1, <1>5, <1>7, <1>8, <1>9, SilentSteps DEF SdkSteps, Silent
  <1>15. CASE Work BY <1>15, <1>1, SilentSteps DEF Work, Silent
  <1>16. CASE Callbacks BY <1>16, <1>1, SilentSteps DEF Callbacks, Silent
  <1>17. CASE HostSteps
    BY <1>17, <1>1, <1>6, <1>10, <1>11, <1>12, <1>13, SilentSteps DEF HostSteps, Silent
  <1>18. CASE Requests BY <1>18, <1>1, SilentSteps DEF Silent
  <1> QED BY <1>14, <1>15, <1>16, <1>17, <1>18 DEF Next

\* Where a report is held, its generation is the buffer's, or announced.
LEMMA HoldingStep ==
  ASSUME TypeOK, TypeOK', Control, Order, Fence, Writes, Next
  PROVE  Holding'
  <1>0. /\ \A g \in Nat : Announced(g) => Announced(g)'
        /\ buffer.generation \in Nat /\ buffer'.generation \in Nat
        /\ buffer.ready \in Seq(Held) /\ buffer.buffered \in Seq(Held)
        /\ carried \in Seq(Held) /\ taken \in Seq(Held)
        /\ \A r \in Held : r.generation \in Nat
    BY Grows DEF TypeOK, Buffers, SdkOK, HostOK, Held
  <1>w. \A i \in DOMAIN wire : i \in DOMAIN wire' /\ wire'[i] = wire[i] BY Grows
  <1>h. Holding BY DEF Fence
  <1>g. /\ \A i \in DOMAIN carried : carried[i].generation \in Nat
        /\ \A i \in DOMAIN taken : taken[i].generation \in Nat
    BY <1>0
  <1>1. CASE Calm
    <2>1. UNCHANGED <<buffer, carried, taken>> BY <1>1 DEF Calm
    <2>2. /\ (\A i \in DOMAIN buffer.ready : buffer.ready[i].generation = buffer.generation)'
          /\ (\A i \in DOMAIN buffer.buffered : buffer.buffered[i].generation = buffer.generation)'
          /\ (buffer.ready # << >> => Announced(buffer.generation))'
          /\ (\A i \in DOMAIN taken : Announced(taken[i].generation))'
      BY <1>0, <1>h, <1>g, <2>1 DEF Holding
    <2>3. /\ (buffer.active /\ buffer.activated /\ sdk \notin {"announce", "fail"} =>
               Announced(buffer.generation))'
      BY <1>0, <1>h, <1>1, <2>1 DEF Holding, Calm
    <2>4. /\ (carried # << >> => sdk \in {"emit", "announce", "settle"})'
          /\ (sdk = "emit" => \A i \in DOMAIN carried : Announced(carried[i].generation))'
          /\ (sdk \in {"announce", "settle"} =>
               \A i \in DOMAIN carried : carried[i].generation = buffer.generation)'
      BY <1>0, <1>h, <1>g, <1>1, <2>1 DEF Holding, Calm
    <2> QED BY <2>2, <2>3, <2>4 DEF Holding
  <1>2. CASE Settle
    <2>1. /\ UNCHANGED <<buffer, carried, taken>> /\ sdk = "settle" /\ sdk' = "emit"
          /\ buffer.active /\ buffer.activated
      BY <1>2 DEF Settle, hostside, Control, Buffered
    <2> QED BY <1>0, <1>h, <1>g, <2>1 DEF Holding
  <1>3. CASE Announce
    <2>1. /\ sdk = "announce" /\ UNCHANGED <<buffer, taken>>
          /\ buffer.generation = recovery.generation
      BY <1>3 DEF Announce, hostside, Control, Buffered
    <2>2. CASE SettleAdmitted(recovery.generation, recovery.attempts)
      <3> DEFINE f == Frame("resubscribed", buffer.generation, 0)
      <3>1. wire' = wire \o <<f>> /\ sdk' = "settle" /\ UNCHANGED carried
        BY <1>3, <2>1, <2>2 DEF Announce, Emits
      <3>2. f \in Frames /\ f.kind = "resubscribed" /\ f.generation = buffer.generation
        BY <1>0, PlainFrame
      <3>3. Wrote1(f) BY <3>1, <3>2, Writing, FrameKinds
      <3>4. DOMAIN wire' = 1..Len(wire') /\ Len(wire) \in Nat BY FrameKinds DEF TypeOK, HostOK
      <3> HIDE DEF f
      <3>5. Announced(buffer.generation)' BY <2>1, <3>2, <3>3, <3>4 DEF Wrote1, Announced
      <3> QED BY <1>0, <1>h, <1>g, <2>1, <3>1, <3>5 DEF Holding
    <2>3. CASE ~SettleAdmitted(recovery.generation, recovery.attempts)
      <3>1. sdk' = "fail" /\ carried' = << >> BY <1>3, <2>3 DEF Announce, Fails
      <3> QED BY <1>0, <1>h, <1>g, <2>1, <3>1 DEF Holding
    <2> QED BY <2>2, <2>3
  <1>4. CASE FailActive
    <2>1. /\ UNCHANGED <<carried, taken>> /\ sdk = "fail" /\ carried = << >>
          /\ sdk' \notin {"announce", "fail", "emit", "settle"}
      BY <1>4, <1>h DEF FailActive, hostside, Holding, TypeOK, SdkOK
    <2>2. UNCHANGED buffer \/ Drops BY <1>4, BufferEffects
    <2>3. ~buffer'.active
      <3>1. CASE failure_emitted BY <1>4, <3>1 DEF FailActive, Control, Buffered
      <3>2. CASE ~failure_emitted BY <1>4, <3>2, BufferFields DEF FailActive, TypeOK
      <3> QED BY <3>1, <3>2
    <2> QED BY <1>0, <1>h, <1>g, <2>1, <2>2, <2>3 DEF Holding, Drops
  <1>5. CASE CancelWork
    <2>1. /\ UNCHANGED <<carried, taken>> /\ sdk = "idle" /\ sdk' = "mark"
      BY <1>5 DEF CancelWork, SdkIdle, hostside
    <2>2. Drops BY <1>5, BufferEffects
    <2> QED BY <1>0, <1>h, <1>g, <2>1, <2>2 DEF Holding, Drops
  <1>6. CASE OnReportBegin \/ EstablishRefused \/ (OnData /\ Keeps) \/
             (OnResubscriptionNeeded /\ Keeps)
    <2>1. /\ UNCHANGED <<carried, taken>> /\ sdk = "idle" /\ sdk' \in {"idle", "fail", "status"}
      BY <1>6, OnDataEffect, NeededEffect
         DEF OnReportBegin, EstablishRefused, OnData, OnResubscriptionNeeded, SdkIdle, Fails, hostside
    <2>2. Keeps BY <1>6, BufferEffects
    <2> QED BY <1>0, <1>h, <1>g, <2>1, <2>2 DEF Holding, Keeps
  <1>7. CASE OnResubscriptionNeeded /\ Begins
    <2>1. /\ UNCHANGED <<carried, taken>> /\ sdk = "idle" /\ sdk' \in {"fail", "status"}
      BY <1>7, NeededEffect DEF OnResubscriptionNeeded, SdkIdle, hostside
    <2> QED BY <1>0, <1>h, <1>g, <1>7, <2>1 DEF Holding, Begins
  <1>8. ASSUME OnData, NEW r, Adds(r), UNCHANGED sdk PROVE Holding'
    <2>1. /\ UNCHANGED <<carried, taken>> /\ sdk = "idle" /\ carried = << >>
      BY <1>8, <1>h DEF OnData, SdkIdle, hostside, Holding
    <2>2. /\ r \in Held /\ r.generation = buffer.generation /\ buffer.active
          /\ IF buffer.activated
               THEN buffer'.ready = Append(buffer.ready, r) /\ buffer'.buffered = buffer.buffered
               ELSE buffer'.ready = buffer.ready /\ buffer'.buffered = Append(buffer.buffered, r)
          /\ buffer'.generation = buffer.generation /\ buffer'.activated = buffer.activated
      BY <1>8 DEF Adds
    <2>3. ASSUME NEW s \in Seq(Held), \A i \in DOMAIN s : s[i].generation = buffer.generation
          PROVE  \A i \in DOMAIN Append(s, r) : Append(s, r)[i].generation = buffer.generation
      BY <2>2, <2>3
    <2>4. /\ (\A i \in DOMAIN buffer.ready : buffer.ready[i].generation = buffer.generation)'
          /\ (\A i \in DOMAIN buffer.buffered : buffer.buffered[i].generation = buffer.generation)'
      BY ZenonT(30), <1>0, <1>h, <2>2, <2>3 DEF Holding
    <2>5. (buffer.ready # << >> => Announced(buffer.generation))'
      BY <1>0, <1>h, <2>1, <2>2 DEF Holding
    <2>6. (buffer.active /\ buffer.activated /\ sdk \notin {"announce", "fail"} =>
             Announced(buffer.generation))'
      BY <1>0, <1>h, <1>8, <2>1, <2>2 DEF Holding
    <2> QED BY <1>0, <1>h, <1>g, <1>8, <2>1, <2>4, <2>5, <2>6 DEF Holding
  <1>9. CASE OnReportEnd
    <2>1. /\ carried' = buffer.ready /\ buffer'.ready = << >>
          /\ buffer'.buffered = buffer.buffered /\ buffer'.active = buffer.active
          /\ buffer'.generation = buffer.generation /\ buffer'.activated = buffer.activated
      BY <1>9, BufferEffects
    <2>2. UNCHANGED taken /\ sdk = "idle" /\ sdk' = "emit"
      BY <1>9 DEF OnReportEnd, SdkIdle, hostside
    <2> QED BY <1>0, <1>h, <1>g, <2>1, <2>2 DEF Holding
  <1>10. CASE EmitOne
    <2>1. /\ UNCHANGED <<buffer, taken>> /\ sdk = "emit" /\ carried # << >>
          /\ \/ carried' = Tail(carried) /\ sdk' = "emit"
             \/ carried' = << >> /\ sdk' = "cancel"
      BY <1>10 DEF EmitOne, hostside
    <2>2. (\A i \in DOMAIN carried : Announced(carried[i].generation))'
      <3>1. \A i \in DOMAIN carried' : \E k \in DOMAIN carried : carried'[i] = carried[k]
        <4>1. CASE carried' = << >> BY <4>1
        <4>2. CASE carried' = Tail(carried)
          <5>1. \A i \in DOMAIN carried' : i + 1 \in DOMAIN carried /\ carried'[i] = carried[i + 1]
            BY <1>0, <2>1, <4>2
          <5> QED BY <5>1
        <4> QED BY <2>1, <4>1, <4>2
      <3>2. \A i \in DOMAIN carried : Announced(carried[i].generation) BY <1>h, <2>1 DEF Holding
      <3> QED BY <1>w, <3>1, <3>2 DEF Announced
    <2> QED BY <1>0, <1>h, <1>g, <2>1, <2>2 DEF Holding
  <1>11. CASE Established
    <2>1. /\ UNCHANGED taken /\ sdk = "idle" BY <1>11 DEF Established, SdkIdle, hostside
    <2>2. ~buffer.activated /\ buffer.ready = << >> BY <1>11, EstablishedEffect DEF Order, Lined
    <2>3. CASE sdk' = "announce" /\ Hands(carried')
      BY <1>0, <1>h, <1>g, <2>1, <2>2, <2>3 DEF Holding, Hands
    <2>4. CASE /\ sdk' = "publish" /\ UNCHANGED carried /\ ~buffer'.activated
               /\ buffer'.ready = buffer.ready /\ buffer'.buffered = buffer.buffered
               /\ buffer'.generation = buffer.generation
      BY <1>0, <1>h, <1>g, <2>1, <2>2, <2>4 DEF Holding
    <2> QED BY <1>11, <2>3, <2>4, EstablishedEffect
  <1>12. CASE Activate
    <2>1. UNCHANGED <<carried, sdk>> /\ host = "take" BY <1>12 DEF Activate, HostAt, sdkside
    <2>2. CASE UNCHANGED <<buffer, taken>> BY <1>0, <1>h, <1>g, <2>1, <2>2 DEF Holding
    <2>3. CASE Hands(taken') /\ buffer'.established = buffer.established
      <3>1. CASE buffer.active /\ buffer.established /\ ~buffer.activated
        <4>1. buffer.generation = 1 BY <3>1 DEF Control, Buffered
        <4>2. Announced(1)' BY <1>0, <2>1 DEF Fence, Serves
        <4>3. /\ taken' = buffer.buffered /\ buffer'.buffered = << >> /\ buffer'.ready = << >>
              /\ buffer'.generation = 1
          BY <2>3, <3>1, <4>1 DEF Hands
        <4>4. \A i \in DOMAIN taken' : taken'[i].generation = 1 BY <1>h, <4>1, <4>3 DEF Holding
        <4> QED BY <1>0, <1>h, <1>g, <2>1, <4>1, <4>2, <4>3, <4>4 DEF Holding
      <3>2. CASE ~(buffer.active /\ buffer.established /\ ~buffer.activated)
        <4>1. /\ taken' = buffer.ready /\ buffer'.buffered = buffer.buffered
              /\ buffer'.activated = buffer.activated /\ buffer'.ready = << >>
              /\ buffer'.active = buffer.active /\ buffer'.generation = buffer.generation
          BY <2>3, <3>2 DEF Hands
        <4>2. (\A i \in DOMAIN taken : Announced(taken[i].generation))'
          <5>1. \A i \in DOMAIN taken' : taken'[i].generation = buffer.generation
            BY <1>h, <4>1 DEF Holding
          <5>2. taken' # << >> => Announced(buffer.generation) BY <1>h, <4>1 DEF Holding
          <5>3. CASE taken' = << >> BY <5>3
          <5>4. CASE taken' # << >> BY <1>w, <5>1, <5>2, <5>4 DEF Announced
          <5> QED BY <5>3, <5>4
        <4> QED BY <1>0, <1>h, <1>g, <2>1, <4>1, <4>2 DEF Holding
      <3> QED BY <3>1, <3>2
    <2> QED BY <1>12, <2>2, <2>3, ActivateEffect
  <1>13. CASE ActivateEmits
    <2>1. /\ UNCHANGED <<buffer, carried, sdk>> /\ taken # << >>
          /\ taken' = Tail(taken) \/ taken' = << >>
      BY <1>13 DEF ActivateEmits, sdkside
    <2>2. (\A i \in DOMAIN taken : Announced(taken[i].generation))'
      <3>1. \A i \in DOMAIN taken' : \E k \in DOMAIN taken : taken'[i] = taken[k]
        <4>1. CASE taken' = << >> BY <4>1
        <4>2. CASE taken' = Tail(taken)
          <5>1. \A i \in DOMAIN taken' : i + 1 \in DOMAIN taken /\ taken'[i] = taken[i + 1]
            BY <1>0, <2>1, <4>2
          <5> QED BY <5>1
        <4> QED BY <2>1, <4>1, <4>2
      <3>2. \A i \in DOMAIN taken : Announced(taken[i].generation) BY <1>h DEF Holding
      <3> QED BY <1>w, <3>1, <3>2 DEF Announced
    <2> QED BY <1>0, <1>h, <1>g, <2>1, <2>2 DEF Holding
  <1>14. CASE SdkSteps
    BY <1>14, <1>1, <1>2, <1>3, <1>4, <1>10, CalmSteps DEF SdkSteps
  <1>15. CASE Work BY <1>15, <1>1, <1>5, CalmSteps DEF Work
  <1>16. CASE Callbacks
    BY <1>16, <1>1, <1>6, <1>7, <1>8, <1>9, <1>11, CalmSteps, OnDataEffect, NeededEffect
       DEF Callbacks
  <1>17. CASE HostSteps BY <1>17, <1>1, <1>12, <1>13, CalmSteps DEF HostSteps
  <1>18. CASE Requests BY <1>18, <1>1, CalmSteps
  <1> QED BY <1>14, <1>15, <1>16, <1>17, <1>18 DEF Next

\* The fence holds.
LEMMA FenceStep ==
  ASSUME TypeOK, TypeOK', Control, Barriers, Order, Fence, Writes, Next
  PROVE  Fence'
  <1>0. /\ DOMAIN wire = 1..Len(wire) /\ Len(wire) \in Nat /\ wire \in Seq(Frames)
        /\ DOMAIN wire' = 1..Len(wire') /\ Len(wire') \in Nat
        /\ carried \in Seq(Held) /\ taken \in Seq(Held) /\ live \in Nat
    BY FrameKinds DEF TypeOK, HostOK, SdkOK
  <1>1. \A i \in DOMAIN wire' : i > Len(wire) /\ wire'[i].kind = "report" => Announced(live)
    <2>1. CASE EmitOne /\ EmitReport(Head(carried), "sdk")
      <3>1. sdk = "emit" /\ carried # << >> BY <2>1 DEF EmitOne
      <3>2. Head(carried) = carried[1] /\ 1 \in DOMAIN carried BY <1>0, <3>1
      <3>3. Announced(carried[1].generation) BY <3>1, <3>2 DEF Fence, Holding
      <3> QED BY <2>1, <3>2, <3>3 DEF EmitReport
    <2>2. CASE ActivateEmits /\ EmitReport(Head(taken), "host")
      <3>1. taken # << >> BY <2>2 DEF ActivateEmits
      <3>2. Head(taken) = taken[1] /\ 1 \in DOMAIN taken BY <1>0, <3>1
      <3>3. Announced(taken[1].generation) BY <3>2 DEF Fence, Holding
      <3> QED BY <2>2, <3>2, <3>3 DEF EmitReport
    <2>3. CASE ~(EmitOne /\ EmitReport(Head(carried), "sdk")) /\
               ~(ActivateEmits /\ EmitReport(Head(taken), "host"))
      <3>1. PlainWrites BY <2>3, NextPlain
      <3> QED BY <3>1 DEF PlainWrites
    <2> QED BY <2>1, <2>2, <2>3
  <1>2. GenerationFence' BY <1>1, FenceWire DEF Fence
  <1>3. Holding' BY HoldingStep
  <1>4. (host \in Serves => Announced(1))' BY ServesStep
  <1> QED BY <1>2, <1>3, <1>4 DEF Fence

-----------------------------------------------------------------------------
(* The order.                                                              *)

\* Taking the first report keeps the order.
LEMMA TailOrder ==
  ASSUME NEW s \in Seq(Held), s # << >>, NEW t \in Seq(Held)
  PROVE  /\ Tail(s) \in Seq(Held) /\ Head(s) \in Held /\ 1 \in DOMAIN s /\ Head(s) = s[1]
         /\ \A i \in DOMAIN Tail(s) : i + 1 \in DOMAIN s /\ Tail(s)[i] = s[i + 1]
         /\ Sorted(s) => Sorted(Tail(s)) /\ \A i \in DOMAIN Tail(s) : s[1].n < Tail(s)[i].n
         /\ Below(t, s) => Below(t, Tail(s))
         /\ Below(s, t) => Below(Tail(s), t)
  <1>1. /\ Tail(s) \in Seq(Held) /\ Head(s) \in Held /\ 1 \in DOMAIN s /\ Head(s) = s[1]
        /\ \A i \in DOMAIN Tail(s) : i \in Nat \ {0} /\ i + 1 \in DOMAIN s /\ Tail(s)[i] = s[i + 1]
    OBVIOUS
  <1>2. Sorted(s) => Sorted(Tail(s)) /\ \A i \in DOMAIN Tail(s) : s[1].n < Tail(s)[i].n
    BY SMTT(20), <1>1 DEF Sorted
  <1>3. /\ Below(t, s) => Below(t, Tail(s))
        /\ Below(s, t) => Below(Tail(s), t)
    BY <1>1 DEF Below
  <1> QED BY <1>1, <1>2, <1>3

\* Adding a report that is newer than all keeps the order.
LEMMA AppendOrder ==
  ASSUME NEW s \in Seq(Held), NEW r \in Held, NEW t \in Seq(Held),
         \A i \in DOMAIN s : s[i].n < r.n
  PROVE  /\ Sorted(s) => Sorted(Append(s, r))
         /\ Below(t, s) /\ (\A i \in DOMAIN t : t[i].n < r.n) => Below(t, Append(s, r))
  <1>1. /\ DOMAIN s = 1..Len(s) /\ Len(s) \in Nat /\ DOMAIN Append(s, r) = 1..(Len(s) + 1)
        /\ \A i \in DOMAIN s : Append(s, r)[i] = s[i]
        /\ Append(s, r)[Len(s) + 1] = r
    OBVIOUS
  <1>2. \A i \in DOMAIN Append(s, r) : i \in DOMAIN s \/ i = Len(s) + 1 BY <1>1
  <1>3. \A i \in DOMAIN s : i < Len(s) + 1 /\ i \in Nat BY <1>1
  <1>4. Sorted(s) => Sorted(Append(s, r))
    <2> SUFFICES ASSUME Sorted(s), NEW i \in DOMAIN Append(s, r), NEW j \in DOMAIN Append(s, r), i < j
                 PROVE  Append(s, r)[i].n < Append(s, r)[j].n
      BY DEF Sorted
    <2>1. i \in DOMAIN s BY <1>1, <1>2
    <2>2. CASE j \in DOMAIN s BY <1>1, <2>1, <2>2 DEF Sorted
    <2>3. CASE j = Len(s) + 1 BY <1>1, <2>1, <2>3
    <2> QED BY <1>2, <2>2, <2>3
  <1>5. Below(t, s) /\ (\A i \in DOMAIN t : t[i].n < r.n) => Below(t, Append(s, r))
    BY <1>1, <1>2 DEF Below
  <1> QED BY <1>4, <1>5

\* The order of the reports that are held.
LEMMA LinedStep ==
  ASSUME TypeOK, TypeOK', Control, Fence, Order, Memory, Next
  PROVE  Lined'
  <1>0. /\ buffer.ready \in Seq(Held) /\ buffer.buffered \in Seq(Held)
        /\ carried \in Seq(Held) /\ taken \in Seq(Held)
        /\ buffer.activated \in BOOLEAN
    BY DEF TypeOK, Buffers, SdkOK, HostOK
  <1>l. Lined BY DEF Order
  <1>h. sdk = "idle" => carried = << >> BY DEF Fence, Holding
  <1>e. /\ Sorted(<< >>) /\ \A t : Below(<< >>, t) /\ Below(t, << >>) BY DEF Sorted, Below
  <1>1. CASE Calm \/ (UNCHANGED <<carried, taken>> /\ Keeps)
    BY <1>1, <1>l DEF Calm, Lined, Keeps
  <1>2. CASE UNCHANGED <<carried, taken>> /\ (Drops \/ Begins)
    BY <1>2, <1>l, <1>e DEF Drops, Begins, Lined
  <1>3. CASE Settle \/ Announce
    <2>1. UNCHANGED <<buffer, taken>> /\ (carried' = carried \/ carried' = << >>)
      BY <1>3 DEF Settle, Announce, hostside
    <2> QED BY <2>1, <1>l, <1>e DEF Lined
  <1>4. CASE FailActive
    <2>1. UNCHANGED <<carried, taken>> BY <1>4 DEF FailActive, hostside
    <2> QED BY <1>2, <1>4, <1>l, <2>1, BufferEffects DEF Lined
  <1>5. CASE CancelWork
    <2>1. UNCHANGED <<carried, taken>> BY <1>5 DEF CancelWork, hostside
    <2> QED BY <1>2, <1>5, <2>1, BufferEffects
  <1>6. CASE OnReportBegin \/ EstablishRefused
    <2>1. UNCHANGED <<carried, taken>> BY <1>6 DEF OnReportBegin, EstablishRefused, hostside
    <2> QED BY <1>1, <1>6, <2>1, BufferEffects
  <1>7. CASE OnResubscriptionNeeded
    <2>1. UNCHANGED <<carried, taken>> BY <1>7 DEF OnResubscriptionNeeded, hostside
    <2> QED BY <1>1, <1>2, <1>7, <2>1, NeededEffect
  <1>8. ASSUME OnData, NEW r, Adds(r) PROVE Lined'
    <2>1. /\ UNCHANGED <<carried, taken>> /\ carried = << >>
      BY <1>8, <1>h DEF OnData, SdkIdle, hostside
    <2>2. /\ r \in Held /\ r.n = produced + 1 /\ buffer'.activated = buffer.activated
          /\ buffer.activated =>
               buffer'.ready = Append(buffer.ready, r) /\ buffer'.buffered = buffer.buffered
          /\ ~buffer.activated =>
               buffer'.ready = buffer.ready /\ buffer'.buffered = Append(buffer.buffered, r)
      BY <1>8 DEF Adds
    <2>3. /\ \A i \in DOMAIN buffer.ready : buffer.ready[i].n < r.n
          /\ \A i \in DOMAIN buffer.buffered : buffer.buffered[i].n < r.n
          /\ \A i \in DOMAIN taken : taken[i].n < r.n
      <3>1. produced \in Nat /\ r.n = produced + 1 BY <2>2 DEF TypeOK, HostOK
      <3>2. \A s \in {buffer.ready, buffer.buffered, taken} : \A i \in DOMAIN s :
              s[i] \in Held /\ s[i] \in Known
        BY <1>0 DEF Known, Range
      <3>3. \A s \in {buffer.ready, buffer.buffered, taken} : \A i \in DOMAIN s :
              s[i].n \in Nat /\ s[i].n <= produced
        BY <3>2 DEF Memory, Held
      <3> QED BY <3>1, <3>3
    <2>4. CASE buffer.activated
      <3>1. /\ Sorted(Append(buffer.ready, r)) /\ Below(taken, Append(buffer.ready, r))
        BY <1>0, <1>l, <2>2, <2>3, AppendOrder DEF Lined
      <3> QED BY <1>l, <1>e, <2>1, <2>2, <2>4, <3>1 DEF Lined
    <2>5. CASE ~buffer.activated
      <3>1. /\ Sorted(Append(buffer.buffered, r)) /\ Below(taken, Append(buffer.buffered, r))
        BY <1>0, <1>l, <2>2, <2>3, AppendOrder DEF Lined
      <3> QED BY <1>l, <1>e, <2>1, <2>2, <2>5, <3>1 DEF Lined
    <2> QED BY <2>4, <2>5
  <1>9. CASE OnData /\ Keeps BY <1>1, <1>9 DEF OnData, hostside
  <1>10. CASE OnReportEnd
    <2>1. /\ carried' = buffer.ready /\ buffer'.ready = << >> /\ UNCHANGED taken
          /\ buffer'.buffered = buffer.buffered /\ buffer'.activated = buffer.activated
      BY <1>10, BufferEffects DEF OnReportEnd, hostside
    <2> QED BY <1>l, <1>e, <2>1 DEF Lined
  <1>11. CASE EmitOne
    <2>1. /\ UNCHANGED <<buffer, taken>> /\ carried # << >>
          /\ carried' = Tail(carried) \/ carried' = << >>
      BY <1>11 DEF EmitOne, hostside
    <2>2. Sorted(Tail(carried)) /\ Below(taken, Tail(carried))
      BY <1>0, <1>l, <2>1, TailOrder DEF Lined
    <2> QED BY <1>l, <1>e, <2>1, <2>2 DEF Lined
  <1>12. CASE Established
    <2>1. UNCHANGED taken /\ carried = << >> /\ ~buffer.activated /\ buffer.ready = << >>
      BY <1>12, <1>h, <1>l, EstablishedEffect DEF Established, SdkIdle, hostside, Lined
    <2>2. CASE Hands(carried') BY <1>l, <1>e, <2>1, <2>2 DEF Lined, Hands
    <2>3. CASE /\ UNCHANGED carried /\ ~buffer'.activated
               /\ buffer'.ready = buffer.ready /\ buffer'.buffered = buffer.buffered
      BY <1>l, <1>e, <2>1, <2>3 DEF Lined
    <2> QED BY <1>12, <2>2, <2>3, EstablishedEffect
  <1>13. CASE Activate
    <2>1. UNCHANGED carried BY <1>13 DEF Activate, sdkside
    <2>2. CASE UNCHANGED <<buffer, taken>> BY <1>l, <2>1, <2>2 DEF Lined
    <2>3. CASE Hands(taken')
      <3>1. CASE carried = << >> BY <1>l, <1>e, <2>1, <2>3, <3>1 DEF Lined, Hands
      <3>2. CASE carried # << >>
        <4>1. taken' = << >> BY <1>l, <2>3, <3>2 DEF Lined, Hands
        <4> QED BY <1>l, <1>e, <2>1, <2>3, <3>2, <4>1 DEF Lined, Hands
      <3> QED BY <3>1, <3>2
    <2> QED BY <1>13, <2>2, <2>3, ActivateEffect
  <1>14. CASE ActivateEmits
    <2>1. /\ UNCHANGED <<buffer, carried>> /\ taken # << >>
          /\ taken' = Tail(taken) \/ taken' = << >>
      BY <1>14 DEF ActivateEmits, sdkside
    <2>2. /\ Sorted(Tail(taken)) /\ Below(Tail(taken), carried)
          /\ Below(Tail(taken), buffer.ready) /\ Below(Tail(taken), buffer.buffered)
      BY <1>0, <1>l, <2>1, TailOrder DEF Lined
    <2> QED BY <1>l, <1>e, <2>1, <2>2 DEF Lined
  <1>15. CASE SdkSteps BY <1>15, <1>1, <1>3, <1>4, <1>11, CalmSteps DEF SdkSteps
  <1>16. CASE Work BY <1>16, <1>1, <1>5, CalmSteps DEF Work
  <1>17. CASE Callbacks
    BY <1>17, <1>1, <1>6, <1>7, <1>8, <1>9, <1>10, <1>12, CalmSteps, OnDataEffect DEF Callbacks
  <1>18. CASE HostSteps BY <1>18, <1>1, <1>13, <1>14, CalmSteps DEF HostSteps
  <1>19. CASE Requests BY <1>19, <1>1, CalmSteps
  <1> QED BY <1>15, <1>16, <1>17, <1>18, <1>19 DEF Next

\* Every report on the wire is older than r, or another one.
Late(r) == \A i \in Reports : wire[i].n < r.n
Fresh(r) == \A i \in Reports : wire[i].n # r.n

\* What the reports of a sequence are.
LEMMA HeldIs ==
  ASSUME NEW s \in Seq(Held)
  PROVE  \A j \in DOMAIN s : s[j] \in Held /\ s[j].n \in Nat
  <1>1. \A j \in DOMAIN s : s[j] \in Held OBVIOUS
  <1>2. \A r \in Held : r.n \in Nat BY DEF Held
  <1> QED BY <1>1, <1>2

\* The order of the wire stays when no report is written.
LEMMA PassedPlain ==
  ASSUME TypeOK, TypeOK', Passed, Writes, PlainWrites,
         \A j \in DOMAIN buffer'.ready : Late(buffer'.ready[j]),
         \A j \in DOMAIN buffer'.buffered : Late(buffer'.buffered[j]),
         \A j \in DOMAIN carried' : Late(carried'[j]),
         \A j \in DOMAIN taken' : Fresh(taken'[j])
  PROVE  Passed'
  <1>0. /\ DOMAIN wire = 1..Len(wire) /\ Len(wire) \in Nat
        /\ DOMAIN wire' = 1..Len(wire') /\ Len(wire') \in Nat
    BY FrameKinds DEF TypeOK, HostOK
  <1>1. \A i \in DOMAIN wire : i \in DOMAIN wire' /\ wire'[i] = wire[i] BY Grows
  <1>2. \A i \in Reports' : i \in Reports /\ wire'[i] = wire[i]
    BY <1>0, <1>1 DEF Reports, PlainWrites
  <1>3. (Sent(buffer.ready) /\ Sent(buffer.buffered) /\ Sent(carried))'
    BY <1>2 DEF Sent, Late
  <1>4. (\A i \in Reports, j \in DOMAIN taken : wire[i].n # taken[j].n)'
    BY <1>2 DEF Fresh
  <1>5. (\A i, j \in Reports : i # j => wire[i].n # wire[j].n)' BY <1>2 DEF Passed
  <1>6. InOrder' BY <1>2 DEF Passed, InOrder
  <1> QED BY <1>3, <1>4, <1>5, <1>6 DEF Passed

\* A report is written that is newer than all, or the oldest of the batch
\* that Activate emits.
LEMMA PassedReport ==
  ASSUME TypeOK, TypeOK', Passed, NEW r \in Held, NEW thread \in {"sdk", "host"},
         wire' = wire \o <<ReportFrame(r, thread)>>, UNCHANGED buffer, Fresh(r),
         thread = "sdk" => Late(r),
         \A j \in DOMAIN buffer.ready : r.n < buffer.ready[j].n,
         \A j \in DOMAIN buffer.buffered : r.n < buffer.buffered[j].n,
         \A j \in DOMAIN carried' : Late(carried'[j]) /\ r.n < carried'[j].n,
         \A j \in DOMAIN taken' : Fresh(taken'[j]) /\ r.n # taken'[j].n
  PROVE  Passed'
  <1> DEFINE f == ReportFrame(r, thread)
             m == Len(wire) + 1
  <1>0. /\ DOMAIN wire = 1..Len(wire) /\ Len(wire) \in Nat /\ wire \in Seq(Frames)
        /\ DOMAIN wire' = 1..Len(wire') /\ Len(wire') \in Nat
    BY FrameKinds DEF TypeOK, HostOK
  <1>1. f \in Frames /\ f.kind = "report" /\ f.n = r.n /\ f.thread = thread BY ReportFrameIs
  <1>2. Wrote1(f) BY <1>0, <1>1, Writing
  <1> HIDE DEF f
  <1>3. /\ wire'[m] = f /\ m \notin Reports /\ m \in Nat
        /\ \A i \in Reports' : (i \in Reports /\ wire'[i] = wire[i] /\ i < m) \/ i = m
    BY <1>0, <1>1, <1>2 DEF Wrote1, Reports
  <1> HIDE DEF m
  <1>4. (Sent(buffer.ready) /\ Sent(buffer.buffered))'
    <2>1. \A i \in Reports, j \in DOMAIN buffer.ready : wire[i].n < buffer.ready[j].n
      BY DEF Passed, Sent
    <2>2. \A i \in Reports, j \in DOMAIN buffer.buffered : wire[i].n < buffer.buffered[j].n
      BY DEF Passed, Sent
    <2>3. \A i \in Reports', j \in DOMAIN buffer.ready : wire'[i].n < buffer.ready[j].n
      BY ZenonT(30), <1>1, <1>3, <2>1
    <2>4. \A i \in Reports', j \in DOMAIN buffer.buffered : wire'[i].n < buffer.buffered[j].n
      BY ZenonT(30), <1>1, <1>3, <2>2
    <2> QED BY <2>3, <2>4 DEF Sent
  <1>5. Sent(carried)' BY ZenonT(30), <1>1, <1>3 DEF Sent, Late
  <1>6. (\A i \in Reports, j \in DOMAIN taken : wire[i].n # taken[j].n)'
    <2>1. \A j \in DOMAIN taken' : \A i \in Reports : wire[i].n # taken'[j].n BY DEF Fresh
    <2>2. \A j \in DOMAIN taken' : r.n # taken'[j].n OBVIOUS
    <2>3. wire'[m].n = r.n BY <1>1, <1>3
    <2> QED BY ONLY <1>3, <2>1, <2>2, <2>3
  <1>7. (\A i, j \in Reports : i # j => wire[i].n # wire[j].n)'
    <2>1. \A i \in Reports : wire[i].n # r.n BY DEF Fresh
    <2>2. \A i, j \in Reports : i # j => wire[i].n # wire[j].n BY DEF Passed
    <2>3. wire'[m].n = r.n BY <1>1, <1>3
    <2> QED BY ONLY <1>3, <2>1, <2>2, <2>3
  <1>8. InOrder'
    <2> SUFFICES ASSUME NEW i \in Reports', NEW j \in Reports', i < j, wire'[j].thread = "sdk"
                 PROVE  wire'[i].n < wire'[j].n
      BY DEF InOrder
    <2>0. i \in Nat /\ j \in Nat BY <1>0 DEF Reports
    <2>1. CASE j = m
      <3>1. thread = "sdk" /\ wire'[j].n = r.n BY <1>1, <1>3, <2>1
      <3>2. i # m BY ONLY <2>0, <2>1, i < j
      <3>3. i \in Reports /\ wire'[i] = wire[i] BY ONLY <1>3, <3>2, i \in Reports'
      <3> QED BY <3>1, <3>3 DEF Late
    <2>2. CASE j # m
      <3>1. j < m /\ j \in Reports /\ wire'[j] = wire[j] BY <1>3, <2>2
      <3>2. i # m BY <1>3, <2>0, <3>1
      <3> QED BY <1>3, <3>1, <3>2 DEF Passed, InOrder
    <2> QED BY <2>1, <2>2
  <1> QED BY <1>4, <1>5, <1>6, <1>7, <1>8 DEF Passed

\* Every step keeps the order of the reports on the wire (Activate against
\* OnReportEnd).
LEMMA PassedStep ==
  ASSUME TypeOK, TypeOK', Control, Barriers, Fence, Order, Memory, Writes, Next
  PROVE  Passed'
  <1>0. /\ buffer.ready \in Seq(Held) /\ buffer.buffered \in Seq(Held)
        /\ carried \in Seq(Held) /\ taken \in Seq(Held) /\ produced \in Nat
    BY DEF TypeOK, Buffers, SdkOK, HostOK
  <1>p. Passed /\ Lined BY DEF Order
  <1>k. /\ \A j \in DOMAIN buffer.ready : Late(buffer.ready[j])
        /\ \A j \in DOMAIN buffer.buffered : Late(buffer.buffered[j])
        /\ \A j \in DOMAIN carried : Late(carried[j])
        /\ \A j \in DOMAIN taken : Fresh(taken[j])
    BY <1>p DEF Passed, Sent, Late, Fresh
  <1>f. ASSUME NEW s \in Seq(Held), \A j \in DOMAIN s : Late(s[j])
        PROVE  \A j \in DOMAIN s : Fresh(s[j])
    <2>1. \A i \in Reports : wire[i].n \in Nat BY FrameKinds DEF Reports, Written
    <2>2. \A j \in DOMAIN s : s[j].n \in Nat BY HeldIs
    <2> QED BY <1>f, <2>1, <2>2 DEF Late, Fresh
  <1>1. CASE EmitOne /\ EmitReport(Head(carried), "sdk")
    <2>1. /\ UNCHANGED <<buffer, taken>> /\ carried # << >> /\ sdk = "emit"
      BY <1>1 DEF EmitOne, hostside
    <2> DEFINE r == Head(carried)
    <2>2. wire' = wire \o <<ReportFrame(r, "sdk")>> BY <1>1 DEF EmitReport, Emits
    <2>3. carried' = Tail(carried) \/ carried' = << >> BY <1>1 DEF EmitOne
    <2>4. r \in Held /\ 1 \in DOMAIN carried /\ r = carried[1] BY <1>0, <2>1, TailOrder
    <2> HIDE DEF r
    <2>5. /\ \A i \in DOMAIN Tail(carried) : r.n < Tail(carried)[i].n
          /\ \A i \in DOMAIN Tail(carried) : Late(Tail(carried)[i])
      BY <1>0, <1>k, <1>p, <2>1, <2>4, TailOrder DEF Lined
    <2>6. \A j \in DOMAIN carried' : Late(carried'[j]) /\ r.n < carried'[j].n
      <3>1. CASE carried' = << >> BY <3>1
      <3>2. CASE carried' = Tail(carried) BY <2>5, <3>2
      <3> QED BY <2>3, <3>1, <3>2
    <2>7. Late(r) /\ Fresh(r) BY <1>0, <1>k, <1>f, <2>4
    <2>8. \A j \in DOMAIN taken' : Fresh(taken'[j]) /\ r.n # taken'[j].n
      <3>1. \A j \in DOMAIN taken : taken[j].n < r.n BY <1>p, <2>4 DEF Lined, Below
      <3>2. r.n \in Nat /\ \A j \in DOMAIN taken : taken[j].n \in Nat
        BY <1>0, <2>4, HeldIs DEF Held
      <3> QED BY <1>k, <2>1, <3>1, <3>2
    <2>9. buffer.ready = << >> /\ buffer.buffered = << >> BY <1>p, <2>1 DEF Lined
    <2>10. /\ \A j \in DOMAIN buffer.ready : r.n < buffer.ready[j].n
           /\ \A j \in DOMAIN buffer.buffered : r.n < buffer.buffered[j].n
      BY <2>9
    <2> QED BY <1>p, <2>1, <2>2, <2>4, <2>6, <2>7, <2>8, <2>10, PassedReport
  <1>2. CASE ActivateEmits /\ EmitReport(Head(taken), "host")
    <2>1. /\ UNCHANGED <<buffer, carried>> /\ taken # << >>
      BY <1>2 DEF ActivateEmits, sdkside
    <2> DEFINE r == Head(taken)
    <2>2. wire' = wire \o <<ReportFrame(r, "host")>> BY <1>2 DEF EmitReport, Emits
    <2>3. taken' = Tail(taken) \/ taken' = << >> BY <1>2 DEF ActivateEmits
    <2>4. r \in Held /\ 1 \in DOMAIN taken /\ r = taken[1] BY <1>0, <2>1, TailOrder
    <2> HIDE DEF r
    <2>5. /\ \A i \in DOMAIN Tail(taken) : r.n # Tail(taken)[i].n
          /\ \A i \in DOMAIN Tail(taken) : Fresh(Tail(taken)[i])
      <3>1. /\ Tail(taken) \in Seq(Held)
            /\ \A i \in DOMAIN Tail(taken) : i + 1 \in DOMAIN taken /\ Tail(taken)[i] = taken[i + 1]
            /\ \A i \in DOMAIN Tail(taken) : taken[1].n < Tail(taken)[i].n
        BY <1>0, <1>p, <2>1, TailOrder DEF Lined
      <3>2. r.n \in Nat /\ \A i \in DOMAIN Tail(taken) : Tail(taken)[i].n \in Nat
        BY <2>4, <3>1, HeldIs DEF Held
      <3> QED BY <1>k, <2>4, <3>1, <3>2
    <2>6. \A j \in DOMAIN taken' : Fresh(taken'[j]) /\ r.n # taken'[j].n
      <3>1. CASE taken' = << >> BY <3>1
      <3>2. CASE taken' = Tail(taken) BY <2>5, <3>2
      <3> QED BY <2>3, <3>1, <3>2
    <2>7. /\ \A j \in DOMAIN buffer.ready : r.n < buffer.ready[j].n
          /\ \A j \in DOMAIN buffer.buffered : r.n < buffer.buffered[j].n
          /\ \A j \in DOMAIN carried : r.n < carried[j].n
      BY <1>p, <2>4 DEF Lined, Below
    <2>8. Fresh(r) BY <1>k, <2>4
    <2> QED BY <1>k, <1>p, <2>1, <2>2, <2>4, <2>6, <2>7, <2>8, PassedReport
  <1>3. CASE ~(EmitOne /\ EmitReport(Head(carried), "sdk")) /\
             ~(ActivateEmits /\ EmitReport(Head(taken), "host"))
    <2>0. PlainWrites BY <1>3, NextPlain
    <2> DEFINE Good ==
          /\ \A j \in DOMAIN buffer'.ready : Late(buffer'.ready[j])
          /\ \A j \in DOMAIN buffer'.buffered : Late(buffer'.buffered[j])
          /\ \A j \in DOMAIN carried' : Late(carried'[j])
          /\ \A j \in DOMAIN taken' : Fresh(taken'[j])
    <2>1. Good
      <3>1. CASE Calm \/ (UNCHANGED <<carried, taken>> /\ (Keeps \/ Drops \/ Begins))
        <4>1. CASE UNCHANGED <<carried, taken>> /\ buffer'.ready = buffer.ready /\
                   buffer'.buffered = buffer.buffered
          BY <1>k, <4>1
        <4>2. CASE UNCHANGED <<carried, taken>> /\ buffer'.ready = << >> /\ buffer'.buffered = << >>
          BY <1>k, <4>2
        <4> QED BY <3>1, <4>1, <4>2 DEF Calm, Keeps, Drops, Begins
      <3>2. CASE Settle \/ Announce
        <4>1. UNCHANGED <<buffer, taken>> /\ (carried' = carried \/ carried' = << >>)
          BY <3>2 DEF Settle, Announce, hostside
        <4> QED BY <1>k, <4>1
      <3>3. CASE FailActive \/ CancelWork \/ OnReportBegin \/ EstablishRefused
        <4>1. UNCHANGED <<carried, taken>>
          BY <3>3 DEF FailActive, CancelWork, OnReportBegin, EstablishRefused, hostside
        <4>2. UNCHANGED buffer \/ Keeps \/ Drops BY <3>3, BufferEffects
        <4> QED BY <1>k, <3>1, <4>1, <4>2
      <3>4. CASE OnResubscriptionNeeded
        <4>1. UNCHANGED <<carried, taken>> BY <3>4 DEF OnResubscriptionNeeded, hostside
        <4> QED BY <3>1, <3>4, <4>1, NeededEffect
      <3>5. ASSUME OnData, NEW r, Adds(r) PROVE Good
        <4>1. UNCHANGED <<carried, taken>> BY <3>5 DEF OnData, hostside
        <4>2. /\ r \in Held /\ r.n = produced + 1
              /\ buffer'.ready = Append(buffer.ready, r) \/ buffer'.ready = buffer.ready
              /\ buffer'.buffered = Append(buffer.buffered, r) \/ buffer'.buffered = buffer.buffered
          BY <3>5 DEF Adds
        <4>3. Late(r)
          <5> SUFFICES ASSUME NEW i \in Reports PROVE wire[i].n < r.n BY DEF Late
          <5>1. wire[i].n \in Nat BY FrameKinds DEF Reports, Written
          <5>2. Report(wire[i]) \in Known BY DEF Known
          <5>3. wire[i].n <= produced BY <5>2 DEF Memory, Report
          <5> QED BY <1>0, <4>2, <5>1, <5>3
        <4>4. ASSUME NEW s \in Seq(Held), \A j \in DOMAIN s : Late(s[j])
              PROVE  \A j \in DOMAIN Append(s, r) : Late(Append(s, r)[j])
          <5>1. \A j \in DOMAIN Append(s, r) :
                  (j \in DOMAIN s /\ Append(s, r)[j] = s[j]) \/ Append(s, r)[j] = r
            BY <4>2
          <5> QED BY <4>3, <4>4, <5>1
        <4> QED BY <1>0, <1>k, <4>1, <4>2, <4>4
      <3>6. CASE OnData /\ Keeps BY <3>1, <3>6 DEF OnData, hostside
      <3>7. CASE OnReportEnd
        <4>1. /\ carried' = buffer.ready /\ buffer'.ready = << >> /\ UNCHANGED taken
              /\ buffer'.buffered = buffer.buffered
          BY <3>7, BufferEffects DEF OnReportEnd, hostside
        <4> QED BY <1>k, <4>1
      <3>8. CASE EmitOne
        <4>1. carried' = << >> /\ UNCHANGED <<buffer, taken>> BY <1>3, <3>8 DEF EmitOne, hostside
        <4> QED BY <1>k, <4>1
      <3>9. CASE ActivateEmits
        <4>1. taken' = << >> /\ UNCHANGED <<buffer, carried>> BY <1>3, <3>9 DEF ActivateEmits, sdkside
        <4> QED BY <1>k, <4>1
      <3>10. CASE Established
        <4>1. UNCHANGED taken BY <3>10 DEF Established, hostside
        <4>2. CASE Hands(carried')
          <5>1. /\ carried' = buffer.buffered \/ carried' = buffer.ready
                /\ buffer'.ready = << >>
                /\ buffer'.buffered = << >> \/ buffer'.buffered = buffer.buffered
            BY <4>2 DEF Hands
          <5> QED BY <1>k, <4>1, <5>1
        <4>3. CASE UNCHANGED carried /\ buffer'.ready = buffer.ready /\
                   buffer'.buffered = buffer.buffered
          BY <1>k, <4>1, <4>3
        <4> QED BY <3>10, <4>2, <4>3, EstablishedEffect
      <3>11. CASE Activate
        <4>1. UNCHANGED carried BY <3>11 DEF Activate, sdkside
        <4>2. CASE UNCHANGED <<buffer, taken>> BY <1>k, <4>1, <4>2
        <4>3. CASE Hands(taken')
          <5>1. /\ taken' = buffer.buffered \/ taken' = buffer.ready
                /\ buffer'.ready = << >>
                /\ buffer'.buffered = << >> \/ buffer'.buffered = buffer.buffered
            BY <4>3 DEF Hands
          <5>2. /\ \A j \in DOMAIN buffer.ready : Fresh(buffer.ready[j])
                /\ \A j \in DOMAIN buffer.buffered : Fresh(buffer.buffered[j])
            BY <1>0, <1>k, <1>f
          <5> QED BY <1>k, <4>1, <5>1, <5>2
        <4> QED BY <3>11, <4>2, <4>3, ActivateEffect
      <3>12. CASE SdkSteps BY <3>12, <3>1, <3>2, <3>3, <3>8, CalmSteps DEF SdkSteps
      <3>13. CASE Work BY <3>13, <3>1, <3>3, CalmSteps DEF Work
      <3>14. CASE Callbacks
        BY <3>14, <3>1, <3>3, <3>4, <3>5, <3>6, <3>7, <3>10, CalmSteps, OnDataEffect DEF Callbacks
      <3>15. CASE HostSteps BY <3>15, <3>1, <3>9, <3>11, CalmSteps DEF HostSteps
      <3>16. CASE Requests BY <3>16, <3>1, CalmSteps
      <3> QED BY <3>12, <3>13, <3>14, <3>15, <3>16 DEF Next
    <2> HIDE DEF Good
    <2> QED BY <1>p, <2>0, <2>1, PassedPlain DEF Good
  <1> QED BY <1>1, <1>2, <1>3

-----------------------------------------------------------------------------
(* The memory of the buffer.                                               *)

\* What is known are reports.
LEMMA KnownHeld ==
  ASSUME TypeOK
  PROVE  \A r \in Known : r \in Held /\ r.n \in Nat /\ r.generation \in Nat
  <1>0. /\ buffer.ready \in Seq(Held) /\ buffer.buffered \in Seq(Held)
        /\ carried \in Seq(Held) /\ taken \in Seq(Held)
    BY DEF TypeOK, Buffers, SdkOK, HostOK
  <1>1. \A f \in Written : Report(f) \in Held BY DEF Written, Report, Held
  <1>2. \A i \in Reports : Report(wire[i]) \in Held BY <1>1, FrameKinds DEF Reports
  <1>3. \A r \in Known : r \in Held BY <1>0, <1>2, HeldIs DEF Known, Range
  <1>4. \A r \in Held : r.n \in Nat /\ r.generation \in Nat BY DEF Held
  <1> QED BY <1>3, <1>4

\* Nothing becomes known that was not held.
LEMMA KnownFrom ==
  ASSUME NEW K,
         \A j \in DOMAIN buffer'.ready : buffer'.ready[j] \in K,
         \A j \in DOMAIN buffer'.buffered : buffer'.buffered[j] \in K,
         \A j \in DOMAIN carried' : carried'[j] \in K,
         \A j \in DOMAIN taken' : taken'[j] \in K,
         \A i \in Reports' : Report(wire'[i]) \in K
  PROVE  \A r \in Known' : r \in K
  BY DEF Known, Range

\* What a step that adds no report does to the memory.
Remembers ==
  /\ buffer'.kind = buffer.kind /\ buffer'.cache = buffer.cache
  /\ produced' = produced \/ produced' = produced + 1
  /\ \/ /\ buffer'.generation = buffer.generation
        /\ \/ buffer'.established
           \/ ~buffer.established /\ buffer'.initial = buffer.initial
     \/ buffer'.generation = buffer.generation + 1

\* A step that adds no report keeps the memory.
LEMMA MemoryKeeps ==
  ASSUME TypeOK, TypeOK', Memory, Remembers, \A r \in Known' : r \in Known
  PROVE  Memory'
  <1>0. /\ produced \in Nat /\ produced' \in Nat /\ buffer.generation \in Nat
        /\ buffer'.generation \in Nat /\ Len(buffer.cache) \in Nat /\ EventCacheLimit \in Nat
        /\ DOMAIN buffer.cache = 1..Len(buffer.cache)
    BY SubscriptionAssumption DEF TypeOK, HostOK, Buffers
  <1>1. \A r \in Known' : r \in Known /\ r.n \in Nat /\ r.generation \in Nat BY KnownHeld
  <1>r. /\ buffer'.kind = buffer.kind /\ buffer'.cache = buffer.cache
        /\ produced' = produced \/ produced' = produced + 1
        /\ buffer'.generation = buffer.generation \/ buffer'.generation = buffer.generation + 1
    BY DEF Remembers
  <1>2. (\A r \in Known : r.n <= produced /\ r.generation <= buffer.generation)'
    <2>1. \A r \in Known : r.n <= produced /\ r.generation <= buffer.generation BY DEF Memory
    <2> QED BY ONLY <1>0, <1>1, <1>r, <2>1
  <1>3. (Len(buffer.cache) <= EventCacheLimit)' BY <1>r DEF Memory
  <1>4. (buffer.kind = "event" => \A r \in Known : Cached(r))'
    <2> SUFFICES ASSUME buffer'.kind = "event", NEW r \in Known' PROVE Cached(r)'
      OBVIOUS
    <2>1. Cached(r) /\ r.n \in Nat /\ r.n <= produced BY <1>1, <1>r DEF Memory
    <2>2. CASE produced - r.n >= EventCacheLimit
      <3>1. produced' - r.n >= EventCacheLimit BY ONLY <1>0, <1>r, <2>1, <2>2
      <3> QED BY <3>1 DEF Cached
    <2>3. CASE \E k \in DOMAIN buffer.cache :
                 buffer.cache[k] = r.id /\ Len(buffer.cache) - k <= produced - r.n
      <3>1. PICK k \in DOMAIN buffer.cache :
              buffer.cache[k] = r.id /\ Len(buffer.cache) - k <= produced - r.n
        BY <2>3
      <3>2. Len(buffer.cache) - k <= produced' - r.n BY ONLY <1>0, <1>r, <2>1, <3>1
      <3> QED BY <1>r, <3>1, <3>2 DEF Cached
    <2> QED BY <2>1, <2>2, <2>3 DEF Cached
  <1>5. (buffer.kind = "attribute" => \A r \in Known :
           r.initial /\ r.generation = buffer.generation /\ ~buffer.established =>
             r.id \in buffer.initial)'
    <2> SUFFICES ASSUME buffer'.kind = "attribute", NEW r \in Known', r.initial,
                        r.generation = buffer'.generation, ~buffer'.established
                 PROVE  r.id \in buffer'.initial
      OBVIOUS
    <2>1. r.generation <= buffer.generation BY <1>1 DEF Memory
    <2>2. buffer'.generation = buffer.generation BY <1>0, <1>r, <2>1
    <2>3. ~buffer.established /\ buffer'.initial = buffer.initial BY <1>0, <2>2 DEF Remembers
    <2> QED BY <1>1, <1>r, <2>2, <2>3 DEF Memory
  <1>6. (\A r, q \in Known : Once(r, q))'
    <2> SUFFICES ASSUME NEW r \in Known', NEW q \in Known' PROVE Once(r, q)'
      OBVIOUS
    <2>1. Once(r, q) BY <1>1 DEF Memory
    <2> QED BY <1>r, <2>1 DEF Once
  <1> QED BY <1>2, <1>3, <1>4, <1>5, <1>6 DEF Memory

\* What the cache of the event identities holds after one more.
LEMMA CacheGrows ==
  ASSUME TypeOK, NEW id \in Ids, Len(buffer.cache) <= EventCacheLimit
  PROVE  LET c == Newest(Append(buffer.cache, id)) IN
         /\ Len(c) <= EventCacheLimit /\ Len(c) \in DOMAIN c /\ c[Len(c)] = id
         /\ \A k \in DOMAIN buffer.cache :
              \/ \E m \in DOMAIN c : /\ c[m] = buffer.cache[k]
                                     /\ Len(c) - m = Len(buffer.cache) - k + 1
              \/ k = 1 /\ Len(buffer.cache) = EventCacheLimit
  <1> DEFINE s == buffer.cache
             t == Append(s, id)
             c == Newest(t)
  <1>0. s \in Seq(Ids) /\ EventCacheLimit \in Nat \ {0} /\ Len(s) \in Nat /\ DOMAIN s = 1..Len(s)
    BY SubscriptionAssumption DEF TypeOK, Buffers
  <1>1. /\ t \in Seq(Ids) /\ t # << >> /\ Len(t) = Len(s) + 1 /\ DOMAIN t = 1..(Len(s) + 1)
        /\ t[Len(s) + 1] = id /\ \A k \in 1..Len(s) : t[k] = s[k]
    BY <1>0
  <1>a. s = buffer.cache /\ Len(s) <= EventCacheLimit OBVIOUS
  <1>b. c = IF Len(t) > EventCacheLimit THEN Tail(t) ELSE t BY DEF Newest
  <1> HIDE DEF s, t, c
  <1>2. CASE Len(s) < EventCacheLimit
    <2>1. c = t BY <1>0, <1>1, <1>b, <1>2
    <2>2. Len(c) <= EventCacheLimit /\ Len(c) \in DOMAIN c /\ c[Len(c)] = id
      BY <1>0, <1>1, <1>2, <2>1
    <2>3. ASSUME NEW k \in DOMAIN s
          PROVE  \E m \in DOMAIN c : c[m] = s[k] /\ Len(c) - m = Len(s) - k + 1
      <3>1. k \in DOMAIN c /\ c[k] = s[k] /\ Len(c) - k = Len(s) - k + 1
        BY <1>0, <1>1, <2>1
      <3> QED BY <3>1
    <2> QED BY <2>2, <2>3 DEF s, t, c
  <1>3. CASE Len(s) = EventCacheLimit
    <2>1. c = Tail(t) BY <1>0, <1>1, <1>b, <1>3
    <2>2. Len(c) = Len(s) /\ DOMAIN c = 1..Len(s) /\ \A k \in 1..Len(s) : c[k] = t[k + 1]
      BY <1>0, <1>1, <2>1
    <2>3. Len(c) <= EventCacheLimit /\ Len(c) \in DOMAIN c /\ c[Len(c)] = id
      BY <1>0, <1>1, <1>3, <2>2
    <2>4. ASSUME NEW k \in DOMAIN s, k # 1
          PROVE  \E m \in DOMAIN c : c[m] = s[k] /\ Len(c) - m = Len(s) - k + 1
      <3>1. k - 1 \in DOMAIN c /\ c[k - 1] = s[k] /\ Len(c) - (k - 1) = Len(s) - k + 1
        BY <1>0, <1>1, <2>2, <2>4
      <3> QED BY <3>1
    <2> QED BY <1>3, <2>3, <2>4 DEF s, t, c
  <1> QED BY <1>0, <1>a, <1>2, <1>3

\* A report that is added is no repetition.
LEMMA MemoryAdds ==
  ASSUME TypeOK, TypeOK', Memory, NEW q, Adds(q), produced' = produced + 1,
         \A r \in Known' : r \in Known \cup {q}
  PROVE  Memory'
  <1>0. /\ produced \in Nat /\ produced' = produced + 1 /\ buffer.generation \in Nat
        /\ Len(buffer.cache) \in Nat /\ EventCacheLimit \in Nat \ {0}
        /\ DOMAIN buffer.cache = 1..Len(buffer.cache) /\ buffer.kind \in {"attribute", "event"}
    BY SubscriptionAssumption DEF TypeOK, HostOK, Buffers
  <1>q. /\ q \in Held /\ q.generation = buffer.generation /\ q.n = produced + 1
        /\ q.initial = ~buffer.established /\ ~Duplicate(buffer, q.id) /\ q.id \in Ids
        /\ buffer'.generation = buffer.generation /\ buffer'.kind = buffer.kind
        /\ buffer'.established = buffer.established
    BY DEF Adds, Held
  <1>1. \A r \in Known : r.n \in Nat /\ r.generation \in Nat /\ r.n <= produced /\
                         r.generation <= buffer.generation
    BY KnownHeld DEF Memory
  <1>c. LET c == Newest(Append(buffer.cache, q.id)) IN
         /\ Len(c) <= EventCacheLimit /\ Len(c) \in DOMAIN c /\ c[Len(c)] = q.id
         /\ \A k \in DOMAIN buffer.cache :
              \/ \E m \in DOMAIN c : /\ c[m] = buffer.cache[k]
                                     /\ Len(c) - m = Len(buffer.cache) - k + 1
              \/ k = 1 /\ Len(buffer.cache) = EventCacheLimit
    BY <1>q, CacheGrows DEF Memory
  <1>2. (\A r \in Known : r.n <= produced /\ r.generation <= buffer.generation)'
    <2>1. \A r \in Known' : r \in Known \/ r = q OBVIOUS
    <2> QED BY ONLY <1>0, <1>q, <1>1, <2>1
  <1>3. (Len(buffer.cache) <= EventCacheLimit)'
    <2>1. CASE buffer.kind = "event" BY <1>c, <2>1 DEF Adds
    <2>2. CASE buffer.kind # "event" BY <2>2 DEF Adds, Memory
    <2> QED BY <2>1, <2>2
  <1>4. (buffer.kind = "event" => \A r \in Known : Cached(r))'
    <2> SUFFICES ASSUME buffer.kind = "event", NEW r \in Known' PROVE Cached(r)'
      BY <1>q
    <2> DEFINE c == Newest(Append(buffer.cache, q.id))
    <2>0. buffer'.cache = c BY DEF Adds
    <2>c. /\ Len(c) \in DOMAIN c /\ c[Len(c)] = q.id
          /\ \A k \in DOMAIN buffer.cache :
              \/ \E m \in DOMAIN c : /\ c[m] = buffer.cache[k]
                                     /\ Len(c) - m = Len(buffer.cache) - k + 1
              \/ k = 1 /\ Len(buffer.cache) = EventCacheLimit
      BY <1>c
    <2>n. Len(c) \in Nat /\ DOMAIN c = 1..Len(c) BY <2>0 DEF TypeOK, Buffers
    <2> HIDE DEF c
    <2>1. CASE r = q
      <3>1. Len(c) - Len(c) <= produced' - q.n BY ONLY <1>0, <1>q, <2>n
      <3> QED BY <2>0, <2>c, <2>1, <3>1 DEF Cached
    <2>2. CASE r \in Known
      <3>0. r.n \in Nat /\ r.n <= produced BY <1>1, <2>2
      <3>1. CASE produced - r.n >= EventCacheLimit
        <4>1. produced' - r.n >= EventCacheLimit BY ONLY <1>0, <3>0, <3>1
        <4> QED BY <4>1 DEF Cached
      <3>2. CASE \E k \in DOMAIN buffer.cache :
                   buffer.cache[k] = r.id /\ Len(buffer.cache) - k <= produced - r.n
        <4>1. PICK k \in DOMAIN buffer.cache :
                buffer.cache[k] = r.id /\ Len(buffer.cache) - k <= produced - r.n
          BY <3>2
        <4>2. CASE k = 1 /\ Len(buffer.cache) = EventCacheLimit
          <5>1. produced' - r.n >= EventCacheLimit BY ONLY <1>0, <3>0, <4>1, <4>2
          <5> QED BY <5>1 DEF Cached
        <4>3. ASSUME NEW m \in DOMAIN c, c[m] = buffer.cache[k],
                     Len(c) - m = Len(buffer.cache) - k + 1
              PROVE  Cached(r)'
          <5>1. Len(c) - m <= produced' - r.n BY ONLY <1>0, <2>n, <3>0, <4>1, <4>3
          <5> QED BY <2>0, <4>1, <4>3, <5>1 DEF Cached
        <4> QED BY <2>c, <4>2, <4>3
      <3> QED BY <2>2, <3>1, <3>2 DEF Memory, Cached
    <2> QED BY <2>1, <2>2
  <1>5. (buffer.kind = "attribute" => \A r \in Known :
           r.initial /\ r.generation = buffer.generation /\ ~buffer.established =>
             r.id \in buffer.initial)'
    <2> SUFFICES ASSUME buffer.kind = "attribute", NEW r \in Known', r.initial,
                        r.generation = buffer.generation, ~buffer.established
                 PROVE  r.id \in buffer'.initial
      BY <1>q
    <2>1. buffer'.initial = buffer.initial \cup {q.id} BY DEF Adds
    <2>2. CASE r = q BY <2>1, <2>2
    <2>3. CASE r \in Known BY <2>1, <2>3 DEF Memory
    <2> QED BY <2>2, <2>3
  <1>6. (\A r, p \in Known : Once(r, p))'
    <2> SUFFICES ASSUME NEW r \in Known', NEW p \in Known' PROVE Once(r, p)'
      OBVIOUS
    <2>1. CASE r \in Known /\ p \in Known
      <3>1. Once(r, p) BY <2>1 DEF Memory
      <3> QED BY <1>q, <3>1 DEF Once
    <2>2. CASE r = q
      <3>1. ~(r.n < p.n)
        <4>1. CASE p = q BY <1>0, <1>q, <2>2, <4>1
        <4>2. CASE p \in Known BY <1>0, <1>q, <1>1, <2>2, <4>2
        <4> QED BY <4>1, <4>2
      <3> QED BY <3>1 DEF Once
    <2>3. CASE r \in Known /\ p = q
      <3> SUFFICES ASSUME r.id = q.id
                   PROVE  IF buffer.kind = "event" THEN q.n - r.n > EventCacheLimit
                            ELSE r.initial /\ q.initial => r.generation # q.generation
        BY <1>q, <2>3 DEF Once
      <3>0. r.n \in Nat /\ r.n <= produced BY <1>1, <2>3
      <3>1. CASE buffer.kind = "event"
        <4>1. Cached(r) BY <2>3, <3>1 DEF Memory
        <4>2. \A k \in DOMAIN buffer.cache : buffer.cache[k] # q.id
          BY <1>q, <3>1 DEF Duplicate, Range
        <4>3. produced - r.n >= EventCacheLimit BY <4>1, <4>2 DEF Cached
        <4>4. q.n - r.n > EventCacheLimit BY ONLY <1>0, <1>q, <3>0, <4>3
        <4> QED BY <3>1, <4>4
      <3>2. CASE buffer.kind # "event"
        <4> SUFFICES ASSUME r.initial, q.initial, r.generation = q.generation PROVE FALSE
          BY <3>2
        <4>1. ~buffer.established /\ buffer.kind = "attribute" BY <1>0, <1>q, <3>2
        <4>2. r.id \in buffer.initial BY <1>q, <2>3, <4>1 DEF Memory
        <4> QED BY <1>q, <4>1, <4>2 DEF Duplicate
      <3> QED BY <3>1, <3>2
    <2> QED BY <2>1, <2>2, <2>3
  <1> QED BY <1>2, <1>3, <1>4, <1>5, <1>6 DEF Memory

\* What the buffer remembers when it keeps, drops or hands over its reports.
LEMMA RemembersKept ==
  ASSUME TypeOK, TypeOK', produced' = produced \/ produced' = produced + 1,
         UNCHANGED buffer \/ Keeps \/ Drops \/ Begins
  PROVE  Remembers
  <1>1. buffer.established \in BOOLEAN BY DEF TypeOK, Buffers
  <1>2. CASE UNCHANGED buffer BY <1>1, <1>2 DEF Remembers
  <1>3. CASE Keeps BY <1>1, <1>3 DEF Remembers, Keeps
  <1>4. CASE Drops BY <1>1, <1>4 DEF Remembers, Drops
  <1>5. CASE Begins BY <1>5 DEF Remembers, Begins
  <1> QED BY <1>2, <1>3, <1>4, <1>5

\* What is on the wire was known, when no other report is written.
LEMMA WireKnown ==
  ASSUME TypeOK, TypeOK', Writes, PlainWrites
  PROVE  \A i \in Reports' : Report(wire'[i]) \in Known
  <1>0. /\ DOMAIN wire = 1..Len(wire) /\ Len(wire) \in Nat
        /\ DOMAIN wire' = 1..Len(wire') /\ Len(wire') \in Nat
    BY FrameKinds DEF TypeOK, HostOK
  <1>1. \A i \in DOMAIN wire : i \in DOMAIN wire' /\ wire'[i] = wire[i] BY Grows
  <1>2. \A i \in Reports' : i \in Reports /\ wire'[i] = wire[i]
    BY <1>0, <1>1 DEF Reports, PlainWrites
  <1> QED BY <1>2 DEF Known

\* What is on the wire was known, when a report that is held is written.
LEMMA WireKnownWith ==
  ASSUME TypeOK, TypeOK', NEW r \in Held, NEW thread \in {"sdk", "host"},
         r \in Known, wire' = wire \o <<ReportFrame(r, thread)>>
  PROVE  \A i \in Reports' : Report(wire'[i]) \in Known
  <1> DEFINE f == ReportFrame(r, thread)
             m == Len(wire) + 1
  <1>0. /\ DOMAIN wire = 1..Len(wire) /\ Len(wire) \in Nat /\ wire \in Seq(Frames)
        /\ DOMAIN wire' = 1..Len(wire') /\ Len(wire') \in Nat
    BY FrameKinds DEF TypeOK, HostOK
  <1>1. f \in Frames BY ReportFrameIs
  <1>2. Report(f) = r BY DEF Report, ReportFrame, Held
  <1>3. Wrote1(f) BY <1>0, <1>1, Writing
  <1> HIDE DEF f
  <1>4. /\ wire'[m] = f
        /\ \A i \in Reports' : (i \in Reports /\ wire'[i] = wire[i]) \/ i = m
    BY <1>0, <1>3 DEF Wrote1, Reports
  <1> HIDE DEF m
  <1>5. \A i \in Reports : Report(wire[i]) \in Known BY DEF Known
  <1> QED BY <1>2, <1>4, <1>5

\* No step forgets a report it could repeat.
LEMMA MemoryStep ==
  ASSUME TypeOK, TypeOK', Control, Barriers, Fence, Order, Memory, Writes, Next
  PROVE  Memory'
  <1>0. /\ buffer.ready \in Seq(Held) /\ buffer.buffered \in Seq(Held)
        /\ carried \in Seq(Held) /\ taken \in Seq(Held) /\ produced \in Nat
        /\ buffer.established \in BOOLEAN
    BY DEF TypeOK, Buffers, SdkOK, HostOK
  <1>k. /\ \A j \in DOMAIN buffer.ready : buffer.ready[j] \in Known
        /\ \A j \in DOMAIN buffer.buffered : buffer.buffered[j] \in Known
        /\ \A j \in DOMAIN carried : carried[j] \in Known
        /\ \A j \in DOMAIN taken : taken[j] \in Known
    BY DEF Known, Range
  <1>e. ASSUME NEW s \in Seq(Held), s # << >>, NEW t, t = Tail(s) \/ t = << >>,
               \A j \in DOMAIN s : s[j] \in Known
        PROVE  Head(s) \in Held /\ Head(s) \in Known /\ \A j \in DOMAIN t : t[j] \in Known
    <2>1. /\ 1 \in DOMAIN s /\ Head(s) = s[1] /\ Head(s) \in Held
          /\ \A i \in DOMAIN Tail(s) : i + 1 \in DOMAIN s /\ Tail(s)[i] = s[i + 1]
      BY <1>e
    <2>2. CASE t = << >> BY <1>e, <2>1, <2>2
    <2>3. CASE t = Tail(s) BY <1>e, <2>1, <2>3
    <2> QED BY <1>e, <2>2, <2>3
  <1>1. CASE EmitOne /\ EmitReport(Head(carried), "sdk")
    <2>1. /\ UNCHANGED <<buffer, taken, produced>> /\ carried # << >>
          /\ carried' = Tail(carried) \/ carried' = << >>
      BY <1>1 DEF EmitOne, hostside
    <2>2. /\ Head(carried) \in Held /\ Head(carried) \in Known
          /\ \A j \in DOMAIN carried' : carried'[j] \in Known
      BY <1>0, <1>k, <1>e, <2>1
    <2>3. wire' = wire \o <<ReportFrame(Head(carried), "sdk")>> BY <1>1 DEF EmitReport, Emits
    <2>4. \A i \in Reports' : Report(wire'[i]) \in Known BY <2>2, <2>3, WireKnownWith
    <2>5. \A r \in Known' : r \in Known BY <1>k, <2>1, <2>2, <2>4, KnownFrom
    <2>6. Remembers BY <2>1, RemembersKept
    <2> QED BY <2>5, <2>6, MemoryKeeps
  <1>2. CASE ActivateEmits /\ EmitReport(Head(taken), "host")
    <2>1. /\ UNCHANGED <<buffer, carried, produced>> /\ taken # << >>
          /\ taken' = Tail(taken) \/ taken' = << >>
      BY <1>2 DEF ActivateEmits, sdkside
    <2>2. /\ Head(taken) \in Held /\ Head(taken) \in Known
          /\ \A j \in DOMAIN taken' : taken'[j] \in Known
      BY <1>0, <1>k, <1>e, <2>1
    <2>3. wire' = wire \o <<ReportFrame(Head(taken), "host")>> BY <1>2 DEF EmitReport, Emits
    <2>4. \A i \in Reports' : Report(wire'[i]) \in Known BY <2>2, <2>3, WireKnownWith
    <2>5. \A r \in Known' : r \in Known BY <1>k, <2>1, <2>2, <2>4, KnownFrom
    <2>6. Remembers BY <2>1, RemembersKept
    <2> QED BY <2>5, <2>6, MemoryKeeps
  <1>3. CASE ~(EmitOne /\ EmitReport(Head(carried), "sdk")) /\
             ~(ActivateEmits /\ EmitReport(Head(taken), "host"))
    <2>0. \A i \in Reports' : Report(wire'[i]) \in Known BY <1>3, NextPlain, WireKnown
    <2>a. ASSUME Remembers,
                 \A j \in DOMAIN buffer'.ready : buffer'.ready[j] \in Known,
                 \A j \in DOMAIN buffer'.buffered : buffer'.buffered[j] \in Known,
                 \A j \in DOMAIN carried' : carried'[j] \in Known,
                 \A j \in DOMAIN taken' : taken'[j] \in Known
          PROVE  Memory'
      <3>1. \A r \in Known' : r \in Known BY <2>0, <2>a, KnownFrom
      <3> QED BY <2>a, <3>1, MemoryKeeps
    <2>1. ASSUME UNCHANGED buffer \/ Keeps \/ Drops \/ Begins,
                 produced' = produced \/ produced' = produced + 1,
                 carried' = carried \/ carried' = << >>, taken' = taken \/ taken' = << >>
          PROVE  Memory'
      <3>1. Remembers BY <2>1, RemembersKept
      <3>2. /\ \A j \in DOMAIN carried' : carried'[j] \in Known
            /\ \A j \in DOMAIN taken' : taken'[j] \in Known
        BY <1>k, <2>1
      <3>3. CASE buffer'.ready = buffer.ready /\ buffer'.buffered = buffer.buffered
        BY <1>k, <2>a, <3>1, <3>2, <3>3
      <3>4. CASE buffer'.ready = << >> /\ buffer'.buffered = << >>
        BY <2>a, <3>1, <3>2, <3>4
      <3> QED BY <2>1, <3>3, <3>4 DEF Keeps, Drops, Begins
    <2>2. CASE Calm BY <2>1, <2>2 DEF Calm
    <2>3. CASE Settle \/ Announce
      <3>1. UNCHANGED <<buffer, taken, produced>> /\ (carried' = carried \/ carried' = << >>)
        BY <2>3 DEF Settle, Announce, hostside
      <3> QED BY <2>1, <3>1
    <2>4. CASE FailActive \/ CancelWork \/ OnReportBegin \/ EstablishRefused
      <3>1. UNCHANGED <<carried, taken, produced>>
        BY <2>4 DEF FailActive, CancelWork, OnReportBegin, EstablishRefused, hostside
      <3>2. UNCHANGED buffer \/ Keeps \/ Drops BY <2>4, BufferEffects
      <3> QED BY <2>1, <3>1, <3>2
    <2>5. CASE OnResubscriptionNeeded
      <3>1. UNCHANGED <<carried, taken, produced>> BY <2>5 DEF OnResubscriptionNeeded, hostside
      <3> QED BY <2>1, <2>5, <3>1, NeededEffect
    <2>6. ASSUME OnData, NEW r, Adds(r) PROVE Memory'
      <3>1. UNCHANGED <<carried, taken>> /\ produced' = produced + 1
        BY <2>6 DEF OnData, hostside
      <3>2. /\ r \in Held
            /\ buffer'.ready = Append(buffer.ready, r) \/ buffer'.ready = buffer.ready
            /\ buffer'.buffered = Append(buffer.buffered, r) \/ buffer'.buffered = buffer.buffered
        BY <2>6 DEF Adds
      <3> DEFINE K == Known \cup {r}
      <3>3. ASSUME NEW s \in Seq(Held), \A j \in DOMAIN s : s[j] \in Known,
                   NEW t, t = Append(s, r) \/ t = s
            PROVE  \A j \in DOMAIN t : t[j] \in K
        <4>1. \A j \in DOMAIN Append(s, r) :
                (j \in DOMAIN s /\ Append(s, r)[j] = s[j]) \/ Append(s, r)[j] = r
          BY <3>2, <3>3
        <4>2. CASE t = s BY <3>3, <4>2
        <4>3. CASE t = Append(s, r) BY <3>3, <4>1, <4>3
        <4> QED BY <3>3, <4>2, <4>3
      <3>4. /\ \A j \in DOMAIN buffer'.ready : buffer'.ready[j] \in K
            /\ \A j \in DOMAIN buffer'.buffered : buffer'.buffered[j] \in K
        BY <1>0, <1>k, <3>2, <3>3
      <3>5. /\ \A j \in DOMAIN carried' : carried'[j] \in K
            /\ \A j \in DOMAIN taken' : taken'[j] \in K
            /\ \A i \in Reports' : Report(wire'[i]) \in K
        BY <1>k, <2>0, <3>1
      <3> HIDE DEF K
      <3>6. \A q \in Known' : q \in K BY <3>4, <3>5, KnownFrom
      <3>7. \A q \in Known' : q \in Known \cup {r} BY <3>6 DEF K
      <3> QED BY <2>6, <3>1, <3>7, MemoryAdds
    <2>7. CASE OnData /\ Keeps
      <3>1. UNCHANGED <<carried, taken>> /\ produced' = produced + 1
        BY <2>7 DEF OnData, hostside
      <3> QED BY <2>1, <2>7, <3>1
    <2>8. CASE OnReportEnd
      <3>1. /\ carried' = buffer.ready /\ buffer'.ready = << >> /\ UNCHANGED <<taken, produced>>
            /\ buffer'.buffered = buffer.buffered
            /\ buffer'.generation = buffer.generation /\ buffer'.kind = buffer.kind
            /\ buffer'.cache = buffer.cache /\ buffer'.initial = buffer.initial
            /\ buffer'.established = buffer.established
        BY <2>8, BufferEffects DEF OnReportEnd, hostside
      <3>2. Remembers BY <1>0, <3>1 DEF Remembers
      <3>3. /\ \A j \in DOMAIN buffer'.ready : buffer'.ready[j] \in Known
            /\ \A j \in DOMAIN buffer'.buffered : buffer'.buffered[j] \in Known
            /\ \A j \in DOMAIN carried' : carried'[j] \in Known
            /\ \A j \in DOMAIN taken' : taken'[j] \in Known
        BY <1>k, <3>1
      <3> QED BY <2>a, <3>2, <3>3
    <2>9. CASE EmitOne
      <3>1. carried' = << >> /\ UNCHANGED <<buffer, taken, produced>>
        BY <1>3, <2>9 DEF EmitOne, hostside
      <3> QED BY <2>1, <3>1
    <2>10. CASE ActivateEmits
      <3>1. taken' = << >> /\ UNCHANGED <<buffer, carried, produced>>
        BY <1>3, <2>10 DEF ActivateEmits, sdkside
      <3> QED BY <2>1, <3>1
    <2>11. CASE Established
      <3>1. UNCHANGED <<taken, produced>> /\ buffer'.established
        BY <2>11, EstablishedEffect DEF Established, hostside
      <3>2. /\ carried' = buffer.buffered \/ carried' = buffer.ready \/ carried' = carried
            /\ buffer'.ready = << >> \/ buffer'.ready = buffer.ready
            /\ buffer'.buffered = << >> \/ buffer'.buffered = buffer.buffered
            /\ buffer'.generation = buffer.generation /\ buffer'.kind = buffer.kind
            /\ buffer'.cache = buffer.cache
        BY <2>11, EstablishedEffect DEF Hands
      <3>3. Remembers BY <3>1, <3>2 DEF Remembers
      <3>4. /\ \A j \in DOMAIN buffer'.ready : buffer'.ready[j] \in Known
            /\ \A j \in DOMAIN buffer'.buffered : buffer'.buffered[j] \in Known
            /\ \A j \in DOMAIN carried' : carried'[j] \in Known
            /\ \A j \in DOMAIN taken' : taken'[j] \in Known
        BY <1>k, <3>1, <3>2
      <3> QED BY <2>a, <3>3, <3>4
    <2>12. CASE Activate
      <3>1. UNCHANGED <<carried, produced>> BY <2>12 DEF Activate, sdkside
      <3>2. CASE UNCHANGED <<buffer, taken>> BY <2>1, <3>1, <3>2
      <3>3. CASE Hands(taken') /\ buffer'.established = buffer.established /\
                 buffer'.initial = buffer.initial
        <4>1. /\ taken' = buffer.buffered \/ taken' = buffer.ready
              /\ buffer'.ready = << >>
              /\ buffer'.buffered = << >> \/ buffer'.buffered = buffer.buffered
              /\ buffer'.generation = buffer.generation /\ buffer'.kind = buffer.kind
              /\ buffer'.cache = buffer.cache
          BY <3>3 DEF Hands
        <4>2. Remembers BY <1>0, <3>1, <3>3, <4>1 DEF Remembers
        <4>3. /\ \A j \in DOMAIN buffer'.ready : buffer'.ready[j] \in Known
              /\ \A j \in DOMAIN buffer'.buffered : buffer'.buffered[j] \in Known
              /\ \A j \in DOMAIN carried' : carried'[j] \in Known
              /\ \A j \in DOMAIN taken' : taken'[j] \in Known
          BY <1>k, <3>1, <4>1
        <4> QED BY <2>a, <4>2, <4>3
      <3> QED BY <2>12, <3>2, <3>3, ActivateEffect
    <2>13. CASE SdkSteps BY <2>13, <2>2, <2>3, <2>4, <2>9, CalmSteps DEF SdkSteps
    <2>14. CASE Work BY <2>14, <2>2, <2>4, CalmSteps DEF Work
    <2>15. CASE Callbacks
      BY <2>15, <2>2, <2>4, <2>5, <2>6, <2>7, <2>8, <2>11, CalmSteps, OnDataEffect DEF Callbacks
    <2>16. CASE HostSteps BY <2>16, <2>2, <2>10, <2>12, CalmSteps DEF HostSteps
    <2>17. CASE Requests BY <2>17, <2>2, CalmSteps
    <2> QED BY <2>13, <2>14, <2>15, <2>16, <2>17 DEF Next
  <1> QED BY <1>1, <1>2, <1>3

-----------------------------------------------------------------------------
(* The inductive invariant.                                                *)

Inv == TypeOK /\ Control /\ Errs /\ Barriers /\ Fence /\ Order /\ Memory

\* The unsubscribe request, first section.
LEMMA UnsubscribeControl ==
  ASSUME TypeOK, Control, Requests
  PROVE  TypeOK' /\ Control'
  <1>1. PICK generation \in 1..GenerationLimit : Unsubscribe(generation) BY DEF Requests
  <1>2. /\ host = "serving" /\ host' = "find" /\ asked' \in Nat
        /\ UNCHANGED <<flags, buffer, recovery, sdkside, works, result, taken,
                       cancel_ok, protocol, produced>>
    BY <1>1, SubscriptionAssumption DEF Unsubscribe, HostAt
  <1> USE <1>2 DEF flags, sdkside, works, protocol
  <1>3. TypeOK'
    BY DEF TypeOK, FlagsOK, SdkOK, HostOK, Serves, Unsubscribing
  <1>4. Queue' BY DEF Control, Queue, Starting, Cancelling, Reaping
  <1>5. Client' BY DEF Control, Client, Starting
  <1>6. Response' BY DEF Control, Response, Unanswered, Serves, Unsubscribing
  <1>7. Buffered' BY DEF Control, Buffered
  <1>8. Agreement'
    BY DEF Control, Agreement, Alive, Same, Between, FirstStatus, NextStatus, Settling, Before
  <1>9. Stream' BY DEF Control, Stream, Before
  <1> QED BY <1>3, <1>4, <1>5, <1>6, <1>7, <1>8, <1>9 DEF Control

\* Every step keeps the types and the agreement of the threads.
LEMMA ControlStep ==
  ASSUME TypeOK, Control, Next
  PROVE  TypeOK' /\ Control'
  <1>1. CASE SdkSteps BY <1>1, SdkTypes, SdkControl DEF SdkSteps
  <1>2. CASE Work BY <1>2, SdkTypes, SdkControl DEF Work
  <1>3. CASE Callbacks BY <1>3, SdkTypes, SdkControl DEF Callbacks
  <1>4. CASE HostSteps BY <1>4, HostTypes, HostControl DEF HostSteps
  <1>5. CASE Requests BY <1>5, UnsubscribeControl
  <1> QED BY <1>1, <1>2, <1>3, <1>4, <1>5 DEF Next

\* A new NativeSubscription.
LEMMA InvInit == Init => Inv
  <1> SUFFICES ASSUME Init PROVE Inv OBVIOUS
  <1>1. /\ response = [ok |-> FALSE, generation |-> 0]
        /\ published = FALSE /\ cancelled = FALSE /\ failure_emitted = FALSE
        /\ cancel_scheduled = FALSE /\ done = FALSE
        /\ timer = "none" /\ sdk = "idle" /\ after = "idle" /\ carried = << >>
        /\ client = "none" /\ reporting = FALSE /\ work = << >> /\ refused = FALSE
        /\ reaped = FALSE /\ host = "submit" /\ result = [ok |-> FALSE, generation |-> 0]
        /\ taken = << >> /\ asked = 0 /\ cancel_ok = FALSE /\ entry = NoEntry /\ live = 0
        /\ wire = << >> /\ healthy = TRUE /\ produced = 0
    BY DEF Init
  <1>2. PICK kind \in {"attribute", "event"} :
          buffer = [kind |-> kind, active |-> TRUE, in_report |-> FALSE,
                    established |-> FALSE, activated |-> FALSE, buffered |-> << >>,
                    ready |-> << >>, generation |-> 1, current |-> {},
                    initial |-> {}, cache |-> << >>]
    BY DEF Init
  <1>3. PICK resubscribe \in BOOLEAN :
          recovery = [resubscribe |-> resubscribe, enabled |-> resubscribe,
                      recovering |-> FALSE, attempts |-> 0, generation |-> 1]
    BY DEF Init
  <1>4. /\ buffer.kind = kind /\ buffer.active /\ ~buffer.established /\ ~buffer.activated
        /\ buffer.buffered = << >> /\ buffer.ready = << >> /\ buffer.generation = 1
        /\ buffer.initial = {} /\ buffer.cache = << >>
    BY <1>2
  <1>5. /\ ~recovery.recovering /\ recovery.attempts = 0 /\ recovery.generation = 1
    BY <1>3
  <1>6. buffer \in Buffers
    <2>1. << >> \in Seq(Held) /\ << >> \in Seq(Ids) OBVIOUS
    <2> QED BY <1>2, <2>1 DEF Buffers
  <1>7. recovery \in Recoveries BY <1>3 DEF Recoveries
  <1>8. TypeOK
    <2>1. << >> \in Seq(Held) /\ << >> \in Seq(Plain \cup Written) OBVIOUS
    <2> QED BY <1>1, <1>6, <1>7, <2>1, NoEntryType
         DEF TypeOK, FlagsOK, SdkOK, HostOK, Before
  <1>9. work \notin {QStart, QStartCancel, QCancel, QReap, QCancelReap}
    BY <1>1 DEF QStart, QStartCancel, QCancel, QReap, QCancelReap
  <1>10. Queue BY <1>1, <1>9 DEF Queue, Starting, Cancelling, Reaping
  <1>11. Client BY <1>1, <1>9 DEF Client, Starting
  <1>12. Response BY <1>1, <1>4, <1>5 DEF Response, Unanswered, Serves, Unsubscribing
  <1>13. Buffered BY <1>1, <1>4, <1>5 DEF Buffered
  <1>14. Agreement BY <1>1 DEF Agreement
  <1>15. Stream BY <1>1, NoEntryIs DEF Stream
  <1>16. Control BY <1>10, <1>11, <1>12, <1>13, <1>14, <1>15 DEF Control
  <1>17. DOMAIN wire = {} /\ Reports = {} BY <1>1 DEF Reports
  <1>18. Errs /\ Barriers BY <1>1, <1>17 DEF Errs, Barriers, Unsubscribing
  <1>19. Fence
    BY <1>1, <1>4, <1>17 DEF Fence, Holding, GenerationFence, Serves, Unsubscribing
  <1>20. Order
    BY <1>1, <1>4, <1>17 DEF Order, Lined, Passed, Sorted, Below, Sent, InOrder
  <1>21. Known = {} BY <1>1, <1>4, <1>17 DEF Known, Range
  <1>22. Memory BY <1>4, <1>21, SubscriptionAssumption DEF Memory
  <1> QED BY <1>8, <1>16, <1>18, <1>19, <1>20, <1>22 DEF Inv

\* A step of neither thread.
LEMMA InvStutters == Inv /\ UNCHANGED vars => Inv'
  <1> SUFFICES ASSUME Inv, UNCHANGED vars PROVE Inv' OBVIOUS
  <1> USE DEF vars, flags, sdkside, works, hostside, protocol
  <1>1. TypeOK' BY DEF Inv, TypeOK, FlagsOK, SdkOK, HostOK
  <1>2. Control'
    BY DEF Inv, Control, Queue, Client, Response, Buffered, Agreement, Stream, Starting,
           Cancelling, Reaping, Unanswered, Alive, Same, Between, FirstStatus, NextStatus,
           Settling
  <1>3. Errs' /\ Barriers' BY DEF Inv, Errs, Barriers
  <1>4. Fence' BY DEF Inv, Fence, Holding, Announced, GenerationFence, At
  <1>5. Order' BY DEF Inv, Order, Lined, Passed, Sorted, Below, Sent, InOrder, Reports
  <1>6. Memory' BY DEF Inv, Memory, Known, Cached, Once, Reports
  <1> QED BY <1>1, <1>2, <1>3, <1>4, <1>5, <1>6 DEF Inv

\* Every step of the two threads keeps the invariant.
LEMMA InvNext == Inv /\ Next => Inv'
  <1> SUFFICES ASSUME Inv, Next PROVE Inv' OBVIOUS
  <1>0. TypeOK /\ Control /\ Errs /\ Barriers /\ Fence /\ Order /\ Memory BY DEF Inv
  <1>1. TypeOK' /\ Control' BY <1>0, ControlStep
  <1>2. Writes /\ HostMoves BY <1>0, NextWrites, Moves
  <1>3. Errs' BY <1>0, <1>1, <1>2, ErrsStep
  <1>4. Barriers' BY <1>0, <1>1, <1>2, BarriersStep
  <1>5. Fence' BY <1>0, <1>1, <1>2, FenceStep
  <1>6. Lined' BY <1>0, <1>1, LinedStep
  <1>7. Passed' BY <1>0, <1>1, <1>2, PassedStep
  <1>8. Memory' BY <1>0, <1>1, <1>2, MemoryStep
  <1> QED BY <1>1, <1>3, <1>4, <1>5, <1>6, <1>7, <1>8 DEF Inv, Order

-----------------------------------------------------------------------------
(* The theorems.                                                           *)

\* The inductive invariant of the two threads: what each thread holds agrees
\* with what the other has written, at every section of controller.cpp.
THEOREM NativeInvariant == Spec => []Inv
  <1>1. Inv /\ [Next]_vars => Inv' BY InvNext, InvStutters
  <1> QED BY <1>1, InvInit, PTL DEF Spec

\* However its failures, its overflow, its cancellation and its recovery
\* overlap, a subscription has one terminal error at most, nothing but its
\* barrier and the answers follows it, a stream generation has one barrier,
\* and the success of a cancellation follows the barrier of its generation
\* (FailActive, EmitReport, EmitFailure, CancelAndWait).
THEOREM OneTerminalHolds == Spec => []OneTerminal
  <1>1. Inv => OneTerminal BY TerminalFacts DEF Inv
  <1> QED BY <1>1, NativeInvariant, PTL

\* A report reaches the wire only after the reply or the resubscribed status
\* of its generation and before its barrier, though it was taken from the
\* buffer under another mutex (Activate, OnReportEnd, EmitReport).
THEOREM GenerationFenceHolds == Spec => []GenerationFence
  <1>1. Inv => GenerationFence BY DEF Inv, Fence
  <1> QED BY <1>1, NativeInvariant, PTL

\* The peer gets what the device reported once and in order: an event
\* identity is repeated only when EventCacheLimit others came between, an
\* initial attribute path is reported once in a generation, and only the
\* batch that Activate emits can be overtaken (Add, PrepareRecovery).
THEOREM OnceInOrderHolds == Spec => []OnceInOrder
  <1>1. ASSUME Inv PROVE OnceInOrder
    <2>1. TypeOK /\ Passed /\ Memory BY <1>1 DEF Inv, Order
    <2>2. InOrder BY <2>1 DEF Passed
    <2>3. ReportedOnce
      <3> SUFFICES ASSUME NEW i \in Reports, NEW j \in Reports, i # j,
                          wire[i].n <= wire[j].n, wire[i].id = wire[j].id
                   PROVE  IF buffer.kind = "event"
                            THEN wire[j].n - wire[i].n > EventCacheLimit
                            ELSE wire[i].initial /\ wire[j].initial =>
                                   wire[i].generation # wire[j].generation
        BY DEF ReportedOnce
      <3>1. wire[i].n \in Nat /\ wire[j].n \in Nat BY <2>1, FrameKinds DEF Reports, Written
      <3>2. wire[i].n # wire[j].n BY <2>1 DEF Passed
      <3>3. wire[i].n < wire[j].n BY <3>1, <3>2
      <3>4. Once(Report(wire[i]), Report(wire[j])) BY <2>1 DEF Memory, Known
      <3> QED BY <3>3, <3>4 DEF Once, Report
    <2> QED BY <2>2, <2>3 DEF OnceInOrder
  <1> QED BY <1>1, NativeInvariant, PTL

\* A subscription that is done, and that the SDK has not refused a work item,
\* has no client and no timer left; one that is reaped has no work either
\* (MarkDone, CancelOnSdkThread, Reap).
THEOREM QuietWhenDoneHolds == Spec => []QuietWhenDone
  <1>1. Inv => QuietWhenDone BY DEF Inv, Control, Queue, Client, QuietWhenDone
  <1> QED BY <1>1, NativeInvariant, PTL

\* Between two callbacks of a subscription that is served, the buffer, the
\* recovery, the protocol's entry and the credit stream name one generation
\* and one attempt, and a recovery runs exactly as long as its deadline
\* (OnResubscriptionNeeded, EmitStatus, OnSubscriptionEstablished).
THEOREM RecoveryAgreesHolds == Spec => []RecoveryAgrees
  <1>1. ASSUME Inv PROVE RecoveryAgrees
    <2> SUFFICES ASSUME Healthily
                 PROVE  /\ recovery.recovering <=> timer = "armed"
                        /\ entry.generation # 0 =>
                             /\ entry.generation = live
                             /\ entry.generation = recovery.generation
                             /\ entry.generation = buffer.generation
                             /\ entry.recovering = recovery.recovering
                             /\ entry.attempt = recovery.attempts
      BY DEF RecoveryAgrees
    <2>0. Alive /\ sdk = "idle" /\ Response /\ Agreement /\ Stream
      BY <1>1 DEF Healthily, Alive, Inv, Control
    <2>1. entry.recovering \in BOOLEAN /\ recovery.recovering \in BOOLEAN
      BY <1>1 DEF Inv, TypeOK, HostOK, Recoveries
    <2>2. CASE ~response.ok
      <3>1. ~recovery.recovering /\ timer = "none" BY <2>0, <2>2 DEF Response, Unanswered
      <3>2. entry.generation = 0 BY <2>0, <2>2 DEF Stream
      <3> QED BY <3>1, <3>2
    <2>3. CASE response.ok
      <3>1. Between /\ buffer.generation = recovery.generation BY <2>0, <2>3 DEF Agreement
      <3>2. recovery.recovering <=> timer = "armed" BY <3>1 DEF Between
      <3>3. ASSUME entry.generation # 0
            PROVE  /\ entry.generation = live
                   /\ entry.generation = recovery.generation
                   /\ entry.generation = buffer.generation
                   /\ entry.recovering = recovery.recovering
                   /\ entry.attempt = recovery.attempts
        <4>1. Same BY <3>1, <3>3 DEF Between
        <4>2. entry.recovering <=> recovery.recovering BY <4>1 DEF Same
        <4>3. entry.recovering = recovery.recovering BY <2>1, <4>2
        <4> QED BY <3>1, <4>1, <4>3 DEF Same
      <3> QED BY <3>2, <3>3
    <2> QED BY <2>2, <2>3
  <1> QED BY <1>1, NativeInvariant, PTL
=============================================================================
