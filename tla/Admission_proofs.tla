--------------------------- MODULE Admission_proofs ---------------------------
(***************************************************************************)
(* Proofs about Admission, for every set of calls and closers and every    *)
(* number of slots: an error that says "no effect" is true.                *)
(***************************************************************************)
EXTENDS Admission, SequenceTheorems, TLAPS

Phases == {"new", "probing", "reserved", "holding", "waiting", "dead",
           "ok", "failed", "unknown", "no_effect"}
Replies == {"none", "ok", "failed", "unknown", "no_effect"}
Stages == {"idle", "dispatching", "marked", "awaiting", "disconnecting", "down"}

TypeOK ==
  /\ phase \in [Calls -> Phases]
  /\ token \in [Calls -> {0, 1, 2}]
  /\ reply \in [Calls -> Replies]
  /\ submitted \in [Calls -> BOOLEAN]
  /\ sent \subseteq Calls
  /\ order \in Seq(Calls)
  /\ active \in Calls \cup {NoCall}
  /\ conn \in Stages

\* The Port takes nothing whose marker was not set before.
Marked == \A c \in Calls : submitted[c] => token[c] = 1

\* The active call, and its marker at each stage of submit_request.
Turn ==
  /\ active = NoCall <=> conn \in {"idle", "disconnecting", "down"}
  /\ conn = "dispatching" => token[active] # 1
  /\ conn = "marked" => token[active] = 1 /\ ~submitted[active]

\* No sequence holds a value twice.
Distinct(q) == \A i, j \in 1..Len(q) : i # j => q[i] # q[j]

\* A call is in the mailbox, in the queue or active, and in one place only;
\* nobody marks it while it waits.
OnePlace ==
  /\ Distinct(order)
  /\ Range(order) \cap sent = {}
  /\ active \notin Range(order) /\ active \notin sent
  /\ \A c \in sent \cup Range(order) : token[c] # 1

\* The connection may still come to the call.
Reachable(c) == c \in sent \/ c \in Range(order) \/ c = active

\* Before its message is sent nobody but the caller knows of the call.
Early ==
  \A c \in Calls : phase[c] \in {"new", "probing", "reserved", "holding"} =>
    /\ ~Reachable(c)
    /\ reply[c] = "none"
    /\ token[c] = 0

\* Who is told "no effect" has no call any more.
Told == \A c \in Calls : reply[c] = "no_effect" => ~submitted[c] /\ ~Reachable(c)

\* Who returned "no effect" has no call any more, or has cancelled it.
Returned ==
  \A c \in Calls : phase[c] = "no_effect" =>
    ~submitted[c] /\ (token[c] = 2 \/ ~Reachable(c))

IInv == TypeOK /\ Marked /\ Turn /\ OnePlace /\ Early /\ Told /\ Returned

-----------------------------------------------------------------------------
(* The queue.                                                              *)

\* A call that joins the queue.
LEMMA QueueAppend ==
  ASSUME NEW S, NEW q \in Seq(S), NEW c \in S
  PROVE  /\ Append(q, c) \in Seq(S)
         /\ Range(Append(q, c)) = Range(q) \cup {c}
         /\ Distinct(q) /\ c \notin Range(q) => Distinct(Append(q, c))
  <1>1. /\ Append(q, c) \in Seq(S) /\ Len(Append(q, c)) = Len(q) + 1
        /\ DOMAIN q = 1..Len(q) /\ Len(q) \in Nat
        /\ DOMAIN Append(q, c) = 1..(Len(q) + 1)
        /\ \A i \in 1..Len(q) : Append(q, c)[i] = q[i]
        /\ Append(q, c)[Len(q) + 1] = c
    OBVIOUS
  <1>2. Range(Append(q, c)) = Range(q) \cup {c}
    BY <1>1 DEF Range
  <1>3. ASSUME Distinct(q), c \notin Range(q) PROVE Distinct(Append(q, c))
    BY <1>1, <1>3 DEF Distinct, Range
  <1> QED BY <1>1, <1>2, <1>3

\* A call that leaves the queue from its i-th place.
LEMMA QueueRemove ==
  ASSUME NEW S, NEW q \in Seq(S), NEW i \in DOMAIN q, Distinct(q)
  PROVE  /\ RemoveAt(q, i) \in Seq(S)
         /\ Range(RemoveAt(q, i)) = Range(q) \ {q[i]}
         /\ Distinct(RemoveAt(q, i))
  <1> DEFINE r == RemoveAt(q, i)
  <1>1. /\ r \in Seq(S) /\ Len(r) = Len(q) - 1
        /\ DOMAIN q = 1..Len(q) /\ Len(q) \in Nat
        /\ DOMAIN r = 1..(Len(q) - 1)
        /\ \A j \in 1..(Len(q) - 1) : r[j] = IF j < i THEN q[j] ELSE q[j + 1]
    <2> DEFINE a == SubSeq(q, 1, i - 1)
               b == SubSeq(q, i + 1, Len(q))
    <2>1. DOMAIN q = 1..Len(q) /\ Len(q) \in Nat /\ i \in 1..Len(q)
      OBVIOUS
    <2>2. /\ a \in Seq(S) /\ Len(a) = i - 1
          /\ \A j \in 1..(i - 1) : a[j] = q[j]
      BY <2>1
    <2>3. /\ b \in Seq(S) /\ Len(b) = Len(q) - i
          /\ \A j \in 1..(Len(q) - i) : b[j] = q[i + j]
      BY <2>1
    <2>4. r = a \o b BY DEF RemoveAt
    <2> HIDE DEF a, b, r
    <2>5. /\ r \in Seq(S) /\ Len(r) = Len(q) - 1 /\ DOMAIN r = 1..(Len(q) - 1)
      <3>1. a \o b \in Seq(S) /\ Len(a \o b) = Len(a) + Len(b)
        BY <2>2, <2>3, ConcatProperties, Zenon
      <3>3. r \in Seq(S) /\ Len(r) = Len(a) + Len(b)
        BY <2>4, <3>1, Zenon
      <3>2. Len(r) = Len(q) - 1 BY <2>1, <2>2, <2>3, <3>3
      <3> QED BY <3>2, <3>3
    <2>6. ASSUME NEW j \in 1..(Len(q) - 1)
          PROVE  r[j] = IF j < i THEN q[j] ELSE q[j + 1]
      <3>1. CASE j < i BY <2>1, <2>2, <2>3, <2>4, <3>1
      <3>2. CASE j >= i
        <4>1. r[j] = b[j - (i - 1)] BY <2>1, <2>2, <2>3, <2>4, <3>2, SMTT(30)
        <4>2. j - (i - 1) \in 1..(Len(q) - i) /\ i + (j - (i - 1)) = j + 1
          BY <2>1, <3>2
        <4>3. b[j - (i - 1)] = q[j + 1] BY <2>3, <4>2
        <4> QED BY <2>1, <3>2, <4>1, <4>3
      <3> QED BY <2>1, <3>1, <3>2
    <2> QED BY <2>1, <2>5, <2>6
  <1> HIDE DEF r
  <1>2. Distinct(r)
    BY <1>1 DEF Distinct
  <1>3. ASSUME NEW x \in Range(r) PROVE x \in Range(q) \ {q[i]}
    <2>1. PICK j \in 1..(Len(q) - 1) : r[j] = x BY <1>1, <1>3 DEF Range
    <2>2. PICK k \in 1..Len(q) : k # i /\ q[k] = x
      BY <1>1, <2>1
    <2>3. i \in 1..Len(q) BY <1>1
    <2> QED BY <1>1, <2>2, <2>3 DEF Range, Distinct
  <1>4. ASSUME NEW x \in Range(q) \ {q[i]} PROVE x \in Range(r)
    <2>1. PICK j \in 1..Len(q) : q[j] = x
      BY <1>1, <1>4 DEF Range
    <2>2. j # i BY <2>1, <1>4
    <2>3. CASE j < i
      <3>1. j \in 1..(Len(q) - 1) /\ r[j] = x BY <1>1, <2>1, <2>3
      <3> QED BY <1>1, <3>1 DEF Range
    <2>4. CASE j > i
      <3>1. j - 1 \in 1..(Len(q) - 1) /\ r[j - 1] = x BY <1>1, <2>1, <2>4
      <3> QED BY <1>1, <3>1 DEF Range
    <2> QED BY <2>2, <2>3, <2>4, <1>1
  <1> QED BY <1>1, <1>2, <1>3, <1>4 DEF r

\* The first call of the queue.
LEMMA QueueHead ==
  ASSUME NEW S, NEW q \in Seq(S), q # << >>, Distinct(q)
  PROVE  /\ Head(q) \in S /\ Tail(q) \in Seq(S)
         /\ Head(q) \in Range(q)
         /\ Range(Tail(q)) = Range(q) \ {Head(q)}
         /\ Distinct(Tail(q))
  <1>1. /\ Tail(q) \in Seq(S) /\ Len(Tail(q)) = Len(q) - 1
        /\ DOMAIN q = 1..Len(q) /\ Len(q) \in Nat \ {0}
        /\ DOMAIN Tail(q) = 1..(Len(q) - 1)
        /\ \A j \in 1..(Len(q) - 1) : Tail(q)[j] = q[j + 1]
        /\ Head(q) = q[1] /\ Head(q) \in S
    OBVIOUS
  <1>2. Distinct(Tail(q)) BY <1>1 DEF Distinct
  <1>3. Head(q) \in Range(q) BY <1>1 DEF Range
  <1>4. ASSUME NEW x \in Range(Tail(q)) PROVE x \in Range(q) \ {Head(q)}
    BY <1>1, <1>4 DEF Range, Distinct
  <1>5. ASSUME NEW x \in Range(q) \ {Head(q)} PROVE x \in Range(Tail(q))
    <2>1. PICK j \in 1..Len(q) : q[j] = x BY <1>1, <1>5 DEF Range
    <2>2. j - 1 \in 1..(Len(q) - 1) /\ Tail(q)[j - 1] = x BY <1>1, <1>5, <2>1
    <2> QED BY <1>1, <2>2 DEF Range
  <1> QED BY <1>1, <1>2, <1>3, <1>4, <1>5
-----------------------------------------------------------------------------
(* The inductive invariant.                                                *)

\* A new connection owes nobody anything.
LEMMA InitIInv == Init => IInv
  <1> SUFFICES ASSUME Init PROVE IInv OBVIOUS
  <1>1. order = << >> /\ Range(order) = {} /\ Len(order) = 0
    BY DEF Init, Range
  <1>2. TypeOK BY <1>1 DEF Init, TypeOK, Phases, Replies, Stages
  <1>3. Distinct(order) BY <1>1 DEF Distinct
  <1>4. active \notin Calls BY AdmissionAssumption DEF Init
  <1> QED BY <1>1, <1>2, <1>3, <1>4
          DEF Init, IInv, Marked, Turn, OnePlace, Early, Told, Returned, Reachable

USE DEF callers, closers, connection

\* A caller that has not sent its message returns or goes on, by itself.
LEMMA CallerStep ==
  ASSUME IInv, NEW c \in Calls,
         Acquire(c) \/ Reserve(c) \/ Reserved(c) \/ Abandon(c) \/ Dies(c)
  PROVE  IInv'
  <1>1. /\ UNCHANGED <<token, sent, reply, submitted, order, active, conn>>
        /\ phase' = phase \/ \E p \in {"probing", "reserved", "holding", "dead", "no_effect"} :
             /\ phase' = [phase EXCEPT ![c] = p]
             /\ p # "dead" => phase[c] \in {"new", "probing", "reserved", "holding"}
    BY DEF Acquire, Reserve, Reserved, Abandon, Dies, Goes, Returns
  <1>2. TypeOK' BY <1>1 DEF IInv, TypeOK, Phases
  <1>3. Marked' BY <1>1 DEF IInv, Marked
  <1>4. Turn' BY <1>1 DEF IInv, Turn
  <1>5. OnePlace' BY <1>1 DEF IInv, OnePlace
  <1>6. Early' BY <1>1 DEF IInv, TypeOK, Early, Reachable
  <1>7. Told' BY <1>1 DEF IInv, TypeOK, Told, Reachable
  <1>8. Returned' BY <1>1 DEF IInv, TypeOK, Marked, Early, Returned, Reachable
  <1> QED BY <1>2, <1>3, <1>4, <1>5, <1>6, <1>7, <1>8 DEF IInv

\* A caller that sends its call, takes its answer, or gives up.
LEMMA CallStep ==
  ASSUME IInv, NEW c \in Calls, Send(c) \/ Answered(c) \/ Fails(c)
  PROVE  IInv'
  <1> USE DEF Goes, Returns
  <1>1. CASE Send(c)
    <2> USE <1>1 DEF Send
    <2>2. TypeOK' BY DEF IInv, TypeOK, Phases
    <2>3. Marked' BY DEF IInv, Marked
    <2>4. Turn' BY DEF IInv, Turn
    <2>5. OnePlace' BY DEF IInv, TypeOK, OnePlace, Early, Reachable
    <2>6. Early' BY DEF IInv, TypeOK, Early, Reachable
    <2>7. Told' BY DEF IInv, TypeOK, Told, Early, Reachable
    <2>8. Returned' BY DEF IInv, TypeOK, Marked, Returned, Reachable
    <2> QED BY <2>2, <2>3, <2>4, <2>5, <2>6, <2>7, <2>8 DEF IInv
  <1>2. CASE Answered(c)
    <2> USE <1>2 DEF Answered
    <2>2. TypeOK' BY DEF IInv, TypeOK, Phases, Replies
    <2>3. Marked' BY DEF IInv, Marked
    <2>4. Turn' BY DEF IInv, Turn
    <2>5. OnePlace' BY DEF IInv, OnePlace
    <2>6. Early' BY DEF IInv, TypeOK, Early, Reachable, Replies
    <2>7. Told' BY DEF IInv, TypeOK, Told, Reachable
    <2>8. Returned' BY DEF IInv, TypeOK, Told, Returned, Reachable
    <2> QED BY <2>2, <2>3, <2>4, <2>5, <2>6, <2>7, <2>8 DEF IInv
  <1>3. CASE Fails(c)
    <2> USE <1>3 DEF Fails, CancelUnsubmitted
    <2>2. TypeOK' BY DEF IInv, TypeOK, Phases
    <2>3. Marked' BY DEF IInv, TypeOK, Marked
    <2>4. Turn' BY DEF IInv, TypeOK, Turn
    <2>5. OnePlace' BY DEF IInv, TypeOK, OnePlace
    <2>6. Early' BY DEF IInv, TypeOK, Early, Reachable
    <2>7. Told' BY DEF IInv, TypeOK, Told, Reachable
    <2>8. Returned' BY DEF IInv, TypeOK, Marked, Returned, Reachable
    <2> QED BY <2>2, <2>3, <2>4, <2>5, <2>6, <2>7, <2>8 DEF IInv
  <1> QED BY <1>1, <1>2, <1>3

\* The connection stops: the queue and the mailbox go, and only the active
\* call can have had an effect.
LEMMA StopStep ==
  ASSUME IInv, NEW result \in {"no_effect", "unknown", "failed"}, Stop(result),
         UNCHANGED <<callers, submitted>>,
         \/ token' = token
         \/ conn = "marked" /\ token' = [token EXCEPT ![active] = 2],
         result = "no_effect" /\ active \in Calls => ~submitted[active]
  PROVE  IInv'
  <1> USE DEF Stop
  <1>1. Range(<< >>) = {} /\ Distinct(<< >>) BY DEF Range, Distinct
  <1>2. active' = NoCall /\ NoCall \notin Calls /\ order' = << >> /\ sent' = {}
    BY AdmissionAssumption
  <1>3. \A c \in Calls : ~Reachable(c)' BY <1>1, <1>2 DEF Reachable
  <1>4. TypeOK' BY DEF IInv, TypeOK, Replies, Stages
  <1>5. Marked' BY DEF IInv, TypeOK, Turn, Marked
  <1>6. Turn' BY DEF Turn
  <1>7. OnePlace' BY <1>1, <1>2 DEF OnePlace
  <1>8. Early'
    <2> SUFFICES ASSUME NEW c \in Calls,
                        phase[c] \in {"new", "probing", "reserved", "holding"}
                 PROVE  reply'[c] = "none" /\ token'[c] = 0
      BY <1>3 DEF Early
    <2>1. reply[c] = "none" /\ token[c] = 0 /\ c # active
      BY DEF IInv, Early, Reachable
    <2> QED BY <2>1 DEF IInv, TypeOK
  <1>9. Told'
    <2> SUFFICES ASSUME NEW c \in Calls, reply'[c] = "no_effect"
                 PROVE  ~submitted[c]
      BY <1>3 DEF Told
    <2>1. CASE reply[c] = "no_effect" BY <2>1 DEF IInv, Told
    <2>2. CASE c = active BY <2>2, <2>1
    <2>3. CASE c \in Range(order) BY <2>3 DEF IInv, OnePlace, Marked
    <2> QED BY <2>1, <2>2, <2>3 DEF Queued
  <1>10. Returned' BY <1>3 DEF IInv, Returned
  <1> QED BY <1>4, <1>5, <1>6, <1>7, <1>8, <1>9, <1>10 DEF IInv

\* Calls that are told "no effect" by the connection while it goes on, and
\* that nobody can reach afterwards.
LEMMA TellStep ==
  ASSUME IInv, NEW told \in SUBSET Calls, Tells(told, "no_effect"),
         UNCHANGED <<callers, submitted, token, conn, active>>,
         order' \in Seq(Calls), Distinct(order'), sent' \subseteq sent,
         Range(order') \subseteq Range(order),
         \A c \in told : c \in sent \cup Range(order) /\ c \notin sent' \cup Range(order')
  PROVE  IInv'
  <1> USE DEF Tells
  <1>1. \A c \in Calls : Reachable(c)' => Reachable(c) BY DEF Reachable
  <1>2. TypeOK' BY DEF IInv, TypeOK, Replies
  <1>3. Marked' BY DEF IInv, Marked
  <1>4. Turn' BY DEF IInv, Turn
  <1>5. OnePlace' BY DEF IInv, OnePlace
  <1>6. Early'
    <2> SUFFICES ASSUME NEW c \in Calls,
                        phase[c] \in {"new", "probing", "reserved", "holding"}
                 PROVE  ~Reachable(c)' /\ reply'[c] = "none" /\ token[c] = 0
      BY DEF Early
    <2> QED BY <1>1 DEF IInv, TypeOK, Early
  <1>7. Told'
    <2> SUFFICES ASSUME NEW c \in Calls, reply'[c] = "no_effect"
                 PROVE  ~submitted[c] /\ ~Reachable(c)'
      BY DEF Told
    <2>1. CASE c \in told
      <3>1. c # active BY <2>1 DEF IInv, OnePlace
      <3> QED BY <2>1, <3>1 DEF IInv, OnePlace, Marked, Reachable
    <2>2. CASE c \notin told BY <1>1, <2>2 DEF IInv, Told
    <2> QED BY <2>1, <2>2
  <1>8. Returned' BY <1>1 DEF IInv, Returned
  <1> QED BY <1>2, <1>3, <1>4, <1>5, <1>6, <1>7, <1>8 DEF IInv

\* What the connection does with its mailbox and its queue.
LEMMA QueueStep ==
  ASSUME IInv, NEW c \in Calls, Enqueue(c) \/ Drops(c) \/ DrainRefuses \/ DrainEmpty
  PROVE  IInv'
  <1>1. order \in Seq(Calls) /\ Distinct(order) /\ sent \subseteq Calls
    BY DEF IInv, TypeOK, OnePlace
  <1>2. CASE Enqueue(c) /\ UNCHANGED order
    BY <1>1, <1>2, TellStep, AppendProperties DEF Enqueue, IInv, OnePlace
  <1>3. CASE Enqueue(c) /\ order' = Append(order, c)
    <2>1. c \in sent /\ c \notin Range(order) /\ sent' = sent \ {c}
      BY <1>3 DEF Enqueue, IInv, OnePlace
    <2>2. /\ order' \in Seq(Calls) /\ Distinct(order')
          /\ Range(order') = Range(order) \cup {c}
      BY <1>1, <1>3, <2>1, QueueAppend
    <2>3. UNCHANGED <<conn, active, phase, token, submitted, reply>>
      BY <1>1, <1>3, AppendProperties DEF Enqueue
    <2>4. \A d \in Calls : Reachable(d)' <=> Reachable(d)
      BY <2>1, <2>2, <2>3 DEF Reachable
    <2>5. TypeOK' BY <2>1, <2>2, <2>3 DEF IInv, TypeOK
    <2>6. Marked' /\ Turn' BY <2>3 DEF IInv, Marked, Turn
    <2>7. OnePlace' BY <2>1, <2>2, <2>3 DEF IInv, OnePlace
    <2>8. Early' /\ Told' /\ Returned' BY <2>3, <2>4 DEF IInv, Early, Told, Returned
    <2> QED BY <2>5, <2>6, <2>7, <2>8 DEF IInv
  <1>4. CASE Drops(c)
    <2>1. PICK i \in DOMAIN order : order[i] = c /\ order' = RemoveAt(order, i)
      BY <1>4 DEF Drops
    <2>2. /\ order' \in Seq(Calls) /\ Distinct(order')
          /\ Range(order') = Range(order) \ {c} /\ c \in Range(order)
      BY <1>1, <2>1, QueueRemove DEF Range
    <2>3. c \notin sent BY <2>2 DEF IInv, OnePlace
    <2> QED BY <1>4, <2>2, <2>3, TellStep DEF Drops, Finish
  <1>5. CASE DrainRefuses
    <2> DEFINE h == Head(order)
    <2>1. /\ order' \in Seq(Calls) /\ Distinct(order') /\ h \in Calls
          /\ Range(order') = Range(order) \ {h} /\ h \in Range(order)
      BY <1>1, <1>5, QueueHead DEF DrainRefuses
    <2>3. h \notin sent BY <2>1 DEF IInv, OnePlace
    <2> QED BY <1>5, <2>1, <2>3, TellStep DEF DrainRefuses, Finish
  <1>6. CASE DrainEmpty
    BY <1>6 DEF DrainEmpty, IInv, TypeOK, Marked, Turn, OnePlace, Early, Told, Returned,
       Reachable
  <1> QED BY <1>2, <1>3, <1>4, <1>5, <1>6 DEF Enqueue

\* A call is taken from the queue, marked and given to the Port.
LEMMA DispatchStep ==
  ASSUME IInv, DrainBegins \/ MarkSubmission \/ Command \/ CommandFails
  PROVE  IInv'
  <1>1. CASE DrainBegins
    <2> DEFINE h == Head(order)
    <2>1. order \in Seq(Calls) /\ Distinct(order) /\ order # << >>
      BY <1>1 DEF DrainBegins, IInv, TypeOK, OnePlace
    <2>2. /\ order' \in Seq(Calls) /\ Distinct(order') /\ h \in Calls
          /\ Range(order') = Range(order) \ {h} /\ h \in Range(order)
      BY <1>1, <2>1, QueueHead DEF DrainBegins
    <2>3. /\ active' = h /\ conn' = "dispatching" /\ active = NoCall /\ h # NoCall
          /\ UNCHANGED <<phase, token, submitted, reply, sent>>
      BY <1>1, <2>2, AdmissionAssumption DEF DrainBegins, IInv, Turn
    <2> HIDE DEF h
    <2>4. \A d \in Calls : Reachable(d)' <=> Reachable(d)
      BY <2>2, <2>3, AdmissionAssumption DEF Reachable
    <2>5. TypeOK' BY <2>2, <2>3 DEF IInv, TypeOK, Stages
    <2>6. Marked' /\ Turn' BY <2>2, <2>3 DEF IInv, Marked, Turn, OnePlace
    <2>7. OnePlace' BY <2>2, <2>3 DEF IInv, OnePlace
    <2>8. Early' /\ Told' /\ Returned' BY <2>3, <2>4 DEF IInv, Early, Told, Returned
    <2> QED BY <2>5, <2>6, <2>7, <2>8 DEF IInv
  <1>2. CASE MarkSubmission /\ conn' = "marked"
    <2>1. /\ active \in Calls /\ token[active] = 0 /\ token' = [token EXCEPT ![active] = 1]
          /\ UNCHANGED <<phase, submitted, reply, sent, order, active>>
      BY <1>2 DEF MarkSubmission, Stop, IInv, TypeOK, Turn
    <2>2. ~submitted[active] BY <2>1 DEF IInv, Marked
    <2>3. TypeOK' BY <1>2, <2>1 DEF IInv, TypeOK, Stages
    <2>4. Marked' BY <2>1, <2>2 DEF IInv, TypeOK, Marked
    <2>5. Turn' BY <1>2, <2>1, <2>2 DEF IInv, TypeOK, Turn, MarkSubmission
    <2>6. OnePlace' BY <2>1 DEF IInv, TypeOK, OnePlace
    <2>7. Early' BY <2>1 DEF IInv, TypeOK, Early, Reachable
    <2>8. Told' BY <2>1 DEF IInv, Told, Reachable
    <2>9. Returned' BY <2>1 DEF IInv, TypeOK, Returned, Reachable
    <2> QED BY <2>3, <2>4, <2>5, <2>6, <2>7, <2>8, <2>9 DEF IInv
  <1>3. CASE MarkSubmission /\ conn' # "marked"
    <2>1. Stop("no_effect") /\ UNCHANGED <<token, phase, submitted, probe, late>>
      BY <1>3 DEF MarkSubmission
    <2>2. active \in Calls => ~submitted[active]
      BY <1>3 DEF MarkSubmission, IInv, Turn, Marked
    <2> QED BY <2>1, <2>2, StopStep
  <1>4. CASE Command
    <2> USE <1>4 DEF Command
    <2>1. active \in Calls /\ token[active] = 1
      BY DEF IInv, TypeOK, Turn
    <2>3. TypeOK' BY <2>1 DEF IInv, TypeOK, Stages
    <2>4. Marked' BY <2>1 DEF IInv, TypeOK, Marked
    <2>5. Turn' BY <2>1 DEF IInv, Turn
    <2>6. OnePlace' BY DEF IInv, OnePlace
    <2>7. Early' BY <2>1 DEF IInv, Early, Reachable
    <2>8. Told' BY <2>1 DEF IInv, TypeOK, Told, Reachable
    <2>9. Returned' BY <2>1 DEF IInv, TypeOK, Returned, Reachable
    <2> QED BY <2>3, <2>4, <2>5, <2>6, <2>7, <2>8, <2>9 DEF IInv
  <1>5. CASE CommandFails
    BY <1>5, StopStep DEF CommandFails, IInv, Turn
  <1> QED BY <1>1, <1>2, <1>3, <1>4, <1>5

\* The active call is answered, or the exchange, the session or the process
\* ends.
LEMMA AnswerStep ==
  ASSUME IInv, Respond \/ ChannelError \/ Lost \/ Killed \/ CloseControl \/ Reap
  PROVE  IInv'
  <1>1. CASE Respond
    <2>1. PICK result \in {"ok", "failed"} : Tells({active}, result)
      BY <1>1 DEF Respond, Finish
    <2>2. /\ active' = NoCall /\ conn' = "idle" /\ active \in Calls
          /\ UNCHANGED <<phase, token, submitted, sent, order>>
      BY <1>1 DEF Respond, IInv, TypeOK, Turn
    <2>3. /\ \A d \in Calls : Reachable(d)' => Reachable(d)
          /\ NoCall \notin Range(order) /\ NoCall \notin sent
      <3>1. NoCall \notin sent /\ order \in Seq(Calls)
        BY AdmissionAssumption DEF IInv, TypeOK
      <3>2. NoCall \notin Range(order) BY <3>1, AdmissionAssumption DEF Range
      <3> QED BY <2>2, <3>1, <3>2, AdmissionAssumption DEF Reachable
    <2>4. TypeOK' BY <2>1, <2>2 DEF Tells, IInv, TypeOK, Replies, Stages
    <2>5. Marked' /\ Turn' BY <2>2 DEF IInv, Marked, Turn
    <2>6. OnePlace' BY <2>2, <2>3 DEF IInv, OnePlace
    <2>7. Early' BY <2>1, <2>2, <2>3 DEF Tells, IInv, TypeOK, Early
    <2>8. Told' BY <2>1, <2>2, <2>3 DEF Tells, IInv, TypeOK, Told
    <2>9. Returned' BY <2>2, <2>3 DEF IInv, Returned
    <2> QED BY <2>4, <2>5, <2>6, <2>7, <2>8, <2>9 DEF IInv
  <1>2. CASE ChannelError BY <1>2, StopStep DEF ChannelError
  <1>3. CASE Lost
    <2>1. active \notin Calls BY <1>3, AdmissionAssumption DEF Lost, IInv, Turn
    <2> QED BY <1>3, <2>1, StopStep DEF Lost
  <1>4. CASE Killed
    <2> USE <1>4 DEF Killed
    <2>1. Range(<< >>) = {} /\ Distinct(<< >>) BY DEF Range, Distinct
    <2>2. \A d \in Calls : ~Reachable(d)' BY <2>1, AdmissionAssumption DEF Reachable
    <2>3. TypeOK' BY DEF IInv, TypeOK, Stages
    <2>4. Marked' /\ Turn' BY DEF IInv, Marked, Turn
    <2>5. OnePlace' BY <2>1 DEF OnePlace
    <2>6. Early' /\ Told' /\ Returned' BY <2>2 DEF IInv, Early, Told, Returned
    <2> QED BY <2>3, <2>4, <2>5, <2>6 DEF IInv
  <1>5. CASE CloseControl /\ conn' = "disconnecting"
    <2>1. /\ conn = "idle" /\ UNCHANGED <<phase, token, submitted, reply, sent, order, active>>
      BY <1>5 DEF CloseControl, Stop
    <2> QED BY <1>5, <2>1 DEF IInv, TypeOK, Stages, Marked, Turn, OnePlace, Early, Told,
                              Returned, Reachable
  <1>6. CASE CloseControl /\ conn' # "disconnecting"
    <2>1. active \notin Calls BY <1>6, AdmissionAssumption DEF CloseControl, IInv, Turn
    <2> QED BY <1>6, <2>1, StopStep DEF CloseControl
  <1>7. CASE Reap /\ ~CloseFailure
    <2> DEFINE abandoned == {c \in Calls : Reclaims(c)}
    <2>1. /\ sent' = sent \ abandoned /\ Tells(abandoned \cap sent, "no_effect")
          /\ UNCHANGED <<phase, probe, late, token, submitted, order, active, conn>>
      BY <1>7 DEF Reap
    <2>2. \A c \in abandoned : c \notin Range(order) BY DEF Reclaims, Queued
    <2>3. order \in Seq(Calls) /\ Distinct(order) BY DEF IInv, TypeOK, OnePlace
    <2> HIDE DEF abandoned
    <2>4. abandoned \cap sent \in SUBSET Calls BY DEF IInv, TypeOK
    <2> QED BY <2>1, <2>2, <2>3, <2>4, TellStep
  <1>8. CASE Reap /\ CloseFailure
    BY <1>8, StopStep DEF Reap
  <1> QED BY <1>1, <1>2, <1>3, <1>4, <1>5, <1>6, <1>7, <1>8

\* Every step of callers, closers and connection keeps the invariant.
LEMMA IInvStep == IInv /\ [Next]_vars => IInv'
  <1> SUFFICES ASSUME IInv, [Next]_vars PROVE IInv' OBVIOUS
  <1>1. ASSUME UNCHANGED <<phase, token, submitted, reply, sent, order, active, conn>>
        PROVE  IInv'
    BY <1>1 DEF IInv, TypeOK, Marked, Turn, OnePlace, Early, Told, Returned, Reachable
  <1>2. CASE \E c \in Calls : Caller(c) \/ Dies(c) \/ Enqueue(c) \/ Drops(c)
    BY <1>2, CallerStep, CallStep, QueueStep DEF Caller
  <1>3. CASE \E c \in Calls : Expires(c)
    BY <1>1, <1>3 DEF Expires
  <1>4. CASE \E k \in Closers : BeginClose(k) \/ SendClose(k) \/ CloseReturns(k) \/ CloserDies(k)
    BY <1>1, <1>4 DEF BeginClose, SendClose, CloseReturns, CloserDies
  <1>5. CASE Dispatch \/ DrainBegins
    BY <1>5, DispatchStep DEF Dispatch
  <1>6. CASE DrainEmpty \/ DrainRefuses
    <2>1. CASE DrainEmpty BY <1>1, <2>1 DEF DrainEmpty
    <2>2. CASE DrainRefuses
      <3>1. Head(order) \in Calls BY <2>2 DEF DrainRefuses, IInv, TypeOK
      <3> QED BY <2>2, <3>1, QueueStep
    <2> QED BY <1>6, <2>1, <2>2
  <1>7. CASE Respond \/ ChannelError \/ Lost \/ Killed \/ CloseControl \/ Reap
    BY <1>7, AnswerStep
  <1>8. CASE CloseExpires BY <1>1, <1>8 DEF CloseExpires
  <1>9. CASE UNCHANGED vars BY <1>1, <1>9 DEF vars
  <1> QED BY <1>2, <1>3, <1>4, <1>5, <1>6, <1>7, <1>8, <1>9 DEF Next, Drain

\* An error that says "no effect" is true, of every call, whoever cancelled,
\* died, closed or was killed meanwhile (call_error against submit_request).
THEOREM NoEffectCorrect == Spec => []NoEffectIsHonest
  <1>1. IInv => NoEffectIsHonest BY DEF IInv, Returned, NoEffectIsHonest
  <1> QED BY InitIInv, IInvStep, <1>1, PTL DEF Spec

\* A call is never in two places of the connection, and the Port takes only
\* the call whose marker the connection itself has set.
THEOREM OnePlaceCorrect == Spec => [](OnePlace /\ Marked)
  <1>1. IInv => OnePlace /\ Marked BY DEF IInv
  <1> QED BY InitIInv, IInvStep, <1>1, PTL DEF Spec
=============================================================================
