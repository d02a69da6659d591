------------------------ MODULE BoundedOutput_proofs ------------------------
(***************************************************************************)
(* Proofs about BoundedOutput, for any classes, sizes and reservations and *)
(* any capacity of the pipe: what is accepted is written once and in       *)
(* order, and the reservations are what the frames hold.                   *)
(***************************************************************************)
EXTENDS BoundedOutput, FiniteSetTheorems, TLAPS

-----------------------------------------------------------------------------
(* The inductive invariant.                                                *)

Writing == {"writing", "written", "unwritten"}

\* One for a frame that is held and not written yet, else nothing.
Ahead == IF writer \in {"writing", "unwritten"} THEN 1 ELSE 0

TypeOK ==
  /\ pending \in Seq(Frames) /\ pipe \in Seq(Frames)
  /\ writer \in Writing \cup {"waiting", "ended"}
  /\ writer \in Writing => writing \in Frames
  /\ writer \notin Writing => writing = NoFrame
  /\ frames \in [Classes -> Nat] /\ bytes \in [Classes -> Nat]
  /\ accepted \in Nat /\ last_read \in Nat /\ consumed \in Nat
  /\ unacked \in Seq(Nat)
  /\ healthy \in BOOLEAN /\ stopping \in BOOLEAN

\* The ids run on through the pipe, the writer and the queue.
InOrder ==
  /\ \A i \in 1..Len(pipe) : pipe[i].id = last_read + i
  /\ writer \in {"writing", "unwritten"} => writing.id = last_read + Len(pipe) + 1
  /\ \A i \in 1..Len(pending) : pending[i].id = last_read + Len(pipe) + Ahead + i
  /\ healthy => accepted = last_read + Len(pipe) + Ahead + Len(pending)

\* A failed output has dropped its queue; a writer that ended has emptied it.
Emptied ==
  /\ ~healthy => pending = << >> /\ stopping
  /\ writer = "ended" => stopping /\ pending = << >>

\* The places of the frames of a class, and their number.
Of(s, c) == {i \in DOMAIN s : s[i].class = c}
Count(s, c) == Cardinality(Of(s, c))

\* What the frame in the writer holds.
One(c) == IF writer \in Writing /\ writing.class = c THEN 1 ELSE 0
Size(c) == IF writer \in Writing /\ writing.class = c THEN writing.size ELSE 0

\* b is the sum of the sizes of a class: f gives the sums, and g the numbers,
\* of what follows each place.
Sums(s, c, b) ==
  \E f, g \in [1..(Len(s) + 1) -> Nat] :
    /\ f[1] = b /\ g[1] = Count(s, c)
    /\ f[Len(s) + 1] = 0 /\ g[Len(s) + 1] = 0
    /\ \A i \in 1..Len(s) :
         /\ f[i] = f[i + 1] + (IF s[i].class = c THEN s[i].size ELSE 0)
         /\ g[i] = g[i + 1] + (IF s[i].class = c THEN 1 ELSE 0)
    /\ \A i \in 1..(Len(s) + 1) : g[i] <= f[i]

\* The reservation of a class, before and after a failure.
Reserved(c) ==
  /\ frames[c] <= MaximumFrames[c] /\ bytes[c] <= MaximumBytes[c]
  /\ healthy => /\ frames[c] = One(c) + Count(pending, c)
                /\ bytes[c] >= Size(c) /\ Sums(pending, c, bytes[c] - Size(c))
  /\ ~healthy => frames[c] >= One(c) /\ bytes[c] >= Size(c)

\* Every reserved, sent or read report is one the session has not seen
\* acknowledged.
Unacknowledged ==
  consumed + Count(pipe, Report) + frames[Report]
    <= Len(unacked) + (IF writer = "written" THEN One(Report) ELSE 0)

IInv == TypeOK /\ InOrder /\ Emptied /\ (\A c \in Classes : Reserved(c)) /\ Unacknowledged
-----------------------------------------------------------------------------
(* Counting.                                                               *)

\* A count is a number, and none of an empty sequence.
LEMMA CountIs ==
  ASSUME NEW s \in Seq(Frames), NEW c
  PROVE  /\ IsFiniteSet(Of(s, c)) /\ Count(s, c) \in Nat
         /\ s = << >> => Count(s, c) = 0
  <1>1. IsFiniteSet(1..Len(s)) BY FS_Interval
  <1>2. Of(s, c) \in SUBSET (1..Len(s)) BY DEF Of
  <1>3. IsFiniteSet(Of(s, c)) BY <1>1, <1>2, FS_Subset
  <1>4. Count(s, c) \in Nat BY <1>3, FS_CardinalityType DEF Count
  <1>5. s = << >> => Of(s, c) = {} BY DEF Of
  <1> QED BY <1>3, <1>4, <1>5, FS_EmptySet DEF Count

\* A frame that joins adds one to the count of its class.
LEMMA CountAppend ==
  ASSUME NEW s \in Seq(Frames), NEW x \in Frames, NEW c
  PROVE  Count(Append(s, x), c) = Count(s, c) + (IF x.class = c THEN 1 ELSE 0)
  <1> DEFINE t == Append(s, x)
             n == Len(s) + 1
  <1>1. /\ DOMAIN t = 1..n /\ DOMAIN s = 1..Len(s) /\ Len(s) \in Nat
        /\ t[n] = x /\ \A i \in 1..Len(s) : t[i] = s[i]
    OBVIOUS
  <1>2. IsFiniteSet(Of(s, c)) /\ n \notin Of(s, c) /\ Count(s, c) \in Nat
    <2>1. n \notin Of(s, c) BY <1>1 DEF Of
    <2> QED BY <2>1, CountIs
  <1>3. CASE x.class = c
    <2>1. Of(t, c) = Of(s, c) \cup {n} BY <1>1, <1>3 DEF Of
    <2>2. Cardinality(Of(s, c) \cup {n}) = Cardinality(Of(s, c)) + 1
      BY ONLY <1>2, FS_AddElement
    <2> QED BY <1>3, <2>1, <2>2 DEF Count
  <1>4. CASE x.class # c
    <2>1. Of(t, c) = Of(s, c) BY <1>1, <1>4 DEF Of
    <2> QED BY <1>2, <1>4, <2>1 DEF Count
  <1> QED BY <1>3, <1>4

\* The frame at the head takes one from it.
LEMMA CountTail ==
  ASSUME NEW s \in Seq(Frames), s # << >>, NEW c
  PROVE  Count(s, c) = Count(Tail(s), c) + (IF Head(s).class = c THEN 1 ELSE 0)
  <1> DEFINE t == Tail(s)
             rest == Of(s, c) \ {1}
             f == [i \in Of(t, c) |-> i + 1]
  <1>1. /\ t \in Seq(Frames) /\ DOMAIN s = 1..Len(s) /\ Len(s) \in Nat \ {0}
        /\ DOMAIN t = 1..(Len(s) - 1) /\ Head(s) = s[1]
        /\ \A i \in 1..(Len(s) - 1) : t[i] = s[i + 1]
    OBVIOUS
  <1>2. IsFiniteSet(Of(s, c)) /\ IsFiniteSet(Of(t, c)) /\ Count(t, c) \in Nat /\ Count(s, c) \in Nat
    BY <1>1, CountIs
  <1>3. 1 \in Of(s, c) <=> Head(s).class = c BY <1>1 DEF Of
  <1>4. f \in Bijection(Of(t, c), rest)
    <2>1. \A i \in Of(t, c) : i \in Nat /\ i + 1 \in rest BY <1>1 DEF Of
    <2>2. \A j \in rest : j \in Nat /\ j - 1 \in Of(t, c) /\ f[j - 1] = j BY <1>1 DEF Of
    <2>3. f \in Injection(Of(t, c), rest) BY <2>1 DEF Injection, IsInjective
    <2>4. f \in Surjection(Of(t, c), rest) BY <2>1, <2>2 DEF Surjection
    <2> QED BY <2>3, <2>4 DEF Bijection
  <1>5. Cardinality(rest) = Count(t, c)
    BY <1>2, <1>4, FS_Bijection DEF ExistsBijection, Count
  <1>6. Cardinality(rest) = IF 1 \in Of(s, c) THEN Count(s, c) - 1 ELSE Count(s, c)
    BY <1>2, FS_RemoveElement DEF Count
  <1> QED BY <1>2, <1>3, <1>5, <1>6

\* The places of two sequences put together.
LEMMA ConcatIs ==
  ASSUME NEW s \in Seq(Frames), NEW t \in Seq(Frames)
  PROVE  /\ DOMAIN (s \o t) = 1..(Len(s) + Len(t)) /\ Len(s \o t) = Len(s) + Len(t)
         /\ \A i \in 1..Len(s) : (s \o t)[i] = s[i]
         /\ \A i \in (Len(s) + 1)..(Len(s) + Len(t)) :
              (s \o t)[i] = t[i - Len(s)] /\ i - Len(s) \in 1..Len(t)
  <1>1. Len(s) \in Nat /\ Len(t) \in Nat OBVIOUS
  <1>2. DOMAIN (s \o t) = 1..(Len(s) + Len(t)) /\ Len(s \o t) = Len(s) + Len(t) OBVIOUS
  <1>3. \A i \in 1..Len(s) : (s \o t)[i] = s[i] BY <1>1
  <1>4. \A i \in (Len(s) + 1)..(Len(s) + Len(t)) : (s \o t)[i] = t[i - Len(s)] BY <1>1
  <1>5. \A i \in (Len(s) + 1)..(Len(s) + Len(t)) : i - Len(s) \in 1..Len(t) BY <1>1
  <1> QED BY <1>2, <1>3, <1>4, <1>5

\* The sums of an empty queue.
LEMMA SumsEmpty ==
  ASSUME NEW c
  PROVE  Sums(<< >>, c, 0)
  <1> DEFINE f == [i \in 1..1 |-> 0]
  <1>1. Count(<< >>, c) = 0
    <2>1. << >> \in Seq(Frames) OBVIOUS
    <2> QED BY <2>1, CountIs
  <1>2. /\ f \in [1..(Len(<< >>) + 1) -> Nat] /\ f[1] = 0 /\ f[Len(<< >>) + 1] = 0
        /\ 1..Len(<< >>) = {} /\ \A i \in 1..(Len(<< >>) + 1) : f[i] <= f[i]
    OBVIOUS
  <1> HIDE DEF f
  <1> QED BY <1>1, <1>2 DEF Sums

\* A sum is at least the number of the frames.
LEMMA SumsBound ==
  ASSUME NEW s \in Seq(Frames), NEW c, NEW b, Sums(s, c, b)
  PROVE  b \in Nat /\ Count(s, c) <= b
  <1>1. Len(s) \in Nat OBVIOUS
  <1> QED BY <1>1 DEF Sums

\* A frame that joins adds its size to the sum of its class.
LEMMA SumsAppend ==
  ASSUME NEW s \in Seq(Frames), NEW x \in Frames, NEW c, NEW b, Sums(s, c, b)
  PROVE  Sums(Append(s, x), c, b + (IF x.class = c THEN x.size ELSE 0))
  <1> DEFINE t == Append(s, x)
             n == Len(s) + 1
             z == IF x.class = c THEN x.size ELSE 0
             u == IF x.class = c THEN 1 ELSE 0
  <1>1. PICK f \in [1..n -> Nat], g \in [1..n -> Nat] :
          /\ f[1] = b /\ g[1] = Count(s, c)
          /\ f[n] = 0 /\ g[n] = 0
          /\ \A i \in 1..Len(s) :
               /\ f[i] = f[i + 1] + (IF s[i].class = c THEN s[i].size ELSE 0)
               /\ g[i] = g[i + 1] + (IF s[i].class = c THEN 1 ELSE 0)
          /\ \A i \in 1..n : g[i] <= f[i]
    BY DEF Sums
  <1> DEFINE F == [i \in 1..(n + 1) |-> IF i = n + 1 THEN 0 ELSE f[i] + z]
             G == [i \in 1..(n + 1) |-> IF i = n + 1 THEN 0 ELSE g[i] + u]
  <1>2. /\ Len(s) \in Nat /\ n \in Nat \ {0} /\ Len(t) = n /\ t[n] = x
        /\ \A i \in 1..Len(s) : t[i] = s[i]
    OBVIOUS
  <1>3. z \in Nat /\ u \in Nat /\ u <= z BY DEF Frames
  <1>4. Count(t, c) = Count(s, c) + u BY CountAppend
  <1> HIDE DEF t, z, u, n
  <1>5. F \in [1..(n + 1) -> Nat] /\ G \in [1..(n + 1) -> Nat] BY <1>2, <1>3, SMTT(30)
  <1>6. F[1] = b + z /\ G[1] = Count(t, c) BY <1>1, <1>2, <1>4
  <1>7. F[n + 1] = 0 /\ G[n + 1] = 0 BY <1>2
  <1>8. ASSUME NEW i \in 1..n
        PROVE  /\ F[i] = F[i + 1] + (IF t[i].class = c THEN t[i].size ELSE 0)
               /\ G[i] = G[i + 1] + (IF t[i].class = c THEN 1 ELSE 0)
    <2>1. CASE i = n BY <1>1, <1>2, <1>3, <2>1 DEF z, u
    <2>2. CASE i # n
      <3>1. i \in 1..Len(s) /\ i + 1 \in 1..n /\ i + 1 # n + 1 /\ i # n + 1
            /\ i \in 1..(n + 1) /\ i + 1 \in 1..(n + 1) /\ s[i] \in Frames
        BY <1>2, <2>2 DEF n
      <3>2. F[i] = f[i] + z /\ F[i + 1] = f[i + 1] + z /\ G[i] = g[i] + u /\ G[i + 1] = g[i + 1] + u
        BY <3>1
      <3>3. f[i + 1] \in Nat /\ g[i + 1] \in Nat /\ t[i] = s[i] BY <1>2, <3>1
      <3>4. s[i].size \in Nat BY <3>1 DEF Frames
      <3> QED BY <1>1, <1>3, <3>1, <3>2, <3>3, <3>4
    <2> QED BY <2>1, <2>2
  <1>9. \A i \in 1..(n + 1) : G[i] <= F[i] BY <1>1, <1>2, <1>3
  <1> HIDE DEF F, G
  <1>10. Sums(t, c, b + z) BY <1>2, <1>5, <1>6, <1>7, <1>8, <1>9 DEF Sums
  <1> QED BY <1>10 DEF t, z

\* The frame at the head takes its size from it.
LEMMA SumsTail ==
  ASSUME NEW s \in Seq(Frames), s # << >>, NEW c, NEW b, Sums(s, c, b)
  PROVE  LET z == IF Head(s).class = c THEN Head(s).size ELSE 0
         IN  z <= b /\ Sums(Tail(s), c, b - z)
  <1> DEFINE t == Tail(s)
             n == Len(s)
             z == IF Head(s).class = c THEN Head(s).size ELSE 0
             u == IF Head(s).class = c THEN 1 ELSE 0
  <1>1. PICK f \in [1..(n + 1) -> Nat], g \in [1..(n + 1) -> Nat] :
          /\ f[1] = b /\ g[1] = Count(s, c)
          /\ f[n + 1] = 0 /\ g[n + 1] = 0
          /\ \A i \in 1..n :
               /\ f[i] = f[i + 1] + (IF s[i].class = c THEN s[i].size ELSE 0)
               /\ g[i] = g[i + 1] + (IF s[i].class = c THEN 1 ELSE 0)
          /\ \A i \in 1..(n + 1) : g[i] <= f[i]
    BY DEF Sums
  <1> DEFINE F == [i \in 1..n |-> f[i + 1]]
             G == [i \in 1..n |-> g[i + 1]]
  <1>2. /\ n \in Nat \ {0} /\ t \in Seq(Frames) /\ Len(t) = n - 1 /\ Head(s) = s[1] /\ s[1] \in Frames
        /\ \A i \in 1..(n - 1) : t[i] = s[i + 1]
    OBVIOUS
  <1>3. Count(s, c) = Count(t, c) + u /\ Count(t, c) \in Nat BY <1>2, CountTail, CountIs
  <1>4. z \in Nat /\ u \in Nat BY <1>2 DEF Frames
  <1>5. f[1] = f[2] + z /\ g[1] = g[2] + u /\ f[2] \in Nat /\ g[2] \in Nat
    <2>1. 1 \in 1..n /\ 2 \in 1..(n + 1) /\ 1 + 1 = 2 BY <1>2
    <2>2. f[2] \in Nat /\ g[2] \in Nat BY <2>1
    <2>3. /\ f[1] = f[1 + 1] + (IF s[1].class = c THEN s[1].size ELSE 0)
          /\ g[1] = g[1 + 1] + (IF s[1].class = c THEN 1 ELSE 0)
      BY <1>1, <2>1
    <2> QED BY <1>2, <2>2, <2>3
  <1> HIDE DEF t, z, u, n
  <1>6. z <= b /\ F[1] = b - z /\ G[1] = Count(t, c)
    <2>1. 1 \in 1..n BY <1>2
    <2>2. F[1] = f[2] /\ G[1] = g[2] BY <2>1
    <2> QED BY <1>1, <1>3, <1>4, <1>5, <2>2
  <1>7. F \in [1..n -> Nat] /\ G \in [1..n -> Nat] /\ F[n] = 0 /\ G[n] = 0 BY <1>1, <1>2, SMTT(30)
  <1>8. ASSUME NEW i \in 1..(n - 1)
        PROVE  /\ F[i] = F[i + 1] + (IF t[i].class = c THEN t[i].size ELSE 0)
               /\ G[i] = G[i + 1] + (IF t[i].class = c THEN 1 ELSE 0)
    <2>1. i + 1 \in 1..n /\ i \in 1..n BY <1>2
    <2>2. F[i] = f[i + 1] /\ F[i + 1] = f[i + 1 + 1] /\ G[i] = g[i + 1] /\ G[i + 1] = g[i + 1 + 1]
      BY <2>1
    <2> QED BY <1>1, <1>2, <2>1, <2>2
  <1>9. \A i \in 1..n : G[i] <= F[i] BY <1>1, <1>2
  <1> HIDE DEF F, G
  <1>10. Sums(t, c, b - z)
    <2>1. Len(t) + 1 = n BY <1>2
    <2>2. Len(t) = n - 1 BY <1>2
    <2> QED BY <1>6, <1>7, <1>8, <1>9, <2>1, <2>2 DEF Sums
  <1> QED BY <1>6, <1>10 DEF t, z
-----------------------------------------------------------------------------
(* Steps.                                                                  *)

\* Nothing is queued and nothing reserved.
LEMMA InitIInv == Init => IInv
  <1> SUFFICES ASSUME Init PROVE IInv OBVIOUS
  <1>1. << >> \in Seq(Frames) /\ << >> \in Seq(Nat) /\ Len(<< >>) = 0 OBVIOUS
  <1>2. TypeOK BY <1>1, OutputAssumption DEF Init, TypeOK, Writing
  <1>3. InOrder /\ Emptied BY <1>1 DEF Init, InOrder, Emptied, Ahead
  <1>4. ASSUME NEW c \in Classes PROVE Reserved(c)
    <2>1. Count(<< >>, c) = 0 BY <1>1, CountIs
    <2>2. One(c) = 0 /\ Size(c) = 0 /\ frames[c] = 0 /\ bytes[c] = 0
      BY DEF Init, One, Size, Writing
    <2>3. MaximumFrames[c] \in Nat /\ MaximumBytes[c] \in Nat BY OutputAssumption
    <2>4. Sums(<< >>, c, 0 - 0) BY SumsEmpty
    <2> QED BY <2>1, <2>2, <2>3, <2>4 DEF Init, Reserved
  <1>5. Unacknowledged
    <2>1. Count(<< >>, Report) = 0 /\ One(Report) = 0 BY <1>1, CountIs DEF Init, One, Writing
    <2> QED BY <1>1, <2>1, OutputAssumption DEF Init, Unacknowledged
  <1> QED BY <1>2, <1>3, <1>4, <1>5 DEF IInv

\* Numbers of the reservations.
LEMMA NumbersAre ==
  ASSUME TypeOK, NEW c \in Classes
  PROVE  /\ frames[c] \in Nat /\ bytes[c] \in Nat
         /\ MaximumFrames[c] \in Nat /\ MaximumBytes[c] \in Nat
         /\ One(c) \in {0, 1} /\ Size(c) \in Nat
         /\ Count(pending, c) \in Nat /\ Count(pipe, c) \in Nat
         /\ Len(pending) \in Nat /\ Len(pipe) \in Nat /\ Ahead \in {0, 1}
  <1>1. frames[c] \in Nat /\ bytes[c] \in Nat /\ Len(pending) \in Nat /\ Len(pipe) \in Nat
    BY DEF TypeOK
  <1>2. MaximumFrames[c] \in Nat /\ MaximumBytes[c] \in Nat BY OutputAssumption
  <1>3. One(c) \in {0, 1} /\ Ahead \in {0, 1} BY DEF One, Ahead
  <1>4. Size(c) \in Nat BY DEF TypeOK, Size, Frames
  <1>5. Count(pending, c) \in Nat /\ Count(pipe, c) \in Nat BY CountIs DEF TypeOK
  <1> QED BY <1>1, <1>2, <1>3, <1>4, <1>5

\* Enqueue takes a frame that fits.
LEMMA AcceptStep ==
  ASSUME IInv, NEW k \in Classes, NEW size \in Nat \ {0}, Enqueue(k, size), Fits(k, size),
         \/ k = Report /\ unacked' = Append(unacked, size)
         \/ k # Report /\ unacked' = unacked,
         consumed' = consumed
  PROVE  IInv'
  <1>0. TypeOK BY DEF IInv
  <1>1. PICK x \in Frames : x = Frame(k, size)
    <2>1. accepted + 1 \in Nat BY <1>0 DEF TypeOK
    <2>2. Frame(k, size) \in Frames BY <2>1 DEF Frame, Frames
    <2> QED BY <2>2
  <1>2. /\ healthy /\ ~stopping
        /\ frames' = [frames EXCEPT ![k] = @ + 1] /\ bytes' = [bytes EXCEPT ![k] = @ + size]
        /\ pending' = Append(pending, x) /\ accepted' = accepted + 1
        /\ UNCHANGED <<healthy, stopping, writer, writing, pipe, last_read>>
        /\ x.class = k /\ x.size = size /\ x.id = accepted + 1
    BY <1>1 DEF Enqueue, Frame, outside
  <1>3. /\ frames'[k] = frames[k] + 1 /\ bytes'[k] = bytes[k] + size
        /\ \A c \in Classes \ {k} : frames'[c] = frames[c] /\ bytes'[c] = bytes[c]
    BY <1>0, <1>2 DEF TypeOK
  <1>4. \A c \in Classes : One(c)' = One(c) /\ Size(c)' = Size(c) BY <1>2 DEF One, Size
  <1>5. TypeOK'
    <2>1. pending' \in Seq(Frames)
      <3>1. pending \in Seq(Frames) BY <1>0 DEF TypeOK
      <3> QED BY <1>2, <3>1
    <2>2. unacked' \in Seq(Nat)
      <3>1. unacked \in Seq(Nat) /\ size \in Nat BY <1>0 DEF TypeOK
      <3>2. Append(unacked, size) \in Seq(Nat) BY <3>1
      <3> QED BY <3>1, <3>2
    <2> QED BY <1>0, <1>2, <1>3, <2>1, <2>2 DEF TypeOK
  <1>6. InOrder'
    <2>1. /\ Len(pending) \in Nat /\ Len(pending') = Len(pending) + 1
          /\ pending'[Len(pending) + 1] = x
          /\ \A i \in 1..Len(pending) : pending'[i] = pending[i]
      BY <1>0, <1>2 DEF TypeOK
    <2>2. Ahead' = Ahead /\ Ahead \in {0, 1} BY <1>2 DEF Ahead
    <2>3. Len(pipe) \in Nat /\ last_read \in Nat /\ accepted \in Nat BY <1>0 DEF TypeOK
    <2>4. accepted = last_read + Len(pipe) + Ahead + Len(pending) BY <1>2 DEF IInv, InOrder
    <2>5. \A i \in 1..Len(pending') : pending'[i].id = last_read + Len(pipe) + Ahead + i
      <3>1. \A i \in 1..Len(pending') : i \in 1..Len(pending) \/ i = Len(pending) + 1 BY <2>1
      <3>2. \A i \in 1..Len(pending) : pending[i].id = last_read + Len(pipe) + Ahead + i
        BY DEF IInv, InOrder
      <3>3. x.id = last_read + Len(pipe) + Ahead + (Len(pending) + 1)
        BY <1>2, <2>1, <2>2, <2>3, <2>4
      <3> QED BY <2>1, <3>1, <3>2, <3>3
    <2>6. accepted' = last_read + Len(pipe) + Ahead + Len(pending')
      BY <1>2, <2>1, <2>2, <2>3, <2>4
    <2> QED BY <1>2, <2>2, <2>5, <2>6 DEF IInv, InOrder
  <1>7. Emptied' BY <1>2 DEF IInv, Emptied
  <1>8. ASSUME NEW c \in Classes PROVE Reserved(c)'
    <2>1. Reserved(c) BY DEF IInv
    <2>2. /\ frames[c] \in Nat /\ bytes[c] \in Nat /\ One(c) \in {0, 1} /\ Size(c) \in Nat
          /\ Count(pending, c) \in Nat /\ MaximumFrames[c] \in Nat /\ MaximumBytes[c] \in Nat
      BY <1>0, NumbersAre
    <2>3. /\ frames[c] = One(c) + Count(pending, c) /\ bytes[c] >= Size(c)
          /\ Sums(pending, c, bytes[c] - Size(c))
          /\ frames[c] <= MaximumFrames[c] /\ bytes[c] <= MaximumBytes[c]
      BY <1>2, <2>1 DEF Reserved
    <2>4. Count(pending', c) = Count(pending, c) + (IF x.class = c THEN 1 ELSE 0)
      BY <1>0, <1>2, CountAppend DEF TypeOK
    <2>5. Sums(pending', c, bytes[c] - Size(c) + (IF x.class = c THEN x.size ELSE 0))
      BY <1>0, <1>2, <2>3, SumsAppend DEF TypeOK
    <2>6. CASE c = k
      <3>1. frames[k] < MaximumFrames[k] /\ size <= MaximumBytes[k] - bytes[k] BY DEF Fits
      <3>2. bytes[c] - Size(c) + size = bytes'[c] - Size(c) BY <1>3, <2>2, <2>6
      <3>3. frames'[c] <= MaximumFrames[c] /\ bytes'[c] <= MaximumBytes[c] /\ bytes'[c] >= Size(c)
            /\ frames'[c] = One(c) + Count(pending', c)
        BY <1>2, <1>3, <2>2, <2>3, <2>4, <2>6, <3>1, SMTT(30)
      <3>4. Sums(pending', c, bytes'[c] - Size(c)) BY <1>2, <2>5, <2>6, <3>2
      <3> QED BY <1>2, <1>4, <3>3, <3>4 DEF Reserved
    <2>7. CASE c # k
      <3>1. bytes[c] - Size(c) + 0 = bytes'[c] - Size(c) BY <1>3, <2>2, <2>7
      <3>2. frames'[c] = One(c) + Count(pending', c) BY <1>2, <1>3, <2>2, <2>3, <2>4, <2>7
      <3>3. Sums(pending', c, bytes'[c] - Size(c)) BY <1>2, <2>5, <2>7, <3>1
      <3> QED BY <1>2, <1>3, <1>4, <2>3, <2>7, <3>2, <3>3 DEF Reserved
    <2> QED BY <2>6, <2>7
  <1>9. Unacknowledged'
    <2>0. Report \in Classes BY OutputAssumption
    <2>1. /\ frames[Report] \in Nat /\ Count(pipe, Report) \in Nat /\ One(Report) \in {0, 1}
          /\ consumed \in Nat /\ Len(unacked) \in Nat
      BY <1>0, <2>0, NumbersAre DEF TypeOK
    <2>2. CASE k = Report
      <3>1. Len(unacked') = Len(unacked) + 1 BY <1>0, <2>2 DEF TypeOK
      <3> QED BY <1>2, <1>3, <1>4, <2>0, <2>1, <2>2, <3>1 DEF IInv, Unacknowledged
    <2>3. CASE k # Report
      BY <1>2, <1>3, <1>4, <2>0, <2>3 DEF IInv, Unacknowledged
    <2> QED BY <2>2, <2>3
  <1> QED BY <1>5, <1>6, <1>7, <1>8, <1>9 DEF IInv

\* Enqueue refuses a frame: the output has failed and drops its queue.
LEMMA RefuseStep ==
  ASSUME IInv, NEW k \in Classes, NEW size, Enqueue(k, size), ~Fits(k, size),
         UNCHANGED <<unacked, consumed>>
  PROVE  IInv'
  <1>0. TypeOK BY DEF IInv
  <1>1. /\ healthy /\ ~healthy' /\ stopping' /\ pending' = << >> /\ healthy' \in BOOLEAN
        /\ stopping' \in BOOLEAN
        /\ UNCHANGED <<frames, bytes, accepted, writer, writing, pipe, last_read>>
    BY DEF Enqueue, Fail, outside
  <1>2. TypeOK'
    <2>1. pending' \in Seq(Frames) BY <1>1
    <2> QED BY <1>0, <1>1, <2>1 DEF TypeOK
  <1>3. InOrder'
    <2>1. 1..Len(pending') = {} BY <1>1
    <2> QED BY <1>1, <2>1 DEF IInv, InOrder
  <1>4. Emptied' BY <1>1 DEF Emptied
  <1>5. ASSUME NEW c \in Classes PROVE Reserved(c)'
    <2>1. Reserved(c) BY DEF IInv
    <2>2. One(c)' = One(c) /\ Size(c)' = Size(c) BY <1>1 DEF One, Size
    <2>3. frames[c] \in Nat /\ One(c) \in {0, 1} /\ Count(pending, c) \in Nat BY <1>0, NumbersAre
    <2> QED BY <1>1, <2>1, <2>2, <2>3 DEF Reserved
  <1>6. Unacknowledged'
    <2>1. One(Report)' = One(Report) BY <1>1 DEF One
    <2> QED BY <1>1, <2>1 DEF IInv, Unacknowledged
  <1> QED BY <1>2, <1>3, <1>4, <1>5, <1>6 DEF IInv

\* Take: the oldest frame goes from the queue to the writer.
LEMMA TakeStep ==
  ASSUME IInv, Take
  PROVE  IInv'
  <1>0. TypeOK BY DEF IInv
  <1>1. /\ writer = "waiting" /\ pending # << >> /\ writing' = Head(pending)
        /\ pending' = Tail(pending) /\ writer' = "writing"
        /\ UNCHANGED <<frames, bytes, accepted, healthy, stopping, pipe, last_read, unacked, consumed>>
    BY DEF Take, outside, credit
  <1>2. healthy BY <1>0, <1>1 DEF IInv, Emptied
  <1>3. /\ Len(pending) \in Nat \ {0} /\ Head(pending) = pending[1] /\ pending[1] \in Frames
        /\ pending' \in Seq(Frames) /\ Len(pending') = Len(pending) - 1
        /\ \A i \in 1..Len(pending') : pending'[i] = pending[i + 1] /\ i + 1 \in 1..Len(pending)
    BY <1>0, <1>1 DEF TypeOK
  <1>4. TypeOK' BY <1>0, <1>1, <1>3 DEF TypeOK, Writing
  <1>5. InOrder'
    <2>1. Ahead = 0 /\ Ahead' = 1 BY <1>1 DEF Ahead
    <2>2. Len(pipe) \in Nat /\ last_read \in Nat BY <1>0 DEF TypeOK
    <2>3. \A i \in 1..Len(pending) : pending[i].id = last_read + Len(pipe) + i
      BY <2>1, <2>2 DEF IInv, InOrder
    <2>4. writing'.id = last_read + Len(pipe) + 1 BY <1>1, <1>3, <2>3
    <2>5. \A i \in 1..Len(pending') : pending'[i].id = last_read + Len(pipe) + 1 + i
      BY <1>3, <2>2, <2>3
    <2>6. accepted = last_read + Len(pipe) + Len(pending) BY <1>2, <2>1, <2>2 DEF IInv, InOrder
    <2>7. accepted = last_read + Len(pipe) + 1 + Len(pending') BY <1>3, <2>2, <2>6
    <2> QED BY <1>1, <2>1, <2>4, <2>5, <2>7 DEF IInv, InOrder
  <1>6. Emptied' BY <1>1, <1>2 DEF Emptied
  <1>7. ASSUME NEW c \in Classes PROVE Reserved(c)'
    <2> DEFINE z == IF Head(pending).class = c THEN Head(pending).size ELSE 0
               u == IF Head(pending).class = c THEN 1 ELSE 0
    <2>1. One(c) = 0 /\ Size(c) = 0 /\ One(c)' = u /\ Size(c)' = z
      BY <1>1 DEF One, Size, Writing
    <2>2. frames[c] \in Nat /\ bytes[c] \in Nat /\ Count(pending, c) \in Nat BY <1>0, NumbersAre
    <2>3. /\ frames[c] = Count(pending, c) /\ Sums(pending, c, bytes[c])
          /\ frames[c] <= MaximumFrames[c] /\ bytes[c] <= MaximumBytes[c]
      <3>1. Reserved(c) /\ bytes[c] - 0 = bytes[c] /\ 0 + Count(pending, c) = Count(pending, c)
        BY <2>2 DEF IInv
      <3>2. Sums(pending, c, bytes[c] - 0) BY <1>2, <2>1, <3>1 DEF Reserved
      <3> QED BY <1>2, <2>1, <2>2, <3>1, <3>2 DEF Reserved
    <2>4. Count(pending, c) = Count(pending', c) + u BY <1>0, <1>1, CountTail DEF TypeOK
    <2>5. z <= bytes[c] /\ Sums(pending', c, bytes[c] - z)
      BY <1>0, <1>1, <2>3, SumsTail DEF TypeOK
    <2>6. Count(pending', c) \in Nat BY <1>3, CountIs
    <2>7. u \in {0, 1} /\ z \in Nat BY <1>3 DEF Frames
    <2> HIDE DEF z, u
    <2>8. frames[c] = u + Count(pending', c) BY <2>3, <2>4, <2>6, <2>7
    <2>9. bytes[c] >= z BY <2>2, <2>5, <2>7
    <2> QED BY <1>1, <1>2, <2>1, <2>3, <2>5, <2>8, <2>9 DEF Reserved
  <1>8. Unacknowledged' BY <1>1 DEF IInv, Unacknowledged
  <1> QED BY <1>4, <1>5, <1>6, <1>7, <1>8 DEF IInv

\* WriteOut: the frame is in the pipe, and its reservation still held.
LEMMA WriteStep ==
  ASSUME IInv, WriteOut
  PROVE  IInv'
  <1>0. TypeOK BY DEF IInv
  <1>1. /\ writer = "writing" /\ writer' = "written" /\ pipe' = Append(pipe, writing)
        /\ UNCHANGED <<pending, frames, bytes, accepted, healthy, stopping, writing, last_read,
                       unacked, consumed>>
    BY DEF WriteOut, queue, credit
  <1>2. writing \in Frames /\ pipe \in Seq(Frames) BY <1>0, <1>1 DEF TypeOK, Writing
  <1>3. /\ pipe' \in Seq(Frames) /\ Len(pipe) \in Nat /\ Len(pipe') = Len(pipe) + 1
        /\ pipe'[Len(pipe) + 1] = writing /\ \A i \in 1..Len(pipe) : pipe'[i] = pipe[i]
    BY <1>1, <1>2
  <1>4. TypeOK' BY <1>0, <1>1, <1>2, <1>3 DEF TypeOK, Writing
  <1>5. InOrder'
    <2>1. Ahead = 1 /\ Ahead' = 0 BY <1>1 DEF Ahead
    <2>2. last_read \in Nat /\ accepted \in Nat /\ Len(pending) \in Nat BY <1>0 DEF TypeOK
    <2>3. writing.id = last_read + (Len(pipe) + 1) BY <1>1, <1>3, <2>2 DEF IInv, InOrder
    <2>4. \A i \in 1..Len(pipe') : pipe'[i].id = last_read + i
      <3>1. \A i \in 1..Len(pipe') : i \in 1..Len(pipe) \/ i = Len(pipe) + 1 BY <1>3
      <3>2. \A i \in 1..Len(pipe) : pipe[i].id = last_read + i BY DEF IInv, InOrder
      <3> QED BY <1>3, <2>3, <3>1, <3>2
    <2>5. \A i \in 1..Len(pending) : pending[i].id = last_read + Len(pipe) + 1 + i
      BY <2>1 DEF IInv, InOrder
    <2>6. \A i \in 1..Len(pending) : last_read + Len(pipe) + 1 + i = last_read + Len(pipe') + 0 + i
      BY <1>3, <2>2
    <2>7. healthy => accepted = last_read + Len(pipe') + 0 + Len(pending)
      BY <1>3, <2>1, <2>2 DEF IInv, InOrder
    <2> QED BY <1>1, <2>1, <2>4, <2>5, <2>6, <2>7 DEF InOrder
  <1>6. Emptied' BY <1>1 DEF IInv, Emptied
  <1>7. \A c \in Classes : One(c)' = One(c) /\ Size(c)' = Size(c) BY <1>1 DEF One, Size, Writing
  <1>8. \A c \in Classes : Reserved(c)' BY <1>1, <1>7 DEF IInv, Reserved
  <1>9. Unacknowledged'
    <2>0. Report \in Classes BY OutputAssumption
    <2>1. Count(pipe', Report) = Count(pipe, Report) + (IF writing.class = Report THEN 1 ELSE 0)
      BY <1>1, <1>2, CountAppend
    <2>2. One(Report) = IF writing.class = Report THEN 1 ELSE 0 BY <1>1 DEF One, Writing
    <2>3. /\ frames[Report] \in Nat /\ Count(pipe, Report) \in Nat /\ consumed \in Nat
          /\ Len(unacked) \in Nat
      BY <1>0, <2>0, NumbersAre DEF TypeOK
    <2>4. consumed + Count(pipe, Report) + frames[Report] <= Len(unacked) + 0
      BY <1>1 DEF IInv, Unacknowledged
    <2>5. consumed + Count(pipe', Report) + frames[Report] <= Len(unacked) + One(Report)
      BY <2>1, <2>2, <2>3, <2>4
    <2> QED BY <1>1, <1>7, <2>0, <2>5 DEF Unacknowledged
  <1> QED BY <1>4, <1>5, <1>6, <1>8, <1>9 DEF IInv

\* Account and AccountError: the frame is gone and its reservation free.
LEMMA AccountStep ==
  ASSUME IInv, Account \/ AccountError
  PROVE  IInv'
  <1>0. TypeOK BY DEF IInv
  <1>1. writer \in {"written", "unwritten"} BY DEF Account, AccountError
  <1>2. writing \in Frames BY <1>0, <1>1 DEF TypeOK, Writing
  <1>3. PICK k \in Classes : k = writing.class BY <1>2 DEF Frames
  <1>4. PICK z \in Nat : z = writing.size BY <1>2 DEF Frames
  <1>5. /\ frames' = [frames EXCEPT ![k] = @ - 1] /\ bytes' = [bytes EXCEPT ![k] = @ - z]
        /\ writing' = NoFrame /\ UNCHANGED <<accepted, pipe, last_read, unacked, consumed>>
        /\ \/ /\ writer = "written" /\ writer' = "waiting" /\ UNCHANGED <<pending, healthy, stopping>>
           \/ /\ writer = "unwritten" /\ writer' = "ended" /\ ~healthy' /\ stopping'
              /\ pending' = << >> /\ healthy' \in BOOLEAN /\ stopping' \in BOOLEAN
    BY <1>3, <1>4, <1>0 DEF Account, AccountError, GiveBack, Fail, outside, credit, IInv, Emptied, TypeOK
  <1>6. /\ frames'[k] = frames[k] - 1 /\ bytes'[k] = bytes[k] - z
        /\ \A c \in Classes \ {k} : frames'[c] = frames[c] /\ bytes'[c] = bytes[c]
    BY <1>0, <1>5 DEF TypeOK
  <1>7. \A c \in Classes : One(c)' = 0 /\ Size(c)' = 0 BY <1>5 DEF One, Size, Writing
  <1>8. /\ One(k) = 1 /\ Size(k) = z
        /\ \A c \in Classes \ {k} : One(c) = 0 /\ Size(c) = 0
    BY <1>1, <1>3, <1>4 DEF One, Size, Writing
  <1>9. ASSUME NEW c \in Classes
        PROVE  /\ frames'[c] = frames[c] - One(c) /\ bytes'[c] = bytes[c] - Size(c)
               /\ frames'[c] \in Nat /\ bytes'[c] \in Nat
               /\ frames'[c] <= MaximumFrames[c] /\ bytes'[c] <= MaximumBytes[c]
    <2>1. /\ frames[c] \in Nat /\ bytes[c] \in Nat /\ One(c) \in {0, 1} /\ Size(c) \in Nat
          /\ Count(pending, c) \in Nat /\ MaximumFrames[c] \in Nat /\ MaximumBytes[c] \in Nat
      BY <1>0, NumbersAre
    <2>2. /\ frames[c] >= One(c) /\ bytes[c] >= Size(c)
          /\ frames[c] <= MaximumFrames[c] /\ bytes[c] <= MaximumBytes[c]
      BY <1>0, <2>1 DEF IInv, Reserved, TypeOK
    <2>3. frames'[c] = frames[c] - One(c) /\ bytes'[c] = bytes[c] - Size(c)
      BY <1>6, <1>8, <2>1
    <2> QED BY <2>1, <2>2, <2>3
  <1>10. TypeOK'
    <2>1. frames' \in [Classes -> Nat] /\ bytes' \in [Classes -> Nat]
      BY <1>0, <1>5, <1>9 DEF TypeOK
    <2>2. << >> \in Seq(Frames) OBVIOUS
    <2> QED BY <1>0, <1>5, <2>1, <2>2 DEF TypeOK, Writing
  <1>11. InOrder'
    <2>1. CASE writer = "written"
      <3>1. Ahead = 0 /\ Ahead' = 0 BY <1>5, <2>1 DEF Ahead
      <3> QED BY <1>5, <2>1, <3>1 DEF IInv, InOrder
    <2>2. CASE writer = "unwritten"
      <3>1. pending' = << >> /\ 1..Len(pending') = {} /\ ~healthy' BY <1>5, <2>2
      <3> QED BY <1>5, <2>2, <3>1 DEF IInv, InOrder
    <2> QED BY <1>1, <2>1, <2>2
  <1>12. Emptied' BY <1>5 DEF IInv, Emptied
  <1>13. ASSUME NEW c \in Classes PROVE Reserved(c)'
    <2>1. /\ frames[c] \in Nat /\ bytes[c] \in Nat /\ One(c) \in {0, 1} /\ Size(c) \in Nat
          /\ Count(pending, c) \in Nat
      BY <1>0, NumbersAre
    <2>2. CASE ~healthy' BY <1>7, <1>9, <2>2 DEF Reserved
    <2>3. CASE healthy'
      <3>1. healthy /\ pending' = pending BY <1>5, <2>3
      <3>2. /\ frames[c] = One(c) + Count(pending, c) /\ Sums(pending, c, bytes[c] - Size(c))
        BY <3>1 DEF IInv, Reserved
      <3>3. frames'[c] = 0 + Count(pending, c) BY <1>9, <2>1, <3>2
      <3>4. bytes'[c] - 0 = bytes[c] - Size(c) /\ bytes'[c] >= 0 BY <1>9
      <3>5. Sums(pending', c, bytes'[c] - 0) BY <3>1, <3>2, <3>4
      <3> QED BY <1>7, <1>9, <2>3, <3>1, <3>3, <3>4, <3>5 DEF Reserved
    <2> QED BY <2>2, <2>3
  <1>14. Unacknowledged'
    <2>0. Report \in Classes BY OutputAssumption
    <2>1. /\ frames[Report] \in Nat /\ Count(pipe, Report) \in Nat /\ One(Report) \in {0, 1}
          /\ consumed \in Nat /\ Len(unacked) \in Nat
      BY <1>0, <2>0, NumbersAre DEF TypeOK
    <2>2. frames'[Report] = frames[Report] - One(Report) BY <1>9, <2>0
    <2>3. consumed + Count(pipe, Report) + frames[Report] <= Len(unacked) + One(Report)
      BY <2>1 DEF IInv, Unacknowledged
    <2>4. consumed + Count(pipe, Report) + frames'[Report] <= Len(unacked) + 0
      BY <2>1, <2>2, <2>3
    <2> QED BY <1>5, <2>4 DEF Unacknowledged
  <1> QED BY <1>10, <1>11, <1>12, <1>13, <1>14 DEF IInv

\* PeerReads: the oldest frame leaves the pipe.
LEMMA ReadStep ==
  ASSUME IInv, PeerReads
  PROVE  IInv'
  <1>0. TypeOK BY DEF IInv
  <1>1. /\ pipe # << >> /\ last_read' = Head(pipe).id /\ pipe' = Tail(pipe)
        /\ consumed' = IF Head(pipe).class = Report THEN consumed + 1 ELSE consumed
        /\ UNCHANGED <<pending, frames, bytes, accepted, healthy, stopping, writer, writing, unacked>>
    BY DEF PeerReads, queue
  <1>2. pipe \in Seq(Frames) BY <1>0 DEF TypeOK
  <1>3. /\ Len(pipe) \in Nat \ {0} /\ Head(pipe) = pipe[1] /\ pipe' \in Seq(Frames)
        /\ Len(pipe') = Len(pipe) - 1 /\ 1 \in 1..Len(pipe)
        /\ \A i \in 1..Len(pipe') : pipe'[i] = pipe[i + 1] /\ i + 1 \in 1..Len(pipe)
    BY <1>1, <1>2
  <1>4. \A i \in 1..Len(pipe) : pipe[i].id = last_read + i BY DEF IInv, InOrder
  <1>5. last_read' = last_read + 1 /\ last_read \in Nat BY <1>0, <1>1, <1>3, <1>4 DEF TypeOK
  <1>6. TypeOK' BY <1>0, <1>1, <1>3, <1>5 DEF TypeOK
  <1>7. InOrder'
    <2>1. Ahead' = Ahead /\ Ahead \in {0, 1} BY <1>1 DEF Ahead
    <2>2. \A i \in 1..Len(pipe') : pipe'[i].id = last_read' + i
      <3>1. \A i \in 1..Len(pipe') : pipe'[i].id = last_read + (i + 1) BY <1>3, <1>4
      <3> QED BY <1>5, <3>1
    <2>3. last_read' + Len(pipe') = last_read + Len(pipe) BY <1>3, <1>5
    <2> QED BY <1>1, <2>1, <2>2, <2>3 DEF IInv, InOrder
  <1>8. Emptied' BY <1>1 DEF IInv, Emptied
  <1>9. \A c \in Classes : One(c)' = One(c) /\ Size(c)' = Size(c) BY <1>1 DEF One, Size
  <1>10. \A c \in Classes : Reserved(c)' BY <1>1, <1>9 DEF IInv, Reserved
  <1>11. Unacknowledged'
    <2>0. Report \in Classes BY OutputAssumption
    <2>1. Count(pipe, Report) = Count(pipe', Report) + (IF Head(pipe).class = Report THEN 1 ELSE 0)
      BY <1>1, <1>2, CountTail
    <2>2. Count(pipe', Report) \in Nat /\ consumed \in Nat BY <1>0, <1>3, CountIs DEF TypeOK
    <2>3. consumed' + Count(pipe', Report) = consumed + Count(pipe, Report)
      BY <1>1, <2>1, <2>2
    <2> QED BY <1>1, <1>9, <2>0, <2>3 DEF IInv, Unacknowledged
  <1> QED BY <1>6, <1>7, <1>8, <1>10, <1>11 DEF IInv

\* PeerAcknowledges: the oldest report that was read.
LEMMA AcknowledgeStep ==
  ASSUME IInv, PeerAcknowledges
  PROVE  IInv'
  <1>0. TypeOK BY DEF IInv
  <1>1. /\ consumed > 0 /\ consumed' = consumed - 1 /\ unacked' = Tail(unacked)
        /\ UNCHANGED <<pending, frames, bytes, accepted, healthy, stopping, writer, writing, pipe,
                       last_read>>
    BY DEF PeerAcknowledges, queue, outside
  <1>2. Report \in Classes BY OutputAssumption
  <1>3. /\ frames[Report] \in Nat /\ Count(pipe, Report) \in Nat /\ One(Report) \in {0, 1}
        /\ consumed \in Nat /\ Len(unacked) \in Nat /\ Count(pending, Report) \in Nat
    BY <1>0, <1>2, NumbersAre DEF TypeOK
  <1>4. frames[Report] >= One(Report) BY <1>0, <1>2, <1>3 DEF IInv, Reserved, TypeOK
  <1>5. consumed + Count(pipe, Report) + frames[Report]
          <= Len(unacked) + (IF writer = "written" THEN One(Report) ELSE 0)
    BY DEF IInv, Unacknowledged
  <1>6. Len(unacked) > 0 BY <1>1, <1>3, <1>4, <1>5
  <1>7. unacked' \in Seq(Nat) /\ Len(unacked') = Len(unacked) - 1
    <2>1. unacked \in Seq(Nat) BY <1>0 DEF TypeOK
    <2> QED BY <1>1, <1>6, <2>1
  <1>8. TypeOK' BY <1>0, <1>1, <1>3, <1>7 DEF TypeOK
  <1>9. InOrder' /\ Emptied' BY <1>1 DEF IInv, InOrder, Emptied, Ahead
  <1>10. \A c \in Classes : One(c)' = One(c) /\ Size(c)' = Size(c) BY <1>1 DEF One, Size
  <1>11. \A c \in Classes : Reserved(c)' BY <1>1, <1>10 DEF IInv, Reserved
  <1>12. Unacknowledged'
    <2>1. consumed' + Count(pipe, Report) + frames[Report]
            <= Len(unacked') + (IF writer = "written" THEN One(Report) ELSE 0)
      BY <1>1, <1>3, <1>5, <1>7
    <2> QED BY <1>1, <1>2, <1>10, <2>1 DEF Unacknowledged
  <1> QED BY <1>8, <1>9, <1>11, <1>12 DEF IInv

\* Stop, WriteError, WorkerEnds, PeerCloses and stuttering move no frame.
LEMMA MarkStep ==
  ASSUME IInv, Stop \/ WriteError \/ WorkerEnds \/ PeerCloses \/ UNCHANGED vars
  PROVE  IInv'
  <1>0. TypeOK BY DEF IInv
  <1>1. /\ UNCHANGED <<pending, frames, bytes, accepted, healthy, writing, pipe, last_read, unacked,
                       consumed>>
        /\ stopping' = stopping \/ stopping' = TRUE
        /\ \/ writer' = writer
           \/ writer = "writing" /\ writer' = "unwritten"
           \/ writer = "waiting" /\ writer' = "ended" /\ stopping /\ stopping' /\ pending = << >>
    BY DEF Stop, WriteError, WorkerEnds, PeerCloses, vars, queue, outside, credit
  <1>2. TypeOK' BY <1>0, <1>1 DEF TypeOK, Writing
  <1>3. InOrder' BY <1>1 DEF IInv, InOrder, Ahead
  <1>4. Emptied' BY <1>0, <1>1 DEF IInv, Emptied, TypeOK
  <1>5. \A c \in Classes : One(c)' = One(c) /\ Size(c)' = Size(c) BY <1>1 DEF One, Size, Writing
  <1>6. \A c \in Classes : Reserved(c)' BY <1>1, <1>5 DEF IInv, Reserved
  <1>7. Unacknowledged' BY <1>1, <1>5, OutputAssumption DEF IInv, Unacknowledged
  <1> QED BY <1>2, <1>3, <1>4, <1>6, <1>7 DEF IInv

\* The invariant is inductive.
LEMMA IInvStep == IInv /\ [Next]_vars => IInv'
  <1> SUFFICES ASSUME IInv, [Next]_vars PROVE IInv' OBVIOUS
  <1>1. ASSUME NEW size \in Sizes[Report], EnqueueReport(size) PROVE IInv'
    <2>1. Report \in Classes /\ size \in Nat \ {0} BY OutputAssumption
    <2>2. /\ Enqueue(Report, size) /\ consumed' = consumed
          /\ unacked' = IF Fits(Report, size) THEN Append(unacked, size) ELSE unacked
      BY <1>1 DEF EnqueueReport
    <2>3. CASE Fits(Report, size) BY <2>1, <2>2, <2>3, AcceptStep
    <2>4. CASE ~Fits(Report, size) BY <2>1, <2>2, <2>4, RefuseStep
    <2> QED BY <2>3, <2>4
  <1>2. ASSUME NEW c \in Classes, NEW size \in Sizes[c], EnqueueOther(c, size) PROVE IInv'
    <2>1. size \in Nat \ {0} BY OutputAssumption
    <2>2. Enqueue(c, size) /\ c # Report /\ UNCHANGED <<unacked, consumed>>
      BY <1>2 DEF EnqueueOther, credit
    <2>3. CASE Fits(c, size) BY <2>1, <2>2, <2>3, AcceptStep
    <2>4. CASE ~Fits(c, size) BY <2>2, <2>4, RefuseStep
    <2> QED BY <2>3, <2>4
  <1> QED BY <1>1, <1>2, TakeStep, WriteStep, AccountStep, ReadStep, AcknowledgeStep, MarkStep
          DEF Next, Writer
-----------------------------------------------------------------------------
(* Theorem.                                                                *)

\* What the output accepts is kept until it is written, in order, and so is
\* its reservation, whatever the sizes and the limits of the classes.
THEOREM OutputCorrect == Spec => []OutputKept
  <1>1. IInv => NothingLost
    <2> SUFFICES ASSUME IInv PROVE NothingLost OBVIOUS
    <2> DEFINE waiting == pipe \o Unsent
    <2>0. TypeOK BY DEF IInv
    <2>1. /\ pipe \in Seq(Frames) /\ pending \in Seq(Frames) /\ Len(pipe) \in Nat
          /\ Len(pending) \in Nat /\ last_read \in Nat /\ Ahead \in {0, 1}
      BY <2>0 DEF TypeOK, Ahead
    <2>2. /\ Unsent \in Seq(Frames) /\ Len(Unsent) = Ahead + Len(pending)
          /\ \A i \in 1..Len(Unsent) : Unsent[i].id = last_read + Len(pipe) + i
          /\ writer = "ended" => Unsent = << >>
      <3>1. CASE Ahead = 1
        <4>1. writing \in Frames /\ writing # NoFrame /\ writer \in {"writing", "unwritten"}
          BY <2>0, <3>1, NoFrameAssumption DEF TypeOK, Ahead, Writing
        <4>2. Unsent = <<writing>> \o pending BY <4>1 DEF Unsent, Held
        <4>3. /\ Unsent \in Seq(Frames) /\ Len(Unsent) = 1 + Len(pending) /\ Unsent[1] = writing
              /\ \A i \in 2..Len(Unsent) : Unsent[i] = pending[i - 1] /\ i - 1 \in 1..Len(pending)
          BY <2>1, <4>1, <4>2
        <4>4. writing.id = last_read + Len(pipe) + 1 BY <4>1 DEF IInv, InOrder
        <4>5. \A i \in 1..Len(pending) : pending[i].id = last_read + Len(pipe) + 1 + i
          BY <3>1 DEF IInv, InOrder
        <4>6. ASSUME NEW i \in 1..Len(Unsent) PROVE Unsent[i].id = last_read + Len(pipe) + i
          <5>1. CASE i = 1 BY <4>3, <4>4, <5>1
          <5>2. CASE i # 1
            <6>1. i \in 2..Len(Unsent) BY <2>1, <4>3, <5>2
            <6>2. Unsent[i].id = last_read + Len(pipe) + 1 + (i - 1) BY <4>3, <4>5, <6>1
            <6> QED BY <2>1, <6>2
          <5> QED BY <5>1, <5>2
        <4> QED BY <3>1, <4>1, <4>3, <4>6
      <3>2. CASE Ahead = 0
        <4>1. Unsent = pending
          <5>1. CASE writer = "written" BY <5>1 DEF Unsent
          <5>2. CASE writer # "written"
            <6>1. writing = NoFrame BY <2>0, <3>2, <5>2 DEF TypeOK, Ahead, Writing
            <6>2. Unsent = << >> \o pending BY <5>2, <6>1 DEF Unsent, Held
            <6> QED BY <2>1, <6>2
          <5> QED BY <5>1, <5>2
        <4>2. \A i \in 1..Len(pending) : pending[i].id = last_read + Len(pipe) + 0 + i
          BY <3>2 DEF IInv, InOrder
        <4> QED BY <2>1, <3>2, <4>1, <4>2 DEF IInv, Emptied
      <3> QED BY <2>1, <3>1, <3>2
    <2>3. /\ DOMAIN waiting = 1..(Len(pipe) + Len(Unsent)) /\ Len(waiting) = Len(pipe) + Len(Unsent)
          /\ \A i \in 1..Len(pipe) : waiting[i] = pipe[i]
          /\ \A i \in (Len(pipe) + 1)..(Len(pipe) + Len(Unsent)) :
               waiting[i] = Unsent[i - Len(pipe)] /\ i - Len(pipe) \in 1..Len(Unsent)
      BY <2>1, <2>2, ConcatIs
    <2>4. Len(Unsent) \in Nat BY <2>1, <2>2
    <2>5. ASSUME NEW i \in DOMAIN waiting PROVE waiting[i].id = last_read + i
      <3>1. CASE i \in 1..Len(pipe) BY <2>3, <3>1 DEF IInv, InOrder
      <3>2. CASE i \notin 1..Len(pipe)
        <4>1. i \in (Len(pipe) + 1)..(Len(pipe) + Len(Unsent)) BY <2>1, <2>3, <2>4, <3>2
        <4>2. waiting[i].id = last_read + Len(pipe) + (i - Len(pipe)) BY <2>2, <2>3, <4>1
        <4> QED BY <2>1, <4>1, <4>2
      <3> QED BY <3>1, <3>2
    <2>6. healthy => last_read + Len(waiting) = accepted
      <3>1. healthy => accepted = last_read + Len(pipe) + Ahead + Len(pending) BY DEF IInv, InOrder
      <3> QED BY <2>1, <2>2, <2>3, <3>1
    <2> QED BY <2>2, <2>5, <2>6 DEF NothingLost
  <1>2. IInv => Reservations
    <2> SUFFICES ASSUME IInv, NEW c \in Classes
                 PROVE  /\ frames[c] <= MaximumFrames[c] /\ bytes[c] <= MaximumBytes[c]
                        /\ frames[c] >= Count(Held \o pending, c)
                        /\ bytes[c] >= Count(Held \o pending, c)
                        /\ healthy => frames[c] = Count(Held \o pending, c)
                        /\ c = Report =>
                             frames[c] <= Len(unacked) + (IF writer = "written" THEN 1 ELSE 0)
      BY DEF Reservations, Count, Of
    <2>0. TypeOK BY DEF IInv
    <2>1. /\ frames[c] \in Nat /\ bytes[c] \in Nat /\ One(c) \in {0, 1} /\ Size(c) \in Nat
          /\ Count(pending, c) \in Nat /\ Count(pipe, c) \in Nat
      BY <2>0, NumbersAre
    <2>2. Count(Held \o pending, c) = One(c) + Count(pending, c)
      <3>1. pending \in Seq(Frames) BY <2>0 DEF TypeOK
      <3>2. CASE writer \in Writing
        <4>1. writing \in Frames /\ writing # NoFrame BY <2>0, <3>2, NoFrameAssumption DEF TypeOK
        <4>2. Held \o pending = <<writing>> \o pending BY <4>1 DEF Held
        <4> DEFINE s == <<writing>> \o pending
        <4>3. s \in Seq(Frames) /\ s # << >> /\ Head(s) = writing /\ Tail(s) = pending
          BY <3>1, <4>1
        <4> HIDE DEF s
        <4>4. Count(s, c) = Count(pending, c) + (IF writing.class = c THEN 1 ELSE 0)
          BY <4>3, CountTail
        <4> QED BY <2>1, <3>2, <4>2, <4>4 DEF One, s
      <3>3. CASE writer \notin Writing
        <4>1. writing = NoFrame BY <2>0, <3>3 DEF TypeOK
        <4>2. Held \o pending = pending BY <3>1, <4>1 DEF Held
        <4> QED BY <2>1, <3>3, <4>2 DEF One
      <3> QED BY <3>2, <3>3
    <2>3. Reserved(c) BY DEF IInv
    <2>4. One(c) <= Size(c) BY <2>0 DEF One, Size, TypeOK, Frames
    <2>5. c = Report => frames[c] <= Len(unacked) + (IF writer = "written" THEN 1 ELSE 0)
      <3> SUFFICES ASSUME c = Report
                   PROVE  frames[c] <= Len(unacked) + (IF writer = "written" THEN 1 ELSE 0)
        OBVIOUS
      <3>1. consumed \in Nat /\ Len(unacked) \in Nat BY <2>0 DEF TypeOK
      <3>2. consumed + Count(pipe, c) + frames[c]
              <= Len(unacked) + (IF writer = "written" THEN One(c) ELSE 0)
        BY DEF IInv, Unacknowledged
      <3> QED BY <2>1, <3>1, <3>2
    <2>6. frames[c] <= MaximumFrames[c] /\ bytes[c] <= MaximumBytes[c] BY <2>3 DEF Reserved
    <2>7. CASE healthy
      <3>1. /\ frames[c] = One(c) + Count(pending, c)
            /\ bytes[c] >= Size(c) /\ Sums(pending, c, bytes[c] - Size(c))
        BY <2>3, <2>7 DEF Reserved
      <3>2. Count(pending, c) <= bytes[c] - Size(c) BY <2>0, <3>1, SumsBound DEF TypeOK
      <3> QED BY <2>1, <2>2, <2>4, <2>5, <2>6, <2>7, <3>1, <3>2
    <2>8. CASE ~healthy
      <3>1. Count(pending, c) = 0 BY <2>0, <2>8, CountIs DEF IInv, Emptied, TypeOK
      <3>2. frames[c] >= One(c) /\ bytes[c] >= Size(c) BY <2>3, <2>8 DEF Reserved
      <3> QED BY <2>1, <2>2, <2>4, <2>5, <2>6, <2>8, <3>1, <3>2
    <2> QED BY <2>7, <2>8
  <1> QED BY <1>1, <1>2, InitIInv, IInvStep, PTL DEF Spec, OutputKept
=============================================================================
