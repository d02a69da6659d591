----------------------- MODULE SubscriptionSession_proofs -----------------------
(***************************************************************************)
(* The two ends of a session cannot disagree about a stream.  The          *)
(* invariant tells the life of each stream as a path of states along the   *)
(* frames under way: it starts at what the connection has read, every      *)
(* event on the way leads from one state to the next, and it ends where    *)
(* the host's stream is.  A frame the connection reads is then the first   *)
(* step of the path, so that there is a place for it; a frame the host     *)
(* writes is a new last one.                                               *)
(***************************************************************************)
EXTENDS SubscriptionSession, SequenceTheorems, TLAPS

-----------------------------------------------------------------------------
(* Types.                                                                  *)

Replies == {"subscribe", "unsubscribe"}
Results == {"ok", "failed", "busy", "invalid", "timeout"}
Requests == [op : Replies, sub : Subs, generation : Nat, internal : BOOLEAN]
Frames == [kind : Events \cup Replies, sub : Subs, generation : Nat, attempt : Nat,
           internal : BOOLEAN, result : Results]

Statuses == {"none", "establishing", "active", "recovering", "closing", "closed"}
Rows == [status : Statuses, generation : Nat, attempt : Nat, retiring : Nat,
         terminal : BOOLEAN]
Streams == [live : BOOLEAN, generation : Nat, recovering : BOOLEAN, attempt : Nat]
CallsOf == [op : {"subscribe", "unsubscribe", "join"}, sub : Subs]

ConnectionOK ==
  /\ sub \in [Subs -> Rows]
  /\ resubscribe \in [Subs -> BOOLEAN]
  /\ call \in CallsOf \cup {NoCall}
  /\ internal \subseteq Subs
  /\ watched \subseteq Subs
  /\ terminals \in [Subs -> Nat]
  /\ session \in {"up", "failing", "down"}

HostOK ==
  /\ requests \in Seq(Requests)
  /\ frames \in Seq(Frames)
  /\ stream \in [Subs -> Streams]
  /\ record \in [Subs -> Nat]
  /\ registering \in [sub : Subs, stage : {"wait", "added", "activate"}] \cup {Idle}
  /\ cancelling \in Requests \cup {NoRequest}
  /\ host \in {"up", "down"}

TypeOK == ConnectionOK /\ HostOK

-----------------------------------------------------------------------------
(* The life of a stream, as its events tell it.                            *)

State(phase, generation, attempt) ==
  [phase |-> phase, generation |-> generation, attempt |-> attempt]
States == [phase : {"unborn", "open", "switching", "recovering", "failed", "over"},
           generation : Nat, attempt : Nat]

Unborn == State("unborn", 0, 0)
Open(g) == State("open", g, 0)
Switching(g) == State("switching", g, 0)
Recovering(g, k) == State("recovering", g, k)
Failed(g) == State("failed", g, 0)
Over == State("over", 0, 0)

IsEvent(f, s) == f.sub = s /\ f.kind \in Events

\* The event f takes the stream from one state to the next.
Leads(r, f, from, to) ==
  \/ /\ f.kind = "report" /\ from = Open(f.generation) /\ to = from
  \/ /\ f.kind = "resubscribing" /\ r
     /\ from = Open(from.generation) /\ f.generation = from.generation + 1
     /\ f.attempt = 1 /\ to = Switching(f.generation)
  \/ /\ f.kind = "resubscribing"
     /\ from = Recovering(f.generation, from.attempt) /\ f.attempt = from.attempt + 1
     /\ to = Recovering(f.generation, f.attempt)
  \/ /\ f.kind = "resubscribed"
     /\ from = Recovering(f.generation, f.attempt) /\ to = Open(f.generation)
  \/ /\ f.kind = "error"
     /\ from \in {Open(f.generation), Recovering(f.generation, from.attempt)}
     /\ to = Failed(f.generation)
  \/ /\ f.kind = "retired" /\ from = Switching(f.generation + 1)
     /\ to = Recovering(f.generation + 1, 1)
  \/ /\ f.kind = "retired"
     /\ from \in {Open(f.generation), Recovering(f.generation, from.attempt),
                  Failed(f.generation)}
     /\ to = Over

Step(r, s, f, from, to) == IF IsEvent(f, s) THEN Leads(r, f, from, to) ELSE to = from

\* p is the life of the stream along the frames under way: p[0] is what the
\* connection has read of it, p[i] what it will have read after frame i.
Follows(r, s, w, p) ==
  /\ p \in [0..Len(w) -> States]
  /\ \A i \in DOMAIN w : Step(r, s, w[i], p[i - 1], p[i])
  /\ \A i, j \in 0..Len(w) : p[i] = Unborn => p[j] = Unborn
  /\ \A i, j \in 0..Len(w) : i <= j /\ p[i] = Over => p[j] = Over

\* What the connection has read is what it says of the subscription.
Sees(s, st) ==
  LET r == sub[s] IN
  /\ r.status = "none" => st = Unborn /\ r.retiring = 0 /\ ~r.terminal
  /\ r.status = "establishing" =>
       st \in {Unborn, Open(1)} /\ r.generation = 1 /\ r.retiring = 0 /\ ~r.terminal
  /\ r.status = "active" => st = Open(r.generation) /\ r.retiring = 0
  /\ r.status = "recovering" =>
       IF r.retiring = 0 THEN st = Recovering(r.generation, r.attempt)
         ELSE /\ st = Switching(r.generation) /\ r.attempt = 1
              /\ r.retiring + 1 = r.generation
  /\ r.status \in {"active", "recovering"} => r.generation # 0 /\ ~r.terminal
  /\ r.status = "closing" =>
       /\ r.generation # 0
       /\ IF r.terminal THEN st = Failed(r.generation) /\ r.retiring = 0
          ELSE IF r.retiring # 0
            THEN st = Switching(r.generation) /\ r.retiring + 1 = r.generation
            ELSE \/ st = Unborn /\ session = "failing" /\ r.generation = 1
                 \/ st = Open(r.generation)
                 \/ st = Recovering(r.generation, st.attempt)
  /\ r.status = "closed" => st = Over /\ r.generation # 0

\* What the host has written is where its stream is.
Shows(s, st) ==
  IF stream[s].live
    THEN st = IF stream[s].recovering
                THEN Recovering(stream[s].generation, stream[s].attempt)
                ELSE Open(stream[s].generation)
    ELSE st \in {Unborn, Over}

\* The stream is not added yet.
Fresh(s) ==
  \/ Status(s) = "none"
  \/ \E r \in Range(requests) : r.op = "subscribe" /\ r.sub = s
  \/ registering = [sub |-> s, stage |-> "wait"]
  \/ \E f \in Range(frames) : f.kind = "subscribe" /\ f.sub = s /\ f.result # "ok"

\* The stream has been added.
Hatched(s) ==
  \/ Awake(s) \/ record[s] # 0
  \/ registering = [sub |-> s, stage |-> "added"]
  \/ cancelling # NoRequest /\ cancelling.sub = s
  \/ \E r \in Range(requests) : r.op = "unsubscribe" /\ r.sub = s
  \/ \E f \in Range(frames) : /\ f.kind \in Replies /\ f.sub = s
                              /\ f.kind = "subscribe" => f.result = "ok"

\* What an answer or the last barrier says of the life of the stream.
Spoken(s, f, from, to) ==
  f.sub = s =>
    /\ f.kind = "unsubscribe" /\ f.result = "ok" => to = Over
    /\ f.kind = "unsubscribe" /\ f.result = "invalid" =>
         to = Over \/ to.generation # f.generation
    /\ f.kind = "retired" /\ to = Over /\ from.phase # "failed" => Status(s) = "closing"
Says(s, p) == \A i \in DOMAIN frames : Spoken(s, frames[i], p[i - 1], p[i])

Joins(s, p) ==
  /\ Follows(resubscribe[s], s, frames, p)
  /\ Sees(s, p[0])
  /\ Shows(s, p[Len(frames)])
  /\ Fresh(s) => p[Len(frames)] = Unborn
  /\ Hatched(s) => p[Len(frames)] # Unborn
  /\ Says(s, p)

Joined(s) == \E p \in [0..Len(frames) -> States] : Joins(s, p)

-----------------------------------------------------------------------------
(* The calls and the cancellations.                                        *)

Own(f) == f.kind \in Replies /\ ~f.internal

\* The blocking call is in one place: a request, an operation of the host or
\* an answer.
Elsewhere ==
  /\ registering.stage \notin {"wait", "added"}
  /\ cancelling = NoRequest \/ cancelling.internal
OwnRequest ==
  \A i \in DOMAIN requests : ~requests[i].internal =>
    /\ call = [op |-> requests[i].op, sub |-> requests[i].sub]
    /\ \A j \in DOMAIN requests : ~requests[j].internal => j = i
    /\ \A j \in DOMAIN frames : ~Own(frames[j])
    /\ Elsewhere
OwnFrame ==
  \A i \in DOMAIN frames : Own(frames[i]) =>
    /\ call = [op |-> frames[i].kind, sub |-> frames[i].sub]
    /\ \A j \in DOMAIN frames : Own(frames[j]) => j = i
    /\ Elsewhere
OwnOperation ==
  /\ registering.stage \in {"wait", "added"} =>
       call = [op |-> "subscribe", sub |-> registering.sub]
  /\ cancelling # NoRequest /\ ~cancelling.internal =>
       call = [op |-> "unsubscribe", sub |-> cancelling.sub]
OwnKinds ==
  /\ \A r \in Range(requests) : r.op = "subscribe" => ~r.internal
  /\ \A f \in Range(frames) : f.kind = "subscribe" => ~f.internal
  /\ cancelling # NoRequest => cancelling.op = "unsubscribe"
Calls ==
  /\ OwnRequest /\ OwnFrame /\ OwnOperation /\ OwnKinds
  /\ call.op = "subscribe" => Status(call.sub) \in {"establishing", "closing", "closed"}

\* A cancellation names the generation its subscription is closed with.
Naming(s, g) == Status(s) \in {"closing", "closed"} /\ g = sub[s].generation
Cancels ==
  /\ \A r \in Range(requests) : r.op = "unsubscribe" => Naming(r.sub, r.generation)
  /\ \A f \in Range(frames) : f.kind = "unsubscribe" => Naming(f.sub, f.generation)
  /\ cancelling # NoRequest => Naming(cancelling.sub, cancelling.generation)
  /\ \A s \in Subs : record[s] # 0 => ~stream[s].live

\* Who has been told.
Told ==
  /\ \A s \in Subs : terminals[s] <= 1
  /\ \A s \in Subs : Status(s) \in {"establishing", "active", "recovering"} => terminals[s] = 0
  /\ session = "up" => \A s \in Subs : Status(s) = "none" => terminals[s] = 0

Served ==
  (\A s \in Subs : Joined(s)) /\ Calls /\ Cancels /\ Told /\ WatchedWhileOpen
Inv == TypeOK /\ ProtocolAgrees /\ TerminalOnce /\ (Serving => Served)

-----------------------------------------------------------------------------
(* Sequences and paths.                                                    *)

\* What is left of a channel when its first message is taken.
LEMMA TailFacts ==
  ASSUME NEW S, NEW w \in Seq(S), w # << >>
  PROVE  /\ Tail(w) \in Seq(S) /\ Len(Tail(w)) = Len(w) - 1
         /\ Len(w) \in Nat /\ Len(w) >= 1
         /\ DOMAIN w = 1..Len(w) /\ DOMAIN Tail(w) = 1..(Len(w) - 1)
         /\ \A i \in 1..(Len(w) - 1) : Tail(w)[i] = w[i + 1]
         /\ Head(w) = w[1] /\ Head(w) \in S /\ Head(w) \in Range(w)
         /\ \A x \in Range(Tail(w)) : x \in Range(w) /\ x \in S
<1>1. /\ Tail(w) \in Seq(S) /\ Len(Tail(w)) = Len(w) - 1
      /\ Len(w) \in Nat /\ Len(w) >= 1
      /\ DOMAIN w = 1..Len(w) /\ DOMAIN Tail(w) = 1..(Len(w) - 1)
      /\ \A i \in 1..(Len(w) - 1) : Tail(w)[i] = w[i + 1]
      /\ Head(w) = w[1] /\ Head(w) \in S
  OBVIOUS
<1>2. Head(w) \in Range(w) BY <1>1 DEF Range
<1>3. ASSUME NEW x \in Range(Tail(w)) PROVE x \in Range(w) /\ x \in S
  <2>1. PICK i \in 1..(Len(w) - 1) : x = w[i + 1] BY <1>1 DEF Range
  <2>2. i + 1 \in DOMAIN w BY <1>1
  <2> QED BY <2>1, <2>2 DEF Range
<1> QED BY <1>1, <1>2, <1>3

\* A channel with one message more.
LEMMA AppendFacts ==
  ASSUME NEW S, NEW w \in Seq(S), NEW x \in S
  PROVE  /\ Append(w, x) \in Seq(S) /\ Len(Append(w, x)) = Len(w) + 1
         /\ Append(w, x) = w \o <<x>> /\ Len(w) \in Nat
         /\ DOMAIN w = 1..Len(w) /\ DOMAIN Append(w, x) = 1..(Len(w) + 1)
         /\ \A i \in 1..Len(w) : Append(w, x)[i] = w[i]
         /\ Append(w, x)[Len(w) + 1] = x
<1>1. /\ Append(w, x) \in Seq(S) /\ Len(Append(w, x)) = Len(w) + 1
      /\ Len(w) \in Nat
      /\ DOMAIN w = 1..Len(w) /\ DOMAIN Append(w, x) = 1..(Len(w) + 1)
      /\ \A i \in 1..Len(w) : Append(w, x)[i] = w[i]
      /\ Append(w, x)[Len(w) + 1] = x
  OBVIOUS
<1>2. Append(w, x) = w \o <<x>> OBVIOUS
<1> QED BY <1>1, <1>2

\* What is in a channel with one message more.
LEMMA AppendRange ==
  ASSUME NEW S, NEW w \in Seq(S), NEW x \in S
  PROVE  Range(Append(w, x)) = Range(w) \cup {x}
<1>1. /\ Append(w, x)[Len(w) + 1] = x /\ Len(w) \in Nat
      /\ DOMAIN w = 1..Len(w) /\ DOMAIN Append(w, x) = 1..(Len(w) + 1)
      /\ \A i \in 1..Len(w) : Append(w, x)[i] = w[i]
  BY AppendFacts
<1>2. ASSUME NEW y \in Range(Append(w, x)) PROVE y \in Range(w) \/ y = x
  <2>1. PICK i \in 1..(Len(w) + 1) : y = Append(w, x)[i] BY <1>1 DEF Range
  <2>2. CASE i = Len(w) + 1 BY <2>1, <2>2, <1>1
  <2>3. CASE i \in DOMAIN w BY <2>1, <2>3, <1>1 DEF Range
  <2> QED BY <2>2, <2>3, <1>1
<1>3. ASSUME NEW y \in Range(w) PROVE y \in Range(Append(w, x))
  <2>1. PICK i \in 1..Len(w) : y = w[i] BY <1>1 DEF Range
  <2>2. i \in DOMAIN Append(w, x) /\ y = Append(w, x)[i] BY <2>1, <1>1
  <2> QED BY <2>2 DEF Range
<1>4. x \in Range(Append(w, x))
  <2>1. Len(w) + 1 \in DOMAIN Append(w, x) BY <1>1
  <2> QED BY <2>1, <1>1 DEF Range
<1> QED BY <1>2, <1>3, <1>4

\* Two messages more are one and then one more.
LEMMA TwoFacts ==
  ASSUME NEW S, NEW w \in Seq(S), NEW x \in S, NEW y \in S
  PROVE  w \o <<x, y>> = Append(Append(w, x), y)
  OBVIOUS

\* Nothing leads out of the first and the last state.
LEMMA LeadsBetween ==
  ASSUME NEW r, NEW f \in Frames, NEW from \in States, NEW to \in States,
         Leads(r, f, from, to)
  PROVE  from # Unborn /\ from # Over /\ to # Unborn
  BY DEF Leads, Unborn, Over, Open, Switching, Recovering, Failed, State, States

\* The life of a stream after the first frame is read.
LEMMA PathTail ==
  ASSUME NEW r, NEW s, NEW w \in Seq(Frames), w # << >>,
         NEW p, Follows(r, s, w, p)
  PROVE  /\ Follows(r, s, Tail(w), [i \in 0..(Len(w) - 1) |-> p[i + 1]])
         /\ Step(r, s, Head(w), p[0], p[1])
         /\ p[0] \in States /\ p[1] \in States
<1> DEFINE q == [i \in 0..(Len(w) - 1) |-> p[i + 1]]
<1>1. /\ Len(w) \in Nat /\ Len(w) >= 1 /\ Len(Tail(w)) = Len(w) - 1
      /\ DOMAIN w = 1..Len(w) /\ DOMAIN Tail(w) = 1..(Len(w) - 1)
      /\ \A i \in 1..(Len(w) - 1) : Tail(w)[i] = w[i + 1]
      /\ Head(w) = w[1]
  BY TailFacts
<1>2. /\ p \in [0..Len(w) -> States]
      /\ \A i \in 1..Len(w) : Step(r, s, w[i], p[i - 1], p[i])
      /\ \A i, j \in 0..Len(w) : p[i] = Unborn => p[j] = Unborn
      /\ \A i, j \in 0..Len(w) : i <= j /\ p[i] = Over => p[j] = Over
  BY <1>1 DEF Follows
<1>3. q \in [0..(Len(w) - 1) -> States] BY <1>1, <1>2
<1>4. \A i \in 1..(Len(w) - 1) : Step(r, s, Tail(w)[i], q[i - 1], q[i])
  <2> SUFFICES ASSUME NEW i \in 1..(Len(w) - 1)
               PROVE  Step(r, s, Tail(w)[i], q[i - 1], q[i])
    OBVIOUS
  <2>1. /\ q[i - 1] = p[(i + 1) - 1] /\ q[i] = p[i + 1] /\ Tail(w)[i] = w[i + 1]
        /\ i + 1 \in 1..Len(w)
    BY <1>1
  <2> QED BY <2>1, <1>2
<1>5. /\ \A i, j \in 0..(Len(w) - 1) : q[i] = Unborn => q[j] = Unborn
      /\ \A i, j \in 0..(Len(w) - 1) : i <= j /\ q[i] = Over => q[j] = Over
  BY <1>1, <1>2
<1>6. Step(r, s, Head(w), p[0], p[1]) /\ p[0] \in States /\ p[1] \in States
  <2>1. 1 \in 1..Len(w) /\ 1 - 1 = 0 BY <1>1
  <2> QED BY <2>1, <1>1, <1>2
<1> HIDE DEF q
<1>7. Follows(r, s, Tail(w), q) BY <1>1, <1>3, <1>4, <1>5 DEF Follows
<1> QED BY <1>6, <1>7 DEF q

\* The life of a stream when a frame is written.
LEMMA PathAppend ==
  ASSUME NEW r, NEW s, NEW w \in Seq(Frames), NEW f \in Frames,
         NEW p, Follows(r, s, w, p), NEW to \in States,
         Step(r, s, f, p[Len(w)], to)
  PROVE  Follows(r, s, Append(w, f),
                 [i \in 0..(Len(w) + 1) |-> IF i <= Len(w) THEN p[i] ELSE to])
<1> DEFINE q == [i \in 0..(Len(w) + 1) |-> IF i <= Len(w) THEN p[i] ELSE to]
<1>1. Len(w) \in Nat /\ p[Len(w)] \in States BY DEF Follows
<1>2. /\ p[Len(w)] = Unborn <=> to = Unborn
      /\ p[Len(w)] = Over => to = Over
  BY <1>1, LeadsBetween DEF Step
<1>3. q \in [0..(Len(w) + 1) -> States] BY <1>1 DEF Follows
<1>4. \A i \in 1..(Len(w) + 1) : Step(r, s, Append(w, f)[i], q[i - 1], q[i])
  <2> SUFFICES ASSUME NEW i \in 1..(Len(w) + 1)
               PROVE  Step(r, s, Append(w, f)[i], q[i - 1], q[i])
    OBVIOUS
  <2>1. CASE i = Len(w) + 1
    <3>1. q[i - 1] = p[Len(w)] /\ q[i] = to /\ Append(w, f)[i] = f
      BY <2>1, <1>1, AppendFacts
    <3> QED BY <3>1
  <2>2. CASE i \in 1..Len(w)
    <3>1. q[i - 1] = p[i - 1] /\ q[i] = p[i] /\ Append(w, f)[i] = w[i]
      BY <2>2, <1>1, AppendFacts
    <3> QED BY <3>1, <2>2 DEF Follows
  <2> QED BY <2>1, <2>2, <1>1
<1>5. \A i, j \in 0..(Len(w) + 1) : q[i] = Unborn => q[j] = Unborn
  <2>1. \A i \in 0..(Len(w) + 1) : q[i] = Unborn <=> p[Len(w)] = Unborn
    BY <1>1, <1>2 DEF Follows
  <2> QED BY <2>1
<1>6. \A i, j \in 0..(Len(w) + 1) : i <= j /\ q[i] = Over => q[j] = Over
  BY <1>1, <1>2 DEF Follows
<1> HIDE DEF q
<1> QED BY <1>1, <1>3, <1>4, <1>5, <1>6, AppendFacts DEF Follows, q

-----------------------------------------------------------------------------
(* What a step leaves of the life of a stream.                             *)

\* A stream has no event under way before it is added or after it is over.
LEMMA Eventless ==
  ASSUME NEW r, NEW s, NEW p, NEW w \in Seq(Frames),
         Follows(r, s, w, p), p[0] \in {Unborn, Over}, NEW i \in DOMAIN w
  PROVE  ~IsEvent(w[i], s)
<1>1. Len(w) \in Nat /\ i \in 1..Len(w) /\ i - 1 \in 0..Len(w)
      /\ 0 \in 0..Len(w) /\ w[i] \in Frames
  OBVIOUS
<1>2. p[i - 1] \in {Unborn, Over} /\ p[i] \in States /\ p[i - 1] \in States
  BY <1>1 DEF Follows
<1>3. ASSUME IsEvent(w[i], s) PROVE FALSE
  <2>1. Leads(r, w[i], p[i - 1], p[i]) BY <1>3 DEF Follows, Step
  <2> QED BY <2>1, <1>1, <1>2, LeadsBetween
<1> QED BY <1>3

\* A step that takes the first frame.
LEMMA JoinRead ==
  ASSUME NEW s \in Subs, TypeOK, frames # << >>, NEW p, Joins(s, p), Taken,
         Sees(s, p[1])', Fresh(s)' => Fresh(s), Hatched(s)' => Hatched(s),
         Status(s) = "closing" => Status(s)' \in {"closing", "closed", "none"}
  PROVE  Joined(s)'
<1>q. PICK q : q = [i \in 0..(Len(frames) - 1) |-> p[i + 1]] OBVIOUS
<1>0. frames \in Seq(Frames) BY DEF TypeOK, HostOK
<1>1. /\ Len(frames) \in Nat /\ Len(frames) >= 1 /\ Len(frames') = Len(frames) - 1
      /\ frames' \in Seq(Frames)
      /\ DOMAIN frames = 1..Len(frames) /\ DOMAIN frames' = 1..(Len(frames) - 1)
      /\ \A i \in 1..(Len(frames) - 1) : frames'[i] = frames[i + 1]
  BY <1>0, TailFacts DEF Taken
<1>2. /\ Follows(resubscribe[s], s, frames, p) /\ Shows(s, p[Len(frames)])
      /\ Fresh(s) => p[Len(frames)] = Unborn
      /\ Hatched(s) => p[Len(frames)] # Unborn
      /\ \A i \in 1..Len(frames) : Spoken(s, frames[i], p[i - 1], p[i])
  BY <1>1 DEF Joins, Says
<1>3. Follows(resubscribe[s], s, frames, q)'
  <2>1. Follows(resubscribe[s], s, Tail(frames), q) BY <1>q, <1>0, <1>2, PathTail
  <2> QED BY <2>1 DEF Taken
<1>4. q[0] = p[1] /\ q[Len(frames')] = p[Len(frames)] BY <1>q, <1>1
<1>5. q \in [0..Len(frames') -> States] BY <1>q, <1>1, <1>2 DEF Follows
<1>6. Sees(s, q[0])' BY <1>4
<1>7. Shows(s, q[Len(frames)])' BY <1>4, <1>2 DEF Shows, Taken, native
<1>8. Says(s, q)'
  <2> SUFFICES ASSUME NEW i \in 1..(Len(frames) - 1)
               PROVE  Spoken(s, frames[i], q[i - 1], q[i])'
    BY <1>1 DEF Says
  <2>1. /\ q[i - 1] = p[(i + 1) - 1] /\ q[i] = p[i + 1] /\ frames'[i] = frames[i + 1]
        /\ i + 1 \in 1..Len(frames)
    BY <1>q, <1>1
  <2>2. Spoken(s, frames'[i], q[i - 1], q[i]) BY <2>1, <1>2
  <2>3. ASSUME frames'[i].sub = s, frames'[i].kind = "retired", Status(s) = "closing"
        PROVE  Status(s)' = "closing"
    <3>1. IsEvent(frames'[i], s) BY <2>3 DEF IsEvent, Events
    <3>2. ~(q[0] \in {Unborn, Over}) BY <3>1, <1>1, <1>3, Eventless
    <3>3. ~(Status(s)' \in {"closed", "none"}) BY <3>2, <1>6 DEF Sees, Status
    <3> QED BY <3>3, <2>3
  <2> QED BY <2>2, <2>3 DEF Spoken
<1>9. Joins(s, q)' BY <1>2, <1>3, <1>4, <1>6, <1>7, <1>8 DEF Joins
<1> QED BY <1>5, <1>9 DEF Joined

\* A step that writes nothing.
LEMMA JoinKeep ==
  ASSUME NEW s \in Subs, TypeOK, NEW p, Joins(s, p),
         UNCHANGED <<frames, resubscribe>>, stream'[s] = stream[s],
         Sees(s, p[0])', Fresh(s)' => Fresh(s), Hatched(s)' => Hatched(s),
         Status(s) = "closing" => Status(s)' = "closing"
  PROVE  Joined(s)'
<1>1. p \in [0..Len(frames) -> States] BY DEF Joins, Follows
<1>2. Follows(resubscribe[s], s, frames, p)' BY DEF Joins
<1>3. Shows(s, p[Len(frames)])' BY DEF Joins, Shows
<1>4. Says(s, p)' BY DEF Joins, Says, Spoken
<1>5. Joins(s, p)' BY <1>2, <1>3, <1>4 DEF Joins
<1> QED BY <1>1, <1>5 DEF Joined

\* A step of the host that writes one frame.
LEMMA JoinWrite ==
  ASSUME NEW s \in Subs, TypeOK, NEW p, Joins(s, p), HostStep,
         NEW f \in Frames, Writes(<<f>>), NEW to \in States,
         Step(resubscribe[s], s, f, p[Len(frames)], to),
         Shows(s, to)', Fresh(s)' => to = Unborn, Hatched(s)' => to # Unborn,
         Spoken(s, f, p[Len(frames)], to)
  PROVE  Joined(s)'
<1>q. PICK q : q = [i \in 0..(Len(frames) + 1) |-> IF i <= Len(frames) THEN p[i] ELSE to]
  OBVIOUS
<1>0. frames \in Seq(Frames) BY DEF TypeOK, HostOK
<1>1. /\ Len(frames) \in Nat /\ Len(frames') = Len(frames) + 1
      /\ DOMAIN frames = 1..Len(frames) /\ DOMAIN frames' = 1..(Len(frames) + 1)
      /\ \A i \in 1..Len(frames) : frames'[i] = frames[i]
      /\ frames'[Len(frames) + 1] = f /\ frames' = Append(frames, f)
  BY <1>0, AppendFacts DEF Writes
<1>2. /\ Follows(resubscribe[s], s, frames, p) /\ Sees(s, p[0])
      /\ \A i \in 1..Len(frames) : Spoken(s, frames[i], p[i - 1], p[i])
  BY <1>1 DEF Joins, Says
<1>3. Follows(resubscribe[s], s, frames, q)'
  <2>1. Follows(resubscribe[s], s, Append(frames, f), q) BY <1>q, <1>0, <1>2, PathAppend
  <2> QED BY <2>1, <1>1 DEF HostStep
<1>4. q[0] = p[0] /\ q[Len(frames')] = to BY <1>q, <1>1
<1>5. q \in [0..Len(frames') -> States] BY <1>q, <1>1, <1>2 DEF Follows
<1>6. Sees(s, q[0])' BY <1>4, <1>2 DEF HostStep, connection, Sees
<1>8. Says(s, q)'
  <2> SUFFICES ASSUME NEW i \in 1..(Len(frames) + 1)
               PROVE  Spoken(s, frames[i], q[i - 1], q[i])'
    BY <1>1 DEF Says
  <2>0. Status(s)' = Status(s) BY DEF HostStep, connection, Status
  <2>1. CASE i \in 1..Len(frames)
    <3>1. /\ q[i - 1] = p[i - 1] /\ q[i] = p[i] /\ frames'[i] = frames[i]
      BY <1>q, <1>1, <2>1
    <3> QED BY <2>0, <2>1, <3>1, <1>2 DEF Spoken
  <2>2. CASE i = Len(frames) + 1
    <3>1. q[i - 1] = p[Len(frames)] /\ q[i] = to /\ frames'[i] = f BY <1>q, <1>1, <2>2
    <3> QED BY <2>0, <3>1 DEF Spoken
  <2> QED BY <2>1, <2>2, <1>1
<1>9. Joins(s, q)' BY <1>3, <1>4, <1>6, <1>8 DEF Joins
<1> QED BY <1>5, <1>9 DEF Joined

\* A step of the host that writes two frames.
LEMMA JoinWriteTwo ==
  ASSUME NEW s \in Subs, TypeOK, NEW p, Joins(s, p), HostStep,
         NEW f \in Frames, NEW g \in Frames, Writes(<<f, g>>),
         NEW mid \in States, NEW to \in States,
         Step(resubscribe[s], s, f, p[Len(frames)], mid),
         Step(resubscribe[s], s, g, mid, to),
         Shows(s, to)', Fresh(s)' => to = Unborn, Hatched(s)' => to # Unborn,
         Spoken(s, f, p[Len(frames)], mid), Spoken(s, g, mid, to)
  PROVE  Joined(s)'
<1>p. PICK m : m = [i \in 0..(Len(frames) + 1) |-> IF i <= Len(frames) THEN p[i] ELSE mid]
  OBVIOUS
<1>q. PICK q : q = [i \in 0..(Len(frames) + 2) |-> IF i <= Len(frames) + 1 THEN m[i] ELSE to]
  OBVIOUS
<1>0. frames \in Seq(Frames) BY DEF TypeOK, HostOK
<1>1. /\ Append(frames, f) \in Seq(Frames) /\ frames' = Append(Append(frames, f), g)
      /\ Len(frames) \in Nat /\ Len(Append(frames, f)) = Len(frames) + 1
      /\ Len(frames') = Len(frames) + 2
      /\ DOMAIN frames = 1..Len(frames) /\ DOMAIN frames' = 1..(Len(frames) + 2)
  BY <1>0, AppendFacts, TwoFacts DEF Writes
<1>2. /\ \A i \in 1..Len(frames) : frames'[i] = frames[i]
      /\ frames'[Len(frames) + 1] = f /\ frames'[Len(frames) + 2] = g
  BY <1>0, <1>1, AppendFacts
<1>3. /\ Follows(resubscribe[s], s, frames, p) /\ Sees(s, p[0])
      /\ \A i \in 1..Len(frames) : Spoken(s, frames[i], p[i - 1], p[i])
  BY <1>1 DEF Joins, Says
<1>4. Follows(resubscribe[s], s, Append(frames, f), m) /\ m[Len(frames) + 1] = mid
  BY <1>p, <1>0, <1>1, <1>3, PathAppend
<1>5. Follows(resubscribe[s], s, frames', q)
  <2>1. q = [i \in 0..(Len(Append(frames, f)) + 1) |->
               IF i <= Len(Append(frames, f)) THEN m[i] ELSE to]
    BY <1>q, <1>1
  <2>2. Follows(resubscribe[s], s, Append(Append(frames, f), g), q)
    <3>1. PICK w \in Seq(Frames) : w = Append(frames, f) BY <1>1
    <3>2. Follows(resubscribe[s], s, w, m) BY <3>1, <1>4
    <3>3. Step(resubscribe[s], s, g, m[Len(w)], to) BY <3>1, <1>1, <1>4
    <3>4. Follows(resubscribe[s], s, Append(w, g),
                  [i \in 0..(Len(w) + 1) |-> IF i <= Len(w) THEN m[i] ELSE to])
      BY <3>2, <3>3, PathAppend
    <3> QED BY <3>1, <3>4, <2>1
  <2> QED BY <2>2, <1>1
<1>6. Follows(resubscribe[s], s, frames, q)' BY <1>5 DEF HostStep
<1>7. /\ \A i \in 0..Len(frames) : q[i] = p[i]
      /\ q[Len(frames) + 1] = mid /\ q[Len(frames) + 2] = to
      /\ q[0] = p[0] /\ q[Len(frames')] = to
  BY <1>p, <1>q, <1>1
<1>8. q \in [0..Len(frames') -> States] BY <1>6 DEF Follows
<1>9. Sees(s, q[0])' BY <1>7, <1>3 DEF HostStep, connection, Sees
<1>10. Says(s, q)'
  <2> SUFFICES ASSUME NEW i \in 1..(Len(frames) + 2)
               PROVE  Spoken(s, frames[i], q[i - 1], q[i])'
    BY <1>1 DEF Says
  <2>0. Status(s)' = Status(s) BY DEF HostStep, connection, Status
  <2>1. CASE i \in 1..Len(frames)
    <3>1. q[i - 1] = p[i - 1] /\ q[i] = p[i] /\ frames'[i] = frames[i]
      BY <1>1, <1>2, <1>7, <2>1
    <3> QED BY <2>0, <2>1, <3>1, <1>3 DEF Spoken
  <2>2. CASE i = Len(frames) + 1
    <3>1. q[i - 1] = p[Len(frames)] /\ q[i] = mid /\ frames'[i] = f
      BY <1>1, <1>2, <1>7, <2>2
    <3> QED BY <2>0, <3>1 DEF Spoken
  <2>3. CASE i = Len(frames) + 2
    <3>1. q[i - 1] = mid /\ q[i] = to /\ frames'[i] = g BY <1>1, <1>2, <1>7, <2>3
    <3> QED BY <2>0, <3>1 DEF Spoken
  <2> QED BY <2>1, <2>2, <2>3, <1>1
<1>11. Joins(s, q)' BY <1>6, <1>7, <1>9, <1>10 DEF Joins
<1> QED BY <1>8, <1>11 DEF Joined

\* The ends of a life under way.
LEMMA JoinEnds ==
  ASSUME NEW s \in Subs, TypeOK, NEW p, Joins(s, p)
  PROVE  /\ p[0] \in States /\ p[Len(frames)] \in States
         /\ p[Len(frames)] = Unborn <=> p[0] = Unborn
         /\ p[0] = Over => p[Len(frames)] = Over
         /\ Sees(s, p[0]) /\ Shows(s, p[Len(frames)])
         /\ Fresh(s) => p[Len(frames)] = Unborn
         /\ Hatched(s) => p[Len(frames)] # Unborn
<1>1. Len(frames) \in Nat BY DEF TypeOK, HostOK
<1> QED BY <1>1 DEF Joins, Follows

\* A step of the host that writes a frame which is no event of the stream.
LEMMA JoinPass ==
  ASSUME NEW s \in Subs, TypeOK, NEW p, Joins(s, p), HostStep,
         NEW f \in Frames, Writes(<<f>>), ~IsEvent(f, s), stream'[s] = stream[s],
         Fresh(s)' => Fresh(s), Hatched(s)' => Hatched(s),
         Spoken(s, f, p[Len(frames)], p[Len(frames)])
  PROVE  Joined(s)'
<1>1. /\ p[Len(frames)] \in States /\ Shows(s, p[Len(frames)])
      /\ Fresh(s) => p[Len(frames)] = Unborn
      /\ Hatched(s) => p[Len(frames)] # Unborn
  BY JoinEnds
<1>2. PICK to \in States : to = p[Len(frames)] BY <1>1
<1>3. Shows(s, to)' BY <1>1, <1>2 DEF Shows
<1>4. Step(resubscribe[s], s, f, p[Len(frames)], to) BY <1>2 DEF Step
<1>5. Spoken(s, f, p[Len(frames)], to) BY <1>2
<1> QED BY <1>1, <1>2, <1>3, <1>4, <1>5, JoinWrite

\* A step of the host that writes two frames of another subscription.
LEMMA JoinPassTwo ==
  ASSUME NEW s \in Subs, TypeOK, NEW p, Joins(s, p), HostStep,
         NEW f \in Frames, NEW g \in Frames, Writes(<<f, g>>),
         f.sub # s, g.sub # s, stream'[s] = stream[s],
         Fresh(s)' => Fresh(s), Hatched(s)' => Hatched(s)
  PROVE  Joined(s)'
<1>1. /\ p[Len(frames)] \in States /\ Shows(s, p[Len(frames)])
      /\ Fresh(s) => p[Len(frames)] = Unborn
      /\ Hatched(s) => p[Len(frames)] # Unborn
  BY JoinEnds
<1>2. PICK to \in States : to = p[Len(frames)] BY <1>1
<1>3. Shows(s, to)' BY <1>1, <1>2 DEF Shows
<1>4. /\ Step(resubscribe[s], s, f, p[Len(frames)], to)
      /\ Step(resubscribe[s], s, g, to, to)
  BY <1>2 DEF Step, IsEvent
<1>5. Spoken(s, f, p[Len(frames)], to) /\ Spoken(s, g, to, to) BY DEF Spoken
<1> QED BY <1>1, <1>2, <1>3, <1>4, <1>5, JoinWriteTwo

-----------------------------------------------------------------------------
(* Types.                                                                  *)

\* What the two ends send has its type.
LEMMA MessageTypes ==
  /\ \A k \in Events, s \in Subs, g, n \in Nat : Event(k, s, g, n) \in Frames
  /\ \A r \in Requests, x \in Results : Reply(r, x) \in Frames
  /\ \A o \in Replies, s \in Subs, g \in Nat, b \in BOOLEAN : Request(o, s, g, b) \in Requests
<1>1. \A k \in Events, s \in Subs, g, n \in Nat : Event(k, s, g, n) \in Frames
  BY DEF Event, Frames, Results, Events
<1>2. ASSUME NEW r \in Requests, NEW x \in Results PROVE Reply(r, x) \in Frames
  BY DEF Reply, Frames, Requests
<1>3. \A o \in Replies, s \in Subs, g \in Nat, b \in BOOLEAN : Request(o, s, g, b) \in Requests
  BY DEF Request, Requests
<1> QED BY <1>1, <1>2, <1>3

\* Frames and requests written keep their type.
LEMMA WritesType ==
  ASSUME frames \in Seq(Frames), NEW f \in Frames, NEW g \in Frames
  PROVE  /\ Writes(<<f>>) => frames' \in Seq(Frames)
         /\ Writes(<<f, g>>) => frames' \in Seq(Frames)
<1>1. Append(frames, f) \in Seq(Frames) /\ Append(frames, f) = frames \o <<f>>
  BY AppendFacts
<1>2. Append(Append(frames, f), g) \in Seq(Frames) BY <1>1, AppendFacts
<1>3. frames \o <<f, g>> = Append(Append(frames, f), g) BY TwoFacts
<1> QED BY <1>1, <1>2, <1>3 DEF Writes

\* The invariant holds when the session opens.
LEMMA InitInv == Init => Inv
<1> SUFFICES ASSUME Init PROVE Inv OBVIOUS
<1>1. TypeOK
  <2>1. ConnectionOK BY DEF Init, ConnectionOK, Rows, Statuses
  <2>2. HostOK BY DEF Init, HostOK, NoStream, Streams
  <2> QED BY <2>1, <2>2 DEF TypeOK
<1>2. ProtocolAgrees /\ TerminalOnce /\ Told /\ WatchedWhileOpen
  BY DEF Init, ProtocolAgrees, TerminalOnce, Told, WatchedWhileOpen
<1>3. Calls /\ Cancels
  BY DEF Init, Calls, OwnRequest, OwnFrame, OwnOperation, OwnKinds, Cancels, Range,
         NoCall, Idle
<1>4. ASSUME NEW s \in Subs PROVE Joined(s)
  <2>1. PICK p : p = [i \in 0..0 |-> Unborn] OBVIOUS
  <2>2. Len(frames) = 0 /\ DOMAIN frames = {} /\ Range(frames) = {} /\ Range(requests) = {}
    BY DEF Init, Range
  <2>3. p \in [0..Len(frames) -> States] /\ p[0] = Unborn
    BY <2>1, <2>2 DEF States, Unborn, State
  <2>4. Follows(resubscribe[s], s, frames, p) BY <2>1, <2>2, <2>3 DEF Follows
  <2>5. Sees(s, p[0]) /\ Shows(s, p[0])
    BY <2>3 DEF Init, Sees, Shows, NoStream
  <2>6. ~Hatched(s) BY <2>2 DEF Init, Hatched, Awake, Status, Idle
  <2>7. Joins(s, p) BY <2>2, <2>3, <2>4, <2>5, <2>6 DEF Joins, Says
  <2> QED BY <2>3, <2>7 DEF Joined
<1> QED BY <1>1, <1>2, <1>3, <1>4 DEF Inv, Served

\* cancel_subscription keeps the types.
LEMMA CancelTypes ==
  ASSUME TypeOK, NEW s \in Subs, NEW told \in {0, 1},
         CancelSubscription(s, told) \/ CancelEstablishing(s, told), UNCHANGED resubscribe
  PROVE  ConnectionOK' /\ requests' \in Seq(Requests)
<1>1. /\ sub \in [Subs -> Rows] /\ sub[s] \in Rows
      /\ terminals \in [Subs -> Nat] /\ internal \subseteq Subs /\ watched \subseteq Subs
      /\ requests \in Seq(Requests) /\ session \in {"up", "failing", "down"}
      /\ call \in CallsOf \cup {NoCall} /\ resubscribe \in [Subs -> BOOLEAN]
  BY DEF TypeOK, ConnectionOK, HostOK
<1>2. sub' \in [Subs -> Rows]
  <2>1. sub' = [sub EXCEPT ![s].status = "closing"] BY DEF CancelSubscription, CancelEstablishing
  <2> QED BY <2>1, <1>1 DEF Rows, Statuses
<1>3. terminals' \in [Subs -> Nat]
  <2>1. terminals' = [terminals EXCEPT ![s] = @ + told] BY DEF CancelSubscription, CancelEstablishing
  <2> QED BY <2>1, <1>1
<1>4. /\ internal' \subseteq Subs /\ watched' \subseteq Subs
      /\ session' \in {"up", "failing", "down"} /\ call' = call
  BY <1>1 DEF CancelSubscription, CancelEstablishing
<1>5. Request("unsubscribe", s, sub[s].generation, TRUE) \in Requests
  BY <1>1, MessageTypes DEF Replies, Rows
<1>6. requests' \in Seq(Requests)
  <2>1. Append(requests, Request("unsubscribe", s, sub[s].generation, TRUE)) \in Seq(Requests)
    BY <1>1, <1>5, AppendFacts
  <2> QED BY <2>1, <1>1 DEF CancelSubscription, CancelEstablishing
<1> QED BY <1>1, <1>2, <1>3, <1>4, <1>6 DEF ConnectionOK

\* The callers and the receivers keep the types.
LEMMA TypeCalls ==
  ASSUME TypeOK, NEW s \in Subs,
         CallSubscribe(s) \/ CallUnsubscribe(s) \/ Down(s)
  PROVE  TypeOK'
<1>1. /\ sub \in [Subs -> Rows]
      /\ terminals \in [Subs -> Nat] /\ internal \subseteq Subs /\ watched \subseteq Subs
      /\ requests \in Seq(Requests) /\ session \in {"up", "failing", "down"}
      /\ call \in CallsOf \cup {NoCall}
      /\ resubscribe \in [Subs -> BOOLEAN]
  BY DEF TypeOK, ConnectionOK, HostOK
<1>2. /\ Request("subscribe", s, 1, FALSE) \in Requests
      /\ Request("unsubscribe", s, sub[s].generation, FALSE) \in Requests
      /\ Request("unsubscribe", s, sub[s].generation, TRUE) \in Requests
  BY <1>1, MessageTypes DEF Replies, Rows
<1>3. CASE CallSubscribe(s)
  <2>0. sub' \in [Subs -> Rows]
    <3>1. sub' = [sub EXCEPT ![s].status = "establishing", ![s].generation = 1]
      BY <1>3 DEF CallSubscribe
    <3> QED BY <3>1, <1>1 DEF Rows, Statuses
  <2>1. call' \in CallsOf BY <1>3 DEF CallSubscribe, CallsOf
  <2>2. requests' \in Seq(Requests) BY <1>1, <1>2, <1>3, AppendFacts DEF CallSubscribe
  <2>3. ConnectionOK' BY <2>0, <2>1, <1>1, <1>3 DEF CallSubscribe, ConnectionOK
  <2> QED BY <2>2, <2>3, <1>3 DEF CallSubscribe, TypeOK, HostOK, native
<1>4. CASE CallUnsubscribe(s)
  <2>0. sub' \in [Subs -> Rows]
    <3>1. CASE sub' = [sub EXCEPT ![s].status = "closing"] BY <3>1, <1>1 DEF Rows, Statuses
    <3> QED BY <3>1, <1>1, <1>4 DEF CallUnsubscribe
  <2>1. call' \in CallsOf
    <3>1. [op |-> "unsubscribe", sub |-> s] \in CallsOf /\ [op |-> "join", sub |-> s] \in CallsOf
      BY DEF CallsOf
    <3> QED BY <3>1, <1>4 DEF CallUnsubscribe
  <2>2. requests' \in Seq(Requests)
    <3>1. Append(requests, Request("unsubscribe", s, sub[s].generation, FALSE)) \in Seq(Requests)
      BY <1>1, <1>2, AppendFacts
    <3> QED BY <3>1, <1>1, <1>4 DEF CallUnsubscribe
  <2>3. ConnectionOK' BY <2>0, <2>1, <1>1, <1>4 DEF CallUnsubscribe, ConnectionOK
  <2> QED BY <2>2, <2>3, <1>4 DEF CallUnsubscribe, TypeOK, HostOK, native
<1>5. CASE Down(s)
  <2>1. ConnectionOK' /\ requests' \in Seq(Requests) BY <1>5, CancelTypes DEF Down
  <2> QED BY <2>1, <1>5 DEF Down, TypeOK, HostOK, native
<1> QED BY <1>3, <1>4, <1>5

\* A stream that retires keeps the types.
LEMMA RetiresType ==
  ASSUME stream \in [Subs -> Streams], record \in [Subs -> Nat], NEW s \in Subs, Retires(s)
  PROVE  stream' \in [Subs -> Streams] /\ record' \in [Subs -> Nat]
<1>1. NoStream \in Streams BY DEF NoStream, Streams
<1>2. stream[s].generation \in Nat BY DEF Streams
<1> QED BY <1>1, <1>2 DEF Retires

\* The operations of the host keep the types.
LEMMA TypeHost ==
  ASSUME TypeOK, HostSteps
  PROVE  TypeOK'
<1>1. /\ requests \in Seq(Requests) /\ frames \in Seq(Frames)
      /\ stream \in [Subs -> Streams]
      /\ record \in [Subs -> Nat]
      /\ registering \in [sub : Subs, stage : {"wait", "added", "activate"}] \cup {Idle}
      /\ cancelling \in Requests \cup {NoRequest}
      /\ host \in {"up", "down"}
  BY DEF TypeOK, HostOK
<1>2. HostStep => ConnectionOK' BY DEF HostStep, connection, TypeOK, ConnectionOK
<1>3. ASSUME requests # << >>
      PROVE  /\ Head(requests) \in Requests /\ Tail(requests) \in Seq(Requests)
             /\ \A x \in Results : Reply(Head(requests), x) \in Frames
  BY <1>1, <1>3, TailFacts, MessageTypes
<1>4. CASE HostSubscribe
  <2>1. Reply(Head(requests), "busy") \in Frames BY <1>3, <1>4 DEF HostSubscribe, Reading, Results
  <2>2. frames' \in Seq(Frames) BY <2>1, <1>1, <1>4, WritesType DEF HostSubscribe
  <2>3. requests' \in Seq(Requests) /\ Head(requests).sub \in Subs
    BY <1>3, <1>4 DEF HostSubscribe, Reading, Requests
  <2> QED BY <2>2, <2>3, <1>1, <1>2, <1>4 DEF HostSubscribe, TypeOK, HostOK
<1>5. CASE registering.stage \in {"wait", "added", "activate"}
           /\ (HostRefuses \/ AddStream \/ HostReplies \/ HostActivates)
  <2>0. registering.sub \in Subs BY <1>1, <1>5 DEF Idle
  <2>1. \A x \in Results : Reply(Request("subscribe", registering.sub, 1, FALSE), x) \in Frames
    BY <2>0, MessageTypes DEF Replies
  <2>2. frames' \in Seq(Frames)
    BY <2>1, <1>1, <1>5, WritesType
    DEF HostRefuses, AddStream, HostReplies, HostActivates, Results
  <2>3. stream' \in [Subs -> Streams]
    <3>1. [live |-> TRUE, generation |-> 1, recovering |-> FALSE, attempt |-> 0] \in Streams
      BY DEF Streams
    <3> QED BY <3>1, <2>0, <1>1, <1>5 DEF HostRefuses, AddStream, HostReplies, HostActivates
  <2>4. registering' \in [sub : Subs, stage : {"wait", "added", "activate"}] \cup {Idle}
    <3>1. CASE registering' = [registering EXCEPT !.stage = "added"] BY <3>1, <1>1, <1>5 DEF Idle
    <3>2. CASE registering' = [registering EXCEPT !.stage = "activate"] BY <3>2, <1>1, <1>5 DEF Idle
    <3> QED BY <3>1, <3>2, <1>5 DEF HostRefuses, AddStream, HostReplies, HostActivates
  <2>5. /\ UNCHANGED <<requests, record, cancelling>> /\ host' \in {"up", "down"}
        /\ HostStep
    BY <1>1, <1>5 DEF HostRefuses, AddStream, HostReplies, HostActivates
  <2> QED BY <2>2, <2>3, <2>4, <2>5, <1>1, <1>2 DEF TypeOK, HostOK
<1>6. CASE HostUnsubscribe
  <2>1. /\ Reply(Head(requests), Verdict(Head(requests))) \in Frames
           \/ Verdict(Head(requests)) = "cancel"
        /\ requests' \in Seq(Requests) /\ Head(requests) \in Requests
    BY <1>3, <1>6 DEF HostUnsubscribe, Reading, Results, Verdict
  <2>2. frames' \in Seq(Frames) BY <2>1, <1>1, <1>6, WritesType DEF HostUnsubscribe
  <2> QED BY <2>1, <2>2, <1>1, <1>2, <1>6 DEF HostUnsubscribe, TypeOK, HostOK
<1>7. CASE CancelReturns
  <2>0. cancelling \in Requests /\ cancelling.sub \in Subs /\ cancelling.generation \in Nat
    BY <1>1, <1>7 DEF CancelReturns, Requests
  <2>1. /\ \A x \in Results : Reply(cancelling, x) \in Frames
        /\ Event("retired", cancelling.sub, cancelling.generation, 0) \in Frames
    BY <2>0, MessageTypes DEF Events
  <2>2. frames' \in Seq(Frames)
    BY <2>1, <1>1, <1>7, WritesType DEF CancelReturns, Results
  <2>3. /\ stream' \in [Subs -> Streams]
        /\ record' \in [Subs -> Nat]
    BY <2>0, <1>1, <1>7, RetiresType DEF CancelReturns
  <2> QED BY <2>2, <2>3, <1>1, <1>2, <1>7 DEF CancelReturns, TypeOK, HostOK
<1> QED BY <1>4, <1>5, <1>6, <1>7
        DEF HostSteps, HostRefuses, AddStream, HostReplies, HostActivates

\* The callbacks keep the types.
LEMMA TypeStream ==
  ASSUME TypeOK, NEW s \in Subs,
         RecordErased(s) \/ EmitReport(s) \/ EmitFailure(s) \/ EmitResubscribing(s)
           \/ EmitResubscribed(s)
  PROVE  TypeOK'
<1>1. /\ frames \in Seq(Frames)
      /\ stream \in [Subs -> Streams]
      /\ record \in [Subs -> Nat]
      /\ stream[s].generation \in Nat /\ stream[s].attempt \in Nat
  BY DEF TypeOK, HostOK, Streams
<1>2. ConnectionOK'
  <2>1. HostStep
    BY DEF RecordErased, EmitReport, EmitFailure, EmitResubscribing, EmitResubscribed, Callback
  <2> QED BY <2>1 DEF HostStep, connection, TypeOK, ConnectionOK
<1>3. UNCHANGED <<requests, registering, cancelling, host>>
  BY DEF RecordErased, EmitReport, EmitFailure, EmitResubscribing, EmitResubscribed, Callback
<1>4. \A k \in Events, g, n \in Nat : Event(k, s, g, n) \in Frames BY MessageTypes
<1>5. CASE RecordErased(s) BY <1>1, <1>2, <1>3, <1>5 DEF RecordErased, TypeOK, HostOK
<1>6. CASE EmitReport(s)
  <2>1. frames' \in Seq(Frames) BY <1>1, <1>4, <1>6, WritesType DEF EmitReport, Events
  <2> QED BY <2>1, <1>1, <1>2, <1>3, <1>6 DEF EmitReport, TypeOK, HostOK
<1>7. CASE EmitFailure(s)
  <2>1. frames' \in Seq(Frames) BY <1>1, <1>4, <1>7, WritesType DEF EmitFailure, Events
  <2>2. /\ stream' \in [Subs -> Streams]
        /\ record' \in [Subs -> Nat]
    BY <1>1, <1>7, RetiresType DEF EmitFailure
  <2> QED BY <2>1, <2>2, <1>1, <1>2, <1>3, <1>7 DEF TypeOK, HostOK
<1>8. CASE EmitResubscribing(s)
  <2>1. stream[s].generation + 1 \in Nat /\ stream[s].attempt + 1 \in Nat BY <1>1
  <2>2. frames' \in Seq(Frames) BY <2>1, <1>1, <1>4, <1>8, WritesType DEF EmitResubscribing, Events
  <2>3. stream' \in [Subs -> Streams]
    <3>1. CASE stream' = [stream EXCEPT ![s].generation = @ + 1, ![s].recovering = TRUE,
                                        ![s].attempt = 1]
      <4>1. PICK n \in Nat : n = stream[s].generation + 1 BY <2>1
      <4>2. stream' = [stream EXCEPT ![s].generation = n, ![s].recovering = TRUE,
                                     ![s].attempt = 1]
        BY <3>1, <4>1
      <4> QED BY <4>2, <1>1 DEF Streams
    <3>2. CASE stream' = [stream EXCEPT ![s].attempt = @ + 1]
      <4>1. PICK n \in Nat : n = stream[s].attempt + 1 BY <2>1
      <4>2. stream' = [stream EXCEPT ![s].attempt = n] BY <3>2, <4>1
      <4> QED BY <4>2, <1>1 DEF Streams
    <3> QED BY <3>1, <3>2, <1>8 DEF EmitResubscribing
  <2> QED BY <2>2, <2>3, <1>1, <1>2, <1>3, <1>8 DEF EmitResubscribing, TypeOK, HostOK
<1>9. CASE EmitResubscribed(s)
  <2>1. frames' \in Seq(Frames) BY <1>1, <1>4, <1>9, WritesType DEF EmitResubscribed, Events
  <2>2. stream' \in [Subs -> Streams]
    <3>1. stream' = [stream EXCEPT ![s].recovering = FALSE, ![s].attempt = 0]
      BY <1>9 DEF EmitResubscribed
    <3> QED BY <3>1, <1>1 DEF Streams
  <2> QED BY <2>1, <2>2, <1>1, <1>2, <1>3, <1>9 DEF EmitResubscribed, TypeOK, HostOK
<1> QED BY <1>5, <1>6, <1>7, <1>8, <1>9

\* The end of the session keeps the types.
LEMMA TypeStop ==
  ASSUME TypeOK, NEW reason, Stop(reason)
  PROVE  ConnectionOK' \/ resubscribe' # resubscribe
<1>1. terminals \in [Subs -> Nat] BY DEF TypeOK, ConnectionOK
<1>2. terminals' \in [Subs -> Nat] BY <1>1 DEF Stop
<1> QED BY <1>2 DEF Stop, TypeOK, ConnectionOK

\* The frames the connection reads keep the types.
LEMMA TypeReads ==
  ASSUME TypeOK, Reads
  PROVE  TypeOK'
<1>1. Taken /\ frames # << >>
  BY DEF Reads, ReadReport, ReadResubscribing, ResubscribingOverflows, ReadResubscribed,
         ReadBarrier, ReadError, RefuseFrame, ReadCancelled, RefuseCancelled,
         ReadUnsubscribed, ReadSubscribed, ReadNotSubscribed, Received
<1>2. /\ The \in Frames /\ frames' \in Seq(Frames) /\ UNCHANGED <<resubscribe, native>>
      /\ The.sub \in Subs /\ The.generation \in Nat /\ The.attempt \in Nat
  <2>1. frames \in Seq(Frames) BY DEF TypeOK, HostOK
  <2>2. The \in Frames /\ frames' \in Seq(Frames) BY <2>1, <1>1, TailFacts DEF Taken, The
  <2> QED BY <2>2, <1>1 DEF Taken, Frames
<1>3. /\ sub \in [Subs -> Rows]
      /\ terminals \in [Subs -> Nat] /\ internal \subseteq Subs /\ watched \subseteq Subs
      /\ requests \in Seq(Requests) /\ session \in {"up", "failing", "down"}
      /\ call \in CallsOf \cup {NoCall}
      /\ resubscribe \in [Subs -> BOOLEAN]
  BY DEF TypeOK, ConnectionOK, HostOK
<1>4. ASSUME CancelSubscription(The.sub, 1) PROVE ConnectionOK' /\ requests' \in Seq(Requests)
  BY <1>2, <1>4, CancelTypes
<1>5. ASSUME ConnectionOK', requests' \in Seq(Requests) PROVE TypeOK'
  BY <1>2, <1>5 DEF TypeOK, HostOK, native
<1>6. ASSUME NEW reason, Stop(reason) PROVE TypeOK'
  BY <1>2, <1>3, <1>5, <1>6, TypeStop DEF Stop
<1>7. CASE ReadReport
  <2>1. CASE UNCHANGED <<sub, watched, terminals>> /\ Rest
    BY <2>1, <1>2, <1>3, <1>5 DEF Rest, ConnectionOK
  <2> QED BY <2>1, <1>4, <1>5, <1>7 DEF ReadReport
<1>8. CASE ReadResubscribing
  <2>1. [status |-> "recovering", generation |-> The.generation, attempt |-> 1,
         retiring |-> sub[The.sub].generation, terminal |-> sub[The.sub].terminal] \in Rows
    BY <1>2, <1>3 DEF Rows, Statuses
  <2>2. sub' \in [Subs -> Rows]
    <3>1. CASE sub' = [sub EXCEPT ![The.sub].attempt = The.attempt]
      BY <3>1, <1>2, <1>3 DEF Rows
    <3> QED BY <3>1, <2>1, <1>2, <1>3, <1>8 DEF ReadResubscribing
  <2> QED BY <2>2, <1>2, <1>3, <1>5, <1>8 DEF ReadResubscribing, Rest, ConnectionOK
<1>9. CASE ResubscribingOverflows
  <2>1. terminals' \in [Subs -> Nat] BY <1>3, <1>9 DEF ResubscribingOverflows
  <2> QED BY <2>1, <1>2, <1>3, <1>5, <1>9 DEF ResubscribingOverflows, ConnectionOK
<1>10. CASE ReadResubscribed
  <2>1. CASE /\ sub' = [sub EXCEPT ![The.sub].status = "active"]
             /\ UNCHANGED <<watched, terminals>> /\ Rest
    <3>1. sub' \in [Subs -> Rows] BY <2>1, <1>2, <1>3 DEF Rows, Statuses
    <3> QED BY <2>1, <3>1, <1>2, <1>3, <1>5 DEF Rest, ConnectionOK
  <2> QED BY <2>1, <1>4, <1>5, <1>10 DEF ReadResubscribed
<1>11. CASE ReadBarrier
  <2>1. sub' \in [Subs -> Rows]
    <3>1. CASE sub' = [sub EXCEPT ![The.sub].retiring = 0] BY <3>1, <1>2, <1>3 DEF Rows
    <3>2. CASE sub' = [sub EXCEPT ![The.sub].status = "closed"]
      BY <3>2, <1>2, <1>3 DEF Rows, Statuses
    <3> QED BY <3>1, <3>2, <1>11 DEF ReadBarrier, Closed
  <2>2. watched' \subseteq Subs /\ session' \in {"up", "failing", "down"}
    BY <1>3, <1>11 DEF ReadBarrier, Closed, CompleteCancellation
  <2> QED BY <2>1, <2>2, <1>2, <1>3, <1>5, <1>11 DEF ReadBarrier, ConnectionOK
<1>12. CASE ReadError
  <2>1. sub' \in [Subs -> Rows]
    <3>1. sub' = [sub EXCEPT ![The.sub].status = "closing", ![The.sub].terminal = TRUE]
      BY <1>12 DEF ReadError
    <3> QED BY <3>1, <1>2, <1>3 DEF Rows, Statuses
  <2>2. terminals' \in [Subs -> Nat] BY <1>2, <1>3, <1>12 DEF ReadError
  <2> QED BY <2>1, <2>2, <1>2, <1>3, <1>5, <1>12 DEF ReadError, Rest, ConnectionOK
<1>13. CASE RefuseFrame BY <1>6, <1>13 DEF RefuseFrame
<1>14. CASE ReadCancelled
  <2>1. watched' \subseteq Subs /\ session' \in {"up", "failing", "down"}
    BY <1>3, <1>14 DEF ReadCancelled, CompleteCancellation
  <2> QED BY <2>1, <1>2, <1>3, <1>5, <1>14 DEF ReadCancelled, ConnectionOK
<1>15. CASE RefuseCancelled BY <1>6, <1>15 DEF RefuseCancelled
<1>16. CASE ReadUnsubscribed
  <2>1. CASE call' = NoCall /\ UNCHANGED <<sub, internal, watched, terminals, session, cause, requests>>
    BY <2>1, <1>2, <1>3, <1>5 DEF ConnectionOK
  <2> QED BY <2>1, <1>6, <1>16 DEF ReadUnsubscribed
<1>17. CASE ReadSubscribed
  <2>1. CASE Status(The.sub) = "establishing"
    <3>1. sub' \in [Subs -> Rows]
      <4>1. sub' = [sub EXCEPT ![The.sub].status = "active"] BY <2>1, <1>17 DEF ReadSubscribed
      <4> QED BY <4>1, <1>2, <1>3 DEF Rows, Statuses
    <3> QED BY <2>1, <3>1, <1>2, <1>3, <1>5, <1>17 DEF ReadSubscribed, ConnectionOK
  <2> QED BY <2>1, <1>6, <1>17 DEF ReadSubscribed
<1>18. CASE ReadNotSubscribed
  <2>1. sub' \in [Subs -> Rows]
    BY <1>2, <1>3, <1>18 DEF ReadNotSubscribed, Rows, Statuses
  <2> QED BY <2>1, <1>2, <1>3, <1>5, <1>18 DEF ReadNotSubscribed, ConnectionOK
<1> QED BY <1>7, <1>8, <1>9, <1>10, <1>11, <1>12, <1>13, <1>14, <1>15, <1>16, <1>17, <1>18
        DEF Reads

\* Every step keeps the types.
LEMMA TypeNext ==
  ASSUME TypeOK, [Next]_vars
  PROVE  TypeOK'
<1>1. CASE Reads BY <1>1, TypeReads
<1>2. CASE HostSteps BY <1>2, TypeHost
<1>3. CASE Timers
  <2>1. PICK reason : Stop(reason) BY <1>3 DEF Timers, Expires, InputFailed, HostExits
  <2>2. UNCHANGED <<resubscribe, frames, native, requests>>
    BY <1>3, <2>1 DEF Timers, Expires, InputFailed, HostExits, Stop
  <2> QED BY <2>1, <2>2, TypeStop DEF TypeOK, HostOK, native
<1>4. CASE JoinReturns BY <1>4 DEF JoinReturns, TypeOK, ConnectionOK, HostOK, native
<1>5. ASSUME NEW s \in Subs,
             \/ CallSubscribe(s) \/ CallUnsubscribe(s) \/ Down(s)
             \/ RecordErased(s) \/ EmitReport(s) \/ EmitFailure(s)
             \/ EmitResubscribing(s) \/ EmitResubscribed(s)
      PROVE  TypeOK'
  BY <1>5, TypeCalls, TypeStream
<1>6. CASE UNCHANGED vars
  BY <1>6 DEF vars, connection, native, TypeOK, ConnectionOK, HostOK
<1> QED BY <1>1, <1>2, <1>3, <1>4, <1>5, <1>6 DEF Next

-----------------------------------------------------------------------------
(* The connection reads a frame.                                           *)

\* What every frame of t that is read and does not stop the session leaves.
ReadEffect(t) ==
  /\ Taken /\ frames # << >> /\ The.sub = t
  /\ session' \in {session, "failing"}
  /\ \A s \in Subs \ {t} : sub'[s] = sub[s]
  /\ \/ requests' = requests
     \/ /\ Awake(t)
        /\ requests' = Append(requests, Request("unsubscribe", t, sub[t].generation, TRUE))
  /\ Status(t)' = "none" => Fresh(t)
  /\ Awake(t)' => Hatched(t)
  /\ Status(t) = "closing" => Status(t)' \in {"closing", "closed", "none"}

\* The frame that is read, and what is left.
LEMMA TheFrame ==
  ASSUME TypeOK, frames # << >>, Taken
  PROVE  /\ The \in Frames /\ The \in Range(frames) /\ The.sub \in Subs
         /\ The.generation \in Nat /\ The.attempt \in Nat
         /\ The = frames[1] /\ 1 \in DOMAIN frames
         /\ \A f \in Range(frames') : f \in Range(frames)
         /\ Len(frames) \in Nat /\ Len(frames) >= 1 /\ Len(frames') = Len(frames) - 1
         /\ DOMAIN frames = 1..Len(frames) /\ DOMAIN frames' = 1..(Len(frames) - 1)
         /\ \A i \in 1..(Len(frames) - 1) : frames'[i] = frames[i + 1]
         /\ UNCHANGED <<resubscribe, stream, record, registering, cancelling, host>>
<1>1. frames \in Seq(Frames) BY DEF TypeOK, HostOK
<1>2. /\ The \in Frames /\ The \in Range(frames) /\ The = frames[1] /\ 1 \in DOMAIN frames
      /\ \A f \in Range(frames') : f \in Range(frames)
      /\ Len(frames) \in Nat /\ Len(frames) >= 1 /\ Len(frames') = Len(frames) - 1
      /\ DOMAIN frames = 1..Len(frames) /\ DOMAIN frames' = 1..(Len(frames) - 1)
      /\ \A i \in 1..(Len(frames) - 1) : frames'[i] = frames[i + 1]
  BY <1>1, TailFacts DEF Taken, The
<1>3. The.sub \in Subs /\ The.generation \in Nat /\ The.attempt \in Nat BY <1>2 DEF Frames
<1> QED BY <1>2, <1>3 DEF Taken, native

\* The first frame moves the life of its stream, or of none.
LEMMA TheLife ==
  ASSUME TypeOK, frames # << >>, NEW s \in Subs, NEW p, Joins(s, p)
  PROVE  /\ p[0] \in States /\ p[1] \in States /\ Sees(s, p[0])
         /\ IsEvent(The, s) => Leads(resubscribe[s], The, p[0], p[1])
         /\ ~IsEvent(The, s) => p[1] = p[0]
         /\ Spoken(s, The, p[0], p[1])
<1>1. frames \in Seq(Frames) BY DEF TypeOK, HostOK
<1>2. Follows(resubscribe[s], s, frames, p) /\ Sees(s, p[0]) /\ Says(s, p) BY DEF Joins
<1>3. Step(resubscribe[s], s, Head(frames), p[0], p[1]) /\ p[0] \in States /\ p[1] \in States
  BY <1>1, <1>2, PathTail
<1>4. 1 \in DOMAIN frames /\ frames[1] = The /\ 1 - 1 = 0 BY <1>1, TailFacts DEF The
<1>5. Spoken(s, The, p[0], p[1]) BY <1>2, <1>4 DEF Says
<1> QED BY <1>2, <1>3, <1>5 DEF Step, The

\* Reading makes no stream young, and none old.
LEMMA ReadAges ==
  ASSUME TypeOK, NEW t \in Subs, ReadEffect(t), NEW s \in Subs
  PROVE  (Fresh(s)' => Fresh(s)) /\ (Hatched(s)' => Hatched(s))
<1>1. /\ \A f \in Range(frames') : f \in Range(frames)
      /\ UNCHANGED <<record, registering, cancelling>>
  BY TheFrame DEF ReadEffect
<1>2. requests \in Seq(Requests) /\ sub \in [Subs -> Rows] BY DEF TypeOK, HostOK, ConnectionOK
<1>3. Request("unsubscribe", t, sub[t].generation, TRUE) \in Requests
  BY <1>1, <1>2, MessageTypes DEF Replies, Rows
<1>4. \A r \in Range(requests') :
        \/ r \in Range(requests)
        \/ Awake(t) /\ r.op = "unsubscribe" /\ r.sub = t
  <2>1. CASE requests' = requests BY <2>1
  <2>2. CASE /\ Awake(t)
             /\ requests' = Append(requests, Request("unsubscribe", t,
                                                     sub[t].generation, TRUE))
    <3>1. PICK x \in Requests : x = Request("unsubscribe", t, sub[t].generation, TRUE)
      BY <1>3
    <3>4. requests' = Append(requests, x) BY <2>2, <3>1
    <3>5. Range(Append(requests, x)) = Range(requests) \cup {x} BY <1>2, AppendRange
    <3>2. Range(requests') = Range(requests) \cup {x} BY <3>4, <3>5
    <3>3. x.op = "unsubscribe" /\ x.sub = t BY <3>1 DEF Request
    <3> QED BY <2>2, <3>2, <3>3
  <2> QED BY <2>1, <2>2 DEF ReadEffect
<1>5. /\ Status(s)' = "none" => Fresh(s)
      /\ Awake(s)' => Hatched(s)
  <2>1. CASE s = t BY <2>1 DEF ReadEffect
  <2>2. CASE s # t BY <2>2 DEF ReadEffect, Status, Awake, Fresh, Hatched
  <2> QED BY <2>1, <2>2
<1>6. Fresh(s)' => Fresh(s)
  <2> SUFFICES ASSUME Fresh(s)' PROVE Fresh(s) OBVIOUS
  <2>1. CASE \E r \in Range(requests)' : r.op = "subscribe" /\ r.sub = s
    BY <2>1, <1>4 DEF Fresh
  <2>2. CASE \E f \in Range(frames)' : f.kind = "subscribe" /\ f.sub = s /\ f.result # "ok"
    BY <2>2, <1>1 DEF Fresh
  <2>3. CASE registering' = [sub |-> s, stage |-> "wait"] BY <2>3, <1>1 DEF Fresh
  <2> QED BY <2>1, <2>2, <2>3, <1>5 DEF Fresh
<1>7. Hatched(s)' => Hatched(s)
  <2> SUFFICES ASSUME Hatched(s)' PROVE Hatched(s) OBVIOUS
  <2>1. CASE \E r \in Range(requests)' : r.op = "unsubscribe" /\ r.sub = s
    BY <2>1, <1>4 DEF Hatched
  <2>2. CASE \E f \in Range(frames)' : /\ f.kind \in Replies /\ f.sub = s
                                       /\ f.kind = "subscribe" => f.result = "ok"
    BY <2>2, <1>1 DEF Hatched
  <2>3. CASE Awake(s)' BY <2>3, <1>5
  <2>4. CASE record'[s] # 0 \/ registering' = [sub |-> s, stage |-> "added"]
             \/ (cancelling' # NoRequest /\ cancelling'.sub = s)
    BY <2>4, <1>1 DEF Hatched
  <2> QED BY <2>1, <2>2, <2>3, <2>4 DEF Hatched
<1> QED BY <1>6, <1>7

\* Enough to know what the connection then says of the subscription.
LEMMA ReadJoins ==
  ASSUME TypeOK, NEW t \in Subs, ReadEffect(t), \A s \in Subs : Joined(s),
         \A p : Joins(t, p) => Sees(t, p[1])'
  PROVE  \A s \in Subs : Joined(s)'
<1> SUFFICES ASSUME NEW s \in Subs PROVE Joined(s)' OBVIOUS
<1>1. PICK p : Joins(s, p) BY DEF Joined
<1>2. Taken /\ frames # << >> BY DEF ReadEffect
<1>3. (Fresh(s)' => Fresh(s)) /\ (Hatched(s)' => Hatched(s)) BY ReadAges
<1>4. Status(s) = "closing" => Status(s)' \in {"closing", "closed", "none"}
  <2>1. CASE s = t BY <2>1 DEF ReadEffect
  <2>2. CASE s # t BY <2>2 DEF ReadEffect, Status
  <2> QED BY <2>1, <2>2
<1>5. Sees(s, p[1])'
  <2>1. CASE s = t BY <1>1, <2>1
  <2>2. CASE s # t
    <3>1. Sees(s, p[1]) BY <1>1, <1>2, <2>2, TheLife DEF IsEvent, ReadEffect
    <3>2. sub'[s] = sub[s] /\ (session = "failing" => session' = "failing")
      BY <2>2 DEF ReadEffect
    <3> QED BY <3>1, <3>2 DEF Sees
  <2> QED BY <2>1, <2>2
<1> QED BY <1>1, <1>2, <1>3, <1>4, <1>5, JoinRead

\* The states of a life are told apart.
LEMMA Apart ==
  ASSUME NEW g, NEW h, NEW k, NEW n
  PROVE  /\ Open(g) = Open(h) <=> g = h
         /\ Switching(g) = Switching(h) <=> g = h
         /\ Failed(g) = Failed(h) <=> g = h
         /\ Recovering(g, k) = Recovering(h, n) <=> g = h /\ k = n
         /\ Open(g) # Unborn /\ Open(g) # Switching(h) /\ Open(g) # Recovering(h, k)
         /\ Open(g) # Failed(h) /\ Open(g) # Over
         /\ Switching(g) # Unborn /\ Switching(g) # Recovering(h, k)
         /\ Switching(g) # Failed(h) /\ Switching(g) # Over
         /\ Recovering(g, k) # Unborn /\ Recovering(g, k) # Failed(h)
         /\ Recovering(g, k) # Over
         /\ Failed(g) # Unborn /\ Failed(g) # Over /\ Unborn # Over
         /\ Open(g).generation = g /\ Switching(g).generation = g
         /\ Failed(g).generation = g /\ Recovering(g, k).generation = g
         /\ Recovering(g, k).attempt = k
         /\ Open(g).phase = "open" /\ Recovering(g, k).phase = "recovering"
         /\ Failed(g).phase = "failed"
  BY DEF Open, Switching, Recovering, Failed, Unborn, Over, State

\* Where a subscription is, read off what the connection says of it.
LEMMA SeesBy ==
  ASSUME NEW s, NEW st, Sees(s, st), sub[s] \in Rows
  PROVE  /\ st = Over => Status(s) = "closed"
         /\ \A g : st = Open(g) => /\ Status(s) \in {"establishing", "active", "closing"}
                                   /\ sub[s].generation = g /\ sub[s].retiring = 0
                                   /\ ~sub[s].terminal /\ g # 0
         /\ \A g : st = Switching(g) =>
              /\ Status(s) \in {"recovering", "closing"} /\ sub[s].generation = g
              /\ sub[s].retiring # 0 /\ sub[s].retiring + 1 = g /\ ~sub[s].terminal
              /\ Status(s) = "recovering" => sub[s].attempt = 1
         /\ \A g, k : st = Recovering(g, k) =>
              /\ Status(s) \in {"recovering", "closing"} /\ sub[s].generation = g
              /\ sub[s].retiring = 0 /\ ~sub[s].terminal /\ g # 0
              /\ Status(s) = "recovering" => sub[s].attempt = k
         /\ \A g : st = Failed(g) => /\ Status(s) = "closing" /\ sub[s].generation = g
                                     /\ sub[s].retiring = 0 /\ sub[s].terminal /\ g # 0
         /\ st = Unborn => Status(s) \in {"none", "establishing", "closing"}
<1>1. Status(s) \in Statuses /\ Status(s) = sub[s].status BY DEF Status, Rows
<1>2. CASE Status(s) = "none" BY <1>1, <1>2, Apart DEF Sees
<1>3. CASE Status(s) = "establishing" BY <1>1, <1>3, Apart DEF Sees
<1>4. CASE Status(s) = "active" BY <1>1, <1>4, Apart DEF Sees
<1>5. CASE Status(s) = "recovering" BY <1>1, <1>5, Apart DEF Sees
<1>6. CASE Status(s) = "closing" BY <1>1, <1>6, Apart DEF Sees
<1>7. CASE Status(s) = "closed" BY <1>1, <1>7, Apart DEF Sees
<1> QED BY <1>1, <1>2, <1>3, <1>4, <1>5, <1>6, <1>7 DEF Statuses

\* A report is read where its stream is open.
LEMMA ReadReportJoins ==
  ASSUME TypeOK, \A s \in Subs : Joined(s), ReadReport
  PROVE  \A s \in Subs : Joined(s)'
<1>0. Taken /\ frames # << >> /\ The.kind = "report"
  BY DEF ReadReport, Received, The
<1>1. PICK t \in Subs : t = The.sub BY <1>0, TheFrame
<1>2. sub \in [Subs -> Rows] /\ sub[t] \in Rows BY DEF TypeOK, ConnectionOK
<1>3. CASE UNCHANGED <<sub, watched, terminals>> /\ Rest
  <2>1. ReadEffect(t)
    BY <1>0, <1>1, <1>3 DEF ReadEffect, Rest, Status, Awake, Fresh, Hatched
  <2>2. ASSUME NEW p, Joins(t, p) PROVE Sees(t, p[1])'
    <3>1. p[1] = p[0] /\ Sees(t, p[0])
      BY <2>2, <1>0, <1>1, TheLife DEF IsEvent, Events, Leads
    <3> QED BY <3>1, <1>3 DEF Sees, Rest
  <2> QED BY <2>1, <2>2, ReadJoins
<1>4. CASE Status(t) = "active" /\ CancelSubscription(t, 1)
  <2>1. sub' = [sub EXCEPT ![t].status = "closing"] BY <1>4 DEF CancelSubscription
  <2>2. /\ sub'[t].status = "closing" /\ sub'[t].generation = sub[t].generation
        /\ sub'[t].retiring = sub[t].retiring /\ sub'[t].terminal = sub[t].terminal
        /\ \A s \in Subs \ {t} : sub'[s] = sub[s]
    BY <2>1, <1>2 DEF Rows
  <2>3. ReadEffect(t)
    BY <2>2, <1>0, <1>1, <1>4 DEF ReadEffect, CancelSubscription, Status, Awake
  <2>4. ASSUME NEW p, Joins(t, p) PROVE Sees(t, p[1])'
    <3>1. p[1] = p[0] /\ Sees(t, p[0])
      BY <2>4, <1>0, <1>1, TheLife DEF IsEvent, Events, Leads
    <3> QED BY <3>1, <2>2, <1>4 DEF Sees, Status
  <2> QED BY <2>3, <2>4, ReadJoins
<1> QED BY <1>1, <1>3, <1>4 DEF ReadReport

\* An attempt is read where its stream is open or recovering.
LEMMA ReadResubscribingJoins ==
  ASSUME TypeOK, \A s \in Subs : Joined(s), ReadResubscribing
  PROVE  \A s \in Subs : Joined(s)'
<1>0. Taken /\ frames # << >> /\ The.kind = "resubscribing" /\ Rest
  BY DEF ReadResubscribing, Received, The
<1>1. PICK t \in Subs : t = The.sub BY <1>0, TheFrame
<1>2. sub \in [Subs -> Rows] /\ sub[t] \in Rows BY DEF TypeOK, ConnectionOK
<1>3. CASE /\ FirstAttempt(The)
           /\ sub' = [sub EXCEPT ![t] =
                [status |-> "recovering", generation |-> The.generation,
                 attempt |-> 1, retiring |-> @.generation, terminal |-> @.terminal]]
  <2>1. /\ sub'[t].status = "recovering" /\ sub'[t].generation = The.generation
        /\ sub'[t].attempt = 1
        /\ sub'[t].retiring = sub[t].generation /\ sub'[t].terminal = sub[t].terminal
        /\ \A s \in Subs \ {t} : sub'[s] = sub[s]
    BY <1>2, <1>3
  <2>2. Status(t) = "active" BY <1>1, <1>3 DEF FirstAttempt
  <2>3. ReadEffect(t)
    BY <2>1, <2>2, <1>0, <1>1 DEF ReadEffect, Rest, Status, Awake, Hatched
  <2>4. ASSUME NEW p, Joins(t, p) PROVE Sees(t, p[1])'
    <3>1. Leads(resubscribe[t], The, p[0], p[1]) /\ Sees(t, p[0])
      BY <2>4, <1>0, <1>1, TheLife DEF IsEvent, Events
    <3>2. p[0] = Open(sub[t].generation) /\ sub[t].generation # 0 /\ ~sub[t].terminal
      BY <3>1, <2>2 DEF Sees, Status
    <3>3. p[1] = Switching(The.generation) /\ The.generation = sub[t].generation + 1
      BY <3>1, <3>2, <1>0, Apart DEF Leads
    <3> QED BY <3>2, <3>3, <2>1, <1>2 DEF Sees, Rows
  <2> QED BY <2>3, <2>4, ReadJoins
<1>4. CASE NextAttempt(The) /\ sub' = [sub EXCEPT ![t].attempt = The.attempt]
  <2>1. /\ sub'[t].status = sub[t].status /\ sub'[t].generation = sub[t].generation
        /\ sub'[t].attempt = The.attempt
        /\ sub'[t].retiring = sub[t].retiring /\ sub'[t].terminal = sub[t].terminal
        /\ \A s \in Subs \ {t} : sub'[s] = sub[s]
    BY <1>2, <1>4 DEF Rows
  <2>2. Status(t) = "recovering" BY <1>1, <1>4 DEF NextAttempt
  <2>3. ReadEffect(t)
    BY <2>1, <2>2, <1>0, <1>1 DEF ReadEffect, Rest, Status, Awake, Hatched
  <2>4. ASSUME NEW p, Joins(t, p) PROVE Sees(t, p[1])'
    <3>1. Leads(resubscribe[t], The, p[0], p[1]) /\ Sees(t, p[0])
      BY <2>4, <1>0, <1>1, TheLife DEF IsEvent, Events
    <3>2. /\ \/ p[0] = Switching(sub[t].generation) /\ sub[t].retiring # 0
             \/ p[0] = Recovering(sub[t].generation, sub[t].attempt) /\ sub[t].retiring = 0
          /\ sub[t].generation # 0 /\ ~sub[t].terminal
      BY <3>1, <2>2 DEF Sees, Status
    <3>3. /\ p[1] = Recovering(The.generation, The.attempt) /\ sub[t].retiring = 0
          /\ The.generation = sub[t].generation
      BY <3>1, <3>2, <1>0, Apart DEF Leads
    <3> QED BY <3>2, <3>3, <2>1, <2>2 DEF Sees, Status
  <2> QED BY <2>3, <2>4, ReadJoins
<1> QED BY <1>1, <1>3, <1>4 DEF ReadResubscribing

\* The end of a recovery is read where its stream recovers.
LEMMA ReadResubscribedJoins ==
  ASSUME TypeOK, \A s \in Subs : Joined(s), ReadResubscribed
  PROVE  \A s \in Subs : Joined(s)'
<1>0. Taken /\ frames # << >> /\ The.kind = "resubscribed"
  BY DEF ReadResubscribed, Received, The
<1>1. PICK t \in Subs : t = The.sub BY <1>0, TheFrame
<1>2. sub \in [Subs -> Rows] /\ sub[t] \in Rows BY DEF TypeOK, ConnectionOK
<1>3. Status(t) = "recovering" /\ sub[t].retiring = 0
  BY <1>1 DEF ReadResubscribed, Recovered
<1>4. \/ /\ sub' = [sub EXCEPT ![t].status = "active"] /\ Rest
      \/ CancelSubscription(t, 1) /\ sub' = [sub EXCEPT ![t].status = "closing"]
  BY <1>1 DEF ReadResubscribed, CancelSubscription
<1>5. /\ sub'[t].status \in {"active", "closing"} /\ sub'[t].generation = sub[t].generation
      /\ sub'[t].retiring = sub[t].retiring /\ sub'[t].terminal = sub[t].terminal
      /\ \A s \in Subs \ {t} : sub'[s] = sub[s]
  BY <1>2, <1>4 DEF Rows
<1>6. ReadEffect(t)
  BY <1>0, <1>1, <1>3, <1>4, <1>5
  DEF ReadEffect, CancelSubscription, Rest, Status, Awake, Hatched
<1>7. ASSUME NEW p, Joins(t, p) PROVE Sees(t, p[1])'
  <2>1. Leads(resubscribe[t], The, p[0], p[1]) /\ Sees(t, p[0])
    BY <1>7, <1>0, <1>1, TheLife DEF IsEvent, Events
  <2>2. /\ p[0] = Recovering(sub[t].generation, sub[t].attempt)
        /\ sub[t].generation # 0 /\ ~sub[t].terminal
    BY <2>1, <1>3 DEF Sees, Status
  <2>3. p[1] = Open(sub[t].generation) BY <2>1, <2>2, <1>0, Apart DEF Leads
  <2> QED BY <2>2, <2>3, <1>3, <1>5 DEF Sees
<1> QED BY <1>6, <1>7, ReadJoins

\* A barrier ends the old generation, or the stream.
LEMMA ReadBarrierJoins ==
  ASSUME TypeOK, \A s \in Subs : Joined(s), ReadBarrier
  PROVE  \A s \in Subs : Joined(s)'
<1>0. /\ Taken /\ frames # << >> /\ The.kind = "retired"
      /\ requests' = requests /\ session' \in {session, "failing"}
  BY DEF ReadBarrier, Received, The, Closed, CompleteCancellation
<1>1. PICK t \in Subs : t = The.sub BY <1>0, TheFrame
<1>2. sub \in [Subs -> Rows] /\ sub[t] \in Rows BY DEF TypeOK, ConnectionOK
<1>3. CASE RetiresOld(The) /\ sub' = [sub EXCEPT ![t].retiring = 0]
  <2>1. /\ sub'[t].status = sub[t].status /\ sub'[t].generation = sub[t].generation
        /\ sub'[t].attempt = sub[t].attempt
        /\ sub'[t].retiring = 0 /\ sub'[t].terminal = sub[t].terminal
        /\ \A s \in Subs \ {t} : sub'[s] = sub[s]
    BY <1>2, <1>3 DEF Rows
  <2>2. /\ Status(t) \in {"recovering", "closing"} /\ sub[t].retiring = The.generation
        /\ The.generation # 0
    BY <1>1, <1>3 DEF RetiresOld, Named
  <2>3. ReadEffect(t)
    BY <2>1, <2>2, <1>0, <1>1 DEF ReadEffect, Status, Awake, Hatched
  <2>4. ASSUME NEW p, Joins(t, p) PROVE Sees(t, p[1])'
    <3>1. Leads(resubscribe[t], The, p[0], p[1]) /\ Sees(t, p[0])
      BY <2>4, <1>0, <1>1, TheLife DEF IsEvent, Events
    <3>2. /\ p[0] = Switching(sub[t].generation) /\ sub[t].retiring + 1 = sub[t].generation
          /\ Status(t) = "recovering" => sub[t].attempt = 1
          /\ sub[t].generation # 0 /\ ~sub[t].terminal
      BY <3>1, <2>2, <1>2 DEF Sees, Status, Rows
    <3>3. p[1] = Recovering(sub[t].generation, 1)
      BY <3>1, <3>2, <2>2, <1>0, Apart DEF Leads
    <3>4. p[1].attempt = 1 BY <3>3, Apart
    <3> QED BY <3>2, <3>3, <3>4, <2>1, <2>2 DEF Sees, Status
  <2> QED BY <2>3, <2>4, ReadJoins
<1>4. CASE RetiresStream(The) /\ sub' = [sub EXCEPT ![t].status = "closed"]
  <2>1. /\ sub'[t].status = "closed" /\ sub'[t].generation = sub[t].generation
        /\ \A s \in Subs \ {t} : sub'[s] = sub[s]
    BY <1>2, <1>4 DEF Rows
  <2>2. Status(t) = "closing" /\ sub[t].retiring = 0 BY <1>1, <1>4 DEF RetiresStream
  <2>3. ReadEffect(t)
    BY <2>1, <2>2, <1>0, <1>1 DEF ReadEffect, Status, Awake
  <2>4. ASSUME NEW p, Joins(t, p) PROVE Sees(t, p[1])'
    <3>1. Leads(resubscribe[t], The, p[0], p[1]) /\ Sees(t, p[0])
      BY <2>4, <1>0, <1>1, TheLife DEF IsEvent, Events
    <3>2. /\ \A g : p[0] # Switching(g)
          /\ sub[t].generation # 0
      BY <3>1, <2>2, <1>2, Apart DEF Sees, Status
    <3>3. p[1] = Over BY <3>1, <3>2, <1>0 DEF Leads
    <3> QED BY <3>2, <3>3, <2>1 DEF Sees
  <2> QED BY <2>3, <2>4, ReadJoins
<1> QED BY <1>1, <1>3, <1>4 DEF ReadBarrier, Closed

\* The loss of a stream is read before its last barrier.
LEMMA ReadErrorJoins ==
  ASSUME TypeOK, \A s \in Subs : Joined(s), ReadError
  PROVE  \A s \in Subs : Joined(s)'
<1>0. Taken /\ frames # << >> /\ The.kind = "error" /\ Rest
  BY DEF ReadError, Received, The
<1>1. PICK t \in Subs : t = The.sub BY <1>0, TheFrame
<1>2. sub \in [Subs -> Rows] /\ sub[t] \in Rows BY DEF TypeOK, ConnectionOK
<1>3. sub' = [sub EXCEPT ![t].status = "closing", ![t].terminal = TRUE]
  BY <1>1 DEF ReadError
<1>4. /\ sub'[t].status = "closing" /\ sub'[t].generation = sub[t].generation
      /\ sub'[t].retiring = sub[t].retiring /\ sub'[t].terminal
      /\ \A s \in Subs \ {t} : sub'[s] = sub[s]
  BY <1>2, <1>3 DEF Rows
<1>5. ReadEffect(t)
  BY <1>0, <1>1, <1>4 DEF ReadEffect, Rest, Status, Awake
<1>6. ASSUME NEW p, Joins(t, p) PROVE Sees(t, p[1])'
  <2>1. Leads(resubscribe[t], The, p[0], p[1]) /\ Sees(t, p[0])
    BY <1>6, <1>0, <1>1, TheLife DEF IsEvent, Events
  <2>2. /\ p[0] = Open(The.generation) \/ p[0] = Recovering(The.generation, p[0].attempt)
        /\ p[1] = Failed(The.generation)
    BY <2>1, <1>0 DEF Leads
  <2>3. sub[t].generation = The.generation /\ sub[t].retiring = 0 /\ The.generation # 0
    BY <2>1, <2>2, <1>2, SeesBy
  <2> QED BY <2>2, <2>3, <1>4 DEF Sees
<1> QED BY <1>5, <1>6, ReadJoins

\* An answer that leaves the subscriptions alone.
LEMMA ReadAnswerJoins ==
  ASSUME TypeOK, \A s \in Subs : Joined(s), Taken, frames # << >>,
         The.kind \in Replies, UNCHANGED <<sub, requests>>, session' \in {session, "failing"}
  PROVE  \A s \in Subs : Joined(s)'
<1>1. PICK t \in Subs : t = The.sub BY TheFrame
<1>2. ReadEffect(t) BY <1>1 DEF ReadEffect, Status, Awake, Fresh, Hatched
<1>3. ASSUME NEW p, Joins(t, p) PROVE Sees(t, p[1])'
  <2>1. p[1] = p[0] /\ Sees(t, p[0]) BY <1>3, <1>1, TheLife DEF IsEvent, Events, Replies
  <2> QED BY <2>1 DEF Sees
<1> QED BY <1>2, <1>3, ReadJoins

\* The reply of a subscribe call is read once the stream is open.
LEMMA ReadSubscribedJoins ==
  ASSUME TypeOK, \A s \in Subs : Joined(s), ReadSubscribed, Serving'
  PROVE  \A s \in Subs : Joined(s)'
<1>0. Taken /\ frames # << >> /\ The.kind = "subscribe" /\ The.result = "ok"
  BY DEF ReadSubscribed, Received, The
<1>1. PICK t \in Subs : t = The.sub BY <1>0, TheFrame
<1>2. sub \in [Subs -> Rows] /\ sub[t] \in Rows BY DEF TypeOK, ConnectionOK
<1>3. /\ Status(t) = "establishing" /\ sub' = [sub EXCEPT ![t].status = "active"]
      /\ UNCHANGED <<session, requests>>
  BY <1>1 DEF ReadSubscribed, Stop, Serving
<1>4. /\ sub'[t].status = "active" /\ sub'[t].generation = sub[t].generation
      /\ sub'[t].retiring = sub[t].retiring /\ sub'[t].terminal = sub[t].terminal
      /\ \A s \in Subs \ {t} : sub'[s] = sub[s]
  BY <1>2, <1>3 DEF Rows
<1>5. Hatched(t)
  <2>1. The \in Range(frames) BY <1>0, TheFrame
  <2> QED BY <2>1, <1>0, <1>1 DEF Hatched, Replies
<1>6. ReadEffect(t) BY <1>0, <1>1, <1>3, <1>4, <1>5 DEF ReadEffect, Status, Awake
<1>7. ASSUME NEW p, Joins(t, p) PROVE Sees(t, p[1])'
  <2>1. p[1] = p[0] /\ Sees(t, p[0])
    BY <1>7, <1>0, <1>1, TheLife DEF IsEvent, Events
  <2>2. p[0] # Unborn BY <1>5, <1>7, JoinEnds
  <2>3. p[0] = Open(1) /\ sub[t].generation = 1 /\ sub[t].retiring = 0 /\ ~sub[t].terminal
    BY <2>1, <2>2, <1>3 DEF Sees, Status
  <2> QED BY <2>1, <2>3, <1>4 DEF Sees
<1> QED BY <1>6, <1>7, ReadJoins

\* A refused subscription has no stream.
LEMMA ReadNotSubscribedJoins ==
  ASSUME TypeOK, \A s \in Subs : Joined(s), ReadNotSubscribed
  PROVE  \A s \in Subs : Joined(s)'
<1>0. Taken /\ frames # << >> /\ The.kind = "subscribe" /\ The.result # "ok"
  BY DEF ReadNotSubscribed, Received, The
<1>1. PICK t \in Subs : t = The.sub BY <1>0, TheFrame
<1>2. sub \in [Subs -> Rows] /\ sub[t] \in Rows BY DEF TypeOK, ConnectionOK
<1>4. /\ sub'[t].status = "none" /\ sub'[t].retiring = 0 /\ ~sub'[t].terminal
      /\ \A s \in Subs \ {t} : sub'[s] = sub[s]
      /\ UNCHANGED <<session, requests>>
  BY <1>1, <1>2 DEF ReadNotSubscribed
<1>5. Fresh(t)
  <2>1. The \in Range(frames) BY <1>0, TheFrame
  <2> QED BY <2>1, <1>0, <1>1 DEF Fresh
<1>6. ReadEffect(t) BY <1>0, <1>1, <1>4, <1>5 DEF ReadEffect, Status, Awake
<1>7. ASSUME NEW p, Joins(t, p) PROVE Sees(t, p[1])'
  <2>1. p[1] = p[0] BY <1>7, <1>0, <1>1, TheLife DEF IsEvent, Events
  <2>2. p[0] = Unborn BY <1>5, <1>7, JoinEnds
  <2> QED BY <2>1, <2>2, <1>4 DEF Sees
<1> QED BY <1>6, <1>7, ReadJoins

\* The two ends agree on every stream when a frame is read.
LEMMA ReadsJoin ==
  ASSUME TypeOK, \A s \in Subs : Joined(s), Reads, Serving'
  PROVE  \A s \in Subs : Joined(s)'
<1>1. CASE ReadCancelled \/ ReadUnsubscribed
  <2>1. /\ Taken /\ frames # << >> /\ The.kind \in Replies
        /\ UNCHANGED <<sub, requests>> /\ session' \in {session, "failing"}
    BY <1>1 DEF ReadCancelled, CompleteCancellation, ReadUnsubscribed, Received, The,
       Replies, Stop, Serving
  <2> QED BY <2>1, ReadAnswerJoins
<1>2. ~ResubscribingOverflows /\ ~RefuseFrame /\ ~RefuseCancelled
  BY DEF ResubscribingOverflows, RefuseFrame, RefuseCancelled, Stop, Serving
<1> QED BY <1>1, <1>2, ReadReportJoins, ReadResubscribingJoins, ReadResubscribedJoins,
           ReadBarrierJoins, ReadErrorJoins, ReadSubscribedJoins, ReadNotSubscribedJoins
        DEF Reads

-----------------------------------------------------------------------------
(* The connection refuses a frame.                                         *)

\* A frame that is refused crosses a cancellation or precedes the reply.
LEMMA RefusedAgrees ==
  ASSUME TypeOK, \A s \in Subs : Joined(s), Serving, RefuseFrame
  PROVE  ProtocolAgrees'
<1>0. Taken /\ frames # << >> /\ ~Placed(The) /\ cause' = Crossing(The)
  BY DEF RefuseFrame, Stop
<1>1. PICK t \in Subs : t = The.sub BY <1>0, TheFrame
<1>2. sub[t] \in Rows /\ The \in Frames /\ session \in {"up", "failing"}
  BY <1>0, TheFrame DEF TypeOK, ConnectionOK, Serving
<1>3. PICK p : Joins(t, p) BY DEF Joined
<1>4. /\ Sees(t, p[0]) /\ Spoken(t, The, p[0], p[1]) /\ p[0] \in States
      /\ The.kind \in Events => Leads(resubscribe[t], The, p[0], p[1])
  BY <1>0, <1>1, <1>3, TheLife DEF IsEvent
<1>5. CASE The.kind = "report"
  <2>1. p[0] = Open(The.generation) BY <1>4, <1>5 DEF Leads, Events
  <2>2. Placed(The) BY <2>1, <1>1, <1>2, <1>4, <1>5, SeesBy DEF Placed, Named
  <2> QED BY <2>2, <1>0
<1>6. CASE The.kind = "error"
  <2>1. p[0] = Open(The.generation) \/ p[0] = Recovering(The.generation, p[0].attempt)
    BY <1>4, <1>6 DEF Leads, Events
  <2>2. /\ Status(t) \notin {"none", "closed"} /\ The.generation = sub[t].generation
        /\ The.generation # 0 /\ ~sub[t].terminal
    BY <2>1, <1>2, <1>4, SeesBy
  <2>3. Placed(The) BY <2>2, <1>1, <1>6 DEF Placed, Named
  <2> QED BY <2>3, <1>0
<1>7. CASE The.kind = "retired"
  <2>1. CASE p[0] = Switching(The.generation + 1)
    <3>1. /\ Status(t) \in {"recovering", "closing"} /\ sub[t].retiring # 0
          /\ sub[t].retiring + 1 = The.generation + 1
      BY <2>1, <1>2, <1>4, SeesBy
    <3>2. sub[t].retiring = The.generation BY <3>1, <1>2 DEF Rows, Frames
    <3>3. RetiresOld(The) BY <3>1, <3>2, <1>1 DEF RetiresOld, Named
    <3>4. Placed(The) BY <3>3, <1>7 DEF Placed
    <3> QED BY <3>4, <1>0
  <2>2. CASE /\ p[0] \in {Open(The.generation), Failed(The.generation),
                          Recovering(The.generation, p[0].attempt)}
             /\ p[1] = Over
    <3>1. Status(t) = "closing"
      <4>1. CASE p[0] = Failed(The.generation) BY <4>1, <1>2, <1>4, SeesBy
      <4>2. CASE p[0] # Failed(The.generation)
        <5>1. p[0].phase # "failed" BY <2>2, <4>2, Apart
        <5> QED BY <5>1, <2>2, <1>1, <1>4, <1>7 DEF Spoken
      <4> QED BY <4>1, <4>2
    <3>2. /\ sub[t].generation = The.generation /\ sub[t].retiring = 0
          /\ The.generation # 0
      BY <2>2, <1>2, <1>4, SeesBy
    <3>3. RetiresStream(The) BY <3>1, <3>2, <1>1 DEF RetiresStream, Named
    <3>4. Placed(The) BY <3>3, <1>7 DEF Placed
    <3> QED BY <3>4, <1>0
  <2>3. Leads(resubscribe[t], The, p[0], p[1]) BY <1>4, <1>7 DEF Events
  <2> QED BY <2>1, <2>2, <2>3, <1>7 DEF Leads
<1>8. CASE The.kind = "resubscribing"
  <2>1. CASE session = "failing" \/ Status(t) \in {"closing", "establishing"}
    <3>1. Crossing(The) \in {"input", "crossing", "early"}
      BY <2>1, <1>1, <1>2, <1>8 DEF Crossing
    <3> QED BY <3>1, <1>0 DEF ProtocolAgrees
  <2>2. CASE Status(t) \notin {"closing", "establishing"}
    <3>0. Leads(resubscribe[t], The, p[0], p[1]) BY <1>4, <1>8 DEF Events
    <3>1. CASE /\ resubscribe[t] /\ p[0] = Open(p[0].generation)
               /\ The.generation = p[0].generation + 1 /\ The.attempt = 1
      <4>1. /\ Status(t) = "active" /\ sub[t].generation = p[0].generation
            /\ sub[t].retiring = 0
        BY <3>1, <2>2, <1>2, <1>4, SeesBy
      <4>2. FirstAttempt(The) BY <4>1, <3>1, <1>1 DEF FirstAttempt
      <4>3. Placed(The) BY <4>2, <1>8 DEF Placed
      <4> QED BY <4>3, <1>0
    <3>2. CASE p[0] = Recovering(The.generation, p[0].attempt) /\ The.attempt = p[0].attempt + 1
      <4>1. /\ Status(t) = "recovering" /\ sub[t].generation = The.generation
            /\ sub[t].attempt = p[0].attempt
        BY <3>2, <2>2, <1>2, <1>4, SeesBy
      <4>2. NextAttempt(The) BY <4>1, <3>2, <1>1 DEF NextAttempt
      <4>3. Placed(The) BY <4>2, <1>8 DEF Placed
      <4> QED BY <4>3, <1>0
    <3> QED BY <3>0, <3>1, <3>2, <1>8 DEF Leads
  <2> QED BY <2>1, <2>2
<1>9. CASE The.kind = "resubscribed"
  <2>1. CASE session = "failing" \/ Status(t) \in {"closing", "establishing"}
    <3>1. Crossing(The) \in {"input", "crossing", "early"}
      BY <2>1, <1>1, <1>2, <1>9 DEF Crossing
    <3> QED BY <3>1, <1>0 DEF ProtocolAgrees
  <2>2. CASE Status(t) \notin {"closing", "establishing"}
    <3>1. p[0] = Recovering(The.generation, The.attempt) BY <1>4, <1>9 DEF Leads, Events
    <3>2. /\ Status(t) = "recovering" /\ sub[t].generation = The.generation
          /\ sub[t].attempt = The.attempt /\ sub[t].retiring = 0
      BY <3>1, <2>2, <1>2, <1>4, SeesBy
    <3>3. Placed(The) BY <3>2, <1>1, <1>9 DEF Placed, Recovered
    <3> QED BY <3>3, <1>0
  <2> QED BY <2>1, <2>2
<1>10. CASE The.kind \in Replies
  BY <1>10, <1>0 DEF Placed, Replies
<1> QED BY <1>2, <1>5, <1>6, <1>7, <1>8, <1>9, <1>10 DEF Frames, Events

\* The answer to an unsubscribe call finds its subscription closed.
LEMMA UnsubscribedAgrees ==
  ASSUME TypeOK, \A s \in Subs : Joined(s), ReadUnsubscribed, ProtocolAgrees
  PROVE  ProtocolAgrees'
<1>0. Taken /\ frames # << >> /\ The.kind = "unsubscribe"
  BY DEF ReadUnsubscribed, Received, The
<1>1. PICK t \in Subs : t = The.sub BY <1>0, TheFrame
<1>2. CASE The.result = "ok"
  <2>1. PICK p : Joins(t, p) BY DEF Joined
  <2>2. p[1] = p[0] /\ Sees(t, p[0]) /\ Spoken(t, The, p[0], p[1])
    BY <2>1, <1>0, <1>1, TheLife DEF IsEvent, Events
  <2>3. p[0] = Over BY <2>2, <1>0, <1>1, <1>2 DEF Spoken
  <2>4. sub[t] \in Rows BY DEF TypeOK, ConnectionOK
  <2>5. Status(t) = "closed" BY <2>2, <2>3, <2>4, SeesBy
  <2> QED BY <2>5, <1>1, <1>2 DEF ReadUnsubscribed, ProtocolAgrees
<1>3. CASE The.result # "ok" BY <1>3 DEF ReadUnsubscribed, ProtocolAgrees, Stop
<1> QED BY <1>2, <1>3

\* No step refuses a frame that had its place.
LEMMA AgreesNext ==
  ASSUME TypeOK, ProtocolAgrees, Serving => \A s \in Subs : Joined(s), [Next]_vars
  PROVE  ProtocolAgrees'
<1>1. CASE RefuseFrame
  <2>1. Serving BY <1>1 DEF RefuseFrame
  <2> QED BY <1>1, <2>1, RefusedAgrees
<1>2. CASE ReadUnsubscribed
  <2>1. Serving BY <1>2 DEF ReadUnsubscribed, Received
  <2> QED BY <1>2, <2>1, UnsubscribedAgrees
<1>3. CASE ReadReport \/ ReadResubscribing \/ ReadResubscribed \/ ReadBarrier \/ ReadError
           \/ ReadCancelled \/ ReadNotSubscribed
  BY <1>3 DEF ReadReport, ReadResubscribing, ReadResubscribed, ReadBarrier, ReadError,
     ReadCancelled, ReadNotSubscribed, CancelSubscription, Rest, ProtocolAgrees
<1>4. CASE ResubscribingOverflows \/ RefuseCancelled \/ ReadSubscribed \/ Timers
  BY <1>4 DEF ResubscribingOverflows, RefuseCancelled, ReadSubscribed, Timers, Expires,
     InputFailed, HostExits, Stop, ProtocolAgrees
<1>5. CASE HostSteps
  <2>1. HostStep
    BY <1>5 DEF HostSteps, HostSubscribe, HostRefuses, AddStream, HostReplies, HostActivates,
       HostUnsubscribe, CancelReturns
  <2> QED BY <2>1 DEF HostStep, connection, ProtocolAgrees
<1>6. CASE JoinReturns BY <1>6 DEF JoinReturns, ProtocolAgrees
<1>7. ASSUME NEW s \in Subs, CallSubscribe(s) \/ CallUnsubscribe(s) \/ Down(s)
      PROVE  ProtocolAgrees'
  BY <1>7 DEF CallSubscribe, CallUnsubscribe, Down, CancelSubscription, CancelEstablishing,
     ProtocolAgrees
<1>8. ASSUME NEW s \in Subs,
             RecordErased(s) \/ EmitReport(s) \/ EmitFailure(s) \/ EmitResubscribing(s)
               \/ EmitResubscribed(s)
      PROVE  ProtocolAgrees'
  <2>1. HostStep
    BY <1>8 DEF RecordErased, EmitReport, EmitFailure, EmitResubscribing, EmitResubscribed,
       Callback
  <2> QED BY <2>1 DEF HostStep, connection, ProtocolAgrees
<1>9. CASE UNCHANGED vars BY <1>9 DEF vars, connection, ProtocolAgrees
<1> QED BY <1>1, <1>2, <1>3, <1>4, <1>5, <1>6, <1>7, <1>8, <1>9 DEF Next, Reads

-----------------------------------------------------------------------------
(* The connection is called.                                               *)

\* A new subscription has no stream yet.
LEMMA CallSubscribeJoins ==
  ASSUME TypeOK, \A s \in Subs : Joined(s), NEW t \in Subs, CallSubscribe(t)
  PROVE  \A s \in Subs : Joined(s)'
<1> SUFFICES ASSUME NEW s \in Subs PROVE Joined(s)' OBVIOUS
<1>1. PICK p : Joins(s, p) BY DEF Joined
<1>2. sub \in [Subs -> Rows] /\ sub[t] \in Rows /\ requests \in Seq(Requests)
  BY DEF TypeOK, ConnectionOK, HostOK
<1>3. /\ sub'[t].status = "establishing" /\ sub'[t].generation = 1
      /\ sub'[t].retiring = sub[t].retiring /\ sub'[t].terminal = sub[t].terminal
      /\ \A x \in Subs \ {t} : sub'[x] = sub[x]
  <2>1. sub' = [sub EXCEPT ![t].status = "establishing", ![t].generation = 1]
    BY DEF CallSubscribe
  <2> QED BY <2>1, <1>2 DEF Rows
<1>4. /\ Status(t) = "none" /\ UNCHANGED <<session, frames, resubscribe, stream, record,
                                           registering, cancelling>>
  BY DEF CallSubscribe, native
<1>5. PICK x \in Requests : /\ x = Request("subscribe", t, 1, FALSE)
                            /\ requests' = Append(requests, x)
  BY MessageTypes DEF CallSubscribe, Replies
<1>6. Range(Append(requests, x)) = Range(requests) \cup {x} BY <1>2, AppendRange
<1>7. x.op = "subscribe" /\ x.sub = t BY <1>5 DEF Request
<1>8. Fresh(s)' => Fresh(s)
  <2>1. CASE s = t BY <2>1, <1>4 DEF Fresh
  <2>2. CASE s # t BY <2>2, <1>3, <1>4, <1>5, <1>6, <1>7 DEF Fresh, Status
  <2> QED BY <2>1, <2>2
<1>9. Hatched(s)' => Hatched(s)
  BY <1>3, <1>4, <1>5, <1>6, <1>7 DEF Hatched, Awake, Status
<1>10. Sees(s, p[0])'
  <2>1. Sees(s, p[0]) BY <1>1 DEF Joins
  <2>2. CASE s = t
    BY <2>1, <2>2, <1>3, <1>4 DEF Sees, Status
  <2>3. CASE s # t BY <2>1, <2>3, <1>3, <1>4 DEF Sees
  <2> QED BY <2>2, <2>3
<1>11. Status(s) = "closing" => Status(s)' = "closing" BY <1>3, <1>4 DEF Status
<1> QED BY <1>1, <1>4, <1>8, <1>9, <1>10, <1>11, JoinKeep

\* A step that begins to close an open subscription, or none.
LEMMA ClosingJoins ==
  ASSUME TypeOK, \A s \in Subs : Joined(s), NEW t \in Subs,
         UNCHANGED <<frames, resubscribe, native>>, session' \in {session, "failing"},
         \/ sub' = sub
         \/ Status(t) \in {"active", "recovering"} /\ sub' = [sub EXCEPT ![t].status = "closing"]
         \/ /\ Status(t) = "establishing" /\ sub' = [sub EXCEPT ![t].status = "closing"]
            /\ session' = "failing",
         \/ requests' = requests
         \/ \E b \in BOOLEAN :
              Awake(t) /\ requests' = Append(requests, Request("unsubscribe", t,
                                                               sub[t].generation, b))
  PROVE  \A s \in Subs : Joined(s)'
<1> SUFFICES ASSUME NEW s \in Subs PROVE Joined(s)' OBVIOUS
<1>1. PICK p : Joins(s, p) BY DEF Joined
<1>2. sub \in [Subs -> Rows] /\ sub[t] \in Rows /\ requests \in Seq(Requests)
  BY DEF TypeOK, ConnectionOK, HostOK
<1>3. \/ sub' = sub
      \/ /\ sub'[t].status = "closing" /\ sub'[t].generation = sub[t].generation
         /\ sub'[t].retiring = sub[t].retiring /\ sub'[t].terminal = sub[t].terminal
         /\ sub'[t].attempt = sub[t].attempt
         /\ \A x \in Subs \ {t} : sub'[x] = sub[x]
  <2>1. CASE sub' = [sub EXCEPT ![t].status = "closing"] BY <2>1, <1>2 DEF Rows
  <2> QED BY <2>1
<1>4. UNCHANGED <<stream, record, registering, cancelling, frames, resubscribe>>
  BY DEF native
<1>5. \A r \in Range(requests') :
        r \in Range(requests) \/ (Awake(t) /\ r.op = "unsubscribe" /\ r.sub = t)
  <2>1. CASE requests' = requests BY <2>1
  <2>2. ASSUME NEW b \in BOOLEAN,
               Awake(t), requests' = Append(requests, Request("unsubscribe", t,
                                                              sub[t].generation, b))
        PROVE  \A r \in Range(requests') :
                 r \in Range(requests) \/ (Awake(t) /\ r.op = "unsubscribe" /\ r.sub = t)
    <3>1. PICK x \in Requests : /\ x = Request("unsubscribe", t, sub[t].generation, b)
                                /\ requests' = Append(requests, x)
      BY <2>2, <1>2, MessageTypes DEF Replies, Rows
    <3>2. Range(Append(requests, x)) = Range(requests) \cup {x} BY <1>2, AppendRange
    <3>3. x.op = "unsubscribe" /\ x.sub = t BY <3>1 DEF Request
    <3> QED BY <2>2, <3>1, <3>2, <3>3
  <2> QED BY <2>1, <2>2
<1>6. Fresh(s)' => Fresh(s) BY <1>3, <1>4, <1>5 DEF Fresh, Status
<1>7. Hatched(s)' => Hatched(s) BY <1>3, <1>4, <1>5 DEF Hatched, Awake, Status
<1>8. Sees(s, p[0])'
  <2>1. Sees(s, p[0]) BY <1>1 DEF Joins
  <2>2. CASE sub'[s] = sub[s] BY <2>1, <2>2 DEF Sees
  <2>3. CASE s = t /\ sub' = [sub EXCEPT ![t].status = "closing"]
    <3>1. /\ sub'[t].status = "closing" /\ sub'[t].generation = sub[t].generation
          /\ sub'[t].retiring = sub[t].retiring /\ sub'[t].terminal = sub[t].terminal
      BY <2>3, <1>2 DEF Rows
    <3>2. CASE Status(t) = "active" BY <2>1, <2>3, <3>1, <3>2 DEF Sees, Status
    <3>3. CASE Status(t) = "recovering"
      <4>1. /\ p[0] = Switching(sub[t].generation) \/ p[0] = Recovering(sub[t].generation, sub[t].attempt)
            /\ sub[t].retiring # 0 => p[0] = Switching(sub[t].generation)
                                     /\ sub[t].retiring + 1 = sub[t].generation
            /\ sub[t].retiring = 0 => p[0] = Recovering(sub[t].generation, sub[t].attempt)
            /\ sub[t].generation # 0 /\ ~sub[t].terminal
        BY <2>1, <2>3, <3>3 DEF Sees, Status
      <4>2. sub[t].retiring = 0 => p[0] = Recovering(sub[t].generation, p[0].attempt)
        BY <4>1, Apart
      <4> QED BY <2>3, <3>1, <4>1, <4>2 DEF Sees
    <3>4. CASE Status(t) = "establishing" /\ session' = "failing"
      BY <2>1, <2>3, <3>1, <3>4 DEF Sees, Status
    <3>5. CASE sub' = sub BY <3>5, <2>2, <2>1 DEF Sees
    <3> QED BY <3>2, <3>3, <3>4, <3>5
  <2> QED BY <2>2, <2>3, <1>3
<1>9. Status(s) = "closing" => Status(s)' = "closing" BY <1>3 DEF Status
<1> QED BY <1>1, <1>4, <1>6, <1>7, <1>8, <1>9, JoinKeep

\* The two ends agree on every stream when a caller or a receiver acts.
LEMMA CallsJoin ==
  ASSUME TypeOK, \A s \in Subs : Joined(s), NEW t \in Subs,
         JoinReturns \/ CallSubscribe(t) \/ CallUnsubscribe(t) \/ Down(t)
  PROVE  \A s \in Subs : Joined(s)'
<1>1. CASE CallSubscribe(t) BY <1>1, CallSubscribeJoins
<1>2. CASE JoinReturns
  <2>1. /\ UNCHANGED <<frames, resubscribe, native>> /\ session' = session /\ sub' = sub
        /\ requests' = requests
    BY <1>2 DEF JoinReturns
  <2> QED BY <2>1, ClosingJoins
<1>3. CASE CallUnsubscribe(t)
  <2>1. UNCHANGED <<frames, resubscribe, native>> /\ session' = session
    BY <1>3 DEF CallUnsubscribe
  <2>2. CASE sub' = sub /\ requests' = requests BY <2>1, <2>2, ClosingJoins
  <2>3. CASE /\ Awake(t) /\ sub' = [sub EXCEPT ![t].status = "closing"]
             /\ requests' = Append(requests, Request("unsubscribe", t, sub[t].generation, FALSE))
    <3>1. Status(t) \in {"active", "recovering"} BY <2>3 DEF Awake
    <3> QED BY <2>1, <2>3, <3>1, ClosingJoins
  <2> QED BY <2>2, <2>3, <1>3 DEF CallUnsubscribe
<1>4. CASE Down(t)
  <2>1. UNCHANGED <<frames, resubscribe, native>> BY <1>4 DEF Down
  <2>2. ASSUME NEW told, Awake(t), CancelSubscription(t, told) PROVE \A s \in Subs : Joined(s)'
    <3>1. Status(t) \in {"active", "recovering"} BY <2>2 DEF Awake
    <3>2. sub' = [sub EXCEPT ![t].status = "closing"] /\ session' \in {session, "failing"}
      BY <2>2 DEF CancelSubscription
    <3>3. \/ requests' = requests
          \/ requests' = Append(requests, Request("unsubscribe", t, sub[t].generation, TRUE))
      BY <2>2 DEF CancelSubscription
    <3> QED BY <2>1, <2>2, <3>1, <3>2, <3>3, ClosingJoins
  <2>3. ASSUME NEW told, Status(t) = "establishing", CancelEstablishing(t, told)
        PROVE  \A s \in Subs : Joined(s)'
    <3>1. /\ sub' = [sub EXCEPT ![t].status = "closing"] /\ session' = "failing"
          /\ requests' = requests
      BY <2>3 DEF CancelEstablishing
    <3> QED BY <2>1, <2>3, <3>1, ClosingJoins
  <2> QED BY <2>2, <2>3, <1>4 DEF Down
<1> QED BY <1>1, <1>2, <1>3, <1>4

-----------------------------------------------------------------------------
(* The host works on a request.                                            *)

\* What is in the channel once the host has written.
LEMMA WritesRange ==
  ASSUME frames \in Seq(Frames), NEW f \in Frames, NEW g \in Frames
  PROVE  /\ Writes(<<f>>) => Range(frames') = Range(frames) \cup {f}
         /\ Writes(<<f, g>>) => Range(frames') = Range(frames) \cup {f, g}
<1>1. /\ Append(frames, f) \in Seq(Frames) /\ Append(frames, f) = frames \o <<f>>
      /\ frames \o <<f, g>> = Append(Append(frames, f), g)
  BY AppendFacts, TwoFacts
<1>2. Range(Append(frames, f)) = Range(frames) \cup {f} BY AppendRange
<1>3. Range(Append(Append(frames, f), g)) = Range(Append(frames, f)) \cup {g}
  <2>1. PICK w \in Seq(Frames) : w = Append(frames, f) BY <1>1
  <2>2. Range(Append(w, g)) = Range(w) \cup {g} BY AppendRange
  <2> QED BY <2>1, <2>2
<1> QED BY <1>1, <1>2, <1>3 DEF Writes

\* The request the host reads.
LEMMA TheRequest ==
  ASSUME TypeOK, NEW op, Reading(op)
  PROVE  /\ Head(requests) \in Requests /\ Head(requests) \in Range(requests)
         /\ Head(requests).op = op /\ Head(requests).sub \in Subs
         /\ Head(requests).generation \in Nat
         /\ Head(requests) = requests[1] /\ 1 \in DOMAIN requests
         /\ \A r \in Range(requests') : r \in Range(requests)
         /\ Len(requests) \in Nat /\ Len(requests) >= 1
         /\ DOMAIN requests = 1..Len(requests)
         /\ DOMAIN requests' = 1..(Len(requests) - 1)
         /\ \A i \in 1..(Len(requests) - 1) : requests'[i] = requests[i + 1]
<1>1. requests \in Seq(Requests) BY DEF TypeOK, HostOK
<1>2. /\ Head(requests) \in Requests /\ Head(requests) \in Range(requests)
      /\ Head(requests) = requests[1] /\ 1 \in DOMAIN requests
      /\ \A r \in Range(requests') : r \in Range(requests)
      /\ Len(requests) \in Nat /\ Len(requests) >= 1
      /\ DOMAIN requests = 1..Len(requests)
      /\ DOMAIN requests' = 1..(Len(requests) - 1)
      /\ \A i \in 1..(Len(requests) - 1) : requests'[i] = requests[i + 1]
  BY <1>1, TailFacts DEF Reading
<1> QED BY <1>2 DEF Reading, Requests

\* An answer repeats its request.
LEMMA ReplyFields ==
  ASSUME NEW r, NEW x
  PROVE  /\ Reply(r, x).kind = r.op /\ Reply(r, x).sub = r.sub
         /\ Reply(r, x).generation = r.generation /\ Reply(r, x).internal = r.internal
         /\ Reply(r, x).result = x
  BY DEF Reply

\* The host gives one answer and leaves the streams alone.
LEMMA AnswerJoins ==
  ASSUME TypeOK, \A s \in Subs : Joined(s), HostStep, UNCHANGED <<stream, record>>,
         NEW f \in Frames, f.kind \in Replies, Writes(<<f>>),
         \A r \in Range(requests') : r \in Range(requests),
         registering'.stage # "wait" \/ registering' = registering,
         registering'.stage # "added" \/ registering' = registering,
         cancelling' \in {cancelling, NoRequest},
         f.kind = "subscribe" /\ f.result # "ok" => Fresh(f.sub),
         f.kind = "subscribe" /\ f.result = "ok" => Hatched(f.sub),
         f.kind = "unsubscribe" => Hatched(f.sub),
         \A p : Joins(f.sub, p) => Spoken(f.sub, f, p[Len(frames)], p[Len(frames)])
  PROVE  \A s \in Subs : Joined(s)'
<1> SUFFICES ASSUME NEW s \in Subs PROVE Joined(s)' OBVIOUS
<1>1. PICK p : Joins(s, p) BY DEF Joined
<1>2. Range(frames') = Range(frames) \cup {f} BY WritesRange DEF TypeOK, HostOK
<1>3. Status(s)' = Status(s) /\ (Awake(s)' <=> Awake(s))
  BY DEF HostStep, connection, Status, Awake
<1>4. Fresh(s)' => Fresh(s) BY <1>2, <1>3 DEF Fresh
<1>5. Hatched(s)' => Hatched(s) BY <1>2, <1>3 DEF Hatched, Replies
<1>6. ~IsEvent(f, s) BY DEF IsEvent, Events, Replies
<1>7. Spoken(s, f, p[Len(frames)], p[Len(frames)])
  <2>1. CASE f.sub = s BY <2>1, <1>1
  <2>2. CASE f.sub # s BY <2>2 DEF Spoken
  <2> QED BY <2>1, <2>2
<1> QED BY <1>1, <1>4, <1>5, <1>6, <1>7, JoinPass

\* The host moves on and writes nothing.
LEMMA SilentJoins ==
  ASSUME TypeOK, \A s \in Subs : Joined(s), HostStep, UNCHANGED <<frames, stream>>,
         \A s \in Subs : (Fresh(s)' => Fresh(s)) /\ (Hatched(s)' => Hatched(s))
  PROVE  \A s \in Subs : Joined(s)'
<1> SUFFICES ASSUME NEW s \in Subs PROVE Joined(s)' OBVIOUS
<1>1. PICK p : Joins(s, p) BY DEF Joined
<1>2. Sees(s, p[0]) BY <1>1 DEF Joins
<1>3. Sees(s, p[0])' BY <1>2 DEF Sees, HostStep, connection
<1>4. Status(s)' = Status(s) BY DEF HostStep, connection, Status
<1> QED BY <1>1, <1>3, <1>4, JoinKeep DEF HostStep

\* The host takes a subscribe request, or is busy.
LEMMA HostSubscribeJoins ==
  ASSUME TypeOK, \A s \in Subs : Joined(s), HostSubscribe
  PROVE  \A s \in Subs : Joined(s)'
<1>1. PICK r \in Requests : r = Head(requests) BY TheRequest DEF HostSubscribe
<1>2. /\ r \in Range(requests) /\ r.op = "subscribe" /\ r.sub \in Subs
      /\ \A x \in Range(requests') : x \in Range(requests)
      /\ HostStep /\ UNCHANGED <<stream, record, cancelling>>
  BY <1>1, TheRequest DEF HostSubscribe
<1>3. Fresh(r.sub) BY <1>2 DEF Fresh
<1>4. CASE registering' = [sub |-> r.sub, stage |-> "wait"] /\ UNCHANGED frames
  <2>1. ASSUME NEW s \in Subs
        PROVE  (Fresh(s)' => Fresh(s)) /\ (Hatched(s)' => Hatched(s))
    <3>1. Status(s)' = Status(s) /\ (Awake(s)' <=> Awake(s))
      BY <1>2 DEF HostStep, connection, Status, Awake
    <3>2. registering' = [sub |-> s, stage |-> "wait"] => s = r.sub BY <1>4
    <3>3. registering' # [sub |-> s, stage |-> "added"] BY <1>4
    <3>4. Fresh(s)' => Fresh(s) BY <3>1, <3>2, <1>2, <1>3, <1>4 DEF Fresh
    <3>5. Hatched(s)' => Hatched(s) BY <3>1, <3>3, <1>2, <1>4 DEF Hatched
    <3> QED BY <3>4, <3>5
  <2> QED BY <2>1, <1>2, <1>4, SilentJoins
<1>5. CASE Writes(<<Reply(r, "busy")>>) /\ UNCHANGED registering
  <2>1. PICK f \in Frames : f = Reply(r, "busy") BY MessageTypes DEF Results
  <2>2. f.kind = "subscribe" /\ f.sub = r.sub /\ f.result = "busy"
    BY <2>1, <1>2, ReplyFields
  <2>3. \A p : Spoken(f.sub, f, p[Len(frames)], p[Len(frames)]) BY <2>2 DEF Spoken
  <2> QED BY <2>1, <2>2, <2>3, <1>2, <1>3, <1>5, AnswerJoins DEF Replies
<1> QED BY <1>1, <1>4, <1>5 DEF HostSubscribe

\* The host answers a subscribe request.
LEMMA RegisteringJoins ==
  ASSUME TypeOK, \A s \in Subs : Joined(s), HostRefuses \/ HostReplies
  PROVE  \A s \in Subs : Joined(s)'
<1>1. registering.stage \in {"wait", "added"} /\ registering.sub \in Subs
  BY DEF HostRefuses, HostReplies, TypeOK, HostOK, Idle
<1>2. PICK t \in Subs : t = registering.sub BY <1>1
<1>3. registering = [sub |-> t, stage |-> registering.stage]
  BY <1>1, <1>2 DEF TypeOK, HostOK, Idle
<1>4. PICK r \in Requests : r = Request("subscribe", t, 1, FALSE)
  BY MessageTypes DEF Replies
<1>5. r.op = "subscribe" /\ r.sub = t BY <1>4 DEF Request
<1>6. CASE HostRefuses
  <2>1. PICK f \in Frames : f = Reply(r, "failed") BY MessageTypes DEF Results
  <2>2. f.kind = "subscribe" /\ f.sub = t /\ f.result = "failed" BY <2>1, <1>5, ReplyFields
  <2>3. Fresh(t) BY <1>3, <1>6 DEF Fresh, HostRefuses
  <2>4. \A p : Spoken(f.sub, f, p[Len(frames)], p[Len(frames)]) BY <2>2 DEF Spoken
  <2>5. /\ Writes(<<f>>) /\ HostStep /\ UNCHANGED <<stream, record, requests, cancelling>>
        /\ registering'.stage = "idle"
    BY <2>1, <1>2, <1>4, <1>6 DEF HostRefuses, Idle
  <2> QED BY <2>2, <2>3, <2>4, <2>5, AnswerJoins DEF Replies
<1>7. CASE HostReplies
  <2>1. PICK f \in Frames : f = Reply(r, "ok") BY MessageTypes DEF Results
  <2>2. f.kind = "subscribe" /\ f.sub = t /\ f.result = "ok" BY <2>1, <1>5, ReplyFields
  <2>3. Hatched(t) BY <1>3, <1>7 DEF Hatched, HostReplies
  <2>4. \A p : Spoken(f.sub, f, p[Len(frames)], p[Len(frames)]) BY <2>2 DEF Spoken
  <2>5. /\ Writes(<<f>>) /\ HostStep /\ UNCHANGED <<stream, record, requests, cancelling>>
        /\ registering'.stage = "activate"
    BY <2>1, <1>2, <1>3, <1>4, <1>7 DEF HostReplies
  <2> QED BY <2>2, <2>3, <2>4, <2>5, AnswerJoins DEF Replies
<1> QED BY <1>6, <1>7

\* The host activates a stream, or goes down.
LEMMA HostActivatesJoins ==
  ASSUME TypeOK, \A s \in Subs : Joined(s), HostActivates
  PROVE  \A s \in Subs : Joined(s)'
<1>1. /\ HostStep /\ UNCHANGED <<frames, stream, record, requests, cancelling>>
      /\ registering' = Idle
  BY DEF HostActivates
<1>2. ASSUME NEW s \in Subs
      PROVE  (Fresh(s)' => Fresh(s)) /\ (Hatched(s)' => Hatched(s))
  <2>1. Status(s)' = Status(s) /\ (Awake(s)' <=> Awake(s))
    BY <1>1 DEF HostStep, connection, Status, Awake
  <2>2. Fresh(s)' => Fresh(s) BY <2>1, <1>1 DEF Fresh, Idle
  <2>3. Hatched(s)' => Hatched(s) BY <2>1, <1>1 DEF Hatched, Idle
  <2> QED BY <2>2, <2>3
<1> QED BY <1>1, <1>2, SilentJoins

\* The stream is added: its life begins everywhere at once.
LEMMA AddStreamJoins ==
  ASSUME TypeOK, \A s \in Subs : Joined(s), Calls, AddStream
  PROVE  \A s \in Subs : Joined(s)'
<1>1. PICK t \in Subs : t = registering.sub BY DEF AddStream, TypeOK, HostOK, Idle
<1>2. registering = [sub |-> t, stage |-> "wait"] BY <1>1 DEF AddStream, TypeOK, HostOK, Idle
<1>3. /\ HostStep /\ UNCHANGED <<frames, record, requests, cancelling>>
      /\ registering' = [sub |-> t, stage |-> "added"]
      /\ stream' = [stream EXCEPT ![t] =
           [live |-> TRUE, generation |-> 1, recovering |-> FALSE, attempt |-> 0]]
  BY <1>1, <1>2 DEF AddStream
<1>4. frames \in Seq(Frames) /\ stream \in [Subs -> Streams] /\ Len(frames) \in Nat
      /\ requests \in Seq(Requests) /\ sub[t] \in Rows
  BY DEF TypeOK, HostOK, ConnectionOK
<1>5. \A s \in Subs : Status(s)' = Status(s) /\ (Awake(s)' <=> Awake(s))
  BY <1>3 DEF HostStep, connection, Status, Awake
<1>6. ASSUME NEW s \in Subs, s # t PROVE Joined(s)'
  <2>1. PICK p : Joins(s, p) BY DEF Joined
  <2>2. Sees(s, p[0])' BY <2>1, <1>3 DEF Joins, Sees, HostStep, connection
  <2>3. stream'[s] = stream[s] BY <1>3, <1>4, <1>6
  <2>4. Fresh(s)' => Fresh(s) BY <1>3, <1>5 DEF Fresh
  <2>5. Hatched(s)' => Hatched(s) BY <1>3, <1>5, <1>6 DEF Hatched
  <2> QED BY <2>1, <2>2, <2>3, <2>4, <2>5, <1>3, <1>5, JoinKeep DEF HostStep
<1>7. Joined(t)'
  <2>1. PICK p : Joins(t, p) BY DEF Joined
  <2>2. PICK q : q = [i \in 0..Len(frames) |-> Open(1)] OBVIOUS
  <2>3. Fresh(t) BY <1>2 DEF Fresh
  <2>4. p[0] = Unborn /\ Sees(t, p[0]) /\ p[Len(frames)] = Unborn /\ ~Hatched(t)
    BY <2>1, <2>3, JoinEnds
  <2>5. Open(1) \in States BY DEF Open, State, States
  <2>6. q \in [0..Len(frames') -> States] BY <2>2, <2>5, <1>3
  <2>7. /\ \A i \in 0..Len(frames) : q[i] = Open(1)
        /\ q[0] = Open(1) /\ q[Len(frames)] = Open(1)
    BY <2>2, <1>4
  <2>8. \A i \in DOMAIN frames : ~IsEvent(frames[i], t)
    BY <2>1, <2>4, <1>4, Eventless DEF Joins
  <2>9. Follows(resubscribe[t], t, frames, q)'
    <3>1. \A i \in 1..Len(frames) : Step(resubscribe[t], t, frames[i], q[i - 1], q[i])
      BY <2>7, <2>8, <1>4 DEF Step
    <3>2. Open(1) # Unborn /\ Open(1) # Over BY Apart
    <3>3. DOMAIN frames = 1..Len(frames) BY <1>4
    <3>4. Follows(resubscribe[t], t, frames, q)
      BY <3>1, <3>2, <3>3, <2>6, <2>7, <1>3 DEF Follows
    <3> QED BY <3>4, <1>3 DEF HostStep
  <2>10. Status(t) \in {"establishing", "closing", "closed"}
    BY <1>2 DEF Calls, OwnOperation
  <2>11. Sees(t, q[0])'
    <3>1. Sees(t, Open(1)) BY <2>4, <2>10, Apart DEF Sees, Status
    <3> QED BY <3>1, <2>7, <1>3 DEF Sees, HostStep, connection
  <2>12. Shows(t, q[Len(frames)])'
    BY <2>7, <1>3, <1>4 DEF Shows
  <2>13. ~Fresh(t)'
    <3>1. Status(t)' # "none" BY <2>10, <1>5
    <3>2. \A r \in Range(requests) : ~(r.op = "subscribe" /\ r.sub = t)
      <4>1. \A i \in DOMAIN requests : requests[i].internal
        BY <1>2 DEF Calls, OwnRequest, Elsewhere
      <4>2. \A r \in Range(requests) : r.internal BY <4>1 DEF Range
      <4> QED BY <4>2 DEF Calls, OwnKinds
    <3>3. \A f \in Range(frames) : f.kind # "subscribe"
      <4>1. \A i \in DOMAIN frames : ~Own(frames[i])
        BY <1>2 DEF Calls, OwnFrame, Elsewhere
      <4>2. \A f \in Range(frames) : ~Own(f) BY <4>1 DEF Range
      <4> QED BY <4>2 DEF Calls, OwnKinds, Own, Replies
    <3> QED BY <3>1, <3>2, <3>3, <1>3 DEF Fresh
  <2>14. Says(t, q)'
    <3> SUFFICES ASSUME NEW i \in DOMAIN frames PROVE Spoken(t, frames[i], q[i - 1], q[i])'
      BY <1>3 DEF Says
    <3>1. frames[i] \in Range(frames) BY DEF Range
    <3>2. ~(frames[i].kind = "unsubscribe" /\ frames[i].sub = t)
      BY <3>1, <2>4 DEF Hatched, Replies
    <3>3. ~(frames[i].kind = "retired" /\ frames[i].sub = t) BY <2>8 DEF IsEvent, Events
    <3> QED BY <3>2, <3>3, <1>3 DEF Spoken
  <2>15. q[Len(frames)] # Unborn BY <2>7, Apart
  <2>16. Joins(t, q)' BY <2>9, <2>11, <2>12, <2>13, <2>14, <2>15, <1>3 DEF Joins
  <2> QED BY <2>6, <2>16 DEF Joined
<1> QED BY <1>6, <1>7

\* Where the stream of a cancellation is when the host looks at it.
LEMMA CancelledLife ==
  ASSUME TypeOK, NEW t \in Subs, NEW p, Joins(t, p), Hatched(t), NEW g, Naming(t, g)
  PROVE  /\ g # 0
         /\ ~stream[t].live => p[Len(frames)] = Over
         /\ stream[t].live =>
              /\ p[Len(frames)] # Over /\ p[Len(frames)].generation = stream[t].generation
              /\ Status(t) = "closing"
              /\ \/ p[Len(frames)] = Open(stream[t].generation)
                 \/ p[Len(frames)] = Recovering(stream[t].generation, stream[t].attempt)
<1>1. /\ Sees(t, p[0]) /\ Shows(t, p[Len(frames)]) /\ p[Len(frames)] # Unborn
      /\ p[0] = Over => p[Len(frames)] = Over
  BY JoinEnds
<1>2. g # 0 BY <1>1 DEF Sees, Naming, Status
<1>3. ~stream[t].live => p[Len(frames)] = Over BY <1>1 DEF Shows
<1>4. stream[t].live =>
        /\ p[Len(frames)] # Over /\ p[Len(frames)].generation = stream[t].generation
        /\ \/ p[Len(frames)] = Open(stream[t].generation)
           \/ p[Len(frames)] = Recovering(stream[t].generation, stream[t].attempt)
  BY <1>1, Apart DEF Shows
<1>5. stream[t].live => Status(t) = "closing"
  BY <1>1, <1>4 DEF Naming, Sees, Status
<1> QED BY <1>2, <1>3, <1>4, <1>5

\* The host takes a cancellation, or answers it at once.
LEMMA HostUnsubscribeJoins ==
  ASSUME TypeOK, \A s \in Subs : Joined(s), Cancels, HostUnsubscribe
  PROVE  \A s \in Subs : Joined(s)'
<1>1. PICK r \in Requests : r = Head(requests) BY TheRequest DEF HostUnsubscribe
<1>2. /\ r \in Range(requests) /\ r.op = "unsubscribe" /\ r.sub \in Subs
      /\ \A x \in Range(requests') : x \in Range(requests)
      /\ HostStep /\ UNCHANGED <<stream, record, registering>>
  BY <1>1, TheRequest DEF HostUnsubscribe
<1>3. Hatched(r.sub) /\ Naming(r.sub, r.generation) BY <1>2 DEF Hatched, Cancels
<1>4. CASE cancelling' = r /\ UNCHANGED frames
  <2>1. ASSUME NEW s \in Subs
        PROVE  (Fresh(s)' => Fresh(s)) /\ (Hatched(s)' => Hatched(s))
    <3>1. Status(s)' = Status(s) /\ (Awake(s)' <=> Awake(s))
      BY <1>2 DEF HostStep, connection, Status, Awake
    <3>2. Fresh(s)' => Fresh(s) BY <3>1, <1>2, <1>4 DEF Fresh
    <3>3. Hatched(s)' => Hatched(s)
      <4>1. CASE s = r.sub BY <4>1, <1>3
      <4>2. CASE s # r.sub BY <4>2, <3>1, <1>2, <1>4 DEF Hatched
      <4> QED BY <4>1, <4>2
    <3> QED BY <3>2, <3>3
  <2> QED BY <2>1, <1>2, <1>4, SilentJoins
<1>5. ASSUME NEW x \in Results, x = Verdict(r), Writes(<<Reply(r, x)>>), UNCHANGED cancelling
      PROVE  \A s \in Subs : Joined(s)'
  <2>1. PICK f \in Frames : f = Reply(r, x) BY MessageTypes
  <2>2. /\ f.kind = "unsubscribe" /\ f.sub = r.sub /\ f.result = x
        /\ f.generation = r.generation
    BY <2>1, <1>2, ReplyFields
  <2>3. ASSUME NEW p, Joins(f.sub, p) PROVE Spoken(f.sub, f, p[Len(frames)], p[Len(frames)])
    <3>1. /\ r.generation # 0
          /\ ~stream[r.sub].live => p[Len(frames)] = Over
          /\ stream[r.sub].live => p[Len(frames)].generation = stream[r.sub].generation
      BY <2>2, <2>3, <1>2, <1>3, CancelledLife
    <3>2. x = "ok" => ~stream[r.sub].live
      BY <3>1, <1>2, <1>5 DEF Verdict, Cancels
    <3>3. x = "invalid" =>
            ~stream[r.sub].live \/ stream[r.sub].generation # r.generation
      BY <1>5 DEF Verdict
    <3> QED BY <3>1, <3>2, <3>3, <2>2 DEF Spoken
  <2>4. f.kind \in Replies BY <2>2 DEF Replies
  <2>5. Writes(<<f>>) BY <2>1, <1>5
  <2> QED BY <2>2, <2>3, <2>4, <2>5, <1>2, <1>3, <1>5, AnswerJoins
<1>6. Verdict(r) \in Results \/ Verdict(r) = "cancel" BY DEF Verdict, Results
<1> QED BY <1>1, <1>4, <1>5, <1>6 DEF HostUnsubscribe

\* The host answers a cancellation after the backend's.
LEMMA CancelReturnsJoins ==
  ASSUME TypeOK, \A s \in Subs : Joined(s), Calls, Cancels, CancelReturns
  PROVE  \A s \in Subs : Joined(s)'
<1>1. PICK r \in Requests : r = cancelling BY DEF CancelReturns, TypeOK, HostOK
<1>2. PICK t \in Subs : t = r.sub BY DEF Requests
<1>3. /\ r.op = "unsubscribe" /\ Hatched(t) /\ Naming(t, r.generation) /\ r.generation \in Nat
  BY <1>1, <1>2 DEF CancelReturns, Calls, OwnKinds, Hatched, Cancels, Requests
<1>4. HostStep /\ UNCHANGED <<requests, registering>> /\ cancelling' = NoRequest
  BY DEF CancelReturns
<1>5. \A s \in Subs : Status(s)' = Status(s) /\ (Awake(s)' <=> Awake(s))
  BY <1>4 DEF HostStep, connection, Status, Awake
<1>6. frames \in Seq(Frames) /\ stream \in [Subs -> Streams] /\ record \in [Subs -> Nat]
  BY DEF TypeOK, HostOK
<1>7. ASSUME NEW x \in Results, Writes(<<Reply(r, x)>>), UNCHANGED <<stream, record>>,
             x = "ok" => ~stream[t].live,
             x = "invalid" => stream[t].live /\ stream[t].generation # r.generation
      PROVE  \A s \in Subs : Joined(s)'
  <2>1. PICK f \in Frames : f = Reply(r, x) BY MessageTypes
  <2>2. /\ f.kind = "unsubscribe" /\ f.sub = t /\ f.result = x
        /\ f.generation = r.generation
    BY <2>1, <1>2, <1>3, ReplyFields
  <2>3. ASSUME NEW p, Joins(f.sub, p) PROVE Spoken(f.sub, f, p[Len(frames)], p[Len(frames)])
    <3>1. /\ ~stream[t].live => p[Len(frames)] = Over
          /\ stream[t].live => p[Len(frames)].generation = stream[t].generation
      BY <2>2, <2>3, <1>3, CancelledLife
    <3> QED BY <3>1, <2>2, <1>7 DEF Spoken
  <2>4. f.kind \in Replies BY <2>2 DEF Replies
  <2>5. Writes(<<f>>) BY <2>1, <1>7
  <2> QED BY <2>2, <2>3, <2>4, <2>5, <1>3, <1>4, <1>7, AnswerJoins
<1>8. CASE /\ stream[t].live /\ stream[t].generation = r.generation /\ Retires(t)
           /\ Writes(<<Event("retired", t, r.generation, 0), Reply(r, "ok")>>)
  <2>1. PICK f \in Frames : f = Event("retired", t, r.generation, 0)
    BY <1>3, MessageTypes DEF Events
  <2>2. PICK g \in Frames : g = Reply(r, "ok") BY MessageTypes DEF Results
  <2>3. /\ f.kind = "retired" /\ f.sub = t /\ f.generation = r.generation
        /\ g.kind = "unsubscribe" /\ g.sub = t /\ g.result = "ok"
    BY <2>1, <2>2, <1>2, <1>3, ReplyFields DEF Event
  <2>4. Writes(<<f, g>>) /\ Range(frames') = Range(frames) \cup {f, g}
    BY <2>1, <2>2, <1>6, <1>8, WritesRange
  <2>5. /\ stream' = [stream EXCEPT ![t] = NoStream]
        /\ \A s \in Subs \ {t} : record'[s] = record[s] /\ stream'[s] = stream[s]
    BY <1>6, <1>8 DEF Retires
  <2>6. ASSUME NEW s \in Subs
        PROVE  (Fresh(s)' => Fresh(s)) /\ (Hatched(s)' => Hatched(s))
    <3>1. Fresh(s)' => Fresh(s) BY <2>3, <2>4, <1>4, <1>5 DEF Fresh
    <3>2. Hatched(s)' => Hatched(s)
      <4>1. CASE s = t BY <4>1, <1>3
      <4>2. CASE s # t BY <4>2, <2>3, <2>4, <2>5, <1>4, <1>5 DEF Hatched
      <4> QED BY <4>1, <4>2
    <3> QED BY <3>1, <3>2
  <2>7. ASSUME NEW s \in Subs, s # t PROVE Joined(s)'
    <3>1. PICK p : Joins(s, p) BY DEF Joined
    <3> QED BY <3>1, <2>3, <2>4, <2>5, <2>6, <2>7, <1>4, JoinPassTwo
  <2>8. Joined(t)'
    <3>1. PICK p : Joins(t, p) BY DEF Joined
    <3>2. /\ Status(t) = "closing"
          /\ \/ p[Len(frames)] = Open(stream[t].generation)
             \/ p[Len(frames)] = Recovering(stream[t].generation, stream[t].attempt)
      BY <3>1, <1>3, <1>8, CancelledLife
    <3>3. p[Len(frames)] \in States /\ p[Len(frames)] # Unborn BY <3>1, <1>3, JoinEnds
    <3>4. Over \in States /\ Over # Unborn BY Apart DEF Over, State, States
    <3>5. Leads(resubscribe[t], f, p[Len(frames)], Over)
      BY <3>2, <2>3, <1>8, Apart DEF Leads
    <3>6. /\ Step(resubscribe[t], t, f, p[Len(frames)], Over)
          /\ Step(resubscribe[t], t, g, Over, Over)
      BY <3>5, <2>3 DEF Step, IsEvent, Events
    <3>7. Shows(t, Over)' BY <2>5, <1>6 DEF Shows, NoStream
    <3>8. ~Fresh(t)' BY <2>6, <3>1, <3>3, JoinEnds
    <3>9. Spoken(t, f, p[Len(frames)], Over) /\ Spoken(t, g, Over, Over)
      BY <3>2, <2>3 DEF Spoken
    <3> QED BY <3>1, <3>4, <3>6, <3>7, <3>8, <3>9, <2>4, <1>4, JoinWriteTwo
  <2> QED BY <2>7, <2>8
<1>9. CASE UNCHANGED <<stream, record, frames>>
  <2>1. ASSUME NEW s \in Subs
        PROVE  (Fresh(s)' => Fresh(s)) /\ (Hatched(s)' => Hatched(s))
    BY <1>4, <1>5, <1>9 DEF Fresh, Hatched
  <2> QED BY <2>1, <1>4, <1>9, SilentJoins
<1>10. \/ ~stream[t].live /\ Writes(<<Reply(r, "ok")>>) /\ UNCHANGED <<stream, record>>
       \/ /\ stream[t].live
          /\ \E x \in {"invalid", "timeout"} :
               /\ x = "invalid" => stream[t].generation # r.generation
               /\ Writes(<<Reply(r, x)>>)
          /\ UNCHANGED <<stream, record>>
       \/ /\ stream[t].live /\ stream[t].generation = r.generation /\ Retires(t)
          /\ Writes(<<Event("retired", t, r.generation, 0), Reply(r, "ok")>>)
       \/ UNCHANGED <<stream, record, frames>>
  BY <1>1, <1>2 DEF CancelReturns
<1>11. {"ok", "invalid", "timeout"} \subseteq Results BY DEF Results
<1> QED BY <1>7, <1>8, <1>9, <1>10, <1>11

\* The credit of a retired stream has come back.
LEMMA RecordErasedJoins ==
  ASSUME TypeOK, \A s \in Subs : Joined(s), NEW t \in Subs, RecordErased(t)
  PROVE  \A s \in Subs : Joined(s)'
<1>1. /\ HostStep /\ UNCHANGED <<frames, stream, requests, cancelling, registering>>
      /\ \A s \in Subs : record'[s] # 0 => record[s] # 0
  BY DEF RecordErased, TypeOK, HostOK
<1>2. ASSUME NEW s \in Subs
      PROVE  (Fresh(s)' => Fresh(s)) /\ (Hatched(s)' => Hatched(s))
  <2>1. Status(s)' = Status(s) /\ (Awake(s)' <=> Awake(s))
    BY <1>1 DEF HostStep, connection, Status, Awake
  <2> QED BY <2>1, <1>1 DEF Fresh, Hatched
<1> QED BY <1>1, <1>2, SilentJoins

-----------------------------------------------------------------------------
(* A stream reports.                                                       *)

\* What an event of t leaves to the other subscriptions and to the ages.
EmitEffect(t) ==
  /\ HostStep /\ UNCHANGED <<requests, registering, cancelling>>
  /\ stream[t].live
  /\ \A s \in Subs \ {t} : record'[s] = record[s] /\ stream'[s] = stream[s]

\* An event makes no stream new, and only of an old one.
LEMMA EmitAges ==
  ASSUME TypeOK, NEW t \in Subs, EmitEffect(t), Joined(t), NEW s \in Subs,
         NEW f \in Frames, NEW g \in Frames, f.kind \in Events, g.kind \in Events,
         Range(frames') = Range(frames) \cup {f, g}
  PROVE  /\ Fresh(s)' => Fresh(s)
         /\ s # t => (Hatched(s)' => Hatched(s))
         /\ ~Fresh(t)'
<1>1. \A x \in Subs : Status(x)' = Status(x) /\ (Awake(x)' <=> Awake(x))
  BY DEF EmitEffect, HostStep, connection, Status, Awake
<1>2. \A x \in Subs : Fresh(x)' => Fresh(x) BY <1>1 DEF EmitEffect, Fresh, Events
<1>3. s # t => (Hatched(s)' => Hatched(s))
  BY <1>1 DEF EmitEffect, Hatched, Events, Replies
<1>4. ~Fresh(t)
  <2>1. PICK p : Joins(t, p) BY DEF Joined
  <2>2. p[Len(frames)] # Unborn BY <2>1, JoinEnds, Apart DEF EmitEffect, Shows
  <2> QED BY <2>1, <2>2, JoinEnds
<1> QED BY <1>2, <1>3, <1>4

\* An event takes the life of its stream one state further.
LEMMA EmitJoins ==
  ASSUME TypeOK, \A s \in Subs : Joined(s), NEW t \in Subs, EmitEffect(t),
         NEW f \in Frames, f.kind \in Events, f.sub = t, Writes(<<f>>), NEW to \in States,
         to \notin {Unborn, Over}, Shows(t, to)',
         \A p : Joins(t, p) => Leads(resubscribe[t], f, p[Len(frames)], to)
  PROVE  \A s \in Subs : Joined(s)'
<1>0. HostStep BY DEF EmitEffect
<1>1. Range(frames') = Range(frames) \cup {f, f}
  BY WritesRange DEF TypeOK, HostOK
<1>2. ASSUME NEW s \in Subs, s # t PROVE Joined(s)'
  <2>1. PICK p : Joins(s, p) BY DEF Joined
  <2>2. (Fresh(s)' => Fresh(s)) /\ (Hatched(s)' => Hatched(s)) BY <1>1, <1>2, EmitAges
  <2>3. ~IsEvent(f, s) /\ stream'[s] = stream[s] BY <1>2 DEF IsEvent, EmitEffect
  <2>4. Spoken(s, f, p[Len(frames)], p[Len(frames)]) BY <1>2 DEF Spoken
  <2> QED BY <2>1, <2>2, <2>3, <2>4, <1>0, JoinPass
<1>3. Joined(t)'
  <2>1. PICK p : Joins(t, p) BY DEF Joined
  <2>2. ~Fresh(t)' BY <1>1, EmitAges
  <2>3. Step(resubscribe[t], t, f, p[Len(frames)], to) BY <2>1 DEF Step, IsEvent
  <2>4. Spoken(t, f, p[Len(frames)], to) BY DEF Spoken, Events
  <2> QED BY <2>1, <2>2, <2>3, <2>4, <1>0, JoinWrite
<1> QED BY <1>2, <1>3

\* Two events take it two states further.
LEMMA EmitTwoJoins ==
  ASSUME TypeOK, \A s \in Subs : Joined(s), NEW t \in Subs, EmitEffect(t),
         NEW f \in Frames, f.kind \in Events, f.sub = t,
         NEW g \in Frames, g.kind \in Events, g.sub = t, Writes(<<f, g>>),
         NEW mid \in States, NEW to \in States,
         mid \notin {Unborn, Over}, to # Unborn, to = Over => mid.phase = "failed",
         Shows(t, to)', Leads(resubscribe[t], g, mid, to),
         \A p : Joins(t, p) => Leads(resubscribe[t], f, p[Len(frames)], mid)
  PROVE  \A s \in Subs : Joined(s)'
<1>0. HostStep BY DEF EmitEffect
<1>1. Range(frames') = Range(frames) \cup {f, g}
  BY WritesRange DEF TypeOK, HostOK
<1>2. ASSUME NEW s \in Subs, s # t PROVE Joined(s)'
  <2>1. PICK p : Joins(s, p) BY DEF Joined
  <2>2. (Fresh(s)' => Fresh(s)) /\ (Hatched(s)' => Hatched(s)) BY <1>1, <1>2, EmitAges
  <2>3. stream'[s] = stream[s] BY <1>2 DEF EmitEffect
  <2> QED BY <2>1, <2>2, <2>3, <1>0, <1>2, JoinPassTwo
<1>3. Joined(t)'
  <2>1. PICK p : Joins(t, p) BY DEF Joined
  <2>2. ~Fresh(t)' BY <1>1, EmitAges
  <2>3. /\ Step(resubscribe[t], t, f, p[Len(frames)], mid)
        /\ Step(resubscribe[t], t, g, mid, to)
    BY <2>1 DEF Step, IsEvent
  <2>4. Spoken(t, f, p[Len(frames)], mid) /\ Spoken(t, g, mid, to) BY DEF Spoken, Events
  <2> QED BY <2>1, <2>2, <2>3, <2>4, <1>0, JoinWriteTwo
<1> QED BY <1>2, <1>3

\* The two ends agree on every stream when one reports.
LEMMA EmitsJoin ==
  ASSUME TypeOK, \A s \in Subs : Joined(s), NEW t \in Subs,
         EmitReport(t) \/ EmitFailure(t) \/ EmitResubscribing(t) \/ EmitResubscribed(t)
  PROVE  \A s \in Subs : Joined(s)'
<1>1. /\ stream \in [Subs -> Streams] /\ record \in [Subs -> Nat] /\ stream[t] \in Streams
  BY DEF TypeOK, HostOK
<1>2. PICK g \in Nat : g = stream[t].generation BY <1>1 DEF Streams
<1>3. PICK n \in Nat : n = stream[t].attempt BY <1>1 DEF Streams
<1>4. EmitEffect(t)
  <2>1. /\ HostStep /\ UNCHANGED <<requests, registering, cancelling>> /\ stream[t].live
    BY DEF EmitReport, EmitFailure, EmitResubscribing, EmitResubscribed, Callback, Eventful
  <2>2. \A s \in Subs \ {t} : record'[s] = record[s] /\ stream'[s] = stream[s]
    BY <1>1 DEF EmitReport, EmitFailure, EmitResubscribing, EmitResubscribed, Retires
  <2> QED BY <2>1, <2>2 DEF EmitEffect
<1>5. ASSUME NEW p, Joins(t, p)
      PROVE  p[Len(frames)] = IF stream[t].recovering THEN Recovering(g, n) ELSE Open(g)
  BY <1>2, <1>3, <1>4, <1>5, JoinEnds DEF Shows, EmitEffect
<1>6. \A h, k \in Nat : /\ Open(h) \in States /\ Switching(h) \in States
                        /\ Failed(h) \in States /\ Recovering(h, k) \in States
  BY DEF Open, Switching, Failed, Recovering, State, States
<1>7. CASE EmitReport(t)
  <2>1. PICK f \in Frames : f = Event("report", t, g, 0) BY MessageTypes DEF Events
  <2>2. f.kind = "report" /\ f.sub = t /\ f.generation = g BY <2>1 DEF Event
  <2>3. Writes(<<f>>) /\ ~stream[t].recovering /\ stream' = stream
    BY <2>1, <1>2, <1>7 DEF EmitReport
  <2>4. Shows(t, Open(g))' BY <2>3, <1>2, <1>4 DEF Shows, EmitEffect
  <2>5. \A p : Joins(t, p) => Leads(resubscribe[t], f, p[Len(frames)], Open(g))
    BY <2>2, <2>3, <1>5 DEF Leads
  <2>6. Open(g) \notin {Unborn, Over} BY Apart
  <2> QED BY <2>2, <2>3, <2>4, <2>5, <2>6, <1>4, <1>6, EmitJoins DEF Events
<1>8. CASE EmitFailure(t)
  <2>1. PICK f \in Frames : f = Event("error", t, g, 0) BY MessageTypes DEF Events
  <2>2. PICK h \in Frames : h = Event("retired", t, g, 0) BY MessageTypes DEF Events
  <2>3. /\ f.kind = "error" /\ f.sub = t /\ f.generation = g
        /\ h.kind = "retired" /\ h.sub = t /\ h.generation = g
    BY <2>1, <2>2 DEF Event
  <2>4. Writes(<<f, h>>) /\ stream' = [stream EXCEPT ![t] = NoStream]
    BY <2>1, <2>2, <1>2, <1>8 DEF EmitFailure, Retires
  <2>5. Shows(t, Over)' BY <2>4, <1>1 DEF Shows, NoStream
  <2>6. \A p : Joins(t, p) => Leads(resubscribe[t], f, p[Len(frames)], Failed(g))
    BY <2>3, <1>5, Apart DEF Leads
  <2>7. Leads(resubscribe[t], h, Failed(g), Over) BY <2>3 DEF Leads
  <2>8. /\ Failed(g) \notin {Unborn, Over} /\ Over # Unborn /\ Failed(g).phase = "failed"
        /\ Over \in States
    BY Apart DEF Over, State, States
  <2> QED BY <2>3, <2>4, <2>5, <2>6, <2>7, <2>8, <1>4, <1>6, EmitTwoJoins DEF Events
<1>9. CASE /\ EmitResubscribing(t) /\ ~stream[t].recovering
  <2>0. PICK m \in Nat : m = g + 1 OBVIOUS
  <2>1. PICK f \in Frames : f = Event("resubscribing", t, m, 1) BY MessageTypes DEF Events
  <2>2. PICK h \in Frames : h = Event("retired", t, g, 0) BY MessageTypes DEF Events
  <2>3. /\ f.kind = "resubscribing" /\ f.sub = t /\ f.generation = m /\ f.attempt = 1
        /\ h.kind = "retired" /\ h.sub = t /\ h.generation = g
    BY <2>1, <2>2 DEF Event
  <2>4. /\ Writes(<<f, h>>) /\ resubscribe[t]
        /\ stream' = [stream EXCEPT ![t].generation = m, ![t].recovering = TRUE,
                                    ![t].attempt = 1]
    BY <2>0, <2>1, <2>2, <1>2, <1>9 DEF EmitResubscribing
  <2>5. /\ stream'[t].live = stream[t].live /\ stream'[t].generation = m
        /\ stream'[t].recovering /\ stream'[t].attempt = 1
    BY <2>4, <1>1 DEF Streams
  <2>6. Shows(t, Recovering(m, 1))' BY <2>5, <1>4 DEF Shows, EmitEffect
  <2>7. \A p : Joins(t, p) => Leads(resubscribe[t], f, p[Len(frames)], Switching(m))
    <3> SUFFICES ASSUME NEW p, Joins(t, p)
                 PROVE  Leads(resubscribe[t], f, p[Len(frames)], Switching(m))
      OBVIOUS
    <3>1. p[Len(frames)] = Open(g) /\ p[Len(frames)].generation = g BY <1>5, <1>9, Apart
    <3> QED BY <3>1, <2>0, <2>3, <2>4 DEF Leads
  <2>8. Leads(resubscribe[t], h, Switching(m), Recovering(m, 1)) BY <2>0, <2>3 DEF Leads
  <2>9. /\ Switching(m) \notin {Unborn, Over} /\ Recovering(m, 1) \notin {Unborn, Over}
    BY Apart
  <2> QED BY <2>3, <2>4, <2>6, <2>7, <2>8, <2>9, <1>4, <1>6, EmitTwoJoins DEF Events
<1>10. CASE EmitResubscribing(t) /\ stream[t].recovering
  <2>0. PICK m \in Nat : m = n + 1 OBVIOUS
  <2>1. PICK f \in Frames : f = Event("resubscribing", t, g, m) BY MessageTypes DEF Events
  <2>2. f.kind = "resubscribing" /\ f.sub = t /\ f.generation = g /\ f.attempt = m
    BY <2>1 DEF Event
  <2>3. /\ Writes(<<f>>) /\ stream' = [stream EXCEPT ![t].attempt = m]
    BY <2>0, <2>1, <1>2, <1>3, <1>10 DEF EmitResubscribing
  <2>4. /\ stream'[t].live = stream[t].live /\ stream'[t].generation = g
        /\ stream'[t].recovering = stream[t].recovering /\ stream'[t].attempt = m
    BY <2>3, <1>1, <1>2 DEF Streams
  <2>5. Shows(t, Recovering(g, m))' BY <2>4, <1>4, <1>10 DEF Shows, EmitEffect
  <2>6. \A p : Joins(t, p) => Leads(resubscribe[t], f, p[Len(frames)], Recovering(g, m))
    <3> SUFFICES ASSUME NEW p, Joins(t, p)
                 PROVE  Leads(resubscribe[t], f, p[Len(frames)], Recovering(g, m))
      OBVIOUS
    <3>1. p[Len(frames)] = Recovering(g, n) /\ p[Len(frames)].attempt = n
      BY <1>5, <1>10, Apart
    <3> QED BY <3>1, <2>0, <2>2 DEF Leads
  <2>7. Recovering(g, m) \notin {Unborn, Over} BY Apart
  <2> QED BY <2>2, <2>3, <2>5, <2>6, <2>7, <1>4, <1>6, EmitJoins DEF Events
<1>11. CASE EmitResubscribed(t)
  <2>1. PICK f \in Frames : f = Event("resubscribed", t, g, n) BY MessageTypes DEF Events
  <2>2. f.kind = "resubscribed" /\ f.sub = t /\ f.generation = g /\ f.attempt = n
    BY <2>1 DEF Event
  <2>3. /\ Writes(<<f>>) /\ stream[t].recovering
        /\ stream' = [stream EXCEPT ![t].recovering = FALSE, ![t].attempt = 0]
    BY <2>1, <1>2, <1>3, <1>11 DEF EmitResubscribed
  <2>4. /\ stream'[t].live = stream[t].live /\ stream'[t].generation = g
        /\ ~stream'[t].recovering
    BY <2>3, <1>1, <1>2 DEF Streams
  <2>5. Shows(t, Open(g))' BY <2>4, <1>4 DEF Shows, EmitEffect
  <2>6. \A p : Joins(t, p) => Leads(resubscribe[t], f, p[Len(frames)], Open(g))
    BY <2>2, <2>3, <1>5 DEF Leads
  <2>7. Open(g) \notin {Unborn, Over} BY Apart
  <2> QED BY <2>2, <2>3, <2>5, <2>6, <2>7, <1>4, <1>6, EmitJoins DEF Events
<1> QED BY <1>7, <1>8, <1>9, <1>10, <1>11

\* The two ends agree on every stream after every step.
LEMMA JoinedNext ==
  ASSUME TypeOK, \A s \in Subs : Joined(s), Calls, Cancels, Next, Serving'
  PROVE  \A s \in Subs : Joined(s)'
<1>1. CASE Reads BY <1>1, ReadsJoin
<1>2. CASE HostSteps
  BY <1>2, HostSubscribeJoins, RegisteringJoins, AddStreamJoins, HostActivatesJoins,
     HostUnsubscribeJoins, CancelReturnsJoins
  DEF HostSteps
<1>3. ~Timers BY DEF Timers, Expires, InputFailed, HostExits, Stop, Serving
<1>4. CASE JoinReturns
  <2>1. CASE Subs = {} BY <2>1
  <2>2. CASE Subs # {}
    <3>1. PICK t \in Subs : TRUE BY <2>2
    <3> QED BY <3>1, <1>4, CallsJoin
  <2> QED BY <2>1, <2>2
<1>5. ASSUME NEW t \in Subs,
             \/ CallSubscribe(t) \/ CallUnsubscribe(t) \/ Down(t)
             \/ RecordErased(t) \/ EmitReport(t) \/ EmitFailure(t)
             \/ EmitResubscribing(t) \/ EmitResubscribed(t)
      PROVE  \A s \in Subs : Joined(s)'
  BY <1>5, CallsJoin, RecordErasedJoins, EmitsJoin
<1> QED BY <1>1, <1>2, <1>3, <1>4, <1>5 DEF Next

-----------------------------------------------------------------------------
(* The blocking call is in one place.                                      *)

\* The call is nowhere on its way.
Free ==
  /\ \A i \in DOMAIN requests : requests[i].internal
  /\ \A i \in DOMAIN frames : ~Own(frames[i])
  /\ Elsewhere

\* The connection has no call for the host: nothing of one is on its way.
LEMMA NobodyIsFree ==
  ASSUME TypeOK, Calls, call.op \notin Replies
  PROVE  Free
<1>1. \A i \in DOMAIN requests : requests[i] \in Requests BY DEF TypeOK, HostOK
<1>2. \A i \in DOMAIN requests : requests[i].internal
  BY <1>1 DEF Calls, OwnRequest, Requests
<1>3. \A i \in DOMAIN frames : ~Own(frames[i]) BY DEF Calls, OwnFrame, Own
<1>4. registering.stage \notin {"wait", "added"} BY DEF Calls, OwnOperation, Replies
<1>5. cancelling = NoRequest \/ cancelling.internal BY DEF Calls, OwnOperation, Replies
<1> QED BY <1>2, <1>3, <1>4, <1>5 DEF Free, Elsewhere

\* Where the call is a request, an operation or an answer, it is only there.
LEMMA OnlyThere ==
  ASSUME TypeOK, Calls
  PROVE  /\ \A k \in DOMAIN requests : ~requests[k].internal =>
              /\ \A i \in DOMAIN requests : i # k => requests[i].internal
              /\ \A i \in DOMAIN frames : ~Own(frames[i])
              /\ Elsewhere
         /\ \A k \in DOMAIN frames : Own(frames[k]) =>
              /\ \A i \in DOMAIN requests : requests[i].internal
              /\ \A i \in DOMAIN frames : i # k => ~Own(frames[i])
              /\ Elsewhere
         /\ registering.stage \in {"wait", "added"} =>
              /\ \A i \in DOMAIN requests : requests[i].internal
              /\ \A i \in DOMAIN frames : ~Own(frames[i])
              /\ cancelling = NoRequest \/ cancelling.internal
         /\ cancelling # NoRequest /\ ~cancelling.internal =>
              /\ \A i \in DOMAIN requests : requests[i].internal
              /\ \A i \in DOMAIN frames : ~Own(frames[i])
              /\ registering.stage \notin {"wait", "added"}
<1>1. \A i \in DOMAIN requests : requests[i].internal \in BOOLEAN
  <2>1. \A i \in DOMAIN requests : requests[i] \in Requests BY DEF TypeOK, HostOK
  <2>2. \A r \in Requests : r.internal \in BOOLEAN BY DEF Requests
  <2> QED BY <2>1, <2>2
<1>2. \A k \in DOMAIN requests : ~requests[k].internal =>
        /\ \A i \in DOMAIN requests : i # k => requests[i].internal
        /\ \A i \in DOMAIN frames : ~Own(frames[i])
        /\ Elsewhere
  BY <1>1 DEF Calls, OwnRequest
<1>3. \A k \in DOMAIN frames : Own(frames[k]) =>
        /\ \A i \in DOMAIN requests : requests[i].internal
        /\ \A i \in DOMAIN frames : i # k => ~Own(frames[i])
        /\ Elsewhere
  BY <1>1 DEF Calls, OwnRequest, OwnFrame
<1>4. registering.stage \in {"wait", "added"} =>
        /\ \A i \in DOMAIN requests : requests[i].internal
        /\ \A i \in DOMAIN frames : ~Own(frames[i])
        /\ cancelling = NoRequest \/ cancelling.internal
  BY <1>1 DEF Calls, OwnRequest, OwnFrame, OwnOperation, Elsewhere
<1>5. cancelling # NoRequest /\ ~cancelling.internal =>
        /\ \A i \in DOMAIN requests : requests[i].internal
        /\ \A i \in DOMAIN frames : ~Own(frames[i])
        /\ registering.stage \notin {"wait", "added"}
  BY <1>1 DEF Calls, OwnRequest, OwnFrame, OwnOperation, Elsewhere
<1> QED BY <1>2, <1>3, <1>4, <1>5

\* What is on its way moves by a places, and nothing of the call is new.
LEMMA CallsShift ==
  ASSUME TypeOK, TypeOK', OwnRequest, OwnFrame, call' = call, Elsewhere => Elsewhere',
         NEW a \in {0, 1}, NEW b \in {0, 1},
         \A i \in DOMAIN requests' : ~requests'[i].internal =>
           i + a \in DOMAIN requests /\ requests'[i] = requests[i + a],
         \A i \in DOMAIN frames' : Own(frames'[i]) =>
           i + b \in DOMAIN frames /\ frames'[i] = frames[i + b]
  PROVE  OwnRequest' /\ OwnFrame'
<1>1. DOMAIN requests' \subseteq Nat /\ DOMAIN frames' \subseteq Nat
  BY DEF TypeOK, HostOK
<1>2. OwnRequest'
  <2> SUFFICES ASSUME NEW i \in DOMAIN requests', ~requests'[i].internal
               PROVE  /\ call' = [op |-> requests'[i].op, sub |-> requests'[i].sub]
                      /\ \A j \in DOMAIN requests' : ~requests'[j].internal => j = i
                      /\ \A j \in DOMAIN frames' : ~Own(frames'[j])
                      /\ Elsewhere'
    BY DEF OwnRequest, Own
  <2>1. i + a \in DOMAIN requests /\ requests'[i] = requests[i + a] OBVIOUS
  <2>2. /\ call = [op |-> requests[i + a].op, sub |-> requests[i + a].sub]
        /\ \A j \in DOMAIN requests : ~requests[j].internal => j = i + a
        /\ \A j \in DOMAIN frames : ~Own(frames[j])
        /\ Elsewhere
    BY <2>1 DEF OwnRequest
  <2>3. \A j \in DOMAIN requests' : ~requests'[j].internal => j = i
    BY <2>2, <1>1
  <2>4. \A j \in DOMAIN frames' : ~Own(frames'[j]) BY <2>2
  <2> QED BY <2>1, <2>2, <2>3, <2>4
<1>3. OwnFrame'
  <2> SUFFICES ASSUME NEW i \in DOMAIN frames', Own(frames'[i])
               PROVE  /\ call' = [op |-> frames'[i].kind, sub |-> frames'[i].sub]
                      /\ \A j \in DOMAIN frames' : Own(frames'[j]) => j = i
                      /\ Elsewhere'
    BY DEF OwnFrame, Own
  <2>1. i + b \in DOMAIN frames /\ frames'[i] = frames[i + b] OBVIOUS
  <2>2. /\ call = [op |-> frames[i + b].kind, sub |-> frames[i + b].sub]
        /\ \A j \in DOMAIN frames : Own(frames[j]) => j = i + b
        /\ Elsewhere
    BY <2>1 DEF OwnFrame
  <2>3. \A j \in DOMAIN frames' : Own(frames'[j]) => j = i BY <2>2, <1>1
  <2> QED BY <2>1, <2>2, <2>3
<1> QED BY <1>2, <1>3

\* The answer of the call is written.
LEMMA OwnAnswer ==
  ASSUME TypeOK, NEW f \in Frames, Writes(<<f>>),
         call' = [op |-> f.kind, sub |-> f.sub],
         \A i \in DOMAIN frames : ~Own(frames[i]),
         \A i \in DOMAIN requests' : requests'[i].internal, Elsewhere'
  PROVE  OwnRequest' /\ OwnFrame' /\ OwnOperation'
<1>1. /\ Len(frames) \in Nat /\ DOMAIN frames = 1..Len(frames)
      /\ DOMAIN frames' = 1..(Len(frames) + 1)
      /\ \A i \in 1..Len(frames) : frames'[i] = frames[i]
      /\ frames'[Len(frames) + 1] = f
  BY AppendFacts DEF TypeOK, HostOK, Writes
<1>2. \A i \in DOMAIN frames' : Own(frames'[i]) => i = Len(frames) + 1 BY <1>1
<1>3. OwnFrame' BY <1>1, <1>2 DEF OwnFrame, Own
<1> QED BY <1>3 DEF OwnRequest, OwnOperation, Elsewhere

\* The kinds of what is on its way.
LEMMA KindsNext ==
  ASSUME OwnKinds, cancelling' # NoRequest => cancelling'.op = "unsubscribe",
         \A r \in Range(requests') : r \in Range(requests) \/ (r.op = "subscribe" => ~r.internal),
         \A f \in Range(frames') : f \in Range(frames) \/ (f.kind = "subscribe" => ~f.internal)
  PROVE  OwnKinds'
  BY DEF OwnKinds

CallOpen == call.op = "subscribe" => Status(call.sub) \in {"establishing", "closing", "closed"}

\* A request is added at the end.
LEMMA RequestAdded ==
  ASSUME TypeOK, NEW x \in Requests, requests' = Append(requests, x)
  PROVE  /\ Len(requests) \in Nat /\ DOMAIN requests = 1..Len(requests)
         /\ DOMAIN requests' = 1..(Len(requests) + 1)
         /\ \A i \in 1..Len(requests) : requests'[i] = requests[i]
         /\ requests'[Len(requests) + 1] = x
         /\ Range(requests') = Range(requests) \cup {x}
<1>1. requests \in Seq(Requests) BY DEF TypeOK, HostOK
<1>2. Range(Append(requests, x)) = Range(requests) \cup {x} BY <1>1, AppendRange
<1> QED BY <1>1, <1>2, AppendFacts

\* The call of a client is sent.
LEMMA CallSent ==
  ASSUME TypeOK, Calls, call = NoCall, NEW x \in Requests, ~x.internal,
         requests' = Append(requests, x), call' = [op |-> x.op, sub |-> x.sub],
         UNCHANGED <<frames, registering, cancelling>>, CallOpen'
  PROVE  Calls'
<1>1. Free BY NobodyIsFree DEF NoCall, Replies
<1>2. /\ Len(requests) \in Nat /\ DOMAIN requests = 1..Len(requests)
      /\ DOMAIN requests' = 1..(Len(requests) + 1)
      /\ \A i \in 1..Len(requests) : requests'[i] = requests[i]
      /\ requests'[Len(requests) + 1] = x
      /\ Range(requests') = Range(requests) \cup {x}
  BY RequestAdded
<1>3. \A i \in DOMAIN requests' : ~requests'[i].internal => i = Len(requests) + 1
  BY <1>1, <1>2 DEF Free
<1>4. Elsewhere' BY <1>1 DEF Free, Elsewhere
<1>5. OwnRequest' BY <1>1, <1>2, <1>3, <1>4 DEF OwnRequest, Free, Own
<1>6. OwnFrame' /\ OwnOperation' BY <1>1, <1>4 DEF OwnFrame, OwnOperation, Free, Own, Elsewhere
<1>7. OwnKinds' BY <1>2, KindsNext DEF Calls, OwnKinds
<1> QED BY <1>5, <1>6, <1>7 DEF Calls, CallOpen

\* The connection sends a request of its own, or nothing.
LEMMA CallKept ==
  ASSUME TypeOK, TypeOK', Calls, call' = call, UNCHANGED <<frames, registering, cancelling>>,
         \/ requests' = requests
         \/ \E x \in Requests : /\ x.internal /\ x.op = "unsubscribe"
                                /\ requests' = Append(requests, x),
         CallOpen'
  PROVE  Calls'
<1>1. OwnRequest /\ OwnFrame /\ OwnOperation /\ OwnKinds BY DEF Calls
<1>2. Elsewhere => Elsewhere' BY DEF Elsewhere
<1>3. OwnOperation' BY <1>1 DEF OwnOperation
<1>4. CASE requests' = requests
  BY <1>1, <1>3, <1>4 DEF Calls, CallOpen, OwnRequest, OwnFrame, OwnKinds, Own, Elsewhere
<1>5. ASSUME NEW x \in Requests, x.internal, x.op = "unsubscribe",
             requests' = Append(requests, x)
      PROVE  Calls'
  <2>1. /\ Len(requests) \in Nat /\ DOMAIN requests = 1..Len(requests)
        /\ DOMAIN requests' = 1..(Len(requests) + 1)
        /\ \A i \in 1..Len(requests) : requests'[i] = requests[i]
        /\ requests'[Len(requests) + 1] = x
        /\ Range(requests') = Range(requests) \cup {x}
    BY <1>5, RequestAdded
  <2>2. \A i \in DOMAIN requests' : ~requests'[i].internal =>
          i + 0 \in DOMAIN requests /\ requests'[i] = requests[i + 0]
    <3> SUFFICES ASSUME NEW i \in DOMAIN requests', ~requests'[i].internal
                 PROVE  i + 0 \in DOMAIN requests /\ requests'[i] = requests[i + 0]
      OBVIOUS
    <3>1. CASE i = Len(requests) + 1
      <4>1. requests'[i] = x BY <3>1, <2>1
      <4> QED BY <4>1, <1>5, Zenon
    <3>2. CASE i \in 1..Len(requests) BY <3>2, <2>1
    <3> QED BY <3>1, <3>2, <2>1
  <2>3. \A i \in DOMAIN frames' : i + 0 \in DOMAIN frames /\ frames'[i] = frames[i + 0]
    BY DEF TypeOK, HostOK
  <2>4. OwnRequest' /\ OwnFrame' BY <1>1, <1>2, <2>2, <2>3, CallsShift
  <2>5. OwnKinds' BY <2>1, <1>1, <1>5, KindsNext DEF OwnKinds
  <2> QED BY <2>4, <2>5, <1>3 DEF Calls, CallOpen
<1> QED BY <1>4, <1>5

\* A frame that answers no call is read.
LEMMA CallUnread ==
  ASSUME TypeOK, TypeOK', Calls, call' = call, Taken, frames # << >>,
         \/ requests' = requests
         \/ \E x \in Requests : /\ x.internal /\ x.op = "unsubscribe"
                                /\ requests' = Append(requests, x),
         CallOpen'
  PROVE  Calls'
<1>1. OwnRequest /\ OwnFrame /\ OwnOperation /\ OwnKinds BY DEF Calls
<1>2. /\ UNCHANGED <<registering, cancelling>> /\ Len(frames) \in Nat
      /\ DOMAIN frames = 1..Len(frames) /\ DOMAIN frames' = 1..(Len(frames) - 1)
      /\ \A i \in 1..(Len(frames) - 1) : frames'[i] = frames[i + 1]
      /\ \A f \in Range(frames') : f \in Range(frames)
  BY TheFrame
<1>3. Elsewhere => Elsewhere' BY <1>2 DEF Elsewhere
<1>4. OwnOperation' BY <1>1, <1>2 DEF OwnOperation
<1>5. \A i \in DOMAIN frames' : i + 1 \in DOMAIN frames /\ frames'[i] = frames[i + 1]
  BY <1>2
<1>6. CASE requests' = requests
  <2>1. \A i \in DOMAIN requests' : i + 0 \in DOMAIN requests /\ requests'[i] = requests[i + 0]
    BY <1>6 DEF TypeOK, HostOK
  <2>2. OwnRequest' /\ OwnFrame' BY <1>1, <1>3, <1>5, <2>1, CallsShift
  <2>3. OwnKinds' BY <1>1, <1>2, <1>6, KindsNext DEF OwnKinds
  <2> QED BY <2>2, <2>3, <1>4 DEF Calls, CallOpen
<1>7. ASSUME NEW x \in Requests, x.internal, x.op = "unsubscribe",
             requests' = Append(requests, x)
      PROVE  Calls'
  <2>1. /\ Len(requests) \in Nat /\ DOMAIN requests = 1..Len(requests)
        /\ DOMAIN requests' = 1..(Len(requests) + 1)
        /\ \A i \in 1..Len(requests) : requests'[i] = requests[i]
        /\ requests'[Len(requests) + 1] = x
        /\ Range(requests') = Range(requests) \cup {x}
    BY <1>7, RequestAdded
  <2>2. \A i \in DOMAIN requests' : ~requests'[i].internal =>
          i + 0 \in DOMAIN requests /\ requests'[i] = requests[i + 0]
    <3> SUFFICES ASSUME NEW i \in DOMAIN requests', ~requests'[i].internal
                 PROVE  i + 0 \in DOMAIN requests /\ requests'[i] = requests[i + 0]
      OBVIOUS
    <3>1. CASE i = Len(requests) + 1
      <4>1. requests'[i] = x BY <3>1, <2>1
      <4> QED BY <4>1, <1>7, Zenon
    <3>2. CASE i \in 1..Len(requests) BY <3>2, <2>1
    <3> QED BY <3>1, <3>2, <2>1
  <2>3. OwnRequest' /\ OwnFrame' BY <1>1, <1>3, <1>5, <2>2, CallsShift
  <2>4. OwnKinds' BY <2>1, <1>1, <1>2, <1>7, KindsNext DEF OwnKinds
  <2> QED BY <2>3, <2>4, <1>4 DEF Calls, CallOpen
<1> QED BY <1>6, <1>7

\* The answer of the call is read.
LEMMA CallAnswered ==
  ASSUME TypeOK, Calls, call' = NoCall, Taken, frames # << >>, Own(The), requests' = requests
  PROVE  Calls'
<1>1. /\ UNCHANGED <<registering, cancelling>> /\ Len(frames) \in Nat
      /\ DOMAIN frames = 1..Len(frames) /\ DOMAIN frames' = 1..(Len(frames) - 1)
      /\ \A i \in 1..(Len(frames) - 1) : frames'[i] = frames[i + 1]
      /\ \A f \in Range(frames') : f \in Range(frames)
      /\ The = frames[1] /\ 1 \in DOMAIN frames
  BY TheFrame
<1>2. /\ \A i \in DOMAIN requests : requests[i].internal
      /\ \A i \in DOMAIN frames : i # 1 => ~Own(frames[i])
      /\ Elsewhere
  BY <1>1, OnlyThere
<1>3. \A i \in DOMAIN frames' : ~Own(frames'[i])
  BY <1>1, <1>2
<1>4. Free' BY <1>1, <1>2, <1>3 DEF Free, Elsewhere, Own
<1>5. OwnRequest' /\ OwnFrame' /\ OwnOperation'
  BY <1>4 DEF Free, Elsewhere, OwnRequest, OwnFrame, OwnOperation
<1>6. OwnKinds' BY <1>1, KindsNext DEF Calls, OwnKinds
<1> QED BY <1>5, <1>6 DEF Calls, NoCall

\* The blocking call is in one place when a frame is read.
LEMMA CallsReads ==
  ASSUME TypeOK, TypeOK', Calls, Reads, Serving'
  PROVE  Calls'
<1>0. Taken /\ frames # << >>
  BY DEF Reads, ReadReport, ReadResubscribing, ResubscribingOverflows, ReadResubscribed,
         ReadBarrier, ReadError, RefuseFrame, ReadCancelled, RefuseCancelled,
         ReadUnsubscribed, ReadSubscribed, ReadNotSubscribed, Received
<1>1. PICK t \in Subs : t = The.sub BY <1>0, TheFrame
<1>2. /\ sub \in [Subs -> Rows] /\ sub[t] \in Rows
      /\ call \in CallsOf \cup {NoCall}
      /\ Request("unsubscribe", t, sub[t].generation, TRUE) \in Requests
  BY MessageTypes DEF TypeOK, ConnectionOK, Rows, Replies
<1>3. ASSUME call' = call,
             \A s \in Subs : Status(s)' # Status(s) =>
               Status(s)' \in {"closing", "closed"} \/ Status(s) \in {"active", "recovering"}
      PROVE  CallOpen'
  <2>1. call.op = "subscribe" => call.sub \in Subs BY <1>2 DEF CallsOf, NoCall
  <2>2. call.op = "subscribe" => Status(call.sub) \in {"establishing", "closing", "closed"}
    BY DEF Calls
  <2>3. call.op = "subscribe" =>
          Status(call.sub)' \in {"establishing", "closing", "closed"}
    <3> SUFFICES ASSUME call.op = "subscribe"
                 PROVE  Status(call.sub)' \in {"establishing", "closing", "closed"}
      OBVIOUS
    <3>1. PICK s \in Subs : s = call.sub BY <2>1
    <3>2. Status(s)' \in {"establishing", "closing", "closed"} BY <2>2, <3>1, <1>3
    <3> QED BY <3>1, <3>2, <1>3 DEF Status
  <2> QED BY <2>3, <1>3 DEF CallOpen
<1>4. ASSUME CancelSubscription(t, 1), Status(t) \in {"active", "recovering"} PROVE Calls'
  <2>1. PICK x \in Requests : x = Request("unsubscribe", t, sub[t].generation, TRUE) BY <1>2
  <2>2. x.internal /\ x.op = "unsubscribe" BY <2>1 DEF Request
  <2>3. requests' = requests \/ requests' = Append(requests, x)
    BY <2>1, <1>4 DEF CancelSubscription
  <2>4. \A s \in Subs \ {t} : sub'[s] = sub[s] BY <1>2, <1>4 DEF CancelSubscription
  <2>5. CallOpen' BY <2>4, <1>3, <1>4 DEF CancelSubscription, Status
  <2> QED BY <2>2, <2>3, <2>5, <1>0, <1>4, CallUnread DEF CancelSubscription
<1>5. ASSUME call' = call, requests' = requests,
             \A s \in Subs : Status(s)' # Status(s) =>
               Status(s)' \in {"closing", "closed"} \/ Status(s) \in {"active", "recovering"}
      PROVE  Calls'
  BY <1>0, <1>3, <1>5, CallUnread
<1>6. CASE ReadReport
  <2>1. CASE UNCHANGED sub /\ Rest BY <2>1, <1>5 DEF Rest, Status
  <2> QED BY <2>1, <1>1, <1>4, <1>6 DEF ReadReport
<1>7. CASE ReadResubscribing
  <2>1. Rest /\ (FirstAttempt(The) \/ NextAttempt(The)) BY <1>7 DEF ReadResubscribing
  <2>2. Status(t) \in {"active", "recovering"} BY <2>1, <1>1 DEF FirstAttempt, NextAttempt
  <2>3. \A s \in Subs \ {t} : sub'[s] = sub[s] BY <1>1, <1>2, <1>7 DEF ReadResubscribing
  <2> QED BY <2>1, <2>2, <2>3, <1>5 DEF Rest, Status
<1>8. CASE ReadResubscribed
  <2>1. Status(t) = "recovering" BY <1>1, <1>8 DEF ReadResubscribed, Recovered
  <2>2. CASE Rest /\ sub' = [sub EXCEPT ![t].status = "active"]
    <3>1. \A s \in Subs \ {t} : sub'[s] = sub[s] BY <2>2, <1>2
    <3> QED BY <2>1, <2>2, <3>1, <1>5 DEF Rest, Status
  <2> QED BY <2>1, <2>2, <1>1, <1>4, <1>8 DEF ReadResubscribed
<1>9. CASE ReadBarrier
  <2>1. /\ UNCHANGED <<call, requests>>
        /\ \/ sub' = [sub EXCEPT ![t].retiring = 0]
           \/ sub' = [sub EXCEPT ![t].status = "closed"]
    BY <1>1, <1>9 DEF ReadBarrier, Closed
  <2>2. \A s \in Subs : sub'[s].status \in {sub[s].status, "closed"}
    BY <2>1, <1>2 DEF Rows
  <2> QED BY <2>1, <2>2, <1>5 DEF Status
<1>10. CASE ReadError
  <2>1. Rest /\ sub' = [sub EXCEPT ![t].status = "closing", ![t].terminal = TRUE]
    BY <1>1, <1>10 DEF ReadError
  <2>2. \A s \in Subs : sub'[s].status \in {sub[s].status, "closing"}
    BY <2>1, <1>2 DEF Rows
  <2> QED BY <2>1, <2>2, <1>5 DEF Rest, Status
<1>11. CASE ReadCancelled
  <2>1. UNCHANGED <<sub, call, requests>> BY <1>11 DEF ReadCancelled
  <2> QED BY <2>1, <1>5 DEF Status
<1>12. CASE ReadUnsubscribed
  <2>1. Own(The) /\ call' = NoCall /\ requests' = requests
    BY <1>12 DEF ReadUnsubscribed, Received, The, Own, Replies, Stop, Serving
  <2> QED BY <2>1, <1>0, CallAnswered
<1>13. CASE ReadSubscribed \/ ReadNotSubscribed
  <2>1. The \in Range(frames) /\ The.kind = "subscribe"
    BY <1>0, <1>13, TheFrame DEF ReadSubscribed, ReadNotSubscribed, Received, The
  <2>2. Own(The) BY <2>1 DEF Calls, OwnKinds, Own, Replies
  <2>3. call' = NoCall /\ requests' = requests
    BY <1>13 DEF ReadSubscribed, ReadNotSubscribed, Stop, Serving
  <2> QED BY <2>2, <2>3, <1>0, CallAnswered
<1>14. ~ResubscribingOverflows /\ ~RefuseFrame /\ ~RefuseCancelled
  BY DEF ResubscribingOverflows, RefuseFrame, RefuseCancelled, Stop, Serving
<1> QED BY <1>6, <1>7, <1>8, <1>9, <1>10, <1>11, <1>12, <1>13, <1>14 DEF Reads

\* The blocking call is in one place when a caller or a receiver acts.
LEMMA CallsConnection ==
  ASSUME TypeOK, TypeOK', Calls, NEW t \in Subs, Serving',
         JoinReturns \/ CallSubscribe(t) \/ CallUnsubscribe(t) \/ Down(t)
  PROVE  Calls'
<1>1. /\ sub \in [Subs -> Rows] /\ sub[t] \in Rows
      /\ call \in CallsOf \cup {NoCall}
      /\ \A b \in BOOLEAN : Request("unsubscribe", t, sub[t].generation, b) \in Requests
      /\ Request("subscribe", t, 1, FALSE) \in Requests
  BY MessageTypes DEF TypeOK, ConnectionOK, Rows, Replies
<1>2. UNCHANGED <<frames, registering, cancelling>>
  BY DEF JoinReturns, CallSubscribe, CallUnsubscribe, Down, native
<1>3. CASE CallSubscribe(t)
  <2>1. PICK x \in Requests : x = Request("subscribe", t, 1, FALSE) BY <1>1
  <2>2. ~x.internal /\ x.op = "subscribe" /\ x.sub = t BY <2>1 DEF Request
  <2>3. sub'[t].status = "establishing"
    <3>1. sub' = [sub EXCEPT ![t].status = "establishing", ![t].generation = 1]
      BY <1>3 DEF CallSubscribe
    <3> QED BY <3>1, <1>1 DEF Rows
  <2>4. call' = [op |-> "subscribe", sub |-> t] BY <1>3 DEF CallSubscribe
  <2>5. CallOpen' BY <2>3, <2>4 DEF CallOpen, Status
  <2> QED BY <2>1, <2>2, <2>4, <2>5, <1>2, <1>3, CallSent DEF CallSubscribe
<1>4. ASSUME call = NoCall \/ call.op = "join", call' = NoCall \/ call' = [op |-> "join", sub |-> t],
             requests' = requests
      PROVE  Calls'
  <2>1. Free BY <1>4, NobodyIsFree DEF NoCall, Replies
  <2>2. Free' BY <2>1, <1>2, <1>4 DEF Free, Elsewhere, Own
  <2>3. OwnRequest' /\ OwnFrame' /\ OwnOperation'
    BY <2>2 DEF Free, Elsewhere, OwnRequest, OwnFrame, OwnOperation
  <2>4. OwnKinds' BY <1>2, <1>4, KindsNext DEF Calls, OwnKinds
  <2>5. call'.op # "subscribe" BY <1>4 DEF NoCall
  <2> QED BY <2>3, <2>4, <2>5 DEF Calls
<1>5. CASE JoinReturns BY <1>4, <1>5 DEF JoinReturns
<1>6. CASE CallUnsubscribe(t) /\ Awake(t) /\ call' = [op |-> "unsubscribe", sub |-> t]
  <2>1. PICK x \in Requests : x = Request("unsubscribe", t, sub[t].generation, FALSE) BY <1>1
  <2>2. ~x.internal /\ x.op = "unsubscribe" /\ x.sub = t BY <2>1 DEF Request
  <2>3. requests' = Append(requests, x) /\ call = NoCall
    BY <2>1, <1>6 DEF CallUnsubscribe
  <2>4. CallOpen' BY <1>6 DEF CallOpen
  <2> QED BY <2>2, <2>3, <2>4, <1>2, <1>6, CallSent
<1>7. CASE CallUnsubscribe(t) /\ call' = [op |-> "join", sub |-> t]
  <2>1. requests' = requests /\ call = NoCall BY <1>7 DEF CallUnsubscribe
  <2> QED BY <2>1, <1>4, <1>7
<1>8. CASE Down(t)
  <2>1. PICK x \in Requests : x = Request("unsubscribe", t, sub[t].generation, TRUE) BY <1>1
  <2>2. x.internal /\ x.op = "unsubscribe" BY <2>1 DEF Request
  <2>3. /\ requests' = requests \/ requests' = Append(requests, x)
        /\ call' = call /\ sub' = [sub EXCEPT ![t].status = "closing"]
    BY <2>1, <1>8 DEF Down, CancelSubscription, CancelEstablishing
  <2>4. \A s \in Subs : sub'[s].status \in {sub[s].status, "closing"}
    BY <2>3, <1>1 DEF Rows
  <2>5. call.op = "subscribe" => call.sub \in Subs BY <1>1 DEF CallsOf, NoCall
  <2>6. CallOpen' BY <2>3, <2>4, <2>5 DEF CallOpen, Calls, Status
  <2> QED BY <2>2, <2>3, <2>6, <1>2, CallKept
<1>9. CallUnsubscribe(t) =>
        \/ Awake(t) /\ call' = [op |-> "unsubscribe", sub |-> t]
        \/ call' = [op |-> "join", sub |-> t]
  BY DEF CallUnsubscribe
<1> QED BY <1>3, <1>5, <1>6, <1>7, <1>8, <1>9

\* The host leaves the connection alone.
LEMMA CallStays ==
  ASSUME Calls, HostStep
  PROVE  call' = call /\ CallOpen' /\ OwnKinds
  BY DEF Calls, CallOpen, HostStep, connection, Status

\* A stream reports, or its record goes.
LEMMA CallsStreams ==
  ASSUME TypeOK, TypeOK', Calls, NEW t \in Subs,
         RecordErased(t) \/ EmitReport(t) \/ EmitFailure(t) \/ EmitResubscribing(t)
           \/ EmitResubscribed(t)
  PROVE  Calls'
<1>1. HostStep /\ UNCHANGED <<requests, registering, cancelling>>
  BY DEF RecordErased, EmitReport, EmitFailure, EmitResubscribing, EmitResubscribed, Callback
<1>2. /\ frames \in Seq(Frames) /\ stream[t] \in Streams
      /\ stream[t].generation \in Nat /\ stream[t].attempt \in Nat
      /\ stream[t].generation + 1 \in Nat /\ stream[t].attempt + 1 \in Nat
  BY DEF TypeOK, HostOK, Streams
<1>3. /\ call' = call /\ CallOpen' /\ OwnKinds /\ OwnRequest /\ OwnFrame /\ OwnOperation
  BY <1>1, CallStays DEF Calls
<1>4. OwnOperation' /\ (Elsewhere => Elsewhere') BY <1>1, <1>3 DEF OwnOperation, Elsewhere
<1>5. \A i \in DOMAIN requests' : i + 0 \in DOMAIN requests /\ requests'[i] = requests[i + 0]
  BY <1>1 DEF TypeOK, HostOK
<1>6. ASSUME \A i \in DOMAIN frames' : Own(frames'[i]) =>
               i + 0 \in DOMAIN frames /\ frames'[i] = frames[i + 0],
             \A f \in Range(frames') : f \in Range(frames) \/ f.kind # "subscribe"
      PROVE  Calls'
  <2>1. OwnRequest' /\ OwnFrame' BY <1>3, <1>4, <1>5, <1>6, CallsShift
  <2>2. OwnKinds' BY <1>1, <1>3, <1>6, KindsNext DEF OwnKinds
  <2> QED BY <2>1, <2>2, <1>3, <1>4 DEF Calls, CallOpen
<1>7. ASSUME NEW f \in Frames, f.kind \in Events, Writes(<<f>>) PROVE Calls'
  <2>1. /\ Len(frames) \in Nat /\ DOMAIN frames = 1..Len(frames)
        /\ DOMAIN frames' = 1..(Len(frames) + 1)
        /\ \A i \in 1..Len(frames) : frames'[i] = frames[i]
        /\ frames'[Len(frames) + 1] = f
    BY <1>2, <1>7, AppendFacts DEF Writes
  <2>2. ~Own(f) BY <1>7 DEF Own, Events, Replies
  <2>3. ASSUME NEW i \in DOMAIN frames', Own(frames'[i])
        PROVE  i + 0 \in DOMAIN frames /\ frames'[i] = frames[i + 0]
    <3>1. i # Len(frames) + 1 BY <2>1, <2>2, <2>3
    <3> QED BY <3>1, <2>1
  <2>4. \A g \in Range(frames') : g \in Range(frames) \/ g.kind # "subscribe"
    BY <1>2, <1>7, WritesRange DEF Events
  <2> QED BY <2>3, <2>4, <1>6
<1>8. ASSUME NEW f \in Frames, f.kind \in Events, NEW g \in Frames, g.kind \in Events,
             Writes(<<f, g>>)
      PROVE  Calls'
  <2>1. /\ Len(frames) \in Nat /\ DOMAIN frames = 1..Len(frames)
        /\ DOMAIN frames' = 1..(Len(frames) + 2)
        /\ \A i \in 1..Len(frames) : frames'[i] = frames[i]
        /\ frames'[Len(frames) + 1] = f /\ frames'[Len(frames) + 2] = g
    BY <1>2, <1>8 DEF Writes
  <2>2. ~Own(f) /\ ~Own(g) BY <1>8 DEF Own, Events, Replies
  <2>3. ASSUME NEW i \in DOMAIN frames', Own(frames'[i])
        PROVE  i + 0 \in DOMAIN frames /\ frames'[i] = frames[i + 0]
    <3>1. i # Len(frames) + 1 /\ i # Len(frames) + 2 BY <2>1, <2>2, <2>3
    <3> QED BY <3>1, <2>1
  <2>4. \A h \in Range(frames') : h \in Range(frames) \/ h.kind # "subscribe"
    <3>1. Range(frames') = Range(frames) \cup {f, g} BY <1>2, <1>8, WritesRange
    <3>2. f.kind # "subscribe" /\ g.kind # "subscribe" BY <1>8 DEF Events
    <3> QED BY <3>1, <3>2
  <2> QED BY <2>3, <2>4, <1>6
<1>9. CASE RecordErased(t)
  <2>1. UNCHANGED frames BY <1>9 DEF RecordErased
  <2>2. \A i \in DOMAIN frames' : i + 0 \in DOMAIN frames /\ frames'[i] = frames[i + 0]
    BY <2>1, <1>2
  <2> QED BY <2>1, <2>2, <1>6
<1>10. \A k \in Events, a, b \in Nat :
         Event(k, t, a, b) \in Frames /\ Event(k, t, a, b).kind \in Events
  BY MessageTypes DEF Event
<1>11. CASE EmitReport(t)
  BY <1>2, <1>7, <1>10, <1>11 DEF EmitReport, Events
<1>12. CASE EmitFailure(t)
  BY <1>2, <1>8, <1>10, <1>12 DEF EmitFailure, Events
<1>13. CASE EmitResubscribing(t)
  BY <1>2, <1>7, <1>8, <1>10, <1>13 DEF EmitResubscribing, Events
<1>14. CASE EmitResubscribed(t)
  BY <1>2, <1>7, <1>10, <1>14 DEF EmitResubscribed, Events
<1> QED BY <1>9, <1>11, <1>12, <1>13, <1>14

\* The host reads a request that is not the call's, or answers one.
LEMMA CallPassed ==
  ASSUME TypeOK, TypeOK', Calls, HostStep, OwnOperation', Elsewhere => Elsewhere',
         cancelling' # NoRequest => cancelling'.op = "unsubscribe",
         NEW a \in {0, 1},
         \A i \in DOMAIN requests' : ~requests'[i].internal =>
           i + a \in DOMAIN requests /\ requests'[i] = requests[i + a],
         \A r \in Range(requests') : r \in Range(requests),
         \/ frames' = frames
         \/ \E f \in Frames : f.internal /\ f.kind = "unsubscribe" /\ Writes(<<f>>)
         \/ \E e, f \in Frames : /\ e.kind \in Events /\ f.internal
                                 /\ f.kind = "unsubscribe" /\ Writes(<<e, f>>)
  PROVE  Calls'
<1>1. frames \in Seq(Frames) BY DEF TypeOK, HostOK
<1>2. /\ call' = call /\ CallOpen' /\ OwnKinds /\ OwnRequest /\ OwnFrame
  BY CallStays DEF Calls
<1>3. ASSUME \A i \in DOMAIN frames' : Own(frames'[i]) =>
               i + 0 \in DOMAIN frames /\ frames'[i] = frames[i + 0],
             \A f \in Range(frames') : f \in Range(frames) \/ f.kind # "subscribe"
      PROVE  Calls'
  <2>1. OwnRequest' /\ OwnFrame' BY <1>2, <1>3, CallsShift
  <2>2. OwnKinds' BY <1>2, <1>3, KindsNext
  <2> QED BY <2>1, <2>2, <1>2 DEF Calls, CallOpen
<1>4. CASE frames' = frames
  <2>1. \A i \in DOMAIN frames' : i + 0 \in DOMAIN frames /\ frames'[i] = frames[i + 0]
    BY <1>1, <1>4
  <2> QED BY <2>1, <1>3, <1>4
<1>5. ASSUME NEW f \in Frames, f.internal, f.kind = "unsubscribe", Writes(<<f>>)
      PROVE  Calls'
  <2>1. /\ Len(frames) \in Nat /\ DOMAIN frames = 1..Len(frames)
        /\ DOMAIN frames' = 1..(Len(frames) + 1)
        /\ \A i \in 1..Len(frames) : frames'[i] = frames[i]
        /\ frames'[Len(frames) + 1] = f
    BY <1>1, <1>5, AppendFacts DEF Writes
  <2>2. ~Own(f) BY <1>5 DEF Own
  <2>3. ASSUME NEW i \in DOMAIN frames', Own(frames'[i])
        PROVE  i + 0 \in DOMAIN frames /\ frames'[i] = frames[i + 0]
    <3>1. i # Len(frames) + 1 BY <2>1, <2>2, <2>3
    <3> QED BY <3>1, <2>1
  <2>4. \A g \in Range(frames') : g \in Range(frames) \/ g.kind # "subscribe"
    <3>1. Range(frames') = Range(frames) \cup {f} BY <1>1, <1>5, WritesRange
    <3> QED BY <3>1, <1>5
  <2> QED BY <2>3, <2>4, <1>3
<1>6. ASSUME NEW e \in Frames, NEW f \in Frames, e.kind \in Events, f.internal,
             f.kind = "unsubscribe", Writes(<<e, f>>)
      PROVE  Calls'
  <2>1. /\ Len(frames) \in Nat /\ DOMAIN frames = 1..Len(frames)
        /\ DOMAIN frames' = 1..(Len(frames) + 2)
        /\ \A i \in 1..Len(frames) : frames'[i] = frames[i]
        /\ frames'[Len(frames) + 1] = e /\ frames'[Len(frames) + 2] = f
    BY <1>1, <1>6 DEF Writes
  <2>2. ~Own(e) /\ ~Own(f) BY <1>6 DEF Own, Events, Replies
  <2>3. ASSUME NEW i \in DOMAIN frames', Own(frames'[i])
        PROVE  i + 0 \in DOMAIN frames /\ frames'[i] = frames[i + 0]
    <3>1. i # Len(frames) + 1 /\ i # Len(frames) + 2 BY <2>1, <2>2, <2>3
    <3> QED BY <3>1, <2>1
  <2>4. \A h \in Range(frames') : h \in Range(frames) \/ h.kind # "subscribe"
    <3>1. Range(frames') = Range(frames) \cup {e, f} BY <1>1, <1>6, WritesRange
    <3>2. e.kind # "subscribe" /\ f.kind # "subscribe" BY <1>6 DEF Events
    <3> QED BY <3>1, <3>2
  <2> QED BY <2>3, <2>4, <1>3
<1> QED BY <1>4, <1>5, <1>6

\* The answer of the call is written; the call is nowhere else any more.
LEMMA CallReplied ==
  ASSUME TypeOK, Calls, HostStep, NEW f \in Frames, f.kind \in Replies, ~f.internal,
         call = [op |-> f.kind, sub |-> f.sub],
         \A i \in DOMAIN frames : ~Own(frames[i]),
         \A i \in DOMAIN requests' : requests'[i].internal,
         \A r \in Range(requests') : r \in Range(requests),
         cancelling' # NoRequest => cancelling'.op = "unsubscribe", Elsewhere',
         \/ Writes(<<f>>)
         \/ \E e \in Frames : e.kind \in Events /\ Writes(<<e, f>>)
  PROVE  Calls'
<1>1. frames \in Seq(Frames) BY DEF TypeOK, HostOK
<1>2. call' = call /\ CallOpen' /\ OwnKinds BY CallStays DEF Calls
<1>3. CASE Writes(<<f>>)
  <2>1. OwnRequest' /\ OwnFrame' /\ OwnOperation' BY <1>2, <1>3, OwnAnswer
  <2>2. Range(frames') = Range(frames) \cup {f} BY <1>1, <1>3, WritesRange
  <2>3. OwnKinds' BY <2>2, <1>2, KindsNext
  <2> QED BY <2>1, <2>3, <1>2 DEF Calls, CallOpen
<1>4. ASSUME NEW e \in Frames, e.kind \in Events, Writes(<<e, f>>) PROVE Calls'
  <2>1. /\ Len(frames) \in Nat /\ DOMAIN frames = 1..Len(frames)
        /\ DOMAIN frames' = 1..(Len(frames) + 2)
        /\ \A i \in 1..Len(frames) : frames'[i] = frames[i]
        /\ frames'[Len(frames) + 1] = e /\ frames'[Len(frames) + 2] = f
    BY <1>1, <1>4 DEF Writes
  <2>2. ~Own(e) BY <1>4 DEF Own, Events, Replies
  <2>3. \A i \in DOMAIN frames' : Own(frames'[i]) => i = Len(frames) + 2 BY <2>1, <2>2
  <2>4. OwnFrame' BY <2>1, <2>3, <1>2 DEF OwnFrame, Own
  <2>5. OwnRequest' /\ OwnOperation' BY DEF OwnRequest, OwnOperation, Elsewhere
  <2>6. Range(frames') = Range(frames) \cup {e, f} BY <1>1, <1>4, WritesRange
  <2>7. e.kind # "subscribe" BY <1>4 DEF Events
  <2>8. OwnKinds' BY <2>6, <2>7, <1>2, KindsNext
  <2> QED BY <2>4, <2>5, <2>8, <1>2 DEF Calls, CallOpen
<1> QED BY <1>3, <1>4

\* The call is the request the host reads: it is nowhere else.
LEMMA HeadIsCall ==
  ASSUME TypeOK, Calls, NEW op, Reading(op), ~Head(requests).internal
  PROVE  /\ call = [op |-> Head(requests).op, sub |-> Head(requests).sub]
         /\ \A i \in DOMAIN frames : ~Own(frames[i])
         /\ Elsewhere
         /\ \A i \in DOMAIN requests' : requests'[i].internal
<1>1. /\ Head(requests) = requests[1] /\ 1 \in DOMAIN requests
      /\ Len(requests) \in Nat /\ DOMAIN requests = 1..Len(requests)
      /\ DOMAIN requests' = 1..(Len(requests) - 1)
      /\ \A i \in 1..(Len(requests) - 1) : requests'[i] = requests[i + 1]
  BY TheRequest
<1>2. /\ \A i \in DOMAIN requests : i # 1 => requests[i].internal
      /\ \A i \in DOMAIN frames : ~Own(frames[i])
      /\ Elsewhere
  BY <1>1, OnlyThere
<1>3. call = [op |-> Head(requests).op, sub |-> Head(requests).sub]
  BY <1>1 DEF Calls, OwnRequest
<1>4. \A i \in DOMAIN requests' : requests'[i].internal BY <1>1, <1>2
<1> QED BY <1>2, <1>3, <1>4

\* The blocking call is in one place when the host takes a subscription.
LEMMA CallsSubscribe ==
  ASSUME TypeOK, TypeOK', Calls, HostSubscribe
  PROVE  Calls'
<1>1. PICK r \in Requests : r = Head(requests) BY TheRequest DEF HostSubscribe
<1>2. /\ r \in Range(requests) /\ r.op = "subscribe" /\ r.sub \in Subs
      /\ \A x \in Range(requests') : x \in Range(requests)
      /\ HostStep /\ UNCHANGED cancelling /\ Reading("subscribe")
  BY <1>1, TheRequest DEF HostSubscribe
<1>3. ~r.internal BY <1>2 DEF Calls, OwnKinds
<1>4. /\ call = [op |-> "subscribe", sub |-> r.sub]
      /\ \A i \in DOMAIN frames : ~Own(frames[i])
      /\ Elsewhere
      /\ \A i \in DOMAIN requests' : requests'[i].internal
  BY <1>1, <1>2, <1>3, HeadIsCall
<1>5. call' = call /\ CallOpen' /\ OwnKinds BY <1>2, CallStays
<1>6. cancelling' # NoRequest => cancelling'.op = "unsubscribe" BY <1>2, <1>5 DEF OwnKinds
<1>7. CASE registering' = [sub |-> r.sub, stage |-> "wait"] /\ UNCHANGED frames
           /\ cancelling = NoRequest
  <2>1. OwnRequest' BY <1>4 DEF OwnRequest
  <2>2. OwnFrame' BY <1>4, <1>7 DEF OwnFrame, Own
  <2>3. OwnOperation' BY <1>2, <1>4, <1>5, <1>7 DEF OwnOperation
  <2>4. OwnKinds' BY <1>2, <1>5, <1>6, <1>7, KindsNext
  <2> QED BY <2>1, <2>2, <2>3, <2>4, <1>5 DEF Calls, CallOpen
<1>8. CASE Writes(<<Reply(r, "busy")>>) /\ UNCHANGED registering
  <2>1. PICK f \in Frames : f = Reply(r, "busy") BY MessageTypes DEF Results
  <2>2. f.kind = "subscribe" /\ f.sub = r.sub /\ ~f.internal
    BY <2>1, <1>2, <1>3, ReplyFields
  <2>3. Elsewhere' BY <1>2, <1>4, <1>8 DEF Elsewhere
  <2>4. Writes(<<f>>) /\ f.kind \in Replies BY <2>1, <2>2, <1>8 DEF Replies
  <2> QED BY <2>2, <2>3, <2>4, <1>2, <1>4, <1>6, CallReplied
<1> QED BY <1>1, <1>7, <1>8 DEF HostSubscribe

\* The host is done with the backend's part of a subscription.
LEMMA CallsRegistering ==
  ASSUME TypeOK, TypeOK', Calls, HostRefuses \/ HostReplies
  PROVE  Calls'
<1>1. registering.stage \in {"wait", "added"} /\ registering.sub \in Subs
  BY DEF HostRefuses, HostReplies, TypeOK, HostOK, Idle
<1>2. PICK t \in Subs : t = registering.sub BY <1>1
<1>3. PICK r \in Requests : r = Request("subscribe", t, 1, FALSE)
  BY MessageTypes DEF Replies
<1>4. r.op = "subscribe" /\ r.sub = t /\ ~r.internal BY <1>3 DEF Request
<1>5. HostStep /\ UNCHANGED <<requests, cancelling>> /\ registering'.stage \notin {"wait", "added"}
  BY DEF HostRefuses, HostReplies, Idle, TypeOK, HostOK
<1>6. /\ call = [op |-> "subscribe", sub |-> t]
      /\ \A i \in DOMAIN requests : requests[i].internal
      /\ \A i \in DOMAIN frames : ~Own(frames[i])
      /\ cancelling = NoRequest \/ cancelling.internal
  BY <1>1, <1>2, OnlyThere DEF Calls, OwnOperation
<1>7. Elsewhere' BY <1>5, <1>6 DEF Elsewhere
<1>8. cancelling' # NoRequest => cancelling'.op = "unsubscribe"
  BY <1>5 DEF Calls, OwnKinds
<1>9. PICK x \in {"ok", "failed"} : Writes(<<Reply(r, x)>>)
  BY <1>2, <1>3 DEF HostRefuses, HostReplies
<1>10. PICK f \in Frames : f = Reply(r, x) BY MessageTypes DEF Results
<1>11. f.kind = "subscribe" /\ f.sub = t /\ ~f.internal BY <1>4, <1>10, ReplyFields
<1>12. Writes(<<f>>) /\ f.kind \in Replies BY <1>9, <1>10, <1>11 DEF Replies
<1> QED BY <1>5, <1>6, <1>7, <1>8, <1>11, <1>12, CallReplied

\* The host moves on in a subscription and writes nothing.
LEMMA CallsMoves ==
  ASSUME TypeOK, TypeOK', Calls, AddStream \/ HostActivates
  PROVE  Calls'
<1>1. HostStep /\ UNCHANGED <<requests, frames, cancelling>>
  BY DEF AddStream, HostActivates
<1>2. \/ registering' = Idle
      \/ registering.stage = "wait" /\ registering'.stage = "added"
           /\ registering'.sub = registering.sub
  BY DEF AddStream, HostActivates, TypeOK, HostOK, Idle
<1>3. call' = call BY <1>1, CallStays
<1>4. OwnOperation' BY <1>1, <1>2, <1>3 DEF Calls, OwnOperation, Idle
<1>5. Elsewhere => Elsewhere' BY <1>1, <1>2 DEF Elsewhere, Idle
<1>6. \A i \in DOMAIN requests' : i + 0 \in DOMAIN requests /\ requests'[i] = requests[i + 0]
  BY <1>1 DEF TypeOK, HostOK
<1>7. cancelling' # NoRequest => cancelling'.op = "unsubscribe"
  BY <1>1 DEF Calls, OwnKinds
<1> QED BY <1>1, <1>4, <1>5, <1>6, <1>7, CallPassed

\* The blocking call is in one place when the host takes a cancellation.
LEMMA CallsUnsubscribe ==
  ASSUME TypeOK, TypeOK', Calls, HostUnsubscribe
  PROVE  Calls'
<1>1. PICK r \in Requests : r = Head(requests) BY TheRequest DEF HostUnsubscribe
<1>2. /\ r \in Range(requests) /\ r.op = "unsubscribe" /\ r.sub \in Subs
      /\ \A x \in Range(requests') : x \in Range(requests)
      /\ HostStep /\ UNCHANGED registering /\ Reading("unsubscribe")
      /\ Len(requests) \in Nat /\ DOMAIN requests = 1..Len(requests)
      /\ DOMAIN requests' = 1..(Len(requests) - 1)
      /\ \A i \in 1..(Len(requests) - 1) : requests'[i] = requests[i + 1]
  BY <1>1, TheRequest DEF HostUnsubscribe
<1>3. call' = call /\ CallOpen' /\ OwnKinds BY <1>2, CallStays
<1>4. \/ cancelling = NoRequest /\ cancelling' = r /\ UNCHANGED frames
      \/ /\ UNCHANGED cancelling
         /\ \E x \in Results : Writes(<<Reply(r, x)>>)
  <2>1. Verdict(r) \in Results \/ Verdict(r) = "cancel" BY DEF Verdict, Results
  <2>2. Verdict(r) = "cancel" => cancelling = NoRequest BY DEF Verdict
  <2>3. "cancel" \notin Results BY DEF Results
  <2> QED BY <1>1, <2>1, <2>2, <2>3 DEF HostUnsubscribe
<1>5. cancelling' # NoRequest => cancelling'.op = "unsubscribe"
  BY <1>2, <1>3, <1>4 DEF OwnKinds
<1>6. CASE r.internal
  <2>1. \A i \in DOMAIN requests' : i + 1 \in DOMAIN requests /\ requests'[i] = requests[i + 1]
    BY <1>2
  <2>2. Elsewhere => Elsewhere' BY <1>2, <1>4, <1>6 DEF Elsewhere
  <2>3. OwnOperation' BY <1>2, <1>3, <1>4, <1>6 DEF Calls, OwnOperation
  <2>4. \/ frames' = frames
        \/ \E f \in Frames : f.internal /\ f.kind = "unsubscribe" /\ Writes(<<f>>)
    <3>1. ASSUME NEW x \in Results, Writes(<<Reply(r, x)>>)
          PROVE  \E f \in Frames : f.internal /\ f.kind = "unsubscribe" /\ Writes(<<f>>)
      <4>1. PICK f \in Frames : f = Reply(r, x) BY MessageTypes
      <4>2. f.internal /\ f.kind = "unsubscribe" BY <4>1, <1>2, <1>6, ReplyFields
      <4> QED BY <4>1, <4>2, <3>1
    <3> QED BY <3>1, <1>4
  <2> QED BY <2>1, <2>2, <2>3, <2>4, <1>2, <1>5, CallPassed
<1>7. CASE ~r.internal
  <2>1. /\ call = [op |-> "unsubscribe", sub |-> r.sub]
        /\ \A i \in DOMAIN frames : ~Own(frames[i])
        /\ Elsewhere
        /\ \A i \in DOMAIN requests' : requests'[i].internal
    BY <1>1, <1>2, <1>7, HeadIsCall
  <2>2. CASE cancelling = NoRequest /\ cancelling' = r /\ UNCHANGED frames
    <3>1. OwnRequest' BY <2>1 DEF OwnRequest
    <3>2. OwnFrame' BY <2>1, <2>2 DEF OwnFrame, Own
    <3>3. OwnOperation' BY <2>1, <2>2, <1>2, <1>3 DEF OwnOperation, Elsewhere
    <3>4. OwnKinds' BY <2>2, <1>2, <1>3, <1>5, KindsNext
    <3> QED BY <3>1, <3>2, <3>3, <3>4, <1>3 DEF Calls, CallOpen
  <2>3. ASSUME UNCHANGED cancelling, NEW x \in Results, Writes(<<Reply(r, x)>>)
        PROVE  Calls'
    <3>1. PICK f \in Frames : f = Reply(r, x) BY MessageTypes
    <3>2. f.kind = "unsubscribe" /\ f.sub = r.sub /\ ~f.internal
      BY <3>1, <1>2, <1>7, ReplyFields
    <3>3. Writes(<<f>>) /\ f.kind \in Replies BY <3>1, <3>2, <2>3 DEF Replies
    <3>4. Elsewhere' BY <2>1, <2>3, <1>2 DEF Elsewhere
    <3> QED BY <3>2, <3>3, <3>4, <2>1, <1>2, <1>5, CallReplied
  <2> QED BY <2>2, <2>3, <1>4
<1> QED BY <1>6, <1>7

\* The blocking call is in one place when a cancellation returns.
LEMMA CallsCancelReturns ==
  ASSUME TypeOK, TypeOK', Calls, CancelReturns
  PROVE  Calls'
<1>1. PICK r \in Requests : r = cancelling BY DEF CancelReturns, TypeOK, HostOK
<1>2. PICK t \in Subs : t = r.sub BY DEF Requests
<1>3. r.op = "unsubscribe" /\ r.generation \in Nat /\ r.internal \in BOOLEAN
  BY <1>1 DEF CancelReturns, Calls, OwnKinds, Requests
<1>4. /\ HostStep /\ UNCHANGED <<requests, registering>> /\ cancelling' = NoRequest
      /\ cancelling # NoRequest
  BY DEF CancelReturns
<1>5. \/ \E x \in Results : Writes(<<Reply(r, x)>>)
      \/ Writes(<<Event("retired", t, r.generation, 0), Reply(r, "ok")>>)
      \/ UNCHANGED frames
  BY <1>1, <1>2 DEF CancelReturns, Results
<1>6. \/ frames' = frames
      \/ \E f \in Frames : /\ f.kind = "unsubscribe" /\ f.sub = t /\ f.internal = r.internal
                           /\ \/ Writes(<<f>>)
                              \/ \E e \in Frames : e.kind \in Events /\ Writes(<<e, f>>)
  <2>1. ASSUME NEW x \in Results
        PROVE  \E f \in Frames : /\ f = Reply(r, x) /\ f.kind = "unsubscribe" /\ f.sub = t
                                 /\ f.internal = r.internal
    <3>1. Reply(r, x) \in Frames BY MessageTypes
    <3> QED BY <3>1, <1>2, <1>3, ReplyFields
  <2>2. \E e \in Frames : e = Event("retired", t, r.generation, 0) /\ e.kind \in Events
    <3>1. Event("retired", t, r.generation, 0) \in Frames BY <1>3, MessageTypes DEF Events
    <3> QED BY <3>1 DEF Event, Events
  <2>3. "ok" \in Results BY DEF Results
  <2>4. ASSUME Writes(<<Event("retired", t, r.generation, 0), Reply(r, "ok")>>)
        PROVE  \E f \in Frames : /\ f.kind = "unsubscribe" /\ f.sub = t
                                 /\ f.internal = r.internal
                                 /\ \E e \in Frames : e.kind \in Events /\ Writes(<<e, f>>)
    <3>1. PICK f \in Frames : /\ f = Reply(r, "ok") /\ f.kind = "unsubscribe" /\ f.sub = t
                              /\ f.internal = r.internal
      BY <2>1, <2>3
    <3>2. PICK e \in Frames : e = Event("retired", t, r.generation, 0) /\ e.kind \in Events
      BY <2>2
    <3>3. Writes(<<e, f>>) BY <3>1, <3>2, <2>4
    <3> QED BY <3>1, <3>2, <3>3
  <2>5. ASSUME NEW x \in Results, Writes(<<Reply(r, x)>>)
        PROVE  \E f \in Frames : /\ f.kind = "unsubscribe" /\ f.sub = t
                                 /\ f.internal = r.internal /\ Writes(<<f>>)
    BY <2>1, <2>5
  <2> QED BY <2>4, <2>5, <1>5
<1>7. Elsewhere => Elsewhere' BY <1>4 DEF Elsewhere
<1>8. OwnOperation'
  <2>1. call' = call BY <1>4, CallStays
  <2> QED BY <2>1, <1>4 DEF Calls, OwnOperation
<1>9. CASE r.internal \/ frames' = frames
  <2>1. \/ frames' = frames
        \/ \E f \in Frames : f.internal /\ f.kind = "unsubscribe" /\ Writes(<<f>>)
        \/ \E e, f \in Frames : /\ e.kind \in Events /\ f.internal
                                /\ f.kind = "unsubscribe" /\ Writes(<<e, f>>)
    BY <1>6, <1>9
  <2>2. \A i \in DOMAIN requests' : i + 0 \in DOMAIN requests /\ requests'[i] = requests[i + 0]
    BY <1>4 DEF TypeOK, HostOK
  <2> QED BY <2>1, <2>2, <1>4, <1>7, <1>8, CallPassed
<1>10. CASE ~r.internal /\ frames' # frames
  <2>1. PICK f \in Frames : /\ f.kind = "unsubscribe" /\ f.sub = t /\ f.internal = r.internal
                            /\ \/ Writes(<<f>>)
                               \/ \E e \in Frames : e.kind \in Events /\ Writes(<<e, f>>)
    BY <1>6, <1>10
  <2>2. /\ call = [op |-> "unsubscribe", sub |-> t]
        /\ \A i \in DOMAIN requests : requests[i].internal
        /\ \A i \in DOMAIN frames : ~Own(frames[i])
        /\ registering.stage \notin {"wait", "added"}
    BY <1>1, <1>2, <1>4, <1>10, OnlyThere DEF Calls, OwnOperation
  <2>3. Elsewhere' BY <2>2, <1>4 DEF Elsewhere
  <2>4. f.kind \in Replies /\ ~f.internal BY <2>1, <1>10 DEF Replies
  <2>5. call = [op |-> f.kind, sub |-> f.sub] BY <2>1, <2>2
  <2> QED BY <2>1, <2>2, <2>3, <2>4, <2>5, <1>4, CallReplied
<1> QED BY <1>9, <1>10

\* The blocking call is in one place after every step.
LEMMA CallsNext ==
  ASSUME TypeOK, Calls, Next, Serving'
  PROVE  Calls'
<1>0. TypeOK' BY TypeNext
<1>1. CASE Reads BY <1>0, <1>1, CallsReads
<1>2. CASE HostSteps
  BY <1>0, <1>2, CallsSubscribe, CallsRegistering, CallsMoves, CallsUnsubscribe,
     CallsCancelReturns
  DEF HostSteps
<1>3. ~Timers BY DEF Timers, Expires, InputFailed, HostExits, Stop, Serving
<1>4. CASE JoinReturns
  <2>1. call \in CallsOf \cup {NoCall} BY DEF TypeOK, ConnectionOK
  <2>2. call.sub \in Subs BY <2>1, <1>4 DEF JoinReturns, CallsOf, NoCall
  <2> QED BY <2>2, <1>0, <1>4, CallsConnection
<1>5. ASSUME NEW t \in Subs,
             \/ CallSubscribe(t) \/ CallUnsubscribe(t) \/ Down(t)
             \/ RecordErased(t) \/ EmitReport(t) \/ EmitFailure(t)
             \/ EmitResubscribing(t) \/ EmitResubscribed(t)
      PROVE  Calls'
  BY <1>0, <1>5, CallsConnection, CallsStreams
<1> QED BY <1>1, <1>2, <1>3, <1>4, <1>5 DEF Next

-----------------------------------------------------------------------------
(* How the state of one subscription turns at the connection.              *)

Opened == {"establishing", "active", "recovering"}

Turns(s) ==
  \/ /\ Status(s)' = Status(s) /\ sub'[s].generation = sub[s].generation
     /\ terminals'[s] = terminals[s]
  \/ /\ Status(s) = "none" /\ Status(s)' = "establishing"
     /\ terminals'[s] = terminals[s] /\ session = "up"
  \/ /\ Status(s) \in Opened /\ Status(s)' \in {"active", "recovering"}
     /\ terminals'[s] = terminals[s]
  \/ /\ Status(s) \in Opened /\ Status(s)' = "closing"
     /\ sub'[s].generation = sub[s].generation
     /\ terminals'[s] \in {terminals[s], terminals[s] + 1}
     /\ s \in watched' \/ call' = [op |-> "unsubscribe", sub |-> s]
  \/ /\ Status(s) = "closing" /\ Status(s)' = "closed"
     /\ sub'[s].generation = sub[s].generation
     /\ terminals'[s] = terminals[s]
  \/ /\ Fresh(s) /\ Status(s)' = "none" /\ terminals'[s] = terminals[s]

\* A cancellation closes an open subscription.
LEMMA TurnsCancel ==
  ASSUME TypeOK, NEW t \in Subs, NEW told \in {0, 1}, NEW s \in Subs,
         Status(t) \in Opened, CancelSubscription(t, told) \/ CancelEstablishing(t, told)
  PROVE  Turns(s)
<1>1. sub \in [Subs -> Rows] /\ terminals \in [Subs -> Nat]
  BY DEF TypeOK, ConnectionOK
<1>2. /\ sub' = [sub EXCEPT ![t].status = "closing"] /\ t \in watched'
      /\ terminals' = [terminals EXCEPT ![t] = @ + told]
  BY DEF CancelSubscription, CancelEstablishing
<1>3. CASE s = t
  <2>1. sub'[t].status = "closing" /\ sub'[t].generation = sub[t].generation
    BY <1>1, <1>2 DEF Rows
  <2>2. terminals'[t] \in {terminals[t], terminals[t] + 1} BY <1>1, <1>2
  <2> QED BY <2>1, <2>2, <1>2, <1>3 DEF Turns, Status
<1>4. CASE s # t
  <2>1. sub'[s] = sub[s] /\ terminals'[s] = terminals[s] BY <1>1, <1>2, <1>4
  <2> QED BY <2>1 DEF Turns, Status
<1> QED BY <1>3, <1>4

\* A frame turns the state of its own subscription.
LEMMA TurnsReads ==
  ASSUME TypeOK, Reads, Serving', NEW s \in Subs
  PROVE  Turns(s)
<1>0. Taken /\ frames # << >>
  BY DEF Reads, ReadReport, ReadResubscribing, ResubscribingOverflows, ReadResubscribed,
         ReadBarrier, ReadError, RefuseFrame, ReadCancelled, RefuseCancelled,
         ReadUnsubscribed, ReadSubscribed, ReadNotSubscribed, Received
<1>1. PICK t \in Subs : t = The.sub BY <1>0, TheFrame
<1>2. sub \in [Subs -> Rows] /\ sub[t] \in Rows /\ terminals \in [Subs -> Nat]
  BY DEF TypeOK, ConnectionOK
<1>3. CASE UNCHANGED <<sub, terminals>> BY <1>3 DEF Turns, Status
<1>4. ASSUME terminals'[s] = terminals[s], s # t => sub'[s] = sub[s], s = t => Turns(t)
      PROVE  Turns(s)
  BY <1>4 DEF Turns, Status
<1>5. CASE ReadReport
  <2>1. \/ UNCHANGED <<sub, terminals>>
        \/ Status(t) = "active" /\ CancelSubscription(t, 1)
    BY <1>1, <1>5 DEF ReadReport
  <2> QED BY <2>1, <1>3, TurnsCancel DEF Opened
<1>6. CASE ReadResubscribing
  <2>1. UNCHANGED terminals /\ Status(t) \in {"active", "recovering"}
    BY <1>1, <1>6 DEF ReadResubscribing, FirstAttempt, NextAttempt
  <2>2. /\ \A x \in Subs \ {t} : sub'[x] = sub[x]
        /\ sub'[t].status \in {"active", "recovering"}
    <3>1. CASE FirstAttempt(The) /\ sub' = [sub EXCEPT ![t] =
             [status |-> "recovering", generation |-> The.generation,
              attempt |-> 1, retiring |-> @.generation, terminal |-> @.terminal]]
      BY <3>1, <1>2
    <3>2. CASE NextAttempt(The) /\ sub' = [sub EXCEPT ![t].attempt = The.attempt]
      <4>1. sub'[t].status = sub[t].status BY <3>2, <1>2 DEF Rows
      <4> QED BY <4>1, <3>2, <2>1, <1>2 DEF Status
    <3> QED BY <3>1, <3>2, <1>1, <1>6 DEF ReadResubscribing
  <2>3. Turns(t) BY <2>1, <2>2 DEF Turns, Opened, Status
  <2> QED BY <2>1, <2>2, <2>3, <1>4
<1>7. CASE ReadResubscribed
  <2>1. Status(t) = "recovering" BY <1>1, <1>7 DEF ReadResubscribed, Recovered
  <2>2. CASE sub' = [sub EXCEPT ![t].status = "active"] /\ UNCHANGED terminals
    <3>1. sub'[t].status = "active" /\ \A x \in Subs \ {t} : sub'[x] = sub[x]
      BY <2>2, <1>2 DEF Rows
    <3>2. Turns(t) BY <3>1, <2>1, <2>2 DEF Turns, Opened, Status
    <3> QED BY <3>1, <3>2, <2>2, <1>4
  <2> QED BY <2>1, <2>2, <1>1, <1>7, TurnsCancel DEF ReadResubscribed, Opened
<1>8. CASE ReadBarrier
  <2>1. /\ UNCHANGED terminals
        /\ \/ sub' = [sub EXCEPT ![t].retiring = 0]
           \/ Status(t) = "closing" /\ sub' = [sub EXCEPT ![t].status = "closed"]
    BY <1>1, <1>8 DEF ReadBarrier, Closed, RetiresStream
  <2>2. /\ \A x \in Subs \ {t} : sub'[x] = sub[x]
        /\ sub'[t].generation = sub[t].generation
        /\ \/ sub'[t].status = sub[t].status
           \/ Status(t) = "closing" /\ sub'[t].status = "closed"
    BY <2>1, <1>2 DEF Rows
  <2>3. Turns(t) BY <2>1, <2>2 DEF Turns, Status
  <2> QED BY <2>1, <2>2, <2>3, <1>4
<1>9. CASE ReadError
  <2>1. /\ sub' = [sub EXCEPT ![t].status = "closing", ![t].terminal = TRUE]
        /\ terminals' = IF Status(t) = "closing" THEN terminals
                        ELSE [terminals EXCEPT ![t] = @ + 1]
        /\ t \in watched' /\ Status(t) \notin {"none", "closed"}
    BY <1>1, <1>9 DEF ReadError, Named
  <2>2. /\ \A x \in Subs \ {t} : sub'[x] = sub[x]
        /\ sub'[t].generation = sub[t].generation /\ sub'[t].status = "closing"
    BY <2>1, <1>2 DEF Rows
  <2>3. Status(t) \in Opened \cup {"closing"} BY <2>1, <1>2 DEF Rows, Statuses, Opened, Status
  <2>4. CASE Status(t) = "closing"
    <3>1. Turns(t) BY <2>1, <2>2, <2>4 DEF Turns, Status
    <3> QED BY <3>1, <2>1, <2>2, <2>4, <1>4
  <2>5. CASE Status(t) \in Opened
    <3>1. Status(t) # "closing" BY <2>5 DEF Opened
    <3>2. terminals'[t] = terminals[t] + 1 /\ \A x \in Subs \ {t} : terminals'[x] = terminals[x]
      BY <3>1, <2>1, <1>2
    <3>3. Turns(t) BY <3>2, <2>1, <2>2, <2>5 DEF Turns, Status
    <3>4. CASE s # t BY <3>2, <3>4, <2>2, <1>4
    <3> QED BY <3>3, <3>4
  <2> QED BY <2>3, <2>4, <2>5
<1>10. CASE ReadCancelled \/ ReadUnsubscribed
  <2>1. UNCHANGED <<sub, terminals>>
    BY <1>10 DEF ReadCancelled, ReadUnsubscribed, Stop, Serving
  <2> QED BY <2>1, <1>3
<1>11. CASE ReadSubscribed
  <2>1. /\ UNCHANGED terminals /\ Status(t) = "establishing"
        /\ sub' = [sub EXCEPT ![t].status = "active"]
    BY <1>1, <1>11 DEF ReadSubscribed, Stop, Serving
  <2>2. sub'[t].status = "active" /\ \A x \in Subs \ {t} : sub'[x] = sub[x]
    BY <2>1, <1>2 DEF Rows
  <2>3. Turns(t) BY <2>1, <2>2 DEF Turns, Opened, Status
  <2> QED BY <2>1, <2>2, <2>3, <1>4
<1>12. CASE ReadNotSubscribed
  <2>1. /\ UNCHANGED terminals /\ The.kind = "subscribe" /\ The.result # "ok"
        /\ sub' = [sub EXCEPT ![t] = [status |-> "none", generation |-> 0, attempt |-> 0,
                                      retiring |-> 0, terminal |-> FALSE]]
    BY <1>1, <1>12 DEF ReadNotSubscribed, Received, The
  <2>2. sub'[t].status = "none" /\ \A x \in Subs \ {t} : sub'[x] = sub[x]
    BY <2>1, <1>2
  <2>3. Fresh(t) BY <2>1, <1>0, <1>1, TheFrame DEF Fresh
  <2>4. Turns(t) BY <2>1, <2>2, <2>3 DEF Turns, Status
  <2> QED BY <2>1, <2>2, <2>4, <1>4
<1>13. ~ResubscribingOverflows /\ ~RefuseFrame /\ ~RefuseCancelled
  BY DEF ResubscribingOverflows, RefuseFrame, RefuseCancelled, Stop, Serving
<1> QED BY <1>5, <1>6, <1>7, <1>8, <1>9, <1>10, <1>11, <1>12, <1>13 DEF Reads

\* A step of the host is none of the connection.
LEMMA HostStays ==
  ASSUME \/ HostSteps
         \/ \E t \in Subs : RecordErased(t) \/ EmitReport(t) \/ EmitFailure(t)
                              \/ EmitResubscribing(t) \/ EmitResubscribed(t)
  PROVE  HostStep
  BY DEF HostSteps, HostSubscribe, HostRefuses, AddStream, HostReplies, HostActivates,
         HostUnsubscribe, CancelReturns, RecordErased, EmitReport, EmitFailure,
         EmitResubscribing, EmitResubscribed, Callback

\* Every step of a serving session turns each subscription one way.
LEMMA TurnsNext ==
  ASSUME TypeOK, Next, Serving', NEW s \in Subs
  PROVE  Turns(s) /\ (session' = "up" => session = "up")
<1>1. sub \in [Subs -> Rows] /\ terminals \in [Subs -> Nat]
  BY DEF TypeOK, ConnectionOK
<1>2. CASE Reads
  <2>1. session' \in {session, "failing"}
    BY <1>2 DEF Reads, ReadReport, ReadResubscribing, ResubscribingOverflows, ReadResubscribed,
       ReadBarrier, ReadError, RefuseFrame, ReadCancelled, RefuseCancelled, ReadUnsubscribed,
       ReadSubscribed, ReadNotSubscribed, Stop, Serving, Rest, CancelSubscription, Closed,
       CompleteCancellation
  <2> QED BY <2>1, <1>2, TurnsReads
<1>3. ASSUME HostStep PROVE Turns(s) /\ session' = session
  BY <1>3 DEF HostStep, connection, Turns, Status
<1>4. ~Timers BY DEF Timers, Expires, InputFailed, HostExits, Stop, Serving
<1>5. CASE JoinReturns BY <1>5 DEF JoinReturns, Turns, Status
<1>6. ASSUME NEW t \in Subs, CallSubscribe(t)
      PROVE  Turns(s) /\ session' = session
  <2>1. /\ sub' = [sub EXCEPT ![t].status = "establishing", ![t].generation = 1]
        /\ UNCHANGED <<terminals, session>> /\ Status(t) = "none" /\ session = "up"
    BY <1>6 DEF CallSubscribe
  <2>2. sub'[t].status = "establishing" /\ \A x \in Subs \ {t} : sub'[x] = sub[x]
    BY <2>1, <1>1 DEF Rows
  <2>3. CASE s = t BY <2>1, <2>2, <2>3 DEF Turns, Status
  <2>4. CASE s # t BY <2>1, <2>2, <2>4 DEF Turns, Status
  <2> QED BY <2>1, <2>3, <2>4
<1>7. ASSUME NEW t \in Subs, CallUnsubscribe(t)
      PROVE  Turns(s) /\ session' = session
  <2>1. UNCHANGED <<terminals, session>> BY <1>7 DEF CallUnsubscribe
  <2>2. CASE UNCHANGED sub BY <2>1, <2>2 DEF Turns, Status
  <2>3. CASE /\ sub' = [sub EXCEPT ![t].status = "closing"] /\ Awake(t)
             /\ call' = [op |-> "unsubscribe", sub |-> t]
    <3>1. /\ sub'[t].status = "closing" /\ sub'[t].generation = sub[t].generation
          /\ \A x \in Subs \ {t} : sub'[x] = sub[x]
      BY <2>3, <1>1 DEF Rows
    <3>2. CASE s = t BY <3>1, <3>2, <2>1, <2>3 DEF Turns, Opened, Awake, Status
    <3>3. CASE s # t BY <3>1, <3>3, <2>1 DEF Turns, Status
    <3> QED BY <3>2, <3>3, <2>1
  <2> QED BY <2>2, <2>3, <1>7 DEF CallUnsubscribe
<1>8. ASSUME NEW t \in Subs, Down(t)
      PROVE  Turns(s) /\ session' \in {session, "failing"}
  <2>1. PICK told \in {0, 1} :
          \/ Awake(t) /\ CancelSubscription(t, told)
          \/ Status(t) = "establishing" /\ CancelEstablishing(t, told)
    BY <1>8 DEF Down
  <2>2. Status(t) \in Opened BY <2>1 DEF Awake, Opened
  <2>3. session' \in {session, "failing"} BY <2>1 DEF CancelSubscription, CancelEstablishing
  <2> QED BY <2>1, <2>2, <2>3, TurnsCancel
<1>9. CASE HostSteps BY <1>3, <1>9, HostStays
<1>10. ASSUME NEW t \in Subs, RecordErased(t) \/ EmitReport(t) \/ EmitFailure(t)
                              \/ EmitResubscribing(t) \/ EmitResubscribed(t)
       PROVE  Turns(s) /\ session' = session
  BY <1>3, <1>10, HostStays
<1> QED BY <1>2, <1>4, <1>5, <1>6, <1>7, <1>8, <1>9, <1>10 DEF Next

-----------------------------------------------------------------------------
(* A cancellation names the generation its subscription is closed with.    *)

\* What has been added is not new.
LEMMA HatchedIsOld ==
  ASSUME TypeOK, NEW s \in Subs, Joined(s), Hatched(s)
  PROVE  ~Fresh(s)
<1>1. PICK p : Joins(s, p) BY DEF Joined
<1> QED BY <1>1, JoinEnds

\* A subscription that is named closes with the generation that is named.
LEMMA NamingKept ==
  ASSUME TypeOK, NEW s \in Subs, Joined(s), Hatched(s), NEW g, Naming(s, g), Turns(s)
  PROVE  Naming(s, g)'
<1>1. ~Fresh(s) BY HatchedIsOld
<1> QED BY <1>1 DEF Naming, Turns, Opened

\* The cancellations the connection sends.
LEMMA RequestsNext ==
  ASSUME TypeOK, Next, Serving', NEW r \in Range(requests'), r.op = "unsubscribe"
  PROVE  r \in Range(requests) \/ Naming(r.sub, r.generation)'
<1>1. sub \in [Subs -> Rows] /\ requests \in Seq(Requests) BY DEF TypeOK, ConnectionOK, HostOK
<1>2. ASSUME NEW t \in Subs, NEW b \in BOOLEAN,
             requests' = Append(requests, Request("unsubscribe", t, sub[t].generation, b)),
             sub' = [sub EXCEPT ![t].status = "closing"]
      PROVE  r \in Range(requests) \/ Naming(r.sub, r.generation)'
  <2>1. PICK x \in Requests : x = Request("unsubscribe", t, sub[t].generation, b)
    BY <1>1, MessageTypes DEF Rows, Replies
  <2>2. Range(requests') = Range(requests) \cup {x} BY <2>1, <1>2, RequestAdded
  <2>3. x.sub = t /\ x.generation = sub[t].generation BY <2>1 DEF Request
  <2>4. sub'[t].status = "closing" /\ sub'[t].generation = sub[t].generation
    BY <1>1, <1>2 DEF Rows
  <2> QED BY <2>2, <2>3, <2>4 DEF Naming, Status
<1>3. CASE requests' = requests BY <1>3
<1>4. CASE Reads
  <2>1. Taken /\ frames # << >>
    BY <1>4 DEF Reads, ReadReport, ReadResubscribing, ResubscribingOverflows,
       ReadResubscribed, ReadBarrier, ReadError, RefuseFrame, ReadCancelled,
       RefuseCancelled, ReadUnsubscribed, ReadSubscribed, ReadNotSubscribed, Received
  <2>2. PICK t \in Subs : t = The.sub BY <2>1, TheFrame
  <2>3. requests' = requests \/ CancelSubscription(t, 1)
    BY <2>2, <1>4 DEF Reads, ReadReport, ReadResubscribing, ResubscribingOverflows,
       ReadResubscribed, ReadBarrier, ReadError, RefuseFrame, ReadCancelled,
       RefuseCancelled, ReadUnsubscribed, ReadSubscribed, ReadNotSubscribed, Rest, Stop
  <2> QED BY <2>3, <1>2, <1>3 DEF CancelSubscription
<1>5. ASSUME NEW t \in Subs, CallSubscribe(t) PROVE r \in Range(requests)
  <2>1. PICK x \in Requests : x = Request("subscribe", t, 1, FALSE)
    BY MessageTypes DEF Replies
  <2>2. Range(requests') = Range(requests) \cup {x}
    BY <2>1, <1>5, RequestAdded DEF CallSubscribe
  <2> QED BY <2>1, <2>2 DEF Request
<1>6. ASSUME NEW t \in Subs, CallUnsubscribe(t)
      PROVE  r \in Range(requests) \/ Naming(r.sub, r.generation)'
  BY <1>2, <1>3, <1>6 DEF CallUnsubscribe
<1>7. ASSUME NEW t \in Subs, Down(t)
      PROVE  r \in Range(requests) \/ Naming(r.sub, r.generation)'
  BY <1>2, <1>3, <1>7 DEF Down, CancelSubscription, CancelEstablishing
<1>8. CASE Timers \/ JoinReturns
  BY <1>3, <1>8 DEF Timers, Expires, InputFailed, HostExits, Stop, JoinReturns
<1>9. CASE HostSteps
  <2>1. requests' = requests \/ \E op \in Replies : Reading(op)
    BY <1>9 DEF HostSteps, HostSubscribe, HostRefuses, AddStream, HostReplies, HostActivates,
       HostUnsubscribe, CancelReturns, Replies
  <2> QED BY <2>1, <1>3, TheRequest
<1>10. ASSUME NEW t \in Subs, RecordErased(t) \/ EmitReport(t) \/ EmitFailure(t)
                              \/ EmitResubscribing(t) \/ EmitResubscribed(t)
       PROVE  requests' = requests
  BY <1>10 DEF RecordErased, EmitReport, EmitFailure, EmitResubscribing, EmitResubscribed,
     Callback
<1> QED BY <1>3, <1>4, <1>5, <1>6, <1>7, <1>8, <1>9, <1>10 DEF Next

\* The request a host operation or an answer stands for.
Asked(s, g) ==
  \/ \E r \in Range(requests) : r.op = "unsubscribe" /\ r.sub = s /\ r.generation = g
  \/ cancelling # NoRequest /\ cancelling.sub = s /\ cancelling.generation = g
  \/ \E f \in Range(frames) : f.kind = "unsubscribe" /\ f.sub = s /\ f.generation = g

\* What is asked for names its subscription.
LEMMA AskedNames ==
  ASSUME Cancels, NEW s, NEW g, Asked(s, g)
  PROVE  Naming(s, g) /\ Hatched(s)
<1>1. Naming(s, g) BY DEF Cancels, Asked
<1>2. Hatched(s) BY DEF Hatched, Asked, Replies
<1> QED BY <1>1, <1>2

\* The cancellations the host works on and answers.
LEMMA CancellingNext ==
  ASSUME TypeOK, OwnKinds, Next, Serving'
  PROVE  /\ cancelling' # NoRequest => Asked(cancelling'.sub, cancelling'.generation)
         /\ \A f \in Range(frames') : f.kind = "unsubscribe" => Asked(f.sub, f.generation)
<1>1. frames \in Seq(Frames) /\ stream \in [Subs -> Streams] BY DEF TypeOK, HostOK
<1>2. CASE cancelling' = cancelling /\ \A f \in Range(frames') : f \in Range(frames)
  BY <1>2 DEF Asked
<1>3. CASE Reads
  <2>1. Taken /\ frames # << >>
    BY <1>3 DEF Reads, ReadReport, ReadResubscribing, ResubscribingOverflows,
       ReadResubscribed, ReadBarrier, ReadError, RefuseFrame, ReadCancelled,
       RefuseCancelled, ReadUnsubscribed, ReadSubscribed, ReadNotSubscribed, Received
  <2> QED BY <2>1, <1>2, TheFrame
<1>4. CASE \/ Timers \/ JoinReturns
           \/ \E t \in Subs : CallSubscribe(t) \/ CallUnsubscribe(t) \/ Down(t)
  <2>1. UNCHANGED <<frames, cancelling>>
    BY <1>4 DEF Timers, Expires, InputFailed, HostExits, JoinReturns, CallSubscribe,
       CallUnsubscribe, Down, native
  <2> QED BY <2>1, <1>2
<1>5. ASSUME NEW f \in Frames, Writes(<<f>>), cancelling' \in {cancelling, NoRequest},
             f.kind = "unsubscribe" => Asked(f.sub, f.generation)
      PROVE  /\ cancelling' # NoRequest => Asked(cancelling'.sub, cancelling'.generation)
             /\ \A x \in Range(frames') : x.kind = "unsubscribe" => Asked(x.sub, x.generation)
  <2>1. Range(frames') = Range(frames) \cup {f} BY <1>1, <1>5, WritesRange
  <2>2. \A x \in Range(frames) : x.kind = "unsubscribe" => Asked(x.sub, x.generation)
    BY DEF Asked
  <2>3. cancelling # NoRequest => Asked(cancelling.sub, cancelling.generation) BY DEF Asked
  <2> QED BY <2>1, <2>2, <2>3, <1>5
<1>6. ASSUME NEW f \in Frames, NEW g \in Frames, Writes(<<f, g>>),
             cancelling' \in {cancelling, NoRequest}, f.kind \in Events,
             g.kind = "unsubscribe" => Asked(g.sub, g.generation)
      PROVE  /\ cancelling' # NoRequest => Asked(cancelling'.sub, cancelling'.generation)
             /\ \A x \in Range(frames') : x.kind = "unsubscribe" => Asked(x.sub, x.generation)
  <2>1. Range(frames') = Range(frames) \cup {f, g} BY <1>1, <1>6, WritesRange
  <2>2. \A x \in Range(frames) : x.kind = "unsubscribe" => Asked(x.sub, x.generation)
    BY DEF Asked
  <2>3. cancelling # NoRequest => Asked(cancelling.sub, cancelling.generation) BY DEF Asked
  <2>4. f.kind # "unsubscribe" BY <1>6 DEF Events
  <2> QED BY <2>1, <2>2, <2>3, <2>4, <1>6
<1>7. CASE HostSubscribe
  <2>1. PICK r \in Requests : r = Head(requests) /\ r.op = "subscribe"
    BY <1>7, TheRequest DEF HostSubscribe
  <2>2. UNCHANGED cancelling /\ (UNCHANGED frames \/ Writes(<<Reply(r, "busy")>>))
    BY <2>1, <1>7 DEF HostSubscribe
  <2>3. PICK f \in Frames : f = Reply(r, "busy") BY MessageTypes DEF Results
  <2>4. f.kind = "subscribe" BY <2>1, <2>3, ReplyFields
  <2> QED BY <2>2, <2>3, <2>4, <1>2, <1>5
<1>8. CASE HostRefuses \/ HostReplies
  <2>1. registering.stage \in {"wait", "added"} /\ registering.sub \in Subs
    BY <1>8 DEF HostRefuses, HostReplies, TypeOK, HostOK, Idle
  <2>2. PICK r \in Requests : r = Request("subscribe", registering.sub, 1, FALSE)
    BY <2>1, MessageTypes DEF Replies
  <2>3. UNCHANGED cancelling /\ \E x \in {"failed", "ok"} : Writes(<<Reply(r, x)>>)
    BY <2>2, <1>8 DEF HostRefuses, HostReplies
  <2>4. PICK x \in {"failed", "ok"} : Writes(<<Reply(r, x)>>) BY <2>3
  <2>5. PICK f \in Frames : f = Reply(r, x) BY MessageTypes DEF Results
  <2>6. f.kind = "subscribe" BY <2>2, <2>5, ReplyFields DEF Request
  <2> QED BY <2>3, <2>4, <2>5, <2>6, <1>5
<1>9. CASE AddStream \/ HostActivates
  <2>1. UNCHANGED <<frames, cancelling>> BY <1>9 DEF AddStream, HostActivates
  <2> QED BY <2>1, <1>2
<1>10. CASE HostUnsubscribe
  <2>1. PICK r \in Requests : /\ r = Head(requests) /\ r.op = "unsubscribe"
                              /\ r \in Range(requests)
    BY <1>10, TheRequest DEF HostUnsubscribe
  <2>2. Asked(r.sub, r.generation) BY <2>1 DEF Asked
  <2>3. CASE cancelling' = r /\ UNCHANGED frames
    <3>1. \A x \in Range(frames) : x.kind = "unsubscribe" => Asked(x.sub, x.generation)
      BY DEF Asked
    <3> QED BY <3>1, <2>2, <2>3
  <2>4. ASSUME NEW x \in Results, UNCHANGED cancelling, Writes(<<Reply(r, x)>>)
        PROVE  /\ cancelling' # NoRequest => Asked(cancelling'.sub, cancelling'.generation)
               /\ \A f \in Range(frames') : f.kind = "unsubscribe" => Asked(f.sub, f.generation)
    <3>1. PICK f \in Frames : f = Reply(r, x) BY MessageTypes
    <3>2. f.sub = r.sub /\ f.generation = r.generation BY <3>1, ReplyFields
    <3> QED BY <3>1, <3>2, <2>2, <2>4, <1>5
  <2>5. Verdict(r) \in Results \/ Verdict(r) = "cancel" BY DEF Verdict, Results
  <2> QED BY <2>1, <2>3, <2>4, <2>5, <1>10 DEF HostUnsubscribe
<1>11. CASE CancelReturns
  <2>1. PICK r \in Requests : r = cancelling BY <1>11 DEF CancelReturns, TypeOK, HostOK
  <2>2. Asked(r.sub, r.generation) BY <2>1, <1>11 DEF Asked, CancelReturns
  <2>3. cancelling' = NoRequest BY <1>11 DEF CancelReturns
  <2>4. \/ \E x \in Results : Writes(<<Reply(r, x)>>)
        \/ Writes(<<Event("retired", r.sub, r.generation, 0), Reply(r, "ok")>>)
        \/ UNCHANGED frames
    BY <2>1, <1>11 DEF CancelReturns, Results
  <2>5. ASSUME NEW x \in Results
        PROVE  \E f \in Frames : /\ f = Reply(r, x) /\ f.sub = r.sub
                                 /\ f.generation = r.generation
    BY MessageTypes, ReplyFields
  <2>6. CASE \E x \in Results : Writes(<<Reply(r, x)>>) BY <2>2, <2>3, <2>5, <2>6, <1>5
  <2>7. CASE Writes(<<Event("retired", r.sub, r.generation, 0), Reply(r, "ok")>>)
    <3>1. PICK g \in Frames : g = Reply(r, "ok") /\ g.sub = r.sub /\ g.generation = r.generation
      BY <2>5 DEF Results
    <3>2. r.sub \in Subs /\ r.generation \in Nat BY DEF Requests
    <3>3. PICK f \in Frames : f = Event("retired", r.sub, r.generation, 0)
      BY <3>2, MessageTypes DEF Events
    <3>4. f.kind \in Events BY <3>3 DEF Event, Events
    <3>5. Writes(<<f, g>>) BY <3>1, <3>3, <2>7
    <3> QED BY <3>1, <3>4, <3>5, <2>2, <2>3, <1>6
  <2>8. CASE UNCHANGED frames
    <3>1. \A x \in Range(frames) : x.kind = "unsubscribe" => Asked(x.sub, x.generation)
      BY DEF Asked
    <3> QED BY <3>1, <2>3, <2>8
  <2> QED BY <2>4, <2>6, <2>7, <2>8
<1>12. ASSUME NEW t \in Subs, RecordErased(t) \/ EmitReport(t) \/ EmitFailure(t)
                              \/ EmitResubscribing(t) \/ EmitResubscribed(t)
       PROVE  /\ cancelling' # NoRequest => Asked(cancelling'.sub, cancelling'.generation)
              /\ \A f \in Range(frames') : f.kind = "unsubscribe" => Asked(f.sub, f.generation)
  <2>1. UNCHANGED cancelling
    BY <1>12 DEF RecordErased, EmitReport, EmitFailure, EmitResubscribing,
       EmitResubscribed, Callback
  <2>2. /\ stream[t].generation \in Nat /\ stream[t].attempt \in Nat
        /\ stream[t].generation + 1 \in Nat /\ stream[t].attempt + 1 \in Nat
    BY <1>1 DEF Streams
  <2>3. \A k \in Events, a, b \in Nat :
          /\ Event(k, t, a, b) \in Frames /\ Event(k, t, a, b).kind \in Events
          /\ Event(k, t, a, b).kind # "unsubscribe"
    BY MessageTypes DEF Event, Events
  <2>4. CASE RecordErased(t) BY <2>1, <2>4, <1>2 DEF RecordErased
  <2>5. CASE EmitReport(t) BY <2>1, <2>2, <2>3, <2>5, <1>5 DEF EmitReport, Events
  <2>6. CASE EmitFailure(t) BY <2>1, <2>2, <2>3, <2>6, <1>6 DEF EmitFailure, Events
  <2>7. CASE EmitResubscribing(t)
    BY <2>1, <2>2, <2>3, <2>7, <1>5, <1>6 DEF EmitResubscribing, Events
  <2>8. CASE EmitResubscribed(t) BY <2>1, <2>2, <2>3, <2>8, <1>5 DEF EmitResubscribed, Events
  <2> QED BY <2>4, <2>5, <2>6, <2>7, <2>8, <1>12
<1> QED BY <1>3, <1>4, <1>7, <1>8, <1>9, <1>10, <1>11, <1>12 DEF Next, HostSteps

\* A stream with a record of its last generation is gone.
LEMMA RecordsNext ==
  ASSUME TypeOK, \A s \in Subs : Joined(s), \A s \in Subs : record[s] # 0 => ~stream[s].live,
         Next, NEW s \in Subs
  PROVE  record'[s] # 0 => ~stream'[s].live
<1>1. stream \in [Subs -> Streams] /\ record \in [Subs -> Nat] /\ stream[s] \in Streams
  BY DEF TypeOK, HostOK
<1>2. CASE UNCHANGED <<stream, record>> BY <1>2
<1>3. ASSUME NEW t \in Subs, Retires(t) PROVE record'[s] # 0 => ~stream'[s].live
  <2>1. CASE s = t BY <2>1, <1>1, <1>3 DEF Retires, NoStream
  <2>2. CASE s # t BY <2>2, <1>1, <1>3 DEF Retires
  <2> QED BY <2>1, <2>2
<1>4. CASE Reads
  BY <1>2, <1>4 DEF Reads, ReadReport, ReadResubscribing, ResubscribingOverflows,
     ReadResubscribed, ReadBarrier, ReadError, RefuseFrame, ReadCancelled,
     RefuseCancelled, ReadUnsubscribed, ReadSubscribed, ReadNotSubscribed, Taken, native
<1>5. CASE \/ Timers \/ JoinReturns
           \/ \E t \in Subs : CallSubscribe(t) \/ CallUnsubscribe(t) \/ Down(t)
  <2>1. UNCHANGED native
    BY <1>5 DEF Timers, Expires, InputFailed, HostExits, JoinReturns, CallSubscribe,
       CallUnsubscribe, Down
  <2> QED BY <2>1, <1>2 DEF native
<1>6. CASE HostSubscribe \/ HostRefuses \/ HostReplies \/ HostActivates \/ HostUnsubscribe
  BY <1>2, <1>6 DEF HostSubscribe, HostRefuses, HostReplies, HostActivates, HostUnsubscribe
<1>7. CASE AddStream
  <2>1. PICK t \in Subs : t = registering.sub BY <1>7 DEF AddStream, TypeOK, HostOK, Idle
  <2>2. registering = [sub |-> t, stage |-> "wait"]
    BY <2>1, <1>7 DEF AddStream, TypeOK, HostOK, Idle
  <2>3. Fresh(t) BY <2>2 DEF Fresh
  <2>4. record[t] = 0 BY <2>3, HatchedIsOld DEF Hatched
  <2>5. UNCHANGED record /\ stream' = [stream EXCEPT ![t] =
          [live |-> TRUE, generation |-> 1, recovering |-> FALSE, attempt |-> 0]]
    BY <2>1, <1>7 DEF AddStream
  <2>6. s # t => stream'[s] = stream[s] BY <2>5, <1>1
  <2> QED BY <2>4, <2>5, <2>6
<1>8. CASE CancelReturns
  <2>1. PICK r \in Requests : r = cancelling BY <1>8 DEF CancelReturns, TypeOK, HostOK
  <2>2. PICK t \in Subs : t = r.sub BY DEF Requests
  <2>3. UNCHANGED <<stream, record>> \/ Retires(t) BY <2>1, <2>2, <1>8 DEF CancelReturns
  <2> QED BY <2>3, <1>2, <1>3
<1>9. ASSUME NEW t \in Subs, RecordErased(t) PROVE record'[s] # 0 => ~stream'[s].live
  <2>1. UNCHANGED stream /\ record' = [record EXCEPT ![t] = 0] BY <1>9 DEF RecordErased
  <2> QED BY <2>1, <1>1
<1>10. ASSUME NEW t \in Subs, EmitFailure(t) PROVE record'[s] # 0 => ~stream'[s].live
  BY <1>3, <1>10 DEF EmitFailure
<1>11. ASSUME NEW t \in Subs, EmitReport(t) \/ EmitResubscribing(t) \/ EmitResubscribed(t)
       PROVE  record'[s] # 0 => ~stream'[s].live
  <2>1. UNCHANGED record BY <1>11 DEF EmitReport, EmitResubscribing, EmitResubscribed
  <2>2. stream'[s].live = stream[s].live
    BY <1>1, <1>11 DEF EmitReport, EmitResubscribing, EmitResubscribed, Streams
  <2> QED BY <2>1, <2>2
<1> QED BY <1>4, <1>5, <1>6, <1>7, <1>8, <1>9, <1>10, <1>11 DEF Next, HostSteps

\* Every cancellation names its generation after every step.
LEMMA CancelsNext ==
  ASSUME TypeOK, \A s \in Subs : Joined(s), Calls, Cancels, Next, Serving'
  PROVE  Cancels'
<1>1. ASSUME NEW s \in Subs, NEW g, Asked(s, g) PROVE Naming(s, g)'
  BY <1>1, AskedNames, TurnsNext, NamingKept
<1>2. TypeOK' BY TypeNext
<1>3. \A r \in Range(requests') : r.op = "unsubscribe" => Naming(r.sub, r.generation)'
  <2> SUFFICES ASSUME NEW r \in Range(requests'), r.op = "unsubscribe"
               PROVE  Naming(r.sub, r.generation)'
    OBVIOUS
  <2>1. CASE r \in Range(requests)
    <3>1. r \in Requests BY <2>1 DEF TypeOK, HostOK, Range
    <3>2. r.sub \in Subs BY <3>1 DEF Requests
    <3>3. Asked(r.sub, r.generation) BY <2>1 DEF Asked
    <3> QED BY <3>2, <3>3, <1>1
  <2> QED BY <2>1, RequestsNext
<1>4. \A f \in Range(frames') : f.kind = "unsubscribe" => Naming(f.sub, f.generation)'
  <2> SUFFICES ASSUME NEW f \in Range(frames'), f.kind = "unsubscribe"
               PROVE  Naming(f.sub, f.generation)'
    OBVIOUS
  <2>1. f \in Frames BY <1>2 DEF TypeOK, HostOK, Range
  <2>2. f.sub \in Subs BY <2>1 DEF Frames
  <2>3. Asked(f.sub, f.generation) BY CancellingNext DEF Calls
  <2> QED BY <2>2, <2>3, <1>1
<1>5. cancelling' # NoRequest => Naming(cancelling.sub, cancelling.generation)'
  <2> SUFFICES ASSUME cancelling' # NoRequest
               PROVE  Naming(cancelling.sub, cancelling.generation)'
    OBVIOUS
  <2>1. PICK s \in Subs, g \in Nat : s = cancelling'.sub /\ g = cancelling'.generation
    BY <1>2 DEF TypeOK, HostOK, Requests
  <2>2. Asked(s, g) BY <2>1, CancellingNext DEF Calls
  <2>3. Naming(s, g)' BY <2>2, <1>1
  <2> QED BY <2>1, <2>3 DEF Naming, Status
<1>6. \A s \in Subs : record'[s] # 0 => ~stream'[s].live BY RecordsNext DEF Cancels
<1> QED BY <1>3, <1>4, <1>5, <1>6 DEF Cancels

-----------------------------------------------------------------------------
(* Who has been told, and who is watched.                                  *)

\* No receiver is told twice by a serving session.
LEMMA ToldNext ==
  ASSUME TypeOK, \A s \in Subs : Joined(s), Told, Next, Serving'
  PROVE  Told'
<1>1. ASSUME NEW s \in Subs
      PROVE  /\ terminals'[s] <= 1
             /\ Status(s)' \in {"establishing", "active", "recovering"} => terminals'[s] = 0
             /\ session' = "up" /\ Status(s)' = "none" => terminals'[s] = 0
  <2>1. Turns(s) /\ (session' = "up" => session = "up") BY TurnsNext
  <2>2. /\ terminals[s] \in Nat /\ terminals[s] <= 1
        /\ Status(s) \in {"establishing", "active", "recovering"} => terminals[s] = 0
        /\ session = "up" /\ Status(s) = "none" => terminals[s] = 0
    BY DEF Told, TypeOK, ConnectionOK
  <2>3. Fresh(s) /\ session = "up" => terminals[s] = 0
    <3> SUFFICES ASSUME Fresh(s), session = "up" PROVE terminals[s] = 0 OBVIOUS
    <3>1. PICK p : Joins(s, p) BY DEF Joined
    <3>2. p[0] = Unborn /\ Sees(s, p[0]) BY <3>1, JoinEnds
    <3>3. sub[s] \in Rows BY DEF TypeOK, ConnectionOK
    <3>4. Status(s) \in {"none", "establishing", "closing"} BY <3>2, <3>3, SeesBy
    <3>5. Status(s) # "closing" BY <3>2, Apart DEF Sees, Status
    <3> QED BY <3>4, <3>5, <2>2
  <2> QED BY <2>1, <2>2, <2>3 DEF Turns, Opened
<1> QED BY <1>1 DEF Told

\* A session that is over takes no step.
LEMMA OnlyServing ==
  ASSUME Next
  PROVE  Serving
<1>1. Reads => Serving
  BY DEF Reads, ReadReport, ReadResubscribing, ResubscribingOverflows, ReadResubscribed,
     ReadBarrier, ReadError, RefuseFrame, ReadCancelled, RefuseCancelled,
     ReadUnsubscribed, ReadSubscribed, ReadNotSubscribed, Received
<1>2. HostSteps \/ Timers \/ JoinReturns => Serving
  BY DEF HostSteps, HostSubscribe, HostRefuses, AddStream, HostReplies, HostActivates,
     HostUnsubscribe, CancelReturns, Timers, Expires, InputFailed, HostExits,
     JoinReturns, HostUp, Reading, Serving
<1>3. ASSUME NEW s \in Subs,
             \/ CallSubscribe(s) \/ CallUnsubscribe(s) \/ Down(s)
             \/ RecordErased(s) \/ EmitReport(s) \/ EmitFailure(s)
             \/ EmitResubscribing(s) \/ EmitResubscribed(s)
      PROVE  Serving
  BY <1>3 DEF CallSubscribe, CallUnsubscribe, Down, RecordErased, EmitReport,
     EmitFailure, EmitResubscribing, EmitResubscribed, Eventful, HostUp, Serving
<1> QED BY <1>1, <1>2, <1>3 DEF Next

\* No receiver is told twice by a session that ends, but by an overflow.
LEMMA OnceNext ==
  ASSUME TypeOK, \A s \in Subs : Joined(s), Told, TerminalOnce, Next
  PROVE  TerminalOnce'
<1>1. CASE Serving' BY <1>1, ToldNext DEF Told, TerminalOnce
<1>2. CASE ~Serving'
  <2>1. ASSUME NEW reason, Stop(reason) PROVE TerminalOnce'
    <3>1. \A s \in Subs : terminals[s] \in Nat /\ terminals[s] <= 1
                          /\ (Awake(s) => terminals[s] = 0)
      BY DEF Told, TypeOK, ConnectionOK, Awake
    <3> QED BY <3>1, <2>1 DEF Stop, TerminalOnce
  <2>2. CASE ResubscribingOverflows BY <2>2 DEF ResubscribingOverflows, TerminalOnce
  <2>3. CASE RefuseFrame \/ RefuseCancelled \/ ReadUnsubscribed \/ ReadSubscribed \/ Timers
    <3>1. CASE \E reason : Stop(reason) BY <3>1, <2>1
    <3>2. CASE UNCHANGED <<terminals, cause>> BY <3>2 DEF TerminalOnce
    <3> QED BY <3>1, <3>2, <2>3 DEF RefuseFrame, RefuseCancelled, ReadUnsubscribed,
            ReadSubscribed, Timers, Expires, InputFailed, HostExits
  <2>4. CASE ReadReport \/ ReadResubscribing \/ ReadResubscribed \/ ReadBarrier \/ ReadError
             \/ ReadCancelled \/ ReadNotSubscribed
    BY <2>4, <1>2 DEF ReadReport, ReadResubscribing, ReadResubscribed, ReadBarrier, ReadError,
       ReadCancelled, ReadNotSubscribed, Received, Rest, CancelSubscription, Closed,
       CompleteCancellation, Serving
  <2>5. Serving BY OnlyServing
  <2>6. ASSUME HostStep PROVE FALSE
    BY <2>5, <2>6, <1>2 DEF HostStep, connection, Serving
  <2>7. CASE JoinReturns BY <2>5, <2>7, <1>2 DEF JoinReturns, Serving
  <2>8. ASSUME NEW s \in Subs, CallSubscribe(s) \/ CallUnsubscribe(s) \/ Down(s)
        PROVE  FALSE
    BY <2>5, <2>8, <1>2 DEF CallSubscribe, CallUnsubscribe, Down, CancelSubscription,
       CancelEstablishing, Serving
  <2> QED BY <2>2, <2>3, <2>4, <2>6, <2>7, <2>8, HostStays DEF Next, Reads
<1> QED BY <1>1, <1>2

\* Deadlines and internal cancellations agree after every step.
LEMMA WatchedNext ==
  ASSUME TypeOK, WatchedWhileOpen, Next, Serving, Serving'
  PROVE  WatchedWhileOpen'
<1>1. /\ internal \subseteq watched
      /\ session' = "up" => \A s \in watched : Status(s) = "closed" => s \in internal
      /\ sub \in [Subs -> Rows] /\ watched \subseteq Subs
  BY TurnsNext DEF WatchedWhileOpen, TypeOK, ConnectionOK
<1>2. ASSUME internal' \subseteq watched',
             session' = "up" =>
               \A s \in watched' : Status(s)' = "closed" => s \in internal'
      PROVE  WatchedWhileOpen'
  BY <1>2 DEF WatchedWhileOpen, Status
<1>3. ASSUME UNCHANGED <<internal, watched>>,
             \A s \in Subs : Status(s)' = "closed" => Status(s) = "closed"
      PROVE  WatchedWhileOpen'
  BY <1>1, <1>2, <1>3
<1>4. ASSUME NEW t \in Subs, NEW told, CancelSubscription(t, told) \/ CancelEstablishing(t, told)
      PROVE  WatchedWhileOpen'
  <2>1. /\ sub' = [sub EXCEPT ![t].status = "closing"] /\ watched' = watched \cup {t}
        /\ internal' \in {internal, internal \cup {t}}
    BY <1>4 DEF CancelSubscription, CancelEstablishing
  <2>2. sub'[t].status = "closing" /\ \A x \in Subs \ {t} : sub'[x] = sub[x]
    BY <2>1, <1>1 DEF Rows
  <2> QED BY <2>1, <2>2, <1>1, <1>2 DEF Status
<1>5. CASE Reads
  <2>1. Taken /\ frames # << >>
    BY <1>5 DEF Reads, ReadReport, ReadResubscribing, ResubscribingOverflows,
       ReadResubscribed, ReadBarrier, ReadError, RefuseFrame, ReadCancelled,
       RefuseCancelled, ReadUnsubscribed, ReadSubscribed, ReadNotSubscribed, Received
  <2>2. PICK t \in Subs : t = The.sub BY <2>1, TheFrame
  <2>3. CASE CancelSubscription(t, 1) BY <2>3, <1>4
  <2>4. CASE UNCHANGED <<sub, internal, watched>> BY <2>4, <1>3 DEF Status
  <2>5. CASE ReadReport BY <2>2, <2>3, <2>4, <2>5 DEF ReadReport, Rest
  <2>6. ASSUME UNCHANGED <<internal, watched>>, \A x \in Subs \ {t} : sub'[x] = sub[x],
               sub'[t].status # "closed"
        PROVE  WatchedWhileOpen'
    BY <2>6, <1>3 DEF Status
  <2>7. CASE ReadResubscribing
    <3>1. UNCHANGED <<internal, watched>> BY <2>7 DEF ReadResubscribing, Rest
    <3>2. CASE FirstAttempt(The) /\ sub' = [sub EXCEPT ![t] =
             [status |-> "recovering", generation |-> The.generation,
              attempt |-> 1, retiring |-> @.generation, terminal |-> @.terminal]]
      BY <3>1, <3>2, <2>6, <1>1
    <3>3. CASE NextAttempt(The) /\ sub' = [sub EXCEPT ![t].attempt = The.attempt]
      <4>1. sub'[t].status = sub[t].status /\ \A x \in Subs \ {t} : sub'[x] = sub[x]
        BY <3>3, <1>1 DEF Rows
      <4>2. sub[t].status = "recovering" BY <3>3, <2>2 DEF NextAttempt, Status
      <4> QED BY <4>1, <4>2, <3>1, <2>6
    <3> QED BY <3>2, <3>3, <2>2, <2>7 DEF ReadResubscribing
  <2>8. CASE ReadResubscribed
    <3>1. CASE sub' = [sub EXCEPT ![t].status = "active"] /\ UNCHANGED watched /\ Rest
      <4>1. sub'[t].status = "active" /\ \A x \in Subs \ {t} : sub'[x] = sub[x]
        BY <3>1, <1>1 DEF Rows
      <4> QED BY <4>1, <3>1, <2>6 DEF Rest
    <3> QED BY <3>1, <2>2, <2>3, <2>8 DEF ReadResubscribed
  <2>9. CASE ReadBarrier
    <3>1. UNCHANGED internal BY <2>9 DEF ReadBarrier
    <3>2. CASE sub' = [sub EXCEPT ![t].retiring = 0] /\ UNCHANGED watched
      <4>1. \A x \in Subs : sub'[x].status = sub[x].status BY <3>2, <1>1 DEF Rows
      <4> QED BY <4>1, <3>1, <3>2, <1>3 DEF Status
    <3>3. CASE Closed(t)
      <4>1. \A x \in Subs \ {t} : sub'[x] = sub[x] BY <3>3, <1>1 DEF Closed
      <4>2. \/ session' = "failing" /\ watched' = watched
            \/ watched' = IF t \in internal THEN watched ELSE watched \ {t}
        BY <3>3 DEF Closed, CompleteCancellation
      <4> QED BY <4>1, <4>2, <3>1, <1>1, <1>2 DEF Status
    <3> QED BY <3>2, <3>3, <2>2, <2>9 DEF ReadBarrier
  <2>10. CASE ReadError
    <3>1. /\ sub' = [sub EXCEPT ![t].status = "closing", ![t].terminal = TRUE]
          /\ watched' = watched \cup {t} /\ UNCHANGED internal
      BY <2>2, <2>10 DEF ReadError, Rest
    <3>2. sub'[t].status = "closing" /\ \A x \in Subs \ {t} : sub'[x] = sub[x]
      BY <3>1, <1>1 DEF Rows
    <3> QED BY <3>1, <3>2, <1>1, <1>2 DEF Status
  <2>11. CASE ReadCancelled
    <3>1. /\ UNCHANGED sub /\ internal' = internal \ {t}
          /\ \/ session' = "failing" /\ watched' = watched
             \/ watched' = IF Status(t) = "closed" THEN watched \ {t} ELSE watched
      BY <2>2, <2>11 DEF ReadCancelled, CompleteCancellation
    <3> QED BY <3>1, <1>1, <1>2 DEF Status
  <2>12. CASE ReadUnsubscribed
    BY <2>4, <2>12 DEF ReadUnsubscribed, Stop, Serving
  <2>13. CASE ReadSubscribed
    <3>1. sub' = [sub EXCEPT ![t].status = "active"] /\ UNCHANGED <<internal, watched>>
      BY <2>2, <2>13 DEF ReadSubscribed, Stop, Serving
    <3>2. sub'[t].status = "active" /\ \A x \in Subs \ {t} : sub'[x] = sub[x]
      BY <3>1, <1>1 DEF Rows
    <3> QED BY <3>1, <3>2, <2>6
  <2>14. CASE ReadNotSubscribed
    <3>1. /\ sub' = [sub EXCEPT ![t] = [status |-> "none", generation |-> 0, attempt |-> 0,
                                        retiring |-> 0, terminal |-> FALSE]]
          /\ UNCHANGED <<internal, watched>>
      BY <2>2, <2>14 DEF ReadNotSubscribed
    <3> QED BY <3>1, <2>6, <1>1
  <2>15. ~ResubscribingOverflows /\ ~RefuseFrame /\ ~RefuseCancelled
    BY DEF ResubscribingOverflows, RefuseFrame, RefuseCancelled, Stop, Serving
  <2> QED BY <2>5, <2>7, <2>8, <2>9, <2>10, <2>11, <2>12, <2>13, <2>14, <2>15, <1>5 DEF Reads
<1>6. ASSUME HostStep PROVE WatchedWhileOpen'
  BY <1>3, <1>6 DEF HostStep, connection, Status
<1>7. ~Timers BY DEF Timers, Expires, InputFailed, HostExits, Stop, Serving
<1>8. CASE JoinReturns BY <1>3, <1>8 DEF JoinReturns, Status
<1>9. ASSUME NEW t \in Subs, CallSubscribe(t) \/ CallUnsubscribe(t) PROVE WatchedWhileOpen'
  <2>1. /\ UNCHANGED <<internal, watched>>
        /\ \/ UNCHANGED sub
           \/ sub' = [sub EXCEPT ![t].status = "establishing", ![t].generation = 1]
           \/ sub' = [sub EXCEPT ![t].status = "closing"]
    BY <1>9 DEF CallSubscribe, CallUnsubscribe
  <2>2. \A x \in Subs : sub'[x].status \in {sub[x].status, "establishing", "closing"}
    BY <2>1, <1>1 DEF Rows
  <2> QED BY <2>1, <2>2, <1>3 DEF Status
<1>10. ASSUME NEW t \in Subs, Down(t) PROVE WatchedWhileOpen'
  BY <1>4, <1>10 DEF Down
<1> QED BY <1>5, <1>6, <1>7, <1>8, <1>9, <1>10, HostStays DEF Next

-----------------------------------------------------------------------------
(* The theorems.                                                           *)

\* The invariant is inductive.
LEMMA InvNext ==
  ASSUME Inv, [Next]_vars
  PROVE  Inv'
<1>1. CASE UNCHANGED vars
  <2>1. /\ UNCHANGED <<sub, resubscribe, call, internal, watched, terminals, session, cause>>
        /\ UNCHANGED <<requests, frames, stream, record, registering, cancelling, host>>
    BY <1>1 DEF vars, connection, native
  <2>2. TypeOK' /\ ProtocolAgrees' /\ TerminalOnce'
    BY <2>1 DEF Inv, TypeOK, ConnectionOK, HostOK, ProtocolAgrees, TerminalOnce
  <2>3. Serving' => Served'
    <3> SUFFICES ASSUME Serving' PROVE Served' OBVIOUS
    <3>1. Serving /\ Served BY <2>1 DEF Inv, Serving
    <3>2. ASSUME NEW s \in Subs PROVE Joined(s)'
      <4>1. PICK p : Joins(s, p) BY <3>1 DEF Served, Joined
      <4>2. Sees(s, p[0])' BY <4>1, <2>1 DEF Joins, Sees
      <4>3. (Fresh(s)' => Fresh(s)) /\ (Hatched(s)' => Hatched(s))
            /\ Status(s)' = Status(s)
        BY <2>1 DEF Fresh, Hatched, Status, Awake
      <4> QED BY <4>1, <4>2, <4>3, <2>1, JoinKeep DEF Inv
    <3>3. Calls'
      BY <3>1, <2>1 DEF Served, Calls, OwnRequest, OwnFrame, OwnOperation, OwnKinds, Own,
         Elsewhere, Status
    <3>4. Cancels' BY <3>1, <2>1 DEF Served, Cancels, Naming, Status
    <3>5. Told' /\ WatchedWhileOpen'
      BY <3>1, <2>1 DEF Served, Told, WatchedWhileOpen, Serving, Status
    <3> QED BY <3>2, <3>3, <3>4, <3>5 DEF Served
  <2> QED BY <2>2, <2>3 DEF Inv
<1>2. CASE Next
  <2>1. Serving BY <1>2, OnlyServing
  <2>2. /\ TypeOK /\ ProtocolAgrees /\ TerminalOnce /\ (\A s \in Subs : Joined(s))
        /\ Calls /\ Cancels /\ Told /\ WatchedWhileOpen
    BY <2>1 DEF Inv, Served
  <2>3. TypeOK' /\ ProtocolAgrees' BY <2>2, <1>2, TypeNext, AgreesNext
  <2>4. TerminalOnce' BY <2>2, <1>2, OnceNext
  <2>5. Serving' => Served'
    BY <2>1, <2>2, <1>2, JoinedNext, CallsNext, CancelsNext, ToldNext, WatchedNext DEF Served
  <2> QED BY <2>3, <2>4, <2>5 DEF Inv
<1> QED BY <1>1, <1>2

\* While the session serves, every frame under way continues the life of its
\* stream from what the connection has read of it to where the host's stream
\* is, and the blocking call, the cancellations and the deadlines agree with
\* it (connection.ex against protocol.cpp).
THEOREM SessionInvariant == Spec => []Inv
<1>1. Init => Inv BY InitInv
<1>2. Inv /\ [Next]_vars => Inv' BY InvNext
<1> QED BY <1>1, <1>2, PTL DEF Spec

\* The connection refuses no report, barrier, error or status of the host
\* but the ones that cross a cancellation or precede the reply: the two ends
\* of a stream cannot disagree (decode_async_frame against EmitReport,
\* EmitStatus, EmitFailure and the unsubscribe handler).
THEOREM ProtocolAgreesHolds == Spec => []ProtocolAgrees
<1>1. Inv => ProtocolAgrees BY DEF Inv
<1> QED BY <1>1, SessionInvariant, PTL

\* A subscription the connection has closed is gone at the host, and nothing
\* of it is under way.
LEMMA ClosedSilent ==
  ASSUME Inv
  PROVE  ClosedIsSilent
<1> SUFFICES ASSUME Serving, NEW s \in Subs, Status(s) = "closed"
             PROVE  /\ ~stream[s].live
                    /\ \A i \in DOMAIN frames : frames[i].sub = s => frames[i].kind \notin Events
  BY DEF ClosedIsSilent
<1>1. TypeOK /\ Joined(s) BY DEF Inv, Served
<1>2. PICK p : Joins(s, p) BY <1>1 DEF Joined
<1>3. p[0] = Over BY <1>2 DEF Joins, Sees, Status
<1>4. p[Len(frames)] = Over /\ Shows(s, p[Len(frames)]) BY <1>1, <1>2, <1>3, JoinEnds
<1>5. ~stream[s].live BY <1>4, Apart DEF Shows
<1>6. \A i \in DOMAIN frames : ~IsEvent(frames[i], s)
  BY <1>1, <1>2, <1>3, Eventless DEF Joins, TypeOK, HostOK
<1> QED BY <1>5, <1>6 DEF IsEvent

\* A subscription ends once and stays ended: its receiver is told once, and
\* a closed one has no live stream and no event under way
\* (retire_subscription, notify_session_failure against EmitFailure).
THEOREM EndsOnceHolds == Spec => []EndsOnce
<1>1. Inv => EndsOnce BY ClosedSilent DEF Inv, EndsOnce
<1> QED BY <1>1, SessionInvariant, PTL

\* Which steps leave a closing subscription without a deadline.
LEMMA LeftUnattended ==
  ASSUME Inv, Next, NEW s \in Subs, Unattended(s)', ~Unattended(s)
  PROVE  Received("unsubscribe") /\ The.sub = s /\ The.result = "busy"
<1>1. Serving /\ Serving' BY OnlyServing DEF Unattended
<1>2. TypeOK /\ Joined(s) /\ Calls /\ Cancels BY <1>1 DEF Inv, Served
<1>3. /\ Status(s)' = "closing" /\ s \notin watched'
      /\ call' # [op |-> "unsubscribe", sub |-> s]
  BY DEF Unattended
<1>4. Turns(s) BY <1>1, <1>2, TurnsNext
<1>5. Status(s) = "closing" BY <1>3, <1>4 DEF Turns, Opened
<1>6. s \notin watched
  <2>1. CASE Reads
    <3>1. Taken /\ frames # << >>
      BY <2>1 DEF Reads, ReadReport, ReadResubscribing, ResubscribingOverflows,
         ReadResubscribed, ReadBarrier, ReadError, RefuseFrame, ReadCancelled,
         RefuseCancelled, ReadUnsubscribed, ReadSubscribed, ReadNotSubscribed, Received
    <3>2. PICK t \in Subs : t = The.sub BY <3>1, <1>2, TheFrame
    <3>3. \/ watched' = watched \/ watched' = watched \cup {t}
          \/ Closed(t)
          \/ Status(t) = "closed" /\ watched' = watched \ {t}
      BY <2>1, <3>2 DEF Reads, ReadReport, ReadResubscribing, ResubscribingOverflows,
         ReadResubscribed, ReadBarrier, ReadError, RefuseFrame, ReadCancelled,
         RefuseCancelled, ReadUnsubscribed, ReadSubscribed, ReadNotSubscribed, Stop,
         CancelSubscription, CompleteCancellation
    <3>4. CASE Closed(t)
      <4>1. sub'[t].status = "closed" BY <3>4, <1>2 DEF Closed, TypeOK, ConnectionOK, Rows
      <4>2. s # t BY <4>1, <1>3 DEF Status
      <4> QED BY <4>2, <3>4, <1>3 DEF Closed, CompleteCancellation
    <3> QED BY <3>3, <3>4, <1>3, <1>5
  <2>2. ASSUME HostStep PROVE watched' = watched BY <2>2 DEF HostStep, connection
  <2>3. CASE Timers \/ JoinReturns
    BY <2>3, <1>3 DEF Timers, Expires, InputFailed, HostExits, Stop, JoinReturns
  <2>4. ASSUME NEW t \in Subs, CallSubscribe(t) \/ CallUnsubscribe(t) \/ Down(t)
        PROVE  watched \subseteq watched'
    BY <2>4 DEF CallSubscribe, CallUnsubscribe, Down, CancelSubscription, CancelEstablishing
  <2> QED BY <2>1, <2>2, <2>3, <2>4, <1>3, HostStays DEF Next
<1>7. call = [op |-> "unsubscribe", sub |-> s] BY <1>1, <1>5, <1>6 DEF Unattended
<1>8. call' # call /\ call # NoCall /\ call.op = "unsubscribe" BY <1>3, <1>7 DEF NoCall
<1>9. ReadUnsubscribed \/ ReadSubscribed \/ ReadNotSubscribed
  <2>1. ~Timers BY <1>1 DEF Timers, Expires, InputFailed, HostExits, Stop, Serving
  <2>2. HostStep => call' = call BY DEF HostStep, connection
  <2>3. ~JoinReturns BY <1>8 DEF JoinReturns
  <2>4. ASSUME NEW t \in Subs, CallSubscribe(t) \/ CallUnsubscribe(t) \/ Down(t)
        PROVE  FALSE
    BY <2>4, <1>8 DEF CallSubscribe, CallUnsubscribe, Down, CancelSubscription,
       CancelEstablishing
  <2>5. Reads BY <2>1, <2>2, <2>3, <2>4, <1>8, HostStays DEF Next
  <2> QED BY <2>5, <1>8 DEF Reads, ReadReport, ReadResubscribing, ResubscribingOverflows,
          ReadResubscribed, ReadBarrier, ReadError, RefuseFrame, ReadCancelled,
          RefuseCancelled, Stop, Rest, CancelSubscription
<1>10. Taken /\ frames # << >>
  BY <1>9 DEF ReadUnsubscribed, ReadSubscribed, ReadNotSubscribed, Received
<1>11. /\ The \in Frames /\ The \in Range(frames) /\ The.sub \in Subs
       /\ The = frames[1] /\ 1 \in DOMAIN frames
  BY <1>2, <1>10, TheFrame
<1>12. Own(The)
  <2>1. CASE ReadUnsubscribed BY <2>1 DEF ReadUnsubscribed, Received, The, Own, Replies
  <2>2. CASE ReadSubscribed \/ ReadNotSubscribed
    <3>1. The.kind = "subscribe"
      BY <2>2 DEF ReadSubscribed, ReadNotSubscribed, Received, The
    <3> QED BY <3>1, <1>2, <1>11 DEF Calls, OwnKinds, Own, Replies
  <2> QED BY <2>1, <2>2, <1>9
<1>13. call = [op |-> The.kind, sub |-> The.sub] BY <1>2, <1>11, <1>12 DEF Calls, OwnFrame
<1>14. The.kind = "unsubscribe" /\ The.sub = s BY <1>7, <1>13
<1>15. ReadUnsubscribed
  BY <1>9, <1>14 DEF ReadSubscribed, ReadNotSubscribed, Received, The
<1>16. /\ Received("unsubscribe")
       /\ \/ The.result = "invalid" \/ The.result = "busy"
          \/ The.result = "ok" /\ Status(The.sub) = "closed"
  BY <1>1, <1>15 DEF ReadUnsubscribed, Stop, Serving
<1>17. The.result # "invalid"
  <2> SUFFICES ASSUME The.result = "invalid" PROVE FALSE OBVIOUS
  <2>1. PICK p : Joins(s, p) BY <1>2 DEF Joined
  <2>2. /\ p[1] = p[0] /\ Sees(s, p[0]) /\ Spoken(s, The, p[0], p[1])
        /\ p[0] \in States
    BY <2>1, <1>2, <1>10, <1>14, TheLife DEF IsEvent, Events
  <2>3. Hatched(s) BY <1>11, <1>14 DEF Hatched, Replies
  <2>4. p[0] # Unborn BY <2>1, <2>3, <1>2, JoinEnds
  <2>5. Naming(s, The.generation) BY <1>2, <1>11, <1>14 DEF Cancels
  <2>6. p[0] = Over \/ p[0].generation # The.generation BY <2>2, <1>14 DEF Spoken
  <2>7. p[0].generation = sub[s].generation /\ p[0] # Over
    BY <2>2, <2>4, <1>5, Apart DEF Sees, Status
  <2> QED BY <2>5, <2>6, <2>7 DEF Naming
<1> QED BY <1>5, <1>14, <1>16, <1>17

\* A deadline is held as long as it may be needed: an internal cancellation
\* is watched until it is complete, and only an unsubscribe call that the
\* host answers as busy leaves a closing subscription to nobody
\* (unsubscribe_active, complete_cancellation, join_cancellation).
THEOREM CancellationWatchedHolds == Spec => CancellationWatched
<1>1. ASSUME Inv, Inv', [Next]_vars
      PROVE  [/\ WatchedWhileOpen'
              /\ \A s \in Subs : Unattended(s)' =>
                   \/ Unattended(s)
                   \/ Received("unsubscribe") /\ The.sub = s /\ The.result = "busy"]_vars
  <2>1. CASE UNCHANGED vars BY <2>1
  <2>2. CASE Next
    <3>1. WatchedWhileOpen' BY <1>1 DEF Inv, Served, WatchedWhileOpen, Serving
    <3> QED BY <3>1, <2>2, <1>1, LeftUnattended
  <2> QED BY <2>1, <2>2, <1>1
<1> QED BY <1>1, SessionInvariant, PTL DEF Spec, CancellationWatched
=============================================================================
