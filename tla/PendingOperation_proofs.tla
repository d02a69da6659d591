----------------------- MODULE PendingOperation_proofs -----------------------
(***************************************************************************)
(* Proofs about PendingOperation, for any number of requests and any room  *)
(* for contexts: a context outlives the SDK's registrations, none is kept  *)
(* for nothing, and an answer is right when it is decided.                 *)
(***************************************************************************)
EXTENDS PendingOperation, TLAPS

-----------------------------------------------------------------------------
(* The inductive invariant.                                                *)

Items == [do : {"start", "abort", "reap"}, op : Ops] \cup [do : {"shutdown"}, op : {NoOp}]
Places == {"publish", "mark", "encode", "send", "stage"}
Results == {"none", "ok"} \cup Effects

TypeOK ==
  /\ kind \in [Ops -> Kinds \cup {"none"}]
  /\ current \in Ops \cup {NoOp} /\ held \subseteq Ops
  /\ response \in [Ops -> Results] /\ error \in [Ops -> {"none"} \cup Effects]
  /\ published \in [Ops -> BOOLEAN] /\ done \in [Ops -> BOOLEAN]
  /\ submitted \in [Ops -> BOOLEAN] /\ started \in [Ops -> BOOLEAN]
  /\ sent \in [Ops -> BOOLEAN] /\ setup \in BOOLEAN
  /\ responses \in [Ops -> 0..2]
  /\ client \in [Ops -> {"none", "connecting", "exchange", "pairing", "case"}]
  /\ work \in Seq(Items)
  /\ sdk = Idle \/ sdk \in [at : Places, op : Ops, result : Results]

\* A request that was not accepted has left no trace.
Untouched(o) ==
  kind[o] = "none" =>
    /\ o \notin held /\ client[o] = "none" /\ sdk.op # o
    /\ ~done[o] /\ ~sent[o] /\ ~submitted[o] /\ ~started[o] /\ error[o] = "none"

\* What the SDK holds, it holds of a live context of the right kind.
Registered(o) ==
  /\ client[o] # "none" => o \in held /\ ~done[o]
  /\ client[o] = "connecting" => kind[o] \in {"read", "mutate"} /\ ~sent[o]
  /\ client[o] = "exchange" => kind[o] \in {"read", "mutate", "window"} /\
                               (kind[o] # "read" => sent[o])
  /\ client[o] \in {"pairing", "case"} => kind[o] = "commission"
  /\ client[o] \in {"connecting", "case"} => setup

\* What has been sent was marked before.
Marked(o) ==
  /\ sent[o] => \/ kind[o] = "commission" /\ started[o]
                \/ kind[o] \in {"mutate", "window"} /\ submitted[o]
  /\ error[o] = "no_effect" => kind[o] = "read"

\* The section the SDK thread is in.
Section(o) ==
  sdk.op = o =>
    /\ o \in held \/ done[o]
    /\ sdk.at \in {"publish", "mark", "encode", "send"} => client[o] = "none"
    /\ sdk.at \in {"encode", "send"} =>
         o \in held /\ ~done[o] /\ kind[o] \in {"mutate", "window"} /\ ~sent[o]
    /\ sdk.at = "send" => submitted[o]
    /\ sdk.at = "stage" => client[o] = "pairing" /\ started[o]
    /\ sdk.at = "publish" /\ sdk.result = "no_effect" => ~sent[o]
    /\ sdk.at = "publish" /\ sdk.result = "ok" /\ kind[o] = "mutate" =>
         sent[o] /\ responses[o] = 1 /\ error[o] = "none"

OpOK(o) == Untouched(o) /\ Registered(o) /\ Marked(o) /\ Section(o)

\* The work queue: a start comes before all else of its context and before
\* the shutdown, and a context has one reaper.
Ordered ==
  \A i, j \in DOMAIN work :
    /\ i < j /\ work[j].do = "start" => work[i].op # work[j].op /\ work[i].do # "shutdown"
    /\ i # j /\ work[i].do = "reap" /\ work[j].do = "reap" => work[i].op # work[j].op

ItemOK(item) ==
  /\ item.do # "shutdown" => kind[item.op] # "none"
  /\ item.do = "start" =>
       /\ item.op \in held /\ ~done[item.op] /\ client[item.op] = "none" /\ sdk.op # item.op
       /\ ~sent[item.op] /\ ~submitted[item.op] /\ ~started[item.op]
  /\ item.do = "reap" => item.op \in held /\ done[item.op]
  /\ item.do = "abort" => kind[item.op] \in Control /\ (item.op \in held \/ done[item.op])
  /\ item.do = "shutdown" => host \in {"shutdown", "stopping"}

\* The host waits for a context that is there or done with.
Waiting ==
  host \in {"waiting", "aborting"} =>
    /\ current \in Ops /\ kind[current] \in Kinds
    /\ current \in held \/ done[current]
    /\ host = "aborting" => kind[current] \in Control

\* A context that is done has its reaper, one that is not has its start, its
\* registration or its section.
Followed(o) ==
  IF done[o] THEN \E i \in DOMAIN work : work[i].do = "reap" /\ work[i].op = o
  ELSE \/ client[o] # "none" \/ sdk.op = o
       \/ \E i \in DOMAIN work : work[i].do = "start" /\ work[i].op = o

AllFollowed == ~down /\ ~refused /\ host # "stopped" => \A o \in held : Followed(o)

IInv ==
  /\ TypeOK
  /\ \A o \in Ops : OpOK(o)
  /\ Ordered
  /\ \A i \in DOMAIN work : ItemOK(work[i])
  /\ Waiting
  /\ AllFollowed
-----------------------------------------------------------------------------
(* Lemmas.                                                                 *)

\* An item that joins the queue comes last.
LEMMA AppendIs ==
  ASSUME work \in Seq(Items), NEW x \in Items, work' = Append(work, x)
  PROVE  /\ work' \in Seq(Items) /\ DOMAIN work' = 1..(Len(work) + 1)
         /\ DOMAIN work = 1..Len(work) /\ Len(work) \in Nat
         /\ work'[Len(work) + 1] = x
         /\ \A i \in 1..Len(work) : work'[i] = work[i] /\ work[i] \in Items
  OBVIOUS

\* The item at the head leaves the queue, and the others move up.
LEMMA TailIs ==
  ASSUME work \in Seq(Items), work # << >>, work' = Tail(work)
  PROVE  /\ work' \in Seq(Items) /\ DOMAIN work' = 1..(Len(work) - 1)
         /\ DOMAIN work = 1..Len(work) /\ Len(work) \in Nat \ {0}
         /\ Head(work) = work[1] /\ work[1] \in Items
         /\ \A i \in 1..(Len(work) - 1) : work'[i] = work[i + 1] /\ work[i + 1] \in Items
  OBVIOUS

\* Members of the queue, and the section of the SDK thread.
LEMMA ItemIs ==
  ASSUME TypeOK
  PROVE  /\ \A i \in DOMAIN work : work[i] \in Items
         /\ sdk.op \in Ops \cup {NoOp}
         /\ sdk.op \in Ops => sdk \in [at : Places, op : Ops, result : Results]
         /\ sdk.at \in Places => sdk.op \in Ops
  BY PendingAssumption DEF TypeOK, Idle, Places

\* No request was made.
LEMMA InitIInv == Init => IInv
  <1> SUFFICES ASSUME Init PROVE IInv OBVIOUS
  <1>1. work = << >> /\ sdk = Idle /\ sdk.op = NoOp BY DEF Init, Idle
  <1>2. TypeOK
    <2>1. work \in Seq(Items) BY <1>1
    <2>2. responses \in [Ops -> 0..2] BY DEF Init
    <2> QED BY <1>1, <2>1, <2>2 DEF Init, TypeOK, Results
  <1>3. \A o \in Ops : OpOK(o)
    BY <1>1, PendingAssumption DEF Init, OpOK, Untouched, Registered, Marked, Section
  <1> QED BY <1>1, <1>2, <1>3 DEF Init, IInv, Ordered, Waiting, AllFollowed

\* What a step leaves alone of a context.
Alike(o) ==
  /\ client'[o] = client[o] /\ done'[o] = done[o] /\ sent'[o] = sent[o]
  /\ submitted'[o] = submitted[o] /\ started'[o] = started[o]
  /\ error'[o] = error[o] /\ responses'[o] = responses[o]

\* A step of the SDK thread for one context.
Touches(p) ==
  /\ UNCHANGED <<kind, held, down, refused, host, current>>
  /\ \A q \in Ops \ {p} : Alike(q)
  /\ done'[p] = done[p]
  /\ ~done[p] => client'[p] # "none" \/ sdk'.op = p
  /\ sdk.op \in {NoOp, p} /\ sdk'.op \in {NoOp, p}
  /\ setup => setup'

\* The other contexts do not notice.
LEMMA OthersAlike ==
  ASSUME IInv, NEW p \in Ops, Touches(p)
  PROVE  \A q \in Ops \ {p} : OpOK(q)'
  BY PendingAssumption
     DEF IInv, Touches, Alike, OpOK, Untouched, Registered, Marked, Section

\* A step for a context that has left the queue.
LEMMA TouchStep ==
  ASSUME IInv, NEW p \in Ops, Touches(p), TypeOK', OpOK(p)', work' = work,
         client[p] # "none" \/ sdk.op = p
  PROVE  IInv'
  <1>1. \A o \in Ops : OpOK(o)' BY OthersAlike
  <1>2. Ordered' BY DEF IInv, Ordered
  <1>3. \A i \in DOMAIN work' : ItemOK(work[i])'
    <2> SUFFICES ASSUME NEW i \in DOMAIN work PROVE ItemOK(work[i])' OBVIOUS
    <2>1. work[i] \in Items /\ ItemOK(work[i]) BY ItemIs DEF IInv
    <2>2. CASE work[i].op = p BY <2>1, <2>2 DEF Touches, ItemOK
    <2>3. CASE work[i].op \in Ops \ {p}
      BY <2>1, <2>3, PendingAssumption DEF Touches, Alike, ItemOK
    <2>4. CASE work[i].op = NoOp
      BY <2>1, <2>4, PendingAssumption DEF Touches, ItemOK, Items
    <2> QED BY <2>1, <2>2, <2>3, <2>4 DEF Items
  <1>4. Waiting' BY DEF IInv, Waiting, Touches, Alike
  <1>5. AllFollowed'
    <2> SUFFICES ASSUME ~down, ~refused, host # "stopped", NEW o \in held
                 PROVE  Followed(o)'
      BY DEF AllFollowed, Touches
    <2>1. Followed(o) /\ o \in Ops BY DEF IInv, AllFollowed, TypeOK
    <2>2. CASE o = p BY <2>1, <2>2 DEF Followed, Touches
    <2>3. CASE o # p BY <2>1, <2>3, PendingAssumption DEF Followed, Touches, Alike
    <2> QED BY <2>2, <2>3
  <1> QED BY <1>1, <1>2, <1>3, <1>4, <1>5 DEF IInv

\* A work item of a context is begun: a start or an abort leaves the queue.
LEMMA PopStep ==
  ASSUME IInv, NEW p \in Ops, Touches(p), TypeOK', OpOK(p)', sdk = Idle,
         work # << >>, work' = Tail(work), Head(work).op = p, Head(work).do \in {"start", "abort"}
  PROVE  IInv'
  <1>0. work \in Seq(Items) /\ TypeOK BY DEF IInv, TypeOK
  <1>1. /\ DOMAIN work' = 1..(Len(work) - 1) /\ DOMAIN work = 1..Len(work)
        /\ Len(work) \in Nat \ {0} /\ Head(work) = work[1]
        /\ \A i \in 1..(Len(work) - 1) : work'[i] = work[i + 1] /\ work[i + 1] \in Items
    BY <1>0, TailIs
  <1>2. \A o \in Ops : OpOK(o)' BY OthersAlike
  <1>3. Ordered'
    <2>1. \A i \in 1..(Len(work) - 1) : i + 1 \in DOMAIN work BY <1>1
    <2>2. \A i, j \in 1..(Len(work) - 1) :
            /\ i < j <=> i + 1 < j + 1
            /\ i # j <=> i + 1 # j + 1
      BY <1>1
    <2> QED BY <1>1, <2>1, <2>2 DEF IInv, Ordered
  <1>4. \A i \in DOMAIN work' : ItemOK(work[i])'
    <2> SUFFICES ASSUME NEW i \in 1..(Len(work) - 1) PROVE ItemOK(work[i])' BY <1>1
    <2> DEFINE x == work[i + 1]
    <2>0. i + 1 \in DOMAIN work /\ 1 \in DOMAIN work /\ 1 < i + 1 BY <1>1
    <2>1. x \in Items /\ ItemOK(x) /\ work'[i] = x BY <1>1, <2>0 DEF IInv
    <2>2. x.do = "start" => x.op # p BY <1>1, <2>0 DEF IInv, Ordered
    <2> HIDE DEF x
    <2>3. CASE x.op = p BY <2>1, <2>2, <2>3 DEF Touches, ItemOK
    <2>4. CASE x.op \in Ops \ {p}
      BY <2>1, <2>4, PendingAssumption DEF Touches, Alike, ItemOK
    <2>5. CASE x.op = NoOp
      BY <2>1, <2>5, PendingAssumption DEF Touches, ItemOK, Items
    <2> QED BY <2>1, <2>3, <2>4, <2>5 DEF Items
  <1>5. Waiting' BY DEF IInv, Waiting, Touches, Alike
  <1>6. AllFollowed'
    <2> SUFFICES ASSUME ~down, ~refused, host # "stopped", NEW o \in held
                 PROVE  Followed(o)'
      BY DEF AllFollowed, Touches
    <2>1. Followed(o) /\ o \in Ops BY <1>0 DEF IInv, AllFollowed, TypeOK
    <2>2. \A i \in DOMAIN work : i # 1 => i - 1 \in DOMAIN work' /\ work'[i - 1] = work[i]
      BY <1>1
    <2>3. CASE done[o]
      <3>1. PICK i \in DOMAIN work : work[i].do = "reap" /\ work[i].op = o
        BY <2>1, <2>3 DEF Followed
      <3>2. i # 1 BY <1>1, <3>1
      <3>3. done'[o] BY <2>1, <2>3 DEF Touches, Alike
      <3> QED BY <2>2, <3>1, <3>2, <3>3 DEF Followed
    <2>4. CASE ~done[o] /\ o = p BY <2>4 DEF Followed, Touches
    <2>5. CASE ~done[o] /\ o # p
      <3>1. ~done'[o] /\ client'[o] = client[o] BY <2>1, <2>5 DEF Touches, Alike
      <3>2. CASE client[o] # "none" BY <3>1, <3>2 DEF Followed
      <3>3. CASE client[o] = "none"
        <4>1. sdk.op # o BY <2>1, PendingAssumption DEF Idle
        <4>2. PICK i \in DOMAIN work : work[i].do = "start" /\ work[i].op = o
          BY <2>1, <2>5, <3>3, <4>1 DEF Followed
        <4>3. i # 1 BY <1>1, <2>5, <4>2
        <4> QED BY <2>2, <3>1, <4>2, <4>3 DEF Followed
      <3> QED BY <3>2, <3>3
    <2> QED BY <2>3, <2>4, <2>5
  <1> QED BY <1>2, <1>3, <1>4, <1>5, <1>6 DEF IInv

-----------------------------------------------------------------------------
(* The SDK thread.                                                         *)

\* An effect said to be none is of a context that has sent nothing.
LEMMA EffectIs ==
  ASSUME NEW o \in Ops, Marked(o)
  PROVE  EffectOf(o) \in Effects /\ (EffectOf(o) = "no_effect" => ~sent[o])
  BY DEF EffectOf, Marked, Effects

\* A work item is at the head of the queue.
LEMMA HeadIs ==
  ASSUME IInv, NEW do \in {"start", "abort", "reap", "shutdown"}, Item(do)
  PROVE  /\ sdk = Idle /\ sdk.op = NoOp /\ work # << >> /\ Head(work) = work[1]
         /\ 1 \in DOMAIN work /\ ItemOK(work[1]) /\ work[1] \in Items
         /\ work[1].do = do /\ Next1 = work[1].op /\ Head(work).op = Next1 /\ Head(work).do = do
         /\ do # "shutdown" => Next1 \in Ops
  <1>1. work \in Seq(Items) /\ work # << >> BY DEF IInv, TypeOK, Item
  <1>2. Head(work) = work[1] /\ 1 \in DOMAIN work /\ work[1] \in Items BY <1>1
  <1>3. sdk = Idle /\ sdk.op = NoOp BY DEF Item, SdkIdle, Idle
  <1> QED BY <1>1, <1>2, <1>3 DEF Item, Next1, IInv, Items

\* StartInteraction, StartWindow, StartCommissioning: the context is
\* registered with the SDK, or refused before anything was sent.
LEMMA StartStep ==
  ASSUME IInv, StartInteraction \/ StartWindow \/ StartCommissioning
  PROVE  IInv'
  <1>0. Item("start") BY DEF StartInteraction, StartWindow, StartCommissioning
  <1>1. PICK p \in Ops : p = Next1 BY <1>0, HeadIs
  <1>2. /\ sdk = Idle /\ sdk.op = NoOp /\ work # << >> /\ p \in Ops
        /\ Head(work).op = p /\ Head(work).do = "start"
        /\ p \in held /\ ~done[p] /\ client[p] = "none" /\ kind[p] # "none"
        /\ ~sent[p] /\ ~submitted[p] /\ ~started[p]
    BY <1>0, <1>1, HeadIs DEF ItemOK
  <1>3. work' = Tail(work) BY DEF StartInteraction, StartWindow, StartCommissioning
  <1>4. TypeOK /\ OpOK(p) BY <1>2 DEF IInv
  <1>5. /\ UNCHANGED <<kind, held, down, refused, host, current, published, response,
                       error, responses, done, started, sent>>
        /\ \/ /\ kind[p] \in {"read", "mutate"} \/ kind[p] \notin Kinds
              /\ client' = [client EXCEPT ![p] = "connecting"] /\ setup' = TRUE
              /\ sdk' = sdk /\ submitted' = submitted
           \/ /\ kind[p] = "window" /\ UNCHANGED <<client, setup, submitted>>
              /\ sdk' = [at |-> "encode", op |-> p, result |-> "none"]
           \/ /\ kind[p] = "commission" /\ client' = [client EXCEPT ![p] = "pairing"]
              /\ submitted' = [submitted EXCEPT ![p] = TRUE] /\ UNCHANGED <<sdk, setup>>
           \/ /\ UNCHANGED <<client, setup>>
              /\ submitted' = [submitted EXCEPT ![p] = TRUE] \/ submitted' = submitted
              /\ sdk' = [at |-> "publish", op |-> p, result |-> "no_effect"]
    BY <1>1 DEF StartInteraction, StartWindow, StartCommissioning, Enters, context, hostside,
       outside, Kinds, Control
  <1>6. kind[p] \in Kinds BY <1>2, <1>4 DEF TypeOK
  <1>7. work' \in Seq(Items) BY <1>2, <1>3, <1>4, TailIs DEF TypeOK
  <1>8. TypeOK'
    <2>1. sdk' = Idle \/ sdk' \in [at : Places, op : Ops, result : Results]
      BY <1>2, <1>5 DEF Places, Results, Effects
    <2> QED BY <1>4, <1>5, <1>7, <2>1 DEF TypeOK
  <1>9. Touches(p)
    BY <1>2, <1>4, <1>5 DEF Touches, Alike, TypeOK
  <1>10. OpOK(p)'
    <2>1. Untouched(p)' BY <1>2, <1>5 DEF Untouched
    <2>2. Registered(p)' BY <1>2, <1>4, <1>5, <1>6 DEF TypeOK, Registered, Kinds
    <2>3. Marked(p)' BY <1>2, <1>4, <1>5 DEF OpOK, Marked
    <2>4. Section(p)' BY <1>2, <1>4, <1>5, PendingAssumption DEF Section, TypeOK
    <2> QED BY <2>1, <2>2, <2>3, <2>4 DEF OpOK
  <1> QED BY <1>2, <1>3, <1>8, <1>9, <1>10, PopStep

\* AbortWork: the SDK lets go of the context.
LEMMA AbortStep ==
  ASSUME IInv, AbortWork
  PROVE  IInv'
  <1>0. Item("abort") BY DEF AbortWork
  <1>1. PICK p \in Ops : p = Next1 BY <1>0, HeadIs
  <1>2. /\ sdk = Idle /\ sdk.op = NoOp /\ work # << >> /\ p \in Ops
        /\ Head(work).op = p /\ Head(work).do = "abort"
        /\ p \in held \/ done[p]
    BY <1>0, <1>1, HeadIs DEF ItemOK
  <1>3. kind[p] \in Control BY <1>0, <1>1, HeadIs DEF ItemOK
  <1>4. /\ work' = Tail(work) /\ client' = [client EXCEPT ![p] = "none"]
        /\ sdk' = [at |-> "publish", op |-> p, result |-> EffectOf(p)]
        /\ UNCHANGED <<kind, held, down, refused, host, current, published, response,
                       submitted, error, responses, done, started, sent, setup>>
    BY <1>1 DEF AbortWork, Enters, context, hostside
  <1>5. TypeOK /\ OpOK(p) BY <1>2 DEF IInv
  <1>6. EffectOf(p) \in Effects /\ (EffectOf(p) = "no_effect" => ~sent[p])
    BY <1>2, <1>5, EffectIs DEF OpOK
  <1>7. work' \in Seq(Items) BY <1>2, <1>4, <1>5, TailIs DEF TypeOK
  <1>8. TypeOK' BY <1>2, <1>4, <1>5, <1>6, <1>7 DEF TypeOK, Places, Results, Effects
  <1>9. Touches(p) BY <1>2, <1>4, <1>5 DEF Touches, Alike, TypeOK
  <1>10. OpOK(p)'
    <2>1. Untouched(p)' BY <1>3, <1>4 DEF Untouched, Control
    <2>2. client'[p] = "none" BY <1>2, <1>4, <1>5 DEF TypeOK
    <2>3. Registered(p)' BY <2>2 DEF Registered
    <2>4. Marked(p)' BY <1>4, <1>5 DEF OpOK, Marked
    <2>5. Section(p)' BY <1>2, <1>4, <1>6, <2>2 DEF Section, Effects
    <2> QED BY <2>1, <2>3, <2>4, <2>5 DEF OpOK
  <1> QED BY <1>2, <1>4, <1>8, <1>9, <1>10, PopStep

\* ReapWork: the context is released, and the setup when nobody connects.
LEMMA ReapStep ==
  ASSUME IInv, ReapWork
  PROVE  IInv'
  <1> DEFINE p == Next1
  <1>1. Item("reap") BY DEF ReapWork
  <1>2. /\ sdk = Idle /\ sdk.op = NoOp /\ work # << >> /\ p \in Ops /\ 1 \in DOMAIN work
        /\ work[1].op = p /\ work[1].do = "reap" /\ p \in held /\ done[p] /\ kind[p] # "none"
    BY <1>1, HeadIs DEF ItemOK
  <1>3. /\ work' = Tail(work) /\ held' = held \ {p}
        /\ setup' = (setup /\ ~Releases(Active \ {p}))
        /\ UNCHANGED <<kind, down, refused, host, current, published, response, sdk, client,
                       submitted, error, responses, done, started, sent>>
    BY <1>2 DEF ReapWork, context, hostside
  <1> HIDE DEF p
  <1>4. TypeOK /\ \A o \in Ops : OpOK(o) BY DEF IInv
  <1>5. /\ work' \in Seq(Items) /\ DOMAIN work' = 1..(Len(work) - 1) /\ DOMAIN work = 1..Len(work)
        /\ Len(work) \in Nat \ {0}
        /\ \A i \in 1..(Len(work) - 1) : work'[i] = work[i + 1] /\ work[i + 1] \in Items
    BY <1>2, <1>3, <1>4, TailIs DEF TypeOK
  <1>6. TypeOK' BY <1>3, <1>4, <1>5 DEF TypeOK
  <1>7. ASSUME NEW o \in Ops PROVE OpOK(o)'
    <2>1. OpOK(o) BY <1>4
    <2>2. o \in held /\ ~done[o] => o \in held' BY <1>2, <1>3
    <2>3. client[o] \in {"connecting", "case"} => setup'
      <3> SUFFICES ASSUME client[o] \in {"connecting", "case"} PROVE setup' OBVIOUS
      <3>1. o \in held /\ ~done[o] /\ setup BY <2>1 DEF OpOK, Registered
      <3>2. o \in Active \ {p} BY <1>2, <3>1 DEF Active
      <3> QED BY <1>3, <3>1, <3>2 DEF Releases
    <2>4. Untouched(o)' BY <1>3, <2>1 DEF OpOK, Untouched
    <2>5. Registered(o)' BY <1>3, <2>1, <2>2, <2>3 DEF OpOK, Registered
    <2>6. Marked(o)' BY <1>3, <2>1 DEF OpOK, Marked
    <2>7. Section(o)' BY <1>2, <1>3, PendingAssumption DEF Section
    <2> QED BY <2>4, <2>5, <2>6, <2>7 DEF OpOK
  <1>8. \A i \in 1..(Len(work) - 1) : i + 1 \in DOMAIN work /\ 1 # i + 1 /\ 1 < i + 1 BY <1>5
  <1>9. Ordered'
    <2>1. \A i, j \in 1..(Len(work) - 1) : (i < j <=> i + 1 < j + 1) /\ (i # j <=> i + 1 # j + 1)
      BY <1>5
    <2> QED BY <1>5, <1>8, <2>1, SMTT(30) DEF IInv, Ordered
  <1>10. \A i \in DOMAIN work' : ItemOK(work[i])'
    <2> SUFFICES ASSUME NEW i \in 1..(Len(work) - 1) PROVE ItemOK(work[i])' BY <1>5
    <2> DEFINE x == work[i + 1]
    <2>1. x \in Items /\ ItemOK(x) /\ work'[i] = x BY <1>5, <1>8 DEF IInv
    <2>2. x.do = "reap" => x.op # p BY <1>2, <1>8 DEF IInv, Ordered
    <2> HIDE DEF x
    <2> QED BY <1>2, <1>3, <2>1, <2>2 DEF ItemOK
  <1>11. Waiting' BY <1>2, <1>3 DEF IInv, Waiting
  <1>12. AllFollowed'
    <2> SUFFICES ASSUME ~down, ~refused, host # "stopped", NEW o \in held, o # p
                 PROVE  Followed(o)'
      BY <1>3 DEF AllFollowed
    <2>1. Followed(o) BY DEF IInv, AllFollowed
    <2>2. \A i \in DOMAIN work : work[i].op = o => i - 1 \in DOMAIN work' /\ work'[i - 1] = work[i]
      BY <1>2, <1>5
    <2> QED BY <1>3, <2>1, <2>2 DEF Followed
  <1> QED BY <1>6, <1>7, <1>9, <1>10, <1>11, <1>12 DEF IInv

\* ShutdownWork: every context is done and let go, and one of them may get a
\* reaper that will not run.
LEMMA ShutdownStep ==
  ASSUME IInv, ShutdownWork
  PROVE  IInv'
  <1> DEFINE reapers == {o \in Controls : ~done[o]}
             c == CHOOSE o \in reapers : TRUE
             x == [do |-> "reap", op |-> c]
             rest == Tail(work)
  <1>1. Item("shutdown") BY DEF ShutdownWork
  <1>2. /\ sdk = Idle /\ sdk.op = NoOp /\ work # << >> /\ 1 \in DOMAIN work
        /\ work[1].do = "shutdown"
    BY <1>1, HeadIs
  <1>3. /\ client' = [o \in Ops |-> IF o \in held THEN "none" ELSE client[o]]
        /\ response' = [o \in Ops |-> IF o \in held /\ ~published[o] THEN EffectOf(o)
                                                                   ELSE response[o]]
        /\ published' = [o \in Ops |-> published[o] \/ o \in held]
        /\ done' = [o \in Ops |-> done[o] \/ o \in held]
        /\ down' = TRUE
        /\ UNCHANGED <<kind, held, refused, host, current, sdk, submitted, started, error,
                       responses, setup, sent>>
    BY DEF ShutdownWork, hostside
  <1>4. work' = rest \/ (c \in reapers /\ work' = Append(rest, x))
    <2>1. CASE reapers = {} BY <2>1 DEF ShutdownWork
    <2>2. CASE reapers # {}
      <3>1. c \in reapers BY <2>2
      <3> QED BY <2>2, <3>1 DEF ShutdownWork
    <2> QED BY <2>1, <2>2
  <1>5. TypeOK /\ \A o \in Ops : OpOK(o) BY DEF IInv
  <1>6. c \in reapers => c \in held /\ c \in Ops /\ ~done[c] /\ kind[c] # "none"
    BY <1>5 DEF Controls, Control, TypeOK
  <1>7. /\ rest \in Seq(Items) /\ Len(rest) \in Nat /\ DOMAIN rest = 1..Len(rest)
        /\ \A i \in DOMAIN rest : rest[i] = work[i + 1] /\ i + 1 \in DOMAIN work /\ 1 < i + 1
    BY <1>2, <1>5 DEF TypeOK
  <1> HIDE DEF rest, c, reapers
  <1>8. \A i \in DOMAIN rest : rest[i] \in Items /\ ItemOK(rest[i]) /\ rest[i].do # "start"
    BY <1>2, <1>5, <1>7, ItemIs DEF IInv, Ordered
  <1>9. c \in reapers => x \in Items /\ x.do = "reap" /\ x.op = c BY <1>6 DEF Items
  <1> HIDE DEF x
  <1>10. \/ work' = rest
         \/ /\ c \in reapers /\ work' \in Seq(Items) /\ DOMAIN work' = 1..(Len(rest) + 1)
            /\ work'[Len(rest) + 1] = x /\ \A i \in DOMAIN rest : work'[i] = rest[i]
    BY <1>4, <1>7, <1>9
  <1>11. TypeOK'
    <2>1. client' \in [Ops -> {"none", "connecting", "exchange", "pairing", "case"}]
      BY <1>3, <1>5 DEF TypeOK
    <2>2. \A o \in Ops : EffectOf(o) \in Effects BY <1>5, EffectIs DEF OpOK
    <2>3. response' \in [Ops -> Results] BY <1>3, <1>5, <2>2 DEF TypeOK, Results
    <2>4. published' \in [Ops -> BOOLEAN] /\ done' \in [Ops -> BOOLEAN]
      BY <1>3, <1>5 DEF TypeOK
    <2>5. work' \in Seq(Items) BY <1>7, <1>10
    <2> QED BY <1>3, <1>5, <2>1, <2>3, <2>4, <2>5 DEF TypeOK
  <1>12. ASSUME NEW o \in Ops PROVE OpOK(o)'
    <2>1. OpOK(o) BY <1>5
    <2>2. client'[o] = "none" BY <1>3, <2>1 DEF OpOK, Registered
    <2>3. Untouched(o)' BY <1>3, <2>1, <2>2 DEF OpOK, Untouched
    <2>4. Registered(o)' BY <2>2 DEF Registered
    <2>5. Marked(o)' BY <1>3, <2>1 DEF OpOK, Marked
    <2>6. Section(o)' BY <1>2, <1>3, PendingAssumption DEF Section
    <2> QED BY <2>3, <2>4, <2>5, <2>6 DEF OpOK
  <1>13. \A i, j \in DOMAIN rest :
           i # j /\ rest[i].do = "reap" /\ rest[j].do = "reap" => rest[i].op # rest[j].op
    <2>1. \A i, j \in DOMAIN rest : i # j => i + 1 # j + 1 BY <1>7
    <2> QED BY <1>7, <2>1 DEF IInv, Ordered
  <1>14. \A i \in DOMAIN rest : c \in reapers /\ rest[i].do = "reap" => rest[i].op # c
    BY <1>6, <1>8 DEF ItemOK
  <1>15. Ordered'
    <2>1. CASE work' = rest BY <1>8, <1>13, <2>1 DEF Ordered
    <2>2. CASE work' # rest
      <3>1. \A i \in DOMAIN work' : i \in DOMAIN rest \/ i = Len(rest) + 1 BY <1>7, <1>10, <2>2
      <3>2. \A i \in DOMAIN work' : work'[i].do # "start" BY <1>8, <1>9, <1>10, <2>2, <3>1
      <3>3. \A i, j \in DOMAIN work' :
              i # j /\ work'[i].do = "reap" /\ work'[j].do = "reap" => work'[i].op # work'[j].op
        BY <1>9, <1>10, <1>13, <1>14, <2>2, <3>1
      <3> QED BY <3>2, <3>3 DEF Ordered
    <2> QED BY <2>1, <2>2
  <1>16. ASSUME NEW y \in Items, ItemOK(y), y.do # "start" PROVE ItemOK(y)'
    BY <1>3, <1>16 DEF ItemOK, Items
  <1>17. \A y \in Items : c \in reapers /\ y = x => ItemOK(y)'
    BY <1>3, <1>6, <1>9 DEF ItemOK
  <1>18. \A i \in DOMAIN work' : ItemOK(work[i])'
    <2>1. \A y \in Items : ItemOK(y) /\ y.do # "start" => ItemOK(y)' BY <1>16
    <2> SUFFICES ASSUME NEW i \in DOMAIN work', NEW y, y = work'[i] PROVE ItemOK(y)' OBVIOUS
    <2>2. CASE i \in DOMAIN rest BY <1>8, <1>10, <2>1, <2>2
    <2>3. CASE i \notin DOMAIN rest BY <1>7, <1>9, <1>10, <1>17, <2>3
    <2> QED BY <2>2, <2>3
  <1>19. Waiting' BY <1>3 DEF IInv, Waiting, TypeOK
  <1>20. AllFollowed' BY <1>3 DEF AllFollowed
  <1> QED BY <1>11, <1>12, <1>15, <1>18, <1>19, <1>20 DEF IInv

\* Publish, Submit, Send, SendFails and StageSent: the context of the section.
LEMMA SectionStep ==
  ASSUME IInv, Publish \/ Submit \/ Send \/ SendFails \/ StageSent
  PROVE  IInv'
  <1>0. TypeOK BY DEF IInv
  <1>1. sdk.at \in Places
    BY DEF Publish, Submit, Send, SendFails, StageSent, At, Places
  <1>2. PICK p \in Ops : p = sdk.op BY <1>0, <1>1, ItemIs
  <1>3. OpOK(p) BY DEF IInv
  <1>4. UNCHANGED <<kind, held, down, refused, host, current, work, done, started, setup, error,
                    responses>>
    BY DEF Publish, Submit, Send, SendFails, StageSent, context, hostside, outside
  <1>5. kind[p] # "none" /\ (p \in held \/ done[p])
    BY <1>2, <1>3 DEF OpOK, Untouched, Section
  <1>6. CASE Publish
    <2>1. /\ UNCHANGED <<submitted, client, sent>> /\ sdk.at = "publish"
          /\ sdk' = [at |-> "mark", op |-> p, result |-> "none"]
          /\ \/ UNCHANGED <<published, response>>
             \/ /\ published' = [published EXCEPT ![p] = TRUE]
                /\ response' = [response EXCEPT ![p] = sdk.result]
      BY <1>2, <1>6 DEF Publish, At, Enters, outside
    <2>2. sdk.result \in Results BY <1>0, <1>2, ItemIs
    <2>3. sdk' \in [at : Places, op : Ops, result : Results] BY <2>1 DEF Places, Results
    <2>4. TypeOK' BY <1>0, <1>4, <2>1, <2>2, <2>3 DEF TypeOK
    <2>5. Touches(p) BY <1>2, <1>4, <2>1 DEF Touches, Alike
    <2>6. OpOK(p)'
      BY <1>2, <1>3, <1>4, <1>5, <2>1 DEF OpOK, Untouched, Registered, Marked, Section
    <2> QED BY <1>2, <1>4, <2>4, <2>5, <2>6, TouchStep
  <1>7. CASE Submit
    <2>1. /\ UNCHANGED <<published, response, client, sent>> /\ sdk.at = "encode"
          /\ \/ /\ submitted' = [submitted EXCEPT ![p] = TRUE]
                /\ sdk' = [at |-> "send", op |-> p, result |-> "none"]
             \/ /\ submitted' = submitted
                /\ sdk' = [at |-> "publish", op |-> p, result |-> "no_effect"]
      BY <1>2, <1>7 DEF Submit, At, Enters, outside
    <2>2. sdk' \in [at : Places, op : Ops, result : Results]
      BY <2>1 DEF Places, Results, Effects
    <2>3. TypeOK' BY <1>0, <1>4, <2>1, <2>2 DEF TypeOK
    <2>4. Touches(p) BY <1>0, <1>2, <1>4, <2>1 DEF Touches, Alike, TypeOK
    <2>5. OpOK(p)'
      BY <1>0, <1>2, <1>3, <1>4, <1>5, <2>1
         DEF OpOK, Untouched, Registered, Marked, Section, TypeOK
    <2> QED BY <1>2, <1>4, <2>3, <2>4, <2>5, TouchStep
  <1>8. CASE Send
    <2>1. /\ UNCHANGED <<published, response, submitted>> /\ sdk.at = "send"
          /\ client' = [client EXCEPT ![p] = "exchange"] /\ sent' = [sent EXCEPT ![p] = TRUE]
          /\ sdk' = Idle
      BY <1>2, <1>8 DEF Send, At, context
    <2>2. sdk'.op = NoOp /\ client'[p] = "exchange" BY <1>0, <2>1 DEF Idle, TypeOK
    <2>3. TypeOK' BY <1>0, <1>4, <2>1 DEF TypeOK
    <2>4. Touches(p) BY <1>0, <1>2, <1>4, <2>1, <2>2 DEF Touches, Alike, TypeOK
    <2>5. OpOK(p)'
      BY <1>0, <1>2, <1>3, <1>4, <1>5, <2>1, <2>2, PendingAssumption
         DEF OpOK, Untouched, Registered, Marked, Section, TypeOK
    <2> QED BY <1>2, <1>4, <2>3, <2>4, <2>5, TouchStep
  <1>9. CASE SendFails
    <2>1. /\ UNCHANGED <<published, response, client, sent>> /\ sdk.at = "send"
          /\ submitted' = [submitted EXCEPT ![p] = FALSE] \/ submitted' = submitted
          /\ sdk' = [at |-> "publish", op |-> p, result |-> "no_effect"]
      BY <1>2, <1>9 DEF SendFails, At, Enters, outside
    <2>2. sdk' \in [at : Places, op : Ops, result : Results]
      BY <2>1 DEF Places, Results, Effects
    <2>3. TypeOK' BY <1>0, <1>4, <2>1, <2>2 DEF TypeOK
    <2>4. Touches(p) BY <1>0, <1>2, <1>4, <2>1 DEF Touches, Alike, TypeOK
    <2>5. OpOK(p)'
      BY <1>0, <1>2, <1>3, <1>4, <1>5, <2>1
         DEF OpOK, Untouched, Registered, Marked, Section, TypeOK
    <2> QED BY <1>2, <1>4, <2>3, <2>4, <2>5, TouchStep
  <1>10. CASE StageSent
    <2>1. /\ UNCHANGED <<published, response, submitted, client>> /\ sdk.at = "stage"
          /\ sent' = [sent EXCEPT ![p] = TRUE] /\ sdk' = Idle
      BY <1>2, <1>10 DEF StageSent, At, context
    <2>2. sdk'.op = NoOp /\ client[p] = "pairing" BY <1>2, <1>3, <2>1 DEF Idle, OpOK, Section
    <2>3. TypeOK' BY <1>0, <1>4, <2>1 DEF TypeOK
    <2>4. Touches(p) BY <1>0, <1>2, <1>4, <2>1, <2>2 DEF Touches, Alike, TypeOK
    <2>5. OpOK(p)'
      BY <1>0, <1>2, <1>3, <1>4, <1>5, <2>1, <2>2, PendingAssumption
         DEF OpOK, Untouched, Registered, Marked, Section, TypeOK
    <2> QED BY <1>2, <1>4, <2>3, <2>4, <2>5, TouchStep
  <1> QED BY <1>6, <1>7, <1>8, <1>9, <1>10

\* A callback for a registered context: it stays registered, or the section
\* that follows has its answer or its value.
LEMMA CallbackStep ==
  ASSUME IInv, NEW p \in Ops, Callbacks(p)
  PROVE  IInv'
  <1>0. TypeOK /\ OpOK(p) BY DEF IInv
  <1>1. /\ sdk = Idle /\ sdk.op = NoOp /\ client[p] # "none"
    BY DEF Callbacks, Ends, OnConnected, ConnectionFailed, OnDone, Opened, CommissioningComplete,
       CaseConnected, ResultOverflows, OnError, OnResponse, StageStarted, Awaits, SdkIdle, Idle
  <1>2. UNCHANGED <<kind, held, down, refused, host, current, work, done, submitted, sent,
                    published, response>>
    BY DEF Callbacks, Ends, OnConnected, ConnectionFailed, OnDone, Opened, CommissioningComplete,
       CaseConnected, ResultOverflows, OnError, OnResponse, StageStarted, context, hostside, outside
  <1>3. p \in held /\ ~done[p] /\ kind[p] \in Kinds /\ kind[p] # "none"
    BY <1>0, <1>1 DEF OpOK, Untouched, Registered, TypeOK, Kinds
  <1>4. EffectOf(p) \in Effects /\ (EffectOf(p) = "no_effect" => ~sent[p])
    BY <1>0, EffectIs DEF OpOK
  <1>5. CASE ResultOverflows(p) \/ OnError(p) \/ OnResponse(p)
    <2>1. /\ UNCHANGED <<started, sdk, client, setup>> /\ client[p] = "exchange"
          /\ \/ /\ error' = [error EXCEPT ![p] = "no_effect"] /\ kind[p] = "read"
                /\ responses' = responses
             \/ /\ error' = [error EXCEPT ![p] = EffectOf(p)] /\ kind[p] \in {"read", "mutate"}
                /\ responses' = responses
             \/ /\ error' = error /\ responses[p] < 2
                /\ responses' = [responses EXCEPT ![p] = @ + 1]
      BY <1>3, <1>5 DEF ResultOverflows, OnError, OnResponse, Awaits, outside, Kinds, Control
    <2>2. kind[p] = "mutate" => sent[p] /\ EffectOf(p) = "unknown"
      BY <1>0, <1>4, <2>1 DEF OpOK, Registered, Effects
    <2>3. responses' \in [Ops -> 0..2] BY <1>0, <2>1 DEF TypeOK
    <2>4. error' \in [Ops -> {"none"} \cup Effects] BY <1>0, <1>4, <2>1 DEF TypeOK, Effects
    <2>5. TypeOK' BY <1>0, <1>2, <2>1, <2>3, <2>4 DEF TypeOK
    <2>6. Touches(p) BY <1>0, <1>1, <1>2, <2>1 DEF Touches, Alike, TypeOK
    <2>7. Untouched(p)' /\ Registered(p)' /\ Section(p)'
      BY <1>0, <1>1, <1>2, <1>3, <2>1, PendingAssumption DEF OpOK, Untouched, Registered, Section
    <2>8. Marked(p)' BY <1>0, <1>2, <2>1, <2>2 DEF OpOK, Marked, TypeOK
    <2> QED BY <1>1, <1>2, <2>5, <2>6, <2>7, <2>8, TouchStep DEF OpOK
  <1>6. CASE StageStarted(p)
    <2>1. /\ UNCHANGED <<error, responses, client, setup>> /\ client[p] = "pairing"
          /\ started' = [started EXCEPT ![p] = TRUE]
          /\ sdk' = [at |-> "stage", op |-> p, result |-> "none"]
      BY <1>6 DEF StageStarted, Awaits, Enters, outside
    <2>2. sdk' \in [at : Places, op : Ops, result : Results] BY <2>1 DEF Places, Results
    <2>3. TypeOK' BY <1>0, <1>2, <2>1, <2>2 DEF TypeOK
    <2>4. Touches(p) BY <1>0, <1>1, <1>2, <2>1 DEF Touches, Alike, TypeOK
    <2>5. OpOK(p)'
      BY <1>0, <1>2, <1>3, <2>1 DEF OpOK, Untouched, Registered, Marked, Section, TypeOK
    <2> QED BY <1>1, <1>2, <2>3, <2>4, <2>5, TouchStep
  <1>7. CASE Ends(p)
    <2>1. UNCHANGED <<error, responses, started>> /\ (setup => setup')
      BY <1>7 DEF Ends, OnConnected, ConnectionFailed, OnDone, Opened, CommissioningComplete,
         CaseConnected, context
    <2>2. \/ /\ client' = [client EXCEPT ![p] = "exchange"] /\ kind[p] = "read" /\ sdk' = sdk
             /\ setup' = setup
          \/ /\ client' = [client EXCEPT ![p] = "case"] /\ client[p] = "pairing" /\ sdk' = sdk
             /\ setup' = TRUE
          \/ /\ client' = [client EXCEPT ![p] = "none"] /\ setup' = setup
             /\ \/ /\ kind[p] = "mutate" /\ client[p] = "connecting"
                   /\ sdk' = [at |-> "encode", op |-> p, result |-> "none"]
                \/ \E r \in Results :
                     /\ sdk' = [at |-> "publish", op |-> p, result |-> r]
                     /\ r = "no_effect" => ~sent[p]
                     /\ r = "ok" /\ kind[p] = "mutate" =>
                          sent[p] /\ responses[p] = 1 /\ error[p] = "none"
      <3>1. CASE OnConnected(p) BY <3>1 DEF OnConnected, Awaits, Enters
      <3>2. CASE ConnectionFailed(p)
        BY <1>0, <3>2 DEF ConnectionFailed, Awaits, Enters, OpOK, Registered, Results, Effects
      <3>3. CASE OnDone(p)
        <4>1. Outcome(p) \in Results BY <1>0 DEF Outcome, TypeOK, Results, Effects
        <4>2. Outcome(p) = "no_effect" => ~sent[p]
          BY <1>0 DEF Outcome, OpOK, Marked
        <4>3. Outcome(p) = "ok" /\ kind[p] = "mutate" =>
                sent[p] /\ responses[p] = 1 /\ error[p] = "none"
          <5>1. error[p] # "ok"
            BY <1>0 DEF TypeOK, Effects
          <5> QED BY <1>0, <3>3, <5>1 DEF Outcome, OpOK, Registered, OnDone, Awaits
        <4> QED BY <3>3, <4>1, <4>2, <4>3 DEF OnDone, Enters
      <3>4. CASE Opened(p) BY <3>4 DEF Opened, Enters, Results, Effects
      <3>5. CASE CommissioningComplete(p)
        <4>1. kind[p] = "commission" BY <1>0, <3>5 DEF CommissioningComplete, Awaits, OpOK, Registered
        <4> QED BY <1>4, <3>5, <4>1 DEF CommissioningComplete, Awaits, Enters, Results, Effects
      <3>6. CASE CaseConnected(p)
        <4>1. kind[p] = "commission" BY <1>0, <3>6 DEF CaseConnected, Awaits, OpOK, Registered
        <4> QED BY <3>6, <4>1 DEF CaseConnected, Enters, Results, Effects
      <3> QED BY <1>7, <3>1, <3>2, <3>3, <3>4, <3>5, <3>6 DEF Ends
    <2>3. sdk' = Idle \/ sdk' \in [at : Places, op : Ops, result : Results]
      BY <1>1, <2>2 DEF Places, Results
    <2>4. TypeOK' BY <1>0, <1>2, <2>1, <2>2, <2>3 DEF TypeOK
    <2>5. Touches(p)
      BY <1>0, <1>1, <1>2, <1>3, <2>1, <2>2 DEF Touches, Alike, TypeOK
    <2>6. OpOK(p)'
      <3>1. Untouched(p)' BY <1>2, <1>3 DEF Untouched
      <3>2. Registered(p)' BY <1>0, <1>2, <1>3, <2>1, <2>2 DEF OpOK, Registered, TypeOK
      <3>3. Marked(p)' BY <1>0, <1>2, <2>1 DEF OpOK, Marked
      <3>4. Section(p)'
        BY <1>0, <1>1, <1>2, <1>3, <2>1, <2>2, PendingAssumption DEF OpOK, Registered, Section, TypeOK
      <3> QED BY <3>1, <3>2, <3>3, <3>4 DEF OpOK
    <2> QED BY <1>1, <1>2, <2>4, <2>5, <2>6, TouchStep
  <1> QED BY <1>5, <1>6, <1>7 DEF Callbacks

\* MarkDone: a context that becomes done gets its reaper.
LEMMA MarkStep ==
  ASSUME IInv, MarkDone
  PROVE  IInv'
  <1>0. TypeOK /\ sdk.at = "mark" BY DEF IInv, MarkDone, At
  <1>1. PICK p \in Ops : p = sdk.op BY <1>0, ItemIs DEF Places
  <1>2. /\ UNCHANGED <<kind, held, down, host, current, published, response, submitted, started,
                       error, responses, client, setup, sent>>
        /\ done' = [done EXCEPT ![p] = TRUE] /\ sdk' = Idle /\ (refused => refused')
        /\ \/ done[p] /\ work' = work
           \/ ~done[p] /\ work' = Append(work, [do |-> "reap", op |-> p])
           \/ ~done[p] /\ refused' /\ work' = work
    BY <1>1 DEF MarkDone, hostside, outside
  <1>3. OpOK(p) /\ client[p] = "none" /\ (p \in held \/ done[p]) /\ kind[p] # "none"
    BY <1>0, <1>1 DEF IInv, OpOK, Untouched, Section
  <1>4. sdk'.op = NoOp BY <1>2 DEF Idle
  <1>5. [do |-> "reap", op |-> p] \in Items BY DEF Items
  <1>6. TypeOK'
    <2>1. work' \in Seq(Items) BY <1>0, <1>2, <1>5, AppendIs DEF TypeOK
    <2> QED BY <1>0, <1>2, <2>1 DEF TypeOK
  <1>7. ASSUME NEW o \in Ops PROVE OpOK(o)'
    <2>1. OpOK(o) BY DEF IInv
    <2>2. CASE o = p
      BY <1>0, <1>2, <1>3, <1>4, <2>2, PendingAssumption
         DEF OpOK, Untouched, Registered, Marked, Section, TypeOK
    <2>3. CASE o # p
      BY <1>0, <1>2, <1>4, <2>1, <2>3, PendingAssumption
         DEF OpOK, Untouched, Registered, Marked, Section, TypeOK
    <2> QED BY <2>2, <2>3
  <1>8. ASSUME NEW y \in Items, ItemOK(y) PROVE ItemOK(y)'
    <2>1. y.do = "start" => y.op \in Ops /\ y.op # p BY <1>1, <1>8 DEF ItemOK, Items
    <2> QED BY <1>0, <1>2, <1>4, <1>8, <2>1, PendingAssumption DEF ItemOK, TypeOK, Items
  <1>9. \A i \in DOMAIN work : work[i] \in Items /\ ItemOK(work[i]) BY <1>0, ItemIs DEF IInv
  <1>10. Waiting' BY <1>0, <1>2 DEF IInv, Waiting, TypeOK
  <1>11. CASE work' = work
    <2>1. Ordered' BY <1>11 DEF IInv, Ordered
    <2>2. \A i \in DOMAIN work' : ItemOK(work[i])'
      <3> SUFFICES ASSUME NEW i \in DOMAIN work', NEW y, y = work'[i] PROVE ItemOK(y)' OBVIOUS
      <3> QED BY <1>8, <1>9, <1>11
    <2>3. AllFollowed'
      <3> SUFFICES ASSUME ~down, ~refused', host # "stopped", NEW o \in held
                   PROVE  Followed(o)'
        BY <1>2 DEF AllFollowed
      <3>1. Followed(o) /\ done[p] BY <1>2, <1>4, <1>11 DEF IInv, AllFollowed
      <3>2. done' = done BY <1>0, <1>2, <3>1 DEF TypeOK
      <3>3. done[o] \/ sdk.op # o BY <1>1, <3>1
      <3> QED BY <1>2, <1>11, <3>1, <3>2, <3>3 DEF Followed
    <2> QED BY <1>6, <1>7, <1>10, <2>1, <2>2, <2>3 DEF IInv
  <1>12. CASE ~done[p] /\ work' = Append(work, [do |-> "reap", op |-> p])
    <2> DEFINE n == Len(work) + 1
    <2>1. /\ DOMAIN work' = 1..n /\ DOMAIN work = 1..Len(work) /\ Len(work) \in Nat
          /\ work'[n] = [do |-> "reap", op |-> p]
          /\ \A i \in 1..Len(work) : work'[i] = work[i]
      BY <1>0, <1>5, <1>12, AppendIs DEF TypeOK
    <2>2. work'[n].do = "reap" /\ work'[n].op = p BY <2>1
    <2>3. \A i \in DOMAIN work' : i \in DOMAIN work \/ i = n BY <2>1
    <2>4. \A i \in DOMAIN work : work[i].do = "reap" => work[i].op # p
      BY <1>9, <1>12 DEF ItemOK
    <2>5. \A i \in DOMAIN work : i < n /\ ~(n < i) BY <2>1
    <2> HIDE DEF n
    <2>6. Ordered'
      BY <2>1, <2>2, <2>3, <2>4, <2>5 DEF IInv, Ordered
    <2>7. \A i \in DOMAIN work' : ItemOK(work[i])'
      <3> SUFFICES ASSUME NEW i \in DOMAIN work', NEW y, y = work'[i] PROVE ItemOK(y)' OBVIOUS
      <3>1. CASE i \in DOMAIN work BY <1>8, <1>9, <2>1, <3>1
      <3>2. CASE i = n BY <1>0, <1>2, <1>3, <1>12, <2>2, <3>2 DEF ItemOK, TypeOK
      <3> QED BY <2>3, <3>1, <3>2
    <2>8. AllFollowed'
      <3> SUFFICES ASSUME ~down, ~refused, host # "stopped", NEW o \in held
                   PROVE  Followed(o)'
        BY <1>2 DEF AllFollowed
      <3>1. Followed(o) /\ o \in Ops BY <1>0 DEF IInv, AllFollowed, TypeOK
      <3>2. n \in DOMAIN work' BY <2>1 DEF n
      <3>3. CASE o = p BY <1>0, <1>2, <2>2, <3>2, <3>3 DEF Followed, TypeOK
      <3>4. CASE o # p
        <4>1. done'[o] = done[o] BY <1>0, <1>2, <3>4 DEF TypeOK
        <4>2. \A i \in DOMAIN work : i \in DOMAIN work' /\ work'[i] = work[i] BY <2>1 DEF n
        <4> QED BY <1>1, <1>2, <3>1, <3>4, <4>1, <4>2 DEF Followed
      <3> QED BY <3>3, <3>4
    <2> QED BY <1>6, <1>7, <1>10, <2>6, <2>7, <2>8 DEF IInv
  <1> QED BY <1>2, <1>11, <1>12

-----------------------------------------------------------------------------
(* The host thread.                                                        *)

\* What no step of the host between two requests changes.
Quiet ==
  /\ UNCHANGED <<held, client, setup, sent, submitted, started, error, responses, done, sdk, down>>
  /\ refused => refused'
  /\ host # "stopped" /\ host' # "stopped"
  /\ host \in {"shutdown", "stopping"} => host' \in {"shutdown", "stopping"}
  /\ \A o \in Ops : kind'[o] = kind[o] \/ (kind[o] = "none" /\ kind'[o] # "none")

\* Contexts do not notice such a step.
LEMMA QuietOps ==
  ASSUME IInv, Quiet, TypeOK'
  PROVE  /\ \A o \in Ops : OpOK(o)'
         /\ \A o \in held : Followed(o) /\ (\A i \in DOMAIN work : \E j \in DOMAIN work' :
                                              work'[j] = work[i]) => Followed(o)'
  <1>1. \A o \in Ops : OpOK(o)'
    <2> SUFFICES ASSUME NEW o \in Ops PROVE OpOK(o)' OBVIOUS
    <2>1. OpOK(o) BY DEF IInv
    <2>2. CASE kind'[o] = kind[o]
      BY <2>1, <2>2 DEF Quiet, OpOK, Untouched, Registered, Marked, Section
    <2>3. CASE kind[o] = "none"
      BY <2>1, <2>3 DEF Quiet, OpOK, Untouched, Registered, Marked, Section
    <2> QED BY <2>2, <2>3 DEF Quiet
  <1>2. ASSUME NEW o \in held, Followed(o),
               \A i \in DOMAIN work : \E j \in DOMAIN work' : work'[j] = work[i]
        PROVE  Followed(o)'
    BY <1>2 DEF Quiet, Followed
  <1> QED BY <1>1, <1>2

\* Such a step keeps the invariant; it may schedule an abort or the shutdown.
LEMMA QuietStep ==
  ASSUME IInv, Quiet, TypeOK', Waiting',
         \/ work' = work
         \/ \E x \in Items : /\ work' = Append(work, x) /\ ItemOK(x)'
                             /\ x.do \in {"abort", "shutdown"}
  PROVE  IInv'
  <1>0. TypeOK BY DEF IInv
  <1>1. \A o \in Ops : OpOK(o)' BY QuietOps
  <1>2. ASSUME NEW y \in Items, ItemOK(y) PROVE ItemOK(y)'
    BY <1>2 DEF Quiet, ItemOK, Items
  <1>3. \A i \in DOMAIN work : work[i] \in Items /\ ItemOK(work[i]) BY <1>0, ItemIs DEF IInv
  <1>4. ASSUME \A i \in DOMAIN work : \E j \in DOMAIN work' : work'[j] = work[i]
        PROVE  AllFollowed'
    BY <1>4, QuietOps DEF IInv, AllFollowed, Quiet
  <1>5. CASE work' = work
    <2>1. \A i \in DOMAIN work' : ItemOK(work[i])'
      <3> SUFFICES ASSUME NEW i \in DOMAIN work', NEW y, y = work'[i] PROVE ItemOK(y)' OBVIOUS
      <3> QED BY <1>2, <1>3, <1>5
    <2>2. Ordered' BY <1>5 DEF IInv, Ordered
    <2> QED BY <1>1, <1>4, <1>5, <2>1, <2>2 DEF IInv
  <1>6. ASSUME NEW x \in Items, work' = Append(work, x), ItemOK(x)', x.do \in {"abort", "shutdown"}
        PROVE  IInv'
    <2> DEFINE n == Len(work) + 1
    <2>1. /\ DOMAIN work' = 1..n /\ DOMAIN work = 1..Len(work) /\ Len(work) \in Nat
          /\ work'[n] = x /\ \A i \in 1..Len(work) : work'[i] = work[i]
      BY <1>0, <1>6, AppendIs DEF TypeOK
    <2>2. /\ \A i \in DOMAIN work' : i \in DOMAIN work \/ i = n
          /\ \A i \in DOMAIN work : i < n /\ ~(n < i) /\ i \in DOMAIN work'
      BY <2>1
    <2> HIDE DEF n
    <2>3. Ordered'
      <3>1. work'[n].do # "start" /\ work'[n].do # "reap" BY <1>6, <2>1
      <3>2. \A i \in DOMAIN work : work'[i] = work[i] BY <2>1
      <3> SUFFICES ASSUME NEW i \in DOMAIN work', NEW j \in DOMAIN work'
                   PROVE  /\ i < j /\ work'[j].do = "start" =>
                               work'[i].op # work'[j].op /\ work'[i].do # "shutdown"
                          /\ i # j /\ work'[i].do = "reap" /\ work'[j].do = "reap" =>
                               work'[i].op # work'[j].op
        BY DEF Ordered
      <3>3. CASE i = n \/ j = n BY <2>2, <3>1, <3>3
      <3>4. CASE i \in DOMAIN work /\ j \in DOMAIN work BY <3>2, <3>4 DEF IInv, Ordered
      <3> QED BY <2>2, <3>3, <3>4
    <2>4. \A i \in DOMAIN work' : ItemOK(work[i])'
      <3> SUFFICES ASSUME NEW i \in DOMAIN work', NEW y, y = work'[i] PROVE ItemOK(y)' OBVIOUS
      <3>1. CASE i \in DOMAIN work BY <1>2, <1>3, <2>1, <3>1
      <3>2. CASE i = n BY <1>6, <2>1, <3>2
      <3> QED BY <2>2, <3>1, <3>2
    <2>5. AllFollowed' BY <1>4, <2>1, <2>2
    <2> QED BY <1>1, <2>3, <2>4, <2>5 DEF IInv
  <1> QED BY <1>5, <1>6

\* Busy, the returns of Wait, ScheduleAbort, Closes, Cleanup, ShutdownDone and
\* the passing of time.
LEMMA HostStep ==
  ASSUME IInv,
         \/ WaitReturns \/ WaitExpires \/ ScheduleAbort \/ Closes \/ Cleanup \/ ShutdownDone
         \/ \E o \in Ops : Expires(o) \/ \E k \in Kinds : Busy(o, k)
  PROVE  IInv'
  <1>0. TypeOK /\ Waiting BY DEF IInv
  <1>1. CASE WaitReturns \/ Closes \/ ShutdownDone \/ \E o \in Ops : Expires(o)
    <2>1. /\ UNCHANGED <<kind, held, work, client, setup, sent, submitted, started, error, responses,
                         done, sdk, down, refused, published, response>>
          /\ current' \in {current, NoOp}
          /\ (host' = host /\ current' = current) \/ host' \in {"idle", "stopping"}
      BY <1>1 DEF WaitReturns, Closes, ShutdownDone, Expires, context, hostside, outside
    <2>2. (host # "stopped" /\ host' # "stopped") \/ (host' = host /\ current' = current)
      BY <1>1 DEF WaitReturns, Closes, ShutdownDone, Expires, hostside
    <2>3. host \in {"shutdown", "stopping"} => host' \in {"shutdown", "stopping"}
      BY <1>1 DEF WaitReturns, Closes, ShutdownDone, Expires, hostside
    <2>4. TypeOK' BY <1>0, <2>1 DEF TypeOK
    <2>5. Waiting' BY <1>0, <2>1 DEF Waiting
    <2>6. CASE host # "stopped" /\ host' # "stopped"
      <3>1. Quiet BY <2>1, <2>3, <2>6 DEF Quiet
      <3> QED BY <2>1, <2>4, <2>5, <3>1, QuietStep
    <2>7. CASE host' = host /\ current' = current
      <3>1. \A o \in Ops : OpOK(o)'
        BY <2>1 DEF IInv, OpOK, Untouched, Registered, Marked, Section
      <3>2. \A i \in DOMAIN work' : ItemOK(work[i])' BY <2>1, <2>7 DEF IInv, ItemOK
      <3>3. Ordered' BY <2>1 DEF IInv, Ordered
      <3>4. AllFollowed' BY <2>1, <2>7 DEF IInv, AllFollowed, Followed
      <3> QED BY <2>4, <2>5, <3>1, <3>2, <3>3, <3>4 DEF IInv
    <2> QED BY <2>2, <2>6, <2>7
  <1>2. CASE WaitExpires
    <2>1. current \in Ops /\ kind[current] \in Kinds /\ host = "waiting"
      BY <1>0, <1>2 DEF WaitExpires, Waiting
    <2>2. EffectOf(current) \in Effects BY <2>1, EffectIs DEF IInv, OpOK
    <2>3. /\ UNCHANGED <<kind, held, work, client, setup, sent, submitted, started, error, responses,
                         done, sdk, down, refused>>
          /\ response' = [response EXCEPT ![current] = EffectOf(current)]
          /\ published' = [published EXCEPT ![current] = TRUE]
          /\ \/ kind[current] \in Control /\ host' = "aborting" /\ current' = current
             \/ host' = "idle" /\ current' = NoOp
      BY <1>2 DEF WaitExpires, TimeoutEffect, outside
    <2>4. TypeOK'
      <3>1. response' \in [Ops -> Results] BY <1>0, <2>2, <2>3 DEF TypeOK, Results
      <3> QED BY <1>0, <2>3, <3>1 DEF TypeOK
    <2>5. Waiting' BY <1>0, <2>1, <2>3 DEF Waiting
    <2>6. Quiet BY <2>1, <2>3 DEF Quiet
    <2> QED BY <2>3, <2>4, <2>5, <2>6, QuietStep
  <1>3. CASE ScheduleAbort
    <2>1. /\ host = "aborting" /\ current \in Ops /\ kind[current] \in Control
          /\ current \in held \/ done[current]
      BY <1>0, <1>3 DEF ScheduleAbort, Waiting
    <2>2. PICK p \in Ops : p = current BY <2>1
    <2> DEFINE x == [do |-> "abort", op |-> p]
    <2>3. /\ UNCHANGED <<kind, held, client, setup, sent, submitted, started, error, responses,
                         done, sdk, down, published, response>>
          /\ host' = "idle" /\ current' = NoOp /\ (refused => refused')
          /\ work' = work \/ work' = Append(work, x)
      BY <1>3, <2>2 DEF ScheduleAbort, context, outside
    <2>4. x \in Items /\ x.do = "abort" /\ x.op = p BY DEF Items
    <2> HIDE DEF x
    <2>5. TypeOK'
      <3>1. work' \in Seq(Items) BY <1>0, <2>3, <2>4, AppendIs DEF TypeOK
      <3> QED BY <1>0, <2>3, <3>1 DEF TypeOK
    <2>6. Waiting' BY <2>3 DEF Waiting
    <2>7. Quiet BY <2>1, <2>3 DEF Quiet
    <2>8. ItemOK(x)' BY <2>1, <2>2, <2>3, <2>4 DEF ItemOK, Control, x
    <2> QED BY <2>3, <2>4, <2>5, <2>6, <2>7, <2>8, QuietStep
  <1>4. CASE Cleanup
    <2> DEFINE x == [do |-> "shutdown", op |-> NoOp]
    <2>1. /\ UNCHANGED <<kind, held, client, setup, sent, submitted, started, error, responses,
                         done, sdk, down, refused, published, response, current>>
          /\ host = "idle"
          /\ \/ work' = work /\ host' = "stopping"
             \/ work' = Append(work, x) /\ host' = "shutdown"
      BY <1>4 DEF Cleanup, context, outside
    <2>2. x \in Items /\ x.do = "shutdown" BY DEF Items
    <2> HIDE DEF x
    <2>3. TypeOK'
      <3>1. work' \in Seq(Items) BY <1>0, <2>1, <2>2, AppendIs DEF TypeOK
      <3> QED BY <1>0, <2>1, <3>1 DEF TypeOK
    <2>4. Waiting' BY <2>1 DEF Waiting
    <2>5. Quiet BY <2>1 DEF Quiet
    <2>6. host' = "shutdown" => ItemOK(x)' BY <2>2 DEF ItemOK, x
    <2> QED BY <2>1, <2>2, <2>3, <2>4, <2>5, <2>6, QuietStep
  <1>5. ASSUME NEW o \in Ops, NEW k \in Kinds, Busy(o, k) PROVE IInv'
    <2>1. /\ UNCHANGED <<held, work, client, setup, sent, submitted, started, error, responses,
                         done, sdk, down, refused, published, response, host, current>>
          /\ host \in {"idle", "waiting"} /\ kind[o] = "none" /\ kind' = [kind EXCEPT ![o] = k]
      BY <1>5 DEF Busy, Accept, context, outside
    <2>2. TypeOK' BY <1>0, <2>1 DEF TypeOK
    <2>3. host = "waiting" => o # current BY <1>0, <2>1 DEF Waiting, Kinds
    <2>4. Waiting' BY <1>0, <2>1, <2>3 DEF Waiting, TypeOK
    <2>5. \A q \in Ops : kind'[q] = kind[q] \/ (kind[q] = "none" /\ kind'[q] # "none")
      BY <1>0, <2>1 DEF TypeOK, Kinds
    <2>6. Quiet BY <2>1, <2>5 DEF Quiet
    <2> QED BY <2>1, <2>2, <2>4, <2>6, QuietStep
  <1> QED BY <1>1, <1>2, <1>3, <1>4, <1>5

\* Call: a context joins with its start, the last item of the queue.
LEMMA CallStep ==
  ASSUME IInv, NEW o \in Ops, NEW k \in Kinds, Call(o, k)
  PROVE  IInv'
  <1> DEFINE x == [do |-> "start", op |-> o]
             n == Len(work) + 1
  <1>0. TypeOK /\ OpOK(o) BY DEF IInv
  <1>1. /\ UNCHANGED <<client, setup, sent, submitted, started, error, responses, done, sdk, down,
                       refused, published, response>>
        /\ kind[o] = "none" /\ kind' = [kind EXCEPT ![o] = k] /\ held' = held \cup {o}
        /\ work' = Append(work, x) /\ host = "idle" /\ host' = "waiting" /\ current' = o
    BY DEF Call, Accept, context, outside
  <1>2. x \in Items /\ x.do = "start" /\ x.op = o BY DEF Items
  <1> HIDE DEF x
  <1>3. /\ work' \in Seq(Items) /\ DOMAIN work' = 1..n /\ DOMAIN work = 1..Len(work)
        /\ Len(work) \in Nat /\ work'[n] = x
        /\ \A i \in DOMAIN work : work'[i] = work[i] /\ work[i] \in Items
    BY <1>0, <1>1, <1>2, AppendIs DEF TypeOK
  <1>4. /\ \A i \in DOMAIN work' : i \in DOMAIN work \/ i = n
        /\ \A i \in DOMAIN work : i < n /\ ~(n < i) /\ i \in DOMAIN work'
        /\ n \in DOMAIN work'
    BY <1>3
  <1> HIDE DEF n
  <1>5. /\ o \notin held /\ client[o] = "none" /\ sdk.op # o
        /\ ~done[o] /\ ~sent[o] /\ ~submitted[o] /\ ~started[o] /\ error[o] = "none"
    BY <1>0, <1>1 DEF OpOK, Untouched
  <1>6. TypeOK' BY <1>0, <1>1, <1>3 DEF TypeOK
  <1>7. kind'[o] = k /\ \A q \in Ops \ {o} : kind'[q] = kind[q] BY <1>0, <1>1 DEF TypeOK
  <1>8. ASSUME NEW q \in Ops PROVE OpOK(q)'
    <2>1. OpOK(q) BY DEF IInv
    <2>2. CASE q = o
      BY <1>1, <1>5, <1>7, <2>2 DEF OpOK, Untouched, Registered, Marked, Section, Kinds
    <2>3. CASE q # o
      BY <1>1, <1>7, <2>1, <2>3 DEF OpOK, Untouched, Registered, Marked, Section
    <2> QED BY <2>2, <2>3
  <1>9. \A i \in DOMAIN work : ItemOK(work[i]) /\ work[i].do # "shutdown" /\ work[i].op # o
    BY <1>1 DEF IInv, ItemOK
  <1>10. ASSUME NEW y \in Items, ItemOK(y), y.op # o, y.do # "shutdown" PROVE ItemOK(y)'
    BY <1>1, <1>7, <1>10 DEF ItemOK, Items
  <1>11. ItemOK(x)' BY <1>1, <1>2, <1>5, <1>7 DEF ItemOK, Kinds, x
  <1>12. \A i \in DOMAIN work' : ItemOK(work[i])'
    <2> SUFFICES ASSUME NEW i \in DOMAIN work', NEW y, y = work'[i] PROVE ItemOK(y)' OBVIOUS
    <2>1. CASE i \in DOMAIN work BY <1>3, <1>9, <1>10, <2>1
    <2>2. CASE i = n BY <1>3, <1>11, <2>2 DEF x
    <2> QED BY <1>4, <2>1, <2>2
  <1>13. Ordered'
    <2> SUFFICES ASSUME NEW i \in DOMAIN work', NEW j \in DOMAIN work'
                 PROVE  /\ i < j /\ work'[j].do = "start" =>
                             work'[i].op # work'[j].op /\ work'[i].do # "shutdown"
                        /\ i # j /\ work'[i].do = "reap" /\ work'[j].do = "reap" =>
                             work'[i].op # work'[j].op
      BY DEF Ordered
    <2>1. CASE i = n BY <1>2, <1>3, <1>4, <2>1
    <2>2. CASE i \in DOMAIN work /\ j = n BY <1>2, <1>3, <1>9, <2>2
    <2>3. CASE i \in DOMAIN work /\ j \in DOMAIN work BY <1>3, <2>3 DEF IInv, Ordered
    <2> QED BY <1>4, <2>1, <2>2, <2>3
  <1>14. Waiting' BY <1>1, <1>7 DEF Waiting
  <1>15. AllFollowed'
    <2> SUFFICES ASSUME ~down, ~refused, NEW q \in held' PROVE Followed(q)'
      BY <1>1 DEF AllFollowed
    <2>1. CASE q = o BY <1>1, <1>2, <1>3, <1>4, <1>5, <2>1 DEF Followed
    <2>2. CASE q # o
      <3>1. Followed(q) BY <1>1, <2>2 DEF IInv, AllFollowed
      <3> QED BY <1>1, <1>3, <1>4, <3>1 DEF Followed
    <2> QED BY <2>1, <2>2
  <1> QED BY <1>6, <1>8, <1>12, <1>13, <1>14, <1>15 DEF IInv

\* Unavailable: the context is done from the beginning.
LEMMA UnavailableStep ==
  ASSUME IInv, NEW o \in Ops, NEW k \in Kinds, Unavailable(o, k)
  PROVE  IInv'
  <1> DEFINE x == [do |-> "reap", op |-> o]
             n == Len(work) + 1
  <1>0. TypeOK /\ OpOK(o) BY DEF IInv
  <1>1. /\ UNCHANGED <<client, setup, sent, submitted, started, error, responses, sdk, down>>
        /\ published' = [published EXCEPT ![o] = TRUE]
        /\ response' = [response EXCEPT ![o] = "no_effect"] /\ done' = [done EXCEPT ![o] = TRUE]
        /\ kind[o] = "none" /\ kind' = [kind EXCEPT ![o] = k]
        /\ host = "idle" /\ host' = "waiting" /\ current' = o /\ (refused => refused')
        /\ \/ held' = held /\ work' = work
           \/ held' = held \cup {o} /\ work' = Append(work, x)
           \/ held' = held \cup {o} /\ work' = work /\ refused'
    BY DEF Unavailable, Accept, outside
  <1>2. x \in Items /\ x.do = "reap" /\ x.op = o BY DEF Items
  <1> HIDE DEF x
  <1>3. /\ o \notin held /\ client[o] = "none" /\ sdk.op # o
        /\ ~done[o] /\ ~sent[o] /\ ~submitted[o] /\ ~started[o] /\ error[o] = "none"
    BY <1>0, <1>1 DEF OpOK, Untouched
  <1>4. TypeOK'
    <2>1. work' \in Seq(Items) BY <1>0, <1>1, <1>2, AppendIs DEF TypeOK
    <2> QED BY <1>0, <1>1, <2>1 DEF TypeOK, Results, Effects
  <1>5. /\ kind'[o] = k /\ \A q \in Ops \ {o} : kind'[q] = kind[q]
        /\ done'[o] /\ \A q \in Ops \ {o} : done'[q] = done[q]
        /\ \A q \in Ops \ {o} : q \in held' <=> q \in held
    BY <1>0, <1>1 DEF TypeOK
  <1>6. ASSUME NEW q \in Ops PROVE OpOK(q)'
    <2>1. OpOK(q) BY DEF IInv
    <2>2. CASE q = o
      BY <1>1, <1>3, <1>5, <2>2 DEF OpOK, Untouched, Registered, Marked, Section, Kinds
    <2>3. CASE q # o
      BY <1>1, <1>5, <2>1, <2>3 DEF OpOK, Untouched, Registered, Marked, Section
    <2> QED BY <2>2, <2>3
  <1>7. \A i \in DOMAIN work :
          work[i] \in Items /\ ItemOK(work[i]) /\ work[i].do # "shutdown" /\ work[i].op # o
    BY <1>0, <1>1, ItemIs DEF IInv, ItemOK
  <1>8. ASSUME NEW y \in Items, ItemOK(y), y.op # o, y.do # "shutdown" PROVE ItemOK(y)'
    BY <1>1, <1>5, <1>8 DEF ItemOK, Items
  <1>9. Waiting' BY <1>1, <1>5 DEF Waiting
  <1>10. CASE work' = work
    <2>1. Ordered' BY <1>10 DEF IInv, Ordered
    <2>2. \A i \in DOMAIN work' : ItemOK(work[i])'
      <3> SUFFICES ASSUME NEW i \in DOMAIN work', NEW y, y = work'[i] PROVE ItemOK(y)' OBVIOUS
      <3> QED BY <1>7, <1>8, <1>10
    <2>3. AllFollowed'
      <3> SUFFICES ASSUME ~down, ~refused', NEW q \in held' PROVE Followed(q)'
        BY <1>1 DEF AllFollowed
      <3>1. q \in held /\ q \in Ops /\ q # o
        <4>1. work' # Append(work, x)
          <5>1. Len(work) \in Nat /\ Len(Append(work, x)) = Len(work) + 1
            BY <1>0, <1>2 DEF TypeOK
          <5> QED BY <1>10, <5>1
        <4> QED BY <1>0, <1>1, <1>3, <4>1 DEF TypeOK
      <3>2. Followed(q) BY <1>1, <3>1 DEF IInv, AllFollowed
      <3> QED BY <1>1, <1>5, <1>10, <3>1, <3>2 DEF Followed
    <2> QED BY <1>4, <1>6, <1>9, <2>1, <2>2, <2>3 DEF IInv
  <1>11. CASE work' = Append(work, x) /\ held' = held \cup {o}
    <2>1. /\ DOMAIN work' = 1..n /\ DOMAIN work = 1..Len(work)
          /\ Len(work) \in Nat /\ work'[n] = x
          /\ \A i \in DOMAIN work : work'[i] = work[i]
      BY <1>0, <1>2, <1>11, AppendIs DEF TypeOK
    <2>2. /\ \A i \in DOMAIN work' : i \in DOMAIN work \/ i = n
          /\ \A i \in DOMAIN work : i < n /\ ~(n < i) /\ i \in DOMAIN work'
          /\ n \in DOMAIN work'
      BY <2>1
    <2> HIDE DEF n
    <2>3. ItemOK(x)' BY <1>2, <1>5, <1>11 DEF ItemOK, Kinds, x
    <2>4. \A i \in DOMAIN work' : ItemOK(work[i])'
      <3> SUFFICES ASSUME NEW i \in DOMAIN work', NEW y, y = work'[i] PROVE ItemOK(y)' OBVIOUS
      <3>1. CASE i \in DOMAIN work BY <1>7, <1>8, <2>1, <3>1
      <3>2. CASE i = n BY <2>1, <2>3, <3>2 DEF x
      <3> QED BY <2>2, <3>1, <3>2
    <2>5. Ordered'
      <3> SUFFICES ASSUME NEW i \in DOMAIN work', NEW j \in DOMAIN work'
                   PROVE  /\ i < j /\ work'[j].do = "start" =>
                               work'[i].op # work'[j].op /\ work'[i].do # "shutdown"
                          /\ i # j /\ work'[i].do = "reap" /\ work'[j].do = "reap" =>
                               work'[i].op # work'[j].op
        BY DEF Ordered
      <3>1. CASE i = n BY <1>2, <1>7, <2>1, <2>2, <3>1
      <3>2. CASE i \in DOMAIN work /\ j = n BY <1>2, <1>7, <2>1, <3>2
      <3>3. CASE i \in DOMAIN work /\ j \in DOMAIN work BY <2>1, <3>3 DEF IInv, Ordered
      <3> QED BY <2>2, <3>1, <3>2, <3>3
    <2>6. AllFollowed'
      <3> SUFFICES ASSUME ~down, ~refused, NEW q \in held' PROVE Followed(q)'
        BY <1>1 DEF AllFollowed
      <3>1. CASE q = o BY <1>2, <1>5, <2>1, <2>2, <3>1 DEF Followed
      <3>2. CASE q # o
        <4>1. Followed(q) /\ q \in Ops BY <1>0, <1>1, <1>11, <3>2 DEF IInv, AllFollowed, TypeOK
        <4> QED BY <1>1, <1>5, <2>1, <2>2, <3>2, <4>1 DEF Followed
      <3> QED BY <3>1, <3>2
    <2> QED BY <1>4, <1>6, <1>9, <2>4, <2>5, <2>6 DEF IInv
  <1> QED BY <1>1, <1>10, <1>11

\* LoopStops: the SDK thread is joined and nothing is left.
LEMMA StopStep ==
  ASSUME IInv, LoopStops
  PROVE  IInv'
  <1>1. /\ UNCHANGED <<kind, current, published, response, submitted, started, error, responses,
                       done, sdk, sent>>
        /\ sdk = Idle /\ sdk.op = NoOp /\ host' = "stopped" /\ held' = {} /\ work' = << >>
        /\ client' = [o \in Ops |-> "none"] /\ setup' = FALSE
    BY DEF LoopStops, context, Idle
  <1>2. TypeOK'
    <2>1. work' \in Seq(Items) BY <1>1
    <2> QED BY <1>1, <2>1 DEF IInv, TypeOK
  <1>3. \A o \in Ops : OpOK(o)'
    BY <1>1, PendingAssumption DEF IInv, OpOK, Untouched, Registered, Marked, Section
  <1>4. DOMAIN work' = {} BY <1>1
  <1> QED BY <1>1, <1>2, <1>3, <1>4 DEF IInv, Ordered, Waiting, AllFollowed

\* The invariant is inductive.
LEMMA IInvStep == IInv /\ [Next]_vars => IInv'
  <1> SUFFICES ASSUME IInv, [Next]_vars PROVE IInv' OBVIOUS
  <1>1. CASE HostSteps \/ Closes BY <1>1, HostStep, StopStep DEF HostSteps
  <1>2. CASE Work
    BY <1>2, StartStep, AbortStep, ReapStep, ShutdownStep DEF Work
  <1>3. CASE Sections BY <1>3, SectionStep, MarkStep DEF Sections
  <1>4. ASSUME NEW o \in Ops, Expires(o) \/ Callbacks(o) PROVE IInv'
    BY <1>4, HostStep, CallbackStep
  <1>5. ASSUME NEW o \in Ops, NEW k \in Kinds, Call(o, k) \/ Busy(o, k) \/ Unavailable(o, k)
        PROVE  IInv'
    BY <1>5, CallStep, HostStep, UnavailableStep
  <1>6. CASE UNCHANGED vars
    <2>1. UNCHANGED <<kind, held, down, refused, work, sdk, host, current, published, response,
                      submitted, started, error, responses, done, client, setup, sent>>
      BY <1>6 DEF vars, context, hostside, outside
    <2>2. TypeOK' BY <2>1 DEF IInv, TypeOK
    <2>3. \A o \in Ops : OpOK(o)'
      BY <2>1 DEF IInv, OpOK, Untouched, Registered, Marked, Section
    <2>4. Ordered' /\ Waiting' BY <2>1 DEF IInv, Ordered, Waiting
    <2>5. \A i \in DOMAIN work' : ItemOK(work[i])' BY <2>1 DEF IInv, ItemOK
    <2>6. AllFollowed' BY <2>1 DEF IInv, AllFollowed, Followed
    <2> QED BY <2>2, <2>3, <2>4, <2>5, <2>6 DEF IInv
  <1> QED BY <1>1, <1>2, <1>3, <1>4, <1>5, <1>6 DEF Next
-----------------------------------------------------------------------------
(* Theorems.                                                               *)

\* A context is there as long as the SDK may call it: what is done has no
\* registration, what is released has no work item but an abort, and the
\* session setup outlives those who connect.
THEOREM ContextCorrect == Spec => []ContextOutlivesCallbacks
  <1>1. IInv => ContextOutlivesCallbacks
    <2> SUFFICES ASSUME IInv PROVE ContextOutlivesCallbacks OBVIOUS
    <2>1. \A o \in Ops : (done[o] => client[o] = "none") /\
                         (client[o] \in {"connecting", "case"} => setup) /\
                         (o \notin held => client[o] = "none")
      BY DEF IInv, OpOK, Registered
    <2>2. ASSUME NEW o \in Ops \ held, NEW i \in DOMAIN work, work[i].op = o
          PROVE  work[i].do = "abort"
      <3>1. work[i] \in Items /\ ItemOK(work[i]) BY ItemIs DEF IInv
      <3> QED BY <2>2, <3>1, PendingAssumption DEF ItemOK, Items
    <2> QED BY <2>1, <2>2 DEF ContextOutlivesCallbacks
  <1> QED BY <1>1, InitIInv, IInvStep, PTL DEF Spec

\* Every context that holds a slot has someone who will release it.
THEOREM NoOrphanCorrect == Spec => []NoOrphan
  <1>1. IInv => NoOrphan
    BY DEF IInv, AllFollowed, Followed, NoOrphan
  <1> QED BY <1>1, InitIInv, IInvStep, PTL DEF Spec

\* An answer is right at the moment it is decided, whoever decides it: the
\* deadline, a callback, an abort or the shutdown.
THEOREM EffectCorrect == Spec => EffectWhenDecided
  <1> DEFINE Decided == \A o \in Ops : response'[o] # response[o] =>
               /\ response'[o] = "no_effect" => ~sent[o]
               /\ response'[o] = "ok" /\ kind[o] = "mutate" =>
                    sent[o] /\ responses[o] = 1 /\ error[o] = "none"
  <1>1. IInv /\ [Next]_vars => [Decided]_vars
    <2> SUFFICES ASSUME IInv, Next PROVE Decided OBVIOUS
    <2>0. TypeOK /\ \A o \in Ops : OpOK(o) BY DEF IInv
    <2>1. CASE response' = response BY <2>1
    <2>2. \A o \in Ops : EffectOf(o) \in Effects /\ (EffectOf(o) = "no_effect" => ~sent[o])
      BY <2>0, EffectIs DEF OpOK
    <2>3. CASE Publish
      <3>1. sdk.op \in Ops BY <2>0, <2>3, ItemIs DEF Publish, At, Places
      <3>2. \A o \in Ops : response'[o] # response[o] => o = sdk.op /\ response'[o] = sdk.result
        BY <2>0, <2>3 DEF Publish, TypeOK
      <3> QED BY <2>0, <2>3, <3>1, <3>2 DEF Publish, At, OpOK, Section
    <2>4. CASE WaitExpires
      <3>1. \A o \in Ops : response'[o] # response[o] => response'[o] = EffectOf(o)
        BY <2>0, <2>4 DEF WaitExpires, TimeoutEffect, TypeOK
      <3> QED BY <2>2, <3>1 DEF Effects
    <2>5. CASE ShutdownWork
      <3>1. \A o \in Ops : response'[o] # response[o] => response'[o] = EffectOf(o)
        BY <2>0, <2>5 DEF ShutdownWork
      <3> QED BY <2>2, <3>1 DEF Effects
    <2>6. ASSUME NEW o \in Ops, NEW k \in Kinds, Unavailable(o, k) PROVE Decided
      <3>1. \A q \in Ops : response'[q] # response[q] => q = o /\ response'[q] = "no_effect"
        BY <2>0, <2>6 DEF Unavailable, TypeOK
      <3> QED BY <2>0, <2>6, <3>1 DEF Unavailable, Accept, OpOK, Untouched
    <2>7. response' = response \/ Publish \/ WaitExpires \/ ShutdownWork
            \/ \E o \in Ops, k \in Kinds : Unavailable(o, k)
      BY DEF Next, HostSteps, Closes, Work, Sections, Callbacks, Ends, WaitReturns, ScheduleAbort,
         Cleanup, ShutdownDone, LoopStops, Expires, StartInteraction, StartWindow,
         StartCommissioning, AbortWork, ReapWork, MarkDone, Submit, Send, SendFails, StageSent,
         OnConnected, ConnectionFailed, ResultOverflows, OnError, OnResponse, OnDone, Opened,
         StageStarted, CommissioningComplete, CaseConnected, Call, Busy, context
    <2> QED BY <2>1, <2>3, <2>4, <2>5, <2>6, <2>7
  <1> QED BY <1>1, InitIInv, IInvStep, PTL DEF Spec, EffectWhenDecided
=============================================================================
