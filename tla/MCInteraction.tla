--------------------------- MODULE MCInteraction ---------------------------
(* Small instance of Interaction: the calls and the device data around every *)
(* bound of the registry, with the limits on sizes divided by sixteen.       *)
EXTENDS Interaction

At(endpoint, cluster, member) ==
  [fabric |-> "f", node |-> "n", endpoint |-> <<0, endpoint>>,
   cluster |-> <<0, cluster>>, member |-> <<0, member>>]

Unsigned(tag, type, n) == Elem(tag, type, n, <<>>)
Small(tag, type, n) == Elem(tag, type, <<0, n>>, <<>>)
Null(tag) == Elem(tag, "null", <<>>, <<>>)
Container(tag, type, children) == Elem(tag, type, <<>>, children)
Times(n, e) == [i \in 1..n |-> e]

(* Access lists, built with the element types of the caller or of TLV.       *)
Access(t8, t16, t32, t64) ==
  LET cluster(n) == Unsigned(0, t32, n)
      target(fields) == Container(Anonymous, "structure", fields)
      entry(privilege, subjects, targets, more) ==
        Container(Anonymous, "structure",
          <<Small(1, t8, privilege), Small(2, t8, 2), subjects, targets>> \o more)
      list(entries_) == Container(Anonymous, "array", entries_)
      subject(n) == Container(3, "array", <<Unsigned(Anonymous, t64, n)>>)
      targets(fields) == Container(4, "array", <<target(fields)>>)
      plain == entry(5, Null(3), Null(4), <<>>)
      subjects == Container(3, "array", Times(2, Unsigned(Anonymous, t64, <<0, 7>>)))
      anywhere == <<cluster(<<1, \hFC00>>), Small(1, t16, 1), Null(2)>>
  IN { list(<<>>), list(Times(4, plain)), list(Times(5, plain)),
       list(<<entry(6, Null(3), Null(4), <<>>)>>),
       list(<<entry(1, subject(<<70000, 1>>), Null(4), <<>>)>>),
       list(<<entry(1, subjects, targets(anywhere), <<>>)>>) }
     \cup { list(<<entry(1, Null(3), targets(f), <<>>)>>) : f \in
         { anywhere,
           <<cluster(<<0, \h8000>>), Null(1), Null(2)>>,
           <<cluster(<<65536, 6>>), Null(1), Null(2)>>,
           <<Null(0), Small(1, t16, \hFFFF), Null(2)>>,
           <<Null(0), Null(1), Null(2)>>,
           <<Small(1, t16, 1), Null(0), Null(2)>> } }
     \cup { list(<<entry(1, Null(3), Null(4), m)>>) : m \in
         { <<Small(5, t8, 1)>>, <<Small(254, t8, 254)>>, <<Small(254, t8, 255)>>,
           <<Small(5, t8, 1), Small(5, t8, 1)>> } }

Numbers == {0, 1, 2, 3, 254, 255, 256, \hFFFE, \hFFFF}

Scalars(type) == { Small(Anonymous, type, n) : n \in Numbers }
Signed(type) ==
  { Elem(Anonymous, type, <<n>>, <<>>) : n \in {-32769, -32768, 0, 32767, 32768} }
Lists(type) ==
  { Container(Anonymous, "array", Times(n, Unsigned(Anonymous, type, v))) :
      n \in {1}, v \in { <<0, \h7FFF>>, <<0, \h8000>>, <<0, \hFFFE>>, <<0, \hFFFF>>,
                         <<1, \hFC00>>, <<\hFFF4, \hFFFE>>, <<\hFFF4, \hFFFF>>,
                         <<65536, 0>> } }
  \cup { Container(Anonymous, "array", Times(n, Small(Anonymous, type, 6))) :
           n \in {0, 25, 33, 60, 64} }
DeviceTypes(t32, t16) ==
  { Container(Anonymous, "array", Times(n, Container(Anonymous, "structure",
      <<Small(0, t32, 22), Unsigned(1, t16, r)>>))) :
      n \in {1, 10}, r \in { <<0, 1>>, <<1, 0>> } }
Booleans == { Elem(Anonymous, "boolean", <<1>>, <<>>) }
Reachable == { Container(Anonymous, "structure", <<Elem(0, "boolean", <<1>>, <<>>)>>) }
Empty == Container(Anonymous, "structure", <<>>)

(* Every member of the registry, and one outside of it.                      *)
Members == { At(1, d.cluster[2], d.member[2]) : d \in kDescriptors }
Unknown == At(1, 6, 99)

Written ==
  Signed("i16") \cup Scalars("u8") \cup Scalars("u16")
    \cup Access("u8", "u16", "u32", "u64") \cup {Null(Anonymous), Empty}
    \cup Booleans

Mutation(op, path, value, timed) ==
  [op |-> op, paths |-> <<path>>, value |-> value, timed |-> timed, timeout |-> 2]

Batch(op, paths, minimum) ==
  [op |-> op, paths |-> paths, minimum |-> minimum, timeout |-> 1]

Parts == At(2, \h001D, 3)
Light == At(2, 6, 0)
Strange == At(2, 6, 99)
Bridged == At(3, \h0039, 3)
All == [At(2, 6, 0) EXCEPT !.cluster = Wildcard, !.member = Wildcard]

(* An endpoint of its own for access lists in a batch: a wildcard and the    *)
(* list itself.                                                              *)
Acl == At(4, \h001F, 0)
Guarded == [Acl EXCEPT !.cluster = Wildcard, !.member = Wildcard]

MCRequests ==
  { Mutation(op, p, v, 0) : op \in {"write", "invoke"}, p \in Members, v \in Written }
  \cup { Mutation("write", At(e, \h0201, \h0011), Elem(Anonymous, "i16", <<n>>, <<>>), t) :
           e \in {1, \hFFFF}, n \in {5}, t \in {1, 2, 3} }
  \cup { Batch("read", <<p>>, 0) : p \in Members \cup {Unknown} }
  \cup { Batch("read_paths", s, 0) : s \in
           { <<Acl, Guarded>>, <<All>>, <<Light, All>>, <<Light, Strange>>,
             <<Light, [Light EXCEPT !.node = "m"]>>,
             <<[Light EXCEPT !.cluster = <<1, 5>>]>>, Times(5, Light), <<>> } }
  \cup { Batch("read_events", <<Bridged>>, m) : m \in {0, 2} }
  \cup { [op |-> "subscribe", kind |-> k, paths |-> s, minimum |-> i, maximum |-> j,
          queue_limit |-> q, timeout |-> 2] :
           k \in {"attribute", "event"}, i \in {0, 2}, j \in {0, 1, 65535},
           q \in {0, 10000, 10001},
           s \in { <<p>> : p \in Members } \cup
                 { <<Light, Light>>, <<Light, [Light EXCEPT !.node = "m"]>>,
                   <<[Light EXCEPT !.node = "reserved"]>> } }
  \cup { [op |-> "commission_on_network", node |-> "n", setup_pin |-> pin,
          discriminator |-> d, timeout |-> t, paths |-> <<>>] :
           pin \in {0, 1, 11111111, 11111112, 12345678, 99999998, 99999999},
           d \in {4095, 4096}, t \in {1, 60000, 60001} }
  \cup { [op |-> "open_window", node |-> "n", timeout_s |-> s, iteration_count |-> n,
          discriminator |-> 1, timeout |-> 2, paths |-> <<>>] :
           s \in {179, 180, 900, 901}, n \in {999, 1000, 100000, 100001} }

Raw(p) ==
  Signed("int") \cup Scalars("uint") \cup {Null(Anonymous)}
    \cup (IF p.cluster = <<0, \h001D>>
          THEN Lists("uint") \cup DeviceTypes("uint", "uint") ELSE {})
    \cup (IF p.cluster = <<0, \h001F>> THEN Access("uint", "uint", "uint", "uint") ELSE {})
    \cup Booleans

Answer(p, kind, data, number, stray) ==
  [path |-> p, kind |-> kind, data |-> data, number |-> number, stray |-> stray]

MCAnswers ==
  UNION { { Answer(p, "attribute", e, 0, FALSE) : e \in Raw(p) } :
            p \in Members \cup {Unknown} }
  \cup { Answer(Light, "attribute", e, 0, FALSE) : e \in Booleans }
  \cup { Answer(Parts, "attribute", e, 0, FALSE) :
           e \in { Container(Anonymous, "array", Times(n, Small(Anonymous, "uint", 6))) :
                     n \in {2, 20} } }
  \cup { Answer(p, "status", Null(Anonymous), 0, FALSE) : p \in {Strange, Bridged} \cup Members }
  \cup { Answer(Bridged, "event", e, n, FALSE) : e \in Reachable, n \in {1, 2} }
  \cup { Answer(Acl, "attribute", e, 0, FALSE) :
           e \in { list \in Access("uint", "uint", "uint", "uint") :
             \E entry \in ToSet(list.children) :
               \/ RepeatsField(entry) \/ OutOfOrder(entry)
               \/ ContextField(entry, 254) # {} } }
  \cup { Answer(At(4, \h8000, 0), "status", Null(Anonymous), 0, FALSE) }
  \cup { Answer(At(9, 6, 0), "attribute", e, 0, TRUE) : e \in Booleans }
=============================================================================
