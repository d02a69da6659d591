---------------------------- MODULE MatterValues ----------------------------
(* The values that cross the process boundary.  An element is the Element    *)
(* of native/include/wotex_matter/value.hpp and the TLV element of tlv.ex:   *)
(* a tag, a type of exact width, a scalar and children.  Two programs hold   *)
(* the same registry of 19 descriptors and judge elements against it: the   *)
(* host (value.cpp) and the Elixir client (descriptor.ex); between device    *)
(* and host the SDK's TLV is decoded and encoded (controller.cpp).           *)
(*                                                                           *)
(* Integers wider than 31 bits do not exist in TLC: an unsigned scalar is    *)
(* <<high, low>> and stands for high * 2^16 + low; a signed one is <<n>>, a  *)
(* boolean <<0>> or <<1>>, null and containers <<>>.                         *)
EXTENDS Integers, Sequences, FiniteSets, SequencesExt

CONSTANTS
  ElementLimit,    \* nodes of one element, 1024 in both programs
  ChildLimit,      \* children of a list, 1023
  AccessLimit      \* entries, subjects and targets of an access list, 64

ASSUME ValueAssumption == {ElementLimit, ChildLimit, AccessLimit} \subseteq Nat

-----------------------------------------------------------------------------
(* Elements and numbers.                                                     *)

Anonymous == -1

Elem(tag, type, value, children) ==
  [tag |-> tag, type |-> type, value |-> value, children |-> children]

Failure == Elem(Anonymous, "failure", <<>>, <<>>)

(* a <= b for <<high, low>> numbers.                                         *)
Le(a, b) == a[1] < b[1] \/ (a[1] = b[1] /\ a[2] <= b[2])

(* The largest number of a width, and a cast down to it.                     *)
Largest == [u8 |-> <<0, 255>>, u16 |-> <<0, 65535>>, u32 |-> <<65535, 65535>>]

static_cast(type, n) ==
  CASE type = "u8" -> <<0, n[2] % 256>>
    [] type = "u16" -> <<0, n[2]>>
    [] type = "u32" -> <<n[1] % 65536, n[2]>>
    [] type = "i16" -> <<((n[1] + 32768) % 65536) - 32768>>
    [] OTHER -> n

Between(n, first, last) == Le(<<0, first>>, n) /\ Le(n, <<0, last>>)

RECURSIVE Nodes(_)
Nodes(e) == 1 + FoldLeft(LAMBDA n, c : n + Nodes(c), 0, e.children)

RECURSIVE Depth(_)
Depth(e) ==
  IF e.children = <<>> THEN 0
  ELSE 1 + FoldLeft(LAMBDA n, c : IF Depth(c) > n THEN Depth(c) ELSE n,
                    0, e.children)

(* Nested containers, an empty one included.                                 *)
RECURSIVE Levels(_)
Levels(e) ==
  IF e.type \notin {"structure", "array"} THEN 0
  ELSE 1 + FoldLeft(LAMBDA n, c : IF Levels(c) > n THEN Levels(c) ELSE n,
                    0, e.children)

AllChildren(e, Good(_)) == \A i \in DOMAIN e.children : Good(e.children[i])

-----------------------------------------------------------------------------
(* The host's registry and its judgement of elements (value.cpp).            *)

Row(kind, cluster, member, schema, operations) ==
  [kind |-> kind, cluster |-> <<0, cluster>>, member |-> <<0, member>>,
   schema |-> schema, operations |-> operations]

kDescriptors ==
  { Row("attribute", \h0201, \h0000, "nullable_i16", {"read", "subscribe"}),
    Row("attribute", \h0201, \h0011, "i16", {"read", "write"}),
    Row("attribute", \h0201, \h0012, "i16", {"read", "write"}),
    Row("attribute", \h0201, \h001C, "u8", {"read", "write"}),
    Row("attribute", \h0006, \h0000, "boolean", {"read", "subscribe"}),
    Row("command", \h0006, \h0000, "empty_structure", {"invoke"}),
    Row("command", \h0006, \h0001, "empty_structure", {"invoke"}),
    Row("command", \h0006, \h0002, "empty_structure", {"invoke"}),
    Row("attribute", \h001D, \h0000, "device_type_list", {"read"}),
    Row("attribute", \h001D, \h0001, "cluster_list", {"read"}),
    Row("attribute", \h001D, \h0002, "cluster_list", {"read"}),
    Row("attribute", \h001D, \h0003, "parts_list", {"read"}),
    Row("attribute", \h0039, \h0011, "boolean", {"read", "subscribe"}),
    Row("event", \h0039, \h0003, "reachable_event", {"read", "subscribe"}),
    Row("attribute", \h0402, \h0000, "nullable_i16", {"read", "subscribe"}),
    Row("attribute", \h001F, \h0000, "access_control_list", {"read", "write"}),
    Row("attribute", \h003C, \h0000, "window_status", {"read"}),
    Row("attribute", \h003C, \h0001, "nullable_fabric_index", {"read"}),
    Row("attribute", \h003C, \h0002, "nullable_vendor_id", {"read"}) }

(* The host drops the write flag of one setpoint: a mutant of lookup.        *)
lookup_narrow(kind, path, operation) ==
  { d.schema : d \in { r \in kDescriptors :
      /\ <<r.kind, r.cluster, r.member>> = <<kind, path.cluster, path.member>>
      /\ operation \in r.operations
      /\ ~(operation = "write" /\ r.member = <<0, \h0012>>) } }

(* The schema of an admitted member and operation: at most one.              *)
lookup_descriptor(kind, path, operation) ==
  { d.schema : d \in { r \in kDescriptors :
      /\ <<r.kind, r.cluster, r.member>> = <<kind, path.cluster, path.member>>
      /\ operation \in r.operations } }

valid_cluster(n) ==
  \/ Le(n, <<0, \h7FFF>>)
  \/ /\ Le(<<1, \hFC00>>, n) /\ Le(n, <<\hFFF4, \hFFFE>>)
     /\ n[2] \in \hFC00..\hFFFE

(* The one child with that context tag; none when it occurs twice or a       *)
(* child is anonymous.                                                       *)
ContextField(structure, id) ==
  LET found == { i \in DOMAIN structure.children :
                   structure.children[i].tag = id }
  IN IF Cardinality(found) = 1
        /\ AllChildren(structure, LAMBDA c : c.tag # Anonymous)
     THEN { structure.children[i] : i \in found }
     ELSE {}

NullableTargetField(field, type, Fits(_)) ==
  \E f \in field : \/ f.type = "null"
                   \/ f.type = type /\ Fits(f.value)

IsNull(field) == \E f \in field : f.type = "null"

ValidTarget(target) ==
  LET cluster == ContextField(target, 0)
      endpoint == ContextField(target, 1)
      device_type == ContextField(target, 2)
  IN /\ target.tag = Anonymous /\ target.type = "structure"
     /\ Len(target.children) = 3
     /\ NullableTargetField(cluster, "u32", LAMBDA n :
          Le(n, Largest.u32) /\ valid_cluster(static_cast("u32", n)))
     /\ NullableTargetField(endpoint, "u16", LAMBDA n : Le(n, <<0, \hFFFE>>))
     /\ NullableTargetField(device_type, "u32", LAMBDA n : Le(n, Largest.u32))
     /\ ~(IsNull(cluster) /\ IsNull(endpoint) /\ IsNull(device_type))
     /\ IsNull(endpoint) \/ IsNull(device_type)

ValidNullableList(field, Good(_)) ==
  \E f \in field :
    \/ f.type = "null"
    \/ f.type = "array" /\ Len(f.children) <= AccessLimit /\ AllChildren(f, Good)

SmallField(field, first, last) ==
  \A f \in field : f.type = "u8" /\ Between(f.value, first, last)

ValidAccessEntry(entry, operation) ==
  /\ entry.tag = Anonymous /\ entry.type = "structure"
  /\ Len(entry.children) \in 4..6
  /\ AllChildren(entry, LAMBDA f : f.tag \in {1, 2, 3, 4, 5, 254})
  /\ ContextField(entry, 1) # {} /\ SmallField(ContextField(entry, 1), 1, 5)
  /\ ContextField(entry, 2) # {} /\ SmallField(ContextField(entry, 2), 2, 3)
  /\ ValidNullableList(ContextField(entry, 3), LAMBDA s :
       s.tag = Anonymous /\ s.type = "u64")
  /\ ValidNullableList(ContextField(entry, 4), ValidTarget)
  /\ SmallField(ContextField(entry, 5), 0, 1)
  /\ SmallField(ContextField(entry, 254), 1, 254)
  /\ ContextField(entry, 254) # {} => operation = "read"

valid_access_control_list(e, operation) ==
  /\ e.type = "array" /\ e.tag = Anonymous /\ Len(e.children) <= AccessLimit
  /\ AllChildren(e, LAMBDA c : ValidAccessEntry(c, operation))

IsList(e, Good(_)) ==
  /\ e.type = "array" /\ Len(e.children) <= ChildLimit
  /\ AllChildren(e, Good)

IsTyped(e, tags, types) ==
  /\ Len(e.children) = Len(tags)
  /\ \A i \in DOMAIN tags :
       e.children[i].tag = tags[i] /\ e.children[i].type = types[i]

FitsSchema(schema, e, operation) ==
  CASE schema = "nullable_i16" ->
         e.type = "null" \/ (e.type = "i16" /\ e.value[1] \in -32768..32767)
    [] schema = "i16" -> e.type = "i16" /\ e.value[1] \in -32768..32767
    [] schema = "u8" -> e.type = "u8" /\ Between(e.value, 0, 255)
    [] schema = "boolean" -> e.type = "boolean"
    [] schema = "empty_structure" -> e.type = "structure" /\ e.children = <<>>
    [] schema = "device_type_list" -> IsList(e, LAMBDA c :
         /\ c.tag = Anonymous /\ c.type = "structure"
         /\ IsTyped(c, <<0, 1>>, <<"u32", "u16">>))
    [] schema = "cluster_list" -> IsList(e, LAMBDA c :
         /\ c.tag = Anonymous /\ c.type = "u32"
         /\ valid_cluster(static_cast("u32", c.value)))
    [] schema = "parts_list" -> IsList(e, LAMBDA c :
         c.tag = Anonymous /\ c.type = "u16" /\ Le(c.value, <<0, \hFFFE>>))
    [] schema = "reachable_event" ->
         e.type = "structure" /\ IsTyped(e, <<0>>, <<"boolean">>)
    [] schema = "window_status" -> e.type = "u8" /\ Between(e.value, 0, 2)
    [] schema = "nullable_fabric_index" ->
         e.type = "null" \/ (e.type = "u8" /\ Between(e.value, 1, 254))
    [] schema = "nullable_vendor_id" ->
         e.type = "null" \/ (e.type = "u16" /\ Between(e.value, 1, \hFFFE))
    [] schema = "access_control_list" ->
         valid_access_control_list(e, operation)

validate_element(kind, path, operation, e) ==
  \E schema \in lookup_descriptor(kind, path, operation) :
    e.tag = Anonymous /\ FitsSchema(schema, e, operation)

-----------------------------------------------------------------------------
(* From the device: the SDK's typed decoding, then the host's conversion.    *)
(* Device data are elements of the types "null", "int", "uint", "boolean",   *)
(* "structure", "array" and "text".                                          *)

RawUint(e, type) == e.type = "uint" /\ Le(e.value, Largest[type])
RawInt(e) == e.type = "int" /\ e.value[1] \in -32768..32767

(* The dispatch of DecodeAttribute, a table of its own: the type the SDK is  *)
(* asked for, by cluster and member.                                         *)
DecodableType(path) ==
  { t \in { <<\h0201, \h0000, "nullable_i16">>, <<\h0201, \h0011, "i16">>,
            <<\h0201, \h0012, "i16">>, <<\h0201, \h001C, "enum8">>,
            <<\h0006, \h0000, "boolean">>, <<\h001D, \h0000, "device_types">>,
            <<\h001D, \h0001, "u32_list">>, <<\h001D, \h0002, "u32_list">>,
            <<\h001D, \h0003, "u16_list">>, <<\h0039, \h0011, "boolean">>,
            <<\h0402, \h0000, "nullable_i16">>, <<\h001F, \h0000, "raw">>,
            <<\h003C, \h0000, "enum8">>, <<\h003C, \h0001, "nullable_u8">>,
            <<\h003C, \h0002, "nullable_u16">> } :
      path.cluster = <<0, t[1]>> /\ path.member = <<0, t[2]>> }

(* External: what chip::app::DataModel::Decode accepts for a type.           *)
SdkDecodes(type, e) ==
  CASE type = "nullable_i16" -> e.type = "null" \/ RawInt(e)
    [] type = "i16" -> RawInt(e)
    [] type = "enum8" -> RawUint(e, "u8")
    [] type = "nullable_u8" -> e.type = "null" \/ RawUint(e, "u8")
    [] type = "nullable_u16" -> e.type = "null" \/ RawUint(e, "u16")
    [] type = "boolean" -> e.type = "boolean"
    [] type = "u32_list" ->
         e.type = "array" /\ AllChildren(e, LAMBDA c : RawUint(c, "u32"))
    [] type = "u16_list" ->
         e.type = "array" /\ AllChildren(e, LAMBDA c : RawUint(c, "u16"))
    [] type = "device_types" ->
         e.type = "array" /\ AllChildren(e, LAMBDA c :
           /\ c.type = "structure" /\ IsTyped(c, <<0, 1>>, <<"uint", "uint">>)
           /\ RawUint(c.children[1], "u32") /\ RawUint(c.children[2], "u16"))
    [] type = "reachable" ->
         e.type = "structure" /\ IsTyped(e, <<0>>, <<"boolean">>)

(* NativeValueKind of what was decoded.                                      *)
NativeKind(type, e) ==
  CASE e.type = "null" -> "null"
    [] type \in {"nullable_i16", "i16"} -> "signed"
    [] type \in {"enum8", "nullable_u8", "nullable_u16"} -> "unsigned"
    [] type \in {"u32_list", "u16_list"} -> "identifiers"
    [] OTHER -> type

Typed(e, type) == Elem(e.tag, type, e.value, <<>>)
TypedList(e, Each(_)) ==
  Elem(Anonymous, "array", <<>>, [i \in DOMAIN e.children |-> Each(e.children[i])])

Admit(good, e) == IF good THEN e ELSE Failure

(* Mutant of ConvertsVendor: the reserved vendor 0xFFFF is let through.      *)
ConvertsReserved(n) == Between(n, 1, \hFFFF)

ConvertsVendor(n) == Between(n, 1, \hFFFE)

(* convert: the element of a decoded value of that kind, or a failure.       *)
convert(schema, kind, e) ==
  CASE kind = "null" -> Admit(schema \in {"nullable_i16", "nullable_fabric_index",
                                         "nullable_vendor_id"}, e)
    [] schema \in {"nullable_i16", "i16"} ->
         Admit(kind = "signed" /\ e.value[1] \in -32768..32767, Typed(e, "i16"))
    [] schema = "u8" ->
         Admit(kind = "unsigned" /\ Between(e.value, 0, 255), Typed(e, "u8"))
    [] schema = "window_status" ->
         Admit(kind = "unsigned" /\ Between(e.value, 0, 2), Typed(e, "u8"))
    [] schema = "nullable_fabric_index" ->
         Admit(kind = "unsigned" /\ Between(e.value, 1, 254), Typed(e, "u8"))
    [] schema = "nullable_vendor_id" ->
         Admit(kind = "unsigned" /\ ConvertsVendor(e.value), Typed(e, "u16"))
    [] schema = "cluster_list" ->
         Admit(kind = "identifiers" /\ AllChildren(e, LAMBDA c : valid_cluster(c.value)),
               TypedList(e, LAMBDA c : Typed(c, "u32")))
    [] schema = "parts_list" ->
         Admit(kind = "identifiers" /\ AllChildren(e, LAMBDA c : Le(c.value, <<0, \hFFFE>>)),
               TypedList(e, LAMBDA c : Typed(c, "u16")))
    [] schema = "device_type_list" ->
         Admit(kind = "device_types",
               TypedList(e, LAMBDA c : Elem(Anonymous, "structure", <<>>,
                 <<Typed(c.children[1], "u32"), Typed(c.children[2], "u16")>>)))
    [] schema = "boolean" -> Admit(kind = "boolean", e)
    [] schema = "reachable_event" -> Admit(kind = "reachable", e)
    [] OTHER -> Failure

(* DecodeRawElement: every integer as wide as it comes.                      *)
RECURSIVE Untyped(_)
Untyped(e) ==
  Elem(e.tag,
       CASE e.type = "int" -> "i16" [] e.type = "uint" -> "u64" [] OTHER -> e.type,
       e.value, [i \in DOMAIN e.children |-> Untyped(e.children[i])])

RECURSIVE Supported(_)
Supported(e) == e.type # "text" /\ AllChildren(e, Supported)

DecodeRawElement(e) ==
  Admit(Supported(e) /\ Nodes(e) <= ElementLimit /\ Depth(e) <= 8, Untyped(e))

(* NormalizeAccessControl narrows the types by tag and then validates.       *)
Narrow(e, type) == IF e.type = "u64" THEN [e EXCEPT !.type = type] ELSE e
MapChildren(e, Each(_)) ==
  [e EXCEPT !.children = [i \in DOMAIN @ |-> Each(@[i])]]

NarrowTarget(target) ==
  MapChildren(target, LAMBDA f : Narrow(f, IF f.tag = 1 THEN "u16" ELSE "u32"))

NarrowField(field) ==
  CASE field.tag \in {1, 2, 5, 254} -> Narrow(field, "u8")
    [] field.tag = 4 /\ field.type = "array" -> MapChildren(field, NarrowTarget)
    [] OTHER -> field

NormalizeAccessControl(path, e) ==
  LET narrowed == MapChildren(e, LAMBDA entry : MapChildren(entry, NarrowField))
  IN Admit(validate_element("attribute", path, "read", narrowed), narrowed)

(* DecodeAttribute and DecodeEvent: the SDK decodes by the dispatch, then    *)
(* convert_value by the registry; an access list goes its own way.           *)
Decode(kind, path, data) ==
  LET type == IF kind = "attribute" THEN { t[3] : t \in DecodableType(path) }
              ELSE IF path.cluster = <<0, \h0039>> /\ path.member = <<0, \h0003>>
              THEN {"reachable"} ELSE {}
      schema == lookup_descriptor(kind, path, "read")
  IN IF type = {"raw"} THEN NormalizeAccessControl(path, DecodeRawElement(data))
     ELSE IF \E t \in type : SdkDecodes(t, data) /\ Len(data.children) <= ChildLimit
     THEN LET t == CHOOSE x \in type : TRUE
          IN IF schema = {} THEN Failure
             ELSE convert(CHOOSE x \in schema : TRUE, NativeKind(t, data), data)
     ELSE Failure

-----------------------------------------------------------------------------
(* To the device.                                                            *)

RawType(type) ==
  CASE type = "i16" -> "int"
    [] type \in {"u8", "u16", "u32", "u64"} -> "uint"
    [] OTHER -> type

(* Identifiers are written sixteen bits wide: a mutant.                      *)
RECURSIVE EncodeElementShort(_)
EncodeElementShort(e) ==
  Elem(e.tag, RawType(e.type),
       IF e.type = "u32" THEN static_cast("u16", e.value) ELSE e.value,
       [i \in DOMAIN e.children |-> EncodeElementShort(e.children[i])])

RECURSIVE EncodeElement(_)
EncodeElement(e) ==
  Elem(e.tag, RawType(e.type),
       IF e.value = <<>> THEN <<>> ELSE static_cast(e.type, e.value),
       [i \in DOMAIN e.children |-> EncodeElement(e.children[i])])

(* EncodeWriteValue: the two setpoints, the system mode, the access list.    *)
EncodeWriteValue(path, e) ==
  CASE path.cluster = <<0, \h0201>> /\ path.member \in {<<0, \h0011>>, <<0, \h0012>>} ->
         Elem(Anonymous, "int", static_cast("i16", e.value), <<>>)
    [] path.cluster = <<0, \h0201>> /\ path.member = <<0, \h001C>> ->
         Elem(Anonymous, "uint", static_cast("u8", e.value), <<>>)
    [] path.cluster = <<0, \h001F>> /\ path.member = <<0, 0>>
         /\ validate_element("attribute", path, "write", e) -> EncodeElement(e)
    [] OTHER -> Failure

(* Off only and On only: a mutant of Commands that forgets Toggle.           *)
CommandsUntoggled == { <<0, 0>>, <<0, 1>> }

(* Off, On and Toggle of the OnOff cluster.                                  *)
Commands == { <<0, 0>>, <<0, 1>>, <<0, 2>> }

(* The dispatch of StartInvoke: an empty command of the named type, whatever *)
(* the value of the request, or UNSUPPORTED_CHIP_FEATURE.                    *)
EncodeCommand(path) ==
  IF path.cluster = <<0, \h0006>> /\ path.member \in Commands
  THEN Elem(Anonymous, "structure", <<>>, <<>>) ELSE Failure

-----------------------------------------------------------------------------
(* The client's registry and judgement (descriptor.ex, tlv.ex).              *)

entries ==
  { Row("attribute", \h0201, \h0000, "nullable_i16", {"read", "subscribe"}),
    Row("attribute", \h0201, \h0011, "i16", {"read", "write"}),
    Row("attribute", \h0201, \h0012, "i16", {"read", "write"}),
    Row("attribute", \h0201, \h001C, "u8", {"read", "write"}),
    Row("attribute", \h0006, \h0000, "boolean", {"read", "subscribe"}),
    Row("command", \h0006, \h0000, "empty_structure", {"invoke"}),
    Row("command", \h0006, \h0001, "empty_structure", {"invoke"}),
    Row("command", \h0006, \h0002, "empty_structure", {"invoke"}),
    Row("attribute", \h001D, \h0000, "device_type_list", {"read"}),
    Row("attribute", \h001D, \h0001, "cluster_list", {"read"}),
    Row("attribute", \h001D, \h0002, "cluster_list", {"read"}),
    Row("attribute", \h001D, \h0003, "parts_list", {"read"}),
    Row("attribute", \h0039, \h0011, "boolean", {"read", "subscribe"}),
    Row("event", \h0039, \h0003, "reachable_event", {"read", "subscribe"}),
    Row("attribute", \h0402, \h0000, "nullable_i16", {"read", "subscribe"}),
    Row("attribute", \h001F, \h0000, "access_control_list", {"read", "write"}),
    Row("attribute", \h003C, \h0000, "window_status", {"read"}),
    Row("attribute", \h003C, \h0001, "nullable_fabric_index", {"read"}),
    Row("attribute", \h003C, \h0002, "nullable_vendor_id", {"read"}) }

lookup(kind, path, operation) ==
  { d.schema : d \in { r \in entries :
      /\ <<r.kind, r.cluster, r.member>> = <<kind, path.cluster, path.member>>
      /\ operation \in r.operations } }

(* valid_cluster? of descriptor.ex, qualified? of address.ex.                *)
qualified(n) ==
  \/ n[1] = 0 /\ n[2] \in 0..\h7FFF
  \/ n[1] \in 1..\hFFF4 /\ n[2] \in \hFC00..\hFFFE

Scalar(e) ==
  CASE e.type \in {"u8", "u16", "u32"} -> Le(e.value, Largest[e.type])
    [] e.type = "i16" -> e.value[1] \in -32768..32767
    [] OTHER -> TRUE

(* TLV.validate_element: the element survives an encode and a decode.        *)
RECURSIVE WellFormed(_)
WellFormed(e) ==
  /\ Scalar(e)
  /\ e.type = "array" => AllChildren(e, LAMBDA c : c.tag = Anonymous)
  /\ e.type = "structure" =>
       /\ AllChildren(e, LAMBDA c : c.tag # Anonymous)
       /\ \A i, j \in DOMAIN e.children :
            e.children[i].tag = e.children[j].tag => i = j
  /\ AllChildren(e, WellFormed)

TLV_validate_element(e) ==
  /\ e.tag = Anonymous
  /\ Nodes(e) <= ElementLimit /\ Levels(e) <= 8
  /\ WellFormed(e)

nullable_scalar(e, tag, type, Fits(_)) ==
  e.tag = tag /\ (e.type = "null" \/ (e.type = type /\ Fits(e.value)))

(* target_element?: the three fields, in this order.                         *)
target_element(e) ==
  /\ e.tag = Anonymous /\ e.type = "structure" /\ Len(e.children) = 3
  /\ nullable_scalar(e.children[1], 0, "u32", qualified)
  /\ nullable_scalar(e.children[2], 1, "u16", LAMBDA n : Between(n, 0, \hFFFE))
  /\ nullable_scalar(e.children[3], 2, "u32", LAMBDA n : Le(n, Largest.u32))
  /\ \E i \in 1..3 : e.children[i].type # "null"
  /\ e.children[2].type = "null" \/ e.children[3].type = "null"

by_tag(e, id) ==
  { e.children[i] : i \in { j \in DOMAIN e.children : e.children[j].tag = id } }

access_entry_element(e, operation) ==
  /\ e.tag = Anonymous /\ e.type = "structure"
  /\ \A id \in 1..4 : by_tag(e, id) # {}
  /\ AllChildren(e, LAMBDA f :
       f.tag \in 1..5 \/ (f.tag = 254 /\ operation = "read"))
  /\ Cardinality({ e.children[i].tag : i \in DOMAIN e.children }) = Len(e.children)
  /\ SmallField(by_tag(e, 1), 1, 5) /\ SmallField(by_tag(e, 2), 2, 3)
  /\ ValidNullableList(by_tag(e, 3), LAMBDA s : s.tag = Anonymous /\ s.type = "u64")
  /\ ValidNullableList(by_tag(e, 4), target_element)
  /\ SmallField(by_tag(e, 5), 0, 1) /\ SmallField(by_tag(e, 254), 1, 254)

(* Lists have no limit of their own here: TLV_validate_element has one.      *)
schema_matches(schema, e, operation) ==
  CASE schema = "cluster_list" ->
         e.type = "array" /\ AllChildren(e, LAMBDA c :
           c.tag = Anonymous /\ c.type = "u32" /\ qualified(c.value))
    [] schema = "parts_list" ->
         e.type = "array" /\ AllChildren(e, LAMBDA c :
           c.tag = Anonymous /\ c.type = "u16" /\ Between(c.value, 0, \hFFFE))
    [] schema = "device_type_list" ->
         e.type = "array" /\ AllChildren(e, LAMBDA c :
           /\ c.tag = Anonymous /\ c.type = "structure"
           /\ IsTyped(c, <<0, 1>>, <<"u32", "u16">>))
    [] schema = "access_control_list" ->
         /\ e.type = "array" /\ Len(e.children) <= AccessLimit
         /\ AllChildren(e, LAMBDA c : access_entry_element(c, operation))
    [] schema = "nullable_i16" -> e.type \in {"null", "i16"}
    [] schema = "i16" -> e.type = "i16"
    [] schema = "u8" -> e.type = "u8"
    [] schema = "boolean" -> e.type = "boolean"
    [] schema = "empty_structure" -> e.type = "structure" /\ e.children = <<>>
    [] schema = "reachable_event" ->
         e.type = "structure" /\ IsTyped(e, <<0>>, <<"boolean">>)
    [] schema = "window_status" -> e.type = "u8" /\ Between(e.value, 0, 2)
    [] schema = "nullable_fabric_index" ->
         e.type = "null" \/ (e.type = "u8" /\ Between(e.value, 1, 254))
    [] schema = "nullable_vendor_id" ->
         e.type = "null" \/ (e.type = "u16" /\ Between(e.value, 1, 65534))

Descriptor_validate_element(kind, path, operation, e) ==
  \E schema \in lookup(kind, path, operation) :
    TLV_validate_element(e) /\ schema_matches(schema, e, operation)
=============================================================================
