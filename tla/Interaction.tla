---------------------------- MODULE Interaction ----------------------------
(* The data of one call, from the caller's term to the device and back:      *)
(* the client's checks (matter.ex, standalone.ex, request.ex), the host's    *)
(* parse and its own checks (protocol.cpp, interaction.cpp,                  *)
(* subscription.cpp, commissioning.cpp), what is written to the device, what *)
(* a read collects from its reports under the retention budget               *)
(* (controller.cpp), the reply frame, and the client's checks of that frame  *)
(* (wire.ex, path_results.ex, standalone.ex).                                *)
(*                                                                           *)
(* The time, the threads and the lifetime of the call are PendingOperation   *)
(* and Admission; here a call takes its steps one after the other.           *)
(*                                                                           *)
(* The calls are those of standalone.ex and Matter.read_paths.  The public   *)
(* Matter.send/2 on a persistent session is out of scope: it checks paths    *)
(* and sizes (native.ex, address.ex), no descriptor and no timed budget      *)
(* against the timeout, so the host may find its mutations invalid for those *)
(* reasons as well.                                                          *)
EXTENDS MatterValues, Bags, FiniteSetsExt

CONSTANTS
  Requests,        \* the calls a caller may make
  Answers,         \* what a device may report: [path, kind, data, number]
  FrameNodes,      \* JSON nodes of a frame, 4096 in both programs
  ResultBytes,     \* kMaximumInteractionResultBytes, 98304
  ReportLimit,     \* kMaximumInteractionReports, 1024
  PathLimit,       \* kMaximumInteractionPaths, 64
  EntryNodes,      \* elements of a list entry that fit one message of the SDK
  SingleAnswers    \* bound: answers of a device to a single read or a mutation

ASSUME InteractionAssumption ==
  {FrameNodes, ResultBytes, ReportLimit, PathLimit, EntryNodes, SingleAnswers}
    \subseteq Nat

VARIABLES
  stage,      \* where the call is
  request,    \* what the caller asked
  timeout,    \* timeout_ms of the frame: what is left of the caller's
  written,    \* the write or command given to the SDK with mutation_.Submit()
  responses,  \* mutation_responses_
  results,    \* results_, as a bag
  retained,   \* retained_result_bytes_
  overall,    \* overall_error_, "" without one
  reply,      \* the reply frame: a code, and a bag of results when it is "ok"
  outcome     \* what the caller gets

vars ==
  <<stage, request, timeout, written, responses, results, retained, overall,
    reply, outcome>>

Wildcard == <<>>
Mutations == {"write", "invoke"}
Reads == {"read", "read_paths", "read_events"}

(* Fabrics and nodes have no arithmetic here: the session's fabric is "f",   *)
(* and "reserved" is a node identifier out of the operational range.         *)
Concrete(path) == Wildcard \notin {path.endpoint, path.cluster, path.member}

Selected(selector, path) ==
  /\ selector.fabric = path.fabric /\ selector.node = path.node
  /\ \A c \in {"endpoint", "cluster", "member"} :
       selector[c] \in {Wildcard, path[c]}

PathsOf(r) == { r.paths[i] : i \in DOMAIN r.paths }

Distinct(paths) == Cardinality(ToSet(paths)) = Len(paths)

(* valid_setup_pin of commissioning.cpp, digit by digit.                     *)
RepeatedDigit(pin) == \A i \in 1..7 : (pin \div 10^i) % 10 = pin % 10

valid_setup_pin(pin) ==
  pin \in 1..99999998 /\ pin \notin {12345678, 87654321} /\ ~RepeatedDigit(pin)

(* valid_setup_pin? of standalone.ex, on the eight digits as a text.         *)
client_setup_pin(pin) ==
  pin \in 1..99999998 /\ pin \notin {12345678, 87654321} /\ pin % 11111111 # 0

-----------------------------------------------------------------------------
(* JSON nodes, counted alike by Request.walk, Wire.frame_budget and          *)
(* BoundedSax: a scalar is one, a map one and one more for every key.        *)

RECURSIVE ElementNodes(_)
ElementNodes(e) ==
  (IF e.tag = Anonymous THEN 7 ELSE 9)
    + FoldLeft(LAMBDA n, c : n + ElementNodes(c), 0, e.children)

PathNodes == 11
AttributeNodes(x) == 5 + PathNodes + ElementNodes(x.value)
EventNodes(x) == 15 + PathNodes + ElementNodes(x.value)

(* One entry of a batch: its path, and ok or error; an error that is a       *)
(* status of the device has the status as well.                              *)
Status == Elem(Anonymous, "status", <<>>, <<>>)

ResultNodes(x) ==
  5 + PathNodes + (CASE x.kind = "attribute" -> AttributeNodes(x)
                     [] x.kind = "event" -> EventNodes(x)
                     [] x.value = Status -> 7
                     [] OTHER -> 5)

EnvelopeNodes == 8

(* Only the element of a mutation can come near the limit.                   *)
RequestNodes(r) ==
  11 + (IF r.op \in Mutations THEN 15 + ElementNodes(r.value)
        ELSE 15 + Len(r.paths) * PathNodes)

BagSum(bag, Weight(_)) ==
  MapThenSumSet(LAMBDA x : Weight(x) * CopiesIn(x, bag), BagToSet(bag))

ReplyNodes ==
  EnvelopeNodes + (IF request.op = "read" THEN BagSum(reply.results, AttributeNodes)
                   ELSE 1 + BagSum(reply.results, ResultNodes))

-----------------------------------------------------------------------------
(* The client's checks.                                                      *)

Address_new(path) ==
  /\ path.node # "reserved" /\ Concrete(path)
  /\ Le(path.endpoint, <<0, \hFFFE>>) /\ qualified(path.cluster)
  /\ Le(path.member, <<65535, 65534>>)

ReadPath_new(path) ==
  /\ path.node # "reserved"
  /\ path.endpoint = Wildcard \/ Le(path.endpoint, <<0, \hFFFE>>)
  /\ path.cluster = Wildcard \/ qualified(path.cluster)
  /\ path.member = Wildcard \/ Le(path.member, <<65535, 65534>>)

(* mutation_options: the timed budget against the caller's own timeout.      *)
mutation_options(r) ==
  r.timed = 0 \/ (r.timed \in 1..65535 /\ r.timed <= r.timeout)

ClientAdmits(r) ==
  /\ r.timeout \in 1..60000
  /\ \A p \in PathsOf(r) : p.fabric = "f"
  /\ Len(r.paths) \in 1..PathLimit \/ r.op \in {"commission_on_network", "open_window"}
  /\ RequestNodes(r) <= FrameNodes
  /\ CASE r.op = "read" ->
            Address_new(r.paths[1]) /\ lookup("attribute", r.paths[1], "read") # {}
       [] r.op = "write" ->
            /\ Address_new(r.paths[1]) /\ mutation_options(r)
            /\ Descriptor_validate_element("attribute", r.paths[1], "write", r.value)
       [] r.op = "invoke" ->
            /\ Address_new(r.paths[1]) /\ mutation_options(r)
            /\ Descriptor_validate_element("command", r.paths[1], "invoke", r.value)
       [] r.op = "read_paths" -> \A p \in PathsOf(r) : ReadPath_new(p)
       [] r.op = "read_events" ->
            /\ Distinct(r.paths)
            /\ \A p \in PathsOf(r) : Address_new(p) /\ lookup("event", p, "read") # {}
       [] r.op = "subscribe" ->
            /\ r.minimum \in 0..65535 /\ r.maximum \in 1..65535
            /\ r.minimum <= r.maximum /\ r.queue_limit \in 1..10000
            /\ \A p \in PathsOf(r) :
                 Address_new(p) /\ lookup(r.kind, p, "subscribe") # {}
            /\ Distinct(r.paths)
       [] r.op = "commission_on_network" ->
            /\ r.node # "reserved" /\ client_setup_pin(r.setup_pin)
            /\ r.discriminator \in 0..4095
       [] r.op = "open_window" ->
            /\ r.node # "reserved" /\ r.timeout_s \in 180..900
            /\ r.iteration_count \in 1000..100000 /\ r.discriminator \in 0..4095

-----------------------------------------------------------------------------
(* The host's checks.                                                        *)

Selector(path, wildcards) ==
  /\ path.node # "reserved"
  /\ path.endpoint = Wildcard \/ Le(path.endpoint, <<0, \hFFFE>>)
  /\ path.cluster = Wildcard \/ valid_cluster(path.cluster)
  /\ path.member = Wildcard \/ Le(path.member, <<65535, 65534>>)
  /\ wildcards \/ Concrete(path)

(* ElementValue: the JSON element, by its own bounds.                        *)
RECURSIVE Parses(_)
Parses(e) ==
  /\ e.type \in {"null", "i16", "u8", "u16", "u32", "u64", "boolean",
                 "structure", "array"}
  /\ Scalar(e) /\ Len(e.children) <= ChildLimit /\ AllChildren(e, Parses)

ElementValue(e) == Nodes(e) <= ElementLimit /\ Depth(e) <= 8 /\ Parses(e)

OneNode(r) ==
  \A p \in PathsOf(r) : p.fabric = r.paths[1].fabric /\ p.node = r.paths[1].node

(* valid_interaction_request; the timed budget against what is left.         *)
valid_interaction_request(r, left) ==
  /\ left \in 1..60000 /\ Len(r.paths) \in 1..PathLimit /\ OneNode(r)
  /\ r.op \in Mutations =>
       /\ r.timed # 0 => r.timed <= left
       /\ validate_element(IF r.op = "write" THEN "attribute" ELSE "command",
                           r.paths[1], r.op, r.value)

InteractionParameters(r, left) ==
  /\ \A p \in PathsOf(r) : Selector(p, r.op = "read_paths")
  /\ r.op \in Mutations => r.timed \in 0..65535 /\ ElementValue(r.value)
  /\ valid_interaction_request(r, left)

AdmittedRecipe(kind, path) ==
  \E r \in { <<"event", \h0039, \h0003>>, <<"attribute", \h0201, \h0000>>,
             <<"attribute", \h0006, \h0000>>, <<"attribute", \h0039, \h0011>>,
             <<"attribute", \h0402, \h0000>> } :
    <<kind, path.cluster, path.member>> = <<r[1], <<0, r[2]>>, <<0, r[3]>> >>

valid_subscription_request(r, left) ==
  /\ left \in 1..60000 /\ Len(r.paths) \in 1..PathLimit /\ OneNode(r)
  /\ r.minimum <= r.maximum
  /\ Distinct(r.paths)
  /\ \A p \in PathsOf(r) : Concrete(p) /\ AdmittedRecipe(r.kind, p)

SubscriptionParameters(r, left) ==
  /\ r.minimum \in 0..65535 /\ r.maximum \in 1..65535 /\ r.queue_limit \in 1..10000
  /\ \A p \in PathsOf(r) : Selector(p, FALSE)
  /\ valid_subscription_request(r, left)

CommissioningParameters(r, left) ==
  /\ r.node # "reserved" /\ valid_setup_pin(r.setup_pin)
  /\ r.discriminator \in 0..4095 /\ left \in 1..60000

CommissioningWindowParameters(r, left) ==
  /\ r.node # "reserved" /\ r.timeout_s \in 180..900
  /\ r.iteration_count \in 1000..100000 /\ r.discriminator \in 0..4095
  /\ left \in 1..60000

HostAdmits(r, left) ==
  /\ RequestNodes(r) <= FrameNodes
  /\ CASE r.op = "subscribe" -> SubscriptionParameters(r, left)
       [] r.op = "commission_on_network" -> CommissioningParameters(r, left)
       [] r.op = "open_window" -> CommissioningWindowParameters(r, left)
       [] OTHER -> InteractionParameters(r, left)

-----------------------------------------------------------------------------
(* The call, step by step.                                                   *)

Nothing == [code |-> "", results |-> EmptyBag]

Init ==
  /\ stage = "idle" /\ request = [op |-> "none"] /\ timeout = 0
  /\ written = <<>> /\ responses = 0 /\ results = EmptyBag /\ retained = 0
  /\ overall = "" /\ reply = Nothing /\ outcome = ""

(* The caller calls; what the client refuses never leaves it.                *)
Call(r) ==
  /\ stage = "idle"
  /\ request' = r
  /\ IF ClientAdmits(r) THEN stage' = "queued" /\ outcome' = outcome
     ELSE stage' = "done" /\ outcome' = "rejected"
  /\ UNCHANGED <<timeout, written, responses, results, retained, overall, reply>>

(* The connection sends the frame when it gets to it, with what is left of   *)
(* the caller's timeout.                                                     *)
Dispatch(left) ==
  /\ stage = "queued"
  /\ left \in {request.timeout, request.timeout - 1} \ {0}
  /\ timeout' = left
  /\ stage' = "host"
  /\ UNCHANGED <<request, written, responses, results, retained, overall, reply, outcome>>

Answered(code, bag) ==
  stage' = "replied" /\ reply' = [code |-> code, results |-> bag]

(* ProcessLineImpl up to the backend; subscriptions and commissioning go on  *)
(* in the modules of their own.                                              *)
Process ==
  /\ stage = "host"
  /\ IF ~HostAdmits(request, timeout) THEN Answered("invalid_request", EmptyBag)
     ELSE IF request.op \in Reads THEN stage' = "reading" /\ reply' = reply
     ELSE IF request.op \in Mutations THEN stage' = "writing" /\ reply' = reply
     ELSE Answered("accepted", EmptyBag)
  /\ UNCHANGED <<request, timeout, written, responses, results, retained, overall, outcome>>

(* External: PutPreencodedAttribute takes a list entry by entry and fails    *)
(* with an entry that is larger than one message.                            *)
PutPreencodedAttribute(e) ==
  e.type = "array" => AllChildren(e, LAMBDA c : Nodes(c) <= EntryNodes)

(* StartWrite and StartInvoke.  The SDK may refuse to send what it was given *)
(* (sends): the code then answers as if it had not been submitted.           *)
StartMutation(sends) ==
  LET path == request.paths[1]
      element == IF request.op = "write" THEN EncodeWriteValue(path, request.value)
                 ELSE EncodeCommand(path)
      submits == /\ element # Failure
                 /\ request.op = "write" => PutPreencodedAttribute(element)
  IN /\ stage = "writing"
     /\ written' = IF submits THEN <<[path |-> path, element |-> element]>> ELSE written
     /\ IF submits /\ sends THEN stage' = "sent" /\ reply' = reply
        ELSE Answered("interaction_submit_failed", EmptyBag)
     /\ UNCHANGED <<request, timeout, responses, results, retained, overall, outcome>>

(* OnResponse, OnNoResponse and OnError: the last error stays.  A command    *)
(* may be answered with data or not at all.                                  *)
CommandErrors == [data |-> "unsupported_schema", silence |-> "interaction_no_response"]
MutationErrors == [status |-> "interaction_status", elsewhere |-> "invalid_response_path",
                   failure |-> "interaction_failed"]

OnResponse ==
  /\ stage = "sent"
  /\ \/ /\ responses < SingleAnswers
        /\ responses' = responses + 1 /\ overall' = overall
     \/ \E a \in DOMAIN MutationErrors :
          overall' = MutationErrors[a] /\ responses' = responses
     \/ \E a \in DOMAIN CommandErrors :
          /\ request.op = "invoke"
          /\ overall' = CommandErrors[a] /\ responses' = responses
  /\ UNCHANGED <<stage, request, timeout, written, results, retained, reply, outcome>>

(* FinishMutation, on OnDone.  A list that the device acknowledges entry by  *)
(* entry has more than one response.                                         *)
FinishMutation ==
  /\ stage = "sent"
  /\ Answered(IF overall # "" THEN overall
              ELSE IF responses # 1 THEN "interaction_no_response" ELSE "ok", EmptyBag)
  /\ UNCHANGED <<request, timeout, written, responses, results, retained, overall, outcome>>

(* Only the outermost list is counted: a mutant of EstimatedElementBytes.    *)
EstimatedElementBytesFlat(e) == 96

(* EstimatedElementBytes, and AppendResult.                                  *)
EstimatedElementBytes(e) == 96 * Nodes(e)

ResultSize(x) ==
  256 + (CASE x.kind = "attribute" -> EstimatedElementBytes(x.value)
           [] x.kind = "event" -> EstimatedElementBytes(x.value) + 96
           [] OTHER -> 0)

Fits(x, kept, bytes) ==
  /\ BagCardinality(kept) < ReportLimit
  /\ bytes <= ResultBytes /\ ResultSize(x) <= ResultBytes - bytes

AppendResult(x) ==
  IF Fits(x, results, retained)
  THEN /\ results' = results (+) SetToBag({x})
       /\ retained' = retained + ResultSize(x)
       /\ overall' = overall
  ELSE overall' = "response_limit" /\ UNCHANGED <<results, retained>>

Result(path, kind, value, number) ==
  [path |-> path, kind |-> kind, value |-> value, number |-> number]

(* OnAttributeData and OnEventData: a status, a missing value and a value    *)
(* that does not decode are results as well.                                 *)
Reported(a) ==
  LET value == Decode(a.kind, a.path, a.data)
  IN IF a.kind = "status" THEN Result(a.path, "error", Status, 0)
     ELSE IF value = Failure THEN Result(a.path, "error", Failure, 0)
     ELSE Result(a.path, a.kind, value, a.number)

Report(a) ==
  /\ stage = "reading"
  /\ (a.kind = "event") => request.op = "read_events"
  /\ (a.kind = "attribute") => request.op # "read_events"
  /\ a.stray \/ \E p \in PathsOf(request) : Selected(p, a.path)
  /\ request.op = "read" => BagCardinality(results) < SingleAnswers
  /\ AppendResult(Reported(a))
  /\ UNCHANGED <<stage, request, timeout, written, responses, reply, outcome>>

-----------------------------------------------------------------------------
(* The end of a read: missing paths are added as errors, and the response is *)
(* judged once more.                                                         *)

Missing(path) == Result(path, "error", Failure, 0)

RECURSIVE AddMissing(_, _, _)
AddMissing(paths, kept, bytes) ==
  IF paths = {} THEN [results |-> kept, retained |-> bytes, overall |-> ""]
  ELSE LET p == CHOOSE x \in paths : TRUE
           found == \E x \in BagToSet(kept) : x.path = p
       IN IF found THEN AddMissing(paths \ {p}, kept, bytes)
          ELSE IF Fits(Missing(p), kept, bytes)
          THEN AddMissing(paths \ {p}, kept (+) SetToBag({Missing(p)}),
                          bytes + ResultSize(Missing(p)))
          ELSE [results |-> kept, retained |-> bytes, overall |-> "response_limit"]

Collected == [results |-> results, retained |-> retained, overall |-> overall]

(* Unanswered paths stay so: a mutant of FinishRead.                         *)
FinishReadAsIs == Collected

FinishRead ==
  IF overall # "" \/ request.op = "read_events" THEN Collected
  ELSE AddMissing({ p \in PathsOf(request) : Concrete(p) }, results, retained)

ValidPathResult(x) ==
  /\ \E p \in PathsOf(request) : Selected(p, x.path)
  /\ x.kind # "error" => validate_element(x.kind, x.path, "read", x.value)

valid_interaction_response(bag) ==
  /\ \/ bag # EmptyBag
     \/ request.op = "read_events"
     \/ \A p \in PathsOf(request) : ~Concrete(p)
  /\ \A x \in BagToSet(bag) : ValidPathResult(x)

Single(bag) == BagCardinality(bag) = 1
HasError(bag) == \E x \in BagToSet(bag) : x.kind = "error"

(* OnDone of a read, then InteractionJson and the reply.  (Its encoded size  *)
(* is checked once more, but never exceeds what AppendResult estimated.)     *)
ReadDone ==
  /\ stage = "reading"
  /\ LET end == FinishRead IN
     IF end.overall # "" THEN Answered(end.overall, EmptyBag)
     ELSE IF request.op = "read" /\ Single(end.results) /\ HasError(end.results)
     THEN Answered("path_error", EmptyBag)
     ELSE IF ~valid_interaction_response(end.results)
             \/ (request.op = "read" /\ ~Single(end.results))
     THEN Answered("invalid_backend_result", EmptyBag)
     ELSE Answered("ok", end.results)
  /\ retained' = FinishRead.retained
  /\ UNCHANGED <<request, timeout, written, responses, results, overall, outcome>>

-----------------------------------------------------------------------------
(* The client reads the reply.                                               *)

(* Wire.decode: paths and elements of the frame, by bounds of its own.       *)
RECURSIVE Wire_element(_)
Wire_element(e) ==
  /\ e.type \in {"null", "i16", "u8", "u16", "u32", "u64", "boolean",
                 "structure", "array"}
  /\ Scalar(e) /\ AllChildren(e, Wire_element)

Wire_decode ==
  \A x \in BagToSet(reply.results) :
    Address_new(x.path) /\ (x.kind # "error" => Wire_element(x.value))

(* AttributeReport and read_result: the registry judges the value again.     *)
ReadResult ==
  \A x \in BagToSet(reply.results) :
    Descriptor_validate_element("attribute", x.path, "read", x.value)

(* PathResults.normalize: no path twice, every report an element, every      *)
(* result requested, every concrete request answered.  (Its byte budget is   *)
(* out of reach of a frame of so many nodes.)                                *)
Normalize ==
  /\ \A x \in BagToSet(reply.results) :
       /\ CopiesIn(x, reply.results) = 1
       /\ \A y \in BagToSet(reply.results) : x.path = y.path => x = y
       /\ x.kind = "attribute" => TLV_validate_element(x.value)
       /\ \E p \in PathsOf(request) : Selected(p, x.path)
  /\ \A p \in PathsOf(request) : Concrete(p) =>
       \E x \in BagToSet(reply.results) : x.path = p

(* normalize_events: numbers unique and not below the minimum, a path has    *)
(* events or one error.                                                      *)
NormalizeEvents ==
  \A x \in BagToSet(reply.results) :
    /\ CopiesIn(x, reply.results) = 1 /\ x.path \in PathsOf(request)
    /\ x.kind = "event" =>
         /\ x.number >= request.minimum
         /\ Descriptor_validate_element("event", x.path, "read", x.value)
    /\ \A y \in BagToSet(reply.results) \ {x} :
         /\ x.kind = "error" => x.path # y.path
         /\ x.kind = "event" /\ y.kind = "event" => x.number # y.number

(* A frame beyond the bounds or a result that does not decode ends the       *)
(* session, a result the API refuses is an error of the call.                *)
Receive ==
  /\ stage = "replied"
  /\ stage' = "done"
  /\ outcome' =
       IF reply.code # "ok" \/ request.op \notin Reads THEN reply.code
       ELSE IF ReplyNodes > FrameNodes \/ ~Wire_decode THEN "session_lost"
       ELSE IF CASE request.op = "read" -> ReadResult
                 [] request.op = "read_paths" -> Normalize
                 [] OTHER -> NormalizeEvents
       THEN "ok" ELSE "invalid_return"
  /\ UNCHANGED <<request, timeout, written, responses, results, retained, overall, reply>>

Next ==
  \/ \E r \in Requests : Call(r)
  \/ stage = "queued" /\ \E left \in {request.timeout, request.timeout - 1} : Dispatch(left)
  \/ Process
  \/ \E sends \in BOOLEAN : StartMutation(sends)
  \/ OnResponse
  \/ FinishMutation
  \/ \E a \in Answers : Report(a)
  \/ ReadDone
  \/ Receive

Spec == Init /\ [][Next]_vars

-----------------------------------------------------------------------------
(* Properties.                                                               *)

(* A list with an entry too large for one message.                           *)
EntryTooLarge(e) ==
  e.type = "array" /\ \E c \in ToSet(e.children) : Nodes(c) > EntryNodes

(* Two programs check every call, with tables and bounds of their own, and   *)
(* the dispatch of StartWrite and that of StartInvoke are two more tables of *)
(* what exists.  A call of standalone.ex, or a read_paths, that the client   *)
(* has admitted is refused by the host as invalid only in two cases: its     *)
(* timed budget no longer fits what is left of the timeout, or its paths     *)
(* name more than one node.  A mutation that passed both registries ends     *)
(* unsubmitted only if it writes a list with an entry too large for one      *)
(* message, and none is reported done without having been submitted.         *)
(* (Matter.send/2 is not such a call: see the head of the module.)           *)
AdmittedIsServed ==
  /\ outcome = "invalid_request" =>
       \/ request.op \in Mutations /\ request.timed > timeout
       \/ ~OneNode(request)
  /\ outcome = "interaction_submit_failed" /\ written = <<>> =>
       request.op = "write" /\ EntryTooLarge(request.value)
  /\ outcome = "ok" /\ request.op \in Mutations => written # <<>>

RECURSIVE Meaning(_)
Meaning(e) ==
  Elem(e.tag, RawType(e.type), e.value,
       [i \in DOMAIN e.children |-> Meaning(e.children[i])])

(* What is given to the SDK to send is what the caller asked, to the last    *)
(* bit: no cast on the way from Json to Element to TLV loses anything, the   *)
(* command StartInvoke builds from the path alone is the one the caller      *)
(* named with the value it gave, and only what the registry admits for that  *)
(* member goes out.                                                          *)
WrittenAsAsked ==
  \A w \in ToSet(written) :
    /\ w = [path |-> request.paths[1], element |-> Meaning(request.value)]
    /\ Descriptor_validate_element(
         IF request.op = "write" THEN "attribute" ELSE "command",
         w.path, request.op, request.value)

Strays == \E x \in BagToSet(results) :
  \A p \in PathsOf(request) : ~Selected(p, x.path)

(* Whatever values the device sends, decoding and conversion leave only      *)
(* elements the host's own validation accepts: a read ends as an invalid     *)
(* backend result only if the device answered for a path nobody asked for,   *)
(* or a single read more than once.                                          *)
BackendIsBelieved ==
  outcome = "invalid_backend_result" =>
    Strays \/ (request.op = "read" /\ BagCardinality(results) > 1)

(* The host keeps results by an estimate of bytes and never counts the JSON  *)
(* nodes of its reply, which the client does: too many end the session.  An  *)
(* estimate of nine bytes for every node the frame has room for rules that   *)
(* out, whatever the results are (36,783 bytes); more does not, and up to    *)
(* ResultBytes (98,304) are kept.  No value the host passes on is refused by *)
(* the decoder of the client; a path is if the device names an identifier    *)
(* out of range, which the host does not look at.                            *)
SessionSurvives ==
  outcome = "session_lost" =>
    \/ retained > 9 * (FrameNodes - EnvelopeNodes - 1)
    \/ \E x \in BagToSet(results) : ~Address_new(x.path)

(* An access list that the host takes and the client does not: a field that  *)
(* occurs twice in an entry, or a target whose fields are out of order.      *)
RepeatsField(e) ==
  \E i, j \in DOMAIN e.children : i # j /\ e.children[i].tag = e.children[j].tag

OutOfOrder(e) ==
  \E f \in ContextField(e, 4) : \E t \in ToSet(f.children) :
    \E i \in DOMAIN t.children : t.children[i].tag # i - 1

AnEntry(Loose(_)) ==
  \E x \in BagToSet(results) : \E e \in ToSet(x.value.children) : Loose(e)

(* Two results contradict each other when they are of one path, except that  *)
(* a path may have several events: those must differ in their numbers, which *)
(* are unique in a node.                                                     *)
Contradict(x, y) ==
  IF x.kind = "event" /\ y.kind = "event" THEN x.number = y.number
  ELSE x.path = y.path

DeviceContradicts ==
  \E x \in BagToSet(results) :
    CopiesIn(x, results) > 1 \/ \E y \in BagToSet(results) \ {x} : Contradict(x, y)

(* A reply of the host is refused by the client only for a cause in what the *)
(* device reported.  The session ends only for those of SessionSurvives; the *)
(* call alone fails for two reports that contradict each other, an event     *)
(* below the minimum, an access list of the loose form, and in a batch,      *)
(* which is not judged by the registry, of that form only for a field that   *)
(* occurs twice.  A path without a report, a report without a value the host *)
(* can decode and a status of the device fail no batch.                      *)
RefusedForCause ==
  /\ SessionSurvives
  /\ outcome = "invalid_return" =>
       CASE request.op = "read" -> AnEntry(RepeatsField) \/ AnEntry(OutOfOrder)
         [] request.op = "read_paths" -> DeviceContradicts \/ AnEntry(RepeatsField)
         [] OTHER -> DeviceContradicts \/ \E x \in BagToSet(results) :
                       x.kind = "event" /\ x.number < request.minimum
=============================================================================
