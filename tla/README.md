# TLA+ models of wotex-matter

wotex-matter is a Matter controller for the BEAM.  An Elixir library talks, over a
line-framed JSON Port, to a native C++ host process that runs the Matter SDK.  What is
hard is everything between the two processes: two threads in the host, callers and timers
on the BEAM, credit that is kept on both sides, deadlines that race answers, a key store
that has to survive a crash at any instant, and two programs that each hold a registry of
the same values and have to agree on it.  These modules model that part.

Paths below are relative to the repository: `native/` is the C++ host, `lib/` the
Elixir library (`connection.ex` is `lib/wotex/matter/native/connection.ex`).
`PROJECT.json` maps every definition to the lines it translates.

## 1. The system

| component | state | operations | talks to |
|---|---|---|---|
| report credit (`native/src/subscription.cpp`) | stream records, frames in flight, queued frames, counters | AddStream, Submit, Acknowledge, Drain, Retire, BeginRecovery | host protocol, under `subscription_mutex_` |
| bounded output (`native/src/protocol.cpp`) | queue, reservations per class, health | Enqueue, Write (own thread), Fail, Stop | producers, the stdout pipe |
| host lifetime and request dispatch (`host.cpp`, `input.hpp`, `input_lifetime.hpp`, `RunHost`, `ProcessLine`) | stdin, protocol state, nesting of lines, flags of the loop, watcher | flow_open, open, health, report_ack, operations, close; main loop, control pump, watcher, exit | all threads of the host |
| controller setup and cleanup (`controller.cpp`) | ten resources in a chain, the action handed to the SDK thread | Open, Execute, Work, Cleanup | host thread, SDK thread |
| requests and values (`standalone.ex`, `descriptor.ex`, `tlv.ex`, `protocol.cpp`, `interaction.cpp`, `value.cpp`, `controller.cpp`) | one request, its results, the retention budget | admit, parse, write, collect, normalize | client, host, device |
| native subscription (`controller.cpp`, `subscription.cpp`) | response, buffer, recovery, timer, scheduled work, protocol entry | SDK callbacks, timer, Start, Cancel, Reap; Wait, Activate, CancelAndWait | SDK thread and host thread |
| interactions, windows, commissioning (`controller.cpp`) | contexts, deadlines, effect of a mutation | Interact, Commission, OpenWindow, callbacks, abort, reaper, shutdown | SDK thread and host thread |
| durable storage, root authority (`storage.cpp`, `authority.cpp`) | one file, a marker, a lock, three authority values | Open, setters, deleters, Commit; Create, Load | the file system, other host processes |
| report ledger, stream owner (`report_ledger.ex`, `stream_owner.ex`) | registered reports, acknowledged prefix | open, register, consume, retire, advance | connection, host |
| connection subscriptions (`connection.ex`) | subscriptions, generations, internal cancellations and their deadlines | subscribe, unsubscribe, frames of the host, overflow, stop | host, receivers |
| connection requests (`connection.ex`, `admission.ex`) | 64 slots, submission markers, call queue, closing record | acquire, call, submit, answer, reap, close | callers, host |
| runtime relay (`runtime_relay.ex`) | routes and pending frames | open, frame, consume, close | Runtime owner, connection |
| Python adapter, catalogue, mapping, build tasks | none that outlives a call | | |

The behaviours that a test hardly reaches, each at its line, are the `hazards` of
`PROJECT.json`.  In short: what each component must get right is

* report credit: limits hold at every edge, the two byte lengths of a queued frame
  never make the accounts drift, a barrier is the last word on its stream;
* output: nothing accepted is lost or reordered although the write happens outside the
  mutex, and Stop returns;
* lifetime: the process ends whatever thread is stuck, success is only reported for an
  orderly end, and the controller is whole or gone, taken down in the order of use;
* subscriptions: exactly one terminal, no report outside its generation, twice or out of
  order, no callback into a destroyed object, and both ends agree although their messages
  cross;
* finite operations: an answer about an effect is true, a context lives as long as the
  SDK may call it and no longer;
* storage: what was acknowledged survives, what is served is durable, an authority is
  whole or not there;
* admission: "no effect" is true, and no slot and no close is lost;
* values: both registries and the dispatch to the SDK know the same members, what reaches the
  device is what was asked to the last bit, and an answer of a device is refused on its way
  back only for a cause in the answer.

## 2. Modules

| module | models | a step is |
|---|---|---|
| `ReportCredit` | ReportCreditManager with the HostProtocol handlers that call it | a handler, or one iteration of a loop inside one (`phase` holds the mutex) |
| `BoundedOutput` | output queue, writer thread, pipe, reader | one critical section or one write |
| `BoundedOutput_proofs` | | theorem about `BoundedOutput` |
| `ControllerLifecycle` | Open, Execute, Work and Cleanup of the controller on two threads | one acquisition or release, one section of Execute or Work |
| `HostLifetime` | extends `ControllerLifecycle`: main, RunHost, ProcessLine, control pump, writer, watcher, exit status | one line, or one check, wait or flag update of a thread |
| `HostLifetime_proofs` | | theorems about `HostLifetime` and `ControllerLifecycle` |
| `NativeSubscription` | one subscription between SDK thread and host thread | one critical section |
| `NativeSubscription_proofs` | | theorems about `NativeSubscription` |
| `PendingOperation` | contexts of reads, mutations, windows and commissioning | one critical section, or what the SDK does between two |
| `PendingOperation_proofs` | | theorems about `PendingOperation` |
| `DurableStorage` | the store, every system call of Open and Commit, kill and power loss | one system call |
| `AtomicStore` | the register that `DurableStorage` implements, whose acknowledged writes survive a power loss | Open, begin, progress, acknowledgement, leave, power loss |
| `RootAuthority` | extends `DurableStorage`: Create and Load | one system call, or the decision between two |
| `RootAuthority_proofs` | | theorems about `AtomicStore`, `DurableStorage`, its refinement and `RootAuthority` |
| `ReportFlow` | extends `ReportCredit`: the BEAM ledger behind two ordered channels | one message |
| `ReportFlow_proofs` | | theorems about `ReportCredit` and `ReportFlow` |
| `SubscriptionSession` | subscriptions of a session seen from both ends | one message of the connection, one section of the host |
| `SubscriptionSession_proofs` | | theorems about `SubscriptionSession` |
| `Admission` | callers, slots, markers, call queue and closing of a connection | one operation on the ETS table, marker or mailbox |
| `Admission_proofs` | | theorems about `Admission` |
| `MatterValues` | elements, both registries and their validators, decoding and encoding of SDK values | operators, no state |
| `Interaction` | extends `MatterValues`: one request from the client to the device and back | one function of the path a call takes |

Each `MC*` module fixes constants for TLC.  Names follow the code; a comment at each
action says which function, and which branch of it, the action is.

Abstractions used throughout: a report, value or payload is opaque (its encoded length
where credit depends on it), except in `MatterValues` and `Interaction`, which are about
values and nothing else; JSON is not spelled out, its size in nodes is; time is a flag that may become
true at any moment; the SDK is external and may call back in any order its API permits,
refuse to schedule work, or never answer.  A kill of a process may happen anywhere.

### Correspondence of the less obvious parts

* `ReportCredit`: `Encoded` is the length of a frame with its sequence digits,
  `Reserved` the length a queued frame is charged (`Digits[MaximumSequence]`).  The
  peer is arbitrary: `Acknowledge` and `AcknowledgeRejected` take every pair of numbers.
  The counters stop at `MaximumSequence` and `MaximumBytes`, as `CountersAllow`
  (`next_report_byte_count`) does at the largest `uint64_t`.
* `NativeSubscription`: `sdk`, `after` and `host` are program counters between critical
  sections; `work` is the SDK's work queue; `entry` and `live` are what HostProtocol and
  the credit manager know of the stream.
* `HostLifetime`: a line is one of its kinds, chosen when it is read.  ProcessLine is entered
  again by the control pump inside a wait: `depth` is `processing_depth_`, `cancellation` the
  depth of the unsubscribe that waits, and a close inside a wait is remembered in
  `close_requested` until the outermost line is done.  An over-long line is invalid input with
  stdin still open (`overrun`), which the watcher does not see.  `held` of `ControllerLifecycle` are the
  flags and owning pointers Cleanup tests; `Needs` says what each was given when it was made.
* `NativeSubscription`: a path result has an identity (an attribute path or an event number)
  and the number `n` of its report; `thread` says which of the two threads wrote it.
* `DurableStorage`: `dir` is what processes see, `durable` what the last directory fsync
  made permanent.  After a power loss each entry is, by itself, one or the other, and
  unsynced data may be torn.  The decoded snapshot is whole or refused.  The refinement
  mapping to `AtomicStore` takes as `content` every snapshot that an Open could find now or
  after a power loss, as `firm` the same once directory and file are synced (`Synced`) and
  nothing before, as `lost` that a power loss has undone the `mkdir` of the store, as `reader`
  the values of a process that serves, and as `writing` the snapshot of a commit that has begun.
* `MatterValues`: integers wider than 31 bits do not exist in TLC, so an unsigned number is a
  pair `<<high, low>>` of base 2^16 and a cast cuts the pair.  `kDescriptors` and `entries` are
  the two registries, transcribed independently.  So are the two tables the host has besides
  its registry: `DecodableType`, by which DecodeAttribute chooses the type to decode to, and
  `Commands`, by which StartInvoke chooses the command; StartInvoke sends a command without
  fields and does not look at the value.  The generated SDK types are external.
* `Interaction`: the calls are those of `standalone.ex` and `Matter.read_paths`.  The public
  `Matter.send/2` on a persistent session is out of scope: it checks paths and sizes but no
  descriptor and no timed budget against the timeout (`native.ex:96-128`, `address.ex:63`), so
  the host can find its mutations invalid for those reasons as well.  A device answers a read
  with any reports of `Answers`, and a mutation with up to `SingleAnswers` callbacks, of which
  the last error stays.  `PutPreencodedAttribute` is external: it takes a list entry by entry
  and fails when an entry has more than `EntryNodes` elements.  `ReplyNodes` counts the JSON
  nodes of the reply, which the client limits and the host does not count; `Wire_decode` is
  the client's decoder of that frame.
* `ReportFlow`: `pending` of the ledger is keyed by sequence; `delivered` are the
  envelopes in mailboxes; a stream that recovers has its predecessor as `ancestor`, so a
  subscription is a stream that no known stream replaces (`Subscriptions`, the 64 of
  `subscribe`).  The limit on the length of a single report is the same on both ends and is
  left out: a longer one fails in the host's output, which `WriteFails` covers.
* `SubscriptionSession`: `Placed(f)` says that the connection has a clause for the frame,
  `Crossing(f)` that the frame crosses a cancellation; `cause` records why a session stopped.
  `CompleteCancellation` may find the deadline of the cancellation passed: the connection then
  fails the session (`connection.ex:2005-2006`).  A stream that has failed by itself is left to
  `NativeSubscription`: the `invalid_subscription` that the controller answers for a
  subscription that is done (`controller.cpp:2741-2742`) is not among the answers here.
* `Admission`: a reader's call differs from a mutation only in its effect, so every call
  is a mutation.  `conn` is where the connection is between two things a caller can see.

## 3. What TLC checks

All runs are exhaustive for their constants.

| run | states | bounds | properties |
|---|---|---|---|
| `report_credit` | 298,173 | 2 streams, 3 bodies, 4 sequences, session credit 2, queue 2 | `TypeOK Limits Window Accounting BarrierIsLast NoIdleCredit NoOvertaking AcknowledgeMonotone` |
| `bounded_output` | 121,755 | 5 frames, 3 classes of 2 reservations, pipe of 2 | `OutputKept StopReturns` |
| `host_lifetime` | 393,525 | 5 lines of input, one of which may be too long | `UnwoundInOrder OwnWork SuccessIsHonest WholeOrNothing Terminates` |
| `native_subscription` | 622,157 | 2 path results, 2 generations, 2 attempts, event cache of 1 | `OneTerminal GenerationFence OnceInOrder QuietWhenDone RecoveryAgrees Reaped` |
| `root_authority` | 473,788 | 2 processes, 4 keys, 8 commits, 2 crashes | `WholeAuthority IdentityKept StoreIsAtomic` |
| `report_flow` | 1,090,654 | 3 streams, 2 subscriptions, 5 sequences, credit 2 | `EndsAgree CreditConserved CreditComesBack` |
| `subscription_session` | 5,690,255 | 2 subscriptions, 2 generations, 2 attempts, 2 events under way | `ProtocolAgrees EndsOnce CancellationWatched` |
| `pending_operation` | 1,130,331 | 2 requests of any kind, 2 contexts | `ContextOutlivesCallbacks NoOrphan EffectWhenDecided` |
| `admission` | 116,884 | 2 calls, 2 slots, 1 closer | `NoEffectIsHonest SlotsReclaimed CloseEnds` |
| `interaction` | 161,119 | every member of the registry, values at every bound of it, sizes divided by 16 | `AdmittedIsServed WrittenAsAsked BackendIsBelieved RefusedForCause` |

What the newer properties say, in short:

* `UnwoundInOrder`, `WholeOrNothing`: whichever acquisition, setup or deadline fails, Cleanup
  releases what was acquired after everything that uses it, and between two operations the
  controller is whole or there is none.  `OwnWork`: the item that Execute scheduled never runs
  for another Execute, although Execute's own wait has timed out.
* `OnceInOrder`: an event or initial path is not reported again after a recovery, and only the
  batch that Activate emits can be overtaken.
* `StoreIsAtomic`: refinement.  Every system call, failure, kill and power loss of
  `DurableStorage` is a step of `AtomicStore` or a stutter.  `AtomicStore` acknowledges a write
  only when it is firm, and takes what is firm only with the whole store.
* `EndsAgree`: every acknowledgement is one the host accepts and every frame one the ledger
  takes.  `EndsOnce`: a receiver is told once, and a closed subscription is silent.
  `CancellationWatched`: a closing subscription has a deadline until it is closed, unless the
  session is already failing, no deadline outlives its need, and the only step that leaves one
  unattended is an unsubscribe refused as busy.
* `AdmittedIsServed`: the host refuses as invalid what the client has admitted in two cases
  only; a mutation that both registries admit ends unsent only if it writes a list with an entry
  too large for one message, and none is reported done without having been submitted.
  `WrittenAsAsked`: what is given to the SDK is the member and, to the last bit, the value that
  the caller named, and the registry admits it.
* `BackendIsBelieved`: whatever a device sends, decoding and conversion leave only what the
  host's own validation accepts.  `RefusedForCause`: a reply ends the session only if the
  estimate of its bytes passes nine per node that the frame has room for, or the device named
  an identifier out of range (`SessionSurvives`); the client refuses the call alone only if the
  device has contradicted itself (two different results of one path in a batch, of one number
  among events, or the same twice), sent an event below the minimum, or an access list of one
  of two loose forms; in a batch, of those only a field that occurs twice.

Why these bounds are enough to be interesting:

* `report_credit`: every limit (session frames and bytes, stream, queue frames and bytes,
  live streams) is hit and would be exceeded by one frame more; one body is larger than the byte credit; the sequence grows a digit at 3, so transmitted
  and reserved lengths differ; both counters reach their ends.  The limit on records is not
  reached with two streams: `CreditAssumption` requires, as in the code (128 = 64 + 64),
  that records can hold all live streams and one retired one per unacknowledged frame,
  and `DefensiveBranches`, a part of `Accounting`, shows that a recovery is then
  never refused.
* `bounded_output`: each class can be filled while the writer is inside a write.
* `host_lifetime`: an over-long line can come in place of any of the five.  Five lines are
  flow_open, open, a request that waits, a line inside it and one inside that (an unsubscribe inside a wait, whose own wait reads a close).
* `native_subscription`: two generations are the least in which a stale one exists; the
  attempts can be exhausted in either; two results can be two events, two paths or the same
  one twice, on both sides of a recovery.  The eviction of the event cache, which needs more
  results than it remembers (1024 in the code), is an exception of `ReportedOnce` and is not
  reached.
* `root_authority`: two crashes allow a crash of the recovery from a crash; two processes
  contend for the lock and for creation; eight commits are more than two whole creations.
* `report_flow`: one stream can be full while the other consumes; the limit of subscriptions
  is reached, and a third stream can then still replace one of the two, which fills the
  ledger; five sequences make credit come back more than once.
* `subscription_session`: two subscriptions are needed for one cancellation to meet the
  "busy" of another.
* `pending_operation`: the second request meets what the first has left behind (a late
  callback, a full table, a pending abort, the shutdown).
* `admission`: two queued calls, one active; the refusal of a full table needs one call
  more than slots and the wait of a second closer needs a second closer, neither of which
  changes the state of the connection.
* `interaction`: the requests take each member of the registry with values on both sides of
  each bound (widths, reserved identifiers, null, access lists with one field too many), and a
  device answers with the same.  Limits on sizes (frame nodes, result bytes, elements, paths)
  are the code's divided by sixteen, so that a reply can exceed each of them; the cost of a
  result in nodes and in bytes is the code's.  An access entry with one target fits one message,
  one with two subjects besides does not (`EntryNodes`).  Batches read access lists too.
  Every outcome a caller can get is reached.

Deadlock checking is off where the system may really stop (a session that is down, a bound
that is reached); the things that must happen are stated as liveness.

### Runs that show a disagreement with the repository's documents

* `lost_terminal` (`LossIsTerminal`): a subscription that fails after `Wait` has copied its
  ok response and before `AddStream` leaves a live stream with no one behind it, and no
  terminal (`controller.cpp:1616`, `protocol.cpp:1180-1192`).
* `effect_race` (`NoEffectAfterTimeout`): a timeout answered with "no effect" between the
  check of the remaining time and the submission is followed by the write
  (`controller.cpp:1109-1123` against `1181`, `1289`, `1323`).

### Fairness

* `BoundedOutput`: the writer thread is scheduled; the peer reads until it closes.
* `HostLifetime`: the main thread and an SDK that is not stuck run, the watcher polls, the
  grace period passes, a writer that is not stuck ends.  Nothing is assumed of a stuck write
  or of an SDK once it is stuck.
* `NativeSubscription`: both threads run, since every wait in them has a deadline; strong
  fairness on `Work`, because the SDK's loop serves its queue between callbacks.
* `Admission`: deadlines pass, an exchange ends (`await_owner_line` has a deadline), the
  steps between two messages end.  Strong fairness on `Reap` and `Drops`: ticks, timers and
  `:DOWN` are handled in the GenServer loop and inside `await_owner_line` alike, but not
  between them.  No caller or closer is assumed to do anything.

Liveness is checked without symmetry.

## 4. What is proved

Every theorem is about the specification the run of its module uses, without the fairness,
and holds for all values of the constants that the module's assumptions allow: any number of
streams, calls, processes, frames, any limit.

| theorem | states | module |
|---|---|---|
| `TypeCorrect` | `[]TypeOK` | `ReportFlow_proofs` |
| `WindowCorrect` | `[]Window`: the frames in flight are the consecutive sequences after the acknowledged one with running byte totals, and the popping loop stops at the frame the acknowledgement names | |
| `CreditCorrect`, `QueueCorrect`, `LimitsCorrect` | `[]CreditBound`, `[]QueueBound` and, together, `[]Limits` | |
| `AcknowledgeForward` | `AcknowledgeMonotone`: an acknowledgement only moves forward, to totals that were transmitted | |
| `AccountingCorrect` | `[]Accounting`: every counter is the sum it stands for, no record leaks, the defensive branches are dead | |
| `NoIdleCorrect`, `OrderCorrect` | `[]NoIdleCredit`, `NoOvertaking` | |
| `BarrierCorrect` | `[]BarrierIsLast` | |
| `OutputCorrect` | `[]OutputKept` | `BoundedOutput_proofs` |
| `UnwoundCorrect`, `OwnWorkCorrect` | `[]UnwoundInOrder`, `[]OwnWork` | `HostLifetime_proofs` |
| `WholeOrNothingCorrect`, `SuccessCorrect` | `[]WholeOrNothing`, `[]SuccessIsHonest` | |
| `ContextCorrect`, `NoOrphanCorrect` | `[]ContextOutlivesCallbacks`, `[]NoOrphan` | `PendingOperation_proofs` |
| `EffectCorrect` | `EffectWhenDecided` | |
| `StoreRefines`, `AuthorityStoreAtomic` | `StoreIsAtomic`: `DurableStorage` implements `AtomicStore`, for any caller and for the authority; so an acknowledged write survives every power loss but one that undoes the `mkdir` | `RootAuthority_proofs` |
| `WholeAuthorityCorrect`, `IdentityCorrect` | `[]WholeAuthority`, `[]IdentityKept` | |
| `ServedLasts` | `[]ReadIsLasting`: a snapshot that a process serves is the only one a later Open can find, whatever crashes, and its reader is alone in the store | |
| `FlowImplements` | `ReportFlow` implements `ReportCredit`: the ledger is one of the peers the manager is safe against | `ReportFlow_proofs` |
| `CreditConservedCorrect`, `CreditComesBackCorrect` | `[]CreditConserved`, `[]CreditComesBack` | |
| `EndsAgreeCorrect` | `[]EndsAgree` | |
| `NativeInvariant` | the inductive invariant of `NativeSubscription` | `NativeSubscription_proofs` |
| `OneTerminalHolds`, `GenerationFenceHolds`, `OnceInOrderHolds` | `[]OneTerminal`, `[]GenerationFence`, `[]OnceInOrder` | |
| `QuietWhenDoneHolds`, `RecoveryAgreesHolds` | `[]QuietWhenDone`, `[]RecoveryAgrees` | |
| `SessionInvariant` | the inductive invariant of `SubscriptionSession` | `SubscriptionSession_proofs` |
| `ProtocolAgreesHolds`, `EndsOnceHolds` | `[]ProtocolAgrees`, `[]EndsOnce` | |
| `CancellationWatchedHolds` | `CancellationWatched` | |
| `NoEffectCorrect` | `[]NoEffectIsHonest` | `Admission_proofs` |
| `OnePlaceCorrect` | a call is never in two of mailbox, queue and exchange, and the Port takes only what the connection has marked | |

So every safety property of the runs is proved, those of `interaction` excepted.

### Assumptions

They are the named `ASSUME`s of the modules, which TLC evaluates on every run: limits are
naturals, a "nothing" value is none of the values it stands beside (`NoFileAssumption`,
`NoFrameAssumption`, ...), and in `CreditAssumption` that `Digits` is bounded by its value at
the largest sequence and that records can hold all live streams and one retired one per
unacknowledged frame, as in the code.  `LedgerAssumption` says that the ledger has room for
the host's whole credit (64 frames and 1048576 bytes on both sides) and for more streams than
there can be subscriptions (128 and 64); one more is all that the proof needs, because a
recovery retires its predecessor in the same breath.

### The arguments

* `ReportCredit`.  `TypeOK` is inductive, with counters typed as integers, so that the proof
  does not presuppose that subtraction stays non-negative.  `Window` is inductive with it
  and is what makes the rest work: that `outstanding_bytes` is the difference of two totals
  gives its sign, and that sequences are consecutive makes the popping loop find its target.
  The four ways in which the window changes (`TransmitFrame`, `Acknowledge`, `Pop`,
  `Popped`) have a lemma each and every other step is `Quiet`.  The credit bounds need in
  addition that an absent stream holds nothing, since a record is opened with zero counts;
  the queue bounds need the counts per stream.
  `Accounting` rests on `AccountInv`: the counters are sums and counts over the two queues
  also inside the loops of Retire and Acknowledge (`SentCounted`, `QueuedCounted`), every
  frame has a record (`Homed`), and a retired record has a frame or is the one a loop is
  about to erase (`Attended`).  What appending to and dropping from a queue do to a sum
  (`BytesAppend`, `BytesDrop`) and to a count (`CountAppend`, `CountDrop`) are lemmas.
  `BarrierIsLast` rests on `WireInv`: each barrier names the last report since the barrier
  before it (`Named`), and of a live stream `last_transmitted` is that report (`Current`).
* `ReportFlow`.  Every step is one of `ReportCredit` or leaves it alone, so `Window`,
  `CreditBound` and `AccountInv` carry over.  `NumberInv` makes the ledger a function of the
  frames in flight, named by their sequence: what the ledger has acknowledged and registered
  carries the host's own lengths and totals (`Registry`), each acknowledgement under way
  quotes the total of a later frame (`Quoted`), the reports on the wire are exactly those not
  registered yet, in order (`Numbered`), and a report nobody has consumed is with its
  receiver or of a stream that will be retired (`Held`).  A step of the host keeps this
  because it keeps every frame that is not accepted (`Kept`); the acknowledgement that the
  ledger computes is the host's total because both are the same running sum (`TotalIs`).
  `StreamInv` says of every stream where it is in its life on the wire: its recovery status
  comes before all else and its barrier after all else (`StatusFirst`, `BarrierLast`), the
  ledger knows it in between (`Opens`), a barrier is preceded by what lets the connection
  expect it (`Announced`), it names the last report the ledger will have by then (`Lasts`),
  and the status of a recovery is followed at once by the barrier of the stream it replaces
  (`Replaces`), which is why a generation that is retiring never takes the room of a
  subscription.  Steps are sorted by what they do to the wire: nothing (`QuietStreams`), one
  frame more (`Written`), one frame less (`Reading`).
* `BoundedOutput`.  The ids run on through pipe, writer and queue (`InOrder`); the bytes
  reserved for a class are the sum over what is held, stated by the sums of what follows
  each place, until a failure, after which they are at least that (`Reserved`).
* `HostLifetime`.  The held resources are always an initial part of the chain in which they
  are acquired (`Chain`); `Errand` says whose work is at the SDK while the host thread waits,
  `Place` where the main thread is while the controller is at work, and `Verdict` what
  RunHost has found and the exit status may still be changed by.
* `PendingOperation`.  A start comes before all else of its context and before the shutdown
  in the SDK's queue, and a context has one reaper (`Ordered`); who is done has its reaper
  and who is not has its start, its registration or its section (`AllFollowed`).
* `RootAuthority`.  For the store, `Settled` says that the file named by either view of the
  directory is whole and synced and that the marker is in both while they differ;
  `Progressing` says what each system call of Commit has left behind, `Fresh` what a creation
  may meet.  The refinement mapping is that of `StoreIsAtomic`, and each system call is one
  lemma.  For the authority, every snapshot that is or may become the state has values of one
  generation only (`OneGeneration`), and an identity that was given out is in every snapshot a
  later host can see (`Kept`), unless the store has vanished.
  That what is acknowledged is firm rests on `KeptWhenSynced`: once the directory and the file
  are synced, a power loss leaves the same content or nothing at all.  `ServedLasts` is about
  the abstract register, where a process that reads or writes is alone.
* `NativeSubscription`.  `Inv` has seven parts.  The types.  The control: what the SDK thread
  may hold at a section while the host thread is at another one, with the client, the
  queue, the buffer and the stream that this allows.  The errors: one at most, and nothing
  after it.  The barriers: one per generation, written when the stream leaves it.  The
  fence: a report that has left the buffer, and is held by a thread between two mutexes, is
  of a generation that was announced and whose barrier is not written.  The order: the
  reports of a generation run on through the wire, the hands of a thread and the buffer,
  except that the batch of Activate may be passed.  The memory: every report that is known
  has its key in the cache for as long as the cache reaches, so that `OnceInOrder` survives
  the recovery that empties the buffer.  The control is what makes the others inductive: a
  check made in one section is used in the next, and only it says what the other thread can
  have changed meanwhile.
* `SubscriptionSession`.  The life of a stream is a path of states (unborn, open, switching,
  recovering, failed, over) along the frames under way (`Follows`).  It starts at what the
  connection says of the subscription (`Sees`), each event leads from one state to the next
  (`Leads`), and it ends where the host's stream is (`Shows`); `Joined` says there is such a
  path.  Reading a frame drops the first state of the path, which is why there is a place
  for the frame; writing one adds a last state; no other step touches it, except that a
  stream is added everywhere at once, because nothing of it can be under way yet (`Fresh`,
  against `Hatched`).  `Spoken` says what an answer promises about the life at its place.
  Around it: the blocking call is in one place, a request, an operation of the host or an
  answer (`Calls`), a cancellation names the generation its subscription is closed with
  (`Cancels`), and who has been told and who is watched (`Told`, `WatchedWhileOpen`, the
  latter for a session that is up: one whose cancellation was completed late is about to stop).  The
  path is what the three properties have in common: none of them is inductive without it,
  since each speaks of frames that are still under way.
* `Admission`.  The Port takes nothing whose marker was not set before (`Marked`), the marker
  of the active call is known at each stage of `submit_request` (`Turn`), and who was told
  "no effect" has no call any more or has cancelled it (`Returned`).

Each inductive invariant was model-checked on the constants of its module's run before it
was proved.

Sums over sequences are defined by recursive functions.  Their induction is carried by the
lemma `Least` (a nonempty set of naturals has a least element, from the well-foundedness of
`<` on the naturals): a property of every partial sum is shown by its least counterexample.

### Only model-checked

Liveness (`StopReturns`, `Terminates`, `Reaped`, `SlotsReclaimed`, `CloseEnds`), which is out
of reach of the prover, and everything about values (`Interaction`, `MatterValues`: recursive
operators on trees, for which the prover has no induction): `AdmittedIsServed`,
`WrittenAsAsked`, `BackendIsBelieved` and `RefusedForCause`.

## 5. Behaviours worth knowing

The models exhibit these; no property forbids them, either because the documents are silent
or because the property names them as an exception.

* An overflow met while delivering `:resubscribing` stops the whole session and tells the
  receiver twice (`connection.ex:1249-1272`, `1658-1672`); `docs/specs/WMA.00-library-contract.md:143`
  has "A terminal failure emits at most one native error and starts cleanup."  `TerminalOnce`,
  a part of `EndsOnce`, excepts exactly this case; an overflow on `:resubscribed` it covers.
* `unsubscribe_active` marks a subscription `:closing` before it sends the request and leaves
  it so when the host answers with an error (`connection.ex:734-761`).  The host refuses with
  `subscription_busy` while another cancellation waits (`protocol.cpp:1208`); the stream then
  stays live, no deadline watches it, and a further unsubscribe only joins a retirement that
  nobody has begun.  `docs/specs/WMA.10-software-contract.md:249` has "No native subscription
  or callback survives cleanup".  `CancellationWatched` names this step as the only one of its
  kind.
* A recovery status that crosses a cancellation stops the session (`connection.ex:1581-1625`),
  and so does the host's refusal of an internal cancellation, for which the connection has no
  clause but `"ok" => true` (`connection.ex:1363-1376`, `protocol.cpp:1208`, `1229`).
* The output's reservation for reports can exceed the unacknowledged credit by the frame
  whose reservation is being given back (`protocol.cpp:809`, `866-870`).
* Reports buffered before activation and newer ones are emitted by two threads: the batch of
  Activate can be overtaken while it is emitted (`controller.cpp:1644-1655`, `1757-1765`).
  `InOrder`, a part of `OnceInOrder`, excepts exactly that batch.
* `PrepareRecovery` empties the buffer on the first attempt only (`controller.cpp:1918-1920`):
  what a failed attempt has reported of its snapshot stays and is delivered with the next,
  where `docs/specs/WMA.10-software-contract.md:188-190` has "then deliver the new initial
  snapshot".  A loss within a report leaves `in_report_` set, and events discarded with the
  buffer stay in the event cache, so the device's repetition of them is suppressed.
* A line that is malformed or refused for its form ends the session in an orderly way: the
  process exits with status 0 (`protocol.cpp:966-1052`).  Only a failure of the channel, of a
  reply or of a read is a failure of the process.
* When the SDK does not take the work that shuts the commissioner down, Cleanup goes on and
  releases what it uses (`controller.cpp:2412-2415`); `UnwoundInOrder` excepts it.
* The host limits a reply by an estimate of retained bytes (98304) and never counts its JSON
  nodes, which the client limits to 4096 (`docs/specs/WMA.13-native-backend.md:93-95`,
  `controller.cpp:1516-1532`, `wire.ex:27-60`): about 107 scalar results, 194 path errors or one
  list of 580 elements end the session as a bad frame.  `RefusedForCause` states the limit: only
  36,783 of the 98,304 bytes, nine per node, are safe whatever the results are.
* The host does not look at the identifiers of the paths that a device reports; one out of the
  range of `address.ex` makes the client refuse the frame and ends the session.
* A timed mutation whose budget equals its timeout is admitted by the client and refused by
  the host as soon as a millisecond has passed (`standalone.ex:418-434`, `connection.ex:1436`,
  `interaction.cpp:111-115`); a read or subscription whose paths name several nodes is admitted
  by the client and refused by the host (`interaction.cpp:85-99`).
* The host accepts access-control targets whose fields are in another order and entries whose
  optional fields occur twice (`value.cpp:101-187`); the client refuses such a list as an
  invalid return (`descriptor.ex:459-513`).
* What both registries admit has an encoding and a command, so `interaction_submit_failed` is
  never the answer for want of one.  It is for an access entry with so many subjects and targets
  that it does not fit one message, although both registries admit it (`controller.cpp:1288`).
  When SendWriteRequest or SendCommandRequest fails after the submission the answer is the same.
* When the channel fails, an idle host is ended by the grace period of the watcher, because
  RunHost waits for a line without looking at the channel (`protocol.cpp:1655`).  A failed
  activation and a cancellation of a stream that is not live end the host as well
  (`protocol.cpp:1611-1616`, `1256-1276`).
* The entry of a new store in its parent directory is never synced (`storage.cpp:411`): a power
  loss can take a whole acknowledged store.  `IdentityKept` and `AtomicStore` except a store that
  has vanished.
* A store that is reopened after a kill between the removal of the marker and the last fsync is
  served, although a power loss may bring the marker back and have it refused: what is served
  is not yet firm, only what is acknowledged is.
* When the SDK refuses to schedule the reaper, a context or subscription keeps its slot until
  the host ends; `NoOrphan` and `Reaped` except it.
* A caller that cancels, or a deadline that passes, between the drain of a call and its
  submission stops the whole connection, not only the call (`connection.ex:1440`, `1461`, `797`).

## 6. What is not modelled

* `RuntimeRelay` and one-shot handles: one process between the connection and a Runtime owner
  that is not in this repository.  Towards the connection it is one of the receivers that
  `ReportFlow` and `SubscriptionSession` already let die, stop consuming or consume in any
  order.
* The Python adapter (one request per process, no state), the endpoint catalogue, the Thing
  Description mapping and the onboarding material (pure translations of descriptions).
* The text of JSON, the binary form of TLV on the Elixir side, strings, and the byte framing
  of lines; certificate generation; the data of an invoke response; the SDK's mapping of
  unknown enumeration values to a value of its own; `attribute_report.ex`, `event_report.ex`.
* The handshake the connection performs in `init`; the host's side of it is in `HostLifetime`.
* Build tasks, logging and test hooks.

## 7. Plan

Every safety property that the prover can reach is proved.  What is left to model is the
runtime relay (the one hazard without a property), once the Runtime side it meets is known.
What would need other tools are liveness under fairness and the values of `Interaction`, both
of which TLC checks on the bounds of section 3.
