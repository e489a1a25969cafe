# ServiceConnect-NodeJS: TLA+ specifications and proofs

ServiceConnect is a message bus for Node.js over RabbitMQ. A host creates a
*bus*, registers message types and handlers, and the bus publishes, sends,
routes, requests, streams, aggregates and runs process managers (sagas), with
state kept in memory or in MongoDB.

This directory holds TLA+ models of the parts of the bus in which order,
concurrency and failure matter, the TLC configurations that check them on small
instances, and TLAPS proofs that hold for every instance. `PROJECT.json` maps
every definition of a model to the lines of the source it stands for.

    tlc -workers 2 -config MCSaga.cfg MCSaga     # check one configuration
    tlapm SagaProofs.tla                         # check the proofs of a module

## Inventory

| Component | Source | State | Operations | Talks to |
|---|---|---|---|---|
| RabbitMQ consumer | `rabbitmq/src/consumer.ts`, `retry.ts`, `topology.ts`, `audit.ts` | subscription, RetryCount headers; the broker's queues | start, handle (dispose of one delivery), stop, health snapshot | broker, dispatcher (callback) |
| RabbitMQ producer | `rabbitmq/src/producer.ts`, `connection.ts` | declared exchanges | publish, send, sendBytes, dispose | broker |
| Bus | `core/src/bus.ts` | started/stopped flags, pollers, flush timer, registries | registration, start, stop, publish, send, request, route, openStream | everything |
| Dispatcher and pipeline | `core/src/handlers/dispatch.ts`, `pipeline/`, `filter-pipeline.ts` | none of its own | dispatch one envelope: filters, branches, handlers, classification | all branches, routing slip |
| Handler registry | `core/src/handlers/registry.ts` | handlers per type | add, remove, handlersFor (ancestors) | type registry |
| Request/reply | `core/src/request-reply.ts`, the request calls of `bus.ts` | pending entries, timers, abort listeners | register, tryRouteReply, cancel, shutdown, sendRequest, sendRequestMulti, publishRequest | producer, dispatcher |
| Process managers | `core/src/process/dispatch.ts`, `registry.ts`; saga stores | rows with concurrency tokens | runSagaBranch; find, insert, update, delete | dispatcher, timeout store |
| Timeouts | `core/src/process/timeout-poller.ts`; timeout stores | scheduled records with leases | schedule, claimDue, delete; tick | producer (publishes the timeout) |
| Aggregator | `core/src/aggregator/`; aggregator stores | appended messages with leases | appendAndClaim, expireDueLeases, releaseSnapshot; flush tick | dispatcher, user code |
| Streaming | `core/src/streaming/` | sequence numbers, out-of-order buffers, registry of open streams | sendChunk, complete, fault; push, next; runStreamBranch, drain | producer, dispatcher |
| Routing slip | `core/src/routing/` | the itinerary header | route, forward | producer |
| Wire format | `core/src/wire/`, `serialization/`, `rabbitmq/src/envelope.ts` | none | encode and decode headers and bodies | transports |
| Telemetry, health checks | `telemetry/src`, `healthchecks/src` | spans, metrics | wrap consume and send; report | bus |
| Website, examples, harness, interop | `website/`, `examples/`, `harness/`, `interop/` | | documentation, samples, test drivers | |

### What is hard about them

* **Delivery is at least once.** Every failure is handled by publishing a copy
  and acknowledging the original, two steps between which a process, a channel
  or the broker can fail.
* **Everything suspends.** A handler, a filter, a store call or a send is an
  `await`; other deliveries, timers, replies, aborts and `stop()` run in
  between. State that was read before an `await` is used after it in the saga
  branch, the aggregator, the request calls and the pollers.
* **Several hosts share the stores.** Leases and concurrency tokens are the only
  protection, and the two stores implement them differently (the MongoDB stores
  in several calls to the server).
* **Clocks.** Leases, retry delays, request timeouts and the flush of
  aggregators expire while the work they guard may still be going on.
* **Nothing reports some failures.** A lost acknowledgement, a swallowed
  routing-slip error, a duplicate stream chunk only show in the final state.

What makes each component correct, in one line: the consumer loses no message
and counts attempts exactly; a request settles once, for its reason, and leaves
nothing behind; a saga row changes as if messages were applied one at a time; a
timeout is published at least once, and by one poller at a time; a message
given to an aggregator reaches `execute` in a batch of one owner at a time; a
stream is read in order without gaps; every successfully consumed envelope
continues its itinerary; `stop()` leaves no timer and no pending promise.

## Modules

| Module | What it is |
|---|---|
| `Delivery` | the RabbitMQ consumer, its queues and the broker |
| `AtLeastOnce` | abstract: what `Delivery` promises a sender |
| `RequestReply` | the request/reply manager, the request calls and `stop()` of the bus |
| `Conversation` | abstract: what `RequestReply` promises a caller |
| `Saga` | `runSagaBranch` over the memory and MongoDB saga stores |
| `AtomicSaga` | abstract: rows that change one message at a time |
| `TimeoutPoller` | the pollers and the leases of both timeout stores |
| `Aggregator` | deliveries, flush ticks and the leased buffer of both stores |
| `Stream` | a stream sender, the broker, and the receiver, registry and branch that read it |
| `OrderedStream` | abstract: what `Stream` promises the handler that reads |
| `Dispatcher` | one envelope through pipelines, branches, handlers and result, and the routing slip from hop to hop |
| `Publish` | publish and sendToMany through exchanges and bindings to the handlers of a type hierarchy |
| `BusLifecycle` | start and stop of the bus, its consumer and timers, around what still runs |
| `MC...` | one per module above: instances and refinement mappings for TLC |
| `...Proofs` | theorems about the module they are named after |

Conventions. A step is what runs between two `await`s, so an action ends where
the code suspends. Every call that leaves the process may fail before it took
effect, fail after it took effect (the answer is lost), or succeed; a fault
costs one of `MaxFaults`. Variables named *history* are observed only by
properties. An operator marked "seeded fault" is a plausible bug used to show
that a property can be violated; nothing refers to it.

### Delivery

One action per stage of `handle` in `consumer.ts`: `Deliver` starts a run; in
`Decide` the callback returns, with every result `ConsumeResult` allows, and
`decideDispositionAction` of `retry.ts` chooses; the retry copy, the dead letter
or the audit copy is published (`PublishOk`, `PublishUnroutable`,
`PublishFails`); `Ack` acknowledges the original. The retry queue's TTL, the redelivery of what was not acknowledged, lost channels,
crashes and restarts of the broker are the broker's part. A run outlives the
channel its message came from, as in the code: it then publishes although the
broker has already requeued the message. A copy remembers whether it was published as
persistent; `exchanges` says whether the transient error and audit exchanges
exist, which only `start()` declares.

`NoLoss` is the point: a published message is held by the broker, dead-lettered
or closed by a run. `AtLeastOnce` states the same to the sender, and the mapping
in `Delivery` (owed = some copy is held) is a refinement, checked and proved.
`DeadLetterJustified` says the count of attempts is exact though copies of one
message mix; `OnePlaceWithoutRedelivery` that duplicates come only from the
broker; `AuditMirrorsHandled` that an audit copy means a success and the reverse.
In this module and the next ones a state where the callback has an outcome stands
for what `Dispatcher` does in detail.

### RequestReply

`phase` is where a call is suspended: in the outgoing filters, in the transport
send, or on its promise. `settle` stands for `finalise`, `rejectEntry` and
`cancel` of the manager: remove the entry, clear its timer, drop its abort
listener, settle the promise. `onReply` runs user code inside `tryRouteReply`
and may abort any signal there, its own request's included. Replies can
overtake the broker's confirm; a send may fail after the broker has it.

`NothingLeaks` ties entries, timers and listeners to a pending promise;
`SettledForItsReason` gives each outcome its precondition; `SettledOnce` says
what later steps may not do to it. `Conversation` is the caller's view (open,
hear, close once), and `EveryCallReturns` the promise that nobody else has to
keep for the caller. `NoReplyAfterReturn`, `CancelledNeverSurfaces` and
`ShutdownIsFinal` are proved only.

### Saga

A worker's run holds the row it loaded (`data`, `token`) and the registration
it is at. The data of a row is the sequence of messages applied to it, so a lost
update shows. Tokens are what the store makes them: fresh ones for the memory
store (UUIDs), `0, 1, 2...` per row for MongoDB; each process has the store it
was registered with. A handler may ask for a timeout, which is stored before the
row is, change the row, complete it (where `Completes` says it may), or throw. The
transport's part is abstract: a failed message is queued again until its attempts
are used.

A retry starts at the first registration, and nothing remembers which of them
have committed. So a message of several processes that fails at a later one, be it
by losing a race there, is applied to the earlier ones again, without any fault.
`RepeatedOnlyIfHalfDone` says that this is the only way, and how often: a message no
crash, lost channel or lost answer touched (the rest is in `disturbed`) changes a
saga a second time only if an attempt failed at a later registration (`failedAt`),
and once per attempt at most; the saga of its last registration it changes once,
however many conflicts it met. `DoneMeansApplied`: an acknowledged message was
taken by every saga it starts. `ImplementsAtomicSaga`: the rows change as if
messages came one at a time, where a completion deletes whatever the row holds by
then, another run's commit included. It holds with fresh tokens, and with MongoDB's
versions as long as no handler completes its saga; `ChangedRowConflicts`, that an
update never goes onto a row other than the one loaded, is what completion breaks.

### TimeoutPoller

`claimDue` is one step in the memory store and three (find, lease, read back) in
MongoDB; both are offered to every tick. Time is relative: leases and due times count down, a tick's age counts up, and all
saturate at `Lease`, so the clock needs no bound. `Exclusive` holds for pollers
within their lease; what a poller still holds after it is marked disturbed.

### Aggregator

`runner` is a delivery or a flush tick with the batch it has in hand. Only one
message type is modelled: the stores keep types apart, and a tick that executes
another type's batch first is a slow tick. A message delivered again is buffered
again, so an entry is a message and how many times it was appended. Dates become what is asked of them: an entry is
due, an entry is leased, a caller has *missed* the leases that ended after it
read the clock, a runner is *overdue* when its lease ended under it. Ticks are
not serialised: `setInterval` starts one while another executes. `stop()` needs
no action: it ends the timer, and a tick it cuts off is a `Crash` of its runner.
The memory store dies with its host; what that loses is not modelled.

`NothingLost`, `Exclusive` and `ExecutedOnceUndisturbed` are the
safety of the lease; `EveryEntryExecuted` says that nothing stays behind.

### Stream

One stream, from the caller of `sendChunk` to the `for await` loop of the
handler. A call of the sender suspends in `producer.send` (`Accept`: the broker
has the message; `Confirm`, `SendFails`: what the caller learns), and the number
advances only in `Confirm`. The caller awaits each call, as the documented use
and `senderToWritableStream` do; two `sendChunk` calls at once would share a
number. After a failure callers either repeat the chunk or go on with the next
(`AfterFailure`). `Receive` is `runStreamBranch`; `push`, `Drain` and `next` are
the receiver's, which run without suspension, so one delivery is one step. The
loop of the handler is *busy* with a chunk or *waiting* in `next()`; it may also
break or throw (`Leave`). Acknowledgements get lost (`DeliverUnacked`), a body
fails to decode after the receiver was made (`BadBody`), the id falls out of the
10 000 remembered ones (`Evict`), the host dies (`Crash`) or stops, and starts
again knowing nothing of the stream.

`ImplementsOrderedStream` is the point: the handler reads a prefix of what was
written, its loop ends normally only after the last chunk and throws only after
a fault, even when the buffer is full and chunks become dead letters.
`HandledOnce`: nothing that comes late gives an ended stream to the handler
again. `ReaderIsTold`: a marker the broker has ends the reader's loop, unless a
chunk was given up or the host restarted. It makes no such promise for a host
that stops: its consumer is gone, and `drain()` waits for a handler nobody will
wake. One queue with one consumer is assumed; with competing consumers each gets
part of the chunks and neither stream advances.

### Dispatcher

A slot of the broker holds an instance of a message; a job is one call of
`dispatch`, with the stages of `dispatch.ts` as `stage` and one action per way
out of a stage: the verdict of the beforeConsuming pipeline, the stream, reply,
saga and aggregator branches (which may also reject), an unknown type or a body
that does not decode, handlers one after the other, onConsumedSuccessfully, the
forward of the routing slip, afterConsuming, and the result it reports. `Settle`
is what the consumer does with the result, in one step, since `Delivery` has its
steps. A job outlives its channel (`ChannelLost`), so that two instances of one
message can travel at a time; a forward can fail, and the code swallows the error.
Itineraries visit hosts of every kind, one of them twice, a queue that does not
exist and a destination `validator.ts` refuses; `SendWithSlip` sets the header by
hand, past the validation of `route`.

`HopsInOrder` relates an instance's slip to the itinerary and to what was
processed. `ItineraryKept` is the promise of routing slips, over every exit: its
exceptions (`Accounted`) are all the ways in which an itinerary ends early.
`StagesAgree` says which pipelines ran for which result, `OnceUndisturbed` that
no hop runs twice without a failure, `EveryRouteEnds` that nothing circles.

### Publish

A call of `publish` runs the outgoing filters, computes the ancestor closure of
the type (`VisitType`, the loop of `ancestorClosure`, with its stack), and then
declares and sends to one exchange after the other; the client library tries a
send `MaxAttempts` times, and a confirm may be lost. Two calls interleave over
`declared`, the memo of declared exchanges. `sendToMany` goes on after an error
and rejects at the end. Meanwhile a host declares its topology one exchange and
one binding at a time, takes copies from its queue, and `handlersFor` walks the
hierarchy of the host's own registry (`WalkType`, `WalkRegistration`), which may
know other types and parents than the producer's. Code without an `await` is not
interrupted (`InLoop`), as in the event loop. Handlers come and go at run time;
`handle` adds no binding.

`Ancestors` is the reference definition, the least closed set, against which
both loops are checked and proved. `ReachesEverySubscriber` compares with the
bindings there were when a call *began*, since a binding added meanwhile may be
missed; `OneCopyPerConsumedType` and `HandlersExact` count copies and handlers.
`MemoIsTrue` holds while nobody deletes an exchange: see the disagreements.

### BusLifecycle

Two calls of `start` and one of `stop` (a second one returns at once and changes
nothing). `start` makes a poller per timeout store and the flush timer, then
declares the topology and waits for the consumer's first event; only then does
it set `_started`. `stop` awaits, in the order of `bus.ts`, the consumer, its connection,
the pollers, the flush timer, the streams and the producer; `shutdown` of the
request manager is between. A timer is known by the call that made it, and its
ticks by number, because the flush timer's field knows only the latest of each.
A delivery's handler and a stream's run meanwhile, and ask for replies; the
consumer's events move the flags that `isConnected` and the health check read.

`NothingRunsAfterStop` says what a finished `stop` may leave behind, and so names
the two things it does; `TornDownInOrder` that nobody is cut off from what it
still uses, stream handlers' requests excepted; `HealthIsTruthful` when a healthy
report is false; `StopReturns` that only a stream that awaits a chunk
keeps `stop` from returning. Two facts about the client library are assumed: its
`Consumer.close` waits for the callbacks, and nothing attaches once `stop` began.

## Runs

| Run | Question | Bounds |
|---|---|---|
| `delivery` | safety and refinement of the consumer | 1 message, 2 consumers, 3 slots, 2 attempts, 1 fault |
| `delivery_liveness` | is every message closed, with one fault and no broker restart? | 1 consumer, no error queue |
| `delivery_lost_exchange` | does the final failure reach the error queue? **no** | 1 broker restart |
| `request_reply` | safety, refinement and liveness of requests | any call next to a callback request, 1 shared signal, 2 replies each |
| `saga` | safety, refinement and liveness of both stores | 2 messages, 2 processes, 2 workers, 1 fault |
| `saga_reinserted` | is a changed row a conflict? **no** | 3 messages, 1 process in MongoDB whose handlers complete, 2 workers, 1 fault |
| `timeouts` | leases of both timeout stores; does every timeout fire? | 2 records, 2 pollers, lease 2, 1 fault |
| `aggregator` | leases of both aggregator stores; is everything executed? | 2 messages, 2 deliveries, 1 tick, batches of 2, 1 fault |
| `stream` | order, refinement and end of a stream whose sender repeats what failed | 3 chunks, buffer of 2, 2 faults |
| `dispatcher` | order and fate of an itinerary, stages of a dispatch; does every route end? | 1 message, 5 hosts, 4 itineraries, 2 dispatches, 3 slots, 2 attempts, 1 fault |
| `publish` | who gets how many copies, which handlers run | 2 calls, 3 types with a diamond and a cycle, 1 host, 2 attempts, 1 fault, 1 handler added or removed |
| `lifecycle` | what start and stop leave behind, in which order; does stop return? | 2 starts, 1 poller and 1 flush timer each, 1 message, 1 stream, 2 ticks, 2 faults |

Why the bounds are enough. A delivery has at most two live copies and one parked
one per fault, so three slots let a stale run, its retry copy and a redelivered
original exist at once; two attempts distinguish "first", "last" and "used up".
A race in the saga and request code has two parties and what they raced for: two
workers, two messages and a redelivery give a conflict whose loser is retried
behind a third run and, when the loser is the message of both processes, has
committed to the first before (the race is in the memory store; the rows in MongoDB
are raced only by copies of one message there, and by three messages in `saga_reinserted`), two requests on one signal give an abort from inside the other's
callback. Two claimants and two records or entries give a split claim. Three
chunks fill a buffer of two behind a missing first one, and the second fault lets a duplicate meet
a restart, an eviction or a failed send. Five hosts are one for each way a
message is consumed, and an itinerary of three can end early in the middle; three
types give a common ancestor reached twice and a cycle, one host is enough
because hosts do not interact; two starts give the overlap, and two ticks one that
outlasts its interval. Elsewhere one
fault is enough for every single failure and, because a stale run, an overrun
lease and a redelivery all follow from one, for its consequences; two faults
were outside what these runs can enumerate, and the proofs cover any number.
`Stores = {"memory", "mongo"}` lets each call take either way; the memory way is the MongoDB calls with nothing in between, and a
system that has only one store is a restriction of this one, also under the
fairness assumed, as both ways are enabled in the same states.

`CHECK_DEADLOCK FALSE` is set everywhere because these systems rest: with every
message closed, every call returned or every timeout fired nothing is left to do.

### Fairness

* `Delivery`: a consumer that is down is started by its host (weak), callbacks
  return and confirms arrive (weak, per run), the TTL of the retry queue expires
  (weak), and the broker does not pass over one message for ever while others
  are delivered (strong: a message competes for prefetch slots).
* `RequestReply`: filters and sends complete, timers fire, the event loop
  resumes the caller (weak). Nothing makes a reply arrive, a signal abort or the
  bus stop, so `EveryCallReturns` rests on the timers alone.
* `Saga`: store calls and handlers return (weak), a queued message is delivered
  when workers become free again and again (strong).
* `TimeoutPoller`: the clock moves, hosts are restarted, ticks and calls go on
  (weak); a claim repeated for ever is one day read back within its lease
  (strong), which is 60 s against one call of the store. Without it a poller
  that always overruns its lease claims for ever and fires nothing.
* `Stream`: each message the broker holds is delivered while the host is up, the
  handler goes on reading and returns after its loop, a stopping host restarts once
  its handlers are done (weak). The caller need never send or close.
* `Aggregator`: entries age and leases end, ticks come, calls return (weak).
* `Dispatcher`: the broker delivers what waits in a slot, and what a dispatch
  awaits comes to an end (weak). Nothing makes a forward succeed.
* `BusLifecycle`: closes of the client library end or fail, requests have a
  timer, ticks end (weak); a handler that is free again and again ends or awaits a
  chunk (strong: one that asks for ever would keep `stop` waiting, and that is
  its own doing).
* `Publish`: safety only.

## What is proved

The theorems hold for every value of the constants that the `ASSUME` of the
module admits: any sets of messages, workers, requests or records, any limits,
any number of faults. TLC evaluates those assumptions in every run. `BusProofs`
is about both specifications of `bus.ts` and extends both, for which the
definitions of `BusLifecycle` have names of their own (`BusInit`, `BusSpec`).

| Proofs | Theorems |
|---|---|
| `DeliveryProofs` | `DeliveryTypeCorrect`, `DeliveryNoLoss`, `DeliveryDeadLetterJustified`, `DeliveryAuditMirrorsHandled`, `DeliveryOnePlaceWithoutRedelivery`, `DeliveryImplementsAtLeastOnce` |
| `BusProofs` | `RequestReplyTypeCorrect`, `...NothingLeaks`, `...SettledForItsReason`, `...CancelledNeverSurfaces`, `...SettledOnce`, `...NoReplyAfterReturn`, `...ImplementsConversation`; of `BusLifecycle`, `BusTypeCorrect`, `BusNothingRunsAfterStop`, `BusTornDownInOrder`, `BusHealthIsTruthful` |
| `SagaProofs` | `SagaTypeCorrect`, `SagaDoneMeansApplied`, `SagaTimeoutsScheduled`, `SagaRepeatedOnlyIfHalfDone`, `SagaImplementsAtomicSaga` |
| `TimeoutProofs` | `TimeoutTypeCorrect`, `TimeoutNeverLost`, `TimeoutExclusive`, `TimeoutFiredOnce` |
| `StreamProofs` | `StreamTypeCorrect`, `StreamHandledOnce`, `StreamImplementsOrderedStream` |
| `AggregatorProofs` | `AggregatorTypeCorrect`, `AggregatorNothingLost`, `AggregatorExclusive`, `AggregatorExecutedOnce` |
| `DispatcherProofs` | `DispatcherTypeCorrect`, `DispatcherHopsInOrder`, `DispatcherItineraryKept`, `DispatcherStagesAgree`, `DispatcherOnceUndisturbed` |
| `PublishProofs` | `PublishTypeCorrect`, `PublishMemoIsTrue`, `PublishReachesEverySubscriber`, `PublishOneCopyPerConsumedType`, `PublishHandlersExact` |

Type invariants are proved and not checked again by the runs.

The inductive invariants, and why the property alone does not do:

* **Delivery.** `NoLoss` breaks at the acknowledgement unless something else
  holds the message. `AckIsSafe`: a run about to acknowledge knows the message
  closed, or that a copy with a *higher* RetryCount exists. The strict order
  makes it inductive: two runs can never each count on the other's copy.
  `LiveJobOwnsCopy` and `LiveJobsDistinct` say that a run acknowledges its own
  copy; `Persistent` carries copies over a restart. The refinement adds that
  only what was published is in the system (`OnlyPublished`): then a message
  leaves the map of what is owed only at an acknowledgement, and `AckIsSafe`
  says it is closed there. For the audit queue: a message handled without an
  audit copy has a run about to publish one, or a copy that came back
  (`AuditOwed`, `StaleRequeued`).
  `OnePlaceWithoutRedelivery` breaks while a message changes its place, in two
  steps: `OneSpot` therefore does not count the copy of a run that is about to
  acknowledge it, nor the outcome of a run that has yet to publish it
  (`Unsent`), and says that exactly one of what is left holds an undisturbed
  message. `CopiesAgree` and `RetriesAgree` say that the RetryCount of that copy,
  and the one a run read from it, are the number of failures.
* **RequestReply.** `InPhase` says how far a call can be in each phase; `NoReplyDue`
  that a call which has returned waits for no reply, because a pending promise
  then means a request that never left.
* **Saga.** `AttemptsLeft` and `PassedApplied` say what a run in the middle of
  its registrations has behind it. `LoadedIsCurrent`: a run whose token still
  matches has loaded what the row holds, since tokens are below `issued`
  and never repeated. It is false for MongoDB's versions once a row
  can be deleted and inserted again (disagreement 2 below). Where no handler of a
  process completes its saga (`DeletesInMemory`), versions only grow:
  `VersionIsCurrent` says that a run's version is not above its row's, and that
  equal versions mean equal data. `SagaImplementsAtomicSaga` therefore assumes
  `CompletesInMemory`: handlers that complete belong to processes in memory.
  `HalfDone`: to a registration still ahead of an undisturbed message's run, and to
  any while it is queued, the message has been applied at most once per failed
  attempt, and only if one of these failed further on; the commit of the present
  attempt is the one more that the property allows.
  `SagaRepeatedOnlyIfHalfDone` assumes that no process is registered twice for a type:
  the registry would run such a process twice.
* **Timeouts.** `Leased`: while a tick is younger than its lease, all it holds
  carries its token and a lease that ends with the tick's. `Expired`: what is
  held longer is disturbed. `Once`: an undisturbed record that was published
  has exactly one owner, about to delete it.
* **Aggregator.** `Secure`: a runner that has not outlasted its lease is the
  `claimedBy` of all it executes, all of it leased. `Honest`, `Late` and `Once`
  play the parts they play for timeouts, `Orphaned` keeps leases that nobody
  works on apart from the others.

* **Stream.** `NumbersInUse` bounds the sender's number by the chunks passed,
  `PrefixIsInterval` shows that what `drain()` takes is an interval that starts
  at the expected number (by cardinality, without induction). `OverIsKnown`: a
  loop that is over belongs to a receiver still registered or an id in
  `completedStreamIds`, so a late message never finds neither.
  `StreamImplementsOrderedStream` rests on the numbering: chunk *n* + 1 travels,
  waits and is buffered under number *n* (`Numbered`, `Carried`, `Slotted`), and
  what was read and is pending are the chunks below the expected number, in
  order (`Count`). A caller that goes on after a failed `sendChunk` breaks the
  numbering, so the theorem assumes `"skip" \notin AfterFailure`.
* **Dispatcher.** `AtHop`: the slip of an instance is the suffix of the itinerary
  behind the hop it is at, and the hops before are done. `Passed`: a call that
  reports success leaves its message accounted for or in a queue at a later hop,
  so that the acknowledgement may remove its instance, also when another instance
  of the message is behind it. `StagesOK` says by stage what has run. For
  `OnceUndisturbed`: an instance is *spent* once its call has sent the message
  on and *fresh* before; an undisturbed message has at most one fresh instance
  (`OneFresh`), and no later hop has begun (`FreshBefore`, `EarlyBefore`).
* **Publish.** Both loops keep what they have visited within the ancestors, and
  the parents of what they have visited within what they have visited or still
  have to: with nothing left, the visited types are closed, and so are all the
  ancestors. `Reached` says the same of a call's first `next - 1` targets that
  `ReachesEverySubscriber` says of all, `CopyOK` bounds the copies by `next`.
* **BusLifecycle.** What holds when `stop` has returned is put together from what
  each of its stages has left behind for good. `TimersKnown`: until they are
  stopped, the bus knows all pollers of all calls of `start`, and the flush timer
  of one. `TimersStopped`: past its stage no timer of a kind is on, save a lost
  flush timer (`Orphan`), and no tick is under way, save of that timer or one
  older than the latest; it rests on a tick being younger than all before it
  (`TickIsNew`), for which a bounded set of numbers has a largest one
  (`LargestOf`, from the well-foundedness of `<`). `HandlersStopped`: nobody
  is called once the consumer is detached. `FlagsAgree` relates the flags, the
  connection and the stage of `stop`.

### Model-checked only

Liveness (`EventuallySettled`, `EveryCallReturns`, `EveryMessageSettles`,
`EveryTimeoutFires`, `EveryEntryExecuted`, `ReaderIsTold`, `EveryRouteEnds`,
`StopReturns`) needs fairness and ENABLED, which are outside the proof system, as
are induction over data and RECURSIVE operators (the provable modules have none).
Every safety property and every action property of the runs is proved; that the
broken promises of the two runs that expect a violation are broken is shown by
their counterexamples, not by a theorem.

## Where code and documentation disagree

Statements of the documentation (under `website/src/content/docs/`) and of
comments that the code does not keep. The first two have runs that show them and are
quoted under `findings` in `PROJECT.json`; 3 and 4 were found with TLC as
invariants of these modules; the rest the models have as ordinary behaviour.

1. `error-handling.mdx:23`, "after the final delivery fails, the framework
   publishes the message to the error queue". The error exchange is transient
   and declared only by `start()`; after a broker restart the message is
   requeued and processed for ever (`delivery_lost_exchange`).
2. `process-data.mdx:50`, a changed row makes the store throw
   `ConcurrencyError`. MongoDB versions restart at 0 when a row is deleted and
   inserted again (`persistence-mongodb/src/saga-store.ts:54,75`), so a run that
   loaded the old row overwrites the new one (`saga_reinserted`).
3. `process-manager.mdx:89`, the value is persisted with a concurrency check.
   `markComplete()` ends in a delete without a token (`process/dispatch.ts:133`),
   and takes another message's committed update with it.
4. `streaming.mdx:55`, "every chunk arrives in sequence". A send that rejects
   after the broker took the chunk leaves its number in use (`sender.ts:46`); a
   caller that goes on sends the next chunk under it, which is dropped without a gap.
5. `routing-slip.mdx:73` and `handlers/dispatch.ts:52-56`, a routed message is
   never acknowledged with its itinerary silently dropped. It is when the forward
   fails (`dispatch.ts:57-66` logs), when the next queue does not exist, and at a host
   that does not know the type (`Accounted` lists them). And a host with nothing
   registered for the type reports notHandled and forwards: with
   `deadLetterUnhandled` the message goes to the error queue *and* to its next hop.
6. `filters.mdx:52`, afterConsuming "runs unconditionally". It does not when the
   type is unknown, nor when a branch or `handlersFor` rejects.
7. `the-bus.mdx:58` and `bus.mdx:24`, a repeated `start()` is safe. One that
   overlaps the first makes a second set of timers, loses the first flush timer
   for ever (the field holds one), and rejects with "already started". A
   `start()` that fails leaves its timers on, and a retry rejects. One that waits for the
   consumer when `stop()` comes never settles. And one that was rejected by an
   "error" of the consumer may be followed by a consumer that attaches, since the client
   library keeps trying, on a bus that is not started.
8. `hosting.mdx:88`, after `stop()` no other handles remain. A lost flush timer
   does, and so does a flush tick that was slower than the interval:
   `flush-timer.ts:36` awaits the latest only. A `stop()` whose close
   rejects leaves the rest undone, pollers included, and every further `stop()` returns at
   once; a second `stop()` returns before the first is through.
9. `cancellation.mdx:87` and `migrating-v2-to-v3.mdx:57`, `stop()` drains.
   It never returns while the handler of a stream awaits a chunk. The comment at
   `bus.ts:778-783` expects no pending request at shutdown; the handler of a
   stream may have one, and has it rejected.
10. `consumer.ts:34-37`, `isConnected` says whether the consumer is consuming.
    Between a reconnection and the consumer's next event it reports what the
    consumer before it did, and stays true while `stop` closes.
11. `polymorphic-messages.mdx:58`, consumers add no parent bindings, so that nothing
    arrives twice. A consumer that handles a type and its ancestor is bound to
    both, gets two copies of each publish, and runs all their handlers for each.
12. `producer.ts:50`, "re-declare on reconnect". That is left to a list of the client
    library and skipped where it has none; the memo of declared exchanges is never
    cleared. `publishConfirmTimeoutMs` (`options.ts:30`) and
    `RabbitMQPublishConfirmTimeoutError` are never used.

Smaller ones: a late reply is dispatched like any other message
(`request-reply.mdx:54` says it is discarded silently); with `batchSize` 1 a
message whose `execute` threw is a batch of its own when it is redelivered and runs
again at once, before its lease expires (`aggregator.mdx:32` says after); a call whose signal aborts while an outgoing
filter holds it throws the filter's error if the filter then throws
(`request-reply.mdx:56` promises the abort error); a flush tick or poll that
executes several batches may start the last one after its lease; `complete()`
after one that failed returns without sending anything; a type registered for a
process hides its plain handlers on that host; `handle` after `start` adds no
binding; `registerMessage` and `registerAggregator` throw for a type that was
registered with parents.

## Not modelled

* Serialisation, header encoding, logging, telemetry: conversion or reporting
  without state that the properties could depend on. Of the health checks
  `consumerConnectivity` is modelled; `consumerBusy` compares two clocks and
  `producerConnectivity` returns the connection's own flag.
* Registration before `start`: synchronous calls that fill tables, which the
  modules take as constants.
* Exchanges or queues deleted while in use, and type names that differ only in
  their dots, whose exchanges would be one (`exchangeNameForType` drops dots).
* The broker beyond durability, redelivery, TTL and confirms; queues do not
  keep order, which is weaker than RabbitMQ and covers requeued messages.
* Several correlation ids in `Saga` and several types in `Aggregator`: the
  stores keep them apart and nothing relates them.
* Two calls of one stream sender under way at once, and a stream split between
  competing consumers.
* The abort signal handed to handlers, filters and `execute`. The consumer's is
  aborted by its `stop` (`consumer.ts:93,256`), which then waits for them all the
  same (`BusLifecycle`); what they do with the signal is theirs.
* An `updateMany` of the MongoDB stores in parts (`timeout-store.ts:75`,
  `aggregator-store.ts:82`): a claim's update of all its records is one step of
  `TimeoutPoller` and `Aggregator`, where MongoDB is atomic per record. Each record
  has one winner either way, and the properties speak of single records.
* Deliveries that a client library still hands over between `stop` and the
  broker's cancel-ok: `Consumer.close` waits for them as for those before it.

## Plan

The order was: loss of messages first (`Delivery`), then the places where state
is read before an `await` and used after it (`RequestReply`, `Saga`), then
the leases (`TimeoutPoller`, `Aggregator`), `Stream`, and what ties the parts
together (`Dispatcher`, `Publish`, `BusLifecycle`). What is left, in order:

1. A shared abstract `Lease` that `TimeoutPoller` and `Aggregator` both implement.
2. `Dispatcher` composed with `Saga`: what a saga commits when a later hop's
   forward fails and the message is not redelivered.
