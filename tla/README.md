# A TLA+ model of Pharos

Pharos is a Rust workspace for domain-driven, event-driven services. This
directory holds TLA+ modules for its parts, TLC configurations that
model-check them on small instances, and TLAPS proofs. Source paths below are
relative to `src/crates/`.

## 1. The system and its parts

| Part | Code | State | Operations | Modules |
|---|---|---|---|---|
| Outbox table, dispatcher, dead-letter sweep | `pharos-messaging/src/outbox_dispatcher.rs`, `outbox.rs`, `pharos-memory/src/in_memory_outbox.rs` | rows with status, attempts, next attempt; claims of a run | insert, pending (two passes), lanes, record, publish, marks, retry, sweep | `Outbox`, `Delivery` |
| Idempotent consumer and inbox | `pharos-messaging/src/consume.rs`, `pharos-memory/src/in_memory_inbox.rs`, `in_memory_messaging.rs` | queue, inbox record with age, dead letters | receive, begin, handle, marks, ack, requeue, reject, dead-letter | `IdempotentConsumer` |
| Event bus and decorators | `pharos-app/src/event_bus.rs`, `resilience.rs`, `cascade.rs` | registered handlers, calls under way | register, publish, trusted bytes, dispatch to one handler, retrying, dead-lettering, cascading | `EventBus`; with the consumer: `ConsumerBus` |
| Saga runner and store | `pharos-saga/src/lib.rs`, `pharos-memory/src/in_memory_saga_store.rs` | versioned instances with status and deadline | handle with conflict retries, run_due_timeouts, claim_due, enqueue_all | `SagaRunner` |
| Repository, unit of work, aggregate store | `pharos-app/src/service.rs`, `unit_of_work.rs`, `default_store.rs`, `pharos-memory/src/in_memory_unit_of_work.rs`, `in_memory_repository.rs` | stored aggregate, transaction lock, aggregates in clients' hands | find, raise, three ways to save, republish, delete, dropped calls | `AggregateStore` |
| Event store, snapshots | `pharos-es/src/lib.rs`, `pharos-memory/src/in_memory_event_store.rs` | stream, snapshot | find through a snapshot, save, snapshot save, delete | `EventSourcing` |
| Realtime hub | `pharos-realtime/src/memory.rs`, `hub.rs` | rooms, channel, backlog, receivers | publish, subscribe, subscribe_since, receive, leave, collect | `RealtimeHub` |
| Websocket connection | `pharos-realtime/src/ws.rs`, `auth.rs` | one connection, its timers and token bucket | upgrade, replay, the select loop, bounded sends, close | `WsConnection` |
| Tenants and elevation | `pharos-app/src/tenant.rs`, `tenant_local.rs`, `tenant_iter.rs`, `elevation.rs`, `enrichment.rs` | task-local scopes, issued elevations, audit | with scope, spawn, elevate, impersonate, await, consume, iterate | `Tenancy` |
| Commands and their derive macro | `pharos-app/src/command.rs`, `pharos-macros/src/lib.rs`, `pharos-axum/src/lib.rs` | none (functions) | derive, validate, dispatch | `Dispatch` |
| Order example | `../examples/order/` | orders, permits, requests | the three commands and the query, timeout | `OrderService`; with money: `ServiceLibrary` |
| Integration events and codecs | `pharos-app/src/integration_event.rs`, `upcast.rs`, `serialization.rs`, `pharos-proto/src/` | events in flight, releases in service | create, cause, encode, decode, upcast, deploy | `Wire` |
| Money | `pharos-core/src/money.rs`, `allocation.rs` | none (functions) | checked arithmetic, allocation | `Money` |

`PROJECT.json` maps every definition to the lines it models.

How they interact: a service changes an aggregate and saves it; the save writes
the state and, in one transaction, the outbox rows of its events. A dispatcher
publishes the rows to a broker; consumers take them from there through the
inbox and give them to an event bus, whose handlers may drive sagas whose
commands go to an outbox again. Payloads pass through codecs and upcasters,
under the tenant of their cause. The hub fans messages out to connected
clients, each behind a websocket connection.

What is hard in this code: several dispatchers, consumers, sweeps or clients on
the same rows; leases and stale records that run out while their owner still
works; errors and crashes between any two awaits; futures dropped at an await,
or awaited by somebody else than the task that made them; optimistic versions
that must be reverted on failure; messages stamped under a lock and sent
outside it. `PROJECT.json` lists these hazards line by line, with the properties
that would catch them.

## 2. Conventions

- An action is what the code does between two awaits or under one lock. A call
  that returns an error and a crash at that call have the same effect on shared
  state, and are one action (`Fault` in an action, `Abandon`, `Abort`, `Crash`).
- Time is relative. A deadline is the number of ticks left, cut off at 0.
- Every bound is a constant with a comment: `MaxFaults`, `MaxVersion`,
  `MaxEvents`, `MaxUpsets`, `MaxPublish`, ...
- User code (handlers, `Saga::react`, an authorizer) returns any result of the
  kinds a constant lists.
- A variable that `Init` picks and nothing changes (`mode`, `deployment`,
  `deployed`, `port`, `codec`, `forgotten`, `lenient`) lets one run cover several
  deployments.
- Some variables only observe: `overrun` (a run outlived its leases), `missed` (a
  row was inserted behind a running scan), `overtaken` (a message was sent before
  one stamped earlier), `owed`, `copies`, `effects`,
  `tried`, `cause`, `crossed`, `history`. Properties use them to say exactly
  when a guarantee holds.
- Code without state (dispatch, money) is a set of operators. `Dispatch` is what a
  request of the order service runs through. What `Money` promises is a formula
  over all its inputs, checked in the initial states of a run.
- Operators named `Mut...` are plausible defects. They stand before the
  definition they would replace, and are not part of the specification. Each
  property is violated when the named one is swapped in.

## 3. The modules

**Outbox.** `status`, `attempts`, `wait` are the table, a `DashMap`. An iterator
locks one shard at a time, so pass 1 of `pending`, like `failed` of a sweep, is one
step per shard (`cursor`), between which rows are inserted, claimed and marked; what
it has found is sorted and truncated after the last shard. `cand`, `held`,
`started`, `stage`, `seen`, `age` are a dispatcher's run: what pass 1 of
`pending` picked, what pass 2 leased, the lanes that `buffer_unordered` has
started, the next await of `dispatch_one` per message, the attempts of the
claimed copy, and the time since `pending` read the clock. A lane stops at an
undelivered message; one that was delivered but could not be marked goes on.
`SweepScan`, `SweepPark`, `SweepMark` are the dead-letter sweep.

**Delivery** is the contract of the outbox, without dispatchers, claims, lanes,
attempts or time: a stored message is sent while it is pending, settled only
once the broker has it, or else given up, parked and marked so, and a settled
row is final. Each fault may hide one sending. Once a run has outlived its
leases, its late calls may reach a row in any state. `Outbox` implements it
under the mapping `sent <- copies`, `slow <- overrun` (`ImplementsDelivery`).

**IdempotentConsumer.** A worker's `pc` runs through
`process_idempotent_with_retry` (or, by `deployment.withRetry`,
`process_idempotent`). `Decision` and `Take` are the answer and the effect of
`begin_processing`. `Abandon` gives the delivery back to the broker. The
in-memory broker forgets a delivery once it is taken; redelivery is modelled as
the real brokers behind the same trait do it and is marked external.

**EventBus, ConsumerBus.** `EventBus` is a call of the bus: the list of handlers
it took when it began, its place in the list, and the await it is in (`handle`,
a cascaded command, the dead-letter queue). `ConsumerBus` makes the bus the
handler of the consumer: `BeginCall` enters the bus where `IdempotentConsumer`
starts its handler, `CallOk` and `CallErr` give the bus's answer to the worker,
and `Crash` drops the worker's call at any of its awaits. Handlers are
registered while calls run.

**SagaRunner.** `handle` loads, reacts, saves with the loaded version and
enqueues, and starts again on a conflict. `run_due_timeouts` claims, runs
`on_timeout` for one claimed instance after the other, and stops at its first
conflict or error. A saga's state is the set of causes folded into it.

**AggregateStore.** A client owns an aggregate with a version, a state (a set of
events) and pending events. `mode` says how it saves. `lock` is the mutex of
`InMemoryUnitOfWork`. `commit` writes the aggregate and then row by row, so
other clients run in between. `Drop` is a caller that gives up where a call can be
pending: for the lock, in the bus or in the outbox. `save_in_tx`,
`insert_outbox_in_tx` and `commit` of the in-memory store never wait, so no call is
dropped there.

**EventSourcing.** The state of an aggregate is the sequence of events applied.
`FindSnapshot` and `FindTail` are the two loads of `find_by_id`, `Save` and
`SaveSnapshot` the two writes of `save`; a snapshot store error is swallowed.

**RealtimeHub.** One room in full. `StampAndRetain` is under the room's lock,
`Send` outside it. `Arrive`, `Register`, `Resume` are the three steps of
`subscribe_since`. `Leave` and `Collect` are the two lock sections of
`RoomGuard::drop`. The byte limit may evict any number of the oldest messages.
`After` is the filter of the backlog, written as the end of a sequence in version
order; `MCRealtimeHub` has TLC compare the two on all short backlogs.
Of the other rooms the module counts those in the map and those whose
subscriber has passed the ceiling test; the map's `len()` is read at one instant.

**WsConnection.** `pc` is the await the connection's task is in. `Authenticate`,
`Authorize`, `Subscribe` are the upgrade; `TakeOutbound`, `TakeFrame`,
`RevalidateTick`, `HeartbeatTick` the four branches of `select!`; `SendOk`,
`SendErr`, `SendTimeout` the outcomes of `send_bounded`. The environment sends
frames, fills the room, withdraws rights, and may go mute or stall. A `prompt`
connection is one whose calls take no time; the others may take any time the
code allows them.

**Tenancy.** A task is a stack of frames, one for each scope it is in. `Admit` is
the call of `elevated` or `impersonating`, which decides and audits; `Await`
opens the scope, in whatever task awaits the future. `Produce`, `Damage`,
`Consume` carry the tenant header; `StartPass` and `Finish` are
`for_each_tenant`, whose source may fail to list the tenants. `Touch` is a query that the row filter lets through.

**OrderService, Dispatch.** A request waits for a permit, is called, loads,
saves, publishes and answers; `Timeout` drops it at any of these awaits but the
first. `Dispatch` holds what `derive(Command)` generates for validation and when a
command reaches its handler; `Status` the answer to each error. `checked` is a build with
overflow checks; without them amounts wrap, as `u64` does.

**Wire.** Release n of a service writes version n, reads into its own type of
version n and registers the upcasters below n, all but the `forgotten` ones.
`Versioned` and `Protobuf` are the two decoders: the loop that upcasts until no
upcaster is found (`StopsAt`), the check after it (`Refused`), and the
deserialization into the release's type, which a strict type refuses at any other
version and a `lenient` one does not (`Fits`). A payload may have data that the
upcasters refuse, or be no envelope of the codec. `Deploy` may happen between any
two deliveries.

**Money** computes in `-HalfRange .. HalfRange - 1`, the analogue of `i128`, with
every checked operation failing where the code's does. **ServiceLibrary** puts it
beside the order service.

## 4. The runs

| Run | Instance | Checks |
|---|---|---|
| `outbox_shared` | 2 dispatchers, 2 messages of a key, 1 shard, lease 2, 2 attempts, 1 fault | `BudgetSpent`, `LeaseExclusive`, `DuplicatesBounded` |
| `outbox_single` | 1 dispatcher with 2 lanes, 1 sweep, 3 messages (2 of a key) in 2 shards, lease 1, transient and poison failures, 1 fault, fair | `ImplementsDelivery`, `OvertakenOnlyInRetry`, `EventuallySettled` |
| `consumer_bus` | 2 workers, 1 message published twice, 2 attempts, a stale bound of 1, 1 fault; a retried and parked handler and one that cascades 2 commands; 2 deployments, 3 setups of the bus, fair | `NothingLost`, `HandledOnce`, `EveryHandlerReached`, `RetryBounded`, `EventuallySettled` |
| `saga` | 2 handlers, 2 sweeps, 2 sagas, 2 events, 3 deliveries, lease 1, 3 deployments, fair | `OneValidClaim`, `CommandOnce`, `FoldedForGood`, `EventuallyTimedOut` |
| `store_saves` | 2 clients, 2 events each, 2 versions, 2 upsets; all clients with the unit of work, or one inline and one enqueueing | `VersionHonest`, `NoLostUpdate`, `NoEventLost`, `DeliveredOnceInOrder` |
| `sourcing_history` | 2 clients, 3 events, a snapshot every 2, 1 fault, 1 deletion, 1 reuse | `HistoryOnce`, `FindIsReplay` |
| `hub_resume` | 2 clients, 2 publishers, 3 publishes, capacity 2, backlog 2, byte limit, 2 creations, ceiling 1, 1 other subscriber | `RoomHeld`, `RoomsBounded`, `ResumeLossless` |
| `ws_connection` | heartbeat 2, timeout 3, revalidation 3, I/O 1, one frame a second of 2 ticks, replays of 2, fair | `ReapedInTime`, `FramesAdmitted`, `DeadReaped` |
| `tenancy` | 2 tasks, 2 tenants, 2 purposes, 3 nested scopes, 1 message, 1 request | `CrossingOnRecord`, `TenantFollowsCause`, `PassComplete` |
| `order_service` | 1 order, 4 requests, 2 permits, amounts that overflow at 2 cents; 5-bit money in 2 currencies, up to 5 parts; fair | `TruthfulAnswer`, `ConfirmedTotal`, `EveryoneAnswered`; `MoneyExact` |
| `wire` | 2 services, releases 0 to 2, 3 events, versions of 2 bits, any upcasters forgotten, either codec, strict or lenient types, fair | `DecodedCurrent`, `FlowTraced`, `EventuallyDecoded` |
| `hub_recreated` | as `hub_resume`, smaller | refutes `ReplayedIsComplete` |

Each property is stated in words where it is defined.

`hub_recreated` shows where the code does not do what its documentation says. A
client resumes in a room that was collected and created again by somebody else.
Its old version is compared with the new room's numbers, and it is told
`Replayed`, although messages it never saw are gone.

**Why these bounds.** Every hazard needs two actors and one or two mishaps: a
claim and a claim of the same row, a lease that ends in mid-run, a retry (two
attempts) and a last attempt, a fault and the recovery from it. Two messages of
one key in two shards, with one beside them in a lane of its own, let a scan miss a
row, a lane stop, and a message be overtaken. It takes three messages of a key for
one to be left claimed behind a failed one and be overtaken itself; that case, like
overlapping sweeps and scans of several dispatchers, is left to the theorems of
section 7. Two stored versions allow a
stale client to meet a version that was reverted and one that was passed. Three
publishes with a backlog of two reach the edge of what is retained from both
sides. Two creations of a room suffice for a stale collector and for a stale
client. Three releases make a chain of two upcasters with a hole in it. Three
nested scopes hold a visit inside an elevation inside a request. Two permits
and four requests let requests wait for ones that hang. All actions fire in
the runs.

**Symmetry** is used only in runs without liveness properties (`outbox_shared`,
`store_saves`, `sourcing_history`, `hub_resume`, `tenancy`), over sets of
dispatchers, clients, publishers or tasks the specification does not tell apart;
`MCModes` is closed under permuting clients.

**Fairness.**
- `Outbox`: dispatchers and sweeps run from background loops, each weakly fair
  as a whole; nothing is assumed of a single message or of the broker.
- `ConsumerBus`: each poll loop goes on, through the calls of the bus it makes;
  nothing is assumed of what handlers answer, nor that handlers get registered.
- `SagaRunner`: handlers and sweeps go on once called, and sweeps are called
  periodically, as `run_due_timeouts` asks. `EventuallyTimedOut` is about
  deployments whose sweeps end within their lease, since two sweeps that always
  outlive it can take each other's claims for ever.
- `WsConnection`: the task is scheduled and the authenticator answers (weak
  fairness of the pump); `select!` polls its branches in random order, so the
  heartbeat, the revalidation and the room are taken when they are ready again
  and again (strong fairness of these three branches).
- `OrderService`: the semaphore wakes its waiters and timers fire. Repositories
  and event handlers may hang for ever.
- `Wire`: rollouts are completed, and a topic delivers until an event is decoded.
- Time passes in every module that has a clock.

## 5. What the conditions in the properties stand for

Some guarantees hold only under a condition, and the condition is real. Dropping
it gives a counterexample.

- `overrun = 0` in `Outbox` and `slow = 0` in `Delivery`. `schedule_retry` and the
  marks write whoever holds the lease, so a run that outlived its lease shortens
  the lease of the next one and turns a failed row into a published one.
  `BudgetSpent` needs no such condition.
- `faults = 0`, `missed` and a failed attempt in `OvertakenOnlyInRetry`: the three
  ways in which a later message of a key is sent first, see section 6. The theorem
  is for one dispatcher; two that each claim a part of a key do not keep its order.
- `prompt` and `~mayFail` in `HandledOnce`. A slow handler's `mark_failed` may
  overwrite a record its successor completed, and a failed record is not claimed.
- `deletes = 0` in `AggregateStore`. A deletion forgets the version, so a client
  with an old copy passes the check once the numbers meet. Modes are not mixed
  between `"Outbox"` and the others: `Repository::save` does not take the
  transaction lock and can be overwritten by a commit. A store that waits after
  `save_in_tx` would let a dropped call leave its version ahead of the store; the
  repository has none.
- `Orderly` in `EventSourcing`. A deleted stream leaves its snapshot behind, and
  an aggregate used on after a failed save carries events that are not stored.
- `gen <= 1` and `overtaken = 0` in `ResumeLossless`: the room was not created
  again, and sends kept the order of the stamps.
- `"Fail" \notin deployed.fresh` in `CommandOnce`: a saga that fails before it
  starts stores nothing, so that a redelivery enqueues its commands again. Its
  second half has `faults = 0`: a crash between the save and the enqueue loses
  the commands, as `apply_transition` documents.
- `prompt` in `ReapedInTime`: each bounded send or handler may take its whole
  timeout before the heartbeat is looked at. `DeadReaped` is what remains for
  slow connections: they are closed in the end.
- `registered # {}` and `lenient` in `DecodedCurrent`: a release that registers no
  upcaster for a type takes every version as it is, and one whose newest upcaster
  is missing takes an older shape, if its type deserializes from it.
- `forgotten = {}` and the flaws in `EventuallyDecoded`. It also rests on a topic that
  delivers without limit: behind `process_idempotent_with_retry` an event that an
  older release refuses is dead-lettered after its attempts.
- 408 and 500 in `TruthfulAnswer`: a request that timed out or whose event failed
  may have saved its order. In `EveryoneAnswered` a request whose handler panics has
  ended, although no response is sent.

## 6. Behaviours to know

Found while modelling, by counterexamples to what a comment or a guide says.
Only the first is kept as a run (`hub_recreated`).

- A client that resumes in a room that was collected and created again is told
  `Replayed` (`pharos-realtime/src/memory.rs:426`; `hub.rs:256`).
- A lane stops at its failed message, but only that message waits for the
  backoff. The later messages of the key wait for the end of the lane's lease,
  and when that is sooner, the next run publishes them first
  (`pharos-messaging/src/outbox_dispatcher.rs:250`; lines 30-32 promise order per
  key). `OvertakenOnlyInRetry` is the order that is kept. The messages behind a
  failed one may also pass each other, since those the lane left claimed wait for
  their lease and one stored later does not; it takes three messages of a key.
- A scan of the table reads shard after shard. Two messages of a key that are
  inserted while it runs can be found the later one without the earlier, when the
  earlier one's shard was read before; the later is then published first, with no
  failure at all (`pharos-memory/src/in_memory_outbox.rs:82`).
- With a payload type that deserializes from older shapes, a release whose newest
  upcaster is missing hands an older shape to its handler; the check after the loop
  compares with the newest registered version, not with the type's own
  (`pharos-app/src/upcast.rs:235`).
- `begin_processing` answers `RetryPreviousFailure` for a failed record without
  claiming it, so two consumers with a copy each start on it
  (`pharos-memory/src/in_memory_inbox.rs:80`; `docs/guide/production.md:86`).
- The event-sourced `save` drains before `append` and does not put the events
  back when `append` is refused (`pharos-es/src/lib.rs:218`; a failed save
  "never discards events", `pharos-app/src/service.rs:32`).
- Subscribers to new rooms can all pass the ceiling test before any inserts its
  room (`pharos-realtime/src/memory.rs:257`). `RoomsBounded` is the bound that
  is left.
- The order example's `Money::mul` and `add` overflow: a build with overflow
  checks panics, one without wraps and confirms an order with too small a total
  (`examples/order/src/domain/value_objects.rs:55`).
- Its timeout does not run while a request waits for a permit
  (`examples/order/src/web/mod.rs:56`), since tower's clock starts in `call`.

## 7. What is proved

For every value of the constants that satisfies the `ASSUME`s of the modules:
any number of messages, keys, dispatchers, sweeps, workers, handlers, sagas,
clients and rooms, any retry policy, lease and fault bound. The proofs are by
inductive invariants; each invariant below is also what one has to know of the
code to see why the property holds. Where a theorem is about a sum or a chain of any
length, the induction is made by the least counterexample: a nonempty set of
naturals has a least element (`Least`, from the library's well-foundedness of `<`).

`OutboxProofs`, about `Outbox`, for any number of shards:

- `TypeCorrect`: `Spec => []TypeOK`. `TypeOK` is inductive: besides types it says
  that only started messages are past their first stage, that started messages
  are claimed, and that no lane starts before pass 2 is done.
- `NoMessageDropped`: `Spec => []NothingDropped`. `DroppedInv` adds that a message
  at `MarkPublished` has been accepted by the broker, and that a sweep about to
  mark a row has parked it.
- `NoEarlyGiveUp`: `Spec => []BudgetSpent`. The decision uses the attempts of a
  claimed copy. `BudgetInv` adds that a copy never counts more attempts than the
  row, that past `Record` the row counts at least one more than the copy, and
  that a message at `MarkFailed`, like a row in a sweep's batch, has its budget
  spent.
- `ClaimsAreExclusive`: `Spec => []LeaseExclusive`. `LeaseInv` relates the two
  clocks: while no run has outlived its leases, a claimed row that is not yet
  released waits exactly as long as its run's lease lasts, so that it is not due
  for anybody else.
- `OrderKeptUntilFailure`: for one dispatcher, `Spec => []OvertakenOnlyInRetry`.
  `AttemptInv` says that every recorded attempt was accepted, is under way or has
  failed; `OrderInv` that a message that was not sent, and before which nothing of
  its key has failed, is claimed or free to be, and that everything later of its
  key is behind it in the run: picked, claimed and started only together with it.
  `ReachedInv` says the same of a scan under way: unless the message was inserted
  behind it, the scan has found it or has its shard still to read. The attempt to
  prove the property as first stated (the overtaken message itself has failed)
  showed that it is false from three messages of a key on.
- `OutboxImplementsDelivery`, for a lease above 0: `Spec => ImplementsDelivery`, the refinement. Of the
  invariants, `RowsInv` says that claimed rows are still pending and swept ones
  failed while runs are prompt, `LaneInv` that a lane has one head, and `SentInv`
  that whatever the broker has of a message whose run does not know so is owed
  to a fault. The step lemma `DeliveryStep` has one case per action.
- `DuplicatesAreBounded`, for a lease above 0: `Spec => []DuplicatesBounded`, from
  `SentInv`.

`SagaProofs`, about `SagaRunner`:

- `OneSweepSaves`: `Spec => []OneValidClaim`; `SagaUpdatesKept`: `Spec =>
  FoldedForGood` (an action property); `SagaCommandOnce`: `Spec => []CommandOnce`.
  All three rest on `CopyInv`: a loaded or claimed copy is no newer than the
  stored instance, and while the versions agree it is the same. A save accepted
  for such a copy extends what is stored (`SaveExtends`). `OnceInv` adds that an
  event whose command is on the outbox, or about to be, is folded in or its saga
  has failed, and that one process at most is about to enqueue it; `FollowInv` is
  the converse without faults.

`HubProofs`, about `RealtimeHub`:

- `RoomsAreHeld`: `Spec => []RoomHeld`. Inductive with types; the counting steps
  use the library's facts on cardinality.
- `CeilingHolds`: `Spec => []RoomsBounded`. `CeilingInv` counts a room from the
  moment its subscriber passes the test.
- `ResumesAreLossless`: `Spec => []ResumeLossless`. `StreamInv` gives every message
  its place: for some `off` and `k`, call `off + v` of `publish` has version `v`, the
  versions up to `k` are sent and each later one is with one publisher, the
  backlog ends with the last version stamped and a receiver with `k` (`Flow`); and
  what a live client is owed is either no later than the end of its replay or
  later than what its receiver has dropped (`Fed`). `MissedLine` is the reason
  why `Replayed` is true: a backlog that begins no later than one after the
  client's version holds exactly the versions stamped since.

`ConsumerProofs`, about the composition `ConsumerBus`:

- `NoMessageLost`: `SpecBus => []NothingLost`. `DoneInv` says that a record is
  completed, or about to be, only for a message that took effect. Every step of
  the composition is a step of `IdempotentConsumer` (`BusStepsAreSteps`), so the
  invariant is carried over from there.
- `DependableHandledOnce`: for a stale bound above 0, `SpecBus => []HandledOnce`.
  `HoldInv` says that the record of a worker at work is `processing`, not stale,
  and nobody else's; `EffectInv` that a message has taken effect no more often
  than there were faults, plus once if its record is completed or about to be.
- `RetriesBounded`: `SpecBus => []RetryBounded`. The part about the consumer counts
  over the whole life of a message, which no variable keeps copy by copy. `LedgerInv`
  says that there is always an account (`Book`) with an entry for every published
  copy, that a copy in flight has spent at most the attempts it shows, and that all
  that was spent is on the account or owed to a fault; every step keeps one.
- `HandlersReached`: `SpecBus => []EveryHandlerReached`; `BusRetriesBounded`:
  `SpecBus => []BusRetryBounded`, the conjunct of `RetryBounded` about the bus.
  `CallInv` says of every call under way which handlers of its list it has
  reached, how each of them ended, and that its tries are within the budget.

`StoreProofs`, about `AggregateStore`. All but `EventsKept` assume that either all
clients use the unit of work or none does, see section 5:

- `VersionsAreHonest`: `Spec => []VersionHonest`; `NoUpdateLost`: `Spec =>
  NoLostUpdate` (an action property). `LockInv` says that one client at most is
  between `begin` and the end of `commit`, and `CommitInv` that one about to commit
  is one version above the store, so the check made earlier still holds.
- `EventsKept`: `Spec => []NoEventLost`; `EventsDeliveredOnce`: `Spec =>
  []DeliveredOnceInOrder`. The proofs follow one sequence per client, what it has
  still to deliver, wherever the save under way keeps it (`Todo`). `EventStep`
  shows that a step keeps it, takes its first event, adds one at its end, or lets
  go of it.

`EventProofs`, about `EventSourcing`:

- `HistoryHoldsOnce`: `Spec => []HistoryOnce`. `OnceInv`: events are numbered as they
  are raised, and pending ones are drained before the append.
- `FindReplaysAll`: `Spec => FindIsReplay` (an action property). `ReplayInv`: the
  snapshot is a prefix of the stream, and an aggregate in use one followed by its
  pending events.

and about `Wire`, instantiated as `W`:

- `WireDecodedCurrent`: `W!Spec => []W!DecodedCurrent`. What decode returns is at the
  first version without an upcaster, and only the one above the last upcaster
  passes the check (`Current`); `CopiesInv` says that what travels is what was
  created.
- `WireFlowTraced`: `W!Spec => []W!FlowTraced`. `LinkInv`: an event's cause is an
  earlier event, whose correlation it took over; the rest is induction on the place
  of the event.

`EdgeProofs`, about `Tenancy`:

- `CrossingsAreOnRecord`, `TenantsFollowCauses`, `PassesAreComplete`: `Spec =>` always
  `CrossingOnRecord`, `TenantFollowsCause`, `PassComplete`. `ScopeInv` says of every
  frame on a stack, every future of an elevation and every message where its
  tenant and its elevation came from. An action answers for one new frame only.

and about `WsConnection`, instantiated as `Ws`:

- `WsReapedInTime`: `Ws!Spec => []Ws!ReapedInTime`. `SilentInv` and `BarredInv` relate
  the timers of the loop to the true silence and to the time since the rights were
  lost: together with the time to the next tick they stay within one period.
- `WsFramesAdmitted`: `Ws!Spec => []Ws!FramesAdmitted`. A bound on the admitted frames
  alone is not inductive; `BucketInv` adds the tokens left to the sum of every window.

`ServiceProofs`, about `OrderService` and `Money`:

- `OrderTruthfulAnswer`: `Spec => []TruthfulAnswer`. `CopyInv`: what a request loaded is
  no newer than what is stored, and the same while the versions agree. `WriteInv` and
  `ToldInv`: how far a request has come says whether it wrote, and what, and whether
  the event of that write was handled.
- `OrderConfirmedTotal`: `Spec => []ConfirmedTotal`. `HistoryInv`: each version of an
  order is one entry of its history, and a confirmation is the last. That the loop
  over `u64` gives the sum up to `MaxCents`, and less past it, is by induction on the
  items.
- `ServiceMoneyExact`: `Conserved` and `MoneyExact`, for amounts of any width. The
  partial sums of the shares stay between 0 and the total, and the extra units of the
  first shares are exactly what the division leaves.

## 8. What is only model-checked

Liveness under fairness is out of the prover's reach: `EventuallySettled` (of the
outbox and of the consumer), `EventuallyTimedOut`, `DeadReaped`, `EveryoneAnswered`,
`EventuallyDecoded`. Every safety property of the passing runs is proved.

## 9. Not modelled

- Payloads, error texts, metrics, tracing spans and message enrichment other
  than the tenant header. `OutboxSignal` only shortens the wait between two runs.
  `insert_many` is one step in `SagaRunner`, as its database versions are.
- `delay_for`: a backoff is any number of ticks of a given set. It is
  floating-point arithmetic.
- HTTP metrics, profiles and telemetry setup: counters, layers and exporter
  wiring that no decision of the modelled parts reads.
- The trace header and its middleware; consumer groups and the schema registry:
  single operations on one map, which no modelled part uses.
- The string form of money.
- Value objects, error classes and secrets; the query side; roles and the tower
  service: types, traits and macros without behaviour over time. `Dispatch` covers
  what the same macros do for commands.
- The contract test kit, the facade crate, the benchmarks and the small examples:
  tests and programs that combine the parts above.
- PostgreSQL, Kafka and Redis adapters are not in this repository's sources; what
  the modelled code relies on is marked external in the map.
