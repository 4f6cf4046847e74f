# A TLA+ verification of php-rabbit-rs

This directory specifies php-rabbit-rs: the concurrent core
(`crates/rabbit-rs-core`), the parts of the PHP extension that have threads and
state of their own (`crates/rabbit-rs-php`), and the worker supervisor of the
Laravel package. TLC model-checks the specifications on small instances. TLAPS
proves the publisher's safety properties for every instance.

Paths below are relative to the repository root; `core/` stands for
`crates/rabbit-rs-core/src/`, `php/` for `crates/rabbit-rs-php/src/classes/` and
`laravel/` for `packages/laravel-queue/src/`.

## The system

A PHP process (an FPM or Octane worker, a Laravel queue worker) loads the
extension. It hands publications to, and takes deliveries from, a Rust core that
runs on one Tokio runtime per process. `rabbit-rs:work` supervises a fleet of
such processes.

| Part | Code | Module |
|---|---|---|
| Publisher actor: owns accepted publications until their outcome | `core/publisher/actor.rs`, `mod.rs` | `Publisher`, `PublishContract` |
| Connection actor: the one connection of a broker | `core/pool/connection_actor.rs` | `ConnectionActor` |
| Recovery coordinator: restores publisher, topology and consumers on each new connection | `core/pool/recovery_coordinator.rs`, `core/topology/reconciler.rs` | `RecoveryCoordinator` |
| Consumer set: buffering, dispatch, acks, poison, delayed release | `core/consumer/actor.rs`, `set.rs`, `delivery.rs` | `ConsumerActor` |
| Scheduler: weighted choice of a subscription | `core/consumer/scheduler.rs` | `Scheduler` |
| Composite consumer: the sets of several brokers as one | `core/consumer/composite.rs` | `CompositeConsumer` |
| Client pool: publishers, coordinators and consumers on demand | `core/client.rs` | `ClientPool` |
| Runtime registry, claims: one handle per fingerprint; eviction, fork | `core/runtime.rs`, `core/pool/mod.rs` | `RuntimeRegistry` |
| PHP objects: `Pool` and `Consumer` | `php/pool.rs`, `php/consumer.rs` | `PhpProcess` |
| Publish buffer: batches, flush timer, pipelined drains, teardown | `php/publish_buffer.rs` | `PublishBuffer` |
| Blind-mode pump: publishing without outcomes | `core/publisher/pump.rs` | `PublishPump` |
| Topology plan, delay strategies, attempts | `core/topology/plan.rs`, `delay.rs`, `core/publisher/delay.rs`, `core/consumer/attempts.rs` | `TopologyPlan`, `DelayedDelivery` |
| Worker supervisor | `laravel/Console/WorkerSupervisor.php`, `WorkScalePolicy.php`, `laravel/Support/QueueDepthSampler.php` | `WorkerSupervisor` |

How they interact: the connection actor publishes its state on a watch channel,
which the coordinator observes. On `Ready` the coordinator opens a publisher
channel, reconciles the topology, lets the publisher adopt the channel, and
re-establishes the requested consumer profiles; a failed step is reported back
as a loss. `consumer()` calls establish profiles on demand beside it, under the
same locks. A profile that spans several brokers is a composite of their sets,
cached by the client pool, and replaced by its user when a source is retired.
Publications of PHP collect in the publish buffer and go, batch by batch, to the
publisher actor or, in blind mode, to the pump.

Compositions: `RecoveryCoordinator` extends `ConnectionActor`; `ConsumerActor`
uses `Scheduler`; `PublishPipeline` puts `PublishBuffer` over `PublishPump`;
`PhpProcess` puts PHP objects over `ClientPool`, `RuntimeRegistry` and
`CompositeConsumer`; `DelayedDelivery` runs `TopologyPlan` against a broker.
Between these, a component is seen by its neighbour through its handle: the
buffer sees the publisher as an environment that answers a batch, the client
pool sees a coordinator as a phase, a generation and a set.

`PROJECT.json` lists every part with its status, and the hazards of the code,
each at the line where it bites. The `MC*` modules give the constants their
values for TLC. Most modules have a frozen variable (`setup`, `scenario`, `env`,
`config`) that `Init` picks from a set of configurations: one run then covers
several policies and several kinds of trouble, each with bounds of its own.

Definitions marked "Mutant" are wrong versions of the definition after them. No
specification uses them; they record which error each property detects.

## Modules

### Publisher

A publication is a model value with a size. Its deadline is abstracted to
whether it has lapsed, and the futures of the transport to the channel and the
fate of the frame of its current attempt. The state follows `ActorState`:
`phase`, `generation`, `channel`, `replay`, `publishing` (write futures), the
confirmation `ledger` and `sequence`; `retained` holds the fields of each
`RetainedPublish`.

- `pc` is the place in `run_actor`. Each arm of its `select!` is an action.
  `publish_queue` awaits inside its loop, so its iterations are actions of
  their own (`DrainExpired`, `DrainDeclare`, `DrainUnroutable`,
  `DrainAttempt`, `PollReady`, `PollPending`, `DrainDone`), and so are the
  phases of `quiesce_and_close`.
- `Admit` and `SendPublish` are the two halves of `try_publish`, which other
  callers may interleave. A refusal for lack of budget changes nothing. Bytes and
  permit are reserved in one step: no other caller acts on the bytes in between.
- `suspend`, `expire_replay`, `fail_all`, `accept_publish` and
  `handle_publish_completion` are operators with the names of the code.
- `ConnectionEvent` delivers the events of `ConnEvents` once each, in any order.
  `Recovering(0)` is `connection_lost`.
- External actions: `WriteFrame`, `BrokerVerdict`, `ChannelDown`, `Lapse`.

The branch of `publish_queue` for a missing channel cannot be reached while the
phase is `Ready` and is left out. So are metrics and the outcomes that belong to
blind mode. A deadline may pass at any step. One `Close` is queued at a time.

### ConnectionActor and RecoveryCoordinator

`phase` is the `Phase` of the code, with `Closing` for the await in
`close_connection` and `Stopped` for the ended task. A connection has a `serial`
apart from the `generation` the code counts, so that the model can tell a
channel of a connection from the tag somebody put on it. A channel is the serial
of its connection. Opening one for publishing, consuming or administration is
the same request, because the actor treats them alike.

`pc` is the place in `run_coordinator` and `recover_generation`. `est[t]` is the
place of task `t` in `establish_requested_profile`, which the coordinator and
the callers both run. `establish_lock` and `reconciler` are the two Tokio
mutexes, with their holder. `declared` is a history variable.
The publisher is abstracted to the phase, generation and channel that
`Publisher` shows; a consumer set to its tag, its connection and whether it is
closed.

Simplifications:

- One channel per profile. The delayed publisher a set is given, and that it has
  none before the first adoption, is left out (`DelayedDelivery` starts after it).
  Closing the replaced set under the map's lock is part of `SpawnSet`. One reconcile under its lock is one step.
- The plan is that of declare mode; in verify mode extras are not in it.
- `changed()` and `borrow()` are one step. Hence the arm that skips a generation
  already recovered never runs, and neither do the arms that ignore `Start`.
- The capacity of the command queue (32), the attempt counter, the backoff delay
  and the blocked flag are left out. A keep-alive tick is one redeclare
  (`DelayedDelivery` models what it keeps alive).
- A caller whose acquisition deadline passed comes back once its queued open
  request was served.
- A recoverable failure of a step comes with the loss of its connection, unless
  `ChannelFaults` lets a channel fail alone.
- A backoff may end at any time. Under `Timely` it ends before its loss was dealt
  with at most `MaxEarly` times; `early` counts them. The code's backoff is a
  timer of its own, and unlimited early ends would let a loss outrun every
  recovery for ever.

### ConsumerActor and Scheduler

A delivery is a subscription and its tag, and a subscription has one channel.
The actor's `select!` is biased, so its arms are actions with the guards of the
arms before them. `state[s]` holds what the code keeps per channel: ledger,
recorded acks, the settlement in flight, bytes, tokens and errors. The embedder
pops from the hand-off flume and settles from another thread, in any order,
within the contract of the API: it settles what it was given, once, and a
settle-through names a delivery it holds.

- The bookkeeping of a completion and the dispatch it triggers commute and are
  one step. `GetPrefetchStats` is a read. The oversized check in `drain_pending`
  cannot be reached after admission. The error channel is a history of errors.
- The copy of a delayed release is confirmed when it is stored. A publisher without
  confirms (`Confirms` false) answers after the write, so the copy may be lost.
- `ended` is a history variable: the sources whose pump ended, in order.
- The prefetch controller is a resize at any time. `next` is only called with an
  empty stash, as PHP calls `try_next` first.
- `Scheduler` has the credits and the cursor as operators, for any ready set.

### CompositeConsumer, ClientPool, RuntimeRegistry, PhpProcess

A thread holds one `Pool` object and any number of `Consumer` objects, which
outlive it. `call[t]` is the place of thread `t` in the client's code, one step
per lock region or await. A coordinator is abstracted to its handle. There is one
profile, on every broker, and publishers are those of the first broker. The
start of the composite's rotation is left open. `CollectSet` takes the closed
check and the coordinator's answer in one step: a set that comes late is closed
when it is dropped. The model follows a fork into the
child. The budget that cuts the closing of an evicted client short is left out.

### PublishBuffer, PublishPump, PublishPipeline

PHP runs one operation at a time, in the steps its locks and waits give it;
drains and the timer run beside it. `publishBatch` ends in the same flush as
`flush`. The swap, spawn and push of `ensure_flush_timer` are one step. A drain
takes two steps to read `tearing_down` and to re-buffer. `MaxStalls` bounds the
waits that run out of their budget. `passed` is a history variable: the
publications of the drains between those two steps when the destructor sets the
flag.

### TopologyPlan and DelayedDelivery

`TopologyPlan` computes plans, routes, buckets and attempts as the code does;
names are kept apart by what they are made of, so the hash in a queue name is
injective. A configuration has the queues of its profiles (`subs`) and those of
profiles synthesized at run time (`extras`). The second join the plan in declare
mode when they are requested, and their publish route is not kept alive, as in
the code. An exchange is there when something is bound to it. A publish is
mandatory in safe mode only. `DelayedDelivery` adds a broker with TTLs, queue
expiry and dead-lettering, and discrete time. A TTL may be late but not early. One outage
falls between two successful keep-alive ticks, as long as the expiry margin
covers: a longer one misses two ticks in a row, and a bucket queue expires with
what it holds. The order in which `clear_route` purges buckets is open.

### WorkerSupervisor

One pass of the loop is one unit of time, and every delay is what is left of it
in passes. `pc` is the stage of `runOneShot` or `runSupervised`; the poll of each
slot and `settleEntry` of each connection are steps, and so is a scaling pass,
which samples all gauges at once. A gauge is read per queue and may fail per
queue; the depth of a connection is the sum of what was read, and unknown when
nothing was. `skipped` is a history variable: the queues that the reading which
ended a drain left out. Children, broker and prestop hook act between
any two steps. A child may ignore SIGTERM where the setup says so. A dead child's
job is requeued before two passes are over, less than the convergence window.
Whether a poll of that window is due is left open.

## Runs

All runs but `delayed_release` pass. Deadlock is checked in
`buffer` only; elsewhere the systems stop when they are closed or when the bounds
are used up.

| Run | Checks | Instance |
|---|---|---|
| `recovery` | `HeldOnce`, `AttemptsDistinct`, `OutcomeIsFinal`, `RearmedOnceWhileParked`, `ImplementsContract` | 2 publications with confirms, 2 channels, losses and stale, unrestored and good recoveries |
| `shutdown` | `BudgetBalanced`, `ParkedOnlyWhileSuspended` | 3 publications without confirms, one delayed and of size 2, 2 permits, 2 bytes; loss, permanent failure, close, dropped handles |
| `live` | `EveryPublishResolves` | 1 publication, loss, recovery, refusal, shutdown, with fairness |
| `coordinator_safety` | `FreshIsCurrent`, `DeclaredBeforeConsumed`, `ReplacesOnlyWhatItSaw` | environments `Racing` (a loss, channel failures, 1 caller), `Ending` (close, keep-alive), `Traffic` (1 connection, 2 callers, 2 profiles, admin, keep-alive, a slow connect) |
| `coordinator_live` | `Recovers`, `CallersReturn`, `CloseCompletes`, `FailureReachesPublisher` | `Failing`: a loss, refused connections and declares, close; `Hasty`: a backoff that ends early; with fairness |
| `consumer_safety` | `BytesAccounted`, `NoSettlementForgotten`, `RefusedOnlyPoison`, `ReleaseKeepsCopy`, `SettledAsAsked` | `Settle3`: 3 deliveries, every settlement, failing releases; `FlowOf(5)`: 2 weighted subscriptions, one with `early_ack`, a poison and an oversized delivery; `Overtaken`: a poison between others, in a window of 2; `Unconfirmed`: releases without confirms |
| `consumer_live` | `EverythingServed`, `SourceErrorSurfaces`, `CloseCompletes` | `EndingOf(n, lost)`: a window above the byte budget, a resize, a channel loss, close; `Lost`: both channels end; `FlowOf(3)` |
| `buffer` | `EveryPublicationAccounted`, `ReturnsReported`, `FlushIsBarrier`, `NothingStranded`, `PumpBudgetBalanced` | 3 publications, threshold 2, 3 bytes, 2 drains (1 permit), 2 pending errors; confirmed with a stall, and blind over a pump with queue and window 1 |
| `pool` | `RetirementSignalled`, `NothingOutlivesClose`, `OneCoordinatorPerBroker`, `InUseStaysOpen` | 2 threads, 2 fingerprints, 2 clients, `MAX_POOLS` 1; scenarios `Claims`, `Refetch`, `Polled`, `Other`, `Forked` |
| `delay` | `NoJobLost`, `NothingReturned`, `NeverEarly`, `AttemptsNeverFall`, `ClearSweepsBuckets` | 2 jobs, buckets 1 and 3, margin 4; 10 configurations of topology mode, strategy, subscription and clearing |
| `delayed_release` | `NoJobLost`, violated | see Findings |
| `supervisor` | `LeavesNothingBehind`, `ReleasesLand`, `Ends` | setups `Drain`, `Crashing`, `Blind` (a gauge that fails per queue), `Signalled`, `Managed`, `Scaled`, `Hooked`; 2 connections, one with 2 queues |

The properties, in words:

- Publisher. `HeldOnce`: an unresolved publication is in exactly one container, a
  resolved one in none. `BudgetBalanced`: permits and bytes are held by exactly
  the publications between admission and outcome. `AttemptsDistinct`: no two
  publications share a sequence key. `OutcomeIsFinal`: outcomes stand.
  `RearmedOnceWhileParked`: a deadline is re-armed once, and only in replay.
  `ParkedOnlyWhileSuspended`: whatever is parked has a timer. `ImplementsContract`:
  `Publisher` refines `PublishContract`. `EveryPublishResolves`.
- Coordinator. `FreshIsCurrent`: a set that `consumer()` takes for fresh is on
  the current connection. `DeclaredBeforeConsumed`: no set consumes from a queue
  its generation's topology did not hold. `ReplacesOnlyWhatItSaw`: the set that
  an attempt replaces is the one it found when it looked under the lock, so two
  attempts never establish past each other. It does not say that a profile is
  established once per generation, which a stale caller breaks (see Findings).
  `Recovers`: in the end the broker stays restored, failed for good or closed.
  Restored means that every requested profile has an open set on the live
  connection, whatever its tag, and that the publisher has adopted a channel there
  and is ready, or suspended itself over a future of the channel before it (see
  Findings). The others: calls return,
  `close()` ends, a permanent failure reaches the publisher.
- Consumer. `BytesAccounted`: `buffered_bytes` is what the set holds.
  `NoSettlementForgotten`: a settled delivery the broker still waits for is owed
  by a stage of the actor, or its failure was reported. `RefusedOnlyPoison`: no
  settlement names a tag the broker does not hold, except for a delivery given up
  as poison, whose detached reject can be overtaken. `ReleaseKeepsCopy`: with
  confirms, a delayed release never loses the message. `SettledAsAsked`: the
  broker's verdict is the embedder's, or that of a policy. The liveness
  properties: no circular wait among window, bytes, flume and batching; for every
  source that ends, its error or that of a source that ended later surfaces; close
  ends.
- Buffer. `EveryPublicationAccounted`: an accepted publication is in one place or
  counted once as dropped. `ReturnsReported`: a returned one is raised, queued or
  counted, but for the flush results the code ignores. `FlushIsBarrier` is stated
  for behaviours without stalls. `NothingStranded`: what is left in the buffer of
  a destroyed pool comes from drains that had read `tearing_down` before it was
  set, and that stalled past the teardown's wait (see Findings).
  `PumpBudgetBalanced`: the pump's bytes are those of its jobs.
- Pool. `RetirementSignalled`: a caller that keeps polling learns of every broker
  that was replaced. `NothingOutlivesClose`: what a closed client opened is
  closed, also what was being acquired. `OneCoordinatorPerBroker`.
  `InUseStaysOpen`: no eviction or sibling's close takes a pool from its user,
  but for a claim taken while the last one is being closed (see Findings).
- Delay. `NoJobLost`: the plan's bindings, the names and the keep-alive together
  keep every job routable. Exempt are the delayed exchange of a named route under
  the plugin, which `plan.rs` leaves to the operator, and publishes to a queue
  that no configured profile subscribes to; both are in the run. `NothingReturned`:
  with the same exemption, no publish finds its queue or delay queue gone, whether
  it would come back or vanish.
  `NeverEarly`, `AttemptsNeverFall`. `ClearSweepsBuckets`: a finished clear leaves
  no job deferred that was so when it began; a job that comes due during the clear
  is allowed to survive it.
- Supervisor. `LeavesNothingBehind`: no child outlives the command. Once mode, if
  it saw work or reports success with every child's exit collected, leaves no job
  of a connection whose re-arm budget is not spent, in a queue that its last
  reading covered. `ReleasesLand`: a child that ignores SIGTERM cannot hold up scaling. `Ends`: once mode, and a supervisor told
  to stop, return.

### Bounds

Two publications suffice for the races between two owners of a container, a
sequence number or a permit; a third makes permits, buffer or batch run out. Two
channels and two generations give a loss, a recovery and what is left of the
first generation during the second. Three deliveries give a cumulative ack with a
hole. In the consumer's flow of five, the window, the byte budget and the flume
of one entry fill in turn. Two threads give every race of two acquisitions, two
claims or an acquisition and a close; more than `MAX_POOLS` = 1 handle makes
eviction happen. In `live` no publication is delayed: `ensure_delay_topology` has
no time limit, and a declare that is never answered would hold its publication.
In `coordinator_live`, one early backoff merges a Recovering with the Ready after
it, or lets a report meet the next connection. In `consumer_live` the flume never
fills; in `consumer_safety` it does. In the blind setup of `buffer` every message
is routable, as blind mode asks for no returns. In `delay`, the outage is the
longest that the margin covers: with one unit more `NoJobLost` is violated. In
`supervisor`, two re-arms, two passes of escalation and of
convergence and a memo of two let each budget run out and each timer race a
death, and three crashes of one connection exhaust the re-arms. All jobs are those
of the fleet; another consumer's unacked jobs are not in the gauge. Bounds that
would multiply, such as crashes, signals and scaling at once, are in different
setups. Publications are a symmetry set where they are alike and
no liveness is checked.

### Fairness

- Publisher: the actor does not stop inside a handler (WF). `tokio::select!`
  polls its ready arms in random order, so an arm that is ready again and again
  is taken (SF). Deadlines pass (WF).
- Coordinator: tasks that can go on do (WF). The coordinator's loop, and callers
  waiting for a Tokio mutex, which is fair, get their turn (SF). A broker that
  refuses connections accepts one in the end (SF on `ConnectOk`); nothing
  recovers without that. `coordinator_live` assumes `Timely`, with one early
  backoff in `Hasty`, and that channels fail only with their connection. Under
  `Timely` no caller is cut off by its acquisition deadline, so `CallersReturn`
  does not rest on it; `coordinator_safety` has those deadlines.
- Consumer: the actor, its spawned rejects, the pumps and the broker's delivery go
  on (WF); the embedder keeps popping, and settles what it has popped (WF). The
  actor's `select!` is biased, so weak fairness of the whole step is all the code
  gives. A `next` whose wait ends with nothing times out, as its PHP caller asks.
- Supervisor: the loop runs, a child that can finish or exit does, and the broker
  requeues a dead child's job (WF). Crashes are bounded by the setup.

## Findings

`delayed_release`: on the driver's default topology a delayed release publishes
its copy for an exchange named like the queue (`core/pool/recovery_coordinator.rs:924`).
The TTL bucket dead-letters to that exchange, which no plan declares, after the
original was acknowledged, so the broker drops the job.
`packages/laravel-queue/docs/reference.md:1145` says it comes back to the main
queue through the connection exchange. The run's counterexample is the shortest
such behaviour.

The models also contain the following behaviours. Each is allowed by a model, is
excluded from a property where one would contradict it, and has no run of its own.

Publisher and recovery:

- `expire_replay` (`core/publisher/actor.rs:561`) gives a publication that lapsed
  while parked a new deadline, once. `docs/reference.md:134` says a reconnection
  never resets it; `docs/reference.md:37` describes the re-arm.
- A publication whose deadline lapses while its delay topology is declared is
  attempted (`core/publisher/actor.rs:784`, against the comment at 765).
- A `consumer()` call that read generation g and resumes after g+1 was established
  replaces the newer set by one tagged g, and the next call establishes g+1 again
  (`core/pool/recovery_coordinator.rs:869`, against 848-851: "never established
  twice for one generation").
- The watch channel keeps the latest state only, so the coordinator may see a Ready
  without the Recovering before it. The publisher then adopts the new channel with
  futures of the old one in flight. When one of those fails, the publisher suspends
  itself on a channel that works (`core/publisher/actor.rs:891`), nobody tells the
  coordinator, and publications wait for the next connection. The comment at
  `core/pool/recovery_coordinator.rs:775` is about a failed adoption, and wants to
  avoid "leaving the publisher suspended with its generation consumed".
- Commands handled during a connect attempt re-arm `CONNECT_TIMEOUT`
  (`core/pool/connection_actor.rs:297`, against the comment at 17).

Consumer:

- Close drops acks recorded but not yet batched out (`core/consumer/actor.rs:1577`).
- A hand-off that fails because the flume is full has charged the scheduler's
  credit (against `core/consumer/scheduler.rs:49`).
- The detached reject of a poison delivery can be overtaken by a cumulative ack
  (against `core/consumer/actor.rs:562`): the poison is acknowledged instead of
  dead-lettered, and the late reject is a channel error.
- In unsafe and blind mode the original of a delayed release is acknowledged when
  its copy was written, not when it was stored (`core/consumer/actor.rs:1921`,
  `core/publisher/actor.rs:879`); `core/config.rs:423` calls unsafe at-least-once.
- Overlapping settle-throughs release the bytes of a delivery twice (against
  `core/consumer/actor.rs:640`).
- After a poison delivery, buffered deliveries may wait for the next wake-up. The
  `pending_error` stash (`core/consumer/set.rs:658`) holds one error: when both
  channels end, the first may be overwritten and never surface.
- The ledger keeps entries for early-ack subscriptions, for commands that arrive
  after the close sweep, and below a hole of `ackThrough`.

Buffer:

- The timer of an earlier interval may flush early (`php/publish_buffer.rs:577`,
  against 570-572). After a failed drain re-buffers a batch no timer is armed.
- The flushes of overflow and of `close()` ignore the result
  (`php/pool.rs:726`): what they report as returned is not raised.
- With stalls, a drain detached by a budget can slip past a flush, or re-buffer
  into a torn-down buffer, where the batch is neither sent nor counted
  (`php/publish_buffer.rs:353`, against 725-730).

Pool:

- A composite built after one of two brokers recovered shares live sets with the
  one before it. Assigning over the old PHP object closes the shared sets, and
  `consumer_if_fresh` (`core/client.rs:377`) keeps serving the new composite, since
  `is_closed` (`core/consumer/composite.rs:132`) asks for all sources to be closed;
  `core/consumer/set.rs:500` says caches must never serve a closed set.
- `consumer_if_fresh` removes an entry without the lock it was read under, and can
  evict a newer composite.
- A second `close()` returns while the first still closes (`core/client.rs:978`).
  In a threaded build, a claim can be taken while the last one is being closed
  (`core/pool/mod.rs:109`).
- `nextBatch` drops the delivery it waited for when the drain after it fails. A
  timed-out acquisition drops, and so closes, the sets it had collected.

Delay:

- The publisher's cache of declared delay queues is never invalidated
  (`core/publisher/delay.rs:199`), so those of a queue without subscription, which
  no keep-alive refreshes, expire under it. The same holds for a queue that only a
  synthesized `__auto__` profile consumes: `keep_alive_destinations` takes publish
  routes from configured profiles only (`core/pool/recovery_coordinator.rs:715`),
  so its bucket expires with the job inside, and later publishes come back, or
  vanish when they are not mandatory.
- A delayed publish to a queue of a synthesized profile that was never requested
  is accepted by the bucket and dropped when it comes due.
- A queue listed twice with dead-lettering is declared twice with different
  arguments and refused for good.
- A job that comes due between the purge of the main queue and that of its bucket
  survives a clear. An immediate requeue after a delayed release does not raise
  the attempts.

Supervisor:

- A failed native probe that is memoized reads as unknown, is not probed afresh,
  and spends the re-arm budget within a few ticks. The connection is closed with
  work pending, against `laravel/Support/QueueDepthSampler.php:87`. A closed entry
  is nevertheless re-armed when its gauge falls later.
- The gauge is first read after the fleet is gone, so work that came and is back
  unseen is missed (`laravel/Console/WorkerSupervisor.php:556`). A clean exit is
  taken for a consumed job. `LeavesNothingBehind` is about work that was seen.
- The depth of a connection is the sum of its readable queues
  (`laravel/Support/QueueDepthSampler.php:116-131`). If one of two queues becomes
  unreadable the sum can be zero through the whole window, and the drain ends with
  work it had counted before, against lines 87-90 of that file ("cannot end
  the drain with work pending").
- A child that crashes between reap and settle has no exit status in the result:
  the command may report success over its job (`laravel/Console/WorkerSupervisor.php:673`
  says that a crashed child's status fails the command).
- Scaling up does not count children in crash backoff, so the fleet can exceed
  `max-workers`; scaling and restarts go on during a prestop drain; a hook killed
  before it clears its marker leaves the drain on.

## Proofs

The theorems are about the publisher. They hold for any finite set of
publications, any sizes, capacity and byte budget, any number of channels and any
set of connection events. They assume only `PublisherAssumption`, the types of
the constants with `Capacity >= 1` (the code takes `.max(1)`).

| Theorem | Statement |
|---|---|
| `Inductive` | `Spec => []IInv` |
| `TypeCorrect` | `Spec => []TypeOK` |
| `Conservation` | `Spec => []HeldOnce` |
| `SuccessIsStored` | `Spec => []ConfirmedIsStored` |
| `ReplayHasTimer` | `Spec => []ParkedOnlyWhileSuspended` |
| `FirstOutcomeStands` | `Spec => OutcomeIsFinal` |
| `GenerationsAdvance` | `Spec => GenerationMonotone` |
| `Refinement` | `Spec => ImplementsContract` |

`HeldOnce` is not inductive. A drain step preserves it only because the replay
queue is empty while a drain runs, and a suspension only because nothing is on
the wire afterwards; `ControlShape` states what the control state says about
the containers. The upper bound on the permits needs their exact count, and
`ConfirmedIsStored` needs that an acknowledgement on its way is for a stored
publication (`AckedIsStored`). `IInv` is the conjunction.

`PublisherLemmas` has the facts about lists without repetition, about resolving,
suspending and expiring, and the steps of the callers and the environment.
`PublisherProofs` has one lemma per action of the actor. `PublisherRefinement`
classifies the steps by what they do to outcomes (`StepKinds`) and maps each
kind to a step of the contract; it also needs that a frame still on the wire
belongs to an unresolved publication (`OnWireUnresolved`).

Only model-checked: the byte half of `BudgetBalanced`, which is a sum over a
set and needs induction; `AttemptsDistinct`; `RearmedOnceWhileParked`; every
liveness property, since fairness is outside the prover; every property of the
other modules. `TypeOK` and `GenerationMonotone` are proved and in no run.

## Not modelled

- Configuration parsing, value conversion, metrics, logging and console output:
  no protocol state.
- The lapin adapter and the broker: their effects are the external actions.
- The adaptive prefetch controller computes in floating point; a model has only
  what its resize does. The recovery policy is a delay with jitter; a retry may
  come at any time.
- `sweep_delay_queues`, an operator's command over the management API, the
  broker's `x-delivery-limit`, and the lag of the management API's gauges.
- The supervisor without ext-pcntl (`runInline`): a sequential loop over one
  child. The Laravel queue adapter: sequential calls whose effects are in
  `ConsumerActor`, `PublishBuffer` and `DelayedDelivery`.
- One model of everything: the parts meet at handles, and their product is beyond
  TLC. Each composition above covers one such meeting.

Next to prove: `DeclaredBeforeConsumed` of the coordinator, `PumpBudgetBalanced`
and `EveryPublicationAccounted` of the buffer, `InUseStaysOpen` of the registry,
`AttemptsDistinct` of the publisher.
