--------------------------- MODULE DelayedDelivery ---------------------------
(* Jobs published with a delay, consumed and released, on the topology of one
   configuration: the broker's queues, the TTL delay queues with their expiry,
   the publisher's cache of declared delay topology, the coordinator's
   keep-alive and Client::clear_route.  Time is discrete. *)
EXTENDS TopologyPlan

CONSTANTS Job, Configs

VARIABLES
  config,      \* the configuration; with it the inputs and bounds of a run
  phase,       \* the connection: "down", "ready" or "refused"
  requested,   \* the queues of the profiles that consumers were requested for
  outage,      \* 0, or one more than the time it was down since the last keep-alive
  topology,    \* the queues and bindings on the broker
  idle,        \* the delay queues on the broker, and how long each is unused
  declared,    \* the publisher's cache of declared delay queues and exchanges
  due,         \* time to the next keep-alive tick
  jobs,        \* where each job is, and what its message carries
  clearing     \* the delay queues clear_route still has to purge

vars == <<config, phase, requested, outage, topology, idle, declared, due, jobs, clearing>>

Unpublished == [at |-> "none", queue |-> "", destination |-> Destination(Default, ""),
                delay |-> 0, waited |-> 0, attempts |-> 0, application |-> 0, count |-> 0, marked |-> FALSE]

Longest == Max(config.buckets \union config.delays \union config.releases)

\* The delay queue a deferred job waits in.
Holds(job, queue) == job.at = "deferred" /\ queue = queue_for(config, job.destination, job.delay)

\* External: a message of a queue that the broker routes, dropped when unbound.
Routed(job, exchange, key, unbound) ==
  LET queues == Bound(topology, exchange, key)
  IN  IF queues = {} THEN [job EXCEPT !.at = unbound, !.waited = 0]
      ELSE [job EXCEPT !.at = "ready", !.queue = CHOOSE q \in queues : TRUE, !.waited = 0, !.count = 0]

Put(j, job) == jobs' = [jobs EXCEPT ![j] = job]

----------------------------------------------------------------------------
(* The publisher. *)

\* A publish that no queue takes: only a mandatory one comes back.
Unrouted == IF config.mandatory THEN "returned" ELSE "dropped"

\* ensure_delay_topology and route_transport_request: declare unless the cache
\* has the name, then publish, to nowhere if the delay queue is gone; the
\* plugin's exchange takes anything.
Deferred(job, destination, delay, returned) ==
  LET deferred == [job EXCEPT !.at = "deferred", !.destination = destination, !.delay = delay,
                              !.waited = 0, !.marked = FALSE]
  IN  IF config.delay = "plugin" THEN deferred
      ELSE LET queue == queue_for(config, destination, delay)
           IN  IF queue \notin declared \/ queue \in DOMAIN idle THEN deferred
               ELSE IF config.mandatory THEN returned ELSE [deferred EXCEPT !.at = "dropped"]

EnsureDelayTopology(destination, delay) ==
  IF config.delay = "plugin"
  THEN declared' = declared \union {delayed_exchange_name(destination.exchange)} /\ UNCHANGED idle
  ELSE LET queue == queue_for(config, destination, delay)
       IN  /\ declared' = declared \union {queue}
           /\ idle' = IF queue \in declared THEN idle ELSE [q \in DOMAIN idle \union {queue} |-> IF q = queue THEN 0 ELSE idle[q]]

Publish(j, queue, delay) ==
  LET destination == PublishDestination(config, queue)
      job == [jobs[j] EXCEPT !.queue = queue, !.destination = destination]
  IN
  /\ phase = "ready"
  /\ jobs[j].at = "none"
  /\ Cardinality({k \in Job : jobs[k].at # "none"}) < config.limit
  /\ IF delay = 0
     THEN /\ Put(j, Routed(job, destination.exchange, destination.key, Unrouted))
          /\ UNCHANGED <<idle, declared>>
     ELSE IF ~ Routable(config, delay)
     THEN Put(j, [job EXCEPT !.at = "invalid"]) /\ UNCHANGED <<idle, declared>>
     ELSE /\ Put(j, Deferred(job, destination, delay, [job EXCEPT !.at = "returned"]))
          /\ EnsureDelayTopology(destination, delay)
  /\ UNCHANGED <<config, phase, requested, outage, topology, due, clearing>>

----------------------------------------------------------------------------
(* The consumer. *)

\* The terminal settlement of a poison delivery: dead-lettered, or acknowledged.
Poisoned(job) ==
  LET dead == UNION {s.dead : s \in {r \in ToSet(topology.specs) : r.name = job.queue}}
  IN  IF config.dead_letter = <<>> THEN [job EXCEPT !.at = "discarded"]
      ELSE [job EXCEPT !.at = IF \E d \in dead : Bound(topology, d.exchange, d.key) # {} THEN "dead" ELSE "lost"]

Consume(j) ==
  LET attempts == resolve(config, jobs[j].count, jobs[j].application) IN
  /\ phase = "ready"
  /\ jobs[j].at = "ready"
  /\ jobs[j].queue \in requested
  /\ Put(j, IF AboveCap(config, attempts) THEN Poisoned(jobs[j])
            ELSE [jobs[j] EXCEPT !.at = "held", !.attempts = attempts])
  /\ UNCHANGED <<config, phase, requested, outage, topology, idle, declared, due, clearing>>

Ack(j) ==
  /\ phase = "ready"
  /\ jobs[j].at = "held"
  /\ Put(j, [jobs[j] EXCEPT !.at = "done"])
  /\ UNCHANGED <<config, phase, requested, outage, topology, idle, declared, due, clearing>>

\* External: the broker takes an unsettled message back.
Requeued(job) == [job EXCEPT !.at = "ready", !.count = IF config.quorum THEN job.count + 1 ELSE 1]

\* delayed_release: a delay no strategy can route and an attempt above the cap
\* are terminal.  Otherwise a copy with a new attempts header and no broker
\* counters is published and the original acknowledged when it is confirmed;
\* a copy that comes back leaves the original held, one that is not mandatory
\* is taken for delivered.
Release(j, delay) ==
  LET job == jobs[j]
      next == next_attempt(job.attempts)
      destination == RetryDestination(job.queue)
  IN
  /\ phase = "ready"
  /\ job.at = "held"
  /\ IF delay = 0
     THEN Put(j, Requeued(job)) /\ UNCHANGED <<idle, declared>>
     ELSE IF ~ Routable(config, delay) \/ AboveCap(config, next)
     THEN Put(j, Poisoned(job)) /\ UNCHANGED <<idle, declared>>
     ELSE /\ Put(j, Deferred([job EXCEPT !.application = next, !.count = 0], destination, delay, job))
          /\ EnsureDelayTopology(destination, delay)
  /\ UNCHANGED <<config, phase, requested, outage, topology, due, clearing>>

----------------------------------------------------------------------------
(* The connection. *)

\* Bound: one outage, of at most config.outage, between two keep-alive ticks
\* that reach the broker.
Lose ==
  /\ phase = "ready"
  /\ config.outage > 0
  /\ outage = 0
  /\ phase' = "down"
  /\ outage' = 1
  /\ jobs' = [j \in Job |-> IF jobs[j].at = "held" THEN Requeued(jobs[j]) ELSE jobs[j]]
  /\ clearing' = {}
  /\ UNCHANGED <<config, requested, topology, idle, declared, due>>

\* A refused reconciliation is permanent.
Reconcile(plan) ==
  IF Refused(plan, topology) THEN phase' = "refused" /\ UNCHANGED topology
  ELSE phase' = "ready" /\ topology' = reconcile(plan, topology)

Recover ==
  /\ phase = "down"
  /\ Reconcile(Planned(config, requested))
  /\ UNCHANGED <<config, requested, outage, idle, declared, due, jobs, clearing>>

\* ClientPool::consumer records the profile; on a connection that is ready the
\* plan with its queue is applied before it consumes.
Request(queue) ==
  /\ phase # "refused"
  /\ queue \notin requested
  /\ requested' = requested \union {queue}
  /\ IF phase = "ready" THEN Reconcile(Planned(config, requested')) ELSE UNCHANGED <<phase, topology>>
  /\ UNCHANGED <<config, outage, idle, declared, due, jobs, clearing>>

\* DelayKeepAlive::tick: a passive declare is a use of the queue.  It is skipped
\* while no channel can be opened, and does not create a queue that is gone.
KeepAlive ==
  /\ phase # "refused"
  /\ due = 0
  /\ due' = period(config)
  /\ outage' = IF phase = "down" THEN outage ELSE 0
  /\ idle' = IF phase = "down" THEN idle
             ELSE [q \in DOMAIN idle |-> IF q \in DelayQueues(config, keep_alive_destinations(config, requested)) THEN 0 ELSE idle[q]]
  /\ UNCHANGED <<config, phase, requested, topology, declared, jobs, clearing>>

----------------------------------------------------------------------------
(* Client::clear_route: the queue, then its delay queues one after the other.
   The jobs deferred for the queue when it begins are marked. *)

Cleared(job) == [job EXCEPT !.at = "cleared"]

ClearRoute(queue) ==
  /\ config.clears
  /\ phase = "ready"
  /\ clearing = {}
  /\ \E j \in Job : jobs[j].at = "deferred"
  /\ jobs' = [j \in Job |-> IF jobs[j].at = "ready" /\ jobs[j].queue = queue THEN Cleared(jobs[j])
                            ELSE [jobs[j] EXCEPT !.marked = jobs[j].at = "deferred" /\ jobs[j].queue = queue]]
  /\ clearing' = DelayQueues(config, clear_route_destinations(config, queue))
  /\ UNCHANGED <<config, phase, requested, outage, topology, idle, declared, due>>

\* The purge of a queue that is gone is skipped.
PurgeBucket(queue) ==
  /\ phase = "ready"
  /\ jobs' = [j \in Job |-> IF Holds(jobs[j], queue) THEN Cleared(jobs[j]) ELSE jobs[j]]
  /\ clearing' = clearing \ {queue}
  /\ UNCHANGED <<config, phase, requested, outage, topology, idle, declared, due>>

----------------------------------------------------------------------------
(* The broker. *)

Elapsed(job) ==
  /\ job.at = "deferred"
  /\ job.waited >= IF config.delay = "ttl" THEN queue_for(config, job.destination, job.delay).bucket ELSE job.delay

\* The TTL of a quorum queue is lazy: it may act at any time once it is over.
\* The dead-lettered message and the plugin's are routed without mandatory.
Elapse(j) ==
  LET job == jobs[j]
      exchange == IF config.delay = "ttl" THEN job.destination.exchange
                  ELSE delayed_exchange_name(job.destination.exchange)
  IN
  /\ Elapsed(job)
  /\ Put(j, Routed(job, exchange, job.destination.key, "unbound"))
  /\ UNCHANGED <<config, phase, requested, outage, topology, idle, declared, due, clearing>>

\* x-expires: the queue goes, and what it holds with it.
Expire(queue) ==
  /\ idle[queue] = expires(queue)
  /\ idle' = [q \in DOMAIN idle \ {queue} |-> idle[q]]
  /\ jobs' = [j \in Job |-> IF Holds(jobs[j], queue) THEN [jobs[j] EXCEPT !.at = "expired"] ELSE jobs[j]]
  /\ UNCHANGED <<config, phase, requested, outage, topology, declared, due, clearing>>

\* A queue does not outlive its expiry, a keep-alive tick is not late, and the
\* connection is not down for longer than the bound.
Tick ==
  /\ phase # "refused"
  /\ due > 0
  /\ \A q \in DOMAIN idle : idle[q] < expires(q)
  /\ phase = "down" => outage <= config.outage
  /\ due' = due - 1
  /\ outage' = IF phase = "down" THEN outage + 1 ELSE outage
  /\ idle' = [q \in DOMAIN idle |-> idle[q] + 1]
  /\ jobs' = [j \in Job |-> IF jobs[j].at = "deferred" /\ jobs[j].waited < Longest
                            THEN [jobs[j] EXCEPT !.waited = @ + 1] ELSE jobs[j]]
  /\ UNCHANGED <<config, phase, requested, topology, declared, clearing>>

----------------------------------------------------------------------------

Init ==
  /\ config \in Configs
  /\ phase = "down"
  /\ requested = {}
  /\ outage = 1
  /\ topology = config.provisioned
  /\ idle = [q \in {} |-> 0]
  /\ declared = {}
  /\ due = 0
  /\ jobs = [j \in Job |-> Unpublished]
  /\ clearing = {}

Next ==
  \/ \E j \in Job, q \in config.targets, d \in config.delays : Publish(j, q, d)
  \/ \E j \in Job : Consume(j)
  \/ \E j \in Job : Ack(j)
  \/ \E j \in Job, d \in config.releases : Release(j, d)
  \/ Lose
  \/ Recover
  \/ \E q \in ToSet(config.subs \o config.extras) : Request(q)
  \/ KeepAlive
  \/ \E q \in config.targets : ClearRoute(q)
  \/ \E q \in clearing : PurgeBucket(q)
  \/ \E j \in Job : Elapse(j)
  \/ \E q \in DOMAIN idle : Expire(q)
  \/ Tick

Spec == Init /\ [][Next]_vars

----------------------------------------------------------------------------
(* Properties. *)

\* A job published for a queue that no profile of the configuration subscribes
\* to, and not released since.  Nothing keeps its delay queues alive, not even
\* while a consumer of a synthesized profile is at work on that queue, and the
\* queue itself is declared only once that profile is requested.
Unattended(job) == job.queue \notin Queues(config) /\ job.destination # RetryDestination(job.queue)

\* A job published through the plugin on a named route: the bindings of its
\* delayed exchange are "an infrastructure contract" (from_config), which a
\* declared topology does not fulfil.
Uncontracted(job) ==
  /\ config.delay = "plugin" /\ config.mode = "declare" /\ config.route.exchange # ""
  /\ job.destination = PublishDestination(config, job.queue)

\* An accepted job is in a queue, in a delay queue, held by a consumer or
\* settled: no dead-lettering, delayed routing, terminal settlement or queue
\* expiry drops it.  The broker drops an unbound dead-lettered or delayed
\* message silently, so this rests on the bindings of the plan, the names of
\* the destinations and the keep-alive together, across outages that the
\* expiry margin covers.
NoJobLost ==
  \A j \in Job : /\ jobs[j].at # "lost"
                 /\ jobs[j].at = "expired" => Unattended(jobs[j])
                 /\ jobs[j].at = "unbound" => Unattended(jobs[j]) \/ Uncontracted(jobs[j])

\* A job for a configured queue, or released, finds a queue when it is
\* published: the queue is bound to the publish route, and a delay queue the
\* publisher's cache takes for declared is still on the broker.  The cache is
\* never invalidated, so this rests on the keep-alive.
NothingReturned == \A j \in Job : jobs[j].at \in {"returned", "dropped"} => Unattended(jobs[j])

\* A deferred job becomes ready only when the delay it asked for has passed,
\* whatever bucket it waited in.
NeverEarly ==
  [][\A j \in Job : jobs[j].at = "deferred" /\ jobs'[j].at = "ready" => jobs[j].waited >= jobs[j].delay]_vars

\* Attempts never fall from one delivery of a job to the next, although the
\* copy of a delayed release starts with no broker counters, and the delivery
\* after a delayed release counts one more.
AttemptsNeverFall ==
  [][\A j \in Job :
       jobs[j].at = "ready" /\ jobs'[j].at = "held" =>
         /\ jobs'[j].attempts >= jobs[j].attempts
         /\ jobs[j].attempts > 0 /\ jobs[j].count = 0 => jobs'[j].attempts > jobs[j].attempts]_vars

\* When clear_route has purged its last delay queue, no job that was deferred
\* for the queue when the clear began still waits: it was purged, or had
\* already come due.
ClearSweepsBuckets ==
  [][clearing # {} /\ clearing' = {} /\ phase' = "ready" =>
       \A j \in Job : jobs'[j].marked => jobs'[j].at # "deferred"]_vars
=============================================================================
