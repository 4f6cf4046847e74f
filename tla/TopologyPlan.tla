---------------------------- MODULE TopologyPlan ----------------------------
(* The topology a configuration declares (topology/plan.rs), the delay
   strategies and their routes (topology/delay.rs, publisher/delay.rs), and the
   attempts a delivery counts (consumer/attempts.rs).

   A configuration is a record
     mode         "declare", "verify" or "external"
     quorum       whether the queues are quorum queues, which count deliveries
     delay        "ttl" or "plugin"
     buckets      the TTL buckets, a set of durations
     margin       queue_expiry_margin
     subs         the queues of the configured profiles' subscriptions, in order
     extras       the queues of the profiles synthesized at run time
     route        [exchange, key], the publish route of the broker
     dead_letter  <<>>, or <<[exchange, queue, key]>>
     max_attempts consumer.max_attempts
     mandatory    whether publishes are mandatory (the safe mode)
   A key may be the template "{queue}".  Names are kept apart by what they are
   made of: a delayed exchange is its base name with a flag, a delay queue the
   destination, bucket and margin its name fingerprints. *)
EXTENDS Naturals, Sequences, FiniteSets, FiniteSetsExt, SequencesExt

MaxOf(a, b) == IF a > b THEN a ELSE b

Resolve(key, queue) == IF key = "{queue}" THEN queue ELSE key

Exchange(name) == [name |-> name, delayed |-> FALSE]
Default == Exchange("")
Destination(exchange, key) == [exchange |-> exchange, key |-> key]
Binding(queue, exchange, key) == [queue |-> queue, exchange |-> exchange, key |-> key]

----------------------------------------------------------------------------
(* TopologyPlan::from_profiles and compile. *)

delayed_exchange_name(x) == [name |-> IF x = Default THEN "rabbit-rs" ELSE x.name, delayed |-> TRUE]

Queues(config) == ToSet(config.subs)

PluginBindings(config) ==
  IF config.delay = "plugin"
  THEN {Binding(q, delayed_exchange_name(Default), q) : q \in Queues(config)}
  ELSE {}

RouteBindings(config) ==
  IF config.route.exchange = "" THEN {}
  ELSE {Binding(q, Exchange(config.route.exchange), Resolve(config.route.key, q)) : q \in Queues(config)}

\* Mutant: the dead-letter queue is bound for the first subscription only.
BindOneSource(config) ==
  {Binding(d.queue, Exchange(d.exchange), Resolve(d.key, Head(config.subs))) : d \in ToSet(config.dead_letter)}

\* One binding for every source that shares the dead-letter queue.
DeadLetterBindings(config) ==
  {Binding(d.queue, Exchange(d.exchange), Resolve(d.key, q)) : d \in ToSet(config.dead_letter), q \in Queues(config)}

\* The queues in the order they are declared: a queue of two subscriptions is
\* there twice, and compile gives the dead-letter arguments to the first.
QueueSpecs(config) ==
  LET subs == config.subs
      dead(i) == IF \E j \in 1..(i - 1) : subs[j] = subs[i] THEN {}
                 ELSE {Destination(Exchange(d.exchange), Resolve(d.key, subs[i])) : d \in ToSet(config.dead_letter)}
  IN  [i \in DOMAIN subs |-> [name |-> subs[i], dead |-> dead(i)]]
        \o [i \in DOMAIN config.dead_letter |-> [name |-> config.dead_letter[i].queue, dead |-> {}]]

\* An exchange is declared when something is bound to it.
from_profiles(config) ==
  [specs |-> QueueSpecs(config),
   bindings |-> PluginBindings(config) \union RouteBindings(config) \union DeadLetterBindings(config)]

\* generation_plan: the extras requested so far join it, in declare mode only.
Planned(config, requested) ==
  IF config.mode = "declare"
  THEN [config EXCEPT !.subs = @ \o SelectSeq(config.extras, LAMBDA q : q \in requested)]
  ELSE config

\* TopologyReconciler::reconcile: the broker refuses to declare a queue again
\* with other arguments, and to verify a queue or an exchange that is not there
\* (an exchange to which nothing is bound counts as not there).
Refused(config, topology) ==
  LET specs == QueueSpecs(config) IN
  \/ /\ config.mode = "declare"
     /\ \E i, j \in DOMAIN specs : specs[i].name = specs[j].name /\ specs[i].dead # specs[j].dead
  \/ /\ config.mode = "verify"
     /\ \/ \E i \in DOMAIN specs : \A s \in ToSet(topology.specs) : s.name # specs[i].name
        \/ \E b \in RouteBindings(config) \union DeadLetterBindings(config) :
             \A c \in topology.bindings : c.exchange # b.exchange

reconcile(config, topology) == IF config.mode = "declare" THEN from_profiles(config) ELSE topology

\* External: what a broker does with a message for an exchange and a key.
Bound(topology, exchange, key) ==
  IF exchange = Default THEN {s.name : s \in {r \in ToSet(topology.specs) : r.name = key}}
  ELSE {b.queue : b \in {c \in topology.bindings : c.exchange = exchange /\ c.key = key}}

----------------------------------------------------------------------------
(* TtlBucketPlan and DelayRouter. *)

\* Mutant: the delay is rounded down to a bucket.
RoundedDown(config, delay) == Max({b \in config.buckets : b <= delay} \union {Min(config.buckets)})

bucket_for(config, delay) == Min({b \in config.buckets : b >= delay})

Routable(config, delay) == config.delay = "ttl" => \E b \in config.buckets : b >= delay

queue_for(config, destination, delay) ==
  [destination |-> destination, bucket |-> bucket_for(config, delay), margin |-> MaxOf(config.margin, 1)]

expires(queue) == queue.bucket + queue.margin

----------------------------------------------------------------------------
(* The destinations of a queue's delayed messages. *)

\* A publish goes through the route, a delayed release through an exchange
\* with the name of the queue.
PublishDestination(config, queue) ==
  Destination(Exchange(config.route.exchange), Resolve(config.route.key, queue))
RetryDestination(queue) == Destination(Exchange(queue), queue)

\* Mutant: publish routes are not kept alive.
retry_destinations(config, requested) == {RetryDestination(q) : q \in requested}

\* The retries of the requested profiles, and the publish route for the queues
\* of the configured ones: nothing for a publish to a synthesized profile's.
keep_alive_destinations(config, requested) ==
  {RetryDestination(q) : q \in requested} \union {PublishDestination(config, q) : q \in Queues(config)}

\* Mutant: only the publish route of the cleared queue is swept.
clear_publish_route(config, queue) == {PublishDestination(config, queue)}

clear_route_destinations(config, queue) == {RetryDestination(queue), PublishDestination(config, queue)}

\* The delay queues of a set of destinations: one for each bucket.
DelayQueues(config, destinations) ==
  {queue_for(config, d, b) : d \in destinations, b \in IF config.delay = "ttl" THEN config.buckets ELSE {}}

\* DelayKeepAlive::compile.
period(config) == MaxOf(MaxOf(config.margin, 1) \div 2, 1)

----------------------------------------------------------------------------
(* AttemptsResolver.  count is how often the broker took the message back,
   application the x-rabbit-rs-attempts header, 0 when it is absent. *)

\* A classic queue only tells a first delivery from a redelivery.
resolve(config, count, application) ==
  LET broker == IF config.quorum THEN count + 1 ELSE IF count > 0 THEN 2 ELSE 1
  IN  MaxOf(broker, MaxOf(application, 1))

\* Mutant: the copy of a delayed release keeps the attempt of the original.
same_attempt(attempts) == attempts

\* delayed_headers: the broker's counters are removed.
next_attempt(attempts) == attempts + 1

AboveCap(config, attempts) == attempts > config.max_attempts
=============================================================================
