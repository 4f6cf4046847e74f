------------------------- MODULE RecoveryCoordinator -------------------------
(***************************************************************************)
(* The recovery coordinator of crates/rabbit-rs-core/src/pool, composed    *)
(* with ConnectionActor: run_coordinator and recover_generation, the       *)
(* on-demand consumer() calls that establish profiles beside it, admin     *)
(* channels, and close.                                                    *)
(*                                                                         *)
(* The publisher is abstracted to what Publisher.tla shows of its phase,   *)
(* generation and channel; a consumer set to its generation tag, the       *)
(* connection its channels are on and whether it is closed.  The delayed   *)
(* publisher a set is given, none if a caller establishes it before the    *)
(* first adoption, is left out: no step of this module depends on it.      *)
(***************************************************************************)
EXTENDS ConnectionActor

CONSTANTS
  Coordinator,    \* the task of run_coordinator
  Callers,        \* tasks that call consumer()
  Admins,         \* tasks that call admin_channel()
  Profiles,       \* worker profiles with a subscription on this broker
  Extras          \* the profiles synthesized at run time, not in the config

ASSUME CoordinatorAssumption ==
  /\ Tasks = {Coordinator} \cup Callers \cup Admins
  /\ Coordinator \notin Callers /\ Coordinator \notin Admins
  /\ Callers \cap Admins = {} /\ Extras \subseteq Profiles
  /\ \A e \in Environments :
       /\ e.callers \subseteq Callers \X Profiles /\ e.faults \subseteq {"lost", "refused"}
       /\ {e.admins, e.keep_alive, e.channel_faults, e.refusals, e.closes, e.timely} \subseteq BOOLEAN
       /\ {e.generations, e.losses, e.early, e.connect_timeout, e.ticks} \subseteq Nat

KeepAlive == env.keep_alive  \* DelayKeepAlive is armed (TTL bucket strategy)
Refusals  == env.refusals    \* the broker may refuse a declare or a consume
Closes    == env.closes      \* the pool is closed

NoTask == "no task"
Establishers == {Coordinator} \cup Callers

VARIABLES
  pc,              \* where run_coordinator is
  last_generation,
  todo,            \* the profiles recover_generation still has to establish
  est,             \* where each task is in establish_requested_profile
  job,             \* profile, generation, channel and plan of that call, and
                   \* (history) the registered set it saw under establish_lock
  establish_lock,  \* its holder
  reconciler,      \* the holder of the reconciler's lock
  applied,         \* TopologyReconciler::applied
  requested,       \* RequestedProfiles
  publisher,       \* the shared publisher slot, and the actor behind it
  consumers,       \* the shared map of consumer sets
  closing,         \* how far close() is
  declared         \* history: <<profile, generation>> whose queue was declared

estVars   == <<est, job, establish_lock, reconciler, applied, consumers,
               declared>>
coordVars == <<pc, last_generation, todo, estVars, requested, publisher, closing>>
vars == <<actorVars, coordVars>>

NoSet == [generation |-> 0, on |-> 0, closed |-> TRUE]
NoPublisher == [phase |-> "none", generation |-> 0, on |-> 0, stale |-> FALSE]
NoJob == [profile |-> "none", generation |-> 0, on |-> 0, plan |-> {}, seen |-> NoSet]

\* generation_plan: the queues of the configured profiles, and of the extras
\* requested so far.
Plan == (Profiles \ Extras) \cup (requested \cap Extras)

Recovering == pc \in {"open", "reconcile", "adopt", "profiles", "extras"}

-----------------------------------------------------------------------------
(* The publisher actor as the coordinator sees it.                          *)

\* connection_event(Recovering) and the actor's own suspension.  The channel
\* is dropped; on and stale tell which one it was.
Suspend(pub, g) ==
  [pub EXCEPT !.phase = "Suspended", !.generation = IF g > @ THEN g ELSE @]

\* connection_event(Ready): adopted unless stale or confirm.select fails.
\* stale: publications of the previous channel still have their futures.
Adoptable(g, c) == publisher.generation <= g /\ Live(c)
Adopted(g, c) == [phase |-> "Ready", generation |-> g, on |-> c,
                  stale |-> publisher.phase = "Ready"]

\* The publisher suspends itself when its channel fails, and when a future
\* of an earlier channel does; nobody tells the coordinator.
PublisherSuspendsItself ==
  /\ publisher.phase = "Ready"
  /\ ~Live(publisher.on) \/ publisher.stale \/ ChannelFaults
  /\ publisher' = Suspend(publisher, 0)
  /\ UNCHANGED <<actorVars, pc, last_generation, todo, estVars, requested, closing>>

-----------------------------------------------------------------------------
(* run_coordinator.                                                         *)

SendStart ==
  /\ pc = "start"
  /\ commands' = Append(commands, Start) /\ pc' = "idle"
  /\ UNCHANGED <<lifeVars, unseen, reply, last_generation, todo, estVars,
                 requested, publisher, closing>>

\* state.changed(): only the latest published state is seen.
Observe(s) == pc = "idle" /\ unseen /\ published.state \in s /\ unseen' = FALSE

\* The arm that skips a generation already recovered is for a state published
\* between changed() and borrow(), which are one step here.
ObserveReady ==
  /\ Observe({"Ready"})
  /\ published.generation # last_generation
  /\ last_generation' = published.generation
  /\ RequestOpen(Coordinator) /\ pc' = "open"
  /\ UNCHANGED <<lifeVars, todo, estVars, requested, publisher, closing>>

ObserveDown ==
  /\ Observe({"Recovering", "Connecting"})
  /\ publisher' = IF publisher.phase = "none" THEN publisher
                  ELSE Suspend(publisher, last_generation)
  /\ UNCHANGED <<lifeVars, commands, reply, pc, last_generation, todo, estVars,
                 requested, closing>>

\* Mutant: a permanent failure is handled like a recoverable one.
ObserveFailedAsDown ==
  /\ Observe({"FailedPermanent"})
  /\ publisher' = IF publisher.phase = "none" THEN publisher
                  ELSE Suspend(publisher, last_generation)
  /\ UNCHANGED <<lifeVars, commands, reply, pc, last_generation, todo, estVars,
                 requested, closing>>

ObserveFailed ==
  /\ Observe({"FailedPermanent"})
  /\ publisher' = IF publisher.phase = "none" THEN publisher
                  ELSE [Suspend(publisher, last_generation) EXCEPT !.phase = "Failed"]
  /\ UNCHANGED <<lifeVars, commands, reply, pc, last_generation, todo, estVars,
                 requested, closing>>

\* One redeclare of the keep-alive tick, which the loop awaits.
KeepAliveTick ==
  /\ KeepAlive /\ pc = "idle" /\ RequestOpen(Coordinator) /\ pc' = "tick"
  /\ UNCHANGED <<lifeVars, unseen, last_generation, todo, estVars, requested,
                 publisher, closing>>

Answered(t) == reply[t].state \in {"failed", "opened"}
Answer(t)   == reply' = [reply EXCEPT ![t] = NoReply]

KeepAliveDone ==
  /\ pc = "tick" /\ Answered(Coordinator) /\ Answer(Coordinator) /\ pc' = "idle"
  /\ UNCHANGED <<lifeVars, unseen, commands, last_generation, todo, estVars,
                 requested, publisher, closing>>

\* recover_generation failed: roll back, and report the loss.
\* Mutant: the loss is not reported.
FailSilently(recoverable) ==
  /\ UNCHANGED commands /\ pc' = "idle"
  /\ last_generation' = last_generation - 1

FailGeneration(recoverable) ==
  /\ ReportLoss(recoverable) /\ pc' = "idle"
  /\ last_generation' = last_generation - 1

\* Step 1: the publisher channel.  The plan is computed when it is open.
OpenPublisher ==
  /\ pc = "open" /\ Answered(Coordinator) /\ Answer(Coordinator)
  /\ \/ /\ reply[Coordinator].state = "opened" /\ pc' = "reconcile"
        /\ job' = [job EXCEPT ![Coordinator].on = reply[Coordinator].on,
                              ![Coordinator].plan = Plan]
        /\ UNCHANGED <<commands, last_generation>>
     \/ /\ reply[Coordinator].state = "failed" /\ FailGeneration(TRUE)
        /\ UNCHANGED job
  /\ UNCHANGED <<lifeVars, unseen, todo, est, establish_lock, reconciler, applied,
                 consumers, declared, requested, publisher, closing>>

\* TopologyReconciler::reconcile on a channel of connection c.
Reconciled(c, g, plan) ==
  /\ applied = <<g, plan>> \/ Live(c)
  /\ applied' = <<g, plan>>
  /\ declared' = declared \cup {<<p, g>> : p \in plan}

\* How a broker operation on a channel of connection c may fail: the
\* connection or the channel is failing, or the broker refuses it for good.
Failures(c) == (IF Live(c) /\ ~ChannelFaults THEN {} ELSE {TRUE})
                 \cup (IF Refusals THEN {FALSE} ELSE {})

\* Step 2: the topology.
ReconcileTopology ==
  /\ pc = "reconcile" /\ reconciler = NoTask
  /\ LET j == job[Coordinator]
     IN \/ /\ Reconciled(j.on, last_generation, j.plan) /\ pc' = "adopt"
           /\ UNCHANGED <<commands, last_generation>>
        \/ /\ applied # <<last_generation, j.plan>>
           /\ \E r \in Failures(j.on) : FailGeneration(r)
           /\ UNCHANGED <<applied, declared>>
  /\ UNCHANGED <<lifeVars, unseen, reply, todo, est, job, establish_lock, reconciler,
                 consumers, requested, publisher, closing>>

\* Step 3: the publisher adopts the channel, or is spawned on it (and starts
\* out failed if confirm.select does not succeed).
AdoptPublisher ==
  /\ pc = "adopt"
  /\ LET c == job[Coordinator].on  g == last_generation
     IN \/ /\ publisher.phase = "none"
           /\ publisher' = [phase |-> IF Live(c) THEN "Ready" ELSE "Failed",
                            generation |-> 1, on |-> c, stale |-> FALSE]
           /\ pc' = "profiles" /\ todo' = requested \ Extras
           /\ UNCHANGED <<commands, last_generation>>
        \/ /\ publisher.phase # "none" /\ Adoptable(g, c)
           /\ publisher' = Adopted(g, c)
           /\ pc' = "profiles" /\ todo' = requested \ Extras
           /\ UNCHANGED <<commands, last_generation>>
        \/ /\ publisher.phase # "none" /\ ~Adoptable(g, c)
           /\ FailGeneration(TRUE)
           /\ UNCHANGED <<publisher, todo>>
  /\ UNCHANGED <<lifeVars, unseen, reply, estVars, requested, closing>>

\* Step 4: the requested profiles one after the other, those of the config
\* first, then the extras requested by then.
RecoverProfile(p) ==
  /\ pc \in {"profiles", "extras"} /\ est[Coordinator] = "none" /\ p \in todo
  /\ todo' = todo \ {p}
  /\ est' = [est EXCEPT ![Coordinator] = "lock"]
  /\ job' = [job EXCEPT ![Coordinator].profile = p,
                        ![Coordinator].generation = last_generation]
  /\ UNCHANGED <<actorVars, pc, last_generation, establish_lock, reconciler,
                 applied, consumers, declared, requested, publisher,
                 closing>>

RecoverExtras ==
  /\ pc = "profiles" /\ est[Coordinator] = "none" /\ todo = {}
  /\ pc' = "extras" /\ todo' = requested \cap Extras
  /\ UNCHANGED <<actorVars, last_generation, estVars, requested, publisher, closing>>

RecoveryDone ==
  /\ pc = "extras" /\ est[Coordinator] = "none" /\ todo = {}
  /\ pc' = "idle"
  /\ UNCHANGED <<actorVars, last_generation, todo, estVars, requested, publisher,
                 closing>>

-----------------------------------------------------------------------------
(* establish_requested_profile, run by the coordinator and by callers.      *)

\* The call returns, and its locals go.
Return(t) == est' = [est EXCEPT ![t] = "none"] /\ job' = [job EXCEPT ![t] = NoJob]

Fresh(p, g) == consumers[p].generation = g /\ ~consumers[p].closed

\* The lock, and the check that another task was not faster.
\* Mutant: the guard is dropped right after the check (let _ = lock).
EstablishUnheld(t) ==
  /\ est[t] = "lock" /\ establish_lock = NoTask
  /\ IF Fresh(job[t].profile, job[t].generation)
     THEN Return(t) /\ UNCHANGED <<commands, reply>>
     ELSE /\ est' = [est EXCEPT ![t] = "channel"]
          /\ job' = [job EXCEPT ![t].seen = consumers[job[t].profile]]
          /\ RequestOpen(t)
  /\ UNCHANGED <<lifeVars, unseen, pc, last_generation, todo, establish_lock, reconciler,
                 applied, consumers, declared, requested, publisher, closing>>

Establish(t) ==
  /\ est[t] = "lock" /\ establish_lock = NoTask
  /\ IF Fresh(job[t].profile, job[t].generation)
     THEN Return(t) /\ UNCHANGED <<establish_lock, commands, reply>>
     ELSE /\ establish_lock' = t /\ est' = [est EXCEPT ![t] = "channel"]
          /\ job' = [job EXCEPT ![t].seen = consumers[job[t].profile]]
          /\ RequestOpen(t)
  /\ UNCHANGED <<lifeVars, unseen, pc, last_generation, todo, reconciler, applied,
                 consumers, declared, requested, publisher, closing>>

\* The error path: the locks are released, the loss is reported and, in the
\* coordinator, the generation rolled back.
EstablishFails(t, recoverable) ==
  /\ Return(t) /\ establish_lock' = NoTask
  /\ IF t = Coordinator THEN FailGeneration(recoverable)
     ELSE ReportLoss(recoverable) /\ UNCHANGED <<pc, last_generation>>

ConsumerChannel(t) ==
  /\ est[t] = "channel" /\ Answered(t) /\ Answer(t)
  /\ \/ /\ reply[t].state = "opened"
        /\ est' = [est EXCEPT ![t] = "topology"]
        /\ job' = [job EXCEPT ![t].on = reply[t].on, ![t].plan = Plan]
        /\ UNCHANGED <<establish_lock, commands, pc, last_generation>>
     \/ reply[t].state = "failed" /\ EstablishFails(t, TRUE)
  /\ UNCHANGED <<lifeVars, unseen, todo, reconciler, applied, consumers, declared,
                 requested, publisher, closing>>

\* Declaration before subscription: a plan this generation has not seen is
\* applied first, on a channel of its own.
\* Mutant: any plan of this generation will do.
GenerationApplied(g, plan) == applied[1] = g
IsApplied(g, plan) == applied = <<g, plan>>

CheckTopology(t) ==
  /\ est[t] = "topology" /\ reconciler = NoTask
  /\ IF IsApplied(job[t].generation, job[t].plan)
     THEN /\ est' = [est EXCEPT ![t] = "spawn"]
          /\ UNCHANGED <<reconciler, commands, reply>>
     ELSE /\ est' = [est EXCEPT ![t] = "declare"] /\ reconciler' = t
          /\ RequestOpen(t)
  /\ UNCHANGED <<lifeVars, unseen, pc, last_generation, todo, job, establish_lock,
                 applied, consumers, declared, requested, publisher,
                 closing>>

DeclareTopology(t) ==
  /\ est[t] = "declare" /\ Answered(t) /\ Answer(t)
  /\ reconciler' = NoTask
  /\ LET c == reply[t].on
     IN \/ /\ reply[t].state = "opened"
           /\ Reconciled(c, job[t].generation, job[t].plan)
           /\ est' = [est EXCEPT ![t] = "spawn"]
           /\ UNCHANGED <<job, establish_lock, commands, pc, last_generation>>
        \/ /\ \E r \in Failures(c) : EstablishFails(t, r)
           /\ UNCHANGED <<applied, declared>>
  /\ UNCHANGED <<lifeVars, unseen, todo, consumers, requested, publisher, closing>>

\* ConsumerSet::spawn (QoS, basic.consume), then the set replaces the one in
\* the map, which is closed.
SpawnSet(t) ==
  /\ est[t] = "spawn" /\ Live(job[t].on)
  /\ LET j == job[t]
     IN consumers' = [consumers EXCEPT ![j.profile] =
             [generation |-> j.generation, on |-> j.on, closed |-> FALSE]]
  /\ Return(t) /\ establish_lock' = NoTask
  /\ UNCHANGED <<actorVars, pc, last_generation, todo, reconciler, applied, declared,
                 requested, publisher, closing>>

SpawnFails(t) ==
  /\ est[t] = "spawn"
  /\ \E r \in Failures(job[t].on) : EstablishFails(t, r)
  /\ UNCHANGED <<lifeVars, unseen, reply, todo, reconciler, applied, consumers, declared,
                 requested, publisher, closing>>

\* A call dropped where it is, by close() or by a deadline, drops its guards.
DropGuards(t) ==
  /\ Return(t)
  /\ establish_lock' = IF establish_lock = t THEN NoTask ELSE establish_lock
  /\ reconciler' = IF reconciler = t THEN NoTask ELSE reconciler

-----------------------------------------------------------------------------
(* Callers.                                                                 *)

\* ClientPool::consumer records the request, then consumer() reads the state
\* and the map; a set of that generation is returned at once.
CallConsumer(t, p) ==
  /\ est[t] = "none" /\ closing = "open"
  /\ \A i \in DOMAIN commands : commands[i] # Open(t)
  /\ requested' = requested \cup {p}
  /\ \/ /\ published.state = "Ready" /\ ~Fresh(p, published.generation)
        /\ est' = [est EXCEPT ![t] = "lock"]
        /\ job' = [job EXCEPT ![t].profile = p,
                              ![t].generation = published.generation]
     \/ /\ published.state # "Ready"
        /\ UNCHANGED <<est, job>>
  /\ UNCHANGED <<actorVars, pc, last_generation, todo, establish_lock, reconciler,
                 applied, consumers, declared, publisher, closing>>

\* The acquisition deadline passes: consumer() is dropped, and nothing is
\* reported.  A request it has queued is still served; the caller comes back
\* after that.
CallerTimesOut(t) ==
  /\ ~Timely
  /\ est[t] # "none" /\ DropGuards(t) /\ Answer(t)
  /\ UNCHANGED <<lifeVars, unseen, commands, pc, last_generation, todo, applied, consumers,
                 declared, requested, publisher, closing>>

\* admin_channel(): queue_size, purge_queue.
AdminRequest(t) ==
  /\ env.admins /\ reply[t].state = "idle" /\ closing = "open"
  /\ RequestOpen(t)
  /\ UNCHANGED <<lifeVars, unseen, coordVars>>

AdminDone(t) ==
  /\ Answered(t) /\ Answer(t)
  /\ UNCHANGED <<lifeVars, unseen, commands, coordVars>>

\* A consumer set closes: its channel failed or its last handle went.
SetCloses(p) ==
  /\ ChannelFaults /\ ~consumers[p].closed
  /\ consumers' = [consumers EXCEPT ![p].closed = TRUE]
  /\ UNCHANGED <<actorVars, pc, last_generation, todo, est, job, establish_lock,
                 reconciler, applied, declared, requested, publisher,
                 closing>>

-----------------------------------------------------------------------------
(* close().                                                                 *)

SendClose ==
  /\ Closes /\ closing = "open" /\ closing' = "sent"
  /\ UNCHANGED <<actorVars, pc, last_generation, todo, estVars, requested, publisher>>

\* The close arm of either select!: a recovery in progress is dropped.  The
\* publisher is closed first ...
ShutdownPublisher ==
  /\ closing = "sent" /\ (pc = "idle" \/ Recovering)
  /\ pc' = "shutdown" /\ publisher' = NoPublisher
  /\ DropGuards(Coordinator)
  /\ UNCHANGED <<actorVars, last_generation, todo, applied, consumers, declared, requested,
                 closing>>

\* ... then every set in the map.
ShutdownConsumers ==
  /\ pc = "shutdown" /\ pc' = "stopped"
  /\ consumers' = [p \in Profiles |-> NoSet] /\ closing' = "drained"
  /\ UNCHANGED <<actorVars, last_generation, todo, est, job, establish_lock,
                 reconciler, applied, declared, requested, publisher>>

\* close() goes on with the connection actor once the coordinator is done.
CloseActor ==
  /\ closing = "drained" /\ closing' = "actor"
  /\ commands' = Append(commands, CloseCmd)
  /\ UNCHANGED <<lifeVars, unseen, reply, pc, last_generation, todo, estVars,
                 requested, publisher>>

-----------------------------------------------------------------------------
Init ==
  /\ ActorInit
  /\ pc = "start" /\ last_generation = 0 /\ todo = {}
  /\ est = [t \in Establishers |-> "none"]
  /\ job = [t \in Establishers |-> NoJob]
  /\ establish_lock = NoTask /\ reconciler = NoTask /\ applied = <<0, {}>>
  /\ requested = {} /\ publisher = NoPublisher
  /\ consumers = [p \in Profiles |-> NoSet]
  /\ closing = "open" /\ declared = {}

CoordinatorStep ==
  \/ SendStart \/ ObserveReady \/ ObserveDown \/ ObserveFailed
  \/ KeepAliveTick \/ KeepAliveDone
  \/ OpenPublisher \/ ReconcileTopology \/ AdoptPublisher
  \/ (\E p \in Profiles : RecoverProfile(p)) \/ RecoverExtras \/ RecoveryDone
  \/ ShutdownPublisher \/ ShutdownConsumers \/ CloseActor

EstablishStep(t) == \/ Establish(t) \/ ConsumerChannel(t) \/ CheckTopology(t)
                    \/ DeclareTopology(t) \/ SpawnSet(t) \/ SpawnFails(t)

\* What the connection actor has published and answered is dealt with.
Settled == /\ ~unseen /\ pc = "idle" /\ commands = <<>>
           /\ \A t \in Establishers : est[t] = "none"
           /\ publisher.phase # "Ready"

\* The backoff is a timer of its own and may end before that.  A timely
\* system does so a bounded number of times.
Backoff ==
  /\ BackoffElapsed
  /\ IF Timely /\ ~Settled THEN early < MaxEarly /\ early' = early + 1
     ELSE UNCHANGED early
  /\ UNCHANGED coordVars

Next ==
  \/ ActorStep /\ UNCHANGED coordVars
  \/ Backoff
  \/ EnvironmentStep /\ UNCHANGED coordVars
  \/ CoordinatorStep \/ PublisherSuspendsItself
  \/ \E t \in Establishers : EstablishStep(t)
  \/ \E c \in env.callers : CallConsumer(c[1], c[2])
  \/ \E t \in Callers : CallerTimesOut(t)
  \/ \E t \in Admins : AdminRequest(t) \/ AdminDone(t)
  \/ \E p \in Profiles : SetCloses(p)
  \/ SendClose

Spec == Init /\ [][Next]_vars

-----------------------------------------------------------------------------
(* Properties.                                                              *)

\* A set that consumer() takes for fresh, because its tag is the published
\* generation, has its channels on the connection of that generation: a loss,
\* a reconnection or a late establishment never makes a dead set look current.
FreshIsCurrent ==
  \A p \in Profiles :
    published.state = "Ready" /\ Fresh(p, published.generation)
      => consumers[p].on = serial

\* Declaration before subscription (issue #95): whoever established a set,
\* recovery or caller, the topology applied for its generation held the queue
\* it consumes from, however late the profile was requested.
DeclaredBeforeConsumed ==
  \A p \in Profiles : ~consumers[p].closed => <<p, consumers[p].generation>> \in declared

\* Recovery and callers "are serialized by establish_lock and observe each
\* other's registrations" (establish_requested_profile): between the check
\* under the lock and the registration lie three awaits, and yet the only
\* open set that a registration replaces and closes is the one its attempt
\* saw at the check.  It does not follow that a generation is established
\* once: an attempt with a stale generation finds the newer set not fresh.
ReplacesOnlyWhatItSaw ==
  [][\A t \in Establishers :
       SpawnSet(t) => LET old == consumers[job[t].profile]
                      IN old.closed \/ old = job[t].seen]_vars

-----------------------------------------------------------------------------
(* Liveness.  Every task that can go on does (WF); the arms of a select!    *)
(* and the waiters of a tokio mutex, which is fair, get their turn (SF);    *)
(* a broker that refuses connections accepts one in the end (SF).           *)

Fairness ==
  /\ WF_vars(ActorStep /\ UNCHANGED coordVars)
  /\ SF_vars(ConnectOk /\ UNCHANGED coordVars)
  /\ WF_vars(Backoff)
  /\ SF_vars(CoordinatorStep \/ EstablishStep(Coordinator))
  /\ WF_vars(ShutdownPublisher)
  /\ \A t \in Callers : SF_vars(EstablishStep(t))

FairSpec == Spec /\ Fairness

\* Everything this broker is for is on the connection that is up: the
\* publisher adopted its channel, and every requested profile has an open set
\* there.  A publisher that went from one channel to the next without the
\* Recovering between them (the watch channel keeps the latest state only)
\* may have suspended itself over a publication of the first.
Restored ==
  /\ phase = "Ready" /\ Live(publisher.on)
  /\ publisher.phase = "Ready" \/ (publisher.phase = "Suspended" /\ publisher.stale)
  /\ \A p \in requested : ~consumers[p].closed /\ Live(consumers[p].on)

\* Losses end, and only so many backoff delays end early, so the system
\* settles with publisher and profiles restored, unless it failed permanently
\* or is closed: a loss at any step of a recovery, a report of it that reaches
\* the next connection, and a state the coordinator never saw are recovered
\* from.
Recovers == <>[](Restored \/ phase = "FailedPermanent" \/ closing # "open")

\* A consumer() call returns, whatever happens to the connection and to the
\* pool while it waits for a lock or for a channel.
CallersReturn == \A t \in Callers : est[t] # "none" ~> est[t] = "none"

\* close() ends, also in the middle of a recovery.
CloseCompletes == closing # "open" ~> Stopped

\* A permanent failure reaches the publisher for good: publishes fail instead
\* of waiting for a recovery that will not come.
FailureReachesPublisher ==
  phase = "FailedPermanent" ~>
    [](publisher.phase \in {"none", "Failed"} \/ closing # "open")
=============================================================================
