----------------------------- MODULE ClientPool -----------------------------
(***************************************************************************)
(* ClientPool: the per-process client of a connection fingerprint, shared   *)
(* by every PHP thread whose pool has that fingerprint.  It caches one      *)
(* coordinator and one publisher per broker and one composed consumer per   *)
(* profile, opens each of them once behind an async initializer lock, and   *)
(* closes all of them once.  The mutexes of the maps are held for one step; *)
(* between two steps, and at every await, the other threads run.            *)
(*                                                                          *)
(* A coordinator is seen through its handle: its connection state, the set  *)
(* it has registered for the profile, and its publisher slot                *)
(* (RecoveryCoordinator models what is inside).  There is one profile, on   *)
(* every broker of BrokerOrder; publishers are those of the first broker.   *)
(***************************************************************************)
EXTENDS CompositeConsumer

CONSTANTS
  Threads,        \* PHP threads (one in a non-thread-safe build)
  Clients,        \* the clients that may be created
  Free            \* holder of a lock that is not held

VARIABLES
  lifecycle,      \* "none" before the handle's OnceLock is initialised
  coordinators, publishers, consumers,   \* the caches
  requested,      \* requested_profiles
  initializers,   \* holders of the initializer locks
  coord,          \* the coordinators that were spawned
  call,           \* what each thread is doing inside a client
  objects         \* the Consumer objects each PHP thread holds: the current
                  \* one, and the one it has just replaced

cacheVars == <<lifecycle, coordinators, publishers, consumers, requested, initializers, coord>>
clientVars == <<compositeVars, cacheVars, call, objects>>

First == Head(BrokerOrder)

\* Bounds: connections made, and consumer sets opened, by one client.
Connections(c) == FoldLeft(LAMBDA n, b : n + coord[c][b].generation, 0, BrokerOrder)
MayConnect(c) == Connections(c) < scenario.connections
MayOpenSet(c) == Cardinality({s \in DOMAIN sets : sets[s].client = c}) < scenario.sets

NoCoordinator == [phase |-> "none", generation |-> 0, set |-> 0, publisher |-> "none", spawned |-> 0]
NoCall == [at |-> "idle", client |-> 0, op |-> "none", i |-> 1, seen |-> 0, got |-> <<>>]
Returned(result) == [NoCall EXCEPT !.at = "returned", !.seen = result]

Me(t) == call[t].client
At(t, where) == call[t].at = where
Open(c) == lifecycle[c] = "open"
Goto(t, where) == call' = [call EXCEPT ![t].at = where]

\* The broker the call is about.
Target(t) == BrokerOrder[call[t].i]

ClientInit ==
  /\ scenario \in Scenarios /\ sets = <<>> /\ composites = <<>>
  /\ lifecycle = [c \in Clients |-> "none"]
  /\ coordinators = [c \in Clients |-> {}] /\ publishers = [c \in Clients |-> {}]
  /\ consumers = [c \in Clients |-> 0] /\ requested = [c \in Clients |-> FALSE]
  /\ initializers = [c \in Clients |-> [l \in Brokers \union {"consumer", "publisher"} |-> Free]]
  /\ coord = [c \in Clients |-> [b \in Brokers |-> NoCoordinator]]
  /\ call = [t \in Threads |-> NoCall]
  /\ objects = [t \in Threads |-> [current |-> 0, old |-> 0]]

\* A call returns: its guards are dropped.
Unlocked(t) ==
  [initializers EXCEPT ![Me(t)] = [l \in DOMAIN @ |-> IF @[l] = t THEN Free ELSE @[l]]]

Return(t, result) ==
  /\ call' = [call EXCEPT ![t] = Returned(result)]
  /\ initializers' = Unlocked(t)

\* An acquisition that fails drops the set handles it has collected.
Abandon(t) == Return(t, 0) /\ sets' = CloseSets(Range(call[t].got), sets)

----------------------------------------------------------------------------
(* The consumer cache. *)

\* Who still holds composite k, apart from the cache and the call of t.
HeldElsewhere(t, k) ==
  \/ \E u \in Threads : k \in {objects[u].current, objects[u].old}
  \/ \E u \in Threads \ {t} : call[u].seen = k

\* The composite of the cache, and the one the call looked at, are dropped;
\* the last drop of a composite drops, and so closes, the handles of its sets.
Evict(t) ==
  LET c == Me(t)
      gone == {k \in {consumers[c], call[t].seen} \ {0} : ~HeldElsewhere(t, k)}
  IN /\ consumers' = [consumers EXCEPT ![c] = 0]
     /\ sets' = CloseSets(UNION {SourcesOf(k) : k \in gone}, sets)

Stale(c, k) ==
  \E b \in Brokers :
    \/ b \notin coordinators[c]
    \/ coord[c][b].phase # "ready"
    \/ coord[c][b].generation # sets[composites[k].sources[b]].generation

\* The second half of consumer_if_fresh, on the handle the call has read.
\* Before the lock and after it; the removal takes whatever is cached by then.
Refresh(t) ==
  /\ call[t].at \in {"check", "check_locked"}
  /\ IF Stale(Me(t), call[t].seen) \/ is_closed(call[t].seen)
     THEN /\ Evict(t)
          /\ call' = [call EXCEPT ![t].seen = 0,
                                  ![t].at = IF At(t, "check") THEN "lock" ELSE "coordinator"]
          /\ UNCHANGED initializers
     ELSE Return(t, call[t].seen) /\ UNCHANGED <<sets, consumers>>
  /\ UNCHANGED <<composites, lifecycle, coordinators, publishers, requested, coord, objects>>

----------------------------------------------------------------------------
(* consumer(), publisher() and admin_channel(). *)

\* The request is recorded, and the cache read, before anything is awaited.
Begin(t, c, op) ==
  /\ At(t, "idle")
  /\ requested' = [requested EXCEPT ![c] = @ \/ (op = "consumer" /\ Open(c))]
  /\ call' = [call EXCEPT ![t] =
       IF ~Open(c) THEN Returned(0)
       ELSE IF op = "publisher" /\ First \in publishers[c] THEN Returned(0)
       ELSE [NoCall EXCEPT !.client = c, !.op = op,
               !.seen = IF op = "consumer" THEN consumers[c] ELSE 0,
               !.at = IF op = "admin" THEN "coordinator"
                      ELSE IF op = "consumer" /\ consumers[c] # 0 THEN "check" ELSE "lock"]]
  /\ UNCHANGED <<compositeVars, lifecycle, coordinators, publishers, consumers, initializers,
                 coord, objects>>

\* The initializer lock, and the double check behind it.
Lock(t) ==
  LET c == Me(t) op == call[t].op IN
  /\ At(t, "lock") /\ initializers[c][op] = Free
  /\ IF ~Open(c) THEN Return(t, 0)
     ELSE IF op = "publisher" /\ First \in publishers[c] THEN Return(t, 0)
     ELSE /\ initializers' = [initializers EXCEPT ![c][op] = t]
          /\ call' = [call EXCEPT ![t].seen = IF op = "consumer" THEN consumers[c] ELSE 0,
                        ![t].at = IF op = "consumer" /\ consumers[c] # 0 THEN "check_locked"
                                  ELSE "coordinator"]
  /\ UNCHANGED <<compositeVars, lifecycle, coordinators, publishers, consumers, requested,
                 coord, objects>>

\* The coordinator of the target is there: go on with the next broker, then
\* wait for what the coordinators give.
Advanced(t) ==
  IF call[t].op = "consumer" /\ call[t].i < Len(BrokerOrder)
  THEN [call EXCEPT ![t].i = @ + 1, ![t].at = "coordinator"]
  ELSE [call EXCEPT ![t].i = 1, ![t].at = "wait"]

\* RecoveryCoordinator::spawn.
Spawned(c, b) ==
  [NoCoordinator EXCEPT !.phase = "connecting", !.spawned = coord[c][b].spawned + 1]

\* Mutant: a coordinator is spawned without taking its initializer.
SpawnUnlocked(t) ==
  LET c == Me(t) b == Target(t) IN
  /\ At(t, "coordinator") /\ Open(c) /\ b \notin coordinators[c]
  /\ coord' = [coord EXCEPT ![c][b] = Spawned(c, b)]
  /\ Goto(t, "commit_coordinator")
  /\ UNCHANGED <<compositeVars, lifecycle, coordinators, publishers, consumers, requested,
                 initializers, objects>>

SpawnCoordinator(t) ==
  LET c == Me(t) b == Target(t) IN
  /\ At(t, "coordinator") /\ Open(c) /\ b \notin coordinators[c]
  /\ initializers[c][b] = Free
  /\ initializers' = [initializers EXCEPT ![c][b] = t]
  /\ coord' = [coord EXCEPT ![c][b] = Spawned(c, b)]
  /\ Goto(t, "commit_coordinator")
  /\ UNCHANGED <<compositeVars, lifecycle, coordinators, publishers, consumers, requested, objects>>

\* The coordinator is cached, before the initializer or behind it; or the
\* client closed.
FindCoordinator(t) ==
  LET c == Me(t) IN
  /\ At(t, "coordinator")
  /\ IF ~Open(c) THEN Abandon(t)
     ELSE Target(t) \in coordinators[c] /\ call' = Advanced(t) /\ UNCHANGED <<sets, initializers>>
  /\ UNCHANGED <<composites, lifecycle, coordinators, publishers, consumers, requested, coord, objects>>

\* Mutant: commit inserts without looking at the lifecycle.
committed_always(c) == TRUE

\* commit: insert under the lifecycle's lock, unless the client has closed.
commit(c) == Open(c)

Stopped(k) == [k EXCEPT !.phase = "closed", !.set = 0, !.publisher = "closed"]

CommitCoordinator(t) ==
  LET c == Me(t) b == Target(t) IN
  /\ At(t, "commit_coordinator")
  /\ IF commit(c)
     THEN /\ coordinators' = [coordinators EXCEPT ![c] = @ \union {b}]
          /\ initializers' = [initializers EXCEPT ![c][b] = Free]
          /\ call' = Advanced(t) /\ UNCHANGED <<sets, coord>>
     ELSE /\ coord' = [coord EXCEPT ![c][b] = Stopped(@)]
          /\ Return(t, 0)
          /\ sets' = CloseSets(Range(call[t].got) \union {coord[c][b].set}, sets)
          /\ UNCHANGED coordinators
  /\ UNCHANGED <<composites, lifecycle, publishers, consumers, requested, objects>>

\* A new set replaces the registered one, whose handle is dropped.
Register(c, b) ==
  /\ MayOpenSet(c)
  /\ sets' = Append(CloseSets({coord[c][b].set}, sets), NewSet(c, b, coord[c][b].generation))
  /\ coord' = [coord EXCEPT ![c][b].set = Len(sets) + 1]

\* The coordinator's set is current: RecoveryCoordinatorHandle::consumer.
Current(k) == k.set # 0 /\ sets[k.set].generation = k.generation /\ ~sets[k.set].closed

Collected(t, s) ==
  IF call[t].i < Len(BrokerOrder)
  THEN [call EXCEPT ![t].got = Append(@, s), ![t].i = @ + 1]
  ELSE [call EXCEPT ![t].got = Append(@, s), ![t].at = "commit"]

\* wait_for_coordinator_ready, for the set of the target broker.
CollectSet(t) ==
  LET c == Me(t) k == coord[c][Target(t)] IN
  /\ At(t, "wait") /\ call[t].op = "consumer" /\ Open(c) /\ k.phase = "ready"
  /\ IF Current(k) THEN call' = Collected(t, k.set) /\ UNCHANGED <<sets, coord>>
                   ELSE Register(c, Target(t)) /\ call' = Collected(t, Len(sets) + 1)
  /\ UNCHANGED <<composites, lifecycle, coordinators, publishers, consumers, requested,
                 initializers, objects>>

\* An admin channel is there at once; a publisher when its slot is filled,
\* whatever the connection is doing by then.
CollectOther(t) ==
  LET c == Me(t) k == coord[c][First] IN
  /\ At(t, "wait") /\ Open(c)
  /\ \/ call[t].op = "admin" /\ k.phase = "ready" /\ Return(t, 0)
     \/ call[t].op = "publisher" /\ k.publisher = "open" /\ Goto(t, "commit") /\ UNCHANGED initializers
  /\ UNCHANGED <<compositeVars, lifecycle, coordinators, publishers, consumers, requested,
                 coord, objects>>

\* The wait ends without a resource: the client or the coordinator closed,
\* the connection failed for good, or wait_timeout or confirm_timeout passed.
\* consumer() counts the coordinators' initializers in its timeout.
GiveUp(t) ==
  /\ \/ At(t, "wait")
     \/ At(t, "coordinator") /\ call[t].op = "consumer"
  /\ Abandon(t)
  /\ UNCHANGED <<composites, lifecycle, coordinators, publishers, consumers, requested, coord, objects>>

CommitConsumer(t) ==
  LET c == Me(t) k == Len(composites) + 1
      built == from_sources(c, [b \in Brokers |-> call[t].got[CHOOSE i \in DOMAIN BrokerOrder : BrokerOrder[i] = b]])
  IN
  /\ At(t, "commit") /\ call[t].op = "consumer"
  /\ composites' = Append(composites, IF commit(c) THEN built ELSE [built EXCEPT !.closed_by_caller = TRUE])
  /\ IF commit(c)
     THEN consumers' = [consumers EXCEPT ![c] = k] /\ Return(t, k) /\ UNCHANGED sets
     ELSE Abandon(t) /\ UNCHANGED consumers
  /\ UNCHANGED <<lifecycle, coordinators, publishers, requested, coord, objects>>

CommitPublisher(t) ==
  LET c == Me(t) IN
  /\ At(t, "commit") /\ call[t].op = "publisher"
  /\ IF commit(c)
     THEN publishers' = [publishers EXCEPT ![c] = @ \union {First}] /\ Return(t, 0) /\ UNCHANGED coord
     ELSE coord' = [coord EXCEPT ![c][First].publisher = "closed"] /\ Return(t, 0) /\ UNCHANGED publishers
  /\ UNCHANGED <<compositeVars, lifecycle, coordinators, consumers, requested, objects>>

----------------------------------------------------------------------------
(* close(). *)

\* Only the caller that finds the client open closes it.
BeginClose(t, c) ==
  /\ At(t, "idle")
  /\ IF Open(c)
     THEN /\ lifecycle' = [lifecycle EXCEPT ![c] = "closing"]
          /\ call' = [call EXCEPT ![t] = [NoCall EXCEPT !.at = "close_consumers", !.client = c, !.op = "close"]]
     ELSE call' = [call EXCEPT ![t] = Returned(0)] /\ UNCHANGED lifecycle
  /\ UNCHANGED <<compositeVars, coordinators, publishers, consumers, requested, initializers, coord, objects>>

CloseConsumers(t) ==
  LET c == Me(t) IN
  /\ At(t, "close_consumers")
  /\ consumers' = [consumers EXCEPT ![c] = 0]
  /\ IF consumers[c] = 0 THEN UNCHANGED compositeVars ELSE close(consumers[c])
  /\ Goto(t, "take_coordinators")
  /\ UNCHANGED <<lifecycle, coordinators, publishers, requested, initializers, coord, objects>>

\* The map is taken, then its coordinators are closed one after the other;
\* each closes its publisher and the sets it has registered.
TakeCoordinators(t) ==
  LET c == Me(t) IN
  /\ At(t, "take_coordinators")
  /\ coordinators' = [coordinators EXCEPT ![c] = {}]
  /\ call' = [call EXCEPT ![t].got = SetToSeq(coordinators[c]), ![t].at = "close_coordinators"]
  /\ UNCHANGED <<compositeVars, lifecycle, publishers, consumers, requested, initializers, coord, objects>>

CloseCoordinator(t) ==
  LET c == Me(t) b == Head(call[t].got) IN
  /\ At(t, "close_coordinators") /\ call[t].got # <<>>
  /\ coord' = [coord EXCEPT ![c][b] = Stopped(@)]
  /\ sets' = CloseSets({coord[c][b].set}, sets)
  /\ call' = [call EXCEPT ![t].got = Tail(@)]
  /\ UNCHANGED <<composites, lifecycle, coordinators, publishers, consumers, requested, initializers, objects>>

ClosePublishers(t) ==
  LET c == Me(t) IN
  /\ At(t, "close_coordinators") /\ call[t].got = <<>>
  /\ publishers' = [publishers EXCEPT ![c] = {}]
  /\ lifecycle' = [lifecycle EXCEPT ![c] = "closed"]
  /\ call' = [call EXCEPT ![t] = Returned(0)]
  /\ UNCHANGED <<compositeVars, coordinators, consumers, requested, initializers, coord, objects>>

\* The clients of C are closed together, with nobody inside them.
CloseClients(C) ==
  /\ lifecycle' = [c \in Clients |-> IF c \in C THEN "closed" ELSE lifecycle[c]]
  /\ coordinators' = [c \in Clients |-> IF c \in C THEN {} ELSE coordinators[c]]
  /\ publishers' = [c \in Clients |-> IF c \in C THEN {} ELSE publishers[c]]
  /\ consumers' = [c \in Clients |-> IF c \in C THEN 0 ELSE consumers[c]]
  /\ coord' = [c \in Clients |-> [b \in Brokers |->
                 IF c \in C /\ b \in coordinators[c] THEN Stopped(coord[c][b]) ELSE coord[c][b]]]
  /\ sets' = CloseSets(UNION {SourcesOf(consumers[c]) : c \in {d \in C : consumers[d] # 0}}
                        \union {coord[c][b].set : c \in C, b \in Brokers}, sets)
  /\ UNCHANGED <<composites, requested, initializers, call, objects>>

ClientStep(t) ==
  \/ Refresh(t) \/ Lock(t)
  \/ FindCoordinator(t) \/ SpawnCoordinator(t) \/ CommitCoordinator(t)
  \/ CollectSet(t) \/ CollectOther(t) \/ GiveUp(t)
  \/ CommitConsumer(t) \/ CommitPublisher(t)
  \/ CloseConsumers(t) \/ TakeCoordinators(t) \/ CloseCoordinator(t) \/ ClosePublishers(t)

----------------------------------------------------------------------------
(* The coordinators. *)

\* A connection attempt succeeds; recover_generation spawns the publisher at
\* the first one, then opens the requested sets of the new generation.
Connected(c, b) ==
  LET k == coord[c][b] IN
  /\ k.phase \in {"connecting", "recovering"} /\ MayConnect(c)
  /\ coord' = [coord EXCEPT ![c][b].phase = "ready", ![c][b].generation = @ + 1, ![c][b].publisher = "open"]
  /\ UNCHANGED <<compositeVars, lifecycle, coordinators, publishers, consumers, requested,
                 initializers, call, objects>>

Recovered(c, b) ==
  LET k == coord[c][b] IN
  /\ k.phase = "ready" /\ requested[c]
  /\ k.set # 0 => sets[k.set].generation < k.generation
  /\ Register(c, b)
  /\ UNCHANGED <<composites, lifecycle, coordinators, publishers, consumers, requested,
                 initializers, call, objects>>

\* The connection is lost, with every set on it; or it fails for good.
Lost(c, b) ==
  /\ coord[c][b].phase = "ready" /\ MayConnect(c)
  /\ coord' = [coord EXCEPT ![c][b].phase = "recovering"]
  /\ sets' = [s \in DOMAIN sets |->
                IF sets[s].client = c /\ sets[s].broker = b THEN [sets[s] EXCEPT !.live = FALSE] ELSE sets[s]]
  /\ UNCHANGED <<composites, lifecycle, coordinators, publishers, consumers, requested,
                 initializers, call, objects>>

FailedPermanent(c, b) ==
  /\ coord[c][b].phase \in {"connecting", "recovering"}
  /\ coord' = [coord EXCEPT ![c][b].phase = "failed"]
  /\ UNCHANGED <<compositeVars, lifecycle, coordinators, publishers, consumers, requested,
                 initializers, call, objects>>

CoordinatorStep(c, b) == Connected(c, b) \/ Recovered(c, b) \/ Lost(c, b) \/ FailedPermanent(c, b)

----------------------------------------------------------------------------
\* Once a client is closed and no call is left inside it, everything it ever
\* opened is closed, whatever was being acquired while it closed: commit
\* refuses what comes too late and its caller closes it (commit, close).
NothingOutlivesClose ==
  \A c \in Clients :
    lifecycle[c] = "closed" /\ (\A t \in Threads : Me(t) # c) =>
      /\ coordinators[c] = {} /\ publishers[c] = {} /\ consumers[c] = 0
      /\ \A b \in Brokers : coord[c][b].phase \in {"none", "closed"}
      /\ \A s \in DOMAIN sets : sets[s].client = c => sets[s].closed

\* "No second AMQP connection per vhost is ever opened": however many
\* acquisitions race, a client spawns one coordinator per broker (coordinator,
\* initializer).
OneCoordinatorPerBroker == \A c \in Clients : \A b \in Brokers : coord[c][b].spawned <= 1

=============================================================================
