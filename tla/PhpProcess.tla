----------------------------- MODULE PhpProcess -----------------------------
(***************************************************************************)
(* A PHP process using the extension: threads that construct, use, close    *)
(* and drop Pool and Consumer objects, over the registry of connection      *)
(* handles (RuntimeRegistry), the clients behind them (ClientPool) and the  *)
(* composed consumers (CompositeConsumer).  A thread holds at most one Pool *)
(* object; a Consumer object outlives the Pool it came from.  The model     *)
(* follows a fork into the child.                                           *)
(***************************************************************************)
EXTENDS ClientPool, RuntimeRegistry

VARIABLE php    \* the Pool object of each thread, and what the thread does

vars == <<scenario, clientVars, registryVars, php>>
elsewhere == <<scenario, registryVars>>

ASSUME ScenarioAssumption ==
  \A s \in Scenarios : s.handles <= MaxHandles /\ s.ops \subseteq {"consumer", "publisher", "admin"} /\ s.polls \subseteq BOOLEAN

ASSUME ClientsAssumption == Clients = 1 .. MaxHandles

\* "late" is history: the claim was taken while the client was being closed.
NoPool == [at |-> "idle", handle |-> 0, pid |-> 0, claim_open |-> FALSE, evicted |-> 0, late |-> FALSE]

Init ==
  /\ ClientInit /\ RegistryInit
  /\ php = [t \in Threads |-> NoPool]

Idle(t) == php[t].at = "idle" /\ call[t].at = "idle"
HasPool(t) == php[t].handle # 0
Native(t) == php[t].pid = pid

\* Pool::ensure_open.
ensure_open(t) == HasPool(t) /\ Native(t) /\ php[t].claim_open /\ ~handles[php[t].handle].closed

Become(t, where) == php' = [php EXCEPT ![t].at = where]

----------------------------------------------------------------------------
(* Pool objects. *)

\* Some thread is between the release of the last claim on h and the
\* retirement of the handle.
Closing(h) == \E t \in Threads : php[t].at = "closing" /\ php[t].handle = h

\* __construct: acquire; when that evicted a handle, its client is closed
\* before the call returns; then the handle's client.
Construct(t, key) ==
  /\ Idle(t) /\ ~HasPool(t)
  /\ Cardinality({u \in Threads : HasPool(u)}) < scenario.pools
  /\ Reusable(key) = <<>> => Len(handles) < scenario.handles
  /\ LET a == Acquired(key) IN
       /\ handles' = a.handles /\ process' = a.process
       /\ php' = [php EXCEPT ![t] =
            [at |-> IF a.evicted = 0 THEN "attach" ELSE "evict", handle |-> a.handle, pid |-> pid,
             claim_open |-> TRUE, evicted |-> a.evicted, late |-> Closing(a.handle)]]
  /\ UNCHANGED <<scenario, clientVars, pid>>

\* close_evicted_pool.
Evicting(t) ==
  /\ php[t].at = "evict"
  /\ BeginClose(t, php[t].evicted) /\ Become(t, "evicting")
  /\ UNCHANGED elsewhere

Evicted(t) ==
  /\ php[t].at = "evicting" /\ At(t, "returned")
  /\ call' = [call EXCEPT ![t] = NoCall]
  /\ Become(t, "attach")
  /\ UNCHANGED <<compositeVars, cacheVars, objects, elsewhere>>

\* ConnectionHandle::client.
Attach(t) ==
  /\ php[t].at = "attach"
  /\ php' = [php EXCEPT ![t].at = "idle", ![t].evicted = 0]
  /\ lifecycle' = [lifecycle EXCEPT ![php[t].handle] = IF @ = "none" THEN "open" ELSE @]
  /\ UNCHANGED <<compositeVars, coordinators, publishers, consumers, requested, initializers, coord,
                 call, objects, elsewhere>>

\* consumer(), a publish that needs its publisher, or an admin operation.
Call(t, op) ==
  /\ Idle(t) /\ ensure_open(t)
  /\ op = "consumer" => Len(composites) + Cardinality({u \in Threads : call[u].op = "consumer"}) < scenario.composites
  /\ Begin(t, php[t].handle, op)
  /\ Become(t, op)
  /\ UNCHANGED elsewhere

\* The call returns to PHP.  A consumer is assigned to the variable that held
\* the previous one, if there was one; a call that failed throws.
Receive(t) ==
  /\ php[t].at \in scenario.ops /\ At(t, "returned")
  /\ LET k == call[t].seen IN
       objects' = IF k = 0 THEN objects
                  ELSE [objects EXCEPT ![t] = [current |-> k, old |-> @.current]]
  /\ call' = [call EXCEPT ![t] = NoCall]
  /\ Become(t, IF objects'[t].old = 0 THEN "idle" ELSE "destruct")
  /\ UNCHANGED <<compositeVars, cacheVars, elsewhere>>

\* Pool::close: the claim, and with the last one the client, then the handle.
ClosePool(t) ==
  LET h == php[t].handle IN
  /\ Idle(t) /\ HasPool(t) /\ Native(t) /\ php[t].claim_open
  /\ release_claim(h)
  /\ php' = [php EXCEPT ![t].claim_open = FALSE, ![t].at = IF HoldsLast(h) THEN "closing" ELSE "idle"]
  /\ UNCHANGED <<scenario, clientVars, pid, process>>

\* close_claim: a handle that is already retired is not closed again.
CloseClaim(t) ==
  LET h == php[t].handle IN
  /\ php[t].at = "closing"
  /\ \/ At(t, "idle") /\ ~handles[h].closed /\ BeginClose(t, h) /\ UNCHANGED <<handles, php>>
     \/ /\ At(t, "returned") \/ (At(t, "idle") /\ handles[h].closed)
        /\ handles' = Retired({h}, handles)
        /\ Become(t, "idle")
        /\ call' = [call EXCEPT ![t] = NoCall]
        /\ UNCHANGED <<compositeVars, cacheVars, objects>>
  /\ UNCHANGED <<scenario, pid, process>>

\* The object is collected; without a close its claim is released here.
DestructPool(t) ==
  /\ Idle(t) /\ HasPool(t)
  /\ php' = [php EXCEPT ![t] = NoPool]
  /\ IF Native(t) /\ php[t].claim_open THEN release_claim(php[t].handle) ELSE UNCHANGED handles
  /\ UNCHANGED <<scenario, clientVars, pid, process>>

----------------------------------------------------------------------------
(* Consumer objects. *)

\* Only objects of this process are polled or closed.
Ours(k) == handles[composites[k].client].pid = pid

Poll(t, batch) ==
  /\ Idle(t) /\ objects[t].current # 0 /\ Ours(objects[t].current)
  /\ \E start \in DOMAIN BrokerOrder :
     LET k == objects[t].current c == composites[k] IN
     \E answer \in AnswersOf(c) :
       LET r == IF batch THEN try_next_batch(c, rotation(start), answer)
                         ELSE try_next(c, rotation(start), answer)
       IN /\ composites' = [composites EXCEPT ![k] = r.composite]
          /\ Become(t, IF r.result # "none" THEN "idle" ELSE IF batch THEN "wait_batch" ELSE "wait")
  /\ UNCHANGED <<sets, cacheVars, call, objects, elsewhere>>

\* The slow path: next under a timeout, inside block_on.
Wait(t) ==
  LET k == objects[t].current c == composites[k] IN
  /\ php[t].at \in {"wait", "wait_batch"}
  /\ \E b \in Brokers \ c.retired : \E answer \in Answers(c.sources[b]) \ {"none", "full"} :
       LET r == next(c, b, answer) IN
         /\ composites' = [composites EXCEPT ![k] = r.composite]
         /\ Become(t, CASE r.result = "none" -> php[t].at
                        [] r.result = "delivery" /\ php[t].at = "wait_batch" -> "drain"
                        [] OTHER -> "idle")
  /\ UNCHANGED <<sets, cacheVars, call, objects, elsewhere>>

WaitElapsed(t) ==
  /\ php[t].at \in {"wait", "wait_batch"}
  /\ Become(t, "idle")
  /\ UNCHANGED <<clientVars, elsewhere>>

\* nextBatch drains what else is there; an error is thrown, and the delivery
\* the wait has returned goes with it.
Drain(t) ==
  LET k == objects[t].current c == composites[k] IN
  /\ php[t].at = "drain"
  /\ \E start \in DOMAIN BrokerOrder :
     \E answer \in AnswersOf(c) :
       composites' = [composites EXCEPT ![k] = try_next_batch(c, rotation(start), answer).composite]
  /\ Become(t, "idle")
  /\ UNCHANGED <<sets, cacheVars, call, objects, elsewhere>>

\* Consumer::close and __destruct close the shared handle.  A thread drops
\* its consumer, or the assignment of a new one has replaced it.
DropConsumer(t) ==
  /\ \/ Idle(t) /\ objects[t].current # 0 /\ objects' = [objects EXCEPT ![t].current = 0]
     \/ php[t].at = "destruct" /\ objects' = [objects EXCEPT ![t].old = 0]
  /\ LET k == IF Idle(t) THEN objects[t].current ELSE objects[t].old IN
       IF Ours(k) THEN close(k) ELSE UNCHANGED compositeVars
  /\ Become(t, "idle")
  /\ UNCHANGED <<cacheVars, call, elsewhere>>

----------------------------------------------------------------------------
(* The process. *)

Quiescent == \A t \in Threads : Idle(t)

\* RuntimeRegistry::close at module shutdown, when every object is gone and no
\* PHP code runs any more.  The state of another process is only invalidated.
RegistryClose ==
  /\ Quiescent /\ process # NoProcess
  /\ \A t \in Threads : ~HasPool(t) /\ objects[t].current = 0
  /\ process' = NoProcess
  /\ handles' = Retired(ToSet(process.pools), handles)
  /\ CloseClients({c \in ToSet(process.pools) : Open(c) /\ process.pid = pid})
  /\ php' = [t \in Threads |-> [NoPool EXCEPT !.at = "exited"]]
  /\ UNCHANGED <<scenario, pid>>

\* The child of a fork: one thread, the memory of the parent, no runtime.
Fork(t) ==
  /\ Quiescent /\ pid <= scenario.forks
  /\ pid' = pid + 1
  /\ php' = [u \in Threads |-> IF u = t THEN php[t] ELSE NoPool]
  /\ objects' = [u \in Threads |-> IF u = t THEN objects[t] ELSE [current |-> 0, old |-> 0]]
  /\ UNCHANGED <<scenario, compositeVars, cacheVars, call, process, handles>>

\* The coordinators run on the runtime of the process that spawned them.
Background ==
  /\ \E c \in DOMAIN handles : handles[c].pid = pid /\ \E b \in Brokers : CoordinatorStep(c, b)
  /\ UNCHANGED <<elsewhere, php>>

Inside(t) == ClientStep(t) /\ UNCHANGED <<elsewhere, php>>

Next ==
  \/ \E t \in Threads :
       \/ \E key \in Keys : Construct(t, key)
       \/ Evicting(t) \/ Evicted(t) \/ Attach(t)
       \/ \E op \in scenario.ops : Call(t, op)
       \/ Inside(t) \/ Receive(t)
       \/ ClosePool(t) \/ CloseClaim(t) \/ DestructPool(t)
       \/ \E batch \in scenario.polls : Poll(t, batch)
       \/ Wait(t) \/ WaitElapsed(t) \/ Drain(t) \/ DropConsumer(t)
       \/ Fork(t)
  \/ RegistryClose \/ Background

Spec == Init /\ [][Next]_vars

----------------------------------------------------------------------------
\* A pool that was neither closed nor dropped works: no eviction, and no
\* close of a sibling with the same fingerprint, retires its handle or closes
\* its client, unless the claim was taken while the last one before it was
\* being closed (acquire, take_oldest_idle_pool, close_claim).
InUseStaysOpen ==
  \A t \in Threads :
    LET h == php[t].handle IN
      php[t].claim_open /\ Native(t) /\ ~php[t].late =>
        ~handles[h].closed /\ handles[h].pid = pid /\ lifecycle[h] \in {"none", "open"}
=============================================================================
