-------------------------- MODULE PublishPipeline --------------------------
(***************************************************************************)
(* The publish path of the extension: the buffer of the PHP pool            *)
(* (PublishBuffer) over ClientPool::publish_batch.  In the confirmed modes  *)
(* the result of a batch comes from the publisher actors and is chosen by   *)
(* the environment (Publisher models them).  In blind mode a batch is       *)
(* handed, one publication after the other, to the publisher's PublishPump, *)
(* and Pool::flush ends with the pump's barrier.                            *)
(***************************************************************************)
EXTENDS PublishBuffer, PublishPump

VARIABLE handed     \* blind batches: how many publications each holder has
                    \* handed over, and whether it holds a reservation for the next

allVars == <<vars, pumpVars, handed>>

ASSUME IdsAssumption == DrainIds \subseteq Nat \ {0} /\ Weight = SizeOf

PHP == 0
Holders == DrainIds \union {PHP}
NotHanded == [count |-> 0, reserved |-> FALSE]

\* The batch a holder has inside publish_batch.
Batch(h) ==
    IF h = PHP THEN (IF At("publishing") THEN php.batch ELSE <<>>)
    ELSE IF h \in Live /\ drains[h].at = "publishing" THEN drains[h].batch ELSE <<>>

NextOf(h) == Batch(h)[handed[h].count + 1]

Reserved == {h \in Holders : handed[h].reserved}
ReservedBytes == SumBytes(SetToSeq({NextOf(h) : h \in Reserved}))

Init ==
    /\ buffer = <<>> /\ bytes = 0
    /\ last_flush = "none" /\ timer = "off"
    /\ drains = [d \in DrainIds |-> NoDrain]
    /\ pending_errors = <<>> /\ dropped_error_records = 0 /\ raised = {} /\ ignored = 0
    /\ dropped_publications = 0
    /\ tearing_down = FALSE /\ claim_open = TRUE /\ client_closed = FALSE
    /\ php = Idle /\ ops = MaxOps /\ failures = MaxFailures
    /\ accepted = {} /\ confirmed = {} /\ returned = {} /\ expired = {} /\ passed = {}
    /\ mode \in Modes /\ stalls = 0
    /\ PumpInit
    /\ handed = [h \in Holders |-> NotHanded]

----------------------------------------------------------------------------
(* publish_batch in blind mode. *)

\* publish_blind reserves the bytes of the next publication.
Reserve(h) ==
    /\ mode = "blind" /\ ~client_closed
    /\ handed[h].count < Len(Batch(h)) /\ ~handed[h].reserved
    /\ try_reserve(NextOf(h))
    /\ handed' = [handed EXCEPT ![h].reserved = TRUE]
    /\ UNCHANGED <<vars, intake, inflight, barrier, channel>>

\* Then hands it to the pump, blocking while the intake queue is full.
HandOff(h) ==
    /\ handed[h].reserved
    /\ send(NextOf(h))
    /\ handed' = [handed EXCEPT ![h] = [count |-> @.count + 1, reserved |-> FALSE]]
    /\ UNCHANGED vars

\* The batch is over: a reservation still held is dropped with its job.
Leave(h) ==
    /\ handed' = [handed EXCEPT ![h] = NotHanded]
    /\ budget' = budget - (IF handed[h].reserved THEN SizeOf[NextOf(h)] ELSE 0)
    /\ UNCHANGED <<intake, inflight, barrier, channel>>

\* A blind batch succeeds once everything is handed over.
Delivered(h) == mode = "blind" => handed[h].count = Len(Batch(h))

\* It fails at the first publication the byte budget refuses, when no
\* publisher is available, or when the client closed under it.
Refusable(h) ==
    mode = "blind" => \/ handed[h].count = 0 /\ ~handed[h].reserved
                      \/ handed[h].count < Len(Batch(h)) /\ Exhausted(NextOf(h))
                      \/ client_closed
                      \/ h = PHP /\ php.op = "destruct"

----------------------------------------------------------------------------
(* Pool::flush's barrier in blind mode. *)

FlushBlind ==
    /\ At("barrier")
    /\ flush
    /\ php' = [php EXCEPT !.at = "barrier_wait"]
    /\ UNCHANGED <<data, drains, faults, dropped_publications, flags, bounds, fates, mode, handed>>

\* The barrier came back; or no publisher is cached any more; or, in the
\* destructor, the budget ran out.
BarrierReturns ==
    /\ \/ At("barrier_wait") /\ barrier = "done" /\ barrier' = "none"
       \/ At("barrier") /\ (client_closed \/ accepted = {}) /\ UNCHANGED barrier
       \/ /\ php.at \in {"barrier", "barrier_wait"}
          /\ php.op = "destruct"
          /\ UNCHANGED barrier
    /\ php' = AfterBarrier(php.op)
    /\ Leaves(php')
    /\ UNCHANGED <<data, drains, faults, dropped_publications, tearing_down, client_closed, bounds,
                   fates, mode, intake, inflight, channel, budget, handed>>

\* Nothing is left to do once the pool object is gone.
Retired ==
    /\ php = Gone /\ Live = {} /\ timer = "off" /\ intake = <<>> /\ inflight = <<>>
    /\ UNCHANGED allVars

----------------------------------------------------------------------------
Publishing ==
    \/ \E h \in Holders : Reserve(h) \/ HandOff(h)
    \/ \E d \in DrainIds, unroutable \in SUBSET Pubs :
         Delivered(d) /\ DrainOk(d, unroutable) /\ Leave(d)
    \/ \E d \in DrainIds : Refusable(d) /\ DrainFails(d) /\ Leave(d)
    \/ \E unroutable \in SUBSET Pubs : Delivered(PHP) /\ FlushOk(unroutable) /\ Leave(PHP)
    \/ FlushErr /\ Refusable(PHP) /\ Leave(PHP)

\* What the PHP program decides to call.
Calls ==
    \/ \E p \in Pubs : Publish(p)
    \/ Flush \/ Pop \/ DrainErrors \/ Close \/ Destruct

\* How the call then runs.
Thread ==
    \/ Recheck \/ Enqueue \/ Arm \/ Trigger \/ SpawnDrain \/ Saturated
    \/ Surface \/ SurfaceIgnored \/ CloseClaim \/ Quiesce \/ EndWait

Tasks ==
    \/ TimerFires
    \/ \E d \in DrainIds : ListDrain(d) \/ TimerDrainTakes(d) \/ DrainPermit(d) \/ DrainRebuffers(d)

Clock == IntervalElapses \/ \E p \in Pubs : DeadlinePasses(p)

Connection == mode = "blind" /\ (clear_channel \/ update_channel)

Next ==
    \/ (Calls \/ Thread \/ Tasks \/ Clock) /\ UNCHANGED <<pumpVars, handed>>
    \/ Publishing
    \/ FlushBlind \/ BarrierReturns
    \/ (PumpStep \/ Connection) /\ UNCHANGED <<vars, handed>>
    \/ Retired

Spec == Init /\ [][Next]_allVars

----------------------------------------------------------------------------
(* Properties. *)

Unsettled == UNION {ToSet(drains[d].batch) : d \in Held}
               \union (IF At("permit") \/ At("publishing") THEN ToSet(php.batch) ELSE {})

HeldCount == Len(buffer) + FoldSet(LAMBDA d, n : Len(drains[d].batch) + n, 0, Held)
               + (IF At("permit") \/ At("publishing") THEN Len(php.batch) ELSE 0)

\* publish_buffer.rs: "no publication is lost silently".  An accepted
\* publication is in the buffer, in one batch being flushed, confirmed or
\* returned, or counted once in dropped_publications.
EveryPublicationAccounted ==
    /\ HeldCount = Cardinality(ToSet(buffer) \union Unsettled)
    /\ (confirmed \union returned) \intersect (ToSet(buffer) \union Unsettled) = {}
    /\ Cardinality(accepted) =
         HeldCount + Cardinality(confirmed \union returned) + dropped_publications
    /\ bytes = SumBytes(buffer)

\* A returned publication is raised to PHP, waits in the error queue, or is
\* covered by dropped_error_records; the records that escape are exactly the
\* ones publish and close ignore with the result of their flush.
ReturnsReported ==
    Cardinality(returned \ (raised \union Told(ToSet(pending_errors))))
      <= dropped_error_records + ignored

\* Pool::flush is a barrier when nothing stalls beyond the budget: at its
\* return nothing accepted is still buffered or in a drain, nor (blind mode)
\* inside the pump.
FlushIsBarrier ==
    (At("surface") /\ php.op = "flush" /\ stalls = 0)
      => buffer = <<>> /\ Held = {} /\ Jobs(intake) = <<>> /\ inflight = <<>>

\* flush_teardown sets tearing_down before it quiesces, so that no drain
\* re-buffers into a buffer nobody flushes, also one that outlasts the budget
\* and ends when the pool object is gone.  What the buffer then holds was put
\* there by a drain that had found the flag unset just before the destructor
\* set it (the load and the push of rebuffer_or_drop are two steps), and only
\* if the wait for that drain ran out.
NothingStranded ==
    (php = Gone /\ buffer # <<>>) => ToSet(buffer) \subseteq passed /\ stalls > 0

\* The pump's byte budget is exactly what its jobs, and the hand-offs waiting
\* for room in its queue, have reserved.
PumpBudgetBalanced == budget = JobBytes(intake) + JobBytes(inflight) + ReservedBytes

=============================================================================
