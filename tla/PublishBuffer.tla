--------------------------- MODULE PublishBuffer ---------------------------
(***************************************************************************)
(* The publish buffer of the PHP extension (classes/publish_buffer.rs) with *)
(* the operations of the Pool class that drive it (classes/pool.rs).  The   *)
(* PHP thread runs one operation at a time; the interval timer and the      *)
(* pipelined drains run on the tokio runtime and interleave with it.        *)
(*                                                                         *)
(* Time is abstract.  last_flush is "fresh" until the interval has elapsed *)
(* and "due" afterwards; the sleeping timer either was armed after the last *)
(* assignment of last_flush ("covers": it wakes when last_flush is due) or  *)
(* before it ("stale": it may wake earlier).  The result of                *)
(* ClientPool::publish_batch is chosen by the environment.                 *)
(***************************************************************************)
EXTENDS Integers, Sequences, FiniteSets, SequencesExt

CONSTANTS
    Pubs,               \* publications 1..n, in the order PHP publishes them
    SizeOf,             \* payload bytes of a publication
    Expirable,          \* publications whose deadline may pass
    FlushThreshold,     \* PUBLISH_BUFFER_THRESHOLD
    MaxMessages,        \* PUBLISH_BUFFER_MAX_MESSAGES
    MaxBytes,           \* PUBLISH_BUFFER_MAX_BYTES
    MaxDrains,          \* MAX_CONCURRENT_DRAINS
    MaxPendingErrors,   \* MAX_PENDING_ERRORS
    DrainIds,           \* bound: drain tasks alive at once
    MaxOps,             \* bound: operations of the PHP thread other than publish
    MaxFailures,        \* bound: batches that fail or find no drain slot
    Ops,                \* which of those operations the PHP program calls
    Modes,              \* safety modes of the pool, "confirmed" or "blind"
    MaxStalls           \* bound, for each mode: waits that outlast the
                        \* TEARDOWN_FLUSH_BUDGET, and pauses of the timer thread

ASSUME BufferAssumption ==
    /\ Pubs \subseteq Nat \ {0} /\ SizeOf \in [Pubs -> Nat]
    /\ Expirable \subseteq Pubs
    /\ {FlushThreshold, MaxMessages, MaxBytes, MaxDrains, MaxPendingErrors} \subseteq Nat \ {0}
    /\ Ops \subseteq {"flush", "pop", "drainErrors", "close"}
    /\ Modes \subseteq {"confirmed", "blind"}

VARIABLES
    buffer, bytes,      \* Buffered: the publications waiting, and their bytes
    last_flush,         \* "none", "fresh" or "due"
    timer,              \* "off", "covers" or "stale"; timer_pending is timer # "off"
    drains,             \* the spawned drain tasks
    pending_errors, dropped_error_records, dropped_publications,
    tearing_down, claim_open, client_closed,
    php,                \* where the PHP thread is in its current operation
    ops, failures,      \* operations still to be called, failures still to come
    accepted, confirmed, returned, expired,
    raised,             \* returned publications PHP has heard of
    ignored,            \* error records in flush results that publish or close ignored
    passed,             \* publications of the drains that had found tearing_down
                        \* unset, and not yet re-buffered, when it was set
    mode,               \* the pool's safety mode, chosen once
    stalls              \* how often something has stalled

data == <<buffer, bytes, last_flush, timer>>
faults == <<pending_errors, dropped_error_records, raised, ignored>>
flags == <<tearing_down, claim_open, client_closed>>
fates == <<accepted, confirmed, returned, expired, passed>>
bounds == <<ops, failures, stalls>>
vars == <<data, drains, faults, dropped_publications, flags, php, bounds, fates, mode>>

NoDrain == [at |-> "none"]
Idle == [at |-> "idle"]
Gone == [at |-> "gone"]

Live == {d \in DrainIds : drains[d] # NoDrain}
FreeIds == DrainIds \ Live
NewId == CHOOSE d \in FreeIds : \A e \in FreeIds : d <= e
Held == {d \in Live : drains[d].batch # <<>>}
Permits == MaxDrains - Cardinality({d \in Live : drains[d].permit})

Returned(p) == [kind |-> "Returned", message_id |-> p]
Failed == [kind |-> "Failed"]

SumBytes(s) == FoldSeq(LAMBDA p, n : SizeOf[p] + n, 0, s)

----------------------------------------------------------------------------
(* The shared state's helpers. *)

\* record_error on a whole list: past the bound the oldest record is evicted
\* and counted.
record_errors(list, popped) ==
    LET all == popped \o list
        surplus == IF Len(all) > MaxPendingErrors THEN Len(all) - MaxPendingErrors ELSE 0
    IN  /\ pending_errors' = SubSeq(all, surplus + 1, Len(all))
        /\ dropped_error_records' = dropped_error_records + surplus

Record(list) == record_errors(list, pending_errors) /\ UNCHANGED <<raised, ignored>>

would_overflow(p) == Len(buffer) >= MaxMessages \/ bytes + SizeOf[p] > MaxBytes

should_flush == Len(buffer) >= FlushThreshold \/ last_flush = "due"

\* take on the buffer: both counters go back to zero together.
take == buffer' = <<>> /\ bytes' = 0

\* last_flush := now.  A timer armed earlier no longer covers the batch.
ResetInterval ==
    /\ last_flush' = "fresh"
    /\ timer' = IF timer = "off" THEN "off" ELSE "stale"

\* ensure_flush_timer returns early while a timer is pending, whatever batch
\* that timer was armed for.
ensure_flush_timer == timer' = IF timer = "off" THEN "covers" ELSE timer

\* The publications rebuffer keeps: the ones whose deadline has not passed.
Retriable(batch) == SelectSeq(batch, LAMBDA p : p \notin expired)

\* Mutant: the expired publications are counted and kept.
rebuffer_expired(batch) ==
    /\ buffer' = buffer \o batch
    /\ bytes' = bytes + SumBytes(batch)
    /\ dropped_publications' = dropped_publications + Len(batch) - Len(Retriable(batch))

rebuffer(batch) ==
    LET kept == Retriable(batch)
    IN  /\ buffer' = buffer \o kept
        /\ bytes' = bytes + SumBytes(kept)
        /\ dropped_publications' = dropped_publications + Len(batch) - Len(kept)

DropCounted(batch) ==
    /\ dropped_publications' = dropped_publications + Len(batch)
    /\ UNCHANGED <<buffer, bytes>>

\* rebuffer_or_drop's test: nobody will flush the buffer again.
NobodyFlushes == tearing_down \/ client_closed

Settle(batch, unroutable) ==
    /\ confirmed' = confirmed \union (ToSet(batch) \ unroutable)
    /\ returned' = returned \union unroutable
    /\ UNCHANGED <<accepted, expired, passed>>

\* The error records of the returned publications, in batch order.
ReturnedErrors(batch, unroutable) ==
    LET hit == SelectSeq(batch, LAMBDA p : p \in unroutable)
    IN  [i \in DOMAIN hit |-> Returned(hit[i])]

\* What publish_batch can answer for a batch: it fails Closed only once the
\* client closed, and a blind hand-off never reports a return.
CanReturn(batch, unroutable) ==
    unroutable \subseteq ToSet(batch) /\ (mode = "blind" => unroutable = {})

----------------------------------------------------------------------------
(* Operations of the PHP thread. *)

Fails == failures > 0 /\ failures' = failures - 1 /\ UNCHANGED ops
Stalls == stalls < MaxStalls[mode] /\ stalls' = stalls + 1

Open == claim_open
At(pc) == php.at = pc

Enter(pc, op) == [at |-> pc, op |-> op, pub |-> 0, batch |-> <<>>, started |-> FALSE]

\* Pool::publish: a full buffer is flushed first, best effort.
Publish(p) ==
    /\ At("idle") /\ Open
    /\ p = Cardinality(accepted) + 1
    /\ php' = [Enter(IF would_overflow(p) THEN "quiesce" ELSE "enqueue", "publish")
                 EXCEPT !.pub = p]
    /\ UNCHANGED <<data, drains, faults, dropped_publications, flags, bounds, fates, mode>>

\* The second would_overflow: Backpressure is raised when the flush made no room.
Recheck ==
    /\ At("recheck")
    /\ php' = IF would_overflow(php.pub) THEN Idle ELSE [php EXCEPT !.at = "enqueue"]
    /\ UNCHANGED <<data, drains, faults, dropped_publications, flags, bounds, fates, mode>>

\* PublishBuffer::enqueue up to the release of the buffer's lock.
Enqueue ==
    /\ At("enqueue")
    /\ buffer' = Append(buffer, php.pub)
    /\ bytes' = bytes + SizeOf[php.pub]
    /\ accepted' = accepted \union {php.pub}
    /\ php' = IF buffer = <<>>
              THEN [php EXCEPT !.at = "arm", !.started = TRUE]
              ELSE [php EXCEPT !.at = "trigger"]
    /\ UNCHANGED <<last_flush, timer, drains, faults, dropped_publications, flags, bounds,
                   confirmed, returned, expired, passed, mode>>

\* The rest of enqueue: the first publication of a batch restarts the clock.
Arm ==
    /\ At("arm")
    /\ ResetInterval
    /\ php' = [php EXCEPT !.at = "trigger"]
    /\ UNCHANGED <<buffer, bytes, drains, faults, dropped_publications, flags, bounds, fates, mode>>

\* publish's trigger: flush_triggered takes the batch, otherwise the first
\* publication of a batch arms the timer.
Trigger ==
    /\ At("trigger")
    /\ \/ /\ should_flush
          /\ take
          /\ php' = IF buffer = <<>> THEN [php EXCEPT !.at = "surface"]
                    ELSE [php EXCEPT !.at = "permit", !.batch = buffer]
          /\ UNCHANGED <<last_flush, timer>>
       \/ /\ ~should_flush
          /\ IF php.started THEN ensure_flush_timer ELSE UNCHANGED timer
          /\ php' = [php EXCEPT !.at = "surface"]
          /\ UNCHANGED <<buffer, bytes, last_flush>>
    /\ UNCHANGED <<drains, faults, dropped_publications, flags, bounds, fates, mode>>

\* flush_pipelined with a drain slot: the batch is spawned on the runtime.
SpawnDrain ==
    /\ At("permit")
    /\ Permits > 0
    /\ FreeIds # {}
    /\ drains' = [drains EXCEPT ![NewId] = [at |-> "publishing", batch |-> php.batch,
                                            handle |-> "listed", permit |-> TRUE]]
    /\ php' = [php EXCEPT !.at = "surface", !.batch = <<>>]
    /\ UNCHANGED <<data, faults, dropped_publications, flags, bounds, fates, mode>>

\* flush_pipelined without one: re-buffered, the timer armed, Backpressure
\* raised.  Only this thread sets the flags rebuffer_or_drop tests.
Saturated ==
    /\ At("permit")
    /\ Stalls
    /\ rebuffer(php.batch)
    /\ ensure_flush_timer
    /\ php' = Idle
    /\ Fails
    /\ UNCHANGED <<last_flush, drains, faults, flags, fates, mode>>

\* Mutant: the surplus is discarded uncounted.
surface_uncounted ==
    /\ pending_errors' = <<>>
    /\ UNCHANGED dropped_error_records

\* surface_publish_errors: the oldest record is raised, the surplus counted.
\* publish and close discard the result of the flush they call, with it the
\* record the flush would have raised.
surface_publish_errors ==
    /\ pending_errors' = <<>>
    /\ dropped_error_records' =
         dropped_error_records + (IF pending_errors = <<>> THEN 0 ELSE Len(pending_errors) - 1)

Told(records) == {e.message_id : e \in records \ {Failed}}
Heard(errors) == IF errors = <<>> THEN {} ELSE {errors[1]}

Surface ==
    /\ At("surface")
    /\ surface_publish_errors
    /\ raised' = raised \union Told(Heard(pending_errors))
    /\ php' = Idle
    /\ UNCHANGED <<data, drains, ignored, dropped_publications, flags, bounds, fates, mode>>

\* The surface_publish_errors of a flush whose result is ignored.
SurfaceIgnored ==
    /\ At("swallow")
    /\ surface_publish_errors
    /\ ignored' = ignored + Cardinality(Heard(pending_errors))
    /\ php' = [php EXCEPT !.at = IF php.op = "close" THEN "closing" ELSE "recheck"]
    /\ UNCHANGED <<data, drains, raised, dropped_publications, flags, bounds, fates, mode>>

Call(op) ==
    /\ At("idle")
    /\ ops > 0 /\ op \in Ops
    /\ ops' = ops - 1 /\ UNCHANGED <<failures, stalls>>

\* Pool::flush, and the flush publishBatch starts with.
Flush ==
    /\ Call("flush") /\ Open
    /\ php' = Enter("quiesce", "flush")
    /\ UNCHANGED <<data, drains, faults, dropped_publications, flags, fates, mode>>

\* flush_nonempty, before a consumer waits for deliveries.
Pop ==
    /\ Call("pop") /\ Open
    /\ php' = Enter("quiesce", IF buffer = <<>> THEN "pop_wait" ELSE "pop")
    /\ UNCHANGED <<data, drains, faults, dropped_publications, flags, fates, mode>>

\* Pool::drainErrors.
DrainErrors ==
    /\ Call("drainErrors") /\ Open
    /\ raised' = raised \union Told(ToSet(pending_errors))
    /\ pending_errors' = <<>>
    /\ UNCHANGED <<data, drains, dropped_error_records, ignored, dropped_publications, flags, php,
                   fates, mode>>

\* Pool::close: its flush refuses a closed pool, which is ignored.
Close ==
    /\ Call("close")
    /\ php' = Enter(IF Open THEN "quiesce" ELSE "closing", "close")
    /\ UNCHANGED <<data, drains, faults, dropped_publications, flags, fates, mode>>

\* The claim is given up once; closing the last one closes the client.
CloseClaim ==
    /\ At("closing")
    /\ claim_open' = FALSE
    /\ \/ UNCHANGED client_closed
       \/ claim_open /\ client_closed' = TRUE
    /\ php' = Idle
    /\ UNCHANGED <<data, drains, faults, dropped_publications, tearing_down, bounds, fates, mode>>

Midway == {d \in Live : drains[d].at = "rebuffering"}

\* Mutant: tearing_down is never set.
DestructUnflagged ==
    /\ At("idle")
    /\ php' = Enter("quiesce", "destruct")
    /\ passed' = UNION {ToSet(drains[d].batch) : d \in Midway}
    /\ UNCHANGED <<data, drains, faults, dropped_publications, flags, bounds, accepted, confirmed,
                   returned, expired, mode>>

\* Pool::__destruct sets tearing_down before it quiesces.
Destruct ==
    /\ At("idle")
    /\ tearing_down' = TRUE
    /\ php' = Enter("quiesce", "destruct")
    /\ passed' = UNION {ToSet(drains[d].batch) : d \in Midway}
    /\ UNCHANGED <<data, drains, faults, dropped_publications, claim_open, client_closed, bounds,
                   accepted, confirmed, returned, expired, mode>>

\* quiesce_within: sleeping timers are aborted, the listed drains awaited.
Quiesce ==
    /\ At("quiesce")
    /\ timer' = "off"
    /\ drains' = [d \in DrainIds |-> IF d \in Live /\ drains[d].handle = "listed"
                                     THEN [drains[d] EXCEPT !.handle = "awaited"] ELSE drains[d]]
    /\ php' = [php EXCEPT !.at = "wait"]
    /\ UNCHANGED <<buffer, bytes, last_flush, faults, dropped_publications, flags, bounds, fates,
                   mode>>

Awaited == {d \in Live : drains[d].handle = "awaited"}

\* Mutant: the drains are not awaited.
WaitEndsAtOnce == UNCHANGED stalls

\* The wait ends when the awaited drains have, or at the budget, after which
\* the late ones run on detached.
WaitEnds == IF Awaited = {} THEN UNCHANGED stalls ELSE Stalls

Detach(dr) ==
    [d \in DrainIds |-> IF dr[d] # NoDrain /\ dr[d].handle = "awaited"
                        THEN [dr[d] EXCEPT !.handle = "detached"] ELSE dr[d]]

\* Where an operation goes when its flush succeeded, and when it failed.  In
\* blind mode Pool::flush goes on to flush_blind, and the destructor does
\* whatever its flush gave.
AfterBarrier(op) ==
    CASE op = "flush" -> [php EXCEPT !.at = "surface", !.batch = <<>>]
      [] op \in {"publish", "close"} -> [php EXCEPT !.at = "swallow", !.batch = <<>>]
      [] op = "destruct" -> Gone
      [] OTHER -> Idle

AfterOk(op) ==
    IF mode = "blind" /\ op # "pop" THEN [php EXCEPT !.at = "barrier", !.batch = <<>>]
    ELSE AfterBarrier(op)

AfterErr(op) ==
    CASE op = "publish" -> [php EXCEPT !.at = "recheck", !.batch = <<>>]
      [] op = "close" -> [php EXCEPT !.at = "closing", !.batch = <<>>]
      [] op = "destruct" -> AfterOk(op)
      [] OTHER -> Idle

\* An operation that hears the error of its flush.
Hears(op) == op \in {"flush", "pop"}
Ignores(op) == op \in {"publish", "close"}

Leaves(next) == claim_open' = (claim_open /\ next.at # "gone")

\* A consumer's pop with an empty buffer only waits; every other operation
\* takes the buffer, the explicit flushes after restarting the interval clock.
EndWait ==
    /\ At("wait")
    /\ WaitEnds
    /\ drains' = Detach(drains)
    /\ \/ /\ php.op = "pop_wait"
          /\ php' = Idle
          /\ UNCHANGED <<data, claim_open>>
       \/ /\ php.op # "pop_wait"
          /\ take
          /\ IF php.op = "destruct" THEN UNCHANGED <<last_flush, timer>> ELSE ResetInterval
          /\ php' = IF buffer = <<>> THEN AfterOk(php.op)
                    ELSE [php EXCEPT !.at = "publishing", !.batch = buffer]
          /\ Leaves(php')
    /\ UNCHANGED <<faults, dropped_publications, tearing_down, client_closed, ops, failures, fates, mode>>

\* flush_batch (flush_teardown) with every outcome known: the first returned
\* publication is raised and the others recorded (all of them recorded).
FlushOk(unroutable) ==
    /\ At("publishing") /\ ~client_closed
    /\ CanReturn(php.batch, unroutable)
    /\ Settle(php.batch, unroutable)
    /\ LET errors == ReturnedErrors(php.batch, unroutable)
       IN  /\ record_errors(IF errors # <<>> /\ php.op # "destruct" THEN Tail(errors) ELSE errors,
                            pending_errors)
           /\ raised' = raised \union (IF Hears(php.op) THEN Told(Heard(errors)) ELSE {})
           /\ ignored' = ignored + (IF Ignores(php.op) THEN Cardinality(Heard(errors)) ELSE 0)
    /\ php' = IF unroutable = {} THEN AfterOk(php.op) ELSE AfterErr(php.op)
    /\ Leaves(php')
    /\ UNCHANGED <<data, drains, dropped_publications, tearing_down, client_closed, bounds, mode>>

\* The error arm of flush_batch and flush_teardown: the batch goes back to
\* the buffer, except that the destructor counts it as dropped.
disposes(batch) == IF php.op = "destruct" THEN DropCounted(batch) ELSE rebuffer(batch)

FlushErr ==
    /\ At("publishing")
    /\ disposes(php.batch)
    /\ IF php.op = "destruct" THEN UNCHANGED <<ops, failures>> ELSE Fails
    /\ php' = AfterErr(php.op)
    /\ Leaves(php')
    /\ UNCHANGED <<last_flush, timer, drains, faults, tearing_down, client_closed, stalls, fates,
                   mode>>

----------------------------------------------------------------------------
(* The runtime's tasks. *)

\* run_flush_timer: should_flush is evaluated again when the sleep ends.  The
\* drain it spawns is listed at once, or later when the thread stalls.
TimerFires ==
    /\ timer # "off"
    /\ timer' = "off"
    /\ last_flush' = IF timer = "covers" THEN "due" ELSE last_flush
    /\ \/ /\ Len(buffer) < FlushThreshold /\ last_flush' # "due"
          /\ UNCHANGED <<drains, stalls>>
       \/ /\ Len(buffer) >= FlushThreshold \/ last_flush' = "due"
          /\ FreeIds # {}
          /\ \E handle \in {"listed", "unlisted"} :
               /\ drains' = [drains EXCEPT ![NewId] = [at |-> "spawned", batch |-> <<>>,
                                                       permit |-> FALSE, handle |-> handle]]
               /\ IF handle = "unlisted" THEN Stalls ELSE UNCHANGED stalls
    /\ UNCHANGED <<buffer, bytes, faults, dropped_publications, flags, php, ops, failures, fates, mode>>

ListDrain(d) ==
    /\ d \in Live /\ drains[d].handle = "unlisted"
    /\ drains' = [drains EXCEPT ![d].handle = "listed"]
    /\ UNCHANGED <<data, faults, dropped_publications, flags, php, bounds, fates, mode>>

\* run_timer_drain takes whatever the buffer holds when it first runs.
TimerDrainTakes(d) ==
    /\ d \in Live /\ drains[d].at = "spawned"
    /\ take
    /\ drains' = [drains EXCEPT ![d] = IF buffer = <<>> THEN NoDrain
                                       ELSE [@ EXCEPT !.at = "waiting", !.batch = buffer]]
    /\ UNCHANGED <<last_flush, timer, faults, dropped_publications, flags, php, bounds, fates, mode>>

DrainPermit(d) ==
    /\ d \in Live /\ drains[d].at = "waiting"
    /\ Permits > 0
    /\ drains' = [drains EXCEPT ![d] = [@ EXCEPT !.at = "publishing", !.permit = TRUE]]
    /\ UNCHANGED <<data, faults, dropped_publications, flags, php, bounds, fates, mode>>

Finish(d) == drains' = [drains EXCEPT ![d] = NoDrain]

\* run_drain with every outcome known.
DrainOk(d, unroutable) ==
    /\ d \in Live /\ drains[d].at = "publishing"
    /\ CanReturn(drains[d].batch, unroutable)
    /\ Settle(drains[d].batch, unroutable)
    /\ Record(ReturnedErrors(drains[d].batch, unroutable))
    /\ Finish(d)
    /\ UNCHANGED <<data, dropped_publications, flags, php, bounds, mode>>

\* run_drain's error arm and the saturated arm of run_timer_drain, up to the
\* flags rebuffer_or_drop reads.  A Closed error counts the batch as dropped.
DrainFails(d) ==
    /\ d \in Live
    /\ \/ drains[d].at = "publishing" /\ UNCHANGED stalls
       \/ drains[d].at = "waiting" /\ Stalls
    /\ \/ /\ NobodyFlushes
          /\ DropCounted(drains[d].batch)
          /\ Record(<<Failed>>)
          /\ IF drains[d].permit THEN UNCHANGED timer ELSE ensure_flush_timer
          /\ Finish(d)
          /\ UNCHANGED <<last_flush, ops, failures>>
       \/ /\ ~NobodyFlushes
          /\ drains' = [drains EXCEPT ![d].at = "rebuffering"]
          /\ Fails
          /\ UNCHANGED <<data, faults, dropped_publications>>
    /\ UNCHANGED <<flags, php, fates, mode>>

\* The rest of it.  Only the saturated arm arms a timer for the batch.
DrainRebuffers(d) ==
    /\ d \in Live /\ drains[d].at = "rebuffering"
    /\ rebuffer(drains[d].batch)
    /\ IF drains[d].permit THEN UNCHANGED timer ELSE ensure_flush_timer
    /\ Record(<<Failed>>)
    /\ Finish(d)
    /\ UNCHANGED <<last_flush, flags, php, bounds, fates, mode>>

----------------------------------------------------------------------------
(* The clock. *)

IntervalElapses ==
    /\ last_flush = "fresh"
    /\ last_flush' = "due"
    /\ UNCHANGED <<buffer, bytes, timer, drains, faults, dropped_publications, flags, php, bounds,
                   fates, mode>>

DeadlinePasses(p) ==
    /\ p \in Expirable \ expired
    /\ p \in accepted
    /\ expired' = expired \union {p}
    /\ UNCHANGED <<data, drains, faults, dropped_publications, flags, php, bounds, accepted,
                   confirmed, returned, passed, mode>>

=============================================================================
