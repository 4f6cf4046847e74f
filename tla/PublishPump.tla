----------------------------- MODULE PublishPump -----------------------------
(***************************************************************************)
(* The blind publish pump (publisher/pump.rs): a bounded intake queue, a    *)
(* background loop that moves jobs from it to a bounded set of publishes    *)
(* pending on the transport, a flush barrier that travels through the same  *)
(* queue, and the byte budget every job holds until it leaves the pump.     *)
(***************************************************************************)
EXTENDS Integers, Sequences, SequencesExt

CONSTANTS
    Weight,         \* payload bytes of a publication
    BufferCapacity, \* bound of the intake queue
    InflightCap,    \* publishes pending on the transport at once
    MaxBudget,      \* ByteBudget's ceiling
    Unroutable      \* delayed publications the delay strategy or its
                    \* declaration may refuse

ASSUME PumpAssumption ==
    {BufferCapacity, InflightCap, MaxBudget} \subseteq Nat \ {0}

VARIABLES
    intake,     \* PumpJob queue
    inflight,   \* publishes pending on the transport
    barrier,    \* the flush barrier: "none", "queued", "draining" or "done"
    channel,    \* whether the slot holds a transport channel
    budget      \* ByteBudget::current

pumpVars == <<intake, inflight, barrier, channel, budget>>

\* A job is its publication; the job without one is a flush barrier.
Barrier == 0
Jobs(s) == SelectSeq(s, LAMBDA j : j # Barrier)
JobBytes(s) == FoldSeq(LAMBDA j, n : Weight[j] + n, 0, Jobs(s))

PumpInit ==
    /\ intake = <<>> /\ inflight = <<>>
    /\ barrier = "none"
    /\ channel = TRUE
    /\ budget = 0

\* ByteBudget::try_reserve.
try_reserve(p) ==
    /\ budget + Weight[p] <= MaxBudget
    /\ budget' = budget + Weight[p]

Exhausted(p) == budget + Weight[p] > MaxBudget

\* PublishPump::send of a job whose bytes are reserved; a full queue blocks.
send(p) ==
    /\ Len(intake) < BufferCapacity
    /\ intake' = Append(intake, p)
    /\ UNCHANGED <<inflight, barrier, channel, budget>>

\* PublishPump::flush queues a barrier behind every job already accepted.
flush ==
    /\ barrier = "none"
    /\ Len(intake) < BufferCapacity
    /\ intake' = Append(intake, Barrier)
    /\ barrier' = "queued"
    /\ UNCHANGED <<inflight, channel, budget>>

\* pump_loop's intake branch: paused at the cap and while a barrier drains.
Taking == intake # <<>> /\ Len(inflight) < InflightCap /\ barrier # "draining"

\* Mutant: the reservation is leaked.
LeavesUnreleased(job) == UNCHANGED budget

LeavesPump(job) == budget' = budget - Weight[job]

IntakeJob ==
    /\ Taking /\ Head(intake) # Barrier
    /\ channel
    /\ intake' = Tail(intake)
    /\ inflight' = Append(inflight, Head(intake))
    /\ UNCHANGED <<barrier, channel, budget>>

\* Without a channel, or with a delay that cannot be routed or declared, the
\* job is dropped and its reservation released.
IntakeDrops ==
    /\ Taking /\ Head(intake) # Barrier
    /\ ~channel \/ Head(intake) \in Unroutable
    /\ intake' = Tail(intake)
    /\ LeavesPump(Head(intake))
    /\ UNCHANGED <<inflight, barrier, channel>>

\* The barrier drains everything pending before it is acknowledged.
IntakeBarrier ==
    /\ Taking /\ Head(intake) = Barrier
    /\ intake' = Tail(intake)
    /\ barrier' = "draining"
    /\ UNCHANGED <<inflight, channel, budget>>

Drained == inflight = <<>>

BarrierResolves ==
    /\ barrier = "draining"
    /\ Drained
    /\ barrier' = "done"
    /\ UNCHANGED <<intake, inflight, channel, budget>>

\* A pending publish completes, written or failed alike.
PublishCompletes ==
    \E i \in DOMAIN inflight :
        /\ inflight' = RemoveAt(inflight, i)
        /\ LeavesPump(inflight[i])
        /\ UNCHANGED <<intake, barrier, channel>>

\* clear_channel at the start of a recovery and update_channel at its end.
clear_channel ==
    /\ channel /\ channel' = FALSE
    /\ UNCHANGED <<intake, inflight, barrier, budget>>

update_channel ==
    /\ ~channel /\ channel' = TRUE
    /\ UNCHANGED <<intake, inflight, barrier, budget>>

PumpStep ==
    \/ IntakeJob \/ IntakeDrops \/ IntakeBarrier \/ BarrierResolves \/ PublishCompletes

=============================================================================
