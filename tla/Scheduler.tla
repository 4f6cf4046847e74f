----------------------------- MODULE Scheduler -----------------------------
(***************************************************************************)
(* WeightedFairScheduler of consumer/scheduler.rs: smooth weighted round   *)
(* robin over the subscriptions that are ready.  A scheduler is a record:  *)
(* who is ready, the credit of each entry, and the cursor at which the     *)
(* next pick starts to look.                                               *)
(***************************************************************************)
EXTENDS Integers, Sequences, FiniteSets, Functions

CONSTANTS
  Order,    \* the subscriptions in the order they were registered
  Weight    \* SubscriptionPolicy::weight of each

Subs == Range(Order)
Entries == DOMAIN Order

ASSUME SchedulerAssumption ==
  /\ Order \in Seq(Subs) /\ Order # <<>> /\ IsInjective(Order)
  /\ Weight \in [Subs -> Nat \ {0}]

\* register, for every subscription of the set.
Registered == [ready |-> {}, credit |-> [s \in Subs |-> 0], cursor |-> 0]

mark_ready(q, s) ==
  IF s \in q.ready THEN q
  ELSE [q EXCEPT !.ready = @ \cup {s}, !.credit[s] = 0]

mark_empty(q, s) == [q EXCEPT !.ready = @ \ {s}, !.credit[s] = 0]

Credited(q) == [s \in Subs |-> q.credit[s] + (IF s \in q.ready THEN Weight[s] ELSE 0)]

\* How far entry i lies behind the cursor, in the order pick walks.
Offset(q, i) == (i - 1 - q.cursor + Len(Order)) % Len(Order)

\* The entry pick chooses: the largest credit, and among equals the last one
\* the walk meets (Iterator::max_by_key).
Chosen(q) ==
  CHOOSE i \in Entries :
    /\ Order[i] \in q.ready
    /\ \A j \in Entries : Order[j] \in q.ready =>
         LET ci == Credited(q)[Order[i]]
             cj == Credited(q)[Order[j]]
         IN cj < ci \/ (cj = ci /\ Offset(q, j) <= Offset(q, i))

picked(q) == Order[Chosen(q)]

\* The scheduler after pick has returned picked(q).
pick(q) ==
  [q EXCEPT !.credit = [Credited(q) EXCEPT
                          ![picked(q)] = @ - SumFunctionOnSet(Weight, q.ready)],
            !.cursor = Chosen(q) % Len(Order)]
=============================================================================
