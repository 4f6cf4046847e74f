-------------------------- MODULE PublishContract --------------------------
(***************************************************************************)
(* What PublisherHandle promises to a caller, whatever the actor, the      *)
(* connection and the broker do: an accepted publish gets one outcome, the *)
(* outcome is final, and with confirms it is Confirmed only for a          *)
(* publication the broker acknowledged.  Publisher implements it.          *)
(***************************************************************************)
CONSTANTS Pubs,     \* the publications callers submit
          Confirms  \* SafetyMode::Safe

VARIABLES status,   \* what the caller knows about each publication
          stored    \* the publications the broker has acknowledged

Init == status = [p \in Pubs |-> "idle"] /\ stored = {}

\* try_publish returned a waiter.
Accept(p) == /\ status[p] = "idle"
             /\ status' = [status EXCEPT ![p] = "accepted"]
             /\ UNCHANGED stored

\* The broker acknowledged p, which the caller does not know yet.
Store(p) == /\ status[p] = "accepted"
            /\ stored' = stored \cup {p}
            /\ UNCHANGED status

Confirm(p) == /\ status[p] = "accepted" /\ (Confirms => p \in stored)
              /\ status' = [status EXCEPT ![p] = "confirmed"]
              /\ UNCHANGED stored

\* Publications fail, or are reported as returned, together: an outage or a
\* shutdown ends many of them in one step.
Fail(S) == /\ \A p \in S : status[p] = "accepted"
           /\ status' = [p \in Pubs |-> IF p \in S THEN "failed" ELSE status[p]]
           /\ UNCHANGED stored

Next == \/ \E p \in Pubs : Accept(p) \/ Store(p) \/ Confirm(p)
        \/ \E S \in SUBSET Pubs : Fail(S)

Spec == Init /\ [][Next]_<<status, stored>>
=============================================================================
