---------------------------- MODULE MCPublisher ----------------------------
(* Instances of Publisher for TLC. *)
EXTENDS Publisher, TLC

CONSTANTS p1, p2, p3

\* With MaxBytes = 2 the byte budget runs out before the permits do.
UnitSize == [p \in Pubs |-> 1]
MixedSize == [p \in Pubs |-> IF p = p1 THEN 2 ELSE 1]

\* A loss the coordinator saw, and the recovery on a second channel.
LossAndRecovery == {Recovering(1), Ready(2, 2, TRUE)}

\* A loss, then the recovery of a later generation or the permanent end.
LossAndEnd == {Recovering(0), Ready(2, 2, TRUE), FailedEvent(2)}

\* A recovery that a later loss overtakes, or that comes without its topology,
\* and the recovery of the later generation; only one of them happens.  The
\* loss without a generation is connection_lost.
StaleRecovery == {Recovering(0), Recovering(2), Ready(1, 2, TRUE), Ready(1, 2, FALSE),
                  Ready(2, 2, TRUE)}

PlainPubs == Permutations(Pubs)
SmallPubs == Permutations(Pubs \ {p1})
=============================================================================
