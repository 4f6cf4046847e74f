----------------------- MODULE MCRecoveryCoordinator -----------------------
(* Instances of RecoveryCoordinator for TLC.  q2 is a profile synthesized at
   run time; the callers of an environment are pairs of a task and the profile
   it asks for. *)
EXTENDS RecoveryCoordinator, TLC

CONSTANTS co, c1, c2, a1, q1, q2

\* A loss while recovery and one caller race each other; channels fail.
Racing ==
  [faults |-> {"lost"}, losses |-> 1, generations |-> 2, connect_timeout |-> 0, ticks |-> 0,
   channel_faults |-> TRUE, timely |-> FALSE, early |-> 0, keep_alive |-> FALSE, refusals |-> FALSE,
   closes |-> FALSE, callers |-> {<<c1, q2>>}, admins |-> FALSE]

\* The same with close() instead of channel failures, and the keep-alive.
Ending == [Racing EXCEPT !.channel_faults = FALSE, !.keep_alive = TRUE, !.closes = TRUE]

\* One connection with traffic: two callers for a configured and a synthesized
\* profile, an admin channel, the keep-alive, and a connect attempt that takes
\* its time.
Traffic ==
  [Racing EXCEPT !.losses = 0, !.generations = 1, !.connect_timeout = 1, !.ticks = 1, !.channel_faults = FALSE,
                 !.keep_alive = TRUE, !.callers = {c1, c2} \X {q1, q2}, !.admins = TRUE]

\* A loss, refused connections and refused declares, and close().
Failing ==
  [Racing EXCEPT !.faults = {"lost", "refused"}, !.channel_faults = FALSE, !.timely = TRUE, !.refusals = TRUE,
                 !.closes = TRUE]

\* A loss whose backoff may end before anybody has dealt with it.
Hasty == [Racing EXCEPT !.channel_faults = FALSE, !.timely = TRUE, !.early = 1, !.generations = 4]

Safety == {Racing, Ending, Traffic}
Liveness == {Failing, Hasty}
=============================================================================
