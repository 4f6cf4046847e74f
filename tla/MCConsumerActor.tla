-------------------------- MODULE MCConsumerActor --------------------------
(***************************************************************************)
(* Instances of ConsumerActor for TLC.  The subscription s1 settles its    *)
(* deliveries; s2 is idle, or has early_ack and a flood of deliveries.     *)
(***************************************************************************)
EXTENDS ConsumerActor

CONSTANTS s1, s2

Both     == <<s1, s2>>
Weighted == [s \in Subs |-> IF s = s1 THEN 2 ELSE 1]

Each(n, m) == [s \in Subs |-> IF s = s1 THEN n ELSE m]
Sizes(n, m, large) ==
  [d \in ({s1} \X (1..n)) \cup ({s2} \X (1..m)) |-> IF d \in large THEN 2 ELSE 1]

Quiet == [poison |-> {}, deadLetter |-> {}, earlyAck |-> {}, noAck |-> {},
          batchMax |-> 2, confirms |-> TRUE, releaseFaults |-> {}, losses |-> {}, resizable |-> {},
          closes |-> FALSE]

\* Three deliveries settled in every way, with delayed releases that may fail.
Settle3 ==
  [supply |-> Each(3, 0), size |-> Sizes(3, 0, {}), maxBytes |-> Each(2, 1),
   prefetch |-> Each(2, 1), releaseFaults |-> {"Publish"},
   hows |-> {"ack", "release", "requeue", "through"}] @@ Quiet

\* Two weighted subscriptions: a poison delivery of s1, an oversized one of
\* s2, and n early-acked deliveries of s2 to fill the flume.
FlowOf(n) ==
  [supply |-> Each(2, n), size |-> Sizes(2, n, {<<s2, 1>>}), maxBytes |-> Each(1, 1),
   prefetch |-> Each(1, 1), poison |-> {<<s1, 2>>}, deadLetter |-> {s1},
   earlyAck |-> {s2}, hows |-> {"ack", "stale"}] @@ Quiet

\* A window larger than the byte budget, a resize, a close, and a loss.
EndingOf(n, lost) ==
  [supply |-> Each(n, 0), size |-> Sizes(n, 0, {}), maxBytes |-> Each(1, 1),
   prefetch |-> Each(2, 1), losses |-> lost, resizable |-> {s1}, closes |-> TRUE,
   hows |-> {"ack"}] @@ Quiet

\* A poison delivery between two that are acknowledged, or released with a
\* delay nothing can honour.
Overtaken ==
  [supply |-> Each(3, 0), size |-> Sizes(3, 0, {}), maxBytes |-> Each(2, 1),
   prefetch |-> Each(2, 1), poison |-> {<<s1, 2>>}, deadLetter |-> {s1},
   releaseFaults |-> {"InvalidDelay"}, hows |-> {"ack", "release", "through"}] @@ Quiet

\* Delayed releases through a publisher without confirms.
Unconfirmed ==
  [supply |-> Each(2, 0), size |-> Sizes(2, 0, {}), maxBytes |-> Each(2, 1),
   prefetch |-> Each(2, 1), confirms |-> FALSE, releaseFaults |-> {"InvalidDelay"},
   hows |-> {"ack", "release"}] @@ Quiet

\* The connection is lost: both channels go down, with deliveries on the way.
Lost ==
  [supply |-> Each(1, 1), size |-> Sizes(1, 1, {}), maxBytes |-> Each(1, 1),
   prefetch |-> Each(1, 1), losses |-> {s1, s2}, noAck |-> {s1, s2},
   earlyAck |-> {s1, s2}, hows |-> {}] @@ Quiet

Safety   == {Settle3, FlowOf(5), Overtaken, Unconfirmed}
Liveness == {EndingOf(3, {}), EndingOf(2, {s1}), FlowOf(3), Lost}
=============================================================================
