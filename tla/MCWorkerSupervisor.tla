------------------------- MODULE MCWorkerSupervisor -------------------------
(* Two connections, one of them with two queues: fleets drained in once     *)
(* mode, with work that a crash sends back and a gauge that fails, and      *)
(* long-running fleets that are scaled, drained by the prestop hook and     *)
(* stopped.                                                                 *)
EXTENDS WorkerSupervisor

CONSTANTS eu, us, mail, bulk, logs

MCPlan == <<eu, us>>
MCQueues == eu :> {mail, bulk} @@ us :> {logs}
Jobs(m, b, l) == mail :> m @@ bulk :> b @@ logs :> l

Quiet == [mode |-> "empty", native |-> TRUE, workers |-> 1, min |-> 1, max |-> 0,
          maxRestarts |-> 1, baseBackoff |-> 1, jobs |-> Jobs(1, 0, 1), crashes |-> 0,
          recycles |-> 0, publishes |-> 0, hooks |-> 0, deaf |-> FALSE, blind |-> {},
          signals |-> FALSE]

\* Native probes, and children that crash with their job: of both connections,
\* and one of a connection again and again.
Drain == [Quiet EXCEPT !.crashes = 1]
Crashing == [Quiet EXCEPT !.crashes = 3, !.jobs = Jobs(1, 0, 0)]

\* A gauge that may fail at every reading, for either queue of a connection.
Blind == [Quiet EXCEPT !.mode = "once", !.blind = {mail, bulk}, !.jobs = Jobs(1, 1, 0), !.crashes = 1]

\* The same with one queue, and a signal.
Signalled == [Blind EXCEPT !.blind = {mail}, !.jobs = Jobs(1, 0, 0), !.signals = TRUE]

\* The management gauge, and admission by the scaler.
Managed == [Quiet EXCEPT !.mode = "once", !.native = FALSE, !.max = 2, !.jobs = Jobs(3, 0, 0),
                         !.crashes = 1]

\* Scaling up and down with children that may not observe SIGTERM.
Scaled == [Quiet EXCEPT !.mode = "loop", !.native = FALSE, !.max = 3, !.jobs = Jobs(3, 0, 0),
                        !.deaf = TRUE, !.publishes = 1]

\* Recycling, crashes and the prestop hook.
Hooked == [Quiet EXCEPT !.mode = "loop", !.jobs = Jobs(1, 0, 0), !.crashes = 2, !.recycles = 1,
                        !.hooks = 1, !.signals = TRUE, !.deaf = TRUE]

MCSetups == {Drain, Crashing, Blind, Signalled, Managed, Scaled, Hooked}
=============================================================================
