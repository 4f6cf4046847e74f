------------------------- MODULE MCDelayedDelivery -------------------------
(* Configurations for the model checking of DelayedDelivery: the buckets are 1
   and 3, the expiry margin 4, so the keep-alive runs every other unit of time and a
   bucket queue expires after 5 or 7. *)
EXTENDS DelayedDelivery, TLC

Nothing == [specs |-> <<>>, bindings |-> {}]

DeadLetter == <<[exchange |-> "dlx", queue |-> "failed", key |-> "{queue}"]>>

\* The configuration of the Laravel driver: a declared direct exchange, TTL
\* delays, jobs released at once.
Laravel ==
  [mode |-> "declare", quorum |-> TRUE, delay |-> "ttl", buckets |-> {1, 3}, margin |-> 4, subs |-> <<"a">>, extras |-> <<>>,
   route |-> [exchange |-> "jobs", key |-> "{queue}"], dead_letter |-> DeadLetter, max_attempts |-> 2,
   provisioned |-> Nothing, targets |-> {"a"}, delays |-> {0, 1, 2}, releases |-> {0},
   limit |-> 2, outage |-> 1, clears |-> FALSE, mandatory |-> TRUE]

\* Two queues with a shared dead-letter queue; a delay above every bucket.
TwoQueues == [Laravel EXCEPT !.subs = <<"a", "b">>, !.targets = {"a", "b"}, !.delays = {0, 1, 4}, !.max_attempts = 1]

\* The default exchange with the delayed-message plugin.
Plugin ==
  [Laravel EXCEPT !.delay = "plugin", !.route.exchange = "", !.dead_letter = <<>>, !.quorum = FALSE, !.clears = TRUE]

\* The plugin, with the delayed exchange of the queue's retries bound.
ProvisionedPlugin ==
  [Plugin EXCEPT !.mode = "external", !.releases = {0, 1}, !.limit = 1, !.max_attempts = 3,
                 !.provisioned = [specs |-> <<[name |-> "a", dead |-> {}]>>,
                                  bindings |-> {Binding("a", delayed_exchange_name(Exchange(x)), "a") : x \in {"", "a"}}]]

\* The plugin and a named route, whose delayed exchange nobody has bound.
PluginRoute == [Plugin EXCEPT !.route.exchange = "jobs", !.clears = FALSE, !.delays = {0, 1}, !.limit = 1]

\* A queue of a profile synthesized at run time, and publishes that are not
\* mandatory: its queue is declared when it is requested, its delay queues for
\* publishes expire.
Synthesized == [Laravel EXCEPT !.extras = <<"c">>, !.targets = {"c"}, !.delays = {1}, !.mandatory = FALSE]

\* A queue of another process, which no profile of the configuration subscribes
\* to and a synthesized one may consume: its delay queues for publishes expire,
\* those for releases are kept alive.
Elsewhere ==
  [Laravel EXCEPT !.mode = "external", !.extras = <<"c">>, !.targets = {"c"}, !.delays = {1}, !.releases = {1},
                  !.dead_letter = <<>>, !.max_attempts = 3,
                  !.provisioned = [specs |-> <<[name |-> "c", dead |-> {}]>>,
                                   bindings |-> {Binding("c", Exchange(x), "c") : x \in {"jobs", "c"}}]]

\* Jobs cleared while they come due.
Clearing == [Laravel EXCEPT !.outage = 0, !.releases = {}, !.delays = {1, 2}, !.clears = TRUE]

\* A topology provisioned by the operator, with an exchange named like the
\* queue: delayed releases come back to the queue.
Provisioned ==
  LET queue == [name |-> "a", dead |-> {}] IN
  [Laravel EXCEPT !.mode = "verify", !.dead_letter = <<>>, !.delays = {0, 2}, !.releases = {0, 1, 4}, !.max_attempts = 3,
                  !.limit = 1, !.clears = TRUE,
                  !.provisioned = [specs |-> <<queue>>,
                                   bindings |-> {Binding("a", Exchange("jobs"), "a"), Binding("a", Exchange("a"), "a")}]]

\* A queue in two profiles, with dead-lettering: the declarations disagree.
Twice == [Laravel EXCEPT !.subs = <<"a", "a">>]

Everything == {Laravel, TwoQueues, Plugin, PluginRoute, Synthesized, Provisioned, ProvisionedPlugin, Elsewhere,
               Clearing, Twice}

\* The Laravel configuration with delayed releases.
DelayedRelease == {[Laravel EXCEPT !.releases = {0, 1}]}

Symmetry == Permutations(Job)
=============================================================================
