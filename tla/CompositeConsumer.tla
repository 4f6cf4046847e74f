------------------------- MODULE CompositeConsumer -------------------------
(***************************************************************************)
(* ConsumerHandle: the consumer of a worker profile, which merges one       *)
(* consumer set per broker.  A set is seen here as its handle sees it: the  *)
(* generation it was opened in, whether it is closed, and whether the       *)
(* connection it runs on is up (ConsumerActor models what is inside).  A    *)
(* handle is shared by everything that cloned it, and so is its close flag: *)
(* dropping any clone of a set's handle closes the set.                     *)
(*                                                                          *)
(* The operators below are the calls of a handle, on the state of its       *)
(* composite; ClientPool and PhpProcess say who calls them and when.        *)
(***************************************************************************)
EXTENDS Naturals, Sequences, FiniteSets, SequencesExt

CONSTANT Scenarios   \* the configurations a behaviour may start in: the brokers
                     \* of the profile, in subscription order, and the bounds

VARIABLES
  scenario,     \* the configuration of this behaviour
  sets,         \* every consumer set opened so far
  composites    \* every ConsumerHandle built so far

compositeVars == <<sets, composites>>

BrokerOrder == scenario.brokers
Brokers == Range(BrokerOrder)

NewSet(client, broker, generation) ==
  [client |-> client, broker |-> broker, generation |-> generation,
   live |-> TRUE, closed |-> FALSE]

\* "told" is history: the retirements a signal that was taken had announced.
from_sources(client, sources) ==
  [client |-> client, sources |-> sources, retired |-> {}, pending_error |-> FALSE,
   pending_signal |-> FALSE, closed_by_caller |-> FALSE, told |-> {}]

SourcesOf(k) == Range(composites[k].sources)

\* ConsumerSetHandle::close, and Drop, of a set of sets.
CloseSets(S, all) == [s \in DOMAIN all |-> IF s \in S THEN [all[s] EXCEPT !.closed = TRUE] ELSE all[s]]

is_closed(k) == composites[k].closed_by_caller \/ \A s \in SourcesOf(k) : sets[s].closed

\* What one source answers.  A set on a lost connection has its transport
\* error to surface; a closed set serves nothing, not even what it buffered.
\* "full" is a part that fills the batch.
Answers(s) ==
  IF sets[s].closed THEN {"closed"}
  ELSE {"none", "delivery", "full"} \union (IF sets[s].live THEN {} ELSE {"error"})

AnswersOf(c) ==
  LET all == UNION {Answers(c.sources[b]) : b \in Brokers}
  IN {f \in [Brokers -> all] : \A b \in Brokers : f[b] \in Answers(c.sources[b])}

----------------------------------------------------------------------------
(* Polling. *)

all_retired(c) == c.retired = Brokers

\* Mutant: the re-fetch signal shares the slot of the stashed batch error.
retire_one_slot(c, b) ==
  IF b \in c.retired THEN c
  ELSE LET r == [c EXCEPT !.retired = @ \union {b}]
       IN [r EXCEPT !.pending_signal = @ \/ ~(all_retired(r) \/ r.closed_by_caller \/ r.pending_error)]

retire(c, b) ==
  IF b \in c.retired THEN c
  ELSE LET r == [c EXCEPT !.retired = @ \union {b}]
       IN [r EXCEPT !.pending_signal = @ \/ ~(all_retired(r) \/ r.closed_by_caller)]

\* The signal outranks a stashed batch error.
Pending(c) == IF c.pending_signal THEN "signal" ELSE IF c.pending_error THEN "error" ELSE "none"
take_pending(c) ==
  IF c.pending_signal THEN [c EXCEPT !.pending_signal = FALSE, !.told = c.retired]
                      ELSE [c EXCEPT !.pending_error = FALSE]

\* The source to start from is the round-robin offset: any of them.
rotation(start) == SubSeq(BrokerOrder, start, Len(BrokerOrder)) \o SubSeq(BrokerOrder, 1, start - 1)

\* The first source of a rotation, retired ones apart, whose answer is in
\* "stopping"; and the composite once the closed ones before it are retired.
StopAt(c, order, answer, stopping) ==
  LET at == {i \in DOMAIN order : order[i] \notin c.retired /\ answer[order[i]] \in stopping}
  IN IF at = {} THEN Len(order) + 1 ELSE CHOOSE i \in at : \A j \in at : i <= j

Scan(c, order, answer, stop) ==
  FoldLeft(LAMBDA r, b : IF answer[b] = "closed" THEN retire(r, b) ELSE r,
           c, SubSeq(order, 1, stop - 1))

\* Nothing came out of the sources.
Quiet(c) ==
  IF all_retired(c) THEN [composite |-> c, result |-> "closed"]
  ELSE [composite |-> take_pending(c), result |-> Pending(c)]

try_next(c, order, answer) ==
  LET stop == StopAt(c, order, answer, {"delivery", "full", "error"})
      after == Scan(c, order, answer, stop)
  IN IF stop > Len(order) THEN Quiet(after)
     ELSE [composite |-> after, result |-> IF answer[order[stop]] = "error" THEN "error" ELSE "delivery"]

\* An error behind deliveries that were already drained is stashed.
try_next_batch(c, order, answer) ==
  LET stop == StopAt(c, order, answer, {"full", "error"})
      after == Scan(c, order, answer, stop)
      drained == \E i \in 1 .. stop : /\ i \in DOMAIN order /\ order[i] \notin c.retired
                                      /\ answer[order[i]] \in {"delivery", "full"}
      failed == stop <= Len(order) /\ answer[order[stop]] = "error"
  IN CASE failed /\ drained -> [composite |-> [after EXCEPT !.pending_error = TRUE], result |-> "delivery"]
       [] failed /\ ~drained -> [composite |-> after, result |-> "error"]
       [] ~failed /\ drained -> [composite |-> after, result |-> "delivery"]
       [] OTHER -> Quiet(after)

\* One turn of next: the future of source b completes.  A closed source is
\* retired, and the wait goes on only if there is nothing to tell.
next(c, b, answer) ==
  IF answer # "closed" THEN [composite |-> c, result |-> IF answer = "error" THEN "error" ELSE "delivery"]
  ELSE LET r == retire(c, b) IN
       IF all_retired(r) THEN [composite |-> r, result |-> "closed"]
       ELSE [composite |-> take_pending(r), result |-> Pending(r)]

----------------------------------------------------------------------------
(* Closing. *)

\* ConsumerHandle::close reaches every set; the stashes are discarded.
close(k) ==
  /\ composites' = [composites EXCEPT ![k].closed_by_caller = TRUE, ![k].pending_error = FALSE,
                                      ![k].pending_signal = FALSE]
  /\ sets' = CloseSets(SourcesOf(k), sets)

\* A source that was retired while others were live has been announced, or
\* its announcement is still to be taken: a caller that keeps polling a
\* composite learns of every broker that was replaced (retire, take_pending).
RetirementSignalled ==
  \A k \in DOMAIN composites :
    LET c == composites[k] IN
      c.closed_by_caller \/ all_retired(c) \/ c.retired \subseteq c.told \/ c.pending_signal
=============================================================================
