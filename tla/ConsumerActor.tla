--------------------------- MODULE ConsumerActor ---------------------------
(***************************************************************************)
(* One consumer set: the actor of consumer/actor.rs with its ledgers, the  *)
(* pumps and handle of consumer/set.rs and the delivery tokens of          *)
(* consumer/delivery.rs, between the broker's channels and an embedder     *)
(* that pops deliveries and settles them from another thread.              *)
(*                                                                         *)
(* A delivery is a subscription and its delivery tag; every subscription   *)
(* has a channel of its own, so a subscription also stands for its         *)
(* ChannelKey.  Payloads are sizes.  A settlement error is the tag and     *)
(* the kind it was recorded with.                                          *)
(***************************************************************************)
EXTENDS Scheduler, SequencesExt

CONSTANTS
  CommandCap,   \* COMMAND_CAPACITY of the command channels
  ErrorCap,     \* SOURCE_ERROR_CAPACITY
  Setups        \* the policies of a set, and what happens to it

VARIABLE setup  \* the one of this behaviour; it never changes

Supply   == setup.supply      \* how many deliveries the broker has for each subscription
Size     == setup.size        \* payload bytes of each delivery
MaxBytes == setup.maxBytes    \* max_buffered_bytes of each subscription
Prefetch == setup.prefetch    \* the QoS window of each subscription
Poison   == setup.poison      \* deliveries whose attempts are above max_attempts
DeadLetter == setup.deadLetter    \* subscriptions with a dead-letter exchange
EarlyAck == setup.earlyAck    \* subscriptions with early_ack
NoAck    == setup.noAck       \* subscriptions with no_ack
Hows     == setup.hows        \* bound: the settlements the embedder asks for
BatchMax == setup.batchMax    \* bound: the largest batch the embedder pops
Confirms == setup.confirms    \* the delayed publisher runs in the safe mode, with confirms
ReleaseFaults == setup.releaseFaults  \* bound: how a delayed release may fail before its ack
Losses   == setup.losses      \* bound: channels that may go down
Resizable == setup.resizable  \* subscriptions whose adaptive controller changes the window
Closes   == setup.closes      \* bound: whether the embedder closes the set

Tags(s)  == 1..Supply[s]
Delivery == UNION {{s} \X Tags(s) : s \in Subs}

\* A source error travels through the same queues as a delivery.
SourceError(s) == <<s, 0>>
IsError(d) == d[2] = 0

PoisonKinds == {"MaxAttempts", "InvalidDelay"}
Retryable   == {"Publish", "MissingPublisher"}

ASSUME ConsumerAssumption ==
  /\ CommandCap \in Nat \ {0} /\ ErrorCap \in Nat \ {0}
  /\ \A u \in Setups :
       LET D == UNION {{s} \X (1..u.supply[s]) : s \in Subs} IN
       /\ u.supply \in [Subs -> Nat] /\ u.size \in [D -> Nat]
       /\ u.maxBytes \in [Subs -> Nat] /\ u.prefetch \in [Subs -> Nat \ {0}]
       /\ u.poison \subseteq D /\ u.deadLetter \subseteq Subs
       /\ u.earlyAck \subseteq Subs /\ u.noAck \subseteq u.earlyAck
       /\ u.hows \subseteq {"ack", "requeue", "reject", "release", "through", "stale"}
       /\ u.batchMax \in Nat \ {0} /\ u.releaseFaults \subseteq PoisonKinds \cup Retryable
       /\ u.losses \subseteq Subs /\ u.resizable \subseteq Subs \ u.earlyAck
       /\ {u.closes, u.confirms} \subseteq BOOLEAN

TotalPrefetch == SumFunctionOnSet(Prefetch, Subs)
FlumeCap   == 2 * TotalPrefetch
PendingCap == IF TotalPrefetch > CommandCap THEN TotalPrefetch ELSE CommandCap

VARIABLES
  \* the broker and its channels
  broker,        \* what became of each delivery
  copies,        \* deliveries whose delayed copy the broker stored
  channel,       \* the channel of each subscription is open
  unknown,       \* settlements the broker refused with 406
  \* the pump of each subscription
  pump, stream, since,
  ended,         \* history: the subscriptions whose pump sent its error, in order
  \* the queues around the actor
  incoming, control, flume, notify, closed,
  \* the actor
  pc, back,      \* where run_actor is, and where dispatch returns to
  state,         \* what ActorState keeps for each subscription
  pending,       \* pending_incoming
  sched,         \* scheduler
  source_errors, flume_error_items,
  spawned,       \* channel operations of detached tasks
  \* the embedder
  popped, asked, waiting, stash, surfaced

brokerVars   == <<broker, copies, channel, unknown>>
pumpVars     == <<pump, stream, since, ended>>
embedderVars == <<popped, asked, waiting, stash, surfaced>>
stockVars    == <<flume, source_errors, flume_error_items>>
actorVars    == <<pc, back, state, pending, sched>>
vars == <<setup, brokerVars, pumpVars, incoming, control, notify, closed, actorVars,
          stockVars, spawned, embedderVars>>

\* A settlement future: its channel operation, the tag it names, the
\* deliveries it settles, and how far it got.
Op(op, t, A) == [op |-> op, tag |-> t, affected |-> A, result |-> "none"]
NoOp == Op("none", 0, {})

\* Per subscription: buffers, buffered_bytes, the ChannelLedger (pending,
\* acked_prefix), acked_batch, the settlement in flight and the two queues
\* behind it, early_acked_tags, and the tokens handed out.
Fresh(s) == [buffer |-> <<>>, bytes |-> 0, ledger |-> {}, prefix |-> 0,
             batch |-> {}, inflight |-> NoOp, singles |-> <<>>,
             throughs |-> <<>>, ring |-> <<>>,
             token |-> [t \in Tags(s) |-> "none"], settling |-> {},
             errors |-> {}]

Init ==
  /\ setup \in Setups
  /\ broker = [d \in Delivery |-> "queued"] /\ copies = {} /\ unknown = {}
  /\ channel = [s \in Subs |-> TRUE]
  /\ pump = [s \in Subs |-> "consuming"] /\ since = [s \in Subs |-> 0]
  /\ stream = [s \in Subs |-> <<>>] /\ ended = <<>>
  /\ incoming = <<>> /\ control = <<>> /\ flume = <<>>
  /\ notify = FALSE /\ closed = FALSE
  /\ pc = "control" /\ back = "control"
  /\ state = [s \in Subs |-> Fresh(s)]
  /\ pending = <<>> /\ sched = Registered
  /\ source_errors = <<>> /\ flume_error_items = 0 /\ spawned = {}
  /\ popped = {} /\ asked = [d \in Delivery |-> {}]
  /\ waiting = FALSE /\ stash = {} /\ surfaced = {}

-----------------------------------------------------------------------------
(* The broker, modelled from the channel operations the code uses.          *)

Unacked(s) == {t \in Tags(s) : broker[<<s, t>>] = "unacked"}

\* The channel closes and the broker requeues what was not settled on it.
Down(s) ==
  /\ channel' = [channel EXCEPT ![s] = FALSE]
  /\ broker' = [d \in Delivery |->
       IF d[1] = s /\ broker[d] = "unacked" THEN "requeued" ELSE broker[d]]

\* basic.ack, basic.reject on an open channel.  A tag that is not unacked is
\* a 406 that closes the channel; the call itself has already returned.
Settle(s, op, t) ==
  IF t \notin Unacked(s)
    THEN Down(s) /\ unknown' = unknown \cup {<<s, t>>}
    ELSE /\ broker' = [d \in Delivery |->
              CASE d = <<s, t>> /\ op = "requeue" -> "requeued"
                [] d = <<s, t>> /\ op = "reject"  -> "rejected"
                [] d = <<s, t>> /\ op \notin {"requeue", "reject"} -> "acked"
                [] d[1] = s /\ d[2] < t /\ op = "through" /\ d[2] \in Unacked(s)
                     -> "acked"
                [] OTHER -> broker[d]]
         /\ UNCHANGED <<channel, unknown>>

\* The broker dispatches the next delivery within the window, which counts
\* what this consumer holds (since: the last tag of the consumers before it);
\* with no_ack a delivery counts as acknowledged at once.
BrokerDeliver(s) ==
  /\ channel[s] /\ pump[s] = "consuming"
  /\ s \notin NoAck => Cardinality({t \in Unacked(s) : t > since[s]}) < Prefetch[s]
  /\ \E t \in Tags(s) :
       /\ broker[<<s, t>>] = "queued"
       /\ \A u \in 1..(t - 1) : broker[<<s, u>>] # "queued"
       /\ broker' = [broker EXCEPT ![<<s, t>>] = IF s \in NoAck THEN "acked" ELSE "unacked"]
       /\ stream' = [stream EXCEPT ![s] = Append(@, <<s, t>>)]
  /\ UNCHANGED <<setup, copies, channel, unknown, pump, since, ended, incoming, control,
                 notify, closed, actorVars, stockVars, spawned, embedderVars>>

ChannelDown(s) ==
  /\ s \in Losses /\ channel[s] /\ Down(s)
  /\ UNCHANGED <<setup, copies, unknown, pumpVars, incoming, control, notify, closed,
                 actorVars, stockVars, spawned, embedderVars>>

-----------------------------------------------------------------------------
(* The pump of a subscription (spawn_source).                               *)

SendIncoming(item) ==
  Len(incoming) < CommandCap /\ incoming' = Append(incoming, item)

\* A pump ends when the actor has dropped its receiver.
PumpForward(s) ==
  /\ stream[s] # <<>> /\ pump[s] # "dead"
  /\ stream' = [stream EXCEPT ![s] = Tail(@)]
  /\ IF pc = "stopped" THEN pump' = [pump EXCEPT ![s] = "dead"] /\ UNCHANGED incoming
                       ELSE SendIncoming(Head(stream[s])) /\ UNCHANGED pump
  /\ UNCHANGED <<setup, brokerVars, since, ended, control, notify, closed, actorVars,
                 stockVars, spawned, embedderVars>>

\* Mutant: the pump ends without a word.
PumpEndSilently(s) ==
  /\ stream[s] = <<>> /\ pump[s] # "dead" /\ ~channel[s]
  /\ pump' = [pump EXCEPT ![s] = "dead"] /\ ended' = Append(ended, s)
  /\ UNCHANGED <<setup, brokerVars, stream, since, incoming, control, notify, closed,
                 actorVars, stockVars, spawned, embedderVars>>

\* The stream ended without a resize, or a resize could not be applied: one
\* terminal error, then the pump is gone.
PumpEnd(s) ==
  /\ stream[s] = <<>> /\ pump[s] # "dead" /\ ~channel[s]
  /\ pump' = [pump EXCEPT ![s] = "dead"] /\ ended' = Append(ended, s)
  /\ IF pc = "stopped" THEN UNCHANGED incoming ELSE SendIncoming(SourceError(s))
  /\ UNCHANGED <<setup, brokerVars, stream, since, control, notify, closed, actorVars,
                 stockVars, spawned, embedderVars>>

\* The controller published a window: the pump cancels its consumer tag.
PumpCancel(s) ==
  /\ s \in Resizable /\ since[s] = 0 /\ pump[s] = "consuming" /\ channel[s]
  /\ pc # "stopped" /\ broker[<<s, 1>>] # "queued"
  /\ pump' = [pump EXCEPT ![s] = "resizing"]
  /\ UNCHANGED <<setup, brokerVars, stream, since, ended, incoming, control, notify,
                 closed, actorVars, stockVars, spawned, embedderVars>>

\* The cancelled stream is drained: set_qos and a new consumer.
PumpReconsume(s) ==
  /\ pump[s] = "resizing" /\ stream[s] = <<>> /\ channel[s]
  /\ pump' = [pump EXCEPT ![s] = "consuming"]
  /\ since' = [since EXCEPT ![s] = Max({0} \cup {t \in Tags(s) : broker[<<s, t>>] # "queued"})]
  /\ UNCHANGED <<setup, brokerVars, stream, ended, incoming, control, notify, closed,
                 actorVars, stockVars, spawned, embedderVars>>

\* A detached task runs its channel operation and drops the result.
RunSpawned ==
  \E o \in spawned :
    /\ spawned' = spawned \ {o}
    /\ IF channel[o.sub] THEN Settle(o.sub, o.op, o.tag)
                         ELSE UNCHANGED <<broker, channel, unknown>>
    /\ UNCHANGED <<setup, copies, pumpVars, incoming, control, notify, closed, actorVars,
                   stockVars, embedderVars>>

-----------------------------------------------------------------------------
(* Settlement bookkeeping of one subscription, c = state[s].                *)

Report(c, t, kind) == [c EXCEPT !.errors = @ \cup {<<t, kind>>}]

\* launch_settlement and launch_settle_through, or the queue behind what is
\* already in flight on the channel.
Stage(c, o) ==
  IF c.inflight = NoOp THEN [c EXCEPT !.inflight = o]
  ELSE IF o.op = "through" THEN [c EXCEPT !.throughs = Append(@, o)]
  ELSE [c EXCEPT !.singles = Append(@, o)]

\* Plain settlements go before cumulative ones.
drain_settlement_queue(c) ==
  CASE c.singles # <<>> -> [c EXCEPT !.inflight = Head(c.singles), !.singles = Tail(@)]
    [] c.singles = <<>> /\ c.throughs # <<>>
         -> [c EXCEPT !.inflight = Head(c.throughs), !.throughs = Tail(@)]
    [] OTHER -> [c EXCEPT !.inflight = NoOp]

\* claim_settlement failed: somebody else is settling this delivery.
handle_settle(c, t, how) ==
  IF t \in c.settling THEN Report(c, t, "AlreadySettling")
  ELSE LET claimed == [c EXCEPT !.settling = @ \cup {t}] IN
       IF how = "ack" THEN [claimed EXCEPT !.batch = @ \cup {t}]
                      ELSE Stage(claimed, Op(how, t, {t}))

\* Every tag of the prefix is in the ledger and was handed out.
validate_contiguous_prefix(c, t) ==
  \A u \in (c.prefix + 1)..t : u \in c.ledger /\ c.token[u] # "none"

handle_settle_through(c, t) ==
  CASE c.token[t] # "Pending" -> Report(c, t, "AlreadySettled")
    [] c.token[t] = "Pending" /\ t \in c.settling -> Report(c, t, "AlreadySettling")
    [] c.token[t] = "Pending" /\ t \notin c.settling /\ t <= c.prefix
         -> Report(c, t, "AlreadySettled")
    [] c.token[t] = "Pending" /\ t \notin c.settling /\ t > c.prefix ->
         IF validate_contiguous_prefix(c, t)
           THEN Stage([c EXCEPT !.settling = @ \cup (c.prefix + 1)..t],
                      Op("through", t, (c.prefix + 1)..t))
           ELSE Report(c, t, "Transport")

\* Mutant: no generation fence.
unfenced_settle_through(c, t) == handle_settle_through(c, t)

\* A settle-through whose token belongs to an older generation: the error is
\* its only effect here, whatever live delivery has the same tag.
fence_settle_through(c, t) == Report(c, t, "StaleGeneration")

Ascending(T) == SetToSortSeq(T, <)

\* Mutant: the recorded acks are dropped while a settlement is in flight.
flush_unsent(c) == [c EXCEPT !.batch = {}]

\* Mutant: the stragglers start at the watermark, not behind it.
flush_from_watermark(c) ==
  LET above == {t \in c.ledger : t > c.prefix}
      run   == {t \in above : \A u \in above : u <= t => u \in c.batch}
      late  == (above \cap c.batch) \ (run \ {Max(run)})
  IN IF c.inflight # NoOp \/ run = {} THEN c
     ELSE [c EXCEPT !.batch = {}, !.inflight = Op("through", Max(run), run),
                    !.singles = @ \o [i \in 1..Cardinality(late) |->
                       Op("ack", Ascending(late)[i], {Ascending(late)[i]})]]

\* One cumulative ack for the recorded run above acked_prefix; recorded acks
\* beyond a hole go one by one behind it.
flush_acked(c) ==
  LET above == {t \in c.ledger : t > c.prefix}
      run   == {t \in above : \A u \in above : u <= t => u \in c.batch}
      ops   == (IF run = {} THEN <<>> ELSE <<Op("through", Max(run), run)>>) \o
               [i \in 1..Cardinality((above \cap c.batch) \ run) |->
                  LET t == Ascending((above \cap c.batch) \ run)[i] IN Op("ack", t, {t})]
      taken == [c EXCEPT !.batch = {}]
  IN IF c.inflight # NoOp THEN c
     ELSE IF ops = <<>> THEN taken
     ELSE [taken EXCEPT !.inflight = Head(ops), !.singles = @ \o Tail(ops)]

SizeOf(s, T) == SumFunctionOnSet([t \in Tags(s) |-> Size[<<s, t>>]], T)

\* Mutant: nothing is released.
ReleasedNothing(s, c, T) == c

\* saturating_sub on buffered_bytes.
Released(s, c, T) ==
  [c EXCEPT !.bytes = IF @ > SizeOf(s, T) THEN @ - SizeOf(s, T) ELSE 0]

Terminal(o) == IF o.op \in {"requeue", "reject"} THEN "Rejected" ELSE "Acked"

\* The operation that settles a poison delivery, and what its token becomes.
PoisonOp(s)    == IF s \in DeadLetter THEN "reject" ELSE "ack"
PoisonState(s) == IF s \in DeadLetter THEN "Rejected" ELSE "Acked"

\* The token of each delivery the finished operation o settled.
FinalState(s, o) ==
  CASE o.result = "Ok" -> Terminal(o)
    [] o.result = "Transport" -> "Lost"
    [] o.result \in PoisonKinds -> PoisonState(s)
    [] OTHER -> "Pending"

Stored(c, o, final) ==
  [c EXCEPT !.token = [t \in DOMAIN @ |-> IF t \in o.affected THEN final ELSE @[t]],
            !.settling = @ \ o.affected,
            !.errors = IF o.result = "Ok" THEN @ ELSE @ \cup {<<o.tag, o.result>>}]

\* The completion arms of run_actor.  A retryable failure keeps the delivery.
Completed(s, c) ==
  LET o == c.inflight
      freed == IF o.result \in Retryable THEN c
               ELSE [Released(s, c, o.affected) EXCEPT
                       !.ledger = @ \ (IF o.op = "through" THEN (c.prefix + 1)..o.tag
                                                          ELSE {o.tag}),
                       !.prefix = IF o.op = "through" /\ o.result = "Ok" THEN o.tag ELSE @]
  IN drain_settlement_queue(Stored(freed, o, FinalState(s, o)))

\* The completion arms of close_set keep no accounts.
CloseCompleted(c) ==
  LET o == c.inflight
  IN drain_settlement_queue(
       Stored(c, o, IF o.result = "Ok" THEN Terminal(o) ELSE "Lost"))

-----------------------------------------------------------------------------
(* Admission and dispatch.                                                  *)

FlumeFull == Len(flume) = FlumeCap

\* A delivery enters its buffer and the byte budget.
Buffered(a, d) ==
  [a EXCEPT !.state[d[1]].buffer = Append(@, d[2]),
            !.state[d[1]].bytes = @ + Size[d],
            !.sched = mark_ready(@, d[1])]

Fits(c, d) == c.bytes + Size[d] <= MaxBytes[d[1]]

\* Mutant: parked deliveries stay parked.
drain_nothing(a) == a @@ [stop |-> FALSE]

\* drain_pending: deliveries leave pending_incoming in order while the head
\* fits its budget.  (An oversized delivery never gets here.)
drain_pending(a) ==
  FoldLeft(LAMBDA b, d : IF b.stop \/ ~Fits(b.state[d[1]], d) THEN [b EXCEPT !.stop = TRUE]
                         ELSE [Buffered(b, d) EXCEPT !.pending = Tail(@)],
           a @@ [stop |-> FALSE], a.pending)

Actor == [state |-> state, sched |-> sched, pending |-> pending]

\* dispatch starts: drain_pending, then the loop, then whoever called it.
StartDispatch(a, return) ==
  LET b == drain_pending(a)
  IN /\ state' = b.state /\ sched' = b.sched /\ pending' = b.pending
     /\ pc' = "dispatch" /\ back' = return

EndDispatch == pc' = back /\ UNCHANGED back

\* Poison and oversized deliveries leave through a detached channel
\* operation, unless the broker has already forgotten them (no_ack).
settle_poison(s, c, t) ==
  Report([Released(s, c, {t}) EXCEPT !.ledger = @ \ {t}], t, "MaxAttempts")

SpawnPoison(s, t) ==
  IF s \in NoAck THEN {} ELSE {[sub |-> s, op |-> PoisonOp(s), tag |-> t]}

\* A retained source error goes before any delivery.
DispatchError ==
  /\ pc = "dispatch" /\ source_errors # <<>>
  /\ IF FlumeFull
       THEN EndDispatch /\ UNCHANGED stockVars
       ELSE /\ flume' = Append(flume, Head(source_errors))
            /\ source_errors' = Tail(source_errors)
            /\ flume_error_items' = flume_error_items + 1
            /\ UNCHANGED <<pc, back>>
  /\ UNCHANGED <<setup, brokerVars, pumpVars, incoming, control, notify, closed, state,
                 pending, sched, spawned, embedderVars>>

\* Nothing is ready, or the picked subscription has an empty buffer.
DispatchIdle ==
  /\ pc = "dispatch" /\ source_errors = <<>>
  /\ \/ sched.ready = {} /\ UNCHANGED sched
     \/ /\ sched.ready # {} /\ state[picked(sched)].buffer = <<>>
        /\ sched' = mark_empty(pick(sched), picked(sched))
  /\ EndDispatch
  /\ UNCHANGED <<setup, brokerVars, pumpVars, incoming, control, notify, closed, state,
                 pending, stockVars, spawned, embedderVars>>

Ring(ring, t) ==
  IF Len(ring) < PendingCap THEN Append(ring, t) ELSE Append(Tail(ring), t)

\* A delivery with early_ack is acknowledged once, however often it is tried.
EarlyAcked(s, c, t) ==
  IF s \in NoAck \/ t \in Range(c.ring) THEN c ELSE [c EXCEPT !.ring = Ring(@, t)]

\* What dispatch does to the record of s before the hand-off of t.
Prepared(s, c, t) ==
  LET noted == IF <<s, t>> \in Poison THEN Report(c, t, "MaxAttempts") ELSE c
  IN IF s \in EarlyAck THEN EarlyAcked(s, noted, t) ELSE [c EXCEPT !.token[t] = "Pending"]

\* After the hand-off: an early_ack delivery is out of the accounts.
HandedOff(s, c, t) ==
  IF s \in EarlyAck
    THEN [Released(s, c, {t}) EXCEPT !.buffer = Tail(@), !.token[t] = "AutoAcked"]
    ELSE [c EXCEPT !.buffer = Tail(@)]

DispatchPoison ==
  /\ pc = "dispatch" /\ source_errors = <<>> /\ sched.ready # {}
  /\ LET s == picked(sched)
         c == state[s]
         t == Head(c.buffer)
     IN /\ c.buffer # <<>> /\ <<s, t>> \in Poison /\ s \notin EarlyAck
        /\ sched' = pick(sched)
        /\ state' = [state EXCEPT ![s] = settle_poison(s, [c EXCEPT !.buffer = Tail(@)], t)]
        /\ spawned' = spawned \cup SpawnPoison(s, t)
  /\ UNCHANGED <<setup, brokerVars, pumpVars, incoming, control, notify, closed, pc, back,
                 pending, stockVars, embedderVars>>

\* The hand-off to the flume.  When it is full the delivery stays at the head
\* of its buffer and the pass ends.
DispatchDelivery ==
  /\ pc = "dispatch" /\ source_errors = <<>> /\ sched.ready # {}
  /\ LET s == picked(sched)
         t == Head(state[s].buffer)
         c == Prepared(s, state[s], t)
         acks == c.ring # state[s].ring
     IN /\ state[s].buffer # <<>> /\ (<<s, t>> \in Poison => s \in EarlyAck)
        /\ spawned' = spawned \cup (IF acks THEN {[sub |-> s, op |-> "ack", tag |-> t]} ELSE {})
        /\ IF FlumeFull
             THEN /\ state' = [state EXCEPT ![s] = c]
                  /\ sched' = mark_ready(pick(sched), s)
                  /\ EndDispatch /\ UNCHANGED flume
             ELSE /\ state' = [state EXCEPT ![s] = HandedOff(s, c, t)]
                  /\ sched' = IF Len(c.buffer) = 1 THEN mark_empty(pick(sched), s) ELSE pick(sched)
                  /\ flume' = Append(flume, <<s, t>>)
                  /\ UNCHANGED <<pc, back>>
  /\ UNCHANGED <<setup, brokerVars, pumpVars, incoming, control, notify, closed, pending,
                 source_errors, flume_error_items, embedderVars>>

-----------------------------------------------------------------------------
(* The loop of run_actor: drain control, drain incoming, flush, select.     *)

Gated == Len(pending) >= PendingCap
IncomingIdle == incoming = <<>> \/ Gated

\* The loop top is past the control drain.
ControlDrained == pc = "incoming" \/ (pc = "control" /\ control = <<>>)

\* The close signal and the later arms of the biased select! wait for these.
QueuesIdle == pc = "select" /\ control = <<>> /\ IncomingIdle

\* One control command, at the loop top, in the select! or in the sweep of
\* close_set.
RecvControl ==
  /\ pc \in {"control", "select", "sweep"} /\ control # <<>>
  /\ LET m == Head(control) IN
       state' = [state EXCEPT ![m.sub] =
         CASE m.how = "through" -> handle_settle_through(@, m.tag)
           [] m.how = "stale"   -> fence_settle_through(@, m.tag)
           [] OTHER             -> handle_settle(@, m.tag, m.how)]
  /\ control' = Tail(control)
  /\ pc' = IF pc = "sweep" THEN pc ELSE "control"
  /\ UNCHANGED <<setup, brokerVars, pumpVars, incoming, notify, closed, back, pending,
                 sched, stockVars, spawned, embedderVars>>

record_source_error(e) ==
  IF Len(source_errors) < ErrorCap THEN Append(source_errors, e)
                                   ELSE Append(Tail(source_errors), e)

handle_incoming(d, return) ==
  LET s == d[1]
      claimed == [Actor EXCEPT !.state[s].ledger = @ \cup {d[2]}]
      Return(a) == /\ state' = a.state /\ pending' = a.pending /\ pc' = return
                   /\ UNCHANGED <<sched, back>>
  IN CASE IsError(d) ->
            /\ source_errors' = record_source_error(d)
            /\ StartDispatch(Actor, return) /\ UNCHANGED spawned
       [] ~IsError(d) /\ Size[d] > MaxBytes[s] ->
            /\ spawned' = spawned \cup SpawnPoison(s, d[2])
            /\ Return([claimed EXCEPT !.state[s] =
                 settle_poison(s, [@ EXCEPT !.bytes = @ + Size[d]], d[2])])
            /\ UNCHANGED source_errors
       [] ~IsError(d) /\ Size[d] <= MaxBytes[s] ->
            /\ UNCHANGED <<spawned, source_errors>>
            /\ IF ~Fits(state[s], d)
                 THEN Return([claimed EXCEPT !.pending = Append(@, d)])
                 ELSE StartDispatch(IF pending = <<>> THEN Buffered(claimed, d)
                                    ELSE [claimed EXCEPT !.pending = Append(@, d)], return)

RecvIncoming ==
  /\ ControlDrained \/ (pc = "select" /\ control = <<>>)
  /\ incoming # <<>> /\ ~Gated
  /\ handle_incoming(Head(incoming), IF pc = "select" THEN "control" ELSE "incoming")
  /\ incoming' = Tail(incoming)
  /\ UNCHANGED <<setup, brokerVars, pumpVars, control, notify, closed, flume,
                 flume_error_items, embedderVars>>

\* Nothing that could still produce an acknowledgement is on its way out.
dispatch_stock_drained ==
  (\A s \in Subs : state[s].buffer = <<>>) /\ Len(flume) <= flume_error_items

\* The loop top ends with the flush.
Flush ==
  /\ ControlDrained /\ IncomingIdle
  /\ state' = IF dispatch_stock_drained THEN [s \in Subs |-> flush_acked(state[s])] ELSE state
  /\ pc' = "select"
  /\ UNCHANGED <<setup, brokerVars, pumpVars, incoming, control, notify, closed, back,
                 pending, sched, stockVars, spawned, embedderVars>>

Notified ==
  /\ QueuesIdle /\ ~closed /\ notify
  /\ notify' = FALSE /\ StartDispatch(Actor, "control")
  /\ UNCHANGED <<setup, brokerVars, pumpVars, incoming, control, closed, stockVars, spawned,
                 embedderVars>>

\* The settlement futures make progress when the select! gets to them.
Polled == (QueuesIdle /\ ~closed /\ ~notify) \/ pc = "closing"

Answered(s, r) == state' = [state EXCEPT ![s].inflight.result = r]

\* Mutant: the original is acknowledged before the outcome of its copy.
PublishAndForget(s) ==
  /\ Polled /\ state[s].inflight.op = "release" /\ state[s].inflight.result = "none"
  /\ Answered(s, "published")
  /\ copies' \in {copies, copies \cup {<<s, state[s].inflight.tag>>}}
  /\ UNCHANGED <<setup, broker, channel, unknown, pumpVars, incoming, control, notify,
                 closed, pc, back, pending, sched, stockVars, spawned, embedderVars>>

\* delayed_release publishes the copy and waits for the outcome Confirmed.
\* Without confirms (modes unsafe and blind) the publisher answers it after
\* the socket write, and the copy may never be stored.
PublishCopy(s) ==
  LET d == <<s, state[s].inflight.tag>> IN
  /\ Polled /\ state[s].inflight.op = "release" /\ state[s].inflight.result = "none"
  /\ \/ /\ Answered(s, "published")
        /\ copies' \in {copies \cup {d}} \cup (IF Confirms THEN {} ELSE {copies})
     \/ \E r \in ReleaseFaults :
          /\ Answered(s, r)
          /\ copies' \in {copies} \cup (IF r = "Publish" THEN {copies \cup {d}} ELSE {})
  /\ UNCHANGED <<setup, broker, channel, unknown, pumpVars, incoming, control, notify,
                 closed, pc, back, pending, sched, stockVars, spawned, embedderVars>>

\* execute_settlement and execute_settle_through on the wire.
ExecuteSettlement(s) ==
  LET o == state[s].inflight IN
  /\ Polled /\ o # NoOp
  /\ o.result = IF o.op = "release" THEN "published" ELSE "none"
  /\ IF channel[s] THEN Settle(s, o.op, o.tag) /\ Answered(s, "Ok")
                   ELSE Answered(s, "Transport") /\ UNCHANGED <<broker, channel, unknown>>
  /\ UNCHANGED <<setup, copies, pumpVars, incoming, control, notify, closed, pc, back,
                 pending, sched, stockVars, spawned, embedderVars>>

Answer(s) == state[s].inflight.result \notin {"none", "published"}

\* A terminal answer frees budget, so it ends in try_drain_pending.
CompleteSettlement(s) ==
  LET o == state[s].inflight
      a == [Actor EXCEPT !.state[s] = Completed(s, @)]
  IN /\ Polled /\ pc = "select" /\ Answer(s)
     /\ spawned' = spawned \cup (IF o.result \in PoisonKinds
                                  THEN {[sub |-> s, op |-> PoisonOp(s), tag |-> o.tag]} ELSE {})
     /\ IF o.result \in Retryable
          THEN /\ state' = a.state /\ pc' = "control"
               /\ UNCHANGED <<pending, sched, back>>
          ELSE StartDispatch(a, "control")
     /\ UNCHANGED <<setup, brokerVars, pumpVars, incoming, control, notify, closed, stockVars,
                    embedderVars>>

-----------------------------------------------------------------------------
(* close_set.                                                               *)

\* Mutant: the close request waits for the parked deliveries.
CloseGated ==
  /\ QueuesIdle /\ closed /\ pending = <<>> /\ pc' = "sweep"
  /\ UNCHANGED <<setup, brokerVars, pumpVars, incoming, control, notify, closed, back, state,
                 pending, sched, stockVars, spawned, embedderVars>>

CloseSignal ==
  /\ QueuesIdle /\ closed /\ pc' = "sweep"
  /\ UNCHANGED <<setup, brokerVars, pumpVars, incoming, control, notify, closed, back, state,
                 pending, sched, stockVars, spawned, embedderVars>>

\* The sweep found the control channel empty.
EndSweep ==
  /\ pc = "sweep" /\ control = <<>>
  /\ state' = [s \in Subs |-> flush_acked(state[s])] /\ pc' = "closing"
  /\ UNCHANGED <<setup, brokerVars, pumpVars, incoming, control, notify, closed, back,
                 pending, sched, stockVars, spawned, embedderVars>>

CloseComplete(s) ==
  /\ pc = "closing" /\ Answer(s)
  /\ state' = [state EXCEPT ![s] = CloseCompleted(@)]
  /\ UNCHANGED <<setup, brokerVars, pumpVars, incoming, control, notify, closed, pc, back,
                 pending, sched, stockVars, spawned, embedderVars>>

\* The drain is over, or its budget is; the channels close.
Stop ==
  /\ pc = "closing" /\ pc' = "stopped"
  /\ channel' = [s \in Subs |-> FALSE]
  /\ broker' = [d \in Delivery |-> IF broker[d] = "unacked" THEN "requeued" ELSE broker[d]]
  /\ UNCHANGED <<setup, copies, unknown, pumpVars, incoming, control, notify, closed, back,
                 state, pending, sched, stockVars, spawned, embedderVars>>

-----------------------------------------------------------------------------
(* The embedder, on its own thread, through ConsumerSetHandle and Delivery. *)

\* try_next and next are batches of one.  A source error behind deliveries is
\* stashed so that the deliveries are returned.
try_next_batch(k) ==
  LET n    == Min({k, Len(flume)})
      errs == {i \in 1..n : IsError(flume[i])}
      took == IF errs = {} THEN n ELSE Min(errs)
      got  == IF errs = {} THEN n ELSE took - 1
  IN /\ ~closed /\ flume # <<>>
     /\ flume' = SubSeq(flume, took + 1, Len(flume))
     /\ popped' = popped \cup {flume[i] : i \in 1..got}
     /\ surfaced' = IF took = 1 /\ got = 0 THEN surfaced \cup {flume[1][1]} ELSE surfaced
     /\ stash' = IF got > 0 /\ took > got THEN {flume[took][1]} ELSE stash
     /\ notify' = TRUE /\ waiting' = FALSE
     /\ UNCHANGED <<setup, brokerVars, pumpVars, incoming, control, closed, actorVars,
                    source_errors, flume_error_items, spawned, asked>>

TakeStash ==
  /\ ~closed /\ flume = <<>> /\ stash # {}
  /\ surfaced' = surfaced \cup stash /\ stash' = {}
  /\ UNCHANGED <<setup, brokerVars, pumpVars, incoming, control, notify, closed, actorVars,
                 stockVars, spawned, popped, asked, waiting>>

\* next parks on an empty flume after waking the actor.  The extension calls
\* it only when try_next found neither a delivery nor a stashed error.
next ==
  /\ ~closed /\ ~waiting /\ flume = <<>> /\ stash = {}
  /\ waiting' = TRUE /\ notify' = TRUE
  /\ UNCHANGED <<setup, brokerVars, pumpVars, incoming, control, closed, actorVars,
                 stockVars, spawned, popped, asked, stash, surfaced>>

\* A wait outlasts the work the actor has at hand, then it times out.
NextTimesOut ==
  /\ waiting /\ flume = <<>> /\ QueuesIdle /\ ~notify
  /\ \A s \in Subs : state[s].inflight = NoOp
  /\ waiting' = FALSE
  /\ UNCHANGED <<setup, brokerVars, pumpVars, incoming, control, notify, closed, actorVars,
                 stockVars, spawned, popped, asked, stash, surfaced>>

\* A settle-through the embedder asked for covers d and has not failed.
Covered(d) ==
  \E t \in Tags(d[1]) : /\ t >= d[2] /\ "through" \in asked[<<d[1], t>>]
                       /\ <<t, "Transport">> \notin state[d[1]].errors

Send(d, how) ==
  /\ Len(control) < CommandCap
  /\ control' = Append(control, [sub |-> d[1], tag |-> d[2], how |-> how])

\* Delivery::ack, release, reject.  The token turns terminal with the call.
try_settle(d, how) ==
  /\ d \in popped /\ state[d[1]].token[d[2]] = "Pending" /\ ~Covered(d)
  /\ IF pc = "stopped"
       THEN state' = [state EXCEPT ![d[1]].token[d[2]] = "Lost"] /\ UNCHANGED <<control, asked>>
       ELSE /\ Send(d, how)
            /\ state' = [state EXCEPT ![d[1]].token[d[2]] = Terminal(Op(how, d[2], {}))]
            /\ asked' = [asked EXCEPT ![d] = @ \cup {how}]
  /\ UNCHANGED <<setup, brokerVars, pumpVars, incoming, notify, closed, pc, back, pending,
                 sched, stockVars, spawned, popped, waiting, stash, surfaced>>

\* ConsumerSetHandle::try_settle_through, with a token of this set or, for
\* "stale", with one of an earlier generation that has the same tag.  The
\* caller "is responsible for ensuring the delivery is not double-settled":
\* it covers no delivery it gave to a delayed release or to a live
\* settle-through.
try_settle_through(d, how) ==
  /\ d[1] \notin EarlyAck
  /\ how = "through" => /\ d \in popped /\ ~Covered(d)
                        /\ \A t \in 1..d[2] : "release" \notin asked[<<d[1], t>>]
  /\ how = "stale" => \A e \in Delivery : how \notin asked[e]
  /\ how \notin asked[d] /\ pc # "stopped" /\ Send(d, how)
  /\ asked' = [asked EXCEPT ![d] = @ \cup {how}]
  /\ UNCHANGED <<setup, brokerVars, pumpVars, incoming, notify, closed, actorVars, stockVars,
                 spawned, popped, waiting, stash, surfaced>>

\* close, or the drop of a handle.
Close ==
  /\ Closes /\ ~closed /\ closed' = TRUE
  /\ UNCHANGED <<setup, brokerVars, pumpVars, incoming, control, notify, actorVars, stockVars,
                 spawned, embedderVars>>

-----------------------------------------------------------------------------
ActorStep ==
  \/ RecvControl \/ RecvIncoming \/ Flush \/ Notified
  \/ DispatchError \/ DispatchIdle \/ DispatchPoison \/ DispatchDelivery
  \/ \E s \in Subs : PublishCopy(s) \/ ExecuteSettlement(s) \/ CompleteSettlement(s)
                     \/ CloseComplete(s)
  \/ CloseSignal \/ EndSweep

Pump(s) == PumpForward(s) \/ PumpEnd(s) \/ PumpReconsume(s)

Pop == TakeStash \/ next \/ NextTimesOut \/ \E k \in 1..BatchMax : try_next_batch(k)

Settling(d) == \E how \in Hows : IF how \in {"through", "stale"} THEN try_settle_through(d, how)
                                                              ELSE try_settle(d, how)

Next ==
  \/ ActorStep \/ Stop \/ RunSpawned \/ Pop \/ Close
  \/ \E s \in Subs : BrokerDeliver(s) \/ ChannelDown(s) \/ Pump(s) \/ PumpCancel(s)
  \/ \E d \in Delivery : Settling(d)

Spec == Init /\ [][Next]_vars

\* The tokio runtime runs the actor, the pumps and the spawned tasks, the
\* broker delivers, and the embedder keeps popping and settling.
FairSpec ==
  /\ Spec
  /\ WF_vars(ActorStep) /\ WF_vars(Stop) /\ WF_vars(RunSpawned) /\ WF_vars(Pop)
  /\ WF_vars(\E s \in Subs : BrokerDeliver(s)) /\ WF_vars(\E s \in Subs : Pump(s))
  /\ WF_vars(\E d \in Delivery : Settling(d))

-----------------------------------------------------------------------------
\* What buffered_bytes stands for: deliveries out of pending_incoming that
\* are not settled yet.
Held(s) ==
  IF s \in EarlyAck THEN Range(state[s].buffer)
  ELSE {t \in state[s].ledger : <<s, t>> \notin Range(pending)}

AskedThrough(d) == \E t \in Tags(d[1]) : t >= d[2] /\ "through" \in asked[<<d[1], t>>]

\* buffered_bytes is the size of what the set holds, across admission,
\* dispatch, poison and oversized deliveries, settlements and their failures;
\* budget is never lost for good nor exceeded.  (Overlapping settle-throughs release a
\* delivery twice, so with them it may only be less.)
BytesAccounted ==
  \A s \in Subs :
    /\ state[s].bytes <= SizeOf(s, Held(s)) /\ state[s].bytes \in 0..MaxBytes[s]
    /\ (\A t \in Tags(s) : ~AskedThrough(<<s, t>>)) => state[s].bytes = SizeOf(s, Held(s))

\* The deliveries some stage between the token and the wire still owes.
Owed(s) ==
  LET c == state[s] IN
  c.batch \cup UNION {o.affected : o \in {c.inflight} \cup Range(c.singles) \cup Range(c.throughs)}
  \cup {m.tag : m \in {n \in Range(control) : n.sub = s}}
  \cup {o.tag : o \in {n \in spawned : n.sub = s}}

\* A delivery whose token says it is settled while the broker still waits for
\* it is owed by some stage of a running actor, or its failure was reported:
\* batching, queues behind a settlement in flight and holes lose no ack.
NoSettlementForgotten ==
  pc \notin {"closing", "stopped"} =>
    \A s \in Subs : \A t \in Unacked(s) :
      state[s].token[t] \in {"Acked", "Rejected", "Lost"} =>
        t \in Owed(s) \/ \E e \in state[s].errors : e[1] = t

\* A delivery the set gave up as poison, with the error to show for it.
GivenUp(d) == \E e \in state[d[1]].errors : e[1] = d[2] /\ e[2] \in PoisonKinds

\* A 406 closes the channel and requeues everything on it.  Whatever the order
\* of cumulative, single and early acks, each names a tag the broker still
\* holds; the one settlement that may not is that of a delivery given up as
\* poison (settle_poison): it runs in a detached task, out of the ledger, and
\* a cumulative ack of later deliveries may overtake it.
RefusedOnlyPoison == \A d \in unknown : GivenUp(d)

Unservable(d) == d \in Poison \/ Size[d] > MaxBytes[d[1]]

\* A delivery the broker considers done was settled that way by the embedder:
\* individually, by a settle-through of this generation at or above it, or by
\* the policies for poison deliveries and for early_ack.
SettledAsAsked ==
  \A d \in Delivery :
    /\ broker[d] = "acked" => \/ d[1] \in EarlyAck \/ Unservable(d) \/ AskedThrough(d)
                              \/ asked[d] \cap {"ack", "release"} # {}
    /\ broker[d] = "rejected" => "reject" \in asked[d] \/ Unservable(d)
                                 \/ "release" \in asked[d]

\* With confirms a delayed release never loses the message: once the original
\* is gone, its copy is stored, unless it was given up as poison and reported.
\* (Without confirms delayed_release cannot tell, see PublishCopy.)
ReleaseKeepsCopy ==
  Confirms =>
    \A d \in Delivery :
      /\ broker[d] = "acked" /\ "release" \in asked[d] /\ "ack" \notin asked[d]
      /\ ~AskedThrough(d)
      => d \in copies \/ GivenUp(d)

\* Every delivery of an open channel is eventually settled at the broker: the
\* window, the byte budget, the hand-off flume and the ack batching never end
\* up waiting for each other.
EverythingServed ==
  <>(\A d \in Delivery : broker[d] \notin {"queued", "unacked"} \/ ~channel[d[1]] \/ closed)

\* The embedder, also one already parked in next, hears of the end of every
\* pump unless the set is closed: the bounded source_errors and the one
\* pending_error lose a pump's error only to that of a pump that ended later,
\* and the last one always surfaces.
SourceErrorSurfaces ==
  []<>(closed \/ \A i \in DOMAIN ended : \E j \in i..Len(ended) : ended[j] \in surfaced)

\* A close request is served whatever the backpressure.
CloseCompletes == closed ~> pc = "stopped"
=============================================================================
