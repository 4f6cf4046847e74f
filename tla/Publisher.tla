----------------------------- MODULE Publisher -----------------------------
(***************************************************************************)
(* The confirmed-publish path of crates/rabbit-rs-core/src/publisher: the  *)
(* PublisherHandle (try_publish, connection_event, close), the actor task  *)
(* that owns every retained publication, and the transport it talks to.    *)
(*                                                                         *)
(* A publication is a model value.  Its deadline is abstracted to whether  *)
(* it has lapsed, its payload to a size, and the transport's futures to    *)
(* the channel and the fate of the frame of its current attempt.           *)
(***************************************************************************)
EXTENDS Integers, Sequences, FiniteSets, Functions

CONSTANTS
  Pubs,         \* the publications callers submit
  Size,         \* payload bytes of each publication
  MaxBytes,     \* PublisherConfig::max_buffered_bytes
  Capacity,     \* buffer_capacity.max(1): permits, and slots of the mpsc
  Confirms,     \* PublisherConfig::enables_confirms (SafetyMode::Safe)
  Delayed,      \* the publications with delay_ms > 0
  MaxChannels,  \* bound: channels ever opened for the publisher
  ConnEvents,   \* the connection events the coordinator may deliver
  Faults,       \* bound: how channels go down, lost (recoverable) or refused
  Shutdown      \* bound: whether handles are closed and dropped

NoChannel == 0
Channels  == 1..MaxChannels

Recovering(g)   == [type |-> "Recovering", generation |-> g]
Ready(g, c, t)  == [type |-> "Ready", generation |-> g, channel |-> c,
                    topology_restored |-> t]
FailedEvent(g)  == [type |-> "FailedPermanent", generation |-> g]
PublishCmd(p)   == [type |-> "Publish", pub |-> p]
CloseCmd        == [type |-> "Close"]
Command == {PublishCmd(p) : p \in Pubs} \cup ConnEvents \cup {CloseCmd}

ASSUME PublisherAssumption ==
  /\ IsFiniteSet(Pubs) /\ Size \in [Pubs -> Nat] /\ MaxBytes \in Nat
  /\ Capacity \in Nat \ {0} /\ Confirms \in BOOLEAN /\ Delayed \subseteq Pubs
  /\ MaxChannels \in Nat \ {0}
  /\ \A e \in ConnEvents :
       /\ e.type \in {"Recovering", "Ready", "FailedPermanent"}
       /\ e.generation \in Nat
       /\ e.type = "Ready" => /\ e.channel \in Channels
                              /\ e.topology_restored \in BOOLEAN
  /\ Faults \subseteq {"lost", "refused"} /\ Shutdown \in BOOLEAN

VARIABLES
  \* PublisherHandle and its callers
  stage,       \* how far try_publish got for each publication
  outcome,     \* what each PublishWaiter has been resolved with
  reserved,    \* ByteBudget::current
  permits,     \* available permits of the capacity semaphore
  commands,    \* the mpsc queue
  handles,     \* some PublisherHandle is alive
  \* the actor
  pc,          \* where run_actor is
  deferred,    \* the non-publish command the coalescing drain stopped at
  pending,     \* publish_queue's work list
  declaring,   \* publish_queue awaits the delay topology of its first item
  polling,     \* the publication whose write future publish_queue polls
  phase, generation, channel, replay, publishing, ledger, sequence,
  retained,    \* the RetainedPublish of each publication, and its frame
  \* the transport and the broker
  chState,     \* state of each channel
  stored       \* publications the broker has acknowledged

callerVars == <<stage, commands, handles>>
budgetVars == <<outcome, reserved, permits>>
drainVars  == <<pending, declaring, polling>>
connVars   == <<phase, generation, channel>>
heldVars   == <<replay, publishing, ledger>>
brokerVars == <<chState, stored>>
vars == <<callerVars, budgetVars, pc, deferred, drainVars, connVars, heldVars,
          sequence, retained, brokerVars>>

Draining == {"accept", "flush", "quiesceDrain"}
Verdicts == {"ack", "nack", "returned"}
Outcomes == {"Confirmed", "Returned", "Nack", "Timeout", "Transport",
             "InvalidRequest", "Closed"}

\* sequence: wire-attempt ordinal, 0 while never attempted.  lapsed, retried:
\* the deadline has passed, has been re-armed.  on, wire: the channel of the
\* current attempt and the fate of its frame.
RetainedPublish == [sequence : Nat, lapsed : BOOLEAN, retried : BOOLEAN,
                    on : Channels \cup {NoChannel},
                    wire : Verdicts \cup {"none", "wire"}]
NotRetained == [sequence |-> 0, lapsed |-> FALSE, retried |-> FALSE,
                on |-> NoChannel, wire |-> "none"]
OffWire(r) == [r EXCEPT !.on = NoChannel, !.wire = "none"]

QueuedPubs == {commands[i].pub :
                 i \in {j \in DOMAIN commands : commands[j].type = "Publish"}}

\* The publications in ActorState's containers.
StatePubs == Range(replay) \cup publishing \cup ledger

\* A waiter resolves as its RetainedPublish is dropped, which releases the
\* permit and the byte reservation it carries (BudgetGuard).
Resolve(S, o) ==
  /\ outcome'  = [p \in Pubs |-> IF p \in S THEN o ELSE outcome[p]]
  /\ permits'  = permits + Cardinality(S)
  /\ reserved' = reserved - SumFunctionOnSet(Size, S)

Complete(S, o) ==
  /\ Resolve(S, o)
  /\ retained' = [p \in Pubs |-> IF p \in S THEN NotRetained ELSE retained[p]]

\* The sequences that list every element of S once.
Arrangements(S) == Bijection(1..Cardinality(S), S)

Precedes(s, p, q) == \E i, j \in DOMAIN s : i < j /\ s[i] = p /\ s[j] = q

MaxOf(a, b) == IF a > b THEN a ELSE b

-----------------------------------------------------------------------------
(* PublisherHandle.                                                         *)

\* try_publish up to the send: the byte reservation, then the permit.  When
\* either is refused (Backpressure) nothing is kept and the caller may retry.
Admit(p) ==
  /\ handles /\ stage[p] = "idle"
  /\ reserved + Size[p] <= MaxBytes
  /\ permits > 0
  /\ stage' = [stage EXCEPT ![p] = "admitted"]
  /\ reserved' = reserved + Size[p]
  /\ permits' = permits - 1
  /\ UNCHANGED <<commands, handles, outcome, pc, deferred, drainVars, connVars,
                 heldVars, sequence, retained, brokerVars>>

\* The BudgetGuard and the permit of a command that was not sent.
\* Mutant: the byte reservation leaks.
ReleasePermitOnly(p) == permits' = permits + 1 /\ UNCHANGED reserved
ReleaseBudget(p) == permits' = permits + 1 /\ reserved' = reserved - Size[p]

\* try_publish's try_send: accepted, or refused (Full is Backpressure, Closed
\* is Closed) with the permit and the reservation dropped.
SendPublish(p) ==
  /\ stage[p] = "admitted"
  /\ \/ /\ pc # "stopped" /\ Len(commands) < Capacity
        /\ commands' = Append(commands, PublishCmd(p))
        /\ stage' = [stage EXCEPT ![p] = "accepted"]
        /\ UNCHANGED <<reserved, permits>>
     \/ /\ pc = "stopped" \/ Len(commands) >= Capacity
        /\ stage' = [stage EXCEPT ![p] = "idle"]
        /\ ReleaseBudget(p)
        /\ UNCHANGED commands
  /\ UNCHANGED <<handles, outcome, pc, deferred, drainVars, connVars, heldVars,
                 sequence, retained, brokerVars>>

\* connection_event: the coordinator awaits the completion of one event
\* before it sends the next, and the send awaits a slot.  A Ready event
\* carries a channel opened for it.
EventOutstanding ==
  \/ \E i \in DOMAIN commands : commands[i] \in ConnEvents
  \/ \E i \in DOMAIN deferred : deferred[i] \in ConnEvents
  \/ pc = "flush"

ConnectionEvent(e) ==
  /\ handles /\ ~EventOutstanding
  /\ pc # "stopped" /\ Len(commands) < Capacity
  /\ commands' = Append(commands, e)
  /\ \/ /\ e.type = "Ready" /\ chState[e.channel] = "unused"
        /\ chState' = [chState EXCEPT ![e.channel] = "up"]
     \/ /\ e.type # "Ready"
        /\ UNCHANGED chState
  /\ UNCHANGED <<stage, handles, budgetVars, pc, deferred, drainVars, connVars,
                 heldVars, sequence, retained, stored>>

Close ==
  /\ Shutdown
  /\ handles /\ pc # "stopped" /\ Len(commands) < Capacity
  /\ \A i \in DOMAIN commands : commands[i] # CloseCmd
  /\ commands' = Append(commands, CloseCmd)
  /\ UNCHANGED <<stage, handles, budgetVars, pc, deferred, drainVars, connVars,
                 heldVars, sequence, retained, brokerVars>>

DropHandles ==
  /\ Shutdown
  /\ handles /\ ~EventOutstanding
  /\ \A p \in Pubs : stage[p] # "admitted"
  /\ handles' = FALSE
  /\ UNCHANGED <<stage, commands, budgetVars, pc, deferred, drainVars,
                 connVars, heldVars, sequence, retained, brokerVars>>

-----------------------------------------------------------------------------
(* The actor.  AtSelect: run_actor is at its tokio::select!; a deferred     *)
(* command is handled before the loop comes back to it.                     *)

AtSelect == pc = "select" /\ deferred = <<>>

\* ActorState::suspend: everything held is consolidated into the replay
\* queue, stable-sorted by wire-attempt sequence, and the pending futures are
\* dropped.  rest is what publish_queue appends after it.
\* Mutant: publishing is left behind.
SortedUnwritten ==
  {s \in Arrangements(Range(replay) \cup ledger) :
     \A i, j \in DOMAIN s : i < j =>
       retained[s[i]].sequence <= retained[s[j]].sequence}

SortedBySequence ==
  {s \in Arrangements(StatePubs) :
     \A i, j \in DOMAIN s : i < j =>
       LET m == retained[s[i]].sequence  n == retained[s[j]].sequence
       IN  m < n \/ (m = n /\ Precedes(replay, s[i], s[j]))}

suspend(g, rest) ==
  /\ generation' = MaxOf(generation, g)
  /\ phase' = "Suspended" /\ channel' = NoChannel
  /\ publishing' = {} /\ ledger' = {}
  /\ \E s \in SortedBySequence : replay' = s \o rest
  /\ retained' = [p \in Pubs |-> OffWire(retained[p])]

\* ActorState::expire_replay: a lapsed deadline is re-armed the first time
\* and fatal the second.  Survivors is the replay queue that is left.
Lapsed == {p \in Range(replay) : retained[p].lapsed}
\* Mutant: re-armed every time.
NoneDead == {}
Dead == {p \in Lapsed : retained[p].retried}
\* Mutant: the timed-out stay queued.
AllSurvive == {replay}
Survivors ==
  {s \in Arrangements(Range(replay) \ Dead) :
     \A i, j \in DOMAIN s : i < j => Precedes(replay, s[i], s[j])}

expire_replay ==
  /\ Resolve(Dead, "Timeout")
  /\ retained' = [p \in Pubs |->
       IF p \in Dead THEN NotRetained
       ELSE IF p \in Lapsed
            THEN [retained[p] EXCEPT !.lapsed = FALSE, !.retried = TRUE]
            ELSE retained[p]]

accept_publish(batch) ==
  \/ /\ phase = "Ready"
     /\ pending' = batch /\ pc' = "accept"
     /\ UNCHANGED <<replay, budgetVars, retained>>
  \/ /\ phase = "Suspended"
     /\ replay' = replay \o batch
     /\ UNCHANGED <<pending, pc, budgetVars, retained>>
  \/ /\ phase = "FailedPermanent"
     /\ Complete(Range(batch), "Transport")
     /\ UNCHANGED <<pending, pc, replay>>

\* The command arm, publish command first: every queued publish up to the
\* first other command is accepted in one drain, and that command deferred.
CoalescePublishes ==
  /\ AtSelect
  /\ \E n \in 1..Len(commands) :
       /\ \A i \in 1..n : commands[i].type = "Publish"
       /\ n < Len(commands) => commands[n + 1].type # "Publish"
       /\ deferred' = IF n < Len(commands) THEN <<commands[n + 1]>> ELSE <<>>
       /\ commands' = SubSeq(commands, n + 2, Len(commands))
       /\ accept_publish([i \in 1..n |-> commands[i].pub])
  /\ UNCHANGED <<stage, handles, declaring, polling, connVars, publishing,
                 ledger, sequence, brokerVars>>

\* The command arm, any other command first.
TakeCommand ==
  /\ AtSelect /\ commands # <<>> /\ Head(commands).type # "Publish"
  /\ deferred' = <<Head(commands)>>
  /\ commands' = Tail(commands)
  /\ UNCHANGED <<stage, handles, budgetVars, pc, drainVars, connVars, heldVars,
                 sequence, retained, brokerVars>>

Deferred(type) ==
  pc = "select" /\ deferred # <<>> /\ Head(deferred).type = type

HandleRecovering ==
  /\ Deferred("Recovering")
  /\ suspend(Head(deferred).generation, <<>>)
  /\ deferred' = <<>>
  /\ UNCHANGED <<callerVars, budgetVars, pc, drainVars, sequence, brokerVars>>

\* Ready adopts the channel and starts flush_replay; publications still on
\* the wire of an older channel keep their futures.
HandleReady ==
  /\ Deferred("Ready")
  /\ Head(deferred).topology_restored
  /\ Head(deferred).generation >= generation
  /\ generation' = Head(deferred).generation
  /\ channel' = Head(deferred).channel
  /\ phase' = "Ready"
  /\ expire_replay /\ pending' \in Survivors /\ replay' = <<>>
  /\ pc' = "flush" /\ deferred' = <<>>
  /\ UNCHANGED <<callerVars, declaring, polling, publishing, ledger, sequence,
                 brokerVars>>

\* Ready refused: topology not restored, stale generation, or confirm.select
\* failing on the new channel.  The state is left as it was.
RefuseReady ==
  /\ Deferred("Ready")
  /\ \/ ~Head(deferred).topology_restored
     \/ Head(deferred).generation < generation
     \/ Confirms /\ chState[Head(deferred).channel] # "up"
  /\ deferred' = <<>>
  /\ UNCHANGED <<callerVars, budgetVars, pc, drainVars, connVars, heldVars,
                 sequence, retained, brokerVars>>

\* ActorState::fail_all, with the futures dropped.
\* Mutant: the replay queue is kept.
fail_in_flight(o) ==
  /\ Complete(publishing \cup ledger, o)
  /\ publishing' = {} /\ ledger' = {} /\ UNCHANGED replay

fail_all(o) ==
  /\ Complete(StatePubs, o)
  /\ replay' = <<>> /\ publishing' = {} /\ ledger' = {}

HandleFailedPermanent ==
  /\ Deferred("FailedPermanent")
  /\ generation' = MaxOf(generation, Head(deferred).generation)
  /\ fail_all("Transport")
  /\ phase' = "FailedPermanent" /\ channel' = NoChannel
  /\ deferred' = <<>>
  /\ UNCHANGED <<callerVars, pc, drainVars, sequence, brokerVars>>

\* The deadline arm, armed by next_deadline while Suspended.
ExpireReplay ==
  /\ AtSelect /\ phase = "Suspended" /\ Lapsed # {}
  /\ expire_replay /\ replay' \in Survivors
  /\ UNCHANGED <<callerVars, pc, deferred, drainVars, connVars, publishing,
                 ledger, sequence, brokerVars>>

\* handle_publish_completion.  A recoverable failure parks p again, suspends
\* the actor and, when publish_queue is running, ends it with the rest of its
\* work list appended to the replay queue.
AfterDrain == CASE pc = "quiesceDrain"        -> "quiesce"
                [] pc \in {"accept", "flush"} -> "select"
                [] OTHER                      -> pc

WriteOutcome(result) == CASE result = "ok"        -> "Confirmed"
                          [] result = "timeout"   -> "Timeout"
                          [] result = "permanent" -> "Transport"

handle_publish_completion(p, result) ==
  /\ \/ /\ result = "ok" /\ Confirms
        /\ publishing' = publishing \ {p} /\ ledger' = ledger \cup {p}
        /\ UNCHANGED <<budgetVars, pc, pending, connVars, replay, retained>>
     \/ /\ result # "recoverable" /\ ~(result = "ok" /\ Confirms)
        /\ Complete({p}, WriteOutcome(result))
        /\ publishing' = publishing \ {p}
        /\ UNCHANGED <<pc, pending, connVars, ledger, replay>>
     \/ /\ result = "recoverable"
        /\ suspend(generation, pending)
        /\ pending' = <<>> /\ pc' = AfterDrain
        /\ UNCHANGED budgetVars
  /\ polling' = {}
  /\ UNCHANGED <<callerVars, deferred, declaring, sequence, brokerVars>>

\* The results the transport's publish future can have for p's attempt.
WriteResults(p) ==
  {"timeout"} \cup (IF retained[p].wire # "none" THEN {"ok"} ELSE {})
              \cup (CASE chState[retained[p].on] = "lost"    -> {"recoverable"}
                      [] chState[retained[p].on] = "refused" -> {"permanent"}
                      [] OTHER                               -> {})

\* The arms that poll publish_in_flight and confirmations run in run_actor's
\* select! and, while the phase is Ready, in quiesce_and_close's.
Polling == AtSelect \/ (pc = "quiesce" /\ phase = "Ready")

PublishCompletion(p) ==
  /\ Polling /\ p \in publishing
  /\ \E result \in WriteResults(p) : handle_publish_completion(p, result)

\* resolve_confirmation.  The generation a confirmation carries is the one of
\* its ledger entry: sequence numbers are never reused.
\* Mutant: a returned message counts as acknowledged.
ConfirmedWhenReturned(p) ==
  LET r == retained[p]
  IN CASE r.wire \in {"ack", "returned"} -> {"Confirmed"}
       [] r.wire = "nack"               -> {"Nack"}
       [] OTHER                         -> {"Timeout"}

ConfirmationOutcomes(p) ==
  LET r == retained[p]
  IN CASE r.wire = "ack"      -> {"Confirmed"}
       [] r.wire = "nack"     -> {"Nack"}
       [] r.wire = "returned" -> {"Returned"}
       [] OTHER -> {"Timeout"} \cup
                   (IF chState[r.on] = "refused" THEN {"Transport"} ELSE {})

ResolveConfirmation(p) ==
  /\ Polling /\ p \in ledger
  /\ \/ /\ \E o \in ConfirmationOutcomes(p) : Complete({p}, o)
        /\ ledger' = ledger \ {p}
        /\ UNCHANGED <<connVars, replay, publishing>>
     \/ /\ retained[p].wire = "wire" /\ chState[retained[p].on] = "lost"
        /\ suspend(generation, <<>>)
        /\ UNCHANGED budgetVars
  /\ UNCHANGED <<callerVars, pc, deferred, drainVars, sequence, brokerVars>>

-----------------------------------------------------------------------------
(* publish_queue, one item of the work list at a time.                      *)

DrainItem(p) == /\ pc \in Draining /\ polling = {} /\ pending # <<>>
                /\ p = Head(pending)

\* The deadline has lapsed.
DrainExpired(p) ==
  /\ DrainItem(p) /\ ~declaring /\ retained[p].lapsed
  /\ Complete({p}, "Timeout")
  /\ pending' = Tail(pending)
  /\ UNCHANGED <<callerVars, pc, deferred, declaring, polling, connVars,
                 heldVars, sequence, brokerVars>>

\* ensure_delay_topology awaits the broker, without a bound.
DrainDeclare(p) ==
  /\ DrainItem(p) /\ ~declaring /\ ~retained[p].lapsed
  /\ p \in Delayed
  /\ declaring' = TRUE
  /\ UNCHANGED <<callerVars, budgetVars, pc, deferred, pending, polling,
                 connVars, heldVars, sequence, retained, brokerVars>>

\* The key of the next attempt in publishing and the ledger.
\* Mutant: numbered by what is in flight.
InFlightCount == Cardinality(publishing \cup ledger) + 1
NextSequence  == sequence + 1

\* The declaration or the route fails: terminal for this publication only.
\* route_transport_request fails after the sequence number was taken.
DrainUnroutable(p) ==
  /\ DrainItem(p) /\ declaring
  /\ \/ \E o \in {"Transport", "InvalidRequest"} : Complete({p}, o)
        /\ UNCHANGED sequence
     \/ Complete({p}, "InvalidRequest")
        /\ sequence' = NextSequence
  /\ pending' = Tail(pending) /\ declaring' = FALSE
  /\ UNCHANGED <<callerVars, pc, deferred, polling, connVars, heldVars,
                 brokerVars>>

\* The wire-write starts: p enters publishing under a fresh sequence number
\* and its future is polled once.  The deadline is not looked at again after
\* the topology await.
DrainAttempt(p) ==
  /\ DrainItem(p)
  /\ declaring \/ (p \notin Delayed /\ ~retained[p].lapsed)
  /\ sequence' = NextSequence
  /\ retained' = [retained EXCEPT ![p].sequence = NextSequence,
                                  ![p].on = channel]
  /\ publishing' = publishing \cup {p}
  /\ polling' = {p} /\ pending' = Tail(pending) /\ declaring' = FALSE
  /\ UNCHANGED <<callerVars, budgetVars, pc, deferred, connVars, replay,
                 ledger, brokerVars>>

\* now_or_never: the future is ready at once, or joins publish_in_flight.
PollReady(p) ==
  /\ p \in polling
  /\ \E result \in WriteResults(p) : handle_publish_completion(p, result)

PollPending ==
  /\ polling # {}
  /\ polling' = {}
  /\ UNCHANGED <<callerVars, budgetVars, pc, deferred, pending, declaring,
                 connVars, heldVars, sequence, retained, brokerVars>>

DrainDone ==
  /\ pc \in Draining /\ polling = {} /\ pending = <<>>
  /\ pc' = AfterDrain
  /\ UNCHANGED <<callerVars, budgetVars, deferred, drainVars, connVars,
                 heldVars, sequence, retained, brokerVars>>

-----------------------------------------------------------------------------
(* Shutdown.                                                                *)

\* quiesce_and_close attempts everything first when the phase is Ready ...
StartQuiesce ==
  /\ Deferred("Close") /\ phase = "Ready"
  /\ deferred' = <<>> /\ pc' = "quiesceDrain"
  /\ pending' = replay /\ replay' = <<>>
  /\ UNCHANGED <<callerVars, budgetVars, declaring, polling, connVars,
                 publishing, ledger, sequence, retained, brokerVars>>

\* ... waits while something is pending, until its deadline at the latest ...
EndQuiesce ==
  /\ \/ Deferred("Close") /\ phase # "Ready"
     \/ pc = "quiesce"
  /\ fail_all("Closed")
  /\ deferred' = <<>> /\ pc' = "closing" /\ channel' = NoChannel
  /\ UNCHANGED <<callerVars, drainVars, phase, generation, sequence,
                 brokerVars>>

\* ... and closes the channel.  The task's end drops the receiver, and with
\* it every command still queued: those waiters resolve Closed.
Stop ==
  /\ pc = "closing"
  /\ Complete(QueuedPubs, "Closed")
  /\ commands' = <<>> /\ pc' = "stopped"
  /\ UNCHANGED <<stage, handles, deferred, drainVars, connVars, heldVars,
                 sequence, brokerVars>>

\* recv() returns None: all handles were dropped.
HandlesDropped ==
  /\ AtSelect /\ commands = <<>> /\ ~handles
  /\ fail_all("Closed")
  /\ pc' = "stopped"
  /\ UNCHANGED <<callerVars, deferred, drainVars, connVars, sequence,
                 brokerVars>>

-----------------------------------------------------------------------------
(* The environment: the transport, the broker and the clock.                *)

WriteFrame(p) ==
  /\ p \in publishing /\ retained[p].wire = "none"
  /\ chState[retained[p].on] = "up"
  /\ retained' = [retained EXCEPT ![p].wire = "wire"]
  /\ UNCHANGED <<callerVars, budgetVars, pc, deferred, drainVars, connVars,
                 heldVars, sequence, brokerVars>>

BrokerVerdict(p, v) ==
  /\ Confirms /\ retained[p].wire = "wire" /\ chState[retained[p].on] = "up"
  /\ retained' = [retained EXCEPT ![p].wire = v]
  /\ stored' = IF v = "ack" THEN stored \cup {p} ELSE stored
  /\ UNCHANGED <<callerVars, budgetVars, pc, deferred, drainVars, connVars,
                 heldVars, sequence, chState>>

ChannelDown(c, s) ==
  /\ chState[c] = "up"
  /\ chState' = [chState EXCEPT ![c] = s]
  /\ UNCHANGED <<callerVars, budgetVars, pc, deferred, drainVars, connVars,
                 heldVars, sequence, retained, stored>>

Lapse(p) ==
  /\ stage[p] = "accepted" /\ outcome[p] = "none" /\ ~retained[p].lapsed
  /\ retained' = [retained EXCEPT ![p].lapsed = TRUE]
  /\ UNCHANGED <<callerVars, budgetVars, pc, deferred, drainVars, connVars,
                 heldVars, sequence, brokerVars>>

-----------------------------------------------------------------------------
\* confirm.select on the initial channel may fail: the actor then starts in
\* FailedPermanent, with that channel still in its slot.
Init ==
  /\ stage = [p \in Pubs |-> "idle"] /\ outcome = [p \in Pubs |-> "none"]
  /\ reserved = 0 /\ permits = Capacity /\ commands = <<>> /\ handles = TRUE
  /\ pc = "select" /\ deferred = <<>> /\ pending = <<>> /\ declaring = FALSE
  /\ polling = {}
  /\ phase \in {"Ready"} \cup (IF Confirms THEN {"FailedPermanent"} ELSE {})
  /\ generation = 1 /\ channel = 1
  /\ replay = <<>> /\ publishing = {} /\ ledger = {} /\ sequence = 0
  /\ retained = [p \in Pubs |-> NotRetained]
  /\ chState = [c \in Channels |-> IF c = 1 THEN "up" ELSE "unused"]
  /\ stored = {}

Callers == \/ \E p \in Pubs : Admit(p) \/ SendPublish(p)
           \/ \E e \in ConnEvents : ConnectionEvent(e)
           \/ Close \/ DropHandles

Actor == \/ CoalescePublishes \/ TakeCommand
         \/ HandleRecovering \/ HandleReady \/ RefuseReady
         \/ HandleFailedPermanent \/ ExpireReplay
         \/ \E p \in Pubs : \/ PublishCompletion(p) \/ ResolveConfirmation(p)
                            \/ DrainExpired(p) \/ DrainDeclare(p)
                            \/ DrainUnroutable(p) \/ DrainAttempt(p)
                            \/ PollReady(p)
         \/ PollPending \/ DrainDone
         \/ StartQuiesce \/ EndQuiesce \/ Stop \/ HandlesDropped

Environment == \/ \E p \in Pubs : WriteFrame(p) \/ Lapse(p)
               \/ \E p \in Pubs, v \in Verdicts : BrokerVerdict(p, v)
               \/ \E c \in Channels, s \in Faults : ChannelDown(c, s)

Next == Callers \/ Actor \/ Environment

Spec == Init /\ [][Next]_vars

-----------------------------------------------------------------------------
(* Properties.                                                              *)

TypeOK ==
  /\ stage \in [Pubs -> {"idle", "admitted", "accepted"}]
  /\ outcome \in [Pubs -> Outcomes \cup {"none"}]
  /\ permits \in 0..Capacity /\ handles \in BOOLEAN
  /\ commands \in Seq(Command)
  /\ Len(commands) <= Capacity
  /\ pc \in Draining \cup {"select", "quiesce", "closing", "stopped"}
  /\ deferred \in Seq(ConnEvents \cup {CloseCmd}) /\ Len(deferred) <= 1
  /\ pending \in Seq(Pubs) /\ declaring \in BOOLEAN
  /\ polling \in SUBSET publishing
  /\ phase \in {"Ready", "Suspended", "FailedPermanent"}
  /\ generation \in Nat /\ channel \in Channels \cup {NoChannel}
  /\ replay \in Seq(Pubs) /\ publishing \in SUBSET Pubs /\ ledger \in SUBSET Pubs
  /\ sequence \in Nat
  /\ retained \in [Pubs -> RetainedPublish]
  /\ chState \in [Channels -> {"unused", "up", "lost", "refused"}]
  /\ stored \in SUBSET Pubs

Unresolved == {p \in Pubs : stage[p] = "accepted" /\ outcome[p] = "none"}

\* No silent loss, no double ownership: a publication whose waiter is still
\* unresolved is in exactly one of the command queue, publish_queue's work
\* list, the replay queue, publishing and the ledger, once; a resolved one is
\* in none of them (suspend, fail_all and the drain move publications around).
HeldOnce ==
  /\ QueuedPubs \cup Range(pending) \cup StatePubs = Unresolved
  /\ \A i, j \in DOMAIN commands :
       commands[i].type = "Publish" /\ commands[i] = commands[j] => i = j
  /\ IsInjective(pending) /\ IsInjective(replay)
  /\ QueuedPubs \cap (Range(pending) \cup StatePubs) = {}
  /\ Range(pending) \cap StatePubs = {}
  /\ Range(replay) \cap (publishing \cup ledger) = {}
  /\ publishing \cap ledger = {}

\* In safe mode a publish call reports success only for a publication the
\* broker has acknowledged, whatever was lost, replayed or timed out before
\* (resolve_confirmation, handle_publish_completion).
ConfirmedIsStored ==
  Confirms => \A p \in Pubs : outcome[p] = "Confirmed" => p \in stored

Holders == {p \in Pubs : stage[p] = "admitted"} \cup Unresolved

\* The capacity permit and the byte reservation are held by exactly the
\* publications between their acquisition and their terminal outcome:
\* neither leaks on a refusal, a suspension or a shutdown (BudgetGuard).
BudgetBalanced ==
  /\ permits = Capacity - Cardinality(Holders)
  /\ reserved = SumFunctionOnSet(Size, Holders)
  /\ reserved <= MaxBytes

\* next_deadline arms no timer unless the phase is Suspended, so a
\* publication parked in replay in any other phase would wait for ever.
ParkedOnlyWhileSuspended ==
  pc \in {"select", "quiesce"} /\ phase # "Suspended" => replay = <<>>

\* publishing and the ledger are maps keyed by sequence: two publications
\* held under one key would overwrite each other, so no two attempts ever
\* share a sequence number, across suspensions and replays (publish_queue).
AttemptsDistinct ==
  \A p, q \in Pubs :
    retained[p].sequence # 0 /\ retained[p].sequence = retained[q].sequence => p = q

\* A terminal outcome is final: the waiter is never resolved again and the
\* publication is never attempted again ("a confirm timeout on a live
\* connection stays terminal", docs/reference.md).
OutcomeIsFinal ==
  [][\A p \in Pubs : outcome[p] # "none" =>
       outcome'[p] = outcome[p] /\ p \notin publishing']_vars

\* A deadline is re-armed at most once per publication, and only one that
\* lapsed while parked in the replay queue (expire_replay).
RearmedOnceWhileParked ==
  [][\A p \in Pubs :
       outcome'[p] = "none" /\ retained[p].lapsed /\ ~retained'[p].lapsed =>
         /\ p \in Range(replay)
         /\ ~retained[p].retried /\ retained'[p].retried]_vars

\* The generation of the publisher never goes back, whatever order the
\* connection events come in (suspend, handle_connection_event).
GenerationMonotone == [][generation' >= generation]_vars

\* Publisher implements PublishContract: what a caller sees.
Status == [p \in Pubs |->
  IF stage[p] # "accepted" THEN "idle"
  ELSE CASE outcome[p] = "none"      -> "accepted"
         [] outcome[p] = "Confirmed" -> "confirmed"
         [] OTHER                    -> "failed"]

Contract == INSTANCE PublishContract WITH status <- Status

\* Every behaviour of the publisher is one of the contract: no step of any
\* actor gives a publication a second outcome, takes one back, or reports
\* success before the acknowledgement (all handlers of actor.rs).
ImplementsContract == Contract!Spec

-----------------------------------------------------------------------------
(* The inductive invariant the proofs use.                                  *)

\* What the control state says about the containers: the drain runs only
\* while Ready and holds the only work list, nothing is on the wire while
\* Suspended, and nothing is held once the actor is closing.
ControlShape ==
  /\ \A p \in Pubs : outcome[p] # "none" => stage[p] = "accepted"
  /\ pc \in Draining => phase = "Ready" /\ replay = <<>>
  /\ pc \notin Draining => pending = <<>> /\ polling = {}
  /\ phase = "Suspended" => publishing = {} /\ ledger = {}
  /\ pc \in {"closing", "stopped"} => StatePubs = {}
  /\ pc = "stopped" => commands = <<>>
  /\ ParkedOnlyWhileSuspended

\* An acknowledgement on its way to the actor is for a stored publication.
AckedIsStored == \A p \in Pubs : retained[p].wire = "ack" => p \in stored

\* TypeOK, HeldOnce and ConfirmedIsStored are preserved by every step of the
\* actor only together with the permit count and the control state.
IInv == /\ TypeOK /\ HeldOnce /\ ControlShape
        /\ permits = Capacity - Cardinality(Holders)
        /\ AckedIsStored /\ ConfirmedIsStored

-----------------------------------------------------------------------------
(* Liveness.  tokio::select! polls its ready arms in random order, so every *)
(* arm that is ready again and again is eventually taken (SF); the actor    *)
(* never stops in the middle of a handler (WF); deadlines pass (WF).        *)

Fairness ==
  /\ WF_vars(Actor)
  /\ SF_vars(CoalescePublishes) /\ SF_vars(TakeCommand)
  /\ SF_vars(ExpireReplay)
  /\ \A p \in Pubs : /\ SF_vars(PublishCompletion(p))
                     /\ SF_vars(ResolveConfirmation(p))
                     /\ WF_vars(Lapse(p))

FairSpec == Spec /\ Fairness

\* Every accepted publication is eventually resolved ("every publish is
\* tracked to ACK, return, or timeout", README.md).
EveryPublishResolves ==
  \A p \in Pubs : stage[p] = "accepted" ~> outcome[p] # "none"
=============================================================================
