--------------------------- MODULE ConnectionActor ---------------------------
(***************************************************************************)
(* The connection actor of crates/rabbit-rs-core/src/pool: the task that   *)
(* owns the one connection of a broker, its command queue, and the state   *)
(* it publishes to watchers.                                               *)
(*                                                                         *)
(* A channel is abstracted to the connection it was opened on (connections *)
(* are numbered by serial, apart from the generation the code counts), and *)
(* opening one for publishing and for consuming is the same request.  The  *)
(* backoff delay, the attempt counter and the blocked flag (metrics only)  *)
(* are left out.                                                           *)
(***************************************************************************)
EXTENDS Integers, Sequences

CONSTANTS
  Tasks,          \* the tasks that open channels through the handle
  Environments    \* what may happen in a behaviour, chosen at its start

Start           == [type |-> "Start"]
ConnectionLost(recoverable) == [type |-> "ConnectionLost",
                                recoverable |-> recoverable]
Open(t)         == [type |-> "Open", task |-> t]
CloseCmd        == [type |-> "Close"]
Command == {Start, CloseCmd} \cup {ConnectionLost(r) : r \in BOOLEAN}
             \cup {Open(t) : t \in Tasks}

State(s, g) == [state |-> s, generation |-> g]

\* What a task knows of its last open request; on is the connection of the
\* channel it got, 0 if it got none.
Reply(s, c) == [state |-> s, on |-> c]
NoReply     == Reply("idle", 0)

VARIABLES
  phase, generation,
  after,      \* what follows close_connection while phase is Closing
  conn,       \* the connection held: none, or how it is doing
  serial,     \* the number of that connection, of the last one if none
  published,  \* the watch channel of ConnectionState
  unseen,     \* published has a value the coordinator has not seen
  commands,   \* the mpsc queue
  reply,      \* the oneshot each task awaits
  timer,      \* ticks since the connect timeout was armed
  elapsed,    \* ticks since the connect attempt began
  losses,     \* connections the environment has taken down
  early,      \* backoff delays that ended before their loss was dealt with
  env         \* the environment of this behaviour

lifeVars  == <<phase, generation, after, conn, serial, published, timer, elapsed,
               losses, early, env>>
actorVars == <<lifeVars, unseen, commands, reply>>

Faults         == env.faults          \* how connections fail, "lost" (recoverable), "refused"
MaxLosses      == env.losses          \* bound: connections the environment takes down
MaxGeneration  == env.generations     \* bound: connections ever established
ConnectTimeout == env.connect_timeout \* CONNECT_TIMEOUT, in ticks
MaxTicks       == env.ticks           \* bound: ticks counted in one connect attempt
ChannelFaults  == env.channel_faults  \* channels may fail on a connection that works
Timely         == env.timely          \* handlers finish within a backoff delay ...
MaxEarly       == env.early           \* ... except for this many delays

\* A channel opened on connection c still works.
Live(c) == c = serial /\ conn = "up"

-----------------------------------------------------------------------------
(* ConnectionActorHandle.                                                   *)

Stopped == phase = "Stopped"

\* open_publisher, open_consumer, open_admin_channel: the request, and the
\* error of a handle whose actor is gone.
RequestOpen(t) ==
  IF Stopped
  THEN reply' = [reply EXCEPT ![t] = Reply("failed", 0)] /\ UNCHANGED commands
  ELSE /\ commands' = Append(commands, Open(t))
       /\ reply' = [reply EXCEPT ![t] = Reply("waiting", 0)]

\* connection_lost: the report goes to whatever connection is active when the
\* actor reads it.
ReportLoss(recoverable) ==
  commands' = IF Stopped THEN commands
              ELSE Append(commands, ConnectionLost(recoverable))

-----------------------------------------------------------------------------
(* The actor.                                                               *)

\* The answer to an open request; nobody gets it if the task has given up.
Fulfil(t, r) == reply' = IF reply[t].state = "waiting" THEN [reply EXCEPT ![t] = r]
                         ELSE reply

Publish(s, g) == published' = State(s, g) /\ unseen' = TRUE

\* Entering Connecting starts an attempt and its timeout, leaving it drops them.
NoAttempt == timer' = 0 /\ elapsed' = 0

Enter(p) == phase' = p /\ Publish(p, 0) /\ NoAttempt

\* Mutant: requests left in the queue are forgotten.
EndForgetting ==
  /\ phase' = "Stopped" /\ Publish("Closed", 0)
  /\ commands' = <<>> /\ NoAttempt
  /\ UNCHANGED reply

\* The task ends: it drops the queue, and with it the oneshot of every open
\* request still there.
End ==
  /\ phase' = "Stopped" /\ Publish("Closed", 0)
  /\ commands' = <<>> /\ NoAttempt
  /\ reply' = [t \in Tasks |-> IF reply[t].state = "waiting"
                               THEN Reply("failed", 0) ELSE reply[t]]

\* Mutant: no command is read after a permanent failure.
NotReadyRetrying == phase \in {"Disconnected", "Connecting", "Recovering"}

\* The phases without a connection, each with a handler that reads commands.
NotReady == phase \in {"Disconnected", "Connecting", "Recovering", "FailedPermanent"}

First(type) == commands # <<>> /\ Head(commands).type = type
Took(type) == First(type) /\ commands' = Tail(commands)

\* handle_connecting polls its select! again after a command: the timeout
\* around the pinned connect future is a new one each time.
RearmTimeout == timer' = (IF phase = "Connecting" THEN 0 ELSE timer)

\* The coordinator sends Start once, before anything else; the arms that
\* ignore it in the other phases never see it.
TakeStart ==
  /\ phase \in {"Disconnected", "FailedPermanent"} /\ Took("Start")
  /\ Enter("Connecting")
  /\ UNCHANGED <<generation, after, conn, serial, env, losses, early, reply>>

\* Open requests are refused while there is no connection.
RefuseOpen ==
  /\ NotReady /\ Took("Open")
  /\ Fulfil(Head(commands).task, Reply("failed", 0))
  /\ RearmTimeout
  /\ UNCHANGED <<phase, generation, after, conn, serial, published, unseen, elapsed,
                 env, losses, early>>

\* A loss reported while no connection is active: ignored, unless it is a
\* permanent one that comes during an attempt or a backoff.
TakeLossWhileDown ==
  /\ NotReady /\ Took("ConnectionLost")
  /\ IF phase \in {"Connecting", "Recovering"} /\ ~Head(commands).recoverable
     THEN Enter("FailedPermanent")
     ELSE RearmTimeout /\ UNCHANGED <<phase, published, unseen, elapsed>>
  /\ UNCHANGED <<generation, after, conn, serial, env, losses, early, reply>>

TakeCloseWhileDown ==
  /\ NotReady /\ First("Close")
  /\ End
  /\ UNCHANGED <<generation, after, conn, serial, env, losses, early>>

\* Mutant: the generation is not bumped by a reconnection.
ReconnectOk ==
  /\ phase = "Connecting" /\ serial < MaxGeneration
  /\ generation' = 1 /\ conn' = "up" /\ serial' = serial + 1
  /\ phase' = "Ready" /\ Publish("Ready", 1) /\ NoAttempt
  /\ UNCHANGED <<after, env, losses, early, commands, reply>>

\* The connect attempt: it succeeds, fails, or outlives its timeout.
ConnectOk ==
  /\ phase = "Connecting" /\ generation < MaxGeneration
  /\ generation' = generation + 1 /\ conn' = "up" /\ serial' = serial + 1
  /\ phase' = "Ready" /\ Publish("Ready", generation + 1) /\ NoAttempt
  /\ UNCHANGED <<after, env, losses, early, commands, reply>>

ConnectFails ==
  /\ phase = "Connecting"
  /\ \/ Enter("Recovering")
     \/ "refused" \in Faults /\ Enter("FailedPermanent")
  /\ UNCHANGED <<generation, after, conn, serial, env, losses, early, commands, reply>>

\* Time passes in an attempt; the armed timeout ends it before it is exceeded.
ConnectTick ==
  /\ phase = "Connecting" /\ timer < ConnectTimeout /\ elapsed < MaxTicks
  /\ timer' = timer + 1 /\ elapsed' = elapsed + 1
  /\ UNCHANGED <<phase, generation, after, conn, serial, published, env, losses, early, unseen,
                 commands, reply>>

\* close_connection awaits the transport; route_loss follows it.
BeginClose(next) ==
  phase' = "Closing" /\ after' = next /\ conn' = "none" /\ UNCHANGED serial

FinishClose ==
  /\ phase = "Closing"
  /\ \/ after = "Closed" /\ End
     \/ after # "Closed" /\ Enter(after) /\ UNCHANGED <<commands, reply>>
  /\ UNCHANGED <<generation, after, conn, serial, env, losses, early>>

\* route_loss.
LossPhase(recoverable) == IF recoverable THEN "Recovering" ELSE "FailedPermanent"

\* The transport's event stream reports that the connection is dying.
TransportError ==
  /\ phase = "Ready" /\ conn \in {"lost", "refused"}
  /\ BeginClose(LossPhase(conn = "lost"))
  /\ UNCHANGED <<generation, published, timer, elapsed, env, losses, early, unseen, commands,
                 reply>>

TakeLoss ==
  /\ phase = "Ready" /\ Took("ConnectionLost")
  /\ BeginClose(LossPhase(Head(commands).recoverable))
  /\ UNCHANGED <<generation, published, timer, elapsed, env, losses, early, unseen, reply>>

\* The open on the active connection: the channel, an error, or no answer
\* within the bound, which counts as a loss.
OpenChannel ==
  /\ phase = "Ready" /\ Took("Open")
  /\ LET t == Head(commands).task
     IN \/ /\ conn = "up"
           /\ Fulfil(t, Reply("opened", serial))
           /\ UNCHANGED <<phase, after, conn, serial>>
        \/ /\ conn # "up" \/ ChannelFaults
           /\ Fulfil(t, Reply("failed", 0))
           /\ BeginClose("Recovering") \/ UNCHANGED <<phase, after, conn, serial>>
  /\ UNCHANGED <<generation, published, timer, elapsed, env, losses, early, unseen>>

TakeCloseWhileReady ==
  /\ phase = "Ready" /\ Took("Close")
  /\ BeginClose("Closed")
  /\ UNCHANGED <<generation, published, timer, elapsed, env, losses, early, unseen, reply>>

BackoffElapsed ==
  /\ phase = "Recovering"
  /\ Enter("Connecting")
  /\ UNCHANGED <<generation, after, conn, serial, env, losses, commands, reply>>

-----------------------------------------------------------------------------
(* The environment.                                                         *)

LoseConnection(k) ==
  /\ conn = "up" /\ losses < MaxLosses
  /\ conn' = k /\ losses' = losses + 1
  /\ UNCHANGED <<phase, generation, after, serial, published, timer, elapsed, early,
                 env, unseen, commands, reply>>

-----------------------------------------------------------------------------
ActorInit ==
  /\ phase = "Disconnected" /\ generation = 0 /\ serial = 0 /\ after = "Closed"
  /\ conn = "none"
  /\ published = State("Disconnected", 0) /\ unseen = FALSE
  /\ commands = <<>> /\ reply = [t \in Tasks |-> NoReply]
  /\ timer = 0 /\ elapsed = 0 /\ losses = 0 /\ early = 0 /\ env \in Environments

\* BackoffElapsed is left to the composition, which knows what the handlers
\* still have to do when the delay ends.
ActorStep ==
  \/ TakeStart \/ RefuseOpen \/ TakeLossWhileDown \/ TakeCloseWhileDown
  \/ ConnectOk \/ ConnectFails \/ ConnectTick \/ FinishClose
  \/ TransportError \/ TakeLoss \/ OpenChannel \/ TakeCloseWhileReady

EnvironmentStep == \E k \in Faults : LoseConnection(k)
=============================================================================
