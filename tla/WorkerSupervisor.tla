-------------------------- MODULE WorkerSupervisor --------------------------
(***************************************************************************)
(* rabbit-rs:work (Console/WorkerSupervisor.php): one process that polls   *)
(* its queue:work children, restarts, releases and re-arms them, scales    *)
(* the fleet of each connection by the depth Support/QueueDepthSampler.php *)
(* reads, and stops them all on SIGTERM.  The children, the broker's       *)
(* queues and the prestop hook run beside it, between any two polls.       *)
(*                                                                         *)
(* One pass of the supervision loop takes one unit of time; every delay    *)
(* is what is left of it, in passes.  The order of slots is the order of   *)
(* worker indexes, which are never used twice.                             *)
(***************************************************************************)
EXTENDS Integers, Sequences, FiniteSets, FiniteSetsExt, SequencesExt

CONSTANTS
  Plan,          \* the connections of the work plan, in order
  Queues,        \* the queues of each connection
  MaxReArms,     \* MAX_ONE_SHOT_REARMS
  Escalation,    \* STOP_ESCALATION_SECONDS, in passes
  Convergence,   \* DRAIN_CONVERGENCE_SECONDS, in passes
  MemoTtl,       \* NATIVE_CACHE_TTL_SECONDS, in passes
  Cooldown, Idle,\* scaleCooldownSeconds and scaleIdleSeconds, in passes
  Setups         \* the options of a fleet, and what happens to it

Connections == Range(Plan)
Queue == UNION {Queues[e] : e \in Connections}
NoDepth == -1    \* the depth could not be read
Off     == -1    \* a timer that is not running

ASSUME SupervisorAssumption ==
  /\ IsInjective(Plan) /\ Plan # <<>>
  /\ \A e \in Connections : Queues[e] # {} /\ \A f \in Connections \ {e} : Queues[e] \cap Queues[f] = {}
  /\ {MaxReArms, Escalation, Convergence, MemoTtl, Cooldown, Idle} \subseteq Nat
  /\ Convergence >= 2 /\ Cooldown > 0
  /\ \A u \in Setups :
       /\ u.mode \in {"once", "empty", "loop"} /\ u.native \in BOOLEAN
       /\ u.workers \in Nat \ {0} /\ u.min \in Nat \ {0}
       /\ u.max = 0 \/ u.max >= u.min
       /\ u.maxRestarts \in Nat /\ u.baseBackoff \in Nat

VARIABLES
  setup,         \* the setup of this behaviour; it never changes
  \* the supervisor
  pc, at,        \* the stage of the loop, and the slot or entry it is at
  slots,         \* the child slots, with the process in each
  entries,       \* EntryState of each connection
  streak,        \* ScaleState::emptySince of each connection
  pass,          \* passes until the next scaling pass
  memo,          \* the sampler's memoized depth of each queue
  settled,       \* allSettled
  grace,         \* what is left of the shared grace period of stopAllSlots
  shutdown, exit,
  \* around it
  marker,        \* the prestop hook, which keeps a drain marker while it waits
  ready, limbo,  \* jobs in each queue, jobs of dead children not requeued yet
  budget         \* bound: crashes, recyclings, publishes and hooks to come

fleetVars  == <<slots, entries, streak, pass, memo>>
loopVars   == <<pc, at, settled, grace, exit>>
brokerVars == <<ready, limbo>>
vars == <<setup, fleetVars, loopVars, shutdown, marker, brokerVars, budget>>

OneShot == setup.mode \in {"once", "empty"}

\* ChildSlot: the process is running or has exited, holds a job of a queue or
\* none, and has been reached by SIGTERM.  wait: restartAt, grace: stoppingAt plus the escalation.
NewSlot(e) == [entry |-> e, process |-> "running", holds |-> {}, term |-> FALSE,
               restarts |-> 0, wait |-> Off, stopping |-> FALSE, grace |-> 0]

MinOf(a, b) == IF a < b THEN a ELSE b

initialWorkers == IF setup.max = 0 THEN setup.workers ELSE MinOf(setup.workers, setup.max)

spawnSlots(e, n) == [i \in 1..n |-> NewSlot(e)]
spawnInitialChildren == FlattenSeq([i \in DOMAIN Plan |-> spawnSlots(Plan[i], initialWorkers)])

\* skipped is a history variable: the queues the reading that ended the drain
\* left out.
newEntryState == [reArms |-> 0, lastDepth |-> 0, cleanExits |-> FALSE, closed |-> FALSE,
                  sawWork |-> FALSE, converge |-> Off, skipped |-> {}]

Init ==
  /\ setup \in Setups
  /\ pc = "top" /\ at = 1 /\ settled = FALSE /\ grace = 0 /\ exit = 0
  /\ slots = spawnInitialChildren
  /\ entries = [e \in Connections |-> newEntryState]
  /\ streak = [e \in Connections |-> Off] /\ pass = 0
  /\ memo = [q \in Queue |-> [depth |-> 0, left |-> 0]]
  /\ shutdown = FALSE /\ marker = "none"
  /\ ready = setup.jobs
  /\ limbo = [q \in Queue |-> [young |-> 0, old |-> 0]]
  /\ budget = [crash |-> setup.crashes, recycle |-> setup.recycles,
               publish |-> setup.publishes, hook |-> setup.hooks]

-----------------------------------------------------------------------------
(* The fleet.                                                               *)

IsRunning(i) == slots[i].process = "running"
SlotsOf(e)   == {i \in DOMAIN slots : slots[i].entry = e}
Running(e)   == {i \in SlotsOf(e) : IsRunning(i)}
liveCount(e) == Cardinality(Running(e))

\* Mutant: a release does not wait for the one before it.
releases_again(e) == FALSE

hasPendingRelease(e) == \E i \in SlotsOf(e) : slots[i].stopping

BackoffCap == 4  \* the 60 s at which backoffSeconds stops growing, in passes

backoffSeconds(restarts) == MinOf(setup.baseBackoff * 2^restarts, BackoffCap)

\* Processes that exit, in the state they leave behind: a job a child held is
\* with the broker until it notices that the connection is gone.
Exited(S, how) ==
  /\ slots' = [i \in DOMAIN slots |->
                 IF i \in S THEN [slots[i] EXCEPT !.process = how, !.holds = {}]
                            ELSE slots[i]]
  /\ limbo' = [q \in Queue |->
                 [limbo[q] EXCEPT !.young = @ + Cardinality({i \in S : q \in slots[i].holds})]]

\* SIGTERM to the children S: one that is parked in a blocking native call
\* does not observe it.
Observing(S) == IF setup.deaf THEN SUBSET S ELSE {S}

-----------------------------------------------------------------------------
(* The depth of a connection's queues.                                      *)

InLimbo(q) == limbo[q].young + limbo[q].old
Unacked(q) == Cardinality({i \in DOMAIN slots : q \in slots[i].holds}) + InLimbo(q)

\* Pool::size() counts what is ready; the management API adds what is unacked,
\* unless the scaler asks for the ready gauge.
Depth(q, readyOnly) ==
  ready[q] + (IF setup.native \/ readyOnly THEN 0 ELSE Unacked(q))

Probe(q, readyOnly, failed) == IF q \in failed THEN NoDepth ELSE Depth(q, readyOnly)

Memoized(q) == setup.native /\ memo[q].left > 0

\* QueueDepthSampler::depths: a call reads every queue of the plan, takes the
\* memoized depth where it may, and fails for some.
depths(fresh, readyOnly) ==
  {[q \in Queue |-> IF Memoized(q) /\ ~fresh THEN memo[q].depth ELSE Probe(q, readyOnly, failed)] :
     failed \in SUBSET setup.blind}

\* The depth of a connection: the sum over the queues that could be read, which
\* is not known when none could.
Unread(e, d) == {q \in Queues[e] : d[q] = NoDepth}

depthFor(e, d) ==
  IF Unread(e, d) = Queues[e] THEN NoDepth
  ELSE MapThenSumSet(LAMBDA q : d[q], Queues[e] \ Unread(e, d))

\* What the memo holds after a call that read d.
Memo(d, fresh) ==
  [q \in Queue |->
     IF setup.native /\ (fresh \/ ~Memoized(q)) THEN [depth |-> d[q], left |-> MemoTtl]
                                               ELSE memo[q]]

-----------------------------------------------------------------------------
(* The loop: what stops it, and the way from one stage to the next.         *)

GoTo(stage) == pc' = stage /\ at' = 1

\* stopAllSlots: every running child gets SIGTERM.
stopAllSlots(status) ==
  \E T \in Observing({i \in DOMAIN slots : IsRunning(i)}) :
    /\ slots' = [i \in DOMAIN slots |->
         [slots[i] EXCEPT !.stopping = @ \/ IsRunning(i), !.term = @ \/ i \in T]]
    /\ GoTo("grace") /\ grace' = Escalation /\ exit' = status

Shutdown ==
  /\ pc = "top" /\ shutdown
  /\ stopAllSlots(0)
  /\ UNCHANGED <<setup, entries, streak, pass, memo, settled, shutdown, marker, brokerVars,
                 budget>>

StartPass ==
  /\ pc = "top" /\ ~shutdown
  /\ GoTo("reap")
  /\ UNCHANGED <<setup, fleetVars, settled, grace, exit, shutdown, marker, brokerVars, budget>>

ToScaling ==
  IF setup.max > 0 /\ pass = 0 THEN GoTo("scale") /\ pass' = Cooldown
                               ELSE GoTo("sleep") /\ UNCHANGED pass

-----------------------------------------------------------------------------
(* The poll of the slots.                                                   *)

Reaping(i) == pc = "reap" /\ at = i /\ i \in DOMAIN slots
Restarted(slot) == [slot EXCEPT !.process = "running", !.term = FALSE, !.holds = {}]

\* A running child is passed over; a released one that outlived its grace
\* period is killed.
PollRunning(i) ==
  /\ Reaping(i) /\ IsRunning(i)
  /\ IF ~OneShot /\ slots[i].stopping /\ slots[i].grace = 0
       THEN Exited({i}, "crashed") ELSE UNCHANGED <<slots, limbo>>
  /\ at' = at + 1
  /\ UNCHANGED <<setup, entries, streak, pass, memo, pc, settled, grace, exit, shutdown,
                 marker, ready, budget>>

\* Once mode: every exit is terminal for its slot.
ReapOnce(i) ==
  /\ Reaping(i) /\ ~IsRunning(i) /\ OneShot
  /\ slots' = RemoveAt(slots, i)
  /\ IF slots[i].process = "clean"
       THEN entries' = [entries EXCEPT ![slots[i].entry].cleanExits = TRUE] /\ UNCHANGED exit
       ELSE exit' = 1 /\ UNCHANGED entries
  /\ UNCHANGED <<setup, streak, pass, memo, pc, at, settled, grace, shutdown, marker,
                 brokerVars, budget>>

ReapReleased(i) ==
  /\ Reaping(i) /\ ~IsRunning(i) /\ ~OneShot /\ slots[i].stopping
  /\ slots' = RemoveAt(slots, i)
  /\ UNCHANGED <<setup, entries, streak, pass, memo, loopVars, shutdown, marker, brokerVars,
                 budget>>

drainRequested == marker # "none"

\* superviseDeadSlot, for a slot that supervision goes on with: a clean exit is
\* recycled at once, unless a prestop drain is in flight; a crash is restarted
\* when its backoff has elapsed.
Supervised(slot) ==
  CASE slot.process = "clean" /\ drainRequested  -> slot
    [] slot.process = "clean" /\ ~drainRequested -> [Restarted(slot) EXCEPT !.restarts = 0]
    [] slot.process = "crashed" /\ slot.wait = 0 -> [Restarted(slot) EXCEPT !.wait = Off]
    [] slot.process = "crashed" /\ slot.wait > 0 -> slot
    [] slot.process = "crashed" /\ slot.wait = Off ->
         [slot EXCEPT !.wait = backoffSeconds(slot.restarts), !.restarts = @ + 1]

Exhausted(slot) ==
  slot.process = "crashed" /\ slot.wait = Off /\ slot.restarts >= setup.maxRestarts

superviseDeadSlot(i) ==
  /\ Reaping(i) /\ ~IsRunning(i) /\ ~OneShot /\ ~slots[i].stopping
  /\ IF Exhausted(slots[i])
       THEN stopAllSlots(1)
       ELSE /\ slots' = [slots EXCEPT ![i] = Supervised(@)]
            /\ at' = at + 1 /\ UNCHANGED <<pc, grace, exit>>
  /\ UNCHANGED <<setup, entries, streak, pass, memo, settled, shutdown, marker, brokerVars,
                 budget>>

EndReap ==
  /\ pc = "reap" /\ at > Len(slots)
  /\ IF OneShot THEN GoTo("settle") /\ settled' = TRUE /\ UNCHANGED pass
                ELSE ToScaling /\ UNCHANGED settled
  /\ UNCHANGED <<setup, slots, entries, streak, memo, grace, exit, shutdown, marker,
                 brokerVars, budget>>

-----------------------------------------------------------------------------
(* settleEntry: what becomes of a connection whose fleet has exited.        *)

\* Mutant: the first zero is believed.
believes_zero(state) == 0

\* What is left of the convergence window, which the first zero opens.
convergenceWindow(state) == IF state.converge = Off THEN Convergence ELSE state.converge

\* Mutant: a failed lookup is retried for ever.
retries_lookup(state) == TRUE

mayRetry(state) == state.reArms < MaxReArms

mayReArm(state, pending) ==
  state.reArms < MaxReArms \/ state.cleanExits \/ pending < state.lastDepth

Spent(state) == [state EXCEPT !.reArms = MinOf(@ + 1, MaxReArms), !.cleanExits = FALSE]

\* The outcome of the depth readings: the state, and whether the connection
\* waits, is armed again or needs no more supervision.
Decided(state, pending) ==
  CASE pending > 0 /\ mayReArm(state, pending) ->
         <<[Spent(state) EXCEPT !.lastDepth = pending, !.closed = FALSE, !.converge = Off], "arm">>
    [] pending < 0 /\ mayRetry(state) -> <<Spent(state), "wait">>
    [] pending = 0 -> <<state, "done">>
    [] OTHER -> <<[state EXCEPT !.closed = TRUE], "done">>

\* The readings: the memoized one, a fresh one before a zero is believed, and
\* the polls of the convergence window, which may or may not be due.
Outcome(e, first, second, third) ==
  LET saw   == entries[e].sawWork \/ first > 0 \/ second > 0
      state == [entries[e] EXCEPT !.sawWork = saw]
      left  == convergenceWindow(state)
  IN CASE second = 0 /\ ~saw -> <<state, "done">>
       [] second = 0 /\ saw /\ third = 0 /\ left > 0 /\ ~shutdown ->
            <<[state EXCEPT !.converge = left], "wait">>
       [] second = 0 /\ saw /\ third = 0 /\ ~(left > 0 /\ ~shutdown) ->
            Decided([state EXCEPT !.converge = left], 0)
       [] second = 0 /\ saw /\ third # 0 ->
            Decided([state EXCEPT !.converge = Off], third)
       [] OTHER -> Decided(state, second)

Settling(e) == pc = "settle" /\ at <= Len(Plan) /\ Plan[at] = e

settleEntry(e) ==
  /\ Settling(e) /\ liveCount(e) = 0
  /\ \E first \in depths(FALSE, FALSE) :
     LET probed == depthFor(e, first) = 0
         saw    == entries[e].sawWork \/ depthFor(e, first) > 0 IN
     \E second \in IF probed THEN depths(TRUE, FALSE) ELSE {first} :
     \E third \in {second} \cup (IF depthFor(e, second) = 0 /\ saw THEN depths(TRUE, FALSE) ELSE {}) :
       LET outcome == Outcome(e, depthFor(e, first), depthFor(e, second), depthFor(e, third))
           skipped == IF outcome[2] = "done" THEN Unread(e, third) ELSE {}
       IN /\ entries' = [entries EXCEPT ![e] = [outcome[1] EXCEPT !.skipped = skipped]]
          /\ settled' = (settled /\ outcome[2] = "done")
          /\ slots' = slots \o (IF outcome[2] = "arm" THEN spawnSlots(e, initialWorkers) ELSE <<>>)
          /\ memo' = Memo(third, probed)
  /\ at' = at + 1
  /\ UNCHANGED <<setup, streak, pass, pc, grace, exit, shutdown, marker, brokerVars, budget>>

StillLive(e) ==
  /\ Settling(e) /\ liveCount(e) > 0
  /\ settled' = FALSE /\ at' = at + 1
  /\ UNCHANGED <<setup, fleetVars, pc, grace, exit, shutdown, marker, brokerVars, budget>>

\* The loop ends with every connection settled, or goes on.  A signal that
\* arrived meanwhile makes the command stop what still runs.
EndSettle ==
  /\ pc = "settle" /\ at > Len(Plan)
  /\ \/ settled /\ ~shutdown /\ GoTo("returned") /\ UNCHANGED <<slots, pass, grace, exit>>
     \/ settled /\ shutdown /\ stopAllSlots(0) /\ UNCHANGED pass
     \/ ~settled /\ ToScaling /\ UNCHANGED <<slots, grace, exit>>
  /\ UNCHANGED <<setup, entries, streak, memo, settled, shutdown, marker, brokerVars, budget>>

-----------------------------------------------------------------------------
(* runScalePass and WorkScalePolicy::decide.  Scaling passes are a cooldown *)
(* apart, so the cooldown the policy checks again has always elapsed.       *)

upCount(depth, live) ==
  IF depth <= 0 \/ live >= setup.max \/ depth <= 2 * live THEN 0
  ELSE MinOf(2, setup.max - live)

downCount(depth, live, empty) ==
  IF depth > 0 \/ live <= setup.min \/ empty < Idle THEN 0 ELSE MinOf(2, live - setup.min)

\* releaseIdleSlots: the highest of the running slots.
Idlest(e, n) == {i \in Running(e) : Cardinality({j \in Running(e) : j > i}) < n}

Skipped(e, depth) ==
  depth = NoDepth \/ (OneShot /\ entries[e].closed) \/ hasPendingRelease(e)

\* The policy's decision for a connection: its zero-depth streak, how many
\* children it adds and which ones it releases.
decide(e, depth) ==
  LET live  == liveCount(e)
      empty == IF depth > 0 THEN Off ELSE IF streak[e] = Off THEN 0 ELSE streak[e]
      up    == upCount(depth, live)
      down  == IF up > 0 \/ OneShot THEN 0 ELSE downCount(depth, live, empty)
  IN IF Skipped(e, depth) THEN [empty |-> streak[e], up |-> 0, down |-> {}]
                          ELSE [empty |-> empty, up |-> up, down |-> Idlest(e, down)]

runScalePass ==
  /\ pc = "scale"
  /\ \E d \in depths(FALSE, TRUE) :
       LET action   == [e \in Connections |-> decide(e, depthFor(e, d))]
           released == UNION {action[e].down : e \in Connections}
       IN /\ memo' = Memo(d, FALSE)
          /\ streak' = [e \in Connections |-> action[e].empty]
          /\ \E T \in Observing(released) :
               slots' = [i \in DOMAIN slots |->
                           IF i \in released
                             THEN [slots[i] EXCEPT !.stopping = TRUE, !.grace = Escalation,
                                                   !.term = @ \/ i \in T]
                             ELSE slots[i]]
                        \o FlattenSeq([k \in DOMAIN Plan |->
                                          spawnSlots(Plan[k], action[Plan[k]].up)])
  /\ GoTo("sleep")
  /\ UNCHANGED <<setup, entries, pass, settled, grace, exit, shutdown, marker, brokerVars,
                 budget>>

-----------------------------------------------------------------------------
(* Time.  A job of a dead child is requeued before two passes are over.     *)

Lag(left) == IF left > 0 THEN left - 1 ELSE left
Aged(l) == [young |-> 0, old |-> l.young]

Elapse ==
  /\ \A q \in Queue : limbo[q].old = 0
  /\ limbo' = [q \in Queue |-> Aged(limbo[q])]

\* The 100 ms between two passes of the loop.
Sleep ==
  /\ pc = "sleep" /\ Elapse
  /\ slots' = [i \in DOMAIN slots |->
                 [slots[i] EXCEPT !.wait = Lag(@), !.grace = Lag(@)]]
  /\ entries' = [e \in Connections |-> [entries[e] EXCEPT !.converge = Lag(@)]]
  /\ memo' = [q \in Queue |-> [memo[q] EXCEPT !.left = Lag(@)]]
  /\ streak' = [e \in Connections |->
                  IF streak[e] = Off THEN Off ELSE MinOf(streak[e] + 1, Idle)]
  /\ pass' = Lag(pass)
  /\ GoTo("top")
  /\ UNCHANGED <<setup, settled, grace, exit, shutdown, marker, ready, budget>>

RunningSlots == {i \in DOMAIN slots : IsRunning(i)}

\* The wait of stopAllSlots for the fleet, and the SIGKILL that ends it.
GraceWait ==
  /\ pc = "grace" /\ grace > 0 /\ RunningSlots # {}
  /\ Elapse /\ grace' = grace - 1
  /\ UNCHANGED <<setup, fleetVars, pc, at, settled, exit, shutdown, marker, ready, budget>>

GraceEnd ==
  /\ pc = "grace" /\ (grace = 0 \/ RunningSlots = {})
  /\ Exited(RunningSlots, "crashed")
  /\ GoTo("returned")
  /\ UNCHANGED <<setup, entries, streak, pass, memo, settled, grace, exit, shutdown, marker,
                 ready, budget>>

SigTerm ==
  /\ setup.signals /\ ~shutdown /\ pc # "returned"
  /\ shutdown' = TRUE
  /\ UNCHANGED <<setup, fleetVars, loopVars, marker, brokerVars, budget>>

-----------------------------------------------------------------------------
(* Around the supervisor: the children, the broker and the prestop hook.    *)

ChildUnchanged == UNCHANGED <<setup, entries, streak, pass, memo, loopVars, shutdown, marker>>

ChildTakes(i) ==
  /\ IsRunning(i) /\ slots[i].holds = {} /\ ~slots[i].term
  /\ \E q \in Queues[slots[i].entry] :
       /\ ready[q] > 0
       /\ slots' = [slots EXCEPT ![i].holds = {q}]
       /\ ready' = [ready EXCEPT ![q] = @ - 1]
  /\ UNCHANGED <<limbo, budget>> /\ ChildUnchanged

\* A child acknowledges its job; with --once it exits.
ChildFinishes(i) ==
  /\ IsRunning(i) /\ slots[i].holds # {}
  /\ slots' = [slots EXCEPT ![i].holds = {},
                            ![i].process = IF setup.mode = "once" THEN "clean" ELSE @]
  /\ UNCHANGED <<brokerVars, budget>> /\ ChildUnchanged

\* It exits on SIGTERM, when its queues are empty with --once or
\* --stop-when-empty, and when it is recycled.
ChildExits(i) ==
  LET asked == slots[i].term \/ (OneShot /\ \A q \in Queues[slots[i].entry] : ready[q] = 0) IN
  /\ IsRunning(i) /\ slots[i].holds = {}
  /\ \/ asked /\ UNCHANGED budget
     \/ ~asked /\ ~OneShot /\ budget.recycle > 0
        /\ budget' = [budget EXCEPT !.recycle = @ - 1]
  /\ Exited({i}, "clean")
  /\ UNCHANGED ready /\ ChildUnchanged

ChildCrashes(i) ==
  /\ IsRunning(i) /\ budget.crash > 0
  /\ budget' = [budget EXCEPT !.crash = @ - 1]
  /\ Exited({i}, "crashed")
  /\ UNCHANGED ready /\ ChildUnchanged

Requeue(q) ==
  /\ InLimbo(q) > 0
  /\ limbo' = [limbo EXCEPT ![q] = [young |-> 0, old |-> 0]]
  /\ ready' = [ready EXCEPT ![q] = @ + InLimbo(q)]
  /\ UNCHANGED <<slots, budget>> /\ ChildUnchanged

Publish(q) ==
  /\ budget.publish > 0 /\ pc # "returned"
  /\ budget' = [budget EXCEPT !.publish = @ - 1]
  /\ ready' = [ready EXCEPT ![q] = @ + 1]
  /\ UNCHANGED <<slots, limbo>> /\ ChildUnchanged

\* The prestop hook sets its marker, signals the children with a fresh
\* statefile, waits, and clears the marker.
HookUnchanged == UNCHANGED <<setup, entries, streak, pass, memo, loopVars, shutdown, brokerVars>>

HookStarts ==
  /\ budget.hook > 0 /\ marker = "none"
  /\ marker' = "set" /\ budget' = [budget EXCEPT !.hook = @ - 1]
  /\ UNCHANGED slots /\ HookUnchanged

HookSignals ==
  /\ marker = "set" /\ marker' = "signalled"
  /\ \E T \in SUBSET RunningSlots :
       slots' = [i \in DOMAIN slots |-> [slots[i] EXCEPT !.term = @ \/ i \in T]]
  /\ UNCHANGED budget /\ HookUnchanged

HookEnds ==
  /\ marker = "signalled" /\ marker' = "none"
  /\ UNCHANGED <<slots, budget>> /\ HookUnchanged

-----------------------------------------------------------------------------
Supervise ==
  \/ Shutdown \/ StartPass \/ EndReap \/ EndSettle \/ runScalePass \/ Sleep
  \/ GraceWait \/ GraceEnd
  \/ \E i \in DOMAIN slots :
       PollRunning(i) \/ ReapOnce(i) \/ ReapReleased(i) \/ superviseDeadSlot(i)
  \/ \E e \in Connections : settleEntry(e) \/ StillLive(e)

Child(i) == ChildTakes(i) \/ ChildFinishes(i) \/ ChildExits(i)

Hook == HookStarts \/ HookSignals \/ HookEnds

Next ==
  \/ Supervise \/ SigTerm \/ Hook
  \/ \E i \in DOMAIN slots : Child(i) \/ ChildCrashes(i)
  \/ \E q \in Queue : Requeue(q) \/ Publish(q)

Spec == Init /\ [][Next]_vars

\* The supervisor, the children and the broker keep running.
FairSpec ==
  /\ Spec
  /\ WF_vars(Supervise)
  /\ WF_vars(\E i \in DOMAIN slots : Child(i))
  /\ WF_vars(\E q \in Queue : Requeue(q))

-----------------------------------------------------------------------------
(* Properties.                                                              *)

\* The command never returns with a child running, and once mode never ends
\* over work it could know of: when it has read a positive depth, or reports
\* success with the exit of every child collected, no queue of a connection
\* whose re-arm budget is not spent is left with a job, or with one on its way
\* back from a dead child, unless the depth that ended the drain left that
\* queue out (runOneShot, settleEntry, stopAllSlots, depthFor).
LeavesNothingBehind ==
  pc = "returned" =>
    /\ RunningSlots = {}
    /\ OneShot /\ ~shutdown =>
         \A e \in Connections :
           (entries[e].sawWork \/ (exit = 0 /\ SlotsOf(e) = {})) /\ ~entries[e].closed =>
             \A q \in Queues[e] \ entries[e].skipped : ready[q] + InLimbo(q) = 0

\* A connection's release always lands: a child that ignores SIGTERM cannot
\* hold up scaling, because no later pass renews its grace period
\* (runScalePass, hasPendingRelease, killSlot).
ReleasesLand ==
  \A e \in Connections :
    []<>(pc = "returned" \/ \A i \in DOMAIN slots : slots[i].entry = e => ~slots[i].stopping)

\* Once mode, and a supervisor asked to stop, come to an end, whatever the
\* children, the gauge and the prestop hook do (runOneShot, runSupervised).
Ends == (OneShot \/ shutdown) ~> (pc = "returned")

=============================================================================
