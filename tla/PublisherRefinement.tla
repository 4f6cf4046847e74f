------------------------ MODULE PublisherRefinement -------------------------
(***************************************************************************)
(* What a step of Publisher may do to its callers: the action properties,  *)
(* and that Publisher implements PublishContract.                          *)
(***************************************************************************)
EXTENDS PublisherProofs

-----------------------------------------------------------------------------
(* What a step may do to a caller.                                          *)

\* A frame is on the wire only for a publication without an outcome.
OnWireUnresolved == \A p \in Pubs : retained[p].wire # "none" => p \in Unresolved

\* The step gives some unresolved publications one outcome; only a single
\* one is confirmed, and with confirms only after its acknowledgement.
Resolving ==
  /\ UNCHANGED <<stage, stored>>
  /\ \E S \in SUBSET Unresolved, o \in Outcomes :
       /\ outcome' = [p \in Pubs |-> IF p \in S THEN o ELSE outcome[p]]
       /\ o = "Confirmed" => \E p \in Pubs : S = {p} /\ (Confirms => p \in stored)
       /\ \A p \in Pubs : retained'[p].wire # "none" =>
                            p \notin S /\ retained[p].wire # "none"

\* The step is invisible to callers.
Quiet ==
  /\ UNCHANGED <<outcome, stored>>
  /\ stage' \in [Pubs -> {"idle", "admitted", "accepted"}]
  /\ \A p \in Pubs : (stage'[p] = "accepted") <=> (stage[p] = "accepted")
  /\ \A p \in Pubs : retained'[p].wire # "none" =>
                       retained[p].wire # "none" \/ p \in publishing

\* try_publish returns a waiter.
Accepting ==
  /\ \E p \in Pubs : stage[p] = "admitted" /\ stage' = [stage EXCEPT ![p] = "accepted"]
  /\ UNCHANGED <<outcome, stored, retained>>

\* The broker acknowledges a publication.
Storing ==
  /\ \E p \in Pubs : retained[p].wire # "none" /\ stored' = stored \cup {p}
  /\ UNCHANGED <<stage, outcome>>
  /\ \A p \in Pubs : retained'[p].wire # "none" => retained[p].wire # "none"

\* A RetainedPublish dropped at its outcome takes its frame with it.
LEMMA CompleteResolves ==
  ASSUME IInv, NEW S \in SUBSET Unresolved, NEW o \in Outcomes, Complete(S, o),
         UNCHANGED <<stage, stored>>,
         o = "Confirmed" => \E p \in Pubs : S = {p} /\ (Confirms => p \in stored)
  PROVE  Resolving
<1>1. /\ outcome' = [p \in Pubs |-> IF p \in S THEN o ELSE outcome[p]]
      /\ retained' = [p \in Pubs |-> IF p \in S THEN NotRetained ELSE retained[p]]
  BY DEF Complete, Resolve
<1>2. NotRetained.wire = "none"
  BY DEF NotRetained
<1>3. \A p \in Pubs : retained'[p].wire # "none" => p \notin S /\ retained[p].wire # "none"
  BY <1>1, <1>2
<1> QED BY <1>1, <1>3 DEF Resolving

\* expire_replay resolves the publications that lapsed twice.
LEMMA ExpireResolves ==
  ASSUME IInv, expire_replay, UNCHANGED <<stage, stored>>
  PROVE  Resolving
<1>1. Dead \in SUBSET Unresolved
  BY Finiteness DEF Dead, Lapsed, IInv, StatePubs
<1>2. outcome' = [p \in Pubs |-> IF p \in Dead THEN "Timeout" ELSE outcome[p]]
  BY Zenon DEF expire_replay, Resolve
<1>3. \A r \in RetainedPublish :
        [r EXCEPT !.lapsed = FALSE, !.retried = TRUE].wire = r.wire
  BY DEF RetainedPublish
<1>4. NotRetained.wire = "none"
  BY DEF NotRetained
<1>5. \A p \in Pubs : retained'[p].wire # "none" => p \notin Dead /\ retained[p].wire # "none"
  BY <1>3, <1>4, Zenon DEF expire_replay, IInv, TypeOK
<1>6. "Timeout" \in Outcomes /\ "Timeout" # "Confirmed"
  BY DEF Outcomes
<1> HIDE DEF Dead
<1> QED BY <1>1, <1>2, <1>5, <1>6 DEF Resolving

\* suspend drops the frames with the futures.
LEMMA SuspendQuiet ==
  ASSUME IInv, NEW g, NEW rest, suspend(g, rest), UNCHANGED <<stage, outcome, stored>>
  PROVE  Quiet
<1>1. \A r \in RetainedPublish : OffWire(r).wire = "none"
  BY DEF RetainedPublish, OffWire
<1>2. \A p \in Pubs : retained'[p].wire = "none"
  BY <1>1 DEF suspend, IInv, TypeOK
<1> QED BY <1>2 DEF Quiet, IInv, TypeOK

\* Every step of the system is one of the four kinds.
LEMMA StepKinds ==
  ASSUME IInv, Next
  PROVE  Resolving \/ Quiet \/ Accepting \/ Storing
<1> USE DEF drainVars, heldVars, budgetVars, callerVars, connVars, brokerVars
<1>1. ASSUME UNCHANGED <<stage, outcome, stored, retained>> PROVE Quiet
  BY <1>1 DEF Quiet, IInv, TypeOK
<1>2. CASE Callers
  <2>1. ASSUME NEW p \in Pubs, Admit(p) PROVE Quiet
    BY <2>1 DEF Admit, Quiet, IInv, TypeOK
  <2>2. ASSUME NEW p \in Pubs, SendPublish(p) PROVE Quiet \/ Accepting
    BY <2>2, Zenon DEF SendPublish, Quiet, Accepting, IInv, TypeOK
  <2>3. ASSUME NEW e \in ConnEvents, ConnectionEvent(e) PROVE Quiet
    BY <1>1, <2>3 DEF ConnectionEvent
  <2>4. ASSUME Close \/ DropHandles PROVE Quiet
    BY <1>1, <2>4 DEF Close, DropHandles
  <2> QED BY <1>2, <2>1, <2>2, <2>3, <2>4 DEF Callers
<1>3. CASE Environment
  <2>0. \A r \in RetainedPublish : \A v \in Verdicts \cup {"wire"} :
          [r EXCEPT !.wire = v].wire = v /\ [r EXCEPT !.lapsed = TRUE].wire = r.wire
    BY DEF RetainedPublish
  <2>1. ASSUME NEW p \in Pubs, WriteFrame(p) PROVE Quiet
    BY <2>0, <2>1 DEF WriteFrame, Quiet, IInv, TypeOK
  <2>2. ASSUME NEW p \in Pubs, Lapse(p) PROVE Quiet
    <3>1. retained' = [retained EXCEPT ![p] = [retained[p] EXCEPT !.lapsed = TRUE]]
      BY <2>2 DEF Lapse
    <3> QED BY <2>0, <2>2, <3>1 DEF Lapse, Quiet, IInv, TypeOK
  <2>3. ASSUME NEW p \in Pubs, NEW v \in Verdicts, BrokerVerdict(p, v) PROVE Quiet \/ Storing
    <3>1. \A q \in Pubs : retained'[q].wire # "none" => retained[q].wire # "none"
      BY <2>3 DEF BrokerVerdict, IInv, TypeOK
    <3>2. /\ retained[p].wire # "none" /\ UNCHANGED <<stage, outcome>>
          /\ stored' = stored \cup {p} \/ stored' = stored
      BY <2>3 DEF BrokerVerdict
    <3>3. CASE stored' = stored
      BY <3>1, <3>2, <3>3 DEF Quiet, IInv, TypeOK
    <3>4. CASE stored' = stored \cup {p}
      BY <3>1, <3>2, <3>4 DEF Storing
    <3> QED BY <3>2, <3>3, <3>4
  <2>4. ASSUME NEW c \in Channels, NEW s \in Faults, ChannelDown(c, s) PROVE Quiet
    BY <1>1, <2>4 DEF ChannelDown
  <2> QED BY <1>3, <2>1, <2>2, <2>3, <2>4 DEF Environment
<1>4. CASE Actor
  <2>1. ASSUME NEW p \in publishing, NEW result, handle_publish_completion(p, result),
               result \in {"ok", "timeout", "recoverable", "permanent"}
        PROVE  Resolving \/ Quiet
    <3>1. {p} \in SUBSET Unresolved /\ p \in Pubs /\ UNCHANGED <<stage, stored>>
      BY <2>1, Finiteness DEF handle_publish_completion, IInv, TypeOK, StatePubs
    <3>2. CASE UNCHANGED <<outcome, retained>>
      BY <1>1, <3>1, <3>2
    <3>3. CASE suspend(generation, pending) /\ UNCHANGED outcome
      BY <3>1, <3>3, SuspendQuiet
    <3>4. CASE /\ result # "recoverable" /\ ~(result = "ok" /\ Confirms)
               /\ Complete({p}, WriteOutcome(result))
      <4>1. /\ WriteOutcome(result) \in Outcomes
            /\ WriteOutcome(result) = "Confirmed" => ~Confirms
        BY <2>1, <3>4 DEF WriteOutcome, Outcomes
      <4> QED BY <3>1, <3>4, <4>1, CompleteResolves
    <3> QED BY <2>1, <3>2, <3>3, <3>4 DEF handle_publish_completion
  <2>2. ASSUME NEW p \in Pubs, PublishCompletion(p) \/ PollReady(p) PROVE Resolving \/ Quiet
    <3>1. PICK result \in WriteResults(p) : handle_publish_completion(p, result)
      BY <2>2 DEF PublishCompletion, PollReady
    <3>2. result \in {"ok", "timeout", "recoverable", "permanent"} /\ p \in publishing
      BY <2>2, <3>1 DEF WriteResults, PublishCompletion, PollReady, IInv, TypeOK
    <3> QED BY <2>1, <3>1, <3>2
  <2>3. ASSUME NEW p \in Pubs, ResolveConfirmation(p) PROVE Resolving \/ Quiet
    <3>1. {p} \in SUBSET Unresolved /\ UNCHANGED <<stage, stored>>
      BY <2>3, Finiteness DEF ResolveConfirmation, IInv, StatePubs
    <3>2. ASSUME NEW o \in ConfirmationOutcomes(p), Complete({p}, o) PROVE Resolving
      <4>1. o \in Outcomes /\ (o = "Confirmed" => retained[p].wire = "ack")
        BY <3>2 DEF ConfirmationOutcomes, Outcomes
      <4>2. o = "Confirmed" => p \in stored
        BY <4>1 DEF IInv, AckedIsStored
      <4> QED BY <3>1, <3>2, <4>1, <4>2, CompleteResolves
    <3>3. CASE suspend(generation, <<>>) /\ UNCHANGED budgetVars
      BY <3>1, <3>3, SuspendQuiet
    <3> QED BY <2>3, <3>2, <3>3, Zenon DEF ResolveConfirmation
  <2>4. ASSUME NEW p \in Pubs, DrainExpired(p) \/ DrainUnroutable(p) PROVE Resolving
    <3>1. p \in Range(pending) /\ UNCHANGED <<stage, stored>>
      BY <2>4, TailDistinct, SMTT(30) DEF DrainExpired, DrainUnroutable, DrainItem, IInv, TypeOK, HeldOnce
    <3>2. \E o \in {"Timeout", "Transport", "InvalidRequest"} : Complete({p}, o)
      BY <2>4 DEF DrainExpired, DrainUnroutable
    <3>3. {p} \in SUBSET Unresolved
          /\ \A o \in {"Timeout", "Transport", "InvalidRequest"} : o \in Outcomes \ {"Confirmed"}
      BY <3>1, Finiteness DEF IInv, Outcomes
    <3> QED BY <3>1, <3>2, <3>3, CompleteResolves, Zenon
  <2>5. ASSUME NEW p \in Pubs, DrainAttempt(p) PROVE Quiet
    <3>1. \A r \in RetainedPublish :
            [r EXCEPT !.sequence = sequence + 1, !.on = channel].wire = r.wire
      BY DEF RetainedPublish
    <3>2. retained' = [retained EXCEPT ![p] =
                         [retained[p] EXCEPT !.sequence = sequence + 1, !.on = channel]]
      BY <2>5, Zenon DEF DrainAttempt, NextSequence, IInv, TypeOK, RetainedPublish
    <3>3. \A q \in Pubs : retained'[q].wire = retained[q].wire
      BY <3>1, <3>2 DEF IInv, TypeOK
    <3> QED BY <2>5, <3>3 DEF DrainAttempt, Quiet, IInv, TypeOK
  <2>6. ASSUME NEW p \in Pubs, DrainDeclare(p) PROVE Quiet
    BY <1>1, <2>6 DEF DrainDeclare
  <2>7. CASE TakeCommand \/ RefuseReady \/ PollPending \/ DrainDone \/ StartQuiesce
    BY <1>1, <2>7 DEF TakeCommand, RefuseReady, PollPending, DrainDone, StartQuiesce
  <2>8. CASE HandleRecovering
    BY <2>8, SuspendQuiet DEF HandleRecovering
  <2>9. CASE HandleReady \/ ExpireReplay
    BY <2>9, ExpireResolves DEF HandleReady, ExpireReplay
  <2>10. CASE HandleFailedPermanent \/ EndQuiesce \/ HandlesDropped
    <3>1. PICK o \in {"Transport", "Closed"} : Complete(StatePubs, o)
      BY <2>10 DEF HandleFailedPermanent, EndQuiesce, HandlesDropped, fail_all
    <3>2. StatePubs \in SUBSET Unresolved /\ o \in Outcomes /\ o # "Confirmed"
          /\ UNCHANGED <<stage, stored>>
      BY <2>10, Finiteness DEF HandleFailedPermanent, EndQuiesce, HandlesDropped, IInv, Outcomes
    <3> QED BY <3>1, <3>2, CompleteResolves
  <2>11. CASE Stop
    <3>1. /\ QueuedPubs \in SUBSET Unresolved /\ Complete(QueuedPubs, "Closed")
          /\ UNCHANGED <<stage, stored>> /\ "Closed" \in Outcomes
      BY <2>11, Finiteness DEF Stop, IInv, Outcomes
    <3> QED BY <3>1, CompleteResolves
  <2>12. CASE CoalescePublishes
    <3>1. PICK n \in 1..Len(commands) :
            /\ \A i \in 1..n : commands[i].type = "Publish"
            /\ accept_publish([i \in 1..n |-> commands[i].pub])
      BY <2>12, Zenon DEF CoalescePublishes
    <3> DEFINE b == [i \in 1..n |-> commands[i].pub]
    <3>2. Range(b) \in SUBSET Unresolved
      BY <3>1, Batch, Finiteness DEF IInv, HeldOnce, QueuedOnce
    <3>3. accept_publish(b) /\ UNCHANGED <<stage, stored>>
      BY <2>12, <3>1 DEF CoalescePublishes
    <3> HIDE DEF b
    <3>4. CASE UNCHANGED <<outcome, retained>>
      BY <1>1, <3>3, <3>4
    <3>5. CASE Complete(Range(b), "Transport")
      <4>1. "Transport" \in Outcomes
        BY DEF Outcomes
      <4> QED BY <3>2, <3>3, <3>5, <4>1, CompleteResolves
    <3> QED BY <3>3, <3>4, <3>5 DEF accept_publish
  <2> QED BY <1>4, <2>2, <2>3, <2>4, <2>5, <2>6, <2>7, <2>8, <2>9, <2>10, <2>11, <2>12
          DEF Actor
<1> QED BY <1>2, <1>3, <1>4 DEF Next

-----------------------------------------------------------------------------
(* Action properties.                                                       *)

\* No step of run_actor gives a resolved waiter another outcome, or attempts
\* its publication again.
THEOREM FirstOutcomeStands == Spec => OutcomeIsFinal
<1>1. ASSUME IInv, IInv', [Next]_vars
      PROVE  [\A p \in Pubs : outcome[p] # "none" =>
                outcome'[p] = outcome[p] /\ p \notin publishing']_vars
  <2> SUFFICES ASSUME Next, NEW p \in Pubs, outcome[p] # "none"
               PROVE  outcome'[p] = outcome[p] /\ p \notin publishing'
    BY <1>1
  <2>1. outcome'[p] = outcome[p]
    <3>1. p \notin Unresolved
      BY DEF Unresolved
    <3>2. CASE Resolving
      BY <3>1, <3>2 DEF Resolving
    <3> QED BY <1>1, <3>2, StepKinds DEF Quiet, Accepting, Storing
  <2>2. publishing' \subseteq Unresolved'
    BY <1>1 DEF IInv, HeldOnce, StatePubs
  <2>3. p \notin Unresolved'
    BY <2>1 DEF Unresolved
  <2> QED BY <2>1, <2>2, <2>3
<1> QED BY <1>1, Inductive, PTL DEF Spec, OutcomeIsFinal

\* A stale connection event cannot take run_actor's generation back.
THEOREM GenerationsAdvance == Spec => GenerationMonotone
<1>1. ASSUME IInv, [Next]_vars PROVE [generation' >= generation]_vars
  <2> USE DEF connVars
  <2> SUFFICES ASSUME Next PROVE generation' >= generation
    BY <1>1
  <2>1. generation \in Nat /\ \A e \in ConnEvents : e.generation \in Nat
    BY <1>1, PublisherAssumption DEF IInv, TypeOK
  <2>2. generation' = generation => generation' >= generation
    BY <2>1
  <2>3. ASSUME NEW g \in Nat, NEW rest, suspend(g, rest) PROVE generation' >= generation
    BY <2>1, <2>3 DEF suspend, MaxOf
  <2>4. CASE HandleRecovering
    <3>1. Head(deferred).generation \in Nat
      BY <1>1, <2>1, <2>4, DeferredShape DEF HandleRecovering
    <3> QED BY <2>3, <2>4, <3>1 DEF HandleRecovering
  <2>5. CASE HandleReady
    BY <2>5 DEF HandleReady
  <2>6. CASE HandleFailedPermanent
    <3>1. Head(deferred).generation \in Nat
      BY <1>1, <2>1, <2>6, DeferredShape DEF HandleFailedPermanent
    <3> QED BY <2>1, <2>6, <3>1 DEF HandleFailedPermanent, MaxOf
  <2>7. ASSUME NEW p \in Pubs, NEW result, handle_publish_completion(p, result)
        PROVE  generation' >= generation
    BY <2>1, <2>2, <2>3, <2>7 DEF handle_publish_completion
  <2>8. ASSUME NEW p \in Pubs,
               \/ PublishCompletion(p) \/ PollReady(p) \/ ResolveConfirmation(p)
               \/ DrainExpired(p) \/ DrainDeclare(p) \/ DrainUnroutable(p) \/ DrainAttempt(p)
        PROVE  generation' >= generation
    <3>1. CASE PublishCompletion(p) \/ PollReady(p)
      BY <2>7, <3>1 DEF PublishCompletion, PollReady
    <3>2. CASE ResolveConfirmation(p)
      BY <2>1, <2>2, <2>3, <3>2 DEF ResolveConfirmation
    <3>3. CASE DrainExpired(p) \/ DrainDeclare(p) \/ DrainUnroutable(p) \/ DrainAttempt(p)
      BY <2>2, <3>3 DEF DrainExpired, DrainDeclare, DrainUnroutable, DrainAttempt
    <3> QED BY <2>8, <3>1, <3>2, <3>3
  <2>9. CASE \/ CoalescePublishes \/ TakeCommand \/ RefuseReady \/ ExpireReplay \/ PollPending
             \/ DrainDone \/ StartQuiesce \/ EndQuiesce \/ Stop \/ HandlesDropped
    BY <2>2, <2>9 DEF CoalescePublishes, TakeCommand, RefuseReady, ExpireReplay, PollPending,
       DrainDone, StartQuiesce, EndQuiesce, Stop, HandlesDropped
  <2>10. CASE Callers
    BY <2>2, <2>10, Zenon DEF Callers, Admit, SendPublish, ConnectionEvent, Close, DropHandles
  <2>11. CASE Environment
    BY <2>2, <2>11 DEF Environment, WriteFrame, Lapse, BrokerVerdict, ChannelDown
  <2> QED BY <2>4, <2>5, <2>6, <2>8, <2>9, <2>10, <2>11 DEF Next, Actor
<1> QED BY <1>1, Inductive, PTL DEF Spec, GenerationMonotone

-----------------------------------------------------------------------------
(* Refinement.                                                              *)

\* A frame never outlives the waiter of its publication.
LEMMA WireInv == IInv /\ IInv' /\ OnWireUnresolved /\ [Next]_vars => OnWireUnresolved'
<1> SUFFICES ASSUME IInv, IInv', OnWireUnresolved, [Next]_vars, NEW p \in Pubs,
                    retained'[p].wire # "none"
             PROVE  p \in Unresolved'
  BY DEF OnWireUnresolved
<1>1. CASE UNCHANGED vars
  BY <1>1, Zenon DEF vars, callerVars, budgetVars, OnWireUnresolved, Unresolved
<1>2. CASE Resolving
  BY <1>2 DEF Resolving, OnWireUnresolved, Unresolved
<1>3. publishing \subseteq Unresolved
  BY Finiteness DEF IInv, StatePubs
<1>4. CASE Quiet
  BY <1>3, <1>4 DEF Quiet, OnWireUnresolved, Unresolved
<1>5. CASE Accepting
  <2>1. PICK q \in Pubs : stage[q] = "admitted" /\ stage' = [stage EXCEPT ![q] = "accepted"]
    BY <1>5 DEF Accepting
  <2>2. retained' = retained /\ outcome' = outcome
    BY <1>5 DEF Accepting
  <2>3. stage[p] = "accepted" /\ outcome[p] = "none"
    BY <2>2 DEF OnWireUnresolved, Unresolved
  <2>4. DOMAIN stage = Pubs
    BY DEF IInv, TypeOK
  <2>5. stage'[p] = "accepted"
    BY <2>1, <2>3, <2>4
  <2> QED BY <2>2, <2>3, <2>5 DEF Unresolved
<1>6. CASE Storing
  BY <1>6 DEF Storing, OnWireUnresolved, Unresolved
<1> QED BY <1>1, <1>2, <1>4, <1>5, <1>6, StepKinds

\* A step of each kind is a step of the contract, or a stutter.
LEMMA KindsRefine ==
  ASSUME IInv, OnWireUnresolved, Resolving \/ Quiet \/ Accepting \/ Storing
  PROVE  Contract!Next \/ UNCHANGED <<Status, stored>>
<1>1. \A p \in Pubs : p \in Unresolved <=> Status[p] = "accepted"
  BY DEF Status, Unresolved, IInv, TypeOK, Outcomes
<1>2. CASE Quiet
  <2>1. Status' = Status
    BY <1>2 DEF Quiet, Status
  <2> QED BY <1>2, <2>1 DEF Quiet
<1>3. CASE Accepting
  <2>1. PICK p \in Pubs : stage[p] = "admitted" /\ stage' = [stage EXCEPT ![p] = "accepted"]
    BY <1>3, Zenon DEF Accepting
  <2>2. outcome[p] = "none" /\ stage \in [Pubs -> {"idle", "admitted", "accepted"}]
    BY <2>1 DEF IInv, TypeOK, ControlShape
  <2>3. Status[p] = "idle" /\ Status' = [Status EXCEPT ![p] = "accepted"]
    BY <1>3, <2>1, <2>2, Zenon DEF Accepting, Status
  <2> QED BY <1>3, <2>3, Zenon DEF Accepting, Contract!Next, Contract!Accept
<1>4. CASE Storing
  <2>1. Status' = Status
    BY <1>4 DEF Storing, Status
  <2>2. PICK p \in Pubs : retained[p].wire # "none" /\ stored' = stored \cup {p}
    BY <1>4 DEF Storing
  <2>3. Status[p] = "accepted"
    BY <1>1, <2>2 DEF OnWireUnresolved
  <2> QED BY <2>1, <2>2, <2>3 DEF Contract!Next, Contract!Store
<1>5. CASE Resolving
  <2>1. PICK S \in SUBSET Unresolved, o \in Outcomes :
          /\ outcome' = [p \in Pubs |-> IF p \in S THEN o ELSE outcome[p]]
          /\ o = "Confirmed" => \E p \in Pubs : S = {p} /\ (Confirms => p \in stored)
    BY <1>5, Zenon DEF Resolving
  <2>2. S \subseteq Pubs /\ UNCHANGED <<stage, stored>> /\ "none" \notin Outcomes
    BY <1>5 DEF Resolving, Unresolved, Outcomes
  <2>3. Status' = [p \in Pubs |-> IF p \in S THEN IF o = "Confirmed" THEN "confirmed" ELSE "failed"
                                  ELSE Status[p]]
    BY <2>1, <2>2 DEF Status, Unresolved
  <2>4. CASE o = "Confirmed"
    <3>1. PICK p \in Pubs : S = {p} /\ (Confirms => p \in stored)
      BY <2>1, <2>4
    <3>2. Status[p] = "accepted" /\ Status' = [Status EXCEPT ![p] = "confirmed"]
      BY <1>1, <2>3, <2>4, <3>1, Zenon DEF Status
    <3> QED BY <2>2, <3>1, <3>2, Zenon DEF Contract!Next, Contract!Confirm
  <2>5. CASE o # "Confirmed"
    <3>1. Status' = [p \in Pubs |-> IF p \in S THEN "failed" ELSE Status[p]]
      BY <2>3, <2>5
    <3>2. \A p \in S : Status[p] = "accepted"
      BY <1>1, <2>2
    <3> QED BY <2>2, <3>1, <3>2 DEF Contract!Next, Contract!Fail
  <2> QED BY <2>4, <2>5
<1> QED BY <1>2, <1>3, <1>4, <1>5

\* The publisher implements the contract of PublishContract: every handler of
\* actor.rs, in every interleaving, is an allowed step for the caller.
THEOREM Refinement == Spec => ImplementsContract
<1>1. Init => Contract!Init /\ OnWireUnresolved
  BY DEF Init, Contract!Init, Status, OnWireUnresolved, NotRetained
<1>2. ASSUME IInv, OnWireUnresolved, [Next]_vars
      PROVE  [Contract!Next]_<<Status, stored>>
  <2>1. CASE UNCHANGED vars
    BY <2>1 DEF vars, callerVars, budgetVars, brokerVars, Status
  <2>2. CASE Next
    BY <1>2, <2>2, StepKinds, KindsRefine
  <2> QED BY <1>2, <2>1, <2>2
<1> QED BY <1>1, <1>2, Inductive, WireInv, PTL DEF Spec, ImplementsContract, Contract!Spec
=============================================================================
