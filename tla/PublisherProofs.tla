-------------------------- MODULE PublisherProofs ---------------------------
(***************************************************************************)
(* The inductive invariant of Publisher, for every set of publications,    *)
(* every budget, every set of connection events and any number of channels. *)
(***************************************************************************)
EXTENDS PublisherLemmas

-----------------------------------------------------------------------------
(* The actor's steps: commands.                                             *)

\* The batch of a coalescing drain lists n queued publications once each.
LEMMA Batch ==
  ASSUME TypeOK, QueuedOnce, NEW n \in 1..Len(commands),
         \A i \in 1..n : commands[i].type = "Publish"
  PROVE  LET b == [i \in 1..n |-> commands[i].pub]
         IN  /\ b \in Seq(Pubs) /\ IsInjective(b) /\ Range(b) \subseteq QueuedPubs
             /\ Range(b) = {commands[i].pub : i \in 1..n}
<1> DEFINE b == [i \in 1..n |-> commands[i].pub]
<1>1. commands \in Seq(Command) /\ Len(commands) \in Nat /\ DOMAIN commands = 1..Len(commands)
  BY DEF TypeOK
<1>2. \A i \in 1..n : i \in DOMAIN commands /\ commands[i] \in Command
  BY <1>1
<1>3. \A i \in 1..n : commands[i].pub \in Pubs /\ commands[i] = PublishCmd(commands[i].pub)
  BY <1>2, CommandKinds
<1>4. b \in Seq(Pubs)
  <2>1. b \in [1..n -> Pubs] /\ n \in Nat
    BY <1>3
  <2> QED BY <2>1, SeqDef
<1>5. IsInjective(b)
  BY <1>2, <1>3 DEF IsInjective, QueuedOnce
<1>6. Range(b) = {commands[i].pub : i \in 1..n}
  BY DEF Range
<1>7. Range(b) \subseteq QueuedPubs
  BY <1>2, <1>6 DEF QueuedPubs
<1> QED BY <1>4, <1>5, <1>6, <1>7

\* run_actor's coalescing drain of queued publications preserves the
\* invariant: the work list gets the batch exactly as the queue lost it.
LEMMA CoalesceInv ==
  ASSUME IInv, CoalescePublishes
  PROVE  IInv'
<1> USE DEF drainVars, heldVars, budgetVars, callerVars, connVars, brokerVars
<1>1. PICK n \in 1..Len(commands) :
       /\ \A i \in 1..n : commands[i].type = "Publish"
       /\ n < Len(commands) => commands[n + 1].type # "Publish"
       /\ deferred' = IF n < Len(commands) THEN <<commands[n + 1]>> ELSE <<>>
       /\ commands' = SubSeq(commands, n + 2, Len(commands))
       /\ accept_publish([i \in 1..n |-> commands[i].pub])
  BY Zenon DEF CoalescePublishes
<1> DEFINE b == [i \in 1..n |-> commands[i].pub]
<1>2. AtSelect /\ UNCHANGED <<stage, handles, declaring, polling, connVars, publishing,
                              ledger, sequence, brokerVars>>
  BY DEF CoalescePublishes
<1>3. TypeOK /\ QueuedOnce /\ HeldOnce /\ commands \in Seq(Command) /\ Len(commands) \in Nat
  BY DEF IInv, TypeOK, HeldOnce, QueuedOnce
<1>4. /\ b \in Seq(Pubs) /\ IsInjective(b) /\ Range(b) \subseteq QueuedPubs
      /\ Range(b) = {commands[i].pub : i \in 1..n}
  BY <1>1, <1>3, Batch, Zenon
<1> HIDE DEF b
<1>5. /\ commands' \in Seq(Command) /\ Len(commands') <= Capacity
      /\ QueuedOnce' /\ QueuedPubs' = QueuedPubs \ Range(b)
  <2>1. CASE n < Len(commands)
    <3>1. n + 1 \in 0..Len(commands) /\ (n + 1) + 1 = n + 2
      BY <1>3, <2>1
    <3>2. /\ commands' \in Seq(Command) /\ Len(commands') = Len(commands) - (n + 1)
          /\ \A i \in 1..(Len(commands) - (n + 1)) : commands'[i] = commands[(n + 1) + i]
      <4>1. commands' = SubSeq(commands, (n + 1) + 1, Len(commands))
        BY <1>1, <3>1
      <4>2. /\ SubSeq(commands, (n + 1) + 1, Len(commands)) \in Seq(Command)
            /\ Len(SubSeq(commands, (n + 1) + 1, Len(commands))) = Len(commands) - (n + 1)
            /\ \A i \in 1..(Len(commands) - (n + 1)) :
                 SubSeq(commands, (n + 1) + 1, Len(commands))[i] = commands[(n + 1) + i]
        BY <1>3, <3>1, Suffix, Zenon
      <4> QED BY <4>1, <4>2, Zenon
    <3>3. /\ QueuedOnce'
          /\ QueuedPubs' = QueuedPubs \ {commands[i].pub :
                 i \in {j \in 1..(n + 1) : commands[j].type = "Publish"}}
      BY <1>3, <3>1, <3>2, DropCommands
    <3>4. {j \in 1..(n + 1) : commands[j].type = "Publish"} = 1..n
      BY <1>1, <2>1
    <3>5. Len(commands') <= Capacity
      BY <1>3, <3>1, <3>2, PublisherAssumption DEF TypeOK
    <3> QED BY <1>4, <3>2, <3>3, <3>4, <3>5, Zenon
  <2>2. CASE n = Len(commands)
    <3>1. n \in 0..Len(commands) /\ n + 2 > Len(commands) /\ n + 1 > Len(commands)
      BY <1>3, <2>2
    <3>2. commands' = <<>> /\ Len(commands') = 0 /\ Len(commands) - n = 0
      BY <1>1, <1>3, <2>2, <3>1, SubSeqEmpty
    <3>3. /\ QueuedOnce'
          /\ QueuedPubs' = QueuedPubs \ {commands[i].pub :
                 i \in {j \in 1..n : commands[j].type = "Publish"}}
      BY <1>3, <3>1, <3>2, DropCommands
    <3>4. {j \in 1..n : commands[j].type = "Publish"} = 1..n
      BY <1>1
    <3>5. Len(commands') <= Capacity
      BY <1>3, <3>1, <3>2, PublisherAssumption DEF TypeOK
    <3> QED BY <1>4, <3>2, <3>3, <3>4, <3>5
  <2> QED BY <1>3, <2>1, <2>2
<1>6. deferred' \in Seq(ConnEvents \cup {CloseCmd}) /\ Len(deferred') <= 1
  <2>1. CASE n < Len(commands)
    <3>1. commands[n + 1] \in Command
      BY <1>3, <2>1
    <3>2. commands[n + 1] \in ConnEvents \cup {CloseCmd}
      BY <1>1, <2>1, <3>1, CommandKinds
    <3> QED BY <1>1, <2>1, <3>2
  <2>2. CASE ~(n < Len(commands))
    BY <1>1, <2>2
  <2> QED BY <2>1, <2>2
<1>7. /\ Range(b) \subseteq Unresolved /\ Range(b) \cap (Range(pending) \cup StatePubs) = {}
      /\ pending = <<>> /\ Range(pending) = {} /\ polling = {}
  BY <1>2, <1>4 DEF IInv, HeldOnce, AtSelect, ControlShape, Draining, Range
<1>8. CASE /\ phase = "Ready" /\ pending' = b /\ pc' = "accept"
           /\ UNCHANGED <<replay, budgetVars, retained>>
  <2>1. Unresolved' = Unresolved /\ Holders' = Holders /\ StatePubs' = StatePubs
    BY <1>2, <1>8 DEF Unresolved, Holders, StatePubs
  <2>2. HeldOnce'
    BY <1>2, <1>4, <1>5, <1>7, <1>8, <2>1 DEF IInv, HeldOnce, QueuedOnce
  <2>3. TypeOK'
    BY <1>2, <1>3, <1>4, <1>5, <1>6, <1>8 DEF TypeOK, Draining
  <2>4. ControlShape'
    BY <1>2, <1>8, <2>1 DEF IInv, ControlShape, ParkedOnlyWhileSuspended, Draining, AtSelect
  <2>5. AckedIsStored' /\ ConfirmedIsStored'
    BY <1>2, <1>8 DEF IInv, AckedIsStored, ConfirmedIsStored
  <2> QED BY <1>8, <2>1, <2>2, <2>3, <2>4, <2>5 DEF IInv
<1>9. CASE /\ phase = "Suspended" /\ replay' = replay \o b
           /\ UNCHANGED <<pending, pc, budgetVars, retained>>
  <2>1. Range(replay) \cap Range(b) = {} /\ replay \in Seq(Pubs) /\ IsInjective(replay)
    BY <1>3, <1>7 DEF StatePubs, TypeOK, HeldOnce
  <2>2. replay' \in Seq(Pubs) /\ Range(replay') = Range(replay) \cup Range(b) /\ IsInjective(replay')
    BY <1>4, <1>9, <2>1, ConcatDistinct
  <2>3. Unresolved' = Unresolved /\ Holders' = Holders
    BY <1>2, <1>9 DEF Unresolved, Holders
  <2>4. StatePubs' = StatePubs \cup Range(b)
    BY <1>2, <2>2 DEF StatePubs
  <2>5. HeldOnce'
    BY <1>2, <1>4, <1>5, <1>7, <1>9, <2>2, <2>3, <2>4
       DEF IInv, HeldOnce, QueuedOnce, StatePubs
  <2>6. TypeOK'
    BY <1>2, <1>3, <1>5, <1>6, <1>9, <2>2 DEF TypeOK
  <2>7. ControlShape'
    BY <1>2, <1>9 DEF IInv, ControlShape, ParkedOnlyWhileSuspended, Draining, AtSelect
  <2>8. AckedIsStored' /\ ConfirmedIsStored'
    BY <1>2, <1>9 DEF IInv, AckedIsStored, ConfirmedIsStored
  <2> QED BY <1>9, <2>3, <2>5, <2>6, <2>7, <2>8 DEF IInv
<1>10. CASE /\ phase = "FailedPermanent" /\ Complete(Range(b), "Transport")
            /\ UNCHANGED <<pending, pc, replay>>
  <2>1. "Transport" \in Outcomes /\ Resolve(Range(b), "Transport") /\ UNCHANGED stage
    BY <1>2, <1>10 DEF Outcomes, Complete
  <2>2. /\ outcome' \in [Pubs -> Outcomes \cup {"none"}] /\ Unresolved' = Unresolved \ Range(b)
        /\ permits' \in 0..Capacity /\ permits' = Capacity - Cardinality(Holders')
        /\ \A p \in Pubs : outcome'[p] # "none" => stage'[p] = "accepted"
        /\ \A p \in Pubs : outcome'[p] = "Confirmed" => outcome[p] = "Confirmed"
    BY <1>7, <2>1, ResolveStep, Zenon
  <2>3. retained' \in [Pubs -> RetainedPublish] /\ AckedIsStored'
    BY <1>2, <1>7, <1>10, <2>1, CompleteStep
  <2>4. StatePubs' = StatePubs
    BY <1>2, <1>10 DEF StatePubs
  <2>5. HeldOnce'
    BY <1>2, <1>4, <1>5, <1>7, <1>10, <2>2, <2>4 DEF IInv, HeldOnce, QueuedOnce
  <2>6. TypeOK'
    BY <1>2, <1>3, <1>5, <1>6, <1>10, <2>2, <2>3 DEF TypeOK
  <2>7. ControlShape'
    BY <1>2, <1>10, <2>2, <2>4
       DEF IInv, ControlShape, ParkedOnlyWhileSuspended, Draining, AtSelect
  <2>8. ConfirmedIsStored'
    BY <1>2, <2>2 DEF IInv, ConfirmedIsStored
  <2> QED BY <2>2, <2>3, <2>5, <2>6, <2>7, <2>8 DEF IInv
<1> QED BY <1>1, <1>8, <1>9, <1>10, Zenon DEF accept_publish, b

\* Taking a single command off the queue preserves the invariant.
LEMMA TakeCommandInv ==
  ASSUME IInv, TakeCommand
  PROVE  IInv'
<1> USE DEF drainVars, heldVars, budgetVars, callerVars, connVars, brokerVars
<1>1. /\ TypeOK /\ QueuedOnce /\ commands \in Seq(Command) /\ commands # <<>>
      /\ Len(commands) \in Nat \ {0} /\ Head(commands) = commands[1]
      /\ commands[1] \in Command /\ commands[1].type # "Publish"
  BY DEF TakeCommand, IInv, TypeOK, HeldOnce, QueuedOnce
<1>2. commands' = SubSeq(commands, 1 + 1, Len(commands)) /\ 1 \in 0..Len(commands)
  BY <1>1, TailIsSubSeq DEF TakeCommand
<1>3. /\ commands' \in Seq(Command) /\ Len(commands') = Len(commands) - 1
      /\ \A i \in 1..(Len(commands) - 1) : commands'[i] = commands[1 + i]
  BY <1>1, <1>2, Suffix, Zenon
<1>4. /\ QueuedOnce'
      /\ QueuedPubs' = QueuedPubs \ {commands[i].pub :
             i \in {j \in 1..1 : commands[j].type = "Publish"}}
  BY <1>1, <1>2, <1>3, DropCommands
<1>5. {j \in 1..1 : commands[j].type = "Publish"} = {}
  BY <1>1
<1>6. QueuedPubs' = QueuedPubs
  BY <1>4, <1>5
<1>7. /\ HeldOnce' /\ permits' = Capacity - Cardinality(Holders')
      /\ StatePubs' = StatePubs
  BY <1>4, <1>6, QuietStep DEF TakeCommand
<1>8. deferred' \in Seq(ConnEvents \cup {CloseCmd}) /\ Len(deferred') <= 1
  BY <1>1, CommandKinds DEF TakeCommand
<1>9. TypeOK'
  BY <1>1, <1>3, <1>8, PublisherAssumption DEF TakeCommand, TypeOK
<1>10. ControlShape'
  BY <1>7 DEF TakeCommand, AtSelect, IInv, ControlShape, ParkedOnlyWhileSuspended
<1>11. AckedIsStored' /\ ConfirmedIsStored'
  BY Zenon DEF TakeCommand, IInv, AckedIsStored, ConfirmedIsStored
<1> QED BY <1>7, <1>9, <1>10, <1>11 DEF IInv

\* What handling a deferred command finds, and leaves behind it.
LEMMA DeferredShape ==
  ASSUME IInv, NEW type, Deferred(type)
  PROVE  /\ Head(deferred) \in ConnEvents \cup {CloseCmd}
         /\ Head(deferred).type = type
         /\ type # "Close" => Head(deferred) \in ConnEvents
         /\ pending = <<>> /\ Range(pending) = {} /\ polling = {} /\ pc = "select"
         /\ <<>> \in Seq(ConnEvents \cup {CloseCmd}) /\ Len(<<>>) = 0
<1>1. deferred \in Seq(ConnEvents \cup {CloseCmd}) /\ deferred # <<>>
  BY DEF Deferred, IInv, TypeOK
<1>2. Head(deferred) \in ConnEvents \cup {CloseCmd}
  BY <1>1
<1> QED BY <1>2, CommandKinds DEF Deferred, IInv, ControlShape, Draining, Range

\* handle_connection_event(Recovering) preserves the invariant: what was in
\* flight is parked by suspend.
LEMMA HandleRecoveringInv ==
  ASSUME IInv, HandleRecovering
  PROVE  IInv'
<1> USE DEF drainVars, heldVars, budgetVars, callerVars, connVars, brokerVars
<1> DEFINE g == Head(deferred).generation
<1>1. g \in Nat /\ pending = <<>> /\ Range(pending) = {} /\ polling = {} /\ pc = "select"
  BY DeferredShape, PublisherAssumption DEF HandleRecovering
<1>2. /\ suspend(g, <<>>) /\ deferred' = <<>>
      /\ UNCHANGED <<callerVars, budgetVars, pc, drainVars, sequence, brokerVars>>
  BY Zenon DEF HandleRecovering
<1> HIDE DEF g
<1>3. /\ <<>> \in Seq(Pubs) /\ IsInjective(<<>>) /\ Range(<<>>) = {}
      /\ <<>> \in Seq(ConnEvents \cup {CloseCmd}) /\ Len(<<>>) = 0
  BY DEF IsInjective, Range
<1>4. /\ generation' \in Nat /\ phase' = "Suspended" /\ channel' = NoChannel
      /\ publishing' = {} /\ ledger' = {}
      /\ replay' \in Seq(Pubs) /\ IsInjective(replay') /\ Range(replay') = StatePubs
      /\ retained' \in [Pubs -> RetainedPublish] /\ AckedIsStored'
  BY <1>1, <1>2, <1>3, SuspendStep, Zenon
<1>5. StatePubs' = StatePubs
  BY <1>4 DEF StatePubs
<1>6. QueuedPubs' = QueuedPubs /\ QueuedOnce' /\ Unresolved' = Unresolved /\ Holders' = Holders
  BY <1>2, QueueUnchanged DEF Unresolved, Holders
<1>7. HeldOnce'
  BY <1>1, <1>2, <1>4, <1>5, <1>6 DEF IInv, HeldOnce, QueuedOnce
<1>8. TypeOK'
  BY <1>1, <1>2, <1>3, <1>4 DEF IInv, TypeOK
<1>9. ControlShape'
  BY <1>1, <1>2, <1>4 DEF IInv, ControlShape, ParkedOnlyWhileSuspended, Draining
<1>10. ConfirmedIsStored'
  BY <1>2 DEF IInv, ConfirmedIsStored
<1> QED BY <1>2, <1>4, <1>6, <1>7, <1>8, <1>9, <1>10 DEF IInv

\* expire_replay with what is left going to the replay queue or, in a
\* flush, to the work list.
LEMMA ExpiredHeld ==
  ASSUME IInv, expire_replay, UNCHANGED <<stage, stored, commands, publishing, ledger>>,
         Range(pending) = {}, NEW s \in Survivors,
         \/ replay' = s /\ pending' = pending
         \/ replay' = <<>> /\ pending' = s
  PROVE  /\ outcome' \in [Pubs -> Outcomes \cup {"none"}]
         /\ permits' \in 0..Capacity /\ permits' = Capacity - Cardinality(Holders')
         /\ \A p \in Pubs : outcome'[p] # "none" => stage'[p] = "accepted"
         /\ replay' \in Seq(Pubs) /\ pending' \in Seq(Pubs)
         /\ retained' \in [Pubs -> RetainedPublish]
         /\ HeldOnce' /\ AckedIsStored' /\ ConfirmedIsStored'
<1>1. /\ Dead \subseteq Range(replay)
      /\ s \in Seq(Pubs) /\ IsInjective(s) /\ Range(s) = Range(replay) \ Dead
      /\ retained' \in [Pubs -> RetainedPublish] /\ AckedIsStored'
  BY ExpireStep
<1>2. /\ Dead \in SUBSET Unresolved /\ "Timeout" \in Outcomes
      /\ Resolve(Dead, "Timeout") /\ UNCHANGED stage
  BY <1>1, Finiteness, Zenon DEF IInv, StatePubs, Outcomes, expire_replay
<1>3. /\ outcome' \in [Pubs -> Outcomes \cup {"none"}] /\ Unresolved' = Unresolved \ Dead
      /\ permits' \in 0..Capacity /\ permits' = Capacity - Cardinality(Holders')
      /\ \A p \in Pubs : outcome'[p] # "none" => stage'[p] = "accepted"
      /\ \A p \in Pubs : outcome'[p] = "Confirmed" => outcome[p] = "Confirmed"
  <2>1. /\ outcome' \in [Pubs -> Outcomes \cup {"none"}] /\ Unresolved' = Unresolved \ Dead
        /\ permits' \in 0..Capacity /\ permits' = Capacity - Cardinality(Holders')
        /\ \A p \in Pubs : outcome'[p] # "none" => stage'[p] = "accepted"
        /\ \A p \in Pubs : outcome'[p] = "Confirmed" =>
                outcome[p] = "Confirmed" \/ (p \in Dead /\ "Timeout" = "Confirmed")
    BY <1>2, ResolveStep, Zenon
  <2> QED BY <2>1
<1>4. /\ Range(<<>>) = {} /\ IsInjective(<<>>) /\ <<>> \in Seq(Pubs)
  BY DEF Range, IsInjective
<1>5. /\ replay' \in Seq(Pubs) /\ pending' \in Seq(Pubs)
      /\ IsInjective(replay') /\ IsInjective(pending')
      /\ Range(replay') \cup Range(pending') = Range(replay) \ Dead
      /\ Range(replay') \cap Range(pending') = {}
  BY <1>1, <1>4, Zenon DEF IInv, TypeOK, HeldOnce
<1>6. QueuedPubs' = QueuedPubs /\ QueuedOnce'
  BY QueueUnchanged
<1>7. HeldOnce'
  BY <1>1, <1>3, <1>5, <1>6 DEF IInv, HeldOnce, QueuedOnce, StatePubs
<1>8. ConfirmedIsStored'
  BY <1>3 DEF IInv, ConfirmedIsStored
<1> QED BY <1>1, <1>3, <1>5, <1>7, <1>8

\* handle_connection_event(Ready), adopted or refused, preserves the invariant.
LEMMA HandleReadyInv ==
  ASSUME IInv, HandleReady
  PROVE  IInv'
<1> USE DEF drainVars, heldVars, budgetVars, callerVars, connVars, brokerVars
<1>1. /\ Head(deferred) \in ConnEvents /\ Head(deferred).type = "Ready"
      /\ pending = <<>> /\ Range(pending) = {} /\ polling = {}
      /\ <<>> \in Seq(ConnEvents \cup {CloseCmd}) /\ Len(<<>>) = 0
  BY DeferredShape DEF HandleReady
<1>2. generation' \in Nat /\ channel' \in Channels
  BY <1>1, PublisherAssumption DEF HandleReady
<1>3. PICK s \in Survivors : pending' = s
  BY DEF HandleReady
<1>4. /\ outcome' \in [Pubs -> Outcomes \cup {"none"}]
      /\ permits' \in 0..Capacity /\ permits' = Capacity - Cardinality(Holders')
      /\ \A p \in Pubs : outcome'[p] # "none" => stage'[p] = "accepted"
      /\ replay' \in Seq(Pubs) /\ pending' \in Seq(Pubs)
      /\ retained' \in [Pubs -> RetainedPublish]
      /\ HeldOnce' /\ AckedIsStored' /\ ConfirmedIsStored'
  BY <1>1, <1>3, ExpiredHeld DEF HandleReady
<1>5. TypeOK'
  BY <1>1, <1>2, <1>4 DEF HandleReady, IInv, TypeOK, Draining
<1>6. ControlShape'
  BY <1>4 DEF HandleReady, ControlShape, ParkedOnlyWhileSuspended, Draining
<1> QED BY <1>4, <1>5, <1>6 DEF IInv

\* expire_replay preserves the invariant: the dead are resolved and leave.
LEMMA ExpireReplayInv ==
  ASSUME IInv, ExpireReplay
  PROVE  IInv'
<1> USE DEF drainVars, heldVars, budgetVars, callerVars, connVars, brokerVars
<1>1. Range(pending) = {} /\ pc = "select" /\ phase = "Suspended"
  BY SMTT(30) DEF ExpireReplay, AtSelect, IInv, ControlShape, Draining, Range
<1>2. PICK s \in Survivors : replay' = s
  BY DEF ExpireReplay
<1>3. /\ outcome' \in [Pubs -> Outcomes \cup {"none"}]
      /\ permits' \in 0..Capacity /\ permits' = Capacity - Cardinality(Holders')
      /\ \A p \in Pubs : outcome'[p] # "none" => stage'[p] = "accepted"
      /\ replay' \in Seq(Pubs) /\ pending' \in Seq(Pubs)
      /\ retained' \in [Pubs -> RetainedPublish]
      /\ HeldOnce' /\ AckedIsStored' /\ ConfirmedIsStored'
  BY <1>1, <1>2, ExpiredHeld, Zenon DEF ExpireReplay
<1>4. TypeOK'
  BY <1>3 DEF ExpireReplay, IInv, TypeOK
<1>5. ControlShape'
  BY <1>1, <1>3 DEF ExpireReplay, IInv, ControlShape, ParkedOnlyWhileSuspended, Draining
<1> QED BY <1>3, <1>4, <1>5 DEF IInv

\* A step that resolves a part of what the actor holds and nothing else.
LEMMA CompleteHeld ==
  ASSUME IInv, NEW S \in SUBSET Unresolved, NEW o \in Outcomes, Complete(S, o),
         UNCHANGED <<stage, stored>>,
         Confirms /\ o = "Confirmed" => S \subseteq stored
  PROVE  /\ outcome' \in [Pubs -> Outcomes \cup {"none"}]
         /\ Unresolved' = Unresolved \ S
         /\ permits' \in 0..Capacity /\ permits' = Capacity - Cardinality(Holders')
         /\ \A p \in Pubs : outcome'[p] # "none" => stage'[p] = "accepted"
         /\ retained' \in [Pubs -> RetainedPublish]
         /\ AckedIsStored' /\ ConfirmedIsStored'
<1>1. Resolve(S, o) /\ stage' = stage /\ stored' = stored
  BY DEF Complete
<1>2. /\ outcome' \in [Pubs -> Outcomes \cup {"none"}]
      /\ Unresolved' = Unresolved \ S
      /\ permits' \in 0..Capacity /\ permits' = Capacity - Cardinality(Holders')
      /\ \A p \in Pubs : outcome'[p] # "none" => stage'[p] = "accepted"
      /\ \A p \in Pubs : outcome'[p] = "Confirmed" =>
             outcome[p] = "Confirmed" \/ (p \in S /\ o = "Confirmed")
  BY <1>1, ResolveStep, Zenon
<1>3. retained' \in [Pubs -> RetainedPublish] /\ AckedIsStored'
  BY <1>1, CompleteStep
<1>4. ConfirmedIsStored'
  BY <1>1, <1>2 DEF IInv, ConfirmedIsStored
<1> QED BY <1>2, <1>3, <1>4

\* fail_all resolves everything the actor's containers hold.
LEMMA FailAllHeld ==
  ASSUME IInv, NEW o \in Outcomes \ {"Confirmed"}, fail_all(o),
         UNCHANGED <<stage, stored, commands, pending>>
  PROVE  /\ outcome' \in [Pubs -> Outcomes \cup {"none"}]
         /\ permits' \in 0..Capacity /\ permits' = Capacity - Cardinality(Holders')
         /\ \A p \in Pubs : outcome'[p] # "none" => stage'[p] = "accepted"
         /\ retained' \in [Pubs -> RetainedPublish]
         /\ replay' = <<>> /\ publishing' = {} /\ ledger' = {} /\ StatePubs' = {}
         /\ HeldOnce' /\ AckedIsStored' /\ ConfirmedIsStored'
<1>1. /\ StatePubs \in SUBSET Unresolved /\ Complete(StatePubs, o)
      /\ replay' = <<>> /\ publishing' = {} /\ ledger' = {}
  BY Finiteness DEF IInv, fail_all
<1>2. /\ outcome' \in [Pubs -> Outcomes \cup {"none"}]
      /\ Unresolved' = Unresolved \ StatePubs
      /\ permits' \in 0..Capacity /\ permits' = Capacity - Cardinality(Holders')
      /\ \A p \in Pubs : outcome'[p] # "none" => stage'[p] = "accepted"
      /\ retained' \in [Pubs -> RetainedPublish]
      /\ AckedIsStored' /\ ConfirmedIsStored'
  BY <1>1, CompleteHeld, Zenon
<1>3. Range(replay') = {} /\ IsInjective(replay') /\ StatePubs' = {}
  BY <1>1 DEF Range, IsInjective, StatePubs
<1>4. QueuedPubs' = QueuedPubs /\ QueuedOnce'
  BY QueueUnchanged
<1>5. HeldOnce'
  BY <1>1, <1>2, <1>3, <1>4 DEF IInv, HeldOnce, QueuedOnce
<1> QED BY <1>1, <1>2, <1>3, <1>5

\* handle_connection_event(FailedPermanent) preserves the invariant.
LEMMA HandleFailedPermanentInv ==
  ASSUME IInv, HandleFailedPermanent
  PROVE  IInv'
<1> USE DEF drainVars, heldVars, budgetVars, callerVars, connVars, brokerVars
<1>1. /\ Head(deferred) \in ConnEvents /\ polling = {} /\ pending = <<>> /\ pc = "select"
      /\ <<>> \in Seq(ConnEvents \cup {CloseCmd}) /\ Len(<<>>) = 0 /\ <<>> \in Seq(Pubs)
  BY DeferredShape DEF HandleFailedPermanent
<1>2. generation' \in Nat
  BY <1>1, PublisherAssumption DEF HandleFailedPermanent, MaxOf, IInv, TypeOK
<1>3. /\ outcome' \in [Pubs -> Outcomes \cup {"none"}]
      /\ permits' \in 0..Capacity /\ permits' = Capacity - Cardinality(Holders')
      /\ \A p \in Pubs : outcome'[p] # "none" => stage'[p] = "accepted"
      /\ retained' \in [Pubs -> RetainedPublish]
      /\ replay' = <<>> /\ publishing' = {} /\ ledger' = {} /\ StatePubs' = {}
      /\ HeldOnce' /\ AckedIsStored' /\ ConfirmedIsStored'
  <2>1. "Transport" \in Outcomes \ {"Confirmed"} /\ fail_all("Transport")
    BY DEF Outcomes, HandleFailedPermanent
  <2> QED BY <2>1, FailAllHeld DEF HandleFailedPermanent
<1>4. TypeOK'
  BY <1>1, <1>2, <1>3 DEF HandleFailedPermanent, IInv, TypeOK
<1>5. ControlShape'
  BY <1>1, <1>3 DEF HandleFailedPermanent, IInv, ControlShape, ParkedOnlyWhileSuspended, Draining
<1> QED BY <1>3, <1>4, <1>5 DEF IInv

\* The end of quiesce_and_close preserves the invariant: fail_all leaves
\* nothing held.
LEMMA EndQuiesceInv ==
  ASSUME IInv, EndQuiesce
  PROVE  IInv'
<1> USE DEF drainVars, heldVars, budgetVars, callerVars, connVars, brokerVars
<1>1. /\ polling = {} /\ pending = <<>> /\ pc \in {"select", "quiesce"}
      /\ <<>> \in Seq(ConnEvents \cup {CloseCmd}) /\ Len(<<>>) = 0 /\ <<>> \in Seq(Pubs)
  BY SMTT(30) DEF EndQuiesce, Deferred, IInv, ControlShape, Draining
<1>2. /\ outcome' \in [Pubs -> Outcomes \cup {"none"}]
      /\ permits' \in 0..Capacity /\ permits' = Capacity - Cardinality(Holders')
      /\ \A p \in Pubs : outcome'[p] # "none" => stage'[p] = "accepted"
      /\ retained' \in [Pubs -> RetainedPublish]
      /\ replay' = <<>> /\ publishing' = {} /\ ledger' = {} /\ StatePubs' = {}
      /\ HeldOnce' /\ AckedIsStored' /\ ConfirmedIsStored'
  <2>1. "Closed" \in Outcomes \ {"Confirmed"} /\ fail_all("Closed")
    BY DEF Outcomes, EndQuiesce
  <2> QED BY <2>1, FailAllHeld DEF EndQuiesce
<1>3. TypeOK'
  BY <1>1, <1>2 DEF EndQuiesce, IInv, TypeOK
<1>4. ControlShape'
  BY <1>1, <1>2 DEF EndQuiesce, IInv, ControlShape, ParkedOnlyWhileSuspended, Draining
<1> QED BY <1>2, <1>3, <1>4 DEF IInv

\* The actor's exit once every handle is gone preserves the invariant.
LEMMA HandlesDroppedInv ==
  ASSUME IInv, HandlesDropped
  PROVE  IInv'
<1> USE DEF drainVars, heldVars, budgetVars, callerVars, connVars, brokerVars
<1>1. polling = {} /\ pending = <<>> /\ pc = "select" /\ commands = <<>> /\ <<>> \in Seq(Pubs)
  BY SMTT(30) DEF HandlesDropped, AtSelect, IInv, ControlShape, Draining
<1>2. /\ outcome' \in [Pubs -> Outcomes \cup {"none"}]
      /\ permits' \in 0..Capacity /\ permits' = Capacity - Cardinality(Holders')
      /\ \A p \in Pubs : outcome'[p] # "none" => stage'[p] = "accepted"
      /\ retained' \in [Pubs -> RetainedPublish]
      /\ replay' = <<>> /\ publishing' = {} /\ ledger' = {} /\ StatePubs' = {}
      /\ HeldOnce' /\ AckedIsStored' /\ ConfirmedIsStored'
  <2>1. "Closed" \in Outcomes \ {"Confirmed"} /\ fail_all("Closed")
    BY DEF Outcomes, HandlesDropped
  <2> QED BY <2>1, FailAllHeld, Zenon DEF HandlesDropped
<1>3. TypeOK'
  BY <1>1, <1>2 DEF HandlesDropped, IInv, TypeOK
<1>4. ControlShape'
  BY <1>1, <1>2 DEF HandlesDropped, IInv, ControlShape, ParkedOnlyWhileSuspended, Draining
<1> QED BY <1>2, <1>3, <1>4 DEF IInv

\* The actor's end, which drops the queued commands, preserves the invariant.
LEMMA StopInv ==
  ASSUME IInv, Stop
  PROVE  IInv'
<1> USE DEF drainVars, heldVars, budgetVars, callerVars, connVars, brokerVars
<1>1. /\ StatePubs = {} /\ pending = <<>> /\ polling = {} /\ QueuedPubs \in SUBSET Unresolved
      /\ "Closed" \in Outcomes /\ Complete(QueuedPubs, "Closed") /\ commands' = <<>>
      /\ pc' = "stopped" /\ stage' = stage /\ stored' = stored
  BY Finiteness DEF Stop, IInv, ControlShape, Draining, Outcomes
<1>2. /\ outcome' \in [Pubs -> Outcomes \cup {"none"}]
      /\ Unresolved' = Unresolved \ QueuedPubs
      /\ permits' \in 0..Capacity /\ permits' = Capacity - Cardinality(Holders')
      /\ \A p \in Pubs : outcome'[p] # "none" => stage'[p] = "accepted"
      /\ retained' \in [Pubs -> RetainedPublish]
      /\ AckedIsStored' /\ ConfirmedIsStored'
  BY <1>1, CompleteHeld, Zenon
<1>3. QueuedPubs' = {} /\ QueuedOnce' /\ StatePubs' = StatePubs
  <2>1. DOMAIN commands' = {}
    BY <1>1
  <2>2. QueuedPubs' = {} /\ QueuedOnce'
    BY <2>1, Zenon DEF QueuedPubs, QueuedOnce
  <2>3. StatePubs' = StatePubs
    BY Zenon DEF Stop, StatePubs
  <2> QED BY <2>2, <2>3
<1>4. HeldOnce'
  BY <1>1, <1>2, <1>3, Zenon DEF Stop, IInv, HeldOnce, QueuedOnce
<1>5. <<>> \in Seq(Command) /\ Len(<<>>) = 0
  OBVIOUS
<1>6. TypeOK'
  BY <1>1, <1>2, <1>5, PublisherAssumption, SMTT(30) DEF Stop, IInv, TypeOK
<1>7. ControlShape'
  BY <1>1, <1>2, <1>3 DEF Stop, IInv, ControlShape, ParkedOnlyWhileSuspended, Draining
<1> QED BY <1>2, <1>4, <1>6, <1>7 DEF IInv

\* Beginning quiesce_and_close preserves the invariant.
LEMMA StartQuiesceInv ==
  ASSUME IInv, StartQuiesce
  PROVE  IInv'
<1> USE DEF drainVars, heldVars, budgetVars, callerVars, connVars, brokerVars
<1>1. /\ polling = {} /\ pending = <<>> /\ Range(pending) = {} /\ pc = "select"
      /\ <<>> \in Seq(ConnEvents \cup {CloseCmd}) /\ Len(<<>>) = 0 /\ <<>> \in Seq(Pubs)
      /\ Range(<<>>) = {} /\ IsInjective(<<>>)
  BY DeferredShape DEF StartQuiesce, Range, IsInjective
<1>2. /\ QueuedPubs' = QueuedPubs /\ QueuedOnce'
      /\ Unresolved' = Unresolved /\ Holders' = Holders
  BY QueueUnchanged DEF StartQuiesce, Unresolved, Holders
<1>3. HeldOnce'
  BY <1>1, <1>2 DEF StartQuiesce, IInv, HeldOnce, QueuedOnce, StatePubs
<1>4. TypeOK'
  BY <1>1, SMTT(30) DEF StartQuiesce, IInv, TypeOK, Draining
<1>5. ControlShape'
  BY <1>1, Zenon DEF StartQuiesce, IInv, ControlShape, ParkedOnlyWhileSuspended, Draining
<1>6. AckedIsStored' /\ ConfirmedIsStored'
  BY Zenon DEF StartQuiesce, IInv, AckedIsStored, ConfirmedIsStored
<1> QED BY <1>2, <1>3, <1>4, <1>5, <1>6 DEF StartQuiesce, IInv

-----------------------------------------------------------------------------
(* The actor's steps: publish_queue and the futures.                        *)

\* Steps that change only where the actor is, or nothing it holds.
LEMMA ControlOnlyInv ==
  ASSUME IInv, RefuseReady \/ PollPending \/ DrainDone \/ \E p \in Pubs : DrainDeclare(p)
  PROVE  IInv'
<1> USE DEF drainVars, heldVars, budgetVars, callerVars, connVars, brokerVars
<1>1. UNCHANGED <<stage, handles, outcome, permits, commands, pending, phase, generation,
                  channel, replay, publishing, ledger, sequence, retained, chState, stored>>
  BY Zenon DEF RefuseReady, PollPending, DrainDone, DrainDeclare
<1>2. /\ HeldOnce' /\ permits' = Capacity - Cardinality(Holders')
      /\ StatePubs' = StatePubs
  BY <1>1, QueueUnchanged, QuietStep
<1>3. /\ deferred' \in Seq(ConnEvents \cup {CloseCmd}) /\ Len(deferred') <= 1
      /\ declaring' \in BOOLEAN /\ polling' \in SUBSET publishing
      /\ pc' \in Draining \cup {"select", "quiesce", "closing", "stopped"}
  <2>1. /\ deferred' = deferred \/ deferred' = <<>>
        /\ declaring' = declaring \/ declaring' = TRUE
        /\ polling' = polling \/ polling' = {}
        /\ pc' = pc \/ pc' = "quiesce" \/ pc' = "select"
    BY DEF RefuseReady, PollPending, DrainDone, DrainDeclare, AfterDrain
  <2>2. <<>> \in Seq(ConnEvents \cup {CloseCmd}) /\ Len(<<>>) <= 1
    OBVIOUS
  <2> QED BY <2>1, <2>2, Zenon DEF IInv, TypeOK
<1>4. TypeOK'
  BY <1>1, <1>3 DEF IInv, TypeOK
<1>5. \/ pc' = pc /\ polling' \subseteq polling
      \/ /\ pc \in Draining /\ pc' \in {"select", "quiesce"}
         /\ pending = <<>> /\ polling = {} /\ polling' = {}
  BY DEF RefuseReady, PollPending, DrainDone, DrainDeclare, AfterDrain, Draining
<1>6. ControlShape'
  BY <1>1, <1>2, <1>5 DEF IInv, ControlShape, ParkedOnlyWhileSuspended, Draining
<1>7. AckedIsStored' /\ ConfirmedIsStored'
  BY <1>1 DEF IInv, AckedIsStored, ConfirmedIsStored
<1> QED BY <1>2, <1>4, <1>6, <1>7 DEF IInv

\* The end of a wire write, in publish_queue or in a select!.
LEMMA CompletionInv ==
  ASSUME IInv, NEW p \in publishing, NEW result \in {"ok", "timeout", "recoverable", "permanent"},
         handle_publish_completion(p, result),
         pc \in Draining \cup {"select", "quiesce"}
  PROVE  IInv'
<1> USE DEF drainVars, heldVars, budgetVars, callerVars, connVars, brokerVars
<1>1. /\ UNCHANGED <<stage, commands, handles, deferred, declaring, sequence, chState, stored>>
      /\ polling' = {}
  BY DEF handle_publish_completion
<1>2. p \in Pubs /\ p \in Unresolved /\ p \in StatePubs
  BY Finiteness DEF IInv, TypeOK, StatePubs
<1>3. QueuedPubs' = QueuedPubs /\ QueuedOnce'
  BY <1>1, QueueUnchanged
<1>4. CASE /\ result = "ok" /\ Confirms
           /\ publishing' = publishing \ {p} /\ ledger' = ledger \cup {p}
           /\ UNCHANGED <<budgetVars, pc, pending, connVars, replay, retained>>
  <2>1. Unresolved' = Unresolved /\ Holders' = Holders /\ StatePubs' = StatePubs
    BY <1>1, <1>4 DEF Unresolved, Holders, StatePubs
  <2>2. HeldOnce'
    BY <1>3, <1>4, <2>1, Zenon DEF IInv, HeldOnce, QueuedOnce
  <2>3. TypeOK'
    BY <1>1, <1>2, <1>4 DEF IInv, TypeOK
  <2>4. ControlShape'
    BY <1>1, <1>4, <2>1, Zenon DEF IInv, ControlShape, ParkedOnlyWhileSuspended, Draining
  <2>5. AckedIsStored' /\ ConfirmedIsStored'
    BY <1>1, <1>4, Zenon DEF IInv, AckedIsStored, ConfirmedIsStored
  <2> QED BY <1>4, <2>1, <2>2, <2>3, <2>4, <2>5 DEF IInv
<1>5. CASE /\ result # "recoverable" /\ ~(result = "ok" /\ Confirms)
           /\ Complete({p}, WriteOutcome(result))
           /\ publishing' = publishing \ {p}
           /\ UNCHANGED <<pc, pending, connVars, ledger, replay>>
  <2>1. /\ WriteOutcome(result) \in Outcomes
        /\ Confirms => WriteOutcome(result) # "Confirmed"
    BY <1>5 DEF WriteOutcome, Outcomes
  <2>2. {p} \in SUBSET Unresolved
    BY <1>2
  <2>3. /\ outcome' \in [Pubs -> Outcomes \cup {"none"}]
        /\ Unresolved' = Unresolved \ {p}
        /\ permits' \in 0..Capacity /\ permits' = Capacity - Cardinality(Holders')
        /\ \A q \in Pubs : outcome'[q] # "none" => stage'[q] = "accepted"
        /\ retained' \in [Pubs -> RetainedPublish]
        /\ AckedIsStored' /\ ConfirmedIsStored'
    BY <1>1, <1>5, <2>1, <2>2, CompleteHeld, Zenon
  <2>4. HeldOnce'
    <3>1. pending' = pending /\ replay' = replay /\ ledger' = ledger
          /\ publishing' = publishing \ {p}
      BY <1>5
    <3>2. HeldApart'
      <4>1. HeldApart
        BY HeldParts
      <4>2. p \notin QueuedPubs /\ p \notin Range(pending) /\ p \notin Range(replay) /\ p \notin ledger
        BY <1>2, <4>1 DEF HeldApart, StatePubs
      <4>3. StatePubs' = StatePubs \ {p} /\ StatePubs' \subseteq StatePubs
        BY <3>1, <4>2 DEF StatePubs
      <4>4. QueuedPubs' \cup Range(pending') \cup StatePubs' = Unresolved'
        BY <1>2, <1>3, <2>3, <3>1, <4>1, <4>2, <4>3 DEF HeldApart
      <4> QED BY <1>3, <3>1, <4>1, <4>3, <4>4 DEF HeldApart
    <3> QED BY <1>3, <3>1, <3>2, HeldParts, Zenon DEF HeldOnce, HeldApart, QueuedOnce
  <2>5. TypeOK'
    BY <1>1, <1>5, <2>3 DEF IInv, TypeOK
  <2>6. ControlShape'
    BY <1>1, <1>5, <2>3, Zenon DEF IInv, ControlShape, ParkedOnlyWhileSuspended, Draining
  <2> QED BY <2>3, <2>4, <2>5, <2>6 DEF IInv
<1>6. CASE /\ result = "recoverable" /\ suspend(generation, pending)
           /\ pending' = <<>> /\ pc' = AfterDrain
           /\ UNCHANGED budgetVars
  <2>1. /\ generation \in Nat /\ pending \in Seq(Pubs) /\ IsInjective(pending)
        /\ Range(pending) \cap StatePubs = {}
    BY Zenon DEF IInv, TypeOK, HeldOnce
  <2>2. /\ generation' \in Nat /\ phase' = "Suspended" /\ channel' = NoChannel
        /\ publishing' = {} /\ ledger' = {}
        /\ replay' \in Seq(Pubs) /\ IsInjective(replay')
        /\ Range(replay') = StatePubs \cup Range(pending)
        /\ retained' \in [Pubs -> RetainedPublish] /\ AckedIsStored'
    BY <1>1, <1>6, <2>1, SuspendStep
  <2>3. Range(<<>>) = {} /\ IsInjective(<<>>) /\ <<>> \in Seq(Pubs)
    BY DEF Range, IsInjective
  <2>4. Unresolved' = Unresolved /\ Holders' = Holders
    BY <1>1, <1>6, Zenon DEF Unresolved, Holders
  <2>5. StatePubs' = StatePubs \cup Range(pending)
    BY <2>2 DEF StatePubs
  <2>6. HeldOnce'
    BY <1>3, <1>6, <2>2, <2>3, <2>4, <2>5, Zenon DEF IInv, HeldOnce, QueuedOnce
  <2>7. pc' \in {"select", "quiesce"}
    BY <1>6 DEF AfterDrain, Draining
  <2>8. TypeOK'
    BY <1>1, <1>6, <2>2, <2>3, <2>7 DEF IInv, TypeOK
  <2>9. ControlShape'
    BY <1>1, <1>6, <2>2, <2>7, Zenon DEF IInv, ControlShape, ParkedOnlyWhileSuspended, Draining
  <2>10. ConfirmedIsStored'
    BY <1>1, <1>6 DEF IInv, ConfirmedIsStored
  <2> QED BY <1>6, <2>2, <2>4, <2>6, <2>8, <2>9, <2>10 DEF IInv
<1> QED BY <1>4, <1>5, <1>6 DEF handle_publish_completion

\* resolve_confirmation, with an outcome or with a loss that parks the
\* publication again, preserves the invariant.
LEMMA ResolveConfirmationInv ==
  ASSUME IInv, NEW p \in Pubs, ResolveConfirmation(p)
  PROVE  IInv'
<1> USE DEF drainVars, heldVars, budgetVars, callerVars, connVars, brokerVars
<1>1. /\ UNCHANGED <<stage, commands, handles, pc, deferred, pending, declaring, polling,
                     sequence, chState, stored>>
      /\ p \in ledger /\ pc \in {"select", "quiesce"}
  BY Zenon DEF ResolveConfirmation, Polling, AtSelect
<1>2. p \in Unresolved /\ {p} \in SUBSET Unresolved
  BY <1>1, Finiteness DEF IInv, StatePubs
<1>3. /\ QueuedPubs' = QueuedPubs /\ QueuedOnce'
      /\ pending = <<>> /\ Range(pending) = {} /\ polling = {}
  BY <1>1, QueueUnchanged, SMTT(30) DEF IInv, ControlShape, Draining, Range
<1>4. ASSUME NEW o \in ConfirmationOutcomes(p), Complete({p}, o), ledger' = ledger \ {p},
             UNCHANGED <<connVars, replay, publishing>>
      PROVE  IInv'
  <2>1. o \in Outcomes /\ (o = "Confirmed" => p \in stored)
    <3>1. o = "Confirmed" => retained[p].wire = "ack"
      BY <1>4 DEF ConfirmationOutcomes
    <3>2. o \in Outcomes
      BY <1>4 DEF ConfirmationOutcomes, Outcomes
    <3> QED BY <3>1, <3>2 DEF IInv, AckedIsStored
  <2>2. /\ outcome' \in [Pubs -> Outcomes \cup {"none"}]
        /\ Unresolved' = Unresolved \ {p}
        /\ permits' \in 0..Capacity /\ permits' = Capacity - Cardinality(Holders')
        /\ \A q \in Pubs : outcome'[q] # "none" => stage'[q] = "accepted"
        /\ retained' \in [Pubs -> RetainedPublish]
        /\ AckedIsStored' /\ ConfirmedIsStored'
    BY <1>1, <1>2, <1>4, <2>1, CompleteHeld, Zenon
  <2>3. HeldOnce'
    <3>1. pending' = pending /\ replay' = replay /\ publishing' = publishing
          /\ ledger' = ledger \ {p}
      BY <1>1, <1>4
    <3>2. p \in ledger
      BY DEF ResolveConfirmation
    <3>3. HeldApart'
      BY <1>3, <2>2, <3>1, <3>2, HeldParts DEF HeldApart, StatePubs
    <3> QED BY <1>3, <3>1, <3>3, HeldParts DEF HeldOnce, HeldApart, QueuedOnce
  <2>4. TypeOK'
    BY <1>1, <1>4, <2>2 DEF IInv, TypeOK
  <2>5. ControlShape'
    BY <1>1, <1>4, <2>2, Zenon DEF IInv, ControlShape, ParkedOnlyWhileSuspended, Draining
  <2> QED BY <2>2, <2>3, <2>4, <2>5 DEF IInv
<1>5. CASE suspend(generation, <<>>) /\ UNCHANGED budgetVars
  <2>1. generation \in Nat /\ <<>> \in Seq(Pubs) /\ IsInjective(<<>>) /\ Range(<<>>) = {}
    BY DEF IInv, TypeOK, Range, IsInjective
  <2>2. /\ generation' \in Nat /\ phase' = "Suspended" /\ channel' = NoChannel
        /\ publishing' = {} /\ ledger' = {}
        /\ replay' \in Seq(Pubs) /\ IsInjective(replay') /\ Range(replay') = StatePubs
        /\ retained' \in [Pubs -> RetainedPublish] /\ AckedIsStored'
    BY <1>1, <1>5, <2>1, SuspendStep, Zenon
  <2>3. /\ Unresolved' = Unresolved /\ Holders' = Holders /\ StatePubs' = StatePubs
    BY <1>1, <1>5, <2>2, Zenon DEF Unresolved, Holders, StatePubs
  <2>4. HeldOnce'
    BY <1>1, <1>3, <2>2, <2>3, Zenon DEF IInv, HeldOnce, QueuedOnce
  <2>5. TypeOK'
    BY <1>1, <1>3, <1>5, <2>2 DEF IInv, TypeOK
  <2>6. ControlShape'
    BY <1>1, <1>5, <2>2, Zenon DEF IInv, ControlShape, ParkedOnlyWhileSuspended, Draining
  <2>7. ConfirmedIsStored'
    BY <1>1, <1>5 DEF IInv, ConfirmedIsStored
  <2> QED BY <1>5, <2>2, <2>3, <2>4, <2>5, <2>6, <2>7 DEF IInv
<1> QED BY <1>4, <1>5, Zenon DEF ResolveConfirmation

\* publish_queue resolves its first item without attempting it.
LEMMA DrainResolvedInv ==
  ASSUME IInv, NEW p \in Pubs, DrainExpired(p) \/ DrainUnroutable(p)
  PROVE  IInv'
<1> USE DEF drainVars, heldVars, budgetVars, callerVars, connVars, brokerVars
<1>1. /\ UNCHANGED <<stage, commands, handles, pc, deferred, polling, phase, generation,
                     channel, replay, publishing, ledger, chState, stored>>
      /\ declaring' \in BOOLEAN /\ sequence' \in Nat
      /\ pc \in Draining /\ pending # <<>> /\ p = Head(pending) /\ pending' = Tail(pending)
  <2>1. /\ sequence' = sequence \/ sequence' = sequence + 1
        /\ declaring' = declaring \/ declaring' = FALSE
    BY DEF DrainExpired, DrainUnroutable, NextSequence
  <2>2. sequence' \in Nat /\ declaring' \in BOOLEAN
    <3>1. sequence \in Nat /\ declaring \in BOOLEAN
      BY DEF IInv, TypeOK
    <3>2. declaring' \in BOOLEAN
      BY <2>1, <3>1, Zenon
    <3> QED BY <2>1, <3>1, <3>2
  <2>3. CASE DrainExpired(p)
    BY <2>2, <2>3 DEF DrainExpired, DrainItem
  <2>4. CASE DrainUnroutable(p)
    BY <2>2, <2>4 DEF DrainUnroutable, DrainItem
  <2> QED BY <2>3, <2>4
<1>2. PICK o \in Outcomes \ {"Confirmed"} : Complete({p}, o)
  <2>1. {"Timeout", "Transport", "InvalidRequest"} \subseteq Outcomes \ {"Confirmed"}
    BY DEF Outcomes
  <2>2. \E o \in {"Timeout", "Transport", "InvalidRequest"} : Complete({p}, o)
    BY DEF DrainExpired, DrainUnroutable
  <2> QED BY <2>1, <2>2
<1>3. pending \in Seq(Pubs) /\ IsInjective(pending)
  BY Zenon DEF IInv, TypeOK, HeldOnce
<1>4. /\ p \in Range(pending) /\ Tail(pending) \in Seq(Pubs)
      /\ Range(Tail(pending)) = Range(pending) \ {p} /\ IsInjective(Tail(pending))
  BY <1>1, <1>3, TailDistinct
<1>5. {p} \in SUBSET Unresolved
  BY <1>4, Finiteness DEF IInv
<1>6. /\ outcome' \in [Pubs -> Outcomes \cup {"none"}]
      /\ Unresolved' = Unresolved \ {p}
      /\ permits' \in 0..Capacity /\ permits' = Capacity - Cardinality(Holders')
      /\ \A q \in Pubs : outcome'[q] # "none" => stage'[q] = "accepted"
      /\ retained' \in [Pubs -> RetainedPublish]
      /\ AckedIsStored' /\ ConfirmedIsStored'
  BY <1>1, <1>2, <1>5, CompleteHeld, Zenon
<1>7. QueuedPubs' = QueuedPubs /\ QueuedOnce' /\ StatePubs' = StatePubs
  BY <1>1, QueueUnchanged DEF StatePubs
<1>8. HeldOnce'
  <2>1. Range(pending') = Range(pending) \ {p} /\ IsInjective(pending')
    BY <1>1, <1>4
  <2>2. replay' = replay /\ publishing' = publishing /\ ledger' = ledger
    BY <1>1
  <2>3. HeldApart'
    BY <1>4, <1>6, <1>7, <2>1, <2>2, HeldParts DEF HeldApart
  <2> QED BY <1>7, <2>1, <2>2, <2>3, HeldParts, Zenon DEF HeldOnce, HeldApart, QueuedOnce
<1>9. TypeOK'
  BY <1>1, <1>4, <1>6, Zenon DEF IInv, TypeOK
<1>10. ControlShape'
  BY <1>1, <1>6, <1>7, Zenon DEF IInv, ControlShape, ParkedOnlyWhileSuspended, Draining
<1> QED BY <1>6, <1>8, <1>9, <1>10 DEF IInv

\* publish_queue handing a frame to the channel preserves the invariant.
LEMMA DrainAttemptInv ==
  ASSUME IInv, NEW p \in Pubs, DrainAttempt(p)
  PROVE  IInv'
<1> USE DEF drainVars, heldVars, budgetVars, callerVars, connVars, brokerVars
<1>1. /\ UNCHANGED <<stage, outcome, permits, commands, handles, pc, deferred, phase,
                     generation, channel, replay, ledger, chState, stored>>
      /\ declaring' = FALSE /\ polling' = {p} /\ publishing' = publishing \cup {p}
      /\ pc \in Draining /\ pending # <<>> /\ p = Head(pending) /\ pending' = Tail(pending)
  BY DEF DrainAttempt, DrainItem
<1>2. sequence' = sequence + 1 /\ sequence' \in Nat
  BY DEF DrainAttempt, NextSequence, IInv, TypeOK
<1>3. pending \in Seq(Pubs) /\ IsInjective(pending)
  BY Zenon DEF IInv, TypeOK, HeldOnce
<1>4. /\ p \in Range(pending) /\ Tail(pending) \in Seq(Pubs)
      /\ Range(Tail(pending)) = Range(pending) \ {p} /\ IsInjective(Tail(pending))
  BY <1>1, <1>3, TailDistinct
<1>5. retained' \in [Pubs -> RetainedPublish]
      /\ \A q \in Pubs : retained'[q].wire = retained[q].wire
  <2>1. /\ retained \in [Pubs -> RetainedPublish] /\ channel \in Channels \cup {NoChannel}
        /\ sequence + 1 \in Nat
    BY DEF IInv, TypeOK
  <2>2. \A r \in RetainedPublish :
          LET n == [r EXCEPT !.sequence = sequence + 1, !.on = channel]
          IN  n \in RetainedPublish /\ n.wire = r.wire
    BY <2>1, Zenon DEF RetainedPublish
  <2>3. retained' = [retained EXCEPT ![p] =
                       [retained[p] EXCEPT !.sequence = sequence + 1, !.on = channel]]
    BY <2>1, Zenon DEF DrainAttempt, NextSequence, RetainedPublish
  <2> QED BY <2>1, <2>2, <2>3, Zenon
<1>6. AckedIsStored' /\ ConfirmedIsStored'
  BY <1>1, <1>5, Zenon DEF IInv, AckedIsStored, ConfirmedIsStored
<1>7. /\ QueuedPubs' = QueuedPubs /\ QueuedOnce'
      /\ Unresolved' = Unresolved /\ Holders' = Holders /\ StatePubs' = StatePubs \cup {p}
  BY <1>1, QueueUnchanged, Zenon DEF Unresolved, Holders, StatePubs
<1>8. HeldOnce'
  <2>1. /\ Range(pending') = Range(pending) \ {p} /\ IsInjective(pending')
        /\ replay' = replay /\ publishing' = publishing \cup {p} /\ ledger' = ledger
    BY <1>1, <1>4
  <2>2. HeldApart'
    BY <1>4, <1>7, <2>1, HeldParts DEF HeldApart, StatePubs
  <2> QED BY <1>7, <2>1, <2>2, HeldParts, Zenon DEF HeldOnce, HeldApart, QueuedOnce
<1>9. TypeOK'
  BY <1>1, <1>2, <1>4, <1>5, Zenon DEF IInv, TypeOK
<1>10. ControlShape'
  BY <1>1, <1>7, Zenon DEF IInv, ControlShape, ParkedOnlyWhileSuspended, Draining
<1> QED BY <1>1, <1>6, <1>7, <1>8, <1>9, <1>10 DEF IInv

-----------------------------------------------------------------------------
(* The invariant.                                                           *)

\* Every step of run_actor preserves the invariant.
LEMMA ActorInv ==
  ASSUME IInv, Actor
  PROVE  IInv'
<1>1. ASSUME NEW p \in Pubs, NEW result \in WriteResults(p), p \in publishing,
             handle_publish_completion(p, result), pc \in Draining \cup {"select", "quiesce"}
      PROVE  IInv'
  <2>1. result \in {"ok", "timeout", "recoverable", "permanent"}
    BY <1>1 DEF WriteResults
  <2> QED BY <1>1, <2>1, CompletionInv
<1>2. ASSUME NEW p \in Pubs, PublishCompletion(p) PROVE IInv'
  <2>1. pc \in {"select", "quiesce"} /\ p \in publishing
    BY <1>2 DEF PublishCompletion, Polling, AtSelect
  <2>2. PICK result \in WriteResults(p) : handle_publish_completion(p, result)
    BY <1>2 DEF PublishCompletion
  <2> QED BY <1>1, <2>1, <2>2
<1>3. ASSUME NEW p \in Pubs, PollReady(p) PROVE IInv'
  <2>1. pc \in Draining /\ p \in publishing
    BY <1>3 DEF PollReady, IInv, TypeOK, ControlShape
  <2>2. PICK result \in WriteResults(p) : handle_publish_completion(p, result)
    BY <1>3 DEF PollReady
  <2> QED BY <1>1, <2>1, <2>2
<1> QED
  BY <1>2, <1>3, CoalesceInv, TakeCommandInv, HandleRecoveringInv, HandleReadyInv,
     ControlOnlyInv, HandleFailedPermanentInv, ExpireReplayInv, StartQuiesceInv,
     EndQuiesceInv, StopInv, HandlesDroppedInv, ResolveConfirmationInv,
     DrainResolvedInv, DrainAttemptInv
  DEF Actor

\* spawn: an idle actor holds nothing.
LEMMA InitInv == Init => IInv
<1> SUFFICES ASSUME Init PROVE IInv
  OBVIOUS
<1>1. /\ <<>> \in Seq(Command) /\ <<>> \in Seq(ConnEvents \cup {CloseCmd})
      /\ <<>> \in Seq(Pubs) /\ Len(<<>>) = 0 /\ Range(<<>>) = {} /\ IsInjective(<<>>)
      /\ DOMAIN <<>> = {}
  BY DEF Range, IsInjective
<1>2. TypeOK
  <2>1. NotRetained \in RetainedPublish /\ 1 \in Channels
    BY PublisherAssumption, SMTT(30) DEF RetainedPublish, NotRetained, Channels
  <2>2. /\ retained \in [Pubs -> RetainedPublish]
        /\ stage \in [Pubs -> {"idle", "admitted", "accepted"}]
        /\ outcome \in [Pubs -> Outcomes \cup {"none"}]
        /\ chState \in [Channels -> {"unused", "up", "lost", "refused"}]
    BY <2>1 DEF Init
  <2>3. /\ permits \in 0..Capacity /\ Len(commands) <= Capacity /\ Len(deferred) <= 1
        /\ commands \in Seq(Command) /\ deferred \in Seq(ConnEvents \cup {CloseCmd})
        /\ pending \in Seq(Pubs) /\ replay \in Seq(Pubs)
    BY <1>1, PublisherAssumption, SMTT(30) DEF Init
  <2>4. /\ generation \in Nat /\ channel \in Channels \cup {NoChannel} /\ sequence \in Nat
        /\ phase \in {"Ready", "Suspended", "FailedPermanent"}
        /\ publishing \in SUBSET Pubs /\ ledger \in SUBSET Pubs /\ polling \in SUBSET publishing
        /\ stored \in SUBSET Pubs /\ handles \in BOOLEAN /\ declaring \in BOOLEAN
        /\ pc \in Draining \cup {"select", "quiesce", "closing", "stopped"}
    BY <2>1, Zenon DEF Init
  <2> QED BY <2>2, <2>3, <2>4 DEF TypeOK
<1>3. Holders = {} /\ Unresolved = {} /\ StatePubs = {} /\ QueuedPubs = {}
  BY <1>1, Zenon DEF Init, Holders, Unresolved, StatePubs, QueuedPubs
<1>4. HeldOnce
  BY <1>1, <1>3 DEF Init, HeldOnce
<1>5. ControlShape
  BY <1>1, <1>3 DEF Init, ControlShape, ParkedOnlyWhileSuspended, Draining
<1>6. permits = Capacity - Cardinality(Holders)
  BY <1>3, FS_EmptySet, PublisherAssumption, SMTT(30) DEF Init
<1>7. AckedIsStored /\ ConfirmedIsStored
  BY DEF Init, AckedIsStored, ConfirmedIsStored, NotRetained
<1> QED BY <1>2, <1>4, <1>5, <1>6, <1>7 DEF IInv

\* Every step of the callers, of the actor and of the broker, and a stutter.
LEMMA NextInv == IInv /\ [Next]_vars => IInv'
<1> SUFFICES ASSUME IInv, [Next]_vars PROVE IInv'
  OBVIOUS
<1>1. CASE UNCHANGED vars
  <2> USE DEF vars, callerVars, budgetVars, drainVars, connVars, heldVars, brokerVars
  <2>1. /\ Holders' = Holders /\ Unresolved' = Unresolved
        /\ QueuedPubs' = QueuedPubs /\ StatePubs' = StatePubs
    BY <1>1, Zenon DEF Holders, Unresolved, QueuedPubs, StatePubs
  <2>2. TypeOK'
    BY <1>1, Zenon DEF IInv, TypeOK
  <2>3. HeldOnce'
    BY <1>1, <2>1, Zenon DEF IInv, HeldOnce
  <2>4. ControlShape'
    BY <1>1, <2>1, Zenon DEF IInv, ControlShape, ParkedOnlyWhileSuspended
  <2>5. AckedIsStored' /\ ConfirmedIsStored'
    BY <1>1, Zenon DEF IInv, AckedIsStored, ConfirmedIsStored
  <2> QED BY <1>1, <2>1, <2>2, <2>3, <2>4, <2>5 DEF IInv
<1> QED BY <1>1, CallersInv, ActorInv, EnvironmentInv DEF Next

\* The inductive invariant holds in every reachable state.
THEOREM Inductive == Spec => []IInv
  BY InitInv, NextInv, PTL DEF Spec

\* Type correctness of the publisher, the replay queue, the work list and the
\* maps of run_actor included, for every number of publications.
THEOREM TypeCorrect == Spec => []TypeOK
<1>1. IInv => TypeOK
  BY DEF IInv
<1> QED BY <1>1, Inductive, PTL

\* No publication is lost or owned twice by run_actor, whatever the order of
\* commands, connection events, verdicts, failures and shutdown.
THEOREM Conservation == Spec => []HeldOnce
<1>1. IInv => HeldOnce
  BY DEF IInv
<1> QED BY <1>1, Inductive, PTL

\* In safe mode a success is reported only for what the broker acknowledged.
THEOREM SuccessIsStored == Spec => []ConfirmedIsStored
<1>1. IInv => ConfirmedIsStored
  BY DEF IInv
<1> QED BY <1>1, Inductive, PTL

\* Nothing is parked in replay without a timer that will look at it.
THEOREM ReplayHasTimer == Spec => []ParkedOnlyWhileSuspended
<1>1. IInv => ParkedOnlyWhileSuspended
  BY DEF IInv, ControlShape
<1> QED BY <1>1, Inductive, PTL
=============================================================================
