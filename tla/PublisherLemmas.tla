-------------------------- MODULE PublisherLemmas ---------------------------
(***************************************************************************)
(* Lemmas about Publisher: the lists the actor keeps, its command queue,   *)
(* and the steps of the callers and of the environment.                    *)
(***************************************************************************)
EXTENDS Publisher, FiniteSetTheorems, SequenceTheorems, TLAPS

-----------------------------------------------------------------------------
(* Sequences that list each element once.                                   *)

\* Appending a disjoint list to a list without repetition (suspend, and the
\* rest of the work list after it).
LEMMA ConcatDistinct ==
  ASSUME NEW S, NEW s \in Seq(S), NEW t \in Seq(S),
         IsInjective(s), IsInjective(t), Range(s) \cap Range(t) = {}
  PROVE  /\ s \o t \in Seq(S)
         /\ Range(s \o t) = Range(s) \cup Range(t)
         /\ IsInjective(s \o t)
<1>1. /\ s \o t \in Seq(S)
      /\ Len(s \o t) = Len(s) + Len(t)
      /\ \A i \in 1..(Len(s) + Len(t)) :
           (s \o t)[i] = IF i <= Len(s) THEN s[i] ELSE t[i - Len(s)]
  BY ConcatProperties
<1>2. Range(s \o t) = Range(s) \cup Range(t)
  BY RangeConcatenation
<1>3. ASSUME NEW i \in DOMAIN (s \o t), NEW j \in DOMAIN (s \o t),
             (s \o t)[i] = (s \o t)[j]
      PROVE  i = j
  <2>1. i \in 1..(Len(s) + Len(t)) /\ j \in 1..(Len(s) + Len(t))
    BY <1>1
  <2>2. CASE i <= Len(s) /\ j <= Len(s)
    BY <1>1, <1>3, <2>1, <2>2 DEF IsInjective
  <2>3. CASE i > Len(s) /\ j > Len(s)
    BY <1>1, <1>3, <2>1, <2>3 DEF IsInjective
  <2>4. CASE i <= Len(s) /\ j > Len(s)
    <3>1. s[i] \in Range(s) /\ t[j - Len(s)] \in Range(t)
      BY <2>1, <2>4 DEF Range
    <3>2. s[i] = t[j - Len(s)]
      BY <1>1, <1>3, <2>1, <2>4
    <3> QED BY <3>1, <3>2
  <2>5. CASE i > Len(s) /\ j <= Len(s)
    <3>1. s[j] \in Range(s) /\ t[i - Len(s)] \in Range(t)
      BY <2>1, <2>5 DEF Range
    <3>2. s[j] = t[i - Len(s)]
      BY <1>1, <1>3, <2>1, <2>5
    <3> QED BY <3>1, <3>2
  <2> QED BY <1>1, <2>1, <2>2, <2>3, <2>4, <2>5
<1> QED BY <1>1, <1>2, <1>3 DEF IsInjective

\* Taking the first item of such a list (publish_queue's pop_front).
LEMMA TailDistinct ==
  ASSUME NEW S, NEW s \in Seq(S), s # <<>>, IsInjective(s)
  PROVE  /\ Head(s) \in Range(s) /\ Head(s) \in S
         /\ Tail(s) \in Seq(S)
         /\ Range(Tail(s)) = Range(s) \ {Head(s)}
         /\ IsInjective(Tail(s))
<1>1. /\ Head(s) = s[1] /\ Len(s) \in Nat \ {0} /\ s[1] \in S
      /\ Tail(s) \in Seq(S) /\ Len(Tail(s)) = Len(s) - 1
      /\ \A i \in 1..(Len(s) - 1) : Tail(s)[i] = s[i + 1]
  BY HeadTailProperties, EmptySeq
<1>2. DOMAIN s = 1..Len(s) /\ DOMAIN Tail(s) = 1..(Len(s) - 1)
  BY <1>1, LenProperties
<1>3. IsInjective(Tail(s))
  BY <1>1, <1>2 DEF IsInjective
<1>4. Range(Tail(s)) \subseteq Range(s) \ {Head(s)}
  BY <1>1, <1>2 DEF IsInjective, Range
<1>5. ASSUME NEW x \in Range(s) \ {Head(s)}
      PROVE  x \in Range(Tail(s))
  <2>1. PICK k \in 1..Len(s) : x = s[k]
    BY <1>2 DEF Range
  <2>2. k # 1 /\ k - 1 \in 1..(Len(s) - 1) /\ Tail(s)[k - 1] = x
    BY <1>1, <2>1
  <2> QED BY <1>2, <2>2, Zenon DEF Range
<1>6. Head(s) \in Range(s)
  BY <1>1, <1>2 DEF Range
<1> QED BY <1>1, <1>3, <1>4, <1>5, <1>6

\* The lists suspend and expire_replay may produce.
LEMMA ArrangementDistinct ==
  ASSUME NEW S, IsFiniteSet(S), NEW s \in Arrangements(S)
  PROVE  s \in Seq(S) /\ Range(s) = S /\ IsInjective(s)
<1>1. Cardinality(S) \in Nat
  BY FS_CardinalityType
<1>2. /\ s \in [1..Cardinality(S) -> S] /\ IsInjective(s)
      /\ \A t \in S : \E i \in 1..Cardinality(S) : s[i] = t
  BY DEF Arrangements, Bijection, Injection, Surjection
<1>3. s \in Seq(S)
  BY <1>1, <1>2, SeqDef
<1>4. Range(s) = S
  BY <1>2 DEF Range
<1> QED BY <1>2, <1>3, <1>4

-----------------------------------------------------------------------------
(* What the building blocks of the actor do to the invariant.               *)

\* Everything the actor holds is unresolved, and there is finitely much.
LEMMA Finiteness ==
  ASSUME TypeOK, HeldOnce
  PROVE  /\ Range(pending) \subseteq Unresolved
         /\ StatePubs \subseteq Unresolved
         /\ QueuedPubs \subseteq Unresolved
         /\ Unresolved \subseteq Pubs
         /\ \A S \in SUBSET Pubs : IsFiniteSet(S)
<1>1. \A S \in SUBSET Pubs : IsFiniteSet(S)
  BY PublisherAssumption, FS_Subset
<1> QED BY <1>1 DEF HeldOnce, Unresolved

\* Resolving waiters gives back exactly their permits.
LEMMA ResolveStep ==
  ASSUME IInv, NEW S \in SUBSET Unresolved, NEW o \in Outcomes,
         Resolve(S, o), UNCHANGED stage
  PROVE  /\ outcome' \in [Pubs -> Outcomes \cup {"none"}]
         /\ Unresolved' = Unresolved \ S
         /\ permits' \in 0..Capacity
         /\ permits' = Capacity - Cardinality(Holders')
         /\ \A p \in Pubs : outcome'[p] # "none" => stage'[p] = "accepted"
         /\ \A p \in Pubs : outcome'[p] = "Confirmed" =>
                outcome[p] = "Confirmed" \/ (p \in S /\ o = "Confirmed")
<1>1. S \subseteq Pubs /\ "none" \notin Outcomes
  BY DEF Unresolved, Outcomes
<1>2. outcome' = [p \in Pubs |-> IF p \in S THEN o ELSE outcome[p]]
  BY DEF Resolve
<1>3. outcome' \in [Pubs -> Outcomes \cup {"none"}]
  BY <1>1, <1>2 DEF IInv, TypeOK
<1>4. Unresolved' = Unresolved \ S
  BY <1>1, <1>2 DEF Unresolved
<1>5. Holders' = Holders \ S
  BY <1>4 DEF Holders, Unresolved
<1>6. IsFiniteSet(Holders) /\ S \subseteq Holders /\ Holders \cap S = S
  BY PublisherAssumption, FS_Subset DEF Holders, Unresolved
<1>7. /\ Cardinality(Holders \ S) = Cardinality(Holders) - Cardinality(S)
      /\ IsFiniteSet(Holders \ S)
  BY <1>6, FS_Difference, ZenonT(30)
<1>8. /\ Cardinality(Holders) \in Nat /\ Cardinality(S) \in Nat
      /\ Cardinality(Holders \ S) \in Nat
  BY <1>6, <1>7, FS_CardinalityType, FS_Subset
<1>9. permits' = permits + Cardinality(S) /\ permits = Capacity - Cardinality(Holders)
  BY DEF Resolve, IInv
<1>10. permits' = Capacity - Cardinality(Holders')
  BY <1>5, <1>7, <1>8, <1>9, PublisherAssumption
<1>11. permits' \in 0..Capacity
  BY <1>5, <1>8, <1>9, <1>10, PublisherAssumption, SMTT(30) DEF IInv, TypeOK
<1>12. \A p \in Pubs : outcome'[p] # "none" => stage'[p] = "accepted"
  BY <1>1, <1>2 DEF IInv, ControlShape, Unresolved
<1> QED BY <1>2, <1>3, <1>4, <1>10, <1>11, <1>12

\* Forgetting a publication, and taking it off the wire, keep the records
\* of the others and their acknowledgements.
LEMMA RetainedStep ==
  ASSUME IInv, retained' \in [Pubs -> RetainedPublish], UNCHANGED stored,
         \A p \in Pubs : retained'[p].wire \in {"none", retained[p].wire}
  PROVE  AckedIsStored'
  BY DEF IInv, AckedIsStored

\* What complete does to one publication: its waiter gets the outcome, its
\* permit and bytes go back, and nothing else about the callers changes.
LEMMA CompleteStep ==
  ASSUME IInv, NEW S \in SUBSET Unresolved, NEW o \in Outcomes,
         Complete(S, o), UNCHANGED stored
  PROVE  retained' \in [Pubs -> RetainedPublish] /\ AckedIsStored'
<1>1. NotRetained \in RetainedPublish /\ NotRetained.wire = "none"
  BY DEF NotRetained, RetainedPublish
<1>2. retained' = [p \in Pubs |-> IF p \in S THEN NotRetained ELSE retained[p]]
  BY DEF Complete
<1>3. retained' \in [Pubs -> RetainedPublish]
  BY <1>1, <1>2 DEF IInv, TypeOK
<1> QED BY <1>1, <1>2, <1>3, RetainedStep

\* suspend parks exactly what the actor holds, each publication once.
LEMMA SuspendStep ==
  ASSUME IInv, NEW g \in Nat, NEW rest \in Seq(Pubs), suspend(g, rest),
         IsInjective(rest), Range(rest) \cap StatePubs = {}, UNCHANGED stored
  PROVE  /\ generation' \in Nat /\ phase' = "Suspended" /\ channel' = NoChannel
         /\ publishing' = {} /\ ledger' = {}
         /\ replay' \in Seq(Pubs) /\ IsInjective(replay')
         /\ Range(replay') = StatePubs \cup Range(rest)
         /\ retained' \in [Pubs -> RetainedPublish] /\ AckedIsStored'
<1>1. StatePubs \subseteq Pubs /\ IsFiniteSet(StatePubs)
  BY Finiteness DEF IInv
<1>2. PICK s \in Arrangements(StatePubs) : replay' = s \o rest
  BY DEF suspend, SortedBySequence
<1>3. s \in Seq(StatePubs) /\ Range(s) = StatePubs /\ IsInjective(s)
  BY <1>1, ArrangementDistinct
<1>4. s \in Seq(Pubs)
  BY <1>1, <1>3, SeqMonotonic
<1>5. replay' \in Seq(Pubs) /\ IsInjective(replay') /\ Range(replay') = StatePubs \cup Range(rest)
  BY <1>2, <1>3, <1>4, ConcatDistinct
<1>6. retained' = [p \in Pubs |-> OffWire(retained[p])]
  BY DEF suspend
<1>7. \A r \in RetainedPublish : OffWire(r) \in RetainedPublish /\ OffWire(r).wire = "none"
  BY Zenon DEF RetainedPublish, OffWire
<1>8. retained' \in [Pubs -> RetainedPublish] /\ AckedIsStored'
  BY <1>6, <1>7, RetainedStep DEF IInv, TypeOK
<1>9. generation' \in Nat
  BY DEF suspend, MaxOf, IInv, TypeOK
<1> QED BY <1>5, <1>8, <1>9 DEF suspend

\* expire_replay resolves the dead and leaves the rest in the queue, once.
LEMMA ExpireStep ==
  ASSUME IInv, expire_replay, UNCHANGED stored
  PROVE  /\ Dead \subseteq Range(replay)
         /\ \A s \in Survivors : /\ s \in Seq(Pubs) /\ IsInjective(s)
                                 /\ Range(s) = Range(replay) \ Dead
         /\ retained' \in [Pubs -> RetainedPublish] /\ AckedIsStored'
<1>1. Dead \subseteq Range(replay)
  BY DEF Dead, Lapsed
<1>2. Range(replay) \ Dead \subseteq Pubs /\ IsFiniteSet(Range(replay) \ Dead)
  BY Finiteness DEF IInv, StatePubs
<1>3. ASSUME NEW s \in Survivors
      PROVE  s \in Seq(Pubs) /\ IsInjective(s) /\ Range(s) = Range(replay) \ Dead
  <2>1. s \in Arrangements(Range(replay) \ Dead)
    BY DEF Survivors
  <2> QED BY <1>2, <2>1, ArrangementDistinct, SeqMonotonic
<1>4. NotRetained \in RetainedPublish /\ NotRetained.wire = "none"
  BY DEF NotRetained, RetainedPublish
<1>5. \A r \in RetainedPublish :
        LET n == [r EXCEPT !.lapsed = FALSE, !.retried = TRUE]
        IN  n \in RetainedPublish /\ n.wire = r.wire
  BY Zenon DEF RetainedPublish
<1>6. retained' \in [Pubs -> RetainedPublish]
      /\ \A p \in Pubs : retained'[p].wire \in {"none", retained[p].wire}
  BY <1>4, <1>5, Zenon DEF expire_replay, IInv, TypeOK
<1>7. AckedIsStored'
  BY <1>6, RetainedStep
<1> QED BY <1>1, <1>3, <1>6, <1>7

-----------------------------------------------------------------------------
(* The command queue.                                                       *)

\* No publication is queued twice (a conjunct of HeldOnce).
QueuedOnce ==
  \A i, j \in DOMAIN commands :
    commands[i].type = "Publish" /\ commands[i] = commands[j] => i = j

\* The part of HeldOnce that is about sets: the places are disjoint.
HeldApart ==
  /\ QueuedPubs \cup Range(pending) \cup StatePubs = Unresolved
  /\ QueuedPubs \cap (Range(pending) \cup StatePubs) = {}
  /\ Range(pending) \cap StatePubs = {}
  /\ Range(replay) \cap (publishing \cup ledger) = {}
  /\ publishing \cap ledger = {}

\* HeldOnce is its parts about sets and about sequences.
LEMMA HeldParts ==
  IInv => HeldApart /\ IsInjective(pending) /\ IsInjective(replay)
  BY DEF IInv, HeldOnce, HeldApart

\* A queued command is a publication, a connection event or a close.
LEMMA CommandKinds ==
  /\ \A c \in Command : c.type = "Publish" => \E p \in Pubs : c = PublishCmd(p)
  /\ \A p \in Pubs : /\ PublishCmd(p) \in Command /\ PublishCmd(p).type = "Publish"
                     /\ PublishCmd(p).pub = p
  /\ \A e \in ConnEvents : e \in Command /\ e.type # "Publish" /\ e.type # "Close"
  /\ CloseCmd \in Command /\ CloseCmd.type = "Close"
  /\ \A c \in Command : c.type # "Publish" => c \in ConnEvents \cup {CloseCmd}
  BY PublisherAssumption DEF Command, PublishCmd, CloseCmd

\* Sending a command.
LEMMA AppendCommand ==
  ASSUME TypeOK, QueuedOnce, NEW c \in Command, commands' = Append(commands, c),
         c.type = "Publish" => c.pub \notin QueuedPubs
  PROVE  /\ commands' \in Seq(Command) /\ Len(commands') = Len(commands) + 1
         /\ QueuedOnce'
         /\ QueuedPubs' = QueuedPubs \cup (IF c.type = "Publish" THEN {c.pub} ELSE {})
<1>1. /\ commands \in Seq(Command) /\ commands' \in Seq(Command)
      /\ Len(commands') = Len(commands) + 1 /\ Len(commands) \in Nat
      /\ DOMAIN commands = 1..Len(commands) /\ DOMAIN commands' = 1..(Len(commands) + 1)
      /\ \A i \in 1..Len(commands) : commands'[i] = commands[i]
      /\ commands'[Len(commands) + 1] = c
  BY DEF TypeOK
<1>2. QueuedOnce'
  <2> SUFFICES ASSUME NEW i \in DOMAIN commands', NEW j \in DOMAIN commands',
                      commands'[i].type = "Publish", commands'[i] = commands'[j]
               PROVE  i = j
    BY DEF QueuedOnce
  <2>1. CASE i \in 1..Len(commands) /\ j \in 1..Len(commands)
    BY <1>1, <2>1 DEF QueuedOnce
  <2>2. CASE i = Len(commands) + 1 /\ j \in 1..Len(commands)
    BY <1>1, <2>2 DEF QueuedPubs
  <2>3. CASE j = Len(commands) + 1 /\ i \in 1..Len(commands)
    BY <1>1, <2>3 DEF QueuedPubs
  <2> QED BY <1>1, <2>1, <2>2, <2>3
<1>3. QueuedPubs' = QueuedPubs \cup (IF c.type = "Publish" THEN {c.pub} ELSE {})
  <2>1. ASSUME NEW x \in QueuedPubs'
        PROVE  x \in QueuedPubs \cup (IF c.type = "Publish" THEN {c.pub} ELSE {})
    <3>1. PICK i \in DOMAIN commands' : commands'[i].type = "Publish" /\ x = commands'[i].pub
      BY DEF QueuedPubs
    <3>2. CASE i \in 1..Len(commands)
      BY <1>1, <3>1, <3>2 DEF QueuedPubs
    <3>3. CASE i = Len(commands) + 1
      BY <1>1, <3>1, <3>3
    <3> QED BY <1>1, <3>1, <3>2, <3>3
  <2>2. ASSUME NEW x \in QueuedPubs PROVE x \in QueuedPubs'
    <3>1. PICK i \in DOMAIN commands : commands[i].type = "Publish" /\ x = commands[i].pub
      BY DEF QueuedPubs
    <3>2. i \in DOMAIN commands' /\ commands'[i] = commands[i]
      BY <1>1, <3>1
    <3> QED BY <3>1, <3>2 DEF QueuedPubs
  <2>3. c.type = "Publish" => c.pub \in QueuedPubs'
    <3>1. Len(commands) + 1 \in DOMAIN commands' /\ commands'[Len(commands) + 1] = c
      BY <1>1
    <3> QED BY <3>1 DEF QueuedPubs
  <2> QED BY <2>1, <2>2, <2>3
<1> QED BY <1>1, <1>2, <1>3

\* What is left of a queue after its first n elements.
LEMMA Suffix ==
  ASSUME NEW S, NEW s \in Seq(S), NEW n \in 0..Len(s)
  PROVE  /\ SubSeq(s, n + 1, Len(s)) \in Seq(S)
         /\ Len(SubSeq(s, n + 1, Len(s))) = Len(s) - n
         /\ \A i \in 1..(Len(s) - n) : SubSeq(s, n + 1, Len(s))[i] = s[n + i]
<1> DEFINE m == n + 1
           t == SubSeq(s, m, Len(s))
<1>1. Len(s) \in Nat /\ n \in Nat /\ n <= Len(s) /\ m \in Int /\ Len(s) \in Int
  BY LenProperties
<1>2. \A i \in m..Len(s) : s[i] \in S
  BY <1>1, ElementOfSeq
<1> HIDE DEF m
<1>3. /\ t \in Seq(S)
      /\ Len(t) = IF m <= Len(s) THEN Len(s) - m + 1 ELSE 0
      /\ \A i \in 1..(Len(s) - m + 1) : t[i] = s[m + i - 1]
  BY <1>1, <1>2, SubSeqProperties
<1> HIDE DEF t
<1>4. /\ Len(s) - m + 1 = Len(s) - n
      /\ (IF m <= Len(s) THEN Len(s) - m + 1 ELSE 0) = Len(s) - n
      /\ \A i \in 1..(Len(s) - n) : m + i - 1 = n + i
  BY <1>1 DEF m
<1>5. t \in Seq(S) /\ Len(t) = Len(s) - n /\ \A i \in 1..(Len(s) - n) : t[i] = s[n + i]
  BY <1>3, <1>4
<1> QED BY <1>5 DEF t, m

\* Receiving the first n commands.
LEMMA DropCommands ==
  ASSUME TypeOK, QueuedOnce, NEW n \in 0..Len(commands),
         commands' \in Seq(Command), Len(commands') = Len(commands) - n,
         \A i \in 1..(Len(commands) - n) : commands'[i] = commands[n + i]
  PROVE  /\ QueuedOnce'
         /\ QueuedPubs' = QueuedPubs \ {commands[i].pub :
                              i \in {j \in 1..n : commands[j].type = "Publish"}}
<1>1. commands \in Seq(Command) /\ Len(commands) \in Nat /\ DOMAIN commands = 1..Len(commands)
  BY DEF TypeOK
<1>2. /\ DOMAIN commands' = 1..(Len(commands) - n)
      /\ \A i \in 1..(Len(commands) - n) : commands'[i] = commands[n + i]
  BY <1>1
<1>3. QueuedOnce'
  <2> SUFFICES ASSUME NEW i \in DOMAIN commands', NEW j \in DOMAIN commands',
                      commands'[i].type = "Publish", commands'[i] = commands'[j]
               PROVE  i = j
    BY DEF QueuedOnce
  <2>1. /\ i \in Nat /\ j \in Nat /\ n + i \in DOMAIN commands /\ n + j \in DOMAIN commands
        /\ commands[n + i].type = "Publish" /\ commands[n + i] = commands[n + j]
    BY <1>1, <1>2
  <2>2. n + i = n + j
    BY <2>1 DEF QueuedOnce
  <2> QED BY <2>1, <2>2
<1> DEFINE Taken == {commands[i].pub : i \in {j \in 1..n : commands[j].type = "Publish"}}
<1>4. ASSUME NEW x \in QueuedPubs' PROVE x \in QueuedPubs \ Taken
  <2>1. PICK i \in DOMAIN commands' : commands'[i].type = "Publish" /\ x = commands'[i].pub
    BY DEF QueuedPubs
  <2>2. n + i \in DOMAIN commands /\ n + i > n /\ commands'[i] = commands[n + i]
    BY <1>1, <1>2, <2>1
  <2>3. x \in QueuedPubs
    BY <2>1, <2>2 DEF QueuedPubs
  <2>4. ASSUME NEW k \in 1..n, commands[k].type = "Publish", x = commands[k].pub
        PROVE  FALSE
    <3>1. k \in DOMAIN commands /\ commands[k] \in Command /\ commands[n + i] \in Command
      BY <1>1, <2>2
    <3>2. PICK p \in Pubs, q \in Pubs : commands[k] = PublishCmd(p) /\ commands[n + i] = PublishCmd(q)
      BY <2>1, <2>2, <2>4, <3>1, CommandKinds
    <3>3. commands[k] = commands[n + i]
      BY <2>1, <2>2, <2>4, <3>2, CommandKinds
    <3>4. k = n + i
      BY <2>2, <2>4, <3>1, <3>3 DEF QueuedOnce
    <3> QED BY <2>2, <3>4
  <2> QED BY <2>3, <2>4
<1>5. ASSUME NEW x \in QueuedPubs \ Taken PROVE x \in QueuedPubs'
  <2>1. PICK i \in DOMAIN commands : commands[i].type = "Publish" /\ x = commands[i].pub
    BY DEF QueuedPubs
  <2>2. i \notin 1..n
    BY <2>1
  <2>3. i - n \in DOMAIN commands' /\ commands'[i - n] = commands[i]
    BY <1>1, <1>2, <2>1, <2>2
  <2> QED BY <2>1, <2>3 DEF QueuedPubs
<1> QED BY <1>3, <1>4, <1>5, Zenon

-----------------------------------------------------------------------------
(* The callers' steps.                                                      *)

\* A step that moves no publication.
LEMMA QuietStep ==
  ASSUME IInv, QueuedPubs' = QueuedPubs, QueuedOnce',
         UNCHANGED <<stage, outcome, permits, pending, replay, publishing, ledger>>
  PROVE  /\ HeldOnce' /\ permits' = Capacity - Cardinality(Holders')
         /\ Unresolved' = Unresolved /\ StatePubs' = StatePubs
<1>1. Unresolved' = Unresolved /\ Holders' = Holders /\ StatePubs' = StatePubs
  BY DEF Unresolved, Holders, StatePubs
<1>2. HeldOnce'
  BY <1>1 DEF IInv, HeldOnce, QueuedOnce
<1> QED BY <1>1, <1>2 DEF IInv

\* The same, when the command queue does not change either.
LEMMA QueueUnchanged ==
  ASSUME IInv, UNCHANGED commands
  PROVE  QueuedPubs' = QueuedPubs /\ QueuedOnce'
  BY DEF QueuedPubs, QueuedOnce, IInv, HeldOnce

\* try_publish's reservation preserves the invariant, granted or refused.
LEMMA AdmitInv ==
  ASSUME IInv, NEW p \in Pubs, Admit(p)
  PROVE  IInv'
<1>1. Unresolved' = Unresolved /\ QueuedPubs' = QueuedPubs /\ StatePubs' = StatePubs
  BY DEF Admit, IInv, TypeOK, Unresolved, QueuedPubs, StatePubs, callerVars,
         drainVars, heldVars
<1>2. HeldOnce'
  BY <1>1 DEF Admit, IInv, HeldOnce, drainVars, heldVars
<1>3. p \notin Holders /\ Holders' = Holders \cup {p}
  BY <1>1 DEF Admit, IInv, TypeOK, Holders, Unresolved
<1>4. IsFiniteSet(Holders)
  BY PublisherAssumption, FS_Subset DEF Holders, Unresolved
<1>5. Cardinality(Holders') = Cardinality(Holders) + 1 /\ Cardinality(Holders) \in Nat
  BY <1>3, <1>4, FS_AddElement, FS_CardinalityType, Zenon
<1>6. permits' = Capacity - Cardinality(Holders') /\ permits' \in 0..Capacity
  BY <1>5, PublisherAssumption, SMTT(30) DEF Admit, IInv, TypeOK
<1>7. TypeOK'
  BY <1>6 DEF Admit, IInv, TypeOK, drainVars, connVars, heldVars, brokerVars
<1>8. ControlShape'
  BY <1>1 DEF Admit, IInv, ControlShape, ParkedOnlyWhileSuspended, TypeOK,
              drainVars, connVars, heldVars
<1>9. AckedIsStored' /\ ConfirmedIsStored'
  BY DEF Admit, IInv, AckedIsStored, ConfirmedIsStored, brokerVars
<1> QED BY <1>2, <1>6, <1>7, <1>8, <1>9 DEF IInv

\* Queueing an admitted publication preserves the invariant.
LEMMA SendPublishInv ==
  ASSUME IInv, NEW p \in Pubs, SendPublish(p)
  PROVE  IInv'
<1>1. AckedIsStored' /\ ConfirmedIsStored'
  BY DEF SendPublish, IInv, AckedIsStored, ConfirmedIsStored, brokerVars
<1>2. p \notin Unresolved /\ p \in Holders /\ outcome[p] = "none"
  BY DEF SendPublish, IInv, ControlShape, Unresolved, Holders
<1>3. QueuedOnce /\ TypeOK /\ p \notin QueuedPubs
  BY <1>2 DEF IInv, HeldOnce, QueuedOnce
<1>4. CASE /\ pc # "stopped" /\ Len(commands) < Capacity
           /\ commands' = Append(commands, PublishCmd(p))
           /\ stage' = [stage EXCEPT ![p] = "accepted"]
           /\ UNCHANGED <<reserved, permits>>
  <2>1. /\ commands' \in Seq(Command) /\ Len(commands') = Len(commands) + 1
        /\ QueuedOnce' /\ QueuedPubs' = QueuedPubs \cup {p}
    BY <1>3, <1>4, AppendCommand, CommandKinds
  <2>2. Unresolved' = Unresolved \cup {p} /\ Holders' = Holders
    BY <1>2, <1>4 DEF SendPublish, IInv, TypeOK, Unresolved, Holders
  <2>3. StatePubs' = StatePubs
    BY DEF SendPublish, StatePubs, heldVars
  <2>4. HeldOnce'
    BY <1>2, <2>1, <2>2, <2>3
       DEF SendPublish, IInv, HeldOnce, QueuedOnce, drainVars, heldVars
  <2>5. Len(commands) \in Nat
    BY DEF IInv, TypeOK
  <2>6. TypeOK'
    BY <1>4, <2>1, <2>5, PublisherAssumption, SMTT(30)
       DEF SendPublish, IInv, TypeOK, drainVars, connVars, heldVars, brokerVars
  <2>7. ControlShape'
    BY <1>4, <2>3 DEF SendPublish, IInv, ControlShape, ParkedOnlyWhileSuspended,
                      TypeOK, drainVars, connVars, heldVars
  <2> QED BY <1>1, <1>4, <2>2, <2>4, <2>6, <2>7 DEF IInv
<1>5. CASE /\ pc = "stopped" \/ Len(commands) >= Capacity
           /\ stage' = [stage EXCEPT ![p] = "idle"]
           /\ ReleaseBudget(p)
           /\ UNCHANGED commands
  <2>1. Unresolved' = Unresolved /\ Holders' = Holders \ {p}
    BY <1>2, <1>5 DEF SendPublish, IInv, TypeOK, Unresolved, Holders
  <2>2. QueuedPubs' = QueuedPubs /\ StatePubs' = StatePubs
    BY <1>5 DEF SendPublish, StatePubs, QueuedPubs, heldVars
  <2>3. HeldOnce'
    BY <1>5, <2>1, <2>2 DEF SendPublish, IInv, HeldOnce, drainVars, heldVars
  <2>4. IsFiniteSet(Holders)
    BY PublisherAssumption, FS_Subset DEF Holders, Unresolved
  <2>5. /\ Cardinality(Holders') = Cardinality(Holders) - 1
        /\ Cardinality(Holders) \in Nat /\ Cardinality(Holders') \in Nat
    BY <1>2, <2>1, <2>4, FS_RemoveElement, FS_CardinalityType
  <2>6. permits' = Capacity - Cardinality(Holders') /\ permits' \in 0..Capacity
    <3>1. permits' = permits + 1
      BY <1>5 DEF ReleaseBudget
    <3>2. permits = Capacity - Cardinality(Holders) /\ permits \in 0..Capacity
      BY DEF IInv, TypeOK
    <3> QED BY <2>5, <3>1, <3>2, PublisherAssumption
  <2>7. TypeOK'
    BY <1>5, <2>6
       DEF SendPublish, IInv, TypeOK, drainVars, connVars, heldVars, brokerVars
  <2>8. ControlShape'
    BY <1>2, <1>5, <2>2
       DEF SendPublish, IInv, ControlShape, ParkedOnlyWhileSuspended, TypeOK,
           drainVars, connVars, heldVars
  <2> QED BY <1>1, <2>3, <2>6, <2>7, <2>8 DEF IInv
<1> QED BY <1>4, <1>5 DEF SendPublish

\* connection_event and close: a command that is no publish.
LEMMA SendOtherInv ==
  ASSUME IInv, NEW c \in ConnEvents \cup {CloseCmd},
         pc # "stopped", Len(commands) < Capacity, commands' = Append(commands, c),
         chState' \in [Channels -> {"unused", "up", "lost", "refused"}],
         UNCHANGED <<stage, handles, budgetVars, pc, deferred, drainVars,
                     connVars, heldVars, sequence, retained, stored>>
  PROVE  IInv'
<1>1. QueuedOnce /\ TypeOK /\ c \in Command /\ c.type # "Publish"
  BY CommandKinds DEF IInv, HeldOnce, QueuedOnce
<1>2. /\ commands' \in Seq(Command) /\ Len(commands') = Len(commands) + 1
      /\ QueuedOnce' /\ QueuedPubs' = QueuedPubs
  BY <1>1, AppendCommand, Zenon
<1>3. /\ HeldOnce' /\ permits' = Capacity - Cardinality(Holders')
      /\ StatePubs' = StatePubs
  BY <1>2, QuietStep DEF budgetVars, drainVars, heldVars
<1>4. Len(commands) \in Nat
  BY DEF IInv, TypeOK
<1>5. TypeOK'
  BY <1>2, <1>4, PublisherAssumption, SMTT(30)
     DEF IInv, TypeOK, budgetVars, drainVars, connVars, heldVars
<1>6. ControlShape'
  BY <1>3, Zenon DEF IInv, ControlShape, ParkedOnlyWhileSuspended, budgetVars,
              drainVars, connVars, heldVars
<1>7. AckedIsStored' /\ ConfirmedIsStored'
  BY Zenon DEF IInv, AckedIsStored, ConfirmedIsStored, budgetVars
<1> QED BY <1>3, <1>5, <1>6, <1>7 DEF IInv

\* Every step of the handle's callers preserves the invariant.
LEMMA CallersInv ==
  ASSUME IInv, Callers
  PROVE  IInv'
<1>1. ASSUME NEW p \in Pubs, Admit(p) \/ SendPublish(p) PROVE IInv'
  BY <1>1, AdmitInv, SendPublishInv
<1>2. ASSUME NEW e \in ConnEvents, ConnectionEvent(e) PROVE IInv'
  <2>1. chState' \in [Channels -> {"unused", "up", "lost", "refused"}]
    BY <1>2, PublisherAssumption DEF ConnectionEvent, IInv, TypeOK
  <2> QED BY <1>2, <2>1, SendOtherInv DEF ConnectionEvent
<1>3. CASE Close
  <2>1. chState' \in [Channels -> {"unused", "up", "lost", "refused"}]
    BY <1>3 DEF Close, brokerVars, IInv, TypeOK
  <2> QED BY <1>3, <2>1, SendOtherInv DEF Close, brokerVars
<1>4. CASE DropHandles
  <2>1. QueuedPubs' = QueuedPubs /\ QueuedOnce'
    BY <1>4, QueueUnchanged DEF DropHandles
  <2>2. /\ HeldOnce' /\ permits' = Capacity - Cardinality(Holders')
        /\ StatePubs' = StatePubs
    BY <1>4, <2>1, QuietStep DEF DropHandles, budgetVars, drainVars, heldVars
  <2>3. TypeOK'
    BY <1>4, Zenon DEF DropHandles, IInv, TypeOK, budgetVars, drainVars, connVars,
                heldVars, brokerVars
  <2>4. ControlShape'
    BY <1>4, <2>2 DEF DropHandles, IInv, ControlShape, ParkedOnlyWhileSuspended,
                      budgetVars, drainVars, connVars, heldVars
  <2>5. AckedIsStored' /\ ConfirmedIsStored'
    BY <1>4 DEF DropHandles, IInv, AckedIsStored, ConfirmedIsStored, budgetVars,
                brokerVars
  <2> QED BY <2>2, <2>3, <2>4, <2>5 DEF IInv
<1> QED BY <1>1, <1>2, <1>3, <1>4 DEF Callers

-----------------------------------------------------------------------------
(* The environment's steps.                                                 *)

\* The broker, the channels and the clock preserve the invariant.
LEMMA EnvironmentInv ==
  ASSUME IInv, Environment
  PROVE  IInv'
<1> USE DEF drainVars, heldVars, budgetVars, callerVars, connVars
<1>1. UNCHANGED <<stage, handles, outcome, permits, commands, pc, deferred, pending,
                  declaring, polling, phase, generation, channel, replay,
                  publishing, ledger, sequence>>
  BY DEF Environment, WriteFrame, BrokerVerdict, ChannelDown, Lapse
<1>2. /\ HeldOnce' /\ permits' = Capacity - Cardinality(Holders')
      /\ StatePubs' = StatePubs
  BY <1>1, QueueUnchanged, QuietStep
<1>3. ControlShape'
  BY <1>1, <1>2 DEF IInv, ControlShape, ParkedOnlyWhileSuspended
<1> DEFINE Goal ==
      /\ retained' \in [Pubs -> RetainedPublish]
      /\ chState' \in [Channels -> {"unused", "up", "lost", "refused"}]
      /\ stored \subseteq stored' /\ stored' \in SUBSET Pubs
      /\ AckedIsStored'
<1>4. Goal
  <2> USE DEF brokerVars
  <2>1. ASSUME NEW r \in RetainedPublish, NEW w \in Verdicts \cup {"none", "wire"}
        PROVE  /\ [r EXCEPT !.wire = w] \in RetainedPublish
               /\ [r EXCEPT !.wire = w].wire = w
               /\ [r EXCEPT !.lapsed = TRUE] \in RetainedPublish
               /\ [r EXCEPT !.lapsed = TRUE].wire = r.wire
    BY Zenon DEF RetainedPublish
  <2>2. ASSUME NEW p \in Pubs, NEW r \in RetainedPublish,
               retained' = [retained EXCEPT ![p] = r]
        PROVE  /\ retained' \in [Pubs -> RetainedPublish] /\ retained'[p] = r
               /\ \A q \in Pubs \ {p} : retained'[q] = retained[q]
    BY <2>2 DEF IInv, TypeOK
  <2>3. ASSUME NEW p \in Pubs, WriteFrame(p) \/ Lapse(p)
        PROVE  Goal
    <3>1. PICK r \in RetainedPublish : /\ retained' = [retained EXCEPT ![p] = r]
                                       /\ r.wire \in {"wire", retained[p].wire}
      <4>1. CASE WriteFrame(p)
        <5>1. /\ [retained[p] EXCEPT !.wire = "wire"] \in RetainedPublish
              /\ [retained[p] EXCEPT !.wire = "wire"].wire = "wire"
          BY <2>1, Zenon DEF IInv, TypeOK
        <5> QED BY <5>1, <4>1, Zenon DEF WriteFrame
      <4>2. CASE Lapse(p)
        <5>1. /\ [retained[p] EXCEPT !.lapsed = TRUE] \in RetainedPublish
              /\ [retained[p] EXCEPT !.lapsed = TRUE].wire = retained[p].wire
          BY <2>1, Zenon DEF IInv, TypeOK
        <5> QED BY <5>1, <4>2, Zenon DEF Lapse
      <4> QED BY <2>3, <4>1, <4>2
    <3>2. UNCHANGED <<chState, stored>>
      BY <2>3 DEF WriteFrame, Lapse
    <3> QED BY <2>2, <3>1, <3>2 DEF AckedIsStored, IInv, TypeOK
  <2>4. ASSUME NEW p \in Pubs, NEW v \in Verdicts, BrokerVerdict(p, v)
        PROVE  Goal
    <3>1. retained[p] \in RetainedPublish /\ v \in Verdicts \cup {"none", "wire"}
      BY DEF IInv, TypeOK
    <3> DEFINE r == [retained[p] EXCEPT !.wire = v]
    <3>2. r \in RetainedPublish /\ r.wire = v
      BY <2>1, <3>1, Zenon
    <3>3. /\ retained' = [retained EXCEPT ![p] = r]
          /\ stored' = IF v = "ack" THEN stored \cup {p} ELSE stored
          /\ UNCHANGED chState
      BY <2>4 DEF BrokerVerdict
    <3> HIDE DEF r
    <3> QED BY <2>2, <3>2, <3>3, SMTT(30) DEF AckedIsStored, IInv, TypeOK
  <2>5. ASSUME NEW c \in Channels, NEW s \in Faults, ChannelDown(c, s) PROVE Goal
    BY <2>5, PublisherAssumption DEF ChannelDown, IInv, TypeOK, AckedIsStored
  <2> QED BY <2>3, <2>4, <2>5 DEF Environment
<1>5. TypeOK'
  BY <1>1, <1>4 DEF IInv, TypeOK
<1>6. ConfirmedIsStored'
  BY <1>1, <1>4 DEF IInv, ConfirmedIsStored
<1> QED BY <1>2, <1>3, <1>4, <1>5, <1>6 DEF IInv
=============================================================================
