--------------------------- MODULE Services_proofs --------------------------
(***************************************************************************)
(* Proofs about the command queue and the services round the grill, for    *)
(* every value of the constants. Each component has its invariant, and the *)
(* lemmas for its first state and its steps; a behaviour of the sum is one *)
(* of one component, so the invariant holds whenever that is the one.      *)
(***************************************************************************)
EXTENDS Services, SequenceTheorems, FiniteSetTheorems, WellFoundedInduction, TLAPS

-----------------------------------------------------------------------------
\* The least of a set of numbers
LEMMA LeastOf == ASSUME NEW S \in SUBSET Nat, S # {} PROVE \E i \in S : \A j \in S : i <= j
<1>1. PICK i \in S : \A j \in S : ~(<<j, i>> \in OpToRel(<, Nat))
  BY WFMin, NatLessThanWellFounded, Zenon
<1>2. \A j \in S : ~(j < i)
  BY <1>1, Zenon DEF OpToRel
<1> QED BY <1>2

-----------------------------------------------------------------------------
(* The command queue. The ring implements the queue of CommandFifo, for every length of it. *)

\* Where the ring brings an index back to
Round(a, n) == IF a < n THEN a ELSE a - n

\* Going round the ring: an index under twice its length comes back by subtracting it once
LEMMA Wrap ==
  ASSUME NEW n \in Nat \ {0}, NEW a \in 0..(2 * n - 1)
  PROVE  a % n = Round(a, n)
<1>1. CASE a < n
  BY <1>1, SMTT(30) DEF Round
<1>2. CASE a >= n
  BY <1>2, SMTT(30) DEF Round
<1> QED BY <1>1, <1>2

\* A slot of the ring is one of its slots
LEMMA SlotInRing ==
  ASSUME TypeOK, NEW i \in 0..QLen
  PROVE  Slot(i) \in 0..(QLen - 1)
<1>1. QLen \in Nat \ {0} /\ head \in 0..(QLen - 1) /\ head + i \in 0..(2 * QLen - 1)
  BY QLenAssumption DEF TypeOK
<1>2. (head + i) % QLen = Round(head + i, QLen)
  BY <1>1, Wrap, Zenon
<1> QED BY <1>1, <1>2 DEF Slot, Round

\* The slots of different places in the queue are different
LEMMA SlotsDiffer ==
  ASSUME TypeOK, NEW i \in 0..(QLen - 1), NEW j \in 0..(QLen - 1), i # j
  PROVE  Slot(i) # Slot(j)
<1>1. /\ QLen \in Nat \ {0} /\ head \in 0..(QLen - 1)
      /\ head + i \in 0..(2 * QLen - 1) /\ head + j \in 0..(2 * QLen - 1)
  BY QLenAssumption DEF TypeOK
<1>2. /\ Slot(i) = Round(head + i, QLen)
      /\ Slot(j) = Round(head + j, QLen)
  BY <1>1, Wrap, Zenon DEF Slot
<1> QED BY <1>1, <1>2 DEF Round

-----------------------------------------------------------------------------
(* Type correctness *)

LEMMA TypeInit == Init => TypeOK
BY QLenAssumption DEF Init, TypeOK

LEMMA PushTypes ==
  ASSUME TypeOK, NEW c \in Command, Push(c)
  PROVE  /\ q' \in [0..(QLen - 1) -> Command \cup {Nobody}] /\ len' \in 0..QLen
         /\ answer' \in {"none", "accepted", "refused"}
<1>1. CASE len < QLen
  <2>1. Slot(len) \in 0..(QLen - 1)
    BY SlotInRing DEF TypeOK
  <2> QED BY <1>1, <2>1, QLenAssumption DEF Push, TypeOK
<1>2. CASE ~(len < QLen)
  BY <1>2 DEF Push, TypeOK
<1> QED BY <1>1, <1>2

LEMMA TypeStep == TypeOK /\ [Next]_qvars => TypeOK'
<1> SUFFICES ASSUME TypeOK, [Next]_qvars PROVE TypeOK'
  OBVIOUS
<1>1. ASSUME NEW c \in Command, Ask(c) PROVE TypeOK'
  BY <1>1, PushTypes DEF Ask, TypeOK
<1>2. ASSUME PressStop PROVE TypeOK'
  BY <1>2, PushTypes, CommandAssumption DEF PressStop, TypeOK
<1>3. ASSUME Pop PROVE TypeOK'
  <2>1. head' \in 0..(QLen - 1) /\ len' \in 0..QLen
    BY <1>3, Wrap, QLenAssumption DEF Pop, TypeOK
  <2> QED BY <1>3, <2>1 DEF Pop, TakenNow, TypeOK
<1>4. CASE UNCHANGED qvars
  BY <1>4 DEF qvars, TypeOK
<1> QED BY <1>1, <1>2, <1>3, <1>4 DEF Next

\* The ring's indices and what it holds stay in range (cmdq.c:8-9)
THEOREM Types == Spec => []TypeOK
BY TypeInit, TypeStep, PTL DEF Spec

-----------------------------------------------------------------------------
(* The refinement *)

LEMMA QueuedIsSeq ==
  ASSUME TypeOK
  PROVE  Queued \in Seq(Command \cup {Nobody}) /\ Len(Queued) = len
<1>1. \A i \in 1..len : Slot(i - 1) \in 0..(QLen - 1)
  BY SlotInRing, QLenAssumption DEF TypeOK
<1>2. \A i \in 1..len : q[Slot(i - 1)] \in Command \cup {Nobody}
  BY <1>1 DEF TypeOK
<1>3. len \in Nat
  BY QLenAssumption DEF TypeOK
<1> QED BY <1>2, <1>3 DEF Queued

\* A push that finds room appends; one that does not is refused
LEMMA PushIsAccept ==
  ASSUME TypeOK, TypeOK', NEW c \in Command, Push(c), UNCHANGED <<head, taken>>
  PROVE  Fifo!Accept(c) \/ Fifo!Refuse
<1>1. CASE len < QLen
  <2>1. Queued \in Seq(Command \cup {Nobody}) /\ Len(Queued) = len
    BY QueuedIsSeq
  <2>2. /\ q' = [q EXCEPT ![Slot(len)] = c] /\ len' = len + 1 /\ head' = head
        /\ answer' = "accepted" /\ taken' = taken
    BY <1>1 DEF Push
  <2>3. len \in 0..(QLen - 1) /\ QLen \in Nat
    BY <1>1, QLenAssumption DEF TypeOK
  <2>4. \A i \in 0..QLen : Slot(i)' = Slot(i)
    BY <2>2 DEF Slot
  <2>5. q'[Slot(len)] = c
    <3>1. Slot(len) \in DOMAIN q
      BY SlotInRing, <2>3 DEF TypeOK
    <3> QED BY <2>2, <3>1
  <2>6. ASSUME NEW i \in 1..len PROVE q'[Slot(i - 1)] = q[Slot(i - 1)]
    <3>1. Slot(i - 1) # Slot(len) /\ Slot(i - 1) \in DOMAIN q
      <4>1. i - 1 \in 0..(QLen - 1) /\ i - 1 # len
        BY <2>3
      <4> QED BY <4>1, <2>3, SlotsDiffer, SlotInRing, SMTT(30) DEF TypeOK
    <3> QED BY <2>2, <3>1
  <2>7. Queued' = [i \in 1..(len + 1) |-> IF i = len + 1 THEN c ELSE Queued[i]]
    <3>1. Queued' = [i \in 1..(len + 1) |-> q'[Slot(i - 1)']]
      BY <2>2 DEF Queued
    <3>2. ASSUME NEW i \in 1..(len + 1)
          PROVE  q'[Slot(i - 1)'] = IF i = len + 1 THEN c ELSE Queued[i]
      <4>1. i - 1 \in 0..QLen
        BY <2>3
      <4>2. Slot(i - 1)' = Slot(i - 1)
        BY <4>1, <2>4
      <4>3. CASE i = len + 1
        <5>1. i - 1 = len
          BY <4>3, <2>3
        <5> QED BY <4>2, <4>3, <5>1, <2>5
      <4>4. CASE i # len + 1
        <5>1. i \in 1..len
          BY <4>4, <2>3
        <5> QED BY <4>2, <4>4, <5>1, <2>6 DEF Queued
      <4> QED BY <4>3, <4>4
    <3> QED BY <3>1, <3>2
  <2>8. Queued' = Append(Queued, c)
    <3>1. /\ Append(Queued, c) \in Seq(Command \cup {Nobody})
          /\ Len(Append(Queued, c)) = len + 1
          /\ \A i \in 1..len : Append(Queued, c)[i] = Queued[i]
          /\ Append(Queued, c)[len + 1] = c
      BY <2>1, AppendProperties
    <3>2. Queued' \in Seq(Command \cup {Nobody}) /\ Len(Queued') = len + 1
      <4>1. \A i \in 1..(len + 1) : Queued'[i] \in Command \cup {Nobody}
        BY <2>1, <2>3, <2>7
      <4> QED BY <4>1, <2>3, <2>7
    <3>3. ASSUME NEW i \in 1..(len + 1) PROVE Queued'[i] = Append(Queued, c)[i]
      BY <3>1, <2>7, <2>3
    <3> QED BY <3>1, <3>2, <3>3, SeqEqual
  <2> QED BY <2>1, <2>2, <2>8, <1>1 DEF Fifo!Accept
<1>2. CASE ~(len < QLen)
  <2>1. len = QLen /\ Len(Queued) = len
    BY <1>2, QueuedIsSeq, QLenAssumption DEF TypeOK
  <2>2. q' = q /\ len' = len /\ head' = head /\ taken' = taken /\ answer' = "refused"
    BY <1>2 DEF Push
  <2>3. Queued' = Queued
    BY <2>2 DEF Queued, Slot
  <2> QED BY <2>1, <2>2, <2>3 DEF Fifo!Refuse
<1> QED BY <1>1, <1>2

\* A pop takes the oldest
LEMMA PopIsTake ==
  ASSUME TypeOK, TypeOK', Pop
  PROVE  Fifo!Take
<1>1. Queued \in Seq(Command \cup {Nobody}) /\ Len(Queued) = len /\ len \in Nat \ {0}
  BY QueuedIsSeq, QLenAssumption DEF Pop, TypeOK
<1>2. len' = len - 1 /\ q' = q /\ answer' = answer /\ head' = (head + 1) % QLen /\ taken' = q[head]
  BY DEF Pop, TakenNow
<1>3. QLen \in Nat \ {0} /\ head \in 0..(QLen - 1) /\ len \in 1..QLen
  BY QLenAssumption DEF Pop, TypeOK
<1>4. Slot(0) = head
  <2>1. head + 0 \in 0..(2 * QLen - 1)
    BY <1>3
  <2> QED BY <2>1, <1>3, Wrap DEF Slot
<1>5. ASSUME NEW i \in 1..(len - 1) PROVE Slot(i - 1)' = Slot(i)
  <2>0. head + 1 \in 0..(2 * QLen - 1) /\ head + i \in 0..(2 * QLen - 1)
    BY <1>3
  <2>1. head' = Round(head + 1, QLen)
    <3>1. (head + 1) % QLen = Round(head + 1, QLen)
      BY <2>0, <1>3, Wrap, Zenon
    <3> QED BY <3>1, <1>2
  <2>2. Slot(i) = Round(head + i, QLen)
    BY <2>0, <1>3, Wrap, Zenon DEF Slot
  <2>3. head' + (i - 1) \in 0..(2 * QLen - 1)
    BY <2>1, <1>3 DEF Round
  <2>4. Slot(i - 1)' = Round(head' + (i - 1), QLen)
    <3>1. (head' + (i - 1)) % QLen
            = Round(head' + (i - 1), QLen)
      BY <2>3, <1>3, Wrap, Zenon
    <3>2. Slot(i - 1)' = (head' + (i - 1)) % QLen
      BY DEF Slot
    <3> QED BY <3>1, <3>2
  <2> QED BY <2>1, <2>2, <2>4, <1>3 DEF Round
<1>6. Queued' = [i \in 1..(len - 1) |-> Queued[i + 1]]
  <2>1. Queued' = [i \in 1..(len - 1) |-> q'[Slot(i - 1)']]
    BY <1>2 DEF Queued
  <2>2. ASSUME NEW i \in 1..(len - 1) PROVE q'[Slot(i - 1)'] = Queued[i + 1]
    <3>1. i + 1 \in 1..len /\ (i + 1) - 1 = i
      BY <1>3
    <3> QED BY <3>1, <1>2, <1>5 DEF Queued
  <2> QED BY <2>1, <2>2
<1>7. Queued' = Tail(Queued) /\ Queued # <<>>
  <2>1. Queued # <<>>
    BY <1>1
  <2>2. /\ Tail(Queued) \in Seq(Command \cup {Nobody}) /\ Len(Tail(Queued)) = len - 1
        /\ \A i \in 1..(len - 1) : Tail(Queued)[i] = Queued[i + 1]
    BY <1>1, <2>1, HeadTailProperties
  <2>3. Queued' \in Seq(Command \cup {Nobody}) /\ Len(Queued') = len - 1
    <3>1. \A i \in 1..(len - 1) : Queued'[i] \in Command \cup {Nobody}
      BY <1>1, <1>3, <1>6
    <3> QED BY <3>1, <1>1, <1>6
  <2>4. \A i \in 1..(len - 1) : Queued'[i] = Tail(Queued)[i]
    BY <1>6, <2>2
  <2> QED BY <2>1, <2>2, <2>3, <2>4, SeqEqual
<1>8. taken' = Head(Queued)
  <2>1. Queued[1] = q[Slot(1 - 1)]
    BY <1>3 DEF Queued
  <2>2. Queued[1] = q[head]
    BY <2>1, <1>4
  <2> QED BY <2>2, <1>1, <1>2
<1> QED BY <1>2, <1>7, <1>8 DEF Fifo!Take

LEMMA RefinesInit == Init => Fifo!Init
BY DEF Init, Fifo!Init, Queued

LEMMA RefinesStep ==
  ASSUME TypeOK, TypeOK', [Next]_qvars
  PROVE  [Fifo!Next]_(Fifo!fvars)
<1>1. ASSUME NEW c \in Command, Ask(c) PROVE Fifo!Next
  BY <1>1, PushIsAccept DEF Ask, Fifo!Next
<1>2. ASSUME PressStop PROVE Fifo!Next
  BY <1>2, PushIsAccept, CommandAssumption DEF PressStop, Fifo!Next
<1>3. ASSUME Pop PROVE Fifo!Next
  BY <1>3, PopIsTake DEF Fifo!Next
<1>4. ASSUME UNCHANGED qvars PROVE UNCHANGED Fifo!fvars
  BY <1>4 DEF qvars, Fifo!fvars, Queued, Slot
<1> QED BY <1>1, <1>2, <1>3, <1>4 DEF Next

\* The ring is a bounded first-in first-out queue, whatever its length (cmdq.c:18-42)
THEOREM RingIsFifo == Spec => ImplementsFifo
<1>1. Init => Fifo!Init
  BY RefinesInit
<1>2. TypeOK /\ TypeOK' /\ [Next]_qvars => [Fifo!Next]_(Fifo!fvars)
  BY RefinesStep
<1> QED BY <1>1, <1>2, Types, PTL DEF Spec, ImplementsFifo, Fifo!Spec

-----------------------------------------------------------------------------
(* The sum *)

(* No step of the sum changes which component the behaviour is one of. *)
LEMMA SameComponent == [SumNext]_sumVars => UNCHANGED which
  BY DEF SumNext, Others, sumVars

-----------------------------------------------------------------------------
(* The relay test. The halves kept since the relay last changed were run with the relay that   *)
(* is running, so four crossings after a change all four are.                                 *)

RelayTypeOK ==
  /\ relayId \in Nat /\ crossings \in Nat /\ changedAt \in Nat
  /\ halves \in Seq(Nat)
  /\ crossings < 4 => Len(halves) = crossings
  /\ crossings >= 4 => Len(halves) = 4

SinceChange == \A i \in 1..Len(halves) : i > Len(halves) - (crossings - changedAt) => halves[i] = relayId

RelayInv == RelayTypeOK /\ SinceChange /\ Relaying!CleanMeasure

LEMMA RelayPart == which = "autotune" /\ [SumNext]_sumVars => [Relaying!Next]_(Relaying!vars)
  BY DEF SumNext, Others, sumVars, autotuneVars, Relaying!vars, Relaying!relayVars

LEMMA RelayInit == Relaying!Init => RelayInv
  BY DEF Relaying!Init, RelayInv, RelayTypeOK, SinceChange, Relaying!CleanMeasure

LEMMA LastFourSince ==
  ASSUME NEW c \in Nat, NEW at \in Nat, c >= at + 4 PROVE \A i \in 1..4 : i > 4 - (c - at)
OBVIOUS

LEMMA OneMore ==
  ASSUME NEW c \in Nat, NEW n \in Nat, NEW m \in Nat, c < 4 => n = c, c >= 4 => n = 4,
         c + 1 < 4 => m = c + 1, c + 1 >= 4 => m = 4
  PROVE  m >= n /\ m <= n + 1
OBVIOUS

\* What is kept of the halves once another is recorded
LEMMA LastFourIs ==
  ASSUME RelayTypeOK, NEW s, s = Relaying!LastFour(Append(halves, relayId))
  PROVE  /\ s \in Seq(Nat)
         /\ crossings + 1 < 4 => Len(s) = crossings + 1
         /\ crossings + 1 >= 4 => Len(s) = 4
         /\ s[Len(s)] = relayId
         /\ \A i \in 1..(Len(s) - 1) : s[i] = halves[i + Len(halves) + 1 - Len(s)]
<1> DEFINE t == Append(halves, relayId)
<1>1. /\ t \in Seq(Nat) /\ Len(t) = Len(halves) + 1
      /\ \A i \in 1..Len(halves) : t[i] = halves[i]
      /\ t[Len(halves) + 1] = relayId
  <2>1. relayId \in Nat /\ halves \in Seq(Nat)
    BY DEF RelayTypeOK
  <2> QED
    BY <2>1, AppendProperties
<1> HIDE DEF t
<1>4. /\ crossings \in Nat /\ Len(halves) \in Nat
      /\ crossings < 4 => Len(halves) = crossings
      /\ crossings >= 4 => Len(halves) = 4
  BY DEF RelayTypeOK
<1>5. Len(t) = Len(halves) + 1
  BY <1>1
<1>2. CASE Len(t) > 4
  <2>1. s = Tail(t)
    BY <1>2 DEF Relaying!LastFour, t
  <2>2. /\ s \in Seq(Nat) /\ Len(s) = Len(t) - 1
        /\ \A i \in 1..Len(s) : s[i] = t[i + 1]
    BY <1>1, <1>2, <2>1
  <2>3. /\ Len(halves) = 4 /\ crossings \in Nat /\ crossings >= 4
        /\ Len(t) = 5
    <3>1. Len(halves) > 3
      BY <1>2, <1>4, <1>5
    <3>2. ~(crossings < 4)
      BY <1>4, <3>1
    <3>3. crossings >= 4
      BY <1>4, <3>2
    <3>4. Len(halves) = 4
      BY <1>4, <3>3
    <3> QED
      BY <1>4, <1>5, <3>3, <3>4
  <2>6. Len(s) = 4
    BY <2>2, <2>3
  <2>4. s[4] = relayId
    BY <1>1, <2>2, <2>3, <2>6
  <2>5. \A i \in 1..3 : s[i] = halves[i + 1]
    BY <1>1, <2>2, <2>3, <2>6
  <2> QED
    BY <2>2, <2>3, <2>4, <2>5, <2>6
<1>3. CASE ~(Len(t) > 4)
  <2>1. s = t
    BY <1>3 DEF Relaying!LastFour, t
  <2>2. /\ Len(halves) \in Nat /\ crossings \in Nat /\ Len(s) = Len(halves) + 1
        /\ crossings < 4 => Len(halves) = crossings
        /\ crossings >= 4 => Len(halves) = 4
        /\ Len(halves) < 4
    BY <1>1, <1>3, <2>1 DEF RelayTypeOK
  <2>3. \A i \in 1..(Len(s) - 1) : i \in 1..Len(halves) /\ i + Len(halves) + 1 - Len(s) = i
    BY <2>2
  <2>4. \A i \in 1..(Len(s) - 1) : s[i] = halves[i + Len(halves) + 1 - Len(s)]
    BY <1>1, <2>1, <2>3
  <2>5. s \in Seq(Nat) /\ s[Len(s)] = relayId
    BY <1>1, <2>1
  <2>6. /\ crossings + 1 < 4 => Len(s) = crossings + 1
        /\ crossings + 1 >= 4 => Len(s) = 4
    BY <2>2
  <2> QED
    BY <2>4, <2>5, <2>6
<1> QED
  BY <1>2, <1>3

LEMMA CrossInv == ASSUME RelayInv, Relaying!Cross PROVE RelayInv'
<1>1. /\ crossings' = crossings + 1
      /\ halves' = Relaying!LastFour(Append(halves, relayId))
      /\ \/ relayId' = relayId + 1 /\ changedAt' = crossings'
         \/ relayId' = relayId /\ changedAt' = changedAt
  BY DEF Relaying!Cross, Relaying!Condition, Relaying!Changed
<1> HIDE DEF Relaying!Ready, Relaying!Finish
<1>6. filed' = filed \/ (Relaying!Ready /\ Relaying!Finish)
  BY DEF Relaying!Cross
<1>7. /\ halves' \in Seq(Nat)
      /\ crossings + 1 < 4 => Len(halves') = crossings + 1
      /\ crossings + 1 >= 4 => Len(halves') = 4
      /\ halves'[Len(halves')] = relayId
      /\ \A i \in 1..(Len(halves') - 1) : halves'[i] = halves[i + Len(halves) + 1 - Len(halves')]
  BY <1>1, LastFourIs DEF RelayInv
<1>2. RelayTypeOK'
  BY <1>1, <1>7 DEF RelayInv, RelayTypeOK
<1>3. SinceChange'
  <2>1. /\ Len(halves) \in Nat /\ Len(halves') \in Nat /\ crossings \in Nat /\ changedAt \in Nat
        /\ Len(halves') >= Len(halves) /\ Len(halves') <= Len(halves) + 1
    <3>1. Len(halves) \in Nat /\ Len(halves') \in Nat
      BY <1>7 DEF RelayInv, RelayTypeOK
    <3>2. /\ crossings \in Nat /\ changedAt \in Nat
          /\ crossings < 4 => Len(halves) = crossings
          /\ crossings >= 4 => Len(halves) = 4
      BY DEF RelayInv, RelayTypeOK
    <3>3. Len(halves') >= Len(halves) /\ Len(halves') <= Len(halves) + 1
      BY <1>7, <3>1, <3>2, OneMore, Zenon
    <3> QED
      BY <3>1, <3>2, <3>3
  <2> SUFFICES ASSUME NEW i \in 1..Len(halves'), i > Len(halves') - (crossings' - changedAt')
               PROVE  halves'[i] = relayId'
    BY DEF SinceChange
  <2>2. relayId' = relayId /\ changedAt' = changedAt
    BY <1>1, <2>1
  <2>3. CASE i = Len(halves')
    BY <1>7, <2>2, <2>3
  <2>4. CASE i # Len(halves')
    <3> DEFINE j == i + Len(halves) + 1 - Len(halves')
    <3>1. /\ i \in 1..(Len(halves') - 1)
          /\ j \in 1..Len(halves) /\ j > Len(halves) - (crossings - changedAt)
      BY <1>1, <2>1, <2>2, <2>4
    <3> HIDE DEF j
    <3>2. halves[j] = relayId
      BY <3>1 DEF RelayInv, SinceChange
    <3> QED
      BY <1>7, <2>2, <3>1, <3>2 DEF j
  <2> QED
    BY <2>3, <2>4
<1>4. ASSUME filed' # filed PROVE filed' = filed \cup {{relayId'}}
  <2>1. Relaying!MaySettle(crossings') /\ filed' = filed \cup {Relaying!Read} /\ Relaying!Ready
    BY <1>4, <1>6 DEF Relaying!Finish
  <2>6. crossings' >= 5 /\ crossings' >= changedAt' + 4
    BY <2>1 DEF Relaying!Ready, Relaying!MaySettle
  <2>2. Len(halves') = 4
    BY <1>2, <2>6 DEF RelayTypeOK
  <2>3. \A i \in 1..4 : halves'[i] = relayId'
    <3>2. crossings' \in Nat /\ changedAt' \in Nat
      BY <1>2 DEF RelayTypeOK
    <3>1. \A i \in 1..4 : i > 4 - (crossings' - changedAt')
      BY <2>6, <3>2, LastFourSince, Zenon
    <3> QED
      BY <1>3, <2>2, <3>1 DEF SinceChange
  <2>4. \A i \in 2..4 : Relaying!Cycle(i) = {relayId'}
    BY <2>3 DEF Relaying!Cycle
  <2>5. Relaying!Read = {relayId'}
    BY <2>2, <2>4 DEF Relaying!Read
  <2> QED
    BY <2>1, <2>5
<1>5. Relaying!CleanMeasure'
  <2>1. \A r \in filed : \E id \in r : r = {id}
    BY DEF RelayInv, Relaying!CleanMeasure
  <2>2. \A r \in filed' : r \in filed \/ r = {relayId'}
    BY <1>4
  <2> QED
    BY <2>1, <2>2 DEF Relaying!CleanMeasure
<1> QED
  BY <1>2, <1>3, <1>5 DEF RelayInv

LEMMA RelayStep == RelayInv /\ [Relaying!Next]_(Relaying!vars) => RelayInv'
<1> SUFFICES ASSUME RelayInv, [Relaying!Next]_(Relaying!vars) PROVE RelayInv'
  OBVIOUS
<1>1. CASE Relaying!Start
  <2>1. filed' = filed
    BY <1>1 DEF Relaying!Start
  <2>2. CASE relayId' \in {0, 1} /\ Relaying!Fresh
    BY <2>1, <2>2 DEF Relaying!Fresh, RelayInv, RelayTypeOK, SinceChange, Relaying!CleanMeasure
  <2>3. CASE UNCHANGED Relaying!relayVars
    BY <2>1, <2>3 DEF Relaying!relayVars, RelayInv, RelayTypeOK, SinceChange, Relaying!CleanMeasure
  <2> QED
    BY <1>1, <2>2, <2>3 DEF Relaying!Start
<1>2. CASE Relaying!Recentre
  BY <1>2 DEF Relaying!Recentre, RelayInv, RelayTypeOK, SinceChange, Relaying!CleanMeasure
<1>3. ASSUME UNCHANGED <<relayId, halves, crossings, changedAt, filed>> PROVE RelayInv'
  BY <1>3 DEF RelayInv, RelayTypeOK, SinceChange, Relaying!CleanMeasure
<1>4. CASE Relaying!GiveUp \/ Relaying!Sample \/ Relaying!Observe \/ Relaying!Ends \/ Relaying!Lid
           \/ UNCHANGED Relaying!vars
  BY <1>3, <1>4 DEF Relaying!GiveUp, Relaying!Sample, Relaying!Observe, Relaying!Ends, Relaying!Lid,
    Relaying!Fails, Relaying!vars, Relaying!relayVars
<1> QED
  BY <1>1, <1>2, <1>4, CrossInv DEF Relaying!Next

(* A result of the relay test is read from halves that were all run with one relay, however    *)
(* often the swing was resized, the centre moved or the count started over before them, for    *)
(* any bounds on those (autotune_step, autotune_finish).                                      *)
THEOREM MeasureIsClean == SumSpec => []CleanMeasure
<1> DEFINE Inv == which = "autotune" => RelayInv
<1>1. SumInit => Inv
  BY RelayInit DEF SumInit
<1>2. Inv /\ [SumNext]_sumVars => Inv'
  BY RelayStep, RelayPart, SameComponent
<1>3. Inv => CleanMeasure
  BY DEF RelayInv, CleanMeasure
<1> QED
  BY <1>1, <1>2, <1>3, PTL DEF SumSpec

-----------------------------------------------------------------------------
(* Push. Whoever is still to be sent an event has accepted it only with the answer lost: not   *)
(* at all while it is queued or tried for the first time, at most once while it is tried again. *)

ServiceNames == {"pushover", "ntfy", "webpush"}
PushItems == [service : ServiceNames, event : 1..MaxEvents]
PushJobs == [at : {"wait", "deliver", "pause", "post"}, item : PushItems \cup {<<>>}, try : {0, 1, 2},
             left : SUBSET ((1..MaxSubs) \X Phones), sent : Nat]

\* who takes the events of a service, and that they took this one at most n times, unknown to us
Owners(service) == IF service = "webpush" THEN Phones ELSE {service}
Lost(h, n) == Len(h) <= n /\ \A i \in 1..Len(h) : h[i] = "lost"
Open(item, n) == \A r \in Owners(item.service) : Lost(heard[r][item.event], n)
Unheard(item) == Open(item, 0)

Hearings == [Pushing!Receivers -> [1..MaxEvents -> Seq({"known", "lost"})]]

PushTypeOK ==
  /\ subs \in [1..MaxSubs -> Phones \cup {"free"}]
  /\ queue \in Seq(PushItems) /\ job \in PushJobs
  /\ heard \in Hearings /\ events \in Nat

OneSlotEach == \A i, j \in 1..MaxSubs : i # j /\ subs[i] # "free" => subs[i] # subs[j]

QueuedOnce == \A i, j \in 1..Len(queue) : i # j => queue[i] # queue[j]

QueuedUnheard == \A i \in 1..Len(queue) : queue[i].event <= events /\ Unheard(queue[i])

PostUnheard == job.at = "post" =>
  /\ job.item.service = "webpush" /\ job.try \in {1, 2}
  /\ \A a, b \in job.left : a # b => a[2] # b[2]
  /\ \A a \in job.left : Lost(heard[a[2]][job.item.event], job.try - 1)
  /\ job.sent = 0 => Open(job.item, job.try)

JobUnheard == job.at # "wait" =>
  /\ job.item \in PushItems /\ job.item.event <= events
  /\ \A i \in 1..Len(queue) : queue[i] # job.item
  /\ job.at = "deliver" => job.try \in {1, 2} /\ Open(job.item, job.try - 1)
  /\ job.at = "pause" => Open(job.item, 1)
  /\ PostUnheard

NoneAhead == \A r \in Pushing!Receivers, e \in 1..MaxEvents : e > events => Lost(heard[r][e], 0)

PushInv == PushTypeOK /\ OneSlotEach /\ QueuedOnce /\ QueuedUnheard /\ JobUnheard /\ NoneAhead
           /\ Pushing!TwiceOnlyIfLost

LEMMA PushPart == which = "push" /\ [SumNext]_sumVars => [Pushing!Next]_(Pushing!pvars)
  BY DEF SumNext, Others, sumVars, pushVars, Pushing!pvars

LEMMA WaitingIs == Pushing!Waiting \in PushJobs /\ Pushing!Waiting.at = "wait"
  BY DEF Pushing!Waiting, PushJobs

LEMMA ItemIs == \A x \in PushItems : x.service \in ServiceNames /\ x.event \in 1..MaxEvents
  BY DEF PushItems

LEMMA JobIs ==
  ASSUME NEW j \in PushJobs
  PROVE  /\ j.at \in {"wait", "deliver", "pause", "post"} /\ j.item \in PushItems \cup {<<>>}
         /\ j.left \in SUBSET ((1..MaxSubs) \X Phones) /\ j.sent \in Nat
  BY DEF PushJobs

LEMMA OwnersReceive == \A s \in ServiceNames : Owners(s) \subseteq Pushing!Receivers
  BY DEF Owners, ServiceNames, Pushing!Receivers

LEMMA OneOwner == \A s, t \in ServiceNames : \A r : r \in Owners(s) /\ r \in Owners(t) => s = t
  BY PushAssumption DEF Owners, ServiceNames

\* The answer to one more acceptance: the last of them may be anything
LEMMA OneAnswerMore ==
  ASSUME NEW h \in Seq({"known", "lost"}), NEW n \in {0, 1}, Lost(h, n), NEW x \in {"known", "lost"}
  PROVE  /\ Append(h, x) \in Seq({"known", "lost"}) /\ Len(Append(h, x)) <= 2
         /\ \A i \in 1..Len(Append(h, x)) : i < Len(Append(h, x)) => Append(h, x)[i] = "lost"
         /\ x = "lost" => Lost(Append(h, x), n + 1)
<1> DEFINE t == Append(h, x)
<1>1. /\ t \in Seq({"known", "lost"}) /\ Len(t) = Len(h) + 1 /\ Len(h) \in Nat
      /\ \A i \in 1..Len(h) : t[i] = h[i]
      /\ t[Len(h) + 1] = x
  BY AppendProperties
<1> HIDE DEF t
<1>2. Len(h) <= n /\ \A i \in 1..Len(h) : h[i] = "lost"
  BY DEF Lost
<1>3. Len(t) <= n + 1 /\ Len(t) <= 2
  BY <1>1, <1>2
<1>4. \A i \in 1..Len(t) : i < Len(t) => t[i] = "lost"
  BY <1>1, <1>2
<1>5. x = "lost" => \A i \in 1..Len(t) : t[i] = "lost"
  BY <1>1, <1>2
<1> QED
  BY <1>1, <1>3, <1>4, <1>5 DEF Lost, t

LEMMA LostMore == ASSUME NEW h, Len(h) \in Nat, NEW n \in Nat, Lost(h, n) PROVE Lost(h, n + 1)
  BY DEF Lost

LEMMA HeardLen == \A f \in Hearings : \A r \in Pushing!Receivers, e \in 1..MaxEvents :
    f[r][e] \in Seq({"known", "lost"}) /\ Len(f[r][e]) \in Nat
<1>1. \A f \in Hearings : \A r \in Pushing!Receivers, e \in 1..MaxEvents : f[r][e] \in Seq({"known", "lost"})
  BY DEF Hearings
<1>2. \A h \in Seq({"known", "lost"}) : Len(h) \in Nat
  BY LenProperties
<1> QED
  BY <1>1, <1>2

LEMMA OpenMore ==
  ASSUME heard \in Hearings, NEW item \in PushItems, NEW n \in Nat, Open(item, n) PROVE Open(item, n + 1)
  BY LostMore, HeardLen, ItemIs, OwnersReceive DEF Open

LEMMA PushInit == Pushing!Init => PushInv
<1> SUFFICES ASSUME Pushing!Init PROVE PushInv
  OBVIOUS
<1>1. /\ subs = [i \in 1..MaxSubs |-> "free"] /\ queue = <<>> /\ events = 0
      /\ job = Pushing!Waiting
      /\ heard = [r \in Pushing!Receivers |-> [e \in 1..MaxEvents |-> <<>>]]
  BY DEF Pushing!Init, Pushing!Free
<1>2. PushTypeOK
  BY <1>1, WaitingIs DEF PushTypeOK, Hearings
<1>3. OneSlotEach /\ QueuedOnce /\ QueuedUnheard
  BY <1>1 DEF OneSlotEach, QueuedOnce, QueuedUnheard
<1>4. JobUnheard
  BY <1>1, WaitingIs DEF JobUnheard
<1>5. NoneAhead /\ Pushing!TwiceOnlyIfLost
  BY <1>1 DEF NoneAhead, Lost, Pushing!TwiceOnlyIfLost
<1> QED
  BY <1>2, <1>3, <1>4, <1>5 DEF PushInv

\* Nothing that is said of the events depends on more than these
LEMMA SameEvents ==
  ASSUME PushInv, UNCHANGED <<queue, job, heard, events>>, OneSlotEach',
         subs' \in [1..MaxSubs -> Phones \cup {"free"}]
  PROVE  PushInv'
<1>1. PushTypeOK' /\ QueuedOnce' /\ NoneAhead' /\ Pushing!TwiceOnlyIfLost'
  BY DEF PushInv, PushTypeOK, QueuedOnce, NoneAhead, Pushing!TwiceOnlyIfLost
<1>2. QueuedUnheard'
  BY DEF PushInv, QueuedUnheard, Unheard, Open
<1>3. JobUnheard'
  BY DEF PushInv, JobUnheard, PostUnheard, Open
<1> QED
  BY <1>1, <1>2, <1>3 DEF PushInv

LEMMA SubscribeInv == ASSUME PushInv, NEW p \in Phones, Pushing!Subscribe(p) PROVE PushInv'
<1>1. UNCHANGED <<queue, job, heard, events>>
  BY DEF Pushing!Subscribe
<1>2. subs \in [1..MaxSubs -> Phones \cup {"free"}] /\ OneSlotEach
  BY DEF PushInv, PushTypeOK
<1>3. CASE UNCHANGED subs
  BY <1>1, <1>2, <1>3, SameEvents DEF OneSlotEach
<1>4. ASSUME \A i \in Pushing!Subscribed : subs[i] # p, subs' = [subs EXCEPT ![Pushing!FirstFree] = p]
      PROVE  PushInv'
  <2>1. \A i \in 1..MaxSubs : subs[i] # p
    BY <1>4, PushAssumption DEF Pushing!Subscribed, Pushing!Free
  <2>2. subs' \in [1..MaxSubs -> Phones \cup {"free"}]
    BY <1>2, <1>4
  <2>3. \A i \in 1..MaxSubs : subs'[i] = subs[i] \/ (i = Pushing!FirstFree /\ subs'[i] = p)
    BY <1>2, <1>4
  <2>4. OneSlotEach'
    BY <1>2, <2>1, <2>3 DEF OneSlotEach
  <2> QED
    BY <1>1, <2>2, <2>4, SameEvents
<1> QED
  BY <1>3, <1>4 DEF Pushing!Subscribe

LEMMA WithoutIs ==
  ASSUME PushInv, NEW p, subs' = Pushing!Without(p)
  PROVE  subs' \in [1..MaxSubs -> Phones \cup {"free"}] /\ OneSlotEach'
BY DEF PushInv, PushTypeOK, OneSlotEach, Pushing!Without, Pushing!Free

LEMMA UnsubscribeInv == ASSUME PushInv, NEW p, Pushing!Unsubscribe(p) PROVE PushInv'
BY WithoutIs, SameEvents DEF Pushing!Unsubscribe

LEMMA EditInv == ASSUME PushInv, Pushing!Edit PROVE PushInv'
<1>1. UNCHANGED <<subs, queue, job, heard, events>>
  BY DEF Pushing!Edit
<1> QED
  BY <1>1, SameEvents DEF PushInv, PushTypeOK, OneSlotEach

LEMMA PushRestartInv == ASSUME PushInv, Pushing!Restart PROVE PushInv'
<1>1. /\ queue' = <<>> /\ job' = Pushing!Waiting /\ UNCHANGED <<heard, events>>
      /\ subs' \in [1..MaxSubs -> Phones \cup {"free"}]
      /\ \A i, j \in 1..MaxSubs : i < j /\ subs'[i] = subs'[j] => subs'[i] = "free"
  BY DEF Pushing!Restart, Pushing!Free
<1>2. OneSlotEach'
  <2> SUFFICES ASSUME NEW i \in 1..MaxSubs, NEW j \in 1..MaxSubs, i # j, subs'[i] = subs'[j]
               PROVE  subs'[i] = "free"
    BY DEF OneSlotEach
  <2>1. i < j \/ j < i
    BY PushAssumption
  <2> QED
    BY <1>1, <2>1
<1>3. PushTypeOK'
  BY <1>1, WaitingIs DEF PushInv, PushTypeOK
<1>4. QueuedOnce' /\ QueuedUnheard' /\ JobUnheard'
  BY <1>1, WaitingIs DEF QueuedOnce, QueuedUnheard, JobUnheard
<1>5. NoneAhead' /\ Pushing!TwiceOnlyIfLost'
  BY <1>1 DEF PushInv, NoneAhead, Pushing!TwiceOnlyIfLost
<1> QED
  BY <1>2, <1>3, <1>4, <1>5 DEF PushInv

-----------------------------------------------------------------------------
\* What a queue may become while the next event is put in it for some of the services
Comes(x, names) ==
  \/ \E j \in 1..Len(queue) : x = queue[j]
  \/ x.event = events + 1 /\ x.service \in names

Extends(w, names) ==
  /\ w \in Seq(PushItems)
  /\ \A i, j \in 1..Len(w) : i # j => w[i] # w[j]
  /\ \A i \in 1..Len(w) : Comes(w[i], names)

LEMMA EnqueueExtends ==
  ASSUME PushInv, events + 1 \in 1..MaxEvents, NEW names, NEW w, Extends(w, names),
         NEW s \in ServiceNames, s \notin names
  PROVE  Extends(Pushing!Enqueue(w, s), names \cup {s})
<1> DEFINE x == [service |-> s, event |-> events + 1]
<1>1. x \in PushItems /\ x.service = s /\ x.event = events + 1
  BY DEF PushItems
<1>2. \A j \in 1..Len(queue) : queue[j].event # events + 1
  BY DEF PushInv, PushTypeOK, QueuedUnheard
<1> HIDE DEF x
<1>3. \A i \in 1..Len(w) : w[i] # x
  BY <1>1, <1>2 DEF Extends, Comes
<1>4. w \in Seq(PushItems)
  BY DEF Extends, Comes
<1>5. CASE Pushing!Enqueue(w, s) = w
  BY <1>5 DEF Extends, Comes
<1>6. CASE Pushing!Enqueue(w, s) = Append(w, x)
  <2> DEFINE t == Append(w, x)
  <2>1. /\ t \in Seq(PushItems) /\ Len(t) = Len(w) + 1 /\ Len(w) \in Nat
        /\ \A i \in 1..Len(w) : t[i] = w[i]
        /\ t[Len(w) + 1] = x
    BY <1>1, <1>4, AppendProperties
  <2> HIDE DEF t
  <2>2. \A i \in 1..Len(t) : i \in 1..Len(w) \/ i = Len(w) + 1
    BY <2>1
  <2>3. \A i, j \in 1..Len(t) : i # j => t[i] # t[j]
    BY <1>3, <2>1, <2>2 DEF Extends, Comes
  <2>4. \A i \in 1..Len(w) : Comes(w[i], names \cup {s})
    BY DEF Extends, Comes
  <2>5. Comes(x, names \cup {s})
    BY <1>1 DEF Comes
  <2>6. \A i \in 1..Len(t) : Comes(t[i], names \cup {s})
    BY <2>1, <2>2, <2>4, <2>5
  <2> QED
    BY <1>6, <2>1, <2>3, <2>6 DEF Extends, Comes, t
<1> QED
  BY <1>5, <1>6 DEF Pushing!Enqueue, x

LEMMA RaiseExtends ==
  ASSUME PushInv, NEW c, Pushing!Raise(c)
  PROVE  /\ Extends(queue', ServiceNames) /\ events' = events + 1 /\ events + 1 \in 1..MaxEvents
         /\ UNCHANGED <<subs, job, heard>>
<1> DEFINE Add(w, i) == IF Pushing!Wanted(Pushing!Services[i], c)
                        THEN Pushing!Enqueue(w, Pushing!Services[i]) ELSE w
<1>1. /\ queue' = Add(Add(Add(queue, 1), 2), 3) /\ events' = events + 1 /\ events < MaxEvents
      /\ UNCHANGED <<subs, job, heard>>
  BY DEF Pushing!Raise
<1>2. events + 1 \in 1..MaxEvents
  BY <1>1, PushAssumption DEF PushInv, PushTypeOK
<1>3. Pushing!Services[1] = "pushover" /\ Pushing!Services[2] = "ntfy" /\ Pushing!Services[3] = "webpush"
  BY DEF Pushing!Services
<1>4. Extends(queue, {})
  BY DEF Extends, Comes, PushInv, PushTypeOK, QueuedOnce
<1>5. ASSUME NEW w, NEW names, NEW more, names \subseteq more, Extends(w, names) PROVE Extends(w, more)
  BY <1>5 DEF Extends, Comes
<1>6. Extends(Add(queue, 1), {"pushover"})
  <2>1. Extends(Pushing!Enqueue(queue, "pushover"), {} \cup {"pushover"})
    BY <1>2, <1>4, EnqueueExtends DEF ServiceNames
  <2>2. Extends(queue, {"pushover"})
    BY <1>4, <1>5
  <2>3. {} \cup {"pushover"} = {"pushover"}
    OBVIOUS
  <2> QED
    BY <1>3, <2>1, <2>2, <2>3
<1> DEFINE q1 == Add(queue, 1)
           q2 == Add(q1, 2)
           q3 == Add(q2, 3)
<1>7. Extends(q2, {"pushover", "ntfy"})
  <2> HIDE DEF q1
  <2>1. Extends(Pushing!Enqueue(q1, "ntfy"), {"pushover"} \cup {"ntfy"})
    BY <1>2, <1>6, EnqueueExtends DEF ServiceNames, q1
  <2>2. Extends(q1, {"pushover", "ntfy"})
    BY <1>5, <1>6 DEF q1
  <2>3. {"pushover"} \cup {"ntfy"} = {"pushover", "ntfy"}
    OBVIOUS
  <2> QED
    BY <1>3, <2>1, <2>2, <2>3
<1>8. Extends(q3, {"pushover", "ntfy", "webpush"})
  <2> HIDE DEF q2
  <2>1. Extends(Pushing!Enqueue(q2, "webpush"), {"pushover", "ntfy"} \cup {"webpush"})
    BY <1>2, <1>7, EnqueueExtends DEF ServiceNames, q2
  <2>2. Extends(q2, {"pushover", "ntfy", "webpush"})
    BY <1>5, <1>7 DEF q2
  <2>3. {"pushover", "ntfy"} \cup {"webpush"} = {"pushover", "ntfy", "webpush"}
    OBVIOUS
  <2> QED
    BY <1>3, <2>1, <2>2, <2>3
<1> QED
  BY <1>1, <1>2, <1>8 DEF ServiceNames

LEMMA RaiseInv == ASSUME PushInv, NEW c, Pushing!Raise(c) PROVE PushInv'
<1>1. /\ Extends(queue', ServiceNames) /\ events' = events + 1 /\ events + 1 \in 1..MaxEvents
      /\ UNCHANGED <<subs, job, heard>>
  BY RaiseExtends
<1>2. events \in Nat
  BY DEF PushInv, PushTypeOK
<1>3. PushTypeOK' /\ OneSlotEach' /\ QueuedOnce' /\ Pushing!TwiceOnlyIfLost'
  BY <1>1, <1>2 DEF PushInv, PushTypeOK, OneSlotEach, QueuedOnce, Extends, Comes, Pushing!TwiceOnlyIfLost
<1>4. NoneAhead'
  BY <1>1, <1>2 DEF PushInv, NoneAhead
<1>5. ASSUME NEW x \in PushItems, x.event = events + 1 PROVE Unheard(x)
  BY <1>1, <1>2, <1>5, ItemIs, OwnersReceive DEF Unheard, Open, PushInv, NoneAhead
<1>6. QueuedUnheard'
  <2> SUFFICES ASSUME NEW i \in 1..Len(queue') PROVE queue'[i].event <= events' /\ Unheard(queue'[i])
    BY <1>1 DEF QueuedUnheard, Unheard, Open
  <2>1. queue'[i] \in PushItems
    BY <1>1, ElementOfSeq DEF Extends, Comes
  <2>2. CASE \E j \in 1..Len(queue) : queue'[i] = queue[j]
    <3>1. queue'[i].event <= events /\ Unheard(queue'[i])
      BY <2>2 DEF PushInv, QueuedUnheard
    <3> QED
      BY <1>1, <1>2, <2>1, <3>1, ItemIs
  <2>3. CASE queue'[i].event = events + 1
    BY <1>1, <1>2, <1>5, <2>1, <2>3
  <2> QED
    BY <1>1, <2>2, <2>3 DEF Extends, Comes
<1>7. JobUnheard'
  <2> SUFFICES ASSUME job.at # "wait" PROVE JobUnheard'
    BY <1>1 DEF JobUnheard
  <2>1. /\ job.item \in PushItems /\ job.item.event <= events
        /\ \A i \in 1..Len(queue) : queue[i] # job.item
        /\ job.at = "deliver" => job.try \in {1, 2} /\ Open(job.item, job.try - 1)
        /\ job.at = "pause" => Open(job.item, 1)
        /\ PostUnheard
    BY DEF PushInv, JobUnheard
  <2>2. job.item.event <= events' /\ job.item.event # events + 1
    BY <1>1, <1>2, <2>1, ItemIs
  <2>3. \A i \in 1..Len(queue') : queue'[i] # job.item
    BY <1>1, <2>1, <2>2 DEF Extends, Comes
  <2> QED
    BY <1>1, <2>1, <2>2, <2>3 DEF JobUnheard, PostUnheard, Open
<1> QED
  BY <1>3, <1>4, <1>6, <1>7 DEF PushInv

LEMMA TakeInv == ASSUME PushInv, Pushing!Take PROVE PushInv'
<1> DEFINE x == Head(queue)
<1>1. /\ queue # <<>> /\ queue' = Tail(queue) /\ job.at = "wait"
      /\ job' = [Pushing!Waiting EXCEPT !.at = "deliver", !.item = x, !.try = 1]
      /\ UNCHANGED <<subs, heard, events>>
  BY DEF Pushing!Take
<1>2. queue \in Seq(PushItems)
  BY DEF PushInv, PushTypeOK
<1>3. /\ Len(queue) \in Nat \ {0} /\ x = queue[1] /\ x \in PushItems
      /\ queue' \in Seq(PushItems) /\ Len(queue') = Len(queue) - 1
      /\ \A i \in 1..Len(queue') : queue'[i] = queue[i + 1]
  BY <1>1, <1>2, HeadTailProperties, EmptySeq
<1> HIDE DEF x
<1>4. \A i \in 1..Len(queue') : i + 1 \in 1..Len(queue)
  BY <1>3
<1>5. job' \in PushJobs /\ job'.at = "deliver" /\ job'.item = x /\ job'.try = 1
  BY <1>1, <1>3 DEF Pushing!Waiting, PushJobs
<1>6. PushTypeOK' /\ OneSlotEach' /\ NoneAhead' /\ Pushing!TwiceOnlyIfLost'
  BY <1>1, <1>3, <1>5 DEF PushInv, PushTypeOK, OneSlotEach, NoneAhead, Pushing!TwiceOnlyIfLost
<1>7. QueuedOnce'
  BY <1>3, <1>4 DEF PushInv, QueuedOnce
<1>8. QueuedUnheard'
  BY <1>1, <1>3, <1>4 DEF PushInv, QueuedUnheard, Unheard, Open
<1>9. JobUnheard'
  <2>1. x.event <= events /\ Unheard(x)
    BY <1>3 DEF PushInv, QueuedUnheard
  <2>2. \A i \in 1..Len(queue') : queue'[i] # x
    BY <1>3, <1>4 DEF PushInv, QueuedOnce
  <2> QED
    BY <1>1, <1>3, <1>5, <2>1, <2>2 DEF JobUnheard, PostUnheard, Unheard, Open
<1> QED
  BY <1>6, <1>7, <1>8, <1>9 DEF PushInv

\* A step of the worker, when what was heard agrees with what is queued
HeardOK == heard \in Hearings /\ QueuedUnheard /\ NoneAhead /\ Pushing!TwiceOnlyIfLost

LEMMA WorkerInv ==
  ASSUME PushInv, UNCHANGED <<subs, queue, events>>, job' \in PushJobs, JobUnheard', HeardOK'
  PROVE  PushInv'
BY DEF PushInv, PushTypeOK, OneSlotEach, QueuedOnce, HeardOK

LEMMA SilentIs == ASSUME PushInv, UNCHANGED <<queue, heard, events>> PROVE HeardOK /\ HeardOK'
BY DEF PushInv, PushTypeOK, HeardOK, QueuedUnheard, Unheard, Open, NoneAhead, Pushing!TwiceOnlyIfLost

\* one that nobody hears
LEMMA QuietJob ==
  ASSUME PushInv, UNCHANGED <<subs, queue, heard, events>>, job' \in PushJobs, JobUnheard'
  PROVE  PushInv'
BY SilentIs, WorkerInv

LEMMA PauseIs ==
  ASSUME PushInv, job.at \in {"deliver", "pause", "post"}, job' = [job EXCEPT !.at = "pause"]
  PROVE  job' \in PushJobs /\ job'.at = "pause" /\ job'.item = job.item
BY DEF PushInv, PushTypeOK, PushJobs

\* Giving up, or trying once more, when nobody is known to have taken it
LEMMA FailedInv ==
  ASSUME PushInv, UNCHANGED <<subs, queue, events>>, Pushing!Failed, job.at # "wait", HeardOK',
         \A r \in Owners(job.item.service) : Lost(heard'[r][job.item.event], job.try)
  PROVE  PushInv'
<1>1. CASE job' = Pushing!Waiting
  BY <1>1, WaitingIs, WorkerInv DEF JobUnheard
<1>2. CASE job.try = 1 /\ job' = [job EXCEPT !.at = "pause"]
  <2>1. job.at \in {"deliver", "pause", "post"}
    BY JobIs DEF PushInv, PushTypeOK
  <2>2. job' \in PushJobs /\ job'.at = "pause" /\ job'.item = job.item
    BY <1>2, <2>1, PauseIs
  <2>3. JobUnheard'
    BY <1>2, <2>2 DEF PushInv, JobUnheard, PostUnheard, Open
  <2> QED
    BY <2>2, <2>3, WorkerInv
<1> QED
  BY <1>1, <1>2 DEF Pushing!Failed

LEMMA RetryInv == ASSUME PushInv, Pushing!Retry PROVE PushInv'
<1>1. /\ job.at = "pause" /\ job' = [job EXCEPT !.at = "deliver", !.try = 2]
      /\ UNCHANGED <<subs, queue, heard, events>>
  BY DEF Pushing!Retry
<1>2. job' \in PushJobs /\ job'.at = "deliver" /\ job'.item = job.item /\ job'.try = 2
  BY <1>1 DEF PushInv, PushTypeOK, PushJobs
<1>3. JobUnheard'
  BY <1>1, <1>2 DEF PushInv, JobUnheard, PostUnheard, Open
<1> QED
  BY <1>1, <1>2, <1>3, QuietJob

LEMMA CopyTableInv == ASSUME PushInv, Pushing!CopyTable PROVE PushInv'
<1> DEFINE copy == {<<i, subs[i]>> : i \in Pushing!Subscribed}
<1>1. /\ job.at = "deliver" /\ job.item.service = "webpush"
      /\ UNCHANGED <<subs, queue, heard, events>>
      /\ \/ Pushing!Failed
         \/ job' = [job EXCEPT !.at = "post", !.left = copy, !.sent = 0]
  BY DEF Pushing!CopyTable
<1>2. /\ job.item \in PushItems /\ job.try \in {1, 2} /\ Open(job.item, job.try - 1)
      /\ heard \in Hearings /\ subs \in [1..MaxSubs -> Phones \cup {"free"}] /\ OneSlotEach
  BY <1>1 DEF PushInv, PushTypeOK, JobUnheard
<1>5. job.try - 1 \in Nat /\ (job.try - 1) + 1 = job.try
  BY <1>2
<1>6. Open(job.item, job.try)
  BY <1>2, <1>5, OpenMore
<1>3. /\ copy \in SUBSET ((1..MaxSubs) \X Phones)
      /\ \A a, b \in copy : a # b => a[2] # b[2]
      /\ \A a \in copy : a[2] \in Phones
  BY <1>2 DEF Pushing!Subscribed, Pushing!Free, OneSlotEach
<1> HIDE DEF copy
<1>4. ASSUME job' = [job EXCEPT !.at = "post", !.left = copy, !.sent = 0] PROVE PushInv'
  <2>1. /\ job' \in PushJobs /\ job'.at = "post" /\ job'.item = job.item
        /\ job'.left = copy /\ job'.sent = 0 /\ job'.try = job.try
    BY <1>3, <1>4 DEF PushInv, PushTypeOK, PushJobs
  <2>2. PostUnheard'
    BY <1>1, <1>2, <1>3, <1>6, <2>1 DEF PostUnheard, Open, Owners
  <2>3. JobUnheard'
    BY <1>1, <2>1, <2>2 DEF PushInv, JobUnheard
  <2> QED
    BY <1>1, <2>1, <2>3, QuietJob
<1>7. ASSUME Pushing!Failed PROVE PushInv'
  <2>1. \A r \in Owners(job.item.service) : Lost(heard'[r][job.item.event], job.try)
    BY <1>1, <1>6 DEF Open
  <2> QED
    BY <1>1, <1>7, <2>1, SilentIs, FailedInv
<1> QED
  BY <1>1, <1>4, <1>7

LEMMA PostedInv == ASSUME PushInv, Pushing!Posted PROVE PushInv'
<1>1. /\ job.at = "post" /\ UNCHANGED <<subs, queue, heard, events>>
      /\ \/ job' = Pushing!Waiting
         \/ ~(job.sent > 0) /\ Pushing!Failed
  BY DEF Pushing!Posted
<1>2. CASE job' = Pushing!Waiting
  BY <1>1, <1>2, WaitingIs, QuietJob DEF JobUnheard
<1>3. CASE ~(job.sent > 0) /\ Pushing!Failed
  <2>1. job.sent = 0
    BY <1>3, JobIs DEF PushInv, PushTypeOK
  <2>2. \A r \in Owners(job.item.service) : Lost(heard'[r][job.item.event], job.try)
    BY <1>1, <2>1 DEF PushInv, JobUnheard, PostUnheard, Open
  <2> QED
    BY <1>1, <1>3, <2>2, SilentIs, FailedInv
<1> QED
  BY <1>1, <1>2, <1>3

\* One receiver more accepts the event the worker holds
LEMMA AcceptIs ==
  ASSUME PushInv, NEW r \in Pushing!Receivers, NEW x \in {"known", "lost"}, Pushing!Accept(r, x),
         job.at # "wait", r \in Owners(job.item.service), UNCHANGED <<queue, events>>,
         job.try \in {1, 2}, Lost(heard[r][job.item.event], job.try - 1)
  PROVE  /\ HeardOK'
         /\ x = "lost" => Lost(heard'[r][job.item.event], job.try)
         /\ \A p \in Pushing!Receivers \ {r}, e \in 1..MaxEvents : heard'[p][e] = heard[p][e]
<1> DEFINE e0 == job.item.event
           h == heard[r][e0]
           w == Append(h, x)
<1>1. /\ heard \in Hearings /\ e0 \in 1..MaxEvents /\ e0 <= events /\ job.item \in PushItems
  BY ItemIs DEF PushInv, PushTypeOK, JobUnheard
<1>2. heard' = [heard EXCEPT ![r][e0] = w]
  BY DEF Pushing!Accept
<1>3. h \in Seq({"known", "lost"}) /\ job.try - 1 \in {0, 1} /\ (job.try - 1) + 1 = job.try
  BY <1>1, HeardLen
<1>4. /\ w \in Seq({"known", "lost"}) /\ Len(w) <= 2
      /\ \A i \in 1..Len(w) : i < Len(w) => w[i] = "lost"
      /\ x = "lost" => Lost(w, job.try)
  BY <1>3, OneAnswerMore
<1> HIDE DEF e0, h, w
<1>5. heard' \in Hearings
  BY <1>1, <1>2, <1>4 DEF Hearings
<1>6. \A p \in Pushing!Receivers, e \in 1..MaxEvents :
        heard'[p][e] = IF p = r /\ e = e0 THEN w ELSE heard[p][e]
  BY <1>1, <1>2 DEF Hearings
<1>7. \A p \in Pushing!Receivers \ {r}, e \in 1..MaxEvents : heard'[p][e] = heard[p][e]
  BY <1>6
<1>8. NoneAhead'
  BY <1>1, <1>6 DEF PushInv, PushTypeOK, NoneAhead
<1>9. Pushing!TwiceOnlyIfLost'
  BY <1>4, <1>6 DEF PushInv, Pushing!TwiceOnlyIfLost
<1>10. QueuedUnheard'
  <2> SUFFICES ASSUME NEW i \in 1..Len(queue)
               PROVE  /\ queue[i].event <= events
                      /\ \A p \in Owners(queue[i].service) : Lost(heard'[p][queue[i].event], 0)
    BY DEF QueuedUnheard, Unheard, Open
  <2>1. queue[i] \in PushItems /\ queue[i].event <= events /\ Unheard(queue[i]) /\ queue[i] # job.item
    BY ElementOfSeq DEF PushInv, PushTypeOK, QueuedUnheard, JobUnheard
  <2> SUFFICES ASSUME NEW p \in Owners(queue[i].service) PROVE Lost(heard'[p][queue[i].event], 0)
    BY <2>1
  <2>2. p \in Pushing!Receivers /\ queue[i].event \in 1..MaxEvents /\ Lost(heard[p][queue[i].event], 0)
    BY <2>1, ItemIs, OwnersReceive DEF Unheard, Open
  <2>3. ASSUME p = r, queue[i].event = e0 PROVE FALSE
    <3>1. queue[i].service = job.item.service
      BY <1>1, <2>1, <2>3, ItemIs, OneOwner
    <3> QED
      BY <1>1, <2>1, <2>3, <3>1 DEF PushItems, e0
  <2> QED
    BY <1>6, <2>2, <2>3
<1>11. x = "lost" => Lost(heard'[r][e0], job.try)
  BY <1>1, <1>4, <1>6
<1> QED
  BY <1>5, <1>7, <1>8, <1>9, <1>10, <1>11 DEF HeardOK, e0

LEMMA DeliverInv ==
  ASSUME PushInv, NEW s \in {"pushover", "ntfy"}, Pushing!DeliverOne(s) PROVE PushInv'
<1>1. /\ job.at = "deliver" /\ job.item.service = s /\ UNCHANGED <<subs, queue, events>>
      /\ \/ Pushing!Accept(s, "known") /\ job' = Pushing!Waiting
         \/ Pushing!Accept(s, "lost") /\ Pushing!Failed
         \/ Pushing!Failed /\ UNCHANGED heard
  BY DEF Pushing!DeliverOne
<1>2. /\ s \in Pushing!Receivers /\ Owners(s) = {s} /\ job.try \in {1, 2}
      /\ Open(job.item, job.try - 1) /\ job.item \in PushItems /\ heard \in Hearings
  BY <1>1 DEF Pushing!Receivers, Owners, PushInv, PushTypeOK, JobUnheard
<1>3. Lost(heard[s][job.item.event], job.try - 1)
  BY <1>1, <1>2 DEF Open
<1>4. CASE Pushing!Accept(s, "known") /\ job' = Pushing!Waiting
  <2>1. HeardOK'
    BY <1>1, <1>2, <1>3, <1>4, AcceptIs
  <2> QED
    BY <1>1, <1>4, <2>1, WaitingIs, WorkerInv DEF JobUnheard
<1>5. CASE Pushing!Accept(s, "lost") /\ Pushing!Failed
  <2>1. HeardOK' /\ Lost(heard'[s][job.item.event], job.try)
    BY <1>1, <1>2, <1>3, <1>5, AcceptIs
  <2>2. \A r \in Owners(job.item.service) : Lost(heard'[r][job.item.event], job.try)
    BY <1>1, <1>2, <2>1
  <2> QED
    BY <1>1, <1>5, <2>1, <2>2, FailedInv
<1>6. CASE Pushing!Failed /\ UNCHANGED heard
  <2>1. job.try - 1 \in Nat /\ (job.try - 1) + 1 = job.try
    BY <1>2
  <2>2. Open(job.item, job.try)
    BY <1>2, <2>1, OpenMore
  <2>3. \A r \in Owners(job.item.service) : Lost(heard'[r][job.item.event], job.try)
    BY <1>6, <2>2 DEF Open
  <2> QED
    BY <1>1, <1>6, <2>3, SilentIs, FailedInv
<1> QED
  BY <1>1, <1>4, <1>5, <1>6

LEMMA NextPhone ==
  ASSUME PushInv, NEW next \in job.left, job.at = "post"
  PROVE  /\ next[2] \in Phones /\ next[2] \in Pushing!Receivers /\ next[2] \in Owners(job.item.service)
         /\ job.try \in {1, 2} /\ Lost(heard[next[2]][job.item.event], job.try - 1)
         /\ \A a \in job.left \ {next} : a[2] \in Phones \ {next[2]}
<1>1. job.left \in SUBSET ((1..MaxSubs) \X Phones)
  BY JobIs DEF PushInv, PushTypeOK
<1>2. \A a \in job.left : a[2] \in Phones
  BY <1>1
<1>3. PostUnheard
  BY DEF PushInv, JobUnheard
<1> QED
  BY <1>2, <1>3 DEF PostUnheard, Owners, Pushing!Receivers

\* The job with one slot of the copy less, and with one phone more that was sent to
LEMMA AfterIs ==
  ASSUME PushInv, NEW next, NEW after, after = [job EXCEPT !.left = @ \ {next}]
  PROVE  /\ after \in PushJobs /\ after.at = job.at /\ after.item = job.item
         /\ after.left = job.left \ {next} /\ after.sent = job.sent /\ after.try = job.try
         /\ [after EXCEPT !.sent = @ + 1].try = job.try
         /\ [after EXCEPT !.sent = @ + 1] \in PushJobs
         /\ [after EXCEPT !.sent = @ + 1].at = job.at /\ [after EXCEPT !.sent = @ + 1].item = job.item
         /\ [after EXCEPT !.sent = @ + 1].left = job.left \ {next}
         /\ [after EXCEPT !.sent = @ + 1].sent = job.sent + 1
<1>1. job \in PushJobs
  BY DEF PushInv, PushTypeOK
<1>2. /\ after \in PushJobs /\ after.at = job.at /\ after.item = job.item
      /\ after.left = job.left \ {next} /\ after.sent = job.sent /\ after.try = job.try
  BY <1>1 DEF PushJobs
<1>3. /\ [after EXCEPT !.sent = @ + 1] \in PushJobs
      /\ [after EXCEPT !.sent = @ + 1].at = after.at /\ [after EXCEPT !.sent = @ + 1].item = after.item
      /\ [after EXCEPT !.sent = @ + 1].left = after.left /\ [after EXCEPT !.sent = @ + 1].try = after.try
      /\ [after EXCEPT !.sent = @ + 1].sent = after.sent + 1
  <2>1. after.sent \in Nat
    BY <1>2, JobIs
  <2>2. after.sent + 1 \in Nat
    BY <2>1
  <2> QED
    BY <1>2, <2>2 DEF PushJobs
<1> QED
  BY <1>2, <1>3

LEMMA PostInv == ASSUME PushInv, Pushing!Post PROVE PushInv'
<1>1. job.at = "post" /\ UNCHANGED <<queue, events>>
  BY DEF Pushing!Post
<1>2. PICK next \in job.left :
        LET p == next[2]
            after == [job EXCEPT !.left = @ \ {next}]
        IN  \/ Pushing!Accept(p, "known") /\ job' = [after EXCEPT !.sent = @ + 1] /\ UNCHANGED subs
            \/ Pushing!Accept(p, "lost") /\ job' = after /\ UNCHANGED subs
            \/ subs' = Pushing!Without(p) /\ job' = after /\ UNCHANGED heard
            \/ job' = after /\ UNCHANGED <<subs, heard>>
  BY Zenon DEF Pushing!Post
<1> DEFINE p == next[2]
           after == [job EXCEPT !.left = @ \ {next}]
           more == [after EXCEPT !.sent = @ + 1]
<1>3. /\ after \in PushJobs /\ after.at = "post" /\ after.item = job.item
      /\ after.left = job.left \ {next} /\ after.sent = job.sent /\ after.try = job.try
      /\ more \in PushJobs /\ more.at = "post" /\ more.item = job.item
      /\ more.left = job.left \ {next} /\ more.sent = job.sent + 1 /\ more.try = job.try
  BY <1>1, AfterIs
<1>4. /\ p \in Phones /\ p \in Pushing!Receivers /\ p \in Owners(job.item.service)
      /\ job.try \in {1, 2} /\ Lost(heard[p][job.item.event], job.try - 1)
      /\ \A a \in job.left \ {next} : a[2] \in Phones \ {p}
  BY <1>1, NextPhone
<1>5. \/ Pushing!Accept(p, "known") /\ job' = more /\ UNCHANGED subs
      \/ Pushing!Accept(p, "lost") /\ job' = after /\ UNCHANGED subs
      \/ subs' = Pushing!Without(p) /\ job' = after /\ UNCHANGED heard
      \/ job' = after /\ UNCHANGED <<subs, heard>>
  BY <1>2
<1> HIDE DEF p, after, more
<1>6. /\ job.item \in PushItems /\ job.item.event <= events /\ job.item.event \in 1..MaxEvents
      /\ \A i \in 1..Len(queue) : queue[i] # job.item
      /\ job.item.service = "webpush"
      /\ \A a, b \in job.left : a # b => a[2] # b[2]
      /\ \A a \in job.left : Lost(heard[a[2]][job.item.event], job.try - 1)
      /\ job.sent = 0 => Open(job.item, job.try)
      /\ job.sent \in Nat
  BY <1>1, JobIs, ItemIs DEF PushInv, PushTypeOK, JobUnheard, PostUnheard
<1>7. ASSUME NEW x \in {"known", "lost"}, Pushing!Accept(p, x)
      PROVE  /\ HeardOK' /\ (x = "lost" => Lost(heard'[p][job.item.event], job.try))
             /\ \A v \in Pushing!Receivers \ {p} : heard'[v][job.item.event] = heard[v][job.item.event]
             /\ \A a \in job.left \ {next} : Lost(heard'[a[2]][job.item.event], job.try - 1)
  <2>1. /\ HeardOK' /\ (x = "lost" => Lost(heard'[p][job.item.event], job.try))
        /\ \A v \in Pushing!Receivers \ {p}, e \in 1..MaxEvents : heard'[v][e] = heard[v][e]
    BY <1>1, <1>4, <1>7, AcceptIs
  <2>2. \A a \in job.left \ {next} : a[2] \in Pushing!Receivers \ {p}
    BY <1>4 DEF Pushing!Receivers
  <2> QED
    BY <1>6, <2>1, <2>2
<1>8. CASE Pushing!Accept(p, "known") /\ job' = more /\ UNCHANGED subs
  <2>1. HeardOK' /\ \A a \in job.left \ {next} : Lost(heard'[a[2]][job.item.event], job.try - 1)
    BY <1>7, <1>8
  <2>2. job.sent + 1 # 0
    BY <1>6
  <2>3. JobUnheard'
    BY <1>1, <1>3, <1>4, <1>6, <1>8, <2>1, <2>2 DEF JobUnheard, PostUnheard
  <2> QED
    BY <1>1, <1>3, <1>8, <2>1, <2>3, WorkerInv
<1>9. CASE Pushing!Accept(p, "lost") /\ job' = after /\ UNCHANGED subs
  <2>1. /\ HeardOK' /\ Lost(heard'[p][job.item.event], job.try)
        /\ \A v \in Pushing!Receivers \ {p} : heard'[v][job.item.event] = heard[v][job.item.event]
        /\ \A a \in job.left \ {next} : Lost(heard'[a[2]][job.item.event], job.try - 1)
    BY <1>7, <1>9
  <2>2. Owners(job.item.service) \subseteq Pushing!Receivers
    BY <1>6, ItemIs, OwnersReceive
  <2>3. ASSUME job.sent = 0 PROVE \A v \in Owners(job.item.service) : Lost(heard'[v][job.item.event], job.try)
    BY <1>6, <2>1, <2>2, <2>3 DEF Open
  <2>4. JobUnheard'
    BY <1>1, <1>3, <1>4, <1>6, <1>9, <2>1, <2>3 DEF JobUnheard, PostUnheard, Open
  <2> QED
    BY <1>1, <1>3, <1>9, <2>1, <2>4, WorkerInv
<1>10. ASSUME job' = after, UNCHANGED heard, subs' \in [1..MaxSubs -> Phones \cup {"free"}], OneSlotEach'
       PROVE  PushInv'
  <2>1. HeardOK'
    BY <1>1, <1>10, SilentIs
  <2>2. PushTypeOK' /\ QueuedOnce'
    BY <1>1, <1>3, <1>10 DEF PushInv, PushTypeOK, QueuedOnce
  <2>3. JobUnheard'
    BY <1>1, <1>3, <1>4, <1>6, <1>10 DEF JobUnheard, PostUnheard, Open
  <2> QED
    BY <1>10, <2>1, <2>2, <2>3 DEF PushInv, HeardOK
<1>11. UNCHANGED subs => subs' \in [1..MaxSubs -> Phones \cup {"free"}] /\ OneSlotEach'
  BY DEF PushInv, PushTypeOK, OneSlotEach
<1> QED
  BY <1>5, <1>8, <1>9, <1>10, <1>11, WithoutIs

LEMMA PushStep == PushInv /\ [Pushing!Next]_(Pushing!pvars) => PushInv'
<1> SUFFICES ASSUME PushInv, [Pushing!Next]_(Pushing!pvars) PROVE PushInv'
  OBVIOUS
<1>1. CASE Pushing!DeliverPushover \/ Pushing!DeliverNtfy
  BY <1>1, DeliverInv DEF Pushing!DeliverPushover, Pushing!DeliverNtfy
<1>2. CASE UNCHANGED Pushing!pvars
  BY <1>2, SameEvents DEF Pushing!pvars, PushInv, PushTypeOK, OneSlotEach
<1> QED
  BY <1>1, <1>2, TakeInv, CopyTableInv, PostInv, PostedInv, RetryInv, PushRestartInv, EditInv,
    RaiseInv, SubscribeInv, UnsubscribeInv DEF Pushing!Next

(* Nobody accepts the same event again unless the answer to the first acceptance was lost, and  *)
(* nobody a third time, whatever is subscribed, refreshed, refused, retried or restarted        *)
(* meanwhile, for any number of phones, slots and events and any room in the queue (worker,     *)
(* send_all, pf_webpush_subscribe).                                                            *)
THEOREM RepeatsOnlyWhatWasLost == SumSpec => []TwiceOnlyIfLost
<1> DEFINE Inv == which = "push" => PushInv
<1>1. SumInit => Inv
  BY PushInit DEF SumInit
<1>2. Inv /\ [SumNext]_sumVars => Inv'
  BY PushStep, PushPart, SameComponent
<1>3. Inv => TwiceOnlyIfLost
  BY DEF PushInv, TwiceOnlyIfLost
<1> QED
  BY <1>1, <1>2, <1>3, PTL DEF SumSpec

-----------------------------------------------------------------------------
(* Notify. An after-action that was asked for and still waits is one that has not been carried *)
(* out yet, so what was carried out and what waits are together at most what was asked for.    *)

Has(r) == "after" \in DOMAIN r
Due(r) == IF r.after = "none" THEN 0 ELSE 1

NoticeTypeOK ==
  /\ Has(probe) /\ Has(timer)
  /\ asked \in [{"probe", "timer"} -> Nat] /\ acted \in [{"probe", "timer"} -> Nat]

NoticeInv ==
  /\ NoticeTypeOK
  /\ acted["probe"] + Due(probe) <= asked["probe"]
  /\ acted["timer"] + Due(timer) <= asked["timer"]

LEMMA NoticePart == which = "notify" /\ [SumNext]_sumVars => [Notifying!Next]_(Notifying!nvars)
  BY DEF SumNext, Others, sumVars, notifyVars, Notifying!nvars

LEMMA FreshIs == Has(Notifying!Fresh) /\ Notifying!Fresh.after = "none"
  BY DEF Notifying!Fresh, Has

LEMMA NoTimerIs == Has(Notifying!NoTimer) /\ Notifying!NoTimer.after = "none"
  BY DEF Notifying!NoTimer, Has

LEMMA NoticeInit == Notifying!Init => NoticeInv
  BY FreshIs, NoTimerIs DEF Notifying!Init, NoticeInv, NoticeTypeOK, Due

\* What one tick works out of the probe keeps what it is to do
LEMMA FeltIs ==
  ASSUME NEW p, Has(p), NEW t, NEW around
  PROVE  Has(Notifying!Felt(p, t, around)) /\ Notifying!Felt(p, t, around).after = p.after
BY DEF Notifying!Felt, Has

LEMMA TakeOffIs ==
  ASSUME NEW p, Has(p), NEW t, NEW c
  PROVE  Has(Notifying!TakeOff(p, t, c)) /\ Notifying!TakeOff(p, t, c).after = p.after
BY DEF Notifying!TakeOff, Has

LEMMA RestedIs ==
  ASSUME NEW p, Has(p), NEW t, NEW around, NEW late
  PROVE  Has(Notifying!Rested(p, t, around, late)) /\ Notifying!Rested(p, t, around, late).after = p.after
BY DEF Notifying!Rested, Has

LEMMA ReachIs ==
  ASSUME NEW p, Has(p), NEW t
  PROVE  /\ Has(Notifying!Reach(p, t))
         /\ Notifying!Reach(p, t).after = IF Notifying!Reaches(p, t) THEN "none" ELSE p.after
BY DEF Notifying!Reach, Has

LEMMA AimedIs ==
  ASSUME NEW p, Has(p), NEW target, NEW after
  PROVE  Has(Notifying!Aimed(p, target, after)) /\ Notifying!Aimed(p, target, after).after = after
BY DEF Notifying!Aimed, Has

-----------------------------------------------------------------------------
\* One of the two triggers is set again: what waited is forgotten, and what is asked for is counted
LEMMA AskedAgain ==
  ASSUME NoticeInv, NEW x \in {"probe", "timer"}, NEW after, Notifying!Count(x, after), UNCHANGED acted,
         Has(probe'), Has(timer'),
         x = "probe" => probe'.after = after /\ timer' = timer,
         x = "timer" => timer'.after = after /\ probe' = probe
  PROVE  NoticeInv'
<1>1. /\ asked \in [{"probe", "timer"} -> Nat] /\ acted \in [{"probe", "timer"} -> Nat]
      /\ acted["probe"] <= asked["probe"] /\ acted["timer"] <= asked["timer"]
  BY DEF NoticeInv, NoticeTypeOK, Due
<1>2. CASE x = "probe"
  <2>1. Due(probe') = IF after = "none" THEN 0 ELSE 1
    BY <1>2 DEF Due
  <2>2. CASE after = "none"
    BY <1>1, <1>2, <2>1, <2>2 DEF Notifying!Count, NoticeInv, NoticeTypeOK
  <2>3. CASE after # "none"
    BY <1>1, <1>2, <2>1, <2>3 DEF Notifying!Count, NoticeInv, NoticeTypeOK
  <2> QED
    BY <2>2, <2>3
<1>3. CASE x = "timer"
  <2>1. Due(timer') = IF after = "none" THEN 0 ELSE 1
    BY <1>3 DEF Due
  <2>2. CASE after = "none"
    BY <1>1, <1>3, <2>1, <2>2 DEF Notifying!Count, NoticeInv, NoticeTypeOK
  <2>3. CASE after # "none"
    BY <1>1, <1>3, <2>1, <2>3 DEF Notifying!Count, NoticeInv, NoticeTypeOK
  <2> QED
    BY <2>2, <2>3
<1> QED
  BY <1>2, <1>3

LEMMA AskInv ==
  ASSUME NoticeInv, NEW target, NEW after,
         \/ Notifying!SetTarget(target, after)
         \/ Notifying!SetRest(target, after)
         \/ Notifying!TimerStart(target, after)
  PROVE  NoticeInv'
<1>1. Has(probe) /\ Has(timer)
  BY DEF NoticeInv, NoticeTypeOK
<1>2. CASE Notifying!SetTarget(target, after)
  BY <1>1, <1>2, AimedIs, AskedAgain DEF Notifying!SetTarget
<1>3. CASE Notifying!SetRest(target, after)
  <2>1. PICK n : probe' = [Notifying!Aimed(probe, n, after) EXCEPT !.rest = target]
    BY <1>3 DEF Notifying!SetRest
  <2>2. Has(probe') /\ probe'.after = after
    BY <1>1, <2>1, AimedIs DEF Has
  <2>3. Notifying!Count("probe", after) /\ UNCHANGED <<timer, acted>>
    BY <1>3 DEF Notifying!SetRest
  <2> QED
    BY <1>1, <2>2, <2>3, AskedAgain
<1>4. CASE Notifying!TimerStart(target, after)
  <2>1. Has(timer') /\ timer'.after = after /\ Notifying!Count("timer", after) /\ UNCHANGED <<probe, acted>>
    BY <1>4 DEF Notifying!TimerStart, Has
  <2> QED
    BY <1>1, <2>1, AskedAgain
<1> QED
  BY <1>2, <1>3, <1>4

\* Nothing is carried out and nothing asked for, and what waits still waits or is forgotten
LEMMA NoticeKept ==
  ASSUME NoticeInv, UNCHANGED <<asked, acted>>, Has(probe'), Has(timer'),
         probe'.after = probe.after \/ probe'.after = "none",
         timer'.after = timer.after \/ timer'.after = "none"
  PROVE  NoticeInv'
<1>1. asked \in [{"probe", "timer"} -> Nat] /\ acted \in [{"probe", "timer"} -> Nat]
  BY DEF NoticeInv, NoticeTypeOK
<1>2. acted["probe"] + Due(probe') <= asked["probe"]
  BY <1>1 DEF NoticeInv, Due
<1>3. acted["timer"] + Due(timer') <= asked["timer"]
  BY <1>1 DEF NoticeInv, Due
<1> QED
  BY <1>1, <1>2, <1>3 DEF NoticeInv, NoticeTypeOK

LEMMA NoticeRestartInv == ASSUME NoticeInv, Notifying!Restart PROVE NoticeInv'
<1> DEFINE aim == IF probe.rest > 0 THEN Notifying!Pull(probe.rest, 0) ELSE probe.target
           again == [Notifying!Aimed(Notifying!Fresh, aim, probe.after)
                      EXCEPT !.rest = probe.rest, !.high = probe.high, !.low = probe.low]
<1>1. /\ probe' \in {Notifying!Fresh, again} /\ timer' \in {timer, Notifying!NoTimer}
      /\ UNCHANGED <<asked, acted>>
  BY DEF Notifying!Restart
<1>2. Has(again) /\ again.after = probe.after
  <2> HIDE DEF aim
  <2> QED
    BY AimedIs, FreshIs DEF Has
<1> HIDE DEF again
<1> QED
  BY <1>1, <1>2, FreshIs, NoTimerIs, NoticeKept DEF NoticeInv, NoticeTypeOK

\* What waits is carried out, and then waits no more
LEMMA PulseInv ==
  ASSUME NoticeInv, NEW hit \in BOOLEAN, NEW p, p.after = probe.after,
         Notifying!Pulse(hit, p), Notifying!TimerTick, UNCHANGED asked,
         Has(probe'), probe'.after = IF hit THEN "none" ELSE p.after
  PROVE  NoticeInv'
<1> DEFINE one == IF hit /\ p.after # "none" THEN 1 ELSE 0
           two == IF Notifying!Expired /\ timer.after # "none" THEN 1 ELSE 0
<1>1. /\ asked \in [{"probe", "timer"} -> Nat] /\ acted \in [{"probe", "timer"} -> Nat]
      /\ acted["probe"] + Due(probe) <= asked["probe"] /\ acted["timer"] + Due(timer) <= asked["timer"]
      /\ Has(timer)
  BY DEF NoticeInv, NoticeTypeOK
<1>2. Due(probe) \in {0, 1} /\ Due(timer) \in {0, 1}
  BY DEF Due
<1>3. one \in {0, 1} /\ one + Due(probe') = Due(probe) /\ Due(probe') \in {0, 1}
  BY DEF Due
<1>4. Has(timer') /\ timer'.after = IF Notifying!Expired THEN "none" ELSE timer.after
  BY <1>1, NoTimerIs DEF Notifying!TimerTick, Has
<1>5. two \in {0, 1} /\ two + Due(timer') = Due(timer) /\ Due(timer') \in {0, 1}
  BY <1>4 DEF Due
<1>6. acted' = [acted EXCEPT !["probe"] = @ + one, !["timer"] = @ + two]
  BY DEF Notifying!Pulse
<1> HIDE DEF one, two
<1>7. /\ acted' \in [{"probe", "timer"} -> Nat]
      /\ acted'["probe"] = acted["probe"] + one /\ acted'["timer"] = acted["timer"] + two
  BY <1>1, <1>3, <1>5, <1>6
<1>8. acted["probe"] + one + Due(probe') <= asked["probe"]
  BY <1>1, <1>2, <1>3
<1>9. acted["timer"] + two + Due(timer') <= asked["timer"]
  BY <1>1, <1>2, <1>5
<1> QED
  BY <1>1, <1>4, <1>7, <1>8, <1>9 DEF NoticeInv, NoticeTypeOK

LEMMA TickInv == ASSUME NoticeInv, NEW t, NEW around, Notifying!Tick(t, around) PROVE NoticeInv'
<1>1. PICK c, late :
        LET felt == Notifying!Felt(probe, t, around)
            aimed == Notifying!TakeOff(felt, t, c)
            p == Notifying!Rested(aimed, t, around, late)
        IN  /\ \E e : probe' = [Notifying!Reach(p, t) EXCEPT !.eta = e, !.tripped = Notifying!Tripped(p, t)]
            /\ Notifying!Pulse(Notifying!Reaches(p, t), p)
  BY DEF Notifying!Tick
<1>2. Notifying!TimerTick /\ UNCHANGED asked
  BY DEF Notifying!Tick
<1> DEFINE felt == Notifying!Felt(probe, t, around)
           aimed == Notifying!TakeOff(felt, t, c)
           p == Notifying!Rested(aimed, t, around, late)
<1>3. Has(felt) /\ felt.after = probe.after
  BY FeltIs DEF NoticeInv, NoticeTypeOK
<1> HIDE DEF felt
<1>4. Has(aimed) /\ aimed.after = probe.after
  BY <1>3, TakeOffIs
<1> HIDE DEF aimed
<1>5. Has(p) /\ p.after = probe.after
  BY <1>4, RestedIs
<1>6. PICK e : probe' = [Notifying!Reach(p, t) EXCEPT !.eta = e, !.tripped = Notifying!Tripped(p, t)]
  BY <1>1 DEF felt, aimed
<1>7. Notifying!Pulse(Notifying!Reaches(p, t), p)
  BY <1>1 DEF felt, aimed
<1> HIDE DEF p
<1>8. Has(probe') /\ probe'.after = IF Notifying!Reaches(p, t) THEN "none" ELSE p.after
  BY <1>5, <1>6, ReachIs DEF Has
<1>9. Notifying!Reaches(p, t) \in BOOLEAN
  BY DEF Notifying!Reaches
<1> QED
  BY <1>2, <1>5, <1>7, <1>8, <1>9, PulseInv

LEMMA TickBlindInv == ASSUME NoticeInv, Notifying!TickBlind PROVE NoticeInv'
<1>1. Notifying!Pulse(FALSE, probe) /\ Notifying!TimerTick /\ UNCHANGED <<probe, asked>>
  BY DEF Notifying!TickBlind
<1>2. Has(probe') /\ probe'.after = IF FALSE THEN "none" ELSE probe.after
  BY <1>1 DEF NoticeInv, NoticeTypeOK
<1> QED
  BY <1>1, <1>2, PulseInv

LEMMA NoticeStep == NoticeInv /\ [Notifying!Next]_(Notifying!nvars) => NoticeInv'
<1> SUFFICES ASSUME NoticeInv, [Notifying!Next]_(Notifying!nvars) PROVE NoticeInv'
  OBVIOUS
<1>1. Has(probe) /\ Has(timer)
  BY DEF NoticeInv, NoticeTypeOK
<1>2. CASE Notifying!SetLimits(2, 1)
  BY <1>1, <1>2, NoticeKept DEF Notifying!SetLimits, Has
<1>3. CASE Notifying!TimerPause \/ Notifying!TimerResume
  BY <1>1, <1>3, NoticeKept DEF Notifying!TimerPause, Notifying!TimerResume, Has
<1>4. CASE Notifying!TimerCancel \/ Notifying!Drop
  BY <1>1, <1>4, NoticeKept, FreshIs, NoTimerIs DEF Notifying!TimerCancel, Notifying!Drop
<1>5. ASSUME UNCHANGED <<probe, timer, asked, acted>> PROVE NoticeInv'
  BY <1>1, <1>5, NoticeKept
<1>6. ASSUME NEW x, Notifying!EditSteps(x) \/ Notifying!SetMode(x) PROVE NoticeInv'
  BY <1>5, <1>6 DEF Notifying!EditSteps, Notifying!SetMode
<1>7. CASE UNCHANGED Notifying!nvars
  BY <1>5, <1>7 DEF Notifying!nvars
<1> QED
  BY <1>2, <1>3, <1>4, <1>6, <1>7, AskInv, NoticeRestartInv, TickInv, TickBlindInv DEF Notifying!Next

(* An after-action is carried out at most once for each time it was asked for, however often the *)
(* target is met again after a restart and whatever the timer does, for any temperatures, steps  *)
(* and estimates (notify.c:392-395, 483-494).                                                    *)
THEOREM EachActsOnce == SumSpec => []ActsOnce
<1> DEFINE Inv == which = "notify" => NoticeInv
<1>1. SumInit => Inv
  BY NoticeInit DEF SumInit
<1>2. Inv /\ [SumNext]_sumVars => Inv'
  BY NoticeStep, NoticePart, SameComponent
<1>3. Inv => ActsOnce
  <2> SUFFICES ASSUME NoticeInv PROVE Notifying!ActsOnce
    BY DEF ActsOnce
  <2> QED
    BY DEF NoticeInv, NoticeTypeOK, Due, Notifying!ActsOnce
<1> QED
  BY <1>1, <1>2, <1>3, PTL DEF SumSpec

-----------------------------------------------------------------------------
(* The tuner. A measurement is filed into one slot; whether that slot held the set point's entry *)
(* or was empty, taking the measurement back leaves the library it was filed into.               *)

\* Two set points are the same or are not near each other, and each has its slot
PointsApart == \A a, b \in Points : a # b => Tuning!Apart(a, b) >= Near
RoomForAll == IsFiniteSet(Points) /\ Cardinality(Points) <= LibrarySlots

ASlot == 1..LibrarySlots
IsEntry(a) == /\ {"sp", "tune", "runs", "plant"} \subseteq DOMAIN a
              /\ a.tune # {} /\ a.sp \in Points
LibOK(L) ==
  /\ L = [i \in ASlot |-> L[i]]
  /\ \A i \in ASlot : L[i] = Tuning!Blank \/ IsEntry(L[i])
  /\ \A i, j \in ASlot : IsEntry(L[i]) /\ IsEntry(L[j]) /\ L[i].sp = L[j].sp => i = j

\* Where the measurement under way would be taken back to
Restored == IF run.had THEN Tuning!PutAnchor(lib, run.anchor)
                       ELSE Tuning!WithoutAnchor(lib, Tuning!Point)

RunFields == {"on", "phase", "points", "step", "had", "anchor"}
TunerTypeOK ==
  /\ LibOK(lib)
  /\ RunFields \subseteq DOMAIN run
  /\ run.on => run.points \in Runs /\ run.step \in 1..Len(run.points)
  /\ run.phase = "verifying" => run.on
  /\ run.had => IsEntry(run.anchor)
TakesBack == run.phase = "verifying" /\ before # {} => Restored \in before
TunerInv == TunerTypeOK /\ TakesBack

LEMMA TunerPart == which = "tuner" /\ [SumNext]_sumVars => [Tuning!Next]_(Tuning!vars)
BY DEF SumNext, Others, sumVars, tunerVars, Tuning!vars, Tuning!lvars, Tuning!tvars

\* The smallest of a set of numbers is one of them
LEMMA LeastIsOne == ASSUME NEW S \in SUBSET Nat, S # {} PROVE Tuning!Min(S) \in S
BY LeastOf DEF Tuning!Min

\* Set points that are apart are near only themselves
LEMMA NearIsSame ==
  ASSUME PointsApart, NEW a \in Points, NEW b \in Points
  PROVE  Tuning!Close(a, b) <=> a = b
<1>1. a \in Nat /\ b \in Nat /\ Near \in Nat \ {0}
  BY TunerAssumption
<1>2. CASE a = b
  BY <1>1, <1>2 DEF Tuning!Close, Tuning!Apart
<1>3. CASE a # b
  BY <1>1, <1>3 DEF Tuning!Close, Tuning!Apart, PointsApart
<1> QED
  BY <1>2, <1>3

LEMMA UsedIs ==
  ASSUME NEW L, LibOK(L)
  PROVE  Tuning!Used(L) = {i \in ASlot : IsEntry(L[i])}
BY DEF Tuning!Used, LibOK, IsEntry, ASlot, Tuning!Blank

LEMMA MatchingIs ==
  ASSUME PointsApart, NEW L, LibOK(L), NEW p \in Points
  PROVE  Tuning!Matching(L, p) = {i \in ASlot : IsEntry(L[i]) /\ L[i].sp = p}
<1>1. \A i \in Tuning!Used(L) : L[i].sp \in Points
  BY UsedIs DEF IsEntry
<1>2. \A i \in Tuning!Used(L) : Tuning!Close(L[i].sp, p) <=> L[i].sp = p
  BY <1>1, NearIsSame
<1> QED
  BY <1>2, UsedIs DEF Tuning!Matching

\* A set point without an entry has a slot to go to
LEMMA SlotIsFree ==
  ASSUME RoomForAll, PointsApart, NEW L, LibOK(L), NEW p \in Points, Tuning!Matching(L, p) = {}
  PROVE  Tuning!Used(L) # ASlot
<1> SUFFICES ASSUME Tuning!Used(L) = ASlot PROVE FALSE
  OBVIOUS
<1>1. \A i \in ASlot : IsEntry(L[i]) /\ L[i].sp \in Points \ {p}
  BY UsedIs, MatchingIs DEF IsEntry
<1> DEFINE at == [i \in ASlot |-> L[i].sp]
           rest == Points \ {p}
<1>2. at \in [ASlot -> rest]
  BY <1>1
<1>3. IsFiniteSet(ASlot) /\ Cardinality(ASlot) = LibrarySlots
  <2>1. IsFiniteSet(1..LibrarySlots)
        /\ Cardinality(1..LibrarySlots) = IF 1 > LibrarySlots THEN 0 ELSE LibrarySlots - 1 + 1
    BY FS_Interval, TunerAssumption
  <2> QED
    BY <2>1, TunerAssumption DEF ASlot
<1>4. IsFiniteSet(rest) /\ Cardinality(rest) = Cardinality(Points) - 1
  BY FS_RemoveElement DEF RoomForAll
<1>5. Cardinality(rest) < Cardinality(ASlot)
  <2>1. Cardinality(Points) \in Nat
    BY FS_CardinalityType DEF RoomForAll
  <2> QED
    BY <1>3, <1>4, <2>1, TunerAssumption DEF RoomForAll
<1> HIDE DEF at, rest
<1>6. PICK i, j \in ASlot : i # j /\ at[i] = at[j]
  BY <1>2, <1>3, <1>4, <1>5, FS_PigeonHole
<1> QED
  BY <1>1, <1>6 DEF LibOK, at

\* The slot a set point goes to: its entry's, or an empty one
LEMMA SlotIs ==
  ASSUME RoomForAll, PointsApart, NEW L, LibOK(L), NEW p \in Points
  PROVE  LET i == Tuning!SlotFor(L, p) IN
         /\ i \in ASlot
         /\ \/ IsEntry(L[i]) /\ L[i].sp = p /\ Tuning!Matching(L, p) = {i}
            \/ L[i] = Tuning!Blank /\ Tuning!Matching(L, p) = {}
<1> DEFINE i == Tuning!SlotFor(L, p)
           m == Tuning!Matching(L, p)
<1>1. m = {k \in ASlot : IsEntry(L[k]) /\ L[k].sp = p}
  BY MatchingIs
<1>2. CASE m # {}
  <2>1. i = Tuning!Min(m)
    BY <1>2 DEF Tuning!SlotFor
  <2>2. m \in SUBSET Nat
    BY <1>1 DEF ASlot
  <2>3. i \in m
    BY <1>2, <2>1, <2>2, LeastIsOne
  <2>4. m = {i}
    BY <1>1, <2>3 DEF LibOK
  <2> QED
    BY <1>1, <2>3, <2>4
<1>3. CASE m = {}
  <2> DEFINE free == (1..LibrarySlots) \ Tuning!Used(L)
  <2>1. free # {}
    <3>1. Tuning!Used(L) # 1..LibrarySlots /\ Tuning!Used(L) \subseteq 1..LibrarySlots
      BY <1>3, SlotIsFree DEF ASlot, Tuning!Used
    <3> QED
      BY <3>1
  <2>2. i = Tuning!Min(free)
    BY <1>3, SlotIsFree DEF Tuning!SlotFor, ASlot
  <2>3. free \in SUBSET Nat
    OBVIOUS
  <2> HIDE DEF free
  <2>4. i \in free
    BY <2>1, <2>2, <2>3, LeastIsOne
  <2> QED
    BY <1>3, <2>4, UsedIs DEF LibOK, free, ASlot
<1> QED
  BY <1>2, <1>3

\* A plant is filed beside the tune, and never in place of it
LEMMA PlantKeepsEntry ==
  ASSUME NEW a, IsEntry(a), NEW id, NEW src
  PROVE  IsEntry(Tuning!TakePlant(a, id, src)) /\ Tuning!TakePlant(a, id, src).sp = a.sp
BY DEF IsEntry, Tuning!TakePlant

\* One slot of a library put in place of what it held
LEMMA OneEntry ==
  ASSUME NEW L, LibOK(L), NEW i \in ASlot, NEW a,
         a = Tuning!Blank \/ (IsEntry(a) /\ \A j \in ASlot \ {i} : IsEntry(L[j]) => L[j].sp # a.sp)
  PROVE  LibOK([L EXCEPT ![i] = a])
<1> DEFINE M == [L EXCEPT ![i] = a]
<1>1. M[i] = a /\ \A j \in ASlot \ {i} : M[j] = L[j]
  BY DEF LibOK
<1>2. M = [j \in ASlot |-> M[j]]
  BY DEF LibOK
<1>3. ~IsEntry(Tuning!Blank)
  BY DEF IsEntry, Tuning!Blank
<1> HIDE DEF M
<1>4. \A j \in ASlot : M[j] = Tuning!Blank \/ IsEntry(M[j])
  BY <1>1 DEF LibOK
<1>5. \A j, k \in ASlot : IsEntry(M[j]) /\ IsEntry(M[k]) /\ M[j].sp = M[k].sp => j = k
  BY <1>1, <1>3 DEF LibOK
<1> QED
  BY <1>2, <1>4, <1>5 DEF LibOK, M

\* What a measurement is filed as
LEMMA StoredIs ==
  ASSUME RoomForAll, PointsApart, NEW L, LibOK(L), NEW p \in Points, NEW id, NEW static
  PROVE  \E a : /\ IsEntry(a) /\ a.sp = p
                /\ Tuning!StoreAnchor(L, p, id, static) = [L EXCEPT ![Tuning!SlotFor(L, p)] = a]
<1> DEFINE i == Tuning!SlotFor(L, p)
           refines == i \in Tuning!Matching(L, p)
           a == [L[i] EXCEPT !.sp = p, !.tune = IF refines THEN @ \cup {id} ELSE {id},
                             !.runs = IF refines THEN @ + 1 ELSE 1]
           b == IF static \/ Tuning!TauKnown(L[i], p) THEN Tuning!TakePlant(a, id, "relay") ELSE a
<1>1. {"sp", "tune", "runs", "plant"} \subseteq DOMAIN L[i]
  <2>1. {"sp", "tune", "runs", "plant"} \subseteq DOMAIN Tuning!Blank
    BY DEF Tuning!Blank
  <2> QED
    BY <2>1, SlotIs DEF IsEntry
<1>2. IsEntry(a) /\ a.sp = p
  BY <1>1 DEF IsEntry
<1> HIDE DEF a
<1>3. IsEntry(b) /\ b.sp = p
  BY <1>2, PlantKeepsEntry
<1>4. Tuning!StoreAnchor(L, p, id, static) = [L EXCEPT ![i] = b]
  BY DEF Tuning!StoreAnchor, a
<1> QED
  BY <1>3, <1>4

\* Filed and taken back, a measurement leaves the library as it was
LEMMA StoreIsUndone ==
  ASSUME RoomForAll, PointsApart, NEW L, LibOK(L), NEW p \in Points, NEW id, NEW static
  PROVE  LET M == Tuning!StoreAnchor(L, p, id, static)
             m == Tuning!Matching(L, p)
         IN  /\ LibOK(M)
             /\ m = {} => Tuning!WithoutAnchor(M, p) = L
             /\ m # {} => /\ IsEntry(L[Tuning!ListedFirst(L, m)])
                          /\ Tuning!PutAnchor(M, L[Tuning!ListedFirst(L, m)]) = L
<1> DEFINE i == Tuning!SlotFor(L, p)
           M == Tuning!StoreAnchor(L, p, id, static)
<1>1. PICK a : IsEntry(a) /\ a.sp = p /\ M = [L EXCEPT ![i] = a]
  BY StoredIs
<1>2. /\ i \in ASlot
      /\ \/ IsEntry(L[i]) /\ L[i].sp = p /\ Tuning!Matching(L, p) = {i}
         \/ L[i] = Tuning!Blank /\ Tuning!Matching(L, p) = {}
  BY SlotIs
<1>3. Tuning!Matching(L, p) = {k \in ASlot : IsEntry(L[k]) /\ L[k].sp = p}
  BY MatchingIs
<1> HIDE DEF M, i
<1>4. \A j \in ASlot \ {i} : IsEntry(L[j]) => L[j].sp # a.sp
  BY <1>1, <1>2, <1>3
<1>5. LibOK(M)
  BY <1>1, <1>2, <1>4, OneEntry
<1>6. M[i] = a
  BY <1>1, <1>2 DEF LibOK
<1>7. Tuning!Matching(M, p) = {i}
  <2>1. Tuning!Matching(M, p) = {k \in ASlot : IsEntry(M[k]) /\ M[k].sp = p}
    BY <1>5, MatchingIs
  <2>2. \A k \in ASlot : IsEntry(M[k]) /\ M[k].sp = p <=> k = i
    BY <1>1, <1>2, <1>5, <1>6 DEF LibOK
  <2> QED
    BY <1>2, <2>1, <2>2
<1>8. Tuning!Min({i}) = i
  <2>1. {i} \in SUBSET Nat /\ {i} # {}
    BY <1>2 DEF ASlot
  <2> QED
    BY <2>1, LeastIsOne
<1>9. [M EXCEPT ![i] = L[i]] = L
  <2>1. L = [k \in ASlot |-> L[k]] /\ M = [L EXCEPT ![i] = a]
    BY <1>1 DEF LibOK
  <2> QED
    BY <1>2, <2>1
<1>10. CASE Tuning!Matching(L, p) = {}
  <2>1. L[i] = Tuning!Blank
    BY <1>2, <1>10
  <2>2. Tuning!WithoutAnchor(M, p) = [M EXCEPT ![i] = Tuning!Blank]
    BY <1>7, <1>8 DEF Tuning!WithoutAnchor
  <2> QED
    BY <1>5, <1>9, <1>10, <2>1, <2>2 DEF M
<1>11. CASE Tuning!Matching(L, p) # {}
  <2>1. IsEntry(L[i]) /\ L[i].sp = p /\ Tuning!Matching(L, p) = {i}
    BY <1>2, <1>11
  <2> DEFINE k == Tuning!ListedFirst(L, {i})
  <2>2. k = i
    <3>1. L[i].sp \in Nat
      BY <2>1, TunerAssumption
    <3>2. \A j \in {i} : L[i].sp <= L[j].sp
      BY <3>1
    <3> QED
      BY <3>2 DEF Tuning!ListedFirst
  <2>3. Tuning!PutAnchor(M, L[i]) = [M EXCEPT ![i] = L[i]]
    BY <1>7, <1>8, <2>1 DEF Tuning!PutAnchor, Tuning!SlotFor
  <2> QED
    BY <1>5, <1>9, <1>11, <2>1, <2>2, <2>3 DEF M
<1> QED
  BY <1>10, <1>11

\* Putting back or removing one entry
LEMMA PutBackOK ==
  ASSUME RoomForAll, PointsApart, NEW L, LibOK(L), NEW a, IsEntry(a)
  PROVE  LibOK(Tuning!PutAnchor(L, a))
<1> DEFINE i == Tuning!SlotFor(L, a.sp)
<1>1. a.sp \in Points
  BY DEF IsEntry
<1>2. /\ i \in ASlot
      /\ \/ IsEntry(L[i]) /\ L[i].sp = a.sp /\ Tuning!Matching(L, a.sp) = {i}
         \/ L[i] = Tuning!Blank /\ Tuning!Matching(L, a.sp) = {}
  BY <1>1, SlotIs
<1>3. Tuning!Matching(L, a.sp) = {k \in ASlot : IsEntry(L[k]) /\ L[k].sp = a.sp}
  BY <1>1, MatchingIs
<1> HIDE DEF i
<1>4. \A j \in ASlot \ {i} : IsEntry(L[j]) => L[j].sp # a.sp
  BY <1>2, <1>3
<1>5. LibOK([L EXCEPT ![i] = a])
  BY <1>2, <1>4, OneEntry
<1> QED
  BY <1>5 DEF Tuning!PutAnchor, i

LEMMA WithoutOK ==
  ASSUME PointsApart, NEW L, LibOK(L), NEW p \in Points
  PROVE  LibOK(Tuning!WithoutAnchor(L, p))
<1> DEFINE m == Tuning!Matching(L, p)
<1>1. m \in SUBSET Nat /\ m \subseteq ASlot
  BY MatchingIs DEF ASlot
<1> HIDE DEF m
<1>2. CASE m # {}
  <2>1. Tuning!Min(m) \in ASlot
    BY <1>1, <1>2, LeastIsOne
  <2>2. LibOK([L EXCEPT ![Tuning!Min(m)] = Tuning!Blank])
    BY <2>1, OneEntry
  <2> QED
    BY <1>2, <2>2 DEF Tuning!WithoutAnchor, m
<1> QED
  BY <1>2 DEF Tuning!WithoutAnchor, m

LEMMA CaptureOK == ASSUME LibOK(lib), NEW p, Tuning!Capture(p) PROVE LibOK(lib')
<1> DEFINE m == Tuning!Matching(lib, p)
           i == Tuning!Min(m)
           a == Tuning!TakePlant(lib[i], measures + 1, "capture")
<1>1. CASE m = {}
  BY <1>1 DEF Tuning!Capture
<1>2. CASE m # {}
  <2>1. lib' = [lib EXCEPT ![i] = a]
    BY <1>2 DEF Tuning!Capture
  <2>2. \A k \in m : k \in ASlot /\ IsEntry(lib[k])
    BY UsedIs DEF Tuning!Matching
  <2>3. i \in m
    <3>1. m \in SUBSET Nat
      BY <2>2 DEF ASlot
    <3> QED
      BY <1>2, <3>1, LeastIsOne
  <2>4. IsEntry(a) /\ a.sp = lib[i].sp
    BY <2>2, <2>3, PlantKeepsEntry
  <2>5. \A j \in ASlot \ {i} : IsEntry(lib[j]) => lib[j].sp # lib[i].sp
    BY <2>2, <2>3 DEF LibOK
  <2> HIDE DEF a, i
  <2> QED
    BY <2>1, <2>2, <2>3, <2>4, <2>5, OneEntry
<1> QED
  BY <1>1, <1>2

LEMMA LoadOK == ASSUME LibOK(lib), Tuning!LoadAll PROVE LibOK(lib')
<1> DEFINE ahead(j) == Tuning!Cardinality({i \in Tuning!Used(lib) : i < j})
           kth(k) == {j \in Tuning!Used(lib) : ahead(j) = k - 1}
           packed == Tuning!Packed(lib)
<1>1. /\ lib' = [i \in ASlot |-> Tuning!Heal(packed[i])]
      /\ packed = [k \in ASlot |-> IF kth(k) = {} THEN Tuning!Blank ELSE lib[CHOOSE j \in kth(k) : TRUE]]
  <2>1. lib' = [i \in ASlot |-> Tuning!Heal(packed[i])]
    BY Zenon DEF Tuning!LoadAll, ASlot
  <2>2. packed = [k \in ASlot |-> IF kth(k) = {} THEN Tuning!Blank ELSE lib[CHOOSE j \in kth(k) : TRUE]]
    BY Zenon DEF Tuning!Packed, ASlot
  <2> QED
    BY <2>1, <2>2
<1>2. Tuning!Heal(Tuning!Blank) = Tuning!Blank /\ ~IsEntry(Tuning!Blank)
  BY DEF Tuning!Heal, Tuning!Blank, Tuning!NoPlant, IsEntry
<1>3. \A a : IsEntry(a) => IsEntry(Tuning!Heal(a)) /\ Tuning!Heal(a).sp = a.sp
  BY DEF IsEntry, Tuning!Heal
<1>4. \A k \in ASlot : packed[k] = Tuning!Blank \/ \E j \in kth(k) : packed[k] = lib[j]
  <2> SUFFICES ASSUME NEW k \in ASlot, kth(k) # {} PROVE \E j \in kth(k) : packed[k] = lib[j]
    BY <1>1
  <2>1. (CHOOSE j \in kth(k) : TRUE) \in kth(k)
    OBVIOUS
  <2>2. packed[k] = lib[CHOOSE j \in kth(k) : TRUE]
    BY <1>1
  <2> QED
    BY <2>1, <2>2
<1>5. \A k \in ASlot : \A j \in kth(k) : j \in ASlot /\ IsEntry(lib[j]) /\ ahead(j) = k - 1
  BY UsedIs
<1> HIDE DEF ahead, kth, packed
<1>6. \A k \in ASlot : packed[k] = Tuning!Blank \/ IsEntry(packed[k])
  BY <1>4, <1>5
<1>7. \A k, m \in ASlot : IsEntry(packed[k]) /\ IsEntry(packed[m]) /\ packed[k].sp = packed[m].sp => k = m
  <2> SUFFICES ASSUME NEW k \in ASlot, NEW m \in ASlot, IsEntry(packed[k]), IsEntry(packed[m]),
                      packed[k].sp = packed[m].sp
               PROVE  k = m
    OBVIOUS
  <2>1. PICK j \in kth(k) : packed[k] = lib[j]
    BY <1>2, <1>4
  <2>2. PICK n \in kth(m) : packed[m] = lib[n]
    BY <1>2, <1>4
  <2>3. j = n
    BY <1>5, <2>1, <2>2 DEF LibOK
  <2>4. k - 1 = m - 1
    BY <1>5, <2>1, <2>2, <2>3
  <2> QED
    BY <2>4 DEF ASlot
<1>8. \A i \in ASlot : /\ lib'[i] = Tuning!Blank \/ IsEntry(lib'[i])
                       /\ IsEntry(lib'[i]) => IsEntry(packed[i]) /\ lib'[i].sp = packed[i].sp
  BY <1>1, <1>2, <1>3, <1>6
<1>9. lib' = [i \in ASlot |-> lib'[i]]
  BY <1>1
<1>10. \A i, j \in ASlot : IsEntry(lib'[i]) /\ IsEntry(lib'[j]) /\ lib'[i].sp = lib'[j].sp => i = j
  BY <1>7, <1>8
<1> QED
  BY <1>8, <1>9, <1>10, Zenon DEF LibOK

LEMMA ClearOK == ASSUME Tuning!ClearAnchors PROVE LibOK(lib')
<1>1. lib' = [i \in ASlot |-> Tuning!Blank] /\ ~IsEntry(Tuning!Blank)
  BY DEF Tuning!ClearAnchors, ASlot, IsEntry, Tuning!Blank
<1> QED
  BY <1>1 DEF LibOK

LEMMA TunerInit == Tuning!Init => TunerInv
<1> SUFFICES ASSUME Tuning!Init PROVE TunerInv
  OBVIOUS
<1>1. LibOK(lib)
  <2>1. PICK found \in Databases : lib = found.lib
    BY DEF Tuning!Init, Tuning!LInit
  <2>2. Tuning!IsLibrary(found.lib)
    BY TunerAssumption
  <2> QED
    BY <2>1, <2>2 DEF LibOK, IsEntry, ASlot, Tuning!IsLibrary, Tuning!IsEntry
<1> QED
  BY <1>1 DEF Tuning!Init, Tuning!NoRun, TunerInv, TunerTypeOK, TakesBack, RunFields

\* The run does not move, and what it would take back to is as it was or given up
LEMMA RunStays ==
  ASSUME TunerInv, LibOK(lib'), UNCHANGED run, UNCHANGED <<lib, before>> \/ before' = {}
  PROVE  TunerInv'
<1>1. TunerTypeOK'
  BY DEF TunerInv, TunerTypeOK
<1>2. TakesBack'
  BY DEF TunerInv, TakesBack, Restored, Tuning!PutAnchor, Tuning!WithoutAnchor, Tuning!Point,
         Tuning!Matching, Tuning!Used, Tuning!SlotFor, Tuning!Worth
<1> QED
  BY <1>1, <1>2 DEF TunerInv

\* The run moves on, and has no measurement to verify
LEMMA RunMoves ==
  ASSUME TunerInv, LibOK(lib'), RunFields \subseteq DOMAIN run', run'.phase # "verifying",
         run'.on => run'.points \in Runs /\ run'.step \in 1..Len(run'.points),
         run'.had => IsEntry(run'.anchor)
  PROVE  TunerInv'
BY DEF TunerInv, TunerTypeOK, TakesBack

LEMMA FieldsKept ==
  ASSUME TunerInv, LibOK(lib'), NEW p, p # "verifying",
         \/ run' = [run EXCEPT !.phase = p]
         \/ run' = [run EXCEPT !.on = FALSE, !.phase = p]
         \/ \E n : run' = [run EXCEPT !.tries = n, !.phase = p]
         \/ \E g, r : run' = [run EXCEPT !.phase = p, !.gen = g, !.prev = r]
  PROVE  TunerInv'
<1>1. RunFields \subseteq DOMAIN run
  BY DEF TunerInv, TunerTypeOK
<1>2. /\ RunFields \subseteq DOMAIN run'
      /\ run'.phase = p /\ run'.on \in {run.on, FALSE} /\ run'.points = run.points
      /\ run'.step = run.step /\ run'.had = run.had /\ run'.anchor = run.anchor
  BY <1>1 DEF RunFields
<1> QED
  BY <1>2, RunMoves DEF TunerInv, TunerTypeOK

LEMMA StartInv ==
  ASSUME TunerInv, NEW points \in Runs, NEW fresh \in BOOLEAN, Tuning!Start(points, fresh)
  PROVE  TunerInv'
<1>1. LibOK(lib')
  BY ClearOK DEF Tuning!Start, TunerInv, TunerTypeOK
<1>2. /\ RunFields \subseteq DOMAIN run' /\ run'.phase = "starting" /\ run'.points = points
      /\ run'.step = 1 /\ run'.had = FALSE
  BY DEF Tuning!Start, Tuning!NoRun, RunFields
<1>3. 1 \in 1..Len(points)
  <2>1. points \in Seq(Points) /\ points # <<>>
    BY TunerAssumption
  <2>2. Len(points) \in Nat /\ Len(points) # 0
    BY <2>1, EmptySeq, LenProperties
  <2> QED
    BY <2>2
<1> QED
  BY <1>1, <1>2, <1>3, RunMoves

LEMMA MeasuredInv == ASSUME RoomForAll, PointsApart, TunerInv, Tuning!Measured PROVE TunerInv'
<1> DEFINE p == Tuning!Point
           m == Tuning!Matching(lib, p)
<1>1. run.on /\ LibOK(lib) /\ RunFields \subseteq DOMAIN run
  BY DEF Tuning!Measured, Tuning!Ticks, TunerInv, TunerTypeOK
<1>2. run.points \in Seq(Points) /\ run.points \in Runs /\ run.step \in 1..Len(run.points)
  BY <1>1, TunerAssumption DEF TunerInv, TunerTypeOK
<1>3. p \in Points
  BY <1>2, ElementOfSeq DEF Tuning!Point
<1>4. PICK static : Tuning!Files(relay.id, static)
  BY DEF Tuning!Measured
<1>5. lib' = Tuning!StoreAnchor(lib, p, relay.id, static) /\ before' = {lib}
  BY <1>4 DEF Tuning!Files, Tuning!Measured
<1>6. /\ RunFields \subseteq DOMAIN run'
      /\ run'.on = run.on /\ run'.points = run.points /\ run'.step = run.step
      /\ run'.had = (m # {})
      /\ m # {} => run'.anchor = lib[Tuning!ListedFirst(lib, m)]
  BY <1>1, <1>4 DEF Tuning!Files, Tuning!Kept, RunFields
<1>7. Tuning!Point' = p
  BY <1>6 DEF Tuning!Point
<1> HIDE DEF m
<1>8. /\ LibOK(lib')
      /\ m = {} => Tuning!WithoutAnchor(lib', p) = lib
      /\ m # {} => /\ IsEntry(lib[Tuning!ListedFirst(lib, m)])
                   /\ Tuning!PutAnchor(lib', lib[Tuning!ListedFirst(lib, m)]) = lib
  BY <1>1, <1>3, <1>5, StoreIsUndone DEF m
<1>9. Restored' = lib
  <2>1. Restored' = IF run'.had THEN Tuning!PutAnchor(lib', run'.anchor)
                                ELSE Tuning!WithoutAnchor(lib', p)
    BY <1>7 DEF Restored, Tuning!PutAnchor, Tuning!WithoutAnchor, Tuning!Matching, Tuning!Used,
                Tuning!SlotFor, Tuning!Worth
  <2> QED
    BY <1>6, <1>8, <2>1
<1>10. TunerTypeOK'
  BY <1>1, <1>2, <1>6, <1>8 DEF TunerTypeOK
<1> QED
  BY <1>5, <1>9, <1>10 DEF TunerInv, TakesBack

LEMMA RevertsInv == ASSUME RoomForAll, PointsApart, TunerInv, Tuning!Reverts PROVE TunerInv'
<1>1. run.on /\ LibOK(lib) /\ run' = [run EXCEPT !.phase = "next"]
  BY DEF Tuning!Reverts, Tuning!Ticks, Tuning!Phase, TunerInv, TunerTypeOK
<1>2. run.points \in Seq(Points) /\ run.step \in 1..Len(run.points)
  BY <1>1, TunerAssumption DEF TunerInv, TunerTypeOK
<1>3. Tuning!Point \in Points
  BY <1>2, ElementOfSeq DEF Tuning!Point
<1>4. LibOK(lib')
  <2>1. CASE run.had
    <3>1. IsEntry(run.anchor)
      BY <2>1 DEF TunerInv, TunerTypeOK
    <3> QED
      BY <1>1, <2>1, <3>1, PutBackOK DEF Tuning!Reverts
  <2>2. CASE ~run.had
    BY <1>1, <1>3, <2>2, WithoutOK DEF Tuning!Reverts
  <2> QED
    BY <2>1, <2>2
<1> QED
  BY <1>1, <1>4, FieldsKept

LEMMA NextPointInv == ASSUME TunerInv, Tuning!NextPoint PROVE TunerInv'
<1>1. lib' = lib /\ LibOK(lib) /\ run.on /\ RunFields \subseteq DOMAIN run
  BY DEF Tuning!NextPoint, Tuning!LibUntouched, Tuning!lvars, Tuning!Ticks, TunerInv, TunerTypeOK
<1>2. CASE run.step = Len(run.points)
  <2>1. run' = [run EXCEPT !.phase = "finishing"]
    BY <1>2 DEF Tuning!NextPoint, Tuning!Phase
  <2> QED
    BY <1>1, <2>1, FieldsKept
<1>3. CASE run.step # Len(run.points)
  <2>1. run' = [run EXCEPT !.step = run.step + 1, !.tries = 0, !.phase = "settling"]
    BY <1>3 DEF Tuning!NextPoint
  <2>2. /\ RunFields \subseteq DOMAIN run' /\ run'.phase = "settling" /\ run'.on = run.on
        /\ run'.points = run.points /\ run'.step = run.step + 1 /\ run'.had = run.had
        /\ run'.anchor = run.anchor
    BY <1>1, <2>1 DEF RunFields
  <2>3. run.points \in Seq(Points) /\ run.points \in Runs /\ run.step \in 1..Len(run.points)
    BY <1>1, TunerAssumption DEF TunerInv, TunerTypeOK
  <2>4. run.step + 1 \in 1..Len(run.points)
    <3>1. Len(run.points) \in Nat
      BY <2>3, LenProperties
    <3> QED
      BY <1>3, <2>3, <3>1
  <2> QED
    BY <1>1, <2>2, <2>3, <2>4, RunMoves DEF TunerInv, TunerTypeOK
<1> QED
  BY <1>2, <1>3

LEMMA TunerRestartInv == ASSUME TunerInv, Tuning!Restart PROVE TunerInv'
<1>1. LibOK(lib')
  BY LoadOK DEF Tuning!Restart, TunerInv, TunerTypeOK
<1>2. RunFields \subseteq DOMAIN run' /\ run'.phase = "idle" /\ ~run'.on /\ ~run'.had
  BY DEF Tuning!Restart, Tuning!NoRun, RunFields
<1> QED
  BY <1>1, <1>2, RunMoves

LEMMA ClimbedInv == ASSUME TunerInv, Tuning!Climbed PROVE TunerInv'
<1>1. LibOK(lib)
  BY DEF TunerInv, TunerTypeOK
<1>2. CASE lib' = lib
  BY <1>1, <1>2, RunStays DEF Tuning!Climbed
<1>3. CASE lib' # lib
  <2>1. Tuning!Capture(climb.sp) /\ before' = {} /\ UNCHANGED run
    BY <1>3 DEF Tuning!Climbed, Tuning!lvars
  <2>2. LibOK(lib')
    BY <1>1, <2>1, CaptureOK
  <2> QED
    BY <2>1, <2>2, RunStays
<1> QED
  BY <1>2, <1>3

LEMMA TunerStep ==
  ASSUME RoomForAll, PointsApart, TunerInv, [Tuning!Next]_(Tuning!vars)
  PROVE  TunerInv'
<1>1. LibOK(lib)
  BY DEF TunerInv, TunerTypeOK
<1>2. CASE Tuning!EndRun \/ Tuning!Ended \/ Tuning!GivesUp \/ Tuning!Finishing
  <2>1. lib' = lib /\ run' = [run EXCEPT !.on = FALSE, !.phase = "over"]
    BY <1>2 DEF Tuning!EndRun, Tuning!Ended, Tuning!GivesUp, Tuning!Finishing, Tuning!Finish,
                Tuning!LibUntouched, Tuning!lvars
  <2> QED
    BY <1>1, <2>1, FieldsKept
<1>3. CASE Tuning!Starting \/ Tuning!Passes
  <2>1. lib' = lib /\ \E p \in {"settling", "next"} : run' = [run EXCEPT !.phase = p]
    BY <1>3 DEF Tuning!Starting, Tuning!Passes, Tuning!Phase, Tuning!LibUntouched, Tuning!lvars
  <2> QED
    BY <1>1, <2>1, FieldsKept
<1>4. CASE Tuning!Settling
  <2>1. lib' = lib /\ \E g, r : run' = [run EXCEPT !.phase = "testing", !.gen = g, !.prev = r]
    BY <1>4 DEF Tuning!Settling, Tuning!LibUntouched, Tuning!lvars
  <2> QED
    BY <1>1, <2>1, FieldsKept
<1>5. CASE Tuning!NotMeasured
  <2>1. lib' = lib
    BY <1>5 DEF Tuning!NotMeasured, Tuning!LibUntouched, Tuning!lvars
  <2>2. \/ \E n : run' = [run EXCEPT !.tries = n, !.phase = "settling"]
        \/ run' = [run EXCEPT !.phase = "next"]
    BY <1>5 DEF Tuning!NotMeasured, Tuning!Phase
  <2> QED
    BY <1>1, <2>1, <2>2, FieldsKept
<1>6. CASE \/ Tuning!Serve \/ Tuning!Moves \/ Tuning!Retargets \/ Tuning!TestEnds
           \/ UNCHANGED Tuning!vars
  <2>1. UNCHANGED <<lib, run, before>>
    BY <1>6 DEF Tuning!Serve, Tuning!Moves, Tuning!Retargets, Tuning!TestEnds, Tuning!vars,
                Tuning!lvars, Tuning!tvars
  <2> QED
    BY <1>1, <2>1, RunStays
<1>7. CASE Tuning!Edits
  <2>1. LibOK(lib')
    BY <1>1, <1>7, WithoutOK, ClearOK DEF Tuning!Edits, Tuning!Remove, Tuning!ClearTuning
  <2> QED
    BY <1>7, <2>1, RunStays DEF Tuning!Edits
<1> QED
  BY <1>2, <1>3, <1>4, <1>5, <1>6, <1>7, StartInv, MeasuredInv, RevertsInv, NextPointInv,
     TunerRestartInv, ClimbedInv DEF Tuning!Next

(* What a failed verification puts back is the library the measurement was filed into, whichever *)
(* slot it went to and whatever was in it: for runs over any set points that are not near one    *)
(* another, in a library with room for all of them (tuner.c:412-422, 484; learning.c:551-607,    *)
(* 762-816). Either hypothesis dropped, it is not so (README, Found).                            *)
THEOREM FailedTuneIsTakenBack ==
  ASSUME RoomForAll, PointsApart
  PROVE  SumSpec => TakenBack
<1> DEFINE Inv == which = "tuner" => TunerInv
           Kept == which = "tuner" => Tuning!PutsBack
<1>1. SumInit => Inv
  BY TunerInit DEF SumInit
<1>2. Inv /\ [SumNext]_sumVars => Inv'
  BY TunerStep, TunerPart, SameComponent
<1>3. Inv /\ [SumNext]_sumVars => [Kept]_sumVars
  <2> SUFFICES ASSUME which = "tuner", TunerInv, [Tuning!Next]_(Tuning!vars)
               PROVE  Tuning!PutsBack
    BY TunerPart
  <2>1. Tuning!Reverts \/ UNCHANGED rejected
    BY DEF Tuning!Next, Tuning!vars, Tuning!lvars, Tuning!tvars, Tuning!Start, Tuning!EndRun,
           Tuning!Ended, Tuning!GivesUp, Tuning!Starting, Tuning!Settling, Tuning!Measured,
           Tuning!NotMeasured, Tuning!Passes, Tuning!NextPoint, Tuning!Finishing, Tuning!Restart,
           Tuning!Serve, Tuning!Moves, Tuning!Retargets, Tuning!TestEnds, Tuning!Climbed,
           Tuning!Edits, Tuning!LibUntouched
  <2> QED
    BY <2>1 DEF TunerInv, TakesBack, Restored, Tuning!PutsBack, Tuning!Reverts
<1> QED
  BY <1>1, <1>2, <1>3, PTL DEF SumSpec, TakenBack

-----------------------------------------------------------------------------
(* The alarm table. What a rule reports stays listed, as long as there is a place for it. *)

AlarmKeys == {"key", "active", "acked", "retired", "severe", "at", "cleared", "start", "raises", "shelved"}

\* An entry that is over and done with does not stand
EntryOK(e) ==
  /\ DOMAIN e = AlarmKeys
  /\ e.active \in BOOLEAN /\ e.retired \in BOOLEAN
  /\ e.retired => ~e.active
TableOK(t) == t = [s \in 1..AlarmSlots |-> t[s]] /\ \A s \in 1..AlarmSlots : EntryOK(t[s])
StatesOK ==
  /\ st = [r \in Alarming!Rules |-> st[r]]
  /\ \A r \in Alarming!Rules : DOMAIN st[r] = {"held", "false", "fired", "armed", "raised"}
  /\ \A r \in Alarming!Rules : st[r].raised \in BOOLEAN
FireOK == fire = Alarming!NoFire \/ fire.rule \in Alarming!Rules
AlarmInv == TableOK(alerts_table) /\ StatesOK /\ FireOK /\ Alarming!ReportIsListed

\* Whoever is to write an entry finds its own or an empty place: nothing is taken over or turned away
HasRoom ==
  LET empty == \E s \in 1..AlarmSlots : alerts_table[s] = Alarming!Unused
  IN  /\ alerts_asks < AlarmAsks => empty
      /\ \A r \in Alarming!Rules : Alarming!Of(r) # {} \/ empty

LEMMA AlarmPart == which = "alerts" /\ [SumNext]_sumVars => [Alarming!Next]_(Alarming!avars)
BY DEF SumNext, Others, sumVars, alertsVars, Alarming!avars

LEMMA UnusedOK == EntryOK(Alarming!Unused) /\ Alarming!Unused.key = "none" /\ ~Alarming!Unused.active
BY DEF EntryOK, AlarmKeys, Alarming!Unused

LEMMA EntryKept ==
  ASSUME NEW e, EntryOK(e)
  PROVE  /\ ~e.retired => EntryOK(Alarming!Activated(e))
         /\ Alarming!Activated(e).active /\ Alarming!Activated(e).key = e.key
         /\ EntryOK(Alarming!Cleared(e)) /\ Alarming!Cleared(e).key = e.key
         /\ EntryOK(Alarming!Retired(e)) /\ Alarming!Retired(e).key = e.key
         /\ EntryOK(Alarming!Acked(e)) /\ Alarming!Acked(e).key = e.key
         /\ Alarming!Acked(e).active = e.active
<1>1. /\ ~e.retired => EntryOK(Alarming!Activated(e))
      /\ Alarming!Activated(e).active /\ Alarming!Activated(e).key = e.key
  <2>1. \E a, b, c, d : Alarming!Activated(e) =
          [e EXCEPT !.active = TRUE, !.acked = FALSE, !.at = a, !.cleared = 0, !.raises = b,
                    !.start = c, !.shelved = d]
    BY DEF Alarming!Activated
  <2> QED
    BY <2>1 DEF EntryOK, AlarmKeys
<1>2. EntryOK(Alarming!Cleared(e)) /\ Alarming!Cleared(e).key = e.key
  <2>1. \/ Alarming!Cleared(e) = e
        \/ \E a, b, c : Alarming!Cleared(e) =
             [e EXCEPT !.active = FALSE, !.cleared = a, !.retired = e.acked \/ ~e.severe, !.acked = c]
    BY DEF Alarming!Cleared
  <2> QED
    BY <2>1 DEF EntryOK, AlarmKeys
<1>3. EntryOK(Alarming!Retired(e)) /\ Alarming!Retired(e).key = e.key
  <2>1. \/ Alarming!Retired(e) = e
        \/ \E a : Alarming!Retired(e) =
             [e EXCEPT !.active = FALSE, !.acked = TRUE, !.retired = TRUE, !.cleared = a]
    BY DEF Alarming!Retired
  <2> QED
    BY <2>1 DEF EntryOK, AlarmKeys
<1>4. /\ EntryOK(Alarming!Acked(e)) /\ Alarming!Acked(e).key = e.key
      /\ Alarming!Acked(e).active = e.active
  <2>1. \E a : Alarming!Acked(e) =
          [e EXCEPT !.acked = TRUE, !.retired = e.retired \/ ~e.active, !.cleared = a]
    BY DEF Alarming!Acked
  <2> QED
    BY <2>1 DEF EntryOK, AlarmKeys
<1> QED
  BY <1>1, <1>2, <1>3, <1>4

\* Reaping empties places and touches nothing else
LEMMA ReapedIs ==
  ASSUME TableOK(alerts_table)
  PROVE  /\ TableOK(Alarming!Reaped)
         /\ \A s \in 1..AlarmSlots : \/ Alarming!Reaped[s] = alerts_table[s]
                                     \/ Alarming!Reaped[s] = Alarming!Unused /\ ~alerts_table[s].active
BY UnusedOK DEF TableOK, EntryOK, Alarming!Reaped, Alarming!Stale

LEMMA FirstPlace ==
  ASSUME NEW S \in SUBSET (1..AlarmSlots), S # {}
  PROVE  \E s \in S : \A u \in S : s <= u
<1>1. S \in SUBSET Nat
  BY AlarmAssumption
<1>2. PICK s \in S : \A u \in S : ~(<<u, s>> \in OpToRel(<, Nat))
  BY <1>1, WFMin, NatLessThanWellFounded, Zenon
<1>3. \A u \in S : ~(u < s)
  BY <1>1, <1>2, Zenon DEF OpToRel
<1> QED
  BY <1>1, <1>3

\* With room, a key's entry is its own or an empty place
LEMMA PlaceIs ==
  ASSUME NEW t, DOMAIN t = 1..AlarmSlots, NEW key,
         \/ \E s \in 1..AlarmSlots : t[s].key = key /\ key # "moment"
         \/ \E s \in 1..AlarmSlots : t[s] = Alarming!Unused
  PROVE  /\ Alarming!SlotsFor(t, key) # {}
         /\ \A s \in Alarming!SlotsFor(t, key) :
              s \in 1..AlarmSlots /\ \/ t[s].key = key
                                     \/ /\ t[s] = Alarming!Unused
                                        /\ key # "moment" => \A u \in 1..AlarmSlots : t[u].key # key
<1> DEFINE own == {s \in DOMAIN t : t[s].key = key /\ (key = "moment" => t[s].at = Alarming!Stamp)}
           free == {s \in DOMAIN t : t[s] = Alarming!Unused}
           first == {s \in free : \A u \in free : s <= u}
<1>1. CASE own # {}
  <2>1. Alarming!SlotsFor(t, key) = own
    BY <1>1 DEF Alarming!SlotsFor
  <2> QED
    BY <1>1, <2>1
<1>2. CASE own = {} /\ free # {}
  <2>1. Alarming!SlotsFor(t, key) = first
    BY <1>2 DEF Alarming!SlotsFor
  <2>2. \E s \in free : \A u \in free : s <= u
    BY <1>2, FirstPlace
  <2>3. key # "moment" => \A u \in 1..AlarmSlots : t[u].key # key
    BY <1>2
  <2> QED
    BY <2>1, <2>2, <2>3
<1>3. own # {} \/ free # {}
  OBVIOUS
<1> QED
  BY <1>1, <1>2, <1>3

\* What a raise does
LEMMA RaiseIs ==
  ASSUME TableOK(alerts_table), HasRoom, NEW r \in Alarming!Rules, NEW severe,
         Alarming!Raise(r, severe)
  PROVE  \E s \in 1..AlarmSlots : \E e :
           /\ alerts_table' = [Alarming!Reaped EXCEPT ![s] = e]
           /\ EntryOK(e) /\ e.active /\ e.key = r
           /\ \/ Alarming!Reaped[s].key = r
              \/ /\ Alarming!Reaped[s] = Alarming!Unused
                 /\ \A u \in 1..AlarmSlots : Alarming!Reaped[u].key # r
<1> DEFINE t == Alarming!Reaped
<1>1. TableOK(t) /\ DOMAIN t = 1..AlarmSlots
  BY ReapedIs DEF TableOK, Alarming!Reaped
<1>2. r # "moment" /\ r # "none"
  BY DEF Alarming!Rules
<1>3. \/ \E s \in 1..AlarmSlots : t[s].key = r /\ r # "moment"
      \/ \E s \in 1..AlarmSlots : t[s] = Alarming!Unused
  <2>1. CASE Alarming!Of(r) # {}
    <3>1. PICK s \in 1..AlarmSlots : alerts_table[s].key = r
      BY <2>1 DEF Alarming!Of
    <3> QED
      BY <1>2, <3>1, ReapedIs
  <2>2. CASE \E s \in 1..AlarmSlots : alerts_table[s] = Alarming!Unused
    BY <2>2, ReapedIs
  <2> QED
    BY <2>1, <2>2 DEF HasRoom
<1>4. /\ Alarming!SlotsFor(t, r) # {}
      /\ \A s \in Alarming!SlotsFor(t, r) :
           s \in 1..AlarmSlots /\ \/ t[s].key = r
                                  \/ /\ t[s] = Alarming!Unused
                                     /\ \A u \in 1..AlarmSlots : t[u].key # r
  <2>1. DOMAIN t = 1..AlarmSlots
    BY <1>1
  <2>3. Alarming!SlotsFor(t, r) # {}
    BY <2>1, <1>3, PlaceIs
  <2>2. \A s \in Alarming!SlotsFor(t, r) :
              s \in 1..AlarmSlots /\ \/ t[s].key = r
                                     \/ /\ t[s] = Alarming!Unused
                                        /\ r # "moment" => \A u \in 1..AlarmSlots : t[u].key # r
    BY <2>1, <1>3, PlaceIs
  <2> QED
    BY <2>2, <2>3, <1>2
<1> HIDE DEF t
<1> DEFINE Entry(s) == IF t[s] = Alarming!Unused
                       THEN [Alarming!Unused EXCEPT !.key = r, !.start = Alarming!Stamp] ELSE t[s]
           Shown(s) == [Entry(s) EXCEPT !.severe = severe, !.retired = FALSE]
           New(s) == IF Shown(s).active THEN Shown(s) ELSE Alarming!Activated(Shown(s))
<1>5. PICK s \in Alarming!SlotsFor(t, r) : alerts_table' = [t EXCEPT ![s] = New(s)]
  BY <1>4 DEF Alarming!Raise, t
<1>6. s \in 1..AlarmSlots /\ EntryOK(t[s])
  BY <1>1, <1>4 DEF TableOK
<1>7. EntryOK(Entry(s)) /\ Entry(s).key = r
  <2>1. CASE t[s] = Alarming!Unused
    BY <2>1 DEF EntryOK, AlarmKeys, Alarming!Unused
  <2>2. CASE t[s] # Alarming!Unused
    BY <1>4, <1>6, <2>2
  <2> QED
    BY <2>1, <2>2
<1> HIDE DEF Entry
<1>8. EntryOK(Shown(s)) /\ Shown(s).key = r /\ ~Shown(s).retired
  BY <1>7 DEF EntryOK, AlarmKeys
<1> HIDE DEF Shown
<1>9. EntryOK(New(s)) /\ New(s).active /\ New(s).key = r
  BY <1>8, EntryKept
<1> QED
  BY <1>4, <1>5, <1>6, <1>9 DEF t

\* Entries that stand, of a rule that is not the one spoken of, still do
Listed(t, r) == \E s \in 1..AlarmSlots : t[s].key = r /\ t[s].active

LEMMA ListedIs ==
  Alarming!ReportIsListed <=>
    \A r \in Alarming!Rules : st[r].raised /\ fire.rule # r => Listed(alerts_table, r)
BY DEF Alarming!ReportIsListed, Listed, Alarming!Of

\* After a raise the rule is listed, and whatever was still is
LEMMA RaiseLists ==
  ASSUME TableOK(alerts_table), HasRoom, NEW r \in Alarming!Rules, NEW severe,
         Alarming!Raise(r, severe)
  PROVE  /\ TableOK(alerts_table') /\ Listed(alerts_table', r)
         /\ \A k \in Alarming!Rules : Listed(alerts_table, k) => Listed(alerts_table', k)
<1> DEFINE t == Alarming!Reaped
<1>0. PICK s \in 1..AlarmSlots : \E e :
        /\ alerts_table' = [t EXCEPT ![s] = e]
        /\ EntryOK(e) /\ e.active /\ e.key = r
        /\ \/ t[s].key = r
           \/ t[s] = Alarming!Unused /\ \A u \in 1..AlarmSlots : t[u].key # r
  BY RaiseIs
<1>1. PICK e :
        /\ alerts_table' = [t EXCEPT ![s] = e]
        /\ EntryOK(e) /\ e.active /\ e.key = r
        /\ \/ t[s].key = r
           \/ t[s] = Alarming!Unused /\ \A u \in 1..AlarmSlots : t[u].key # r
  BY <1>0
<1>2. TableOK(t)
  BY ReapedIs
<1>3. \A u \in 1..AlarmSlots : \/ t[u] = alerts_table[u]
                               \/ t[u] = Alarming!Unused /\ ~alerts_table[u].active
  BY ReapedIs
<1> HIDE DEF t
<1>4. TableOK(alerts_table')
  BY <1>1, <1>2 DEF TableOK
<1>5. alerts_table'[s] = e /\ \A u \in 1..AlarmSlots \ {s} : alerts_table'[u] = t[u]
  BY <1>1, <1>2 DEF TableOK
<1>6. Listed(alerts_table', r)
  BY <1>1, <1>5 DEF Listed
<1>7. ASSUME NEW k \in Alarming!Rules, Listed(alerts_table, k) PROVE Listed(alerts_table', k)
  <2>1. PICK u \in 1..AlarmSlots : alerts_table[u].key = k /\ alerts_table[u].active
    BY <1>7 DEF Listed
  <2>2. t[u] = alerts_table[u]
    BY <1>3, <2>1
  <2>3. CASE u # s
    BY <1>5, <2>1, <2>2, <2>3 DEF Listed
  <2>4. CASE u = s
    <3>1. t[s].key = r
      BY <1>1, <2>1, <2>2, <2>4, UnusedOK
    <3> QED
      BY <1>6, <2>1, <2>2, <2>4, <3>1
  <2> QED
    BY <2>3, <2>4
<1> QED
  BY <1>4, <1>6, <1>7

LEMMA AlarmInit == Alarming!Init => AlarmInv
<1> SUFFICES ASSUME Alarming!Init PROVE AlarmInv
  OBVIOUS
<1>1. TableOK(alerts_table)
  BY UnusedOK DEF Alarming!Init, TableOK
<1>2. StatesOK /\ \A r \in Alarming!Rules : ~st[r].raised
  BY DEF Alarming!Init, StatesOK, Alarming!Fresh
<1>3. FireOK
  BY DEF Alarming!Init, FireOK
<1> QED
  BY <1>1, <1>2, <1>3 DEF AlarmInv, Alarming!ReportIsListed

LEMMA AnnounceInv == ASSUME AlarmInv, HasRoom, Alarming!Announce PROVE AlarmInv'
<1>1. /\ UNCHANGED st /\ fire' = Alarming!NoFire /\ fire # Alarming!NoFire
      /\ Alarming!Raise(fire.rule, Alarming!Severe(fire.rule))
  BY DEF Alarming!Announce
<1>2. CASE fire.rule \in Alarming!Rules
  <2>1. /\ TableOK(alerts_table') /\ Listed(alerts_table', fire.rule)
        /\ \A k \in Alarming!Rules : Listed(alerts_table, k) => Listed(alerts_table', k)
    BY <1>1, <1>2, RaiseLists DEF AlarmInv
  <2>2. \A r \in Alarming!Rules : st[r].raised => Listed(alerts_table', r)
    BY <2>1, ListedIs DEF AlarmInv
  <2> QED
    BY <1>1, <2>1, <2>2 DEF AlarmInv, StatesOK, FireOK, Alarming!ReportIsListed, Listed, Alarming!Of
<1> QED
  BY <1>1, <1>2 DEF AlarmInv, FireOK

LEMMA TestInv ==
  ASSUME AlarmInv, HasRoom, NEW r \in Alarming!Rules, Alarming!Test(r) PROVE AlarmInv'
<1>1. UNCHANGED <<st, fire>> /\ Alarming!Raise(r, Alarming!Severe(r))
  BY DEF Alarming!Test
<1>2. /\ TableOK(alerts_table')
      /\ \A k \in Alarming!Rules : Listed(alerts_table, k) => Listed(alerts_table', k)
  BY <1>1, RaiseLists DEF AlarmInv
<1>3. \A k \in Alarming!Rules : st[k].raised /\ fire.rule # k => Listed(alerts_table', k)
  BY <1>2, ListedIs DEF AlarmInv
<1> QED
  BY <1>1, <1>2, <1>3 DEF AlarmInv, StatesOK, FireOK, Alarming!ReportIsListed, Listed, Alarming!Of

\* A moment takes an empty place or the one of a moment
LEMMA MomentIs ==
  ASSUME TableOK(alerts_table), HasRoom, Alarming!Moment
  PROVE  \E s \in 1..AlarmSlots :
           /\ alerts_table' = [alerts_table EXCEPT ![s] =
                [Alarming!Unused EXCEPT !.key = "moment", !.at = Alarming!Stamp]]
           /\ alerts_table[s] = Alarming!Unused \/ alerts_table[s].key = "moment"
<1> DEFINE empty == \E s \in 1..AlarmSlots : alerts_table[s] = Alarming!Unused
<1>1. empty
  BY DEF HasRoom, Alarming!Moment, Alarming!Asked
<1>2. DOMAIN alerts_table = 1..AlarmSlots
  BY DEF TableOK
<1>3. Alarming!SlotsFor(alerts_table, "moment") # {}
  BY <1>1, <1>2, PlaceIs
<1>4. \A s \in Alarming!SlotsFor(alerts_table, "moment") :
        s \in 1..AlarmSlots /\ (alerts_table[s] = Alarming!Unused \/ alerts_table[s].key = "moment")
  BY <1>1, <1>2, PlaceIs
<1> QED
  BY <1>3, <1>4 DEF Alarming!Moment

LEMMA MomentInv == ASSUME AlarmInv, HasRoom, Alarming!Moment PROVE AlarmInv'
<1> DEFINE e == [Alarming!Unused EXCEPT !.key = "moment", !.at = Alarming!Stamp]
<1>1. PICK s \in 1..AlarmSlots :
        /\ alerts_table' = [alerts_table EXCEPT ![s] = e]
        /\ alerts_table[s] = Alarming!Unused \/ alerts_table[s].key = "moment"
  BY MomentIs DEF AlarmInv
<1>2. EntryOK(e)
  BY DEF EntryOK, AlarmKeys, Alarming!Unused
<1>3. UNCHANGED <<st, fire>>
  BY DEF Alarming!Moment
<1> HIDE DEF e
<1>4. TableOK(alerts_table') /\ \A u \in 1..AlarmSlots \ {s} : alerts_table'[u] = alerts_table[u]
  BY <1>1, <1>2 DEF AlarmInv, TableOK
<1>5. \A k \in Alarming!Rules, u \in 1..AlarmSlots : alerts_table[u].key = k => u # s
  BY <1>1, UnusedOK DEF Alarming!Rules
<1>6. \A k \in Alarming!Rules : Listed(alerts_table, k) => Listed(alerts_table', k)
  BY <1>4, <1>5 DEF Listed
<1>7. \A k \in Alarming!Rules : st[k].raised /\ fire.rule # k => Listed(alerts_table', k)
  BY <1>6, ListedIs DEF AlarmInv
<1> QED
  BY <1>3, <1>4, <1>7 DEF AlarmInv, StatesOK, FireOK, Alarming!ReportIsListed, Listed, Alarming!Of

\* A step that leaves every entry its key, and every rule that is still reported its standing
LEMMA EntriesKept ==
  ASSUME AlarmInv, UNCHANGED fire, StatesOK', TableOK(alerts_table'),
         \A s \in 1..AlarmSlots : alerts_table'[s].key = alerts_table[s].key,
         \A r \in Alarming!Rules, s \in 1..AlarmSlots :
           st'[r].raised /\ alerts_table[s].key = r => /\ st[r].raised
                                                       /\ alerts_table'[s].active = alerts_table[s].active,
         \A r \in Alarming!Rules : st'[r].raised => st[r].raised
  PROVE  AlarmInv'
<1>1. \A k \in Alarming!Rules : st'[k].raised /\ fire.rule # k => Listed(alerts_table', k)
  BY ListedIs DEF AlarmInv, Listed
<1> QED
  BY <1>1 DEF AlarmInv, FireOK, Alarming!ReportIsListed, Listed, Alarming!Of

LEMMA RetireInv ==
  ASSUME AlarmInv, NEW r \in Alarming!Rules, Alarming!Retire(r) PROVE AlarmInv'
<1>1. CASE ~st[r].raised
  BY <1>1, Zenon DEF Alarming!Retire, AlarmInv, StatesOK, FireOK, Alarming!ReportIsListed, Alarming!Of
<1>2. CASE st[r].raised
  <2> DEFINE Off(e) == Alarming!Retired(e)
             s0 == [Alarming!Fresh EXCEPT !.fired = st[r].fired]
  <2>1. /\ st' = [st EXCEPT ![r] = s0] /\ UNCHANGED fire
        /\ alerts_table' = [s \in 1..AlarmSlots |->
             IF alerts_table[s].key = r THEN Off(alerts_table[s]) ELSE alerts_table[s]]
    BY <1>2 DEF Alarming!Retire
  <2>2. \A s \in 1..AlarmSlots : /\ EntryOK(Off(alerts_table[s]))
                                 /\ Off(alerts_table[s]).key = alerts_table[s].key
    BY EntryKept DEF AlarmInv, TableOK
  <2>3. s0.raised = FALSE /\ DOMAIN s0 = {"held", "false", "fired", "armed", "raised"}
    BY DEF Alarming!Fresh
  <2> HIDE DEF Off, s0
  <2>4. TableOK(alerts_table') /\ \A s \in 1..AlarmSlots : alerts_table'[s].key = alerts_table[s].key
    BY <2>1, <2>2 DEF AlarmInv, TableOK
  <2>5. StatesOK' /\ st'[r].raised = FALSE /\ \A k \in Alarming!Rules \ {r} : st'[k] = st[k]
    BY <2>1, <2>3 DEF AlarmInv, StatesOK
  <2>6. \A s \in 1..AlarmSlots : alerts_table[s].key # r => alerts_table'[s] = alerts_table[s]
    BY <2>1
  <2> QED
    BY <2>1, <2>4, <2>5, <2>6, EntriesKept
<1> QED
  BY <1>1, <1>2

LEMMA EndsInv ==
  ASSUME AlarmInv, NEW r \in Alarming!Rules, Alarming!Ends(r) PROVE AlarmInv'
<1> DEFINE Over(e) == Alarming!Cleared(e)
           since == IF st[r].false = 0 THEN Alarming!Stamp ELSE st[r].false
           over == st[r].raised /\ Alarming!Stamp - since >= ClearAfter
           false == IF ~st[r].raised THEN st[r].false ELSE IF over THEN 0 ELSE since
           s0 == [st[r] EXCEPT !.held = 0, !.armed = TRUE, !.raised = st[r].raised /\ ~over,
                               !.false = false]
<1>1. st' = [st EXCEPT ![r] = s0] /\ UNCHANGED fire
  BY DEF Alarming!Ends, AlarmInv, StatesOK
<1>2. IF over THEN alerts_table' = [s \in 1..AlarmSlots |->
                     IF alerts_table[s].key = r THEN Over(alerts_table[s]) ELSE alerts_table[s]]
              ELSE UNCHANGED alerts_table
  BY DEF Alarming!Ends, Alarming!Clear
<1>3. \A s \in 1..AlarmSlots : /\ EntryOK(Over(alerts_table[s]))
                               /\ Over(alerts_table[s]).key = alerts_table[s].key
  BY EntryKept DEF AlarmInv, TableOK
<1> HIDE DEF over, since, false, Over
<1>4. /\ s0.raised = (st[r].raised /\ ~over)
      /\ DOMAIN s0 = {"held", "false", "fired", "armed", "raised"}
  BY DEF AlarmInv, StatesOK
<1> HIDE DEF s0
<1>5. TableOK(alerts_table') /\ \A s \in 1..AlarmSlots : alerts_table'[s].key = alerts_table[s].key
  BY <1>2, <1>3 DEF AlarmInv, TableOK
<1>6. /\ StatesOK' /\ st'[r].raised = (st[r].raised /\ ~over)
      /\ \A k \in Alarming!Rules \ {r} : st'[k] = st[k]
  BY <1>1, <1>4 DEF AlarmInv, StatesOK
<1>7. \A s \in 1..AlarmSlots : alerts_table[s].key # r \/ ~over => alerts_table'[s] = alerts_table[s]
  BY <1>2
<1> QED
  BY <1>1, <1>5, <1>6, <1>7, EntriesKept

LEMMA StandsInv ==
  ASSUME AlarmInv, NEW r \in Alarming!Rules, Alarming!Stands(r) PROVE AlarmInv'
<1> DEFINE s == st[r]
           held == IF s.held = 0 THEN Alarming!Stamp ELSE s.held
           due == s.armed \/ (Alarming!Severe(r) /\ Repeat > 0 /\ Alarming!Stamp - s.fired >= Repeat)
           speaks == /\ Alarming!Stamp - held >= For /\ due
                     /\ ~(s.fired > 0 /\ Alarming!Stamp - s.fired < Cooldown)
           fired == IF speaks THEN Alarming!Stamp ELSE s.fired
           s0 == [held |-> held, false |-> 0, fired |-> fired, armed |-> s.armed /\ ~speaks,
                  raised |-> s.raised \/ speaks]
           f0 == [rule |-> r, again |-> ~s.armed]
<1>1. /\ st' = [st EXCEPT ![r] = s0] /\ fire' = IF speaks THEN f0 ELSE Alarming!NoFire
      /\ fire = Alarming!NoFire /\ UNCHANGED alerts_table
  BY DEF Alarming!Stands, Alarming!Watched
<1> HIDE DEF speaks, held, fired
<1>2. /\ s0.raised = (s.raised \/ speaks)
      /\ DOMAIN s0 = {"held", "false", "fired", "armed", "raised"}
  OBVIOUS
<1>3. f0.rule = r /\ Alarming!NoFire.rule = "none"
  BY DEF Alarming!NoFire
<1> HIDE DEF s0, f0
<1>4. /\ StatesOK' /\ st'[r].raised = (st[r].raised \/ speaks)
      /\ \A k \in Alarming!Rules \ {r} : st'[k] = st[k]
  BY <1>1, <1>2 DEF AlarmInv, StatesOK
<1>5. FireOK' /\ (speaks => fire'.rule = r)
  BY <1>1, <1>3, Zenon DEF FireOK
<1>6. \A k \in Alarming!Rules : st[k].raised => Listed(alerts_table, k)
  BY <1>1, <1>3, ListedIs DEF AlarmInv, Alarming!Rules
<1>7. \A k \in Alarming!Rules : st'[k].raised /\ fire'.rule # k => Listed(alerts_table, k)
  BY <1>4, <1>5, <1>6
<1> QED
  BY <1>1, <1>4, <1>5, <1>7 DEF AlarmInv, Alarming!ReportIsListed, Listed, Alarming!Of

LEMMA SeenInv ==
  ASSUME AlarmInv, NEW s \in 1..AlarmSlots, Alarming!Ack(s) \/ Alarming!Shelve(s) PROVE AlarmInv'
<1>1. \E e : /\ alerts_table' = [alerts_table EXCEPT ![s] = e] /\ EntryOK(e)
             /\ e.key = alerts_table[s].key /\ e.active = alerts_table[s].active
  <2>1. EntryOK(alerts_table[s])
    BY DEF AlarmInv, TableOK
  <2>2. CASE Alarming!Ack(s)
    BY <2>1, <2>2, EntryKept DEF Alarming!Ack
  <2>3. CASE Alarming!Shelve(s)
    <3>1. alerts_table' =
            [alerts_table EXCEPT ![s] = [alerts_table[s] EXCEPT !.shelved = Alarming!Stamp + Shelf,
                                                                !.acked = TRUE]]
      BY <2>3 DEF Alarming!Shelve, AlarmInv, TableOK
    <3>2. \A a : LET e == [alerts_table[s] EXCEPT !.shelved = a, !.acked = TRUE]
                 IN  EntryOK(e) /\ e.key = alerts_table[s].key /\ e.active = alerts_table[s].active
      BY <2>1 DEF EntryOK, AlarmKeys
    <3> QED
      BY <3>1, <3>2
  <2> QED
    BY <2>2, <2>3
<1>2. UNCHANGED <<st, fire>>
  BY DEF Alarming!Ack, Alarming!Shelve
<1>3. /\ TableOK(alerts_table')
      /\ \A u \in 1..AlarmSlots : /\ alerts_table'[u].key = alerts_table[u].key
                                  /\ alerts_table'[u].active = alerts_table[u].active
  BY <1>1 DEF AlarmInv, TableOK
<1> QED
  BY <1>2, <1>3, EntriesKept DEF AlarmInv, StatesOK

LEMMA AlarmStep == AlarmInv /\ HasRoom /\ [Alarming!Next]_(Alarming!avars) => AlarmInv'
<1> SUFFICES ASSUME AlarmInv, HasRoom, [Alarming!Next]_(Alarming!avars) PROVE AlarmInv'
  OBVIOUS
<1>1. ASSUME UNCHANGED <<st, fire, alerts_table>> PROVE AlarmInv'
  BY <1>1 DEF AlarmInv, TableOK, StatesOK, FireOK, Alarming!ReportIsListed, Alarming!Of
<1>2. CASE \/ Alarming!Tick \/ UNCHANGED Alarming!avars
           \/ \E r \in Alarming!Rules, to \in {"on", "off", "gone"} : Alarming!Edit(r, to)
  BY <1>1, <1>2 DEF Alarming!Tick, Alarming!Edit, Alarming!avars
<1> QED
  BY <1>2, AnnounceInv, MomentInv, TestInv, RetireInv, EndsInv, StandsInv, SeenInv DEF Alarming!Next

(* What a rule reports stands in the table, whatever is acknowledged, silenced, tested, edited or  *)
(* noted between any two of its steps, for every set of times: as long as whoever writes an entry  *)
(* finds its own or an empty place (rules.c:656-788, alarms.c:80-235).                             *)
THEOREM ReportListedWithRoom == SumSpec /\ [](which = "alerts" => HasRoom) => []ReportIsListed
<1> DEFINE Inv == which = "alerts" => AlarmInv
           Room == which = "alerts" => HasRoom
<1>1. SumInit => Inv
  BY AlarmInit DEF SumInit
<1>2. Inv /\ Room /\ [SumNext]_sumVars => Inv'
  BY AlarmStep, AlarmPart, SameComponent
<1>3. Inv => ReportIsListed
  BY DEF AlarmInv, ReportIsListed
<1> QED
  BY <1>1, <1>2, <1>3, PTL DEF SumSpec

\* Every rule has at most one entry, and there are no more moments than were asked for
Moments(t) == {s \in 1..AlarmSlots : t[s].key = "moment"}
KeysOK(t) ==
  /\ \A s \in 1..AlarmSlots : /\ t[s].key \in {"none", "moment"} \cup Alarming!Rules
                              /\ t[s].key = "none" => t[s] = Alarming!Unused
  /\ \A r \in Alarming!Rules, s, u \in 1..AlarmSlots : t[s].key = r /\ t[u].key = r => s = u
RoomInv ==
  /\ KeysOK(alerts_table) /\ Cardinality(Moments(alerts_table)) <= alerts_asks
  /\ alerts_asks \in Nat /\ alerts_asks <= AlarmAsks

LEMMA MomentsAreFew ==
  ASSUME NEW t, NEW S \in SUBSET Moments(t)
  PROVE  /\ IsFiniteSet(S) /\ Cardinality(S) \in Nat
         /\ Cardinality(S) <= Cardinality(Moments(t)) /\ Cardinality(Moments(t)) \in Nat
<1>1. IsFiniteSet(1..AlarmSlots)
  BY AlarmAssumption, FS_Interval
<1>2. IsFiniteSet(Moments(t))
  BY <1>1, FS_Subset DEF Moments
<1> QED
  BY <1>2, FS_Subset, FS_CardinalityType

\* With as many places as there may be moments, and two for the rules, there is room
LEMMA FewFindRoom ==
  ASSUME AlarmAsks + 2 <= AlarmSlots, RoomInv
  PROVE  HasRoom
<1> DEFINE m == Moments(alerts_table)
           l == Alarming!Of("low")
           c == Alarming!Of("critical")
           used == m \cup l \cup c
<1> SUFFICES ASSUME \A s \in 1..AlarmSlots : alerts_table[s] # Alarming!Unused
             PROVE  /\ ~(alerts_asks < AlarmAsks)
                    /\ \A r \in Alarming!Rules : Alarming!Of(r) # {}
  BY DEF HasRoom
<1>1. /\ IsFiniteSet(m) /\ Cardinality(m) \in Nat /\ Cardinality(m) <= alerts_asks
      /\ alerts_asks \in Nat /\ alerts_asks <= AlarmAsks /\ AlarmAsks \in Nat /\ AlarmSlots \in Nat
  BY MomentsAreFew, AlarmAssumption DEF RoomInv
<1>2. 1..AlarmSlots = used
  BY DEF Moments, Alarming!Of, Alarming!Rules, RoomInv, KeysOK
<1>3. Cardinality(1..AlarmSlots) = AlarmSlots
  BY <1>1, FS_Interval
<1>4. ASSUME NEW S, \A s, u \in S : s = u
      PROVE  /\ IsFiniteSet(S) /\ Cardinality(S) \in Nat /\ Cardinality(S) <= 1
             /\ S = {} => Cardinality(S) = 0
  <2>1. CASE S = {}
    BY <2>1, FS_EmptySet
  <2>2. CASE S # {}
    <3>1. PICK s \in S : S = {s}
      BY <1>4, <2>2
    <3> QED
      BY <3>1, FS_Singleton
  <2> QED
    BY <2>1, <2>2
<1>5. (\A s, u \in l : s = u) /\ (\A s, u \in c : s = u)
  BY DEF Alarming!Of, Alarming!Rules, RoomInv, KeysOK
<1> HIDE DEF m, l, c
<1>6. /\ IsFiniteSet(l) /\ Cardinality(l) \in Nat /\ Cardinality(l) <= 1
      /\ l = {} => Cardinality(l) = 0
  BY <1>4, <1>5
<1>7. /\ IsFiniteSet(c) /\ Cardinality(c) \in Nat /\ Cardinality(c) <= 1
      /\ c = {} => Cardinality(c) = 0
  BY <1>4, <1>5
<1>8. /\ IsFiniteSet(m \cup l) /\ Cardinality(m \cup l) \in Nat
      /\ Cardinality(m \cup l) <= Cardinality(m) + Cardinality(l)
  <2>1. IsFiniteSet(m \cap l) /\ Cardinality(m \cap l) \in Nat
    BY <1>1, FS_Intersection, FS_CardinalityType
  <2>2. /\ IsFiniteSet(m \cup l)
        /\ Cardinality(m \cup l) = Cardinality(m) + Cardinality(l) - Cardinality(m \cap l)
    BY <1>1, <1>6, FS_Union
  <2>3. Cardinality(m \cup l) \in Nat
    BY <2>2, FS_CardinalityType
  <2> QED
    BY <1>1, <1>6, <2>1, <2>2, <2>3
<1>9. Cardinality(used) <= Cardinality(m) + Cardinality(l) + Cardinality(c)
  <2>1. IsFiniteSet((m \cup l) \cap c) /\ Cardinality((m \cup l) \cap c) \in Nat
    BY <1>8, FS_Intersection, FS_CardinalityType
  <2>2. Cardinality(used) =
          Cardinality(m \cup l) + Cardinality(c) - Cardinality((m \cup l) \cap c)
    BY <1>7, <1>8, FS_Union
  <2> QED
    BY <1>1, <1>6, <1>7, <1>8, <2>1, <2>2
<1>10. AlarmSlots <= Cardinality(m) + Cardinality(l) + Cardinality(c)
  BY <1>2, <1>3, <1>9
<1>11. ~(alerts_asks < AlarmAsks) /\ l # {} /\ c # {}
  BY <1>1, <1>6, <1>7, <1>10
<1> QED
  BY <1>11 DEF l, c, Alarming!Rules

LEMMA KeysKept ==
  ASSUME RoomInv, alerts_asks' \in Nat, alerts_asks <= alerts_asks', alerts_asks' <= AlarmAsks,
         \A s \in 1..AlarmSlots : /\ alerts_table'[s].key = alerts_table[s].key
                                  /\ alerts_table[s].key = "none" => alerts_table'[s] = alerts_table[s]
  PROVE  RoomInv'
<1>1. Moments(alerts_table') = Moments(alerts_table)
  BY DEF Moments
<1>2. Cardinality(Moments(alerts_table)) \in Nat
  BY MomentsAreFew
<1>3. KeysOK(alerts_table')
  BY DEF RoomInv, KeysOK
<1>4. Cardinality(Moments(alerts_table')) <= alerts_asks'
  BY <1>1, <1>2 DEF RoomInv
<1> QED
  BY <1>3, <1>4 DEF RoomInv

LEMMA AskedIs ==
  ASSUME RoomInv, Alarming!Asked
  PROVE  alerts_asks' \in Nat /\ alerts_asks' = alerts_asks + 1 /\ alerts_asks' <= AlarmAsks
BY AlarmAssumption DEF RoomInv, Alarming!Asked

LEMMA RaiseRoom ==
  ASSUME TableOK(alerts_table), HasRoom, RoomInv, NEW r \in Alarming!Rules, NEW severe,
         Alarming!Raise(r, severe)
  PROVE  KeysOK(alerts_table') /\ Moments(alerts_table') \in SUBSET Moments(alerts_table)
<1> DEFINE t == Alarming!Reaped
<1>0. PICK s \in 1..AlarmSlots : \E e :
        /\ alerts_table' = [t EXCEPT ![s] = e]
        /\ EntryOK(e) /\ e.active /\ e.key = r
        /\ \/ t[s].key = r
           \/ t[s] = Alarming!Unused /\ \A u \in 1..AlarmSlots : t[u].key # r
  BY RaiseIs
<1>1. PICK e :
        /\ alerts_table' = [t EXCEPT ![s] = e]
        /\ EntryOK(e) /\ e.active /\ e.key = r
        /\ \/ t[s].key = r
           \/ t[s] = Alarming!Unused /\ \A u \in 1..AlarmSlots : t[u].key # r
  BY <1>0
<1>2. TableOK(t)
  BY ReapedIs
<1>3. \A u \in 1..AlarmSlots : t[u] = alerts_table[u] \/ t[u] = Alarming!Unused
  BY ReapedIs
<1> HIDE DEF t
<1>4. alerts_table'[s].key = r /\ \A u \in 1..AlarmSlots \ {s} : alerts_table'[u] = t[u]
  BY <1>1, <1>2 DEF TableOK
<1>5. r # "none" /\ r # "moment" /\ "none" \notin Alarming!Rules
  BY DEF Alarming!Rules
<1>6. KeysOK(t)
  BY <1>3, <1>5, UnusedOK DEF RoomInv, KeysOK
<1>7. \A u \in 1..AlarmSlots : /\ alerts_table'[u].key \in {"none", "moment"} \cup Alarming!Rules
                               /\ alerts_table'[u].key = "none" => alerts_table'[u] = Alarming!Unused
  BY <1>4, <1>5, <1>6 DEF KeysOK
<1>8. \A k \in Alarming!Rules, u, v \in 1..AlarmSlots :
        alerts_table'[u].key = k /\ alerts_table'[v].key = k => u = v
  <2>1. \A u \in 1..AlarmSlots : t[u].key = r => u = s
    BY <1>1, <1>6 DEF KeysOK
  <2> QED
    BY <1>4, <1>6, <2>1 DEF KeysOK
<1>9. \A u \in 1..AlarmSlots : alerts_table'[u].key = "moment" => alerts_table[u].key = "moment"
  BY <1>3, <1>4, <1>5, UnusedOK
<1> QED
  BY <1>7, <1>8, <1>9 DEF KeysOK, Moments

LEMMA RaisedRoom ==
  ASSUME AlarmInv, HasRoom, RoomInv, NEW r \in Alarming!Rules, NEW severe,
         Alarming!Raise(r, severe), alerts_asks' \in Nat, alerts_asks <= alerts_asks',
         alerts_asks' <= AlarmAsks
  PROVE  RoomInv'
<1>1. KeysOK(alerts_table') /\ Moments(alerts_table') \in SUBSET Moments(alerts_table)
  BY RaiseRoom DEF AlarmInv
<1>2. /\ Cardinality(Moments(alerts_table')) \in Nat /\ Cardinality(Moments(alerts_table)) \in Nat
      /\ Cardinality(Moments(alerts_table')) <= Cardinality(Moments(alerts_table))
  BY <1>1, MomentsAreFew
<1>3. Cardinality(Moments(alerts_table')) <= alerts_asks'
  BY <1>2 DEF RoomInv
<1> QED
  BY <1>1, <1>3 DEF RoomInv

LEMMA MomentRoom == ASSUME AlarmInv, HasRoom, RoomInv, Alarming!Moment PROVE RoomInv'
<1> DEFINE e == [Alarming!Unused EXCEPT !.key = "moment", !.at = Alarming!Stamp]
           m == Moments(alerts_table)
<1>1. PICK s \in 1..AlarmSlots :
        /\ alerts_table' = [alerts_table EXCEPT ![s] = e]
        /\ alerts_table[s] = Alarming!Unused \/ alerts_table[s].key = "moment"
  BY MomentIs DEF AlarmInv
<1>2. e.key = "moment"
  BY DEF Alarming!Unused
<1> HIDE DEF e
<1>3. alerts_table'[s].key = "moment" /\ \A u \in 1..AlarmSlots \ {s} : alerts_table'[u] = alerts_table[u]
  BY <1>1, <1>2 DEF AlarmInv, TableOK
<1>4. KeysOK(alerts_table')
  <2>1. "moment" \notin Alarming!Rules /\ "moment" # "none"
    BY DEF Alarming!Rules
  <2> QED
    BY <1>3, <2>1 DEF RoomInv, KeysOK
<1>5. Moments(alerts_table') = m \cup {s}
  BY <1>3 DEF Moments
<1>6. IsFiniteSet(m) /\ Cardinality(m) \in Nat
  BY MomentsAreFew
<1>7. alerts_asks' \in Nat /\ alerts_asks' = alerts_asks + 1 /\ alerts_asks' <= AlarmAsks
  BY AskedIs DEF Alarming!Moment
<1>8. Cardinality(m \cup {s}) = IF s \in m THEN Cardinality(m) ELSE Cardinality(m) + 1
  BY <1>6, FS_AddElement
<1>9. Cardinality(m) <= alerts_asks /\ alerts_asks \in Nat
  BY DEF RoomInv
<1> HIDE DEF m
<1>10. Cardinality(Moments(alerts_table')) <= alerts_asks'
  BY <1>5, <1>6, <1>7, <1>8, <1>9
<1> QED
  BY <1>4, <1>7, <1>10 DEF RoomInv

LEMMA RoomStep ==
  ASSUME AlarmInv, HasRoom, RoomInv, [Alarming!Next]_(Alarming!avars)
  PROVE  RoomInv'
<1>1. alerts_asks \in Nat /\ alerts_asks <= AlarmAsks /\ AlarmAsks \in Nat
  BY AlarmAssumption DEF RoomInv
<1>2. ASSUME UNCHANGED alerts_table, Alarming!Asked \/ UNCHANGED alerts_asks PROVE RoomInv'
  <2>1. alerts_asks' \in Nat /\ alerts_asks <= alerts_asks' /\ alerts_asks' <= AlarmAsks
    BY <1>1, <1>2, AskedIs
  <2> QED
    BY <1>2, <2>1, KeysKept
<1>3. CASE \/ Alarming!Tick \/ UNCHANGED Alarming!avars
           \/ \E r \in Alarming!Rules : Alarming!Stands(r)
           \/ \E r \in Alarming!Rules, to \in {"on", "off", "gone"} : Alarming!Edit(r, to)
  BY <1>2, <1>3 DEF Alarming!Tick, Alarming!Stands, Alarming!Edit, Alarming!avars
<1>4. CASE Alarming!Announce
  <2>1. Alarming!Raise(fire.rule, Alarming!Severe(fire.rule)) /\ UNCHANGED alerts_asks
    BY <1>4 DEF Alarming!Announce
  <2>2. fire.rule \in Alarming!Rules
    BY <1>4 DEF Alarming!Announce, AlarmInv, FireOK
  <2>3. alerts_asks' \in Nat /\ alerts_asks <= alerts_asks' /\ alerts_asks' <= AlarmAsks
    BY <1>1, <2>1
  <2> QED
    BY <2>1, <2>2, <2>3, RaisedRoom
<1>5. ASSUME NEW r \in Alarming!Rules, Alarming!Test(r) PROVE RoomInv'
  <2>1. Alarming!Raise(r, Alarming!Severe(r)) /\ Alarming!Asked
    BY <1>5 DEF Alarming!Test
  <2>2. alerts_asks' \in Nat /\ alerts_asks <= alerts_asks' /\ alerts_asks' <= AlarmAsks
    BY <1>1, <2>1, AskedIs
  <2> QED
    BY <2>1, <2>2, RaisedRoom
<1>6. ASSUME NEW r \in Alarming!Rules, Alarming!Retire(r) \/ Alarming!Ends(r) PROVE RoomInv'
  <2>1. alerts_asks' = alerts_asks
    BY <1>6 DEF Alarming!Retire, Alarming!Ends
  <2>2. \/ UNCHANGED alerts_table
        \/ alerts_table' = [s \in 1..AlarmSlots |->
             IF alerts_table[s].key = r THEN Alarming!Retired(alerts_table[s]) ELSE alerts_table[s]]
        \/ alerts_table' = [s \in 1..AlarmSlots |->
             IF alerts_table[s].key = r THEN Alarming!Cleared(alerts_table[s]) ELSE alerts_table[s]]
    BY <1>6 DEF Alarming!Retire, Alarming!Ends, Alarming!Clear
  <2>3. \A s \in 1..AlarmSlots : /\ Alarming!Retired(alerts_table[s]).key = alerts_table[s].key
                                 /\ Alarming!Cleared(alerts_table[s]).key = alerts_table[s].key
    BY EntryKept DEF AlarmInv, TableOK
  <2>4. r # "none"
    BY DEF Alarming!Rules
  <2>5. \A s \in 1..AlarmSlots :
          /\ alerts_table'[s].key = alerts_table[s].key
          /\ alerts_table[s].key = "none" => alerts_table'[s] = alerts_table[s]
    BY <2>2, <2>3, <2>4
  <2> QED
    BY <1>1, <2>1, <2>5, KeysKept
<1>7. ASSUME NEW s \in 1..AlarmSlots, Alarming!Ack(s) \/ Alarming!Shelve(s) PROVE RoomInv'
  <2>1. alerts_asks' \in Nat /\ alerts_asks <= alerts_asks' /\ alerts_asks' <= AlarmAsks
    BY <1>1, <1>7, AskedIs DEF Alarming!Ack, Alarming!Shelve
  <2>2. \E e : alerts_table' = [alerts_table EXCEPT ![s] = e] /\ e.key = alerts_table[s].key
    <3>1. EntryOK(alerts_table[s])
      BY DEF AlarmInv, TableOK
    <3>2. CASE Alarming!Ack(s)
      BY <3>1, <3>2, EntryKept DEF Alarming!Ack
    <3>3. CASE Alarming!Shelve(s)
      <4>1. alerts_table' =
              [alerts_table EXCEPT ![s] = [alerts_table[s] EXCEPT !.shelved = Alarming!Stamp + Shelf,
                                                                  !.acked = TRUE]]
        BY <3>3 DEF Alarming!Shelve, AlarmInv, TableOK
      <4>2. \A a : [alerts_table[s] EXCEPT !.shelved = a, !.acked = TRUE].key = alerts_table[s].key
        BY <3>1 DEF EntryOK, AlarmKeys
      <4> QED
        BY <4>1, <4>2
    <3> QED
      BY <1>7, <3>2, <3>3
  <2>3. alerts_table[s].key # "none"
    BY <1>7 DEF Alarming!Ack, Alarming!Shelve, Alarming!Used
  <2>4. \A u \in 1..AlarmSlots :
          /\ alerts_table'[u].key = alerts_table[u].key
          /\ alerts_table[u].key = "none" => alerts_table'[u] = alerts_table[u]
    BY <2>2, <2>3 DEF AlarmInv, TableOK
  <2> QED
    BY <2>1, <2>4, KeysKept
<1> QED
  BY <1>3, <1>4, <1>5, <1>6, <1>7, MomentRoom DEF Alarming!Next

LEMMA RoomInit == Alarming!Init => RoomInv
<1> SUFFICES ASSUME Alarming!Init PROVE RoomInv
  OBVIOUS
<1>1. /\ alerts_asks = 0
      /\ alerts_table = [s \in 1..AlarmSlots |-> Alarming!Unused]
  BY DEF Alarming!Init
<1>2. KeysOK(alerts_table)
  <2>1. "none" \notin Alarming!Rules
    BY DEF Alarming!Rules
  <2> QED
    BY <1>1, <2>1, UnusedOK DEF KeysOK
<1>3. Moments(alerts_table) = {}
  BY <1>1, UnusedOK DEF Moments
<1>4. Cardinality(Moments(alerts_table)) = 0
  BY <1>3, FS_EmptySet
<1> QED
  BY <1>1, <1>2, <1>4, AlarmAssumption DEF RoomInv

(* In a table with a place for each of the rules and for each moment there is room, so that what   *)
(* a rule reports is listed; in a smaller one it may not be (alarms.c:80-94, 107; README, Found).   *)
THEOREM ReportListed ==
  ASSUME AlarmAsks + 2 <= AlarmSlots
  PROVE  SumSpec => []ReportIsListed
<1> DEFINE Inv == which = "alerts" => AlarmInv /\ RoomInv
<1>1. SumInit => Inv
  BY AlarmInit, RoomInit DEF SumInit
<1>2. Inv /\ [SumNext]_sumVars => Inv'
  BY AlarmStep, RoomStep, FewFindRoom, AlarmPart, SameComponent
<1>3. Inv => ReportIsListed
  BY DEF AlarmInv, ReportIsListed
<1> QED
  BY <1>1, <1>2, <1>3, PTL DEF SumSpec

-----------------------------------------------------------------------------
(* Conditions. The walk over a tree is defined from its leaves up, so what  *)
(* is proved of it goes from the leaves up as well: a set of nodes that has  *)
(* every node whose conditions it has, has them all.                         *)

\* No tree is deeper than what the parser lets in.
Deepest == 1000

\* What holds of a node when it holds of all in it holds of every node.
LEMMA FromTheLeaves ==
  ASSUME NEW D, NEW S,
         \A p \in D : p \in Seq(Nat) /\ Len(p) <= Deepest,
         \A p \in D : (\A i \in Nat : Append(p, i) \in D => Append(p, i) \in S) => p \in S
  PROVE  D \subseteq S
<1> SUFFICES ASSUME NEW node \in D, node \notin S PROVE FALSE
  OBVIOUS
<1> DEFINE H == {n \in Nat : \E p \in D : p \notin S /\ Len(p) = Deepest - n}
<1>1. Deepest - Len(node) \in H
  BY DEF Deepest
<1>2. PICK n \in H : \A m \in H : n <= m
  BY <1>1, LeastOf
<1>3. PICK p \in D : p \notin S /\ Len(p) = Deepest - n
  OBVIOUS
<1>4. ASSUME NEW i \in Nat, Append(p, i) \in D, Append(p, i) \notin S PROVE FALSE
  <2>1. Len(Append(p, i)) = Len(p) + 1 /\ Len(Append(p, i)) <= Deepest /\ Len(p) \in Nat
    <3>1. p \in Seq(Nat) /\ Len(Append(p, i)) <= Deepest
      BY <1>3, <1>4
    <3> QED BY <3>1, <1>4, AppendProperties
  <2>2. n - 1 \in Nat /\ Len(Append(p, i)) = Deepest - (n - 1)
    BY <1>3, <2>1 DEF Deepest
  <2>3. n - 1 \in H
    BY <1>4, <2>2
  <2> QED BY <1>2, <2>3
<1> QED BY <1>3, <1>4

\* the trees, each node of one with what the walk asks of it
TreeOK ==
  /\ <<>> \in DOMAIN tree
  /\ \A p \in DOMAIN tree :
       /\ p \in Seq(Nat) /\ Len(p) <= Deepest /\ tree[p].for \in Nat
       /\ Judging!IsGroup(p) => tree[p].op \in {"all", "any", "not"}
       /\ ~Judging!IsGroup(p) => tree[p].trait = "none"
                         \/ tree[p].op \in {"is_one_of", "unavailable", "available", ">=",
                                            "<=", "between", "within"}

\* What is in a node is in the tree.
LEMMA KidsIn == \A p : \A i \in Judging!Kids(p) : i \in Nat /\ Append(p, i) \in DOMAIN tree
  BY ConditionsAssumption DEF Judging!Kids

\* A node reads nothing but the nodes in it.
LEMMA SameKids ==
  ASSUME NEW s, NEW p, NEW f, NEW g, \A i \in Judging!Kids(p) : f[Append(p, i)] = g[Append(p, i)]
  PROVE  Judging!Raw(s, p, f) = Judging!Raw(s, p, g)
<1>1. [i \in Judging!Kids(p) |-> f[Append(p, i)]] = [i \in Judging!Kids(p) |-> g[Append(p, i)]]
  OBVIOUS
<1> QED BY <1>1 DEF Judging!Raw

\* Nor does it mean anything but by them.
LEMMA SameKidsMeant ==
  ASSUME NEW j, NEW p, NEW f, NEW g, \A i \in Judging!Kids(p) : f[Append(p, i)][j] = g[Append(p, i)][j]
  PROVE  Judging!RawMeant(f, p, j) = Judging!RawMeant(g, p, j)
<1>1. [i \in Judging!Kids(p) |-> f[Append(p, i)][j]] = [i \in Judging!Kids(p) |-> g[Append(p, i)][j]]
  OBVIOUS
<1> QED BY <1>1 DEF Judging!RawMeant

\* A comparison is true or false, and so is a group of them.
LEMMA LeafIsBoolean ==
  ASSUME TreeOK, NEW p \in DOMAIN tree, ~Judging!IsGroup(p), NEW s
  PROVE  Judging!LeafNow(s, tree[p]) \in BOOLEAN
<1> DEFINE n == tree[p]
<1>1. ASSUME NEW a, NEW b, NEW b2,
             NEW op \in {"unavailable", "available", ">=", "<=", "between", "within"}
      PROVE  Judging!Compare(a, op, b, b2, 0) \in BOOLEAN
  <2>1. CASE op = "unavailable"
    BY <2>1 DEF Judging!Compare
  <2>2. CASE op = "available"
    BY <2>2 DEF Judging!Compare
  <2>3. CASE op \in {">=", "<=", "between", "within"}
    <3> DEFINE c == CASE op = ">=" -> a >= b - 0
                      [] op = "<=" -> a <= b + 0
                      [] op = "between" -> b2 # Judging!Nothing /\ a >= b - 0 /\ a <= b2 + 0
                      [] op = "within" -> b2 # Judging!Nothing /\ a - b <= b2 + 0 /\ b - a <= b2 + 0
    <3>1. Judging!Compare(a, op, b, b2, 0) = (a # Judging!Nothing /\ b # Judging!Nothing /\ c)
      BY <2>3, Zenon DEF Judging!Compare
    <3> QED BY <3>1, Zenon
  <2> QED BY <2>1, <2>2, <2>3
<1>2. \/ n.trait = "none"
      \/ n.op \in {"is_one_of", "unavailable", "available", ">=", "<=", "between", "within"}
  BY DEF TreeOK
<1> HIDE DEF n
<1>3. Judging!LeafNow(s, n) \in BOOLEAN
  <2>1. CASE n.trait = "none"
    BY <2>1 DEF Judging!LeafNow
  <2>2. CASE n.trait # "none" /\ n.op = "is_one_of"
    BY <2>2 DEF Judging!LeafNow
  <2>3. CASE n.trait # "none" /\ n.op # "is_one_of"
    BY <1>1, <1>2, <2>3 DEF Judging!LeafNow
  <2> QED BY <2>1, <2>2, <2>3
<1> QED BY <1>3 DEF n

\* However its conditions are joined
LEMMA GroupIsBoolean ==
  ASSUME NEW op \in {"all", "any", "not"}, NEW R PROVE Judging!GroupNow(op, R) \in BOOLEAN
<1>1. CASE op = "all"
  BY <1>1, Zenon DEF Judging!GroupNow
<1>2. CASE op = "any"
  BY <1>2, Zenon DEF Judging!GroupNow
<1>3. CASE op = "not"
  BY <1>3, Zenon DEF Judging!GroupNow
<1> QED BY <1>1, <1>2, <1>3

\* So is what a node says, whatever is in it.
LEMMA RawIsBoolean ==
  ASSUME TreeOK, NEW p \in DOMAIN tree, NEW f
  PROVE  (\A s : Judging!Raw(s, p, f) \in BOOLEAN) /\ (\A j : Judging!RawMeant(f, p, j) \in BOOLEAN)
<1>1. CASE Judging!IsGroup(p)
  BY <1>1, GroupIsBoolean DEF Judging!Raw, Judging!RawMeant, TreeOK
<1>2. CASE ~Judging!IsGroup(p)
  BY <1>2, LeafIsBoolean DEF Judging!Raw, Judging!RawMeant
<1> QED BY <1>1, <1>2

\* So is what a node is meant to say.
LEMMA RawsAreBoolean ==
  TreeOK => \A node \in DOMAIN tree : \A j : Judging!RawMeant(Judging!Meant, node, j) \in BOOLEAN
  BY RawIsBoolean

\* The walk has an answer at every node: the deepest have one, and so then has what is above them.
LEMMA SaysWalks ==
  ASSUME TreeOK, NEW s
  PROVE  Judging!Says(s) = [p \in DOMAIN tree |-> Judging!Held(p, Judging!Raw(s, p, Judging!Says(s)))]
<1> DEFINE D == DOMAIN tree
           Level(n) == {p \in D : Len(p) > Deepest - n}
           Right(g, n) == \A p \in Level(n) : g[p] = Judging!Held(p, Judging!Raw(s, p, g))
           H == {n \in Nat : ~\E g : Right(g, n)}
<1>1. \A p \in D : p \in Seq(Nat) /\ Len(p) \in Nat /\ Len(p) <= Deepest
  BY DEF TreeOK
<1>2. H = {}
  <2> SUFFICES ASSUME H # {} PROVE FALSE
    OBVIOUS
  <2>1. PICK n \in H : \A m \in H : n <= m
    BY LeastOf
  <2>2. n # 0
    <3>1. Level(0) = {}
      BY <1>1 DEF Deepest
    <3>2. Right([p \in D |-> TRUE], 0)
      BY <3>1
    <3> QED BY <2>1, <3>2
  <2>3. n - 1 \in Nat /\ n - 1 \notin H
    BY <2>1, <2>2, SMTT(30)
  <2>4. PICK g : Right(g, n - 1)
    BY <2>3
  <2> DEFINE h == [p \in D |-> IF p \in Level(n - 1) THEN g[p]
                            ELSE Judging!Held(p, Judging!Raw(s, p, g))]
  <2>5. ASSUME NEW p \in Level(n) PROVE h[p] = Judging!Held(p, Judging!Raw(s, p, h))
    <3>1. \A i \in Judging!Kids(p) : Append(p, i) \in Level(n - 1)
      <4> SUFFICES ASSUME NEW i \in Judging!Kids(p) PROVE Append(p, i) \in Level(n - 1)
        OBVIOUS
      <4>1. Append(p, i) \in D /\ p \in Seq(Nat) /\ i \in Nat
        BY <1>1, <2>5, KidsIn
      <4>2. Len(Append(p, i)) = Len(p) + 1
        BY <4>1
      <4> QED BY <2>1, <2>5, <4>1, <4>2 DEF Deepest
    <3>2. \A i \in Judging!Kids(p) : h[Append(p, i)] = g[Append(p, i)]
      BY <3>1
    <3>3. Judging!Raw(s, p, h) = Judging!Raw(s, p, g)
      <4> HIDE DEF h
      <4> QED BY <3>2, SameKids
    <3>4. p \in D
      BY <2>5
    <3>5. h[p] = Judging!Held(p, Judging!Raw(s, p, g))
      <4>1. p \in Level(n - 1) => g[p] = Judging!Held(p, Judging!Raw(s, p, g))
        BY <2>4
      <4> HIDE DEF Level
      <4> QED BY <3>4, <4>1
    <3> QED BY <3>3, <3>5
  <2>6. Right(h, n)
    <3> HIDE DEF h, Level
    <3> QED BY <2>5
  <2> QED BY <2>1, <2>6
<1>3. PICK g : Right(g, Deepest + 1)
  <2>1. Deepest + 1 \in Nat
    BY DEF Deepest
  <2> HIDE DEF Right
  <2> QED BY <1>2, <2>1
<1>4. \A p \in D : g[p] = Judging!Held(p, Judging!Raw(s, p, g))
  BY <1>1, <1>3 DEF Deepest
<1> DEFINE h == [p \in D |-> g[p]]
<1>5. h = [p \in D |-> Judging!Held(p, Judging!Raw(s, p, h))]
  <2>1. ASSUME NEW p \in D PROVE g[p] = Judging!Held(p, Judging!Raw(s, p, h))
    <3>1. \A i \in Judging!Kids(p) : h[Append(p, i)] = g[Append(p, i)]
      BY KidsIn
    <3>2. Judging!Raw(s, p, h) = Judging!Raw(s, p, g)
      <4> HIDE DEF h
      <4> QED BY <3>1, SameKids
    <3> QED BY <1>4, <3>2
  <2>2. \A p \in D : h[p] = Judging!Held(p, Judging!Raw(s, p, h))
    BY <2>1
  <2> QED BY <2>2, Zenon
<1>6. \E f : f = [p \in DOMAIN tree |-> Judging!Held(p, Judging!Raw(s, p, f))]
  BY <1>5
<1> QED BY <1>6, Zenon DEF Judging!Says

\* What is meant in a second rests on what the conditions in a node mean, and no more.
LEMMA SameMeans ==
  ASSUME TreeOK, NEW p \in DOMAIN tree, NEW f, NEW g, NEW n \in Nat, NEW k \in 1..n,
         \A i \in Judging!Kids(p), j \in 1..n : f[Append(p, i)][j] = g[Append(p, i)][j]
  PROVE  Judging!Means(f, p, k) = Judging!Means(g, p, k)
<1>1. \A j \in 1..n : Judging!RawMeant(f, p, j) = Judging!RawMeant(g, p, j)
  BY SameKidsMeant
<1>2. k \in Nat /\ tree[p].for \in Nat
  BY DEF TreeOK
<1>3. CASE tree[p].for <= 0
  BY <1>1, <1>3 DEF Judging!Means
<1>4. CASE ~(tree[p].for <= 0)
  <2>1. k > tree[p].for => \A j \in (k - tree[p].for)..k : j \in 1..n
    BY <1>2, <1>4
  <2> QED BY <1>1, <1>4, <2>1 DEF Judging!Means
<1> QED BY <1>3, <1>4

\* What is meant is something, at every node and in every second.
LEMMA MeantWalks ==
  ASSUME TreeOK, Len(past) \in Nat
  PROVE  Judging!Meant
      = [p \in DOMAIN tree |-> [k \in 1..Len(past) |-> Judging!Means(Judging!Meant, p, k)]]
<1> DEFINE D == DOMAIN tree
           K == 1..Len(past)
           All(g, p) == [k \in K |-> Judging!Means(g, p, k)]
           Level(n) == {p \in D : Len(p) > Deepest - n}
           Right(g, n) == \A p \in Level(n) : g[p] = All(g, p)
           H == {n \in Nat : ~\E g : Right(g, n)}
<1>1. \A p \in D : p \in Seq(Nat) /\ Len(p) \in Nat /\ Len(p) <= Deepest
  BY DEF TreeOK
<1>0. ASSUME NEW p \in D, NEW f, NEW g, \A i \in Judging!Kids(p) : f[Append(p, i)] = g[Append(p, i)]
         PROVE  All(f, p) = All(g, p)
  <2>1. \A k \in K : Judging!Means(f, p, k) = Judging!Means(g, p, k)
    BY <1>0, SameMeans, ZenonT(30)
  <2> QED BY <2>1
<1>2. H = {}
  <2> SUFFICES ASSUME H # {} PROVE FALSE
    OBVIOUS
  <2>1. PICK n \in H : \A m \in H : n <= m
    BY LeastOf
  <2>2. n # 0
    <3>1. Level(0) = {}
      BY <1>1 DEF Deepest
    <3>2. Right([p \in D |-> TRUE], 0)
      BY <3>1
    <3> HIDE DEF Right
    <3> QED BY <2>1, <3>2
  <2>3. n - 1 \in Nat /\ n - 1 \notin H
    <3> HIDE DEF Right
    <3> QED BY <2>1, <2>2
  <2>4. PICK g : Right(g, n - 1)
    BY <2>3
  <2> DEFINE h == [p \in D |-> IF p \in Level(n - 1) THEN g[p] ELSE All(g, p)]
  <2>5. ASSUME NEW p \in Level(n) PROVE h[p] = All(h, p)
    <3>1. \A i \in Judging!Kids(p) : Append(p, i) \in Level(n - 1)
      BY <1>1, <2>1, <2>5, KidsIn, SMTT(30) DEF Deepest
    <3>2. \A i \in Judging!Kids(p) : h[Append(p, i)] = g[Append(p, i)]
      BY <3>1
    <3>3. p \in D
      BY <2>5
    <3>4. All(h, p) = All(g, p)
      <4> HIDE DEF h, All
      <4> QED BY <1>0, <3>2, <3>3
    <3>5. h[p] = All(g, p)
      <4>1. p \in Level(n - 1) => g[p] = All(g, p)
        BY <2>4
      <4> HIDE DEF Level, All
      <4> QED BY <3>3, <4>1
    <3> QED BY <3>4, <3>5
  <2>6. Right(h, n)
    <3> HIDE DEF h, Level, All
    <3> QED BY <2>5
  <2> QED BY <2>1, <2>6
<1>3. PICK g : Right(g, Deepest + 1)
  <2>1. Deepest + 1 \in Nat
    BY DEF Deepest
  <2> HIDE DEF Right
  <2> QED BY <1>2, <2>1
<1>4. \A p \in D : g[p] = All(g, p)
  BY <1>1, <1>3 DEF Deepest
<1> DEFINE h == [p \in D |-> g[p]]
<1>5. h = [p \in D |-> All(h, p)]
  <2>1. ASSUME NEW p \in D PROVE g[p] = All(h, p)
    <3>1. \A i \in Judging!Kids(p) : h[Append(p, i)] = g[Append(p, i)]
      BY KidsIn
    <3>2. All(h, p) = All(g, p)
      <4> HIDE DEF h, All
      <4> QED BY <3>1, <1>0
    <3> HIDE DEF h, All
    <3> QED BY <1>4, <3>2
  <2>2. \A p \in D : h[p] = All(h, p)
    <3> HIDE DEF All
    <3> QED BY <2>1
  <2> HIDE DEF All
  <2> QED BY <2>2, Zenon
<1>6. \E f : f = [p \in DOMAIN tree |-> [k \in 1..Len(past) |-> Judging!Means(f, p, k)]]
  BY <1>5
<1> QED BY <1>6, Zenon DEF Judging!Meant

\* Second by second
LEMMA MeantIs ==
  TreeOK /\ Len(past) \in Nat
    => \A p \in DOMAIN tree : \A k \in 1..Len(past) : Judging!Meant[p][k]
          = Judging!Means(Judging!Meant, p, k)
<1> SUFFICES ASSUME TreeOK, Len(past) \in Nat, NEW p \in DOMAIN tree, NEW k \in 1..Len(past)
             PROVE  Judging!Meant[p][k] = Judging!Means(Judging!Meant, p, k)
  OBVIOUS
<1>1. Judging!Meant[p] = [j \in 1..Len(past) |-> Judging!Means(Judging!Meant, p, j)]
  BY MeantWalks, Zenon
<1> QED BY <1>1

\* What a timer asks for, in one formula
LEMMA TimedMeans ==
  \A node, k : k \in Nat /\ tree[node].for \in Nat \ {0} => Judging!Means(Judging!Meant, node, k) \in BOOLEAN /\
    (Judging!Means(Judging!Meant, node, k) <=> (Judging!HasClock(node) /\ k > tree[node].for
                             /\ \A j \in (k - tree[node].for)..k : Judging!RawMeant(Judging!Meant, node, j)))
<1> SUFFICES ASSUME NEW node, NEW k, ~(tree[node].for <= 0)
             PROVE  Judging!Means(Judging!Meant, node, k) \in BOOLEAN /\
                      (Judging!Means(Judging!Meant, node, k) <=> (Judging!HasClock(node) /\ k > tree[node].for
                       /\ \A j \in (k - tree[node].for)..k : Judging!RawMeant(Judging!Meant, node, j)))
  OBVIOUS
<1> QED BY Zenon DEF Judging!Means

\* A second that is past means for ever what it meant.
LEMMA PastMeans ==
  ASSUME TreeOK, TreeOK', tree' = tree, NEW n \in Nat, NEW m \in Nat, n = Len(past), m = Len(past)',
         n <= m, \A j \in 1..n : past'[j] = past[j]
  PROVE  \A p \in DOMAIN tree : \A j \in 1..n :
           Judging!Meant'[p][j] = Judging!Meant[p][j] /\ Judging!RawMeant(Judging!Meant, p, j)'
               = Judging!RawMeant(Judging!Meant, p, j)
<1> DEFINE D == DOMAIN tree
<1>2. /\ \A p : Judging!IsGroup(p)' = Judging!IsGroup(p) /\ Judging!Kids(p)' = Judging!Kids(p)
      /\ Judging!Timed' = Judging!Timed /\ \A p : Judging!HasClock(p)' = Judging!HasClock(p)
  BY DEF Judging!IsGroup, Judging!Kids, Judging!Timed, Judging!HasClock
<1>3. \A p \in D : (p \in Seq(Nat) /\ Len(p) <= Deepest) /\ tree[p].for \in Nat
  BY DEF TreeOK
<1>4. \A p \in D : \A k \in 1..n : Judging!Meant[p][k] = Judging!Means(Judging!Meant, p, k)
  BY MeantIs
<1>5. \A p \in D : \A k \in 1..m : Judging!Meant'[p][k] = Judging!Means(Judging!Meant, p, k)'
  <2>1. (TreeOK /\ Len(past) \in Nat
           => \A p \in DOMAIN tree : \A k \in 1..Len(past) : Judging!Meant[p][k]
                 = Judging!Means(Judging!Meant, p, k))'
    BY MeantIs, PTL
  <2> QED BY <2>1
<1>7. ASSUME NEW p \in D, NEW j \in 1..n,
             \A i \in Judging!Kids(p) :
               Judging!Meant'[Append(p, i)][j] = Judging!Meant[Append(p, i)][j]
      PROVE  Judging!RawMeant(Judging!Meant, p, j)' = Judging!RawMeant(Judging!Meant, p, j)
  <2>1. [i \in Judging!Kids(p) |-> Judging!Meant'[Append(p, i)][j]]
            = [i \in Judging!Kids(p) |-> Judging!Meant[Append(p, i)][j]]
    BY <1>7
  <2> QED BY <1>2, <2>1 DEF Judging!RawMeant
<1>8. \A p \in D : \A j \in 1..n : Judging!Meant'[p][j] = Judging!Meant[p][j]
  <2> DEFINE S == {p \in D : \A j \in 1..n : Judging!Meant'[p][j] = Judging!Meant[p][j]}
  <2>1. ASSUME NEW p \in D, \A i \in Nat : Append(p, i) \in D => Append(p, i) \in S
        PROVE  p \in S
    <3>1. \A j \in 1..n : Judging!RawMeant(Judging!Meant, p, j)' = Judging!RawMeant(Judging!Meant, p, j)
      BY <1>7, <2>1, KidsIn
    <3>2. ASSUME NEW k \in 1..n PROVE Judging!Means(Judging!Meant, p, k)'
              = Judging!Means(Judging!Meant, p, k)
      <4>1. k \in Nat /\ tree[p].for \in Nat
        BY <1>3
      <4>2. CASE tree[p].for <= 0
        BY <3>1, <4>2 DEF Judging!Means
      <4>3. CASE ~(tree[p].for <= 0)
        <5>1. k > tree[p].for => \A j \in (k - tree[p].for)..k : j \in 1..n
          BY <4>1, <4>3
        <5> QED BY <1>2, <3>1, <4>3, <5>1 DEF Judging!Means
      <4> QED BY <4>2, <4>3
    <3>3. \A k \in 1..n : Judging!Meant'[p][k] = Judging!Meant[p][k]
      BY <1>4, <1>5, <3>2
    <3> QED BY <3>3
  <2> HIDE DEF S
  <2>2. D \subseteq S
    BY <1>3, <2>1, FromTheLeaves
  <2> QED BY <2>2 DEF S
<1> QED BY <1>7, <1>8, KidsIn

\* A second of the past means what it meant, and the new second what the walk says of it; a clock
\* holds the first second of the run of seconds its node has been true for.
Counts(R, c, n) ==
  IF n = 0 \/ ~R[n] THEN c = 0
  ELSE c \in 1..n /\ (\A j \in c..n : R[j]) /\ (c = 1 \/ ~R[c - 1])

Raws(p) == [j \in 1..Len(past) |-> Judging!RawMeant(Judging!Meant, p, j)]

CondInv ==
  /\ TreeOK
  /\ past \in Seq([temp : Readings, target : Targets])
  /\ clocks = [p \in Judging!Timed |-> clocks[p]]
  /\ \A p \in Judging!Timed : Counts(Raws(p), clocks[p], Len(past))
  /\ Judging!MeansWhatItSays

\* Such a clock tells how long.
LEMMA ClockCounts ==
  ASSUME NEW n \in Nat, NEW long \in Nat \ {0}, NEW R, \A j \in 1..n+1 : R[j] \in BOOLEAN,
         NEW c, Counts(R, c, n),
         NEW d, d = IF ~R[n + 1] THEN 0 ELSE IF c = 0 THEN n + 1 ELSE c
  PROVE  /\ Counts(R, d, n + 1)
         /\ (d # 0 /\ n + 1 - d >= long) <=> (n + 1 > long /\ \A j \in (n + 1 - long)..(n + 1) : R[j])
<1>1. CASE ~R[n + 1]
  <2>1. n + 1 \in (n + 1 - long)..(n + 1)
    OBVIOUS
  <2> QED BY <1>1, <2>1 DEF Counts
<1>2. CASE R[n + 1] /\ c = 0
  <2>1. d = n + 1 /\ (n = 0 \/ ~R[n])
    BY <1>2 DEF Counts
  <2>2. Counts(R, d, n + 1)
    BY <1>2, <2>1 DEF Counts
  <2>3. n + 1 > long => n \in (n + 1 - long)..(n + 1) /\ n # 0
    OBVIOUS
  <2> QED BY <2>1, <2>2, <2>3
<1>3. CASE R[n + 1] /\ c # 0
  <2>1. /\ d = c /\ c \in 1..n /\ n # 0
        /\ \A j \in c..n : R[j]
        /\ c = 1 \/ ~R[c - 1]
    BY <1>3 DEF Counts
  <2>2. \A j \in c..(n + 1) : R[j]
    BY <1>3, <2>1
  <2>3. Counts(R, d, n + 1)
    BY <1>3, <2>1, <2>2 DEF Counts
  <2>4. ASSUME n + 1 - c >= long
        PROVE  n + 1 > long /\ \A j \in (n + 1 - long)..(n + 1) : j \in c..(n + 1)
    BY <2>1, <2>4
  <2>5. ASSUME ~(n + 1 - c >= long), n + 1 > long
        PROVE  c # 1 /\ c - 1 \in (n + 1 - long)..(n + 1)
    BY <2>1, <2>5
  <2> QED BY <2>1, <2>2, <2>3, <2>4, <2>5
<1> QED BY <1>1, <1>2, <1>3

\* Nothing is past, and no clock runs.
LEMMA CondInit == Judging!Init => CondInv
<1> SUFFICES ASSUME Judging!Init PROVE CondInv
  OBVIOUS
<1>1. TreeOK
  <2>1. tree \in Trees
    BY DEF Judging!Init
  <2>2. \A p \in DOMAIN tree : p \in Seq(Nat)
    <3> SUFFICES ASSUME NEW p \in DOMAIN tree PROVE p \in Seq(Nat)
      OBVIOUS
    <3>1. p \in Seq(1..Width) /\ Width \in Nat
      BY <2>1, ConditionsAssumption
    <3> QED BY <3>1
  <2> QED BY <2>1, <2>2, ConditionsAssumption DEF TreeOK, Judging!IsGroup, Deepest
<1>2. past = <<>> /\ Len(past) = 0 /\ past \in Seq([temp : Readings, target : Targets])
  BY DEF Judging!Init
<1>3. clocks = [p \in Judging!Timed |-> clocks[p]] /\ \A p \in Judging!Timed : clocks[p] = 0
  BY DEF Judging!Init
<1> QED BY <1>1, <1>2, <1>3 DEF CondInv, Counts, Judging!MeansWhatItSays

\* One more second: what every node means of the ones before stays, each clock counts one further,
\* and the walk answers what is meant of the last.
LEMMA CondStep ==
  ASSUME CondInv, NEW s \in [temp : Readings, target : Targets], Judging!Evaluate(s)
  PROVE  CondInv'
<1> DEFINE D == DOMAIN tree
<1>a. PICK n : n = Len(past)
  OBVIOUS
<1>b. PICK f : f = Judging!Says(s)
  OBVIOUS
<1>1. /\ tree' = tree /\ TreeOK /\ TreeOK' /\ n \in Nat
      /\ past' \in Seq([temp : Readings, target : Targets])
      /\ Len(past') = n + 1 /\ past'[n + 1] = s /\ \A j \in 1..n : past'[j] = past[j]
  <2>1. past \in Seq([temp : Readings, target : Targets]) /\ past' = Append(past, s)
    BY DEF CondInv, Judging!Evaluate
  <2>2. TreeOK /\ TreeOK' /\ tree' = tree
    BY DEF CondInv, Judging!Evaluate, TreeOK, Judging!IsGroup
  <2> QED BY <1>a, <2>1, <2>2, AppendProperties
<1>2. /\ \A p : Judging!IsGroup(p)' = Judging!IsGroup(p) /\ Judging!Kids(p)' = Judging!Kids(p)
      /\ Judging!Timed' = Judging!Timed /\ \A p : Judging!HasClock(p)' = Judging!HasClock(p)
  BY <1>1 DEF Judging!IsGroup, Judging!Kids, Judging!Timed, Judging!HasClock
<1>3. \A p \in D : (p \in Seq(Nat) /\ Len(p) <= Deepest) /\ tree[p].for \in Nat
  BY <1>1 DEF TreeOK
<1>5. \A p \in D : \A k \in 1..n+1 : Judging!Meant'[p][k] = Judging!Means(Judging!Meant, p, k)'
  <2>1. (TreeOK /\ Len(past) \in Nat
           => \A p \in DOMAIN tree : \A k \in 1..Len(past) : Judging!Meant[p][k]
                 = Judging!Means(Judging!Meant, p, k))'
    BY MeantIs, PTL
  <2> QED BY <1>1, <2>1
<1>6. f = [p \in D |-> Judging!Held(p, Judging!Raw(s, p, f))]
  BY <1>1, <1>b, SaysWalks
<1>9. \A p \in D : \A j \in 1..n : Judging!RawMeant(Judging!Meant, p, j)'
          = Judging!RawMeant(Judging!Meant, p, j)
  BY <1>1, <1>a, PastMeans
\* what a clock holds, and what a clock tells
<1>10. ASSUME NEW p \in Judging!Timed, Judging!RawMeant(Judging!Meant, p, n + 1)' = Judging!Raw(s, p, f)
       PROVE  /\ Counts(Raws(p)', Judging!Since(p, Judging!Raw(s, p, f)), n + 1)
              /\ Judging!Held(p, Judging!Raw(s, p, f)) = Judging!Means(Judging!Meant, p, n + 1)'
  <2> DEFINE R == Raws(p)'
             d == Judging!Since(p, Judging!Raw(s, p, f))
  <2>1. p \in D /\ tree[p].for \in Nat \ {0}
    BY <1>3 DEF Judging!Timed
  <2>2. \A j \in 1..n+1 : R[j] = Judging!RawMeant(Judging!Meant, p, j)'
    BY <1>1, <1>a DEF Raws
  <2>3. \A j \in 1..n+1 : Judging!RawMeant(Judging!Meant, p, j)' \in BOOLEAN
    <3>1. TreeOK' => (\A node \in DOMAIN tree : \A j : Judging!RawMeant(Judging!Meant, node, j) \in BOOLEAN)'
      BY RawsAreBoolean, PTL
    <3> QED BY <1>1, <2>1, <3>1
  <2>4. Counts(R, clocks[p], n)
    <3>1. Counts(Raws(p), clocks[p], n)
      BY <1>a DEF CondInv
    <3>2. \A j \in 1..n : Raws(p)[j] = R[j]
      <4>1. \A j \in 1..n : Raws(p)[j] = Judging!RawMeant(Judging!Meant, p, j) /\ j \in 1..n+1
        BY <1>1, <1>a DEF Raws
      <4> HIDE DEF R
      <4> QED BY <1>9, <2>1, <2>2, <4>1
    <3> HIDE DEF R
    <3> QED BY <1>1, <3>1, <3>2 DEF Counts
  <2>5. R[n + 1] = Judging!Raw(s, p, f) /\ Judging!Raw(s, p, f) \in BOOLEAN
            /\ \A j \in 1..n+1 : R[j] \in BOOLEAN
    <3> HIDE DEF R
    <3>1. n + 1 \in 1..n+1
      BY <1>1
    <3> QED BY <1>10, <2>2, <2>3, <3>1
  <2> HIDE DEF R
  <2>6. d = IF ~R[n + 1] THEN 0 ELSE IF clocks[p] = 0 THEN n + 1 ELSE clocks[p]
    BY <1>a, <2>5 DEF Judging!Since, Judging!Second
  <2> HIDE DEF d
  <2>7. /\ Counts(R, d, n + 1)
        /\ (d # 0 /\ n + 1 - d >= tree[p].for)
             <=> (n + 1 > tree[p].for /\ \A j \in (n + 1 - tree[p].for)..(n + 1) : R[j])
    <3> DEFINE long == tree[p].for
               c == clocks[p]
    <3>1. n \in Nat /\ long \in Nat \ {0}
      BY <1>1, <2>1
    <3> HIDE DEF long, c
    <3>2. d = IF ~R[n + 1] THEN 0 ELSE IF c = 0 THEN n + 1 ELSE c
      BY <2>6 DEF c
    <3>3. Counts(R, c, n)
      BY <2>4 DEF c
    <3>4. /\ Counts(R, d, n + 1)
          /\ (d # 0 /\ n + 1 - d >= long) <=> (n + 1 > long /\ \A j \in (n + 1 - long)..(n + 1) : R[j])
      BY <2>5, <3>1, <3>2, <3>3, ClockCounts
    <3> QED BY <3>4 DEF long
  <2>8. /\ Judging!Held(p, Judging!Raw(s, p, f)) \in BOOLEAN
        /\ Judging!Held(p, Judging!Raw(s, p, f)) <=> (Judging!HasClock(p) /\ d # 0
              /\ n + 1 - d >= tree[p].for)
    <3>1. ~(tree[p].for <= 0)
      BY <2>1
    <3>2. /\ Judging!Held(p, Judging!Raw(s, p, f)) \in BOOLEAN
          /\ Judging!Held(p, Judging!Raw(s, p, f))
               <=> (/\ Judging!HasClock(p) /\ Judging!Since(p, Judging!Raw(s, p, f)) # 0
                    /\ Judging!Second - Judging!Since(p, Judging!Raw(s, p, f)) >= tree[p].for)
      BY <3>1, Zenon DEF Judging!Held
    <3>3. Judging!Second = n + 1
      BY <1>a DEF Judging!Second
    <3>4. d \in Nat
      BY <1>1, <2>7 DEF Counts
    <3>5. /\ Judging!Held(p, Judging!Raw(s, p, f)) \in BOOLEAN
          /\ Judging!Held(p, Judging!Raw(s, p, f)) <=> (Judging!HasClock(p) /\ d # 0
                /\ Judging!Second - d >= tree[p].for)
      BY <3>2 DEF d
    <3> QED BY <1>1, <2>1, <3>3, <3>4, <3>5
  <2>9. /\ Judging!Means(Judging!Meant, p, n + 1)' \in BOOLEAN
        /\ Judging!Means(Judging!Meant, p, n + 1)'
             <=> (Judging!HasClock(p) /\ n + 1 > tree[p].for
                   /\ \A j \in (n + 1 - tree[p].for)..(n + 1) : R[j])
    <3>1. n + 1 > tree[p].for => \A j \in (n + 1 - tree[p].for)..(n + 1) : j \in 1..n+1
      BY <1>1, <2>1
    <3>2. ~(tree[p].for <= 0) /\ tree'[p].for = tree[p].for /\ n + 1 \in Nat
      BY <1>1, <2>1
    <3>3. (\A node, k : k \in Nat /\ tree[node].for \in Nat \ {0} =>
             Judging!Means(Judging!Meant, node, k) \in BOOLEAN /\
             (Judging!Means(Judging!Meant, node, k) <=> (Judging!HasClock(node) /\ k > tree[node].for
                  /\ \A j \in (k - tree[node].for)..k : Judging!RawMeant(Judging!Meant, node, j))))'
      BY TimedMeans, PTL
    <3>4. /\ Judging!Means(Judging!Meant, p, n + 1)' \in BOOLEAN
          /\ Judging!Means(Judging!Meant, p, n + 1)'
               <=> (Judging!HasClock(p)' /\ n + 1 > tree[p].for
                    /\ \A j \in (n + 1 - tree[p].for)..(n + 1) : Judging!RawMeant(Judging!Meant, p, j)')
      BY <1>1, <2>1, <3>2, <3>3
    <3> QED BY <1>2, <2>2, <3>1, <3>4
  <2> QED BY <2>7, <2>8, <2>9 DEF R, d
\* the new second means what the walk says
<1>11. ASSUME NEW p \in D, \A i \in Judging!Kids(p) : Judging!Meant'[Append(p, i)][n + 1]
           = f[Append(p, i)]
       PROVE  Judging!RawMeant(Judging!Meant, p, n + 1)' = Judging!Raw(s, p, f)
  <2>1. [i \in Judging!Kids(p) |-> Judging!Meant'[Append(p, i)][n + 1]]
            = [i \in Judging!Kids(p) |-> f[Append(p, i)]]
    BY <1>11
  <2>2. CASE Judging!IsGroup(p)
    BY <1>1, <1>2, <2>1, <2>2 DEF Judging!RawMeant, Judging!Raw
  <2>3. CASE ~Judging!IsGroup(p)
    BY <1>1, <1>2, <2>3 DEF Judging!RawMeant, Judging!Raw
  <2> QED BY <2>2, <2>3
<1>12. \A p \in D : Judging!Meant'[p][n + 1] = f[p]
  <2> DEFINE S == {p \in D : Judging!Meant'[p][n + 1] = f[p]}
  <2>1. ASSUME NEW p \in D, \A i \in Nat : Append(p, i) \in D => Append(p, i) \in S
        PROVE  p \in S
    <3>1. Judging!RawMeant(Judging!Meant, p, n + 1)' = Judging!Raw(s, p, f)
      BY <1>11, <2>1, KidsIn
    <3>2. n + 1 \in 1..n+1
      BY <1>1
    <3>3. Judging!Meant'[p][n + 1] = Judging!Means(Judging!Meant, p, n + 1)'
      BY <1>5, <3>2
    <3>4. f[p] = Judging!Held(p, Judging!Raw(s, p, f))
      BY <1>6
    <3>5. CASE p \in Judging!Timed
      BY <1>10, <3>1, <3>3, <3>4, <3>5
    <3>6. CASE p \notin Judging!Timed
      <4>1. tree[p].for <= 0
        BY <1>3, <3>6 DEF Judging!Timed
      <4> QED BY <1>1, <3>1, <3>3, <3>4, <4>1 DEF Judging!Held, Judging!Means
    <3> QED BY <3>5, <3>6
  <2> HIDE DEF S
  <2>2. D \subseteq S
    BY <1>3, <2>1, FromTheLeaves
  <2> QED BY <2>2 DEF S
<1>13. \A p \in D : Judging!RawMeant(Judging!Meant, p, n + 1)' = Judging!Raw(s, p, f)
  BY <1>11, <1>12, KidsIn
<1>14. clocks' = [p \in Judging!Timed |-> Judging!Since(p, Judging!Raw(s, p, f))]
           /\ conditions_answer' = f[<<>>]
  BY <1>b DEF Judging!Evaluate
<1>15. clocks' = [p \in Judging!Timed' |-> clocks'[p]]
       /\ \A p \in Judging!Timed' : Counts(Raws(p)', clocks'[p], Len(past'))
  <2>1. \A p \in Judging!Timed : p \in D /\ clocks'[p] = Judging!Since(p, Judging!Raw(s, p, f))
    BY <1>14 DEF Judging!Timed
  <2> QED BY <1>1, <1>2, <1>10, <1>13, <1>14, <2>1
<1>16. Judging!MeansWhatItSays'
  <2>1. Judging!Meaning' = Judging!Meant'[<<>>][n + 1] /\ <<>> \in D
    BY <1>1 DEF Judging!Meaning, TreeOK
  <2> QED BY <1>12, <1>14, <2>1 DEF Judging!MeansWhatItSays
<1> QED BY <1>1, <1>15, <1>16 DEF CondInv

\* No step of the component breaks it.
LEMMA CondNext == CondInv /\ [Judging!Next]_(Judging!cvars) => CondInv'
<1>1. ASSUME CondInv, [Judging!Next]_(Judging!cvars) PROVE CondInv'
  <2>1. CASE Judging!Next
    BY <1>1, <2>1, CondStep DEF Judging!Next
  <2>2. CASE UNCHANGED Judging!cvars
    <3>1. /\ tree' = tree /\ past' = past /\ clocks' = clocks /\ conditions_answer' = conditions_answer
          /\ TreeOK /\ TreeOK' /\ Len(past) \in Nat /\ Judging!Timed' = Judging!Timed
      BY <1>1, <2>2 DEF Judging!cvars, CondInv, TreeOK, Judging!IsGroup, Judging!Timed
    <3>2. \A p \in DOMAIN tree : \A j \in 1..Len(past) :
            Judging!Meant'[p][j] = Judging!Meant[p][j] /\ Judging!RawMeant(Judging!Meant, p, j)'
                = Judging!RawMeant(Judging!Meant, p, j)
      BY <3>1, PastMeans
    <3>3. \A p \in Judging!Timed : p \in DOMAIN tree /\ Raws(p)' = Raws(p)
      BY <3>1, <3>2 DEF Raws, Judging!Timed
    <3>4. past # <<>> => Judging!Meaning' = Judging!Meaning
      <4>1. past # <<>> => Len(past) \in 1..Len(past)
        BY <1>1, <3>1, EmptySeq DEF CondInv
      <4> QED BY <3>1, <3>2, <4>1 DEF Judging!Meaning, TreeOK
    <3> QED BY <1>1, <3>1, <3>3, <3>4 DEF CondInv, Judging!MeansWhatItSays
  <2> QED BY <1>1, <2>1, <2>2
<1> QED BY <1>1

\* A behaviour that is about conditions takes only steps of theirs.
LEMMA CondPart ==
  which = "conditions" /\ [SumNext]_sumVars => [Judging!Next]_(Judging!cvars)
BY DEF SumNext, Others, sumVars, conditionsVars, Judging!cvars

(* A group of conditions, its conditions and theirs hold when what they are about has held in       *)
(* every one of the last seconds they ask for, however deep they lie and whatever joins them       *)
(* (eval_path and held_long_enough, rules.c:343-420).                                               *)
THEOREM NodesMeanWhatTheySay == SumSpec => []MeansWhatItSays
<1> DEFINE Inv == which = "conditions" => CondInv
<1>1. SumInit => Inv
  BY CondInit DEF SumInit
<1>2. Inv /\ [SumNext]_sumVars => Inv'
  BY CondNext, CondPart, SameComponent
<1>3. Inv => MeansWhatItSays
  BY DEF CondInv, MeansWhatItSays
<1> QED
  BY <1>1, <1>2, <1>3, PTL DEF SumSpec

-----------------------------------------------------------------------------
(* Units. The model's degrees are whole, the code's are doubles: where the conversion of every     *)
(* reading and number is exact, a leaf says the same of the scaled ones.                           *)

\* A number within a bound
Within(x, most) == x \in Int /\ -most <= x /\ x <= most
\* A gap, and a reading, that is a whole number of Celsius degrees, nowhere near Nothing
Exact(x) == Within(x, 1000) /\ x % 9 = 0
ExactReading(x) == Within(x, 1000) /\ (x - 32) % 9 = 0
ExactAs(x, gap) == IF gap THEN Exact(x) ELSE ExactReading(x)

Operands == [is : {"number", "trait"}, of : {"none", "temp", "target", "over"}, n : Int]

Comparisons ==
  [is : {"leaf"}, trait : {"temp", "target", "over"},
   op : {"unavailable", "available", ">=", "<=", "between", "within"},
   value : Operands, value2 : Operands, for : Nat]

\* The operands an operator looks at are exact; the others may be anything.
ExactLeaf(n) ==
  /\ n \in Comparisons
  /\ n.op \notin {"unavailable", "available"} =>
       /\ n.value.is = "number" => ExactAs(n.value.n, n.trait = "over")
       /\ n.value.is = "trait" =>
            Exact(n.value.n) /\ n.value.of # "none" /\ (n.value.of = "over" <=> n.trait = "over")
  /\ n.op \in {"between", "within"} =>
       n.value2.is = "number" /\ ExactAs(n.value2.n, n.trait = "over" \/ n.op = "within")

\* A leaf that names no trait is true whatever it is compared with.
Unsaid(n) == "trait" \in DOMAIN n /\ n.trait = "none"

\* What conversion keeps: a reading is compared with readings and a gap with gaps, exactly, and no
\* target is the freezing point, which in Celsius is the number for having none.
WrittenExactly ==
  /\ \A t \in Readings : t = Judging!Nothing \/ ExactReading(t)
  /\ \A t \in Targets : t = 0 \/ (t > 32 /\ ExactReading(t))
  /\ \A t \in Trees : \A p \in DOMAIN t :
       t[p].is = "group" \/ t[p].op = "is_one_of" \/ Unsaid(t[p]) \/ ExactLeaf(t[p])

\* The conversion of a gap is exact, ...
LEMMA GapIs == ASSUME NEW x, Exact(x)
  PROVE  Within(x, 1000) /\ Within(Judging!Gap(x), 1000) /\ 9 * Judging!Gap(x) = 5 * x
<1>1. PICK k \in Int : x = 9 * k
  BY SMTT(30) DEF Within, Exact
<1>2. Judging!Gap(x) = 5 * k
  BY <1>1, SMTT(30) DEF Judging!Gap
<1> QED BY <1>1, <1>2 DEF Within, Exact

\* ... and so is that of a reading.
LEMMA DegreesIs ==
  ASSUME NEW x, ExactReading(x)
  PROVE  Within(x, 1000) /\ Within(Judging!Degrees(x), 1000) /\ 9 * Judging!Degrees(x) = 5 * x - 160
<1>1. Within(x, 1000) /\ (x - 32) % 9 = 0
  BY DEF Within, ExactReading
<1>2. PICK y \in Int : y = x - 32 /\ y % 9 = 0
  BY <1>1 DEF Within
<1>3. PICK k \in Int : y = 9 * k
  BY <1>2, SMTT(30)
<1>4. (y * 5) \div 9 = 5 * k
  BY <1>3, SMTT(30)
<1>5. Judging!Degrees(x) = 5 * k
  BY <1>2, <1>4 DEF Judging!Degrees
<1> QED BY <1>1, <1>2, <1>3, <1>5 DEF Within

\* What a trait is in Celsius: as far above the freezing point, or as far apart.
Kinds == {"reading", "gap"}

Scaled(a, b, kind) ==
  /\ Within(a, 3000) /\ Within(b, 3000)
  /\ kind = "gap" => 9 * b = 5 * a
  /\ kind = "reading" => 9 * b = 5 * a - 160

\* The same of it, or no reading before and after
Alike(a, b, kind) == (a = Judging!Nothing /\ b = Judging!Nothing) \/ Scaled(a, b, kind)

\* A trait is the same thing in Celsius, or absent in both.
LEMMA TraitIs ==
  ASSUME NEW s, s.temp = Judging!Nothing \/ ExactReading(s.temp),
         s.target = 0 \/ (s.target > 32 /\ ExactReading(s.target)), NEW w \in {"temp", "target", "over"},
         NEW kind \in Kinds, (kind = "gap") <=> (w = "over")
  PROVE  \/ Judging!Trait(s, w) = Judging!Nothing /\ Judging!Trait(Judging!Celsius(s), w) = Judging!Nothing
         \/ /\ Scaled(Judging!Trait(s, w), Judging!Trait(Judging!Celsius(s), w), kind)
            /\ Within(Judging!Trait(s, w), 2000) /\ Within(Judging!Trait(Judging!Celsius(s), w), 2000)
<1> DEFINE c == Judging!Celsius(s)
<1>1. /\ c.temp = IF s.temp = Judging!Nothing THEN Judging!Nothing ELSE Judging!Degrees(s.temp)
      /\ c.target = IF s.target = 0 THEN 0 ELSE Judging!Degrees(s.target)
  BY DEF Judging!Celsius
<1> HIDE DEF c
<1>2. ASSUME kind = "reading", NEW x, NEW y, Within(x, 1000), Within(y, 1000), 9 * y = 5 * x - 160
      PROVE  Scaled(x, y, kind) /\ Within(x, 2000) /\ Within(y, 2000) /\ x # Judging!Nothing /\ y # Judging!Nothing
  <2>1. x # Judging!Nothing
    BY <1>2 DEF Within, Judging!Nothing
  <2>2. y # Judging!Nothing
    BY <1>2 DEF Within, Judging!Nothing
  <2>3. Within(x, 2000) /\ Within(y, 2000)
    BY <1>2 DEF Within
  <2>4. Scaled(x, y, kind)
    BY <1>2 DEF Within, Scaled
  <2> QED BY <2>1, <2>2, <2>3, <2>4
<1>3. s.temp # Judging!Nothing => /\ Within(s.temp, 1000) /\ Within(c.temp, 1000)
                          /\ 9 * c.temp = 5 * s.temp - 160
  <2> SUFFICES ASSUME s.temp # Judging!Nothing PROVE /\ Within(s.temp, 1000) /\ Within(c.temp, 1000)
                                             /\ 9 * c.temp = 5 * s.temp - 160
    OBVIOUS
  <2>1. ExactReading(s.temp) /\ c.temp = Judging!Degrees(s.temp)
    BY <1>1
  <2> QED BY <2>1, DegreesIs
<1>4. s.target # 0 => /\ Within(s.target, 1000) /\ Within(c.target, 1000)
                      /\ 9 * c.target = 5 * s.target - 160 /\ s.target > 0 /\ c.target > 0
  <2> SUFFICES ASSUME s.target # 0
               PROVE  /\ Within(s.target, 1000) /\ Within(c.target, 1000)
                      /\ 9 * c.target = 5 * s.target - 160 /\ s.target > 0 /\ c.target > 0
    OBVIOUS
  <2>1. ExactReading(s.target) /\ c.target = Judging!Degrees(s.target) /\ s.target > 32
    BY <1>1
  <2>2. /\ Within(s.target, 1000) /\ Within(c.target, 1000)
        /\ 9 * c.target = 5 * s.target - 160
    BY <2>1, DegreesIs
  <2>3. s.target > 0
    BY <2>1, <2>2 DEF Within
  <2>4. c.target > 0
    BY <2>1, <2>2 DEF Within
  <2> QED BY <2>2, <2>3, <2>4
<1>5. s.temp = Judging!Nothing => c.temp = Judging!Nothing
  BY <1>1
<1>6. CASE w = "temp"
  <2>1. Judging!Trait(s, w) = s.temp /\ Judging!Trait(c, w) = c.temp /\ kind = "reading"
    BY <1>6 DEF Judging!Trait, Kinds
  <2>2. CASE s.temp = Judging!Nothing
    BY <1>5, <2>1, <2>2 DEF c
  <2>3. CASE s.temp # Judging!Nothing
    BY <1>2, <1>3, <2>1, <2>3 DEF c
  <2> QED BY <2>2, <2>3
<1>7. CASE w = "target"
  <2>1. /\ Judging!Trait(s, w) = IF s.target > 0 THEN s.target ELSE Judging!Nothing
        /\ Judging!Trait(c, w) = IF c.target > 0 THEN c.target ELSE Judging!Nothing
        /\ kind = "reading"
    BY <1>7 DEF Judging!Trait, Kinds
  <2>2. CASE s.target = 0
    <3>1. c.target = 0
      BY <1>1, <2>2
    <3> QED BY <2>1, <2>2, <3>1 DEF c
  <2>3. CASE s.target # 0
    BY <1>2, <1>4, <2>1, <2>3 DEF c
  <2> QED BY <2>2, <2>3
<1>8. CASE w = "over"
  <2>1. /\ Judging!Trait(s, w) = IF s.temp = Judging!Nothing \/ s.target <= 0 \/ s.target = Judging!Nothing THEN Judging!Nothing
                         ELSE s.temp - s.target
        /\ Judging!Trait(c, w) = IF c.temp = Judging!Nothing \/ c.target <= 0 \/ c.target = Judging!Nothing THEN Judging!Nothing
                         ELSE c.temp - c.target
        /\ kind = "gap"
    BY <1>8 DEF Judging!Trait
  <2>2. CASE s.temp = Judging!Nothing
    <3>1. Judging!Trait(s, w) = Judging!Nothing /\ Judging!Trait(c, w) = Judging!Nothing
      BY <1>5, <2>1, <2>2
    <3> QED BY <3>1 DEF c
  <2>3. CASE s.target = 0
    <3>1. c.target = 0
      BY <1>1, <2>3
    <3>2. Judging!Trait(s, w) = Judging!Nothing /\ Judging!Trait(c, w) = Judging!Nothing
      BY <2>1, <2>3, <3>1
    <3> QED BY <3>2 DEF c
  <2>4. CASE s.temp # Judging!Nothing /\ s.target # 0
    <3>1. ASSUME kind = "gap", NEW t, NEW x, NEW r, NEW y,
                 Within(t, 1000), Within(x, 1000), Within(r, 1000), Within(y, 1000),
                 9 * x = 5 * t - 160, 9 * y = 5 * r - 160
          PROVE  Scaled(t - r, x - y, kind) /\ Within(t - r, 2000) /\ Within(x - y, 2000)
      BY <3>1 DEF Within, Scaled
    <3>2. ~(s.target <= 0) /\ ~(c.target <= 0) /\ s.target # Judging!Nothing /\ c.target # Judging!Nothing
          /\ c.temp # Judging!Nothing
      BY <1>3, <1>4, <2>4 DEF Within, Judging!Nothing
    <3>3. Judging!Trait(s, w) = s.temp - s.target /\ Judging!Trait(c, w) = c.temp - c.target
      BY <2>1, <2>4, <3>2
    <3>4. /\ Scaled(s.temp - s.target, c.temp - c.target, kind)
          /\ Within(s.temp - s.target, 2000) /\ Within(c.temp - c.target, 2000)
      <4>1. /\ Within(s.temp, 1000) /\ Within(c.temp, 1000) /\ 9 * c.temp = 5 * s.temp - 160
            /\ Within(s.target, 1000) /\ Within(c.target, 1000) /\ 9 * c.target = 5 * s.target - 160
        BY <1>3, <1>4, <2>4
      <4> DEFINE t == s.temp
                 x == c.temp
                 r == s.target
                 y == c.target
      <4>2. /\ Within(t, 1000) /\ Within(x, 1000) /\ Within(r, 1000) /\ Within(y, 1000)
            /\ 9 * x = 5 * t - 160 /\ 9 * y = 5 * r - 160 /\ kind = "gap"
        BY <2>1, <4>1
      <4> HIDE DEF t, x, r, y
      <4>3. Scaled(t - r, x - y, kind) /\ Within(t - r, 2000) /\ Within(x - y, 2000)
        BY <3>1, <4>2
      <4> QED BY <4>3 DEF t, x, r, y
    <3>5. /\ Scaled(Judging!Trait(s, w), Judging!Trait(c, w), kind)
          /\ Within(Judging!Trait(s, w), 2000) /\ Within(Judging!Trait(c, w), 2000)
      BY <3>3, <3>4
    <3> QED BY <3>5 DEF c
  <2> QED BY <2>2, <2>3, <2>4
<1> QED BY <1>6, <1>7, <1>8

\* A comparison before a change of units, and after it
Converted(a, b, b2, x, y, y2, op) ==
  /\ op \in {"unavailable", "available", ">=", "<=", "between", "within"}
  /\ \E kind, kind2 \in Kinds :
       /\ Alike(a, x, kind)
       /\ op \notin {"unavailable", "available"} => Alike(b, y, kind)
       /\ op \in {"between", "within"} => Scaled(b2, y2, kind2)
       /\ (kind2 = "gap") <=> (kind = "gap" \/ op = "within")

\* Comparing scaled numbers is comparing the numbers.
LEMMA CompareIs ==
  ASSUME NEW a, NEW b, NEW b2, NEW x, NEW y, NEW y2, NEW op, Converted(a, b, b2, x, y, y2, op)
  PROVE  Judging!Compare(a, op, b, b2, 0) = Judging!Compare(x, op, y, y2, 0)
<1>0. PICK kind \in Kinds, kind2 \in Kinds :
        /\ Alike(a, x, kind)
        /\ op \notin {"unavailable", "available"} => Alike(b, y, kind)
        /\ op \in {"between", "within"} => Scaled(b2, y2, kind2)
        /\ (kind2 = "gap") <=> (kind = "gap" \/ op = "within")
  BY DEF Converted
<1>1. /\ a = Judging!Nothing => x = Judging!Nothing
      /\ a # Judging!Nothing => x # Judging!Nothing /\ Scaled(a, x, kind)
      /\ op \notin {"unavailable", "available"} =>
           /\ b = Judging!Nothing => y = Judging!Nothing
           /\ b # Judging!Nothing => y # Judging!Nothing /\ Scaled(b, y, kind)
      /\ op \in {"between", "within"} => b2 # Judging!Nothing /\ y2 # Judging!Nothing
  <2>1. ASSUME NEW u, NEW v, NEW g, Scaled(u, v, g) PROVE u # Judging!Nothing /\ v # Judging!Nothing
    <3>1. Within(u, 3000) /\ Within(v, 3000)
      BY <2>1 DEF Within, Scaled
    <3>2. u # Judging!Nothing
      BY <3>1 DEF Within, Judging!Nothing
    <3>3. v # Judging!Nothing
      BY <3>1 DEF Within, Judging!Nothing
    <3> QED BY <3>2, <3>3
  <2> QED BY <1>0, <2>1 DEF Alike
<1>2. CASE op = "unavailable"
  BY <1>1, <1>2 DEF Judging!Compare
<1>3. CASE op = "available"
  BY <1>1, <1>3 DEF Judging!Compare
<1>4. CASE op = ">="
  <2>0. op \notin {"unavailable", "available"}
    BY <1>4
  <2>1. \A u, v, v2 : Judging!Compare(u, op, v, v2, 0) = (u # Judging!Nothing /\ v # Judging!Nothing /\ u >= v - 0)
    BY <1>4, Zenon DEF Judging!Compare
  <2>2. ASSUME Scaled(a, x, kind), Scaled(b, y, kind) PROVE (a >= b - 0) <=> (x >= y - 0)
    BY <2>2 DEF Within, Scaled, Kinds
  <2> QED BY <1>1, <2>0, <2>1, <2>2, Zenon
<1>5. CASE op = "<="
  <2>0. op \notin {"unavailable", "available"}
    BY <1>5
  <2>1. \A u, v, v2 : Judging!Compare(u, op, v, v2, 0) = (u # Judging!Nothing /\ v # Judging!Nothing /\ u <= v + 0)
    BY <1>5, Zenon DEF Judging!Compare
  <2>2. ASSUME Scaled(a, x, kind), Scaled(b, y, kind) PROVE (a <= b + 0) <=> (x <= y + 0)
    BY <2>2 DEF Within, Scaled, Kinds
  <2> QED BY <1>1, <2>0, <2>1, <2>2, Zenon
<1>6. CASE op = "between"
  <2>0. op \notin {"unavailable", "available"}
    BY <1>6
  <2>a. op \in {"between", "within"}
    BY <1>6
  <2>1. \A u, v, v2 : Judging!Compare(u, op, v, v2, 0) =
          (u # Judging!Nothing /\ v # Judging!Nothing /\ (v2 # Judging!Nothing /\ u >= v - 0 /\ u <= v2 + 0))
    BY <1>6, ZenonT(30) DEF Judging!Compare
  <2>2. kind2 = kind /\ Scaled(b2, y2, kind2)
    BY <1>0, <1>6 DEF Kinds
  <2>3. ASSUME Scaled(a, x, kind), Scaled(b, y, kind)
        PROVE  ((a >= b - 0) <=> (x >= y - 0)) /\ ((a <= b2 + 0) <=> (x <= y2 + 0))
    BY <2>2, <2>3 DEF Within, Scaled, Kinds
  <2> QED BY <1>1, <2>a, <2>0, <2>1, <2>3, Zenon
<1>7. CASE op = "within"
  <2>0. op \notin {"unavailable", "available"}
    BY <1>7
  <2>a. op \in {"between", "within"}
    BY <1>7
  <2>1. \A u, v, v2 : Judging!Compare(u, op, v, v2, 0) =
          (u # Judging!Nothing /\ v # Judging!Nothing /\ (v2 # Judging!Nothing /\ u - v <= v2 + 0 /\ v - u <= v2 + 0))
    BY <1>7, ZenonT(30) DEF Judging!Compare
  <2>2. kind2 = "gap" /\ Scaled(b2, y2, kind2)
    BY <1>0, <1>7
  <2>3. ASSUME Scaled(a, x, kind), Scaled(b, y, kind)
        PROVE  ((a - b <= b2 + 0) <=> (x - y <= y2 + 0)) /\ ((b - a <= b2 + 0) <=> (y - x <= y2 + 0))
    BY <2>2, <2>3 DEF Within, Scaled, Kinds
  <2> QED BY <1>1, <2>a, <2>0, <2>1, <2>3, Zenon
<1> QED BY <1>2, <1>3, <1>4, <1>5, <1>6, <1>7 DEF Converted

\* A leaf, written exactly, says the same of a status and of the converted one once it is converted.
LEMMA LeafSame ==
  ASSUME NEW s, s.temp = Judging!Nothing \/ ExactReading(s.temp),
         s.target = 0 \/ (s.target > 32 /\ ExactReading(s.target)), NEW n, ExactLeaf(n)
  PROVE  Judging!LeafNow(s, n) = Judging!LeafNow(Judging!Celsius(s), Judging!ConvertNode(n))
<1> DEFINE c == Judging!Celsius(s)
           m == Judging!ConvertNode(n)
<1>a. PICK kind \in Kinds : (kind = "gap") <=> (n.trait = "over")
  BY DEF Kinds
<1>0. ASSUME NEW x, NEW y, NEW g \in Kinds, g = "gap" => Exact(x) /\ y = Judging!Gap(x),
             g = "reading" => ExactReading(x) /\ y = Judging!Degrees(x)
      PROVE  Scaled(x, y, g)
  <2>1. CASE g = "gap"
    <3>1. Within(x, 1000) /\ Within(y, 1000) /\ 9 * y = 5 * x
      BY <1>0, <2>1, GapIs
    <3> QED BY <2>1, <3>1 DEF Within, Scaled
  <2>2. CASE g = "reading"
    <3>1. Within(x, 1000) /\ Within(y, 1000) /\ 9 * y = 5 * x - 160
      BY <1>0, <2>2, DegreesIs
    <3> QED BY <2>2, <3>1 DEF Within, Scaled
  <2> QED BY <2>1, <2>2 DEF Kinds
<1>1. n \in Comparisons /\ n.value \in Operands /\ n.value2 \in Operands
  BY DEF ExactLeaf, Comparisons
<1>2. /\ m.trait = n.trait /\ m.op = n.op
      /\ m.value.is = n.value.is /\ m.value.of = n.value.of
      /\ m.value.n = IF kind = "gap" \/ n.value.is = "trait" THEN Judging!Gap(n.value.n) ELSE Judging!Degrees(n.value.n)
      /\ n.op \in {"between", "within"} =>
           /\ m.value2.is = "number" /\ n.value2.is = "number"
           /\ m.value2.n = IF kind = "gap" \/ n.op = "within" THEN Judging!Gap(n.value2.n) ELSE Judging!Degrees(n.value2.n)
  <2>1. Judging!ConvertNode(n) = [n EXCEPT
          !.value.n = IF kind = "gap" \/ n.value.is = "trait" THEN Judging!Gap(@) ELSE Judging!Degrees(@),
          !.value2.n = IF n.value2.is = "number"
                       THEN IF kind = "gap" \/ n.op = "within" THEN Judging!Gap(@) ELSE Judging!Degrees(@)
                       ELSE @]
    BY <1>a DEF Judging!ConvertNode, Judging!Conv, ExactLeaf
  <2> QED BY <1>1, <2>1 DEF Comparisons, Operands, ExactLeaf
<1>b. /\ n.op \notin {"unavailable", "available"} /\ n.value.is = "number" =>
           (kind = "gap" => Exact(n.value.n)) /\ (kind = "reading" => ExactReading(n.value.n))
      /\ n.op \in {"between", "within"} =>
           /\ (kind = "gap" \/ n.op = "within") => Exact(n.value2.n)
           /\ ~(kind = "gap" \/ n.op = "within") => ExactReading(n.value2.n)
  BY <1>a DEF ExactLeaf, ExactAs, Kinds
<1>3. PICK kind2 \in Kinds :
        /\ (kind2 = "gap") <=> (kind = "gap" \/ n.op = "within")
        /\ n.op \in {"between", "within"} =>
             Scaled(Judging!Operand(s, n.value2), Judging!Operand(c, m.value2), kind2)
  <2>1. n.op \in {"between", "within"} =>
          Judging!Operand(s, n.value2) = n.value2.n /\ Judging!Operand(c, m.value2) = m.value2.n
    BY <1>2 DEF Judging!Operand
  <2>2. PICK kind2 \in Kinds : (kind2 = "gap") <=> (kind = "gap" \/ n.op = "within")
    BY DEF Kinds
  <2>3. n.op \in {"between", "within"} => Scaled(n.value2.n, m.value2.n, kind2)
    BY <1>0, <1>2, <1>b, <2>2 DEF Kinds
  <2> QED BY <2>1, <2>2, <2>3
<1>4. ASSUME n.op \notin {"unavailable", "available"}
      PROVE  \/ Judging!Operand(s, n.value) = Judging!Nothing /\ Judging!Operand(c, m.value) = Judging!Nothing
             \/ Scaled(Judging!Operand(s, n.value), Judging!Operand(c, m.value), kind)
  <2>1. CASE n.value.is = "number"
    <3>1. Judging!Operand(s, n.value) = n.value.n /\ Judging!Operand(c, m.value) = m.value.n
      BY <1>2, <2>1 DEF Judging!Operand
    <3> QED BY <1>0, <1>2, <1>4, <1>b, <2>1, <3>1 DEF Kinds
  <2>2. CASE n.value.is = "trait"
    <3>1. /\ n.value.of \in {"temp", "target", "over"} /\ ((kind = "gap") <=> (n.value.of = "over"))
          /\ Exact(n.value.n) /\ m.value.n = Judging!Gap(n.value.n)
      BY <1>a, <1>1, <1>2, <1>4, <2>2 DEF ExactLeaf, Operands
    <3> DEFINE t == Judging!Trait(s, n.value.of)
               u == Judging!Trait(c, n.value.of)
    <3>2. /\ Within(n.value.n, 1000) /\ Within(m.value.n, 1000)
          /\ 9 * m.value.n = 5 * n.value.n
      BY <3>1, GapIs DEF Within, Exact
    <3>3. Judging!Operand(s, n.value) = IF Judging!Trait(s, n.value.of) = Judging!Nothing THEN Judging!Nothing
                                ELSE Judging!Trait(s, n.value.of) + n.value.n
      BY <2>2 DEF Judging!Operand
    <3>4. Judging!Operand(c, m.value) = IF Judging!Trait(c, n.value.of) = Judging!Nothing THEN Judging!Nothing
                                ELSE Judging!Trait(c, n.value.of) + m.value.n
      BY <1>2, <2>2 DEF Judging!Operand
    <3>5. \/ t = Judging!Nothing /\ u = Judging!Nothing
          \/ Scaled(t, u, kind) /\ Within(t, 2000) /\ Within(u, 2000)
      BY <3>1, TraitIs
    <3> HIDE DEF t, u
    <3>6. CASE t = Judging!Nothing /\ u = Judging!Nothing
      BY <3>3, <3>4, <3>6 DEF t, u
    <3>7. CASE Scaled(t, u, kind) /\ Within(t, 2000) /\ Within(u, 2000)
      <4>1. Scaled(t + n.value.n, u + m.value.n, kind) /\ t # Judging!Nothing /\ u # Judging!Nothing
        <5>1. Scaled(t + n.value.n, u + m.value.n, kind)
          BY <3>2, <3>7 DEF Within, Scaled
        <5>2. t # Judging!Nothing
          BY <3>7 DEF Within, Judging!Nothing
        <5>3. u # Judging!Nothing
          BY <3>7 DEF Within, Judging!Nothing
        <5> QED BY <5>1, <5>2, <5>3
      <4> QED BY <3>3, <3>4, <4>1 DEF t, u
    <3> QED BY <3>5, <3>6, <3>7
  <2> QED BY <1>1, <2>1, <2>2 DEF Operands
<1>5. \/ Judging!Trait(s, n.trait) = Judging!Nothing /\ Judging!Trait(c, n.trait) = Judging!Nothing
      \/ Scaled(Judging!Trait(s, n.trait), Judging!Trait(c, n.trait), kind)
  BY <1>a, <1>1, TraitIs DEF Comparisons
<1>6. n.op \in {"unavailable", "available", ">=", "<=", "between", "within"}
      /\ n.trait # "none" /\ n.op # "is_one_of"
  BY <1>1 DEF Comparisons
<1> HIDE DEF c, m
<1>7. Judging!Compare(Judging!Trait(s, n.trait), n.op, Judging!Operand(s, n.value), Judging!Operand(s, n.value2), 0)
        = Judging!Compare(Judging!Trait(c, n.trait), n.op, Judging!Operand(c, m.value), Judging!Operand(c, m.value2), 0)
  <2> DEFINE a == Judging!Trait(s, n.trait)
             x == Judging!Trait(c, n.trait)
             d == Judging!Operand(s, n.value)
             y == Judging!Operand(c, m.value)
             d2 == Judging!Operand(s, n.value2)
             y2 == Judging!Operand(c, m.value2)
             op == n.op
  <2>1. Converted(a, d, d2, x, y, y2, op)
    <3>1. Alike(a, x, kind) /\ (op \notin {"unavailable", "available"} => Alike(d, y, kind))
      BY <1>4, <1>5 DEF Alike
    <3>2. /\ (kind2 = "gap") <=> (kind = "gap" \/ op = "within")
          /\ op \in {"between", "within"} => Scaled(d2, y2, kind2)
      BY <1>3
    <3>3. op \in {"unavailable", "available", ">=", "<=", "between", "within"}
      BY <1>6
    <3> HIDE DEF a, x, d, y, d2, y2, op
    <3> QED BY <3>1, <3>2, <3>3 DEF Converted
  <2> HIDE DEF a, x, d, y, d2, y2, op
  <2>2. Judging!Compare(a, op, d, d2, 0) = Judging!Compare(x, op, y, y2, 0)
    BY <2>1, CompareIs
  <2> QED BY <2>2 DEF a, x, d, y, d2, y2, op
<1>8. Judging!LeafNow(s, n) = Judging!Compare(Judging!Trait(s, n.trait), n.op, Judging!Operand(s, n.value), Judging!Operand(s, n.value2), 0)
  BY <1>6 DEF Judging!LeafNow
<1>9. Judging!LeafNow(c, m) = Judging!Compare(Judging!Trait(c, n.trait), n.op, Judging!Operand(c, m.value), Judging!Operand(c, m.value2), 0)
  BY <1>2, <1>6 DEF Judging!LeafNow
<1> QED BY <1>7, <1>8, <1>9 DEF c, m

\* Readings are added; the tree is as it was.
LEMMA TreeStays ==
  ASSUME tree \in Trees, past \in Seq([temp : Readings, target : Targets]), [Judging!Next]_(Judging!cvars)
  PROVE  tree' \in Trees /\ past' \in Seq([temp : Readings, target : Targets])
<1>1. ASSUME NEW s \in [temp : Readings, target : Targets], Judging!Evaluate(s)
      PROVE  tree' \in Trees /\ past' \in Seq([temp : Readings, target : Targets])
  BY <1>1, AppendProperties DEF Judging!Evaluate
<1>2. CASE UNCHANGED Judging!cvars
  BY <1>2 DEF Judging!cvars
<1> QED BY <1>1, <1>2 DEF Judging!Next

(* A condition about a temperature says in Celsius what it said in Fahrenheit: readings and numbers *)
(* move by the freezing point and gaps by the ratio alone (convert_node_units, rules.c:1001-1039).   *)
THEOREM SameSaidInCelsius ==
  ASSUME WrittenExactly
  PROVE  SumSpec => []SameInCelsius
<1> DEFINE Inv == which = "conditions" =>
             tree \in Trees /\ past \in Seq([temp : Readings, target : Targets])
<1>1. SumInit => Inv
  BY EmptySeq DEF SumInit, Judging!Init
<1>2. Inv /\ [SumNext]_sumVars => Inv'
  BY TreeStays, CondPart, SameComponent
<1>3. Inv => SameInCelsius
  <2> SUFFICES ASSUME tree \in Trees, past \in Seq([temp : Readings, target : Targets]), past # <<>>,
                      NEW p \in DOMAIN tree, ~Judging!IsGroup(p), tree[p].op # "is_one_of"
               PROVE  Judging!LeafNow(past[Len(past)], tree[p])
                        = Judging!LeafNow(Judging!Celsius(past[Len(past)]), Judging!ConvertNode(tree[p]))
    BY DEF SameInCelsius, Judging!SameInCelsius
  <2> DEFINE s == past[Len(past)]
  <2>1. s \in [temp : Readings, target : Targets]
    <3>1. ASSUME NEW S, NEW e \in Seq(S), e # <<>> PROVE e[Len(e)] \in S
      BY <3>1, EmptySeq, LenProperties
    <3> QED BY <3>1
  <2>2. /\ s.temp = Judging!Nothing \/ ExactReading(s.temp)
        /\ s.target = 0 \/ (s.target > 32 /\ ExactReading(s.target))
    BY <2>1 DEF WrittenExactly
  <2>3. Unsaid(tree[p]) \/ ExactLeaf(tree[p])
    BY DEF WrittenExactly, Judging!IsGroup
  <2> HIDE DEF s
  <2>4. CASE ExactLeaf(tree[p])
    BY <2>2, <2>4, LeafSame DEF s
  <2>5. CASE Unsaid(tree[p])
    <3>1. Judging!ConvertNode(tree[p]).trait = "none"
      BY <2>5 DEF Unsaid, Judging!ConvertNode
    <3>2. Judging!LeafNow(Judging!Celsius(past[Len(past)]), Judging!ConvertNode(tree[p])) = TRUE
      BY <3>1 DEF Judging!LeafNow
    <3>3. Judging!LeafNow(past[Len(past)], tree[p]) = TRUE
      BY <2>5 DEF Unsaid, Judging!LeafNow
    <3> QED BY <3>2, <3>3
  <2> QED BY <2>3, <2>4, <2>5
<1> QED
  BY <1>1, <1>2, <1>3, PTL DEF SumSpec
=============================================================================
