---------------------------- MODULE Devices_proofs --------------------------
(***************************************************************************)
(* Proofs about the devices: the wireless probes and the scan for them, the *)
(* network, the probes as they are set up and the filter of their readings. *)
(* As in Services_proofs, each component has its invariant, and it holds    *)
(* whenever the behaviour is one of that component.                        *)
(***************************************************************************)
EXTENDS Services, SequenceTheorems, FiniteSetTheorems, WellFoundedInduction, TLAPS

\* A behaviour stays one of its component
LEMMA SameComponent == [SumNext]_sumVars => UNCHANGED which
BY DEF SumNext, Others, sumVars

\* A set of numbers has a least one: what the proofs have for induction is that the first number a
\* fact would fail for is none
LEMMA LeastOf == ASSUME NEW S \in SUBSET Nat, S # {} PROVE \E i \in S : \A j \in S : i <= j
<1>1. PICK i \in S : \A j \in S : ~(<<j, i>> \in OpToRel(<, Nat))
  BY WFMin, NatLessThanWellFounded, Zenon
<1>2. \A j \in S : ~(j < i)
  BY <1>1, Zenon DEF OpToRel
<1> QED
  BY <1>2

-----------------------------------------------------------------------------
(* The wireless probes. A reading does not outlive its link. *)

\* A slot, with its driver's side of the link
LinkSlot == [used : BOOLEAN, release : BOOLEAN, probe : Probes \cup {Nowhere}, st : Linking!States,
         at : Peripherals \cup {Nowhere}, known : BOOLEAN, connected : BOOLEAN]

LinkTypeOK == bluetooth_dev \in [LinkSlots -> LinkSlot] /\ valid \in [LinkSlots -> BOOLEAN]

\* What the manager knows of a slot's characteristics it knows of a link that stands; a slot it
\* steps as ready, and does not only listen to, is linked
LinkOK ==
  \A i \in LinkSlots :
    bluetooth_dev[i].used =>
      /\ bluetooth_dev[i].known => bluetooth_dev[i].connected
      /\ bluetooth_dev[i].st = "ready" /\ bluetooth_dev[i].probe \notin Passive => bluetooth_dev[i].connected
      /\ bluetooth_dev[i].probe \in Passive => ~bluetooth_dev[i].known

LinkInv == LinkTypeOK /\ LinkOK /\ Linking!ReadingIsLive

-----------------------------------------------------------------------------

LEMMA LinkPart == which = "bluetooth" /\ [SumNext]_sumVars => [Linking!Next]_(Linking!bvars)
BY DEF SumNext, Others, sumVars, bluetoothVars, Linking!bvars

LEMMA LinkInit == Linking!Init => LinkInv
  BY DEF Linking!Init, LinkInv, LinkTypeOK, LinkOK, Linking!ReadingIsLive, LinkSlot, Linking!States, Linking!Empty

\* Some slot is the first of those that are looked for
LEMMA FirstLink == ASSUME NEW S \in SUBSET Nat, S # {} PROVE Linking!FirstOf(S) \in S
BY LeastOf DEF Linking!FirstOf

\* The slots a passive driver left behind are taken back with nothing else changed
LEMMA ReclaimedOK ==
  ASSUME LinkTypeOK
  PROVE  /\ Linking!Reclaimed \in [LinkSlots -> LinkSlot]
         /\ \A i \in LinkSlots : /\ Linking!Reclaimed[i].used => bluetooth_dev[i].used
                             /\ Linking!Reclaimed[i].known = bluetooth_dev[i].known
                             /\ Linking!Reclaimed[i].st = bluetooth_dev[i].st
                             /\ Linking!Reclaimed[i].probe = bluetooth_dev[i].probe
                             /\ Linking!Reclaimed[i].connected = bluetooth_dev[i].connected
  BY DEF LinkTypeOK, Linking!Reclaimed, LinkSlot

LEMMA RegisterInv == ASSUME LinkInv, NEW p \in Probes, Linking!Register(p) PROVE LinkInv'
<1> DEFINE d == Linking!Reclaimed
           i == Linking!FirstOf(Linking!FreeSlots(d))
<1>1. LinkTypeOK
  BY DEF LinkInv
<1>2. Linking!Fresh(p) \in LinkSlot /\ ~Linking!Fresh(p).known /\ Linking!Fresh(p).st = "idle" /\ Linking!Fresh(p).used
  BY DEF Linking!Fresh, Linking!Empty, LinkSlot, Linking!States
<1>3. CASE Linking!FreeSlots(d) = {}
  <2>1. bluetooth_dev' = d /\ valid' = valid
    BY <1>3 DEF Linking!Register
  <2> QED
    BY <1>1, <2>1, ReclaimedOK DEF LinkInv, LinkTypeOK, LinkOK, Linking!ReadingIsLive
<1>4. CASE Linking!FreeSlots(d) # {}
  <2>1. bluetooth_dev' = [d EXCEPT ![i] = Linking!Fresh(p)] /\ valid' = [valid EXCEPT ![i] = FALSE]
    BY <1>4 DEF Linking!Register
  <2> HIDE DEF i
  <2> QED
    BY <1>1, <1>2, <2>1, ReclaimedOK DEF LinkInv, LinkTypeOK, LinkOK, Linking!ReadingIsLive
<1> QED
  BY <1>3, <1>4

\* What is said of a slot and its driver's reading
GoodLink(s, v) ==
  s.used => /\ s.known => s.connected
            /\ s.st = "ready" /\ s.probe \notin Passive => s.connected
            /\ s.probe \in Passive => ~s.known
            /\ v = TRUE => s.connected

\* A step that touches one slot has to answer for that slot alone
LEMMA OneLink ==
  ASSUME LinkInv, NEW i \in LinkSlots, NEW s \in LinkSlot, NEW v \in BOOLEAN,
         bluetooth_dev' = [bluetooth_dev EXCEPT ![i] = s], valid' = [valid EXCEPT ![i] = v], GoodLink(s, v)
  PROVE  LinkInv'
<1>1. LinkTypeOK'
  BY DEF LinkInv, LinkTypeOK
<1>2. \A j \in LinkSlots : bluetooth_dev'[j] = (IF j = i THEN s ELSE bluetooth_dev[j]) /\ valid'[j] = (IF j = i THEN v ELSE valid[j])
  BY DEF LinkInv, LinkTypeOK
<1> QED
  BY <1>1, <1>2 DEF LinkInv, LinkOK, Linking!ReadingIsLive, GoodLink

\* What the invariant says of one slot
LEMMA OfLink ==
  ASSUME LinkInv, NEW i \in LinkSlots
  PROVE  bluetooth_dev[i] \in LinkSlot /\ valid[i] \in BOOLEAN /\ GoodLink(bluetooth_dev[i], valid[i])
  BY DEF LinkInv, LinkTypeOK, LinkOK, Linking!ReadingIsLive, GoodLink

\* A driver whose link is lost is told, and forgets
LEMMA DisconnectedInv == ASSUME LinkInv, NEW i \in LinkSlots, Linking!Disconnected(i) PROVE LinkInv'
<1> DEFINE s == [bluetooth_dev[i] EXCEPT !.connected = FALSE, !.st = "backoff", !.known = FALSE]
           v == valid[i] /\ ~bluetooth_dev[i].connected
<1>1. s \in LinkSlot /\ ~s.known /\ s.st = "backoff" /\ ~s.connected /\ s.used = bluetooth_dev[i].used
  BY OfLink DEF LinkSlot, Linking!States
<1>2. bluetooth_dev' = [bluetooth_dev EXCEPT ![i] = s] /\ valid' = [valid EXCEPT ![i] = v]
  BY DEF Linking!Disconnected
<1>3. v \in BOOLEAN /\ (bluetooth_dev[i].used => ~v)
  BY OfLink DEF GoodLink, LinkSlot
<1> QED
  BY <1>1, <1>2, <1>3, OneLink DEF GoodLink

LEMMA IdleInv == ASSUME LinkInv, NEW i \in LinkSlots, Linking!Idle(i) PROVE LinkInv'
<1>1. CASE UNCHANGED bluetooth_dev
  BY <1>1 DEF Linking!Idle, LinkInv, LinkTypeOK, LinkOK, Linking!ReadingIsLive
<1>2. ASSUME NEW x \in Peripherals, bluetooth_dev' = [bluetooth_dev EXCEPT ![i].at = x, ![i].st = "found"]
      PROVE  LinkInv'
  <2> DEFINE s == [bluetooth_dev[i] EXCEPT !.at = x, !.st = "found"]
  <2>1. s \in LinkSlot /\ s.used = bluetooth_dev[i].used /\ s.known = bluetooth_dev[i].known /\ s.st = "found"
        /\ s.connected = bluetooth_dev[i].connected /\ s.probe = bluetooth_dev[i].probe
    BY OfLink DEF LinkSlot, Linking!States
  <2>2. bluetooth_dev' = [bluetooth_dev EXCEPT ![i] = s] /\ valid' = [valid EXCEPT ![i] = valid[i]]
    BY <1>2 DEF Linking!Idle, LinkInv, LinkTypeOK
  <2> QED
    BY <2>1, <2>2, OfLink, OneLink DEF GoodLink
<1> QED
  BY <1>1, <1>2 DEF Linking!Idle, Linking!Matching

LEMMA BackoffInv == ASSUME LinkInv, NEW i \in LinkSlots, Linking!Backoff(i) PROVE LinkInv'
  BY DEF Linking!Backoff, LinkInv, LinkTypeOK, LinkOK, Linking!ReadingIsLive, LinkSlot, Linking!States

LEMMA FoundInv == ASSUME LinkInv, NEW i \in LinkSlots, Linking!Found(i) PROVE LinkInv'
  BY DEF Linking!Found, LinkInv, LinkTypeOK, LinkOK, Linking!ReadingIsLive, LinkSlot, Linking!States

LEMMA ConnectingInv == ASSUME LinkInv, NEW i \in LinkSlots, Linking!Connecting(i), bluetooth_dev[i].probe \notin Passive
                       PROVE  LinkInv'
<1> DEFINE s == [bluetooth_dev[i] EXCEPT !.known = TRUE, !.connected = TRUE, !.st = "ready"]
<1>1. CASE Linking!Disconnected(i)
  BY <1>1, DisconnectedInv
<1>2. CASE /\ bluetooth_dev' = [bluetooth_dev EXCEPT ![i].known = TRUE, ![i].connected = TRUE, ![i].st = "ready"]
           /\ UNCHANGED valid
  <2>1. s \in LinkSlot /\ s.connected /\ s.probe = bluetooth_dev[i].probe
    BY OfLink DEF LinkSlot, Linking!States
  <2>2. bluetooth_dev' = [bluetooth_dev EXCEPT ![i] = s] /\ valid' = [valid EXCEPT ![i] = valid[i]]
    BY <1>2 DEF LinkInv, LinkTypeOK
  <2> QED
    BY <2>1, <2>2, OfLink, OneLink DEF GoodLink
<1> QED
  BY <1>1, <1>2 DEF Linking!Connecting

LEMMA ReadyInv == ASSUME LinkInv, NEW i \in LinkSlots, Linking!Ready(i), bluetooth_dev[i].used, bluetooth_dev[i].probe \notin Passive
                  PROVE LinkInv'
<1>1. CASE Linking!Disconnected(i)
  BY <1>1, DisconnectedInv
<1>2. CASE UNCHANGED bluetooth_dev /\ (UNCHANGED valid \/ Linking!Heard(i))
  BY <1>2 DEF Linking!Ready, Linking!Heard, LinkInv, LinkTypeOK, LinkOK, Linking!ReadingIsLive, LinkSlot, Linking!States
<1> QED
  BY <1>1, <1>2 DEF Linking!Ready

LEMMA PassiveInv == ASSUME LinkInv, NEW i \in LinkSlots, bluetooth_dev[i].used, bluetooth_dev[i].probe \in Passive,
                           Linking!PassiveSearch(i) \/ Linking!PassivePoll(i)
                    PROVE  LinkInv'
<1>1. CASE Linking!PassiveSearch(i)
  <2>1. CASE UNCHANGED bluetooth_dev
    BY <1>1, <2>1 DEF Linking!PassiveSearch, LinkInv, LinkTypeOK, LinkOK, Linking!ReadingIsLive
  <2>2. ASSUME NEW x \in Peripherals, bluetooth_dev' = [bluetooth_dev EXCEPT ![i].at = x, ![i].st = "ready"]
        PROVE  LinkInv'
    <3> DEFINE s == [bluetooth_dev[i] EXCEPT !.at = x, !.st = "ready"]
    <3>1. s \in LinkSlot /\ s.used = bluetooth_dev[i].used /\ s.known = bluetooth_dev[i].known
          /\ s.connected = bluetooth_dev[i].connected /\ s.probe = bluetooth_dev[i].probe
      BY OfLink DEF LinkSlot, Linking!States
    <3>2. bluetooth_dev' = [bluetooth_dev EXCEPT ![i] = s] /\ valid' = [valid EXCEPT ![i] = valid[i]]
      BY <1>1, <2>2 DEF Linking!PassiveSearch, LinkInv, LinkTypeOK
    <3> QED
      BY <3>1, <3>2, OfLink, OneLink DEF GoodLink
  <2> QED
    BY <1>1, <2>1, <2>2 DEF Linking!PassiveSearch, Linking!Matching
<1>2. CASE Linking!PassivePoll(i)
  <2>1. CASE UNCHANGED <<bluetooth_dev, valid>>
    BY <2>1 DEF LinkInv, LinkTypeOK, LinkOK, Linking!ReadingIsLive
  <2>2. CASE /\ bluetooth_dev' = [bluetooth_dev EXCEPT ![i].at = Nowhere, ![i].st = "idle", ![i].connected = FALSE]
             /\ valid' = [valid EXCEPT ![i] = FALSE]
    <3> DEFINE s == [bluetooth_dev[i] EXCEPT !.at = Nowhere, !.st = "idle", !.connected = FALSE]
    <3>1. s \in LinkSlot /\ s.used = bluetooth_dev[i].used /\ s.known = bluetooth_dev[i].known /\ s.st = "idle"
          /\ ~s.connected
      BY OfLink DEF LinkSlot, Linking!States
    <3>2. bluetooth_dev' = [bluetooth_dev EXCEPT ![i] = s]
      BY <2>2
    <3> QED
      BY <2>2, <3>1, <3>2, OfLink, OneLink DEF GoodLink
  <2>3. CASE bluetooth_dev' = [bluetooth_dev EXCEPT ![i].connected = TRUE] /\ Linking!Heard(i)
    <3> DEFINE s == [bluetooth_dev[i] EXCEPT !.connected = TRUE]
    <3>1. s \in LinkSlot /\ s.connected /\ s.probe = bluetooth_dev[i].probe /\ s.known = bluetooth_dev[i].known
      BY OfLink DEF LinkSlot, Linking!States
    <3>2. PICK v \in BOOLEAN : valid' = [valid EXCEPT ![i] = v]
      BY <2>3 DEF Linking!Heard
    <3>3. bluetooth_dev' = [bluetooth_dev EXCEPT ![i] = s]
      BY <2>3
    <3> QED
      BY <3>1, <3>2, <3>3, OfLink, OneLink DEF GoodLink
  <2>4. CASE bluetooth_dev' = [bluetooth_dev EXCEPT ![i].connected = FALSE] /\ valid' = [valid EXCEPT ![i] = FALSE]
    <3> DEFINE s == [bluetooth_dev[i] EXCEPT !.connected = FALSE]
    <3>1. s \in LinkSlot /\ s.probe = bluetooth_dev[i].probe /\ s.known = bluetooth_dev[i].known /\ ~s.connected
      BY OfLink DEF LinkSlot, Linking!States
    <3>2. bluetooth_dev' = [bluetooth_dev EXCEPT ![i] = s]
      BY <2>4
    <3> QED
      BY <2>4, <3>1, <3>2, OfLink, OneLink DEF GoodLink
  <2> QED
    BY <1>2, <2>1, <2>2, <2>3, <2>4 DEF Linking!PassivePoll
<1> QED
  BY <1>1, <1>2

LEMMA ReleaseInv == ASSUME LinkInv, NEW i \in LinkSlots, Linking!Release(i) PROVE LinkInv'
<1> DEFINE s == [bluetooth_dev[i] EXCEPT !.used = FALSE, !.release = FALSE]
<1>1. s \in LinkSlot /\ ~s.used
  BY OfLink DEF LinkSlot, Linking!States
<1>2. bluetooth_dev' = [bluetooth_dev EXCEPT ![i] = s] /\ valid' = [valid EXCEPT ![i] = valid[i]]
  BY DEF Linking!Release, LinkInv, LinkTypeOK
<1> QED
  BY <1>1, <1>2, OfLink, OneLink DEF GoodLink

\* A step of a slot that is none changes nothing
LEMMA NoLink == ASSUME LinkInv, bluetooth_turn \notin LinkSlots, Linking!StepDevice PROVE UNCHANGED <<bluetooth_dev, valid>>
<1>1. /\ \A s : [bluetooth_dev EXCEPT ![bluetooth_turn] = s] = bluetooth_dev
      /\ \A v : [valid EXCEPT ![bluetooth_turn] = v] = valid
  BY DEF LinkInv, LinkTypeOK
<1>2. CASE Linking!Release(bluetooth_turn)
  BY <1>1, <1>2 DEF Linking!Release
<1>3. CASE Linking!PassiveSearch(bluetooth_turn)
  BY <1>1, <1>3 DEF Linking!PassiveSearch
<1>4. CASE Linking!PassivePoll(bluetooth_turn)
  BY <1>1, <1>4 DEF Linking!PassivePoll, Linking!Heard
<1>5. CASE Linking!Idle(bluetooth_turn) \/ Linking!Backoff(bluetooth_turn)
  BY <1>1, <1>5 DEF Linking!Idle, Linking!Backoff
<1>6. CASE Linking!Found(bluetooth_turn)
  BY <1>1, <1>6 DEF Linking!Found
<1>7. CASE Linking!Connecting(bluetooth_turn)
  BY <1>1, <1>7 DEF Linking!Connecting, Linking!Disconnected
<1>8. CASE Linking!Ready(bluetooth_turn)
  BY <1>1, <1>8 DEF Linking!Ready, Linking!Heard, Linking!Disconnected
<1> QED
  BY <1>2, <1>3, <1>4, <1>5, <1>6, <1>7, <1>8 DEF Linking!StepDevice, Linking!DevStep

LEMMA StepDeviceInv == ASSUME LinkInv, Linking!StepDevice PROVE LinkInv'
<1>1. CASE UNCHANGED <<bluetooth_dev, valid>>
  BY <1>1 DEF LinkInv, LinkTypeOK, LinkOK, Linking!ReadingIsLive
<1>2. CASE bluetooth_turn \notin LinkSlots
  BY <1>1, <1>2, NoLink
<1>3. CASE bluetooth_turn \in LinkSlots /\ Linking!Release(bluetooth_turn)
  BY <1>3, ReleaseInv
<1>4. CASE /\ bluetooth_turn \in LinkSlots /\ bluetooth_dev[bluetooth_turn].used /\ bluetooth_dev[bluetooth_turn].probe \in Passive
           /\ Linking!PassiveSearch(bluetooth_turn) \/ Linking!PassivePoll(bluetooth_turn)
  BY <1>4, PassiveInv
<1>5. CASE /\ bluetooth_turn \in LinkSlots /\ bluetooth_dev[bluetooth_turn].used /\ bluetooth_dev[bluetooth_turn].probe \notin Passive
           /\ Linking!Idle(bluetooth_turn) \/ Linking!Backoff(bluetooth_turn) \/ Linking!Found(bluetooth_turn) \/ Linking!Connecting(bluetooth_turn) \/ Linking!Ready(bluetooth_turn)
  BY <1>5, IdleInv, BackoffInv, FoundInv, ConnectingInv, ReadyInv
<1> QED
  BY <1>1, <1>2, <1>3, <1>4, <1>5 DEF Linking!StepDevice, Linking!DevStep

LEMMA ValueInv == ASSUME LinkInv, NEW x \in Peripherals, Linking!Value(x) PROVE LinkInv'
<1>1. PICK reads \in BOOLEAN :
        valid' = [i \in LinkSlots |-> IF Linking!Notified(i, x) THEN reads ELSE valid[i]]
  BY DEF Linking!Value
<1>2. bluetooth_dev' = bluetooth_dev /\ LinkTypeOK'
  BY <1>1 DEF Linking!Value, LinkInv, LinkTypeOK
<1>3. \A i \in LinkSlots : Linking!Notified(i, x) => bluetooth_dev[i].connected
  BY DEF Linking!Notified, LinkInv, LinkOK
<1> QED
  BY <1>1, <1>2, <1>3 DEF LinkInv, LinkOK, Linking!ReadingIsLive, LinkTypeOK

LEMMA AdvertisementInv ==
  ASSUME LinkInv, NEW x \in Peripherals, Linking!Advertisement(x)
  PROVE  LinkInv'
<1> DEFINE S == IF Linking!Listening(x) # {} THEN Linking!Listening(x) ELSE Linking!Claiming(x)
           i == Linking!FirstOf(S)
<1>1. S # {} /\ S \subseteq LinkSlots
  BY DEF Linking!Advertisement, Linking!Listening, Linking!Claiming
<1>2. i \in LinkSlots /\ i \in S
  BY <1>1, FirstLink, LinkAssumption
<1>3. bluetooth_dev[i].probe \in Passive
  BY <1>2 DEF Linking!Listening, Linking!Claiming
<1>4. \/ /\ bluetooth_dev' = [bluetooth_dev EXCEPT ![i].at = x, ![i].st = "ready", ![i].connected = TRUE]
         /\ Linking!Heard(i)
      \/ /\ bluetooth_dev' = [bluetooth_dev EXCEPT ![i].at = x, ![i].st = "ready"]
         /\ UNCHANGED valid
  BY DEF Linking!Advertisement
<1> HIDE DEF i
<1>5. CASE /\ bluetooth_dev' = [bluetooth_dev EXCEPT ![i].at = x, ![i].st = "ready", ![i].connected = TRUE]
           /\ Linking!Heard(i)
  <2> DEFINE s == [bluetooth_dev[i] EXCEPT !.at = x, !.st = "ready", !.connected = TRUE]
  <2>1. s \in LinkSlot /\ s.connected /\ s.known = bluetooth_dev[i].known /\ s.used = bluetooth_dev[i].used
        /\ s.probe = bluetooth_dev[i].probe
    BY <1>2, OfLink DEF LinkSlot, Linking!States
  <2>2. PICK v \in BOOLEAN : valid' = [valid EXCEPT ![i] = v]
    BY <1>5 DEF Linking!Heard
  <2>3. bluetooth_dev' = [bluetooth_dev EXCEPT ![i] = s]
    BY <1>5
  <2> QED
    BY <1>2, <2>1, <2>2, <2>3, OfLink, OneLink DEF GoodLink
<1>6. CASE bluetooth_dev' = [bluetooth_dev EXCEPT ![i].at = x, ![i].st = "ready"] /\ UNCHANGED valid
  <2> DEFINE s == [bluetooth_dev[i] EXCEPT !.at = x, !.st = "ready"]
  <2>1. s \in LinkSlot /\ s.connected = bluetooth_dev[i].connected /\ s.known = bluetooth_dev[i].known
        /\ s.used = bluetooth_dev[i].used /\ s.probe = bluetooth_dev[i].probe
    BY <1>2, OfLink DEF LinkSlot, Linking!States
  <2>2. bluetooth_dev' = [bluetooth_dev EXCEPT ![i] = s] /\ valid' = [valid EXCEPT ![i] = valid[i]]
    BY <1>6 DEF LinkInv, LinkTypeOK
  <2> QED
    BY <1>2, <1>3, <2>1, <2>2, OfLink, OneLink DEF GoodLink
<1> QED
  BY <1>4, <1>5, <1>6

LEMMA LinkStep == LinkInv /\ [Linking!Next]_(Linking!bvars) => LinkInv'
<1> SUFFICES ASSUME LinkInv, [Linking!Next]_(Linking!bvars) PROVE LinkInv'
  OBVIOUS
<1>1. CASE \E p \in Probes : Linking!Register(p)
  BY <1>1, RegisterInv
<1>2. CASE \E i \in LinkSlots : Linking!Unregister(i)
  <2>1. PICK i \in LinkSlots : Linking!Unregister(i)
    BY <1>2
  <2> DEFINE s == [bluetooth_dev[i] EXCEPT !.release = TRUE]
  <2>2. s \in LinkSlot /\ s.connected = bluetooth_dev[i].connected /\ s.known = bluetooth_dev[i].known
        /\ s.used = bluetooth_dev[i].used /\ s.probe = bluetooth_dev[i].probe /\ s.st = bluetooth_dev[i].st
    BY OfLink DEF LinkSlot, Linking!States
  <2>3. bluetooth_dev' = [bluetooth_dev EXCEPT ![i] = s] /\ valid' = [valid EXCEPT ![i] = valid[i]]
    BY <2>1 DEF Linking!Unregister, LinkInv, LinkTypeOK
  <2> QED
    BY <2>2, <2>3, OfLink, OneLink DEF GoodLink
<1>3. CASE \E x \in Peripherals : Linking!Value(x) \/ Linking!Advertisement(x)
  BY <1>3, ValueInv, AdvertisementInv
<1>4. CASE Linking!StepDevice
  BY <1>4, StepDeviceInv
<1>5. CASE UNCHANGED <<bluetooth_dev, valid>>
  BY <1>5 DEF LinkInv, LinkTypeOK, LinkOK, Linking!ReadingIsLive
<1> QED
  BY <1>1, <1>2, <1>3, <1>4, <1>5 DEF Linking!Next, Linking!bvars, Linking!Appear, Linking!Fade, Linking!AdapterGoes, Linking!AdapterReturns,
     Linking!BusFails, Linking!Tick, Linking!ProcessWrites, Linking!DiscoveryEnds

(* In any order of registrations, signals, polls, resets of the adapter and losses of a link, for  *)
(* any probes, slots, peripherals and length of the queue of writes, a reading is only that of a   *)
(* link that stands (dev_disconnected, bluez.c:341-351; passive_step, bluez.c:376).                *)
THEOREM ReadingLive == SumSpec => []ReadingIsLive
<1> DEFINE Inv == which = "bluetooth" => LinkInv
<1>1. SumInit => Inv
  BY LinkInit DEF SumInit
<1>2. Inv /\ [SumNext]_sumVars => Inv'
  BY LinkStep, LinkPart, SameComponent
<1>3. Inv => ReadingIsLive
  BY DEF LinkInv, ReadingIsLive
<1> QED
  BY <1>1, <1>2, <1>3, PTL DEF SumSpec

-----------------------------------------------------------------------------
(* The scan for new probes. A count that was noted is one of a scan that is over, so a snapshot *)
(* answers all who wait, and may clear the request of an asker that is still to store it.       *)

ScanTypeOK ==
  /\ scan_gen \in Nat
  /\ DOMAIN asker = Scanning!Askers
  /\ \A a \in Scanning!Askers : /\ {"at", "want"} \subseteq DOMAIN asker[a]
                                /\ asker[a].want \in 0..scan_gen
ScanInv == ScanTypeOK /\ Scanning!ScanIsComing

LEMMA ScanPart == which = "scan" /\ [SumNext]_sumVars => [Scanning!Next]_(Scanning!svars)
BY DEF SumNext, Others, sumVars, scanVars, Scanning!svars

LEMMA ScanInit == Scanning!Init => ScanInv
BY DEF Scanning!Init, Scanning!Rest, ScanInv, ScanTypeOK, Scanning!ScanIsComing

\* One asker moves; the count is as it was
LEMMA AskerMoves ==
  ASSUME ScanInv, UNCHANGED scan_gen, NEW a \in Scanning!Askers, NEW r,
         asker' = [asker EXCEPT ![a] = r], {"at", "want"} \subseteq DOMAIN r, r.want \in 0..scan_gen,
         seconds => seconds', r.at = "wait" /\ scan_gen = r.want => seconds'
  PROVE  ScanInv'
<1>1. /\ asker'[a] = r
      /\ \A b \in Scanning!Askers \ {a} : asker'[b] = asker[b]
      /\ DOMAIN asker' = Scanning!Askers
  BY DEF ScanInv, ScanTypeOK
<1>2. ScanTypeOK'
  BY <1>1 DEF ScanInv, ScanTypeOK
<1>3. Scanning!ScanIsComing'
  BY <1>1 DEF ScanInv, Scanning!ScanIsComing, Scanning!Done
<1> QED
  BY <1>2, <1>3 DEF ScanInv

LEMMA AskInv == ASSUME ScanInv, NEW a \in Scanning!Askers, Scanning!Ask(a) PROVE ScanInv'
<1>1. {"at", "want"} \subseteq DOMAIN asker[a] /\ asker[a].want \in 0..scan_gen /\ scan_gen \in Nat
  BY DEF ScanInv, ScanTypeOK
<1>2. CASE asker' = [asker EXCEPT ![a] = [at |-> "store", want |-> scan_gen]] /\ UNCHANGED seconds
  <2> DEFINE r == [at |-> "store", want |-> scan_gen]
  <2>1. {"at", "want"} \subseteq DOMAIN r /\ r.want \in 0..scan_gen /\ r.at = "store"
    BY <1>1
  <2>2. asker' = [asker EXCEPT ![a] = r] /\ UNCHANGED scan_gen
    BY <1>2 DEF Scanning!Ask
  <2> HIDE DEF r
  <2> QED
    BY <1>2, <2>1, <2>2, AskerMoves
<1>3. CASE asker' = [asker EXCEPT ![a].at = "wait"] /\ seconds' = TRUE
  <2> DEFINE r == [asker[a] EXCEPT !.at = "wait"]
  <2>1. asker' = [asker EXCEPT ![a] = r]
    BY <1>3 DEF ScanInv, ScanTypeOK
  <2>2. {"at", "want"} \subseteq DOMAIN r /\ r.want \in 0..scan_gen
    BY <1>1
  <2> HIDE DEF r
  <2> QED
    BY <1>3, <2>1, <2>2, AskerMoves DEF Scanning!Ask
<1> QED
  BY <1>2, <1>3 DEF Scanning!Ask

LEMMA RestInv ==
  ASSUME ScanInv, UNCHANGED <<scan_gen, seconds>>, NEW a \in Scanning!Askers,
         asker' = [asker EXCEPT ![a] = Scanning!Rest]
  PROVE  ScanInv'
<1>1. /\ {"at", "want"} \subseteq DOMAIN Scanning!Rest
      /\ Scanning!Rest.want \in 0..scan_gen /\ Scanning!Rest.at = "rest"
  BY DEF Scanning!Rest, ScanInv, ScanTypeOK
<1> QED
  BY <1>1, AskerMoves

LEMMA ScanStep == ScanInv /\ [Scanning!Next]_(Scanning!svars) => ScanInv'
<1> SUFFICES ASSUME ScanInv, [Scanning!Next]_(Scanning!svars) PROVE ScanInv'
  OBVIOUS
<1>1. ASSUME NEW make, Scanning!Collect(make) PROVE ScanInv'
  BY <1>1, RestInv DEF Scanning!Collect, Scanning!Askers
<1>2. CASE Scanning!Return
  BY <1>2, RestInv DEF Scanning!Return, Scanning!Askers
<1>3. CASE UNCHANGED <<asker, seconds, scan_gen>>
  BY <1>3 DEF ScanInv, ScanTypeOK, Scanning!ScanIsComing, Scanning!Done
<1>4. CASE Scanning!Snapshot
  <2>1. scan_gen' = scan_gen + 1 /\ UNCHANGED asker
    BY <1>4 DEF Scanning!Snapshot
  <2>2. scan_gen \in Nat /\ \A a \in Scanning!Askers : asker[a].want \in 0..scan_gen
    BY DEF ScanInv, ScanTypeOK
  <2>3. ScanTypeOK'
    BY <2>1, <2>2 DEF ScanInv, ScanTypeOK
  <2>4. \A a \in Scanning!Askers : scan_gen' # asker'[a].want
    BY <2>1, <2>2
  <2>5. Scanning!ScanIsComing'
    BY <2>1, <2>4 DEF Scanning!ScanIsComing, Scanning!Done
  <2> QED
    BY <2>3, <2>5 DEF ScanInv
<1> QED
  BY <1>1, <1>2, <1>3, <1>4, AskInv
     DEF Scanning!Next, Scanning!svars, Scanning!Adapter, Scanning!Window

(* Whoever waits for a scan has one coming: for any devices in the air, any number of scans and   *)
(* however the panel, the web page and the manager interleave, a snapshot that clears the request *)
(* another asker stores has answered that asker too (bluez.c:765, 862-871).                       *)
THEOREM ScanComes == SumSpec => []ScanIsComing
<1> DEFINE Inv == which = "scan" => ScanInv
<1>1. SumInit => Inv
  BY ScanInit DEF SumInit
<1>2. Inv /\ [SumNext]_sumVars => Inv'
  BY ScanStep, ScanPart, SameComponent
<1>3. Inv => ScanIsComing
  BY DEF ScanInv, ScanIsComing
<1> QED
  BY <1>1, <1>2, <1>3, PTL DEF SumSpec

-----------------------------------------------------------------------------
(* The network *)

\* Where the network thread is; a thread that has something to do has a place to be in
JoinInv ==
  /\ {"at", "ssid", "was"} \subseteq DOMAIN doing
  /\ Networking!JoinIsNotForever

LEMMA NetworkPart ==
  which = "network" /\ [SumNext]_sumVars => [Networking!Next]_(Networking!nvars)
BY DEF SumNext, Others, sumVars, networkVars, Networking!nvars, Networking!env

LEMMA JoinInit == Networking!Init => JoinInv
BY DEF Networking!Init, Networking!Idle, JoinInv, Networking!JoinIsNotForever

\* A look at what the radio carries leaves a join under way as it is, and starts none
LEMMA RefreshKeeps ==
  ASSUME NEW l, Networking!Refresh(l)
  PROVE  state' = "connecting" <=> state = "connecting"
BY DEF Networking!Refresh

LEMMA HotspotKeeps ==
  ASSUME Networking!HotspotUp
  PROVE  state' = "connecting" <=> state = "connecting"
BY RefreshKeeps DEF Networking!HotspotUp

LEMMA JoinStep ==
  ASSUME JoinInv, [Networking!Next]_(Networking!nvars)
  PROVE  JoinInv'
<1>1. {"at", "ssid", "was"} \subseteq DOMAIN doing
  BY DEF JoinInv
<1>2. state = "connecting" => want # NoSsid \/ doing.at = "join"
  BY DEF JoinInv, Networking!JoinIsNotForever
<1>3. ASSUME UNCHANGED <<want, doing>>, state' = "connecting" <=> state = "connecting"
      PROVE  JoinInv'
  BY <1>1, <1>2, <1>3 DEF JoinInv, Networking!JoinIsNotForever
<1>4. ASSUME {"at", "ssid", "was"} \subseteq DOMAIN doing', state' # "connecting" PROVE JoinInv'
  BY <1>4 DEF JoinInv, Networking!JoinIsNotForever
<1>5. {"at", "ssid", "was"} \subseteq DOMAIN Networking!Idle /\ Networking!Idle.at = "loop"
  BY DEF Networking!Idle
<1>6. ASSUME NEW s \in Ssids, Networking!Connect(s) PROVE JoinInv'
  BY <1>1, <1>6, NetworkAssumption DEF Networking!Connect, JoinInv, Networking!JoinIsNotForever
<1>7. CASE Networking!JoinBegins
  BY <1>7 DEF Networking!JoinBegins, JoinInv, Networking!JoinIsNotForever
<1>8. CASE Networking!JoinEnds
  BY <1>1, <1>4, <1>8 DEF Networking!JoinEnds
<1>9. CASE Networking!JoinFallsBack
  <2>1. doing' = [doing EXCEPT !.at = "joined"] /\ want' = want /\ doing.at = "fallback"
        /\ (state' = "connecting" <=> state = "connecting")
    BY <1>9, HotspotKeeps DEF Networking!JoinFallsBack
  <2> QED
    BY <1>1, <1>2, <2>1 DEF JoinInv, Networking!JoinIsNotForever
<1>10. CASE Networking!JoinRefreshed
  <2>1. doing' = Networking!Idle /\ want' = want /\ doing.at = "joined"
        /\ (state' = "connecting" <=> state = "connecting")
    BY <1>10, RefreshKeeps DEF Networking!JoinRefreshed
  <2> QED
    BY <1>2, <1>5, <2>1 DEF JoinInv, Networking!JoinIsNotForever
<1>11. CASE Networking!AskedHotspot \/ Networking!AtBoot \/ Networking!LooksAgain
  BY <1>3, <1>11, HotspotKeeps, RefreshKeeps
     DEF Networking!AskedHotspot, Networking!AtBoot, Networking!LooksAgain
<1>12. CASE Networking!GivesUp
  <2>1. doing' = [doing EXCEPT !.at = "restart"] /\ state' = state /\ state # "connecting"
    BY <1>12 DEF Networking!GivesUp, Networking!Hangs, Networking!Watching
  <2> QED
    BY <1>1, <1>4, <2>1
<1>13. CASE Networking!Restart \/ Networking!DaemonRestarts
  BY <1>4, <1>5, <1>13 DEF Networking!Restart, Networking!DaemonRestarts
<1>14. CASE Networking!RestartRefused
  BY <1>2, <1>5, <1>14 DEF Networking!RestartRefused, JoinInv, Networking!JoinIsNotForever
<1>15. CASE UNCHANGED <<state, want, doing>>
  BY <1>3, <1>15
<1> QED
  BY <1>6, <1>7, <1>8, <1>9, <1>10, <1>11, <1>12, <1>13, <1>14, <1>15
     DEF Networking!Next, Networking!nvars, Networking!env, Networking!Hotspot, Networking!Begin,
         Networking!WatchdogRests, Networking!RadioReset, Networking!AutoConnects,
         Networking!LinkDrops, Networking!RadioHangs, Networking!GrillTurns, Networking!HourPasses

(* A page is told "connecting" only while a join waits or is under way, for any networks: whatever *)
(* fails after it, the hotspot that was up, the radio or the daemon, leaves the state at something *)
(* else, and the next join is taken (do_connect, net_thread).                                      *)
THEOREM JoinIsUnderWay == SumSpec => []JoinIsNotForever
<1> DEFINE Inv == which = "network" => JoinInv
<1>1. SumInit => Inv
  BY JoinInit DEF SumInit
<1>2. Inv /\ [SumNext]_sumVars => Inv'
  BY JoinStep, NetworkPart, SameComponent
<1>3. Inv => JoinIsNotForever
  BY DEF JoinInv, JoinIsNotForever
<1> QED
  BY <1>1, <1>2, <1>3, PTL DEF SumSpec

-----------------------------------------------------------------------------
(* The probes. What a poll has read it has read from the devices in force: a reload waits for it. *)
(* The probes are then gone through in turn, each under its own name.                             *)

ProbeFields == {"label", "port", "enabled", "in_use", "valid", "value"}
IsSeq(s) == \E S : s \in Seq(S)

\* A list of probes that shows only what is their own
OwnReadings(s) ==
  \A k \in DOMAIN s : /\ ProbeFields \subseteq DOMAIN s[k]
                      /\ s[k].port = snap[k].port
                      /\ s[k].valid => /\ priv[k] # 0
                                       /\ s[k].value = [inst |-> probes_dev[priv[k]].inst,
                                                        port |-> s[k].port]

ProbesTypeOK ==
  /\ map \in Setups
  /\ IsSeq(snap)
  /\ {"at", "n", "i", "samples"} \subseteq DOMAIN poll
  /\ \/ poll.at = "read" /\ reading = 1
     \/ poll.at = "rest" /\ reading = 0

\* The samples are of the devices in force, each in its place
SamplesOK ==
  poll.at = "read" =>
    /\ IsSeq(poll.samples) /\ poll.i = Len(poll.samples) + 1
    /\ \A d \in DOMAIN poll.samples :
         /\ {"polled", "ok", "inst"} \subseteq DOMAIN poll.samples[d]
         /\ poll.samples[d].polled => poll.samples[d].inst = probes_dev[d].inst

ProbesInv == ProbesTypeOK /\ SamplesOK /\ OwnReadings(snap)

LEMMA ProbesPart == which = "probes" /\ [SumNext]_sumVars => [Probing!Next]_(Probing!tvars)
BY DEF SumNext, Others, sumVars, probesVars, Probing!tvars

LEMMA SeqDomain ==
  ASSUME NEW s, IsSeq(s)
  PROVE  Len(s) \in Nat /\ DOMAIN s = 1..Len(s)
BY DEF IsSeq

LEMMA EmptyIsSeq == IsSeq(<<>>)
<1>1. <<>> \in Seq({})
  OBVIOUS
<1> QED
  BY <1>1 DEF IsSeq

LEMMA ProbesInit == Probing!Init => ProbesInv
BY EmptyIsSeq DEF Probing!Init, Probing!Resting, ProbesInv, ProbesTypeOK, SamplesOK, OwnReadings

\* The probes are built anew, and none has a reading
LEMMA BuiltOK ==
  ASSUME NEW devices, NEW ps, IsSeq(ps), NEW inUse, Probing!Built(devices, ps, inUse)
  PROVE  /\ IsSeq(snap') /\ OwnReadings(snap)'
<1>1. PICK f : snap' = [i \in DOMAIN ps |->
         [label |-> ps[i].label, port |-> ps[i].port, enabled |-> ps[i].enabled,
          ambient |-> f[i][1], in_use |-> f[i][2], valid |-> FALSE, value |-> Probing!None]]
  <2> DEFINE of == [i \in DOMAIN ps |-> Probing!DeviceOf(devices, ps[i])]
             f == [i \in DOMAIN ps |-> <<Probing!IsAmbient(devices, ps, of, i),
                                        ps[i].label \in inUse /\ ps[i].enabled>>]
  <2>1. snap' = [i \in DOMAIN ps |->
          [label |-> ps[i].label, port |-> ps[i].port, enabled |-> ps[i].enabled,
           ambient |-> f[i][1], in_use |-> f[i][2], valid |-> FALSE, value |-> Probing!None]]
    BY DEF Probing!Built
  <2> QED
    BY <2>1
<1>2. DOMAIN ps = 1..Len(ps) /\ Len(ps) \in Nat
  BY SeqDomain
<1>3. /\ DOMAIN snap' = DOMAIN ps
      /\ \A k \in DOMAIN snap' : ProbeFields \subseteq DOMAIN snap'[k] /\ snap'[k].valid = FALSE
  BY <1>1 DEF ProbeFields
<1>4. IsSeq(snap')
  <2> DEFINE S == {snap'[i] : i \in DOMAIN ps}
  <2>1. snap' \in [1..Len(ps) -> S]
    BY <1>1, <1>2
  <2>2. snap' \in Seq(S)
    BY <1>2, <2>1
  <2> QED
    BY <2>2 DEF IsSeq
<1> QED
  BY <1>3, <1>4 DEF OwnReadings

LEMMA SetupOK == ASSUME ProbesInv, NEW inUse, Probing!Setup(inUse), UNCHANGED map
                 PROVE  IsSeq(snap') /\ OwnReadings(snap)'
<1>1. PICK works : Probing!Built(Probing!Created(map.devices, works), map.probes, inUse)
  BY DEF Probing!Setup
<1>2. IsSeq(map.probes)
  BY ProbesAssumption DEF ProbesInv, ProbesTypeOK, IsSeq
<1> QED
  BY <1>1, <1>2, BuiltOK

\* The list after each probe in turn, as pf_probes_poll goes through them
Turns(f, n, gone) ==
  f = [k \in 0..n |->
         IF k = 0 THEN snap ELSE [f[k - 1] EXCEPT ![k] = Probing!Pushed(f[k - 1], k, gone)]]

\* However many probes there are, they can be gone through: the first number that could not is none
LEMMA TurnsExist == ASSUME NEW n \in Nat, NEW gone PROVE \E f : Turns(f, n, gone)
<1> DEFINE Bad == {m \in Nat : ~\E f : Turns(f, m, gone)}
<1> SUFFICES ASSUME Bad # {} PROVE FALSE
  OBVIOUS
<1>1. PICK m \in Bad : \A j \in Bad : m <= j
  BY LeastOf
<1>2. CASE m = 0
  <2> DEFINE f == [k \in 0..0 |-> snap]
  <2>1. Turns(f, 0, gone)
    BY DEF Turns
  <2> QED
    BY <1>1, <1>2, <2>1
<1>3. CASE m # 0
  <2>1. m \in Nat /\ m - 1 \in Nat /\ ~(m <= m - 1)
    BY <1>1, <1>3
  <2>2. PICK f : Turns(f, m - 1, gone)
    BY <1>1, <2>1
  <2> DEFINE After(h, k) ==
        IF k = 0 THEN snap ELSE [h[k - 1] EXCEPT ![k] = Probing!Pushed(h[k - 1], k, gone)]
  <2> DEFINE g == [k \in 0..m |-> After(f, k)]
  <2>3. f = [k \in 0..(m - 1) |-> After(f, k)]
    BY <2>2, Zenon DEF Turns
  <2> HIDE DEF After
  <2>4. \A k \in 0..(m - 1) : k \in 0..m /\ g[k] = f[k]
    BY <2>1, <2>3
  <2>5. ASSUME NEW k \in 0..m PROVE After(f, k) = After(g, k)
    <3>1. k = 0 \/ k - 1 \in 0..(m - 1)
      BY <2>1
    <3>2. k = 0 \/ g[k - 1] = f[k - 1]
      BY <2>4, <3>1
    <3> HIDE DEF g
    <3> QED
      BY <3>2 DEF After
  <2>6. g = [k \in 0..m |-> After(g, k)]
    BY <2>5
  <2>7. Turns(g, m, gone)
    BY <2>6, Zenon DEF Turns, After
  <2> QED
    BY <1>1, <2>7, Zenon
<1> QED
  BY <1>2, <1>3

LEMMA PollEndsIs ==
  ASSUME ProbesInv, Probing!PollEnds
  PROVE  \E gone, f : Turns(f, Len(snap), gone) /\ snap' = f[Len(snap)]
<1>1. PICK gone : snap' = (CHOOSE f : Turns(f, Len(snap), gone))[Len(snap)]
  BY Zenon DEF Probing!PollEnds, Turns
<1>2. Len(snap) \in Nat
  BY SeqDomain DEF ProbesInv, ProbesTypeOK
<1>3. Turns(CHOOSE f : Turns(f, Len(snap), gone), Len(snap), gone)
  BY <1>2, TurnsExist, Zenon
<1> QED
  BY <1>1, <1>3, Zenon

\* What a probe is given is a sample of its own device
LEMMA PushedIsOwn ==
  ASSUME ProbesInv, poll.at = "read", NEW s, OwnReadings(s), DOMAIN s = DOMAIN snap,
         NEW k \in DOMAIN snap, NEW gone
  PROVE  LET p == Probing!Pushed(s, k, gone) IN
         /\ ProbeFields \subseteq DOMAIN p /\ p.port = snap[k].port
         /\ p.valid => /\ priv[k] # 0
                       /\ p.value = [inst |-> probes_dev[priv[k]].inst, port |-> p.port]
<1>1. /\ ProbeFields \subseteq DOMAIN s[k] /\ s[k].port = snap[k].port
      /\ s[k].valid => /\ priv[k] # 0
                       /\ s[k].value = [inst |-> probes_dev[priv[k]].inst, port |-> s[k].port]
  BY DEF OwnReadings
<1>2. CASE \/ ~snap[k].enabled \/ priv[k] \notin DOMAIN poll.samples
           \/ ~Probing!HasPort(k) \/ ~Probing!Sample(k).polled
  BY <1>1, <1>2 DEF Probing!Pushed
<1>3. CASE /\ snap[k].enabled /\ priv[k] \in DOMAIN poll.samples /\ Probing!Sample(k).polled
           /\ Probing!HasPort(k) /\ Probing!Reads(s, k)
  <2> DEFINE v == [inst |-> Probing!Sample(k).inst, port |-> snap[k].port]
             u == s[k].in_use \/ (probes_cooking /\ ~explicit)
  <2>1. priv[k] # 0 /\ Probing!Sample(k).inst = probes_dev[priv[k]].inst
    <3>1. DOMAIN poll.samples = 1..Len(poll.samples) /\ Len(poll.samples) \in Nat
      BY SeqDomain DEF ProbesInv, SamplesOK
    <3> QED
      BY <1>3, <3>1 DEF ProbesInv, SamplesOK, Probing!Sample
  <2>2. Probing!Pushed(s, k, gone) = [s[k] EXCEPT !.valid = TRUE, !.value = v, !.in_use = u]
    BY <1>3 DEF Probing!Pushed
  <2>3. v = [inst |-> probes_dev[priv[k]].inst, port |-> s[k].port]
    BY <1>1, <2>1
  <2> HIDE DEF v, u
  <2> QED
    BY <1>1, <2>1, <2>2, <2>3 DEF ProbeFields
<1>4. CASE /\ snap[k].enabled /\ priv[k] \in DOMAIN poll.samples /\ Probing!Sample(k).polled
           /\ Probing!HasPort(k) /\ ~Probing!Reads(s, k)
  <2> DEFINE v == IF k \in gone THEN Probing!None ELSE s[k].value
  <2>1. Probing!Pushed(s, k, gone) = [s[k] EXCEPT !.valid = FALSE, !.value = v]
    BY <1>4 DEF Probing!Pushed
  <2> HIDE DEF v
  <2> QED
    BY <1>1, <2>1 DEF ProbeFields
<1> QED
  BY <1>2, <1>3, <1>4

\* One probe after the other, each shows what is its own
LEMMA TurnsKeepOwn ==
  ASSUME ProbesInv, poll.at = "read", NEW gone, NEW f, Turns(f, Len(snap), gone)
  PROVE  \A k \in 0..Len(snap) :
           f[k] = [i \in 1..Len(snap) |-> f[k][i]] /\ OwnReadings(f[k])
<1> DEFINE n == Len(snap)
           Fine(k) == f[k] = [i \in 1..n |-> f[k][i]] /\ OwnReadings(f[k])
           Bad == {k \in 0..n : ~Fine(k)}
<1>1. n \in Nat /\ DOMAIN snap = 1..n
  BY SeqDomain DEF ProbesInv, ProbesTypeOK
<1> SUFFICES ASSUME Bad # {} PROVE FALSE
  OBVIOUS
<1>2. PICK m \in Bad : \A j \in Bad : m <= j
  <2>1. Bad \in SUBSET Nat
    BY <1>1
  <2> QED
    BY <2>1, LeastOf
<1>3. CASE m = 0
  <2>1. f[0] = snap /\ snap = [i \in 1..n |-> snap[i]]
    BY <1>1 DEF Turns, ProbesInv, ProbesTypeOK, IsSeq
  <2> QED
    BY <1>2, <1>3, <2>1 DEF ProbesInv
<1>4. CASE m # 0
  <2>1. m \in 1..n /\ m - 1 \in 0..n /\ ~(m <= m - 1)
    BY <1>1, <1>2, <1>4
  <2>2. Fine(m - 1)
    BY <1>2, <2>1
  <2> DEFINE s == f[m - 1]
             p == Probing!Pushed(s, m, gone)
  <2>3. f[m] = [s EXCEPT ![m] = p]
    <3>1. m \in 0..n /\ m # 0
      BY <1>4, <2>1
    <3> QED
      BY <3>1, Zenon DEF Turns
  <2>4. s = [i \in 1..n |-> s[i]] /\ DOMAIN s = DOMAIN snap /\ OwnReadings(s)
    <3>1. s = [i \in 1..n |-> s[i]]
      BY <2>2
    <3> QED
      BY <1>1, <2>2, <3>1
  <2> HIDE DEF s
  <2>5. /\ ProbeFields \subseteq DOMAIN p /\ p.port = snap[m].port
        /\ p.valid => /\ priv[m] # 0
                      /\ p.value = [inst |-> probes_dev[priv[m]].inst, port |-> p.port]
    BY <1>1, <2>1, <2>4, PushedIsOwn
  <2> HIDE DEF p
  <2>6. f[m] = [i \in 1..n |-> f[m][i]]
    BY <2>3, <2>4
  <2>7. f[m][m] = p /\ \A i \in 1..n \ {m} : f[m][i] = s[i]
    BY <2>1, <2>3, <2>4
  <2>8. DOMAIN f[m] = 1..n
    BY <2>6
  <2>9. OwnReadings(f[m])
    <3> HIDE DEF n
    <3> QED
      BY <1>1, <2>4, <2>5, <2>7, <2>8 DEF OwnReadings
  <2> QED
    BY <1>2, <2>6, <2>9
<1> QED
  BY <1>3, <1>4

LEMMA PollEndsInv == ASSUME ProbesInv, Probing!PollEnds PROVE ProbesInv'
<1>1. poll.at = "read"
  BY DEF Probing!PollEnds
<1>2. PICK gone, f : Turns(f, Len(snap), gone) /\ snap' = f[Len(snap)]
  BY PollEndsIs, Zenon
<1>3. Len(snap) \in Nat /\ DOMAIN snap = 1..Len(snap)
  BY SeqDomain DEF ProbesInv, ProbesTypeOK
<1>4. snap' = [i \in 1..Len(snap) |-> snap'[i]] /\ OwnReadings(snap')
  <2>1. Len(snap) \in 0..Len(snap)
    BY <1>3
  <2> QED
    BY <1>1, <1>2, <2>1, TurnsKeepOwn
<1>5. OwnReadings(snap)'
  <2>1. DOMAIN snap' = DOMAIN snap
    BY <1>3, <1>4
  <2>2. priv' = priv /\ probes_dev' = probes_dev
    BY DEF Probing!PollEnds
  <2> QED
    BY <1>4, <2>1, <2>2 DEF OwnReadings
<1>6. IsSeq(snap')
  <2> DEFINE S == {snap'[i] : i \in DOMAIN snap}
  <2>1. snap' \in [1..Len(snap) -> S]
    BY <1>3, <1>4
  <2>2. snap' \in Seq(S)
    BY <1>3, <2>1
  <2> QED
    BY <2>2 DEF IsSeq
<1>7. ProbesTypeOK'
  BY <1>1, <1>6 DEF ProbesInv, ProbesTypeOK, Probing!PollEnds, Probing!Resting
<1>8. SamplesOK'
  BY DEF SamplesOK, Probing!PollEnds, Probing!Resting
<1> QED
  BY <1>5, <1>7, <1>8 DEF ProbesInv

\* One device is read: its sample goes behind the others
LEMMA ReadDeviceInv == ASSUME ProbesInv, Probing!ReadDevice PROVE ProbesInv'
<1>1. PICK x : /\ {"polled", "ok", "inst"} \subseteq DOMAIN x
               /\ x.inst = IF x.polled THEN probes_dev[poll.i].inst ELSE 0
               /\ poll' = [poll EXCEPT !.i = poll.i + 1, !.samples = Append(poll.samples, x)]
  <2>1. PICK polled, ok :
          poll' = [poll EXCEPT !.i = poll.i + 1,
            !.samples = Append(poll.samples, [polled |-> polled, ok |-> ok,
                                 inst |-> IF polled THEN probes_dev[poll.i].inst ELSE 0])]
    BY DEF Probing!ReadDevice
  <2> DEFINE x == [polled |-> polled, ok |-> ok,
                   inst |-> IF polled THEN probes_dev[poll.i].inst ELSE 0]
  <2>2. {"polled", "ok", "inst"} \subseteq DOMAIN x
        /\ x.inst = IF x.polled THEN probes_dev[poll.i].inst ELSE 0
    OBVIOUS
  <2> HIDE DEF x
  <2>3. poll' = [poll EXCEPT !.i = poll.i + 1, !.samples = Append(poll.samples, x)]
    BY <2>1 DEF x
  <2> QED
    BY <2>2, <2>3
<1>2. /\ {"at", "n", "i", "samples"} \subseteq DOMAIN poll /\ poll.at = "read"
      /\ IsSeq(poll.samples) /\ poll.i = Len(poll.samples) + 1
  BY DEF ProbesInv, ProbesTypeOK, SamplesOK, Probing!ReadDevice
<1>3. PICK S : poll.samples \in Seq(S)
  BY <1>2 DEF IsSeq
<1> DEFINE w == Append(poll.samples, x)
           T == S \cup {x}
<1>4. poll.samples \in Seq(T)
  <2>1. S \subseteq T
    OBVIOUS
  <2>2. \A i \in 1..Len(poll.samples) : poll.samples[i] \in S
    BY <1>3, ElementOfSeq
  <2> QED
    BY <1>3, <2>1, <2>2
<1>5. /\ w \in Seq(T) /\ Len(w) = Len(poll.samples) + 1
      /\ \A i \in 1..Len(poll.samples) : w[i] = poll.samples[i]
      /\ w[Len(poll.samples) + 1] = x
  BY <1>4, AppendProperties
<1> HIDE DEF w, T
<1>6. /\ {"at", "n", "i", "samples"} \subseteq DOMAIN poll' /\ poll'.at = poll.at
      /\ poll'.i = poll.i + 1 /\ poll'.samples = w
  BY <1>1, <1>2 DEF w
<1>7. DOMAIN w = 1..(Len(poll.samples) + 1) /\ DOMAIN poll.samples = 1..Len(poll.samples)
      /\ Len(poll.samples) \in Nat
  BY <1>3, <1>5
<1>8. ASSUME NEW d \in DOMAIN w
      PROVE  /\ {"polled", "ok", "inst"} \subseteq DOMAIN w[d]
             /\ w[d].polled => w[d].inst = probes_dev[d].inst
  <2>1. CASE d = Len(poll.samples) + 1
    BY <1>1, <1>2, <1>5, <2>1
  <2>2. CASE d # Len(poll.samples) + 1
    <3>1. d \in 1..Len(poll.samples)
      BY <1>7, <1>8, <2>2
    <3> QED
      BY <1>2, <1>5, <1>7, <3>1 DEF ProbesInv, SamplesOK
  <2> QED
    BY <2>1, <2>2
<1>9. ProbesTypeOK' /\ OwnReadings(snap)'
  BY <1>2, <1>6 DEF ProbesInv, ProbesTypeOK, OwnReadings, Probing!ReadDevice
<1>10. IsSeq(w)
  BY <1>5 DEF IsSeq
<1>11. SamplesOK'
  <2>1. probes_dev' = probes_dev
    BY DEF Probing!ReadDevice
  <2> QED
    BY <1>2, <1>5, <1>6, <1>8, <1>10, <2>1 DEF SamplesOK
<1> QED
  BY <1>9, <1>11 DEF ProbesInv

LEMMA PollBeginsInv == ASSUME ProbesInv, Probing!PollBegins PROVE ProbesInv'
<1>1. /\ {"at", "n", "i", "samples"} \subseteq DOMAIN poll'
      /\ poll'.at = "read" /\ poll'.i = 1 /\ poll'.samples = <<>> /\ reading' = 1
  BY DEF Probing!PollBegins, ProbesInv, ProbesTypeOK
<1>2. Len(<<>>) = 0 /\ DOMAIN <<>> = {}
  OBVIOUS
<1>3. ProbesTypeOK' /\ OwnReadings(snap)'
  <2>1. UNCHANGED <<map, snap, priv, probes_dev>>
    BY DEF Probing!PollBegins
  <2>2. ProbesTypeOK'
    BY <1>1, <2>1 DEF ProbesInv, ProbesTypeOK
  <2>3. OwnReadings(snap)'
    BY <2>1 DEF ProbesInv, OwnReadings
  <2> QED
    BY <2>2, <2>3
<1>4. SamplesOK'
  BY <1>1, <1>2, EmptyIsSeq DEF SamplesOK
<1> QED
  BY <1>3, <1>4 DEF ProbesInv

\* Which probes are in the food says nothing of what they read
LEMMA InUseInv ==
  ASSUME ProbesInv, UNCHANGED <<map, priv, probes_dev, reading, poll>>, NEW f,
         snap' = [k \in DOMAIN snap |-> [snap[k] EXCEPT !.in_use = f[k]]]
  PROVE  ProbesInv'
<1>1. Len(snap) \in Nat /\ DOMAIN snap = 1..Len(snap)
  BY SeqDomain DEF ProbesInv, ProbesTypeOK
<1>2. \A k \in DOMAIN snap : /\ ProbeFields \subseteq DOMAIN snap'[k]
                             /\ snap'[k].valid = snap[k].valid /\ snap'[k].value = snap[k].value
                             /\ snap'[k].port = snap[k].port
  BY DEF ProbesInv, OwnReadings, ProbeFields
<1>3. OwnReadings(snap)'
  BY <1>2 DEF ProbesInv, OwnReadings
<1>4. IsSeq(snap')
  <2> DEFINE S == {snap'[i] : i \in DOMAIN snap}
  <2>1. snap' \in [1..Len(snap) -> S]
    BY <1>1
  <2>2. snap' \in Seq(S)
    BY <1>1, <2>1
  <2> QED
    BY <2>2 DEF IsSeq
<1> QED
  BY <1>3, <1>4 DEF ProbesInv, ProbesTypeOK, SamplesOK

LEMMA SetInUseInv == ASSUME ProbesInv, NEW labels, Probing!SetInUse(labels) PROVE ProbesInv'
<1> DEFINE f == [k \in DOMAIN snap |-> snap[k].label \in labels /\ snap[k].enabled]
<1>1. snap' = [k \in DOMAIN snap |-> [snap[k] EXCEPT !.in_use = f[k]]]
  BY DEF Probing!SetInUse
<1> HIDE DEF f
<1> QED
  BY <1>1, InUseInv DEF Probing!SetInUse

LEMMA SetCookingInv == ASSUME ProbesInv, NEW set, Probing!SetCooking(set) PROVE ProbesInv'
<1>1. CASE UNCHANGED snap
  BY <1>1 DEF Probing!SetCooking, ProbesInv, ProbesTypeOK, SamplesOK, OwnReadings
<1>2. CASE snap' = [k \in DOMAIN snap |-> [snap[k] EXCEPT !.in_use = FALSE]]
  <2> DEFINE f == [k \in DOMAIN snap |-> FALSE]
  <2>1. snap' = [k \in DOMAIN snap |-> [snap[k] EXCEPT !.in_use = f[k]]]
    BY <1>2
  <2> HIDE DEF f
  <2> QED
    BY <2>1, InUseInv DEF Probing!SetCooking
<1> QED
  BY <1>1, <1>2 DEF Probing!SetCooking

\* The devices change when nothing reads them: a reload waits for the poll, and a daemon that
\* starts again has none under way
LEMMA ReloadInv == ASSUME ProbesInv, Probing!Reload \/ Probing!Resume PROVE ProbesInv'
<1>1. PICK inUse : Probing!Setup(inUse)
  BY DEF Probing!Reload, Probing!Resume
<1>2. UNCHANGED map
  BY DEF Probing!Reload, Probing!Resume
<1>3. IsSeq(snap') /\ OwnReadings(snap)'
  BY <1>1, <1>2, SetupOK
<1>4. poll'.at = "rest" /\ reading' = 0 /\ {"at", "n", "i", "samples"} \subseteq DOMAIN poll'
  BY DEF Probing!Reload, Probing!Resume, Probing!MayTearDown, Probing!Resting, ProbesInv,
         ProbesTypeOK
<1> QED
  BY <1>2, <1>3, <1>4 DEF ProbesInv, ProbesTypeOK, SamplesOK

LEMMA ProbesStep == ProbesInv /\ [Probing!Next]_(Probing!tvars) => ProbesInv'
<1> SUFFICES ASSUME ProbesInv, [Probing!Next]_(Probing!tvars) PROVE ProbesInv'
  OBVIOUS
<1>1. CASE Probing!Edit
  BY <1>1 DEF Probing!Edit, ProbesInv, ProbesTypeOK, SamplesOK, OwnReadings
<1>2. CASE UNCHANGED Probing!tvars
  BY <1>2 DEF Probing!tvars, ProbesInv, ProbesTypeOK, SamplesOK, OwnReadings
<1> QED
  BY <1>1, <1>2, ReloadInv, PollBeginsInv, ReadDeviceInv, PollEndsInv, SetInUseInv, SetCookingInv
     DEF Probing!Next

(* A probe shows only what its own device and port, of the setup in force, have said: for any maps *)
(* of probes and devices, edited at any time, and for a poll of any length whose devices are read  *)
(* outside the lock (probes.c:329-343).                                                            *)
THEOREM ReadingIsOwn == SumSpec => []ReadingIsItsOwn
<1> DEFINE Inv == which = "probes" => ProbesInv
<1>1. SumInit => Inv
  BY ProbesInit DEF SumInit
<1>2. Inv /\ [SumNext]_sumVars => Inv'
  BY ProbesStep, ProbesPart, SameComponent
<1>3. Inv => ReadingIsItsOwn
  BY DEF ProbesInv, OwnReadings, ReadingIsItsOwn, Probing!ReadingIsItsOwn
<1> QED
  BY <1>1, <1>2, <1>3, PTL DEF SumSpec

-----------------------------------------------------------------------------
(* The filter of a probe's readings. A difference that is held off is timed from the first       *)
(* sample that showed it, so it has been timed for as long as the mean has stood where it is.    *)

\* Of any of a list's places, one has the least value
LEMMA LeastValue ==
  ASSUME NEW n \in Nat, NEW v, \A i \in 1..n : v[i] \in Int, NEW J \in SUBSET (1..n), J # {}
  PROVE  \E m \in J : \A j \in J : v[m] <= v[j]
<1> DEFINE Upto(k) == {j \in J : j <= k}
           Fine(k) == Upto(k) = {} \/ \E m \in Upto(k) : \A j \in Upto(k) : v[m] <= v[j]
           Bad == {k \in Nat : ~Fine(k)}
<1>1. \A j \in J : j \in Nat /\ 1 <= j /\ j <= n /\ v[j] \in Int
  OBVIOUS
<1>2. Upto(n) = J /\ Upto(0) = {}
  <2>1. \A j \in J : j <= n /\ ~(j <= 0)
    BY <1>1
  <2> QED
    BY <2>1, Zenon
<1>3. \A k \in Nat \ {0} : Upto(k) = Upto(k - 1) \cup (J \cap {k})
  <2> TAKE k \in Nat \ {0}
  <2>1. \A j \in J : j <= k <=> j <= k - 1 \/ j = k
    BY <1>1
  <2> QED
    BY <2>1, Zenon
<1>4. \A k : Upto(k) \subseteq J
  OBVIOUS
<1> HIDE DEF Upto
<1>5. ASSUME NEW k \in Nat \ {0}, Fine(k - 1) PROVE Fine(k)
  <2>1. CASE k \notin J
    BY <1>3, <1>5, <2>1
  <2>2. CASE k \in J
    <3>1. Upto(k) = Upto(k - 1) \cup {k}
      BY <1>3, <2>2
    <3>2. CASE Upto(k - 1) = {}
      <4>1. Upto(k) = {k} /\ v[k] \in Int
        BY <1>1, <2>2, <3>1, <3>2
      <4>2. \A j \in Upto(k) : v[k] <= v[j]
        BY <4>1
      <4> QED
        BY <4>1, <4>2
    <3>3. CASE Upto(k - 1) # {}
      <4>1. PICK l \in Upto(k - 1) : \A j \in Upto(k - 1) : v[l] <= v[j]
        BY <1>5, <3>3
      <4>2. v[l] \in Int /\ v[k] \in Int /\ \A j \in Upto(k - 1) : v[j] \in Int
        BY <1>1, <1>4, <2>2, <4>1
      <4>3. CASE v[l] <= v[k]
        BY <3>1, <4>1, <4>3
      <4>4. CASE v[k] <= v[l]
        <5>1. \A j \in Upto(k - 1) : v[k] <= v[j]
          BY <4>1, <4>2, <4>4
        <5>2. v[k] <= v[k]
          BY <4>2
        <5> QED
          BY <3>1, <5>1, <5>2
      <4> QED
        BY <4>2, <4>3, <4>4
    <3> QED
      BY <3>2, <3>3
  <2> QED
    BY <2>1, <2>2
<1>6. Fine(0)
  BY <1>2
<1> HIDE DEF Fine
<1>7. Bad = {}
  <2> SUFFICES ASSUME Bad # {} PROVE FALSE
    OBVIOUS
  <2>1. PICK m \in Bad : \A k \in Bad : m <= k
    <3>1. Bad \in SUBSET Nat
      OBVIOUS
    <3> HIDE DEF Bad
    <3> QED
      BY <3>1, LeastOf
  <2>2. m \in Nat /\ m # 0 /\ ~Fine(m)
    BY <1>6, <2>1
  <2>3. m - 1 \in Nat /\ ~(m <= m - 1)
    BY <2>2
  <2>4. Fine(m - 1)
    BY <2>1, <2>3
  <2> QED
    BY <1>5, <2>2, <2>4
<1> QED
  BY <1>2, <1>7 DEF Fine

\* A list of numbers has a middle one, and it is one of them
LEMMA MedianIsOne ==
  ASSUME NEW n \in Nat \ {0}, NEW v \in [1..n -> Int]
  PROVE  Filtering!Median(v) \in Int
<1> DEFINE UpTo(x) == {i \in DOMAIN v : v[i] <= x}
           J == {j \in 1..n : 2 * Cardinality(UpTo(v[j])) > n}
<1>1. PICK m \in 1..n : \A j \in 1..n : v[j] <= v[m]
  <2> DEFINE w == [i \in 1..n |-> -v[i]]
  <2>1. \A i \in 1..n : w[i] \in Int
    OBVIOUS
  <2>2. 1..n # {}
    OBVIOUS
  <2>3. PICK k \in 1..n : \A j \in 1..n : w[k] <= w[j]
    <3> HIDE DEF w
    <3> QED
      BY <2>1, <2>2, LeastValue
  <2>4. \A j \in 1..n : v[j] <= v[k]
    BY <2>3
  <2> QED
    BY <2>4
<1>2. m \in J
  <2>1. UpTo(v[m]) = 1..n
    BY <1>1
  <2>2. Cardinality(1..n) = n
    <3>1. Cardinality(1..n) = IF 1 > n THEN 0 ELSE n - 1 + 1
      BY FS_Interval
    <3> QED
      BY <3>1
  <2>3. Cardinality(UpTo(v[m])) = n
    BY <2>1, <2>2
  <2> HIDE DEF UpTo
  <2> QED
    BY <1>1, <2>3
<1>3. PICK k \in J : \A j \in J : v[k] <= v[j]
  <2>1. J \in SUBSET (1..n) /\ J # {} /\ \A i \in 1..n : v[i] \in Int
    BY <1>2
  <2> HIDE DEF J
  <2> QED
    BY <2>1, LeastValue
<1> DEFINE S == {x \in Filtering!Range(v) :
                   2 * Filtering!Cardinality({i \in DOMAIN v : v[i] <= x}) > Len(v)}
<1>4. \A x : Filtering!Cardinality(UpTo(x)) = Cardinality(UpTo(x))
  BY DEF Filtering!Cardinality, Cardinality
<1>5. Len(v) = n /\ Filtering!Range(v) = {v[i] : i \in 1..n}
  BY DEF Filtering!Range
<1>6. S = {v[j] : j \in J}
  <2>1. S = {x \in {v[i] : i \in 1..n} : 2 * Cardinality(UpTo(x)) > n}
    <3> HIDE DEF UpTo
    <3>1. S = {x \in Filtering!Range(v) : 2 * Filtering!Cardinality(UpTo(x)) > Len(v)}
      BY DEF UpTo
    <3> HIDE DEF S
    <3> QED
      BY <1>4, <1>5, <3>1
  <2> HIDE DEF S, UpTo
  <2> QED
    BY <2>1
<1>7. Filtering!Median(v) = Filtering!Min(S)
  BY DEF Filtering!Median
<1> HIDE DEF S
<1>8. Filtering!Min(S) \in S
  BY <1>3, <1>6 DEF Filtering!Min
<1>9. \A x \in S : x \in Int
  BY <1>6
<1> QED
  BY <1>7, <1>8, <1>9

\* The sums of the first samples of a list
Sums(f, v) == f = [k \in 0..Len(v) |-> IF k = 0 THEN 0 ELSE f[k - 1] + v[k]]

LEMMA SumsExist == ASSUME NEW n \in Nat, NEW v, Len(v) = n PROVE \E f : Sums(f, v)
<1> DEFINE After(h, k) == IF k = 0 THEN 0 ELSE h[k - 1] + v[k]
           Upto(m) == \E f : f = [k \in 0..m |-> After(f, k)]
           Bad == {m \in Nat : ~Upto(m)}
<1>1. Upto(0)
  <2> DEFINE f == [k \in 0..0 |-> 0]
  <2>1. f = [k \in 0..0 |-> After(f, k)]
    OBVIOUS
  <2> QED
    BY <2>1
<1>2. ASSUME NEW m \in Nat \ {0}, Upto(m - 1) PROVE Upto(m)
  <2>1. PICK f : f = [k \in 0..(m - 1) |-> After(f, k)]
    BY <1>2
  <2> DEFINE g == [k \in 0..m |-> After(f, k)]
  <2>2. \A k \in 0..(m - 1) : k \in 0..m /\ g[k] = f[k]
    <3> HIDE DEF After
    <3>1. \A k \in 0..(m - 1) : k \in 0..m /\ f[k] = After(f, k)
      BY <2>1
    <3> QED
      BY <3>1
  <2>3. ASSUME NEW k \in 0..m PROVE After(f, k) = After(g, k)
    <3>1. k = 0 \/ k - 1 \in 0..(m - 1)
      OBVIOUS
    <3>2. k = 0 \/ g[k - 1] = f[k - 1]
      BY <2>2, <3>1
    <3> HIDE DEF g
    <3> QED
      BY <3>2 DEF After
  <2> HIDE DEF After
  <2>4. g = [k \in 0..m |-> After(g, k)]
    BY <2>3
  <2> HIDE DEF g
  <2> QED
    BY <2>4, Zenon
<1> HIDE DEF Upto
<1>3. Bad = {}
  <2> SUFFICES ASSUME Bad # {} PROVE FALSE
    OBVIOUS
  <2>1. PICK m \in Bad : \A k \in Bad : m <= k
    <3>1. Bad \in SUBSET Nat
      OBVIOUS
    <3> HIDE DEF Bad
    <3> QED
      BY <3>1, LeastOf
  <2>2. m \in Nat /\ m # 0 /\ ~Upto(m)
    BY <1>1, <2>1
  <2>3. m - 1 \in Nat /\ ~(m <= m - 1)
    BY <2>2
  <2>4. Upto(m - 1)
    BY <2>1, <2>3
  <2> QED
    BY <1>2, <2>2, <2>4
<1>4. Upto(n)
  BY <1>3
<1> QED
  BY <1>4, Zenon DEF Upto, Sums

LEMMA SumOfIs ==
  ASSUME NEW n \in Nat, NEW v, Len(v) = n
  PROVE  \E f : Sums(f, v) /\ Filtering!SumOf(v) = f[n]
<1>1. Filtering!SumOf(v) = (CHOOSE f : Sums(f, v))[Len(v)]
  BY Zenon DEF Filtering!SumOf, Sums
<1>2. Sums(CHOOSE f : Sums(f, v), v)
  BY SumsExist, Zenon
<1> QED
  BY <1>1, <1>2, Zenon

\* What holds of no samples and, with one more, of one more, holds of the sum: that it is a whole
\* number, and that of samples that are all the same it is so many times that one
LEMMA SumIsInt ==
  ASSUME NEW n \in Nat, NEW v \in [1..n -> Int]
  PROVE  Filtering!SumOf(v) \in Int
<1>1. Len(v) = n
  OBVIOUS
<1>2. PICK f : Sums(f, v) /\ Filtering!SumOf(v) = f[n]
  BY <1>1, SumOfIs
<1>3. f[0] = 0 /\ \A k \in 1..n : f[k] = f[k - 1] + v[k]
  BY <1>1, <1>2 DEF Sums
<1> DEFINE Bad == {k \in 0..n : f[k] \notin Int}
<1>4. Bad = {}
  <2> SUFFICES ASSUME Bad # {} PROVE FALSE
    OBVIOUS
  <2>1. PICK m \in Bad : \A k \in Bad : m <= k
    <3>1. Bad \in SUBSET Nat
      OBVIOUS
    <3> HIDE DEF Bad
    <3> QED
      BY <3>1, LeastOf
  <2>2. m \in 1..n /\ m - 1 \in 0..n /\ ~(m <= m - 1)
    BY <1>3, <2>1
  <2>3. f[m - 1] \in Int
    BY <2>1, <2>2
  <2>4. f[m] = f[m - 1] + v[m]
    BY <1>3, <2>2
  <2> QED
    BY <2>1, <2>2, <2>3, <2>4
<1> QED
  BY <1>2, <1>4

LEMMA SumOfSame ==
  ASSUME NEW n \in Nat, NEW c \in Int
  PROVE  Filtering!SumOf([i \in 1..n |-> c]) = n * c
<1> DEFINE v == [i \in 1..n |-> c]
<1>1. Len(v) = n
  OBVIOUS
<1>2. PICK f : Sums(f, v) /\ Filtering!SumOf(v) = f[n]
  BY <1>1, SumOfIs
<1>3. f[0] = 0 /\ \A k \in 1..n : f[k] = f[k - 1] + c
  BY <1>1, <1>2 DEF Sums
<1> DEFINE Bad == {k \in 0..n : f[k] # k * c}
<1>4. Bad = {}
  <2> SUFFICES ASSUME Bad # {} PROVE FALSE
    OBVIOUS
  <2>1. PICK m \in Bad : \A k \in Bad : m <= k
    <3>1. Bad \in SUBSET Nat
      OBVIOUS
    <3> HIDE DEF Bad
    <3> QED
      BY <3>1, LeastOf
  <2>2. m # 0
    BY <1>3, <2>1
  <2>3. m \in 1..n /\ m - 1 \in 0..n /\ ~(m <= m - 1)
    BY <2>1, <2>2
  <2>4. f[m - 1] = (m - 1) * c
    BY <2>1, <2>3
  <2>5. f[m] = (m - 1) * c + c
    BY <1>3, <2>3, <2>4
  <2>6. (m - 1) * c + c = m * c
    BY <2>3
  <2> QED
    BY <2>1, <2>5, <2>6
<1> QED
  BY <1>2, <1>4

FilterTypeOK ==
  /\ med = <<>> \/ med \in [1..Med -> Int]
  /\ means = <<>> \/ means \in [1..Mean -> Int]
  /\ med = <<>> <=> means = <<>>
  /\ out \in Int /\ lasting \in Int /\ unstable \in BOOLEAN

\* A difference that is held off has been so for as long as the mean has stood, and not for the
\* hold time; without one, the mean is what is reported
HeldOff ==
  IF unstable THEN filter_held \in Nat /\ filter_held < Hold /\ lasting <= filter_held
              ELSE filter_held = -1 /\ out = Filtering!SumOf(means)
FilterInv == FilterTypeOK /\ HeldOff

LEMMA FilterPart == which = "filter" /\ [SumNext]_sumVars => [Filtering!Next]_(Filtering!fvars)
BY DEF SumNext, Others, sumVars, filterVars, Filtering!fvars

LEMMA SumOfNone == Filtering!SumOf(<<>>) = 0
<1>1. Len(<<>>) = 0
  OBVIOUS
<1>2. PICK f : Sums(f, <<>>) /\ Filtering!SumOf(<<>>) = f[0]
  BY <1>1, SumOfIs
<1> QED
  BY <1>1, <1>2 DEF Sums

\* Nothing has been read yet, or no longer is
LEMMA NoneRead ==
  ASSUME med = <<>>, means = <<>>, out = 0, filter_held = -1, unstable = FALSE, lasting = 0
  PROVE  FilterInv
<1>1. FilterTypeOK
  <2>1. 0 \in Int
    OBVIOUS
  <2> QED
    BY <2>1, Zenon DEF FilterTypeOK
<1>2. HeldOff
  BY SumOfNone DEF HeldOff
<1> QED
  BY <1>1, <1>2 DEF FilterInv

LEMMA FirstInv == ASSUME FilterInv, NEW c \in Samples, Filtering!First(c) PROVE FilterInv'
<1>1. c \in Int /\ Med \in Nat \ {0} /\ Mean \in Nat \ {0}
  BY FilterAssumption
<1>2. /\ med' = [i \in 1..Med |-> c] /\ means' = [i \in 1..Mean |-> c] /\ out' = Mean * c
      /\ filter_held' = -1 /\ unstable' = FALSE /\ lasting' = 0
  BY DEF Filtering!First
<1>3. Filtering!SumOf(means') = Mean * c
  BY <1>1, <1>2, SumOfSame
<1>4. med' # <<>> /\ means' # <<>>
  BY <1>1, <1>2
<1>5. FilterTypeOK'
  <2>1. med' \in [1..Med -> Int]
    BY <1>1, <1>2
  <2>2. means' \in [1..Mean -> Int]
    BY <1>1, <1>2
  <2>3. out' \in Int
    BY <1>1, <1>2
  <2>4. 0 \in Int
    OBVIOUS
  <2> QED
    BY <1>2, <1>4, <2>1, <2>2, <2>3, <2>4, Zenon DEF FilterTypeOK
<1>6. Filtering!SumOf(means)' = Filtering!SumOf(means')
  BY DEF Filtering!SumOf
<1> QED
  BY <1>2, <1>3, <1>5, <1>6 DEF FilterInv, HeldOff

\* The samples of a window, one more of them
LEMMA ShiftedIs ==
  ASSUME NEW n \in Nat \ {0}, NEW v \in [1..n -> Int], NEW c \in Int
  PROVE  Filtering!Shifted(v, c) \in [1..n -> Int]
<1>1. Len(v) = n /\ v \in Seq(Int)
  OBVIOUS
<1>2. SubSeq(v, 1, n - 1) \in Seq(Int) /\ Len(SubSeq(v, 1, n - 1)) = n - 1
  BY <1>1, SubSeqProperties
<1> DEFINE w == SubSeq(v, 1, n - 1)
<1>3. <<c>> \in Seq(Int) /\ Len(<<c>>) = 1
  OBVIOUS
<1> HIDE DEF w
<1>4. (<<c>> \o w) \in Seq(Int) /\ Len(<<c>> \o w) = n
  BY <1>2, <1>3, ConcatProperties DEF w
<1>5. Filtering!Shifted(v, c) = <<c>> \o w
  BY <1>1 DEF Filtering!Shifted, w
<1> DEFINE s == <<c>> \o w
<1> HIDE DEF s
<1>6. s \in Seq(Int) /\ Len(s) = n
  BY <1>4 DEF s
<1>7. s \in [1..Len(s) -> Int]
  BY <1>6
<1> QED
  BY <1>5, <1>6, <1>7 DEF s

\* The gate, whatever it makes of the difference
LEMMA GateIs ==
  ASSUME FilterInv, NEW f \in Int, NEW dt \in Nat, Filtering!Gate(f, dt)
  PROVE  /\ out' \in Int /\ unstable' \in BOOLEAN
         /\ IF unstable'
              THEN /\ filter_held' = Filtering!HeldFor(dt)
                   /\ filter_held' \in Nat /\ filter_held' < Hold /\ f # out
              ELSE filter_held' = -1 /\ out' = f
<1> DEFINE d == f - out
           allowed == Slew * Mean * (IF dt > LongStep THEN LongStep ELSE dt)
           believed == filter_held >= 0 /\ Filtering!HeldFor(dt) >= Hold
<1>1. allowed \in Nat /\ d \in Int
  BY FilterAssumption DEF FilterInv, FilterTypeOK
<1>2. Hold \in Nat \ {0} /\ out \in Int
  BY FilterAssumption DEF FilterInv, FilterTypeOK
<1>3. \/ out' = f /\ filter_held' = -1 /\ unstable' = FALSE
      \/ /\ ~(-allowed <= d /\ d <= allowed) /\ ~believed
         /\ out' = out + (IF d > 0 THEN allowed ELSE -allowed)
         /\ filter_held' = Filtering!HeldFor(dt) /\ unstable' = TRUE
  BY DEF Filtering!Gate
<1> HIDE DEF allowed
<1>4. CASE out' = f /\ filter_held' = -1 /\ unstable' = FALSE
  BY <1>4
<1>5. CASE /\ ~(-allowed <= d /\ d <= allowed) /\ ~believed
           /\ out' = out + (IF d > 0 THEN allowed ELSE -allowed)
           /\ filter_held' = Filtering!HeldFor(dt) /\ unstable' = TRUE
  <2>1. f # out
    BY <1>1, <1>2, <1>5
  <2>2. Filtering!HeldFor(dt) \in Nat /\ Filtering!HeldFor(dt) < Hold
    <3>1. CASE filter_held = -1
      BY <1>2, <3>1 DEF Filtering!HeldFor
    <3>2. CASE filter_held \in Nat
      BY <1>2, <1>5, <3>2 DEF Filtering!HeldFor
    <3> QED
      BY <3>1, <3>2 DEF FilterInv, HeldOff
  <2>3. out' \in Int
    BY <1>1, <1>2, <1>5
  <2> QED
    BY <1>5, <2>1, <2>2, <2>3
<1> QED
  BY <1>3, <1>4, <1>5

LEMMA PushFilterInv ==
  ASSUME FilterInv, NEW c \in Samples, NEW dt \in Waits, Filtering!Push(c, dt)
  PROVE  FilterInv'
<1> DEFINE f == Filtering!SumOf(means')
<1>1. /\ c \in Int /\ dt \in Nat /\ Med \in Nat \ {0} /\ Mean \in Nat \ {0}
      /\ Hold \in Nat \ {0}
  BY FilterAssumption
<1>2. med \in [1..Med -> Int] /\ means \in [1..Mean -> Int]
  BY DEF Filtering!Push, FilterInv, FilterTypeOK
<1>3. med' \in [1..Med -> Int]
  BY <1>1, <1>2, ShiftedIs DEF Filtering!Push
<1>4. Filtering!Median(med') \in Int
  BY <1>1, <1>3, MedianIsOne
<1>5. means' = Filtering!Shifted(means, Filtering!Median(med'))
  BY DEF Filtering!Push
<1>6. means' \in [1..Mean -> Int]
  BY <1>1, <1>2, <1>4, <1>5, ShiftedIs
<1>7. f \in Int
  BY <1>1, <1>6, SumIsInt
<1>8. Filtering!Gate(f, dt)
  BY DEF Filtering!Push
<1>9. Filtering!SumOf(means)' = f
  BY DEF Filtering!SumOf
<1> HIDE DEF f
<1>10. /\ out' \in Int /\ unstable' \in BOOLEAN
       /\ IF unstable' THEN /\ filter_held' = Filtering!HeldFor(dt)
                            /\ filter_held' \in Nat /\ filter_held' < Hold /\ f # out
                       ELSE filter_held' = -1 /\ out' = f
  BY <1>1, <1>7, <1>8, GateIs
<1>11. \/ lasting' = 0
       \/ /\ means' = means
          /\ lasting' = IF lasting + dt > Hold THEN Hold + 1 ELSE lasting + dt
  BY DEF Filtering!Push
<1>12. lasting' \in Int
  BY <1>1, <1>11 DEF FilterInv, FilterTypeOK
<1>13. unstable' => lasting' <= filter_held'
  <2> SUFFICES ASSUME unstable' PROVE lasting' <= filter_held'
    OBVIOUS
  <2>1. CASE lasting' = 0
    BY <1>10, <2>1
  <2>2. CASE /\ means' = means
             /\ lasting' = IF lasting + dt > Hold THEN Hold + 1 ELSE lasting + dt
    <3>1. f = Filtering!SumOf(means) /\ f # out
      BY <1>10, <2>2 DEF f
    <3>2. unstable = TRUE
      BY <3>1 DEF FilterInv, FilterTypeOK, HeldOff
    <3>3. lasting <= filter_held /\ filter_held \in Nat /\ lasting \in Int
      BY <3>2 DEF FilterInv, FilterTypeOK, HeldOff
    <3>4. filter_held' = filter_held + dt
      BY <1>1, <1>10, <3>3 DEF Filtering!HeldFor
    <3>5. lasting' <= lasting + dt
      BY <1>1, <2>2, <3>3
    <3> QED
      BY <1>1, <1>12, <3>3, <3>4, <3>5
  <2> QED
    BY <1>11, <2>1, <2>2
<1>14. FilterTypeOK'
  <2>1. med' # <<>> /\ means' # <<>>
    BY <1>1, <1>3, <1>6
  <2> QED
    BY <1>3, <1>6, <1>10, <1>12, <2>1 DEF FilterTypeOK
<1> QED
  BY <1>9, <1>10, <1>13, <1>14 DEF FilterInv, HeldOff

LEMMA FilterStep == FilterInv /\ [Filtering!Next]_(Filtering!fvars) => FilterInv'
<1> SUFFICES ASSUME FilterInv, [Filtering!Next]_(Filtering!fvars) PROVE FilterInv'
  OBVIOUS
<1>1. CASE Filtering!Reset
  <2>1. FilterTypeOK'
    <3>1. 0 \in Int
      OBVIOUS
    <3> QED
      BY <1>1, <3>1, Zenon DEF Filtering!Reset, FilterTypeOK
  <2>2. HeldOff'
    BY <1>1, SumOfNone DEF Filtering!Reset, HeldOff, Filtering!SumOf
  <2> QED
    BY <2>1, <2>2 DEF FilterInv
<1>2. CASE UNCHANGED Filtering!fvars
  BY <1>2 DEF Filtering!fvars, FilterInv, FilterTypeOK, HeldOff, Filtering!SumOf
<1> QED
  BY <1>1, <1>2, FirstInv, PushFilterInv DEF Filtering!Next

(* A change that lasts is believed whole: for any samples at any times, any slew and windows, once *)
(* the mean has stood where it is for the hold time it is what is reported (probes.c:197-199).     *)
THEOREM LastingBelieved == SumSpec => []LastingIsBelieved
<1> DEFINE Inv == which = "filter" => FilterInv
<1>1. SumInit => Inv
  BY NoneRead DEF SumInit, Filtering!Init
<1>2. Inv /\ [SumNext]_sumVars => Inv'
  BY FilterStep, FilterPart, SameComponent
<1>3. Inv => LastingIsBelieved
  <2> SUFFICES ASSUME FilterInv PROVE Filtering!LastingIsBelieved
    BY DEF LastingIsBelieved
  <2> QED
    BY FilterAssumption DEF FilterInv, FilterTypeOK, HeldOff, Filtering!LastingIsBelieved
<1> QED
  BY <1>1, <1>2, <1>3, PTL DEF SumSpec
=============================================================================
