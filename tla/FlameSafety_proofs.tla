------------------------- MODULE FlameSafety_proofs -------------------------
(***************************************************************************)
(* What holds of a light, of the igniter and of a pot whose fire has died, *)
(* for every threshold, deadline and barrel.                               *)
(***************************************************************************)
EXTENDS FlameSafety, TLAPS

\* How long a light may have lasted when its deadline has not passed: a proof
\* may come as late as a probe may be lost behind the first deadline.
Span == IF light.proven THEN 2 * ProveS + ProbeFaultS + 2 ELSE ProveS

\* A deadline that has passed is not judged only while the probe is lost.
LightOK ==
  IF mode \notin Lights THEN lit_for = 0
  ELSE IF light.left >= 0 THEN lit_for + light.left <= Span
  ELSE /\ lit_for <= Span + 1 + Larger(invalid_since, 0)
       /\ pc # "safety" => invalid_since \in 0 .. ProbeFaultS

\* The clock of the cap is a tick behind the relay, and is read in every tick.
GlowOK ==
  /\ glow <= IgniterMaxS + 2
  /\ mode \notin Active => ~igniter
  /\ pc = "safety" /\ ~igniter => glow = 0
  /\ igniter => /\ pc = "safety" => glow <= IF ign_since = None THEN 1 ELSE ign_since + 1
                /\ pc # "safety" => ign_since <= IgniterMaxS /\ glow <= ign_since + 1

\* Without a fire the pit is no higher than the lowest reading or the igniter
\* makes it, and below the lowest reading in every tick the igniter does not.
FireOK ==
  /\ valid /\ ~fire => raw = pit
  /\ mode \in Lights => (light.proven => light.base # None)
  /\ mode \in Lights /\ ~caught =>
       /\ ~fire /\ ~light.held
       /\ light.base # None => pit <= light.base \/ pit <= Warm
       /\ light.flat_t # None /\ pit > Warm =>
            pit <= light.flat /\ (pc = "safety" => pit < light.flat)

\* How many ticks there has been no verdict for, this one among them.
Unjudged == IF pc = "safety" THEN Larger(invalid_since, 0) + 1 ELSE invalid_since + 1

\* The last verdict was before the barrel was cold.
Early == dark <= Cold + Unjudged - 1

\* The reference of the fall is high enough for a cold barrel to be below it.
Falls == Work(mode) >= Drop /\ (burn.reached \/ burn.peak >= Drop)

\* What Smoke and Hold have once a light was handed over, and the probe's clock.
BurnOK ==
  /\ pc # "safety" => invalid_since <= ProbeFaultS
  /\ mode \notin Active => invalid_since = None
  /\ dark > 0 => mode \in Burns /\ ~fire
  /\ mode \in Burns => burn.peak # None /\ burn.progress # None
  /\ mode = "Hold" => sp # None

\* The igniter of a proof is on for no longer than the proof, and as long again
\* as the probe is lost at its end; then a barrel without a fire cools.
CoolOK ==
  mode \in Burns =>
    /\ burn.proving > 0 => dark + burn.proving <= RelightProveS
    /\ igniter => /\ burn.proving # None
                  /\ burn.proving = 0 => dark <= RelightProveS + Unjudged - 1
    /\ dark > Glows => pit <= Larger(Cold - dark, 0)

\* Over a cold barrel the climb's clock runs for a fire that was never
\* established, and the fall's wherever there is a fall to see.
ClockOK ==
  mode \in Burns /\ dark >= Cold =>
    /\ raw = 0 \/ Early
    /\ ~burn.established => /\ burn.stalled >= Smaller(dark - Cold, ProveS + 1)
                            /\ dark <= Cold + ProveS + Unjudged
    /\ Falls => /\ burn.fall = None => Early
                /\ burn.fall # None =>
                     burn.fall >= Smaller(dark - Cold - ProbeFaultS - 1, ConfirmS)
                /\ dark <= Cold + ProbeFaultS + 1 + ConfirmS + Unjudged

DarkOK == BurnOK /\ CoolOK /\ ClockOK

\* A set point, and what Smoke works at, are far enough above the air for the
\* pit to fall relight_drop below them (settings.c:167-177).
PotAssumption ==
  /\ Percent <= 100
  /\ \A s \in SetPoints : s >= Drop
  /\ 2 * SmokeMin > Drop

IInv == TypeOK /\ LightOK /\ GlowOK /\ FireOK

-----------------------------------------------------------------------------
USE FlameAssumption, BarrelAssumption
    DEF Lights, Burns, Active, Mode, None, Clock, physical, ignition, history

\* A dead pot's time is a number, and longer than it takes the barrel to cool.
LEMMA BoundTyped ==
  /\ Glows \in Nat /\ Glows >= ProbeFaultS /\ Cold = Glows + 1 + Top /\ Bound \in Nat
  /\ Bound >= Cold + ProveS + ProbeFaultS + 2
  /\ Bound >= Cold + ConfirmS + 2 * ProbeFaultS + 3
  BY DEF Glows, Cold, Bound, Larger

\* The clocks stay in their range.
LEMMA OlderTyped ==
  ASSUME NEW cap \in Nat, NEW t \in Clock(cap)
  PROVE  /\ Older(t, cap) \in Clock(cap)
         /\ t # None => Older(t, cap) # None
         /\ t = None => Older(t, cap) = None
         /\ t # None /\ t < cap => Older(t, cap) = t + 1
  BY DEF Older, Smaller

\* The air is a reading like any other.
LEMMA ReadingTyped ==
  ASSUME TypeOK
  PROVE  Reading \in Clock(Top + Flare)
  BY DEF TypeOK, Reading

\* A record in which one field is replaced.
LEMMA LightField ==
  ASSUME NEW l \in LightType
  PROVE  /\ \A v \in Clock(HoldS) : [l EXCEPT !.above = v] \in LightType
         /\ \A v \in Clock(Top + Flare) : [l EXCEPT !.base = v] \in LightType
         /\ \A v \in Clock(ProveS) : [l EXCEPT !.left = v] \in LightType
         /\ \A v \in Clock(FlatS) : [l EXCEPT !.flat_t = v] \in LightType
  BY DEF LightType

LEMMA BurnField ==
  ASSUME NEW b \in BurnType
  PROVE  /\ \A v \in Clock(Top + Flare) : /\ [b EXCEPT !.peak = v] \in BurnType
                                         /\ [b EXCEPT !.progress = v] \in BurnType
                                         /\ [b EXCEPT !.handover = v] \in BurnType
         /\ \A v \in 0 .. ProveS + 1 : [b EXCEPT !.stalled = v] \in BurnType
         /\ \A v \in Clock(ConfirmS) : [b EXCEPT !.fall = v] \in BurnType
         /\ \A v \in Clock(RelightProveS) : [b EXCEPT !.proving = v] \in BurnType
         /\ \A v \in BOOLEAN : /\ [b EXCEPT !.armed = v] \in BurnType
                              /\ [b EXCEPT !.established = v] \in BurnType
                              /\ [b EXCEPT !.reached = v] \in BurnType
         /\ \A v \in SetPoints \cup {None} : [b EXCEPT !.last_sp = v] \in BurnType
  BY DEF BurnType

\* What nothing reads is typed too.
LEMMA NothingTyped == NoLight \in LightType /\ NoBurn \in BurnType
  BY DEF NoLight, NoBurn, LightType, BurnType

\* What enter_mode leaves, for a light, for Smoke and Hold and for the rest.
LEMMA EnteringTyped ==
  ASSUME NEW m \in Mode, Entering(m)
  PROVE  /\ mode' \in Mode /\ igniter' \in BOOLEAN /\ locked_out' \in BOOLEAN
         /\ ign_since' \in Clock(IgniterMaxS + 1)
         /\ invalid_since' \in Clock(ProbeFaultS + 1) /\ glow' \in Nat
  <1>1. locked_out' \in BOOLEAN
    BY Zenon DEF Entering
  <1>2. igniter' \in BOOLEAN
    BY DEF Entering
  <1>3. QED
    BY <1>1, <1>2 DEF Entering

LEMMA LeaveTyped ==
  ASSUME TypeOK, NEW m \in Mode, Leave(m), UNCHANGED <<physical, retries>>,
         pc' \in {"sense", "safety", "run"}
  PROVE  TypeOK'
  <1>1. light' \in LightType /\ burn' \in BurnType
    BY DEF Leave, NoLight, NoBurn, LightType, BurnType
  <1>2. caught' \in BOOLEAN
    BY Zenon DEF Leave
  <1>3. dark' \in 0 .. Bound + 1
    BY BoundTyped DEF Leave
  <1>4. Entering(m)
    BY DEF Leave
  <1>5. QED
    BY <1>1, <1>2, <1>3, <1>4, EnteringTyped DEF Leave, TypeOK

LEMMA KindleTyped ==
  ASSUME TypeOK, NEW m \in Lights, NEW t \in SetPoints \cup {None}, Kindle(m, t),
         UNCHANGED physical, retries' \in 0 .. Retries,
         pc' \in {"sense", "safety", "run"}
  PROVE  TypeOK'
  <1> DEFINE l == [NoLight EXCEPT !.base = Reading]
  <1>a. l \in LightType
    BY NothingTyped, LightField, ReadingTyped
  <1>b. light' = [l EXCEPT !.left = ProveS] /\ burn' = [NoBurn EXCEPT !.last_sp = t]
    BY DEF Kindle
  <1>1. light' \in LightType /\ burn' \in BurnType
    <2> HIDE DEF l
    <2>1. ProveS \in Clock(ProveS)
      OBVIOUS
    <2>2. QED
      BY <1>a, <1>b, <2>1, NothingTyped, LightField, BurnField
  <1>2. dark' \in 0 .. Bound + 1
    BY BoundTyped DEF Kindle
  <1>3. Entering(m)
    BY DEF Kindle
  <1>4. QED
    BY <1>1, <1>2, <1>3, EnteringTyped DEF Kindle, TypeOK

LEMMA SettleTyped ==
  ASSUME TypeOK, NEW m \in Burns, NEW b \in BurnType, Settle(m, b),
         UNCHANGED <<physical, retries>>, pc' \in {"sense", "safety", "run"}
  PROVE  TypeOK'
  <1>1. light' \in LightType
    BY DEF Settle, NoLight, LightType
  <1>2. burn' \in BurnType
    <2> DEFINE e  == b.established \/ mode \in Burns
               a  == valid /\ raw > IF m = "Hold" THEN sp' ELSE SmokeMin
               b1 == [b EXCEPT !.peak = IF b.peak = None THEN Reading ELSE b.peak]
               b2 == [b1 EXCEPT !.progress = IF valid THEN raw ELSE b.progress]
               b3 == [b2 EXCEPT !.stalled = IF valid THEN 0 ELSE b.stalled]
               b4 == [b3 EXCEPT !.established = e]
               b5 == [b4 EXCEPT !.reached = FALSE]
    <2>1. burn' = [b5 EXCEPT !.armed = a]
      BY DEF Settle
    <2>2. e \in BOOLEAN /\ a \in BOOLEAN /\ FALSE \in BOOLEAN
      BY Zenon
    <2>3. b1 \in BurnType
      BY BurnField, ReadingTyped DEF BurnType
    <2>4. b2 \in BurnType
      <3>1. (IF valid THEN raw ELSE b.progress) \in Clock(Top + Flare)
        BY DEF BurnType, TypeOK
      <3> HIDE DEF b1
      <3>2. QED
        BY <2>3, <3>1, BurnField
    <2>5. b3 \in BurnType
      <3> HIDE DEF b2
      <3> QED BY <2>4, BurnField, SMTT(30) DEF BurnType, TypeOK
    <2>6. QED
      <3> HIDE DEF b3, e, a
      <3> QED BY <2>1, <2>2, <2>5, BurnField
  <1>5. caught' \in BOOLEAN
    BY Zenon DEF Settle
  <1>6. dark' \in 0 .. Bound + 1
    BY BoundTyped DEF Settle
  <1>7. Entering(m)
    BY DEF Settle
  <1>8. QED
    BY <1>1, <1>2, <1>5, <1>6, <1>7, EnteringTyped DEF Settle, TypeOK

\* The cap reads its clock, and starts it.
LEMMA CapTyped ==
  ASSUME TypeOK, NEW on \in BOOLEAN, Cap(on)
  PROVE  /\ igniter' \in BOOLEAN /\ locked_out' \in BOOLEAN
         /\ ign_since' \in Clock(IgniterMaxS + 1)
  <1>1. locked_out' \in BOOLEAN
    BY DEF Cap, Locked, TypeOK
  <1>2. QED
    BY <1>1 DEF Cap, TypeOK, Larger

\* The judgement of a light.
LEMMA ProofTyped ==
  ASSUME TypeOK
  PROVE  Proof \in LightType
  <1> DEFINE base  == IF light.base = None THEN pit ELSE Smaller(light.base, pit)
             risen == pit >= base + ProveRise
             rose  == risen /\ light.above >= HoldS
             lower == light.flat_t = None \/ pit < light.flat
             flat_t == IF lower THEN 0 ELSE light.flat_t
             held  == ~rose /\ pit >= Hot /\ flat_t >= FlatS
  <1>1. /\ base \in Clock(Top + Flare) /\ flat_t \in Clock(FlatS)
        /\ (IF lower THEN pit ELSE light.flat) \in Clock(Top)
        /\ (IF risen THEN Larger(light.above, 0) ELSE None) \in Clock(HoldS)
        /\ (IF rose THEN ProveS ELSE light.left) \in Clock(ProveS)
    BY DEF TypeOK, LightType, Smaller, Larger
  <1>2. (rose \/ held) \in BOOLEAN /\ held \in BOOLEAN
    BY Zenon
  <1>3. Proof = IF light.proven THEN light
                ELSE [proven |-> rose \/ held, held |-> held, base |-> base,
                      above |-> IF risen THEN Larger(light.above, 0) ELSE None,
                      left |-> IF rose THEN ProveS ELSE light.left,
                      flat |-> IF lower THEN pit ELSE light.flat, flat_t |-> flat_t]
    BY Zenon DEF Proof
  <1>4. light \in LightType
    BY DEF TypeOK
  <1>5. QED
    <2> HIDE DEF base, risen, rose, lower, flat_t, held
    <2> QED BY <1>1, <1>2, <1>3, <1>4 DEF LightType

\* The judgement of a fire.
LEMMA WatchedTyped ==
  ASSUME TypeOK
  PROVE  Watched \in BurnType
  <1> DEFINE a  == burn.armed \/ (mode = "Hold" /\ sp < burn.last_sp /\ raw > sp)
             t  == IF mode = "Hold" THEN sp ELSE None
             r  == burn.reached \/ (mode = "Smoke" /\ raw >= SmokeMin)
             b1 == [burn EXCEPT !.armed = a]
             b2 == [b1 EXCEPT !.last_sp = t]
  <1>1. a \in BOOLEAN /\ r \in BOOLEAN
    BY Zenon
  <1>2. t \in SetPoints \cup {None} /\ burn \in BurnType
    BY DEF TypeOK
  <1>3. Watched = [b2 EXCEPT !.reached = r]
    BY DEF Watched
  <1>4. b1 \in BurnType
    <2> HIDE DEF a
    <2> QED BY <1>1, <1>2, BurnField
  <1>5. b2 \in BurnType
    <2> HIDE DEF b1, t
    <2> QED BY <1>2, <1>4, BurnField
  <1>6. QED
    <2> HIDE DEF b2, r
    <2> QED BY <1>1, <1>3, <1>5, BurnField

LEMMA JudgedTyped ==
  ASSUME TypeOK, NEW p \in BOOLEAN
  PROVE  Judged(p) \in BurnType
  <1>1. Watched \in BurnType /\ raw \in Clock(Top + Flare) /\ 0 \in 0 .. ProveS + 1
        /\ None \in Clock(ConfirmS) /\ None \in Clock(Top + Flare)
    BY WatchedTyped DEF TypeOK
  <1>2. CASE p \/ Watched.armed
    <2> DEFINE b1 == [Watched EXCEPT !.progress = raw]
               b2 == [b1 EXCEPT !.stalled = 0]
    <2>1. Judged(p) = [b2 EXCEPT !.fall = None]
      BY <1>2 DEF Judged
    <2>2. b1 \in BurnType
      BY <1>1, BurnField
    <2>3. b2 \in BurnType
      <3> HIDE DEF b1
      <3> QED BY <1>1, <2>2, BurnField
    <2>4. QED
      <3> HIDE DEF b2
      <3> QED BY <1>1, <2>1, <2>3, BurnField
  <1>3. CASE ~(p \/ Watched.armed)
    <2> DEFINE fall == IF Fallen THEN Larger(Watched.fall, 0) ELSE None
               hand == IF Established THEN None ELSE Watched.handover
               prog == IF Gains \/ Stuck THEN raw ELSE Watched.progress
               stal == IF Gains \/ Stuck THEN 0 ELSE Watched.stalled
               b1 == [Watched EXCEPT !.peak = Peak]
               b2 == [b1 EXCEPT !.fall = fall]
               b3 == [b2 EXCEPT !.established = Established]
               b4 == [b3 EXCEPT !.handover = hand]
               b5 == [b4 EXCEPT !.progress = prog]
    <2>1. Judged(p) = [b5 EXCEPT !.stalled = stal]
      BY <1>3 DEF Judged
    <2>2. /\ Watched.fall \in Clock(ConfirmS) /\ Watched.handover \in Clock(Top + Flare)
          /\ Watched.progress \in Clock(Top + Flare) /\ Watched.stalled \in 0 .. ProveS + 1
      BY <1>1 DEF BurnType
    <2>3. /\ fall \in Clock(ConfirmS) /\ hand \in Clock(Top + Flare)
          /\ prog \in Clock(Top + Flare) /\ stal \in 0 .. ProveS + 1
      BY <1>1, <2>2 DEF Larger
    <2>4. Peak \in Clock(Top + Flare)
      BY DEF TypeOK, BurnType, Peak, Larger
    <2>5. Established \in BOOLEAN
      <3>1. burn.established \in BOOLEAN
        BY DEF TypeOK, BurnType
      <3>2. QED
        BY <3>1, Zenon DEF Established
    <2>6. b1 \in BurnType
      BY <1>1, <2>4, BurnField
    <2>7. b2 \in BurnType
      <3> HIDE DEF b1, fall
      <3> QED BY <2>3, <2>6, BurnField
    <2>8. b3 \in BurnType
      <3> HIDE DEF b2
      <3> QED BY <2>5, <2>7, BurnField
    <2>9. b4 \in BurnType
      <3> HIDE DEF b3, hand
      <3> QED BY <2>3, <2>8, BurnField
    <2>10. b5 \in BurnType
      <3> HIDE DEF b4, prog
      <3> QED BY <2>3, <2>9, BurnField
    <2>11. QED
      <3> HIDE DEF b5, stal
      <3> QED BY <2>1, <2>3, <2>10, BurnField
  <1>4. QED
    BY <1>2, <1>3

LEMMA CoastedTyped ==
  ASSUME TypeOK, NEW b \in BurnType
  PROVE  Coasted(b) \in BurnType
  <1> DEFINE r  == b.reached \/ mode = "Smoke"
             t  == IF RelightProveS > 0 /\ ~Locked THEN RelightProveS ELSE b.proving
             b1 == [b EXCEPT !.armed = FALSE]
             b2 == [b1 EXCEPT !.peak = raw]
             b3 == [b2 EXCEPT !.reached = r]
  <1>1. r \in BOOLEAN /\ FALSE \in BOOLEAN
    BY Zenon
  <1>2. t \in Clock(RelightProveS) /\ raw \in Clock(Top + Flare)
    BY DEF TypeOK, BurnType
  <1>3. Coasted(b) = b \/ Coasted(b) = [b3 EXCEPT !.proving = t]
    BY Zenon DEF Coasted
  <1>4. b1 \in BurnType
    BY <1>1, BurnField
  <1>5. b2 \in BurnType
    <2> HIDE DEF b1
    <2> QED BY <1>2, <1>4, BurnField
  <1>6. b3 \in BurnType
    <2> HIDE DEF b2, r
    <2> QED BY <1>1, <1>5, BurnField
  <1>7. QED
    <2> HIDE DEF b3, t
    <2> QED BY <1>2, <1>3, <1>6, BurnField

LEMMA TypeInit == Init => TypeOK
  <1> SUFFICES ASSUME Init PROVE TypeOK
    OBVIOUS
  <1>1. /\ fire \in BOOLEAN /\ valid \in BOOLEAN /\ igniter \in BOOLEAN
        /\ locked_out \in BOOLEAN /\ caught \in BOOLEAN
    BY Zenon DEF Init
  <1>2. dark \in 0 .. Bound + 1
    BY BoundTyped DEF Init
  <1>3. QED
    BY <1>1, <1>2, NothingTyped DEF Init, TypeOK

LEMMA SenseTyped == TypeOK /\ Sense => TypeOK'
  <1> SUFFICES ASSUME TypeOK, Sense PROVE TypeOK'
    OBVIOUS
  <1>1. fire' \in BOOLEAN
    BY Zenon DEF Sense
  <1>2. pit' \in 0 .. Top
    BY DEF Sense, Drifts, TypeOK, Larger
  <1>3. raw' \in 0 .. Top + Flare /\ valid' \in BOOLEAN
    <2>1. valid' \in BOOLEAN
      BY Zenon DEF Sense
    <2>2. QED
      BY <1>2, <2>1 DEF Sense, TypeOK
  <1>4. light' \in LightType
    <2> DEFINE l1 == [light EXCEPT !.above = Older(light.above, HoldS)]
               l2 == [l1 EXCEPT !.flat_t = Older(light.flat_t, FlatS)]
    <2>1. light' = [l2 EXCEPT !.left = Sooner(light.left, None)]
      BY DEF Sense
    <2>2. /\ light \in LightType /\ Older(light.above, HoldS) \in Clock(HoldS)
          /\ Older(light.flat_t, FlatS) \in Clock(FlatS)
          /\ Sooner(light.left, None) \in Clock(ProveS)
      BY OlderTyped DEF TypeOK, LightType, Sooner, Larger
    <2>3. l1 \in LightType
      BY <2>2, LightField
    <2>4. l2 \in LightType
      <3> HIDE DEF l1
      <3> QED BY <2>2, <2>3, LightField
    <2>5. QED
      <3> HIDE DEF l2
      <3> QED BY <2>1, <2>2, <2>4, LightField
  <1>5. burn' \in BurnType
    <2> DEFINE stal == IF mode \in Burns THEN Smaller(burn.stalled + 1, ProveS + 1)
                       ELSE burn.stalled
               prov == IF burn.proving = None THEN None ELSE Sooner(burn.proving, 0)
               b1   == [burn EXCEPT !.stalled = stal]
               b2   == [b1 EXCEPT !.fall = Older(burn.fall, ConfirmS)]
    <2>1. burn' = [b2 EXCEPT !.proving = prov]
      BY DEF Sense
    <2>2. /\ burn \in BurnType /\ stal \in 0 .. ProveS + 1
          /\ Older(burn.fall, ConfirmS) \in Clock(ConfirmS)
          /\ prov \in Clock(RelightProveS)
      BY OlderTyped, SMTT(30) DEF TypeOK, BurnType, Sooner, Smaller, Larger
    <2>3. b1 \in BurnType
      <3> HIDE DEF stal
      <3> QED BY <2>2, BurnField
    <2>4. b2 \in BurnType
      <3> HIDE DEF b1
      <3> QED BY <2>2, <2>3, BurnField
    <2>5. QED
      <3> HIDE DEF b2, prov
      <3> QED BY <2>1, <2>2, <2>4, BurnField
  <1>6. /\ ign_since' \in Clock(IgniterMaxS + 1)
        /\ invalid_since' \in Clock(ProbeFaultS + 1)
    <2>1. /\ ign_since' = Older(ign_since, IgniterMaxS + 1)
          /\ invalid_since' = Older(invalid_since, ProbeFaultS + 1)
      BY DEF Sense
    <2>2. /\ ign_since \in Clock(IgniterMaxS + 1) /\ IgniterMaxS + 1 \in Nat
          /\ invalid_since \in Clock(ProbeFaultS + 1) /\ ProbeFaultS + 1 \in Nat
      BY DEF TypeOK
    <2>3. QED
      BY <2>1, <2>2, OlderTyped
  <1>7. caught' \in BOOLEAN
    BY <1>1 DEF Sense, TypeOK
  <1>8. dark' \in 0 .. Bound + 1 /\ lit_for' \in Nat /\ glow' \in Nat
    BY BoundTyped DEF Sense, TypeOK, Smaller
  <1>9. QED
    BY <1>1, <1>2, <1>3, <1>4, <1>5, <1>6, <1>7, <1>8 DEF Sense, TypeOK

\* Each action keeps the types; what a verdict leaves it leaves by one of the
\* ways above.
LEMMA TypeStep == TypeOK /\ [Next]_vars => TypeOK'
  <1> SUFFICES ASSUME TypeOK, [Next]_vars PROVE TypeOK'
    OBVIOUS
  <1>1. CASE Sense
    BY <1>1, SenseTyped
  <1>2. CASE AskLight
    <2>1. Retries \in 0 .. Retries /\ None \in SetPoints \cup {None}
      OBVIOUS
    <2>2. QED
      BY <1>2, <2>1, KindleTyped DEF AskLight, Asked
  <1>3. CASE AskStop
    BY <1>3, LeaveTyped DEF AskStop, Asked
  <1>4. ASSUME NEW m \in Burns, AskBurn(m) PROVE TypeOK'
    <2>1. burn \in BurnType
      BY DEF TypeOK
    <2>2. QED
      BY <1>4, <2>1, SettleTyped DEF AskBurn, Asked
  <1>5. CASE AskSetPoint
    <2>1. burn \in BurnType /\ FALSE \in BOOLEAN
      BY DEF TypeOK
    <2>2. burn' \in BurnType
      BY <1>5, <2>1, BurnField DEF AskSetPoint
    <2>3. QED
      BY <1>5, <2>2 DEF AskSetPoint, Asked, TypeOK
  <1>6. CASE Fail
    BY <1>6, LeaveTyped DEF Fail
  <1>7. CASE ProbeLost
    <2>1. (igniter /\ ~Locked) \in BOOLEAN
      BY Zenon
    <2>2. Cap(igniter /\ ~Locked)
      BY <1>7 DEF ProbeLost
    <2>3. /\ igniter' \in BOOLEAN /\ locked_out' \in BOOLEAN
          /\ ign_since' \in Clock(IgniterMaxS + 1)
      BY <2>1, <2>2, CapTyped
    <2>4. invalid_since' \in Clock(ProbeFaultS + 1)
      BY <1>7 DEF ProbeLost, TypeOK, Larger
    <2>5. QED
      BY <1>7, <2>3, <2>4 DEF ProbeLost, Judging, TypeOK
  <1>8. CASE LightGoesOn
    <2>1. (igniter /\ ~Locked) \in BOOLEAN
      BY Zenon
    <2>2. Cap(igniter /\ ~Locked)
      BY <1>8 DEF LightGoesOn
    <2>3. /\ igniter' \in BOOLEAN /\ locked_out' \in BOOLEAN
          /\ ign_since' \in Clock(IgniterMaxS + 1)
      BY <2>1, <2>2, CapTyped
    <2>4. light' \in LightType
      BY <1>8, ProofTyped DEF LightGoesOn
    <2>5. QED
      BY <1>8, <2>3, <2>4 DEF LightGoesOn, Judging, TypeOK
  <1>9. CASE FlameOut
    <2>1. Watched.last_sp \in SetPoints \cup {None}
      BY WatchedTyped DEF BurnType
    <2>2. retries' \in 0 .. Retries /\ pc' = "run"
      BY <1>9 DEF FlameOut, Supervised, Judging, TypeOK
    <2>3. QED
      BY <1>9, <2>1, <2>2, KindleTyped DEF FlameOut
  <1>10. ASSUME NEW p \in BOOLEAN, BurnsOn(p) PROVE TypeOK'
    <2> DEFINE b == Coasted(Judged(p))
               proves == b.proving > 0 /\ ~Locked
               on == proves \/ (b.proving = None /\ igniter /\ ~Locked)
               left == IF proves THEN b.proving ELSE None
    <2>1. b \in BurnType
      BY JudgedTyped, CoastedTyped
    <2>2. on \in BOOLEAN
      BY Zenon
    <2>3. Cap(on) /\ burn' = [b EXCEPT !.proving = left]
      BY <1>10 DEF BurnsOn
    <2>4. /\ igniter' \in BOOLEAN /\ locked_out' \in BOOLEAN
          /\ ign_since' \in Clock(IgniterMaxS + 1)
      <3> HIDE DEF on
      <3> QED BY <2>2, <2>3, CapTyped
    <2>5. left \in Clock(RelightProveS)
      <3> HIDE DEF b, proves
      <3> QED BY <2>1 DEF BurnType
    <2>6. burn' \in BurnType
      <3> HIDE DEF b, left
      <3> QED BY <2>1, <2>3, <2>5, BurnField
    <2>7. dark' \in 0 .. Bound + 1
      BY <1>10, BoundTyped DEF BurnsOn, TypeOK
    <2>8. QED
      BY <1>10, <2>4, <2>6, <2>7 DEF BurnsOn, Supervised, Judging, TypeOK
  <1>11. CASE AtRest
    BY <1>11 DEF AtRest, Judging, TypeOK
  <1>12. ASSUME NEW m \in Burns, HandOver(m) PROVE TypeOK'
    <2> DEFINE b1 == [burn EXCEPT !.peak = Reading]
               b2 == [b1 EXCEPT !.handover = Reading]
    <2>1. burn \in BurnType
      BY DEF TypeOK
    <2>2. b1 \in BurnType
      BY <2>1, ReadingTyped, BurnField
    <2>3. b2 \in BurnType
      <3> HIDE DEF b1
      <3> QED BY <2>2, ReadingTyped, BurnField
    <2>4. Settle(m, b2) /\ UNCHANGED <<physical, retries>> /\ pc' = "sense"
      BY <1>12 DEF HandOver
    <2>5. QED
      <3> HIDE DEF b2
      <3> QED BY <2>3, <2>4, SettleTyped
  <1>13. CASE RunOn
    <2>1. \/ \E r : burn' = [burn EXCEPT !.reached = r] /\ r \in BOOLEAN
          \/ burn' = burn
      <3>1. burn.reached \in BOOLEAN
        BY DEF TypeOK, BurnType
      <3>2. {FALSE, burn.reached \/ raw >= sp} \subseteq BOOLEAN
        BY <3>1
      <3>3. QED
        BY <1>13, <3>2, Zenon DEF RunOn
    <2>2. burn \in BurnType
      BY DEF TypeOK
    <2>3. burn' \in BurnType
      BY <2>1, <2>2, BurnField
    <2>4. QED
      BY <1>13, <2>3 DEF RunOn, TypeOK
  <1>14. CASE UNCHANGED vars
    BY <1>14 DEF vars, TypeOK
  <1>15. QED
    BY <1>1, <1>2, <1>3, <1>4, <1>5, <1>6, <1>7, <1>8, <1>9, <1>10, <1>11, <1>12,
       <1>13, <1>14
       DEF Next, Ask, Safety, Run, Overheat, ProbeFault, LightFails, FlameLost, NeverCaught

-----------------------------------------------------------------------------
(* What the three ways of entering a mode leave of the invariant.          *)

LEMMA KindleFields ==
  ASSUME NEW m \in Lights, NEW t, Kindle(m, t)
  PROVE  /\ light'.left = ProveS /\ ~light'.proven /\ ~light'.held
         /\ light'.base = Reading /\ light'.flat_t = None
  BY DEF Kindle, NoLight

LEMMA Entered ==
  ASSUME TypeOK, FireOK, UNCHANGED physical,
         \/ \E m \in Lights : \E t : Kindle(m, t)
         \/ \E m \in Burns : \E b : Settle(m, b)
         \/ \E m \in {"Stop", "Error"} : Leave(m)
  PROVE  LightOK' /\ GlowOK' /\ FireOK'
  <1>1. CASE \E m \in Lights : \E t : Kindle(m, t)
    <2> PICK m \in Lights : \E t : Kindle(m, t)
      BY <1>1
    <2> PICK t : Kindle(m, t)
      OBVIOUS
    <2>1. LightOK'
      BY KindleFields DEF Kindle, LightOK, Span, Entering
    <2>2. GlowOK'
      BY KindleFields DEF Kindle, GlowOK, Entering
    <2>3. mode' \in Lights /\ caught' = fire
      BY DEF Kindle, Entering
    <2>4. FireOK'
      BY <2>3, KindleFields DEF FireOK, Reading, TypeOK
    <2>5. QED
      BY <2>1, <2>2, <2>4
  <1>2. CASE \E m \in Burns : \E b : Settle(m, b)
    <2> PICK m \in Burns : \E b : Settle(m, b)
      BY <1>2
    <2> PICK b : Settle(m, b)
      OBVIOUS
    <2>1. mode' \in Burns /\ lit_for' = 0 /\ glow' = 0 /\ ~igniter'
      BY DEF Settle, Entering
    <2>2. QED
      BY <2>1 DEF LightOK, GlowOK, FireOK
  <1>3. CASE \E m \in {"Stop", "Error"} : Leave(m)
    <2> PICK m \in {"Stop", "Error"} : Leave(m)
      BY <1>3
    <2>1. mode' \in {"Stop", "Error"} /\ lit_for' = 0 /\ glow' = 0 /\ ~igniter'
      BY DEF Leave, Entering
    <2>2. QED
      BY <2>1 DEF LightOK, GlowOK, FireOK
  <1>4. QED
    BY <1>1, <1>2, <1>3

\* The verdicts and commands that enter a mode.
Enters ==
  \/ AskLight \/ AskStop \/ (\E m \in Burns : AskBurn(m)) \/ Fail \/ FlameOut
  \/ \E m \in Burns : HandOver(m)

LEMMA EntersOK ==
  TypeOK /\ FireOK /\ Enters => LightOK' /\ GlowOK' /\ FireOK'
  BY Entered DEF Enters, AskLight, AskStop, AskBurn, Fail, FlameOut, HandOver, Asked

-----------------------------------------------------------------------------
(* The deadline.                                                           *)

LEMMA LightStep ==
  TypeOK /\ FireOK /\ LightOK /\ [Next]_vars => LightOK'
  <1> SUFFICES ASSUME TypeOK, FireOK, LightOK, [Next]_vars PROVE LightOK'
    OBVIOUS
  <1>0. /\ light.left \in Clock(ProveS) /\ light.proven \in BOOLEAN
        /\ invalid_since \in Clock(ProbeFaultS + 1) /\ lit_for \in Nat
    BY DEF TypeOK, LightType
  <1>1. CASE Enters
    BY <1>1, EntersOK
  <1>2. CASE Sense
    <2>1. /\ light'.left = Larger(light.left - 1, -1) /\ light'.proven = light.proven
          /\ mode' = mode /\ lit_for' = (IF mode \in Lights THEN lit_for + 1 ELSE 0)
          /\ pc = "sense" /\ pc' = "safety"
      BY <1>2 DEF Sense, Sooner, TypeOK, LightType
    <2>2. Larger(invalid_since', 0)
            = IF invalid_since \in 0 .. ProbeFaultS THEN invalid_since + 1
              ELSE Larger(invalid_since, 0)
      BY <1>0, <1>2 DEF Sense, Older, Smaller, Larger
    <2>3. QED
      BY <1>0, <2>1, <2>2 DEF LightOK, Span, Larger
  <1>3. CASE LightGoesOn
    <2>1. /\ light' = Proof /\ Proof.left >= 0 /\ mode' = mode /\ mode \in Lights
          /\ lit_for' = lit_for
      BY <1>3 DEF LightGoesOn
    <2>2. \/ Proof = light
          \/ ~light.proven /\ Proof.left = light.left
          \/ ~light.proven /\ Proof.proven /\ Proof.left = ProveS
      BY DEF Proof
    <2>3. Proof.proven \in BOOLEAN
      BY ProofTyped DEF LightType
    <2>4. QED
      BY <1>0, <2>1, <2>2, <2>3 DEF LightOK, Span, Larger
  <1>4. CASE ProbeLost
    BY <1>0, <1>4 DEF ProbeLost, Judging, LightOK, Span, Larger
  <1>5. CASE AskSetPoint
    BY <1>5 DEF AskSetPoint, Asked, LightOK, Span
  <1>6. CASE \E p \in BOOLEAN : BurnsOn(p)
    BY <1>6 DEF BurnsOn, Supervised, Judging, LightOK
  <1>7. CASE AtRest
    BY <1>7 DEF AtRest, Judging, LightOK
  <1>8. CASE RunOn
    BY <1>8 DEF RunOn, LightOK, Span
  <1>9. CASE UNCHANGED vars
    BY <1>9 DEF vars, LightOK, Span
  <1>10. QED
    BY <1>1, <1>2, <1>3, <1>4, <1>5, <1>6, <1>7, <1>8, <1>9
       DEF Enters, Next, Ask, Safety, Run, Overheat, ProbeFault, LightFails, FlameLost,
           NeverCaught

-----------------------------------------------------------------------------
(* The cap.                                                                *)

LEMMA GlowStep ==
  TypeOK /\ FireOK /\ GlowOK /\ [Next]_vars => GlowOK'
  <1> SUFFICES ASSUME TypeOK, FireOK, GlowOK, [Next]_vars PROVE GlowOK'
    OBVIOUS
  <1>0. /\ ign_since \in Clock(IgniterMaxS + 1) /\ glow \in Nat
        /\ igniter \in BOOLEAN /\ locked_out \in BOOLEAN
    BY DEF TypeOK
  <1>1. CASE Enters
    BY <1>1, EntersOK
  <1>2. CASE Sense
    <2>1. /\ pc = "sense" /\ pc' = "safety" /\ mode' = mode /\ igniter' = igniter
          /\ ign_since' = Older(ign_since, IgniterMaxS + 1)
          /\ glow' = IF igniter THEN glow + 1 ELSE 0
      BY <1>2 DEF Sense
    <2>2. QED
      BY <1>0, <2>1 DEF GlowOK, Older, Smaller
  <1>3. ASSUME NEW on \in BOOLEAN, Cap(on), Judging, mode \in Active,
               on => ~Locked, UNCHANGED <<mode, glow>>
        PROVE  GlowOK'
    BY <1>0, <1>3 DEF Cap, Judging, Locked, GlowOK, Larger
  <1>4. CASE LightGoesOn
    <2> DEFINE on == igniter /\ ~Locked
    <2>1. on \in BOOLEAN
      BY Zenon
    <2>2. QED
      BY <1>3, <1>4, <2>1 DEF LightGoesOn
  <1>5. CASE ProbeLost
    <2> DEFINE on == igniter /\ ~Locked
    <2>1. on \in BOOLEAN
      BY Zenon
    <2>2. QED
      BY <1>3, <1>5, <2>1 DEF ProbeLost
  <1>6. ASSUME NEW p \in BOOLEAN, BurnsOn(p) PROVE GlowOK'
    <2> DEFINE b  == Coasted(Judged(p))
               on == \/ b.proving > 0 /\ ~Locked
                     \/ b.proving = None /\ igniter /\ ~Locked
    <2>1. on \in BOOLEAN /\ (on => ~Locked)
      BY Zenon
    <2>2. Cap(on) /\ Judging /\ mode \in Active /\ UNCHANGED <<mode, glow>>
      BY <1>6 DEF BurnsOn, Supervised
    <2>3. QED
      <3> HIDE DEF on
      <3> QED BY <1>3, <2>1, <2>2
  <1>7. CASE AskSetPoint
    BY <1>7 DEF AskSetPoint, Asked, GlowOK
  <1>8. CASE AtRest
    BY <1>8 DEF AtRest, Judging, GlowOK
  <1>9. CASE RunOn
    BY <1>9 DEF RunOn, GlowOK
  <1>10. CASE UNCHANGED vars
    BY <1>10 DEF vars, GlowOK
  <1>11. QED
    BY <1>1, <1>2, <1>4, <1>5, <1>6, <1>7, <1>8, <1>9, <1>10
       DEF Enters, Next, Ask, Safety, Run, Overheat, ProbeFault, LightFails, FlameLost,
           NeverCaught

-----------------------------------------------------------------------------
(* The proof.                                                              *)

\* Without a fire the barrel cools, down to what the igniter makes.
LEMMA Cools ==
  ASSUME TypeOK, Sense, ~fire
  PROVE  pit' <= Warm \/ pit' = pit - 1
  BY DEF Sense, Drifts, TypeOK, Larger

LEMMA FireStep ==
  TypeOK /\ FireOK /\ [Next]_vars => FireOK'
  <1> SUFFICES ASSUME TypeOK, FireOK, [Next]_vars PROVE FireOK'
    OBVIOUS
  <1>0. /\ light.base \in Clock(Top + Flare) /\ light.flat_t \in Clock(FlatS)
        /\ light.flat \in Clock(Top) /\ pit \in 0 .. Top /\ light.proven \in BOOLEAN
        /\ light.held \in BOOLEAN
    BY DEF TypeOK, LightType
  <1>1. CASE Enters
    BY <1>1, EntersOK
  <1>2. CASE Sense
    <2>1. /\ light'.base = light.base /\ light'.proven = light.proven
          /\ light'.held = light.held /\ light'.flat = light.flat
          /\ (light'.flat_t # None <=> light.flat_t # None)
      <3>1. light.flat_t = None <=> Older(light.flat_t, FlatS) = None
        BY <1>0, OlderTyped
      <3>2. QED
        BY <1>2, <3>1 DEF Sense, TypeOK, LightType
    <2>2. /\ mode' = mode /\ pc' = "safety" /\ (caught' <=> caught \/ fire')
          /\ (valid' /\ ~fire' => raw' = pit')
      BY <1>2 DEF Sense
    <2>3. SUFFICES ASSUME mode \in Lights, ~caught, ~fire'
                   PROVE  /\ light.base # None => pit' <= light.base \/ pit' <= Warm
                          /\ light.flat_t # None /\ pit' > Warm => pit' < light.flat
      BY <1>0, <2>1, <2>2, SenseTyped, <1>2 DEF FireOK, TypeOK
    <2>4. pit' <= Warm \/ pit' = pit - 1
      BY <1>2, <2>3, Cools DEF FireOK
    <2>5. /\ light.base # None => pit <= light.base \/ pit <= Warm
          /\ light.flat_t # None /\ pit > Warm => pit <= light.flat
      BY <2>3 DEF FireOK
    <2>6. pit' \in Int
      BY <1>2, SenseTyped DEF TypeOK
    <2>7. QED
      BY <1>0, <2>4, <2>5, <2>6
  <1>3. CASE LightGoesOn
    <2>1. /\ light' = Proof /\ UNCHANGED <<physical, mode, caught>>
          /\ mode \in Lights /\ pc = "safety" /\ pc' = "run"
      BY <1>3 DEF LightGoesOn, Judging
    <2>2. Proof.base # None
      BY <1>0, <2>1 DEF Proof, Smaller, FireOK
    <2>3. ASSUME ~caught
          PROVE  /\ ~Proof.held
                 /\ pit <= Proof.base \/ pit <= Warm
                 /\ Proof.flat_t # None /\ pit > Warm => pit <= Proof.flat
      <3>1. CASE light.proven
        BY <1>0, <2>1, <2>3, <3>1 DEF Proof, FireOK
      <3>2. CASE ~light.proven
        BY <1>0, <2>1, <2>3, <3>2 DEF Proof, Smaller, FireOK
      <3>3. QED
        BY <3>1, <3>2
    <2>4. QED
      BY <2>1, <2>2, <2>3 DEF FireOK
  <1>4. CASE ProbeLost
    BY <1>4 DEF ProbeLost, Judging, FireOK
  <1>5. CASE AskSetPoint
    BY <1>5 DEF AskSetPoint, Asked, FireOK
  <1>6. CASE \E p \in BOOLEAN : BurnsOn(p)
    BY <1>6 DEF BurnsOn, Supervised, Judging, FireOK
  <1>7. CASE AtRest
    BY <1>7 DEF AtRest, Judging, FireOK
  <1>8. CASE RunOn
    BY <1>8 DEF RunOn, FireOK
  <1>9. CASE UNCHANGED vars
    BY <1>9 DEF vars, FireOK
  <1>10. QED
    BY <1>1, <1>2, <1>3, <1>4, <1>5, <1>6, <1>7, <1>8, <1>9
       DEF Enters, Next, Ask, Safety, Run, Overheat, ProbeFault, LightFails, FlameLost,
           NeverCaught

-----------------------------------------------------------------------------
(* The dead pot.                                                           *)

\* What a unit of time and a verdict do to the clocks of the climb and the fall.
LEMMA SenseBurn ==
  ASSUME TypeOK, Sense
  PROVE  /\ burn'.peak = burn.peak /\ burn'.progress = burn.progress
         /\ burn'.established = burn.established /\ burn'.reached = burn.reached
         /\ mode \in Burns => burn'.stalled = Smaller(burn.stalled + 1, ProveS + 1)
         /\ burn'.fall = Older(burn.fall, ConfirmS)
         /\ burn'.proving = IF burn.proving = None THEN None ELSE Sooner(burn.proving, 0)
  BY DEF TypeOK, BurnType, Sense

LEMMA WatchedFields ==
  ASSUME TypeOK
  PROVE  /\ Watched.peak = burn.peak /\ Watched.progress = burn.progress
         /\ Watched.established = burn.established /\ Watched.stalled = burn.stalled
         /\ Watched.fall = burn.fall /\ Watched.proving = burn.proving
         /\ (Watched.reached <=> burn.reached \/ (mode = "Smoke" /\ raw >= SmokeMin))
  BY DEF TypeOK, BurnType, Watched

LEMMA JudgedFields ==
  ASSUME TypeOK, NEW p \in BOOLEAN
  PROVE  /\ Judged(p).proving = burn.proving /\ Judged(p).armed = Watched.armed
         /\ Judged(p).peak \in {burn.peak, Peak}
         /\ Judged(p).progress \in {burn.progress, raw}
  <1>1. Watched \in BurnType
    BY WatchedTyped
  <1>2. /\ Judged(p).proving = Watched.proving /\ Judged(p).armed = Watched.armed
        /\ Judged(p).peak \in {Watched.peak, Peak}
        /\ Judged(p).progress \in {Watched.progress, raw}
    BY <1>1 DEF BurnType, Judged
  <1>3. QED
    BY <1>2, WatchedFields

LEMMA JudgedClocks ==
  ASSUME TypeOK, ~Watched.armed
  PROVE  /\ Judged(FALSE).peak = Peak /\ Judged(FALSE).established = Established
         /\ Judged(FALSE).reached = Watched.reached
         /\ Judged(FALSE).fall = IF Fallen THEN Larger(burn.fall, 0) ELSE None
         /\ ~Gains /\ ~Stuck => Judged(FALSE).stalled = burn.stalled
  <1>1. Watched \in BurnType
    BY WatchedTyped
  <1>2. /\ Judged(FALSE).peak = Peak /\ Judged(FALSE).established = Established
        /\ Judged(FALSE).reached = Watched.reached
        /\ Judged(FALSE).fall = IF Fallen THEN Larger(Watched.fall, 0) ELSE None
        /\ ~Gains /\ ~Stuck => Judged(FALSE).stalled = Watched.stalled
    BY <1>1 DEF BurnType, Judged
  <1>3. QED
    BY <1>2, WatchedFields

LEMMA CoastedFields ==
  ASSUME TypeOK, NEW b \in BurnType
  PROVE  /\ ~b.armed => Coasted(b) = b
         /\ Coasted(b).peak \in {b.peak, raw} /\ Coasted(b).progress = b.progress
         /\ \/ Coasted(b).proving = b.proving
            \/ RelightProveS > 0 /\ Coasted(b).proving = RelightProveS
  <1> DEFINE t == IF RelightProveS > 0 /\ ~Locked THEN RelightProveS ELSE b.proving
             c == [b EXCEPT !.armed = FALSE, !.peak = raw, !.reached = @ \/ mode = "Smoke",
                            !.proving = t]
  <1>1. Coasted(b) = IF ~b.armed \/ raw > Work(mode) THEN b ELSE c
    BY Zenon DEF Coasted
  <1>2. c.peak = raw /\ c.progress = b.progress /\ c.proving = t
    BY DEF BurnType
  <1>3. CASE ~b.armed \/ raw > Work(mode)
    BY <1>1, <1>3
  <1>4. CASE ~(~b.armed \/ raw > Work(mode))
    <2> HIDE DEF c
    <2>1. Coasted(b) = c /\ b.armed
      BY <1>1, <1>4
    <2>2. QED
      BY <1>2, <2>1
  <1>5. QED
    BY <1>3, <1>4

\* The igniter and the clocks of a pot that was just handed over, or is no
\* longer one, are as nothing.
LEMMA EntersDark ==
  ASSUME TypeOK, BurnOK, Enters, TypeOK'
  PROVE  DarkOK'
  <1>1. dark' = 0 /\ invalid_since' = None /\ (igniter' => mode' \in Lights)
    <2>1. ASSUME NEW m, NEW t, Kindle(m, t)
          PROVE  dark' = 0 /\ invalid_since' = None /\ (igniter' => mode' \in Lights)
      BY <2>1 DEF Kindle, Entering
    <2>2. ASSUME NEW m, NEW b, Settle(m, b)
          PROVE  dark' = 0 /\ invalid_since' = None /\ (igniter' => mode' \in Lights)
      BY <2>2 DEF Settle, Entering
    <2>3. ASSUME NEW m, Leave(m)
          PROVE  dark' = 0 /\ invalid_since' = None /\ (igniter' => mode' \in Lights)
      BY <2>3 DEF Leave, Entering
    <2>4. QED
      BY <2>1, <2>2, <2>3, Zenon DEF Enters, AskLight, AskStop, AskBurn, Fail, FlameOut, HandOver
  <1>2. CASE mode' \notin Burns
    BY <1>1, <1>2 DEF DarkOK, BurnOK, CoolOK, ClockOK
  <1>3. ASSUME NEW m \in Burns, NEW b \in BurnType, Settle(m, b),
               b.peak # None, b.progress # None \/ valid
        PROVE  DarkOK'
    <2>1. burn'.peak # None /\ burn'.progress # None
      BY <1>3 DEF Settle, BurnType, TypeOK
    <2>2. mode' = m /\ (m = "Hold" => sp' # None)
      BY <1>3 DEF Settle, Entering
    <2>3. burn'.proving \in Clock(RelightProveS)
      BY DEF TypeOK, BurnType
    <2>4. Glows \in Nat /\ Cold \in Nat \ {0}
      BY BoundTyped
    <2>5. QED
      BY <1>1, <2>1, <2>2, <2>3, <2>4 DEF DarkOK, BurnOK, CoolOK, ClockOK
  <1>4. ASSUME NEW m \in Burns, AskBurn(m) PROVE DarkOK'
    BY <1>3, <1>4 DEF AskBurn, BurnOK, TypeOK
  <1>5. ASSUME NEW m \in Burns, HandOver(m) PROVE DarkOK'
    <2> DEFINE b1 == [burn EXCEPT !.peak = Reading]
               b2 == [b1 EXCEPT !.handover = Reading]
    <2>1. b1 \in BurnType
      BY ReadingTyped, BurnField DEF TypeOK
    <2>2. b2 \in BurnType
      <3> HIDE DEF b1
      <3> QED BY <2>1, ReadingTyped, BurnField
    <2>3. valid /\ b2.peak # None
      BY <1>5 DEF HandOver, HandsOver, Reading, TypeOK, BurnType
    <2>4. Settle(m, b2)
      BY <1>5 DEF HandOver
    <2>5. QED
      <3> HIDE DEF b2
      <3> QED BY <1>3, <2>2, <2>3, <2>4
  <1>6. CASE AskLight \/ AskStop \/ Fail \/ FlameOut
    <2>1. mode' \notin Burns
      BY <1>6 DEF AskLight, AskStop, Fail, FlameOut, Kindle, Leave, Entering
    <2>2. QED
      BY <1>2, <2>1
  <1>7. QED
    BY <1>4, <1>5, <1>6 DEF Enters

\* A unit of time.
LEMMA SenseDark ==
  ASSUME TypeOK, FireOK', DarkOK, Sense, TypeOK'
  PROVE  DarkOK'
  <1>0. /\ pc = "sense" /\ pc' = "safety" /\ mode' = mode /\ sp' = sp /\ igniter' = igniter
        /\ dark' = IF mode \in Burns /\ ~fire' THEN Smaller(dark + 1, Bound + 1) ELSE 0
        /\ invalid_since' = Older(invalid_since, ProbeFaultS + 1)
    BY DEF Sense
  <1>1. /\ dark \in 0 .. Bound + 1 /\ dark' \in 0 .. Bound + 1
        /\ invalid_since \in Clock(ProbeFaultS + 1) /\ invalid_since <= ProbeFaultS
    BY <1>0 DEF TypeOK, DarkOK, BurnOK
  <1>2. Unjudged' = Unjudged + 1 /\ Unjudged \in 0 .. ProbeFaultS + 1
    BY <1>0, <1>1 DEF Unjudged, Older, Smaller, Larger
  <1>3. BurnOK'
    BY <1>0, <1>1, SenseBurn, BoundTyped DEF DarkOK, BurnOK, Smaller, Older
  <1>4. dark' <= dark + 1 /\ (dark' > 0 => dark' = dark + 1 \/ (dark = Bound + 1 /\ dark' = dark))
    BY <1>0, <1>1, BoundTyped DEF Smaller
  <1>5. CoolOK'
    <2> SUFFICES ASSUME mode \in Burns PROVE CoolOK'
      BY <1>0 DEF CoolOK
    <2>1. burn.proving \in Clock(RelightProveS)
      BY DEF TypeOK, BurnType
    <2>2. burn'.proving > 0 => dark' + burn'.proving <= RelightProveS
      BY <1>1, <1>4, <2>1, SenseBurn, BoundTyped DEF DarkOK, CoolOK, Sooner, Larger
    <2>3. igniter' => /\ burn'.proving # None
                      /\ burn'.proving = 0 => dark' <= RelightProveS + Unjudged' - 1
      BY <1>0, <1>1, <1>2, <1>4, <2>1, SenseBurn DEF DarkOK, CoolOK, Sooner, Larger
    <2>4. dark' > Glows => pit' <= Larger(Cold - dark', 0)
      <3> SUFFICES ASSUME dark' > Glows PROVE pit' <= Larger(Cold - dark', 0)
        OBVIOUS
      <3>1. pit \in 0 .. Top /\ pit' \in 0 .. Top
        BY DEF TypeOK
      <3>2. CASE dark <= Glows
        BY <1>1, <1>4, <3>1, <3>2, BoundTyped DEF Larger
      <3>3. CASE dark > Glows
        <4>1. ~igniter /\ ~fire
          BY <1>1, <1>2, <2>1, <3>3, BoundTyped DEF DarkOK, BurnOK, CoolOK, Glows
        <4>2. pit' = Larger(pit - 1, 0)
          BY <4>1 DEF Sense, Drifts
        <4>3. pit <= Larger(Cold - dark, 0)
          BY <3>3 DEF DarkOK, CoolOK
        <4>4. QED
          BY <1>1, <1>4, <3>1, <4>2, <4>3, BoundTyped DEF Larger
      <3>4. QED
        BY <1>1, <3>2, <3>3, BoundTyped
    <2>5. QED
      BY <1>0, <2>2, <2>3, <2>4 DEF CoolOK
  <1>6. ClockOK'
    <2> SUFFICES ASSUME mode \in Burns, dark' >= Cold PROVE ClockOK'
      BY <1>0, BoundTyped DEF ClockOK
    <2>1. dark' > 0 /\ ~fire'
      <3>1. dark' > 0
        BY <1>1, BoundTyped
      <3>2. QED
        BY <1>0, <3>1
    <2>2. pit' = 0
      <3>1. dark' > Glows
        BY <1>1, <1>4, BoundTyped
      <3>2. QED
        BY <1>0, <1>1, <1>4, <1>5, <3>1, BoundTyped DEF CoolOK, Larger, TypeOK
    <2>3. CASE dark < Cold
      <3>1. dark' = Cold
        BY <1>1, <1>4, <2>1, <2>3, BoundTyped
      <3>2. Early'
        BY <1>2, <3>1, BoundTyped DEF Early
      <3>3. burn'.stalled \in Nat /\ burn'.fall \in Clock(ConfirmS)
        BY DEF TypeOK, BurnType
      <3>4. QED
        BY <1>2, <3>1, <3>2, <3>3, BoundTyped DEF ClockOK, Smaller
    <2>4. CASE dark >= Cold
      <3>1. raw' = 0 \/ Early'
        <4>1. CASE valid'
          BY <2>1, <2>2, <4>1 DEF FireOK
        <4>2. CASE ~valid'
          <5>1. raw' = raw
            BY <4>2 DEF Sense
          <5>2. raw = 0 \/ Early
            BY <2>4 DEF DarkOK, ClockOK
          <5>3. QED
            BY <1>1, <1>2, <1>4, <5>1, <5>2, BoundTyped DEF Early
        <4>3. QED
          BY <4>1, <4>2
      <3>2. ~burn'.established => /\ burn'.stalled >= Smaller(dark' - Cold, ProveS + 1)
                                  /\ dark' <= Cold + ProveS + Unjudged'
        <4>1. burn.stalled \in 0 .. ProveS + 1
          BY DEF TypeOK, BurnType
        <4>2. burn'.stalled = Smaller(burn.stalled + 1, ProveS + 1)
              /\ burn'.established = burn.established
          BY SenseBurn
        <4>3. ~burn.established => /\ burn.stalled >= Smaller(dark - Cold, ProveS + 1)
                                   /\ dark <= Cold + ProveS + Unjudged
          BY <2>4 DEF DarkOK, ClockOK
        <4>4. QED
          BY <1>1, <1>2, <1>4, <4>1, <4>2, <4>3, BoundTyped DEF Smaller
      <3>3. Falls' => /\ burn'.fall = None => Early'
                      /\ burn'.fall # None =>
                           burn'.fall >= Smaller(dark' - Cold - ProbeFaultS - 1, ConfirmS)
                      /\ dark' <= Cold + ProbeFaultS + 1 + ConfirmS + Unjudged'
        <4>1. Falls' <=> Falls
          BY <1>0, SenseBurn DEF Falls, Work
        <4>2. burn.fall \in Clock(ConfirmS) /\ burn'.fall = Older(burn.fall, ConfirmS)
          BY SenseBurn DEF TypeOK, BurnType
        <4>3. Falls => /\ burn.fall = None => Early
                       /\ burn.fall # None =>
                            burn.fall >= Smaller(dark - Cold - ProbeFaultS - 1, ConfirmS)
                       /\ dark <= Cold + ProbeFaultS + 1 + ConfirmS + Unjudged
          BY <2>4 DEF DarkOK, ClockOK
        <4>4. QED
          BY <1>1, <1>2, <1>4, <4>1, <4>2, <4>3, BoundTyped DEF Smaller, Older, Early
      <3>4. QED
        BY <3>1, <3>2, <3>3 DEF ClockOK
    <2>5. QED
      BY <1>1, <2>3, <2>4, BoundTyped
  <1>7. QED
    BY <1>3, <1>5, <1>6 DEF DarkOK

\* A verdict that lets the fire burn on.
LEMMA BurnsDark ==
  ASSUME TypeOK, FireOK, PotAssumption, DarkOK, NEW p \in BOOLEAN, BurnsOn(p), TypeOK'
  PROVE  DarkOK'
  <1> DEFINE b  == Coasted(Judged(p))
             proves == b.proving > 0 /\ ~Locked
             on == proves \/ (b.proving = None /\ igniter /\ ~Locked)
  <1>0. /\ pc = "safety" /\ pc' = "run" /\ mode' = mode /\ sp' = sp /\ mode \in Burns /\ valid
        /\ UNCHANGED physical /\ invalid_since' = None
        /\ burn' = [b EXCEPT !.proving = IF proves THEN b.proving ELSE None]
        /\ igniter' = on
        /\ dark' = IF p \/ Watched.armed THEN 0 ELSE dark
    BY DEF BurnsOn, Supervised, Judging, Cap
  <1>1. b \in BurnType
    BY JudgedTyped, CoastedTyped
  <1>2. /\ burn'.proving = IF proves THEN b.proving ELSE None
        /\ burn'.peak = b.peak /\ burn'.progress = b.progress
        /\ burn'.established = b.established /\ burn'.reached = b.reached
        /\ burn'.stalled = b.stalled /\ burn'.fall = b.fall
    <2> HIDE DEF b, proves
    <2> QED BY <1>0, <1>1 DEF BurnType
  <1>3. /\ burn \in BurnType /\ dark \in 0 .. Bound + 1 /\ pit \in 0 .. Top
        /\ raw \in 0 .. Top + Flare /\ invalid_since \in Clock(ProbeFaultS + 1)
        /\ burn.peak # None /\ burn.progress # None /\ burn.proving \in Clock(RelightProveS)
    BY <1>0 DEF TypeOK, BurnType, DarkOK, BurnOK
  <1>4. b.peak # None /\ b.progress # None
    <2>1. Judged(p) \in BurnType /\ Judged(p).peak # None /\ Judged(p).progress # None
      BY <1>3, JudgedTyped, JudgedFields DEF BurnType, Peak, Larger
    <2>2. QED
      BY <1>3, <2>1, CoastedFields
  <1>5. /\ \/ b.proving = burn.proving
           \/ RelightProveS > 0 /\ b.proving = RelightProveS
        /\ ~Watched.armed => b = Judged(p)
    BY JudgedTyped, JudgedFields, CoastedFields
  <1>6. igniter' => burn'.proving > 0
    <2>1. igniter => burn.proving # None
      BY <1>0 DEF DarkOK, CoolOK
    <2>2. b.proving = None => ~igniter
      BY <1>5, <2>1
    <2>3. QED
      <3> HIDE DEF b
      <3> QED BY <1>0, <1>2, <2>2
  <1>7. BurnOK'
    BY <1>0, <1>2, <1>3, <1>4 DEF BurnOK, DarkOK
  <1>8. CASE p \/ Watched.armed
    <2>1. dark' = 0 /\ burn'.proving \in Clock(RelightProveS)
      BY <1>0, <1>8 DEF TypeOK, BurnType
    <2>2. QED
      BY <1>0, <1>6, <1>7, <2>1, BoundTyped DEF DarkOK, CoolOK, ClockOK
  <1>9. CASE ~(p \/ Watched.armed)
    <2>1. b = Judged(FALSE) /\ dark' = dark /\ p = FALSE
      BY <1>0, <1>5, <1>9
    <2>2. burn'.proving > 0 => burn'.proving = burn.proving
      <3>1. b.proving = burn.proving
        BY <1>5, <1>9, JudgedFields
      <3>2. QED
        <4> HIDE DEF b, proves
        <4> QED BY <1>2, <3>1
    <2>3. CoolOK'
      <3>1. burn'.proving > 0 => dark + burn'.proving <= RelightProveS
        BY <1>0, <2>2 DEF DarkOK, CoolOK
      <3>2. dark > Glows => pit <= Larger(Cold - dark, 0)
        BY <1>0 DEF DarkOK, CoolOK
      <3>3. QED
        <4>1. burn'.proving \in Clock(RelightProveS)
          BY DEF TypeOK, BurnType
        <4>2. QED
          <5>1. pit' = pit /\ dark' = dark
            BY <1>0, <2>1
          <5>2. igniter' => burn'.proving # None /\ burn'.proving # 0
            <6> HIDE DEF b, proves, on
            <6> QED BY <1>6, <4>1
          <5>3. QED
            BY <3>1, <3>2, <5>1, <5>2 DEF CoolOK
    <2>4. ASSUME dark >= Cold PROVE ClockOK'
      <3>1. pit = 0 /\ ~fire /\ raw = 0
        <4>1. dark > 0 /\ dark > Glows /\ Larger(Cold - dark, 0) = 0
          BY <1>3, <2>4, BoundTyped DEF Larger
        <4>2. pit = 0 /\ ~fire
          BY <1>0, <1>3, <4>1 DEF DarkOK, CoolOK, BurnOK
        <4>3. QED
          BY <1>0, <4>2 DEF FireOK
      <3>2. /\ Work(mode) \in Nat /\ 2 * Work(mode) > Drop /\ Work(mode) > 0
            /\ mode = "Smoke" => Work(mode) = SmokeMin
        BY <1>0 DEF Work, PotAssumption, DarkOK, BurnOK, TypeOK
      <3>3. ~Gains
        BY <1>3, <3>1, <3>2 DEF Gains, BurnType
      <3>4. Established => burn.established
        BY <1>3, <3>1 DEF Established, BurnType
      <3>5. /\ burn'.peak = Peak /\ burn'.established = Established
            /\ burn'.reached = Watched.reached
            /\ burn'.fall = IF Fallen THEN Larger(burn.fall, 0) ELSE None
            /\ ~Stuck => burn'.stalled = burn.stalled
        BY <1>2, <1>9, <2>1, <3>3, JudgedClocks
      <3>6. ~Out /\ ~(Stuck /\ ~Established)
        BY <1>9 DEF BurnsOn
      <3>7. Unjudged' = 0 /\ Unjudged \in 1 .. ProbeFaultS + 2
        BY <1>0, <1>3 DEF Unjudged, Larger
      <3>8. ~burn'.established => /\ burn'.stalled >= Smaller(dark - Cold, ProveS + 1)
                                  /\ dark <= Cold + ProveS
        <4> SUFFICES ASSUME ~burn'.established
                     PROVE  /\ burn'.stalled >= Smaller(dark - Cold, ProveS + 1)
                            /\ dark <= Cold + ProveS
          OBVIOUS
        <4>1. ~burn.established /\ ~Established /\ ~Stuck
          BY <3>5, <3>6 DEF Established
        <4>2. burn.stalled >= Smaller(dark - Cold, ProveS + 1) /\ burn.stalled \in 0 .. ProveS + 1
          BY <1>0, <1>3, <2>4, <4>1 DEF DarkOK, ClockOK, BurnType
        <4>3. burn.stalled <= ProveS
          BY <3>3, <4>1, <4>2 DEF Stuck
        <4>4. QED
          BY <1>3, <3>5, <4>1, <4>2, <4>3, BoundTyped DEF Smaller
      <3>9. Falls' => /\ burn'.fall # None
                      /\ burn'.fall >= Smaller(dark - Cold - ProbeFaultS - 1, ConfirmS)
                      /\ dark <= Cold + ProbeFaultS + 1 + ConfirmS
        <4> SUFFICES ASSUME Falls'
                     PROVE  /\ burn'.fall # None
                            /\ burn'.fall >= Smaller(dark - Cold - ProbeFaultS - 1, ConfirmS)
                            /\ dark <= Cold + ProbeFaultS + 1 + ConfirmS
          OBVIOUS
        <4>1. Watched.reached <=> burn.reached
          BY <3>1, <3>2, WatchedFields
        <4>2. Peak = burn.peak
          BY <1>3, <3>1 DEF Peak, Larger, BurnType
        <4>3. Falls
          BY <1>0, <3>5, <4>1, <4>2 DEF Falls, Work
        <4>4. Ref >= Drop /\ Ref \in Nat
          BY <1>3, <3>2, <4>1, <4>2, <4>3 DEF Falls, Ref, Smaller, BurnType
        <4>5. (Percent * Ref) \div 100 <= Ref
          BY <4>4 DEF PotAssumption
        <4>6. Fallen
          BY <3>1, <4>4, <4>5 DEF Fallen, Mark, Larger
        <4>7. burn.fall < ConfirmS /\ burn.fall \in Clock(ConfirmS)
          BY <1>3, <3>6, <4>6 DEF Out, BurnType
        <4>8. /\ burn.fall = None => Early
              /\ burn.fall # None =>
                   burn.fall >= Smaller(dark - Cold - ProbeFaultS - 1, ConfirmS)
          BY <1>0, <2>4, <4>3 DEF DarkOK, ClockOK
        <4>9. QED
          BY <1>3, <3>5, <3>7, <4>6, <4>7, <4>8, BoundTyped DEF Early, Smaller, Larger
      <3>10. QED
        <4>1. raw' = 0 /\ dark' = dark /\ Unjudged' = 0
          BY <1>0, <2>1, <3>1, <3>7
        <4>2. QED
          BY <1>3, <3>8, <3>9, <4>1, BoundTyped DEF ClockOK
    <2>5. QED
      <3>1. ~(dark >= Cold) => ClockOK'
        BY <2>1 DEF ClockOK, Cold, Glows
      <3>2. QED
        BY <1>7, <2>3, <2>4, <3>1 DEF DarkOK
  <1>10. QED
    BY <1>8, <1>9

\* The invariant, whatever the step.
LEMMA DarkStep ==
  PotAssumption /\ IInv /\ IInv' /\ DarkOK /\ [Next]_vars => DarkOK'
  <1> SUFFICES ASSUME PotAssumption, IInv, IInv', DarkOK, [Next]_vars PROVE DarkOK'
    OBVIOUS
  <1>0. /\ TypeOK /\ TypeOK' /\ FireOK /\ FireOK' /\ dark \in 0 .. Bound + 1
        /\ invalid_since \in Clock(ProbeFaultS + 1) /\ burn \in BurnType
    BY DEF IInv, TypeOK
  <1>1. CASE Enters
    BY <1>0, <1>1, EntersDark DEF DarkOK
  <1>2. CASE Sense
    BY <1>0, <1>2, SenseDark
  <1>3. CASE \E p \in BOOLEAN : BurnsOn(p)
    BY <1>0, <1>3, BurnsDark
  <1>4. CASE ProbeLost
    <2>1. /\ pc = "safety" /\ pc' = "run" /\ UNCHANGED <<physical, mode, sp, burn, dark>>
          /\ invalid_since' = Larger(invalid_since, 0) /\ invalid_since <= ProbeFaultS
          /\ (igniter' => igniter) /\ mode \in Active
      BY <1>4 DEF ProbeLost, Judging, Cap
    <2>2. Unjudged' = Unjudged
      BY <1>0, <2>1 DEF Unjudged, Larger
    <2>3. BurnOK'
      BY <1>0, <2>1 DEF DarkOK, BurnOK, Larger
    <2>4. CoolOK'
      BY <2>1, <2>2 DEF DarkOK, CoolOK
    <2>5. ClockOK'
      BY <2>1, <2>2 DEF DarkOK, ClockOK, Early, Falls, Work
    <2>6. QED
      BY <2>3, <2>4, <2>5 DEF DarkOK
  <1>5. CASE AskSetPoint
    <2>1. /\ pc' = pc /\ UNCHANGED <<physical, mode, igniter, invalid_since, dark>>
          /\ mode = "Hold" /\ sp \in SetPoints \cup {None} /\ sp # None /\ sp' \in SetPoints
      BY <1>0, <1>5 DEF AskSetPoint, Asked, TypeOK, DarkOK, BurnOK
    <2>2. /\ burn'.peak = burn.peak /\ burn'.progress = burn.progress
          /\ burn'.established = burn.established /\ burn'.stalled = burn.stalled
          /\ burn'.fall = burn.fall /\ burn'.proving = burn.proving /\ ~burn'.reached
      BY <1>0, <1>5 DEF AskSetPoint, BurnType
    <2>3. Unjudged' = Unjudged
      BY <2>1 DEF Unjudged
    <2>4. BurnOK' /\ CoolOK'
      BY <2>1, <2>2, <2>3 DEF DarkOK, BurnOK, CoolOK
    <2>5. Falls' => Falls
      BY <2>1, <2>2 DEF Falls, Work, PotAssumption
    <2>6. ClockOK'
      BY <2>1, <2>2, <2>3, <2>5 DEF DarkOK, ClockOK, Early
    <2>7. QED
      BY <2>4, <2>6 DEF DarkOK
  <1>6. CASE RunOn
    <2>1. /\ pc = "run" /\ pc' = "sense"
          /\ UNCHANGED <<physical, mode, sp, igniter, invalid_since, dark>>
      BY <1>6 DEF RunOn
    <2>2. /\ burn'.peak = burn.peak /\ burn'.progress = burn.progress
          /\ burn'.established = burn.established /\ burn'.stalled = burn.stalled
          /\ burn'.fall = burn.fall /\ burn'.proving = burn.proving
          /\ burn'.reached => burn.reached \/ (mode = "Hold" /\ raw >= sp)
      BY <1>0, <1>6 DEF RunOn, BurnType
    <2>3. Unjudged' = Unjudged
      BY <2>1 DEF Unjudged
    <2>4. BurnOK' /\ CoolOK'
      BY <2>1, <2>2, <2>3 DEF DarkOK, BurnOK, CoolOK
    <2>5. ClockOK'
      <3> SUFFICES ASSUME mode \in Burns, dark >= Cold PROVE ClockOK'
        BY <2>1 DEF ClockOK
      <3>1. CASE Early
        <4>1. burn.fall \in Clock(ConfirmS) /\ Unjudged \in 0 .. ProbeFaultS + 1
          BY <1>0, <2>1 DEF BurnType, Unjudged, DarkOK, BurnOK
        <4>2. QED
          BY <1>0, <2>1, <2>2, <2>3, <3>1, <4>1, BoundTyped
             DEF DarkOK, ClockOK, Early, Smaller
      <3>2. CASE ~Early
        <4>1. raw = 0 /\ (mode = "Hold" => sp > 0)
          BY <1>0, <3>2 DEF DarkOK, ClockOK, BurnOK, IInv, TypeOK
        <4>2. Falls' => Falls
          <5>1. mode = "Hold" => sp \in Int /\ ~(raw >= sp)
            BY <1>0, <4>1 DEF DarkOK, BurnOK, TypeOK
          <5>2. burn'.reached => burn.reached
            BY <2>2, <5>1
          <5>3. Work(mode)' = Work(mode)
            BY <2>1 DEF Work
          <5>4. QED
            BY <2>2, <5>2, <5>3 DEF Falls
        <4>3. QED
          BY <2>1, <2>2, <2>3, <4>2 DEF DarkOK, ClockOK, Early
      <3>3. QED
        BY <3>1, <3>2
    <2>6. QED
      BY <2>4, <2>5 DEF DarkOK
  <1>7. CASE LightGoesOn \/ AtRest
    <2>1. mode' \notin Burns /\ dark' = dark /\ mode \notin Burns /\ fire' = fire /\ mode' = mode
      BY <1>7 DEF LightGoesOn, AtRest, Judging
    <2>2. pc' = "run" /\ (invalid_since' <= ProbeFaultS)
      BY <1>7 DEF LightGoesOn, AtRest, Judging, DarkOK, BurnOK
    <2>3. mode' \notin Active => invalid_since' = None
      BY <1>7 DEF LightGoesOn, AtRest, DarkOK, BurnOK
    <2>4. QED
      BY <2>1, <2>2, <2>3 DEF DarkOK, BurnOK, CoolOK, ClockOK
  <1>8. CASE UNCHANGED vars
    BY <1>8 DEF vars, DarkOK, BurnOK, CoolOK, ClockOK, Early, Falls, Work, Unjudged
  <1>9. QED
    BY <1>1, <1>2, <1>3, <1>4, <1>5, <1>6, <1>7, <1>8
       DEF Enters, Next, Ask, Safety, Run, Overheat, ProbeFault, LightFails, FlameLost,
           NeverCaught

-----------------------------------------------------------------------------
(* The theorems.                                                           *)

LEMMA InvInit == Init => IInv
  <1> SUFFICES ASSUME Init PROVE IInv
    OBVIOUS
  <1>1. LightOK /\ GlowOK /\ FireOK
    BY DEF Init, LightOK, GlowOK, FireOK
  <1>2. QED
    BY <1>1, TypeInit DEF IInv

\* In every reachable state the deadline, the cap and the proof are as above.
THEOREM Invariance == Spec => []IInv
  <1>1. IInv /\ [Next]_vars => IInv'
    BY TypeStep, LightStep, GlowStep, FireStep DEF IInv
  <1>2. QED
    BY InvInit, <1>1, PTL DEF Spec

\* Every variable of the supervision keeps its type: what pf_safety_tick,
\* enter_mode and run_mode write is what they read.
THEOREM TypeCorrect == Spec => []TypeOK
  <1>1. IInv => TypeOK
    BY DEF IInv
  <1>2. QED
    BY <1>1, Invariance, PTL

\* However long the deadlines and the probe fault are, no light outlasts them
\* (safety.c:249).
THEOREM EveryLightEnds == Spec => []LightEnds
  <1>1. IInv => LightEnds
    BY DEF IInv, TypeOK, LightType, LightOK, Span, LightEnds, Larger
  <1>2. QED
    BY <1>1, Invariance, PTL

\* However hot the barrel, however long the proofs, the deadlines and the probe
\* fault: a pot without a fire is relit or put out within Bound, unless it has
\* burned and its reference is too low to fall from (safety.c:268-283).
THEOREM DeadPotNoticed == PotAssumption /\ Spec => []DeadPotIsNoticed
  <1> SUFFICES ASSUME PotAssumption PROVE Spec => []DeadPotIsNoticed
    OBVIOUS
  <1>1. Init => DarkOK
    <2> SUFFICES ASSUME Init PROVE DarkOK
      OBVIOUS
    <2>1. mode = "Stop" /\ dark = 0 /\ invalid_since = None
      BY DEF Init
    <2>2. QED
      BY <2>1 DEF DarkOK, BurnOK, CoolOK, ClockOK
  <1>2. IInv /\ IInv' /\ DarkOK /\ [Next]_vars => DarkOK'
    BY DarkStep
  <1>3. IInv /\ DarkOK => DeadPotIsNoticed
    <2> SUFFICES ASSUME IInv, DarkOK, ~DeadPotIsNoticed PROVE FALSE
      OBVIOUS
    <2>1. /\ dark \in 0 .. Bound + 1 /\ dark > Bound /\ ~(burn.established /\ Mark < 0)
          /\ burn \in BurnType /\ pit \in 0 .. Top /\ invalid_since \in Clock(ProbeFaultS + 1)
      BY BoundTyped DEF DeadPotIsNoticed, IInv, TypeOK
    <2>2. Unjudged \in 0 .. ProbeFaultS + 2
      BY <2>1 DEF Unjudged, DarkOK, BurnOK, Larger
    <2>3. mode \in Burns /\ dark >= Cold /\ ~Early /\ pit = 0 /\ raw = 0
      BY <2>1, <2>2, BoundTyped DEF DarkOK, BurnOK, CoolOK, ClockOK, Early, Larger
    <2>4. burn.established /\ ~Falls
      BY <2>1, <2>2, <2>3, BoundTyped DEF DarkOK, ClockOK, BurnType
    <2>5. Work(mode) \in Nat /\ Work(mode) > 0 /\ (mode = "Smoke" => Work(mode) = SmokeMin)
      <3>1. mode = "Hold" => sp \in SetPoints
        BY DEF DarkOK, BurnOK, IInv, TypeOK
      <3>2. SmokeMin \in Nat /\ SmokeMin > 0
        BY DEF PotAssumption
      <3>3. QED
        <4>1. CASE mode = "Hold"
          <5>1. sp \in Nat \ {0}
            BY <3>1, <4>1
          <5>2. Work(mode) = sp
            BY <4>1 DEF Work
          <5>3. QED
            BY <4>1, <5>1, <5>2
        <4>2. CASE mode # "Hold"
          BY <3>2, <4>2 DEF Work
        <4>3. QED
          BY <4>1, <4>2
    <2>6. Watched.reached => burn.reached
      BY <2>3, <2>5, WatchedFields DEF IInv
    <2>7. Peak = burn.peak
      BY <2>1, <2>3 DEF Peak, Larger, BurnType, DarkOK, BurnOK
    <2>8. Ref < Drop /\ Ref \in Nat
      BY <2>1, <2>3, <2>4, <2>5, <2>6, <2>7 DEF Falls, Ref, Smaller, BurnType, DarkOK, BurnOK
    <2>9. Mark < 0
      <3>1. (Percent * Ref) \div 100 \in Int
        BY <2>8
      <3>2. QED
        BY <2>8, <3>1 DEF Mark, Larger
    <2>10. QED
      BY <2>1, <2>4, <2>9
  <1> QED
    BY <1>1, <1>2, <1>3, Invariance, PTL DEF Spec

\* The igniter's cap is a cap, for every cap (safety.c:178-184).
THEOREM CapIsACap == Spec => []IgniterIsCapped
  <1>1. IInv => IgniterIsCapped
    BY DEF IInv, GlowOK, IgniterIsCapped
  <1>2. QED
    BY <1>1, Invariance, PTL

\* A light is handed over only by run_mode, and what it then reads is more than
\* a barrel without a fire shows.
LEMMA HandOverByFire ==
  IInv /\ [Next]_vars => ((mode \in Lights /\ mode' \in Burns) => caught)
  <1> SUFFICES ASSUME IInv, [Next]_vars, mode \in Lights, mode' \in Burns PROVE caught
    OBVIOUS
  <1>1. ASSUME NEW m \in Burns, HandOver(m) PROVE caught
    <2>1. /\ light.base \in Clock(Top + Flare) /\ pit \in 0 .. Top
          /\ light.proven => light.base # None
          /\ ~caught => ~light.held /\ (light.base # None => pit <= light.base \/ pit <= Warm)
      BY DEF IInv, TypeOK, LightType, FireOK
    <2>2. HandsOver
      BY <1>1 DEF HandOver
    <2>3. QED
      BY <2>1, <2>2 DEF HandsOver
  <1>2. ~(\E m \in Burns : HandOver(m))
          => \/ mode' = mode \/ mode \in Burns
             \/ mode' \in {"Startup", "Reignite", "Stop", "Error"}
    <2> SUFFICES ASSUME ~\E m \in Burns : HandOver(m)
                 PROVE  \/ mode' = mode \/ mode \in Burns
                        \/ mode' \in {"Startup", "Reignite", "Stop", "Error"}
      OBVIOUS
    <2>1. CASE Sense \/ Run \/ UNCHANGED vars
      <3>1. Run => RunOn
        BY Zenon DEF Run
      <3>2. QED
        BY <2>1, <3>1 DEF Sense, RunOn, vars
    <2>2. CASE Ask
      BY <2>2 DEF Ask, AskLight, AskStop, AskSetPoint, AskBurn, Kindle, Leave, Entering
    <2>3. CASE Safety
      BY <2>3 DEF Safety, Overheat, ProbeFault, ProbeLost, LightFails, LightGoesOn,
         FlameOut, FlameLost, NeverCaught, BurnsOn, AtRest, Fail, Kindle, Leave, Entering
    <2>4. QED
      BY <2>1, <2>2, <2>3 DEF Next
  <1>3. QED
    BY <1>1, <1>2

\* Whatever the thresholds, as long as they are above what the igniter makes and
\* a barrel without a fire cools: no unlit pot is handed over (safety.c:50-64).
THEOREM NoUnlitPot == Spec => LitByFire
  <1>1. IInv /\ [Next]_vars
          => [(mode \in Lights /\ mode' \in Burns) => caught]_vars
    BY HandOverByFire
  <1>2. QED
    BY <1>1, Invariance, PTL DEF Spec, LitByFire

-----------------------------------------------------------------------------
(* The supervisor's promise: every step does one of five things to the mode, *)
(* the fire that is known and the relights.                                  *)

Stays ==
  /\ mode' = mode /\ retries' = retries
  /\ mode \in Lights => caught' = caught \/ caught'

Begins ==
  mode # "Error" /\ mode' = "Startup" /\ retries' = Retries

Feeds ==
  /\ mode \in Burns \/ (mode \in Lights /\ caught)
  /\ mode' \in Burns /\ retries' = retries

GoesOut == mode' \in {"Stop", "Error"} /\ retries' = retries

BeginsAgain ==
  /\ mode \in Burns /\ mode' = "Reignite"
  /\ retries > 0 /\ retries' = retries - 1

Moves == Stays \/ Begins \/ Feeds \/ GoesOut \/ BeginsAgain

LEMMA NextMoves ==
  ASSUME IInv, [Next]_vars
  PROVE  Moves
  <1>1. CASE Sense
    <2>1. mode' = mode /\ retries' = retries
      BY <1>1 DEF Sense
    <2>2. caught \in BOOLEAN /\ caught' = (caught \/ fire')
      BY <1>1 DEF Sense, IInv, TypeOK
    <2>3. caught' = caught \/ caught'
      BY <2>2, Zenon
    <2>4. QED
      BY <2>1, <2>3 DEF Moves, Stays
  <1>2. CASE Ask
    <2>1. CASE AskLight
      BY <2>1 DEF AskLight, Kindle, Entering, Moves, Begins
    <2>2. CASE AskStop
      BY <2>2 DEF AskStop, Leave, Entering, Moves, GoesOut
    <2>3. CASE AskSetPoint
      BY <2>3 DEF AskSetPoint, Moves, Stays
    <2>4. ASSUME NEW m \in Burns, AskBurn(m) PROVE Moves
      BY <2>4 DEF AskBurn, Settle, Entering, Moves, Feeds
    <2>5. QED
      BY <1>2, <2>1, <2>2, <2>3, <2>4 DEF Ask
  <1>3. CASE Safety
    <2>1. CASE Overheat \/ ProbeFault \/ LightFails \/ FlameLost \/ NeverCaught
      <3>1. mode' = "Error" /\ retries' = retries
        BY <2>1 DEF Overheat, ProbeFault, LightFails, FlameLost, NeverCaught,
                    Fail, Leave, Entering
      <3>2. QED
        BY <3>1 DEF Moves, GoesOut
    <2>2. CASE FlameOut
      BY <2>2 DEF FlameOut, Supervised, Kindle, Entering, Moves, BeginsAgain
    <2>3. CASE ProbeLost \/ LightGoesOn \/ AtRest
      BY <2>3 DEF ProbeLost, LightGoesOn, AtRest, Moves, Stays
    <2>4. ASSUME NEW p \in BOOLEAN, BurnsOn(p) PROVE Moves
      BY <2>4 DEF BurnsOn, Moves, Stays
    <2>5. QED
      BY <1>3, <2>1, <2>2, <2>3, <2>4 DEF Safety
  <1>4. CASE RunOn \/ UNCHANGED vars
    BY <1>4 DEF RunOn, vars, Moves, Stays
  <1>5. ASSUME NEW m \in Burns, HandOver(m) PROVE Moves
    <2>1. mode \in Lights /\ mode' \in Burns /\ retries' = retries
      BY <1>5 DEF HandOver, Settle, Entering
    <2>2. caught
      BY <2>1, HandOverByFire
    <2>3. QED
      BY <2>1, <2>2 DEF Moves, Feeds
  <1>6. QED
    BY <1>1, <1>2, <1>3, <1>4, <1>5 DEF Next, Run

\* Each of the five is a step of the supervisor or none.
LEMMA PromiseKept ==
  ASSUME IInv, IInv', [Next]_vars
  PROVE  [Promise!Next]_(Promise!svars)
  <1>1. mode \in Mode /\ mode' \in Mode /\ caught \in BOOLEAN /\ caught' \in BOOLEAN
    BY DEF IInv, TypeOK
  <1>2. /\ mode = "Stop" => Pot = "out" /\ Known = FALSE
        /\ mode = "Startup" => Pot = "lighting" /\ Known = caught
        /\ mode = "Reignite" => Pot = "relighting" /\ Known = caught
        /\ mode \in Burns => Pot = "burning" /\ Known = FALSE
        /\ mode = "Error" => Pot = "error" /\ Known = FALSE
    BY <1>1 DEF Pot, Known
  <1>3. /\ mode' = "Stop" => Pot' = "out" /\ Known' = FALSE
        /\ mode' = "Startup" => Pot' = "lighting" /\ Known' = caught'
        /\ mode' = "Reignite" => Pot' = "relighting" /\ Known' = caught'
        /\ mode' \in Burns => Pot' = "burning" /\ Known' = FALSE
        /\ mode' = "Error" => Pot' = "error" /\ Known' = FALSE
    BY <1>1 DEF Pot, Known
  <1>4. CASE Stays
    <2>1. CASE mode \in Lights
      <3>1. /\ Pot' = Pot /\ Pot \in {"lighting", "relighting"}
            /\ Known = caught /\ Known' = caught' /\ retries' = retries
        BY <1>2, <1>3, <1>4, <2>1 DEF Stays
      <3>2. Known' = Known \/ Known' = TRUE
        BY <1>1, <1>4, <2>1, <3>1 DEF Stays
      <3>3. QED
        BY <3>1, <3>2 DEF Promise!Next, Promise!Catch, Promise!InLight, Promise!svars
    <2>2. CASE mode \notin Lights
      <3>1. Pot' = Pot /\ retries' = retries
        BY <1>1, <1>2, <1>3, <1>4, <2>2 DEF Stays
      <3>2. Known' = Known
        BY <1>1, <1>2, <1>3, <1>4, <2>2 DEF Stays
      <3>3. QED
        BY <3>1, <3>2 DEF Promise!svars
    <2>3. QED
      BY <2>1, <2>2
  <1>5. CASE Begins
    <2>1. /\ Pot # "error" /\ Pot' = "lighting" /\ retries' = Retries
          /\ Known' \in BOOLEAN
      BY <1>1, <1>2, <1>3, <1>5 DEF Begins
    <2>2. QED
      BY <2>1 DEF Promise!Next, Promise!Light
  <1>6. CASE Feeds
    <2>1. Pot' = "burning" /\ Known' = FALSE /\ retries' = retries
      BY <1>3, <1>6 DEF Feeds
    <2>2. CASE mode \in Burns
      <3>1. Pot = "burning" /\ Known = FALSE
        BY <1>2, <2>2
      <3>2. Known' = Known
        BY <2>1, <3>1, Zenon
      <3>3. Pot' = Pot /\ retries' = retries
        BY <2>1, <3>1
      <3>4. QED
        BY <3>2, <3>3 DEF Promise!svars
    <2>3. CASE mode \in Lights /\ caught
      <3>1. Pot \in {"lighting", "relighting"} /\ Known
        BY <1>2, <2>3
      <3>2. QED
        BY <2>1, <3>1 DEF Promise!Next, Promise!HandOver, Promise!InLight
    <2>4. QED
      BY <1>6, <2>2, <2>3 DEF Feeds
  <1>7. CASE GoesOut
    <2>1. Pot' \in {"out", "error"} /\ Known' = FALSE /\ retries' = retries
      BY <1>3, <1>7 DEF GoesOut
    <2>2. QED
      BY <2>1 DEF Promise!Next, Promise!PutOut, Promise!Fail
  <1>8. CASE BeginsAgain
    <2>1. /\ Pot = "burning" /\ Pot' = "relighting" /\ retries > 0
          /\ retries' = retries - 1 /\ Known' \in BOOLEAN
      BY <1>1, <1>2, <1>3, <1>8 DEF BeginsAgain
    <2>2. QED
      BY <2>1 DEF Promise!Next, Promise!Relight
  <1>9. QED
    BY <1>4, <1>5, <1>6, <1>7, <1>8, NextMoves DEF Moves

\* A grill that is off, out of which the supervisor may begin.
LEMMA PromiseBegins == Init => Promise!Init
  <1> SUFFICES ASSUME Init PROVE Promise!Init
    OBVIOUS
  <1>1. mode = "Stop" /\ retries = Retries /\ Retries \in Nat
    BY DEF Init
  <1>2. Pot = "out" /\ Known = FALSE
    BY <1>1 DEF Pot, Known
  <1>3. QED
    BY <1>1, <1>2 DEF Promise!Init

\* Flame supervision keeps the supervisor's promise with the fire itself for
\* what is known: no light handed over without one, no relight that is not
\* counted, no way out of an error but by Stop (flameout, pf_safety_tick,
\* pf_safety_startup_done, handle_cmd's requests).
THEOREM FlameKeepsPromise == Spec => ImplementsSupervisor
  <1>1. IInv /\ IInv' /\ [Next]_vars => [Promise!Next]_(Promise!svars)
    BY PromiseKept
  <1>2. QED
    BY <1>1, PromiseBegins, Invariance, PTL
    DEF Spec, ImplementsSupervisor, Promise!Spec
=============================================================================
