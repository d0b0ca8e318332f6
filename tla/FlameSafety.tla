----------------------------- MODULE FlameSafety -----------------------------
(***************************************************************************)
(* Flame supervision: core/safety.c (Smart Start, the fall, the climb, the *)
(* coast, the igniter cap, the probe fault, the overheat) with the parts   *)
(* of core/control.c that start and end it.                                *)
(*                                                                         *)
(* A tick is one unit of time: the pit moves and is read, commands come,   *)
(* pf_safety_tick judges, run_mode hands a light over.  Temperatures are   *)
(* steps above the outdoor air.  A reading may flare for a tick; both      *)
(* filters are taken to remove the flare and nothing else, so what they    *)
(* give is the pit.  Clocks are ages or what is left, cut off where the    *)
(* code stops telling values apart; None is a clock that does not run, and *)
(* NAN.  The fire and the barrel are the environment: a barrel without a   *)
(* fire cools in every unit, and the igniter alone lifts it to Warm.       *)
(* Prime, Monitor, Manual and Shutdown are Stop here: nothing is judged in *)
(* them but an overheat.  A light ended by force, an override of the       *)
(* igniter, a resume and a recovery are left to GrillControl and Recovery. *)
(***************************************************************************)
EXTENDS Integers

CONSTANTS
  Top, MaxTemp, Flare, Warm,     \* the barrel; safety.maxtemp
  ProveRise, ExitRise, Hot,      \* startup.smartstart; HOT_DELTA_C
  ProveS, HoldS, FlatS,          \* prove_s; PROVE_HOLD_S; HOT_FLAT_S
  Drop, Percent, ConfirmS,       \* relight_drop; FALL_FRACTION; confirm_s
  RelightProveS, IgniterMaxS, ProbeFaultS,
  SmokeMin, SetPoints,           \* safety.smoke_min; the set points asked for
  Retries                        \* safety.reigniteretries; 0 if not enabled

ASSUME FlameAssumption ==
  /\ {Top, MaxTemp, Flare, Warm, HoldS, FlatS, Hot, Drop, Percent, ConfirmS,
      RelightProveS, ProbeFaultS, SmokeMin, Retries} \subseteq Nat
  /\ {ProveRise, ProveS, IgniterMaxS} \subseteq Nat \ {0}
  /\ ExitRise \in Nat /\ ExitRise > ProveRise /\ Warm <= Top
  /\ SetPoints \subseteq Nat \ {0} /\ SetPoints # {}

\* What the thresholds were chosen for: the igniter alone does not make the
\* large rise, nor a barrel that counts as hot, and a flat is not an instant.
ASSUME BarrelAssumption == Warm < ExitRise /\ Warm < Hot /\ FlatS > 0

Lights == {"Startup", "Reignite"}
Burns  == {"Smoke", "Hold"}
Active == Lights \cup Burns
Mode   == Active \cup {"Stop", "Error"}
None   == -1

VARIABLES
  pc,      \* what the tick does next
  fire, pit,   \* the fire and the barrel,
  raw, valid,  \*   and the reading: pit_c keeps the last one
  mode, sp,    \* mode, setpoint_c
  igniter, ign_since, locked_out, \* the relay and its cap
  invalid_since,
  light,   \* of pf_safety, what a light reads,
  burn,    \*   and what Smoke and Hold read
  retries, \* reignite_retries_left
  lit_for, \* history: how long the light has lasted;
  caught,  \*   there was a fire in it;
  dark,    \*   how long a pot with no fire has been fed and judged;
  glow     \*   how long the igniter has been on in this mode

physical == <<fire, pit, raw, valid>>
ignition == <<igniter, ign_since, locked_out>>
history  == <<lit_for, caught, dark, glow>>
vars == <<pc, physical, mode, sp, ignition, invalid_since, light, burn, retries, history>>

Smaller(a, b) == IF a < b THEN a ELSE b
Larger(a, b)  == IF a > b THEN a ELSE b
Older(t, cap) == IF t = None THEN None ELSE Smaller(t + 1, cap)
Sooner(t, low) == Larger(t - 1, low)

\* What is read no more, or not yet.
NoLight == [proven |-> FALSE, held |-> FALSE, above |-> None, base |-> None,
            left |-> None, flat |-> None, flat_t |-> None]
NoBurn  == [peak |-> None, progress |-> None, stalled |-> 0, fall |-> None,
            armed |-> FALSE, proving |-> None, established |-> FALSE,
            handover |-> None, reached |-> FALSE, last_sp |-> None]

Reading == IF valid THEN raw ELSE None   \* pit_valid ? pit_c : NAN
Work(m) == IF m = "Hold" THEN sp ELSE SmokeMin

\* How long a pot without a fire may go unnoticed: the igniter of a proof, on
\* for as long as nobody can read that it is over; the barrel, until it is cold;
\* the longer of the climb's deadline and the confirmation of a fall, which
\* begins with a reading; and the probe lost when either is over.
Glows == RelightProveS + ProbeFaultS
Cold  == Glows + 1 + Top
Bound == Cold + Larger(ProveS, ConfirmS + ProbeFaultS + 1) + ProbeFaultS + 2

-----------------------------------------------------------------------------
(* The environment.                                                        *)

\* Where the barrel may be a unit later.
Drifts ==
  IF fire THEN {t \in pit - 1 .. pit + 1 : t \in 0 .. Top}
  ELSE IF igniter /\ pit <= Warm THEN pit .. Warm
  ELSE {Larger(pit - 1, 0)}

\* A fed pot over a glowing igniter may catch; a fire may always go out.
Sense ==
  /\ pc = "sense" /\ pc' = "safety"
  /\ fire' \in IF fire \/ (mode \in Active /\ igniter) THEN BOOLEAN ELSE {FALSE}
  /\ pit' \in Drifts
  /\ \/ raw' = pit' /\ valid' = TRUE
     \/ raw' = pit' + Flare /\ valid' = TRUE /\ fire'
     \/ raw' = raw /\ valid' = FALSE
  /\ ign_since' = Older(ign_since, IgniterMaxS + 1)
  /\ invalid_since' = Older(invalid_since, ProbeFaultS + 1)
  /\ light' = [light EXCEPT !.above = Older(@, HoldS), !.flat_t = Older(@, FlatS),
                            !.left = Sooner(@, None)]
  /\ burn' = [burn EXCEPT !.stalled = IF mode \in Burns THEN Smaller(@ + 1, ProveS + 1) ELSE @,
                          !.fall = Older(@, ConfirmS),
                          !.proving = IF @ = None THEN None ELSE Sooner(@, 0)]
  /\ lit_for' = IF mode \in Lights THEN lit_for + 1 ELSE 0
  /\ caught' = (caught \/ fire')
  /\ dark' = IF mode \in Burns /\ ~fire' THEN Smaller(dark + 1, Bound + 1) ELSE 0
  /\ glow' = IF igniter THEN glow + 1 ELSE 0
  /\ UNCHANGED <<mode, sp, igniter, locked_out, retries>>

-----------------------------------------------------------------------------
(* enter_mode, of which this module needs what it does to pf_safety and to *)
(* the igniter; and what it calls.                                         *)

Entering(m) ==
  /\ mode' = m
  /\ igniter' = (m \in Lights) /\ ign_since' = None /\ locked_out' = FALSE
  /\ invalid_since' = None
  /\ glow' = 0

Leave(m) ==
  /\ Entering(m)
  /\ light' = NoLight /\ burn' = NoBurn
  /\ lit_for' = 0 /\ caught' = FALSE /\ dark' = 0
  /\ sp' = None

\* pf_safety_on_startup_enter.  Only a relight finds last_sp_c as it was.
Kindle(m, last_sp) ==
  /\ Entering(m)
  /\ light' = [NoLight EXCEPT !.base = Reading, !.left = ProveS]
  /\ burn' = [NoBurn EXCEPT !.last_sp = last_sp]
  /\ lit_for' = 0 /\ caught' = fire /\ dark' = 0
  /\ sp' = None

\* pf_safety_on_run_enter, from a mode that left b.
Settle(m, b) ==
  /\ Entering(m)
  /\ sp' \in IF m = "Hold" THEN SetPoints ELSE {None}
  /\ light' = NoLight
  /\ burn' = [b EXCEPT !.peak = IF @ = None THEN Reading ELSE @,
                       !.progress = IF valid THEN raw ELSE @,
                       !.stalled = IF valid THEN 0 ELSE @,
                       !.established = @ \/ mode \in Burns,
                       !.reached = FALSE,
                       !.armed = valid /\ raw > IF m = "Hold" THEN sp' ELSE SmokeMin]
  /\ lit_for' = 0 /\ caught' = FALSE /\ dark' = 0

-----------------------------------------------------------------------------
(* The commands that reach enter_mode or the set point.                    *)

\* Any number of them, after the reading and before the verdict.
Asked == pc = "safety" /\ pc' = "safety" /\ UNCHANGED physical

\* From Startup too: the light begins again.
AskLight ==
  /\ Asked
  /\ mode # "Error"
  /\ Kindle("Startup", None)
  /\ retries' = Retries

AskStop ==
  /\ Asked
  /\ Leave("Stop")
  /\ UNCHANGED retries

\* Hold in Hold is a new set point and no new mode; Smoke in Smoke is.
AskBurn(m) ==
  /\ Asked
  /\ mode \in Burns /\ ~(mode = "Hold" /\ m = "Hold")
  /\ Settle(m, burn)
  /\ UNCHANGED retries

AskSetPoint ==
  /\ Asked
  /\ mode = "Hold"
  /\ sp' \in SetPoints
  /\ burn' = [burn EXCEPT !.reached = FALSE]
  /\ UNCHANGED <<mode, ignition, invalid_since, light, retries, history>>

-----------------------------------------------------------------------------
(* pf_safety_tick.                                                         *)

\* pf_safety_set_error and enter_mode: the verdict is carried out at once.
Fail ==
  /\ pc = "safety" /\ pc' = "run"
  /\ Leave("Error")
  /\ UNCHANGED <<physical, retries>>

Overheats == mode \notin {"Stop", "Error"} /\ valid /\ raw > MaxTemp

Overheat == Overheats /\ Fail

\* Section 1b, before anything that may return.
Locked == locked_out \/ (igniter /\ ign_since > IgniterMaxS)

Cap(on) ==
  /\ igniter' = on
  /\ locked_out' = Locked
  /\ ign_since' = IF ~igniter THEN None ELSE Larger(ign_since, 0)

Judging == pc = "safety" /\ pc' = "run" /\ ~Overheats

\* Section 2.
ProbeFault ==
  /\ ~Overheats /\ mode \in Active /\ ~valid
  /\ invalid_since > ProbeFaultS
  /\ Fail

\* fault: the igniter is not capped while the probe cannot be read.
ProbeLostUncapped ==
  /\ Judging /\ mode \in Active /\ ~valid
  /\ invalid_since <= ProbeFaultS
  /\ invalid_since' = Larger(invalid_since, 0)
  /\ UNCHANGED <<physical, mode, sp, ignition, light, burn, retries, history>>

ProbeLost ==
  /\ Judging /\ mode \in Active /\ ~valid
  /\ invalid_since <= ProbeFaultS
  /\ invalid_since' = Larger(invalid_since, 0)
  /\ Cap(igniter /\ ~Locked)
  /\ UNCHANGED <<physical, mode, sp, light, burn, retries, history>>

\* Section 3: the rise over the lowest reading that stands for HoldS, or in a
\* barrel HOT above the air a lowest reading that stands for FlatS.
\* fault: the deadline starts anew with every rise, not with the proof.
ProofRenewed ==
  LET base  == IF light.base = None THEN pit ELSE Smaller(light.base, pit)
      risen == pit >= base + ProveRise
      rose  == risen /\ light.above >= HoldS
  IN IF light.proven THEN light
     ELSE [light EXCEPT !.proven = rose, !.base = base,
                        !.above = IF risen THEN Larger(@, 0) ELSE None,
                        !.left = IF risen THEN ProveS ELSE @]

Proof ==
  LET base  == IF light.base = None THEN pit ELSE Smaller(light.base, pit)
      risen == pit >= base + ProveRise
      rose  == risen /\ light.above >= HoldS
      lower == light.flat_t = None \/ pit < light.flat
      flat_t == IF lower THEN 0 ELSE light.flat_t
      held  == ~rose /\ pit >= Hot /\ flat_t >= FlatS
  IN IF light.proven THEN light
     ELSE [proven |-> rose \/ held, held |-> held, base |-> base,
           above |-> IF risen THEN Larger(light.above, 0) ELSE None,
           left |-> IF rose THEN ProveS ELSE light.left,
           flat |-> IF lower THEN pit ELSE light.flat, flat_t |-> flat_t]

LightFails ==
  /\ ~Overheats /\ mode \in Lights /\ valid
  /\ Proof.left < 0
  /\ Fail

LightGoesOn ==
  /\ Judging /\ mode \in Lights /\ valid
  /\ Proof.left >= 0
  /\ light' = Proof
  /\ invalid_since' = None
  /\ Cap(igniter /\ ~Locked)
  /\ UNCHANGED <<physical, mode, sp, burn, retries, history>>

\* Section 4, up to the judgement: a set point lowered below the pit starts a
\* coast.
Watched ==
  [burn EXCEPT !.armed = @ \/ (mode = "Hold" /\ sp < burn.last_sp /\ raw > sp),
               !.last_sp = IF mode = "Hold" THEN sp ELSE None,
               !.reached = @ \/ (mode = "Smoke" /\ raw >= SmokeMin)]

\* The fall.
Peak   == Larger(burn.peak, pit)
Ref    == IF Watched.reached THEN Work(mode) ELSE Smaller(Peak, Work(mode))
Mark   == Ref - Larger(Drop, (Percent * Ref) \div 100)
Fallen == pit <= Mark
Out    == Fallen /\ burn.fall >= ConfirmS

\* The climb.
Established == burn.established \/ (burn.handover # None /\ raw >= burn.handover + ExitRise)
Gains  == 2 * raw >= 2 * Work(mode) - Drop \/ raw >= burn.progress + ProveRise
Stuck  == ~Gains /\ burn.stalled > ProveS

\* fault: a lid is never over.
JudgedUnderLid(paused) == [Watched EXCEPT !.progress = raw, !.stalled = 0, !.fall = None]

Judged(paused) ==
  IF paused \/ Watched.armed
  THEN [Watched EXCEPT !.progress = raw, !.stalled = 0, !.fall = None]
  ELSE [Watched EXCEPT !.peak = Peak,
                       !.fall = IF Fallen THEN Larger(@, 0) ELSE None,
                       !.established = Established,
                       !.handover = IF Established THEN None ELSE @,
                       !.progress = IF Gains \/ Stuck THEN raw ELSE @,
                       !.stalled = IF Gains \/ Stuck THEN 0 ELSE @]

\* The end of a coast: the pit is down at the working temperature.
Coasted(b) ==
  IF ~b.armed \/ raw > Work(mode) THEN b
  ELSE [b EXCEPT !.armed = FALSE, !.peak = raw, !.reached = @ \/ mode = "Smoke",
                 !.proving = IF RelightProveS > 0 /\ ~Locked THEN RelightProveS ELSE @]

Supervised == Judging /\ mode \in Burns /\ valid

\* fault: a relight is not counted.
FlameOutFree ==
  /\ Supervised /\ ~Watched.armed /\ Out /\ retries > 0
  /\ Kindle("Reignite", Watched.last_sp)
  /\ UNCHANGED <<physical, retries>>

\* flameout: relit, or an error when there are no retries.
FlameOut ==
  /\ Supervised /\ ~Watched.armed /\ Out /\ retries > 0
  /\ retries' = retries - 1
  /\ Kindle("Reignite", Watched.last_sp)
  /\ UNCHANGED physical

FlameLost ==
  /\ Supervised /\ ~Watched.armed /\ Out /\ retries = 0
  /\ Fail

NeverCaught ==
  /\ Supervised /\ ~Watched.armed /\ ~Out /\ Stuck /\ ~Established
  /\ Fail

\* paused: a lid, or a tuning measurement.
BurnsOn(paused) ==
  LET b == Coasted(Judged(paused))
      proves == b.proving > 0 /\ ~Locked
  IN /\ Supervised
     /\ paused \/ Watched.armed \/ (~Out /\ ~(Stuck /\ ~Established))
     /\ burn' = [b EXCEPT !.proving = IF proves THEN @ ELSE None]
     /\ Cap(proves \/ (b.proving = None /\ igniter /\ ~Locked))
     /\ invalid_since' = None
     /\ dark' = IF paused \/ Watched.armed THEN 0 ELSE dark
     /\ UNCHANGED <<physical, mode, sp, light, retries, lit_for, caught, glow>>

AtRest ==
  /\ Judging /\ mode \notin Active
  /\ UNCHANGED <<physical, mode, sp, ignition, invalid_since, light, burn, retries, history>>

-----------------------------------------------------------------------------
(* run_mode.                                                               *)

\* pf_safety_startup_done, pf_safety_on_startup_exit and enter_mode.  Without
\* a reading the filtered pit is what it was when it was not done.
\* fault: the proof is enough.
HandsOverProven == light.proven /\ valid

HandsOver ==
  light.proven /\ valid /\ (light.held \/ pit >= light.base + ExitRise)

HandOver(m) ==
  /\ pc = "run" /\ pc' = "sense"
  /\ mode \in Lights /\ HandsOver
  /\ Settle(m, [burn EXCEPT !.peak = Reading, !.handover = Reading])
  /\ UNCHANGED <<physical, retries>>

\* An open lid clears target_reached.
RunOn ==
  /\ pc = "run" /\ pc' = "sense"
  /\ ~(mode \in Lights /\ HandsOver)
  /\ burn' \in IF mode = "Hold"
               THEN {[burn EXCEPT !.reached = b] : b \in {FALSE, burn.reached \/ raw >= sp}}
               ELSE {burn}
  /\ UNCHANGED <<physical, mode, sp, ignition, invalid_since, light, retries, history>>

-----------------------------------------------------------------------------

Init ==
  /\ pc = "sense" /\ fire = FALSE /\ pit \in 0 .. Top /\ raw = pit /\ valid = TRUE
  /\ mode = "Stop" /\ sp = None
  /\ igniter = FALSE /\ ign_since = None /\ locked_out = FALSE /\ invalid_since = None
  /\ light = NoLight /\ burn = NoBurn /\ retries = Retries
  /\ lit_for = 0 /\ caught = FALSE /\ dark = 0 /\ glow = 0

Ask    == AskLight \/ AskStop \/ AskSetPoint \/ \E m \in Burns : AskBurn(m)
Safety == Overheat \/ ProbeFault \/ ProbeLost \/ LightFails \/ LightGoesOn
            \/ FlameOut \/ FlameLost \/ NeverCaught \/ (\E p \in BOOLEAN : BurnsOn(p)) \/ AtRest
Run    == RunOn \/ \E m \in Burns : HandOver(m)

Next == Sense \/ Ask \/ Safety \/ Run

Spec == Init /\ [][Next]_vars

-----------------------------------------------------------------------------

Clock(cap) == -1 .. cap

LightType ==
  [proven : BOOLEAN, held : BOOLEAN, above : Clock(HoldS), base : Clock(Top + Flare),
   left : Clock(ProveS), flat : Clock(Top), flat_t : Clock(FlatS)]

BurnType ==
  [peak : Clock(Top + Flare), progress : Clock(Top + Flare), stalled : 0 .. ProveS + 1,
   fall : Clock(ConfirmS), armed : BOOLEAN, proving : Clock(RelightProveS),
   established : BOOLEAN, handover : Clock(Top + Flare), reached : BOOLEAN,
   last_sp : SetPoints \cup {None}]

TypeOK ==
  /\ pc \in {"sense", "safety", "run"}
  /\ fire \in BOOLEAN /\ valid \in BOOLEAN
  /\ pit \in 0 .. Top /\ raw \in 0 .. Top + Flare
  /\ mode \in Mode /\ sp \in SetPoints \cup {None}
  /\ igniter \in BOOLEAN /\ locked_out \in BOOLEAN
  /\ ign_since \in Clock(IgniterMaxS + 1) /\ invalid_since \in Clock(ProbeFaultS + 1)
  /\ light \in LightType /\ burn \in BurnType
  /\ retries \in 0 .. Retries
  /\ lit_for \in Nat /\ caught \in BOOLEAN /\ dark \in 0 .. Bound + 1 /\ glow \in Nat

\* A light is over, one way or the other, within two prove_s and the time a
\* probe may be lost in each, whatever the pit and the probe do; only a cook
\* who asks for Startup again makes it longer (safety.c:44-56).
LightEnds == lit_for <= 2 * (ProveS + ProbeFaultS + 2)

\* Whatever counts as proof, no pot is handed over to Smoke or Hold that has
\* not burned since the light began: not the igniter's own heat, not a hot
\* barrel that is still hot (safety.c:50-64).
LitByFire ==
  [][(mode \in Lights /\ mode' \in Burns) => caught]_vars

\* What of it the supervisor knows
Pot ==
  CASE mode = "Stop"     -> "out"
    [] mode = "Startup"  -> "lighting"
    [] mode = "Reignite" -> "relighting"
    [] mode \in Burns    -> "burning"
    [] mode = "Error"    -> "error"

Known == mode \in Lights /\ caught

Promise == INSTANCE Supervisor
  WITH pot <- Pot, known <- Known, left <- retries, hearing <- FALSE

\* The verdicts do to the pot what the supervisor may, the fire itself being
\* what it knows: no light is handed over without one, no burning pot is relit
\* without spending a relight, no error is left but by Stop (safety.c:117-159).
ImplementsSupervisor == Promise!Spec

\* In Smoke and Hold a pot that has no fire, and is neither coasting nor under
\* an open lid, is relit or put out in bounded time - as long as an
\* established fire has a reference high enough for the pit to fall below.
DeadPotIsNoticed == dark <= Bound \/ (burn.established /\ Mark < 0)

\* "if the fire is failing the fall will say so" (safety.c:281, docs/safety.md:86).
FailingFireIsStopped == dark <= Bound

\* The igniter is off within a tick of its cap, read or unread, proving or
\* lighting (safety.c:174-177).
IgniterIsCapped == glow <= IgniterMaxS + 2
=============================================================================
