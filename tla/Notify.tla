-------------------------------- MODULE Notify ------------------------------
(***************************************************************************)
(* Probe targets, limits, cook steps and the cook timer: src/core/notify.c,   *)
(* ticked by run_notify of src/core/control.c.                              *)
(*                                                                         *)
(* One meat probe with an ambient sensor of its own, and the timer. A       *)
(* temperature is a small number; the air round the meat is that of the      *)
(* grill or that of the room. How fast the meat climbs is not computed: what  *)
(* is worked out from the climb (the carry-over, the time to a target) is any *)
(* value the code may find.                                                 *)
(***************************************************************************)
EXTENDS Integers, FiniteSets

CONSTANTS
  Temps,      \* what the meat may read
  Aims,       \* targets and rest temperatures
  Marks,      \* the temperatures a step may stand at
  Carries,    \* what the carry-over may be worked out to be
  Freeze,     \* CARRY_FREEZE_C
  MaxAsks,    \* bound on commands, edits and restarts
  MaxTicks    \* bound on the ticks

VARIABLES
  probe,      \* pf_notify_probe, or Fresh when the probe is not in the snapshot
  timer,      \* pf_timer
  steps,      \* the steps in settings, and those that have spoken
  mode,       \* the grill's mode
  lessons,    \* rests the carry-over was learned from
  asks, ticks,
  asked, acted,   \* per trigger: after-actions asked for, and carried out
  said            \* how often each step has spoken since the meat was below it

nvars == <<probe, timer, steps, mode, lessons, asks, ticks, asked, acted, said>>

Afters == {"none", "keepwarm", "shutdown"}
Cooking == {"startup", "smoke", "hold"}
Unknown == -1

\* memset, and the estimates unknown
Fresh == [target |-> 0, rest |-> 0, after |-> "none", reached |-> FALSE, eta |-> Unknown,
          air |-> "none", gone |-> 0, watch |-> FALSE, peak |-> 0,
          high |-> 0, low |-> 0, tripped |-> {}]
NoTimer == [on |-> FALSE, paused |-> FALSE, left |-> 0, after |-> "none"]

Init ==
  /\ probe = Fresh /\ timer = NoTimer /\ steps = [listed |-> {}, fired |-> {}]
  /\ mode = "smoke" /\ lessons = 0 /\ asks = 0 /\ ticks = 0
  /\ asked = [x \in {"probe", "timer"} |-> 0] /\ acted = [x \in {"probe", "timer"} |-> 0]
  /\ said = [m \in Marks |-> 0]

-----------------------------------------------------------------------------
(* Commands *)

Asking == asks < MaxAsks /\ asks' = asks + 1
Count(src, after) == asked' = IF after = "none" THEN asked ELSE [asked EXCEPT ![src] = @ + 1]

\* pf_notify_set_target: a plain target is a take-off
Aimed(p, target, after) ==
  [p EXCEPT !.target = target, !.rest = 0, !.after = after, !.reached = FALSE, !.eta = Unknown,
            !.air = "none", !.gone = 0, !.watch = FALSE]

SetTarget(target, after) ==
  /\ Asking /\ probe' = Aimed(probe, target, after) /\ Count("probe", after)
  /\ UNCHANGED <<timer, steps, mode, lessons, ticks, acted, said>>

\* pf_notify_rest_pull_c: the rest temperature and a margin, less the carry-over
Pull(rest, carry) == rest + 1 - carry

SetRest(rest, after) ==
  /\ Asking /\ Count("probe", after)
  /\ \E c \in Carries : probe' = [Aimed(probe, Pull(rest, c), after) EXCEPT !.rest = rest]
  /\ UNCHANGED <<timer, steps, mode, lessons, ticks, acted, said>>

SetLimits(high, low) ==
  /\ Asking /\ probe' = [probe EXCEPT !.high = high, !.low = low, !.tripped = {}]
  /\ UNCHANGED <<timer, steps, mode, lessons, ticks, asked, acted, said>>

TimerStart(d, after) ==
  /\ Asking /\ Count("timer", after)
  /\ timer' = [on |-> TRUE, paused |-> FALSE, left |-> d, after |-> after]
  /\ UNCHANGED <<probe, steps, mode, lessons, ticks, acted, said>>

TimerPause ==
  /\ Asking /\ timer.on /\ ~timer.paused /\ timer' = [timer EXCEPT !.paused = TRUE]
  /\ UNCHANGED <<probe, steps, mode, lessons, ticks, asked, acted, said>>

TimerResume ==
  /\ Asking /\ timer.on /\ timer.paused /\ timer' = [timer EXCEPT !.paused = FALSE]
  /\ UNCHANGED <<probe, steps, mode, lessons, ticks, asked, acted, said>>

TimerCancel ==
  /\ Asking /\ timer.on /\ timer' = NoTimer
  /\ UNCHANGED <<probe, steps, mode, lessons, ticks, asked, acted, said>>

\* the list of steps in settings is rewritten
EditSteps(new) ==
  /\ Asking /\ new # steps.listed /\ steps' = [steps EXCEPT !.listed = new]
  /\ UNCHANGED <<probe, timer, mode, lessons, ticks, asked, acted, said>>

SetMode(m) ==
  /\ Asking /\ m # mode /\ mode' = m
  /\ UNCHANGED <<probe, timer, steps, lessons, ticks, asked, acted, said>>

\* pf_notify_sync: the probe was taken out of the settings and put back
Drop ==
  /\ Asking /\ probe' = Fresh /\ steps' = [steps EXCEPT !.fired = {}]
  /\ said' = [m \in Marks |-> 0]
  /\ UNCHANGED <<timer, mode, lessons, ticks, asked, acted>>

\* a restart that resumes the cook: what pf_control_resume_json kept is set again; the probe has
\* no climb yet, so a take-off is worked out with no carry-over
Restart ==
  /\ Asking /\ mode \in Cooking
  /\ LET again == [Aimed(Fresh, IF probe.rest > 0 THEN Pull(probe.rest, 0) ELSE probe.target, probe.after)
                     EXCEPT !.rest = probe.rest, !.high = probe.high, !.low = probe.low]
     IN  probe' = IF probe.target = 0 /\ probe.high = 0 /\ probe.low = 0 THEN Fresh ELSE again
  /\ timer' = IF timer.on /\ timer.left > 0 THEN timer ELSE NoTimer
  /\ steps' = [steps EXCEPT !.fired = {}]
  /\ UNCHANGED <<mode, lessons, ticks, asked, acted, said>>

-----------------------------------------------------------------------------
(* A tick, for a probe that reads t in the air air ("none": its ambient sensor is not reading) *)

Off(p) == p.gone = 2      \* `removed`

\* The ambient the meat had on the heat; the meat is off it once the air has read the room's twice
Felt(p, t, air) ==
  LET on == IF air = "none" \/ Off(p) \/ p.air = "grill" THEN p.air ELSE air
      leaving == air = "room" /\ on = "grill" /\ p.target > 0
  IN  IF leaving /\ p.gone = 1
      THEN [p EXCEPT !.air = on, !.gone = 2, !.watch = TRUE, !.peak = t]
      ELSE [p EXCEPT !.air = on,
                     !.gone = IF leaving THEN (IF Off(p) THEN 2 ELSE @ + 1)
                              ELSE IF Off(p) /\ air # "grill" THEN 2 ELSE 0]

\* The take-off of a rest-to target follows the climb; near it, it only comes forward
TakeOff(p, t, carry) ==
  LET off == Pull(p.rest, carry)
      near == p.target > 0 /\ t >= p.target - Freeze
  IN  IF p.rest = 0 \/ p.reached THEN p
      ELSE [p EXCEPT !.target = IF near /\ off > @ THEN @ ELSE off]

\* The rest being watched has ended: the probe is out of the meat, or the meat has cooled from
\* its peak, or half an hour has gone by
Cooled(p, t, air) == p.watch /\ t < p.peak /\ ~(air = "room" /\ t = 0)
Rested(p, t, air, late) ==
  [p EXCEPT !.peak = IF p.watch /\ t > @ THEN t ELSE @,
            !.watch = @ /\ ~(air = "room" /\ t = 0) /\ ~(t < p.peak) /\ ~late]

Reaches(p, t) == p.target > 0 /\ ~p.reached /\ t >= p.target

\* fault: the latch is trusted to keep the after-action from running twice
ReachKeeping(p, t) ==
  IF ~Reaches(p, t) THEN p
  ELSE [p EXCEPT !.reached = TRUE, !.eta = Unknown,
                 !.watch = @ \/ (p.rest > 0 /\ ~Off(p)),
                 !.peak = IF p.rest > 0 /\ ~Off(p) THEN t ELSE @]

\* the alert, once; its after-action is handed on and forgotten
Reach(p, t) ==
  IF ~Reaches(p, t) THEN p
  ELSE [p EXCEPT !.reached = TRUE, !.eta = Unknown, !.after = "none",
                 !.watch = @ \/ (p.rest > 0 /\ ~Off(p)),
                 !.peak = IF p.rest > 0 /\ ~Off(p) THEN t ELSE @]

\* pf_notify_estimate_eta_to: none while the meat has been as hot as that, or is not climbing
Estimates(p, t) == IF p.target = 0 \/ p.reached THEN {p.eta} ELSE {Unknown, 1}

Tripped(p, t) ==
  {x \in {"high", "low"} :
     IF x = "high" THEN p.high > 0 /\ (t > p.high \/ (x \in p.tripped /\ t > p.high - 1))
     ELSE IF p.low > 0 /\ mode \in Cooking THEN t < p.low \/ (x \in p.tripped /\ t < p.low + 1)
     ELSE x \in p.tripped}

\* Each listed step speaks going up, and is armed again below
StepsAt(t) ==
  LET kept == steps.fired \cap steps.listed
      speak == {m \in steps.listed \ kept : mode \in Cooking /\ t >= m}
  IN  [speak |-> speak, fired |-> {m \in kept : t >= m - 1} \cup speak]

Expired == timer.on /\ ~timer.paused /\ timer.left = 0

\* run_notify: the pending action, in the modes that take it; the timer's is written last
Act(p, hit) ==
  LET act == IF Expired /\ timer.after # "none" THEN timer.after ELSE IF hit THEN p.after ELSE "none"
  IN  CASE act = "shutdown" /\ mode \in Cooking -> "shutdown"
        [] act = "keepwarm" /\ mode \in {"smoke", "hold"} -> "hold"
        [] OTHER -> mode

TimerTick ==
  timer' = IF Expired THEN NoTimer
           ELSE IF timer.on /\ ~timer.paused THEN [timer EXCEPT !.left = @ - 1] ELSE timer

Pulse(hit, p) ==
  acted' = [acted EXCEPT !["probe"] = @ + (IF hit /\ p.after # "none" THEN 1 ELSE 0),
                         !["timer"] = @ + (IF Expired /\ timer.after # "none" THEN 1 ELSE 0)]

Tick(t, air) ==
  /\ ticks < MaxTicks /\ ticks' = ticks + 1
  /\ \E c \in IF probe.rest > 0 THEN Carries ELSE {0},
        late, slow \in IF probe.watch THEN BOOLEAN ELSE {FALSE} :
       LET felt == Felt(probe, t, air)
           aimed == TakeOff(felt, t, c)
           p == Rested(aimed, t, air, late)
           hit == Reaches(p, t)
       IN  /\ \E e \in Estimates(Reach(p, t), t) :
                probe' = [Reach(p, t) EXCEPT !.eta = e, !.tripped = Tripped(p, t)]
           /\ lessons' = IF Cooled(aimed, t, air) /\ slow /\ lessons < 1 THEN lessons + 1 ELSE lessons
           /\ mode' = Act(p, hit) /\ Pulse(hit, p)
  /\ steps' = [steps EXCEPT !.fired = StepsAt(t).fired]
  /\ said' = [m \in Marks |-> IF m \in StepsAt(t).speak THEN said[m] + 1
                              ELSE IF t < m - 1 \/ m \notin steps.listed THEN 0 ELSE said[m]]
  /\ TimerTick
  /\ UNCHANGED <<asks, asked>>

\* A tick with no reading of the probe: the timer alone
TickBlind ==
  /\ ticks < MaxTicks /\ ticks' = ticks + 1
  /\ mode' = Act(probe, FALSE) /\ Pulse(FALSE, probe) /\ TimerTick
  /\ UNCHANGED <<probe, steps, lessons, asks, asked, said>>

Next ==
  \/ \E target \in Aims, after \in Afters : SetTarget(target, after) \/ SetRest(target, after)
  \/ SetLimits(2, 1)
  \/ \E after \in Afters : TimerStart(1, after)
  \/ TimerPause \/ TimerResume \/ TimerCancel \/ Drop \/ Restart
  \/ \E new \in SUBSET Marks : EditSteps(new)
  \/ \E m \in {"stop", "startup", "hold"} : SetMode(m)
  \/ \E t \in Temps, air \in {"none", "grill", "room"} : Tick(t, air)
  \/ TickBlind

Spec == Init /\ [][Next]_nvars

-----------------------------------------------------------------------------
(* Properties *)

\* An after-action is carried out at most once for each time it was asked for, however often the
\* target is met again after a restart, and whatever the timer does (notify.c:392-395, 483-494)
ActsOnce == \A x \in {"probe", "timer"} : acted[x] <= asked[x]

\* A step speaks once while the meat stays above it, over a restart too (notify.c:345-350).
\* Not so over a restart (README, Found).
StepSpeaksOnce == \A m \in Marks : said[m] <= 1
=============================================================================
