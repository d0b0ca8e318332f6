-------------------------------- MODULE Tuner -------------------------------
(***************************************************************************)
(* src/features/tuner.c: a run over a few set points, a relay test at each, *)
(* the result filed in the library (Learning) and judged by a hold. The     *)
(* main thread's tick reads the status and steers the grill through the     *)
(* command queue; buttons and the control thread step in between. The test  *)
(* itself is in Autotune. Clocks are choices.                              *)
(***************************************************************************)
EXTENDS Learning, Sequences

CONSTANTS
  Runs,         \* the lists of set points a run may be asked for, in the order they are visited
  MaxStarts     \* bound on the runs

VARIABLES
  run,          \* g: [on, phase, points, step, tries, gen, prev, had, anchor, measured]
  grill,        \* the status: [mode, sp, test]
  cmds,         \* the commands pushed and not yet taken
  inflight,     \* the flag in the database
  starts,
  climb,        \* learn.rise_*: the set point climbed to and whether from a lower hold, or none
  typed,        \* controller.config's PB, Ti and Td: the measurement they hold, 0 for none
  before,       \* history: the library before the measurement under verification, or {} when
                \* something else has written to it since
  rejected      \* history: the measurements whose verification failed

tvars == <<run, grill, cmds, inflight, starts, climb, typed, before, rejected>>
vars == <<lvars, tvars>>

NoRun == [on |-> FALSE, phase |-> "idle", points |-> <<>>, step |-> 1, tries |-> 0, gen |-> 0,
          prev |-> NoResult, had |-> FALSE, anchor |-> Blank, measured |-> 0]

NoClimb == [sp |-> 0, step |-> FALSE]

Init ==
  /\ LInit
  /\ run = NoRun /\ cmds = <<>> /\ inflight = FALSE /\ starts = 0
  /\ climb = NoClimb /\ typed = 0 /\ before = {} /\ rejected = {}
  /\ grill = [mode |-> "Stop", sp |-> 0, test |-> FALSE]

Cmd(what, sp) == [what |-> what, sp |-> sp]
Push(c) == cmds' = Append(cmds, c)
Phase(p) == run' = [run EXCEPT !.phase = p]
Point == run.points[run.step]
LibUntouched == UNCHANGED <<lvars, climb, typed, rejected>>
Cook == UNCHANGED <<climb, typed>>

-----------------------------------------------------------------------------
(* The buttons *)

\* pf_tuner_start; from scratch clears the library
Start(points, fromScratch) ==
  /\ ~run.on /\ starts < MaxStarts /\ cmds = <<>>
  /\ starts' = starts + 1
  /\ run' = [NoRun EXCEPT !.on = TRUE, !.phase = "starting", !.points = points, !.gen = gen]
  /\ inflight' = TRUE
  /\ IF fromScratch THEN ClearAnchors ELSE UNCHANGED lib
  /\ Push(Cmd("hold", points[1]))
  /\ before' = {}
  /\ UNCHANGED <<waiting, model, relay, gen, measures, grill, climb, typed, rejected>>

\* finish: the flag is cleared, and the library left as it is
Finish == run' = [run EXCEPT !.on = FALSE, !.phase = "over"] /\ inflight' = FALSE

\* pf_tuner_stop
EndRun ==
  /\ run.on /\ Finish
  /\ cmds' = cmds \o <<Cmd("stop test", 0), Cmd("shutdown", 0)>>
  /\ LibUntouched /\ UNCHANGED <<grill, starts, before>>

-----------------------------------------------------------------------------
(* pf_tuner_tick *)

\* an Error ends the run; so does Stop, but for the first half minute and the run's own shutdown
Ended ==
  /\ run.on
  /\ grill.mode = "Error" \/ (grill.mode = "Stop" /\ run.phase # "finishing")
  /\ Finish
  /\ LibUntouched /\ UNCHANGED <<grill, cmds, starts, before>>

Ticks(p) == /\ run.on /\ run.phase = p /\ grill.mode # "Error"
            /\ grill.mode = "Stop" => p \in {"starting", "finishing"}

\* never in Hold, never settled, or too long a test
GivesUp ==
  /\ Ticks("starting") \/ Ticks("settling") \/ (Ticks("testing") /\ grill.test)
  /\ cmds = <<>> /\ Finish
  /\ LibUntouched /\ UNCHANGED <<grill, cmds, starts, before>>

Starting ==
  /\ Ticks("starting") /\ grill.mode = "Hold"
  /\ Phase("settling")
  /\ LibUntouched /\ UNCHANGED <<grill, cmds, inflight, starts, before>>

\* five minutes near the set point: the last result is kept aside and the test asked for
Settling ==
  /\ Ticks("settling") /\ cmds = <<>>
  /\ run' = [run EXCEPT !.phase = "testing", !.gen = gen, !.prev = relay]
  /\ Push(Cmd("start test", 0))
  /\ LibUntouched /\ UNCHANGED <<grill, inflight, starts, before>>

\* PH_TESTING, the test over with a fresh result: filed, and what was there kept aside
Kept(L) == [run EXCEPT !.phase = "verifying", !.gen = gen, !.measured = @ + 1,
              !.had = Matching(L, Point) # {},
              !.anchor = IF Matching(L, Point) = {} THEN @ ELSE L[ListedFirst(L, Matching(L, Point))]]
FilesLate(id, static) ==   \* fault: the entry is looked up when it has been replaced
  /\ lib' = StoreAnchor(lib, Point, id, static)
  /\ run' = Kept(StoreAnchor(lib, Point, id, static))
Files(id, static) ==
  /\ lib' = StoreAnchor(lib, Point, id, static)
  /\ run' = Kept(lib)

Measured ==
  /\ Ticks("testing") /\ ~grill.test /\ cmds = <<>>
  /\ gen # run.gen /\ relay # NoResult
  /\ \E static \in BOOLEAN : Files(relay.id, static) /\ waiting' = WaitsOn(lib, Point, static)
  /\ before' = {lib}
  /\ UNCHANGED <<model, relay, gen, measures, grill, cmds, inflight, starts, rejected>> /\ Cook

\* no result: settle again, twice at most, or go on to the next
NotMeasured ==
  /\ Ticks("testing") /\ ~grill.test /\ cmds = <<>>
  /\ gen = run.gen \/ relay = NoResult
  /\ \/ run.tries < 2 /\ run' = [run EXCEPT !.tries = @ + 1, !.phase = "settling"]
     \/ Phase("next")
  /\ LibUntouched /\ UNCHANGED <<grill, cmds, inflight, starts, before>>

\* the hold was good, or the cook skipped it
Passes ==
  /\ Ticks("verifying")
  /\ Phase("next") /\ before' = {}
  /\ LibUntouched /\ UNCHANGED <<grill, cmds, inflight, starts>>

\* the hold was not good: what was in force goes back, and the controller is told; the lock is let
\* go around the push, but a button that comes in those microseconds is left out
Reverts ==
  /\ Ticks("verifying")
  /\ lib' = IF run.had THEN PutAnchor(lib, run.anchor) ELSE WithoutAnchor(lib, Point)
  /\ IF run.prev # NoResult THEN StoreAutotune(run.prev) ELSE UNCHANGED <<relay, gen>>
  /\ rejected' = rejected \cup {relay.id}
  /\ Phase("next") /\ Push(Cmd("apply", 0)) /\ before' = {}
  /\ UNCHANGED <<waiting, model, measures, grill, inflight, starts>> /\ Cook

\* the next set point, or the shutdown
NextPoint ==
  /\ Ticks("next")
  /\ IF run.step = Len(run.points)
       THEN Phase("finishing") /\ Push(Cmd("shutdown", 0))
       ELSE /\ run' = [run EXCEPT !.step = @ + 1, !.tries = 0, !.phase = "settling"]
            /\ Push(Cmd("setpoint", run.points[run.step + 1]))
  /\ LibUntouched /\ UNCHANGED <<grill, inflight, starts, before>>

\* stopped, or a quarter of an hour later; the controller then forgets what it had refined
Finishing ==
  /\ Ticks("finishing") /\ cmds = <<>>
  /\ Finish
  /\ LibUntouched /\ UNCHANGED <<grill, cmds, starts, before>>

\* pf_tuner_init: a run that was under way is over
Restart ==
  /\ LoadAll
  /\ run' = NoRun /\ inflight' = FALSE /\ cmds' = <<>> /\ climb' = NoClimb /\ before' = {}
  /\ grill' = [mode |-> "Stop", sp |-> 0, test |-> FALSE]
  /\ UNCHANGED <<starts, typed, rejected>>

-----------------------------------------------------------------------------
(* The control thread, the fire and the cook *)

\* learn_rise_begin: from cold, when startup is entered
RisesFrom(sp) == climb' \in {NoClimb, [sp |-> sp, step |-> FALSE]}

\* learn_rise_track: a step up from a hold that had settled is another capture; any other change
\* ends the one under way
StepsTo(sp) ==
  \/ climb = NoClimb /\ grill.mode = "Hold" /\ sp > grill.sp /\ climb' = [sp |-> sp, step |-> TRUE]
  \/ climb' = IF climb.sp = sp THEN climb ELSE NoClimb

ServeHold(sp) ==
  \/ /\ grill.mode = "Hold" /\ grill' = [grill EXCEPT !.sp = sp] /\ StepsTo(sp)
  \/ /\ grill.mode = "Startup" /\ grill' = [grill EXCEPT !.sp = sp] /\ UNCHANGED climb
  \/ /\ grill.mode \in {"Stop", "Shutdown"}
     /\ grill' = [mode |-> "Startup", sp |-> sp, test |-> FALSE] /\ RisesFrom(sp)
  \/ grill.mode = "Error" /\ UNCHANGED <<grill, climb>>

\* one command
Serve ==
  /\ cmds # <<>> /\ cmds' = Tail(cmds)
  /\ LET c == Head(cmds) IN
     \/ c.what = "hold" /\ ServeHold(c.sp) /\ UNCHANGED typed
     \/ c.what = "setpoint" /\ grill' = [grill EXCEPT !.sp = c.sp] /\ StepsTo(c.sp) /\ UNCHANGED typed
     \/ /\ c.what = "start test"
        /\ grill' \in {grill, [grill EXCEPT !.test = (grill.mode = "Hold")]} /\ Cook
     \/ c.what = "stop test" /\ grill' = [grill EXCEPT !.test = FALSE] /\ Cook
     \/ /\ c.what = "shutdown"
        /\ grill' = IF grill.mode \in {"Startup", "Hold"}
                      THEN [grill EXCEPT !.test = FALSE, !.mode = "Shutdown"] ELSE grill
        /\ climb' = IF grill'.mode = "Shutdown" THEN NoClimb ELSE climb
        /\ UNCHANGED typed
     \/ c.what = "apply" /\ typed' = (IF relay # NoResult THEN relay.id ELSE typed) /\ UNCHANGED <<grill, climb>>
  /\ UNCHANGED <<lvars, run, inflight, starts, before, rejected>>

\* modes move on by themselves, fail, or are stopped; entering one ends a test
After(m) == CASE m = "Startup" -> {"Hold", "Error", "Stop"} [] m = "Hold" -> {"Error", "Stop"}
              [] m = "Shutdown" -> {"Stop"} [] m = "Error" -> {"Stop"} [] OTHER -> {}
Moves ==
  /\ \E m \in After(grill.mode) :
       /\ grill' = [grill EXCEPT !.mode = m, !.test = FALSE]
       /\ climb' = IF m = "Hold" THEN climb ELSE NoClimb
  /\ UNCHANGED <<lvars, run, cmds, inflight, starts, typed, before, rejected>>

\* the cook moves the set point: neither a run nor a test ends
Retargets ==
  /\ grill.mode = "Hold"
  /\ \E sp \in Points : sp # grill.sp /\ grill' = [grill EXCEPT !.sp = sp] /\ StepsTo(sp)
  /\ UNCHANGED <<lvars, run, cmds, inflight, starts, typed, before, rejected>>

\* autotune_finish: a result is filed or the test was in vain
TestEnds ==
  /\ grill.test /\ measures < MaxMeasures
  /\ grill' = [grill EXCEPT !.test = FALSE]
  /\ \/ /\ StoreAutotune([id |-> measures + 1, sp |-> grill.sp]) /\ measures' = measures + 1
        /\ model' \in {model, TRUE}
     \/ UNCHANGED <<relay, gen, measures, model>>
  /\ UNCHANGED <<lib, waiting, run, cmds, inflight, starts, climb, typed, before, rejected>>

\* learn_rise_track: ten minutes after the arrival the climb is fitted, or cannot be
Climbed ==
  /\ climb # NoClimb /\ grill.mode = "Hold"
  /\ Capture(climb.sp) \/ UNCHANGED lvars
  /\ climb' = NoClimb
  /\ before' = IF lib' = lib THEN before ELSE {}
  /\ UNCHANGED <<run, grill, cmds, inflight, starts, typed, rejected>>

\* the learning page
Edits ==
  /\ (\E sp \in Points : Remove(sp)) \/ ClearTuning
  /\ before' = {}
  /\ UNCHANGED <<run, grill, cmds, inflight, starts, climb, typed, rejected>>

-----------------------------------------------------------------------------
Next ==
  \/ \E points \in Runs, fresh \in BOOLEAN : Start(points, fresh)
  \/ EndRun \/ Ended \/ GivesUp \/ Starting \/ Settling \/ Measured \/ NotMeasured \/ Passes
  \/ Reverts \/ NextPoint \/ Finishing \/ Restart
  \/ Serve \/ Moves \/ Retargets \/ TestEnds \/ Climbed \/ Edits

Spec == Init /\ [][Next]_vars

-----------------------------------------------------------------------------
(* A failed verification puts back "what was in force before this set point's measurement ...      *)
(* exactly" (tuner.c:69): the library is the one the measurement was filed into, whatever plants,  *)
(* averages and slots the filing had touched, unless something else has written to it meanwhile.   *)
PutsBack == run.phase = "verifying" /\ rejected' # rejected /\ before # {} => lib' \in before
TakenBack == [][PutsBack]_vars

(* "... without writing a single measurement into the saved settings, where a bad one would        *)
(* outlive the run that produced it" (tuner.c:432-434): a measurement whose verification failed is *)
(* not what the settings are given. Not so when it was the first result (README, Found).           *)
BadTuneIsNotSaved == typed = 0 \/ typed \notin rejected
=============================================================================
