---------------------------- MODULE GrillControl ----------------------------
(***************************************************************************)
(* The control thread's tick: pf_control_step of core/control.c, with the  *)
(* commands it drains, the request it applies, the recipe it runs, the     *)
(* mode the safety tick asks for and the transitions of run_mode.          *)
(*                                                                         *)
(* The tick is cut where the code is: each phase is one call, and a        *)
(* command may do anything a client, the panel or the tuner can push.      *)
(* Times and temperatures are choices: a deadline may pass, a fire may be  *)
(* proven or lost, in any tick.  FlameSafety and AugerFeed refine them;    *)
(* what this module and FlameSafety have in common is Supervisor.          *)
(* Of the outputs the two that feed and light are kept; set points, the    *)
(* fan, the lid's feed and the notifications are left out.                 *)
(***************************************************************************)
EXTENDS Integers, Sequences

CONSTANTS
  Recipes,          \* the recipes on file: sequences of [mode, ends]
  MaxSteps,         \* the steps a recipe may have (16 in the code)
  Command,          \* the commands that may arrive
  AfterStartupMode, \* startup.start_to_mode.after_startup_mode
  PrimeOnStartup,   \* startup.prime_on_startup > 0
  PrimeIgnition,    \* startup.prime_ignition
  AllowManual,      \* manual output changes in any mode
  RelightEnabled,   \* safety.relight_enabled
  Retries,          \* safety.reigniteretries
  HasShutdownInput  \* a shutdown switch is wired

Mode == {"Stop", "Monitor", "Prime", "Startup", "Reignite", "Smoke", "Hold",
         "Shutdown", "Manual", "Error"}

Lighting == {"Startup", "Reignite"}
Burning  == {"Smoke", "Hold"}
Firing   == Lighting \cup Burning            \* pf_mode_is_firing
Idle     == {"Stop", "Monitor", "Manual", "Prime", "Shutdown"}
Output   == {"auger", "igniter"}

\* How a step ends: a tree that is empty, one of facts, and one that also
\* waits for the cook's answer or for the lid.
Ends     == {"empty", "facts", "prompt", "lid"}
StepMode == {"Startup", "Smoke", "Hold", "Shutdown", "Stop"}

\* recipe.flags: nothing, pause at the end, skip, continue alone.
None == 0
Pause == 1
Skip == 2
Unasked == 3
Flag == {None, Pause, Skip, Unasked}

StepNo == 1 .. MaxSteps

AllCommands ==
  [type : {"stop", "setpoint", "clear_error", "recipe_next", "recipe_skip",
           "recipe_back", "recipe_stop"}]
    \cup [type : {"mode"}, mode : Mode, force : BOOLEAN]
    \cup [type : {"manual"}, out : Output, on : BOOLEAN]
    \cup [type : {"prime"}, next : {"Startup", "Stop"}]
    \cup [type : {"recipe_start"}, recipe : Recipes]
    \cup [type : {"recipe_flag"}, step : StepNo, flag : Flag]

ASSUME ConfigAssumption ==
  /\ MaxSteps \in Nat \ {0}
  /\ \A r \in Recipes : /\ r \in Seq([mode : StepMode, ends : Ends])
                        /\ Len(r) \in StepNo
  /\ Command \subseteq AllCommands
  /\ AfterStartupMode \in Burning
  /\ Retries \in Nat
  /\ {PrimeOnStartup, PrimeIgnition, AllowManual, RelightEnabled,
      HasShutdownInput} \subseteq BOOLEAN

Phase == {"cmd", "request", "notify", "recipe", "safety", "run", "input"}

NoRequest == "none"

VARIABLES
  phase,         \* the call of the tick that comes next
  mode,          \* c->mode
  next_mode,     \* c->next_mode: where Prime and Startup lead
  reignite_last, \* c->safety.reignite_last: where Reignite leads
  retries,       \* c->safety.reignite_retries_left
  proven,        \* c->safety.ss_proven
  proving,       \* c->safety.proving: the igniter after a coast
  locked,        \* c->safety.igniter_locked_out
  auger,         \* the auger relay
  igniter,       \* the igniter relay
  manual,        \* the outputs under manual_until
  req,           \* c->req_mode while req_pending
  recipe,        \* c->recipe
  quiet,         \* nobody pushes commands any more
  relights,      \* history: relights of this cook
  ended          \* history: what last put the grill out, if not a recipe

fire  == <<retries, reignite_last, relights>>
grill == <<mode, next_mode, proven, proving, locked, auger, igniter, manual,
           fire>>
vars  == <<phase, grill, req, recipe, quiet, ended>>

-----------------------------------------------------------------------------
(* enter_mode.                                                             *)

\* Everything it switches and clears; nm is the next_mode the caller has set.
Enter(m, nm) ==
  /\ mode' = m
  /\ next_mode' = IF m = "Stop" THEN "Stop" ELSE nm
  /\ manual' = {}
  /\ locked' = FALSE
  /\ auger' = (m \in Firing \cup {"Prime"})
  /\ igniter' = \/ m \in Lighting
                \/ m = "Prime" /\ PrimeIgnition /\ nm = "Startup"
  /\ proven' = (proven /\ m \notin Lighting)
  /\ proving' = (proving /\ m \notin Lighting)

\* A first light resets the whole safety record (pf_safety_reset).
EnterMode(m, nm) ==
  /\ Enter(m, nm)
  /\ IF m = "Startup"
       THEN retries' = Retries /\ reignite_last' = "Stop" /\ relights' = 0
       ELSE UNCHANGED fire

\* Only what startup leads to changes.
LeadsTo(nm) ==
  /\ next_mode' = nm
  /\ UNCHANGED <<mode, proven, proving, locked, auger, igniter, manual, fire>>

-----------------------------------------------------------------------------
(* The recipe: recipe_begin_step, recipe_advance, recipe_finish_now.       *)

NoRecipe ==
  [active |-> FALSE, steps |-> <<>>, last |-> 0, step |-> 1,
   flags |-> [i \in StepNo |-> None], prompt |-> FALSE, lid |-> FALSE]

\* The run picks up a recipe, its first step and no flags.
Loaded(r) ==
  [NoRecipe EXCEPT !.active = TRUE, !.steps = r, !.last = Len(r)]

\* Where a startup step leads: into the step after it if that burns.
AfterStep(r, k) ==
  LET nm == IF k < r.last THEN r.steps[k + 1].mode ELSE AfterStartupMode
  IN  IF nm \in Burning THEN nm ELSE "Smoke"

\* What beginning step k does to the grill.
ApplyStep(r, k) ==
  LET m == r.steps[k].mode
  IN  \/ /\ m = "Startup"
         /\ IF mode \in Firing THEN LeadsTo(AfterStep(r, k))
                               ELSE EnterMode("Startup", AfterStep(r, k))
      \/ /\ m \in Burning
         /\ \/ mode \in Idle /\ EnterMode("Startup", m)
            \/ mode \in Lighting /\ LeadsTo(m)
            \/ mode = m /\ UNCHANGED grill
            \/ mode \in (Burning \cup {"Error"}) \ {m} /\ EnterMode(m, next_mode)
      \/ /\ m \in {"Shutdown", "Stop"}
         /\ EnterMode(m, next_mode)

\* Begin at step i: the steps marked to be skipped are passed over, their
\* marks used up; past the last step the recipe is over.
BeginStep(r, i) ==
  \/ /\ \A k \in i .. r.last : r.flags[k] = Skip
     /\ recipe' = NoRecipe
     /\ UNCHANGED grill
  \/ \E k \in i .. r.last :
       /\ r.flags[k] # Skip
       /\ \A j \in i .. k - 1 : r.flags[j] = Skip
       /\ recipe' = [r EXCEPT !.step = k, !.prompt = FALSE, !.lid = FALSE,
            !.flags = [j \in StepNo |-> IF j \in i .. k - 1 THEN None ELSE @[j]]]
       /\ ApplyStep(r, k)

Advance(r) == BeginStep(r, r.step + 1)

\* fault: what follows the finish is still to come.
FinishGoesOn(r) ==
  LET ahead == {k \in r.step .. r.last : r.steps[k].mode = "Shutdown"}
  IN  \/ /\ ahead = {}
         /\ recipe' = NoRecipe
         /\ EnterMode("Shutdown", next_mode)
      \/ \E fin \in ahead :
           /\ \A k \in ahead : k <= fin
           /\ BeginStep([r EXCEPT !.flags[fin] = None], fin)

\* To the last Shutdown step still ahead, with nothing after it and no mark
\* on it; a recipe without one ends here.
Finish(r) ==
  LET ahead == {k \in r.step .. r.last : r.steps[k].mode = "Shutdown"}
  IN  \/ /\ ahead = {}
         /\ recipe' = NoRecipe
         /\ EnterMode("Shutdown", next_mode)
      \/ \E fin \in ahead :
           /\ \A k \in ahead : k <= fin
           /\ BeginStep([r EXCEPT !.last = fin, !.flags[fin] = None], fin)

-----------------------------------------------------------------------------
(* Phase "cmd": handle_cmd, for as long as the queue has commands.         *)

Got(type) ==
  IF phase = "cmd" /\ ~quiet THEN {c \in Command : c.type = type} ELSE {}

\* fault: a request made just before the Stop is still applied after it.
HandleStopLate ==
  /\ Got("stop") # {}
  /\ EnterMode("Stop", next_mode)
  /\ recipe' = NoRecipe
  /\ ended' = "stop"
  /\ UNCHANGED <<phase, req, quiet>>

\* Stop is unconditional: the mode, the recipe and any request before it.
HandleStop ==
  /\ Got("stop") # {}
  /\ EnterMode("Stop", next_mode)
  /\ recipe' = NoRecipe
  /\ req' = NoRequest
  /\ ended' = "stop"
  /\ UNCHANGED <<phase, quiet>>

Forces(c) == c.force /\ mode \in Lighting /\ c.mode \in Burning

\* The end of startup by hand, now.
HandleForce ==
  \E c \in Got("mode") :
    /\ Forces(c)
    /\ EnterMode(c.mode, next_mode)
    /\ ended' = "no"
    /\ UNCHANGED <<phase, req, recipe, quiet>>

\* pf_control_request: one slot, and the last request is the one kept.
HandleMode ==
  \E c \in Got("mode") :
    /\ ~Forces(c)
    /\ req' = c.mode
    /\ ended' = IF c.mode \in {"Startup", "Smoke", "Hold", "Prime"}
                  THEN "no" ELSE ended
    /\ UNCHANGED <<phase, grill, recipe, quiet>>

HandleSetPoint ==
  /\ Got("setpoint") # {}
  /\ next_mode' = IF mode = "Startup" THEN "Hold" ELSE next_mode
  /\ reignite_last' = IF mode = "Reignite" THEN "Hold" ELSE reignite_last
  /\ req' = IF mode = "Smoke" THEN "Hold" ELSE req
  /\ UNCHANGED <<phase, mode, proven, proving, locked, auger, igniter, manual,
                 retries, relights, recipe, quiet, ended>>

\* fault: an error does not hold the outputs.
HandleManualAnywhere ==
  \E c \in Got("manual") :
    /\ mode \in {"Manual", "Monitor"} \/ AllowManual
    /\ manual' = manual \cup {c.out}
    /\ auger' = IF c.out = "auger" THEN c.on ELSE auger
    /\ igniter' = IF c.out = "igniter" THEN c.on ELSE igniter
    /\ UNCHANGED <<phase, mode, next_mode, proven, proving, locked, fire, req,
                   recipe, quiet, ended>>

\* An error holds the outputs until Stop, whatever the settings allow.
HandleManual ==
  \E c \in Got("manual") :
    /\ mode # "Error"
    /\ mode \in {"Manual", "Monitor"} \/ AllowManual
    /\ manual' = manual \cup {c.out}
    /\ auger' = IF c.out = "auger" THEN c.on ELSE auger
    /\ igniter' = IF c.out = "igniter" THEN c.on ELSE igniter
    /\ UNCHANGED <<phase, mode, next_mode, proven, proving, locked, fire, req,
                   recipe, quiet, ended>>

\* What the prime leads to is noted before the mode is looked at.
HandlePrime ==
  \E c \in Got("prime") :
    /\ IF mode \in {"Stop", "Monitor"} THEN EnterMode("Prime", c.next)
                                       ELSE LeadsTo(c.next)
    /\ ended' = "no"
    /\ UNCHANGED <<phase, req, recipe, quiet>>

HandleClearError ==
  /\ Got("clear_error") # {}
  /\ mode = "Error"
  /\ EnterMode("Stop", next_mode)
  /\ ended' = "switch"
  /\ UNCHANGED <<phase, req, recipe, quiet>>

HandleRecipeStart ==
  \E c \in Got("recipe_start") :
    /\ mode # "Error"
    /\ BeginStep(Loaded(c.recipe), 1)
    /\ ended' = "no"
    /\ UNCHANGED <<phase, req, quiet>>

\* The cook answers, and a pause asked for is over.
HandleRecipeNext ==
  /\ Got("recipe_next") # {}
  /\ recipe.active
  /\ recipe' = [recipe EXCEPT !.prompt = TRUE,
       !.flags[recipe.step] = IF @ = Pause THEN None ELSE @]
  /\ UNCHANGED <<phase, grill, req, quiet, ended>>

HandleRecipeSkip ==
  /\ Got("recipe_skip") # {}
  /\ recipe.active
  /\ Advance(recipe)
  /\ ended' = "no"
  /\ UNCHANGED <<phase, req, quiet>>

HandleRecipeBack ==
  /\ Got("recipe_back") # {}
  /\ recipe.active
  /\ recipe.step > 1
  /\ BeginStep(recipe, recipe.step - 1)
  /\ ended' = "no"
  /\ UNCHANGED <<phase, req, quiet>>

HandleRecipeFlag ==
  \E c \in Got("recipe_flag") :
    /\ recipe.active
    /\ c.step <= recipe.last
    /\ recipe' = [recipe EXCEPT !.flags[c.step] = c.flag]
    /\ UNCHANGED <<phase, grill, req, quiet, ended>>

HandleRecipeStop ==
  /\ Got("recipe_stop") # {}
  /\ recipe.active
  /\ recipe' = NoRecipe
  /\ UNCHANGED <<phase, grill, req, quiet, ended>>

HandleCommand ==
  \/ HandleStop \/ HandleForce \/ HandleMode \/ HandleSetPoint \/ HandleManual
  \/ HandlePrime \/ HandleClearError \/ HandleRecipeStart \/ HandleRecipeNext
  \/ HandleRecipeSkip \/ HandleRecipeBack \/ HandleRecipeFlag
  \/ HandleRecipeStop

\* The queue is empty.
QueueEmpty ==
  /\ phase = "cmd"
  /\ phase' = "request"
  /\ UNCHANGED <<grill, req, recipe, quiet, ended>>

-----------------------------------------------------------------------------
(* Phase "request": apply_request.                                         *)

\* fault: an error hears every request but its own.
RefusedLate(m) ==
  \/ m \in {"Reignite", "Error"}
  \/ m \in {"Prime", "Manual"} /\ mode \notin {"Stop", "Monitor"}

\* Reignite and Error are the grill's own; Prime and Manual put the outputs in
\* somebody's hands; Error hears only Stop.
Refused(m) ==
  \/ mode = "Error" /\ m # "Stop"
  \/ m \in {"Reignite", "Error"}
  \/ m \in {"Prime", "Manual"} /\ mode \notin {"Stop", "Monitor"}

ApplyStop ==
  /\ recipe' = NoRecipe
  /\ EnterMode("Stop", next_mode)
  /\ ended' = "stop"

ApplyShutdown ==
  /\ IF recipe.active THEN Finish(recipe)
                      ELSE EnterMode("Shutdown", next_mode) /\ UNCHANGED recipe
  /\ ended' = "finish"

ApplyStartup ==
  /\ IF PrimeOnStartup /\ mode \in {"Stop", "Monitor"}
       THEN EnterMode("Prime", "Startup")
       ELSE EnterMode("Startup", AfterStartupMode)
  /\ UNCHANGED <<recipe, ended>>

\* fault: a grill that is cooling down is taken for one that burns.
ApplyBurningHot(m) ==
  /\ \/ mode \in Idle \ {"Shutdown"} /\ EnterMode("Startup", m)
     \/ mode = "Startup" /\ LeadsTo(m)
     \/ /\ mode = "Reignite"
        /\ reignite_last' = m
        /\ UNCHANGED <<mode, next_mode, proven, proving, locked, auger, igniter,
                       manual, retries, relights>>
     \/ mode = "Hold" /\ m = "Hold" /\ UNCHANGED grill
     \/ /\ mode \in Burning \cup {"Shutdown"}
        /\ {mode, m} # {"Hold"}
        /\ EnterMode(m, next_mode)
  /\ UNCHANGED <<recipe, ended>>

\* Hold and Smoke light an idle grill first; while it is being lit they are
\* where lighting leads.
ApplyBurning(m) ==
  /\ \/ mode \in Idle /\ EnterMode("Startup", m)
     \/ mode = "Startup" /\ LeadsTo(m)
     \/ /\ mode = "Reignite"
        /\ reignite_last' = m
        /\ UNCHANGED <<mode, next_mode, proven, proving, locked, auger, igniter,
                       manual, retries, relights>>
     \/ mode = "Hold" /\ m = "Hold" /\ UNCHANGED grill
     \/ mode \in Burning /\ {mode, m} # {"Hold"} /\ EnterMode(m, next_mode)
  /\ UNCHANGED <<recipe, ended>>

ApplyRequest ==
  /\ phase = "request"
  /\ phase' = "notify"
  /\ req' = NoRequest
  /\ \/ /\ req = NoRequest \/ Refused(req)
        /\ UNCHANGED <<grill, recipe, ended>>
     \/ /\ req # NoRequest /\ ~Refused(req)
        /\ \/ req = "Stop" /\ ApplyStop
           \/ req = "Shutdown" /\ ApplyShutdown
           \/ req = "Startup" /\ ApplyStartup
           \/ req \in Burning /\ ApplyBurning(req)
           \/ /\ req \in {"Monitor", "Manual", "Prime"}
              /\ EnterMode(req, next_mode)
              /\ UNCHANGED <<recipe, ended>>
  /\ UNCHANGED quiet

-----------------------------------------------------------------------------
(* Phase "notify": run_notify and what a probe target asks for.            *)

NotifyNothing ==
  /\ phase = "notify"
  /\ phase' = "recipe"
  /\ UNCHANGED <<grill, req, recipe, quiet, ended>>

NotifyShutdown ==
  /\ phase = "notify"
  /\ mode \in Firing
  /\ phase' = "recipe"
  /\ ApplyShutdown
  /\ UNCHANGED <<req, quiet>>

NotifyKeepWarm ==
  /\ phase = "notify"
  /\ mode = "Smoke"
  /\ phase' = "recipe"
  /\ EnterMode("Hold", next_mode)
  /\ UNCHANGED <<req, recipe, quiet, ended>>

-----------------------------------------------------------------------------
(* Phase "recipe": run_recipe.                                             *)

Current == recipe.steps[recipe.step]

\* The lid is latched the moment it is open.
LidSeen ==
  IF mode \in Burning /\ Current.ends = "lid" THEN {recipe.lid, TRUE}
                                              ELSE {recipe.lid}

\* The steps about the grill's own mode end with the mode.
ModeStepOver ==
  \/ Current.mode = "Startup" /\ mode \notin Lighting \cup {"Prime"}
  \/ Current.mode = "Shutdown" /\ mode = "Stop"
  \/ Current.mode = "Stop"

\* The tree, once its facts hold: what the cook must still do.
Answered(prompt, lid) ==
  /\ Current.ends = "prompt" => prompt
  /\ Current.ends = "lid" => lid

\* Over, unless the cook asked for a pause at its end.
StepOver(r) ==
  IF r.flags[r.step] = Pause THEN recipe' = r /\ UNCHANGED grill ELSE Advance(r)

RecipeError ==
  /\ phase = "recipe"
  /\ recipe.active
  /\ mode = "Error"
  /\ phase' = "safety"
  /\ recipe' = NoRecipe
  /\ UNCHANGED <<grill, req, quiet, ended>>

RecipeModeStep ==
  /\ phase = "recipe"
  /\ recipe.active
  /\ mode # "Error"
  /\ Current.mode \notin Burning
  /\ phase' = "safety"
  /\ IF ModeStepOver THEN StepOver(recipe) ELSE UNCHANGED <<grill, recipe>>
  /\ UNCHANGED <<req, quiet, ended>>

\* In the mode the step runs in, with an ending that asks for nothing.
RecipeSetting ==
  /\ phase = "recipe"
  /\ recipe.active
  /\ Current.mode \in Burning
  /\ mode = Current.mode
  /\ Current.ends = "empty"
  /\ phase' = "safety"
  /\ StepOver(recipe)
  /\ UNCHANGED <<req, quiet, ended>>

\* A step told to continue alone answers its own prompt.
Prompted == \/ recipe.prompt
            \/ /\ recipe.flags[recipe.step] = Unasked
               /\ Current.ends \in {"prompt", "lid"}

\* fault: a step told to continue alone asks the cook all the same.
RecipeReadyAsks ==
  /\ phase = "recipe"
  /\ recipe.active
  /\ Current.mode \in Burning
  /\ mode = Current.mode
  /\ Current.ends # "empty"
  /\ phase' = "safety"
  /\ \E lid \in LidSeen :
       LET r == [recipe EXCEPT !.lid = lid]
       IN  IF Answered(r.prompt, lid) THEN StepOver(r)
                                      ELSE recipe' = r /\ UNCHANGED grill
  /\ UNCHANGED <<req, quiet, ended>>

\* The facts of the tree hold: a lid is waited for, however the step continues.
RecipeReady ==
  /\ phase = "recipe"
  /\ recipe.active
  /\ Current.mode \in Burning
  /\ mode = Current.mode
  /\ Current.ends # "empty"
  /\ phase' = "safety"
  /\ \E lid \in LidSeen :
       LET r == [recipe EXCEPT !.lid = lid, !.prompt = Prompted]
       IN  IF Answered(r.prompt, lid) THEN StepOver(r)
                                      ELSE recipe' = r /\ UNCHANGED grill
  /\ UNCHANGED <<req, quiet, ended>>

\* No recipe, a step not in its mode yet, or facts that do not hold.
RecipeWaits ==
  /\ phase = "recipe"
  /\ recipe.active => /\ Current.mode \in Burning
                      /\ mode # "Error"
                      /\ mode = Current.mode => Current.ends # "empty"
  /\ phase' = "safety"
  /\ \/ ~recipe.active /\ UNCHANGED recipe
     \/ /\ recipe.active
        /\ \E lid \in LidSeen : recipe' = [recipe EXCEPT !.lid = lid]
  /\ UNCHANGED <<grill, req, quiet, ended>>

-----------------------------------------------------------------------------
(* Phase "safety": pf_safety_tick and the mode it asks for.                *)

\* Overheat in any mode but Stop and Error; a dead probe while cooking; a
\* light that failed; a fire that did not take; a flame lost with no relight
\* left.  Each is an error, and enter_mode switches everything off.
SafetyError ==
  /\ phase = "safety"
  /\ mode \notin {"Stop", "Error"}
  /\ phase' = "run"
  /\ EnterMode("Error", next_mode)
  /\ UNCHANGED <<req, recipe, quiet, ended>>

Relight ==
  /\ phase = "safety"
  /\ mode \in Burning
  /\ RelightEnabled
  /\ retries > 0
  /\ phase' = "run"
  /\ retries' = retries - 1
  /\ relights' = relights + 1
  /\ reignite_last' = mode
  /\ Enter("Reignite", next_mode)
  /\ UNCHANGED <<req, recipe, quiet, ended>>

\* The igniter's cap: it may trip on an igniter that is on, and stays tripped.
SafetyCap == IF igniter THEN {locked, TRUE} ELSE {locked}

\* The pit cannot be read: the cap is all that is judged.
SafetyBlind ==
  /\ phase = "safety"
  /\ mode \in Firing
  /\ phase' = "run"
  /\ locked' \in SafetyCap
  /\ igniter' = (igniter /\ ~locked')
  /\ UNCHANGED <<mode, next_mode, proven, proving, auger, manual, fire, req,
                 recipe, quiet, ended>>

\* Nothing to report while it is lit: ignition may be proven.
SafetyLighting ==
  /\ phase = "safety"
  /\ mode \in Lighting
  /\ phase' = "run"
  /\ locked' \in SafetyCap
  /\ igniter' = (igniter /\ ~locked')
  /\ proven' \in {proven, TRUE}
  /\ UNCHANGED <<mode, next_mode, proving, auger, manual, fire, req, recipe,
                 quiet, ended>>

\* Nor while it burns: at the end of a coast the igniter proves the fire, for
\* as long as the proving lasts and the cap allows.
SafetyBurning ==
  /\ phase = "safety"
  /\ mode \in Burning
  /\ phase' = "run"
  /\ locked' \in SafetyCap
  /\ proving' \in IF locked' THEN {FALSE} ELSE BOOLEAN
  /\ igniter' = (proving' \/ (igniter /\ ~locked' /\ ~proving))
  /\ UNCHANGED <<mode, next_mode, proven, auger, manual, fire, req, recipe,
                 quiet, ended>>

SafetyIdle ==
  /\ phase = "safety"
  /\ mode \notin Firing
  /\ phase' = "run"
  /\ locked' \in SafetyCap
  /\ igniter' = (igniter /\ ~locked')
  /\ proving' = FALSE
  /\ UNCHANGED <<mode, next_mode, proven, auger, manual, fire, req, recipe,
                 quiet, ended>>

-----------------------------------------------------------------------------
(* Phase "run": run_mode.                                                  *)

\* Overrides run out everywhere but in Manual and Monitor.
StillManual ==
  IF mode \in {"Manual", "Monitor"} THEN {manual} ELSE SUBSET manual

\* The feed follows its cycle in the modes that feed, an override while one
\* lasts, and is off elsewhere; the rest after a cap switches it off, and the
\* cap ends the override too.
RunOutputs ==
  \E kept \in StillManual :
    \/ /\ auger' = (auger /\ ("auger" \in kept \/ mode = "Manual"))
       /\ manual' = kept
    \/ /\ mode \in Firing \cup {"Prime"}
       /\ "auger" \notin kept
       /\ auger' = TRUE
       /\ manual' = kept
    \/ /\ auger
       /\ auger' = FALSE
       /\ manual' \in {kept, kept \ {"auger"}}

RunStays ==
  /\ phase = "run"
  /\ phase' = "input"
  /\ RunOutputs
  /\ UNCHANGED <<mode, next_mode, proven, proving, locked, igniter, fire, req,
                 recipe, quiet, ended>>

Destination == IF mode = "Reignite" THEN reignite_last ELSE next_mode

StartupDone ==
  /\ phase = "run"
  /\ mode \in Lighting
  /\ proven
  /\ phase' = "input"
  /\ EnterMode(IF Destination \in Burning THEN Destination ELSE "Smoke",
               next_mode)
  /\ UNCHANGED <<req, recipe, quiet, ended>>

ShutdownDone ==
  /\ phase = "run"
  /\ mode = "Shutdown"
  /\ phase' = "input"
  /\ EnterMode("Stop", next_mode)
  /\ UNCHANGED <<req, recipe, quiet, ended>>

PrimeDone ==
  /\ phase = "run"
  /\ mode = "Prime"
  /\ phase' = "input"
  /\ IF next_mode = "Startup" THEN EnterMode("Startup", AfterStartupMode)
                              ELSE EnterMode("Stop", next_mode)
  /\ UNCHANGED <<req, recipe, quiet, ended>>

-----------------------------------------------------------------------------
(* Phase "input": the shutdown switch.                                     *)

InputClear ==
  /\ phase = "input"
  /\ phase' = "cmd"
  /\ UNCHANGED <<grill, req, recipe, quiet, ended>>

InputAsserted ==
  /\ phase = "input"
  /\ HasShutdownInput
  /\ mode # "Stop"
  /\ phase' = "cmd"
  /\ EnterMode(IF mode \in Burning THEN "Shutdown" ELSE "Stop", next_mode)
  /\ ended' = "switch"
  /\ UNCHANGED <<req, recipe, quiet>>

\* From some moment on nobody sends anything.
FallQuiet ==
  /\ ~quiet
  /\ quiet' = TRUE
  /\ UNCHANGED <<phase, grill, req, recipe, ended>>

-----------------------------------------------------------------------------
Notify == NotifyNothing \/ NotifyShutdown \/ NotifyKeepWarm
RunRecipe == \/ RecipeError \/ RecipeModeStep \/ RecipeSetting \/ RecipeReady
             \/ RecipeWaits
Safety == \/ SafetyError \/ Relight \/ SafetyBlind \/ SafetyLighting
          \/ SafetyBurning \/ SafetyIdle
RunMode == RunStays \/ StartupDone \/ ShutdownDone \/ PrimeDone
Inputs == InputClear \/ InputAsserted

Tick == QueueEmpty \/ ApplyRequest \/ Notify \/ RunRecipe \/ Safety \/ RunMode
          \/ Inputs

Next == HandleCommand \/ Tick \/ FallQuiet

\* What a daemon that has booted may find itself in: stopped, cooling down a
\* hot pit, lighting or relighting a cook it recovered, or in the error that refused to.
Init ==
  /\ phase = "cmd"
  /\ \/ /\ mode \in {"Stop", "Shutdown", "Error"}
        /\ reignite_last = "Stop"
        /\ auger = FALSE
        /\ igniter = FALSE
        /\ next_mode = "Stop"
        /\ retries = Retries
     \/ /\ mode = "Startup"
        /\ reignite_last = "Stop"
        /\ auger = TRUE
        /\ igniter = TRUE
        /\ next_mode \in Burning
        /\ retries = Retries
     \/ /\ mode = "Reignite"
        /\ reignite_last \in Burning
        /\ auger = TRUE
        /\ igniter = TRUE
        /\ next_mode = "Stop"
        /\ retries \in 0 .. Retries
  /\ proven = FALSE
  /\ proving = FALSE
  /\ locked = FALSE
  /\ manual = {}
  /\ req = NoRequest
  /\ recipe = NoRecipe
  /\ quiet = FALSE
  /\ relights = Retries - retries
  /\ ended = "no"

Spec == Init /\ [][Next]_vars

(***************************************************************************)
(* The thread ticks for ever.  Every wait of the grill's own has a time:   *)
(* lighting ends lit or in error, the cool-down within three times its     *)
(* length, a prime with its feed.  That the facts a step waits for come    *)
(* true (a clock runs out, the food gets there) is taken for granted.      *)
(***************************************************************************)
LightingEnds == mode \in Lighting /\ (SafetyError \/ StartupDone)

FairSpec ==
  /\ Spec
  /\ WF_vars(Tick)
  /\ SF_vars(LightingEnds)
  /\ SF_vars(ShutdownDone)
  /\ SF_vars(PrimeDone)
  /\ SF_vars(RecipeReady)

-----------------------------------------------------------------------------
(* Properties.                                                             *)

Run == [active : BOOLEAN, steps : Recipes \cup {<<>>}, last : 0 .. MaxSteps,
        step : StepNo, flags : [StepNo -> Flag], prompt : BOOLEAN, lid : BOOLEAN]

GrillTypes ==
  /\ mode \in Mode
  /\ next_mode \in {"Stop", "Startup"} \cup Burning
  /\ reignite_last \in {"Stop"} \cup Burning
  /\ retries \in Nat /\ relights \in Nat
  /\ proven \in BOOLEAN /\ proving \in BOOLEAN /\ locked \in BOOLEAN
  /\ auger \in BOOLEAN /\ igniter \in BOOLEAN
  /\ manual \subseteq Output

\* Each variable's values; the recipe's are those a run of it can have.
TypeOK ==
  /\ phase \in Phase
  /\ GrillTypes
  /\ req \in {NoRequest} \cup Mode
  /\ recipe \in Run
  /\ quiet \in BOOLEAN
  /\ ended \in {"no", "stop", "finish", "switch"}

\* An error keeps the feed and the igniter off, through every command that can
\* arrive, an override allowed in any mode included (control.c:642).
ErrorIsDark == mode = "Error" => (~auger /\ ~igniter)

\* The grill burns under control only after a light that was proven, or on the
\* cook's own word: an idle grill asked to Hold or Smoke goes through Startup
\* (control.c:551-555, run_mode's exit from Startup).
LitBeforeFed ==
  [][mode \notin Burning /\ mode' \in Burning
       => mode \in Lighting /\ (proven \/ phase = "cmd")]_vars

\* Only Stop leads out of Error (docs/safety.md: "Error is sticky"), as long as
\* nobody steps a recipe by hand: Skip and Back look at recipe.active alone,
\* which run_recipe has not cleared yet in the tick after the error.
ErrorIsSticky == [][mode = "Error" => mode' \in {"Error", "Stop"}]_vars

\* What of it the supervisor knows
Pot ==
  CASE mode \in Idle        -> "out"
    [] mode = "Startup"     -> "lighting"
    [] mode = "Reignite"    -> "relighting"
    [] mode \in Burning     -> "burning"
    [] mode = "Error"       -> "error"

Known == mode \in Lighting /\ proven

Promise == INSTANCE Supervisor
  WITH pot <- Pot, known <- Known, left <- retries, hearing <- (phase = "cmd")

\* Every command, request, override and verdict does to the pot what the
\* supervisor may: proven before fed, relit only from burning and out of its
\* retries, put out before anything else after an error, as long as nobody
\* steps a recipe by hand (control.c:525-589, 604, 2520-2532, safety.c:145-159).
ImplementsSupervisor == Promise!Spec

\* A cook is relit no more often than safety.reigniteretries says: each relight
\* spends one of a record that only a first light fills again (safety.c:145-159).
RelightBudget == relights + retries <= Retries

\* Once its cap has tripped the igniter stays off for the rest of the mode,
\* through an override and the proving at the end of a coast (safety.c:176-190).
LockHoldsIgniter == (locked /\ phase \in {"run", "input"}) => ~igniter

\* A running recipe stands on a step it has, whatever the cook skips, goes back
\* over, marks or finishes early (recipe_begin_step indexes r.steps with it).
StepInRange ==
  recipe.active => /\ recipe.step \in 1 .. recipe.last
                   /\ recipe.last <= Len(recipe.steps)

\* After a Stop, by command or by request, nothing the grill still had in hand
\* (a recipe, a request, a destination) lights it again (control.c:598-603, 537-544).
StopIsFinal == ended = "stop" => mode \notin Firing

\* After a Finish, the user's or a probe's, the recipe carries nothing on behind
\* the Shutdown (recipe_finish_now, control.c:1057-1076).
FinishIsFinal == ended = "finish" => mode \notin Firing

\* The grill does not burn in the mode of the recipe's step.
Astray == mode \in Burning /\ Current.mode \in Burning /\ mode # Current.mode

\* The step is the cook's to end: paused, a prompt not told to
\* answer itself, or a lid to come.
ForTheCook ==
  \/ recipe.flags[recipe.step] = Pause
  \/ /\ Current.ends = "prompt" /\ ~recipe.prompt
     /\ recipe.flags[recipe.step] # Unasked
  \/ Current.ends = "lid" /\ ~recipe.lid

\* A recipe nobody interferes with goes on until it is over, waits for the cook
\* or finds the grill taken to another mode: flame-outs, relights, errors and a
\* probe's Finish do not leave it standing (run_recipe, control.c:1111-1204).
RecipeGoesOn ==
  (recipe.active /\ quiet) ~> (recipe.active => ForTheCook \/ Astray)

\* "Stop means stop, however it arrived: a recipe left running would read the
\* Stop as its step ending and light the grill again" (control.c:540-541).
StopMeansStop == ended \in {"stop", "switch"} => mode \notin Firing
=============================================================================
