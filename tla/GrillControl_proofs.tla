------------------------ MODULE GrillControl_proofs ------------------------
(***************************************************************************)
(* What the tick guarantees for every set of recipes and commands.         *)
(***************************************************************************)
EXTENDS GrillControl, TLAPS

Destinations == {"Stop", "Startup"} \cup Burning

GrillInv == GrillTypes /\ ErrorIsDark /\ RelightBudget

\* A request does not outlive the phase that applies it.
RequestSpent == phase \notin {"cmd", "request"} => req = NoRequest

\* Put out by a Stop or a Finish, the grill has nothing in hand that lights it:
\* no request, and no recipe but one on the Shutdown that is its last step.
Quenched ==
  ended \in {"stop", "finish"} =>
    /\ mode \notin Firing \cup {"Prime"}
    /\ req \notin {"Startup", "Smoke", "Hold", "Prime"}
    /\ recipe.active => /\ ended = "finish"
                        /\ recipe.step = recipe.last
                        /\ Current.mode = "Shutdown"

IInv ==
  /\ TypeOK
  /\ ErrorIsDark
  /\ RelightBudget
  /\ StepInRange
  /\ LockHoldsIgniter
  /\ RequestSpent
  /\ Quenched

-----------------------------------------------------------------------------
(* What the helpers do to the grill.                                       *)

\* The booleans enter_mode leaves behind.
LEMMA EnterBooleans ==
  ASSUME NEW m \in Mode, NEW nm \in Destinations, GrillTypes, Enter(m, nm)
  PROVE  /\ proven' \in BOOLEAN /\ proving' \in BOOLEAN /\ locked' \in BOOLEAN
         /\ auger' \in BOOLEAN /\ igniter' \in BOOLEAN
<1>1. locked' \in BOOLEAN
  BY Zenon DEF Enter
<1>2. proven' \in BOOLEAN
  BY Zenon DEF Enter
<1>3. proving' \in BOOLEAN
  BY Zenon DEF Enter
<1>4. auger' \in BOOLEAN
  <2>1. auger' = TRUE \/ auger' = FALSE
    BY DEF Enter
  <2> QED
    BY <2>1, Zenon
<1>5. igniter' \in BOOLEAN
  BY Zenon DEF Enter
<1> QED
  BY <1>1, <1>2, <1>3, <1>4, <1>5

\* Entering a mode leaves the grill well formed, dark in Error and unlocked.
LEMMA EnterKeeps ==
  ASSUME NEW m \in Mode, NEW nm \in Destinations, GrillInv, EnterMode(m, nm)
  PROVE  GrillInv' /\ mode' = m /\ locked' = FALSE
<1>1. Enter(m, nm)
  BY DEF EnterMode
<1>2. /\ proven' \in BOOLEAN /\ proving' \in BOOLEAN /\ locked' \in BOOLEAN
      /\ auger' \in BOOLEAN /\ igniter' \in BOOLEAN
  BY <1>1, EnterBooleans DEF GrillInv
<1>3. mode' = m /\ next_mode' \in Destinations /\ manual' = {} /\ locked' = FALSE
  BY <1>1 DEF Enter, Destinations
<1>4. /\ reignite_last' \in {"Stop"} \cup Burning
      /\ retries' \in Nat /\ relights' \in Nat
      /\ relights' + retries' <= Retries
  BY ConfigAssumption DEF EnterMode, GrillInv, GrillTypes, RelightBudget, fire
<1>5. m = "Error" => (~auger' /\ ~igniter')
  BY <1>1 DEF Enter, Firing, Lighting, Burning
<1> QED
  BY <1>2, <1>3, <1>4, <1>5
  DEF GrillInv, GrillTypes, ErrorIsDark, RelightBudget, Destinations

\* So does a change of where startup leads.
LEMMA LeadsKeeps ==
  ASSUME NEW nm \in Destinations, GrillInv, LeadsTo(nm)
  PROVE  GrillInv' /\ mode' = mode
  BY DEF LeadsTo, fire, GrillInv, GrillTypes, ErrorIsDark, RelightBudget,
         Destinations

\* And leaving it as it is.
LEMMA SameKeeps ==
  ASSUME GrillInv, UNCHANGED grill
  PROVE  GrillInv' /\ mode' = mode
  BY DEF grill, fire, GrillInv, GrillTypes, ErrorIsDark, RelightBudget

\* A step of a recipe is begun in a mode the grill has.
LEMMA ApplyKeeps ==
  ASSUME NEW r, NEW k, GrillInv, ApplyStep(r, k)
  PROVE  /\ GrillInv'
         /\ r.steps[k].mode = "Shutdown" => mode' = "Shutdown"
<1> DEFINE m == r.steps[k].mode
<1>1. AfterStep(r, k) \in Destinations /\ next_mode \in Destinations
  BY DEF AfterStep, Destinations, Burning, GrillInv, GrillTypes
<1>2. Firing \subseteq Mode /\ Burning \subseteq Destinations
  BY DEF Firing, Lighting, Burning, Mode, Destinations
<1>3. CASE m = "Startup"
  <2>1. \/ LeadsTo(AfterStep(r, k))
        \/ EnterMode("Startup", AfterStep(r, k))
    BY <1>3 DEF ApplyStep, Burning
  <2>2. "Startup" \in Mode
    BY DEF Mode
  <2> QED
    BY <1>1, <1>3, <2>1, <2>2, LeadsKeeps, EnterKeeps
<1>4. CASE m \in Burning
  <2>1. \/ EnterMode("Startup", m)
        \/ LeadsTo(m)
        \/ UNCHANGED grill
        \/ EnterMode(m, next_mode)
    BY <1>4 DEF ApplyStep, Burning
  <2>2. "Startup" \in Mode /\ m \in Mode /\ m \in Destinations /\ m # "Shutdown"
    BY <1>2, <1>4 DEF Mode, Burning, Destinations
  <2> QED
    BY <1>1, <2>1, <2>2, LeadsKeeps, EnterKeeps, SameKeeps
<1>5. CASE m \in {"Shutdown", "Stop"}
  <2>1. EnterMode(m, next_mode) /\ m \in Mode
    BY <1>5 DEF ApplyStep, Burning, Mode
  <2> QED
    BY <1>1, <2>1, EnterKeeps
<1> QED
  BY <1>3, <1>4, <1>5 DEF ApplyStep

\* A run on a step it has.
Standing(r) ==
  r \in Run /\ r.active /\ r.step \in 1 .. r.last /\ r.last <= Len(r.steps)

RecipeOK == recipe \in Run /\ StepInRange

LEMMA NoRecipeOK == NoRecipe \in Run /\ ~NoRecipe.active
<1>1. [i \in StepNo |-> None] \in [StepNo -> Flag]
  BY DEF Flag
<1>2. 1 \in StepNo /\ 0 \in 0 .. MaxSteps
  BY ConfigAssumption DEF StepNo
<1>3. FALSE \in BOOLEAN
  OBVIOUS
<1> QED
  BY <1>1, <1>2, <1>3 DEF NoRecipe, Run

\* Beginning at a step of the run, or just past it, leaves the grill well
\* formed and either no recipe or one that stands on a step it has.
LEMMA BeginKeeps ==
  ASSUME NEW r, NEW i \in Nat \ {0}, GrillInv, r \in Run, r.active,
         r.last <= Len(r.steps), BeginStep(r, i)
  PROVE  GrillInv' /\ RecipeOK'
<1>1. CASE recipe' = NoRecipe /\ UNCHANGED grill
  BY <1>1, NoRecipeOK, SameKeeps DEF RecipeOK, StepInRange
<1>2. ASSUME NEW k \in i .. r.last,
             recipe' = [r EXCEPT !.step = k, !.prompt = FALSE, !.lid = FALSE,
               !.flags = [j \in StepNo |-> IF j \in i .. k - 1 THEN None ELSE @[j]]],
             ApplyStep(r, k)
      PROVE  GrillInv' /\ RecipeOK'
  <2> DEFINE f == [j \in StepNo |-> IF j \in i .. k - 1 THEN None ELSE r.flags[j]]
  <2>1. GrillInv'
    BY <1>2, ApplyKeeps
  <2>2. f \in [StepNo -> Flag]
    BY DEF Run, Flag
  <2>3. k \in StepNo /\ k \in 1 .. r.last /\ r.last \in 0 .. MaxSteps
    BY ConfigAssumption DEF Run, StepNo
  <2>4. recipe' = [r EXCEPT !.step = k, !.prompt = FALSE, !.lid = FALSE, !.flags = f]
    BY <1>2
  <2>5. FALSE \in BOOLEAN
    OBVIOUS
  <2>6. recipe' \in Run
    BY <2>2, <2>3, <2>4, <2>5 DEF Run
  <2>7. /\ recipe'.step = k /\ recipe'.last = r.last /\ recipe'.steps = r.steps
    BY <2>4 DEF Run
  <2> QED
    BY <2>1, <2>3, <2>6, <2>7 DEF RecipeOK, StepInRange
<1> QED
  BY <1>1, <1>2 DEF BeginStep

\* The end of a run's last step is the end of the run.
LEMMA PastTheLast ==
  ASSUME NEW r, r \in Run, r.step = r.last, Advance(r)
  PROVE  recipe' = NoRecipe /\ UNCHANGED grill
<1>1. ~ \E k \in r.step + 1 .. r.last : TRUE
  BY ConfigAssumption DEF Run, StepNo
<1> QED
  BY <1>1 DEF Advance, BeginStep

\* A run picked up from the file.
LEMMA LoadedOK ==
  ASSUME NEW f \in Recipes
  PROVE  Loaded(f) \in Run /\ Loaded(f).active /\ Loaded(f).last <= Len(Loaded(f).steps)
<1>1. Len(f) \in 0 .. MaxSteps
  BY ConfigAssumption DEF StepNo
<1>2. TRUE \in BOOLEAN
  OBVIOUS
<1>3. Loaded(f) = [NoRecipe EXCEPT !.active = TRUE, !.steps = f, !.last = Len(f)]
  BY DEF Loaded
<1>4. NoRecipe \in Run
  BY NoRecipeOK
<1>5. Loaded(f) \in Run
  BY <1>1, <1>2, <1>3, <1>4 DEF Run
<1> QED
  BY <1>1, <1>3, <1>4, <1>5 DEF Run

\* A Finish shuts the grill down, and the recipe with it or after it.
LEMMA FinishKeeps ==
  ASSUME NEW r, GrillInv, Standing(r), Finish(r)
  PROVE  /\ GrillInv' /\ RecipeOK' /\ mode' = "Shutdown"
         /\ recipe'.active => /\ recipe'.step = recipe'.last
                              /\ recipe'.steps[recipe'.step].mode = "Shutdown"
<1> DEFINE ahead == {k \in r.step .. r.last : r.steps[k].mode = "Shutdown"}
<1>1. CASE recipe' = NoRecipe /\ EnterMode("Shutdown", next_mode)
  <2>1. "Shutdown" \in Mode /\ next_mode \in Destinations
    BY DEF Mode, Destinations, GrillInv, GrillTypes
  <2> QED
    BY <1>1, <2>1, EnterKeeps, NoRecipeOK DEF RecipeOK, StepInRange
<1>2. ASSUME NEW fin \in ahead,
             BeginStep([r EXCEPT !.last = fin, !.flags[fin] = None], fin)
      PROVE  /\ GrillInv' /\ RecipeOK' /\ mode' = "Shutdown"
             /\ recipe'.step = recipe'.last
             /\ recipe'.steps[recipe'.step].mode = "Shutdown"
  <2> DEFINE q == [r EXCEPT !.last = fin, !.flags[fin] = None]
  <2>1. /\ fin \in r.step .. r.last /\ r.steps[fin].mode = "Shutdown"
        /\ r.step \in Nat \ {0} /\ r.last \in 0 .. MaxSteps
        /\ fin \in StepNo /\ fin \in 0 .. MaxSteps /\ fin \in Nat \ {0}
    BY ConfigAssumption DEF Standing, Run, StepNo
  <2>2. q \in Run
    BY <2>1 DEF Standing, Run, Flag
  <2>3. /\ q.active /\ q.last = fin /\ q.steps = r.steps /\ q.flags[fin] = None
        /\ q.last <= Len(q.steps)
    BY <2>1 DEF Standing, Run
  <2>4. GrillInv' /\ RecipeOK'
    BY <1>2, <2>1, <2>2, <2>3, BeginKeeps
  <2>5. ~ \A k \in fin .. q.last : q.flags[k] = Skip
    BY <2>1, <2>3 DEF None, Skip
  <2>6. PICK k \in fin .. q.last :
          /\ recipe' = [q EXCEPT !.step = k, !.prompt = FALSE, !.lid = FALSE,
               !.flags = [j \in StepNo |-> IF j \in fin .. k - 1 THEN None ELSE @[j]]]
          /\ ApplyStep(q, k)
    <3> HIDE DEF q
    <3>1. BeginStep(q, fin)
      BY <1>2 DEF q
    <3> QED
      BY <2>5, <3>1, Zenon DEF BeginStep
  <2>7. k = fin
    BY <2>1, <2>3, <2>6
  <2>8. mode' = "Shutdown"
    BY <2>1, <2>3, <2>6, <2>7, ApplyKeeps
  <2>9. recipe'.step = fin /\ recipe'.last = fin /\ recipe'.steps = r.steps
    BY <2>2, <2>3, <2>6, <2>7 DEF Run
  <2> QED
    BY <2>1, <2>4, <2>8, <2>9
<1> QED
  BY <1>1, <1>2, NoRecipeOK DEF Finish

-----------------------------------------------------------------------------
(* Every step keeps the invariant, one lemma per phase of the tick.        *)

LEMMA Facts ==
  ASSUME IInv
  PROVE  /\ GrillInv /\ RecipeOK
         /\ next_mode \in Destinations
         /\ recipe.active => Standing(recipe)
         /\ Mode \cap Destinations = Destinations
         /\ Burning \subseteq Destinations
BY DEF IInv, TypeOK, GrillInv, GrillTypes, RecipeOK, StepInRange, Standing,
       Destinations, Mode, Burning, Run

LEMMA CommandKeeps ==
  ASSUME IInv, HandleCommand
  PROVE  IInv'
<1> USE Facts
<1>1. SUFFICES ASSUME phase = "cmd"
               PROVE  /\ UNCHANGED <<phase, quiet>>
                      /\ GrillInv' /\ RecipeOK' /\ Quenched'
                      /\ req' \in {NoRequest} \cup Mode
                      /\ ended' \in {"no", "stop", "finish", "switch"}
  BY DEF IInv, TypeOK, GrillInv, RecipeOK, LockHoldsIgniter, RequestSpent,
         HandleCommand, HandleStop, HandleForce, HandleMode, HandleSetPoint,
         HandleManual, HandlePrime, HandleClearError, HandleRecipeStart,
         HandleRecipeNext, HandleRecipeSkip, HandleRecipeBack,
         HandleRecipeFlag, HandleRecipeStop, Got
<1>2. "Stop" \in Mode /\ "Prime" \in Mode /\ "Hold" \in Mode
  BY DEF Mode
<1>3. CASE HandleStop
  <2>1. GrillInv' /\ mode' = "Stop"
    BY <1>2, <1>3, EnterKeeps DEF HandleStop
  <2>2. RecipeOK' /\ ~recipe'.active
    BY <1>3, NoRecipeOK DEF HandleStop, RecipeOK, StepInRange
  <2> QED
    BY <1>3, <2>1, <2>2
    DEF HandleStop, Quenched, NoRequest, Firing, Lighting, Burning
<1>4. CASE HandleForce
  <2>1. PICK c \in Got("mode") : /\ Forces(c) /\ EnterMode(c.mode, next_mode)
                                 /\ ended' = "no"
                                 /\ UNCHANGED <<phase, req, recipe, quiet>>
    BY <1>4 DEF HandleForce
  <2>2. c.mode \in Mode
    BY <2>1 DEF Forces, Burning, Mode
  <2>3. GrillInv'
    BY <2>1, <2>2, EnterKeeps
  <2> QED
    BY <2>1, <2>3 DEF Quenched, RecipeOK, StepInRange, IInv, TypeOK
<1>5. CASE HandleMode
  <2>1. PICK c \in Got("mode") :
          /\ req' = c.mode
          /\ ended' = IF c.mode \in {"Startup", "Smoke", "Hold", "Prime"}
                        THEN "no" ELSE ended
          /\ UNCHANGED <<phase, grill, recipe, quiet>>
    BY <1>5 DEF HandleMode
  <2>2. c.mode \in Mode
    <3>1. c \in AllCommands /\ c.type = "mode"
      BY <1>1, <2>1, ConfigAssumption DEF Got
    <3> QED
      BY <3>1 DEF AllCommands
  <2>3. GrillInv' /\ mode' = mode
    BY <2>1, SameKeeps
  <2> QED
    BY <2>1, <2>2, <2>3
    DEF Quenched, Current, RecipeOK, StepInRange, IInv, TypeOK
<1>6. CASE HandleSetPoint
  <2>1. GrillInv' /\ mode' = mode
    BY <1>6 DEF HandleSetPoint, GrillInv, GrillTypes, ErrorIsDark,
                RelightBudget, Burning
  <2>2. req' \in {NoRequest} \cup Mode
    BY <1>2, <1>6 DEF HandleSetPoint, IInv, TypeOK
  <2> QED
    BY <1>6, <2>1, <2>2
    DEF HandleSetPoint, Quenched, Current, RecipeOK, StepInRange, IInv, TypeOK,
        Firing, Burning
<1>7. CASE HandleManual
  <2>1. PICK c \in Got("manual") :
          /\ mode # "Error"
          /\ manual' = manual \cup {c.out}
          /\ auger' = IF c.out = "auger" THEN c.on ELSE auger
          /\ igniter' = IF c.out = "igniter" THEN c.on ELSE igniter
          /\ UNCHANGED <<phase, mode, next_mode, proven, proving, locked, fire,
                         req, recipe, quiet, ended>>
    BY <1>7 DEF HandleManual
  <2>2. c.out \in Output /\ c.on \in BOOLEAN
    <3>1. c \in AllCommands /\ c.type = "manual"
      BY <1>1, <2>1, ConfigAssumption DEF Got
    <3> QED
      BY <3>1 DEF AllCommands
  <2>3. auger' \in BOOLEAN /\ igniter' \in BOOLEAN /\ manual' \subseteq Output
    BY <2>1, <2>2 DEF GrillInv, GrillTypes
  <2>4. GrillInv' /\ mode' = mode
    BY <2>1, <2>3 DEF GrillInv, GrillTypes, ErrorIsDark, RelightBudget, fire
  <2> QED
    BY <2>1, <2>4
    DEF Quenched, Current, RecipeOK, StepInRange, IInv, TypeOK
<1>8. CASE HandlePrime
  <2>1. PICK c \in Got("prime") :
          /\ EnterMode("Prime", c.next) \/ LeadsTo(c.next)
          /\ ended' = "no"
          /\ UNCHANGED <<phase, req, recipe, quiet>>
    BY <1>8 DEF HandlePrime
  <2>2. c.next \in Destinations
    <3>1. c \in AllCommands /\ c.type = "prime"
      BY <1>1, <2>1, ConfigAssumption DEF Got
    <3> QED
      BY <3>1 DEF AllCommands, Destinations
  <2>3. GrillInv'
    BY <1>2, <2>1, <2>2, EnterKeeps, LeadsKeeps
  <2> QED
    BY <2>1, <2>3 DEF Quenched, RecipeOK, StepInRange, IInv, TypeOK
<1>9. CASE HandleClearError
  <2>1. GrillInv'
    BY <1>2, <1>9, EnterKeeps DEF HandleClearError
  <2> QED
    BY <1>9, <2>1
    DEF HandleClearError, Quenched, RecipeOK, StepInRange, IInv, TypeOK
<1>10. CASE HandleRecipeStart
  <2>1. PICK c \in Got("recipe_start") :
          /\ BeginStep(Loaded(c.recipe), 1)
          /\ ended' = "no"
          /\ UNCHANGED <<phase, req, quiet>>
    BY <1>10 DEF HandleRecipeStart
  <2>2. c.recipe \in Recipes
    <3>1. c \in AllCommands /\ c.type = "recipe_start"
      BY <1>1, <2>1, ConfigAssumption DEF Got
    <3> QED
      BY <3>1 DEF AllCommands
  <2>3. GrillInv' /\ RecipeOK'
    BY <2>1, <2>2, LoadedOK, BeginKeeps
  <2> QED
    BY <2>1, <2>3 DEF Quenched, IInv, TypeOK
<1>11. CASE HandleRecipeNext
  <2> DEFINE n == IF recipe.flags[recipe.step] = Pause THEN None
                                                       ELSE recipe.flags[recipe.step]
  <2>1. /\ recipe' = [recipe EXCEPT !.prompt = TRUE, !.flags[recipe.step] = n]
        /\ recipe.active
        /\ UNCHANGED <<phase, grill, req, quiet, ended>>
    BY <1>11 DEF HandleRecipeNext
  <2>2. TRUE \in BOOLEAN /\ n \in Flag
    BY DEF Flag, RecipeOK, Run
  <2>3. recipe' \in Run /\ recipe'.active /\ recipe'.step = recipe.step
        /\ recipe'.last = recipe.last /\ recipe'.steps = recipe.steps
    BY <2>1, <2>2 DEF RecipeOK, Run
  <2>4. GrillInv' /\ mode' = mode
    BY <2>1, SameKeeps
  <2> QED
    BY <2>1, <2>3, <2>4
    DEF Quenched, Current, RecipeOK, StepInRange, IInv, TypeOK
<1>12. CASE HandleRecipeSkip
  <2>1. GrillInv' /\ RecipeOK'
    BY <1>12, BeginKeeps, ConfigAssumption
    DEF HandleRecipeSkip, Advance, Standing, Run, StepNo
  <2> QED
    BY <1>12, <2>1 DEF HandleRecipeSkip, Quenched, IInv, TypeOK
<1>13. CASE HandleRecipeBack
  <2>1. GrillInv' /\ RecipeOK'
    BY <1>13, BeginKeeps, ConfigAssumption
    DEF HandleRecipeBack, Standing, Run, StepNo
  <2> QED
    BY <1>13, <2>1 DEF HandleRecipeBack, Quenched, IInv, TypeOK
<1>14. CASE HandleRecipeFlag
  <2>1. PICK c \in Got("recipe_flag") :
          /\ recipe' = [recipe EXCEPT !.flags[c.step] = c.flag]
          /\ UNCHANGED <<phase, grill, req, quiet, ended>>
    BY <1>14 DEF HandleRecipeFlag
  <2>2. c.flag \in Flag
    <3>1. c \in AllCommands /\ c.type = "recipe_flag"
      BY <1>1, <2>1, ConfigAssumption DEF Got
    <3> QED
      BY <3>1 DEF AllCommands
  <2>3. recipe' \in Run /\ recipe'.active = recipe.active
        /\ recipe'.step = recipe.step
        /\ recipe'.last = recipe.last /\ recipe'.steps = recipe.steps
    BY <2>1, <2>2 DEF RecipeOK, Run
  <2>4. GrillInv' /\ mode' = mode
    BY <2>1, SameKeeps
  <2> QED
    BY <2>1, <2>3, <2>4
    DEF Quenched, Current, RecipeOK, StepInRange, IInv, TypeOK
<1>15. CASE HandleRecipeStop
  <2>1. GrillInv' /\ mode' = mode
    BY <1>15, SameKeeps DEF HandleRecipeStop
  <2> QED
    BY <1>15, <2>1, NoRecipeOK
    DEF HandleRecipeStop, Quenched, RecipeOK, StepInRange, IInv, TypeOK
<1> QED
  BY <1>3, <1>4, <1>5, <1>6, <1>7, <1>8, <1>9, <1>10, <1>11, <1>12, <1>13,
     <1>14, <1>15 DEF HandleCommand

\* Ended as a Stop or a Finish leaves it.
LEMMA ShutdownKeeps ==
  ASSUME IInv, ApplyShutdown
  PROVE  /\ GrillInv' /\ RecipeOK' /\ mode' = "Shutdown" /\ ended' = "finish"
         /\ recipe'.active => /\ recipe'.step = recipe'.last
                              /\ recipe'.steps[recipe'.step].mode = "Shutdown"
<1> USE Facts
<1>1. CASE recipe.active
  BY <1>1, FinishKeeps DEF ApplyShutdown
<1>2. CASE ~recipe.active
  <2>1. "Shutdown" \in Mode
    BY DEF Mode
  <2>2. GrillInv' /\ mode' = "Shutdown"
    BY <1>2, <2>1, EnterKeeps DEF ApplyShutdown
  <2> QED
    BY <1>2, <2>2 DEF ApplyShutdown, RecipeOK, StepInRange
<1> QED
  BY <1>1, <1>2

LEMMA RequestKeeps ==
  ASSUME IInv, ApplyRequest
  PROVE  IInv'
<1> USE Facts
<1>1. SUFFICES ASSUME phase = "request", phase' = "notify", req' = NoRequest,
                      UNCHANGED quiet
               PROVE  /\ GrillInv' /\ RecipeOK' /\ Quenched'
                      /\ ended' \in {"no", "stop", "finish", "switch"}
  BY DEF ApplyRequest, IInv, TypeOK, GrillInv, RecipeOK, LockHoldsIgniter,
         RequestSpent, Phase
<1>2. NoRequest \notin {"Startup", "Smoke", "Hold", "Prime"}
  BY DEF NoRequest
<1>3. CASE UNCHANGED <<grill, recipe, ended>>
  <2>1. GrillInv' /\ mode' = mode
    BY <1>3, SameKeeps
  <2> QED
    BY <1>1, <1>2, <1>3, <2>1
    DEF Quenched, Current, RecipeOK, StepInRange, IInv, TypeOK
<1>4. CASE ApplyStop
  <2>1. "Stop" \in Mode
    BY DEF Mode
  <2>2. GrillInv' /\ mode' = "Stop"
    BY <1>4, <2>1, EnterKeeps DEF ApplyStop
  <2> QED
    BY <1>1, <1>2, <1>4, <2>2, NoRecipeOK
    DEF ApplyStop, Quenched, RecipeOK, StepInRange, Firing, Lighting, Burning
<1>5. CASE ApplyShutdown
  BY <1>1, <1>2, <1>5, ShutdownKeeps
  DEF Quenched, Current, Firing, Lighting, Burning
<1>6. CASE req = "Startup" /\ ApplyStartup
  <2>1. "Startup" \in Mode /\ "Prime" \in Mode /\ "Startup" \in Destinations
        /\ AfterStartupMode \in Destinations
    BY ConfigAssumption DEF Mode, Destinations
  <2>2. GrillInv'
    BY <1>6, <2>1, EnterKeeps DEF ApplyStartup
  <2> QED
    BY <1>6, <2>2
    DEF ApplyStartup, Quenched, RecipeOK, StepInRange, IInv, TypeOK
<1>7. CASE req \in Burning /\ ApplyBurning(req)
  <2>1. "Startup" \in Mode /\ req \in Mode /\ req \in Destinations
    BY <1>7 DEF Mode, Burning, Destinations
  <2>2. ASSUME reignite_last' = req,
               UNCHANGED <<mode, next_mode, proven, proving, locked, auger,
                           igniter, manual, retries, relights>>
        PROVE  GrillInv'
    BY <1>7, <2>2 DEF GrillInv, GrillTypes, ErrorIsDark, RelightBudget, Burning
  <2>3. GrillInv'
    BY <1>7, <2>1, <2>2, EnterKeeps, LeadsKeeps, SameKeeps DEF ApplyBurning
  <2>4. UNCHANGED <<recipe, ended>>
    BY <1>7 DEF ApplyBurning
  <2> QED
    BY <1>7, <2>3, <2>4
    DEF Quenched, Burning, RecipeOK, StepInRange, IInv, TypeOK
<1>8. CASE /\ req \in {"Monitor", "Manual", "Prime"}
           /\ EnterMode(req, next_mode)
           /\ UNCHANGED <<recipe, ended>>
  <2>1. req \in Mode
    BY <1>8 DEF Mode
  <2>2. GrillInv' /\ mode' = req
    BY <1>8, <2>1, EnterKeeps
  <2> QED
    BY <1>1, <1>2, <1>8, <2>2
    DEF Quenched, Current, RecipeOK, StepInRange, IInv, TypeOK, Firing,
        Lighting, Burning
<1> QED
  BY <1>3, <1>4, <1>5, <1>6, <1>7, <1>8 DEF ApplyRequest

LEMMA NotifyKeeps ==
  ASSUME IInv, Notify
  PROVE  IInv'
<1> USE Facts
<1>1. SUFFICES ASSUME phase = "notify", req = NoRequest, req' = NoRequest
               PROVE  /\ GrillInv' /\ RecipeOK' /\ Quenched'
                      /\ ended' \in {"no", "stop", "finish", "switch"}
  BY DEF Notify, NotifyNothing, NotifyShutdown, NotifyKeepWarm, IInv, TypeOK,
         GrillInv, RecipeOK, LockHoldsIgniter, RequestSpent, Phase
<1>2. NoRequest \notin {"Startup", "Smoke", "Hold", "Prime"}
  BY DEF NoRequest
<1>3. CASE NotifyNothing
  <2>1. GrillInv' /\ mode' = mode
    BY <1>3, SameKeeps DEF NotifyNothing
  <2> QED
    BY <1>1, <1>3, <2>1
    DEF NotifyNothing, Quenched, Current, RecipeOK, StepInRange, IInv, TypeOK
<1>4. CASE NotifyShutdown
  BY <1>1, <1>2, <1>4, ShutdownKeeps
  DEF NotifyShutdown, Quenched, Current, Firing, Lighting, Burning
<1>5. CASE NotifyKeepWarm
  <2>1. "Hold" \in Mode
    BY DEF Mode
  <2>2. GrillInv'
    BY <1>5, <2>1, EnterKeeps DEF NotifyKeepWarm
  <2> QED
    BY <1>5, <2>2
    DEF NotifyKeepWarm, Quenched, RecipeOK, StepInRange, IInv, TypeOK, Firing,
        Burning
<1> QED
  BY <1>3, <1>4, <1>5 DEF Notify

\* A step that is over gives way to the next, or to a pause at its end.
LEMMA StepOverKeeps ==
  ASSUME NEW r, GrillInv, Standing(r), StepOver(r)
  PROVE  /\ GrillInv' /\ RecipeOK'
         /\ r.step = r.last => /\ mode' = mode
                               /\ recipe' = r \/ ~recipe'.active
<1>1. CASE recipe' = r /\ UNCHANGED grill
  BY <1>1, SameKeeps DEF Standing, RecipeOK, StepInRange
<1>2. CASE Advance(r)
  <2>1. r.step + 1 \in Nat \ {0}
    BY DEF Standing, Run, StepNo
  <2>2. GrillInv' /\ RecipeOK'
    BY <1>2, <2>1, BeginKeeps DEF Advance, Standing
  <2> QED
    BY <1>2, <2>2, PastTheLast, SameKeeps, NoRecipeOK DEF Standing
<1> QED
  BY <1>1, <1>2 DEF StepOver

LEMMA RecipeKeeps ==
  ASSUME IInv, RunRecipe
  PROVE  IInv'
<1> USE Facts
<1>1. SUFFICES ASSUME phase = "recipe", req = NoRequest, UNCHANGED <<req, ended>>
               PROVE  GrillInv' /\ RecipeOK' /\ Quenched'
  BY DEF RunRecipe, RecipeError, RecipeModeStep, RecipeSetting, RecipeReady,
         RecipeWaits, IInv, TypeOK, GrillInv, RecipeOK, LockHoldsIgniter,
         RequestSpent, Phase
<1>2. CASE RecipeError
  <2>1. GrillInv' /\ mode' = mode
    BY <1>2, SameKeeps DEF RecipeError
  <2> QED
    BY <1>1, <1>2, <2>1, NoRecipeOK
    DEF RecipeError, Quenched, RecipeOK, StepInRange, IInv
<1>3. CASE RecipeModeStep
  <2>1. CASE StepOver(recipe)
    <3>1. /\ GrillInv' /\ RecipeOK'
          /\ recipe.step = recipe.last => /\ mode' = mode
                                          /\ recipe' = recipe \/ ~recipe'.active
      BY <1>3, <2>1, StepOverKeeps DEF RecipeModeStep
    <3> QED
      BY <1>1, <1>3, <3>1 DEF RecipeModeStep, Quenched, Current, IInv
  <2>2. CASE UNCHANGED <<grill, recipe>>
    <3>1. GrillInv' /\ mode' = mode
      BY <2>2, SameKeeps
    <3> QED
      BY <1>1, <2>2, <3>1 DEF Quenched, Current, RecipeOK, StepInRange, IInv
  <2> QED
    BY <1>3, <2>1, <2>2 DEF RecipeModeStep
<1>4. CASE RecipeSetting
  <2>1. GrillInv' /\ RecipeOK'
    BY <1>4, StepOverKeeps DEF RecipeSetting
  <2>2. mode \in Firing
    BY <1>4 DEF RecipeSetting, Firing
  <2> QED
    BY <1>1, <2>1, <2>2 DEF Quenched, IInv
<1>5. CASE RecipeReady
  <2>1. PICK lid \in LidSeen :
          LET r == [recipe EXCEPT !.lid = lid, !.prompt = Prompted]
          IN  StepOver(r) \/ (recipe' = r /\ UNCHANGED grill)
    BY <1>5, Zenon DEF RecipeReady
  <2>6. Prompted \in BOOLEAN
    BY Zenon DEF Prompted
  <2> DEFINE r == [recipe EXCEPT !.lid = lid, !.prompt = Prompted]
  <2>2. lid \in BOOLEAN
    <3>1. recipe.active /\ recipe.lid \in BOOLEAN
      BY <1>5 DEF RecipeReady, RecipeOK, Run
    <3>2. lid = recipe.lid \/ lid = TRUE
      BY <2>1 DEF LidSeen
    <3> QED
      BY <3>1, <3>2
  <2>3. Standing(r)
    BY <1>5, <2>1, <2>2, <2>6 DEF RecipeReady, Standing, Run
  <2>4. GrillInv' /\ RecipeOK'
    BY <2>1, <2>3, StepOverKeeps, SameKeeps DEF Standing, RecipeOK, StepInRange
  <2>5. mode \in Firing
    BY <1>5 DEF RecipeReady, Firing
  <2> QED
    BY <1>1, <2>4, <2>5 DEF Quenched, IInv
<1>6. CASE RecipeWaits
  <2>1. GrillInv' /\ mode' = mode
    BY <1>6, SameKeeps DEF RecipeWaits
  <2>2. CASE UNCHANGED recipe
    BY <1>1, <2>1, <2>2 DEF Quenched, Current, RecipeOK, StepInRange, IInv
  <2>3. ASSUME NEW lid \in LidSeen, recipe.active,
               recipe' = [recipe EXCEPT !.lid = lid]
        PROVE  RecipeOK' /\ Quenched'
    <3>1. recipe.lid \in BOOLEAN
      BY <2>3 DEF RecipeOK, Run
    <3>2. lid = recipe.lid \/ lid = TRUE
      BY DEF LidSeen
    <3>3. lid \in BOOLEAN
      BY <3>1, <3>2
    <3>4. /\ recipe' \in Run /\ recipe'.active = recipe.active
          /\ recipe'.step = recipe.step /\ recipe'.last = recipe.last
          /\ recipe'.steps = recipe.steps
      BY <2>3, <3>3 DEF RecipeOK, Run
    <3> QED
      BY <1>1, <2>1, <3>4 DEF Quenched, Current, RecipeOK, StepInRange, IInv
  <2> QED
    BY <1>6, <2>1, <2>2, <2>3 DEF RecipeWaits
<1> QED
  BY <1>2, <1>3, <1>4, <1>5, <1>6 DEF RunRecipe

\* A safety tick that changes no mode: the cap and the proving, no more.
LEMMA IgniterKeeps ==
  ASSUME IInv, locked' \in BOOLEAN, igniter' \in BOOLEAN, proven' \in BOOLEAN,
         proving' \in BOOLEAN, phase = "safety", phase' = "run",
         mode = "Error" => (igniter' => igniter),
         locked' => ~igniter',
         UNCHANGED <<mode, next_mode, auger, manual, fire, req, recipe, quiet,
                     ended>>
  PROVE  IInv'
<1>1. GrillInv'
  BY Facts DEF GrillInv, GrillTypes, ErrorIsDark, RelightBudget, fire
<1>2. RecipeOK' /\ Quenched' /\ RequestSpent'
  BY Facts DEF RecipeOK, StepInRange, Quenched, Current, RequestSpent, IInv
<1> QED
  BY <1>1, <1>2
  DEF IInv, TypeOK, GrillInv, RecipeOK, LockHoldsIgniter, Phase

LEMMA SafetyKeeps ==
  ASSUME IInv, Safety
  PROVE  IInv'
<1> USE Facts
<1>1. proven \in BOOLEAN /\ proving \in BOOLEAN /\ locked \in BOOLEAN
      /\ igniter \in BOOLEAN
  BY DEF GrillInv, GrillTypes
<1>2. ASSUME locked' \in SafetyCap PROVE locked' \in BOOLEAN
  <2>1. locked' = locked \/ locked' = TRUE
    BY <1>2 DEF SafetyCap
  <2> QED
    BY <1>1, <2>1
<1>3. ASSUME GrillInv', mode' # "Prime", mode' \notin Firing \/ ended = "no",
             locked' = FALSE, phase = "safety", phase' = "run",
             UNCHANGED <<req, recipe, quiet, ended>>
      PROVE  IInv'
  BY <1>3
  DEF IInv, TypeOK, GrillInv, RecipeOK, LockHoldsIgniter, Phase, Quenched,
      Current, RequestSpent, StepInRange
<1>4. CASE SafetyError
  <2>1. "Error" \in Mode
    BY DEF Mode
  <2>2. GrillInv' /\ mode' = "Error" /\ locked' = FALSE
    BY <1>4, <2>1, EnterKeeps DEF SafetyError
  <2> QED
    BY <1>3, <1>4, <2>2 DEF SafetyError, Firing, Lighting, Burning
<1>5. CASE Relight
  <2>1. "Reignite" \in Mode
    BY DEF Mode
  <2>2. /\ Enter("Reignite", next_mode) /\ mode \in Burning /\ retries > 0
        /\ retries' = retries - 1 /\ relights' = relights + 1
        /\ reignite_last' = mode
    BY <1>5 DEF Relight
  <2>3. /\ proven' \in BOOLEAN /\ proving' \in BOOLEAN /\ locked' \in BOOLEAN
        /\ auger' \in BOOLEAN /\ igniter' \in BOOLEAN
    BY <2>1, <2>2, EnterBooleans DEF GrillInv
  <2>4. /\ mode' = "Reignite" /\ locked' = FALSE /\ manual' = {}
        /\ next_mode' = next_mode
    BY <2>2 DEF Enter
  <2>5. retries' \in Nat /\ relights' \in Nat /\ relights' + retries' <= Retries
    BY <2>2, ConfigAssumption DEF GrillInv, GrillTypes, RelightBudget
  <2>6. GrillInv'
    BY <2>1, <2>2, <2>3, <2>4, <2>5
    DEF GrillInv, GrillTypes, ErrorIsDark, RelightBudget
  <2>7. ended \notin {"stop", "finish"}
    BY <2>2 DEF IInv, Quenched, Firing
  <2> QED
    BY <1>5, <2>4, <2>6, <2>7
    DEF Relight, IInv, TypeOK, GrillInv, RecipeOK, LockHoldsIgniter, Phase,
        Quenched, RequestSpent, StepInRange
<1>6. CASE SafetyBlind
  <2>1. locked' \in BOOLEAN
    BY <1>2, <1>6 DEF SafetyBlind
  <2>2. igniter' \in BOOLEAN
    BY <1>6, Zenon DEF SafetyBlind
  <2> QED
    BY <1>1, <1>6, <2>1, <2>2, IgniterKeeps DEF SafetyBlind
<1>7. CASE SafetyLighting
  <2>1. locked' \in BOOLEAN
    BY <1>2, <1>7 DEF SafetyLighting
  <2>2. igniter' \in BOOLEAN
    BY <1>7, Zenon DEF SafetyLighting
  <2>3. proven' \in BOOLEAN
    <3>1. proven' = proven \/ proven' = TRUE
      BY <1>7 DEF SafetyLighting
    <3> QED
      BY <1>1, <3>1
  <2> QED
    BY <1>1, <1>7, <2>1, <2>2, <2>3, IgniterKeeps DEF SafetyLighting
<1>8. CASE SafetyBurning
  <2>1. locked' \in BOOLEAN
    BY <1>2, <1>8 DEF SafetyBurning
  <2>2. igniter' \in BOOLEAN
    BY <1>8, Zenon DEF SafetyBurning
  <2>3. proving' \in BOOLEAN /\ (locked' => ~proving')
    BY <1>8, <2>1 DEF SafetyBurning
  <2>4. mode # "Error"
    BY <1>8 DEF SafetyBurning, Burning
  <2> QED
    BY <1>1, <1>8, <2>1, <2>2, <2>3, <2>4, IgniterKeeps DEF SafetyBurning
<1>9. CASE SafetyIdle
  <2>1. locked' \in BOOLEAN
    BY <1>2, <1>9 DEF SafetyIdle
  <2>2. igniter' \in BOOLEAN
    BY <1>9, Zenon DEF SafetyIdle
  <2>3. proving' \in BOOLEAN
    BY <1>9, Zenon DEF SafetyIdle
  <2> QED
    BY <1>1, <1>9, <2>1, <2>2, <2>3, IgniterKeeps DEF SafetyIdle
<1> QED
  BY <1>4, <1>5, <1>6, <1>7, <1>8, <1>9 DEF Safety

\* The three ways a mode runs out, and the switch.
LEMMA RunKeeps ==
  ASSUME IInv, RunMode
  PROVE  IInv'
<1> USE Facts
<1>1. ASSUME GrillInv', locked' = FALSE, phase = "run", phase' = "input",
             mode' \notin Firing \cup {"Prime"} \/ ended = "no" \/ ended = "switch",
             UNCHANGED <<req, recipe, quiet, ended>>
      PROVE  IInv'
  BY <1>1
  DEF IInv, TypeOK, GrillInv, RecipeOK, LockHoldsIgniter, Phase, Quenched,
      Current, RequestSpent, StepInRange
<1>2. ended \in {"stop", "finish"} => mode \notin Firing \cup {"Prime"}
  BY DEF IInv, Quenched
<1>3. ended \in {"no", "stop", "finish", "switch"}
  BY DEF IInv, TypeOK
<1>4. CASE RunStays
  <2>1. PICK kept \in StillManual :
          /\ \/ auger' = (auger /\ ("auger" \in kept \/ mode = "Manual"))
             \/ mode \in Firing \cup {"Prime"} /\ auger' = TRUE
             \/ auger' = FALSE
          /\ manual' \in {kept, kept \ {"auger"}}
    BY <1>4, Zenon DEF RunStays, RunOutputs
  <2>2. kept \subseteq Output
    BY <2>1 DEF StillManual, GrillInv, GrillTypes
  <2>3. auger' \in BOOLEAN
    BY <2>1, Zenon
  <2>4. mode = "Error" => (auger' => auger)
    BY <2>1, <2>3 DEF Firing, Lighting, Burning, GrillInv, GrillTypes
  <2>5. /\ phase = "run" /\ phase' = "input"
        /\ UNCHANGED <<mode, next_mode, proven, proving, locked, igniter, fire,
                       req, recipe, quiet, ended>>
    BY <1>4 DEF RunStays
  <2>6. GrillInv'
    BY <2>1, <2>2, <2>3, <2>4, <2>5
    DEF GrillInv, GrillTypes, ErrorIsDark, RelightBudget, fire
  <2> QED
    BY <2>5, <2>6
    DEF IInv, TypeOK, GrillInv, RecipeOK, LockHoldsIgniter, Phase, Quenched,
        Current, RequestSpent, StepInRange
<1>5. CASE StartupDone
  <2> DEFINE m == IF Destination \in Burning THEN Destination ELSE "Smoke"
  <2>1. m \in Mode
    BY DEF Mode, Burning
  <2>2. EnterMode(m, next_mode)
    BY <1>5 DEF StartupDone
  <2>3. GrillInv' /\ locked' = FALSE
    BY <2>1, <2>2, EnterKeeps
  <2> QED
    BY <1>1, <1>2, <1>3, <1>5, <2>3 DEF StartupDone, Firing
<1>6. CASE ShutdownDone
  <2>1. "Stop" \in Mode
    BY DEF Mode
  <2>2. GrillInv' /\ locked' = FALSE /\ mode' = "Stop"
    BY <1>6, <2>1, EnterKeeps DEF ShutdownDone
  <2> QED
    BY <1>1, <1>6, <2>2 DEF ShutdownDone, Firing, Lighting, Burning
<1>7. CASE PrimeDone
  <2>1. "Stop" \in Mode /\ "Startup" \in Mode /\ AfterStartupMode \in Destinations
    BY ConfigAssumption DEF Mode
  <2>2. GrillInv' /\ locked' = FALSE
    BY <1>7, <2>1, EnterKeeps DEF PrimeDone
  <2> QED
    BY <1>1, <1>2, <1>3, <1>7, <2>2 DEF PrimeDone
<1> QED
  BY <1>4, <1>5, <1>6, <1>7 DEF RunMode

LEMMA InputKeeps ==
  ASSUME IInv, Inputs
  PROVE  IInv'
<1> USE Facts
<1>1. CASE InputClear
  <2>1. GrillInv' /\ mode' = mode
    BY <1>1, SameKeeps DEF InputClear
  <2> QED
    BY <1>1, <2>1
    DEF InputClear, IInv, TypeOK, GrillInv, RecipeOK, LockHoldsIgniter, Phase,
        Quenched, Current, RequestSpent, StepInRange
<1>2. CASE InputAsserted
  <2>1. "Stop" \in Mode /\ "Shutdown" \in Mode
    BY DEF Mode
  <2>2. GrillInv'
    BY <1>2, <2>1, EnterKeeps DEF InputAsserted
  <2> QED
    BY <1>2, <2>2
    DEF InputAsserted, IInv, TypeOK, GrillInv, RecipeOK, LockHoldsIgniter,
        Phase, Quenched, RequestSpent, StepInRange
<1> QED
  BY <1>1, <1>2 DEF Inputs

LEMMA InitOK == Init => IInv
<1> SUFFICES ASSUME Init PROVE IInv
  OBVIOUS
<1>1. FALSE \in BOOLEAN /\ TRUE \in BOOLEAN
  OBVIOUS
<1>2. auger \in BOOLEAN /\ igniter \in BOOLEAN
  BY <1>1 DEF Init
<1>3. mode \in Mode /\ next_mode \in Destinations /\ reignite_last \in {"Stop"} \cup Burning
  BY DEF Init, Mode, Destinations, Burning
<1>4. retries \in Nat /\ relights \in Nat /\ relights + retries <= Retries
  BY ConfigAssumption DEF Init
<1>5. GrillInv
  BY <1>1, <1>2, <1>3, <1>4
  DEF Init, GrillInv, GrillTypes, ErrorIsDark, RelightBudget, Destinations
<1>6. quiet \in BOOLEAN
  BY <1>1 DEF Init
<1> QED
  BY <1>5, <1>6, NoRecipeOK
  DEF Init, IInv, TypeOK, GrillInv, StepInRange, LockHoldsIgniter, Phase,
      Quenched, RequestSpent

LEMMA NextKeeps == IInv /\ [Next]_vars => IInv'
<1> SUFFICES ASSUME IInv, [Next]_vars PROVE IInv'
  OBVIOUS
<1> USE Facts
<1>1. CASE UNCHANGED <<grill, req, recipe, ended>>
           /\ (phase' = phase \/ (phase = "cmd" /\ phase' = "request"))
           /\ (quiet' = quiet \/ quiet' = TRUE)
  <2>1. GrillInv' /\ mode' = mode /\ locked' = locked /\ igniter' = igniter
    BY <1>1, SameKeeps DEF grill
  <2>2. quiet' \in BOOLEAN
    BY <1>1 DEF IInv, TypeOK
  <2> QED
    BY <1>1, <2>1, <2>2
    DEF IInv, TypeOK, GrillInv, RecipeOK, LockHoldsIgniter, Phase, Quenched,
        Current, RequestSpent, StepInRange
<1>2. CASE QueueEmpty \/ FallQuiet \/ UNCHANGED vars
  BY <1>1, <1>2 DEF QueueEmpty, FallQuiet, vars
<1>3. CASE Next /\ ~QueueEmpty /\ ~FallQuiet
  BY <1>3, CommandKeeps, RequestKeeps, NotifyKeeps, RecipeKeeps, SafetyKeeps,
     RunKeeps, InputKeeps DEF Next, Tick
<1> QED
  BY <1>2, <1>3

LEMMA Invariance == Spec => []IInv
  BY InitOK, NextKeeps, PTL DEF Spec

-----------------------------------------------------------------------------
(* The theorems: for every configuration, set of recipes and of commands.  *)

\* Every variable keeps its type; the recipe's step is one its array of flags has.
THEOREM TypeCorrect == Spec => []TypeOK
<1>1. IInv => TypeOK
  BY DEF IInv
<1> QED
  BY <1>1, Invariance, PTL

\* An error holds the feed and the igniter off (enter_mode, handle_cmd's refusal
\* of MANUAL_OUTPUT, the else branch of run_mode's feed).
THEOREM DarkInError == Spec => []ErrorIsDark
<1>1. IInv => ErrorIsDark
  BY DEF IInv
<1> QED
  BY <1>1, Invariance, PTL

\* No more relights in a cook than it began with (flameout, pf_safety_reset).
THEOREM RelightsAreBounded == Spec => []RelightBudget
<1>1. IInv => RelightBudget
  BY DEF IInv
<1> QED
  BY <1>1, Invariance, PTL

\* The igniter's lock-out outlasts overrides and coasts (pf_safety_tick).
THEOREM LockHolds == Spec => []LockHoldsIgniter
<1>1. IInv => LockHoldsIgniter
  BY DEF IInv
<1> QED
  BY <1>1, Invariance, PTL

\* r.steps is never indexed past its end (recipe_begin_step and what calls it).
THEOREM RecipeStaysInRange == Spec => []StepInRange
<1>1. IInv => StepInRange
  BY DEF IInv
<1> QED
  BY <1>1, Invariance, PTL

\* After a Stop nothing the grill has in hand lights it again (handle_cmd's STOP,
\* apply_request).
THEOREM StopIsTheEnd == Spec => []StopIsFinal
<1>1. IInv => StopIsFinal
  BY DEF IInv, Quenched, StopIsFinal
<1> QED
  BY <1>1, Invariance, PTL

\* Nor after a Finish (recipe_finish_now).
THEOREM FinishIsTheEnd == Spec => []FinishIsFinal
<1>1. IInv => FinishIsFinal
  BY DEF IInv, Quenched, FinishIsFinal
<1> QED
  BY <1>1, Invariance, PTL

-----------------------------------------------------------------------------
(* Lit before fed, and Error sticky, as long as nobody steps the recipe by  *)
(* hand: recipe_begin_step does not look for Error.                        *)

NoStepping == \A c \in Command : c.type \notin {"recipe_skip", "recipe_back"}

\* What every step may do to the mode.
Guarded ==
  /\ mode = "Error" => mode' \in {"Error", "Stop"}
  /\ mode \notin Burning /\ mode' \in Burning
       => mode \in Lighting /\ (proven \/ phase = "cmd")

\* Beginning a step lights an idle grill first.
LEMMA BeginLights ==
  ASSUME NEW r, NEW i, BeginStep(r, i)
  PROVE  mode \notin Burning /\ mode' \in Burning => mode = "Error"
<1>1. CASE UNCHANGED grill
  BY <1>1 DEF grill
<1>2. ASSUME NEW k, ApplyStep(r, k)
      PROVE  mode \notin Burning /\ mode' \in Burning => mode = "Error"
  BY <1>2 DEF ApplyStep, LeadsTo, EnterMode, Enter, grill, Burning
<1> QED
  BY <1>1, <1>2 DEF BeginStep

LEMMA FinishDoesNotLight ==
  ASSUME IInv, ApplyShutdown
  PROVE  mode' = "Shutdown"
  BY ShutdownKeeps

LEMMA NextGuarded == NoStepping /\ IInv /\ [Next]_vars => [Guarded]_vars
<1> SUFFICES ASSUME NoStepping, IInv, Next PROVE Guarded
  OBVIOUS
<1>1. "Shutdown" \notin Burning /\ "Stop" \notin Burning /\ "Error" \notin Burning
      /\ "Error" \notin Idle /\ "Error" \notin Lighting
      /\ "Startup" \notin Burning /\ "Reignite" \notin Burning
      /\ "Prime" \notin Burning /\ "Monitor" \notin Burning
      /\ "Manual" \notin Burning /\ "Error" \notin Firing
      /\ Firing = Lighting \cup Burning
  BY DEF Burning, Idle, Lighting, Firing
<1>2. CASE HandleCommand
  <2>1. ~HandleRecipeSkip /\ ~HandleRecipeBack
    BY DEF NoStepping, HandleRecipeSkip, HandleRecipeBack, Got
  <2>2. CASE HandleRecipeStart
    BY <2>2, BeginLights DEF HandleRecipeStart, Guarded
  <2>3. CASE HandleForce
    BY <1>1, <2>3 DEF HandleForce, Forces, Got, EnterMode, Enter, Guarded
  <2>4. CASE HandleStop \/ HandlePrime \/ HandleClearError
    BY <1>1, <2>4 DEF HandleStop, HandlePrime, HandleClearError, LeadsTo,
                      EnterMode, Enter, Guarded
  <2>5. CASE \/ HandleMode \/ HandleSetPoint \/ HandleManual \/ HandleRecipeNext
             \/ HandleRecipeFlag \/ HandleRecipeStop
    BY <1>1, <2>5 DEF HandleMode, HandleSetPoint, HandleManual,
      HandleRecipeNext, HandleRecipeFlag, HandleRecipeStop, grill, Guarded
  <2> QED
    BY <1>2, <2>1, <2>2, <2>3, <2>4, <2>5 DEF HandleCommand
<1>3. CASE ApplyRequest
  <2>1. CASE UNCHANGED grill
    BY <1>1, <2>1 DEF grill, Guarded
  <2>2. CASE ApplyStop
    BY <1>1, <2>2 DEF ApplyStop, EnterMode, Enter, Guarded
  <2>3. CASE ~Refused(req) /\ req = "Shutdown" /\ ApplyShutdown
    BY <1>1, <2>3, FinishDoesNotLight DEF Refused, Guarded
  <2>4. CASE ~Refused(req) /\ req = "Startup" /\ ApplyStartup
    BY <1>1, <2>4 DEF Refused, ApplyStartup, EnterMode, Enter, Guarded
  <2>5. CASE ~Refused(req) /\ req \in Burning /\ ApplyBurning(req)
    BY <1>1, <2>5 DEF Refused, ApplyBurning, LeadsTo, EnterMode, Enter, grill,
                      Guarded
  <2>6. CASE /\ ~Refused(req) /\ req \in {"Monitor", "Manual", "Prime"}
             /\ EnterMode(req, next_mode)
    BY <1>1, <2>6 DEF Refused, EnterMode, Enter, Guarded
  <2> QED
    BY <1>3, <2>1, <2>2, <2>3, <2>4, <2>5, <2>6 DEF ApplyRequest
<1>4. CASE Notify
  <2>1. CASE NotifyNothing
    BY <1>1, <2>1 DEF NotifyNothing, grill, Guarded
  <2>2. CASE NotifyShutdown
    BY <1>1, <2>2, FinishDoesNotLight DEF NotifyShutdown, Guarded
  <2>3. CASE NotifyKeepWarm
    BY <1>1, <2>3 DEF NotifyKeepWarm, EnterMode, Enter, Guarded, Burning
  <2> QED
    BY <1>4, <2>1, <2>2, <2>3 DEF Notify
<1>5. CASE RunRecipe
  <2>1. ASSUME NEW r, StepOver(r), mode # "Error"
        PROVE  Guarded
    BY <1>1, <2>1, BeginLights DEF StepOver, Advance, grill, Guarded
  <2>2. CASE UNCHANGED grill
    BY <1>1, <2>2 DEF grill, Guarded
  <2> QED
    BY <1>1, <1>5, <2>1, <2>2, Zenon
    DEF RunRecipe, RecipeError, RecipeModeStep, RecipeSetting, RecipeReady,
        RecipeWaits
<1>6. CASE Safety
  BY <1>1, <1>6
  DEF Safety, SafetyError, Relight, SafetyBlind, SafetyLighting, SafetyBurning,
      SafetyIdle, EnterMode, Enter, Guarded
<1>7. CASE RunMode
  BY <1>1, <1>7
  DEF RunMode, RunStays, StartupDone, ShutdownDone, PrimeDone, EnterMode, Enter,
      Guarded
<1>8. CASE Inputs
  BY <1>1, <1>8
  DEF Inputs, InputClear, InputAsserted, EnterMode, Enter, grill, Guarded
<1>9. CASE QueueEmpty \/ FallQuiet
  BY <1>1, <1>9 DEF QueueEmpty, FallQuiet, grill, Guarded
<1> QED
  BY <1>2, <1>3, <1>4, <1>5, <1>6, <1>7, <1>8, <1>9 DEF Next, Tick

\* A grill that is not burning starts to burn only from a light that was proven,
\* or by the cook's forced end of one (apply_request, recipe_begin_step, run_mode).
THEOREM OnlyLitIsFed ==
  ASSUME NoStepping
  PROVE  Spec => LitBeforeFed
<1>1. IInv /\ [Next]_vars
        => [mode \notin Burning /\ mode' \in Burning
              => mode \in Lighting /\ (proven \/ phase = "cmd")]_vars
  BY NextGuarded DEF Guarded
<1> QED
  BY <1>1, Invariance, PTL DEF Spec, LitBeforeFed

\* Out of Error there is only Stop (apply_request's first refusal, run_recipe's
\* second line, pf_safety_tick's exception).
THEOREM ErrorSticks ==
  ASSUME NoStepping
  PROVE  Spec => ErrorIsSticky
<1>1. IInv /\ [Next]_vars => [mode = "Error" => mode' \in {"Error", "Stop"}]_vars
  BY NextGuarded DEF Guarded
<1> QED
  BY <1>1, Invariance, PTL DEF Spec, ErrorIsSticky

-----------------------------------------------------------------------------
(* The supervisor's promise, under the same condition.  Every step does one *)
(* of five things to the mode and the relights, and each of them is a step  *)
(* of the supervisor or none.                                               *)

\* The same mode, in which a light may have been proven
Stays ==
  /\ mode' = mode /\ retries' = retries
  /\ proven' = proven \/ (mode \in Lighting /\ proven')

Lights ==
  /\ mode # "Error" /\ mode' = "Startup"
  /\ retries' = Retries /\ ~proven'

Burns ==
  /\ mode \in Burning \/ (mode \in Lighting /\ (proven \/ phase = "cmd"))
  /\ mode' \in Burning /\ retries' = retries

GoesOut == mode' \in Idle \cup {"Error"} /\ retries' = retries

LightsAgain ==
  /\ mode \in Burning /\ mode' = "Reignite"
  /\ retries > 0 /\ retries' = retries - 1 /\ ~proven'

Moves == Stays \/ Lights \/ Burns \/ GoesOut \/ LightsAgain

\* What entering a mode does to the mode and the relights.
LEMMA EnterMoves ==
  ASSUME NEW m, NEW nm, EnterMode(m, nm)
  PROVE  /\ mode' = m
         /\ m = "Startup" => retries' = Retries /\ ~proven'
         /\ m # "Startup" => retries' = retries
  BY DEF EnterMode, Enter, Lighting, fire

LEMMA LeadsMoves ==
  ASSUME NEW nm, LeadsTo(nm) PROVE Stays
  BY DEF LeadsTo, Stays, fire

LEMMA SameMoves ==
  ASSUME UNCHANGED grill PROVE Stays
  BY DEF Stays, grill, fire

\* Beginning a step lights an idle grill, burns on a burning one, or puts it out.
LEMMA BeginMoves ==
  ASSUME NEW r, NEW i, mode \in Mode \ {"Error"}, BeginStep(r, i)
  PROVE  Moves
<1>1. ASSUME NEW k, ApplyStep(r, k)
      PROVE  Moves
  <2> DEFINE m == r.steps[k].mode
  <2>1. CASE m = "Startup"
    <3>1. LeadsTo(AfterStep(r, k)) \/ EnterMode("Startup", AfterStep(r, k))
      BY <1>1, <2>1 DEF ApplyStep, Burning
    <3> QED
      BY <3>1, LeadsMoves, EnterMoves DEF Moves, Lights
  <2>2. CASE m \in Burning
    <3>1. \/ EnterMode("Startup", m)
          \/ LeadsTo(m)
          \/ UNCHANGED grill
          \/ mode \in Burning /\ EnterMode(m, next_mode)
      BY <1>1, <2>2 DEF ApplyStep, Burning
    <3>2. CASE mode \in Burning /\ EnterMode(m, next_mode)
      BY <2>2, <3>2, EnterMoves DEF Moves, Burns, Burning
    <3> QED
      BY <3>1, <3>2, LeadsMoves, SameMoves, EnterMoves DEF Moves, Lights
  <2>3. CASE m \in {"Shutdown", "Stop"}
    <3>1. EnterMode(m, next_mode)
      BY <1>1, <2>3 DEF ApplyStep, Burning
    <3> QED
      BY <2>3, <3>1, EnterMoves DEF Moves, GoesOut, Idle
  <2> QED
    BY <1>1, <2>1, <2>2, <2>3 DEF ApplyStep
<1>2. UNCHANGED grill \/ \E k : ApplyStep(r, k)
  BY Zenon DEF BeginStep
<1> QED
  BY <1>1, <1>2, SameMoves DEF Moves

\* A Finish puts it out, one way or the other.
LEMMA FinishMoves ==
  ASSUME IInv, ApplyShutdown
  PROVE  Moves
<1>1. mode' = "Shutdown"
  BY FinishDoesNotLight
<1>2. retries' = retries
  <2>1. ASSUME NEW r, NEW k, ApplyStep(r, k)
        PROVE  retries' = retries \/ mode' = "Startup"
    BY <2>1, EnterMoves, LeadsMoves, SameMoves DEF ApplyStep, Stays, Burning
  <2>2. ASSUME NEW r, NEW i, BeginStep(r, i)
        PROVE  retries' = retries \/ mode' = "Startup"
    <3>1. UNCHANGED grill \/ \E k : ApplyStep(r, k)
      BY <2>2, Zenon DEF BeginStep
    <3> QED
      BY <2>1, <3>1 DEF grill, fire
  <2>3. \/ EnterMode("Shutdown", next_mode)
        \/ \E r, i : BeginStep(r, i)
    BY Zenon DEF ApplyShutdown, Finish
  <2> QED
    BY <1>1, <2>2, <2>3, EnterMoves
<1> QED
  BY <1>1, <1>2 DEF Moves, GoesOut, Idle

LEMMA CommandMoves ==
  ASSUME NoStepping, IInv, HandleCommand
  PROVE  Moves
<1>1. ~HandleRecipeSkip /\ ~HandleRecipeBack
  BY DEF NoStepping, HandleRecipeSkip, HandleRecipeBack, Got
<1>2. mode \in Mode
  BY DEF IInv, TypeOK, GrillTypes
<1>3. CASE HandleRecipeStart
  BY <1>2, <1>3, BeginMoves DEF HandleRecipeStart
<1>4. CASE HandleForce
  <2>1. PICK c \in Got("mode") : Forces(c) /\ EnterMode(c.mode, next_mode)
    BY <1>4 DEF HandleForce
  <2>2. /\ mode \in Lighting /\ c.mode \in Burning /\ phase = "cmd"
        /\ c.mode # "Startup"
    BY <2>1 DEF Forces, Got, Burning
  <2> QED
    BY <2>1, <2>2, EnterMoves DEF Moves, Burns
<1>5. CASE HandleStop \/ HandleClearError
  <2>1. EnterMode("Stop", next_mode)
    BY <1>5 DEF HandleStop, HandleClearError
  <2> QED
    BY <2>1, EnterMoves DEF Moves, GoesOut, Idle
<1>6. CASE HandlePrime
  BY <1>6, EnterMoves, LeadsMoves DEF HandlePrime, Moves, GoesOut, Idle
<1>7. CASE HandleSetPoint \/ HandleManual
  BY <1>7 DEF HandleSetPoint, HandleManual, Moves, Stays, fire
<1>8. CASE \/ HandleMode \/ HandleRecipeNext \/ HandleRecipeFlag
           \/ HandleRecipeStop
  <2>1. UNCHANGED grill
    BY <1>8 DEF HandleMode, HandleRecipeNext, HandleRecipeFlag, HandleRecipeStop
  <2> QED
    BY <2>1, SameMoves DEF Moves
<1> QED
  BY <1>1, <1>3, <1>4, <1>5, <1>6, <1>7, <1>8 DEF HandleCommand

LEMMA RequestMoves ==
  ASSUME IInv, ApplyRequest
  PROVE  Moves
<1>1. CASE UNCHANGED grill
  BY <1>1, SameMoves DEF Moves
<1>2. CASE ApplyStop
  BY <1>2, EnterMoves DEF ApplyStop, Moves, GoesOut, Idle
<1>3. CASE ApplyShutdown
  BY <1>3, FinishMoves
<1>4. CASE ~Refused(req) /\ req = "Startup" /\ ApplyStartup
  <2>1. mode # "Error"
    BY <1>4 DEF Refused
  <2>2. EnterMode("Prime", "Startup") \/ EnterMode("Startup", AfterStartupMode)
    BY <1>4 DEF ApplyStartup
  <2> QED
    BY <2>1, <2>2, EnterMoves DEF Moves, Lights, GoesOut, Idle
<1>5. CASE ~Refused(req) /\ req \in Burning /\ ApplyBurning(req)
  <2>1. mode # "Error" /\ req \in Burning /\ req # "Startup"
    BY <1>5 DEF Refused, Burning
  <2>2. \/ EnterMode("Startup", req)
        \/ mode' = mode /\ proven' = proven /\ retries' = retries
        \/ mode \in Burning /\ EnterMode(req, next_mode)
    BY <1>5 DEF ApplyBurning, LeadsTo, grill, fire
  <2>3. CASE mode \in Burning /\ EnterMode(req, next_mode)
    BY <2>1, <2>3, EnterMoves DEF Moves, Burns
  <2> QED
    BY <2>1, <2>2, <2>3, EnterMoves DEF Moves, Lights, Stays
<1>6. CASE req \in {"Monitor", "Manual", "Prime"} /\ EnterMode(req, next_mode)
  BY <1>6, EnterMoves DEF Moves, GoesOut, Idle
<1> QED
  BY <1>1, <1>2, <1>3, <1>4, <1>5, <1>6 DEF ApplyRequest

LEMMA RecipeMoves ==
  ASSUME IInv, RunRecipe
  PROVE  Moves
<1>1. mode \in Mode
  BY DEF IInv, TypeOK, GrillTypes
<1>2. ASSUME NEW r, StepOver(r), mode # "Error"
      PROVE  Moves
  BY <1>1, <1>2, BeginMoves, SameMoves DEF StepOver, Advance, Moves
<1>3. CASE UNCHANGED grill
  BY <1>3, SameMoves DEF Moves
<1>4. "Error" \notin Burning
  BY DEF Burning
<1> QED
  BY <1>2, <1>3, <1>4, Zenon
  DEF RunRecipe, RecipeError, RecipeModeStep, RecipeSetting, RecipeReady,
      RecipeWaits

LEMMA SafetyMoves ==
  ASSUME IInv, Safety
  PROVE  Moves
<1>1. CASE SafetyError
  BY <1>1, EnterMoves DEF SafetyError, Moves, GoesOut
<1>2. CASE Relight
  BY <1>2 DEF Relight, Enter, Lighting, Moves, LightsAgain
<1>3. CASE SafetyLighting
  BY <1>3 DEF SafetyLighting, Moves, Stays, fire, IInv, TypeOK, GrillTypes
<1>4. CASE SafetyBlind \/ SafetyBurning \/ SafetyIdle
  BY <1>4 DEF SafetyBlind, SafetyBurning, SafetyIdle, Moves, Stays, fire
<1> QED
  BY <1>1, <1>2, <1>3, <1>4 DEF Safety

LEMMA RunMoves ==
  ASSUME IInv, RunMode
  PROVE  Moves
<1>1. mode # "Error" => mode \in Idle \cup Firing
  BY DEF IInv, TypeOK, GrillTypes, Mode, Idle, Firing, Lighting, Burning
<1>2. CASE RunStays
  BY <1>2 DEF RunStays, Moves, Stays, fire
<1>3. CASE StartupDone
  <2>1. PICK m \in Burning : EnterMode(m, next_mode)
    BY <1>3 DEF StartupDone, Burning
  <2>2. m # "Startup"
    BY DEF Burning
  <2> QED
    BY <1>3, <2>1, <2>2, EnterMoves DEF StartupDone, Moves, Burns
<1>4. CASE ShutdownDone
  BY <1>4, EnterMoves DEF ShutdownDone, Moves, GoesOut, Idle
<1>5. CASE PrimeDone
  BY <1>5, EnterMoves DEF PrimeDone, Moves, Lights, GoesOut, Idle
<1> QED
  BY <1>2, <1>3, <1>4, <1>5 DEF RunMode

LEMMA NextMoves ==
  ASSUME NoStepping, IInv, Next
  PROVE  Moves
<1>1. CASE QueueEmpty \/ FallQuiet \/ NotifyNothing \/ InputClear
  <2>1. UNCHANGED grill
    BY <1>1 DEF QueueEmpty, FallQuiet, NotifyNothing, InputClear
  <2> QED
    BY <2>1, SameMoves DEF Moves
<1>2. CASE NotifyShutdown
  BY <1>2, FinishMoves DEF NotifyShutdown
<1>3. CASE NotifyKeepWarm
  BY <1>3, EnterMoves DEF NotifyKeepWarm, Moves, Burns, Burning
<1>4. CASE InputAsserted
  BY <1>4, EnterMoves DEF InputAsserted, Moves, GoesOut, Idle
<1> QED
  BY <1>1, <1>2, <1>3, <1>4, CommandMoves, RequestMoves, RecipeMoves,
     SafetyMoves, RunMoves
  DEF Next, Tick, Notify, Inputs

\* The pot and what is known of it, mode by mode.
LEMMA PotIs ==
  ASSUME mode \in Mode, proven \in BOOLEAN
  PROVE  /\ mode \in Idle => Pot = "out" /\ Known = FALSE
         /\ mode = "Startup" => Pot = "lighting" /\ Known = proven
         /\ mode = "Reignite" => Pot = "relighting" /\ Known = proven
         /\ mode \in Burning => Pot = "burning" /\ Known = FALSE
         /\ mode = "Error" => Pot = "error" /\ Known = FALSE
<1>1. CASE mode \in Idle
  BY <1>1 DEF Pot, Known, Idle, Lighting, Burning
<1>2. CASE mode \in Lighting
  BY <1>2 DEF Pot, Known, Idle, Lighting, Burning
<1>3. CASE mode \in Burning \cup {"Error"}
  BY <1>3 DEF Pot, Known, Idle, Lighting, Burning
<1> QED
  BY <1>1, <1>2, <1>3 DEF Mode, Idle, Lighting, Burning

\* Each of the five is a step of the supervisor or none.
LEMMA PromiseKept ==
  ASSUME NoStepping, IInv, IInv', [Next]_vars
  PROVE  [Promise!Next]_(Promise!svars)
<1>1. mode \in Mode /\ mode' \in Mode /\ proven \in BOOLEAN /\ proven' \in BOOLEAN
  BY DEF IInv, TypeOK, GrillTypes
<1>2. /\ mode \in Idle => Pot = "out" /\ Known = FALSE
      /\ mode = "Startup" => Pot = "lighting" /\ Known = proven
      /\ mode = "Reignite" => Pot = "relighting" /\ Known = proven
      /\ mode \in Burning => Pot = "burning" /\ Known = FALSE
      /\ mode = "Error" => Pot = "error" /\ Known = FALSE
  BY <1>1, PotIs
<1>3. /\ mode' \in Idle => Pot' = "out" /\ Known' = FALSE
      /\ mode' = "Startup" => Pot' = "lighting" /\ Known' = proven'
      /\ mode' = "Reignite" => Pot' = "relighting" /\ Known' = proven'
      /\ mode' \in Burning => Pot' = "burning" /\ Known' = FALSE
      /\ mode' = "Error" => Pot' = "error" /\ Known' = FALSE
  <2>1. /\ Pot' = CASE mode' \in Idle        -> "out"
                    [] mode' = "Startup"     -> "lighting"
                    [] mode' = "Reignite"    -> "relighting"
                    [] mode' \in Burning     -> "burning"
                    [] mode' = "Error"       -> "error"
        /\ Known' = (mode' \in Lighting /\ proven')
    BY DEF Pot, Known
  <2>2. CASE mode' \in Idle
    BY <1>1, <2>1, <2>2 DEF Idle, Lighting, Burning
  <2>3. CASE mode' \in Lighting
    BY <1>1, <2>1, <2>3 DEF Idle, Lighting, Burning
  <2>4. CASE mode' \in Burning \cup {"Error"}
    BY <1>1, <2>1, <2>4 DEF Idle, Lighting, Burning
  <2> QED
    BY <1>1, <2>2, <2>3, <2>4 DEF Mode, Idle, Lighting, Burning
<1>4. CASE Moves
  <2>1. CASE Stays
    <3>1. CASE mode \in Lighting
      <4>1. /\ Pot' = Pot /\ Pot \in {"lighting", "relighting"}
            /\ Known = proven /\ Known' = proven' /\ retries' = retries
        BY <1>2, <1>3, <2>1, <3>1 DEF Stays, Lighting
      <4>2. Known' = Known \/ Known' = TRUE
        BY <1>1, <2>1, <4>1 DEF Stays
      <4> QED
        BY <4>1, <4>2 DEF Promise!Next, Promise!Catch, Promise!InLight, Promise!svars
    <3>2. CASE mode \notin Lighting
      <4>1. Pot' = Pot /\ Known' = Known /\ retries' = retries
        BY <1>1, <1>2, <1>3, <2>1, <3>2 DEF Stays, Lighting, Burning, Idle, Mode
      <4> QED
        BY <4>1 DEF Promise!svars
    <3> QED
      BY <3>1, <3>2
  <2>2. CASE Lights
    <3>1. /\ Pot # "error" /\ Pot' = "lighting" /\ retries' = Retries
          /\ Known' \in BOOLEAN
      BY <1>1, <1>2, <1>3, <2>2 DEF Lights, Mode, Idle, Lighting, Burning
    <3> QED
      BY <3>1 DEF Promise!Next, Promise!Light
  <2>3. CASE Burns
    <3>1. Pot' = "burning" /\ Known' = FALSE /\ retries' = retries
      BY <1>3, <2>3 DEF Burns
    <3>2. CASE mode \in Burning
      <4>1. Pot = "burning" /\ Known = FALSE
        BY <1>2, <3>2
      <4>2. Known' = Known
        BY <3>1, <4>1, Zenon
      <4>3. Pot' = Pot /\ retries' = retries
        BY <3>1, <4>1
      <4> QED
        BY <4>2, <4>3 DEF Promise!svars
    <3>3. CASE mode \in Lighting /\ (proven \/ phase = "cmd")
      <4>1. Pot \in {"lighting", "relighting"} /\ (Known \/ phase = "cmd")
        BY <1>2, <3>3 DEF Lighting
      <4> QED
        BY <3>1, <4>1 DEF Promise!Next, Promise!HandOver, Promise!InLight
    <3> QED
      BY <2>3, <3>2, <3>3 DEF Burns
  <2>4. CASE GoesOut
    <3>1. /\ Pot' \in {"out", "error"} /\ Known' = FALSE /\ retries' = retries
      BY <1>3, <2>4 DEF GoesOut
    <3> QED
      BY <3>1 DEF Promise!Next, Promise!PutOut, Promise!Fail
  <2>5. CASE LightsAgain
    <3>1. /\ Pot = "burning" /\ Pot' = "relighting" /\ retries > 0
          /\ retries' = retries - 1 /\ Known' \in BOOLEAN
      BY <1>1, <1>2, <1>3, <2>5 DEF LightsAgain
    <3> QED
      BY <3>1 DEF Promise!Next, Promise!Relight
  <2> QED
    BY <1>4, <2>1, <2>2, <2>3, <2>4, <2>5 DEF Moves
<1>5. CASE UNCHANGED vars
  <2>1. mode' = mode /\ proven' = proven /\ retries' = retries
    BY <1>5 DEF vars, grill, fire
  <2>2. Pot' = Pot /\ Known' = Known
    BY <1>1, <1>2, <1>3, <2>1 DEF Mode, Idle, Lighting, Burning
  <2> QED
    BY <2>1, <2>2 DEF Promise!svars
<1> QED
  BY <1>4, <1>5, NextMoves

\* What a daemon boots into, the supervisor may begin with.
LEMMA PromiseBegins == Init => Promise!Init
<1> SUFFICES ASSUME Init PROVE Promise!Init
  OBVIOUS
<1>1. /\ mode \in {"Stop", "Shutdown", "Startup", "Reignite", "Error"}
      /\ proven = FALSE
      /\ retries \in 0 .. Retries
      /\ mode # "Reignite" => retries = Retries
  BY ConfigAssumption DEF Init
<1>2. mode \in Mode /\ proven \in BOOLEAN
  BY <1>1 DEF Mode
<1>3. /\ Pot \in {"out", "lighting", "relighting", "error"} /\ Known = FALSE
      /\ Pot # "relighting" => mode # "Reignite"
  BY <1>1, <1>2, PotIs DEF Idle
<1> QED
  BY <1>1, <1>3 DEF Promise!Init

\* The mode machine keeps the supervisor's promise: fed and left to burn only out
\* of a light, proven or ended by the cook, relit out of burning and out of what
\* its relights leave, put out first after an error (apply_request, run_mode,
\* flameout, enter_mode).
THEOREM MachineKeepsPromise ==
  ASSUME NoStepping
  PROVE  Spec => ImplementsSupervisor
<1>1. IInv /\ IInv' /\ [Next]_vars => [Promise!Next]_(Promise!svars)
  BY PromiseKept
<1> QED
  BY <1>1, PromiseBegins, Invariance, PTL
  DEF Spec, ImplementsSupervisor, Promise!Spec
=============================================================================
