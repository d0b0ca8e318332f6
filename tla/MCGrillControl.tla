--------------------------- MODULE MCGrillControl ---------------------------
(* Instances of GrillControl for TLC: two recipes, and what may be pushed.   *)
EXTENDS GrillControl

Step(m, e) == [mode |-> m, ends |-> e]

\* A cook with a prompt and a finish of its own; one with its finish in the
\* middle, which begins without a Startup step and waits for the lid; and one
\* that leaves the grill lit.
Cook  == <<Step("Startup", "empty"), Step("Smoke", "prompt"),
           Step("Shutdown", "empty")>>
Twice == <<Step("Hold", "lid"), Step("Shutdown", "empty"),
           Step("Startup", "empty")>>
Short == <<Step("Hold", "facts"), Step("Smoke", "empty")>>

NoRecipes    == {}
SomeRecipes  == {Cook, Twice}
LiveRecipes  == {Cook, Twice, Short}
CookRecipe   == {Cook}

\* Whatever a client, the panel or the tuner may send to a grill with no recipe.
ModeCommands ==
  [type : {"stop", "setpoint", "clear_error"}]
    \cup [type : {"mode"}, mode : Mode, force : {FALSE}]
    \cup [type : {"mode"}, mode : Burning, force : {TRUE}]
    \cup [type : {"manual"}, out : Output, on : BOOLEAN]
    \cup [type : {"prime"}, next : {"Startup", "Stop"}]

\* The recipe's own commands and the ways to end a cook.
EndCommands ==
  [type : {"stop"}] \cup [type : {"mode"}, mode : {"Shutdown", "Stop"}, force : {FALSE}]

StepCommands ==
  [type : {"recipe_next", "recipe_stop"}]
    \cup [type : {"recipe_start"}, recipe : Recipes]

RecipeCommands ==
  EndCommands \cup StepCommands
    \cup [type : {"recipe_skip", "recipe_back", "setpoint"}]
    \cup [type : {"mode"}, mode : {"Hold"}, force : {FALSE}]
    \cup [type : {"recipe_flag"}, step : StepNo, flag : {Pause, Skip}]

LiveCommands ==
  StepCommands \cup [type : {"recipe_flag"}, step : {2}, flag : Flag]

\* What the recorded disagreement needs, and no more.
ClearCommands == [type : {"recipe_start"}, recipe : {Cook}] \cup [type : {"clear_error"}]
=============================================================================
