SPECIFICATION Spec
CONSTANTS
  Recipes <- SomeRecipes
  MaxSteps = 3
  Command <- RecipeCommands
  AfterStartupMode = "Smoke"
  PrimeOnStartup = FALSE
  PrimeIgnition = TRUE
  AllowManual = FALSE
  RelightEnabled = TRUE
  Retries = 0
  HasShutdownInput = TRUE
INVARIANTS StopIsFinal FinishIsFinal
