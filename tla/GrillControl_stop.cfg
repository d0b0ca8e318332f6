SPECIFICATION Spec
CONSTANTS
  Recipes <- CookRecipe
  MaxSteps = 3
  Command <- ClearCommands
  AfterStartupMode = "Smoke"
  PrimeOnStartup = FALSE
  PrimeIgnition = TRUE
  AllowManual = FALSE
  RelightEnabled = TRUE
  Retries = 0
  HasShutdownInput = TRUE
INVARIANTS StopMeansStop
