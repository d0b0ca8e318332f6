SPECIFICATION Spec
CONSTANTS
  Recipes <- NoRecipes
  MaxSteps = 1
  Command <- ModeCommands
  AfterStartupMode = "Smoke"
  PrimeOnStartup = TRUE
  PrimeIgnition = TRUE
  AllowManual = TRUE
  RelightEnabled = TRUE
  Retries = 2
  HasShutdownInput = TRUE
INVARIANTS ErrorIsDark
PROPERTIES ImplementsSupervisor
