SPECIFICATION FairSpec
CONSTANTS
  Recipes <- LiveRecipes
  MaxSteps = 3
  Command <- LiveCommands
  AfterStartupMode = "Smoke"
  PrimeOnStartup = FALSE
  PrimeIgnition = TRUE
  AllowManual = FALSE
  RelightEnabled = TRUE
  Retries = 1
  HasShutdownInput = FALSE
PROPERTIES RecipeGoesOn
