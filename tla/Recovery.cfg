SPECIFICATION Spec
CONSTANTS
  Retries = 2
  PowerRecovery = TRUE
  Stale = 1
  Updates = 1
  DurableUnlink = TRUE
INVARIANTS OnceAnUpdate RelightBudget
PROPERTIES OnlyItsFireIsRelit ResumeIsSeamless
