SPECIFICATION Spec
CONSTANTS
  Retries = 1
  PowerRecovery = TRUE
  Stale = 1
  Updates = 1
  DurableUnlink = TRUE
INVARIANTS OnceACook
