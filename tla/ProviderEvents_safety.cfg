SPECIFICATION Spec
CONSTANTS
  Webhooks = {r1}
  Sweeps = {r1}
  MaxJobs = 2
  MaxTries = 1
  MaxStalls = 1
  MaxRetries = 1
INVARIANTS TypeOK EffectOnce
PROPERTIES OutcomeByLastClaimer TakeoverIsNewer OnlyOperatorReopens ImplementsOutcome
CHECK_DEADLOCK FALSE
