SPECIFICATION Spec
CONSTANTS
  SessionCount = 2
  MaxRetries = 1
  FailGate = TRUE
  MaxAttempts = 2
INVARIANT
  KilledChildIsNotEligible
CHECK_DEADLOCK FALSE
