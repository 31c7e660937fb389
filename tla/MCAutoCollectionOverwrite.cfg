SPECIFICATION Spec
CONSTANTS
  SessionCount = 2
  MaxRetries = 1
  FailGate = TRUE
  MaxAttempts = 2
PROPERTY
  CompletedIsNotOverwritten
CHECK_DEADLOCK FALSE
