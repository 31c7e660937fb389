SPECIFICATION Spec
CONSTANTS
  SessionCount = 2
  MaxRetries = 2
  FailGate = TRUE
  MaxAttempts = 2
INVARIANTS
  RecordedIsKept
PROPERTIES
  EntriesAreKept
  SettledStays
CHECK_DEADLOCK FALSE
