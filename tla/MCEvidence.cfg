SPECIFICATION Spec
CONSTANTS
  Phase <- MCPhase
  MaxRuns = 2
  MaxRoots <- MCMaxRoots
INVARIANTS PassIsEarned ExitIsEvidence BundleIsOneRun ClassNamesFailure
CHECK_DEADLOCK FALSE
