SPECIFICATION Spec
CONSTANTS
  Providers <- AllProviders
  MaxRuns = 3
INVARIANTS
  CheckpointFollows
  VerifierSeesPatch
  NothingRefused
  EndsDecided
PROPERTY
  Terminates
CHECK_DEADLOCK FALSE
