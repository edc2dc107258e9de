SPECIFICATION Spec
CONSTANTS
  Providers <- FixtureOnly
  MaxRuns = 1
INVARIANT
  ReleasedWithBothSuites
CHECK_DEADLOCK FALSE
