SPECIFICATION Spec
CONSTANTS
  r1 = r1
  r2 = r2
  k1 = k1
  k2 = k2
  i1 = i1
  i2 = i2
  Runs <- TwoRuns
  Keys <- OneKey
  Intents <- OneIntent
  Fences <- ExclusiveOnly
  MaxCrashes = 1
  MaxEffects = 2
PROPERTY
  CompletionTold
CHECK_DEADLOCK FALSE
