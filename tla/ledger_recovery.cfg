SPECIFICATION Spec
CONSTANTS
  r1 = r1
  r2 = r2
  k1 = k1
  k2 = k2
  i1 = i1
  i2 = i2
  Runs <- TwoRuns
  Keys <- TwoKeys
  Intents <- TwoIntents
  Fences <- AnyFence
  MaxCrashes = 2
  MaxEffects = 4
CONSTRAINT FewOverlaps
INVARIANTS
  EffectsAsIntended
  

  
SYMMETRY LedgerSymmetry
CHECK_DEADLOCK FALSE
