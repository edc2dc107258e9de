SPECIFICATION Spec
CONSTANTS
  p1 = p1
  p2 = p2
  d1 = d1
  k1 = k1
  Processes <- TwoProcesses
  Drafts <- OneDraft
  Skills <- OneSkill
  Packs <- ExportedPacks
  Signatures <- SomeSignatures
  TitleOf <- SomeTitles
  Sensitive <- SensitiveOnes
  Echoes <- SomeEchoes
  Contradicts <- SomeContradicts
  MaxIngests = 2
  MaxVersions = 3
  MaxRollbacks = 1
CONSTRAINT FewSteps
INVARIANT PoolDistills
SYMMETRY ProcessSymmetry
