SPECIFICATION ExportSpec
CONSTANTS
  t1 = t1
  s1 = s1
  f1 = f1
  Tasks <- OneTask
  Scopes <- OneScope
  Changes <- OneScope
  Signatures <- OneSignature
  Requests <- ReadRequests
  PublishedTypes <- ReportsOnly
  ExpectedStates <- AskedFor
  Reasons <- Unexplained
  MaxVersion = 4
  MaxArtifacts = 3
  MaxApprovals = 1
  MaxEffectEvents = 1
CONSTRAINT FewRows
INVARIANTS
  TornForwardOnly
  EventsBacked
  InvalidOnlyIfTorn
  VerdictCarriesOver
  VerdictStands
  ClosedPackSettled
  AdviceHolds
CHECK_DEADLOCK FALSE
