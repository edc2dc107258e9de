SPECIFICATION Spec
CONSTANTS
  t1 = t1
  t2 = t2
  s1 = s1
  s2 = s2
  f1 = f1
  f2 = f2
  Tasks <- OneTask
  Scopes <- OneScope
  Changes <- OneChange
  Signatures <- OneSignature
  Requests <- RoundRequests
  PublishedTypes <- ReportsOnly
  ExpectedStates <- AwaitingOnly
  Reasons <- Unexplained
  MaxVersion = 8
  MaxArtifacts = 4
  MaxApprovals = 0
INVARIANTS
  ChainIntact
  WrittenWhereAllowed
  VerifiedByPass
  RetriesBounded
  VerifiedPackValid
PROPERTY
  ImplementsGate
CHECK_DEADLOCK FALSE
