SPECIFICATION Spec
CONSTANTS
  t1 = t1
  t2 = t2
  s1 = s1
  s2 = s2
  f1 = f1
  f2 = f2
  Tasks <- TwoTasks
  Scopes <- TwoScopes
  Changes <- SomeChanges
  Signatures <- OneSignature
  Requests <- ApprovalRequests
  PublishedTypes <- BundlesOnly
  ExpectedStates <- AwaitingOnly
  Reasons <- Unexplained
  MaxVersion = 4
  MaxArtifacts = 1
  MaxApprovals = 2
INVARIANTS
  TypeOK
  DecidedWhileCurrent
  BundlesInScope
  PatchedFromLastApproval
PROPERTIES
  DecisionsFinal
  OracleAccepts
SYMMETRY TaskSymmetry
CHECK_DEADLOCK FALSE
