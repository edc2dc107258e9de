SPECIFICATION Spec
CONSTANTS
  t1 = t1
  t2 = t2
  s1 = s1
  s2 = s2
  f1 = f1
  f2 = f2
  Tasks <- OneTask
  Scopes <- OneScope
  Changes <- OneChange
  Signatures <- NoSignatures
  Requests <- ApprovalRequests
  PublishedTypes <- BundlesOnly
  ExpectedStates <- AwaitingOnly
  Reasons <- Unexplained
  MaxVersion = 4
  MaxArtifacts = 1
  MaxApprovals = 1
INVARIANT
  PatchedOnlyWithApproval
CHECK_DEADLOCK FALSE
