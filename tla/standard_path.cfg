SPECIFICATION Spec
CONSTANTS
  t1 = t1
  t2 = t2
  s1 = s1
  s2 = s2
  f1 = f1
  f2 = f2
  Tasks <- OneTask
  Scopes <- OneScope
  Changes <- OneChange
  Signatures <- NoSignatures
  Requests <- StandardRequests
  PublishedTypes <- StandardTypes
  ExpectedStates <- AwaitingOnly
  Reasons <- Unexplained
  MaxVersion = 11
  MaxArtifacts = 3
  MaxApprovals = 2
INVARIANT
  ReleasedFromLastApproval
CHECK_DEADLOCK FALSE
