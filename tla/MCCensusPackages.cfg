SPECIFICATION Spec
CONSTANTS
  c1 = c1
  c2 = c2
  n1 = n1
  n2 = n2
  b1 = b1
  b2 = b2
  p1 = p1
  p2 = p2
  p3 = p3
  d1 = d1
  None = None
  Calls = {c1, c2}
  Normalizations = {n1, n2}
  Builds = {b1, b2}
  Packages = {p1, p2, p3}
  Deliveries = {d1}
  CapturedAt <- MCCapturedAt
  FinishedAt <- MCCapturedAt
  PolicyEnds <- MCPolicyEnds
  SourceRecord <- MCSourceRecord
  BuildRequests <- MCBuildRequests
  PackageRequests <- MCPackageRequests
  DeliveryRequests <- MCDeliveryRequests
  HistoryBound = 2
  MaxAge = 1
  Artifacts = 2
  MaxTime = 2
SYMMETRY Symmetry
INVARIANTS
  TypeOK
  HistoryIsReadable
  UnfinishedPackagesCanBeFinished
  AnswersAreConfirmed
PROPERTY
  ReleasedUnderCurrentPermission
