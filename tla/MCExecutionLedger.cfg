SPECIFICATION Spec
CONSTANTS
  jo = jo
  planner = planner
  Principals = {jo, planner}
  KindOf <- MCKinds
  Proposals = {p1, p2}
  Digests = {d1}
  Authorizations = {a1}
  Operations = {o1}
  Keys = {k1}
  Grants <- TwoGrants
  Times = {1, 2}
  MAX_ATTEMPTS = 2
  None = None
SYMMETRY Symmetry
INVARIANTS
  AuthorityRestsOnAnApproval
  UnknownIsTerminal
PROPERTY DenialIsPersistent
CHECK_DEADLOCK FALSE
