SPECIFICATION TreasurySpec
CONSTANTS
  b1 = b1
  b2 = b2
  Budgets = {b1}
  Limit <- MCLimit
  Assets = {x1}
  Proposals = {p1, p2, p3}
  Authorizations = {a1}
  Amounts = {1, 2}
  Windows <- MCWindows
  Times = {2, 3}
  MAX_MOVEMENTS = 3
  MAX_DISPATCHES = 2
  Nothing = Nothing
SYMMETRY Symmetry
INVARIANTS
  ChainAccountsForEveryMovement
  DispatchesAreHeld
PROPERTY DenialIsPersistent
CHECK_DEADLOCK FALSE
