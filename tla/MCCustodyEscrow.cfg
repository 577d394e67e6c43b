SPECIFICATION Spec
CONSTANTS
  t1 = t1
  t2 = t2
  seller = seller
  buyer = buyer
  referee = referee
  o1 = o1
  o2 = o2
  o3 = o3
  e1 = e1
  e2 = e2
  e3 = e3
  c1 = c1
  c2 = c2
  Trades = {t1, t2}
  Parties <- MCParties
  Operators = {o1, o2, o3}
  Conditions = {c1, c2}
  Evidence = {e1, e2, e3}
  Deals <- MCDeals
  Receipts <- MCReceipts
  Rotations <- MCRotations
  Endowment = 5
  InitialSigners = {o1, o2, o3}
  InitialThreshold = 2
  ROTATION_DELAY = 1
  MAX_TIME = 4
  None = None
INVARIANTS
  VaultCoversEscrows
  OneAgreement
  BufferFollowsTheRuling
  ThresholdReachable
PROPERTY ImplementsEscrowAccounts
CHECK_DEADLOCK FALSE
