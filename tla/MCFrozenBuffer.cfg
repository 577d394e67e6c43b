SPECIFICATION Spec
CONSTANTS
  t1 = t1
  t2 = t2
  seller = seller
  buyer = buyer
  referee = referee
  o1 = o1
  o2 = o2
  o3 = o3
  e1 = e1
  e2 = e2
  e3 = e3
  c1 = c1
  c2 = c2
  Trades = {t1}
  Parties <- MCParties
  Operators = {o1, o2}
  Conditions = {c1, c2}
  Evidence = {e1, e2, e3}
  Deals <- MCDeals
  Receipts <- OneTradeReceipts
  Rotations <- NoRotations
  Endowment = 5
  InitialSigners = {o1, o2}
  InitialThreshold = 2
  ROTATION_DELAY = 1
  MAX_TIME = 6
  None = None
INVARIANT NoDepositLockedForever
CHECK_DEADLOCK FALSE
