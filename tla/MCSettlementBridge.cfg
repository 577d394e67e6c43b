SPECIFICATION Spec
CONSTANTS
  seller = seller
  buyer = buyer
  referee = referee
  o1 = o1
  o2 = o2
  c1 = c1
  t1 = t1
  Trades = {t1}
  Parties = {seller, buyer, referee}
  Operators = {o1, o2}
  Conditions = {c1}
  Evidence <- MCDecisions
  Windows = {0, 3}
  Nonces = {0, 1, 2}
  Deals <- MCDeals
  Receipts <- BuiltReceipts
  Rotations = {}
  Endowment = 5
  InitialSigners = {o1, o2}
  InitialThreshold = 2
  ROTATION_DELAY = 1
  MAX_TIME = 6
  None = None
INVARIANT ReversalOfTheReleaseDiverts
CHECK_DEADLOCK FALSE
