SPECIFICATION KernelSpec
CONSTANTS
  Ids = {a, b, c}
  Texts = {t1, t2}
  CommandIds = {k1, k2, k3, k4, k5, k6}
  Absent = Absent
  MAX_COMMANDS = 6
  MAX_NOTATIONS = 2
  MAX_RELATIONS = 1
SYMMETRY Symmetry
INVARIANTS
  NoInternalError
  IdentitiesAreReserved
PROPERTY ImplementsLinearHistory
CHECK_DEADLOCK FALSE
