SPECIFICATION Spec
CONSTANTS
  source = source
  register = register  reregister = reregister
  capture = capture  normalize = normalize  build = build
  w1 = w1  w2 = w2
  Workers = {w1, w2}
  Requests = {register, reregister, capture, normalize, build}
  Command <- MCCommand
  MaxIntents = 4
  MaxNames = 1
  MaxFaults = 1
  None = None
SYMMETRY Symmetry
INVARIANTS RequestsRunOnce RunsValidate
PROPERTIES ImplementsProductionRequests
CHECK_DEADLOCK FALSE
