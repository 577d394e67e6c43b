SPECIFICATION Spec
CONSTANTS
  k1 = k1
  k2 = k2
  w1 = w1
  Calls = {k1, k2}
  Callers = {w1}
  Commands <- AuthorCommands
  Seed <- SeedDefinitions
  Reviewer <- ReviewerDefinition
  TOPIC = "review"
  PAGE = 1
  FINDINGS = {"RECOMPUTED_LOCAL", "UNAVAILABLE"}
  MAX_DEFINITIONS = 3
  MAX_MESSAGES = 4
  MAX_LOG = 7
  None = None
  Abandoned = Abandoned
SYMMETRY Symmetry
INVARIANTS
  TypeOK
  OneMessagePerRequest
  ReceiptFollowsOneResult
  ScanMissesNothing
PROPERTIES
  AnsweredCommandsStayOnTheBoard
  ImplementsAtomicBoard
