SPECIFICATION LiveSpec
CONSTANTS
  Writers = {w1, w2, w3}
  Batches = {x, y, z}
  MAX_VERSIONS = 2
  None = None
  Abandoned = Abandoned
INVARIANTS
  NoBatchTwice
  ConfirmedSavesAreKept
  WritersTakeTurns
PROPERTIES
  ImplementsVersionedLog
  LockIsReturned
