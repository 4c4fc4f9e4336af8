SPECIFICATION Spec
CONSTANTS
  Progress = {0, 1}
  RestartIds = {}
  Suspicions = {FALSE}
  MaxSeq = 2
  MaxGeneration = 0
  MaxIds = 2
  MaxRevs = 1
  MaxHeads = 1
  MaxWire = 2
INVARIANTS
  NoIdempotencyMismatch
CHECK_DEADLOCK FALSE
