SPECIFICATION Spec
CONSTANTS
  Progress = {0, 1}
  RestartIds = {r1}
  Suspicions = {FALSE}
  MaxSeq = 2
  MaxGeneration = 1
  MaxIds = 2
  MaxRevs = 1
  MaxHeads = 1
  MaxWire = 2
PROPERTIES
  RatchetHolds
CHECK_DEADLOCK FALSE
