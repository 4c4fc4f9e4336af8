SPECIFICATION MCSpec
CONSTANTS
  Progress = {0, 1}
  RestartIds = {r1, r2}
  Suspicions = {TRUE, FALSE}
  MaxSeq = 2
  MaxGeneration = 2
  MaxIds = 2
  MaxRevs = 1
  MaxHeads = 1
  MaxWire = 2
SYMMETRY MCSymmetry
INVARIANTS
  TypeOK
  CleanMeansStored
  SyncedAnchored
  GenerationsApart
PROPERTIES
  PersistedBeforeSent
CHECK_DEADLOCK FALSE
