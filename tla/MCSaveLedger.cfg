SPECIFICATION Spec
CONSTANTS
  Progress <- MCProgress
  RestartIds = {r1}
  KeepRecent = 1
  KeepGenerations = 1
  RefusedBlobsPerHour = 1
  ReattachEnabled = TRUE
  Lab = TRUE
  MaxSeq = 3
  MaxGeneration = 2
INVARIANTS
  TypeOK
  AnchorRetained
  PendingRetained
  RestartOnce
  CurrentServed
PROPERTIES
  SupersededGenerationFrozen
  RegisterRefined
CHECK_DEADLOCK FALSE
