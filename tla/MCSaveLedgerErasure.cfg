SPECIFICATION Spec
CONSTANTS
  Progress <- MCProgress
  RestartIds = {r1}
  KeepRecent = 1
  KeepGenerations = 1
  RefusedBlobsPerHour = 1
  ReattachEnabled = TRUE
  Lab = FALSE
  MaxSeq = 3
  MaxGeneration = 2
INVARIANT NothingStoredAfterErasure
CHECK_DEADLOCK FALSE
