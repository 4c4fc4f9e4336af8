SPECIFICATION FairSpec
CONSTANTS
  Messages = {m1}
  Consumers = {c1, c2}
  Workers = {w1, w2}
  Nobody = Nobody
  MaxAttempts = 2
  Batch = 2
  MaxMishaps = 1
  MaxReplays = 1
INVARIANTS
  TypeOK
  DeadLettersMatch
PROPERTIES
  FanoutRefined
  EventuallySettled
CHECK_DEADLOCK FALSE
