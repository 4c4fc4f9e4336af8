SPECIFICATION FairSpec
CONSTANTS
  Messages = {m1}
  Consumers = {c1}
  Workers = {w1, w2}
  Nobody = Nobody
  MaxAttempts = 2
  Batch = 1
  MaxMishaps = 1
  MaxReplays = 1
PROPERTIES
  DeliveredRowsPurged
CHECK_DEADLOCK FALSE
