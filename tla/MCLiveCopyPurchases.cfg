SPECIFICATION LiveSpec
CONSTANTS
  Handlers = {x1, x2}
  Paid = {k1}
  Recruits = {m1}
  MaxActs = 1
INVARIANTS
  PurchaseKept
CHECK_DEADLOCK FALSE
