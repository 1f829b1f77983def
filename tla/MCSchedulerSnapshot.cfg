SPECIFICATION Spec
CONSTANTS
  b1 = b1
  w1 = w1
  p1 = p1
  r1 = r1
  Buckets = {b1}
  Writers = {w1}
  Pollers = {p1}
  Rebuilders = {r1}
  Readers = {r1}
  Limit = 2
  Budget = 2
  Account = Account
  Nobody = Nobody
INVARIANTS
  StaleIsExplained
PROPERTIES
  OutboxDrains
  ServedBecomesCurrent
CHECK_DEADLOCK FALSE
