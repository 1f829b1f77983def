SPECIFICATION Spec
CONSTANTS
  e1 = e1  e2 = e2
  day = day  month = month
  i1 = i1  i2 = i2
  w1 = w1  l1 = l1  f1 = f1
  Events = {e1, e2}
  Fields = {day, month}
  Closing = {day}
  Scope = {}
  FieldsOf <- MCFieldsOf
  TokensOf <- MCTokensOf
  Home <- MCHome
  Instances = {i1, i2}
  Workers = {w1}
  Loops = {l1}
  Finalizers = {f1}
  QueueCap = 1
  Retries = 1
  MaxFaults = 0
  Nobody = Nobody
  NoEvent = NoEvent
INVARIANT
  DeletionLosesNothing
CHECK_DEADLOCK FALSE
