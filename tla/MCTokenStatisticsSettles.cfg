SPECIFICATION Spec
CONSTANTS
  e1 = e1  e2 = e2
  day = day  month = month
  i1 = i1  i2 = i2
  w1 = w1  l1 = l1  f1 = f1
  Events = {e1, e2}
  Fields = {day, month}
  Closing = {day}
  Scope = {month}
  FieldsOf <- MCSecondOfDay
  TokensOf <- MCTokensOf
  Home <- MCHome
  Instances = {i1, i2}
  Workers = {w1}
  Loops = {l1}
  Finalizers = {f1}
  QueueCap = 1
  Retries = 0
  MaxFaults = 1
  Nobody = Nobody
  NoEvent = NoEvent
INVARIANTS
  UnsyncedIsMarked
  DeletedIsPersisted
  VersionTellsValue
  ResetCoversUsage
PROPERTIES
  HistoryAdvances
  UsageIsPersisted
  PeriodIsCleared
CHECK_DEADLOCK FALSE
