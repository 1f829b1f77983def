SPECIFICATION Spec
CONSTANTS
  l1 = l1  l2 = l2  r1 = r1  i1 = i1  i2 = i2  Free = Free
  Loops = {l1, l2}
  Requests = {r1}
  Instances = {i1, i2}
  InstanceOf <- MCInstanceOf
  MaxGen = 2
  MaxRetries = 2
  MaxFaults = 2
INVARIANTS
  ErrorIsDeserved
  NoTokenLost
  StaleCacheExplained
PROPERTIES
  CredentialsAdvance
  TokenIsRenewed
CHECK_DEADLOCK FALSE
