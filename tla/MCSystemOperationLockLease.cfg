SPECIFICATION Spec
CONSTANTS
    Fingerprints = {o1, o2, o3}
    TTL = 9
    Timeout = 6
    Interval = 2
    MaxAcquire = 1
    MaxHold = 8
    MaxTime = 10
    MaxFaults = 1
INVARIANTS
    LeaseExclusive
SYMMETRY OperationSymmetry
CHECK_DEADLOCK FALSE
