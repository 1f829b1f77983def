SPECIFICATION Spec
CONSTANTS
    p1 = p1  p2 = p2
    r1 = r1  r2 = r2  r3 = r3
    Requests = {r1, r2, r3}
    Instances = {p1, p2}
    InstanceOf <- MCInstanceOf
    MaxConcurrency = 1
    QueueLimit = 1
    SlotTTL = 1
    MaxFaults = 1
INVARIANTS
    LimitHolds
    SlotsHaveOwners
    QueueBounded
    RefusalsJustified
PROPERTY LeakEnds
CHECK_DEADLOCK FALSE
