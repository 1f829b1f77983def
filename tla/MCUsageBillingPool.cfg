SPECIFICATION FairSpec
CONSTANTS
    t1 = t1  t2 = t2  t3 = t3
    r1 = r1  r2 = r2
    f1 = f1  f2 = f2  f3 = f3
    Tasks = {t1, t2, t3}
    Requests = {r1, r2}
    Fingerprints = {f1, f2, f3}
    RequestOf <- MCRequestOf
    FingerprintOf <- MCFingerprintOf
    Cost <- MCCost
    PoolSize = 2
    QueueSize = 1
    Policy = "sample"
    Quota = 3
    Limit = 4
    Jobs = {j1, j2}
    BatchSize = 1
    MaxCleanups = 3
    MaxFaults = 1
INVARIANTS
    ChargedOncePerRequest
    BooksAgree
    CrossingsAreReported
PROPERTY AcceptedTasksFinish
CHECK_DEADLOCK FALSE
