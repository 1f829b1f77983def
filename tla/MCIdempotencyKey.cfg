SPECIFICATION Spec
CONSTANTS
    Clients = {c1, c2}
    Fingerprints = {f1, f2}
    TTL = 4
    Timeout = 3
    Backoff = 1
    MaxExec = 2
    MaxTime = 6
    MaxFaults = 2
INVARIANTS
    ExecutesAlone
    ReplayIsGenuine
    OncePerFirstLife
SYMMETRY RequestSymmetry
CHECK_DEADLOCK FALSE
