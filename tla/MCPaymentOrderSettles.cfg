SPECIFICATION FairSpec
CONSTANTS
    Workers = {w1, w2}
    OrderType = "subscription"
    PayAmount = 2
    Amounts = {2}
    Tolerance = 0
    Timeout = 1
    Grace = 0
    MaxTime = 2
    Cancelable = FALSE
    Faults = {"db", "read", "audit", "reread", "query"}
    MaxFaults = 1
PROPERTY PaymentSettles
CHECK_DEADLOCK FALSE
