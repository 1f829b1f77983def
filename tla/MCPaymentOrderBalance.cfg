SPECIFICATION Spec
CONSTANTS
    Workers = {w1, w2}
    OrderType = "balance"
    PayAmount = 2
    Amounts = {1, 2}
    Tolerance = 0
    Timeout = 1
    Grace = 1
    MaxTime = 3
    Cancelable = TRUE
    Faults = {"db", "read", "mark", "audit", "reread", "query", "provider", "crash"}
    MaxFaults = 2
INVARIANTS
    CreditNeedsPayment
    FulfilmentExclusive
    RebateAtMostOnce
PROPERTIES
    PaidStaysPaid
    ImplementsLedger
SYMMETRY WorkerSymmetry
CHECK_DEADLOCK FALSE
