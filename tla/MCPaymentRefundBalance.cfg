SPECIFICATION RefundSpec
CONSTANTS
    Workers = {w1, w2}
    OrderType = "balance"
    PayAmount = 2
    Amounts = {2}
    Tolerance = 0
    Timeout = 1
    Grace = 1
    MaxTime = 0
    Cancelable = FALSE
    Faults = {"db", "reread", "gateway", "rollback", "crash"}
    MaxFaults = 2
    Refunders = {r1, r2}
    Amount = 2
    RefundAmounts = {1, 2}
    Opening = 1
    MaxSpend = 1
INVARIANTS
    RefundExclusive
    DeductedAtMostOnce
    RefundedIsPaidBack
PROPERTY
    ImplementsLedger
SYMMETRY HandlerSymmetry
CHECK_DEADLOCK FALSE
