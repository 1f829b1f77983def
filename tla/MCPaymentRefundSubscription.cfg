SPECIFICATION RefundSpec
CONSTANTS
    Workers = {w1}
    OrderType = "subscription"
    PayAmount = 2
    Amounts = {2}
    Tolerance = 0
    Timeout = 1
    Grace = 1
    MaxTime = 0
    Cancelable = FALSE
    Faults = {"db", "mark", "gateway", "ambiguous", "rollback", "crash"}
    MaxFaults = 3
    Refunders = {r1, r2}
    Amount = 2
    RefundAmounts = {1, 2}
    Opening = 1
    MaxSpend = 3
INVARIANTS
    CreditedAtMostOnce
    RestedIsWhole
SYMMETRY HandlerSymmetry
CHECK_DEADLOCK FALSE
