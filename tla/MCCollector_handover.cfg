\* Two processes and no lease is lost, one that may lose it, or one that robs the other (see MCCollector).
CONSTANTS
    Workers = {w1, w2}
    Products = {p1}
    NoWorker = NoWorker
    NoProduct = NoProduct
    PrevKvSupplied = TRUE
    LostCap = 1
    FreedCap = 1
    Faults = {}
    Crashable = {w1}
    Expirable = {w1}
    Stoppable = {w1}
    MaxGoroutines = 2
SPECIFICATION MCSpec
INVARIANTS SingleWhileLeased NoSendWhileLeased UntrackedWereDetached ClosedOnDetached
CHECK_DEADLOCK FALSE
