\* An EtcdStorage that supplies PrevKv: w1 crashes, shuts down or is cut off, every call may fail, w2 stays.
CONSTANTS
    Workers = {w1, w2}
    Products = {p1}
    NoWorker = NoWorker
    NoProduct = NoProduct
    PrevKvSupplied = TRUE
    LostCap = 1
    FreedCap = 1
    Faults = {"txn", "delete", "get", "watch"}
    Crashable = {w1}
    Expirable = {w1}
    Stoppable = {w1}
SPECIFICATION FairSpec
ACTION_CONSTRAINT EndsOrCutOff
PROPERTIES EndedReleases FreeShardTaken StaleBeliefDropped
CHECK_DEADLOCK FALSE
