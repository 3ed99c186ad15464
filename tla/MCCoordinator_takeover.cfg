\* The code with etcd as it is: w1 crashes, w2 stays.
CONSTANTS
    Workers = {w1, w2}
    Products = {p1}
    NoWorker = NoWorker
    NoProduct = NoProduct
    PrevKvSupplied = FALSE
    LostCap = 1
    FreedCap = 1
    Faults = {}
    Crashable = {w1}
    Expirable = {}
    Stoppable = {}
SPECIFICATION FairSpec
PROPERTIES FreeShardTaken
CHECK_DEADLOCK FALSE
