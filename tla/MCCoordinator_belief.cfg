\* The code with etcd as it is: DELETE events carry no PrevKv.
CONSTANTS
    Workers = {w1, w2}
    Products = {p1}
    NoWorker = NoWorker
    NoProduct = NoProduct
    PrevKvSupplied = FALSE
    LostCap = 1
    FreedCap = 1
    Faults = {"txn", "watch"}
    Crashable = {}
    Expirable = {w1, w2}
    Stoppable = {w1, w2}
SYMMETRY WorkerSymmetry
SPECIFICATION Spec
INVARIANTS BeliefBacked WonBacked ExclusiveBelief
CHECK_DEADLOCK FALSE
