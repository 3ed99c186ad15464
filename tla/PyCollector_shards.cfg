\* w1 may lose its lease or crash, both may stop; requests to etcd and NATS fail.
CONSTANTS
    Workers = {w1, w2}
    Products = {p1}
    NoWorker = NoWorker
    NoProduct = NoProduct
    MaxReviews = 2
    Faults = {"start", "get", "txn", "delete", "nats"}
    Crashable = {w1}
    Expirable = {w1}
    Stoppable = {w1, w2}
SPECIFICATION Spec
INVARIANTS HeldIsKnown LeasedBeliefHeld RecordedArePublished
PROPERTIES OnlyLosersRob EndedReleases ProductCollected
CHECK_DEADLOCK FALSE
