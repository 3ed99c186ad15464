\* The watermark is at least the window: the ledger is kept.
CONSTANTS
    r1 = r1
    r2 = r2
    r3 = r3
    r4 = r4
    p1 = p1
    p2 = p2
    Reviews <- MCReviews
    Date <- MCDate
    Product <- MCProduct
    Window = 2
    Watermark = 2
    InCap = 1
    OutCap = 1
    MaxTime = 7
SPECIFICATION FairSpec
INVARIANTS NothingForgotten FlushedIsCurrent
PROPERTY LedgerKept
CHECK_DEADLOCK FALSE
