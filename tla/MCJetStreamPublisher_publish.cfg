\* Three aggregates: two windows and a late update of the first.
CONSTANTS
    k1 = k1
    k2 = k2
    Key <- MCKey
    AckCap = 1
    MaxRetries = 1
SPECIFICATION FairSpec
INVARIANTS PendingCounts StoredOnce AckedKeyStored
PROPERTIES LogKept AcceptedSettles CloseEnds
CHECK_DEADLOCK FALSE
