\* Both dashboards, as they are and repaired; a queue of one aggregate, a memory of two.
CONSTANTS
    t1 = t1
    t2 = t2
    Tabs <- MCTabs
    Length = 4
    Scenarios <- MCScenarios
    Capacity = 1
    MaxAggregates = 2
    NoMessage = NoMessage
SPECIFICATION FairSpec
INVARIANT InOrder
PROPERTIES FrozenAsWritten ShownInTheEnd
CHECK_DEADLOCK FALSE
