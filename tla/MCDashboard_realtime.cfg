\* The Kafka dashboard as it is.
CONSTANTS
    t1 = t1
    t2 = t2
    Tabs <- MCTabs
    Length = 4
    Scenarios <- MCScenarios
    Capacity = 1
    MaxAggregates = 2
    NoMessage = NoMessage
SPECIFICATION FairSpec
PROPERTY ShownInRealTime
CHECK_DEADLOCK FALSE
