\* Two consumers, of which one may be killed; requests to Kafka fail.
CONSTANTS
    p1 = p1
    p2 = p2
    Consumers = {c1, c2}
    Partitions = {p1, p2}
    Size = 2
    Scenarios <- MCScenarios
    Window = 2
    Slide = 1
    Endangered = {c1}
SPECIFICATION Spec
INVARIANTS CommittedWereHandled CommittedReported
PROPERTIES ReviewsReported StopEnds
CHECK_DEADLOCK FALSE
