\* Streams with and without messages that cannot be read or stored, each with its faults.
CONSTANTS
    Streams <- MCStreams
    Events = {"no ack", "no write", "crash", "stop"}
    Length = 3
    BatchSize = 2
    FetchSize = 2
    MaxDeliver = 3
    MaxStarts = 2
SPECIFICATION Spec
INVARIANTS AckedAccounted NewestWins GivenUpWasCut
PROPERTIES HandledInTheEnd BufferEmpties
CHECK_DEADLOCK FALSE
