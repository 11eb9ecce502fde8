\* Liveness for two connections, whose clients may leave at any time.
CONSTANTS
    c1 = c1
    c2 = c2
    w1 = w1
    w2 = w2
    Conns = {c1, c2}
    Workers = {w1, w2}
    Requests <- SomeDeafen
    MaxRequests = 1
    BUFFERSIZE = 5
    PRERESERVE = 1
    Chunks = 1
    Patient = TRUE
    AcceptMayFail = TRUE

SPECIFICATION Spec
CHECK_DEADLOCK FALSE

PROPERTIES
    BacklogServed
    EveryRequestHeard
    EveryRequestAnswered
    DepartedReleased
