\* One connection whose client does not wait; accept may fail.
CONSTANTS
    c1 = c1
    w1 = w1
    w2 = w2
    Conns = {c1}
    Workers = {w1, w2}
    Requests <- EveryRequest
    MaxRequests = 2
    BUFFERSIZE = 5
    PRERESERVE = 1
    Chunks = 2
    Patient = FALSE
    AcceptMayFail = TRUE

SPECIFICATION Safety
SYMMETRY Symmetric
\* When every client is done the server waits for a connection.
CHECK_DEADLOCK FALSE

INVARIANTS
    TypeOK
    OneReader
    ReadHasRoom
    ViewsAreBodies
    ViewsAdvance
    ObjectBodyIsLast
    RejectionEndsReading
    ReadingGoesOn
    EachRequestOnce
    AcceptKeepsServiceRunning

PROPERTIES
    ServerIsTaskQueue
    WorkersLive
