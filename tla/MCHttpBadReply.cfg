\* A patient client: does a reply of its connection outlive its write?
CONSTANTS
    c1 = c1
    w1 = w1
    w2 = w2
    Conns = {c1}
    Workers = {w1, w2}
    Requests <- Posts
    MaxRequests = 2
    BUFFERSIZE = 5
    PRERESERVE = 1
    Chunks = 2
    Patient = TRUE
    AcceptMayFail = FALSE

SPECIFICATION Safety
SYMMETRY Symmetric
CHECK_DEADLOCK FALSE

INVARIANT
    BadReplyOutlivesWrite
