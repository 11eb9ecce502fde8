\* One connection whose client waits for an answer before it sends more.
CONSTANTS
    c1 = c1
    w1 = w1
    w2 = w2
    Conns = {c1}
    Workers = {w1, w2}
    Requests <- AllRequests
    MaxRequests = 3
    BUFFERSIZE = 4
    PRERESERVE = 1
    Chunks = 2
    Patient = TRUE
    AcceptMayFail = FALSE

SPECIFICATION Safety
SYMMETRY Symmetric
CHECK_DEADLOCK FALSE

INVARIANTS
    OneInHand
    ViewsStayValid
    RepliesNotInterleaved
    AtMostOneOk
