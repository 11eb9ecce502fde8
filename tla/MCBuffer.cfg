\* Every operation in any order.
CONSTANTS
    Data = {"0", "a", "b"}
    Zero = "0"
    BUFFERSIZE = 4
    PRERESERVE = 1
    MaxSize = 8
    Strings <- Words

SPECIFICATION Spec
\* The model ends where the positions have left the array.
CHECK_DEADLOCK FALSE

INVARIANT
    PositionsInOrder
PROPERTY
    ImplementsByteQueue
