\* Does append put data into the buffer?
CONSTANTS
    Data = {"0", "a", "b"}
    Zero = "0"
    BUFFERSIZE = 4
    PRERESERVE = 1
    MaxSize = 8
    Strings <- Words

SPECIFICATION Spec
CHECK_DEADLOCK FALSE

PROPERTY
    AppendPutsDataIn
