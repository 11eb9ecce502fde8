\* Request lines and headers of every kind.
CONSTANTS
    Pieces <- HeadPieces
    MaxPieces = 7

SPECIFICATION Spec
CHECK_DEADLOCK FALSE

INVARIANTS
    TypeOK
    GoodIsHead
    RejectsAtOnce
    HeadersAreFields
