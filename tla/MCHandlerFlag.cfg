\* Is the flag of a ClientReq one of the documented values?
CONSTANTS
    Reasons <- SomeReasons
    Funs <- SomeFuns
    Pages <- SomePages
    Lengths <- SomeLengths
    Results <- SomeResults
    Garbage <- Leftovers

SPECIFICATION Spec
\* A request comes to its end.
CHECK_DEADLOCK FALSE

INVARIANT
    FlagIsDocumented
