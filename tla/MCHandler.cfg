\* Every combination of the members that steer the analyzer.
CONSTANTS
    Reasons <- SomeReasons
    Funs <- SomeFuns
    Pages <- SomePages
    Lengths <- SomeLengths
    Results <- SomeResults
    Garbage <- Leftovers

SPECIFICATION Spec
\* A request comes to its end.
CHECK_DEADLOCK FALSE

INVARIANTS
    TypeOK
    AnswerTells
    OwnStatementOnly
    AnswerReadsBack
    ArraysHold
PROPERTY
    ImplementsWorkerLife
