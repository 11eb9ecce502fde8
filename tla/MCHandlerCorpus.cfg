\* Does a statement hold the corpus of its request?
CONSTANTS
    Reasons <- SomeReasons
    Funs <- SomeFuns
    Pages <- SomePages
    Lengths <- SomeLengths
    Results <- SomeResults
    Garbage <- Leftovers

SPECIFICATION Spec
\* A request comes to its end.
CHECK_DEADLOCK FALSE

INVARIANT
    StatementHoldsCorpus
