\* Three workers, two callers, two tasks, shutdown at any time.
CONSTANTS
    w1 = w1
    w2 = w2
    c1 = c1
    c2 = c2
    t1 = t1
    t2 = t2
    w3 = w3
    Workers = {w1, w2, w3}
    Callers = {c1, c2}
    Destroyer = Destroyer
    Nobody = Nobody
    Task = {t1, t2}
    NoTask = NoTask

SPECIFICATION Spec
\* Once the pool is destroyed the program has nothing left to do with it.
CHECK_DEADLOCK FALSE

INVARIANTS
    TypeOK
    NoIdleWorker
    NobodySleepsThroughStop
    Drained
    ExactlyOnce
PROPERTIES
    ImplementsTaskQueue
    DestructorReturns
    EnqueueReturns
