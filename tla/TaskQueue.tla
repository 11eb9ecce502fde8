----------------------------- MODULE TaskQueue -----------------------------
(***************************************************************************)
(* What a thread pool promises to the code that uses it, with no mutex, no *)
(* condition variable and no thread in sight: tasks are started in the     *)
(* order they were submitted, at most Size of them are running at once,    *)
(* each one runs to its end exactly once, and after the pool has been      *)
(* closed nothing is accepted but everything accepted is still run.        *)
(***************************************************************************)
EXTENDS Naturals, Sequences, FiniteSets

CONSTANTS
    Task,   \* the tasks that may ever be submitted
    Size    \* how many tasks may run at the same time

VARIABLES
    queue,      \* accepted tasks that no thread has started
    running,    \* tasks that have been started and have not returned
    finished,   \* tasks that have returned or thrown
    closed      \* no more submissions

vars == <<queue, running, finished, closed>>

Queued == {queue[i] : i \in DOMAIN queue}

Accepted == Queued \cup running \cup finished

Init ==
    /\ queue = <<>>
    /\ running = {}
    /\ finished = {}
    /\ closed = FALSE

Submit(t) ==
    /\ ~closed
    /\ t \notin Accepted
    /\ queue' = Append(queue, t)
    /\ UNCHANGED <<running, finished, closed>>

Start ==
    /\ queue # <<>>
    /\ Cardinality(running) < Size
    /\ running' = running \cup {Head(queue)}
    /\ queue' = Tail(queue)
    /\ UNCHANGED <<finished, closed>>

Finish(t) ==
    /\ t \in running
    /\ running' = running \ {t}
    /\ finished' = finished \cup {t}
    /\ UNCHANGED <<queue, closed>>

Close ==
    /\ ~closed
    /\ closed' = TRUE
    /\ UNCHANGED <<queue, running, finished>>

Next ==
    \/ \E t \in Task : Submit(t) \/ Finish(t)
    \/ Start
    \/ Close

(* A waiting task is started as soon as fewer than Size tasks are running, *)
(* and a started task comes to its end.                                    *)
Fairness ==
    /\ WF_vars(Start)
    /\ \A t \in Task : WF_vars(Finish(t))

Safety == Init /\ [][Next]_vars

Spec == Safety /\ Fairness
=============================================================================
