----------------------------- MODULE ThreadPool -----------------------------
(***************************************************************************)
(* The thread pool of ThreadPool.h: a queue of tasks guarded by one mutex  *)
(* (queue_mutex), workers that wait on one condition variable for a task,  *)
(* callers of enqueue, and the destructor, which lets the workers drain    *)
(* the queue and joins them.                                               *)
(*                                                                         *)
(* Every step between two accesses to shared memory is an action of its    *)
(* own, so that the actions interleave as the threads do: taking the       *)
(* mutex, evaluating the predicate of condition.wait, going to sleep,      *)
(* waking up, and notifying are separate.  A task is an opaque value; the  *)
(* packaged_task around it keeps what it throws, so a task that throws     *)
(* ends like one that returns.                                             *)
(*                                                                         *)
(* A definition that begins with Bug is no part of the pool: it is the     *)
(* mistake that the definition after it does not make, and the properties  *)
(* below tell the two apart (PROJECT.json, "mutants").                     *)
(***************************************************************************)
EXTENDS Naturals, Sequences, FiniteSets

CONSTANTS
    Workers,    \* the threads that the constructor launches
    Callers,    \* the threads that call enqueue
    Destroyer,  \* the thread that runs the destructor
    Nobody,     \* the holder of a free mutex
    Task,       \* the tasks that may be enqueued
    NoTask      \* the value of an empty std::function

ASSUME ThreadAssumption ==
    /\ IsFiniteSet(Workers) /\ Workers # {}
    /\ IsFiniteSet(Callers)
    /\ Workers \cap Callers = {}
    /\ Destroyer \notin Workers \cup Callers
    /\ Nobody \notin Workers \cup Callers \cup {Destroyer}
    /\ NoTask \notin Task

VARIABLES
    tasks,        \* std::queue tasks
    stop,         \* bool stop
    queue_mutex,  \* the thread that holds the mutex, or Nobody
    wpc,          \* where each worker is in its loop
    task,         \* the local variable task of each worker
    cpc,          \* where each caller is in enqueue
    arg,          \* the task each caller is enqueueing
    dpc,          \* where the destructor is
    future        \* the shared state of each task's future

vars == <<tasks, stop, queue_mutex, wpc, task, cpc, arg, dpc, future>>

workerVars == <<wpc, task>>
callerVars == <<cpc, arg>>

(* "start" is line 54, before the unique_lock; "pred" evaluates the        *)
(* predicate of wait; "block" has found it false; "waiting" sleeps;        *)
(* "woken" must take the mutex again; "take" is line 57, "run" line 63.    *)
WorkerLabels == {"start", "pred", "block", "waiting", "woken", "take", "run", "exited"}
CallerLabels == {"idle", "lock", "push", "notify"}
DestructorLabels == {"live", "lock", "stop", "notify", "join", "joined"}
FutureStates == {"none", "pending", "ready", "refused"}

Init ==
    /\ tasks = <<>>
    /\ stop = FALSE
    /\ queue_mutex = Nobody
    /\ wpc = [w \in Workers |-> "start"]
    /\ task = [w \in Workers |-> NoTask]
    /\ cpc = [c \in Callers |-> "idle"]
    /\ arg = [c \in Callers |-> NoTask]
    /\ dpc = "live"
    /\ future = [t \in Task |-> "none"]

Lock(x) ==
    /\ queue_mutex = Nobody
    /\ queue_mutex' = x

Unlock == queue_mutex' = Nobody

-----------------------------------------------------------------------------
(* A worker: the loop of the constructor's lambda.                         *)

Goto(w, label) == wpc' = [wpc EXCEPT ![w] = label]

(* unique_lock on line 54, or the end of a wait: both need the mutex.      *)
Acquire(w) ==
    /\ wpc[w] \in {"start", "woken"}
    /\ Lock(w)
    /\ Goto(w, "pred")
    /\ UNCHANGED <<tasks, stop, task, callerVars, dpc, future>>

(* The predicate of condition.wait, evaluated with the mutex held.         *)
EvaluateAs(w, p) ==
    /\ wpc[w] = "pred"
    /\ Goto(w, IF p THEN "take" ELSE "block")
    /\ UNCHANGED <<tasks, stop, queue_mutex, task, callerVars, dpc, future>>

BugEvaluateWithoutStop(w) == EvaluateAs(w, tasks # <<>>)

Evaluate(w) == EvaluateAs(w, stop \/ tasks # <<>>)

(* wait releases the mutex and goes to sleep in one step.                  *)
Block(w) ==
    /\ wpc[w] = "block"
    /\ Unlock
    /\ Goto(w, "waiting")
    /\ UNCHANGED <<tasks, stop, task, callerVars, dpc, future>>

(* wait may return with no notification.                                   *)
WakeSpuriously(w) ==
    /\ wpc[w] = "waiting"
    /\ Goto(w, "woken")
    /\ UNCHANGED <<tasks, stop, queue_mutex, task, callerVars, dpc, future>>

Leave(w) ==
    /\ wpc[w] = "take"
    /\ Unlock
    /\ Goto(w, "exited")
    /\ UNCHANGED <<tasks, stop, task, callerVars, dpc, future>>

BugReturnOnStop(w) == stop /\ Leave(w)

Return(w) == stop /\ tasks = <<>> /\ Leave(w)

(* Take the i-th task, with the queue reduced to rest.                     *)
TakeOut(w, i, rest) ==
    /\ wpc[w] = "take"
    /\ ~(stop /\ tasks = <<>>)
    /\ task' = [task EXCEPT ![w] = tasks[i]]
    /\ tasks' = rest
    /\ Unlock
    /\ Goto(w, "run")
    /\ UNCHANGED <<stop, callerVars, dpc, future>>

BugTakeWithoutPop(w) == TakeOut(w, 1, tasks)

BugTakeNewest(w) == TakeOut(w, Len(tasks), SubSeq(tasks, 1, Len(tasks) - 1))

Take(w) == TakeOut(w, 1, Tail(tasks))

(* task() ends; its value or its exception is in the future.               *)
Run(w) ==
    /\ wpc[w] = "run"
    /\ future' = [future EXCEPT ![task[w]] = "ready"]
    /\ task' = [task EXCEPT ![w] = NoTask]
    /\ Goto(w, "start")
    /\ UNCHANGED <<tasks, stop, queue_mutex, callerVars, dpc>>

-----------------------------------------------------------------------------
(* enqueue.  The pool must not be used once its destructor has returned.   *)

CallEnqueue(c, t) ==
    /\ cpc[c] = "idle"
    /\ dpc # "joined"
    /\ future[t] = "none"
    /\ future' = [future EXCEPT ![t] = "pending"]
    /\ arg' = [arg EXCEPT ![c] = t]
    /\ cpc' = [cpc EXCEPT ![c] = "lock"]
    /\ UNCHANGED <<tasks, stop, queue_mutex, workerVars, dpc>>

LockInEnqueue(c) ==
    /\ cpc[c] = "lock"
    /\ Lock(c)
    /\ cpc' = [cpc EXCEPT ![c] = "push"]
    /\ UNCHANGED <<tasks, stop, workerVars, arg, dpc, future>>

Emplace(c, t) ==
    /\ cpc[c] = "push"
    /\ ~stop
    /\ tasks' = Append(tasks, t)
    /\ Unlock
    /\ cpc' = [cpc EXCEPT ![c] = "notify"]
    /\ arg' = [arg EXCEPT ![c] = NoTask]
    /\ UNCHANGED <<stop, workerVars, dpc, future>>

BugPushMovedFrom(c) == Emplace(c, NoTask)

Push(c) == Emplace(c, arg[c])

(* "enqueue on stopped ThreadPool"                                         *)
Throw(c) ==
    /\ cpc[c] = "push"
    /\ stop
    /\ future' = [future EXCEPT ![arg[c]] = "refused"]
    /\ cpc' = [cpc EXCEPT ![c] = "idle"]
    /\ arg' = [arg EXCEPT ![c] = NoTask]
    /\ UNCHANGED <<tasks, stop, workerVars, dpc>>

BugRefuseWithoutUnlock(c) == Throw(c) /\ UNCHANGED queue_mutex

Refuse(c) == Throw(c) /\ Unlock

Sleeping == {w \in Workers : wpc[w] = "waiting"}

BugNotifyNobody(c) ==
    /\ cpc[c] = "notify"
    /\ cpc' = [cpc EXCEPT ![c] = "idle"]
    /\ UNCHANGED <<tasks, stop, queue_mutex, workerVars, arg, dpc, future>>

(* notify_one, after the mutex has been released: wakes one sleeper, if    *)
(* there is one.                                                           *)
NotifyOne(c) ==
    /\ cpc[c] = "notify"
    /\ cpc' = [cpc EXCEPT ![c] = "idle"]
    /\ \/ \E w \in Sleeping : Goto(w, "woken")
       \/ Sleeping = {} /\ UNCHANGED wpc
    /\ UNCHANGED <<tasks, stop, queue_mutex, task, arg, dpc, future>>

-----------------------------------------------------------------------------
(* The destructor.                                                         *)

CallDestructor ==
    /\ dpc = "live"
    /\ dpc' = "lock"
    /\ UNCHANGED <<tasks, stop, queue_mutex, workerVars, callerVars, future>>

LockInDestructor ==
    /\ dpc = "lock"
    /\ Lock(Destroyer)
    /\ dpc' = "stop"
    /\ UNCHANGED <<tasks, stop, workerVars, callerVars, future>>

SetStop ==
    /\ dpc = "stop"
    /\ stop' = TRUE
    /\ Unlock
    /\ dpc' = "notify"
    /\ UNCHANGED <<tasks, workerVars, callerVars, future>>

Wake(S) ==
    /\ dpc = "notify"
    /\ wpc' = [w \in Workers |-> IF w \in S THEN "woken" ELSE wpc[w]]
    /\ dpc' = "join"
    /\ UNCHANGED <<tasks, stop, queue_mutex, task, callerVars, future>>

BugNotifyOneAtStop == \E w \in Sleeping : Wake({w})

NotifyAll == Wake(Sleeping)

Join ==
    /\ dpc = "join"
    /\ \A w \in Workers : wpc[w] = "exited"
    /\ dpc' = "joined"
    /\ UNCHANGED <<tasks, stop, queue_mutex, workerVars, callerVars, future>>

-----------------------------------------------------------------------------
Worker(w) ==
    Acquire(w) \/ Evaluate(w) \/ Block(w) \/ Return(w) \/ Take(w) \/ Run(w)

Caller(c) == LockInEnqueue(c) \/ Push(c) \/ Refuse(c) \/ NotifyOne(c)

Destructor == LockInDestructor \/ SetStop \/ NotifyAll \/ Join

Next ==
    \/ \E w \in Workers : Worker(w) \/ WakeSpuriously(w)
    \/ \E c \in Callers : Caller(c) \/ \E t \in Task : CallEnqueue(c, t)
    \/ CallDestructor \/ Destructor

Safety == Init /\ [][Next]_vars

(* Threads are scheduled, tasks end, and a mutex that is free again and    *)
(* again is at last taken by each thread that wants it.  Nothing obliges   *)
(* anybody to call enqueue or the destructor, or a wait to end by itself.  *)
Fairness ==
    /\ \A w \in Workers : SF_vars(Acquire(w)) /\ WF_vars(Worker(w))
    /\ \A c \in Callers : SF_vars(LockInEnqueue(c)) /\ WF_vars(Caller(c))
    /\ SF_vars(LockInDestructor) /\ WF_vars(Destructor)

Spec == Safety /\ Fairness

-----------------------------------------------------------------------------
(* The properties.                                                         *)

TypeOK ==
    /\ tasks \in Seq(Task)
    /\ stop \in BOOLEAN
    /\ queue_mutex \in Workers \cup Callers \cup {Destroyer, Nobody}
    /\ wpc \in [Workers -> WorkerLabels]
    /\ task \in [Workers -> Task \cup {NoTask}]
    /\ cpc \in [Callers -> CallerLabels]
    /\ arg \in [Callers -> Task \cup {NoTask}]
    /\ dpc \in DestructorLabels
    /\ future \in [Task -> FutureStates]

(* Workers on their way to the queue: each will look at it once more       *)
(* before it can go to sleep.                                              *)
Seeking == {w \in Workers : wpc[w] \in {"start", "pred", "woken", "take"}}

(* Callers that have pushed a task and have yet to call notify_one.        *)
Notifying == {c \in Callers : cpc[c] = "notify"}

(* No lost wake-up: a worker never sleeps while the queue holds more tasks *)
(* than there are workers about to look at it and notifications about to   *)
(* be sent.  Lines 86-90 push under the mutex and notify without it.       *)
NoIdleWorker ==
    Sleeping # {} => Len(tasks) <= Cardinality(Seeking) + Cardinality(Notifying)

(* No worker misses the end: once notify_all of line 101 has been called,  *)
(* no worker sleeps and none is about to, so every join returns.           *)
NobodySleepsThroughStop ==
    dpc \in {"join", "joined"} => \A w \in Workers : wpc[w] \notin {"block", "waiting"}

(* A worker leaves its loop only with the queue drained, and then for good *)
(* (lines 57-58 and 84-86): when the destructor has joined the workers, no *)
(* accepted task is left behind.                                           *)
Drained ==
    \A w \in Workers : wpc[w] = "exited" =>
        /\ stop /\ tasks = <<>>
        /\ dpc = "joined" => \A t \in Task :
              future[t] = "pending" => \E c \in Callers : arg[c] = t

(* The places in which an accepted task can be: a slot of the queue, the   *)
(* hands of a worker, or those of a caller that has yet to push it.        *)
Slots(t) == {i \in 1..Len(tasks) : tasks[i] = t}
Runners(t) == {w \in Workers : task[w] = t}
Bearers(t) == {c \in Callers : arg[c] = t}

(* No task is lost and none is run twice: a task whose future is pending   *)
(* is in exactly one place, every other task is in none.                   *)
ExactlyOnce ==
    \A t \in Task :
        /\ future[t] = "pending" =>
              \/ /\ \E i \in Slots(t) : Slots(t) = {i}
                 /\ Runners(t) = {} /\ Bearers(t) = {}
              \/ /\ \E w \in Runners(t) : Runners(t) = {w}
                 /\ Slots(t) = {} /\ Bearers(t) = {}
              \/ /\ \E c \in Bearers(t) : Bearers(t) = {c}
                 /\ Slots(t) = {} /\ Runners(t) = {}
        /\ future[t] # "pending" =>
              Slots(t) = {} /\ Runners(t) = {} /\ Bearers(t) = {}

Running == {task[w] : w \in {v \in Workers : wpc[v] = "run"}}

Finished == {t \in Task : future[t] = "ready"}

(* The pool implements the queue of tasks: mutex, condition variable and   *)
(* threads are hidden, a task is running while a worker holds it.          *)
Pool == INSTANCE TaskQueue WITH
    Size <- Cardinality(Workers),
    queue <- tasks,
    running <- Running,
    finished <- Finished,
    closed <- stop

ImplementsTaskQueue == Pool!Spec

(* The destructor returns, and by Drained with every accepted task run.    *)
DestructorReturns == dpc = "lock" ~> dpc = "joined"

(* A call of enqueue comes back, whatever the workers and the other        *)
(* callers do with the mutex.                                              *)
EnqueueReturns == \A c \in Callers : cpc[c] = "lock" ~> cpc[c] = "idle"
=============================================================================
