-------------------------- MODULE ThreadPoolProofs --------------------------
(***************************************************************************)
(* Theorems about ThreadPool, for any number of workers, callers and tasks.*)
(*                                                                         *)
(* The inductive invariant says who holds the mutex (Exclusion), what the  *)
(* holder has seen while it held it (Seen), and how far the destructor has *)
(* come (Shutdown).  The safety properties follow from it, or are          *)
(* inductive once it is there.                                             *)
(***************************************************************************)
EXTENDS ThreadPool, FiniteSetTheorems, FunctionTheorems, SequenceTheorems, TLAPS

(* The mutex is held by the one thread that is between lock and unlock.    *)
Exclusion ==
    /\ \A w \in Workers : queue_mutex = w <=> wpc[w] \in {"pred", "block", "take"}
    /\ \A c \in Callers : queue_mutex = c <=> cpc[c] = "push"
    /\ queue_mutex = Destroyer <=> dpc = "stop"

(* What a thread has found under the mutex, and what it carries.           *)
Seen ==
    /\ \A w \in Workers :
        /\ wpc[w] = "block" => tasks = <<>> /\ ~stop
        /\ wpc[w] = "take" => stop \/ tasks # <<>>
        /\ wpc[w] = "exited" => stop /\ tasks = <<>>
        /\ wpc[w] = "run" <=> task[w] # NoTask
    /\ \A c \in Callers : cpc[c] \in {"lock", "push"} <=> arg[c] # NoTask

(* stop is the destructor's: once it is set no worker goes to sleep, and   *)
(* after notify_all none is asleep.                                        *)
Shutdown ==
    /\ stop <=> dpc \in {"notify", "join", "joined"}
    /\ dpc \in {"join", "joined"} => \A w \in Workers : wpc[w] # "waiting"
    /\ dpc = "joined" => \A w \in Workers : wpc[w] = "exited"

IInv == TypeOK /\ Exclusion /\ Seen /\ Shutdown

-----------------------------------------------------------------------------
(* IInv holds initially.                                                   *)
LEMMA InitIInv == Init => IInv
<1> SUFFICES ASSUME Init PROVE IInv
  OBVIOUS
<1> USE ThreadAssumption DEF ThreadAssumption, Init
<1>1. TypeOK
  <2>1. tasks \in Seq(Task)
    BY EmptySeq
  <2>2. wpc \in [Workers -> WorkerLabels] /\ task \in [Workers -> Task \cup {NoTask}]
    BY DEF WorkerLabels
  <2>3. cpc \in [Callers -> CallerLabels] /\ arg \in [Callers -> Task \cup {NoTask}]
    BY DEF CallerLabels
  <2>4. QED
    BY <2>1, <2>2, <2>3 DEF TypeOK, DestructorLabels, FutureStates
<1>2. Exclusion
  BY DEF Exclusion
<1>3. Seen /\ Shutdown
  BY DEF Seen, Shutdown
<1>4. QED
  BY <1>1, <1>2, <1>3 DEF IInv

(* A step of a worker preserves IInv (ThreadPool.h:45-66).                 *)
LEMMA WorkerIInv ==
  ASSUME IInv, NEW w \in Workers, Worker(w) \/ WakeSpuriously(w)
  PROVE  IInv'
<1> USE ThreadAssumption
    DEF ThreadAssumption, IInv, TypeOK, Exclusion, Seen, Shutdown, Goto, callerVars,
        WorkerLabels, CallerLabels, DestructorLabels, FutureStates
<1>1. CASE Acquire(w)
  BY <1>1 DEF Acquire, Lock
<1>2. CASE Evaluate(w)
  BY <1>2 DEF Evaluate, EvaluateAs
<1>3. CASE Block(w)
  BY <1>3 DEF Block, Unlock
<1>4. CASE Return(w)
  BY <1>4 DEF Return, Leave, Unlock
<1>5. CASE Take(w)
  <2>1. tasks # <<>> /\ tasks[1] \in Task /\ Tail(tasks) \in Seq(Task)
    BY <1>5 DEF Take, TakeOut
  <2>2. QED
    BY <2>1, <1>5 DEF Take, TakeOut, Unlock
<1>6. CASE Run(w)
  BY <1>6 DEF Run
<1>7. CASE WakeSpuriously(w)
  BY <1>7 DEF WakeSpuriously
<1>8. QED
  BY <1>1, <1>2, <1>3, <1>4, <1>5, <1>6, <1>7 DEF Worker

(* A step of a caller of enqueue preserves IInv (ThreadPool.h:71-92).      *)
LEMMA CallerIInv ==
  ASSUME IInv, NEW c \in Callers, Caller(c) \/ \E t \in Task : CallEnqueue(c, t)
  PROVE  IInv'
<1> USE ThreadAssumption
    DEF ThreadAssumption, IInv, TypeOK, Exclusion, Seen, Shutdown, workerVars,
        WorkerLabels, CallerLabels, DestructorLabels, FutureStates
<1>1. CASE LockInEnqueue(c)
  BY <1>1 DEF LockInEnqueue, Lock
<1>2. CASE Push(c)
  <2>1. arg[c] \in Task /\ tasks' = Append(tasks, arg[c])
    BY <1>2 DEF Push, Emplace
  <2>2. tasks' \in Seq(Task) /\ tasks' # <<>>
    BY <2>1, AppendProperties
  <2>3. QED
    BY <1>2, <2>2 DEF Push, Emplace, Unlock
<1>3. CASE Refuse(c)
  BY <1>3 DEF Refuse, Throw, Unlock
<1>4. CASE NotifyOne(c)
  <2>1. CASE \E w \in Sleeping : Goto(w, "woken")
    BY <1>4, <2>1 DEF NotifyOne, Sleeping, Goto
  <2>2. CASE UNCHANGED wpc
    BY <1>4, <2>2 DEF NotifyOne
  <2>3. QED
    BY <1>4, <2>1, <2>2 DEF NotifyOne
<1>5. CASE \E t \in Task : CallEnqueue(c, t)
  BY <1>5 DEF CallEnqueue
<1>6. QED
  BY <1>1, <1>2, <1>3, <1>4, <1>5 DEF Caller

(* A step of the destructor preserves IInv (ThreadPool.h:95-104).          *)
LEMMA DestructorIInv ==
  ASSUME IInv, CallDestructor \/ Destructor
  PROVE  IInv'
<1> USE ThreadAssumption
    DEF ThreadAssumption, IInv, TypeOK, Exclusion, Seen, Shutdown, workerVars, callerVars,
        WorkerLabels, CallerLabels, DestructorLabels, FutureStates
<1>1. CASE CallDestructor
  BY <1>1 DEF CallDestructor
<1>2. CASE LockInDestructor
  BY <1>2 DEF LockInDestructor, Lock
<1>3. CASE SetStop
  BY <1>3 DEF SetStop, Unlock
<1>4. CASE NotifyAll
  BY <1>4 DEF NotifyAll, Wake, Sleeping
<1>5. CASE Join
  BY <1>5 DEF Join
<1>6. QED
  BY <1>1, <1>2, <1>3, <1>4, <1>5 DEF Destructor

(* Every step, and every step that changes nothing, preserves IInv.        *)
LEMMA NextIInv == IInv /\ [Next]_vars => IInv'
<1> SUFFICES ASSUME IInv, [Next]_vars PROVE IInv'
  OBVIOUS
<1>1. CASE UNCHANGED vars
  BY <1>1 DEF vars, IInv, TypeOK, Exclusion, Seen, Shutdown
<1>2. CASE Next
  BY <1>2, WorkerIInv, CallerIInv, DestructorIInv DEF Next
<1>3. QED
  BY <1>1, <1>2

(* IInv is an invariant of the pool.                                       *)
LEMMA InductiveInvariant == Safety => []IInv
  BY InitIInv, NextIInv, PTL DEF Safety

(* Type correctness: at every moment each thread is at one of its labels   *)
(* and the queue holds tasks only, never an empty function.                *)
THEOREM TypeCorrect == Safety => []TypeOK
  BY InductiveInvariant, PTL DEF IInv

(* No worker sleeps, or is about to sleep, once notify_all of the          *)
(* destructor has been called.                                             *)
THEOREM StopSeen == Safety => []NobodySleepsThroughStop
<1>1. IInv => NobodySleepsThroughStop
  BY DEF IInv, Seen, Shutdown, NobodySleepsThroughStop
<1>2. QED
  BY <1>1, InductiveInvariant, PTL

-----------------------------------------------------------------------------
(* No lost wake-up.  The threads that will look at the queue or have it    *)
(* looked at are counted; a worker that goes to sleep has found the queue  *)
(* empty, and every other step keeps the balance of tasks and threads.     *)

Looking == Cardinality(Seeking) + Cardinality(Notifying)

(* Both sets are finite, so what is counted is a natural number.           *)
LEMMA Counts ==
  /\ IsFiniteSet(Seeking) /\ Cardinality(Seeking) \in Nat
  /\ IsFiniteSet(Notifying) /\ Cardinality(Notifying) \in Nat
<1>1. Seeking \in SUBSET Workers /\ Notifying \in SUBSET Callers
  BY DEF Seeking, Notifying
<1>2. QED
  BY <1>1, ThreadAssumption, FS_Subset, FS_CardinalityType DEF ThreadAssumption

(* The steps of a worker (ThreadPool.h:54-63).                             *)
LEMMA WorkerNoIdle ==
  ASSUME IInv, NoIdleWorker, NEW w \in Workers, Worker(w) \/ WakeSpuriously(w)
  PROVE  NoIdleWorker'
<1> USE Counts DEF IInv, TypeOK, WorkerLabels
<1>1. CASE Acquire(w) \/ (Evaluate(w) /\ wpc'[w] = "take")
  <2>1. Seeking' = Seeking /\ Sleeping' = Sleeping /\ UNCHANGED <<tasks, cpc>>
    BY <1>1 DEF Acquire, Evaluate, EvaluateAs, Goto, Seeking, Sleeping, callerVars
  <2>2. QED
    BY <2>1 DEF NoIdleWorker, Notifying
<1>2. CASE (Evaluate(w) /\ wpc'[w] # "take") \/ Block(w) \/ Return(w)
  <2>1. tasks' = <<>>
    BY <1>2 DEF Evaluate, EvaluateAs, Block, Return, Leave, Goto, Seen
  <2>2. Cardinality(Seeking') \in Nat /\ Cardinality(Notifying') \in Nat
    <3>1. Seeking' \in SUBSET Workers /\ Notifying' \in SUBSET Callers
      BY DEF Seeking, Notifying
    <3>2. QED
      BY <3>1, ThreadAssumption, FS_Subset, FS_CardinalityType DEF ThreadAssumption
  <2>3. QED
    BY <2>1, <2>2 DEF NoIdleWorker
<1>3. CASE WakeSpuriously(w) \/ Run(w)
  <2>1. /\ Seeking' = Seeking \cup {w} /\ Sleeping' \subseteq Sleeping
        /\ UNCHANGED <<tasks, cpc>>
    BY <1>3 DEF WakeSpuriously, Run, Goto, Seeking, Sleeping, callerVars
  <2>2. Cardinality(Seeking') =
            IF w \in Seeking THEN Cardinality(Seeking) ELSE Cardinality(Seeking) + 1
    BY <2>1, FS_AddElement, Zenon
  <2>3. QED
    BY <2>1, <2>2 DEF NoIdleWorker, Notifying
<1>4. CASE Take(w)
  <2>1. /\ w \in Seeking /\ Seeking' = Seeking \ {w} /\ Sleeping' = Sleeping
        /\ UNCHANGED cpc
    BY <1>4 DEF Take, TakeOut, Goto, Seeking, Sleeping, callerVars
  <2>2. Cardinality(Seeking') = Cardinality(Seeking) - 1
    BY <2>1, FS_RemoveElement
  <2>3. Len(tasks') = Len(tasks) - 1
    BY <1>4, HeadTailProperties DEF Take, TakeOut, Seen
  <2>4. QED
    BY <2>1, <2>2, <2>3 DEF NoIdleWorker, Notifying
<1>5. QED
  BY <1>1, <1>2, <1>3, <1>4 DEF Worker

(* The steps of a caller (ThreadPool.h:81-91).                             *)
LEMMA CallerNoIdle ==
  ASSUME IInv, NoIdleWorker, NEW c \in Callers,
         Caller(c) \/ \E t \in Task : CallEnqueue(c, t)
  PROVE  NoIdleWorker'
<1> USE Counts DEF IInv, TypeOK, CallerLabels
<1>1. CASE LockInEnqueue(c) \/ Refuse(c) \/ \E t \in Task : CallEnqueue(c, t)
  <2>1. Notifying' = Notifying /\ UNCHANGED <<tasks, wpc>>
    BY <1>1 DEF LockInEnqueue, Refuse, Throw, CallEnqueue, Notifying, workerVars
  <2>2. QED
    BY <2>1 DEF NoIdleWorker, Seeking, Sleeping
<1>2. CASE Push(c)
  <2>1. c \notin Notifying /\ Notifying' = Notifying \cup {c} /\ UNCHANGED wpc
    BY <1>2 DEF Push, Emplace, Notifying, workerVars
  <2>2. Cardinality(Notifying') = Cardinality(Notifying) + 1
    BY <2>1, FS_AddElement
  <2>3. Len(tasks') = Len(tasks) + 1
    BY <1>2 DEF Push, Emplace, Seen
  <2>4. QED
    BY <2>1, <2>2, <2>3 DEF NoIdleWorker, Seeking, Sleeping
<1>3. CASE NotifyOne(c)
  <2>1. c \in Notifying /\ Notifying' = Notifying \ {c} /\ UNCHANGED tasks
    BY <1>3 DEF NotifyOne, Notifying
  <2>2. Cardinality(Notifying') = Cardinality(Notifying) - 1
    BY <2>1, FS_RemoveElement
  <2>3. CASE Sleeping = {} /\ UNCHANGED wpc
    BY <2>3 DEF NoIdleWorker, Sleeping
  <2>4. ASSUME NEW w \in Sleeping, Goto(w, "woken") PROVE NoIdleWorker'
    <3>1. w \notin Seeking /\ Seeking' = Seeking \cup {w}
      BY <2>4 DEF Goto, Seeking, Sleeping, WorkerLabels
    <3>2. Cardinality(Seeking') = Cardinality(Seeking) + 1
      BY <3>1, FS_AddElement
    <3>3. Sleeping # {}
      BY <2>4
    <3>4. QED
      BY <2>1, <2>2, <3>2, <3>3 DEF NoIdleWorker
  <2>5. QED
    BY <1>3, <2>3, <2>4 DEF NotifyOne
<1>4. QED
  BY <1>1, <1>2, <1>3 DEF Caller

(* A worker never sleeps while there are more tasks in the queue than      *)
(* threads that will look at it or have it looked at.                      *)
THEOREM NoLostWakeUp == Safety => []NoIdleWorker
<1>1. Init => NoIdleWorker
  BY DEF Init, NoIdleWorker, Sleeping
<1>2. ASSUME IInv, NoIdleWorker, [Next]_vars PROVE NoIdleWorker'
  <2>1. CASE UNCHANGED vars
    BY <1>2, <2>1 DEF vars, NoIdleWorker, Sleeping, Seeking, Notifying
  <2>2. CASE CallDestructor \/ LockInDestructor \/ SetStop \/ Join
    BY <1>2, <2>2 DEF CallDestructor, LockInDestructor, SetStop, Join, workerVars,
                      callerVars, NoIdleWorker, Sleeping, Seeking, Notifying
  <2>3. CASE NotifyAll
    BY <2>3 DEF NotifyAll, Wake, NoIdleWorker, Sleeping
  <2>4. QED
    BY <1>2, <2>1, <2>2, <2>3, WorkerNoIdle, CallerNoIdle DEF Next, Destructor
<1>3. QED
  BY <1>1, <1>2, InductiveInvariant, PTL DEF Safety
-----------------------------------------------------------------------------
(* Nothing lost, nothing run twice.  ExactlyOnce counts the places of each *)
(* task; Apart and Accounted say the same of pairs of places, which a step *)
(* changes one at a time.                                                  *)

Apart ==
    /\ \A i, j \in 1..Len(tasks) : tasks[i] = tasks[j] => i = j
    /\ \A v, w \in Workers : task[v] = task[w] => v = w \/ task[v] = NoTask
    /\ \A c, d \in Callers : arg[c] = arg[d] => c = d \/ arg[c] = NoTask
    /\ \A i \in 1..Len(tasks) :
          /\ \A w \in Workers : tasks[i] # task[w]
          /\ \A c \in Callers : tasks[i] # arg[c]
    /\ \A w \in Workers, c \in Callers : task[w] = arg[c] => task[w] = NoTask

Accounted ==
    /\ \A i \in 1..Len(tasks) : future[tasks[i]] = "pending"
    /\ \A w \in Workers : task[w] # NoTask => future[task[w]] = "pending"
    /\ \A c \in Callers : arg[c] # NoTask => future[arg[c]] = "pending"
    /\ \A t \in Task : future[t] = "pending" =>
          \/ \E i \in 1..Len(tasks) : tasks[i] = t
          \/ \E w \in Workers : task[w] = t
          \/ \E c \in Callers : arg[c] = t

Places == Apart /\ Accounted

(* A worker moves a task from the queue into its hands, and from there to  *)
(* its end (ThreadPool.h:59-63).                                           *)
LEMMA WorkerPlaces ==
  ASSUME IInv, Places, NEW w \in Workers, Worker(w) \/ WakeSpuriously(w)
  PROVE  Places'
<1> USE DEF IInv, TypeOK, Places
<1>1. CASE Acquire(w) \/ Evaluate(w) \/ Block(w) \/ WakeSpuriously(w) \/ Return(w)
  <2>1. UNCHANGED <<tasks, task, arg, future>>
    BY <1>1 DEF Acquire, Evaluate, EvaluateAs, Block, WakeSpuriously, Return, Leave,
                callerVars
  <2>2. QED
    BY <2>1 DEF Apart, Accounted
<1>2. CASE Take(w)
  <2>1. /\ tasks # <<>> /\ tasks' = Tail(tasks)
        /\ task' = [task EXCEPT ![w] = tasks[1]]
        /\ UNCHANGED <<arg, future>>
    BY <1>2 DEF Take, TakeOut, Seen, callerVars
  <2>2. task[w] = NoTask
    BY <1>2 DEF Take, TakeOut, Seen
  <2>3. /\ Len(tasks') = Len(tasks) - 1 /\ Len(tasks) \in Nat
        /\ \A i \in 1..Len(tasks') : tasks'[i] = tasks[i + 1]
    BY <2>1, HeadTailProperties, LenProperties
  <2>4. tasks[1] \in Task /\ 1 \in 1..Len(tasks)
    BY <2>1
  <2>5. \A i \in 1..Len(tasks) : i = 1 \/ i - 1 \in 1..Len(tasks')
    BY <2>3
  <2>6. \A i \in 1..Len(tasks') : i + 1 \in 1..Len(tasks) /\ i + 1 # 1
    BY <2>3
  <2>7. Apart'
    BY <2>1, <2>2, <2>3, <2>4, <2>6, ThreadAssumption DEF ThreadAssumption, Apart
  <2>8. Accounted'
    <3>1. \A t \in Task : (\E i \in 1..Len(tasks) : tasks[i] = t) =>
              task'[w] = t \/ \E i \in 1..Len(tasks') : tasks'[i] = t
      <4> SUFFICES ASSUME NEW i \in 1..Len(tasks), i # 1
                   PROVE  tasks'[i - 1] = tasks[i] /\ i - 1 \in 1..Len(tasks')
        BY <2>1
      <4>1. i - 1 \in 1..Len(tasks') /\ (i - 1) + 1 = i
        BY <2>5
      <4>2. QED
        BY <4>1, <2>3
    <3>2. QED
      BY <2>1, <2>2, <2>3, <2>4, <2>6, <3>1, ThreadAssumption
      DEF ThreadAssumption, Accounted
  <2>9. QED
    BY <2>7, <2>8
<1>3. CASE Run(w)
  <2>1. task[w] \in Task
    BY <1>3 DEF Run, Seen
  <2>2. /\ \A v \in Workers : task'[v] = IF v = w THEN NoTask ELSE task[v]
        /\ \A t \in Task : future'[t] = IF t = task[w] THEN "ready" ELSE future[t]
        /\ UNCHANGED <<tasks, arg>>
    BY <1>3 DEF Run, callerVars
  <2>3. Apart'
    BY <2>2, ThreadAssumption DEF ThreadAssumption, Apart
  <2>4. Accounted'
    BY <2>1, <2>2, ThreadAssumption DEF ThreadAssumption, Apart, Accounted
  <2>5. QED
    BY <2>3, <2>4
<1>4. QED
  BY <1>1, <1>2, <1>3 DEF Worker

(* A caller brings a task, pushes it or is refused (ThreadPool.h:84-88).   *)
LEMMA CallerPlaces ==
  ASSUME IInv, Places, NEW c \in Callers,
         Caller(c) \/ \E t \in Task : CallEnqueue(c, t)
  PROVE  Places'
<1> USE DEF IInv, TypeOK, Places
<1>1. CASE LockInEnqueue(c) \/ NotifyOne(c)
  <2>1. UNCHANGED <<tasks, task, arg, future>>
    BY <1>1 DEF LockInEnqueue, NotifyOne, workerVars
  <2>2. QED
    BY <2>1 DEF Apart, Accounted
<1>2. CASE Push(c)
  <2>1. /\ arg[c] \in Task /\ tasks' = Append(tasks, arg[c])
        /\ \A d \in Callers : arg'[d] = IF d = c THEN NoTask ELSE arg[d]
        /\ UNCHANGED <<task, future>>
    BY <1>2 DEF Push, Emplace, Seen, workerVars
  <2>2. /\ Len(tasks') = Len(tasks) + 1 /\ Len(tasks) \in Nat
        /\ \A i \in 1..Len(tasks) : tasks'[i] = tasks[i]
        /\ tasks'[Len(tasks) + 1] = arg[c]
    BY <2>1, AppendProperties, LenProperties
  <2>3. \A i \in 1..Len(tasks') : i \in 1..Len(tasks) \/ i = Len(tasks) + 1
    BY <2>2
  <2>4. 1..Len(tasks) \subseteq 1..Len(tasks') /\ Len(tasks) + 1 \in 1..Len(tasks')
    BY <2>2
  <2>5. \A i \in 1..Len(tasks) : tasks[i] \in Task /\ tasks[i] # arg[c]
    BY DEF Apart
  <2>6. \A w \in Workers : task[w] # arg[c]
    BY <2>1, ThreadAssumption DEF ThreadAssumption, Apart
  <2>7. Apart'
    <3>1. \A i, j \in 1..Len(tasks') : tasks'[i] = tasks'[j] => i = j
      BY <2>2, <2>3, <2>5 DEF Apart
    <3>2. \A i \in 1..Len(tasks') : \A w \in Workers : tasks'[i] # task'[w]
      BY <2>1, <2>2, <2>3, <2>6 DEF Apart
    <3>3. \A i \in 1..Len(tasks') : \A d \in Callers : tasks'[i] # arg'[d]
      BY <2>1, <2>2, <2>3, <2>5, ThreadAssumption DEF ThreadAssumption, Apart
    <3>4. QED
      BY <2>1, <3>1, <3>2, <3>3 DEF Apart
  <2>8. Accounted'
    <3>1. \A i \in 1..Len(tasks') : future'[tasks'[i]] = "pending"
      BY <2>1, <2>2, <2>3, ThreadAssumption DEF ThreadAssumption, Accounted
    <3>2. \A t \in Task : (\E i \in 1..Len(tasks) : tasks[i] = t) =>
                \E i \in 1..Len(tasks') : tasks'[i] = t
      BY <2>2, <2>4
    <3>3. \E i \in 1..Len(tasks') : tasks'[i] = arg[c]
      BY <2>2, <2>4
    <3>4. /\ \A w \in Workers : task'[w] # NoTask => future'[task'[w]] = "pending"
          /\ \A d \in Callers : arg'[d] # NoTask => future'[arg'[d]] = "pending"
      BY <2>1 DEF Accounted
    <3>5. ASSUME NEW t \in Task, future'[t] = "pending"
          PROVE  \/ \E i \in 1..Len(tasks') : tasks'[i] = t
                 \/ \E w \in Workers : task'[w] = t
                 \/ \E d \in Callers : arg'[d] = t
      <4>1. future[t] = "pending"
        BY <2>1, <3>5
      <4>2. CASE \E d \in Callers : arg[d] = t
        BY <2>1, <3>3, <4>2
      <4>3. CASE \E w \in Workers : task[w] = t
        BY <2>1, <4>3
      <4>4. CASE \E i \in 1..Len(tasks) : tasks[i] = t
        BY <3>2, <4>4
      <4>5. QED
        BY <4>1, <4>2, <4>3, <4>4 DEF Accounted
    <3>6. QED
      BY <3>1, <3>4, <3>5 DEF Accounted
  <2>9. QED
    BY <2>7, <2>8
<1>3. CASE Refuse(c)
  <2>1. arg[c] \in Task
    BY <1>3 DEF Refuse, Throw, Seen
  <2>2. /\ \A d \in Callers : arg'[d] = IF d = c THEN NoTask ELSE arg[d]
        /\ \A t \in Task : future'[t] = IF t = arg[c] THEN "refused" ELSE future[t]
        /\ UNCHANGED <<tasks, task>>
    BY <1>3 DEF Refuse, Throw, workerVars
  <2>3. Apart'
    BY <2>2, ThreadAssumption DEF ThreadAssumption, Apart
  <2>4. Accounted'
    <3>1. \A i \in 1..Len(tasks) : tasks[i] \in Task /\ tasks[i] # arg[c]
      BY DEF Apart
    <3>2. \A w \in Workers : task[w] # arg[c]
      BY <2>1, ThreadAssumption DEF ThreadAssumption, Apart
    <3>3. \A d \in Callers : d # c => arg[d] # arg[c]
      BY <2>1, ThreadAssumption DEF ThreadAssumption, Apart
    <3>4. \A i \in 1..Len(tasks') : future'[tasks'[i]] = "pending"
      BY <2>2, <3>1 DEF Accounted
    <3>5. \A w \in Workers : task'[w] # NoTask => future'[task'[w]] = "pending"
      BY <2>2, <3>2 DEF Accounted
    <3>6. \A d \in Callers : arg'[d] # NoTask => future'[arg'[d]] = "pending"
      BY <2>2, <3>3 DEF Accounted
    <3>7. ASSUME NEW t \in Task, future'[t] = "pending"
          PROVE  \/ \E i \in 1..Len(tasks') : tasks'[i] = t
                 \/ \E w \in Workers : task'[w] = t
                 \/ \E d \in Callers : arg'[d] = t
      <4>1. t # arg[c] /\ future[t] = "pending"
        BY <2>2, <3>7
      <4>2. QED
        BY <2>2, <4>1 DEF Accounted
    <3>8. QED
      BY <3>4, <3>5, <3>6, <3>7 DEF Accounted
  <2>5. QED
    BY <2>3, <2>4
<1>4. ASSUME NEW t \in Task, CallEnqueue(c, t) PROVE Places'
  <2>1. arg[c] = NoTask
    BY <1>4 DEF CallEnqueue, Seen
  <2>2. QED
    BY <1>4, <2>1, ThreadAssumption
    DEF ThreadAssumption, CallEnqueue, Apart, Accounted, workerVars
<1>5. QED
  BY <1>1, <1>2, <1>3, <1>4 DEF Caller

(* Every accepted task is accounted for, in places that are apart.         *)
LEMMA PlacesInvariant == Safety => []Places
<1>1. Init => Places
  BY DEF Init, Places, Apart, Accounted
<1>2. ASSUME IInv, Places, [Next]_vars PROVE Places'
  <2>1. CASE UNCHANGED vars \/ CallDestructor \/ Destructor
    <3>1. UNCHANGED <<tasks, task, arg, future>>
      BY <2>1 DEF vars, CallDestructor, Destructor, LockInDestructor, SetStop,
                  NotifyAll, Wake, Join, workerVars, callerVars
    <3>2. QED
      BY <1>2, <3>1 DEF Places, Apart, Accounted
  <2>2. QED
    BY <1>2, <2>1, WorkerPlaces, CallerPlaces DEF Next
<1>3. QED
  BY <1>1, <1>2, InductiveInvariant, PTL DEF Safety

(* Every task whose future is pending is in exactly one place, every other *)
(* task in none: accepted tasks are neither lost nor run twice.            *)
THEOREM RunExactlyOnce == Safety => []ExactlyOnce
<1>1. IInv /\ Places => ExactlyOnce
  <2> SUFFICES ASSUME IInv, Places, NEW t \in Task
               PROVE  /\ future[t] = "pending" =>
                            \/ /\ \E i \in Slots(t) : Slots(t) = {i}
                               /\ Runners(t) = {} /\ Bearers(t) = {}
                            \/ /\ \E w \in Runners(t) : Runners(t) = {w}
                               /\ Slots(t) = {} /\ Bearers(t) = {}
                            \/ /\ \E c \in Bearers(t) : Bearers(t) = {c}
                               /\ Slots(t) = {} /\ Runners(t) = {}
                      /\ future[t] # "pending" =>
                            Slots(t) = {} /\ Runners(t) = {} /\ Bearers(t) = {}
    BY DEF ExactlyOnce
  <2> USE ThreadAssumption DEF ThreadAssumption, IInv, TypeOK, Places, Slots, Runners, Bearers
  <2>1. CASE future[t] # "pending"
    BY <2>1 DEF Accounted
  <2>2. ASSUME NEW i \in Slots(t) PROVE Slots(t) = {i} /\ Runners(t) = {} /\ Bearers(t) = {}
    BY <2>2 DEF Apart
  <2>3. ASSUME NEW w \in Runners(t) PROVE Runners(t) = {w} /\ Slots(t) = {} /\ Bearers(t) = {}
    BY <2>3 DEF Apart
  <2>4. ASSUME NEW c \in Bearers(t) PROVE Bearers(t) = {c} /\ Slots(t) = {} /\ Runners(t) = {}
    BY <2>4 DEF Apart
  <2>5. CASE future[t] = "pending"
    <3>1. Slots(t) # {} \/ Runners(t) # {} \/ Bearers(t) # {}
      BY <2>5 DEF Accounted
    <3>2. QED
      BY <2>2, <2>3, <2>4, <2>5, <3>1
  <2>6. QED
    BY <2>1, <2>5
<1>2. QED
  BY <1>1, InductiveInvariant, PlacesInvariant, PTL

(* A worker ends only when the queue has been closed and drained, and when *)
(* the destructor has joined them all, no accepted task is left behind.    *)
THEOREM DrainedAtEnd == Safety => []Drained
<1>1. IInv /\ Places => Drained
  BY ThreadAssumption
  DEF ThreadAssumption, IInv, TypeOK, Seen, Shutdown, Places, Accounted, Drained
<1>2. QED
  BY <1>1, InductiveInvariant, PlacesInvariant, PTL
-----------------------------------------------------------------------------
(* The pool implements TaskQueue.  A push is a submission, a pop a start,  *)
(* the end of task() a finish and stop = true the closing; every other     *)
(* step of a thread is invisible to the code that uses the pool.           *)

(* A worker that is about to pop leaves fewer than Size tasks running.     *)
LEMMA FewRunning ==
  ASSUME IInv, NEW w \in Workers, wpc[w] # "run"
  PROVE  Cardinality(Running) < Cardinality(Workers)
<1> DEFINE Hands == {v \in Workers : wpc[v] = "run"}
           f == [v \in Hands |-> task[v]]
<1>1. Hands \in SUBSET (Workers \ {w})
  OBVIOUS
<1>2. IsFiniteSet(Hands) /\ Cardinality(Hands) < Cardinality(Workers)
  <2>1. /\ IsFiniteSet(Workers \ {w})
        /\ Cardinality(Workers \ {w}) = Cardinality(Workers) - 1
        /\ Cardinality(Workers) \in Nat
    BY ThreadAssumption, FS_RemoveElement, FS_CardinalityType DEF ThreadAssumption
  <2>2. IsFiniteSet(Hands) /\ Cardinality(Hands) <= Cardinality(Workers \ {w})
    BY <1>1, <2>1, FS_Subset
  <2>3. Cardinality(Hands) \in Nat
    BY <2>2, FS_CardinalityType
  <2>4. QED
    BY <2>1, <2>2, <2>3
<1>3. f \in Surjection(Hands, Running)
  BY DEF Surjection, Running
<1>4. IsFiniteSet(Running) /\ Cardinality(Running) <= Cardinality(Hands)
  BY <1>2, <1>3, FS_Surjection
<1>5. QED
  <2>1. /\ Cardinality(Running) \in Nat /\ Cardinality(Hands) \in Nat
        /\ Cardinality(Workers) \in Nat
    BY <1>2, <1>4, ThreadAssumption, FS_CardinalityType DEF ThreadAssumption
  <2>2. QED
    BY <1>2, <1>4, <2>1

(* The steps of a worker (ThreadPool.h:54-63).                             *)
LEMMA WorkerImplements ==
  ASSUME IInv, Places, NEW w \in Workers, Worker(w) \/ WakeSpuriously(w)
  PROVE  [Pool!Next]_(Pool!vars)
<1> USE ThreadAssumption DEF ThreadAssumption, IInv, TypeOK, Places, WorkerLabels
<1>1. CASE Acquire(w) \/ Evaluate(w) \/ Block(w) \/ WakeSpuriously(w) \/ Return(w)
  <2>1. /\ UNCHANGED <<tasks, stop, task, future>>
        /\ \A v \in Workers : wpc'[v] = "run" <=> wpc[v] = "run"
    BY <1>1 DEF Acquire, Evaluate, EvaluateAs, Block, WakeSpuriously, Return, Leave,
                Goto
  <2>2. UNCHANGED <<tasks, Running, Finished, stop>>
    BY <2>1 DEF Running, Finished
  <2>3. QED
    BY <2>2 DEF Pool!vars
<1>2. CASE Take(w)
  <2>1. /\ tasks # <<>> /\ wpc[w] # "run"
        /\ task' = [task EXCEPT ![w] = Head(tasks)] /\ tasks' = Tail(tasks)
        /\ wpc' = [wpc EXCEPT ![w] = "run"]
        /\ UNCHANGED <<stop, future>>
    BY <1>2 DEF Take, TakeOut, Goto, Seen
  <2>2. Running' = Running \cup {Head(tasks)}
    BY <2>1 DEF Running
  <2>3. Cardinality(Running) < Cardinality(Workers)
    BY <2>1, FewRunning
  <2>4. UNCHANGED <<Finished, stop>>
    BY <2>1 DEF Finished
  <2>5. Pool!Cardinality(Running) = Cardinality(Running)
    BY Zenon DEF Pool!Cardinality, Cardinality
  <2>6. Pool!Start
    BY <2>1, <2>2, <2>3, <2>4, <2>5, Zenon DEF Pool!Start
  <2>7. QED
    BY <2>6 DEF Pool!Next
<1>3. CASE Run(w)
  <2>1. /\ wpc[w] = "run" /\ task[w] \in Task
        /\ task' = [task EXCEPT ![w] = NoTask]
        /\ wpc' = [wpc EXCEPT ![w] = "start"]
        /\ future' = [future EXCEPT ![task[w]] = "ready"]
        /\ UNCHANGED <<tasks, stop>>
    BY <1>3 DEF Run, Goto, Seen
  <2>2. task[w] \in Running
    BY <2>1 DEF Running
  <2>3. \A v \in Workers : v # w => task[v] # task[w]
    BY <2>1 DEF Apart
  <2>4. Running' = Running \ {task[w]}
    BY <2>1, <2>3 DEF Running
  <2>5. Finished' = Finished \cup {task[w]}
    BY <2>1 DEF Finished
  <2>6. Pool!Finish(task[w])
    BY <2>1, <2>2, <2>4, <2>5 DEF Pool!Finish
  <2>7. QED
    BY <2>1, <2>6 DEF Pool!Next
<1>4. QED
  BY <1>1, <1>2, <1>3 DEF Worker

(* The steps of a caller (ThreadPool.h:81-91).                             *)
LEMMA CallerImplements ==
  ASSUME IInv, Places, NEW c \in Callers,
         Caller(c) \/ \E t \in Task : CallEnqueue(c, t)
  PROVE  [Pool!Next]_(Pool!vars)
<1> USE ThreadAssumption DEF ThreadAssumption, IInv, TypeOK, Places, workerVars
<1>1. CASE LockInEnqueue(c)
  BY <1>1 DEF LockInEnqueue, Running, Finished, Pool!vars
<1>2. CASE Push(c)
  <2>1. /\ arg[c] \in Task /\ ~stop /\ tasks' = Append(tasks, arg[c])
        /\ UNCHANGED <<stop, wpc, task, future>>
    BY <1>2 DEF Push, Emplace, Seen
  <2>2. UNCHANGED <<Running, Finished>>
    BY <2>1 DEF Running, Finished
  <2>3. arg[c] \notin Pool!Queued
    BY <2>1 DEF Pool!Queued, Apart
  <2>4. arg[c] \notin Running
    BY <2>1 DEF Running, Apart
  <2>5. arg[c] \notin Finished
    BY <2>1 DEF Finished, Accounted
  <2>6. Pool!Submit(arg[c])
    BY <2>1, <2>2, <2>3, <2>4, <2>5 DEF Pool!Submit, Pool!Accepted
  <2>7. QED
    BY <2>1, <2>6 DEF Pool!Next
<1>3. CASE Refuse(c)
  <2>1. /\ future[arg[c]] = "pending" /\ future' = [future EXCEPT ![arg[c]] = "refused"]
        /\ UNCHANGED <<tasks, stop, wpc, task>>
    BY <1>3 DEF Refuse, Throw, Seen, Accounted
  <2>2. UNCHANGED <<Running, Finished>>
    BY <2>1 DEF Running, Finished
  <2>3. QED
    BY <2>1, <2>2 DEF Pool!vars
<1>4. CASE NotifyOne(c)
  <2>1. /\ UNCHANGED <<tasks, stop, task, future>>
        /\ \A v \in Workers : wpc'[v] = "run" <=> wpc[v] = "run"
    BY <1>4 DEF NotifyOne, Sleeping, Goto
  <2>2. UNCHANGED <<Running, Finished>>
    BY <2>1 DEF Running, Finished
  <2>3. QED
    BY <2>1, <2>2 DEF Pool!vars
<1>5. ASSUME NEW t \in Task, CallEnqueue(c, t) PROVE UNCHANGED Pool!vars
  <2>1. /\ future[t] = "none" /\ future' = [future EXCEPT ![t] = "pending"]
        /\ UNCHANGED <<tasks, stop, wpc, task>>
    BY <1>5 DEF CallEnqueue
  <2>2. UNCHANGED <<Running, Finished>>
    BY <2>1 DEF Running, Finished
  <2>3. QED
    BY <2>1, <2>2 DEF Pool!vars
<1>6. QED
  BY <1>1, <1>2, <1>3, <1>4, <1>5 DEF Caller

(* The steps of the destructor (ThreadPool.h:95-104).                      *)
LEMMA DestructorImplements ==
  ASSUME IInv, CallDestructor \/ Destructor
  PROVE  [Pool!Next]_(Pool!vars)
<1> USE DEF IInv, TypeOK, workerVars
<1>1. CASE SetStop
  <2>1. Pool!Close
    BY <1>1 DEF SetStop, Shutdown, Running, Finished, Pool!Close
  <2>2. QED
    BY <2>1 DEF Pool!Next
<1>2. CASE CallDestructor \/ LockInDestructor \/ Join
  BY <1>2 DEF CallDestructor, LockInDestructor, Join, Running, Finished, Pool!vars
<1>3. CASE NotifyAll
  <2>1. /\ UNCHANGED <<tasks, stop, task, future>>
        /\ \A v \in Workers : wpc'[v] = "run" <=> wpc[v] = "run"
    BY <1>3 DEF NotifyAll, Wake, Sleeping
  <2>2. UNCHANGED <<Running, Finished>>
    BY <2>1 DEF Running, Finished
  <2>3. QED
    BY <2>1, <2>2 DEF Pool!vars
<1>4. QED
  BY <1>1, <1>2, <1>3 DEF Destructor

(* The pool implements the safety part of TaskQueue: first in, first out,  *)
(* at most as many tasks running as there are workers, each started and    *)
(* finished once, none accepted after stop and all that was accepted kept. *)
THEOREM PoolImplementsTaskQueue == Safety => Pool!Safety
<1>1. Init => Pool!Init
  BY DEF Init, Running, Finished, Pool!Init
<1>2. IInv /\ Places /\ [Next]_vars => [Pool!Next]_(Pool!vars)
  <2> SUFFICES ASSUME IInv, Places, [Next]_vars PROVE [Pool!Next]_(Pool!vars)
    OBVIOUS
  <2>1. CASE UNCHANGED vars
    BY <2>1 DEF vars, Running, Finished, Pool!vars
  <2>2. CASE Next
    BY <2>2, WorkerImplements, CallerImplements, DestructorImplements DEF Next
  <2>3. QED
    BY <2>1, <2>2
<1>3. QED
  BY <1>1, <1>2, InductiveInvariant, PlacesInvariant, PTL DEF Safety, Pool!Safety
=============================================================================
