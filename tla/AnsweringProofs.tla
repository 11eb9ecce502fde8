--------------------------- MODULE AnsweringProofs ---------------------------
(***************************************************************************)
(* What becomes of a request in HttpServer, for any connections, workers,  *)
(* requests and sizes: the types of every variable, that each request is   *)
(* in one place until it is settled, and that the server uses its pool as  *)
(* a TaskQueue.                                                            *)
(***************************************************************************)
EXTENDS FramingProofs

(* The io_service and the clients.                                         *)
OutsideTypes ==
    /\ start_ \in BOOLEAN /\ accepting \in BOOLEAN /\ broken \in BOOLEAN
    /\ service \in {"running", "stopped"}
    /\ peer \in [Conns -> {"here", "gone"}]
    /\ asked \in [Conns -> 0..MaxRequests]

(* The replies.                                                            *)
ReplyTypes ==
    /\ io \in {<<>>} \cup (Conns \X (Nat \ {0}))
    /\ writes \in [Conns -> SUBSET WriteType]
    /\ replies \in [Conns -> Seq({"ok", "bad"})]
    /\ mem \in [Conns -> SUBSET (Nat \ {0})]
    /\ context_ \in [Conns -> Nat]
    /\ out \in [Conns -> Seq(Nat \ {0})]
    /\ posts \in Seq([conn : Conns, reply : Nat \ {0}])

(* The pool.                                                               *)
PoolTypes ==
    /\ tasks \in Seq(TaskType)
    /\ worker \in [Workers -> WorkerType]
    /\ failed \in [Conns -> Nat]

Types == OutsideTypes /\ ReplyTypes /\ PoolTypes

-----------------------------------------------------------------------------
(* What the handlers of a read do to replies and tasks.                    *)

(* What a task is given to parse.                                          *)
ViewOf(t) == [from |-> t.from, nlen |-> t.nlen]

(* A task is enqueued, for a body handed over and in the Buffer's array.   *)
Hands(c) ==
    /\ \E t \in TaskType :
        /\ t.conn = c /\ t.size = size'[c]
        /\ tasks' = Append(tasks, t) /\ views' = Push(views, c, ViewOf(t))
    /\ UNCHANGED <<io, writes, replyVars, rejected>>

(* A head is rejected.                                                     *)
Rejects(c) ==
    /\ WriteBadRequest(c)
    /\ io' = <<c, NextReply(c)>>
    /\ rejected' = [rejected EXCEPT ![c] = @ + 1]
    /\ UNCHANGED <<tasks, views>>

Quiet == UNCHANGED <<io, writes, replyVars, rejected, tasks, views>>

LEMMA EnqueueHands ==
  ASSUME NEW c \in Conns, size' \in [Conns -> Nat], NEW STATE from, from \in Nat,
         NEW STATE n, n \in Length, Enqueue(c, from, n),
         UNCHANGED <<io, writes, replyVars, rejected>>
  PROVE  Hands(c)
<1> DEFINE t == TaskOf(c, from, n, size'[c])
           v == [from |-> from, nlen |-> n]
<1>1. t \in TaskType /\ t.conn = c /\ t.size = size'[c] /\ ViewOf(t) = v
  BY DEF TaskOf, TaskType, ViewOf
<1>2. tasks' = Append(tasks, t) /\ views' = Push(views, c, v)
  BY DEF Enqueue, EnqueueView
<1> HIDE DEF t, v
<1>3. QED
  BY <1>1, <1>2 DEF Hands

(* Every handler does one of the three (MiniServer.cpp:44-101).            *)
LEMMA ReadDoes ==
  ASSUME Reading, NEW c \in Conns, Read(c)
  PROVE  Quiet \/ Hands(c) \/ Rejects(c)
<1> USE DEF Reading
<1>1. PICK n \in 1..Len(wire[c]) : n <= Writeable(c) /\ Receive(c, n)
  BY DEF Read
<1>2. size' \in [Conns -> Nat] /\ buf'[c] \in Seq(Byte) /\ Len(buf[c]) <= Len(buf'[c])
  BY <1>1, Receives
<1>3. /\ read_pos[c] \in Nat /\ Len(buf'[c]) \in Nat
      /\ read_pos[c] <= Len(buf'[c])
  <2>1. buf[c] \in Seq(Byte) /\ read_pos[c] \in Nat /\ read_pos[c] <= Len(buf[c])
    BY DEF ReadingType, Committed
  <2>2. Len(buf[c]) \in Nat /\ Len(buf'[c]) \in Nat
    BY <1>2, <2>1, LenProperties
  <2>3. QED
    BY <1>2, <2>1, <2>2
<1>4. Head(reads[c]) \in ReadType
  BY HeadTailProperties DEF Read, ReadingType
<1>5. ASSUME NEW STATE pos, pos \in Nat, NEW STATE k, k \in Length, DataCallback(c, k, pos)
      PROVE  Quiet \/ Hands(c)
  <2>1. CASE Enqueue(c, pos, k) /\ UNCHANGED <<io, writes, replyVars, rejected>>
    BY <1>2, <1>5, <2>1, EnqueueHands
  <2>2. CASE UNCHANGED <<tasks, views>> /\ UNCHANGED <<io, writes, replyVars, rejected>>
    BY <2>2 DEF Quiet
  <2>3. QED
    BY <1>5, <2>1, <2>2 DEF DataCallback, BodyOrMore
<1>6. CASE DataCallback(c, Head(reads[c]).nlen, read_pos[c])
  <2>1. Head(reads[c]).nlen \in Length
    BY <1>4 DEF ReadType, Length
  <2>2. QED
    BY <1>3, <1>5, <1>6, <2>1
<1>7. ASSUME NEW p, RequestCallback(c, p)
      PROVE  Quiet \/ Hands(c) \/ Rejects(c)
  <2>1. read_pos[c] + Parse(p, Unread(c)).consumed \in read_pos[c]..Len(buf'[c])
    BY <1>2, <1>3, ParseStaysInside
  <2>2. ASSUME NEW STATE e, e \in Nat, HeadComplete(c, e)
        PROVE  Quiet \/ Hands(c)
    <3>1. CASE buf'[c][e].len \in Nat \cup {Negative} /\ DataCallback(c, buf'[c][e].len, e)
      BY <1>5, <2>2, <3>1 DEF Length
    <3>2. CASE Enqueue(c, e, 0) /\ UNCHANGED <<io, writes, replyVars, rejected>>
      BY <1>2, <2>2, <3>2, EnqueueHands DEF Length
    <3>3. CASE Quiet
      BY <3>3
    <3>4. QED
      BY <2>2, <3>1, <3>2, <3>3 DEF HeadComplete, Quiet
  <2>3. CASE HeadComplete(c, read_pos[c] + Parse(p, Unread(c)).consumed)
    <3>1. read_pos[c] + Parse(p, Unread(c)).consumed \in Nat
      BY <1>3, <2>1
    <3>2. QED
      BY <2>2, <2>3, <3>1
  <2>4. CASE HeadCompleteThrows(c) \/ HeadIncomplete(c)
    BY <2>4 DEF HeadCompleteThrows, HeadIncomplete, CommitHead, Quiet
  <2>5. CASE HeadBad(c)
    BY <2>5 DEF HeadBad, RejectHead, Rejects
  <2>6. QED
    BY <1>7, <2>3, <2>4, <2>5 DEF RequestCallback, Unread
<1>8. QED
  BY <1>6, <1>7 DEF Read

-----------------------------------------------------------------------------
(* Writing keeps the types.                                                *)
LEMMA ReplyNumbers ==
  ASSUME ReplyTypes, NEW c \in Conns
  PROVE  NextReply(c) \in Nat \ {0}
BY LenProperties DEF ReplyTypes, NextReply

LEMMA Repeats ==
  ASSUME NEW r \in Nat \ {0}, NEW k \in Nat
  PROVE  [i \in 1..k |-> r] \in Seq(Nat \ {0})
BY SMT

LEMMA AsyncWriteTypes ==
  ASSUME ReplyTypes, NEW STATE c, c \in Conns, NEW STATE r, r \in Nat \ {0},
         NEW k \in 0..Chunks, AsyncWrite(c, r, k)
  PROVE  writes' \in [Conns -> SUBSET WriteType] /\ out' \in [Conns -> Seq(Nat \ {0})]
<1>1. k \in Nat /\ Chunks - k \in 0..Chunks
  BY ServerAssumption DEF ServerAssumption
<1>2. [reply |-> r, left |-> Chunks - k] \in WriteType
  BY <1>1 DEF WriteType
<1>3. out[c] \o [i \in 1..k |-> r] \in Seq(Nat \ {0})
  BY <1>1, Repeats, ConcatProperties DEF ReplyTypes
<1>4. QED
  BY <1>2, <1>3 DEF AsyncWrite, ReplyTypes

LEMMA WriteBadTypes ==
  ASSUME ReplyTypes, NEW STATE c, c \in Conns, WriteBadRequest(c)
  PROVE  /\ writes' \in [Conns -> SUBSET WriteType]
         /\ out' \in [Conns -> Seq(Nat \ {0})]
         /\ mem' \in [Conns -> SUBSET (Nat \ {0})]
         /\ replies' \in [Conns -> Seq({"ok", "bad"})]
         /\ UNCHANGED context_
<1>1. NextReply(c) \in Nat \ {0}
  BY ReplyNumbers
<1>2. PICK k \in 0..Chunks : AsyncWrite(c, NextReply(c), k)
  BY DEF WriteBadRequest
<1>3. Append(replies[c], "bad") \in Seq({"ok", "bad"})
  BY AppendProperties DEF ReplyTypes
<1>4. QED
  BY <1>1, <1>2, <1>3, AsyncWriteTypes DEF WriteBadRequest, Push, ReplyTypes

LEMMA SetContextTypes ==
  ASSUME ReplyTypes, NEW STATE c, c \in Conns, NEW STATE r, r \in Nat \ {0}, SetContext(c, r)
  PROVE  /\ context_' \in [Conns -> Nat]
         /\ mem' \in [Conns -> SUBSET (Nat \ {0})]
         /\ UNCHANGED <<replies, out>>
BY DEF ReplyTypes, SetContext, Set

(* The handlers that write.                                                *)
LEMMA RunPostTypes == ASSUME ReplyTypes, RunPost PROVE ReplyTypes'
<1> DEFINE p == Head(posts)
<1>1. /\ p \in [conn : Conns, reply : Nat \ {0}]
      /\ Tail(posts) \in Seq([conn : Conns, reply : Nat \ {0}])
  BY HeadTailProperties DEF RunPost, ReplyTypes
<1>2. p.conn \in Conns /\ p.reply \in Nat \ {0}
  BY <1>1
<1>3. PICK k \in 0..Chunks : AsyncWrite(p.conn, p.reply, k)
  BY DEF RunPost
<1>4. writes' \in [Conns -> SUBSET WriteType] /\ out' \in [Conns -> Seq(Nat \ {0})]
  BY <1>2, <1>3, AsyncWriteTypes
<1>5. mem' \in [Conns -> SUBSET (Nat \ {0})]
  BY <1>2 DEF RunPost, ReplyTypes
<1>6. QED
  BY <1>1, <1>4, <1>5 DEF RunPost, ReplyTypes

LEMMA WriteSomeTypes == ASSUME ReplyTypes, NEW c \in Conns, WriteSome(c) PROVE ReplyTypes'
<1>0. PICK op \in writes[c] : \E k \in 1..op.left :
        /\ writes' = [writes EXCEPT ![c] =
                        (@ \ {op}) \cup {[op EXCEPT !.left = @ - k]}]
        /\ out' = [out EXCEPT ![c] = @ \o [i \in 1..k |-> op.reply]]
  BY DEF WriteSome
<1>1. PICK k \in 1..op.left :
        /\ writes' = [writes EXCEPT ![c] =
                        (@ \ {op}) \cup {[op EXCEPT !.left = @ - k]}]
        /\ out' = [out EXCEPT ![c] = @ \o [i \in 1..k |-> op.reply]]
  BY <1>0
<1>2. op \in WriteType
  BY DEF ReplyTypes
<1>3. op.reply \in Nat \ {0} /\ op.left \in 0..Chunks /\ k \in Nat
  BY <1>2, ServerAssumption DEF WriteType, ServerAssumption
<1>4. [op EXCEPT !.left = @ - k] \in WriteType
  BY <1>2, <1>3, ServerAssumption DEF WriteType, ServerAssumption
<1>5. out[c] \o [i \in 1..k |-> op.reply] \in Seq(Nat \ {0})
  BY <1>3, Repeats, ConcatProperties DEF ReplyTypes
<1>6. writes' \in [Conns -> SUBSET WriteType] /\ out' \in [Conns -> Seq(Nat \ {0})]
  BY <1>1, <1>4, <1>5 DEF ReplyTypes
<1>7. QED
  BY <1>6 DEF WriteSome, ReplyTypes

LEMMA WriteEndsTypes == ASSUME ReplyTypes, NEW c \in Conns, WriteEnds(c) PROVE ReplyTypes'
BY DEF WriteEnds, ReplyTypes, replyVars

LEMMA FinishBadRequestTypes == ASSUME ReplyTypes, FinishBadRequest PROVE ReplyTypes'
<1>1. io[1] \in Conns /\ io[2] \in Nat \ {0}
  BY DEF FinishBadRequest, ReplyTypes
<1>2. QED
  BY <1>1, SetContextTypes DEF FinishBadRequest, ReplyTypes

LEMMA ReadTypes ==
  ASSUME Reading, ReplyTypes, PoolTypes, NEW c \in Conns, Read(c)
  PROVE  ReplyTypes' /\ PoolTypes'
<1>1. UNCHANGED <<posts, worker, failed>>
  BY DEF Read
<1>2. CASE Quiet
  BY <1>1, <1>2 DEF Quiet, ReplyTypes, PoolTypes, replyVars
<1>3. CASE Hands(c)
  <2>1. tasks' \in Seq(TaskType)
    BY <1>3, AppendProperties DEF Hands, PoolTypes
  <2>2. QED
    BY <1>1, <1>3, <2>1 DEF Hands, ReplyTypes, PoolTypes, replyVars
<1>4. CASE Rejects(c)
  <2>1. NextReply(c) \in Nat \ {0}
    BY ReplyNumbers
  <2>2. io' \in {<<>>} \cup (Conns \X (Nat \ {0}))
    BY <1>4, <2>1 DEF Rejects
  <2>3. QED
    BY <1>1, <1>4, <2>2, WriteBadTypes DEF Rejects, ReplyTypes, PoolTypes
<1>5. QED
  BY <1>2, <1>3, <1>4, ReadDoes

(* The workers.                                                            *)
LEMMA BusyTypes ==
  ASSUME NEW x \in WorkerType, x.at # "idle"
  PROVE  /\ x.task \in TaskType /\ x.task.conn \in Conns
         /\ x.at = "context" => x.reply \in Nat \ {0}
BY DEF WorkerType, Idle, TaskType

LEMMA BecomesTypes ==
  ASSUME PoolTypes, NEW w \in Workers, NEW STATE x, x \in WorkerType, Become(w, x)
  PROVE  worker' \in [Workers -> WorkerType]
BY DEF PoolTypes, Become

LEMMA BusyType ==
  ASSUME NEW t \in TaskType
  PROVE  /\ \A label \in {"analyze", "query", "marked", "reply", "reject"} : Busy(label, t) \in WorkerType
         /\ \A r \in Nat \ {0} : [at |-> "context", task |-> t, reply |-> r] \in WorkerType
         /\ Idle \in WorkerType
BY DEF Busy, WorkerType, Idle

LEMMA WorkTypes ==
  ASSUME ReplyTypes, PoolTypes, NEW w \in Workers, Work(w)
  PROVE  ReplyTypes' /\ PoolTypes'
<1> DEFINE t == worker[w].task
<1>1. worker[w] \in WorkerType /\ tasks \in Seq(TaskType)
  BY DEF PoolTypes
<1>2. worker[w].at # "idle" => /\ t \in TaskType /\ t.conn \in Conns
                               /\ worker[w].at = "context" => worker[w].reply \in Nat \ {0}
  BY <1>1, BusyTypes
<1>3. CASE Take(w)
  <2>1. Head(tasks) \in TaskType /\ Tail(tasks) \in Seq(TaskType)
    BY <1>1, <1>3, HeadTailProperties DEF Take, TakeLeaving
  <2>2. Busy("analyze", Head(tasks)) \in WorkerType
    BY <2>1, BusyType
  <2>3. worker' \in [Workers -> WorkerType]
    BY <1>3, <2>2, BecomesTypes DEF Take, TakeLeaving
  <2>4. QED
    BY <1>3, <2>1, <2>3
       DEF Take, TakeLeaving, ReplyTypes, PoolTypes, outVars, replyVars, historyVars
<1>4. CASE Analyze(w)
  <2>1. t \in TaskType /\ t.conn \in Conns
    BY <1>2, <1>4 DEF Analyze
  <2>2. worker' \in [Workers -> WorkerType]
    <3>1. Idle \in WorkerType /\ \A label \in {"query", "marked", "reject"} :
                                   Busy(label, t) \in WorkerType
      BY <2>1, BusyType
    <3>2. \/ Become(w, Idle)
          \/ \E label \in {"query", "marked", "reject"} : Become(w, Busy(label, t))
      BY <1>4 DEF Analyze, Analyses
    <3>3. QED
      BY <3>1, <3>2, BecomesTypes
  <2>3. failed' \in [Conns -> Nat]
    BY <1>4, <2>1 DEF Analyze, PoolTypes
  <2>4. QED
    BY <1>4, <2>2, <2>3 DEF Analyze, ReplyTypes, PoolTypes, outVars, replyVars
<1>5. CASE Query(w)
  <2>1. worker' \in [Workers -> WorkerType]
    <3>1. Busy("reply", t) \in WorkerType /\ Busy("reject", t) \in WorkerType
      BY <1>2, <1>5, BusyType DEF Query
    <3>2. Become(w, Busy("reply", t)) \/ Become(w, Busy("reject", t))
      BY <1>5 DEF Query
    <3>3. QED
      BY <3>1, <3>2, BecomesTypes
  <2>2. QED
    BY <1>5, <2>1 DEF Query, ReplyTypes, PoolTypes, outVars, replyVars, historyVars
<1>6. CASE Send(w)
  <2>1. t \in TaskType /\ t.conn \in Conns
    BY <1>2, <1>6 DEF Send
  <2>2. NextReply(t.conn) \in Nat \ {0}
    BY <2>1, ReplyNumbers
  <2>3. Append(replies[t.conn], "ok") \in Seq({"ok", "bad"})
    BY <2>1, AppendProperties DEF ReplyTypes
  <2>4. /\ replies' \in [Conns -> Seq({"ok", "bad"})]
        /\ mem' \in [Conns -> SUBSET (Nat \ {0})]
    BY <1>6, <2>1, <2>2, <2>3 DEF Send, Push, ReplyTypes
  <2>5. posts' \in Seq([conn : Conns, reply : Nat \ {0}])
    <3>1. [conn |-> t.conn, reply |-> NextReply(t.conn)] \in [conn : Conns, reply : Nat \ {0}]
      BY <2>1, <2>2
    <3>2. posts' = Append(posts, [conn |-> t.conn, reply |-> NextReply(t.conn)])
      BY <1>6 DEF Send
    <3>3. QED
      BY <3>1, <3>2, AppendProperties DEF ReplyTypes
  <2>6. worker' \in [Workers -> WorkerType]
    BY <1>6, <2>1, BusyType, BecomesTypes DEF Send
  <2>7. QED
    BY <1>6, <2>4, <2>5, <2>6 DEF Send, ReplyTypes, PoolTypes, historyVars
<1>7. CASE Reject(w)
  <2>1. t \in TaskType /\ t.conn \in Conns
    BY <1>2, <1>7 DEF Reject
  <2>2. NextReply(t.conn) \in Nat \ {0}
    BY <2>1, ReplyNumbers
  <2>3. worker' \in [Workers -> WorkerType]
    <3>1. [at |-> "context", task |-> t, reply |-> NextReply(t.conn)] \in WorkerType
      BY <2>1, <2>2, BusyType
    <3>2. Become(w, [at |-> "context", task |-> t, reply |-> NextReply(t.conn)])
      BY <1>7 DEF Reject
    <3>3. QED
      BY <3>1, <3>2, BecomesTypes
  <2>4. WriteBadRequest(t.conn)
    BY <1>7 DEF Reject
  <2>5. QED
    BY <1>7, <2>1, <2>3, <2>4, WriteBadTypes DEF Reject, ReplyTypes, PoolTypes, historyVars
<1>8. CASE FinishReject(w)
  <2>1. t \in TaskType /\ t.conn \in Conns /\ worker[w].reply \in Nat \ {0}
    BY <1>2, <1>8 DEF FinishReject, FinishThen
  <2>2. worker' \in [Workers -> WorkerType]
    BY <1>8, <2>1, BusyType, BecomesTypes DEF FinishReject, FinishThen
  <2>3. SetContext(t.conn, worker[w].reply)
    BY <1>8 DEF FinishReject, FinishThen
  <2>4. QED
    BY <1>8, <2>1, <2>2, <2>3, SetContextTypes
       DEF FinishReject, FinishThen, ReplyTypes, PoolTypes, historyVars
<1>9. QED
  BY <1>3, <1>4, <1>5, <1>6, <1>7, <1>8 DEF Work
(* What surrounds connections and workers.                                 *)
LEMMA OutsideKept == OutsideTypes /\ UNCHANGED <<serverVars, peer, asked>> => OutsideTypes'
BY DEF OutsideTypes, serverVars

LEMMA NextOutside == OutsideTypes /\ [Next]_vars => OutsideTypes'
<1> SUFFICES ASSUME OutsideTypes, [Next]_vars PROVE OutsideTypes'
  OBVIOUS
<1>1. CASE Start
  BY <1>1 DEF Start, OutsideTypes, clientVars
<1>2. CASE AcceptFails
  BY <1>2 DEF AcceptFails, OutsideTypes, clientVars
<1>3. CASE RunsOut
  BY <1>3 DEF RunsOut, OutsideTypes, clientVars
<1>4. CASE RunPost \/ FinishBadRequest
  BY <1>4, OutsideKept DEF RunPost, FinishBadRequest, clientVars
<1>5. ASSUME NEW c \in Conns, Accept(c) \/ AcceptThrows(c) PROVE OutsideTypes'
  BY <1>5 DEF Accept, AcceptThen, AcceptThrows, OutsideTypes
<1>6. ASSUME NEW c \in Conns, ClientConnects(c) PROVE OutsideTypes'
  BY <1>6, OutsideKept DEF ClientConnects
<1>7. ASSUME NEW c \in Conns, ClientSends(c) PROVE OutsideTypes'
  <2>1. asked' \in [Conns -> 0..MaxRequests]
    <3>1. asked[c] \in 0..MaxRequests /\ asked[c] < MaxRequests
          /\ asked' = [asked EXCEPT ![c] = @ + 1]
      BY <1>7 DEF ClientSends, OutsideTypes
    <3>2. asked[c] + 1 \in 0..MaxRequests
      BY <3>1, ServerAssumption DEF ServerAssumption
    <3>3. QED
      BY <3>1, <3>2 DEF OutsideTypes
  <2>2. QED
    BY <1>7, <2>1 DEF ClientSends, OutsideTypes, serverVars
<1>8. ASSUME NEW c \in Conns, ClientLeaves(c) PROVE OutsideTypes'
  BY <1>8 DEF ClientLeaves, Set, OutsideTypes, serverVars
<1>9. ASSUME NEW c \in Conns, Completion(c) PROVE OutsideTypes'
  BY <1>9, OutsideKept
     DEF Completion, Read, ReadFails, FailThen, WriteSome, WriteEnds, clientVars
<1>10. ASSUME NEW w \in Workers, Work(w) PROVE OutsideTypes'
  BY <1>10, OutsideKept
     DEF Work, Take, TakeLeaving, Analyze, Query, Send, Reject, FinishReject, FinishThen,
         clientVars
<1>11. CASE UNCHANGED vars
  BY <1>11, OutsideKept DEF vars, clientVars
<1>12. QED
  BY <1>1, <1>2, <1>3, <1>4, <1>5, <1>6, <1>7, <1>8, <1>9, <1>10, <1>11 DEF Next, Client

LEMMA AnsweringKept ==
  ReplyTypes /\ PoolTypes /\ UNCHANGED <<io, outVars, poolVars, failed>>
  => ReplyTypes' /\ PoolTypes'
BY DEF ReplyTypes, PoolTypes, outVars, replyVars, poolVars

LEMMA NextAnswering ==
  Reading /\ ReplyTypes /\ PoolTypes /\ [Next]_vars => ReplyTypes' /\ PoolTypes'
<1> SUFFICES ASSUME Reading, ReplyTypes, PoolTypes, [Next]_vars
             PROVE  ReplyTypes' /\ PoolTypes'
  OBVIOUS
<1>1. CASE Start \/ AcceptFails \/ RunsOut
  BY <1>1, AnsweringKept DEF Start, AcceptFails, RunsOut, workVars, historyVars
<1>2. CASE RunPost
  <2>1. PoolTypes'
    BY <1>2 DEF RunPost, PoolTypes, workVars, poolVars, historyVars
  <2>2. QED
    BY <1>2, <2>1, RunPostTypes
<1>3. CASE FinishBadRequest
  <2>1. PoolTypes'
    BY <1>3 DEF FinishBadRequest, PoolTypes, workVars, poolVars, historyVars
  <2>2. QED
    BY <1>3, <2>1, FinishBadRequestTypes
<1>4. ASSUME NEW c \in Conns, Client(c) \/ Accept(c) \/ AcceptThrows(c) \/ ReadFails(c)
      PROVE  ReplyTypes' /\ PoolTypes'
  BY <1>4, AnsweringKept
     DEF Client, ClientConnects, ClientSends, ClientLeaves, Accept, AcceptThen,
         AcceptThrows, ReadFails, FailThen, workVars, historyVars
<1>5. ASSUME NEW c \in Conns, WriteSome(c) \/ WriteEnds(c)
      PROVE  ReplyTypes' /\ PoolTypes'
  <2>1. PoolTypes'
    BY <1>5 DEF WriteSome, WriteEnds, PoolTypes, workVars, poolVars, historyVars
  <2>2. QED
    BY <1>5, <2>1, WriteSomeTypes, WriteEndsTypes
<1>6. CASE UNCHANGED vars
  BY <1>6, AnsweringKept DEF vars, workVars, historyVars
<1>7. QED
  BY <1>1, <1>2, <1>3, <1>4, <1>5, <1>6, ReadTypes, WorkTypes DEF Next, Completion

LEMMA InitTypes == Init => Types
<1> SUFFICES ASSUME Init PROVE Types
  OBVIOUS
<1>1. OutsideTypes
  <2>1. asked \in [Conns -> 0..MaxRequests]
    <3>1. 0 \in 0..MaxRequests
      BY ServerAssumption DEF ServerAssumption
    <3>2. QED
      BY <3>1 DEF Init
  <2>2. peer \in [Conns -> {"here", "gone"}]
    BY DEF Init
  <2>3. QED
    BY <2>1, <2>2 DEF Init, OutsideTypes
<1>2. ReplyTypes
  BY EmptySeq DEF Init, ReplyTypes
<1>3. PoolTypes
  BY EmptySeq DEF Init, PoolTypes, WorkerType
<1>4. QED
  BY <1>1, <1>2, <1>3 DEF Types

LEMMA AlwaysTypes == Safety => [](Reading /\ Framing /\ Types)
<1>1. Types /\ Reading /\ [Next]_vars => Types'
  BY NextOutside, NextAnswering DEF Types
<1>2. QED
  BY <1>1, InitReading, InitFraming, InitTypes, NextReading, NextFraming, PTL DEF Safety

(* Every variable of the server keeps its type, whatever clients send.     *)
THEOREM TypeCorrect == Safety => []TypeOK
<1>1. Reading /\ Framing /\ Types => TypeOK
  BY DEF Reading, ReadingType, Framing, ViewType, Types, OutsideTypes, ReplyTypes,
         PoolTypes, TypeOK
<1>2. QED
  BY <1>1, AlwaysTypes, PTL

-----------------------------------------------------------------------------
(* Counting the requests of a connection.                                  *)

InSeq(s, c) == {i \in DOMAIN s : s[i].conn = c}

LEMMA InSeqFinite ==
  ASSUME NEW s \in Seq(TaskType), NEW c
  PROVE  /\ IsFiniteSet(InSeq(s, c)) /\ Cardinality(InSeq(s, c)) \in Nat
         /\ InSeq(s, c) = {i \in 1..Len(s) : s[i].conn = c}
<1>1. Len(s) \in Nat /\ DOMAIN s = 1..Len(s)
  BY LenProperties
<1>2. IsFiniteSet(1..Len(s)) /\ InSeq(s, c) \in SUBSET (1..Len(s))
  BY <1>1, FS_Interval DEF InSeq
<1>3. IsFiniteSet(InSeq(s, c))
  BY <1>2, FS_Subset
<1>4. QED
  BY <1>1, <1>3, FS_CardinalityType DEF InSeq

(* A task that is appended is one more of its connection.                  *)
LEMMA InSeqAppend ==
  ASSUME NEW s \in Seq(TaskType), NEW t \in TaskType, NEW c
  PROVE  Cardinality(InSeq(Append(s, t), c)) =
            Cardinality(InSeq(s, c)) + (IF t.conn = c THEN 1 ELSE 0)
<1> DEFINE q == Append(s, t)
           n == Len(s) + 1
<1>1. Len(s) \in Nat
  BY LenProperties
<1>2. /\ q \in Seq(TaskType) /\ Len(q) = n
      /\ \A i \in 1..Len(s) : q[i] = s[i]
      /\ q[n] = t
  BY AppendProperties
<1> HIDE DEF q
<1>3. /\ IsFiniteSet(InSeq(s, c)) /\ Cardinality(InSeq(s, c)) \in Nat
      /\ InSeq(s, c) = {i \in 1..Len(s) : s[i].conn = c}
      /\ InSeq(q, c) = {i \in 1..n : q[i].conn = c}
  BY <1>2, InSeqFinite
<1>4. n \notin InSeq(s, c) /\ 1..n = 1..Len(s) \cup {n}
  BY <1>1, <1>3
<1>5. CASE t.conn = c
  <2>1. InSeq(q, c) = InSeq(s, c) \cup {n}
    BY <1>2, <1>3, <1>4, <1>5
  <2>2. Cardinality(InSeq(s, c) \cup {n}) = Cardinality(InSeq(s, c)) + 1
    BY <1>3, <1>4, FS_AddElement
  <2>3. QED
    BY <1>5, <2>1, <2>2 DEF q
<1>6. CASE t.conn # c
  <2>1. InSeq(q, c) = InSeq(s, c)
    BY <1>2, <1>3, <1>4, <1>6
  <2>2. Cardinality(InSeq(Append(s, t), c)) = Cardinality(InSeq(s, c))
    BY <2>1 DEF q
  <2>3. QED
    BY <1>3, <1>6, <2>2
<1>7. QED
  BY <1>5, <1>6

(* The task that is taken off the front is one less.                       *)
LEMMA InSeqTail ==
  ASSUME NEW s \in Seq(TaskType), s # <<>>, NEW c
  PROVE  Cardinality(InSeq(s, c)) =
            Cardinality(InSeq(Tail(s), c)) + (IF Head(s).conn = c THEN 1 ELSE 0)
<1> DEFINE q == Tail(s)
           r == InSeq(s, c) \ {1}
           f == [i \in InSeq(q, c) |-> i + 1]
<1>1. /\ Len(s) \in Nat /\ Len(s) # 0 /\ s[1] = Head(s)
      /\ q \in Seq(TaskType) /\ Len(q) = Len(s) - 1
      /\ \A i \in 1..Len(q) : q[i] = s[i + 1]
  BY LenProperties, EmptySeq, HeadTailProperties
<1> HIDE DEF q
<1>2. /\ IsFiniteSet(InSeq(s, c)) /\ Cardinality(InSeq(s, c)) \in Nat
      /\ InSeq(s, c) = {i \in 1..Len(s) : s[i].conn = c}
      /\ IsFiniteSet(InSeq(q, c)) /\ Cardinality(InSeq(q, c)) \in Nat
      /\ InSeq(q, c) = {i \in 1..Len(q) : q[i].conn = c}
  BY <1>1, InSeqFinite
<1>3. f \in Bijection(InSeq(q, c), r)
  <2>1. \A i \in InSeq(q, c) : i \in Nat /\ i + 1 \in r
    BY <1>1, <1>2
  <2>2. \A j \in r : j - 1 \in InSeq(q, c) /\ (j - 1) + 1 = j
    BY <1>1, <1>2
  <2>3. QED
    BY <2>1, <2>2, Fun_IsBij
<1>4. Cardinality(r) = Cardinality(InSeq(q, c))
  BY <1>2, <1>3, FS_Bijection DEF ExistsBijection
<1>5. Cardinality(r) = Cardinality(InSeq(s, c)) - (IF Head(s).conn = c THEN 1 ELSE 0)
  <2>1. 1 \in InSeq(s, c) <=> Head(s).conn = c
    BY <1>1, <1>2
  <2>2. /\ 1 \in InSeq(s, c) => Cardinality(r) = Cardinality(InSeq(s, c)) - 1
        /\ 1 \notin InSeq(s, c) => Cardinality(r) = Cardinality(InSeq(s, c))
    BY <1>2, FS_RemoveElement
  <2> HIDE DEF r
  <2>3. QED
    BY <1>2, <2>1, <2>2
<1>6. QED
  BY <1>2, <1>4, <1>5 DEF q

(* Worker state x is that of a worker with an unanswered request of c.     *)
Holds(x, c) == x.at \in {"analyze", "query", "marked", "reply", "reject"} /\ x.task.conn = c

LEMMA UnansweredFinite ==
  ASSUME NEW c
  PROVE  /\ IsFiniteSet(Unanswered(c)) /\ Cardinality(Unanswered(c)) \in Nat
         /\ Unanswered(c) = {w \in Workers : Holds(worker[w], c)}
<1>1. Unanswered(c) \in SUBSET Workers /\ IsFiniteSet(Workers)
  BY ServerAssumption DEF Unanswered, ServerAssumption
<1>2. QED
  BY <1>1, FS_Subset, FS_CardinalityType DEF Unanswered, Holds

LEMMA UnansweredTyped == \A c : Cardinality(Unanswered(c)') \in Nat
<1> TAKE c
<1>1. Unanswered(c)' \in SUBSET Workers /\ IsFiniteSet(Workers)
  BY ServerAssumption DEF Unanswered, ServerAssumption
<1>2. QED
  BY <1>1, FS_Subset, FS_CardinalityType

(* What a worker becomes changes the count of unanswered requests.         *)
LEMMA UnansweredBecomes ==
  ASSUME PoolTypes, NEW w \in Workers, NEW STATE x, Become(w, x), NEW c
  PROVE  Cardinality(Unanswered(c)') + (IF Holds(worker[w], c) THEN 1 ELSE 0) =
            Cardinality(Unanswered(c)) + (IF Holds(x, c) THEN 1 ELSE 0)
<1>1. /\ IsFiniteSet(Unanswered(c)) /\ Cardinality(Unanswered(c)) \in Nat
      /\ Unanswered(c) = {v \in Workers : Holds(worker[v], c)}
  BY UnansweredFinite
<1>2. /\ worker'[w] = x
      /\ \A v \in Workers : v # w => worker'[v] = worker[v]
  BY DEF PoolTypes, Become
<1>3. Unanswered(c)' = {v \in Workers : Holds(worker'[v], c)}
  BY DEF Unanswered, Holds
<1>4. w \in Unanswered(c) <=> Holds(worker[w], c)
  BY <1>1
<1>5. CASE Holds(x, c)
  <2>1. Unanswered(c)' = Unanswered(c) \cup {w}
    BY <1>1, <1>2, <1>3, <1>5
  <2>2. /\ w \in Unanswered(c) =>
              Cardinality(Unanswered(c) \cup {w}) = Cardinality(Unanswered(c))
        /\ w \notin Unanswered(c) =>
              Cardinality(Unanswered(c) \cup {w}) = Cardinality(Unanswered(c)) + 1
    BY <1>1, FS_AddElement
  <2>3. Cardinality(Unanswered(c)') = Cardinality(Unanswered(c) \cup {w})
    BY <2>1
  <2>4. QED
    BY <1>1, <1>4, <1>5, <2>2, <2>3
<1>6. CASE ~Holds(x, c)
  <2>1. Unanswered(c)' = Unanswered(c) \ {w}
    BY <1>1, <1>2, <1>3, <1>6
  <2>2. /\ w \in Unanswered(c) =>
              Cardinality(Unanswered(c) \ {w}) = Cardinality(Unanswered(c)) - 1
        /\ w \notin Unanswered(c) =>
              Cardinality(Unanswered(c) \ {w}) = Cardinality(Unanswered(c))
    BY <1>1, FS_RemoveElement
  <2>3. Cardinality(Unanswered(c)') = Cardinality(Unanswered(c) \ {w})
    BY <2>1
  <2>4. QED
    BY <1>1, <1>4, <1>6, <2>2, <2>3
<1>7. QED
  BY <1>5, <1>6

-----------------------------------------------------------------------------
(* The account of a connection.                                            *)
Balanced(c) ==
    Len(views[c]) + rejected[c] =
        Cardinality(Queued(c)) + Cardinality(Unanswered(c))
            + Len(replies[c]) + failed[c]

(* Everything the account is made of is a number.                          *)
LEMMA AccountTypes ==
  ASSUME Reading, Framing, ReplyTypes, PoolTypes, NEW c \in Conns
  PROVE  /\ Len(views[c]) \in Nat /\ rejected[c] \in Nat
         /\ Cardinality(Queued(c)) \in Nat /\ Cardinality(Unanswered(c)) \in Nat
         /\ Len(replies[c]) \in Nat /\ failed[c] \in Nat
<1>1. Queued(c) = InSeq(tasks, c)
  BY DEF Queued, InSeq
<1>2. tasks \in Seq(TaskType)
  BY DEF PoolTypes
<1>3. Cardinality(Queued(c)) \in Nat
  BY <1>1, <1>2, InSeqFinite
<1>4. Cardinality(Unanswered(c)) \in Nat
  BY UnansweredFinite
<1>5. views[c] \in Seq(ViewType) /\ replies[c] \in Seq({"ok", "bad"})
  BY DEF Framing, ReplyTypes
<1>6. Len(views[c]) \in Nat /\ Len(replies[c]) \in Nat
  BY <1>5, LenProperties
<1>7. rejected[c] \in Nat /\ failed[c] \in Nat
  BY DEF Reading, ReadingType, PoolTypes
<1>8. QED
  BY <1>3, <1>4, <1>6, <1>7

(* What changes nothing in the account.                                    *)
LEMMA AccountKept ==
  ASSUME EachRequestOnce, UNCHANGED <<views, rejected, tasks, worker, replies, failed>>
  PROVE  EachRequestOnce'
BY DEF EachRequestOnce, Queued, Unanswered

(* A read puts a body into the queue, or answers a head it rejects.        *)
LEMMA ReadAccount ==
  ASSUME Reading, Framing, ReplyTypes, PoolTypes, EachRequestOnce,
         NEW c \in Conns, Read(c), NEW d \in Conns
  PROVE  Balanced(d)'
<1>1. /\ Len(views[d]) + rejected[d] =
            Cardinality(Queued(d)) + Cardinality(Unanswered(d))
                + Len(replies[d]) + failed[d]
      /\ Len(views[d]) \in Nat /\ rejected[d] \in Nat
      /\ Cardinality(Queued(d)) \in Nat /\ Cardinality(Unanswered(d)) \in Nat
      /\ Len(replies[d]) \in Nat /\ failed[d] \in Nat
  BY AccountTypes DEF EachRequestOnce
<1> DEFINE v == Len(views[d])
           p == Len(replies[d])
           q == Cardinality(Queued(d))
           u == Cardinality(Unanswered(d))
           r == rejected[d]
           f == failed[d]
<1>sum. /\ v \in Nat /\ p \in Nat /\ q \in Nat /\ u \in Nat /\ r \in Nat /\ f \in Nat
        /\ v + r = q + u + p + f
  BY <1>1
<1>2. UNCHANGED <<worker, failed>>
  BY DEF Read
<1>3. Cardinality(Unanswered(d)') = Cardinality(Unanswered(d)) /\ failed'[d] = failed[d]
  BY <1>2 DEF Unanswered
<1>4. /\ views \in [Conns -> Seq(ViewType)] /\ tasks \in Seq(TaskType)
      /\ replies \in [Conns -> Seq({"ok", "bad"})] /\ rejected \in [Conns -> Nat]
  BY DEF Framing, PoolTypes, ReplyTypes, Reading, ReadingType
<1>5. CASE Quiet
  BY <1>1, <1>2, <1>5 DEF Quiet, replyVars, Balanced, Queued, Unanswered
<1>6. CASE Hands(c)
  <2>1. PICK t \in TaskType : t.conn = c /\ tasks' = Append(tasks, t)
    BY <1>6 DEF Hands
  <2>2. /\ d = c => Cardinality(Queued(d)') = Cardinality(Queued(d)) + 1
        /\ d # c => Cardinality(Queued(d)') = Cardinality(Queued(d))
    <3>1. Queued(d)' = InSeq(Append(tasks, t), d) /\ Queued(d) = InSeq(tasks, d)
      BY <2>1 DEF Queued, InSeq
    <3>2. Cardinality(InSeq(Append(tasks, t), d)) =
            Cardinality(InSeq(tasks, d)) + (IF t.conn = d THEN 1 ELSE 0)
      BY <1>4, InSeqAppend
    <3>3. QED
      BY <1>1, <2>1, <3>1, <3>2
  <2>3. /\ d = c => Len(views'[d]) = Len(views[d]) + 1
        /\ d # c => views'[d] = views[d]
    <3>1. PICK vw \in ViewType : views' = [views EXCEPT ![c] = Append(views[c], vw)]
      BY <1>6 DEF Hands, Push, ViewOf, ViewType, TaskType
    <3>2. views[c] \in Seq(ViewType) /\ Len(views[d]) \in Nat
      BY <1>4, LenProperties
    <3>3. Len(Append(views[c], vw)) = Len(views[c]) + 1
      BY <3>2, AppendProperties
    <3>4. QED
      BY <1>4, <3>1, <3>2, <3>3
  <2>4. rejected'[d] = rejected[d] /\ replies'[d] = replies[d]
    BY <1>6 DEF Hands, replyVars
  <2>5. CASE d = c
    <3>1. /\ Cardinality(Queued(d)') = q + 1 /\ Len(views'[d]) = v + 1
          /\ Cardinality(Unanswered(d)') = u /\ Len(replies'[d]) = p
          /\ rejected'[d] = r /\ failed'[d] = f
      BY <1>3, <2>2, <2>3, <2>4, <2>5
    <3> HIDE DEF v, p, q, u, r, f
    <3>2. (v + 1) + r = (q + 1) + u + p + f
      BY <1>sum
    <3>3. QED
      BY <3>1, <3>2 DEF Balanced
  <2>6. CASE d # c
    BY <1>1, <1>3, <2>2, <2>3, <2>4, <2>6 DEF Balanced
  <2>7. QED
    BY <2>5, <2>6
<1>7. CASE Rejects(c)
  <2>1. Cardinality(Queued(d)') = Cardinality(Queued(d)) /\ views'[d] = views[d]
    BY <1>7 DEF Rejects, Queued
  <2>2. /\ d = c => rejected'[d] = rejected[d] + 1
        /\ d # c => rejected'[d] = rejected[d]
    BY <1>4, <1>7 DEF Rejects
  <2>3. /\ d = c => Len(replies'[d]) = Len(replies[d]) + 1
        /\ d # c => replies'[d] = replies[d]
    <3>1. replies' = [replies EXCEPT ![c] = Append(replies[c], "bad")]
      BY <1>7 DEF Rejects, WriteBadRequest, Push
    <3>2. replies[c] \in Seq({"ok", "bad"}) /\ Len(replies[d]) \in Nat
      BY <1>4, LenProperties
    <3>3. Len(Append(replies[c], "bad")) = Len(replies[c]) + 1
      BY <3>2, AppendProperties
    <3>4. QED
      BY <1>4, <3>1, <3>2, <3>3
  <2>4. CASE d = c
    <3>1. /\ Cardinality(Queued(d)') = q /\ Len(views'[d]) = v
          /\ Cardinality(Unanswered(d)') = u /\ Len(replies'[d]) = p + 1
          /\ rejected'[d] = r + 1 /\ failed'[d] = f
      BY <1>3, <2>1, <2>2, <2>3, <2>4
    <3> HIDE DEF v, p, q, u, r, f
    <3>2. v + (r + 1) = q + u + (p + 1) + f
      BY <1>sum
    <3>3. QED
      BY <3>1, <3>2 DEF Balanced
  <2>5. CASE d # c
    BY <1>1, <1>3, <2>1, <2>2, <2>3, <2>5 DEF Balanced
  <2>6. QED
    BY <2>4, <2>5
<1>8. QED
  BY <1>5, <1>6, <1>7, ReadDoes

(* A worker moves a request from the queue to its hand, and settles it by  *)
(* one reply or one exception.                                             *)
LEMMA WorkAccount ==
  ASSUME Reading, Framing, ReplyTypes, PoolTypes, EachRequestOnce,
         NEW w \in Workers, Work(w), NEW d \in Conns
  PROVE  Balanced(d)'
<1> DEFINE t == worker[w].task
           held == IF Holds(worker[w], d) THEN 1 ELSE 0
           mine == IF t.conn = d THEN 1 ELSE 0
<1>0. mine \in Nat
  OBVIOUS
<1>1. Balanced(d) /\ worker[w] \in WorkerType
  BY DEF EachRequestOnce, Balanced, PoolTypes
<1>2. UNCHANGED <<views, rejected>>
  BY DEF Work, Take, TakeLeaving, Analyze, Query, Send, Reject, FinishReject, FinishThen,
         historyVars
<1>3. ASSUME UNCHANGED tasks
      PROVE  Cardinality(Queued(d)') = Cardinality(Queued(d))
  BY <1>3 DEF Queued
<1>4. ASSUME NEW label \in {"analyze", "query", "marked", "reply", "reject"}, NEW task
      PROVE  Holds(Busy(label, task), d) <=> task.conn = d
  BY DEF Holds, Busy
<1>5. ~Holds(Idle, d) /\ ~Holds([at |-> "context", task |-> t, reply |-> NextReply(t.conn)], d)
  BY DEF Holds, Idle
<1>6. ASSUME worker[w].at \in {"analyze", "query", "marked", "reply", "reject"}
      PROVE  held = mine
  BY <1>6 DEF Holds
<1>7. ASSUME NEW STATE kind, kind \in {"ok", "bad"},
             worker[w].at # "idle", replies' = Push(replies, t.conn, kind)
      PROVE  Len(replies'[d]) = Len(replies[d]) + mine
  <2>1. t.conn \in Conns /\ replies \in [Conns -> Seq({"ok", "bad"})]
    BY <1>1, <1>7, BusyTypes DEF ReplyTypes
  <2>2. replies[t.conn] \in Seq({"ok", "bad"}) /\ Len(replies[d]) \in Nat
    BY <2>1, LenProperties
  <2>3. Len(Append(replies[t.conn], kind)) = Len(replies[t.conn]) + 1
    BY <1>7, <2>2, AppendProperties
  <2>4. QED
    BY <1>7, <2>1, <2>2, <2>3 DEF Push
<1>8. CASE Take(w)
  <2>1. /\ worker[w] = Idle /\ tasks # <<>> /\ tasks' = Tail(tasks)
        /\ Become(w, Busy("analyze", Head(tasks)))
        /\ UNCHANGED <<replies, failed>>
    BY <1>8 DEF Take, TakeLeaving, outVars, replyVars, historyVars
  <2>2. tasks \in Seq(TaskType)
    BY DEF PoolTypes
  <2>3. Cardinality(Queued(d)) =
            Cardinality(Queued(d)') + (IF Head(tasks).conn = d THEN 1 ELSE 0)
    <3>1. Queued(d)' = InSeq(Tail(tasks), d) /\ Queued(d) = InSeq(tasks, d)
      BY <2>1 DEF Queued, InSeq
    <3>2. QED
      BY <2>1, <2>2, <3>1, InSeqTail
  <2>4. Cardinality(Unanswered(d)') =
            Cardinality(Unanswered(d)) + (IF Head(tasks).conn = d THEN 1 ELSE 0)
    <3>1. Cardinality(Unanswered(d)') + (IF Holds(worker[w], d) THEN 1 ELSE 0) =
            Cardinality(Unanswered(d))
                + (IF Holds(Busy("analyze", Head(tasks)), d) THEN 1 ELSE 0)
      BY <2>1, UnansweredBecomes
    <3>2. ~Holds(worker[w], d) /\ (Holds(Busy("analyze", Head(tasks)), d) <=> Head(tasks).conn = d)
      BY <1>4, <1>5, <2>1
    <3>3. Cardinality(Unanswered(d)') \in Nat
      BY UnansweredTyped
    <3>4. QED
      BY <3>1, <3>2, <3>3
  <2>5. Cardinality(Queued(d)') \in Nat
    <3>1. Queued(d)' = InSeq(Tail(tasks), d) /\ Tail(tasks) \in Seq(TaskType)
      BY <2>1, <2>2, HeadTailProperties DEF Queued, InSeq
    <3>2. QED
      BY <3>1, InSeqFinite
  <2>6. QED
    BY <1>1, <1>2, <2>1, <2>3, <2>4, <2>5, AccountTypes DEF Balanced
<1>9. CASE Analyze(w)
  <2>1. /\ worker[w].at = "analyze" /\ UNCHANGED <<tasks, replies>>
    BY <1>9 DEF Analyze, outVars, replyVars
  <2>2. CASE \E label \in {"query", "marked", "reject"} : Become(w, Busy(label, t)) /\ UNCHANGED failed
    <3>1. Cardinality(Unanswered(d)') = Cardinality(Unanswered(d))
      BY <1>4, <1>6, <2>1, <2>2, UnansweredBecomes, UnansweredTyped, AccountTypes
    <3>2. QED
      BY <1>1, <1>2, <1>3, <2>1, <2>2, <3>1 DEF Balanced
  <2>3. CASE Become(w, Idle) /\ failed' = [failed EXCEPT ![t.conn] = @ + 1]
    <3>1. Cardinality(Unanswered(d)') + mine = Cardinality(Unanswered(d))
      BY <1>5, <1>6, <2>1, <2>3, UnansweredBecomes, UnansweredTyped, AccountTypes
    <3>2. failed'[d] = failed[d] + mine
      <4>1. failed \in [Conns -> Nat] /\ t.conn \in Conns
        BY <1>1, <2>1, BusyTypes DEF PoolTypes
      <4>2. QED
        BY <2>3, <4>1
    <3> HIDE DEF mine
    <3>3. Len(views[d]) + rejected[d] =
            Cardinality(Queued(d)) + Cardinality(Unanswered(d)')
                + Len(replies[d]) + (failed[d] + mine)
      BY <1>0, <1>1, <3>1, UnansweredTyped, AccountTypes DEF Balanced
    <3>4. QED
      BY <1>2, <1>3, <2>1, <3>2, <3>3 DEF Balanced
  <2>4. QED
    BY <1>9, <2>2, <2>3 DEF Analyze, Analyses
<1>10. CASE Query(w)
  <2>1. worker[w].at \in {"query", "marked"} /\ UNCHANGED <<tasks, replies, failed>>
    BY <1>10 DEF Query, outVars, replyVars, historyVars
  <2>2. PICK label \in {"reply", "reject"} : Become(w, Busy(label, t))
    BY <1>10 DEF Query
  <2>3. Cardinality(Unanswered(d)') = Cardinality(Unanswered(d))
    BY <1>4, <1>6, <2>1, <2>2, UnansweredBecomes, UnansweredTyped, AccountTypes
  <2>4. QED
    BY <1>1, <1>2, <1>3, <2>1, <2>3 DEF Balanced
<1>11. CASE Send(w)
  <2>1. /\ worker[w].at = "reply" /\ UNCHANGED <<tasks, failed>>
        /\ replies' = Push(replies, t.conn, "ok") /\ Become(w, Idle)
    BY <1>11 DEF Send, historyVars
  <2>2. Cardinality(Unanswered(d)') + mine = Cardinality(Unanswered(d))
    BY <1>5, <1>6, <2>1, UnansweredBecomes, UnansweredTyped, AccountTypes
  <2>3. Len(replies'[d]) = Len(replies[d]) + mine
    BY <1>7, <2>1
  <2> HIDE DEF mine
  <2>4. Len(views[d]) + rejected[d] =
            Cardinality(Queued(d)) + Cardinality(Unanswered(d)')
                + (Len(replies[d]) + mine) + failed[d]
    BY <1>0, <1>1, <2>2, UnansweredTyped, AccountTypes DEF Balanced
  <2>5. QED
    BY <1>2, <1>3, <2>1, <2>3, <2>4 DEF Balanced
<1>12. CASE Reject(w)
  <2>1. /\ worker[w].at = "reject" /\ UNCHANGED <<tasks, failed>>
        /\ replies' = Push(replies, t.conn, "bad")
        /\ Become(w, [at |-> "context", task |-> t, reply |-> NextReply(t.conn)])
    BY <1>12 DEF Reject, WriteBadRequest, historyVars
  <2>2. Cardinality(Unanswered(d)') + mine = Cardinality(Unanswered(d))
    BY <1>5, <1>6, <2>1, UnansweredBecomes, UnansweredTyped, AccountTypes
  <2>3. Len(replies'[d]) = Len(replies[d]) + mine
    BY <1>7, <2>1
  <2> HIDE DEF mine
  <2>4. Len(views[d]) + rejected[d] =
            Cardinality(Queued(d)) + Cardinality(Unanswered(d)')
                + (Len(replies[d]) + mine) + failed[d]
    BY <1>0, <1>1, <2>2, UnansweredTyped, AccountTypes DEF Balanced
  <2>5. QED
    BY <1>2, <1>3, <2>1, <2>3, <2>4 DEF Balanced
<1>13. CASE FinishReject(w)
  <2>1. /\ worker[w].at = "context" /\ Become(w, Idle)
        /\ UNCHANGED <<tasks, replies, failed>>
    BY <1>13 DEF FinishReject, FinishThen, SetContext, historyVars
  <2>2. Cardinality(Unanswered(d)') = Cardinality(Unanswered(d))
    <3>1. ~Holds(worker[w], d)
      BY <2>1 DEF Holds
    <3>2. QED
      BY <1>5, <2>1, <3>1, UnansweredBecomes, UnansweredTyped, AccountTypes
  <2>3. QED
    BY <1>1, <1>2, <1>3, <2>1, <2>2 DEF Balanced
<1>14. QED
  BY <1>8, <1>9, <1>10, <1>11, <1>12, <1>13 DEF Work

LEMMA InitAccount == Init => EachRequestOnce
<1> SUFFICES ASSUME Init, NEW c \in Conns PROVE Balanced(c)
  BY DEF EachRequestOnce, Balanced
<1>1. Queued(c) = {} /\ Unanswered(c) = {}
  BY DEF Init, Queued, Unanswered, Idle
<1>2. Len(views[c]) = 0 /\ Len(replies[c]) = 0 /\ rejected[c] = 0 /\ failed[c] = 0
  BY EmptySeq DEF Init
<1>3. QED
  BY <1>1, <1>2, FS_EmptySet DEF Balanced

LEMMA NextAccount ==
  Reading /\ Framing /\ Types /\ EachRequestOnce /\ [Next]_vars => EachRequestOnce'
<1> SUFFICES ASSUME Reading, Framing, Types, EachRequestOnce, [Next]_vars
             PROVE  EachRequestOnce'
  OBVIOUS
<1> USE DEF outVars, replyVars, workVars, poolVars, historyVars, Types
<1>1. CASE Start \/ AcceptFails \/ RunsOut
  BY <1>1, AccountKept DEF Start, AcceptFails, RunsOut
<1>2. CASE RunPost \/ FinishBadRequest
  BY <1>2, AccountKept DEF RunPost, FinishBadRequest, SetContext
<1>3. ASSUME NEW c \in Conns, Client(c) \/ Accept(c) \/ AcceptThrows(c)
      PROVE  EachRequestOnce'
  BY <1>3, AccountKept
     DEF Client, ClientConnects, ClientSends, ClientLeaves, Accept, AcceptThen, AcceptThrows
<1>4. ASSUME NEW c \in Conns, ReadFails(c) \/ WriteSome(c) \/ WriteEnds(c)
      PROVE  EachRequestOnce'
  BY <1>4, AccountKept DEF ReadFails, FailThen, WriteSome, WriteEnds
<1>5. ASSUME NEW c \in Conns, Read(c) PROVE EachRequestOnce'
  <2>1. \A d \in Conns : Balanced(d)'
    BY <1>5, ReadAccount
  <2>2. QED
    BY <2>1 DEF Balanced, EachRequestOnce
<1>6. ASSUME NEW w \in Workers, Work(w) PROVE EachRequestOnce'
  <2>1. \A d \in Conns : Balanced(d)'
    BY <1>6, WorkAccount
  <2>2. QED
    BY <2>1 DEF Balanced, EachRequestOnce
<1>7. CASE UNCHANGED vars
  BY <1>7, AccountKept DEF vars
<1>8. QED
  BY <1>1, <1>2, <1>3, <1>4, <1>5, <1>6, <1>7 DEF Next, Completion

(* Every request handed over is in the queue or with a worker, or settled  *)
(* by one reply or one exception, and no reply is without its request or   *)
(* rejected head: none is lost, answered twice or forgotten on an error    *)
(* path (MiniServer.cpp:109-132).                                          *)
THEOREM RequestsAccounted == Safety => []EachRequestOnce
BY AlwaysTypes, InitAccount, NextAccount, PTL DEF Safety
-----------------------------------------------------------------------------
(* What clients have sent.                                                 *)

(* Everything that the client of c has sent.                               *)
Sent(c) == buf[c] \o wire[c]

(* What is received is taken from the wire.                                *)
LEMMA Cut ==
  ASSUME NEW s \in Seq(Byte), NEW n \in 1..Len(s)
  PROVE  /\ SubSeq(s, 1, n) \in Seq(Byte) /\ SubSeq(s, n + 1, Len(s)) \in Seq(Byte)
         /\ Len(SubSeq(s, 1, n)) = n /\ Len(SubSeq(s, n + 1, Len(s))) = Len(s) - n
         /\ SubSeq(s, 1, n) \o SubSeq(s, n + 1, Len(s)) = s
<1>1. Len(s) \in Nat /\ \A i \in 1..Len(s) : s[i] \in Byte
  BY LenProperties, ElementOfSeq
<1>2. SubSeq(s, 1, n) \in Seq(Byte) /\ Len(SubSeq(s, 1, n)) = n
  BY <1>1, SubSeqProperties
<1>3. /\ SubSeq(s, n + 1, Len(s)) \in Seq(Byte)
      /\ Len(SubSeq(s, n + 1, Len(s))) = Len(s) - n
  BY <1>1, Suffix
<1>4. SubSeq(s, 1, n) \o SubSeq(s, n + 1, Len(s)) = SubSeq(s, 1, Len(s))
  BY <1>1, ConcatAdjacentSubSeq
<1>5. QED
  BY <1>2, <1>3, <1>4, SubSeqFull

Joined(b, x, y) ==
    /\ b \o x \in Seq(Byte)
    /\ (b \o x) \o y = b \o (x \o y)
    /\ (b \o x) \o y \in Seq(Byte)
    /\ Len((b \o x) \o y) = Len(b \o x) + Len(y)
    /\ Len(b) <= Len(b \o x)
    /\ \A i \in 1..Len(b \o x) : (b \o x)[i] = ((b \o x) \o y)[i]

LEMMA Moved ==
  ASSUME NEW b \in Seq(Byte), NEW x \in Seq(Byte), NEW y \in Seq(Byte)
  PROVE  Joined(b, x, y)
<1>1. b \o x \in Seq(Byte) /\ Len(b \o x) = Len(b) + Len(x)
  BY ConcatProperties
<1>2. Len(b) \in Nat /\ Len(x) \in Nat /\ Len(y) \in Nat /\ Len(b \o x) \in Nat
  BY <1>1, LenProperties
<1>3. /\ (b \o x) \o y \in Seq(Byte) /\ Len((b \o x) \o y) = Len(b \o x) + Len(y)
      /\ \A i \in 1..Len(b \o x) : (b \o x)[i] = ((b \o x) \o y)[i]
  BY <1>1, <1>2, ConcatProperties
<1>4. (b \o x) \o y = b \o (x \o y)
  BY ConcatAssociative
<1>5. QED
  BY <1>1, <1>2, <1>3, <1>4 DEF Joined

(* ... and nothing of it is lost or moved.                                 *)
Received(c) ==
    /\ Sent(c) \in Seq(Byte) /\ Sent(c)' = Sent(c)
    /\ buf'[c] \in Seq(Byte) /\ wire'[c] \in Seq(Byte)
    /\ Len(Sent(c)) = Len(buf'[c]) + Len(wire'[c])
    /\ \A i \in 1..Len(buf'[c]) : buf'[c][i] = Sent(c)[i]
    /\ read_pos[c] \in 0..Len(buf'[c])
    /\ \A d \in Conns : d # c => /\ buf'[d] = buf[d] /\ wire'[d] = wire[d]
                                 /\ size'[d] = size[d]

LEMMA ReceivesSent ==
  ASSUME Reading, NEW c \in Conns, NEW n \in 1..Len(wire[c]), n <= Writeable(c),
         Receive(c, n)
  PROVE  Received(c)
<1>1. PICK b \in Seq(Byte), w \in Seq(Byte) : b = buf[c] /\ w = wire[c]
  BY DEF Reading, ReadingType
<1> DEFINE x == SubSeq(w, 1, n)
           y == SubSeq(w, n + 1, Len(w))
<1>2. x \in Seq(Byte) /\ y \in Seq(Byte) /\ x \o y = w
  <2>1. n \in 1..Len(w)
    BY <1>1
  <2>2. QED
    BY <2>1, Cut
<1>3. /\ buf'[c] = b \o x /\ wire'[c] = y
      /\ \A d \in Conns : d # c => /\ buf'[d] = buf[d] /\ wire'[d] = wire[d]
                                   /\ size'[d] = size[d]
  BY <1>1 DEF Receive, ReceiveAndGrow, Reading, ReadingType
<1> HIDE DEF x, y
<1>4. Sent(c) = b \o w /\ Sent(c)' = (b \o x) \o y
  BY <1>1, <1>3 DEF Sent
<1>5. Joined(b, x, y)
  BY <1>2, Moved
<1>6. (b \o x) \o y = b \o w
  BY <1>2, <1>5 DEF Joined
<1>7. read_pos[c] \in 0..Len(b \o x)
  <2>1. /\ read_pos[c] \in Nat /\ read_pos[c] <= Len(b)
        /\ Len(b) \in Nat /\ Len(b \o x) \in Nat
    BY <1>1, <1>5, LenProperties DEF Reading, ReadingType, Committed, Joined
  <2>2. Len(b) <= Len(b \o x)
    BY <1>5 DEF Joined
  <2>3. QED
    BY <2>1, <2>2
<1>8. QED
  BY <1>2, <1>3, <1>4, <1>5, <1>6, <1>7 DEF Received, Joined

-----------------------------------------------------------------------------
(* How tasks move, and the bodies they are for.                            *)

LEMMA TaskKinds ==
  ASSUME Types
  PROVE  /\ tasks \in Seq(TaskType) /\ Len(tasks) \in Nat /\ DOMAIN tasks = 1..Len(tasks)
         /\ \A i \in 1..Len(tasks) : tasks[i] \in TaskType /\ tasks[i].conn \in Conns
         /\ worker \in [Workers -> WorkerType]
         /\ \A w \in Workers : worker[w].at # "idle" =>
                worker[w].task \in TaskType /\ worker[w].task.conn \in Conns
         /\ \A w \in Workers : worker[w].at = "idle" <=> worker[w] = Idle
<1>1. tasks \in Seq(TaskType) /\ worker \in [Workers -> WorkerType]
  BY DEF Types, PoolTypes
<1>2. /\ Len(tasks) \in Nat /\ DOMAIN tasks = 1..Len(tasks)
      /\ \A i \in 1..Len(tasks) : tasks[i] \in TaskType /\ tasks[i].conn \in Conns
  <2>1. \A t \in TaskType : t.conn \in Conns
    BY DEF TaskType
  <2>2. Len(tasks) \in Nat /\ DOMAIN tasks = 1..Len(tasks)
    BY <1>1, LenProperties
  <2>3. \A i \in 1..Len(tasks) : tasks[i] \in TaskType
    BY <1>1, ElementOfSeq
  <2>4. QED
    BY <2>1, <2>2, <2>3
<1>3. \A w \in Workers : worker[w].at # "idle" =>
                worker[w].task \in TaskType /\ worker[w].task.conn \in Conns
  BY <1>1, BusyTypes
<1>4. \A w \in Workers : worker[w].at = "idle" <=> worker[w] = Idle
  BY <1>1 DEF WorkerType, Idle
<1>5. QED
  BY <1>1, <1>2, <1>3, <1>4

(* A step moves the tasks: one is enqueued by a read, or taken by a        *)
(* worker, which keeps it until it is idle.                                *)
Takes(w) ==
    /\ worker[w] = Idle /\ tasks # <<>> /\ tasks' = Tail(tasks)
    /\ worker'[w] = Busy("analyze", Head(tasks))

Continues(w) ==
    /\ UNCHANGED tasks
    /\ worker[w].at # "idle"
    /\ \/ worker'[w] = Idle
       \/ /\ worker[w].at \in {"analyze", "query", "marked", "reject"}
          /\ worker'[w].at \in {"query", "marked", "reply", "reject", "context"}
          /\ worker'[w].task = worker[w].task

LEMMA WorkMoves ==
  ASSUME Types, NEW w \in Workers, Work(w)
  PROVE  /\ Takes(w) \/ Continues(w)
         /\ \A v \in Workers : v # w => worker'[v] = worker[v]
         /\ UNCHANGED <<size, buf, views>>
<1> USE DEF inVars, bufferVars, historyVars
<1>1. worker \in [Workers -> WorkerType]
  BY TaskKinds
<1>2. PICK x : worker' = [worker EXCEPT ![w] = x]
  BY DEF Work, Take, TakeLeaving, Analyze, Query, Send, Reject, FinishReject, FinishThen, Become
<1>3. worker'[w] = x /\ \A v \in Workers : v # w => worker'[v] = worker[v]
  BY <1>1, <1>2
<1>4. UNCHANGED <<size, buf, views>>
  BY DEF Work, Take, TakeLeaving, Analyze, Query, Send, Reject, FinishReject, FinishThen
<1>5. CASE Take(w)
  BY <1>1, <1>3, <1>4, <1>5 DEF Take, TakeLeaving, Takes, Become
<1>6. CASE Analyze(w)
  <2>1. /\ worker[w].at = "analyze" /\ UNCHANGED tasks
        /\ \/ \E label \in {"query", "marked", "reject"} :
                worker'[w] = Busy(label, worker[w].task)
           \/ worker'[w] = Idle
    BY <1>1, <1>6 DEF Analyze, Analyses, Become
  <2>2. Continues(w)
    BY <2>1 DEF Continues, Busy
  <2>3. QED
    BY <1>3, <1>4, <2>2
<1>7. CASE Query(w)
  <2>1. /\ worker[w].at \in {"query", "marked"} /\ UNCHANGED tasks
        /\ \/ worker'[w] = Busy("reply", worker[w].task)
           \/ worker'[w] = Busy("reject", worker[w].task)
    BY <1>1, <1>7 DEF Query, Become
  <2>2. Continues(w)
    BY <2>1 DEF Continues, Busy
  <2>3. QED
    BY <1>3, <1>4, <2>2
<1>8. CASE Send(w) \/ FinishReject(w)
  <2>1. /\ worker[w].at \in {"reply", "context"} /\ UNCHANGED tasks
        /\ worker'[w] = Idle
    BY <1>1, <1>8 DEF Send, FinishReject, FinishThen, Become
  <2>2. Continues(w)
    BY <2>1 DEF Continues
  <2>3. QED
    BY <1>3, <1>4, <2>2
<1>9. CASE Reject(w)
  <2>1. /\ worker[w].at = "reject" /\ UNCHANGED tasks
        /\ worker'[w] = [at |-> "context", task |-> worker[w].task,
                         reply |-> NextReply(worker[w].task.conn)]
    BY <1>1, <1>9 DEF Reject, Become
  <2>2. Continues(w)
    BY <2>1 DEF Continues
  <2>3. QED
    BY <1>3, <1>4, <2>2
<1>10. QED
  BY <1>5, <1>6, <1>7, <1>8, <1>9 DEF Work

(* Nothing but reads and workers moves bodies, tasks and replies.          *)
LEMMA StepKinds ==
  ASSUME [Next]_vars
  PROVE  \/ UNCHANGED <<size, buf, views, tasks, worker, replies>>
         \/ \E c \in Conns : Read(c)
         \/ \E w \in Workers : Work(w)
<1> USE DEF inVars, bufferVars, workVars, poolVars, historyVars, outVars, replyVars
<1>1. CASE Start \/ AcceptFails \/ RunsOut \/ RunPost \/ FinishBadRequest
  BY <1>1 DEF Start, AcceptFails, RunsOut, RunPost, FinishBadRequest, SetContext
<1>2. ASSUME NEW c \in Conns, Client(c) \/ Accept(c) \/ AcceptThrows(c)
      PROVE  UNCHANGED <<size, buf, views, tasks, worker, replies>>
  BY <1>2
     DEF Client, ClientConnects, ClientSends, ClientLeaves, Accept, AcceptThen, AcceptThrows
<1>3. ASSUME NEW c \in Conns, ReadFails(c) \/ WriteSome(c) \/ WriteEnds(c)
      PROVE  UNCHANGED <<size, buf, views, tasks, worker, replies>>
  BY <1>3 DEF ReadFails, FailThen, WriteSome, WriteEnds
<1>4. CASE UNCHANGED vars
  BY <1>4 DEF vars
<1>5. QED
  BY <1>1, <1>2, <1>3, <1>4 DEF Next, Completion

(* Bodies and received bytes are only added to.                            *)
Grown(s, t) == \A i \in 1..Len(s) : i \in 1..Len(t) /\ t[i] = s[i]

LEMMA ReadGrows ==
  ASSUME Reading, Framing, NEW c \in Conns, Read(c), NEW d \in Conns
  PROVE  Grown(views[d], views'[d]) /\ Grown(buf[d], buf'[d])
<1> USE DEF Reading
<1>1. /\ buf[d] \in Seq(Byte) /\ Len(buf[d]) \in Nat
      /\ views[d] \in Seq(ViewType) /\ Len(views[d]) \in Nat
  BY LenProperties DEF ReadingType, Framing
<1>2. ASSUME UNCHANGED views PROVE Grown(views[d], views'[d])
  BY <1>2 DEF Grown
<1>3. ASSUME Hands(c) PROVE Grown(views[d], views'[d])
  <2>1. PICK t \in TaskType : views' = Push(views, c, ViewOf(t))
    BY <1>3 DEF Hands
  <2>2. views'[d] = IF d = c THEN Append(views[d], ViewOf(t)) ELSE views[d]
    BY <2>1 DEF Push, Framing
  <2>3. ViewOf(t) \in ViewType
    BY DEF ViewOf, ViewType, TaskType
  <2>4. Grown(views[d], Append(views[d], ViewOf(t)))
    <3>1. /\ Len(Append(views[d], ViewOf(t))) = Len(views[d]) + 1
          /\ \A i \in 1..Len(views[d]) : Append(views[d], ViewOf(t))[i] = views[d][i]
      BY <1>1, <2>3, AppendProperties
    <3>2. QED
      BY <1>1, <3>1 DEF Grown
  <2>5. QED
    BY <2>2, <2>4 DEF Grown
<1>4. Grown(views[d], views'[d])
  BY <1>2, <1>3, ReadDoes DEF Quiet, Rejects
<1>5. Grown(buf[d], buf'[d])
  <2>1. PICK n \in 1..Len(wire[c]) : n <= Writeable(c) /\ Receive(c, n)
    BY DEF Read
  <2>2. buf' = [buf EXCEPT ![c] = buf[c] \o SubSeq(wire[c], 1, n)]
    BY <2>1 DEF Receive, ReceiveAndGrow
  <2>3. PICK b \in Seq(Byte), w \in Seq(Byte) : b = buf[c] /\ w = wire[c]
    BY DEF ReadingType
  <2>4. PICK x \in Seq(Byte) : x = SubSeq(w, 1, n)
    BY <2>3, Cut
  <2>5. buf'[d] = IF d = c THEN b \o x ELSE buf[d]
    BY <2>2, <2>3, <2>4 DEF ReadingType
  <2>6. Grown(b, b \o x)
    <3>1. /\ Len(b) \in Nat /\ Len(x) \in Nat /\ Len(b \o x) = Len(b) + Len(x)
          /\ \A i \in 1..Len(b) : (b \o x)[i] = b[i]
      BY LenProperties, ConcatProperties
    <3>2. QED
      BY <3>1 DEF Grown
  <2>7. QED
    BY <2>3, <2>5, <2>6 DEF Grown
<1>6. QED
  BY <1>4, <1>5

(* Every task is for a body that was handed over.                          *)
IsFor(t, vs) == \E i \in 1..Len(vs) : vs[i] = ViewOf(t)

TasksAreViews ==
    /\ \A i \in 1..Len(tasks) : IsFor(tasks[i], views[tasks[i].conn])
    /\ \A w \in Workers : worker[w].at # "idle" =>
            IsFor(worker[w].task, views[worker[w].task.conn])

LEMMA ReadViews ==
  ASSUME Reading, Framing, Types, TasksAreViews, NEW c \in Conns, Read(c)
  PROVE  TasksAreViews'
<1>1. ASSUME NEW t, NEW d \in Conns, IsFor(t, views[d]) PROVE IsFor(t, views'[d])
  <2>1. Grown(views[d], views'[d])
    BY ReadGrows
  <2>2. QED
    BY <1>1, <2>1 DEF IsFor, Grown
<1>2. ASSUME NEW i \in 1..Len(tasks) PROVE IsFor(tasks[i], views'[tasks[i].conn])
  BY <1>1, TaskKinds DEF TasksAreViews
<1>3. ASSUME NEW w \in Workers, worker'[w].at # "idle"
      PROVE  IsFor(worker'[w].task, views'[worker'[w].task.conn])
  <2>1. UNCHANGED worker
    BY DEF Read
  <2>2. QED
    BY <1>1, <1>3, <2>1, TaskKinds DEF TasksAreViews
<1>4. CASE UNCHANGED tasks
  BY <1>2, <1>3, <1>4 DEF TasksAreViews
<1>5. CASE Hands(c)
  <2>1. PICK t \in TaskType : /\ t.conn = c /\ tasks' = Append(tasks, t)
                              /\ views' = Push(views, c, ViewOf(t))
    BY <1>5 DEF Hands
  <2>2. /\ Len(tasks') = Len(tasks) + 1 /\ tasks'[Len(tasks) + 1] = t
        /\ \A i \in 1..Len(tasks) : tasks'[i] = tasks[i]
    BY <2>1, TaskKinds, AppendProperties
  <2>3. IsFor(t, views'[t.conn])
    <3>1. views[c] \in Seq(ViewType) /\ views'[c] = Append(views[c], ViewOf(t))
      BY <2>1 DEF Push, Framing
    <3>2. Len(views[c]) \in Nat /\ Len(views'[c]) = Len(views[c]) + 1
          /\ views'[c][Len(views[c]) + 1] = ViewOf(t)
      BY <3>1, LenProperties, AppendProperties DEF ViewOf, ViewType, TaskType
    <3>3. Len(views[c]) + 1 \in 1..Len(views'[c])
      BY <3>2
    <3>4. QED
      BY <2>1, <3>2, <3>3 DEF IsFor
  <2>4. ASSUME NEW i \in 1..Len(tasks')
        PROVE  IsFor(tasks'[i], views'[tasks'[i].conn])
    <3>1. i \in 1..Len(tasks) \/ i = Len(tasks) + 1
      BY <2>2, TaskKinds
    <3>2. QED
      BY <1>2, <2>2, <2>3, <3>1
  <2>5. QED
    BY <1>3, <2>4 DEF TasksAreViews
<1>6. QED
  BY <1>4, <1>5, ReadDoes DEF Quiet, Rejects

LEMMA WorkViews ==
  ASSUME Types, TasksAreViews, NEW w \in Workers, Work(w)
  PROVE  TasksAreViews'
<1>1. /\ Takes(w) \/ Continues(w)
      /\ \A v \in Workers : v # w => worker'[v] = worker[v]
      /\ UNCHANGED views
  BY WorkMoves
<1>2. CASE Takes(w)
  <2>1. /\ Len(tasks) \in Nat /\ Len(tasks) # 0 /\ Head(tasks) = tasks[1]
        /\ Len(tasks') = Len(tasks) - 1
        /\ \A i \in 1..Len(tasks') : tasks'[i] = tasks[i + 1]
    BY <1>2, TaskKinds, LenProperties, EmptySeq, HeadTailProperties DEF Takes
  <2>2. ASSUME NEW i \in 1..Len(tasks') PROVE IsFor(tasks'[i], views'[tasks'[i].conn])
    <3>1. i + 1 \in 1..Len(tasks)
      BY <2>1, <2>2
    <3>2. QED
      BY <1>1, <2>1, <3>1 DEF TasksAreViews
  <2>3. worker'[w].task = Head(tasks)
    BY <1>2 DEF Takes, Busy
  <2>4. IsFor(Head(tasks), views[Head(tasks).conn])
    <3>1. 1 \in 1..Len(tasks)
      BY <2>1
    <3>2. QED
      BY <2>1, <3>1 DEF TasksAreViews
  <2>5. QED
    BY <1>1, <2>2, <2>3, <2>4 DEF TasksAreViews
<1>3. CASE Continues(w)
  <2>1. UNCHANGED tasks /\ worker[w].at # "idle"
        /\ (worker'[w].at = "idle" \/ worker'[w].task = worker[w].task)
    BY <1>3 DEF Continues, Idle
  <2>2. QED
    BY <1>1, <2>1 DEF TasksAreViews
<1>4. QED
  BY <1>1, <1>2, <1>3

-----------------------------------------------------------------------------
(* The server and its workers use the pool as a TaskQueue.                 *)

(* Each request has one head, so there are no more bodies than requests.   *)
LEMMA EndsFinite ==
  ASSUME NEW s \in Seq(Byte)
  PROVE  /\ Ends(s) = {e \in 1..Len(s) : s[e].class = "end"}
         /\ IsFiniteSet(Ends(s)) /\ Cardinality(Ends(s)) \in Nat
<1>1. Ends(s) = {e \in 1..Len(s) : s[e].class = "end"} /\ Len(s) \in Nat
  BY LenProperties DEF Ends
<1>2. IsFiniteSet(1..Len(s))
  BY <1>1, FS_Interval
<1>3. Ends(s) \in SUBSET (1..Len(s))
  BY <1>1
<1>4. QED
  BY <1>1, <1>2, <1>3, FS_Subset, FS_CardinalityType

LEMMA EndsConcat ==
  ASSUME NEW s \in Seq(Byte), NEW r \in Seq(Byte), OneHead(r)
  PROVE  Cardinality(Ends(s \o r)) <= Cardinality(Ends(s)) + 1
<1> DEFINE t == s \o r
<1>1. /\ Len(s) \in Nat /\ Len(r) \in Nat /\ Len(t) = Len(s) + Len(r) /\ t \in Seq(Byte)
      /\ \A i \in 1..Len(s) : t[i] = s[i]
      /\ \A i \in (Len(s) + 1)..Len(t) : t[i] = r[i - Len(s)]
  BY LenProperties, ConcatProperties
<1> HIDE DEF t
<1>2. ASSUME NEW e \in Ends(t), e \notin Ends(s)
      PROVE  e \in Nat /\ e - Len(s) \in Ends(r)
  <2>1. e \in 1..Len(t) /\ t[e].class = "end"
    BY <1>1, <1>2, EndsFinite
  <2>2. e \notin 1..Len(s)
    BY <1>1, <1>2, <2>1, EndsFinite
  <2>3. e \in (Len(s) + 1)..Len(t) /\ e - Len(s) \in 1..Len(r)
    BY <1>1, <2>1, <2>2
  <2>4. PICK k \in 1..Len(r) : k = e - Len(s)
    BY <2>3
  <2>5. r[k].class = "end"
    BY <1>1, <2>1, <2>3, <2>4
  <2>6. k \in Ends(r)
    BY <2>5, EndsFinite
  <2>7. QED
    BY <1>1, <2>3, <2>4, <2>6
<1>3. IsFiniteSet(Ends(s)) /\ Cardinality(Ends(s)) \in Nat
  BY EndsFinite
<1>4. CASE Ends(t) \subseteq Ends(s)
  <2>1. Cardinality(Ends(t)) <= Cardinality(Ends(s)) /\ Cardinality(Ends(t)) \in Nat
    BY <1>1, <1>3, <1>4, EndsFinite, FS_Subset
  <2>2. QED
    BY <1>3, <2>1 DEF t
<1>5. CASE \E e : e \in Ends(t) /\ e \notin Ends(s)
  <2>1. PICK e : e \in Ends(t) /\ e \notin Ends(s)
    BY <1>5
  <2>2. ASSUME NEW f \in Ends(t), f \notin Ends(s) PROVE f = e
    <3>1. f - Len(s) = e - Len(s) /\ f \in Nat /\ e \in Nat
      BY <1>2, <2>1, <2>2 DEF OneHead
    <3>2. QED
      BY <1>1, <3>1
  <2>3. Ends(t) \subseteq Ends(s) \cup {e}
    BY <2>2
  <2>4. /\ IsFiniteSet(Ends(s) \cup {e})
        /\ Cardinality(Ends(s) \cup {e}) = Cardinality(Ends(s)) + 1
    BY <1>3, <2>1, FS_AddElement
  <2>5. Cardinality(Ends(t)) <= Cardinality(Ends(s) \cup {e})
    BY <2>3, <2>4, FS_Subset
  <2>6. QED
    BY <2>4, <2>5 DEF t
<1>6. QED
  BY <1>4, <1>5

HeadsCounted == \A c \in Conns : Cardinality(Ends(Sent(c))) <= asked[c]

LEMMA NextCounted ==
  ASSUME \A r \in Requests : OneHead(r), Reading, Types, HeadsCounted, [Next]_vars
  PROVE  HeadsCounted'
<1> USE DEF inVars, bufferVars, clientVars
<1>1. CASE UNCHANGED <<buf, wire, asked>>
  BY <1>1 DEF HeadsCounted, Sent
<1>2. CASE Start \/ AcceptFails \/ RunsOut \/ RunPost \/ FinishBadRequest
  BY <1>1, <1>2 DEF Start, AcceptFails, RunsOut, RunPost, FinishBadRequest
<1>3. ASSUME NEW c \in Conns,
             ClientConnects(c) \/ ClientLeaves(c) \/ Accept(c) \/ AcceptThrows(c)
      PROVE  HeadsCounted'
  BY <1>1, <1>3 DEF ClientConnects, ClientLeaves, Accept, AcceptThen, AcceptThrows
<1>4. ASSUME NEW c \in Conns, ClientSends(c) PROVE HeadsCounted'
  <2>1. PICK r \in Requests : wire' = [wire EXCEPT ![c] = wire[c] \o r]
    BY <1>4 DEF ClientSends
  <2>2. r \in Seq(Byte) /\ OneHead(r)
    BY ServerAssumption DEF ServerAssumption
  <2>3. PICK b \in Seq(Byte), w \in Seq(Byte) : b = buf[c] /\ w = wire[c]
    BY DEF Reading, ReadingType
  <2>4. /\ UNCHANGED buf /\ wire'[c] = w \o r
        /\ \A d \in Conns : d # c => wire'[d] = wire[d]
        /\ asked' = [asked EXCEPT ![c] = asked[c] + 1]
    BY <1>4, <2>1, <2>3 DEF ClientSends, Reading, ReadingType
  <2>5. Sent(c) = b \o w /\ Sent(c)' = b \o (w \o r)
    BY <2>3, <2>4 DEF Sent
  <2>6. b \o w \in Seq(Byte) /\ b \o (w \o r) = (b \o w) \o r
        /\ (b \o w) \o r \in Seq(Byte)
    BY <2>2, ConcatProperties, ConcatAssociative
  <2>7. Cardinality(Ends((b \o w) \o r)) <= Cardinality(Ends(b \o w)) + 1
    BY <2>2, <2>6, EndsConcat
  <2>8. /\ Cardinality(Ends(b \o w)) \in Nat /\ Cardinality(Ends((b \o w) \o r)) \in Nat
        /\ Cardinality(Ends(b \o w)) <= asked[c]
    BY <2>5, <2>6, EndsFinite DEF HeadsCounted
  <2>9. asked[c] \in Nat /\ asked'[c] = asked[c] + 1
        /\ \A d \in Conns : d # c => asked'[d] = asked[d]
    BY <2>4, ServerAssumption DEF Types, OutsideTypes, ServerAssumption
  <2>10. Cardinality(Ends((b \o w) \o r)) <= asked'[c]
    BY <2>7, <2>8, <2>9
  <2>11. Sent(c)' = (b \o w) \o r /\ \A d \in Conns : d # c => Sent(d)' = Sent(d)
    BY <2>4, <2>5, <2>6 DEF Sent
  <2>12. QED
    BY <2>9, <2>10, <2>11 DEF HeadsCounted, Ends
<1>5. ASSUME NEW c \in Conns, Read(c) PROVE HeadsCounted'
  <2>1. PICK n \in 1..Len(wire[c]) : n <= Writeable(c) /\ Receive(c, n)
    BY <1>5 DEF Read
  <2>2. Received(c) /\ UNCHANGED asked
    BY <1>5, <2>1, ReceivesSent DEF Read
  <2>3. ASSUME NEW d \in Conns PROVE Sent(d)' = Sent(d)
    BY <2>2 DEF Received, Sent
  <2>4. QED
    BY <2>2, <2>3 DEF HeadsCounted, Ends
<1>6. ASSUME NEW c \in Conns, ReadFails(c) \/ WriteSome(c) \/ WriteEnds(c)
      PROVE  HeadsCounted'
  BY <1>1, <1>6 DEF ReadFails, FailThen, WriteSome, WriteEnds
<1>7. ASSUME NEW w \in Workers, Work(w) PROVE HeadsCounted'
  BY <1>1, <1>7
     DEF Work, Take, TakeLeaving, Analyze, Query, Send, Reject, FinishReject, FinishThen
<1>8. CASE UNCHANGED vars
  BY <1>1, <1>8 DEF vars
<1>9. QED
  BY <1>2, <1>3, <1>4, <1>5, <1>6, <1>7, <1>8 DEF Next, Client, Completion

(* Every body is behind a head of its own.                                 *)
LEMMA BodiesCounted ==
  ASSUME Reading, Framing, Types, HeadsCounted, NEW c \in Conns
  PROVE  Len(views[c]) \in 0..MaxRequests
<1>1. PICK b \in Seq(Byte), w \in Seq(Byte), vs \in Seq(ViewType) :
        b = buf[c] /\ w = wire[c] /\ vs = views[c]
  BY DEF Reading, ReadingType, Framing
<1>2. Bodied(b, vs) /\ Advance(vs)
  BY <1>1 DEF Framing, FrameOf, Frame
<1>3. PICK s \in Seq(Byte) : s = b \o w
  BY ConcatProperties
<1>4. PICK n \in Nat : n = Len(vs)
  BY LenProperties
<1>5. \A i \in 1..n : vs[i].from \in Ends(s)
  <2>1. ASSUME NEW i \in 1..n PROVE vs[i].from \in Ends(s)
    <3>1. vs[i].from \in 1..Len(b) /\ b[vs[i].from].class = "end"
      BY <1>2, <1>4 DEF Bodied, IsBody
    <3>2. PICK e \in 1..Len(b) : e = vs[i].from
      BY <3>1
    <3>3. e \in 1..Len(s) /\ s[e] = b[e]
      BY <1>3, LenProperties, ConcatProperties
    <3>4. QED
      BY <3>1, <3>2, <3>3, EndsFinite
  <2>2. QED
    BY <2>1
<1> DEFINE f == [i \in 1..n |-> vs[i].from]
<1>6. f \in Injection(1..n, Ends(s))
  <2>1. ASSUME NEW i \in 1..n, NEW j \in 1..n, i # j PROVE vs[i].from # vs[j].from
    <3>1. \A k \in 1..n : vs[k].from \in Nat
      <4>1. \A k \in 1..n : vs[k] \in ViewType
        BY <1>4, ElementOfSeq
      <4>2. QED
        BY <4>1 DEF ViewType
    <3>2. i \in 1..(j - 1) \/ j \in 1..(i - 1)
      BY <2>1
    <3>3. vs[i].from < vs[j].from \/ vs[j].from < vs[i].from
      BY <1>2, <1>4, <3>2 DEF Advance
    <3>4. QED
      BY <3>1, <3>3
  <2>2. QED
    BY <1>5, <2>1 DEF Injection, IsInjective
<1>7. Cardinality(1..n) = n /\ IsFiniteSet(Ends(s)) /\ Cardinality(Ends(s)) \in Nat
  BY EndsFinite, FS_Interval
<1>8. n <= Cardinality(Ends(s))
  BY <1>6, <1>7, FS_Injection
<1>9. Cardinality(Ends(s)) <= asked[c] /\ asked[c] \in 0..MaxRequests
  BY <1>1, <1>3 DEF HeadsCounted, Sent, Types, OutsideTypes
<1>10. n \in 0..MaxRequests
  BY <1>7, <1>8, <1>9, ServerAssumption DEF ServerAssumption
<1>11. QED
  BY <1>1, <1>4, <1>10

(* No body has two tasks.                                                  *)
Different(t, u) == t.conn = u.conn => t.from # u.from

Apart ==
    /\ \A i, j \in 1..Len(tasks) : i # j => Different(tasks[i], tasks[j])
    /\ \A w \in Workers : worker[w].at # "idle" =>
        /\ \A i \in 1..Len(tasks) : Different(tasks[i], worker[w].task)
        /\ \A v \in Workers : v # w /\ worker[v].at # "idle" =>
                Different(worker[v].task, worker[w].task)

(* A body that is handed over is behind all that were.                     *)
LEMMA NewBody ==
  ASSUME Framing, Framing', NEW c \in Conns, NEW t \in TaskType, t.conn = c,
         views' = Push(views, c, ViewOf(t)),
         NEW u \in TaskType, u.conn \in Conns, IsFor(u, views[u.conn])
  PROVE  Different(t, u)
<1> SUFFICES ASSUME u.conn = c PROVE t.from # u.from
  BY DEF Different
<1>1. PICK vs \in Seq(ViewType), ws \in Seq(ViewType) : vs = views[c] /\ ws = views'[c]
  BY DEF Framing
<1>2. ws = Append(vs, ViewOf(t)) /\ Advance(ws)
  BY <1>1 DEF Push, Framing, FrameOf, Frame
<1>3. ViewOf(t) \in ViewType /\ ViewOf(t).from = t.from /\ ViewOf(u).from = u.from
  BY DEF ViewOf, ViewType, TaskType
<1>4. /\ Len(vs) \in Nat /\ Len(ws) = Len(vs) + 1
      /\ \A i \in 1..Len(vs) : ws[i] = vs[i]
      /\ ws[Len(vs) + 1] = ViewOf(t)
  BY <1>2, <1>3, LenProperties, AppendProperties
<1>5. PICK i \in 1..Len(vs) : vs[i] = ViewOf(u)
  BY <1>1 DEF IsFor
<1>6. Len(ws) \in 1..Len(ws) /\ i \in 1..(Len(ws) - 1)
  BY <1>4
<1>7. ws[i].from < ws[Len(ws)].from
  BY <1>2, <1>6 DEF Advance
<1>8. u.from < t.from
  BY <1>3, <1>4, <1>5, <1>7
<1>9. t.from \in Nat /\ u.from \in Nat
  BY DEF TaskType
<1>10. QED
  BY <1>8, <1>9

LEMMA ReadApart ==
  ASSUME Reading, Framing, Framing', Types, TasksAreViews, Apart, NEW c \in Conns, Read(c)
  PROVE  Apart'
<1>1. UNCHANGED worker
  BY DEF Read
<1>2. CASE UNCHANGED tasks
  BY <1>1, <1>2 DEF Apart
<1>3. CASE Hands(c)
  <2>1. PICK t \in TaskType : /\ t.conn = c /\ tasks' = Append(tasks, t)
                              /\ views' = Push(views, c, ViewOf(t))
    BY <1>3 DEF Hands
  <2>2. PICK n \in Nat : n = Len(tasks)
    BY TaskKinds
  <2>3. /\ Len(tasks') = n + 1 /\ tasks'[n + 1] = t
        /\ \A i \in 1..n : tasks'[i] = tasks[i]
    BY <2>1, <2>2, TaskKinds, AppendProperties
  <2>4. \A u \in TaskType : u.conn \in Conns /\ IsFor(u, views[u.conn]) =>
            Different(t, u) /\ Different(u, t)
    BY <2>1, NewBody DEF Different
  <2>5. \A i \in 1..n : Different(t, tasks[i]) /\ Different(tasks[i], t)
    BY <2>2, <2>4, TaskKinds DEF TasksAreViews
  <2>6. \A w \in Workers : worker[w].at # "idle" => Different(t, worker[w].task)
    BY <2>4, TaskKinds DEF TasksAreViews
  <2>7. \A i \in 1..(n + 1) : i \in 1..n \/ i = n + 1
    OBVIOUS
  <2>8. \A i, j \in 1..(n + 1) : i # j => Different(tasks'[i], tasks'[j])
    BY <2>2, <2>3, <2>5, <2>7 DEF Apart
  <2>9. ASSUME NEW w \in Workers, worker[w].at # "idle"
        PROVE  \A i \in 1..(n + 1) : Different(tasks'[i], worker[w].task)
    BY <2>2, <2>3, <2>6, <2>7, <2>9 DEF Apart
  <2>10. QED
    BY <1>1, <2>3, <2>8, <2>9 DEF Apart
<1>4. QED
  BY <1>2, <1>3, ReadDoes DEF Quiet, Rejects

LEMMA WorkApart ==
  ASSUME Types, Apart, NEW w \in Workers, Work(w)
  PROVE  Apart'
<1>1. /\ Takes(w) \/ Continues(w)
      /\ \A v \in Workers : v # w => worker'[v] = worker[v]
  BY WorkMoves
<1>2. CASE Takes(w)
  <2>1. PICK n \in Nat : n = Len(tasks)
    BY TaskKinds
  <2>2. /\ n # 0 /\ Head(tasks) = tasks[1] /\ Len(tasks') = n - 1
        /\ \A i \in 1..(n - 1) : tasks'[i] = tasks[i + 1]
    BY <1>2, <2>1, TaskKinds, LenProperties, EmptySeq, HeadTailProperties DEF Takes
  <2>3. /\ 1 \in 1..n
        /\ \A i \in 1..(n - 1) : i + 1 \in 1..n /\ i + 1 # 1
        /\ \A i, j \in 1..(n - 1) : i # j => i + 1 # j + 1
    BY <2>2
  <2>4. worker'[w].task = tasks[1] /\ worker[w].at = "idle"
    BY <1>2, <2>2 DEF Takes, Busy, Idle
  <2>5. \A i, j \in 1..(n - 1) : i # j => Different(tasks'[i], tasks'[j])
    BY <2>1, <2>2, <2>3 DEF Apart
  <2>6. \A i \in 1..(n - 1) : Different(tasks'[i], tasks[1])
    BY <2>1, <2>2, <2>3 DEF Apart
  <2>7. \A v \in Workers : v # w /\ worker[v].at # "idle" =>
            /\ \A i \in 1..(n - 1) : Different(tasks'[i], worker[v].task)
            /\ Different(tasks[1], worker[v].task) /\ Different(worker[v].task, tasks[1])
    BY <2>1, <2>2, <2>3 DEF Apart, Different
  <2>8. QED
    BY <1>1, <2>2, <2>4, <2>5, <2>6, <2>7 DEF Apart
<1>3. CASE Continues(w)
  <2>1. /\ UNCHANGED tasks /\ worker[w].at # "idle"
        /\ worker'[w].at = "idle" \/ worker'[w].task = worker[w].task
    BY <1>3 DEF Continues, Idle
  <2>2. QED
    BY <1>1, <2>1 DEF Apart
<1>4. QED
  BY <1>1, <1>2, <1>3

(* What the server is like as a user of the pool.                          *)
Using ==
    /\ Reading /\ Framing /\ Types
    /\ TasksAreViews /\ Apart /\ HeadsCounted

LEMMA InitUsing == Init => Using
<1> SUFFICES ASSUME Init PROVE Using
  OBVIOUS
<1>1. Len(tasks) = 0 /\ \A w \in Workers : worker[w].at = "idle"
  BY EmptySeq DEF Init, Idle
<1>2. TasksAreViews /\ Apart
  BY <1>1 DEF TasksAreViews, Apart
<1>3. ASSUME NEW c \in Conns PROVE Cardinality(Ends(Sent(c))) <= asked[c]
  <2>1. Sent(c) = <<>> /\ asked[c] = 0
    BY EmptySeq, ConcatEmptySeq DEF Init, Sent
  <2>2. Ends(<<>>) = {}
    BY DEF Ends
  <2>3. QED
    BY <2>1, <2>2, FS_EmptySet
<1>4. QED
  BY <1>2, <1>3, InitReading, InitFraming, InitTypes DEF Using, HeadsCounted

LEMMA NextUsing ==
  ASSUME \A r \in Requests : OneHead(r), Using, [Next]_vars
  PROVE  Using'
<1> USE DEF Using
<1>1. Reading' /\ Framing' /\ HeadsCounted'
  BY NextReading, NextFraming, NextCounted
<1>2. Types'
  BY NextOutside, NextAnswering DEF Types
<1>3. CASE UNCHANGED <<size, buf, views, tasks, worker, replies>>
  BY <1>1, <1>2, <1>3 DEF TasksAreViews, Apart
<1>4. ASSUME NEW c \in Conns, Read(c) PROVE TasksAreViews' /\ Apart'
  BY <1>1, <1>4, ReadViews, ReadApart
<1>5. ASSUME NEW w \in Workers, Work(w) PROVE TasksAreViews' /\ Apart'
  BY <1>5, WorkViews, WorkApart
<1>6. QED
  BY <1>1, <1>2, <1>3, <1>4, <1>5, StepKinds

(* A body keeps its number, and different bodies have different ones.      *)
LEMMA Numbered ==
  ASSUME NEW vs \in Seq(ViewType), Advance(vs), NEW t, NEW i \in 1..Len(vs),
         vs[i] = ViewOf(t)
  PROVE  KeyOf(t, vs) = <<t.conn, i>>
<1>1. DOMAIN vs = 1..Len(vs) /\ Len(vs) \in Nat /\ vs[i].from = t.from
  BY LenProperties DEF ViewOf
<1>2. \A k \in 1..Len(vs) : vs[k].from \in Nat
  <2>1. \A k \in 1..Len(vs) : vs[k] \in ViewType
    BY ElementOfSeq
  <2>2. QED
    BY <2>1 DEF ViewType
<1>3. ASSUME NEW k \in 1..Len(vs), vs[k].from = t.from PROVE k = i
  <2>1. CASE k < i
    <3>1. k \in 1..(i - 1)
      BY <1>1, <2>1
    <3>2. vs[k].from < vs[i].from
      BY <3>1 DEF Advance
    <3>3. QED
      BY <1>1, <1>2, <1>3, <3>2
  <2>2. CASE i < k
    <3>1. i \in 1..(k - 1)
      BY <1>1, <2>2
    <3>2. vs[i].from < vs[k].from
      BY <3>1 DEF Advance
    <3>3. QED
      BY <1>1, <1>2, <1>3, <3>2
  <2>3. QED
    BY <1>1, <2>1, <2>2
<1>4. (CHOOSE k \in 1..Len(vs) : vs[k].from = t.from) = i
  BY <1>1, <1>3
<1>5. QED
  BY <1>1, <1>4 DEF KeyOf

LEMMA KeyStays ==
  ASSUME Framing, Framing', NEW t, t.conn \in Conns, IsFor(t, views[t.conn]),
         Grown(views[t.conn], views'[t.conn])
  PROVE  KeyOf(t, views'[t.conn]) = KeyOf(t, views[t.conn])
<1>1. PICK vs \in Seq(ViewType), ws \in Seq(ViewType) :
        vs = views[t.conn] /\ ws = views'[t.conn]
  BY DEF Framing
<1>2. Advance(vs) /\ Advance(ws)
  BY <1>1 DEF Framing, FrameOf, Frame
<1>3. PICK i \in 1..Len(vs) : vs[i] = ViewOf(t)
  BY <1>1 DEF IsFor
<1>4. i \in 1..Len(ws) /\ ws[i] = ViewOf(t)
  BY <1>1, <1>3 DEF Grown
<1>5. QED
  BY <1>1, <1>2, <1>3, <1>4, Numbered

LEMMA KeysDiffer ==
  ASSUME Framing,
         NEW t, t.conn \in Conns, IsFor(t, views[t.conn]),
         NEW u, u.conn \in Conns, IsFor(u, views[u.conn]), Different(t, u)
  PROVE  KeyOf(t, views[t.conn]) # KeyOf(u, views[u.conn])
<1> SUFFICES ASSUME t.conn = u.conn
             PROVE  KeyOf(t, views[t.conn]) # KeyOf(u, views[t.conn])
  BY DEF KeyOf
<1>1. PICK vs \in Seq(ViewType) : vs = views[t.conn]
  BY DEF Framing
<1>2. Advance(vs)
  BY <1>1 DEF Framing, FrameOf, Frame
<1>3. PICK i \in 1..Len(vs) : vs[i] = ViewOf(t)
  BY <1>1 DEF IsFor
<1>4. PICK j \in 1..Len(vs) : vs[j] = ViewOf(u)
  BY <1>1 DEF IsFor
<1>5. KeyOf(t, vs) = <<t.conn, i>> /\ KeyOf(u, vs) = <<u.conn, j>>
  BY <1>2, <1>3, <1>4, Numbered
<1>6. ViewOf(t) # ViewOf(u)
  BY DEF Different, ViewOf
<1>7. QED
  BY <1>1, <1>3, <1>4, <1>5, <1>6

LEMMA KeyIsBody ==
  ASSUME Using, NEW t, t.conn \in Conns, IsFor(t, views[t.conn])
  PROVE  KeyOf(t, views[t.conn]) \in Bodies
<1> USE DEF Using
<1>1. PICK vs \in Seq(ViewType) : vs = views[t.conn]
  BY DEF Framing
<1>2. Advance(vs) /\ DOMAIN vs = 1..Len(vs)
  BY <1>1, LenProperties DEF Framing, FrameOf, Frame
<1>3. PICK i \in 1..Len(vs) : vs[i] = ViewOf(t)
  BY <1>1 DEF IsFor
<1>4. KeyOf(t, vs) = <<t.conn, i>>
  BY <1>2, <1>3, Numbered
<1>5. Len(vs) \in 0..MaxRequests
  BY <1>1, BodiesCounted
<1>6. i \in 1..MaxRequests
  BY <1>5, ServerAssumption DEF ServerAssumption
<1>7. QED
  BY <1>1, <1>2, <1>4, <1>6 DEF Bodies

(* The abstract queue follows the concrete one.                            *)
LEMMA QueueAppends ==
  ASSUME NEW S, NEW q \in Seq(S), NEW x \in S, NEW n \in Nat, Len(q) = n,
         NEW p \in [1..(n + 1) -> S], p[n + 1] = x, \A i \in 1..n : p[i] = q[i]
  PROVE  p = Append(q, x)
<1>1. p \in Seq(S) /\ Len(p) = n + 1
  BY SMT
<1>2. /\ Append(q, x) \in Seq(S) /\ Len(Append(q, x)) = n + 1
      /\ Append(q, x)[n + 1] = x
      /\ \A i \in 1..n : Append(q, x)[i] = q[i]
  BY AppendProperties
<1>3. \A i \in 1..(n + 1) : i \in 1..n \/ i = n + 1
  OBVIOUS
<1>4. \A i \in 1..Len(p) : p[i] = Append(q, x)[i]
  BY <1>1, <1>2, <1>3
<1>5. QED
  BY <1>1, <1>2, <1>4, SeqEqual

LEMMA QueueTails ==
  ASSUME NEW S, NEW q \in Seq(S), NEW n \in Nat \ {0}, Len(q) = n,
         NEW p \in [1..(n - 1) -> S], \A i \in 1..(n - 1) : p[i] = q[i + 1]
  PROVE  q # <<>> /\ Head(q) = q[1] /\ p = Tail(q)
<1>1. p \in Seq(S) /\ Len(p) = n - 1
  BY SMT
<1>2. q # <<>>
  BY EmptySeq
<1>3. /\ Head(q) = q[1] /\ Tail(q) \in Seq(S) /\ Len(Tail(q)) = n - 1
      /\ \A i \in 1..(n - 1) : Tail(q)[i] = q[i + 1]
  BY <1>2, HeadTailProperties
<1>4. p = Tail(q)
  BY <1>1, <1>3, SeqEqual
<1>5. QED
  BY <1>2, <1>3, <1>4

(* What the abstract variables are made of.                                *)
KeyFacts ==
    /\ Len(tasks) \in Nat /\ DOMAIN tasks = 1..Len(tasks)
    /\ QueuedKeys \in Seq(Bodies) /\ Len(QueuedKeys) = Len(tasks)
    /\ \A i \in 1..Len(tasks) : QueuedKeys[i] = Key(tasks[i])
    /\ QueuedKeys \in [1..Len(tasks) -> Bodies]
    /\ InQueue = {Key(tasks[i]) : i \in 1..Len(tasks)}
    /\ InQueue \subseteq Bodies
    /\ InHand = {Key(worker[w].task) : w \in {v \in Workers : worker[v].at # "idle"}}
    /\ InHand \subseteq Bodies

LEMMA KeyTypes == Using => KeyFacts
<1> SUFFICES ASSUME Using PROVE KeyFacts
  OBVIOUS
<1> USE DEF Using
<1>1. PICK n \in Nat : n = Len(tasks) /\ DOMAIN tasks = 1..n
  BY TaskKinds
<1>2. \A i \in 1..n : Key(tasks[i]) \in Bodies
  BY <1>1, TaskKinds, KeyIsBody DEF TasksAreViews, Key
<1>3. QueuedKeys = [i \in 1..n |-> Key(tasks[i])]
  BY <1>1 DEF QueuedKeys
<1>4. QueuedKeys \in [1..n -> Bodies] /\ \A i \in 1..n : QueuedKeys[i] = Key(tasks[i])
  BY <1>2, <1>3
<1>5. QueuedKeys \in Seq(Bodies) /\ Len(QueuedKeys) = n
  <2>1. PICK q \in [1..n -> Bodies] : q = QueuedKeys
    BY <1>4
  <2>2. q \in Seq(Bodies) /\ Len(q) = n
    BY SMT
  <2>3. QED
    BY <2>1, <2>2
<1>6. InQueue = {Key(tasks[i]) : i \in 1..n} /\ InQueue \subseteq Bodies
  BY <1>1, <1>2 DEF InQueue
<1>7. /\ InHand = {Key(worker[w].task) : w \in {v \in Workers : worker[v].at # "idle"}}
      /\ InHand \subseteq Bodies
  <2>1. \A w \in Workers : worker[w].at # "idle" => Key(worker[w].task) \in Bodies
    BY TaskKinds, KeyIsBody DEF TasksAreViews, Key
  <2>2. {v \in Workers : worker[v] # Idle} = {v \in Workers : worker[v].at # "idle"}
    BY TaskKinds
  <2>3. QED
    BY <2>1, <2>2 DEF InHand
<1>8. QED
  BY <1>1, <1>4, <1>5, <1>6, <1>7 DEF KeyFacts

LEMMA KeyTypesNext == Using' => KeyFacts'
BY KeyTypes, PTL

(* A worker that takes a task is one fewer than all.                       *)
LEMMA FewInHand ==
  ASSUME Using, NEW w \in Workers, worker[w].at = "idle"
  PROVE  Cardinality(InHand) < Cardinality(Workers)
<1> DEFINE B == {v \in Workers : worker[v].at # "idle"}
           f == [v \in B |-> Key(worker[v].task)]
<1>1. B \in SUBSET (Workers \ {w})
  OBVIOUS
<1>2. /\ IsFiniteSet(Workers \ {w})
      /\ Cardinality(Workers \ {w}) = Cardinality(Workers) - 1
      /\ Cardinality(Workers) \in Nat
  BY ServerAssumption, FS_RemoveElement, FS_CardinalityType DEF ServerAssumption
<1>3. IsFiniteSet(B) /\ Cardinality(B) <= Cardinality(Workers \ {w}) /\ Cardinality(B) \in Nat
  BY <1>1, <1>2, FS_Subset, FS_CardinalityType
<1>4. InHand = {Key(worker[v].task) : v \in B}
  BY KeyTypes DEF KeyFacts
<1>5. f \in Surjection(B, InHand)
  BY <1>4 DEF Surjection
<1>6. IsFiniteSet(InHand) /\ Cardinality(InHand) <= Cardinality(B)
  BY <1>3, <1>5, FS_Surjection
<1>7. Cardinality(InHand) \in Nat
  BY <1>6, FS_CardinalityType
<1> HIDE DEF B
<1>8. QED
  BY <1>2, <1>3, <1>6, <1>7

(* A body that is handed over is submitted (MiniServer.cpp:170-176).       *)
LEMMA HandsSubmits ==
  ASSUME Using, Using', NEW c \in Conns, Read(c), Hands(c)
  PROVE  Pool!Next
<1> USE DEF Using
<1>1. PICK t \in TaskType : /\ t.conn = c /\ tasks' = Append(tasks, t)
                            /\ views' = Push(views, c, ViewOf(t))
  BY DEF Hands
<1>2. KeyFacts /\ KeyFacts'
  BY KeyTypes, KeyTypesNext
<1>3. PICK n \in Nat : n = Len(tasks)
  BY TaskKinds
<1>4. /\ Len(tasks') = n + 1 /\ tasks'[n + 1] = t
      /\ \A i \in 1..n : tasks'[i] = tasks[i]
  BY <1>1, <1>3, TaskKinds, AppendProperties
<1>5. PICK vs \in Seq(ViewType), ws \in Seq(ViewType) : vs = views[c] /\ ws = views'[c]
  BY DEF Framing
<1>6. PICK m \in Nat : /\ m = Len(vs) /\ Len(ws) = m + 1 /\ ws[m + 1] = ViewOf(t)
                       /\ DOMAIN vs = 1..m /\ DOMAIN ws = 1..(m + 1)
  <2>1. ws = Append(vs, ViewOf(t)) /\ ViewOf(t) \in ViewType
    BY <1>1, <1>5 DEF Push, Framing, ViewOf, ViewType, TaskType
  <2>2. QED
    BY <2>1, LenProperties, AppendProperties
<1> DEFINE x == <<c, m + 1>>
<1>7. KeyOf(t, ws) = x
  <2>1. Advance(ws) /\ m + 1 \in 1..Len(ws)
    BY <1>5, <1>6 DEF Framing, FrameOf, Frame
  <2>2. QED
    BY <1>1, <1>6, <2>1, Numbered
<1>8. m + 1 \in 1..MaxRequests
  <2>1. Len(ws) \in 0..MaxRequests
    <3>1. KeyOf(t, views'[t.conn]) \in Bodies'
      <4>1. QueuedKeys'[n + 1] \in Bodies' /\ QueuedKeys'[n + 1] = Key(tasks[n + 1])'
        <5>1. n + 1 \in 1..Len(tasks')
          BY <1>4
        <5>2. QED
          BY <1>2, <5>1 DEF KeyFacts
      <4>2. QED
        BY <1>4, <4>1 DEF Key
    <3>2. m + 1 \in 1..MaxRequests
      BY <1>1, <1>5, <1>7, <3>1 DEF Bodies
    <3>3. QED
      BY <1>6, <3>2, ServerAssumption DEF ServerAssumption
  <2>2. QED
    BY <1>6, <2>1
<1>9. x \notin Bodies
  <2>1. m + 1 \notin DOMAIN views[c]
    BY <1>5, <1>6
  <2>2. QED
    BY <2>1 DEF Bodies
<1>10. Bodies' = Bodies \cup {x}
  <2>1. DOMAIN views'[c] = DOMAIN views[c] \cup {m + 1}
    BY <1>5, <1>6
  <2>2. \A d \in Conns : d # c => views'[d] = views[d]
    BY <1>1 DEF Push, Framing
  <2>3. QED
    BY <1>8, <2>1, <2>2 DEF Bodies
<1>11. ASSUME NEW u \in TaskType, u.conn \in Conns, IsFor(u, views[u.conn])
       PROVE  KeyOf(u, views'[u.conn]) = KeyOf(u, views[u.conn])
  <2>1. Grown(views[u.conn], views'[u.conn])
    BY <1>11, ReadGrows
  <2>2. QED
    BY <1>11, <2>1, KeyStays
<1>12. \A i \in 1..n : Key(tasks[i])' = Key(tasks[i])
  <2>1. ASSUME NEW i \in 1..n PROVE KeyOf(tasks'[i], views'[tasks'[i].conn]) = Key(tasks[i])
    <3>1. PICK u \in TaskType : u = tasks[i]
      BY <1>3, TaskKinds
    <3>2. u.conn \in Conns /\ IsFor(u, views[u.conn])
      BY <1>3, <3>1, TaskKinds DEF TasksAreViews
    <3>3. QED
      BY <1>4, <1>11, <3>1, <3>2 DEF Key
  <2>2. QED
    BY <2>1 DEF Key
<1>13. Key(tasks[n + 1])' = x
  BY <1>1, <1>4, <1>5, <1>7 DEF Key
<1>14. QueuedKeys' = Append(QueuedKeys, x)
  <2>1. PICK S : S = Bodies \cup {x}
    OBVIOUS
  <2>2. QueuedKeys \in Seq(S) /\ x \in S /\ Len(QueuedKeys) = n
    BY <1>2, <1>3, <2>1, SeqMonotonic DEF KeyFacts
  <2>3. QueuedKeys' \in [1..(n + 1) -> S]
    BY <1>2, <1>4, <1>10, <2>1 DEF KeyFacts
  <2>4. \A i \in 1..(n + 1) : QueuedKeys'[i] = Key(tasks[i])'
    BY <1>2, <1>4 DEF KeyFacts
  <2>5. \A i \in 1..n : QueuedKeys[i] = Key(tasks[i])
    BY <1>2, <1>3 DEF KeyFacts
  <2>6. \A i \in 1..n : i \in 1..(n + 1)
    OBVIOUS
  <2>7. \A i \in 1..n : QueuedKeys'[i] = QueuedKeys[i]
    BY <1>12, <2>4, <2>5, <2>6
  <2>8. QueuedKeys'[n + 1] = x
    BY <1>13, <2>4
  <2>9. PICK q, p : q = QueuedKeys /\ p = QueuedKeys'
    OBVIOUS
  <2> HIDE DEF x
  <2>10. PICK y : y = x
    OBVIOUS
  <2>11. /\ q \in Seq(S) /\ y \in S /\ Len(q) = n /\ p \in [1..(n + 1) -> S]
         /\ p[n + 1] = y /\ \A i \in 1..n : p[i] = q[i]
    BY <2>2, <2>3, <2>7, <2>8, <2>9, <2>10
  <2>12. p = Append(q, y)
    BY <2>11, QueueAppends
  <2>13. QED
    BY <2>9, <2>10, <2>12
<1>15. InQueue' = InQueue \cup {x}
  <2>1. InQueue' = {Key(tasks[i])' : i \in 1..(n + 1)}
    BY <1>2, <1>4 DEF KeyFacts
  <2>2. InQueue = {Key(tasks[i]) : i \in 1..n}
    BY <1>2, <1>3 DEF KeyFacts
  <2>3. 1..(n + 1) = (1..n) \cup {n + 1}
    OBVIOUS
  <2>4. QED
    BY <1>12, <1>13, <2>1, <2>2, <2>3
<1>16. InHand' = InHand
  <2>1. UNCHANGED worker
    BY DEF Read
  <2>2. \A w \in Workers : worker[w].at # "idle" =>
            Key(worker[w].task)' = Key(worker[w].task)
    BY <1>11, <2>1, TaskKinds DEF TasksAreViews, Key
  <2>3. InHand' = {Key(worker[w].task)' : w \in {v \in Workers : worker[v].at # "idle"}}
    BY <1>2, <2>1 DEF KeyFacts
  <2>4. InHand = {Key(worker[w].task) : w \in {v \in Workers : worker[v].at # "idle"}}
    BY <1>2 DEF KeyFacts
  <2>5. QED
    BY <2>2, <2>3, <2>4
<1>17. Ended' = Ended
  <2>1. x \notin InQueue /\ x \notin InHand
    BY <1>2, <1>9 DEF KeyFacts
  <2>2. QED
    BY <1>9, <1>10, <1>15, <1>16, <2>1 DEF Ended
<1>18. x \notin Pool!Accepted
  <2>1. Pool!Queued = InQueue
    <3>1. DOMAIN QueuedKeys = DOMAIN tasks
          /\ \A i \in DOMAIN tasks : QueuedKeys[i] = Key(tasks[i])
      BY DEF QueuedKeys
    <3>2. QED
      BY <3>1 DEF Pool!Queued, InQueue
  <2>2. QED
    BY <1>2, <1>9, <2>1 DEF Pool!Accepted, KeyFacts, Ended
<1>19. x \in Conns \X (1..MaxRequests)
  BY <1>8
<1> HIDE DEF x
<1>20. Pool!Submit(x)
  BY <1>14, <1>16, <1>17, <1>18 DEF Pool!Submit
<1>21. QED
  BY <1>19, <1>20 DEF Pool!Next

(* A task that a worker takes is started (ThreadPool.h:58-62).             *)
LEMMA TakeStarts ==
  ASSUME Using, Using', NEW w \in Workers, Takes(w), UNCHANGED <<size, buf, views>>,
         \A v \in Workers : v # w => worker'[v] = worker[v]
  PROVE  Pool!Start
<1>1. KeyFacts /\ KeyFacts'
  BY KeyTypes, KeyTypesNext
<1>2. PICK n \in Nat : n = Len(tasks)
  BY TaskKinds DEF Using
<1>3. /\ n # 0 /\ Head(tasks) = tasks[1] /\ Len(tasks') = n - 1
      /\ \A i \in 1..(n - 1) : tasks'[i] = tasks[i + 1]
  BY <1>2, TaskKinds, LenProperties, EmptySeq, HeadTailProperties DEF Using, Takes
<1>4. /\ 1 \in 1..n /\ 1..n = {1} \cup {i + 1 : i \in 1..(n - 1)}
      /\ \A i \in 1..(n - 1) : i + 1 \in 1..n
  <2>1. n \in Nat \ {0}
    BY <1>3
  <2>2. 1 \in 1..n /\ \A i \in 1..(n - 1) : i + 1 \in 1..n
    BY <2>1
  <2>3. \A i \in 1..n : i # 1 => i - 1 \in 1..(n - 1) /\ i = (i - 1) + 1
    BY <2>1
  <2>4. QED
    BY <2>2, <2>3
<1>5. /\ worker[w].at = "idle" /\ worker'[w].at # "idle"
      /\ worker'[w].task = tasks[1]
  BY <1>3 DEF Takes, Idle, Busy
<1>6. /\ \A i \in 1..(n - 1) : Key(tasks[i])' = Key(tasks[i + 1])
      /\ Key(worker[w].task)' = Key(tasks[1])
      /\ \A v \in Workers : v # w => Key(worker[v].task)' = Key(worker[v].task)
  BY <1>3, <1>5 DEF Key
<1>7. Bodies' = Bodies
  BY DEF Bodies
<1>8. /\ QueuedKeys # <<>> /\ Head(QueuedKeys) = Key(tasks[1])
      /\ QueuedKeys' = Tail(QueuedKeys)
  <2>1. PICK S, q, p : S = Bodies /\ q = QueuedKeys /\ p = QueuedKeys'
    OBVIOUS
  <2>2. q \in Seq(S) /\ Len(q) = n /\ \A i \in 1..n : q[i] = Key(tasks[i])
    BY <1>1, <1>2, <2>1 DEF KeyFacts
  <2>3. p \in [1..(n - 1) -> S] /\ \A i \in 1..(n - 1) : p[i] = Key(tasks[i])'
    BY <1>1, <1>3, <1>7, <2>1 DEF KeyFacts
  <2>4. \A i \in 1..(n - 1) : p[i] = q[i + 1]
    BY <1>4, <1>6, <2>2, <2>3
  <2>5. q # <<>> /\ Head(q) = q[1] /\ p = Tail(q)
    BY <1>3, <2>2, <2>3, <2>4, QueueTails
  <2>6. QED
    BY <1>4, <2>1, <2>2, <2>5
<1>9. InQueue = {Key(tasks[1])} \cup InQueue'
  <2>1. InQueue = {Key(tasks[i]) : i \in 1..n}
    BY <1>1, <1>2 DEF KeyFacts
  <2>2. InQueue' = {Key(tasks[i])' : i \in 1..(n - 1)}
    BY <1>1, <1>3 DEF KeyFacts
  <2>3. InQueue' = {Key(tasks[i + 1]) : i \in 1..(n - 1)}
    BY <1>6, <2>2
  <2>4. QED
    BY <1>4, <2>1, <2>3
<1>10. InHand' = InHand \cup {Key(tasks[1])}
  <2>1. InHand = {Key(worker[v].task) : v \in {u \in Workers : worker[u].at # "idle"}}
    BY <1>1 DEF KeyFacts
  <2>2. InHand' = {Key(worker[v].task)' : v \in {u \in Workers : worker'[u].at # "idle"}}
    BY <1>1 DEF KeyFacts
  <2>3. {u \in Workers : worker'[u].at # "idle"}
            = {u \in Workers : worker[u].at # "idle"} \cup {w}
    BY <1>5
  <2>4. QED
    BY <1>5, <1>6, <2>1, <2>2, <2>3
<1>11. Ended' = Ended
  BY <1>7, <1>9, <1>10 DEF Ended
<1>12. Cardinality(InHand) < Cardinality(Workers)
  BY <1>5, FewInHand
<1>13. Pool!Cardinality(InHand) = Cardinality(InHand)
  BY Zenon DEF Pool!Cardinality, Cardinality
<1>14. QED
  BY <1>8, <1>10, <1>11, <1>12, <1>13, Zenon DEF Pool!Start

(* A worker goes on with its task until the task has come to its end.      *)
LEMMA ContinueFinishes ==
  ASSUME Using, Using', NEW w \in Workers, Continues(w), UNCHANGED <<size, buf, views>>,
         \A v \in Workers : v # w => worker'[v] = worker[v]
  PROVE  [Pool!Next]_(Pool!vars)
<1>1. KeyFacts /\ KeyFacts'
  BY KeyTypes, KeyTypesNext
<1>2. UNCHANGED <<tasks, views>> /\ worker[w].at # "idle"
  BY DEF Continues
<1>3. UNCHANGED <<Bodies, QueuedKeys, InQueue>>
  BY <1>2 DEF Bodies, QueuedKeys, InQueue, Key
<1>4. /\ InHand = {Key(worker[v].task) : v \in {u \in Workers : worker[u].at # "idle"}}
      /\ InHand' = {Key(worker[v].task)' : v \in {u \in Workers : worker'[u].at # "idle"}}
  BY <1>1 DEF KeyFacts
<1>5. CASE worker'[w] = Idle
  <2> DEFINE t == worker[w].task
             k == Key(t)
  <2>1. t \in TaskType /\ t.conn \in Conns /\ IsFor(t, views[t.conn])
    BY <1>2, TaskKinds DEF Using, TasksAreViews
  <2>2. \A v \in Workers : v # w /\ worker[v].at # "idle" => Key(worker[v].task) # k
    <3>1. ASSUME NEW v \in Workers, v # w, worker[v].at # "idle"
          PROVE  Key(worker[v].task) # k
      <4>1. /\ worker[v].task.conn \in Conns
            /\ IsFor(worker[v].task, views[worker[v].task.conn])
        BY <3>1, TaskKinds DEF Using, TasksAreViews
      <4>2. Different(worker[v].task, t)
        BY <1>2, <3>1 DEF Using, Apart
      <4>3. QED
        BY <2>1, <4>1, <4>2, KeysDiffer DEF Using, Key
    <3>2. QED
      BY <3>1
  <2>3. k \notin InQueue
    <3>1. ASSUME NEW i \in 1..Len(tasks) PROVE Key(tasks[i]) # k
      <4>1. tasks[i].conn \in Conns /\ IsFor(tasks[i], views[tasks[i].conn])
        BY <3>1, TaskKinds DEF Using, TasksAreViews
      <4>2. Different(tasks[i], t)
        BY <1>2, <3>1 DEF Using, Apart
      <4>3. QED
        BY <2>1, <4>1, <4>2, KeysDiffer DEF Using, Key
    <3>2. QED
      BY <1>1, <3>1 DEF KeyFacts
  <2>4. k \in InHand /\ k \in Bodies
    BY <1>1, <1>2, <1>4 DEF KeyFacts
  <2>5. worker'[w].at = "idle"
    BY <1>5 DEF Idle
  <2>6. \A v \in Workers : v # w => Key(worker[v].task)' = Key(worker[v].task)
    BY <1>2 DEF Key
  <2> HIDE DEF t, k
  <2>7. InHand' = InHand \ {k}
    <3>1. {u \in Workers : worker'[u].at # "idle"}
            = {u \in Workers : worker[u].at # "idle"} \ {w}
      BY <2>5
    <3>2. InHand' = {Key(worker[v].task) :
                        v \in {u \in Workers : worker[u].at # "idle"} \ {w}}
      BY <1>4, <2>6, <3>1
    <3>3. Key(worker[w].task) = k
      BY DEF t, k
    <3>4. QED
      BY <1>4, <2>2, <3>2, <3>3
  <2>8. Ended' = Ended \cup {k}
    BY <1>3, <2>3, <2>4, <2>7 DEF Ended
  <2>9. Pool!Finish(k)
    BY <1>3, <2>4, <2>7, <2>8 DEF Pool!Finish
  <2>10. k \in Conns \X (1..MaxRequests)
    BY <2>4 DEF Bodies
  <2>11. QED
    BY <2>9, <2>10 DEF Pool!Next
<1>6. CASE worker'[w].at # "idle" /\ worker'[w].task = worker[w].task
  <2>1. \A v \in Workers : worker'[v].at # "idle" <=> worker[v].at # "idle"
    BY <1>2, <1>6
  <2>2. \A v \in Workers : Key(worker[v].task)' = Key(worker[v].task)
    BY <1>2, <1>6 DEF Key
  <2>3. InHand' = InHand
    BY <1>4, <2>1, <2>2
  <2>4. Ended' = Ended
    BY <1>3, <2>3 DEF Ended
  <2>5. QED
    BY <1>3, <2>3, <2>4 DEF Pool!vars
<1>7. QED
  BY <1>5, <1>6 DEF Continues

(* Every step of the server is one of TaskQueue, or is not seen there.     *)
LEMMA StepsImplement ==
  ASSUME Using, Using', [Next]_vars
  PROVE  [Pool!Next]_(Pool!vars)
<1>1. ASSUME UNCHANGED <<views, tasks, worker>> PROVE UNCHANGED Pool!vars
  BY <1>1 DEF Pool!vars, QueuedKeys, InHand, Ended, Bodies, InQueue, Key
<1>2. ASSUME NEW c \in Conns, Read(c) PROVE [Pool!Next]_(Pool!vars)
  <2>1. UNCHANGED worker
    BY <1>2 DEF Read
  <2>2. \/ Hands(c)
        \/ UNCHANGED <<views, tasks>>
    BY <1>2, ReadDoes DEF Using, Quiet, Rejects
  <2>3. CASE Hands(c)
    BY <1>2, <2>3, HandsSubmits
  <2>4. QED
    BY <1>1, <2>1, <2>2, <2>3
<1>3. ASSUME NEW w \in Workers, Work(w) PROVE [Pool!Next]_(Pool!vars)
  <2>1. /\ Takes(w) \/ Continues(w)
        /\ UNCHANGED <<size, buf, views>>
        /\ \A v \in Workers : v # w => worker'[v] = worker[v]
    BY <1>3, WorkMoves DEF Using
  <2>2. CASE Takes(w)
    BY <2>1, <2>2, TakeStarts DEF Pool!Next
  <2>3. QED
    BY <2>1, <2>2, ContinueFinishes
<1>4. QED
  BY <1>1, <1>2, <1>3, StepKinds

(* The server and its workers implement TaskQueue, for every body it hands *)
(* to on_readcompletecallback (MiniServer.cpp:170-176): each becomes one   *)
(* task, begun in the order in which the io thread received the bodies, at *)
(* most one by each worker, and ended once.  A client may send what it     *)
(* likes and when it likes: bytes with two heads are two requests for      *)
(* OneHead, so that MaxRequests counts the heads.                          *)
THEOREM ServerUsesTaskQueue ==
  ASSUME \A r \in Requests : OneHead(r)
  PROVE  Safety => ServerIsTaskQueue
<1>1. Init => Pool!Init
  <2>1. SUFFICES ASSUME Init PROVE Pool!Init
    OBVIOUS
  <2>2. /\ DOMAIN tasks = {} /\ {v \in Workers : worker[v] # Idle} = {}
        /\ \A c \in Conns : DOMAIN views[c] = {}
    BY <2>1, EmptySeq, LenProperties DEF Init
  <2>3. QueuedKeys = <<>> /\ InHand = {} /\ Ended = {}
    <3>1. QueuedKeys = <<>>
      BY <2>2 DEF QueuedKeys
    <3>2. Bodies = {}
      BY <2>2 DEF Bodies
    <3>3. QED
      BY <2>2, <3>1, <3>2 DEF InHand, Ended
  <2>4. QED
    BY <2>3 DEF Pool!Init
<1>2. Using /\ [Next]_vars => Using'
  BY NextUsing
<1>3. Using /\ Using' /\ [Next]_vars => [Pool!Next]_(Pool!vars)
  BY StepsImplement
<1>4. QED
  BY <1>1, <1>2, <1>3, InitUsing, PTL DEF Safety, ServerIsTaskQueue, Pool!Safety
=============================================================================
