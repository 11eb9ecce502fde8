------------------------ MODULE HttpServerProperties ------------------------
(* The correctness properties of HttpServer.                               *)
EXTENDS HttpServer

-----------------------------------------------------------------------------
(* What a client may send as one request, where a property depends on it.  *)

Ends(s) == {e \in DOMAIN s : s[e].class = "end"}

(* A request has one head at most.                                         *)
OneHead(r) == \A e, f \in Ends(r) : e = f

(* It is as long as its head says, and the length is not below zero.       *)
OneRequest(r) ==
    /\ OneHead(r)
    /\ \A e \in Ends(r) :
        r[e].len # Negative /\ (r[e].len \in Nat => Len(r) = e + r[e].len)

-----------------------------------------------------------------------------
ReadType ==
    [handler : {"http_requestcallback", "http_datacallback"},
     parser : ParserState, nlen : Nat]

(* What a head announces, or 0 for a head that announces nothing.          *)
Length == Nat \cup {Negative}

WriteType == [reply : Nat \ {0}, left : 0..Chunks]

TaskType == [conn : Conns, from : Nat, nlen : Length, size : Nat]

WorkerType ==
    {Idle}
        \cup [at : {"analyze", "query", "marked", "reply", "reject"}, task : TaskType]
        \cup [at : {"context"}, task : TaskType, reply : Nat \ {0}]

TypeOK ==
    /\ start_ \in BOOLEAN /\ accepting \in BOOLEAN /\ broken \in BOOLEAN
    /\ service \in {"running", "stopped"}
    /\ io \in {<<>>} \cup (Conns \X (Nat \ {0}))
    /\ conn \in [Conns -> {"none", "backlog", "accepted", "dropped"}]
    /\ peer \in [Conns -> {"here", "gone"}]
    /\ asked \in [Conns -> 0..MaxRequests]
    /\ wire \in [Conns -> Seq(Byte)]
    /\ buf \in [Conns -> Seq(Byte)]
    /\ read_pos \in [Conns -> Nat]
    /\ size \in [Conns -> Nat]
    /\ reads \in [Conns -> Seq(ReadType)]
    /\ writes \in [Conns -> SUBSET WriteType]
    /\ replies \in [Conns -> Seq({"ok", "bad"})]
    /\ mem \in [Conns -> SUBSET (Nat \ {0})]
    /\ context_ \in [Conns -> Nat]
    /\ out \in [Conns -> Seq(Nat \ {0})]
    /\ posts \in Seq([conn : Conns, reply : Nat \ {0}])
    /\ tasks \in Seq(TaskType)
    /\ worker \in [Workers -> WorkerType]
    /\ views \in [Conns -> Seq([from : Nat, nlen : Length])]
    /\ rejected \in [Conns -> Nat]
    /\ failed \in [Conns -> Nat]

-----------------------------------------------------------------------------
(* Reading.                                                                *)

(* The handlers of a connection form one chain: no two async_reads are     *)
(* ever outstanding, which would fill the same bytes of the Buffer, and    *)
(* none is outstanding before the accept.  begin_read and async_read are   *)
(* called from four places (MiniServer.cpp:27, 79, 90 and 97).             *)
OneReader ==
    \A c \in Conns :
        /\ Len(reads[c]) <= 1
        /\ conn[c] # "accepted" => reads[c] = <<>>

(* An outstanding async_read has room: write_n followed by double_size     *)
(* (TcpConnection.h:75-77) never leaves a full buffer, for which asio      *)
(* would complete at once with no byte read.                               *)
ReadHasRoom ==
    \A c \in Conns : reads[c] # <<>> => Writeable(c) > 0

(* The body handed to on_readcompletecallback is what follows a head that  *)
(* announced just that length (or none), all of it received, however the   *)
(* network cut the request in pieces (MiniServer.cpp:56-67 and 88-93).     *)
(* The exception is a head that announces a negative length, for which     *)
(* nothing is waited for.                                                  *)
ViewsAreBodies ==
    \A c \in Conns : \A i \in DOMAIN views[c] :
        LET v == views[c][i] IN
            /\ v.from \in 1..Len(buf[c])
            /\ buf[c][v.from].class = "end"
            /\ v.nlen # Negative => v.nlen \in 0..(Len(buf[c]) - v.from)
            /\ \/ buf[c][v.from].len = v.nlen
               \/ buf[c][v.from].len = NoLength /\ v.nlen = 0

(* Bodies are handed over in the order in which they were received, and    *)
(* none twice: each begins behind the head of the one before it.           *)
ViewsAdvance ==
    \A c \in Conns : \A i \in DOMAIN views[c] : \A j \in 1..(i - 1) :
        views[c][j].from < views[c][i].from

(* The body is never committed (line 90 precedes any commit), so the next  *)
(* head is parsed from its first byte on.  A body that is a JSON object is *)
(* therefore the last request of its connection: '{' begins no head.       *)
ObjectBodyIsLast ==
    \A c \in Conns : \A i \in DOMAIN views[c] :
        /\ views[c][i].nlen > 0
        /\ buf[c][views[c][i].from + 1].class = "brace"
        => i = Len(views[c])

(* A rejected head is the end of the conversation: one 400 from the io     *)
(* thread, then the connection is not read again (MiniServer.cpp:69-76).   *)
RejectionEndsReading ==
    \A c \in Conns : rejected[c] > 0 => rejected[c] = 1 /\ reads[c] = <<>>

(* The io thread has read its last of the connection: a head without       *)
(* Content-Length (MiniServer.cpp:58-63), or with one that makes stoi      *)
(* throw (line 66).                                                        *)
Deaf(c) ==
    /\ read_pos[c] > 0
    /\ buf[c][read_pos[c]].class = "end"
    /\ buf[c][read_pos[c]].len \in {NoLength, NotANumber}

(* The chain of reads of a client that is there ends in three places: a    *)
(* rejected head and the two that make the io thread deaf.  On every other *)
(* way through the handlers one of them asks for the next read, however    *)
(* the requests are cut and pipelined (MiniServer.cpp:44-101).             *)
ReadingGoesOn ==
    \A c \in Conns :
        conn[c] = "accepted" /\ peer[c] = "here" /\ reads[c] = <<>>
            => rejected[c] > 0 \/ Deaf(c)

-----------------------------------------------------------------------------
(* Answering.                                                              *)

Queued(c) == {i \in DOMAIN tasks : tasks[i].conn = c}

Unanswered(c) ==
    {w \in Workers : worker[w].at \in {"analyze", "query", "marked", "reply", "reject"}
                        /\ worker[w].task.conn = c}

(* Every request is in exactly one place: in the queue, with a worker, or  *)
(* settled by one reply or one exception; and there is no reply for which  *)
(* there was no request or rejected head.                                  *)
EachRequestOnce ==
    \A c \in Conns :
        Len(views[c]) + rejected[c] =
            Cardinality(Queued(c)) + Cardinality(Unanswered(c))
                + Len(replies[c]) + failed[c]

(* The queue of the pool has no bound (MiniServer.cpp:174) and its workers *)
(* wait for MySQL; what bounds the backlog is that a client which waits    *)
(* for its answer has one unanswered request in the queue or in a worker's *)
(* hand, never two: nothing the server makes of the bytes of one request   *)
(* becomes a second task.                                                  *)
OneInHand ==
    \A c \in Conns : Cardinality(Queued(c)) + Cardinality(Unanswered(c)) <= 1

(* A client that waits for its answer is answered 200 at most once on a    *)
(* connection: by ObjectBodyIsLast the second request meets a 400.         *)
AtMostOneOk ==
    \A c \in Conns :
        Cardinality({r \in DOMAIN replies[c] : replies[c][r] = "ok"}) <= 1

(* The io_service runs out of work only if the chain of accepts has been   *)
(* broken: the outstanding async_accept is what keeps run() running while  *)
(* workers hold the only references to a connection (MiniServer.cpp:31).   *)
AcceptKeepsServiceRunning == service = "stopped" => broken

-----------------------------------------------------------------------------
(* The pool and its workers, as the other modules specify them.            *)

(* A body is the i-th of its connection.                                   *)
KeyOf(t, bodies) ==
    <<t.conn, CHOOSE i \in DOMAIN bodies : bodies[i].from = t.from>>

Key(t) == KeyOf(t, views[t.conn])

Bodies == {k \in Conns \X (1..MaxRequests) : k[2] \in DOMAIN views[k[1]]}
QueuedKeys == [i \in DOMAIN tasks |-> Key(tasks[i])]
InQueue == {Key(tasks[i]) : i \in DOMAIN tasks}
InHand == {Key(worker[w].task) : w \in {v \in Workers : worker[v] # Idle}}
Ended == Bodies \ (InQueue \cup InHand)

Pool == INSTANCE TaskQueue
    WITH Task <- Conns \X (1..MaxRequests), Size <- Cardinality(Workers),
         queue <- QueuedKeys, running <- InHand, finished <- Ended, closed <- FALSE

(* The server and its workers use a TaskQueue: every body becomes one      *)
(* task, tasks are begun in the order in which the io thread received the  *)
(* bodies, at most one by each worker, and each is ended once              *)
(* (MiniServer.cpp:170-176).  ThreadPool implements the same TaskQueue.    *)
ServerIsTaskQueue == Pool!Safety

(* Between the two halves of bad_request the request is still rejected,    *)
(* and a request marked as an error asks MySQL for nothing.                *)
StageOf(w) ==
    CASE worker[w].at = "context" -> "reject"
      [] worker[w].at = "marked"  -> "query"
      [] OTHER                    -> worker[w].at

Life(w) == INSTANCE WorkerLife WITH stage <- StageOf(w)

(* What a worker does with a request is what RequestHandler, which looks   *)
(* into the request, lets it do: _read_callback returns after bad_request  *)
(* (MiniServer.cpp:118), queries at most once and answers once.            *)
WorkersLive ==
    /\ \A w \in Workers : Life(w)!Init
    /\ [][\A w \in Workers : Life(w)!Next \/ UNCHANGED StageOf(w)]_vars

-----------------------------------------------------------------------------
(* Memory shared between the io thread and the workers.                    *)

(* A worker that parses a body reads the array the Buffer has now: no      *)
(* double_size has moved it since the string_view was made (line 92).      *)
ViewsStayValid ==
    \A w \in Workers : worker[w].at = "analyze" => ~Stale(worker[w].task)

(* "the reply object must remain valid and not be changed until the write  *)
(* operation has completed" (reply.hpp:44-45), for replies of one kind.    *)
OutlivesWrite(kind) ==
    \A c \in Conns : \A op \in writes[c] :
        op.left > 0 /\ replies[c][op.reply] = kind => op.reply \in mem[c]

(* ... for the replies of send2client.                                     *)
OkReplyOutlivesWrite == OutlivesWrite("ok")

(* ... for those of bad_request, which live in the connection's context.   *)
BadReplyOutlivesWrite == OutlivesWrite("bad")

(* A reply leaves in one piece: the chunks of two replies to a connection  *)
(* are not interleaved, though the io thread and the workers may all call  *)
(* async_write (MiniServer.cpp:105 and 162).                               *)
RepliesNotInterleaved ==
    \A c \in Conns : \A i, k \in DOMAIN out[c] :
        out[c][i] = out[c][k] => \A j \in i..k : out[c][j] = out[c][i]

-----------------------------------------------------------------------------
(* Liveness.                                                               *)

(* A client in the backlog is accepted, unless an accept has failed.       *)
BacklogServed ==
    \A c \in Conns : conn[c] = "backlog" ~> conn[c] # "backlog" \/ broken

(* Every request of a client that waits for its answers is handed over or, *)
(* where its first bytes are no head, rejected, however it is cut into     *)
(* reads: unless the client leaves, an accept has failed, or the io thread *)
(* is deaf to the connection.                                              *)
EveryRequestHeard ==
    \A c \in Conns : \A i \in 1..MaxRequests :
        asked[c] >= i ~>
            \/ Len(views[c]) >= i
            \/ rejected[c] > 0
            \/ peer[c] = "gone" \/ broken \/ Deaf(c)

(* Every request is answered in full or ends in an exception, unless the   *)
(* client leaves or the io_service has stopped.                            *)
EveryRequestAnswered ==
    \A c \in Conns : \A i \in 1..MaxRequests :
        Len(views[c]) >= i ~>
            \/ Cardinality(Delivered(c)) + failed[c] >= i
            \/ peer[c] = "gone" \/ service = "stopped"

(* The connection of a client that has left is released, unless the        *)
(* io_service has stopped: reads and writes fail, tasks come to an end.    *)
DepartedReleased ==
    \A c \in Conns :
        conn[c] = "accepted" /\ peer[c] = "gone" ~>
            ~Referenced(c) \/ service = "stopped"
=============================================================================
