----------------------------- MODULE HttpServer -----------------------------
(***************************************************************************)
(* The server of MiniServer.cpp and TcpConnection.h: one thread that runs  *)
(* the handlers of the io_service, a pool of worker threads that answer    *)
(* requests, and clients.                                                  *)
(*                                                                         *)
(* A handler runs from start to end as one action, since one thread runs   *)
(* them all; the exception is ServerManager::bad_request, whose two halves *)
(* (async_write, then set_context) are separate because workers call it    *)
(* too.  What a worker does between two accesses to shared state is an     *)
(* action of its own.                                                      *)
(*                                                                         *)
(* A connection's Buffer is never compacted on this path (every commit is  *)
(* within the readable bytes, so Buffer::move_front is not reached):       *)
(* buf[c] is everything received, read_pos is the number of bytes of it    *)
(* that have been committed, and write_pos is Len(buf[c]), both counted    *)
(* from PRERESERVE.                                                        *)
(*                                                                         *)
(* A reply is a number of Chunks that the kernel accepts one or more at a  *)
(* time; the chunk sequence out[c] is what the client receives.  Replies   *)
(* of a connection are numbered as they are created; mem[c] holds the      *)
(* numbers of those whose memory has not been freed.                       *)
(*                                                                         *)
(* A definition that begins with Bug is no part of the server: it is the   *)
(* mistake that the definition after it does not make (PROJECT.json,       *)
(* "mutants").                                                             *)
(***************************************************************************)
EXTENDS HeadScan, FiniteSets

CONSTANTS
    Conns,          \* the connections that clients may open
    Workers,        \* the threads of the pool
    Requests,       \* the byte sequences a client may send as one request
    MaxRequests,    \* bound: requests per connection
    BUFFERSIZE, PRERESERVE,
    Chunks,         \* in how many pieces a reply may leave
    Patient,        \* clients wait for a reply before they send more
    AcceptMayFail   \* async_accept may complete with an error

ASSUME ServerAssumption ==
    /\ IsFiniteSet(Workers)
    /\ Requests \subseteq Seq(Byte)
    /\ MaxRequests \in Nat
    /\ PRERESERVE \in Nat /\ BUFFERSIZE \in Nat /\ BUFFERSIZE > PRERESERVE
    /\ Chunks \in Nat \ {0}
    /\ Patient \in BOOLEAN /\ AcceptMayFail \in BOOLEAN

VARIABLES
    start_,     \* HttpServer::start has run
    accepting,  \* an async_accept is outstanding
    broken,     \* history: an accept handler has ended before do_accept
    service,    \* "stopped" once io_service::run has run out of work
    io,         \* <<c, r>> while the io thread is between the halves of bad_request
    conn,       \* "none", "backlog", "accepted" or "dropped"
    peer,       \* the client is "here" or "gone"
    asked,      \* requests the client has sent
    wire,       \* bytes sent and not yet read by the server
    buf, read_pos, size,    \* the connection's Buffer
    reads,      \* outstanding async_reads, each with its bound handler
    writes,     \* outstanding async_writes
    replies,    \* the replies created for the connection: "ok" or "bad"
    mem,        \* the replies whose memory is allocated
    context_,   \* the reply in the connection's context_, 0 if none
    out,        \* the chunks the kernel has accepted, in order
    posts,      \* lambdas posted to the io_service by send2client
    tasks,      \* the queue of the ThreadPool
    worker,     \* what each worker is doing
    views,      \* history: the bodies passed to on_readcompletecallback
    rejected,   \* history: heads that the parser has rejected
    failed      \* history: tasks that ended in an exception

serverVars == <<start_, accepting, broken, service>>
clientVars == <<conn, peer, asked>>
bufferVars == <<buf, read_pos, size>>
replyVars == <<replies, mem, context_, out>>
poolVars == <<tasks, worker>>
historyVars == <<views, rejected, failed>>
inVars == <<wire, bufferVars, reads>>
outVars == <<writes, replyVars, posts>>
workVars == <<poolVars, historyVars>>

vars == <<serverVars, io, clientVars, inVars, outVars, workVars>>

-----------------------------------------------------------------------------
(* An async_read bound to http_requestcallback carries the parser, one     *)
(* bound to http_datacallback the length it waits for.                     *)
HeadRead(p) == [handler |-> "http_requestcallback", parser |-> p, nlen |-> 0]
DataRead(n) == [handler |-> "http_datacallback", parser |-> "fresh", nlen |-> n]

(* A task is the call of _read_callback with a string_view: nlen bytes     *)
(* after the first from bytes received, in the array that the Buffer had   *)
(* when its size was size.  The view of a request without body is empty.   *)
TaskOf(c, from, n, sz) == [conn |-> c, from |-> from, nlen |-> n, size |-> sz]

Idle == [at |-> "idle"]
Busy(label, t) == [at |-> label, task |-> t]

Init ==
    /\ start_ = FALSE /\ accepting = FALSE /\ broken = FALSE
    /\ service = "running"
    /\ io = <<>>
    /\ conn = [c \in Conns |-> "none"]
    /\ peer = [c \in Conns |-> "here"]
    /\ asked = [c \in Conns |-> 0]
    /\ wire = [c \in Conns |-> <<>>]
    /\ buf = [c \in Conns |-> <<>>]
    /\ read_pos = [c \in Conns |-> 0]
    /\ size = [c \in Conns |-> BUFFERSIZE]
    /\ reads = [c \in Conns |-> <<>>]
    /\ writes = [c \in Conns |-> {}]
    /\ replies = [c \in Conns |-> <<>>]
    /\ mem = [c \in Conns |-> {}]
    /\ context_ = [c \in Conns |-> 0]
    /\ out = [c \in Conns |-> <<>>]
    /\ posts = <<>>
    /\ tasks = <<>>
    /\ worker = [w \in Workers |-> Idle]
    /\ views = [c \in Conns |-> <<>>]
    /\ rejected = [c \in Conns |-> 0]
    /\ failed = [c \in Conns |-> 0]

Push(f, c, x) == [f EXCEPT ![c] = Append(@, x)]
Set(f, c, x) == [f EXCEPT ![c] = x]

(* Buffer::writeable                                                       *)
Writeable(c) == size[c] - PRERESERVE - Len(buf[c])

(* The TcpConnection lives as long as a handler, a task or the io thread   *)
(* holds a shared_ptr to it; its socket is closed with it.                 *)
Referenced(c) ==
    \/ reads[c] # <<>> \/ writes[c] # {}
    \/ \E i \in DOMAIN posts : posts[i].conn = c
    \/ \E i \in DOMAIN tasks : tasks[i].conn = c
    \/ \E w \in Workers : worker[w] # Idle /\ worker[w].task.conn = c
    \/ io # <<>> /\ io[1] = c

(* The io thread can take the next handler.                                *)
IoReady == service = "running" /\ io = <<>>

-----------------------------------------------------------------------------
(* Clients, and the network under them.                                    *)

(* The replies that have reached the client in full.                       *)
Delivered(c) ==
    {r \in DOMAIN replies[c] :
        Cardinality({i \in DOMAIN out[c] : out[c][i] = r}) = Chunks}

ClientConnects(c) ==
    /\ conn[c] = "none"
    /\ conn' = Set(conn, c, "backlog")
    /\ UNCHANGED <<serverVars, io, peer, asked, inVars, outVars, workVars>>

ClientSends(c) ==
    /\ conn[c] = "backlog" \/ Referenced(c)
    /\ peer[c] = "here"
    /\ asked[c] < MaxRequests
    /\ Patient => Cardinality(Delivered(c)) = asked[c]
    /\ asked' = [asked EXCEPT ![c] = @ + 1]
    /\ \E r \in Requests : wire' = [wire EXCEPT ![c] = @ \o r]
    /\ UNCHANGED <<serverVars, io, conn, peer, bufferVars, reads, outVars,
                   workVars>>

ClientLeaves(c) ==
    /\ conn[c] = "backlog" \/ Referenced(c)
    /\ peer[c] = "here"
    /\ peer' = Set(peer, c, "gone")
    /\ UNCHANGED <<serverVars, io, conn, asked, inVars, outVars, workVars>>

-----------------------------------------------------------------------------
(* Starting, accepting, and the end of io_service::run.                    *)

Start ==
    /\ ~start_
    /\ accepting' = TRUE
    /\ start_' = TRUE
    /\ UNCHANGED <<broken, service, io, clientVars, inVars, outVars, workVars>>

(* The handler of async_accept: begin_read, then do_accept if again.       *)
AcceptThen(c, again) ==
    /\ IoReady /\ accepting
    /\ conn[c] = "backlog"
    /\ conn' = Set(conn, c, "accepted")
    /\ reads' = Push(reads, c, HeadRead("fresh"))
    /\ accepting' = again
    /\ UNCHANGED <<start_, broken, service, io, peer, asked, wire, bufferVars,
                   outVars, workVars>>

BugAcceptOnce(c) == AcceptThen(c, FALSE)

Accept(c) == AcceptThen(c, TRUE)

(* remote_endpoint() on line 25 throws, for the client is gone again: the  *)
(* handler ends there, main catches, and nobody calls do_accept.           *)
AcceptThrows(c) ==
    /\ IoReady /\ accepting
    /\ conn[c] = "backlog" /\ peer[c] = "gone"
    /\ conn' = Set(conn, c, "dropped")
    /\ accepting' = FALSE
    /\ broken' = TRUE
    /\ UNCHANGED <<start_, service, io, peer, asked, inVars, outVars, workVars>>

(* async_accept itself fails: line 25 is before the test of e on line 26.  *)
AcceptFails ==
    /\ AcceptMayFail
    /\ IoReady /\ accepting
    /\ accepting' = FALSE
    /\ broken' = TRUE
    /\ UNCHANGED <<start_, service, io, clientVars, inVars, outVars, workVars>>

Outstanding ==
    \/ accepting \/ posts # <<>>
    \/ \E c \in Conns : reads[c] # <<>> \/ writes[c] # {}

(* run() returns when nothing is outstanding and leaves the io_service     *)
(* stopped; main calls run() again, but never reset().                     *)
RunsOut ==
    /\ start_ /\ IoReady
    /\ ~Outstanding
    /\ service' = "stopped"
    /\ UNCHANGED <<start_, accepting, broken, io, clientVars, inVars, outVars,
                   workVars>>

-----------------------------------------------------------------------------
(* Writing a reply.                                                        *)

NextReply(c) == Len(replies[c]) + 1

(* async_write tries to send at once: k of the chunks leave here.          *)
AsyncWrite(c, r, k) ==
    /\ writes' = [writes EXCEPT ![c] = @ \cup {[reply |-> r, left |-> Chunks - k]}]
    /\ out' = [out EXCEPT ![c] = @ \o [i \in 1..k |-> r]]

(* bad_request, first half: the reply is a local variable.                 *)
WriteBadRequest(c) ==
    /\ \E k \in 0..Chunks : AsyncWrite(c, NextReply(c), k)
    /\ mem' = [mem EXCEPT ![c] = @ \cup {NextReply(c)}]
    /\ replies' = Push(replies, c, "bad")
    /\ UNCHANGED context_

(* bad_request, second half: the reply moves into the context, and frees   *)
(* the one that was there.                                                 *)
SetContext(c, r) ==
    /\ context_' = Set(context_, c, r)
    /\ mem' = [mem EXCEPT ![c] = @ \ {context_[c]}]
    /\ UNCHANGED <<replies, out>>

(* The lambda that send2client has posted.  It owns the reply and dies     *)
(* with this call; the handler it gives to async_write does not own it.    *)
RunPost ==
    /\ IoReady
    /\ posts # <<>>
    /\ LET p == Head(posts) IN
        /\ \E k \in 0..Chunks : AsyncWrite(p.conn, p.reply, k)
        /\ mem' = [mem EXCEPT ![p.conn] = @ \ {p.reply}]
    /\ posts' = Tail(posts)
    /\ UNCHANGED <<serverVars, io, clientVars, inVars, replies, context_,
                   workVars>>

(* A write that is not complete goes on when the socket is writable.       *)
WriteSome(c) ==
    /\ IoReady
    /\ \E op \in writes[c] : \E k \in 1..op.left :
        /\ writes' = [writes EXCEPT ![c] =
                        (@ \ {op}) \cup {[op EXCEPT !.left = @ - k]}]
        /\ out' = [out EXCEPT ![c] = @ \o [i \in 1..k |-> op.reply]]
    /\ UNCHANGED <<serverVars, io, clientVars, inVars, replies, mem, context_,
                   posts, workVars>>

(* The handler of async_write, which does nothing but hold the connection: *)
(* called when all is sent, or when the client is gone.                    *)
WriteEnds(c) ==
    /\ IoReady
    /\ \E op \in writes[c] :
        /\ op.left = 0 \/ peer[c] = "gone"
        /\ writes' = [writes EXCEPT ![c] = @ \ {op}]
    /\ UNCHANGED <<serverVars, io, clientVars, inVars, replyVars, posts, workVars>>

(* Back from bad_request's async_write, on the io thread.                  *)
FinishBadRequest ==
    /\ io # <<>>
    /\ SetContext(io[1], io[2])
    /\ io' = <<>>
    /\ UNCHANGED <<serverVars, clientVars, inVars, writes, posts, workVars>>

-----------------------------------------------------------------------------
(* Reading.  TcpConnection::async_read hands n bytes to the bound handler. *)

(* The read that has completed is done, the handler may ask for others.    *)
Reread(c, more) == reads' = [reads EXCEPT ![c] = Tail(@) \o more]

(* The handler of async_read: an error ends the chain of reads.            *)
FailThen(c, more) ==
    /\ IoReady
    /\ reads[c] # <<>>
    /\ peer[c] = "gone"
    /\ Reread(c, more)
    /\ UNCHANGED <<serverVars, io, clientVars, wire, bufferVars, outVars,
                   workVars>>

BugReadFailsReads(c) == FailThen(c, <<Head(reads[c])>>)

ReadFails(c) == FailThen(c, <<>>)

(* write_n, and double_size if grow.                                       *)
ReceiveAndGrow(c, n, grow) ==
    /\ wire' = [wire EXCEPT ![c] = SubSeq(@, n + 1, Len(@))]
    /\ buf' = [buf EXCEPT ![c] = @ \o SubSeq(wire[c], 1, n)]
    /\ size' = [size EXCEPT ![c] = IF grow THEN 2 * @ ELSE @]

BugReceiveNeverGrows(c, n) == ReceiveAndGrow(c, n, FALSE)

(* The buffer grows when it is full.                                       *)
Receive(c, n) == ReceiveAndGrow(c, n, n = Writeable(c))

(* read_callback: enqueue _read_callback with the view of the body, in the *)
(* array of a Buffer whose size is sz.                                     *)
EnqueueView(c, from, n, sz) ==
    /\ tasks' = Append(tasks, TaskOf(c, from, n, sz))
    /\ views' = Push(views, c, [from |-> from, nlen |-> n])

BugEnqueueBeforeGrowth(c, from, n) == EnqueueView(c, from, n, size[c])

Enqueue(c, from, n) == EnqueueView(c, from, n, size'[c])

(* http_datacallback, with pos as the read_pos.  Once need bytes of the    *)
(* body are there it is handed over, and stays readable.  The comparison   *)
(* on line 88 is signed: a negative length is there at once, and becomes   *)
(* the length of a string_view, which has no sign.                         *)
BodyOrMore(c, n, pos, need, more) ==
    /\ read_pos' = Set(read_pos, c, pos)
    /\ \/ /\ Len(buf'[c]) - pos >= need
          /\ Reread(c, <<HeadRead("fresh")>>)
          /\ Enqueue(c, pos, n)
       \/ /\ Len(buf'[c]) - pos < need
          /\ Reread(c, more)
          /\ UNCHANGED <<tasks, views>>
    /\ UNCHANGED <<io, writes, replyVars, rejected>>

BugDataCallbackAtOnce(c, n, pos) == BodyOrMore(c, n, pos, 0, <<DataRead(n)>>)

BugDataCallbackReadsTwice(c, n, pos) ==
    BodyOrMore(c, n, pos, n, <<HeadRead("fresh"), DataRead(n)>>)

BugDataCallbackStops(c, n, pos) == BodyOrMore(c, n, pos, n, <<>>)

DataCallback(c, n, pos) == BodyOrMore(c, n, pos, n, <<DataRead(n)>>)

BugHeadCompleteUncommitted(c, e) ==
    /\ buf'[c][e].len \in Nat
    /\ DataCallback(c, buf'[c][e].len, read_pos[c])

BugHeadCompleteAnyLength(c, e) == DataCallback(c, buf'[c][e].len, e)

(* http_requestcallback when the head is complete at byte e.               *)
HeadComplete(c, e) ==
    LET b == buf'[c][e] IN
    \/ /\ b.len \in Nat \cup {Negative}
       /\ DataCallback(c, b.len, e)
    \/ /\ b.len = NoLength          \* no body, and no further read
       /\ read_pos' = Set(read_pos, c, e)
       /\ Reread(c, <<>>)
       /\ Enqueue(c, e, 0)
       /\ UNCHANGED <<io, writes, replyVars, rejected>>
    \/ /\ b.len = NotANumber        \* stoi throws out of the handler
       /\ read_pos' = Set(read_pos, c, e)
       /\ Reread(c, <<>>)
       /\ UNCHANGED <<io, writes, replyVars, rejected, tasks, views>>

(* remote_endpoint() of line 55 throws before anything else is done.       *)
HeadCompleteThrows(c) ==
    /\ peer[c] = "gone"
    /\ Reread(c, <<>>)
    /\ UNCHANGED <<read_pos, io, writes, replyVars, rejected, tasks, views>>

RejectHead(c, more) ==
    /\ WriteBadRequest(c)
    /\ io' = <<c, NextReply(c)>>
    /\ rejected' = [rejected EXCEPT ![c] = @ + 1]
    /\ Reread(c, more)
    /\ UNCHANGED <<read_pos, tasks, views>>

BugHeadBadReads(c) == RejectHead(c, <<HeadRead("fresh")>>)

HeadBad(c) == RejectHead(c, <<>>)

CommitHead(c, more) ==
    /\ read_pos' = Set(read_pos, c, Len(buf'[c]))
    /\ Reread(c, more)
    /\ UNCHANGED <<io, writes, replyVars, rejected, tasks, views>>

BugHeadIncompleteStops(c) == CommitHead(c, <<>>)

HeadIncomplete(c) == CommitHead(c, <<HeadRead("begun")>>)

RequestCallback(c, p) ==
    LET scan == Parse(p, SubSeq(buf'[c], read_pos[c] + 1, Len(buf'[c]))) IN
    \/ /\ scan.result = "good"
       /\ HeadComplete(c, read_pos[c] + scan.consumed) \/ HeadCompleteThrows(c)
    \/ scan.result = "bad" /\ HeadBad(c)
    \/ scan.result = "indeterminate" /\ HeadIncomplete(c)

Read(c) ==
    /\ IoReady
    /\ reads[c] # <<>>
    /\ \E n \in 1..Len(wire[c]) : n <= Writeable(c) /\ Receive(c, n)
    /\ LET r == Head(reads[c]) IN
        \/ r.handler = "http_requestcallback" /\ RequestCallback(c, r.parser)
        \/ r.handler = "http_datacallback" /\ DataCallback(c, r.nlen, read_pos[c])
    /\ UNCHANGED <<serverVars, clientVars, posts, worker, failed>>

-----------------------------------------------------------------------------
(* Workers: ServerManager::_read_callback.                                 *)

Become(w, state) == worker' = [worker EXCEPT ![w] = state]

TakeLeaving(w, rest) ==
    /\ worker[w] = Idle
    /\ tasks # <<>>
    /\ Become(w, Busy("analyze", Head(tasks)))
    /\ tasks' = rest
    /\ UNCHANGED <<serverVars, io, clientVars, inVars, outVars, historyVars>>

BugTakeWithoutPop(w) == TakeLeaving(w, tasks)

Take(w) == TakeLeaving(w, Tail(tasks))

(* The array that the view points into has been replaced by double_size.   *)
Stale(t) == t.nlen > 0 /\ t.size # size[t.conn]

(* What Analyzer::parse can make of a body.  No text is no JSON; an object *)
(* can be a request, well formed or not, or hold a value whose asInt()     *)
(* throws; other JSON throws when its members are asked for, but for null, *)
(* which has none: it becomes a ClientReq marked as an error.  A stale     *)
(* view, and one whose end is before its beginning, can hold anything.     *)
Analyses(t) ==
    IF Stale(t) \/ t.nlen = Negative THEN {"query", "reject", "throw"}
    ELSE IF t.nlen = 0 THEN {"reject"}
    ELSE IF buf[t.conn][t.from + 1].class = "brace"
         THEN {"query", "reject", "throw"}
         ELSE {"marked", "reject", "throw"}

BugAnalyzeWithoutAnswer(w) ==
    /\ worker[w].at = "analyze"
    /\ Become(w, Idle)
    /\ UNCHANGED <<serverVars, io, clientVars, inVars, outVars, tasks, historyVars>>

Analyze(w) ==
    /\ worker[w].at = "analyze"
    /\ LET t == worker[w].task IN
        \/ /\ \E label \in Analyses(t) \ {"throw"} : Become(w, Busy(label, t))
           /\ UNCHANGED failed
        \/ /\ "throw" \in Analyses(t)   \* kept by the packaged_task
           /\ Become(w, Idle)
           /\ failed' = [failed EXCEPT ![t.conn] = @ + 1]
    /\ UNCHANGED <<serverVars, io, clientVars, inVars, outVars, tasks, views,
                   rejected>>

(* request_from_client has come back, with something to answer or not; for *)
(* a request marked as an error it asks MySQL nothing, and has nothing.    *)
Query(w) ==
    /\ \/ /\ worker[w].at \in {"query", "marked"}
          /\ Become(w, Busy("reject", worker[w].task))
       \/ /\ worker[w].at = "query"
          /\ Become(w, Busy("reply", worker[w].task))
    /\ UNCHANGED <<serverVars, io, clientVars, inVars, outVars, tasks,
                   historyVars>>

(* send2client                                                             *)
Send(w) ==
    /\ worker[w].at = "reply"
    /\ LET c == worker[w].task.conn IN
        /\ replies' = Push(replies, c, "ok")
        /\ mem' = [mem EXCEPT ![c] = @ \cup {NextReply(c)}]
        /\ posts' = Append(posts, [conn |-> c, reply |-> NextReply(c)])
    /\ Become(w, Idle)
    /\ UNCHANGED <<serverVars, io, clientVars, inVars, writes, context_, out,
                   tasks, historyVars>>

(* bad_request on a worker: async_write ...                                *)
Reject(w) ==
    /\ worker[w].at = "reject"
    /\ LET t == worker[w].task IN
        /\ WriteBadRequest(t.conn)
        /\ Become(w, [at |-> "context", task |-> t, reply |-> NextReply(t.conn)])
    /\ UNCHANGED <<serverVars, io, clientVars, inVars, posts, tasks, historyVars>>

(* ... and set_context.                                                    *)
FinishThen(w, state) ==
    /\ worker[w].at = "context"
    /\ SetContext(worker[w].task.conn, worker[w].reply)
    /\ Become(w, state)
    /\ UNCHANGED <<serverVars, io, clientVars, inVars, writes, posts, tasks,
                   historyVars>>

BugFinishRejectGoesOn(w) == FinishThen(w, Busy("query", worker[w].task))

FinishReject(w) == FinishThen(w, Idle)

-----------------------------------------------------------------------------
Client(c) == ClientConnects(c) \/ ClientSends(c) \/ ClientLeaves(c)

Completion(c) == Read(c) \/ ReadFails(c) \/ WriteSome(c) \/ WriteEnds(c)

Work(w) == Take(w) \/ Analyze(w) \/ Query(w) \/ Send(w) \/ Reject(w) \/ FinishReject(w)

Next ==
    \/ Start \/ AcceptFails \/ RunsOut \/ RunPost \/ FinishBadRequest
    \/ \E c \in Conns : Client(c) \/ Accept(c) \/ AcceptThrows(c) \/ Completion(c)
    \/ \E w \in Workers : Work(w)

Safety == Init /\ [][Next]_vars

(* The io thread runs every handler that is ready, the kernel delivers     *)
(* what was sent and takes what is written, workers are scheduled and      *)
(* their calls of MySQL return.  Clients are free to do nothing.           *)
Fairness ==
    /\ WF_vars(Start) /\ WF_vars(RunPost) /\ WF_vars(FinishBadRequest)
    /\ \A c \in Conns :
        /\ WF_vars(Accept(c)) /\ WF_vars(Read(c)) /\ WF_vars(ReadFails(c))
        /\ WF_vars(WriteSome(c)) /\ WF_vars(WriteEnds(c))
    /\ \A w \in Workers : WF_vars(Work(w))

Spec == Safety /\ Fairness
=============================================================================
