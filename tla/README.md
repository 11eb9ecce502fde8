# A TLA+ verification of chatHelper

chatHelper is a small HTTP server in C++ (Boost.Asio, JsonCpp, libmysqlclient). A client posts a
JSON object that asks for, adds or rates a line of conversation; the server turns it into one SQL
statement, sends that to MySQL and answers with the rows or with an empty 200, or with 400.

This directory holds TLA+ modules that model the program, TLC configurations that check small
instances of them, and theorems about the thread pool, the server, its buffer, the handling of a
request and the reply, proved with TLAPS for any number of threads, tasks, connections, requests and
rows. The source is the only reference: where a comment of the source says something else than the
code does, the model follows the code, and the difference is stated as a property that TLC violates
(see *Findings*).

## 1. The system

```
 client --TCP--> acceptor --> HttpServer --> request_parser
                 (io thread)      |  string_view into the connection's Buffer
                                  v
                             ThreadPool.enqueue(_read_callback)
                                  |
              5 worker threads:   Analyzer/Parser -> Manager -> MySql --> MySQL
                                  |
                                  +-- send2client: io_service.post(async_write)   (io thread)
                                  +-- bad_request: async_write, set_context       (worker!)
```

| component | state it keeps | operations | who calls it |
|---|---|---|---|
| `main` | none | runs the io_service, catches everything, runs it again | |
| `HttpServer` | acceptor, `start_`, three callbacks | `start`, `do_accept`, `begin_read`, `http_requestcallback`, `http_datacallback` | main, io thread |
| `TcpConnection` | socket, `Buffer`, `context_` | `async_read`, `async_write`, `set_context` | io thread and workers |
| `Buffer` | array, `read_pos`, `write_pos` | `write_n`, `commit`, `double_size`; the others have no caller | io thread; workers read it through a view |
| `request_parser` | `state_`; the `request` it fills | `parse`, `consume` | io thread, one per head |
| `ThreadPool` | queue, `stop`, mutex, condition, threads | constructor, `enqueue`, destructor | io thread; destructor by nobody, as main never ends |
| `ServerManager` | none | `read_callback`, `_read_callback`, `send2client`, `bad_request` | io thread and workers |
| `Analyzer`, `Parser` | a `ClientReq` | `parse`, `analyze`, `_do_*` | worker |
| `Manager` | none | `request_from_client` | worker |
| `MySql`, `SqlRes` | a MySQL connection, `last_sql`; the rows | `connect`, `query`, `get_result` | worker, a new one per request |
| `reply` | status, headers, content | `to_buffers`, `stock_reply` | worker, io thread |
| `Log` | none | sets up Boost.Log | main |

What is hard here:

* **Shared state between the io thread and the workers.** A worker parses a body in place, in the
  Buffer that the io thread may be growing; `bad_request` is called from both kinds of thread and
  writes the connection's one `context_`; both may have an `async_write` on the same socket.
* **Lifetimes.** The buffers of an asynchronous write refer to a `reply` that somebody has to own
  until the write is complete; a connection lives as long as a handler, a task or a posted lambda
  holds it.
* **Exceptions out of handlers.** `main` catches what a handler throws and runs the io_service
  again, so whatever the rest of that handler would have done (accept the next client, read on,
  answer) is never done. What a task throws disappears in a future.
* **Framing.** The network cuts requests anywhere, several may arrive at once, and the body is
  handed over without being consumed.
* **Mutex and condition variable** of the pool, and its shutdown.

What makes each component correct:

* pool: no lost wake-up, no lost or repeated task, a shutdown that drains the queue and returns;
* framing: each body handed over is what its head announced, in order, once, and reading goes on or
  ends as intended; the parser accepts just the request heads and stops right behind them;
* answering: one answer per request, in one piece, from memory that is still there;
* service: clients are accepted, answered and released as long as no accept has failed;
* handling: what was executed for a request is that request's own statement, and the answer tells
  something definite about it.

PROJECT.json lists every component with what is left out of it, and under `hazards` every place in
the code that the properties below (or, with a note, none yet) are for.

## 2. The modules

| module | models | composed with |
|---|---|---|
| `TaskQueue` | what a pool promises: an abstract first-in first-out queue with bounded concurrency | |
| `ThreadPool` | ThreadPool.h | implements `TaskQueue` (`Pool == INSTANCE TaskQueue WITH ...`) |
| `ThreadPoolProofs` | theorems about `ThreadPool` | extends it |
| `HeadScan` | what the server needs to know of the parser | |
| `WorkerLife` | what a worker may do with one request: the interface of the two modules below | |
| `HttpServer` | MiniServer.cpp, TcpConnection.h, the used part of Buffer, main's loop | extends `HeadScan` |
| `HttpServerProperties` | the properties of `HttpServer` | extends it; its queue and workers are a `TaskQueue` (`ServerIsTaskQueue`), each worker is a `WorkerLife` (`WorkersLive`) |
| `HttpServerProofs` | theorems about where `Parse` stops, reading, the io_service and the workers | extends `HttpServerProperties` |
| `FramingProofs` | theorems about the bodies handed over | extends `HttpServerProofs` |
| `AnsweringProofs` | theorems about what becomes of a request, and that the server is a `TaskQueue` | extends `FramingProofs` |
| `PatientProofs` | theorems about a client that waits for its answers | extends `AnsweringProofs` |
| `ByteQueue` | what a buffer is for: an abstract queue of bytes | |
| `Buffer` | Buffer.hpp, Buffer.cpp: all operations | implements `ByteQueue`, when used as a queue |
| `BufferProofs` | theorems about `Buffer` | extends it |
| `RequestParser` | request_parser.cpp character by character | `HeadScan` is its abstraction |
| `RequestParserProofs` | theorems about `RequestParser` | extends it |
| `SqlRes` | SqlRes of MySql.h, MySql.cpp: the rows of a result and their cursor | |
| `Reply` | reply.hpp, reply.cpp, and a client that reads a reply | |
| `RequestHandler` | `_read_callback` for one request: DBOperation.cpp, Manager.cpp, MySql, send2client | extends `SqlRes`, `Reply`; implements `WorkerLife` |
| `RequestHandlerProofs` | theorems about `RequestHandler`, and what the client reads of any reply | extends it |
| `MC*` | values of constants for TLC | extend the modules above |

A definition whose name begins with `Bug` is not part of the model. It stands before the definition
it spoils and says what a plausible mistake at that place would be; replacing the definition by it
makes TLC report the property named in PROJECT.json, `mutants`. That shows that each property can
tell the code from its neighbours.

### ThreadPool

`wpc`, `cpc` and `dpc` are the places of each worker, each caller of `enqueue` and the destructor;
`task` and `arg` are their local variables; `tasks`, `stop` and `queue_mutex` are the members. The
condition variable has no variable of its own: who sleeps on it is at `"waiting"`. Each lock, each
evaluation of the predicate, going to sleep (which releases the mutex in the same step), waking and
each notify is an action, so every interleaving that the mutex allows is explored. `wait` may wake up
without a reason. `future[t]` says what `enqueue`'s caller can know of task t.

After the destructor has returned nobody may call `enqueue` any more (the object is gone), so
`CallEnqueue` is not enabled then. A call that is under way may find `stop` set and throw.

### HttpServer

The io thread runs one handler at a time, so a handler is one action: `Start`, `Accept`, `Read` (with
`RequestCallback`, `HeadComplete`, `DataCallback`, `HeadBad`, `HeadIncomplete` inside), `ReadFails`,
`RunPost`, `WriteSome`, `WriteEnds`. The exception is `bad_request`: between its `async_write` and its
`set_context` a worker can act, so the io thread stops at `io = <<c, r>>` and goes on with
`FinishBadRequest`. An action that ends in an exception leaves undone what comes after it:
`AcceptThrows`, `AcceptFails`, `HeadCompleteThrows`, the last case of `HeadComplete`, and the
`"throw"` case of `Analyze`.

A worker takes a task, analyses the body (`Analyze`), asks the database (`Query`) and answers (`Send`,
or `Reject` and `FinishReject`). What it finds is chosen freely, within what the bytes allow: only a
JSON object can be a request, a JSON `null` is one that is `"marked"` as an error (it goes to MySQL with
an empty statement, and comes back with nothing), and a view that has become stale can hold anything.

Reading ends where no handler asks for the next read. `Deaf(c)` names the two heads after which that is
so though nothing was rejected: one without Content-Length, and one whose Content-Length makes `stoi`
throw.

Data is abstracted. A byte is `"text"`, `"brace"`, `"junk"` or the `"end"` of a head with its
Content-Length, which may be missing, no number, or below zero: the length is an int that line 88
compares signed with what is readable, so that a body of negative length is there at once, and the
view made of it ends before it begins. A reply is a number of chunks; each `async_write` may send some
of them at once and the rest later. `mem[c]` is the set of replies whose memory is allocated.
`broken`, `views`, `rejected` and `failed` are history variables, read by no guard.

Two interfaces tie the server to the other modules. `ServerIsTaskQueue` maps the queue, the busy
workers and the bodies that are done to `TaskQueue`, the module that `ThreadPool` implements: what
the server takes for granted of its pool is what the pool promises. A body is known there by its
number on its connection (`Key`). `WorkersLive` says that each worker goes through the stages of a
`WorkerLife`, which `RequestHandler` implements: the few steps that `HttpServer` has for a request
allow whatever the handler does.

### Buffer

`HttpServer` needs little of the Buffer; the class is modelled whole in a module of its own, one action
per operation, in any order, with the array, both positions and `move_front` where the code calls it.
`QueueCall` has the operations that put bytes in at one end or take them out at the other; `asQueue`
tells whether only these have been called, and the refinement mapping to `ByteQueue` is what can be
read (`content`) while that is so. `write_n` may be told any number of bytes, and cuts it down to the
room there is. A system call that fails adds -1 to a position, and so do `write_n` and `commit` when they
are given a number below zero (`CallFails`, `failed`); some
orders of calls move the positions out of the array. What the code does next is then undefined, so no
action is enabled outside `Defined`; that the positions get there is what the state shows.

### RequestParser and HeadScan

`RequestParser` keeps the parser's states and the headers. Its transitions are written as five
relations, one per part of a head. Its reference is not another automaton: `IsHead` says line by line
what a request head is. `HeadScan` keeps of it what `HttpServer` depends on: a parser that has
consumed nothing rejects a brace, the blank line ends a head, and `Parse` stops behind it.

### RequestHandler, SqlRes and Reply

One request, from the members of the JSON object to the answer, with everything that can fail on the
way. `flag` starts as `Garbage`, since `ClientReq cli;` leaves it uninitialised. Each operation of the
analyzer is an action: it sets the flag and appends a part to the strings of the `ClientReq`. Of a part
the model keeps the table, the columns and which text of the request it holds; of the text only its
length. `Fits` says whether the arrays of 256 characters, in which a condition is put together, were
long enough for the text, what is printed around it and the ints behind it; beyond the end of the array
the process may crash, or go on (`overrun`). `corpus` is a pointer into a string that has been destroyed:
the part then holds the text, or any other.

`connected`, `executed` and `fetched` are MySQL's side: it may refuse the connection and every statement,
and gives any of `Results` for a select. A query that reports failure may have been carried out all the
same, when the connection was lost before the answer came (`QueryFails`). `prepare` makes rows of it and sets the cursor; `send2client`
takes as many rows as there are. A `~MySql` closes the connection before the answer is made
(`Close`).

A reply goes out as the sequence of the buffers that `to_buffers` makes of it, each a token: the status
line, headers, ends of line, then the content. `ReadsAs` is the client: it looks for the first blank
line and takes as much behind it as Content-Length says. The size of a text is counted in tokens.

### WorkerLife

The stages `"idle"`, `"analyze"`, `"query"`, `"reply"`, `"reject"`, `"crashed"` and the ways between
them. It has no way from `"reject"` to `"query"`: the `return` on MiniServer.cpp:119 is what keeps a
request that was refused from being executed. `HttpServer` has no crash, for a crash ends the process
with everything in it.

## 3. What is checked

| run | module, cfg | what it shows | distinct states |
|---|---|---|---|
| `pool` | MCThreadPool, MCThreadPool.cfg | no lost wake-up, no lost or repeated task, shutdown drains; implements TaskQueue with its fairness; enqueue and destructor return | 38 000 |
| `pipelined` | MCHttpServer, MCHttpPipelined.cfg | framing, state of reading, accounting of requests, with a client that sends ahead; the server is a TaskQueue, its workers are WorkerLives | 1 092 000 |
| `patient` | MCHttpServer, MCHttpPatient.cfg | valid views, replies in one piece, one 200 per connection, one request in hand, with a client that waits | 91 000 |
| `server_live` | MCHttpServer, MCHttpLive.cfg | clients are accepted, heard (or the io thread is deaf to them), answered, released | 64 000 |
| `parser` | MCRequestParser, MCRequestParser.cfg | accepts just the heads, rejects at once, the headers collected are the fields | 147 000 |
| `handler` | MCRequestHandler, MCHandler.cfg | own statement only, what an answer tells and shows, MySQL failing before or after the statement; what fits into the arrays; implements WorkerLife | 1 239 000 |
| `buffer` | MCBuffer, MCBuffer.cfg | positions in order whatever is called; implements ByteQueue while used as a queue | 783 000 |
| `ok_reply`, `bad_reply`, `handler_flag`, `handler_corpus`, `buffer_append` | | violated, see *Findings* | |

**Bounds.** The pool has three workers, two callers and two tasks, so that a worker can sleep, one
run and one seek while callers compete; the theorems remove these bounds. The server has one connection
with two (pipelined) or three (patient) requests: connections share nothing but the pool, the order of
posts and the accept chain, which `server_live` covers with two connections of one request each. One of
its requests has a Content-Length that is no number, so that the io thread can turn deaf to one client
and not the other. A buffer of 5 with 1 byte in front
leaves room for 4 bytes, so requests of 1 to 5 bytes fill it exactly, overflow it and double it; the
real 4096 differs only in scale. Two chunks are the least that lets a write be incomplete; two workers
the least that lets them disturb each other. The array of
`buffer` has 4 bytes and may double once (`MaxSize`), with words of 1 to 3 bytes of two values:
it fills, doubles, and is moved over itself; a byte in front leaves room for `pre_append`. The handler's
texts have 207, 208 and 236 characters, on both sides of where a user_send and a corpus stop to fit,
and its results no row, one, and two with a NULL; `RequestHandlerProofs` removes these bounds. The parser gets 7 pieces. It may get a
whole request line, or one and the beginning of a header, as the first of them: that leaves 6 for a
second header, continuations and the end of the head, each cut at every character.

**Preconditions.** The properties of `patient`, `OneInHand` included, and `EveryRequestHeard` hold only for a client that waits
for its answer before it sends more (`Patient`) and whose requests are as long as their heads say
(`OneRequest`). HTTP allows others; for them a view can become stale (the Buffer is doubled while a
worker parses), replies can interleave, more than one 200 is possible, and a second request that has
arrived with the body of the first is parsed only when still more bytes come. The `ASSUME`s of
`MCHttpServer` have TLC evaluate `OneRequest` for the requests of `patient`, and `OneHead`, which
`ServerIsTaskQueue` supposes, for those of `pipelined`.

**Fairness.** `ThreadPool`: each thread is scheduled (weak fairness of its steps) and a thread that
waits for a mutex that is free again and again gets it (strong fairness of locking), as the system's
scheduler provides. Nothing obliges anyone to call `enqueue` or the destructor, nor a wait to wake up
by itself. `HttpServer`: the io thread runs handlers that are ready, the kernel delivers and takes
bytes, workers are scheduled and MySQL comes back (weak fairness). Clients have none: they may stop at
any time. Weak fairness of `Read(c)` says that bytes on the wire are delivered at last, even those of
a client that has left, unless the read fails.

Liveness is stated relative to the failures that the code does not recover from: `BacklogServed` holds
unless an accept has failed (`broken`), `EveryRequestAnswered` counts an exception in the task as an
end and excepts a client that has left and an io_service that has stopped. `EveryRequestHeard` begins
where `EveryRequestAnswered` cannot, before there is a body: it excepts a broken accept, a client that has
left, a rejection (which ends the conversation) and a `Deaf` connection. Its run has one request to a
connection; that reading goes on behind the first is `ReadingGoesOn`, a safety property of `pipelined`.

CHECK_DEADLOCK is off where the system may stop: when every client is done, when the pool has been
destroyed, when the head or the request has been dealt with, when a Buffer's positions have left its
array.

### Findings

* `OkReplyOutlivesWrite` (run `ok_reply`): the comment on `reply::to_buffers` (reply.hpp:43-45) asks
  that the reply remain valid until the write has completed. `send2client` posts a lambda that owns
  the reply; the lambda ends as soon as `async_write` has been called, and the completion handler holds
  only the connection. Whatever the socket did not take at once is sent from freed memory.
* `BadReplyOutlivesWrite` (run `bad_reply`): `bad_request` keeps its reply in the connection's only
  `context_`. Even a client that waits for each answer can get there: a worker has called `async_write`
  but not yet `set_context`, the client has its 400 and sends the next request, the io thread rejects
  that, sets the context, and then the worker's `set_context` frees the second reply, whose write is
  pending.
* `FlagIsDocumented` (run `handler_flag`): the comment DBOperation.h:14 gives the flag four meanings. For a
  `reason_type` that is none of the four (and not 101), `analyze` returns it uninitialised.
* `StatementHoldsCorpus` (run `handler_corpus`): the comments on DBOperation.cpp:35 and 192 say that
  `corpus` is the text whose likes and warnings are asked for, and that goes into the table. It is the
  `c_str()` of a temporary that is destroyed at the end of line 35; what is copied from it later can be
  anything, and goes into the statement.
* `AppendPutsDataIn` (run `buffer_append`): Buffer.hpp:73 says of `append` "往buffer中放入数据" (put data
  into the buffer). It inserts at the beginning of the array, which is not readable, and moves
  `write_pos` (Buffer.cpp:40): as many bytes as were appended become readable, but others. In the
  server only `readfd` calls it, which has no caller.

Other behaviour that the models have, and that no text in the repository denies: a failed accept or a
client that is gone when its accept completes ends accepting for good (MiniServer.cpp:25); a body
that is a JSON object is rejected as the head of the next request, so a connection serves one request
(`ObjectBodyIsLast`); a connection is never read again after a head without Content-Length or with one
that is no number, and the client of the second gets no answer either (`ReadingGoesOn` names both). A
change is answered 200 whether MySQL has made it or not, so that a 200 says nothing about it; what
`AnswerTells` says is the converse, that a 400 is never given to a change that was, or may have been, made.

## 4. What is proved

`ThreadPoolProofs.tla`, for any finite non-empty set of workers, any finite set of callers and any set
of tasks (`ThreadAssumption`):

* `TypeCorrect`: `Safety => []TypeOK`
* `StopSeen`: `Safety => []NobodySleepsThroughStop`
* `NoLostWakeUp`: `Safety => []NoIdleWorker`
* `RunExactlyOnce`: `Safety => []ExactlyOnce`
* `DrainedAtEnd`: `Safety => []Drained`
* `PoolImplementsTaskQueue`: `Safety => Pool!Safety`

None of the properties is inductive. The argument:

1. `IInv` is `TypeOK` with three parts. `Exclusion`: the mutex is held by exactly the thread that is
   between lock and unlock. `Seen`: what the holder has found under the mutex is still true (a worker
   about to sleep has seen an empty queue and no stop, one about to take has seen a task or stop), and
   each local variable is full just where it should be. `Shutdown`: `stop` follows the destructor, and
   nobody sleeps after `notify_all`. One lemma per kind of thread shows that its steps preserve `IInv`.
   `StopSeen` and most of `DrainedAtEnd` are consequences.
2. `NoLostWakeUp` is inductive given `IInv`: who goes to sleep has seen an empty queue; a push adds a
   task and a notifier; a notification turns a notifier into a seeker or finds nobody asleep; a take
   removes a task and a seeker. The counting uses the library's facts on finite sets.
3. `Places` (the places of tasks are apart, and every pending task has one) is inductive given
   `IInv`; `RunExactlyOnce` follows.
4. Each step maps to a step of `TaskQueue` or a stutter: a push submits, a take starts, the end of a task
   finishes, `stop = TRUE` closes. That fewer than `Size` tasks run when one is taken (`FewRunning`) is
   a count of the other workers.

`HttpServerProofs.tla`, for any connections, any finite set of workers, any requests and number of them,
sizes of the Buffer and chunks (`ServerAssumption`):

* `ServiceKeepsRunning`: `Safety => []AcceptKeepsServiceRunning`
* `ReadsAreAChain`: `Safety => []OneReader`
* `BufferNeverFull`: `Safety => []ReadHasRoom`
* `OneRejection`: `Safety => []RejectionEndsReading`
* `ReadingEndsWell`: `Safety => []ReadingGoesOn`
* `ServerWorkersLive`: `Safety => WorkersLive`

Three inductive invariants. `Service`: once the server has started, an accept is outstanding or the
chain of accepts is broken. `Reading`: the types of what reading touches, `OneReader`, that no more is
committed than has been received (`Committed`), room in the Buffer even while nobody reads (`Room`), and
that a rejection happened on an accepted connection whose chain of reads has ended (`Rejected`). The
lemmas `DataCallbackGoesOn` and `RequestCallbackGoesOn` say of the two handlers that they ask for at
most one read and reject only when they ask for none; `ChainGoesOn` draws the conclusion; `Receives`
shows that growing when full leaves room. `Hearing` is `ReadingGoesOn` with the type of `peer`, inductive
given `Reading`: `DataCallbackReads` and `RequestCallbackReads` say that the two handlers ask for a read, or
end reading in one of the named ways; `HeadEnds` finds the byte that makes a connection `Deaf`. Of the
parser these theorems need a lemma, `ParseStops`: that it consumes no more than it is given, and that a good
head ends with the byte that completes it. `ServerWorkersLive` goes through the steps of a worker.

`FramingProofs.tla`, under the same assumption:

* `BodiesAreHandedOver`: `Safety => []ViewsAreBodies`
* `BodiesAdvance`: `Safety => []ViewsAdvance`
* `ObjectsAreLast`: `Safety => []ObjectBodyIsLast`

That a view is the body its head announced cannot be seen from the views alone: it depends on what the
connection is waiting for. `Framing` adds that: as long as the rest of a body is outstanding, `read_pos`
is at the end of the head that announced it (`AtEnd`), and behind every body handed over so far
(`Before`). `MoreReceived` shows that more bytes disturb none of it, `RequestCallbackFrames` and
`DataCallbackFrames` that the two handlers keep it; the first takes from `ParseStops` that a good head
ends in its blank line. For `ObjectsAreLast`, `Objects` says where the connection is after an object has
been handed over: done with reading, or about to parse a head from the object's brace on, which the lemma
`BraceIsRefused` rules out. Both lemmas are about `HeadScan`; that the parser is as they say is
`ScansAsAssumed`, below.

`AnsweringProofs.tla`, under the same assumption:

* `TypeCorrect`: `Safety => []TypeOK`
* `RequestsAccounted`: `Safety => []EachRequestOnce`
* `ServerUsesTaskQueue`: `Safety => ServerIsTaskQueue`, when no request has two heads (`OneHead`)

`Types` has the variables that `Reading` and `Framing` leave out. `EachRequestOnce` equates the requests
handed over and heads rejected with the tasks in the queue, the requests in the hands of workers, the
replies and the exceptions; it is inductive given the types. `InSeqAppend` and `InSeqTail` count what a
queue holds of one connection, `UnansweredBecomes` what workers hold; `ReadAccount` and `WorkAccount` go
through the handlers and the steps of a worker. The count of workers is what needs a finite set of them.

The refinement of `TaskQueue` names a body by its number on its connection. `Using` says what the mapping
needs: every task is for a body that was handed over (`TasksAreViews`), no two tasks are for the same one
(`Apart`), and no more bodies are handed over than requests were sent (`HeadsCounted`, a count of the
heads among the bytes sent), so that `1..MaxRequests` has a name for each. `OneHead` restricts no client:
bytes that hold two heads are two requests, sent one after the other. With `Using`, a name stays what it
is while the bodies grow (`KeyStays`) and different tasks have different names (`KeysDiffer`); then a read
that hands over submits (`HandsSubmits`), a take starts (`TakeStarts`), the end of a task finishes
(`ContinueFinishes`), and nothing else changes what `TaskQueue` sees (`StepsImplement`). With
`PoolImplementsTaskQueue` both sides of the pool's interface are proved.

`PatientProofs.tla`, for a client that waits (`Patient`) and requests that are as long as their heads
say (`OneRequest`), otherwise under the same assumption:

* `OneRequestInHand`: `Safety => []OneInHand`
* `RepliesInOnePiece`: `Safety => []RepliesNotInterleaved`
* `ViewsValid`: `Safety => []ViewsStayValid`
* `OneOkAtMost`: `Safety => []AtMostOneOk`

These say that the code's lack of locks does no harm to such a client, and each needs to know where the
one request is that it is waiting for. `Once`: of what was sent, at most one request is left to be parsed,
and it is at the end of what was sent; the server has met (handed over or rejected) at most as many as
were sent. This is about the bytes that are on the wire and in the Buffer together, so that it does not
depend on how the network cuts them. `Sending`: each reply is posted, being written, or has left as far as
its write says. `Waiting`: the client has all its replies but one. With `RequestsAccounted` follows
`OneOpen`: at most one request is in the server, or one reply is on its way, but not both; `OneInHand` is
half of it. For `RepliesNotInterleaved`, `Moves` sums up what any step can do to the replies of a
connection; when chunks of one leave, all others have left in full (`Alone`). For `ViewsStayValid`,
nothing of a connection is in the server when it is read (`ReadAlone`), so no array is replaced under a
task (`SizesHold`). For `AtMostOneOk`, a 200 is only given to an object (`QueriesObjects`, which uses
`ViewsStayValid`: a stale view could hold anything), and `ObjectsAreLast` says that no body follows that one
(`OkEndsIt`).

`RequestHandlerProofs.tla`, for any members of a request, lengths of its texts, contents of the
uninitialised flag and results of MySQL whose fields have different names (`HandlerAssumption`):

* `TypeCorrect`: `Spec => []TypeOK`
* `HandlerLives`: `Spec => ImplementsWorkerLife`
* `OneOwnStatement`: `Spec => []OwnStatementOnly`
* `ShortTextsFit`: `Spec => []ArraysHold`
* `AnswersTell`: `Spec => []AnswerTells`
* `AnswersReadBack`: `Spec => []AnswerReadsBack`

`HandlerLives` maps each step to a step of `WorkerLife` or a stutter. `OwnStatement` strengthens
`OwnStatementOnly` with what the strings of the `ClientReq` hold before they are executed. `ArraysHold`
is inductive, each append being an `AppendHolds`. The other two follow from `Answering`, which says at
each place what has been executed and fetched and what `res` therefore holds, for a query that failed
whatever MySQL made of it (`Queried`): `NoResult`, nothing was fetched, and at most one statement was
executed; `Harmless`, it was a select if there was one, which holds wherever a 400 can follow. `Told` and
`Fetched`/`TextOfRows` read off it what the client is told and shown, with the help of

* `ReadsBack`: a client reads back just the status and the content of a reply, for any content.

`BufferProofs.tla`, for any byte values, strings, sizes of the array and bound of it:

* `BufferImplementsByteQueue`: `Spec => ImplementsByteQueue`
* `PositionsStayInOrder`: `Spec => []PositionsInOrder`

`Positions` (both positions are in the array, behind `PRERESERVE`) is inductive for the operations of a
queue. `MoveFrontKeeps` shows that moving the data changes neither `Positions` nor what can be read, from
lemmas on copying and cutting sequences; `TakesOut` that advancing `read_pos` drops a prefix; `Writes`
that `write_n` puts the string behind. With all operations the positions may leave the array, and only
their order is left, until a number below zero is added to one (`OrderedUnlessFailed`): `QueueCallOrders`,
`WriteNOrders` and `OtherCallOrders` go through the operations.

`RequestParserProofs.tla`, for a client that sends any characters, and a network that cuts them into any
pieces (`PiecesOfText`; `MCRequestParser`'s pieces are such pieces):

* `Typed`: `Spec => []TypeOK`
* `AcceptsJustHeads`: `Spec => []GoodIsHead`
* `RejectsAtFirst`: `Spec => []RejectsAtOnce`
* `CollectsFields`: `Spec => []HeadersAreFields`
* `ScansAsAssumed`: `Spec => []AsHeadScanSays`

The runs compare the parser with `IsHead` for inputs of limited shape; the theorems do so for all. `Inv`
says that the parser *follows* its input (`Follows`): it has consumed all of it, or stopped at the
character that decided, and `Shape` tells for each state what the characters before must look like: the
finished lines are a request line, fields and continuations, and the line being read is one of these as
far as it has come. `ShapeLeads` goes through the transitions and shows that each keeps the shape;
`FollowsPiece` repeats that over the characters of a piece (`Fed`, `FedSteps`), by an induction that is
obtained from the least element of a set of numbers (`Least`, `Induction`). `FedSteps` is why `parse`
uses `Fed`, a recursive function over the positions of the piece, for the loop of request_parser.hpp.

Then `GoodIsHead`: what ends in the last newline has the shape of a head (`DoneIsHead`); conversely, a
head contains no earlier blank line (`HeadEnds`, `LastOfHead`), so that what does not end there is not a
head (`ShapeNoHead`). And `RejectsAtOnce`: from each state one of `Endings` makes a head (`PathToEnd`,
`EveryStateEnds`), while in a head, whatever the position, the next character is one that leads on
(`HeadGoesOn`, from `FirstLineGoesOn` and `OtherLineGoesOn`), so that no ending helps after a rejection.

For `HeadersAreFields`, `Told` adds to the invariant what has been collected, told by the characters
consumed and not by the lines, which are not complete yet: a token character behind the end of a line
starts a header (`StartsAt`), the last start owns what follows it (`Own`), and each character is part of a
name (`Named`), of a value (`Said`), or of neither. `ToldOn` goes through the transitions: a character
either starts a header (`SplitNew`) or is added, or not, to the last one (`SplitOn`, `ToldInLine`).
`HeadPlaces` then shows that in a head these places are the fields and margins that the lines tell.

`AsHeadScanSays` is what the theorems about `HttpServer` take from `HeadScan`: the parser reads all it is
given unless it decides; it refuses a brace that comes first; and it accepts at the end of a blank line,
the first there is. That joins the two models of the parser.

Only model-checked:

* every liveness property, and the fairness half of the refinement of `TaskQueue` by `ThreadPool`, which
  are out of the prover's reach.

Every invariant and every other safety property that a passing run checks is also a theorem.

## 5. Plan

Modelled, checked and, as section 4 says, proved: the pool, the server, the Buffer, the parser, the
handling of a request, and their interfaces. What is left would be smaller:

1. The part of liveness that needs neither fairness nor `ENABLED`: invariants that say in which states
   `HttpServer` and `ThreadPool` are done, and that in all others somebody's guard holds.
2. The step from a `Spec` of `RequestParser` for one head to a parser that is made anew for each head on
   a connection.

### Not modelled

* `TcpConnection::async_write` of a `Buffer` (TcpConnection.h:85-108): a template that nobody
  instantiates. `get_context` has no caller.
* The version number of a request line, which nobody reads, and `request_parser::reset`, which has no
  caller: a parser is made for each head.
* `MySql::init`, `close`, `last_error_message` and the `build_insert_sql` and `build_update_sql` that take
  a map: no caller. MySQL's own side is what a client can see of it.
* `Log`, logging, the build files, the sample log.
* The characters of texts, statements and pages: texts are their lengths, or tokens. What JsonCpp accepts
  as an object and what asio does when two threads use a socket at once is outside the repository.
