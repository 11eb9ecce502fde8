--------------------------- MODULE RequestHandler ---------------------------
(***************************************************************************)
(* ServerManager::_read_callback (MiniServer.cpp), which a worker runs     *)
(* with the body of one request: Analyzer::parse and Parser::analyze       *)
(* (DBOperation.cpp) turn it into a ClientReq,                             *)
(* Manager::request_from_client (Manager.cpp) makes a statement of that    *)
(* and sends it to MySQL, and what comes back is answered.                 *)
(*                                                                         *)
(* The text of a ClientReq is the sequence of the parts that were appended *)
(* to it.  Of a part the model keeps its table, the columns it names and   *)
(* which text of the request it holds; of the arrays it was put together   *)
(* in, whether they were long enough.  MySQL may refuse the connection and *)
(* any statement.                                                          *)
(*                                                                         *)
(* A definition that begins with Bug is the mistake that the definition    *)
(* after it does not make (PROJECT.json, "mutants").                       *)
(***************************************************************************)
EXTENDS SqlRes, Reply

CONSTANTS
    Reasons, Funs, Pages,   \* values of reason_type, fun, pageNo and pageSize
    Lengths,                \* lengths of the texts in a request
    Results,                \* what MySQL may return for a select
    Garbage                 \* what an int that is not initialised may hold

ERR == 101
INSERTION == 1
SELECTION == 2
UPDATION == 3
DELETION == 4
Operations == {INSERTION, SELECTION, UPDATION, DELETION}

ARRAY == 256        \* new char[256]

Absent == -1        \* the member is not there
NoInt == -2         \* it is a string, and asInt() throws

(* The rows of a result are a sequence; a select names no column twice.    *)
ASSUME HandlerAssumption ==
    /\ Reasons \subseteq Int /\ Funs \subseteq Int /\ Pages \subseteq Int
    /\ Lengths \subseteq Nat
    /\ Garbage \subseteq Int
    /\ \A r \in Results :
        /\ Len(r.rows) \in Nat /\ DOMAIN r.rows = 1..Len(r.rows)
        /\ r.rows = <<>> <=> Len(r.rows) = 0
        /\ Len(r.fields) \in Nat /\ DOMAIN r.fields = 1..Len(r.fields)
        /\ \A i, j \in DOMAIN r.fields : r.fields[i] = r.fields[j] => i = j

(* The members of the object that steer analyze, and the lengths of the    *)
(* two texts, of which corpus is empty if it is not there.  The other      *)
(* members fill in the conditions, or throw as these do; so does JSON that *)
(* is no object.  An empty array or object is a member that is not there.  *)
Request ==
    [reason_type : Reasons, fun : Funs, pageNo : Pages, pageSize : Pages,
     corpus : Lengths, user_send : Lengths \cup {Absent},
     hot : BOOLEAN, warn : BOOLEAN]

ReplyTable == 5     \* after the tables of the four reason_types

(* The columns a part names, and the statement they can be put into: the   *)
(* text of a reply, a new row, the most popular rows, and the two counts.  *)
KindOf ==
    [reply |-> SELECTION, row |-> INSERTION, top |-> SELECTION,
     hot |-> UPDATION, warn |-> UPDATION]

Part ==
    [table : 1..5, cols : DOMAIN KindOf,
     text : {"user_send", "corpus", "other", "none"}]

VARIABLES
    root,       \* the request
    at,         \* where the worker is
    flag,       \* ClientReq::flag
    parts,      \* what has been appended to the strings of the ClientReq
    overrun,    \* history: a text has been copied beyond the end of an array
    connected,  \* MySql::connect has succeeded
    executed,   \* history: the statements MySQL has carried out, or yet will
    fetched,    \* history: the results MySQL has returned
    res,        \* the result that request_from_client returns
    sent        \* the buffers of the reply

analyzeVars == <<root, flag, parts, overrun>>
mysqlVars == <<connected, executed, fetched, res>>
vars == <<at, analyzeVars, mysqlVars, sent>>

Init ==
    /\ root \in Request
    /\ at = "parse"
    /\ flag \in Garbage         \* ClientReq cli;
    /\ parts = <<>>
    /\ overrun = FALSE
    /\ connected = FALSE
    /\ executed = <<>>
    /\ fetched = <<>>
    /\ res = NoRes
    /\ sent = <<>>

-----------------------------------------------------------------------------
(* Analyzer::parse and Parser::analyze                                     *)

(* A body that is no JSON is refused.                                      *)
Parse ==
    /\ at = "parse"
    /\ at' \in {"fields", "reject"}
    /\ UNCHANGED <<analyzeVars, mysqlVars, sent>>

Ints == {root.reason_type, root.fun, root.pageNo, root.pageSize}

(* A member that is missing, or is 101, marks the request as an error ...  *)
ReadFields ==
    /\ at = "fields"
    /\ NoInt \notin Ints
    /\ flag' = IF Ints \cap {Absent, ERR} # {} THEN ERR ELSE flag
    /\ at' = IF root.user_send = Absent THEN "dispatch" ELSE "user_send"
    /\ UNCHANGED <<root, parts, overrun, mysqlVars, sent>>

(* asInt() throws out of the task; nobody answers.                         *)
FieldThrows ==
    /\ at = "fields"
    /\ NoInt \in Ints
    /\ at' = "threw"
    /\ UNCHANGED <<analyzeVars, mysqlVars, sent>>

BugFits(n) == n < ARRAY - 1

(* n characters and the zero behind them.  Each text is copied to one      *)
(* array and from there, with what is printed around it, to a second.      *)
Fits(n) == n < ARRAY

(* What is written beyond the array may end the process or do nothing yet. *)
AppendPart(table, cols, text, n, next) ==
    /\ parts' = Append(parts, [table |-> table, cols |-> cols, text |-> text])
    /\ overrun' = (overrun \/ ~Fits(n))
    /\ at' \in {next} \cup IF Fits(n) THEN {} ELSE {"crashed"}

(* corpus is c_str() of a temporary that is destroyed on the same line:    *)
(* what is found there later may be the text or anything else.             *)
CorpusLengths(text) == IF text = "corpus" THEN {root.corpus} ELSE {0, ARRAY}

AppendCorpus(table, cols, around, next) ==
    \E text \in {"corpus", "other"} : \E n \in CorpusLengths(text) :
        AppendPart(table, cols, text, n + around, next)

(* An int is printed as one to eleven characters.                          *)
Printed(ints) == ints..(11 * ints)

(* _do_Reply: "usersend like '%", the text, "%' limit " and two ints with  *)
(* a comma.  It leaves the flag alone.                                     *)
UserSend ==
    /\ at = "user_send"
    /\ \E digits \in Printed(2) :
        AppendPart(ReplyTable, "reply", "user_send",
                   root.user_send + 26 + digits, "hot")
    /\ UNCHANGED <<root, flag, mysqlVars, sent>>

(* _do_HotNum, called for hot and, on line 73, for warn too: "corpus='",   *)
(* the text and "'".                                                       *)
ReplyNum(here, asked, next) ==
    /\ at = here
    /\ IF asked
       THEN AppendCorpus(ReplyTable, "hot", 9, next) /\ flag' = UPDATION
       ELSE at' = next /\ UNCHANGED <<flag, parts, overrun>>
    /\ UNCHANGED <<root, mysqlVars, sent>>

Hot == ReplyNum("hot", root.hot, "warn")
Warn == ReplyNum("warn", root.warn, "dispatch")

BugDispatching(kind) ==
    /\ at = "dispatch"
    /\ root.reason_type \in 1..4
    /\ flag' = root.fun
    /\ UNCHANGED <<root, mysqlVars, sent>>

(* ... but the operation on one of the four tables overwrites that mark.   *)
Dispatching(kind) ==
    /\ at = "dispatch"
    /\ root.reason_type \in 1..4
    /\ flag' = kind
    /\ UNCHANGED <<root, mysqlVars, sent>>

(* _do_Insert: "('", the text, "'," an int and ",0,0)".                    *)
InsertAs(kind) ==
    /\ root.fun = 0
    /\ Dispatching(kind)
    /\ \E digits \in Printed(1) :
        AppendCorpus(root.reason_type, "row", 9 + digits, "connect")

BugInsert == InsertAs(UPDATION)

Insert == InsertAs(INSERTION)

(* _do_HotCorpus has no text in it, and at most 72 characters.             *)
HotCorpus ==
    /\ root.fun = 1
    /\ Dispatching(SELECTION)
    /\ AppendPart(root.reason_type, "top", "none", 72, "connect")

(* _do_HotNum and _do_WarnNum                                              *)
Count(fun, cols) ==
    /\ root.fun = fun
    /\ Dispatching(UPDATION)
    /\ AppendCorpus(root.reason_type, cols, 9, "connect")

HotNum == Count(2, "hot")
WarnNum == Count(3, "warn")

OtherFun ==
    /\ root.fun \notin 0..3
    /\ Dispatching(ERR)
    /\ at' = "connect"
    /\ UNCHANGED <<parts, overrun>>

OtherReason ==
    /\ at = "dispatch"
    /\ root.reason_type \notin 1..4
    /\ at' = "connect"
    /\ UNCHANGED <<analyzeVars, mysqlVars, sent>>

Analyze ==
    \/ Parse \/ ReadFields \/ FieldThrows \/ UserSend \/ Hot \/ Warn
    \/ Insert \/ HotCorpus \/ HotNum \/ WarnNum \/ OtherFun \/ OtherReason

-----------------------------------------------------------------------------
(* Manager::request_from_client                                            *)

(* A connection that fails is logged, and the statement is tried anyway.   *)
Connect ==
    /\ at = "connect"
    /\ connected' \in BOOLEAN
    /\ at' = "query"
    /\ UNCHANGED <<analyzeVars, executed, fetched, res, sent>>

(* No statement is built for any other flag: it stays the empty string,    *)
(* which is what MySql::query finds in last_sql, and returns 0 for.        *)
QueryNothing ==
    /\ at = "query"
    /\ flag \notin Operations
    /\ at' = "close"
    /\ UNCHANGED <<analyzeVars, mysqlVars, sent>>

(* The strings of the ClientReq between the keywords of the statement.     *)
build_sql == [kind |-> flag, parts |-> parts]

(* MySQL carries out the statement; the result of a select is fetched.     *)
QueryRuns ==
    /\ at = "query"
    /\ flag \in Operations
    /\ connected
    /\ executed' = Append(executed, build_sql)
    /\ at' = IF flag = SELECTION THEN "result" ELSE "close"
    /\ UNCHANGED <<analyzeVars, connected, fetched, res, sent>>

(* MySQL refuses the statement, or the connection is lost before its       *)
(* answer has come: then it may have carried the statement out.            *)
QueryFails ==
    /\ at = "query"
    /\ flag \in Operations
    /\ executed' \in {executed} \cup
                        IF connected THEN {Append(executed, build_sql)} ELSE {}
    /\ at' = "close"
    /\ UNCHANGED <<analyzeVars, connected, fetched, res, sent>>

(* get_result                                                              *)
GetResult ==
    /\ at = "result"
    /\ \E r \in Results : fetched' = Append(fetched, r) /\ res' = prepare(r)
    /\ at' = "close"
    /\ UNCHANGED <<analyzeVars, connected, executed, sent>>

(* mysql_store_result may have no result to give (the server is gone,      *)
(* memory is short), and SqlRes::prepare uses it unchecked.                *)
GetResultCrashes ==
    /\ at = "result"
    /\ at' = "crashed"
    /\ UNCHANGED <<analyzeVars, mysqlVars, sent>>

(* ~MySql, as request_from_client returns: the result has been stored.     *)
Close ==
    /\ at = "close"
    /\ connected' = FALSE
    /\ at' = "answer"
    /\ UNCHANGED <<analyzeVars, executed, fetched, res, sent>>

Query == Connect \/ QueryNothing \/ QueryRuns \/ QueryFails
            \/ GetResult \/ GetResultCrashes \/ Close

-----------------------------------------------------------------------------
(* The rest of ServerManager::_read_callback                               *)

DecideBy(good) ==
    /\ at = "answer"
    /\ at' = IF good THEN "reply" ELSE "reject"
    /\ UNCHANGED <<analyzeVars, mysqlVars, sent>>

BugDecide == DecideBy(res.is_prepare)

Decide == DecideBy(res.is_prepare \/ flag \in {DELETION, INSERTION, UPDATION})

(* The text of the array that the rows are appended to, null if none is.   *)
Text(rows) ==
    IF rows = <<>> THEN << <<"null">> >>
    ELSE << <<"array">> >> \o [i \in DOMAIN rows |-> <<"row", rows[i]>>]

BugOkReply(content) ==      \* content.size() of what has been moved from
    [status |-> ok, headers |-> Headers(0), content |-> content]

OkReply(content) == ReplyOf(ok, content)

(* send2client.  Without a result the reply has no content.                *)
Send ==
    /\ at = "reply"
    /\ sent' = to_buffers(OkReply(
                    IF res.is_prepare THEN Text(CurRows(res, get_num_row(res)))
                    ELSE <<>>))
    /\ at' = "done"
    /\ UNCHANGED <<analyzeVars, mysqlVars>>

RejectThen(next) ==
    /\ at = "reject"
    /\ sent' = to_buffers(stock_reply(bad_request))
    /\ at' = next
    /\ UNCHANGED <<analyzeVars, mysqlVars>>

BugReject == RejectThen("connect")

(* bad_request                                                             *)
Reject == RejectThen("done")

Next == Analyze \/ Query \/ Decide \/ Send \/ Reject

Spec == Init /\ [][Next]_vars

-----------------------------------------------------------------------------
Statement == [kind : Operations, parts : Seq(Part)]

TypeOK ==
    /\ root \in Request
    /\ at \in {"parse", "fields", "user_send", "hot", "warn", "dispatch", "connect",
               "query", "result", "close", "answer", "reply", "reject", "done",
               "threw", "crashed"}
    /\ flag \in Garbage \cup Operations \cup {ERR}
    /\ parts \in Seq(Part)
    /\ overrun \in BOOLEAN
    /\ connected \in BOOLEAN
    /\ executed \in Seq(Statement)
    /\ fetched \in Seq(Results)
    /\ res = NoRes \/ (res.is_prepare /\ res.it = 1)

Answered(status) == at = "done" /\ sent[1] = StatusLine(status)

(* What the client may conclude from its answer.  After a 400 nothing has  *)
(* been changed for it, even if MySQL was lost in the middle of the        *)
(* statement, so that it may send the request again; a select answered 200 *)
(* has got its rows.  What the analyzer marks as an error is refused, and  *)
(* never reaches MySQL.  And answered or not, no request runs two          *)
(* statements (MiniServer.cpp:114-130, Manager.cpp:52-60).  A 200 for a    *)
(* change says nothing: it is given whatever MySQL has done.               *)
AnswerTells ==
    /\ Answered(bad_request) =>
          fetched = <<>> /\ \A i \in DOMAIN executed : executed[i].kind = SELECTION
    /\ Answered(ok) =>
          \/ flag \in {INSERTION, UPDATION, DELETION}
          \/ flag = SELECTION /\ Len(fetched) = 1
    /\ flag = ERR /\ at = "done" => Answered(bad_request) /\ executed = <<>>
    /\ Len(executed) <= 1

(* What a fun of 0 to 3 asks for.                                          *)
Asked == <<"row", "top", "hot", "warn">>

(* Without user_send, a request for one of the four tables runs at most    *)
(* one statement, made of one part that names that table and the columns   *)
(* fun asks for, and of the kind they belong in, whatever flag was set on  *)
(* the way (DBOperation.cpp:20-95).                                        *)
OwnStatementOnly ==
    root.user_send = Absent /\ root.reason_type \in 1..4 =>
        /\ Len(executed) <= 1
        /\ \A i \in DOMAIN executed :
            /\ Len(executed[i].parts) = 1
            /\ executed[i].parts[1].table = root.reason_type
            /\ executed[i].parts[1].cols = Asked[root.fun + 1]
            /\ executed[i].kind = KindOf[executed[i].parts[1].cols]

(* The text shows every row of the result, in order, with the column of    *)
(* each of its fields; a NULL cannot be told from an empty column, and no  *)
(* row at all is null.                                                     *)
Shows(content, result) ==
    IF result.rows = <<>> THEN content = << <<"null">> >>
    ELSE /\ Len(content) = Len(result.rows) + 1
         /\ \A n \in DOMAIN result.rows :
             /\ content[n + 1][1] = "row"
             /\ \A i \in DOMAIN result.fields :
                  content[n + 1][2][result.fields[i]] = View(result.rows[n][i])

(* The client can read the reply off the wire: by its Content-Length it    *)
(* finds the end, and what it finds is the page of the 400, nothing, or    *)
(* just the rows that MySQL has returned (MiniServer.cpp:141-159,          *)
(* MySql.cpp:77-99).                                                       *)
AnswerReadsBack ==
    at = "done" =>
        IF fetched = <<>>
        THEN ReadsAs(sent, ok, <<>>) \/ ReadsAs(sent, bad_request, Page(bad_request))
        ELSE \E n \in 1..Len(sent) :
                LET content == SubSeq(sent, n, Len(sent)) IN
                    ReadsAs(sent, ok, content) /\ Shows(content, fetched[1])

(* The conditions are put together in arrays of 256 characters with bounds *)
(* that do not shrink (DBOperation.cpp:100-116, 224-230, 319-323).  They   *)
(* hold any user_send of up to 207 characters and any corpus of up to 235, *)
(* whatever the ints, if the corpus is still there.                        *)
ArraysHold ==
    overrun =>
        \/ root.user_send > 207 \/ root.corpus > 235
        \/ \E i \in DOMAIN parts : parts[i].text = "other"

(* To the rest of the server a worker with a request is a WorkerLife.      *)
Stage ==
    CASE at \in {"parse", "fields", "user_send", "hot", "warn", "dispatch"} -> "analyze"
      [] at \in {"connect", "query", "result", "close", "answer"} -> "query"
      [] at \in {"done", "threw"} -> "idle"
      [] OTHER -> at

Life == INSTANCE WorkerLife WITH stage <- Stage

ImplementsWorkerLife == Life!Spec

(* "insert->1, select->2, update->3, delect->4" (DBOperation.h:14): once   *)
(* analyze has returned, flag is one of these or ERR.                      *)
FlagIsDocumented ==
    at \in {"connect", "query", "result", "close", "answer", "reply"} =>
        flag \in Operations \cup {ERR}

(* "the corpus, to get its number of likes and warnings" and "table name,  *)
(* corpus, corpus type" (DBOperation.cpp:35 and 192, in Chinese): what a   *)
(* statement says of a corpus, it says of the one in the request.          *)
StatementHoldsCorpus ==
    \A i \in DOMAIN executed : \A j \in DOMAIN executed[i].parts :
        executed[i].parts[j].text # "other"
=============================================================================
