------------------------ MODULE RequestHandlerProofs ------------------------
(***************************************************************************)
(* Theorems about RequestHandler, for any request, any texts and anything  *)
(* MySQL may return.                                                       *)
(***************************************************************************)
EXTENDS RequestHandler, SequenceTheorems, TLAPS

-----------------------------------------------------------------------------
(* What a client reads off the wire, for a reply of any content.           *)

(* The status line, two headers, each with its end of line, and one more.  *)
Front(status, length) ==
    <<StatusLine(status), <<"Content-Length", length>>, crlf,
      <<"Content-Type", "text/html">>, crlf, crlf>>

LEMMA Six ==
  ASSUME NEW a, NEW b, NEW c, NEW d, NEW e, NEW f
  PROVE  <<a>> \o <<b, c, d, e>> \o <<f>> = <<a, b, c, d, e, f>>
<1> DEFINE T == {a, b, c, d, e, f}
           l == <<a>> \o <<b, c, d, e>>
           r == l \o <<f>>
<1>1. /\ <<a>> \in Seq(T) /\ <<b, c, d, e>> \in Seq(T) /\ <<f>> \in Seq(T)
      /\ <<a, b, c, d, e, f>> \in Seq(T)
      /\ Len(<<a>>) = 1 /\ Len(<<b, c, d, e>>) = 4 /\ Len(<<f>>) = 1
  OBVIOUS
<1>2. /\ l \in Seq(T) /\ Len(l) = 5
      /\ \A i \in 1..5 : l[i] = IF i <= 1 THEN <<a>>[i] ELSE <<b, c, d, e>>[i - 1]
  <2> HIDE DEF T
  <2>1. /\ l \in Seq(T) /\ Len(l) = 1 + 4
        /\ \A i \in 1..(1 + 4) : l[i] = IF i <= 1 THEN <<a>>[i] ELSE <<b, c, d, e>>[i - 1]
    BY <1>1, ConcatProperties
  <2>2. QED
    BY <2>1
<1>3. /\ r \in Seq(T) /\ Len(r) = 6
      /\ \A i \in 1..6 : r[i] = IF i <= 5 THEN l[i] ELSE <<f>>[i - 5]
  <2> HIDE DEF T, l
  <2>1. l \in Seq(T) /\ <<f>> \in Seq(T) /\ Len(l) = 5 /\ Len(<<f>>) = 1
    BY <1>1, <1>2
  <2>2. /\ r \in Seq(T) /\ Len(r) = Len(l) + Len(<<f>>)
        /\ \A i \in 1..(Len(l) + Len(<<f>>)) :
              r[i] = IF i <= Len(l) THEN l[i] ELSE <<f>>[i - Len(l)]
    BY <2>1, ConcatProperties
  <2>3. QED
    BY <2>1, <2>2
<1>4. \A i \in 1..6 : r[i] = <<a, b, c, d, e, f>>[i]
  <2> HIDE DEF l, r, T
  <2>1. r[1] = a /\ r[2] = b /\ r[3] = c /\ r[4] = d /\ r[5] = e /\ r[6] = f
    BY <1>2, <1>3
  <2>2. QED
    BY <2>1
<1>5. r = <<a, b, c, d, e, f>>
  <2> HIDE DEF T, r
  <2>1. Len(<<a, b, c, d, e, f>>) = 6
    OBVIOUS
  <2>2. QED
    BY <1>1, <1>3, <1>4, <2>1, SeqEqual
<1>6. QED
  BY <1>5

(* to_buffers puts the content behind six other buffers (reply.cpp:94-109).*)
LEMMA Buffers ==
  ASSUME NEW status, NEW S, NEW content \in Seq(S)
  PROVE  to_buffers(ReplyOf(status, content)) = Front(status, Len(content)) \o content
<1> DEFINE hs == Headers(Len(content))
           h == [i \in 1..(2 * Len(hs)) |->
                    IF i % 2 = 1 THEN hs[(i + 1) \div 2] ELSE crlf]
<1>1. to_buffers(ReplyOf(status, content)) =
        <<StatusLine(status)>> \o h \o <<crlf>> \o content
  BY DEF to_buffers, ReplyOf
<1>2. Len(hs) = 2 /\ hs[1] = <<"Content-Length", Len(content)>>
      /\ hs[2] = <<"Content-Type", "text/html">>
  BY DEF Headers
<1>3. h = [i \in 1..4 |-> IF i % 2 = 1 THEN hs[(i + 1) \div 2] ELSE crlf]
  BY <1>2
<1> HIDE DEF h, hs
<1>4. /\ h[1] = hs[1] /\ h[2] = crlf /\ h[3] = hs[2] /\ h[4] = crlf
      /\ DOMAIN h = 1..4
  BY <1>3
<1>5. h = <<hs[1], crlf, hs[2], crlf>>
  BY <1>3, <1>4
<1>6. <<StatusLine(status)>> \o h \o <<crlf>> = Front(status, Len(content))
  BY <1>2, <1>5, Six DEF Front
<1>7. QED
  BY <1>1, <1>6

(* A client reads back just the status and the content of a reply whose    *)
(* Content-Length was taken from the content that is sent                  *)
(* (MiniServer.cpp:154-157 and reply.cpp:241-252).                         *)
THEOREM ReadsBack ==
  ASSUME NEW status \in {ok, bad_request}, NEW S, NEW content \in Seq(S)
  PROVE  LET wire == to_buffers(ReplyOf(status, content)) IN
         /\ wire[1] = <<"HTTP/1.0", status>>
         /\ Len(wire) = 6 + Len(content)
         /\ SubSeq(wire, 7, Len(wire)) = content
         /\ ReadsAs(wire, status, content)
<1> DEFINE wire == to_buffers(ReplyOf(status, content))
           front == Front(status, Len(content))
           T == {front[i] : i \in 1..6} \cup S
<1>1. wire = front \o content
  BY Buffers
<1>2. Len(front) = 6 /\ Len(content) \in Nat
  BY LenProperties DEF Front
<1>3. front \in Seq(T) /\ content \in Seq(T)
  <2>1. content \in Seq(T)
    BY SeqMonotonic
  <2>2. front = [i \in 1..6 |-> front[i]]
    BY DEF Front
  <2>3. \A i \in 1..6 : front[i] \in T
    OBVIOUS
  <2>4. [i \in 1..6 |-> front[i]] \in Seq(T)
    <3> HIDE DEF front, T
    <3>1. QED
      BY <2>3, IsASeq
  <2>5. QED
    BY <2>1, <2>2, <2>4
<1>4. /\ front[1] = <<"HTTP/1.0", status>>
      /\ front[2] = <<"Content-Length", Len(content)>> /\ front[2] # crlf
      /\ front[3] = crlf
      /\ front[4] # crlf
      /\ front[5] = crlf /\ front[6] = crlf
  BY DEF Front, StatusLine, Known, status_type, ok, bad_request, hello, crlf
<1> HIDE DEF front, T, wire
<1>5. /\ Len(wire) = 6 + Len(content)
      /\ \A i \in 1..6 : wire[i] = front[i]
      /\ \A i \in 1..Len(content) : wire[6 + i] = content[i]
      /\ wire \in Seq(T)
  <2>1. /\ wire \in Seq(T)
        /\ Len(wire) = Len(front) + Len(content)
        /\ \A i \in 1..(Len(front) + Len(content)) :
              wire[i] = IF i <= Len(front) THEN front[i] ELSE content[i - Len(front)]
    BY <1>1, <1>3, ConcatProperties
  <2>2. ASSUME NEW i \in 1..6 PROVE wire[i] = front[i]
    <3>1. i \in 1..(Len(front) + Len(content)) /\ i <= Len(front)
      BY <1>2
    <3>2. QED
      BY <2>1, <3>1
  <2>3. ASSUME NEW i \in 1..Len(content) PROVE wire[6 + i] = content[i]
    <3>1. /\ 6 + i \in 1..(Len(front) + Len(content)) /\ ~(6 + i <= Len(front))
          /\ 6 + i - Len(front) = i
      BY <1>2
    <3>2. QED
      BY <2>1, <3>1
  <2>4. QED
    BY <1>2, <2>1, <2>2, <2>3
<1>6. SubSeq(wire, 7, Len(wire)) = content
  <2> DEFINE s == SubSeq(wire, 7, Len(wire))
  <2>1. \A i \in 7..Len(wire) : wire[i] \in T
    BY <1>2, <1>5, ElementOfSeq
  <2>2. /\ s \in Seq(T)
        /\ Len(s) = IF 7 <= Len(wire) THEN Len(wire) - 7 + 1 ELSE 0
        /\ \A i \in 1..(Len(wire) - 7 + 1) : s[i] = wire[7 + i - 1]
    BY <1>2, <1>5, <2>1, SubSeqProperties
  <2> HIDE DEF s
  <2>3. Len(s) = Len(content)
    BY <1>2, <1>5, <2>2
  <2>4. ASSUME NEW i \in 1..Len(s) PROVE s[i] = content[i]
    <3>1. i \in 1..(Len(wire) - 7 + 1) /\ i \in 1..Len(content) /\ 7 + i - 1 = 6 + i
      BY <1>2, <1>5, <2>3
    <3>2. QED
      BY <1>5, <2>2, <3>1
  <2>5. s = content
    BY <1>3, <2>2, <2>3, <2>4, SeqEqual
  <2>6. QED
    BY <2>5 DEF s
<1>7. ReadsAs(wire, status, content)
  <2>1. 6 \in 3..Len(wire) /\ Len(wire) - 6 = Len(content)
    BY <1>2, <1>5
  <2>2. wire[5] = crlf /\ wire[6] = crlf
    BY <1>4, <1>5
  <2>3. \A i \in 3..5 : ~(wire[i - 1] = crlf /\ wire[i] = crlf)
    <3>1. wire[2] # crlf /\ wire[4] # crlf
      <4>1. wire[2] = front[2] /\ wire[4] = front[4]
        BY <1>5
      <4>2. QED
        BY <1>4, <4>1
    <3>2. \A i \in 3..5 : i = 3 \/ i = 4 \/ i = 5
      OBVIOUS
    <3>3. QED
      BY <3>1, <3>2
  <2>4. wire[1] = <<"HTTP/1.0", status>>
    BY <1>4, <1>5
  <2>5. 2 \in 2..6 /\ wire[2] = <<"Content-Length", Len(wire) - 6>>
    BY <1>4, <1>5, <2>1
  <2>6. /\ wire[6 - 1] = crlf /\ wire[6] = crlf
        /\ \A i \in 3..(6 - 1) : ~(wire[i - 1] = crlf /\ wire[i] = crlf)
        /\ SubSeq(wire, 6 + 1, Len(wire)) = content
    BY <1>6, <2>2, <2>3
  <2>7. QED
    BY <2>1, <2>4, <2>5, <2>6 DEF ReadsAs
<1>8. QED
  BY <1>4, <1>5, <1>6, <1>7 DEF wire

-----------------------------------------------------------------------------
(* The handler of a request.                                               *)

(* What appending a part of a known shape does to the request.             *)
LEMMA AppendPartType ==
  ASSUME TypeOK, NEW table \in 1..5, NEW cols \in DOMAIN KindOf,
         NEW text \in {"user_send", "corpus", "other", "none"}, NEW n,
         NEW next \in {"hot", "warn", "dispatch", "connect"},
         AppendPart(table, cols, text, n, next)
  PROVE  /\ parts' \in Seq(Part)
         /\ overrun' \in BOOLEAN
         /\ at' \in {next, "crashed"}
<1>1. [table |-> table, cols |-> cols, text |-> text] \in Part
  BY DEF Part
<1>2. parts' \in Seq(Part)
  BY <1>1, AppendProperties DEF AppendPart, TypeOK
<1>3. QED
  BY <1>2 DEF AppendPart

LEMMA AppendCorpusType ==
  ASSUME TypeOK, NEW table \in 1..5, NEW cols \in DOMAIN KindOf, NEW around,
         NEW next \in {"hot", "warn", "dispatch", "connect"},
         AppendCorpus(table, cols, around, next)
  PROVE  /\ parts' \in Seq(Part)
         /\ overrun' \in BOOLEAN
         /\ at' \in {next, "crashed"}
<1>1. PICK text \in {"corpus", "other"} :
        \E n \in CorpusLengths(text) : AppendPart(table, cols, text, n + around, next)
  BY DEF AppendCorpus
<1>2. PICK n : AppendPart(table, cols, text, n, next)
  BY <1>1
<1>3. QED
  BY <1>2, AppendPartType

(* analyze leaves a ClientReq of the declared types.                       *)
LEMMA AnalyzeType == TypeOK /\ Analyze => TypeOK'
<1> SUFFICES ASSUME TypeOK, Analyze PROVE TypeOK'
  OBVIOUS
<1> USE DEF mysqlVars, analyzeVars
<1>1. CASE Parse \/ ReadFields \/ FieldThrows \/ OtherReason
  BY <1>1 DEF Parse, ReadFields, FieldThrows, OtherReason, TypeOK
<1>2. CASE UserSend
  <2>1. PICK n : AppendPart(ReplyTable, "reply", "user_send", n, "hot")
    BY <1>2 DEF UserSend
  <2>2. parts' \in Seq(Part) /\ overrun' \in BOOLEAN /\ at' \in {"hot", "crashed"}
    BY <2>1, AppendPartType DEF ReplyTable, KindOf
  <2>3. QED
    BY <1>2, <2>2 DEF UserSend, TypeOK
<1>3. CASE Hot \/ Warn
  <2>1. PICK here \in {"hot", "warn"}, asked \in BOOLEAN, next \in {"warn", "dispatch"} :
          ReplyNum(here, asked, next)
    BY <1>3 DEF Hot, Warn, TypeOK, Request
  <2>2. CASE asked
    <3>1. parts' \in Seq(Part) /\ overrun' \in BOOLEAN /\ at' \in {next, "crashed"}
      BY <2>1, <2>2, AppendCorpusType DEF ReplyNum, ReplyTable, KindOf
    <3>2. QED
      BY <2>1, <2>2, <3>1 DEF ReplyNum, TypeOK, Operations
  <2>3. CASE ~asked
    BY <2>1, <2>3 DEF ReplyNum, TypeOK
  <2>4. QED
    BY <2>2, <2>3
<1>4. ASSUME NEW kind \in {INSERTION, SELECTION, UPDATION, ERR}, Dispatching(kind),
             parts' \in Seq(Part), overrun' \in BOOLEAN, at' \in {"connect", "crashed"}
      PROVE  TypeOK'
  BY <1>4 DEF Dispatching, TypeOK, Operations
<1>5. root.reason_type \in 1..4 => root.reason_type \in 1..5
  OBVIOUS
<1>6. CASE Insert
  <2>1. PICK around : AppendCorpus(root.reason_type, "row", around, "connect")
    BY <1>6 DEF Insert, InsertAs
  <2>2. root.reason_type \in 1..4 /\ Dispatching(INSERTION)
    BY <1>6 DEF Insert, InsertAs, Dispatching
  <2>3. QED
    BY <1>4, <1>5, <2>1, <2>2, AppendCorpusType DEF KindOf
<1>7. CASE HotCorpus
  <2>1. root.reason_type \in 1..4 /\ Dispatching(SELECTION)
    BY <1>7 DEF HotCorpus, Dispatching
  <2>2. QED
    BY <1>4, <1>5, <1>7, <2>1, AppendPartType DEF HotCorpus, KindOf
<1>8. CASE HotNum \/ WarnNum
  <2>1. PICK cols \in {"hot", "warn"} :
          AppendCorpus(root.reason_type, cols, 9, "connect")
    BY <1>8 DEF HotNum, WarnNum, Count
  <2>2. root.reason_type \in 1..4 /\ Dispatching(UPDATION)
    BY <1>8 DEF HotNum, WarnNum, Count, Dispatching
  <2>3. QED
    BY <1>4, <1>5, <2>1, <2>2, AppendCorpusType DEF KindOf
<1>9. CASE OtherFun
  BY <1>4, <1>9 DEF OtherFun, TypeOK
<1>10. QED
  BY <1>1, <1>2, <1>3, <1>6, <1>7, <1>8, <1>9 DEF Analyze

(* A statement that was sent has been carried out, or not.                 *)
LEMMA Queried ==
  ASSUME QueryRuns \/ QueryFails
  PROVE  /\ at = "query" /\ flag \in Operations
         /\ UNCHANGED <<root, flag, parts, overrun, connected, fetched, res, sent>>
         /\ executed' = executed \/ executed' = Append(executed, build_sql)
         /\ \/ at' = "close"
            \/ /\ at' = "result" /\ flag = SELECTION
               /\ executed' = Append(executed, build_sql)
<1>1. CASE QueryRuns
  BY <1>1 DEF QueryRuns, analyzeVars
<1>2. CASE QueryFails
  BY <1>2 DEF QueryFails, analyzeVars
<1>3. QED
  BY <1>1, <1>2

LEMMA NextType == TypeOK /\ [Next]_vars => TypeOK'
<1> SUFFICES ASSUME TypeOK, [Next]_vars PROVE TypeOK'
  OBVIOUS
<1> USE DEF mysqlVars, analyzeVars
<1>1. CASE Analyze
  BY <1>1, AnalyzeType
<1>2. CASE Connect \/ QueryNothing \/ GetResultCrashes \/ Close
  BY <1>2 DEF Connect, QueryNothing, GetResultCrashes, Close, TypeOK
<1>3. CASE QueryRuns \/ QueryFails
  <2>1. build_sql \in Statement
    BY <1>3, Queried DEF build_sql, Statement, TypeOK
  <2>2. executed' \in Seq(Statement)
    BY <1>3, <2>1, Queried, AppendProperties DEF TypeOK
  <2>3. QED
    BY <1>3, <2>2, Queried DEF TypeOK
<1>4. CASE GetResult
  <2>1. PICK r \in Results : fetched' = Append(fetched, r) /\ res' = prepare(r)
    BY <1>4 DEF GetResult
  <2>2. fetched' \in Seq(Results)
    BY <2>1, AppendProperties DEF TypeOK
  <2>3. res'.is_prepare /\ res'.it = 1
    BY <2>1 DEF prepare, ResOf
  <2>4. QED
    BY <1>4, <2>2, <2>3 DEF GetResult, TypeOK
<1>5. CASE Decide \/ Send \/ Reject
  BY <1>5 DEF Decide, DecideBy, Send, Reject, RejectThen, TypeOK
<1>6. CASE UNCHANGED vars
  BY <1>6 DEF vars, TypeOK
<1>7. QED
  BY <1>1, <1>2, <1>3, <1>4, <1>5, <1>6 DEF Next, Query

(* Every variable keeps its type, whatever flag a request leaves           *)
(* uninitialised and whatever MySQL returns (DBOperation.cpp:9-94).        *)
THEOREM TypeCorrect == Spec => []TypeOK
<1>1. Init => TypeOK
  <2> SUFFICES ASSUME Init PROVE TypeOK
    OBVIOUS
  <2>1. <<>> \in Seq(Part) /\ <<>> \in Seq(Statement) /\ <<>> \in Seq(Results)
    BY EmptySeq
  <2>2. QED
    BY <2>1 DEF Init, TypeOK
<1>2. QED
  BY <1>1, NextType, PTL DEF Spec

-----------------------------------------------------------------------------
(* A worker's life.                                                        *)

(* Where the steps of analyze lead.                                        *)
LEMMA AnalyzeGoes ==
  ASSUME Analyze
  PROVE  /\ at \in {"parse", "fields", "user_send", "hot", "warn", "dispatch"}
         /\ at' \in {"fields", "user_send", "hot", "warn", "dispatch", "connect",
                     "reject", "threw", "crashed"}
<1>1. CASE Parse \/ ReadFields \/ FieldThrows \/ OtherReason \/ OtherFun
  BY <1>1 DEF Parse, ReadFields, FieldThrows, OtherReason, OtherFun, Dispatching
<1>2. ASSUME NEW here, NEW asked, NEW next, ReplyNum(here, asked, next)
      PROVE  at = here /\ at' \in {next, "crashed"}
  BY <1>2 DEF ReplyNum, AppendCorpus, AppendPart
<1>3. CASE UserSend \/ Hot \/ Warn
  BY <1>2, <1>3 DEF UserSend, AppendPart, Hot, Warn
<1>4. CASE Insert \/ HotCorpus \/ HotNum \/ WarnNum
  BY <1>4 DEF Insert, InsertAs, HotCorpus, HotNum, WarnNum, Count, Dispatching,
              AppendCorpus, AppendPart
<1>5. QED
  BY <1>1, <1>3, <1>4 DEF Analyze

(* To the rest of the server the whole of _read_callback, with every       *)
(* exception, failure of MySQL and crash, is one WorkerLife: one query at  *)
(* most, one answer at most (MiniServer.cpp:109-132).                      *)
THEOREM HandlerLives == Spec => ImplementsWorkerLife
<1>1. Init => Life!Init
  BY DEF Init, Life!Init, Stage
<1>2. TypeOK /\ [Next]_vars => [Life!Next]_Stage
  <2> SUFFICES ASSUME TypeOK, [Next]_vars PROVE Life!Next \/ UNCHANGED Stage
    OBVIOUS
  <2> USE DEF Stage, Life!Next, Life!Go
  <2>1. CASE Analyze
    BY <2>1, AnalyzeGoes
  <2>2. CASE Query
    BY <2>2 DEF Query, Connect, QueryNothing, QueryRuns, QueryFails, GetResult,
                GetResultCrashes, Close
  <2>3. CASE Decide \/ Send \/ Reject
    BY <2>3 DEF Decide, DecideBy, Send, Reject, RejectThen
  <2>4. CASE UNCHANGED vars
    BY <2>4 DEF vars
  <2>5. QED
    BY <2>1, <2>2, <2>3, <2>4 DEF Next
<1>3. QED
  BY <1>1, <1>2, TypeCorrect, PTL DEF Spec, ImplementsWorkerLife, Life!Spec

-----------------------------------------------------------------------------
(* The statement that is executed.                                         *)

Direct == root.user_send = Absent /\ root.reason_type \in 1..4

(* The one part that fun asks for, and the flag that goes with it.         *)
OwnPart ==
    /\ Len(parts) = 1
    /\ root.fun \in 0..3
    /\ parts[1].table = root.reason_type
    /\ parts[1].cols = Asked[root.fun + 1]
    /\ flag = KindOf[parts[1].cols]

(* Before the dispatch nothing is appended, behind it one part or, with    *)
(* the mark of an error, none.                                             *)
OwnStatement ==
    Direct =>
        /\ at \notin {"user_send", "hot", "warn"}
        /\ at \in {"parse", "fields", "dispatch"} => parts = <<>>
        /\ at \in {"connect", "query"} =>
              flag = ERR \/ OwnPart
        /\ at \in {"parse", "fields", "dispatch", "connect", "query"} =>
              executed = <<>>
        /\ Len(executed) <= 1
        /\ \A i \in DOMAIN executed :
            /\ Len(executed[i].parts) = 1
            /\ executed[i].parts[1].table = root.reason_type
            /\ executed[i].parts[1].cols = Asked[root.fun + 1]
            /\ executed[i].kind = KindOf[executed[i].parts[1].cols]

(* What one operation leaves of a request without parts.                   *)
LEMMA AppendsOwn ==
  ASSUME TypeOK, parts = <<>>, NEW cols, NEW text, NEW n, NEW next,
         root.fun \in 0..3, cols = Asked[root.fun + 1], flag' = KindOf[cols],
         UNCHANGED root,
         AppendPart(root.reason_type, cols, text, n, next)
  PROVE  OwnPart'
<1>1. parts' = <<[table |-> root.reason_type, cols |-> cols, text |-> text]>>
  BY DEF AppendPart
<1>2. QED
  BY <1>1 DEF OwnPart

LEMMA OperationsOwn ==
  ASSUME TypeOK, parts = <<>>, Insert \/ HotCorpus \/ HotNum \/ WarnNum
  PROVE  OwnPart'
<1> USE DEF Dispatching, KindOf, Asked
<1>1. CASE Insert
  <2>1. PICK text, n : AppendPart(root.reason_type, "row", text, n, "connect")
    BY <1>1 DEF Insert, InsertAs, AppendCorpus
  <2>2. root.fun = 0 /\ flag' = INSERTION /\ UNCHANGED root
    BY <1>1 DEF Insert, InsertAs
  <2>3. QED
    BY <2>1, <2>2, AppendsOwn
<1>2. CASE HotCorpus
  <2>1. root.fun = 1 /\ flag' = SELECTION /\ UNCHANGED root
    BY <1>2 DEF HotCorpus
  <2>2. QED
    BY <1>2, <2>1, AppendsOwn DEF HotCorpus
<1>3. CASE HotNum
  <2>1. PICK text, n : AppendPart(root.reason_type, "hot", text, n, "connect")
    BY <1>3 DEF HotNum, Count, AppendCorpus
  <2>2. root.fun = 2 /\ flag' = UPDATION /\ UNCHANGED root
    BY <1>3 DEF HotNum, Count
  <2>3. QED
    BY <2>1, <2>2, AppendsOwn
<1>4. CASE WarnNum
  <2>1. PICK text, n : AppendPart(root.reason_type, "warn", text, n, "connect")
    BY <1>4 DEF WarnNum, Count, AppendCorpus
  <2>2. root.fun = 3 /\ flag' = UPDATION /\ UNCHANGED root
    BY <1>4 DEF WarnNum, Count
  <2>3. QED
    BY <2>1, <2>2, AppendsOwn
<1>5. QED
  BY <1>1, <1>2, <1>3, <1>4

LEMMA AnalyzeOwn == TypeOK /\ OwnStatement /\ Analyze => OwnStatement'
<1> SUFFICES ASSUME TypeOK, OwnStatement, Analyze, Direct' PROVE OwnStatement'
  BY DEF OwnStatement
<1> USE DEF mysqlVars, analyzeVars
<1>1. UNCHANGED root /\ UNCHANGED executed /\ Direct
  BY DEF Analyze, Parse, ReadFields, FieldThrows, OtherReason, OtherFun, UserSend, Hot,
         Warn, ReplyNum, Insert, InsertAs, HotCorpus, HotNum, WarnNum, Count,
         Dispatching, Direct
<1>2. at \in {"parse", "fields", "dispatch"} /\ parts = <<>> /\ executed = <<>>
  BY <1>1, AnalyzeGoes DEF OwnStatement
<1>3. CASE Parse \/ FieldThrows
  BY <1>1, <1>2, <1>3 DEF Parse, FieldThrows, OwnStatement
<1>4. CASE ReadFields
  BY <1>1, <1>2, <1>4 DEF ReadFields, OwnStatement, Direct
<1>5. CASE OtherFun
  BY <1>1, <1>2, <1>5 DEF OtherFun, Dispatching, OwnStatement
<1>6. CASE Insert \/ HotCorpus \/ HotNum \/ WarnNum
  <2>1. OwnPart'
    BY <1>2, <1>6, OperationsOwn
  <2>2. at' \in {"connect", "crashed"}
    BY <1>6 DEF Insert, InsertAs, HotCorpus, HotNum, WarnNum, Count, AppendCorpus,
                AppendPart
  <2>3. QED
    BY <1>1, <1>2, <2>1, <2>2 DEF OwnStatement
<1>7. ~(OtherReason \/ UserSend \/ Hot \/ Warn)
  BY <1>1, <1>2 DEF OtherReason, UserSend, Hot, Warn, ReplyNum, Direct
<1>8. QED
  BY <1>3, <1>4, <1>5, <1>6, <1>7 DEF Analyze

LEMMA NextOwn == TypeOK /\ OwnStatement /\ [Next]_vars => OwnStatement'
<1> SUFFICES ASSUME TypeOK, OwnStatement, [Next]_vars PROVE OwnStatement'
  OBVIOUS
<1> USE DEF mysqlVars, analyzeVars
<1>1. CASE Analyze
  BY <1>1, AnalyzeOwn
<1>2. CASE Connect
  BY <1>2 DEF Connect, OwnStatement, OwnPart, Direct
<1>3. CASE QueryNothing \/ GetResult \/ GetResultCrashes \/ Close
  BY <1>3 DEF QueryNothing, GetResult, GetResultCrashes, Close, OwnStatement, Direct
<1>4. CASE QueryRuns \/ QueryFails
  <2> SUFFICES ASSUME Direct' PROVE OwnStatement'
    BY DEF OwnStatement
  <2>1. Direct /\ executed = <<>> /\ OwnPart
    BY <1>4, Queried DEF Direct, OwnStatement, Operations, INSERTION, SELECTION,
                         UPDATION, DELETION, ERR
  <2>2. UNCHANGED root /\ at' \in {"result", "close"}
    BY <1>4, Queried
  <2>3. CASE executed' = <<>>
    BY <2>2, <2>3 DEF OwnStatement
  <2>4. CASE executed' = <<build_sql>>
    BY <2>1, <2>2, <2>4 DEF OwnStatement, OwnPart, build_sql
  <2>5. executed' = <<>> \/ executed' = <<build_sql>>
    BY <1>4, <2>1, Queried
  <2>6. QED
    BY <2>3, <2>4, <2>5
<1>5. CASE Decide \/ Send \/ Reject
  BY <1>5 DEF Decide, DecideBy, Send, Reject, RejectThen, OwnStatement, Direct
<1>6. CASE UNCHANGED vars
  BY <1>6 DEF vars, OwnStatement, OwnPart, Direct
<1>7. QED
  BY <1>1, <1>2, <1>3, <1>4, <1>5, <1>6 DEF Next, Query

(* A request for one of the four tables, without user_send, has at most    *)
(* the one statement carried out that fun asks for, whatever its members   *)
(* and whatever was in the uninitialised flag (DBOperation.cpp:20-95).     *)
THEOREM OneOwnStatement == Spec => []OwnStatementOnly
<1>1. Init => OwnStatement
  BY DEF Init, OwnStatement
<1>2. OwnStatement => OwnStatementOnly
  BY DEF OwnStatement, OwnStatementOnly, Direct
<1>3. QED
  BY <1>1, <1>2, NextOwn, TypeCorrect, PTL DEF Spec

-----------------------------------------------------------------------------
(* The arrays.                                                             *)

(* A text that is still there is long when it does not fit.                *)
LEMMA AppendHolds ==
  ASSUME TypeOK, ArraysHold, NEW table, NEW cols, NEW text, NEW n \in Int, NEW next,
         AppendPart(table, cols, text, n, next), UNCHANGED root,
         n >= ARRAY => \/ root.user_send > 207 \/ root.corpus > 235 \/ text = "other"
  PROVE  ArraysHold'
<1> DEFINE part == [table |-> table, cols |-> cols, text |-> text]
<1>1. parts' = Append(parts, part) /\ overrun' = (overrun \/ ~ Fits(n))
  BY DEF AppendPart
<1>2. parts \in Seq(Part)
  BY DEF TypeOK
<1>3. /\ \A i \in DOMAIN parts : i \in DOMAIN parts' /\ parts'[i] = parts[i]
      /\ Len(parts) + 1 \in DOMAIN parts' /\ parts'[Len(parts) + 1] = part
  BY <1>1, <1>2
<1>4. CASE text = "other"
  BY <1>3, <1>4 DEF ArraysHold
<1>5. CASE text # "other"
  <2>1. CASE overrun
    BY <1>3, <2>1 DEF ArraysHold
  <2>2. CASE ~overrun
    <3>1. overrun' => ~Fits(n)
      BY <1>1, <2>2
    <3>2. ~Fits(n) => n >= ARRAY
      BY DEF Fits, ARRAY
    <3>3. QED
      BY <1>5, <3>1, <3>2 DEF ArraysHold
  <2>3. QED
    BY <2>1, <2>2 DEF TypeOK
<1>6. QED
  BY <1>4, <1>5

(* A corpus that is there is at most 20 characters longer in its array.    *)
LEMMA AppendCorpusHolds ==
  ASSUME TypeOK, ArraysHold, NEW table, NEW cols, NEW around \in 0..20, NEW next,
         AppendCorpus(table, cols, around, next), UNCHANGED root
  PROVE  ArraysHold'
<1>1. PICK text \in {"corpus", "other"} :
        \E n \in CorpusLengths(text) : AppendPart(table, cols, text, n + around, next)
  BY DEF AppendCorpus
<1>2. PICK n \in CorpusLengths(text) : AppendPart(table, cols, text, n + around, next)
  BY <1>1
<1>3. n \in Nat /\ (text = "corpus" => n = root.corpus)
  BY <1>1, HandlerAssumption
     DEF CorpusLengths, ARRAY, TypeOK, Request, HandlerAssumption
<1>4. n + around \in Int /\ (n + around >= ARRAY => n > 235)
  BY <1>3 DEF ARRAY
<1>5. QED
  BY <1>1, <1>2, <1>3, <1>4, AppendHolds

LEMMA NextArrays == TypeOK /\ ArraysHold /\ [Next]_vars => ArraysHold'
<1> SUFFICES ASSUME TypeOK, ArraysHold, [Next]_vars PROVE ArraysHold'
  OBVIOUS
<1> USE DEF mysqlVars, analyzeVars
<1>1. ASSUME UNCHANGED <<root, parts, overrun>> PROVE ArraysHold'
  BY <1>1 DEF ArraysHold
<1>2. CASE \/ Parse \/ ReadFields \/ FieldThrows \/ OtherFun \/ OtherReason
           \/ Query \/ Decide \/ Send \/ Reject \/ UNCHANGED vars
  <2>1. UNCHANGED <<root, parts, overrun>>
    BY <1>2 DEF Parse, ReadFields, FieldThrows, OtherFun, Dispatching, OtherReason,
                Query, Connect, QueryNothing, QueryRuns, QueryFails, GetResult,
                GetResultCrashes, Close, Decide, DecideBy, Send, Reject, RejectThen,
                vars
  <2>2. QED
    BY <1>1, <2>1
<1>3. CASE UserSend
  <2>1. PICK digits \in Printed(2) :
          AppendPart(ReplyTable, "reply", "user_send", root.user_send + 26 + digits, "hot")
    BY <1>3 DEF UserSend
  <2>2. digits \in 2..22
    BY <2>1 DEF Printed
  <2>3. root.user_send \in Int
    <3>1. root.user_send \in Lengths \cup {Absent}
      BY DEF TypeOK, Request
    <3>2. Lengths \subseteq Nat
      BY HandlerAssumption DEF HandlerAssumption
    <3>3. \A n \in Nat : n \in Int
      OBVIOUS
    <3>4. Absent \in Int
      BY DEF Absent
    <3>5. QED
      BY <3>1, <3>2, <3>3, <3>4, Zenon
  <2>4. /\ root.user_send + 26 + digits \in Int
        /\ root.user_send + 26 + digits >= ARRAY => root.user_send > 207
    BY <2>2, <2>3 DEF ARRAY
  <2>5. QED
    BY <1>3, <2>1, <2>4, AppendHolds DEF UserSend
<1>4. ASSUME NEW here, NEW asked, NEW next, ReplyNum(here, asked, next)
      PROVE  ArraysHold'
  BY <1>1, <1>4, AppendCorpusHolds DEF ReplyNum
<1>5. CASE Hot \/ Warn
  BY <1>4, <1>5 DEF Hot, Warn
<1>6. CASE Insert
  <2>1. PICK digits \in Printed(1) :
          AppendCorpus(root.reason_type, "row", 9 + digits, "connect")
    BY <1>6 DEF Insert, InsertAs
  <2>2. 9 + digits \in 0..20
    BY <2>1 DEF Printed
  <2>3. QED
    BY <1>6, <2>1, <2>2, AppendCorpusHolds DEF Insert, InsertAs, Dispatching
<1>7. CASE HotCorpus
  BY <1>7, AppendHolds DEF HotCorpus, Dispatching, ARRAY
<1>8. CASE HotNum \/ WarnNum
  BY <1>8, AppendCorpusHolds DEF HotNum, WarnNum, Count, Dispatching
<1>9. QED
  BY <1>2, <1>3, <1>5, <1>6, <1>7, <1>8 DEF Next, Analyze

(* Whatever the ints of a request, the arrays of 256 characters hold every *)
(* user_send of up to 207 characters and every corpus of up to 235 that is *)
(* still in memory (DBOperation.cpp:100-116, 224-230, 319-323).            *)
THEOREM ShortTextsFit == Spec => []ArraysHold
<1>1. Init => ArraysHold
  BY DEF Init, ArraysHold
<1>2. QED
  BY <1>1, NextArrays, TypeCorrect, PTL DEF Spec

-----------------------------------------------------------------------------
(* The answer.                                                             *)

Changes == {INSERTION, UPDATION, DELETION}

(* Nothing has been executed, or just the statement, and nothing returned. *)
NoResult ==
    /\ res = NoRes /\ fetched = <<>>
    /\ \/ executed = <<>>
       \/ flag \in Operations /\ executed = <<build_sql>>

(* Nothing has been changed.                                               *)
Harmless ==
    \/ executed = <<>>
    \/ flag = SELECTION /\ executed = <<build_sql>>

(* A select has been executed, and what it returned is at hand.            *)
Selected(r) ==
    /\ r \in Results
    /\ flag = SELECTION /\ Len(executed) = 1
    /\ fetched = <<r>>

(* What the client is sent.                                                *)
Answer ==
    \/ NoResult /\ Harmless /\ sent = to_buffers(stock_reply(bad_request))
    \/ NoResult /\ flag \in Changes /\ sent = to_buffers(OkReply(<<>>))
    \/ \E r \in Results :
        /\ Selected(r)
        /\ sent = to_buffers(OkReply(
                    Text(CurRows(prepare(r), get_num_row(prepare(r))))))

Asking == {"parse", "fields", "user_send", "hot", "warn", "dispatch", "connect", "query"}

Answering ==
    /\ at \in Asking => executed = <<>> /\ NoResult
    /\ at = "result" => /\ flag = SELECTION /\ Len(executed) = 1
                        /\ res = NoRes /\ fetched = <<>>
    /\ at \in {"close", "answer"} =>
          NoResult \/ \E r \in Results : Selected(r) /\ res = prepare(r)
    /\ at = "reply" =>
          \/ NoResult /\ flag \in Changes
          \/ \E r \in Results : Selected(r) /\ res = prepare(r)
    /\ at = "reject" => NoResult /\ Harmless
    /\ at = "done" => Answer
    /\ Len(executed) <= 1

LEMMA Prepared ==
  ASSUME NEW r
  PROVE  prepare(r).is_prepare /\ ~NoRes.is_prepare
BY DEF prepare, ResOf, NoRes

LEMMA AnalyzeKeeps ==
  ASSUME Analyze
  PROVE  UNCHANGED <<executed, fetched, res, sent>>
BY DEF Analyze, Parse, ReadFields, FieldThrows, OtherReason, OtherFun, UserSend, Hot,
       Warn, ReplyNum, Insert, InsertAs, HotCorpus, HotNum, WarnNum, Count,
       Dispatching, mysqlVars

LEMMA NextAnswering == Answering /\ [Next]_vars => Answering'
<1> SUFFICES ASSUME Answering, [Next]_vars PROVE Answering'
  OBVIOUS
<1> USE DEF mysqlVars, analyzeVars, Asking
<1>1. CASE Analyze
  BY <1>1, AnalyzeGoes, AnalyzeKeeps DEF Answering, NoResult, Harmless
<1>2. CASE Connect
  BY <1>2 DEF Connect, Answering, NoResult
<1>3. CASE QueryNothing
  BY <1>3 DEF QueryNothing, Answering, NoResult
<1>4. CASE QueryRuns \/ QueryFails
  <2>1. executed = <<>> /\ res = NoRes /\ fetched = <<>>
    BY <1>4, Queried DEF Answering, NoResult
  <2>2. /\ res' = NoRes /\ fetched' = <<>>
        /\ UNCHANGED <<flag, parts>> /\ flag \in Operations
        /\ executed' = <<>> \/ executed' = <<build_sql>>
        /\ \/ at' = "close"
           \/ at' = "result" /\ flag = SELECTION /\ executed' = <<build_sql>>
    BY <1>4, <2>1, Queried
  <2>3. build_sql' = build_sql
    BY <2>2 DEF build_sql
  <2>4. Len(<<>>) = 0 /\ Len(<<build_sql>>) = 1
    OBVIOUS
  <2>5. Len(executed') <= 1
    <3>1. CASE executed' = <<>>
      BY <3>1
    <3>2. CASE executed' = <<build_sql>>
      BY <3>2
    <3>3. QED
      BY <2>2, <3>1, <3>2
  <2>6. NoResult'
    BY <2>2, <2>3 DEF NoResult
  <2>7. QED
    BY <2>2, <2>4, <2>5, <2>6 DEF Answering
<1>5. CASE GetResult
  <2>1. PICK r \in Results : fetched' = Append(fetched, r) /\ res' = prepare(r)
    BY <1>5 DEF GetResult
  <2>2. fetched = <<>> /\ at' = "close" /\ UNCHANGED <<flag, executed>>
        /\ flag = SELECTION /\ Len(executed) = 1
    BY <1>5 DEF GetResult, Answering
  <2>3. fetched' = <<r>>
    BY <2>1, <2>2
  <2>4. QED
    BY <2>1, <2>2, <2>3 DEF Answering, Selected
<1>6. CASE GetResultCrashes
  BY <1>6 DEF GetResultCrashes, Answering
<1>7. CASE Close
  BY <1>7 DEF Close, Answering, NoResult, Selected, build_sql
<1>8. CASE Decide
  <2>1. at = "answer" /\ UNCHANGED <<flag, parts, executed, fetched, res>>
        /\ at' = IF res.is_prepare \/ flag \in Changes THEN "reply" ELSE "reject"
    BY <1>8 DEF Decide, DecideBy, Changes
  <2>2. CASE NoResult
    <3>1. NoResult' /\ build_sql' = build_sql
      BY <2>1, <2>2 DEF NoResult, build_sql
    <3>2. flag \notin Changes => Harmless'
      BY <2>1, <2>2, <3>1 DEF NoResult, Harmless, Operations, Changes
    <3>3. at' = "reject" => flag \notin Changes
      BY <2>1
    <3>4. at' = "reply" => flag \in Changes
      BY <2>1, <2>2, Prepared DEF NoResult
    <3>5. at' \in {"reply", "reject"}
      BY <2>1
    <3>6. QED
      BY <2>1, <3>1, <3>2, <3>3, <3>4, <3>5 DEF Answering
  <2>3. ASSUME NEW r \in Results, Selected(r), res = prepare(r) PROVE Answering'
    BY <2>1, <2>3, Prepared DEF Answering, Selected
  <2>4. QED
    BY <2>1, <2>2, <2>3 DEF Answering
<1>9. CASE Send
  <2>1. at = "reply" /\ at' = "done" /\ UNCHANGED <<flag, parts, executed, fetched, res>>
        /\ sent' = to_buffers(OkReply(
                    IF res.is_prepare THEN Text(CurRows(res, get_num_row(res)))
                    ELSE <<>>))
    BY <1>9 DEF Send
  <2>2. CASE NoResult /\ flag \in Changes
    BY <2>1, <2>2, Prepared DEF Answering, NoResult, Answer, build_sql
  <2>3. ASSUME NEW r \in Results, Selected(r), res = prepare(r) PROVE Answering'
    BY <2>1, <2>3, Prepared DEF Answering, Selected, Answer
  <2>4. QED
    BY <2>1, <2>2, <2>3 DEF Answering
<1>10. CASE Reject
  BY <1>10 DEF Reject, RejectThen, Answering, NoResult, Harmless, Answer, build_sql
<1>11. CASE UNCHANGED vars
  BY <1>11 DEF vars, Answering, NoResult, Harmless, Selected, Answer, build_sql
<1>12. QED
  BY <1>1, <1>2, <1>3, <1>4, <1>5, <1>6, <1>7, <1>8, <1>9, <1>10, <1>11 DEF Next, Query

LEMMA AlwaysAnswering == Spec => []Answering
<1>1. Init => Answering
  BY DEF Init, Answering, Asking, NoResult
<1>2. QED
  BY <1>1, NextAnswering, PTL DEF Spec

(* What the client reads of a row is what MySQL has returned for it.       *)
LEMMA Column ==
  ASSUME NEW r \in Results, NEW row, NEW i \in DOMAIN r.fields
  PROVE  RowRes(r.fields, row)[r.fields[i]] = View(row[i])
<1> DEFINE F == r.fields
           P(k) == F[k] = F[i] /\ \A j \in 1..(k - 1) : F[j] # F[i]
<1>1. /\ Len(F) \in Nat /\ DOMAIN F = 1..Len(F)
      /\ \A j, k \in DOMAIN F : F[j] = F[k] => j = k
  BY HandlerAssumption DEF HandlerAssumption
<1>2. P(i)
  <2>1. ASSUME NEW j \in 1..(i - 1) PROVE j \in DOMAIN F /\ j # i
    BY <1>1
  <2>2. QED
    BY <1>1, <2>1
<1>3. (CHOOSE k \in DOMAIN F : P(k)) = i
  BY <1>1, <1>2
<1>4. F[i] \in {F[k] : k \in DOMAIN F}
  OBVIOUS
<1>5. QED
  BY <1>3, <1>4 DEF RowRes

(* The rows that send2client takes from a result, one after the other.     *)
LEMMA Fetched ==
  ASSUME NEW r \in Results
  PROVE  LET rows == CurRows(prepare(r), get_num_row(prepare(r))) IN
         /\ Len(rows) = Len(r.rows) /\ DOMAIN rows = DOMAIN r.rows
         /\ \A n \in DOMAIN r.rows : rows[n] = RowRes(r.fields, r.rows[n])
         /\ rows = <<>> <=> r.rows = <<>>
<1> DEFINE data == [n \in DOMAIN r.rows |-> RowRes(r.fields, r.rows[n])]
           T == {data[n] : n \in DOMAIN r.rows}
           rows == SubSeq(data, 1, Len(data))
<1>1. /\ Len(r.rows) \in Nat /\ DOMAIN r.rows = 1..Len(r.rows)
      /\ r.rows = <<>> <=> Len(r.rows) = 0
  BY HandlerAssumption DEF HandlerAssumption
<1>2. data \in Seq(T)
  <2>1. data = [n \in 1..Len(r.rows) |-> data[n]]
    BY <1>1
  <2>2. \A n \in 1..Len(r.rows) : data[n] \in T
    BY <1>1
  <2>3. [n \in 1..Len(r.rows) |-> data[n]] \in Seq(T)
    <3> HIDE DEF data, T
    <3>1. QED
      BY <1>1, <2>2, IsASeq
  <2>4. QED
    BY <2>1, <2>3
<1>3. CurRows(prepare(r), get_num_row(prepare(r))) = rows
  <2>1. prepare(r).it = 1 /\ prepare(r).data = data
    BY DEF prepare, ResOf
  <2>2. Len(data) \in Nat
    BY <1>2, LenProperties
  <2>3. QED
    BY <2>1, <2>2 DEF CurRows, get_num_row
<1>4. rows = data
  BY <1>2, SubSeqFull
<1>5. Len(data) = Len(r.rows) /\ DOMAIN data = 1..Len(r.rows)
  <2>1. DOMAIN data = 1..Len(r.rows)
    BY <1>1
  <2>2. Len(data) \in Nat /\ DOMAIN data = 1..Len(data)
    BY <1>2, LenProperties
  <2>3. QED
    BY <1>1, <2>1, <2>2
<1>6. \A n \in DOMAIN r.rows : data[n] = RowRes(r.fields, r.rows[n])
  OBVIOUS
<1>7. data = <<>> <=> Len(data) = 0
  <2> HIDE DEF data, T
  <2>1. QED
    BY <1>2, EmptySeq
<1>8. QED
  BY <1>1, <1>3, <1>4, <1>5, <1>6, <1>7

(* The text of these rows, which is a sequence.                            *)
LEMMA TextOfRows ==
  ASSUME NEW r \in Results
  PROVE  LET content == Text(CurRows(prepare(r), get_num_row(prepare(r)))) IN
         /\ \E S : content \in Seq(S)
         /\ Shows(content, r)
<1> DEFINE rows == CurRows(prepare(r), get_num_row(prepare(r)))
           content == Text(rows)
<1>1. /\ Len(rows) = Len(r.rows) /\ DOMAIN rows = DOMAIN r.rows
      /\ \A n \in DOMAIN r.rows : rows[n] = RowRes(r.fields, r.rows[n])
      /\ rows = <<>> <=> r.rows = <<>>
      /\ Len(r.rows) \in Nat /\ DOMAIN r.rows = 1..Len(r.rows)
  BY Fetched, HandlerAssumption DEF HandlerAssumption
<1> HIDE DEF rows
<1>2. CASE rows = <<>>
  <2>1. content = << <<"null">> >>
    BY <1>2 DEF Text
  <2>2. content \in Seq({<<"null">>})
    BY <2>1
  <2>3. QED
    BY <1>1, <1>2, <2>1, <2>2 DEF Shows, rows
<1>3. CASE rows # <<>>
  <2> DEFINE tail == [i \in 1..Len(r.rows) |-> <<"row", rows[i]>>]
             head == << <<"array">> >>
             S == {<<"array">>} \cup {tail[i] : i \in 1..Len(r.rows)}
  <2>1. content = head \o tail
    BY <1>1, <1>3 DEF Text
  <2>2. tail \in Seq(S) /\ Len(tail) = Len(r.rows)
    <3>1. \A i \in 1..Len(r.rows) : tail[i] \in S
      OBVIOUS
    <3>2. tail = [i \in 1..Len(r.rows) |-> tail[i]]
      OBVIOUS
    <3>3. [i \in 1..Len(r.rows) |-> tail[i]] \in Seq(S)
      <4> HIDE DEF tail, S
      <4>1. QED
        BY <1>1, <3>1, IsASeq
    <3>4. tail \in Seq(S)
      BY <3>2, <3>3
    <3>5. DOMAIN tail = 1..Len(r.rows)
      OBVIOUS
    <3>6. QED
      <4> HIDE DEF tail, S
      <4>1. Len(tail) \in Nat /\ DOMAIN tail = 1..Len(tail)
        BY <3>4, LenProperties
      <4>2. QED
        BY <1>1, <3>4, <3>5, <4>1
  <2>3. head \in Seq(S) /\ Len(head) = 1
    OBVIOUS
  <2>4. /\ content \in Seq(S)
        /\ Len(content) = Len(r.rows) + 1
        /\ \A n \in 1..Len(r.rows) : content[n + 1] = tail[n]
    <3> HIDE DEF S, head, tail, content
    <3>1. /\ content \in Seq(S) /\ Len(content) = Len(head) + Len(tail)
          /\ \A i \in 1..(Len(head) + Len(tail)) :
                content[i] = IF i <= Len(head) THEN head[i] ELSE tail[i - Len(head)]
      BY <2>1, <2>2, <2>3, ConcatProperties
    <3>2. ASSUME NEW n \in 1..Len(r.rows) PROVE content[n + 1] = tail[n]
      <4>1. /\ n + 1 \in 1..(Len(head) + Len(tail)) /\ ~(n + 1 <= Len(head))
            /\ n + 1 - Len(head) = n
        BY <1>1, <2>2, <2>3
      <4>2. QED
        BY <3>1, <4>1
    <3>3. QED
      BY <1>1, <2>2, <2>3, <3>1, <3>2
  <2>5. ASSUME NEW n \in DOMAIN r.rows
        PROVE  content[n + 1] = <<"row", RowRes(r.fields, r.rows[n])>>
    <3> HIDE DEF content
    <3>1. QED
      BY <1>1, <2>4
  <2>6. ASSUME NEW n \in DOMAIN r.rows
        PROVE  /\ content[n + 1][1] = "row"
               /\ \A i \in DOMAIN r.fields :
                    content[n + 1][2][r.fields[i]] = View(r.rows[n][i])
    <3> HIDE DEF content
    <3>1. QED
      BY <2>5, Column
  <2>7. Shows(content, r)
    <3> HIDE DEF content
    <3>1. QED
      BY <1>1, <1>3, <2>4, <2>6 DEF Shows
  <2>8. QED
    BY <2>4, <2>7 DEF rows
<1>4. QED
  BY <1>2, <1>3

(* The three answers as the client reads them.                             *)
LEMMA Refused ==
  ASSUME sent = to_buffers(stock_reply(bad_request))
  PROVE  sent[1] = <<"HTTP/1.0", bad_request>>
         /\ ReadsAs(sent, bad_request, Page(bad_request))
<1>1. Page(bad_request) = << <<"page", Known(bad_request)>> >>
  BY DEF Page, ok, bad_request
<1>2. Page(bad_request) \in Seq({<<"page", Known(bad_request)>>})
  BY <1>1
<1>3. QED
  BY <1>2, ReadsBack DEF stock_reply

LEMMA Granted ==
  ASSUME NEW S, NEW content \in Seq(S), sent = to_buffers(OkReply(content))
  PROVE  /\ sent[1] = <<"HTTP/1.0", ok>> /\ ReadsAs(sent, ok, content)
         /\ 7 \in 1..(Len(sent) + 1) /\ SubSeq(sent, 7, Len(sent)) = content
         /\ Len(sent) = 6 + Len(content) /\ Len(content) \in Nat
BY ReadsBack, LenProperties DEF OkReply

LEMMA Lines ==
  /\ StatusLine(ok) = <<"HTTP/1.0", ok>>
  /\ StatusLine(bad_request) = <<"HTTP/1.0", bad_request>>
  /\ StatusLine(ok) # StatusLine(bad_request)
BY DEF StatusLine, Known, status_type, ok, bad_request, hello

(* Which of the three it is, from the first line.                          *)
LEMMA Told ==
  ASSUME Answer
  PROVE  \/ sent[1] = StatusLine(bad_request) /\ NoResult /\ Harmless
         \/ sent[1] = StatusLine(ok) /\ NoResult /\ flag \in Changes
         \/ sent[1] = StatusLine(ok) /\ flag = SELECTION /\ Len(fetched) = 1
<1>1. CASE NoResult /\ Harmless /\ sent = to_buffers(stock_reply(bad_request))
  BY <1>1, Refused, Lines
<1>2. CASE NoResult /\ flag \in Changes /\ sent = to_buffers(OkReply(<<>>))
  <2>1. <<>> \in Seq({})
    BY EmptySeq
  <2>2. QED
    BY <1>2, <2>1, Granted, Lines
<1>3. ASSUME NEW r \in Results, Selected(r),
             sent = to_buffers(OkReply(
                    Text(CurRows(prepare(r), get_num_row(prepare(r))))))
      PROVE  sent[1] = StatusLine(ok) /\ flag = SELECTION /\ Len(fetched) = 1
  <2>1. PICK S : Text(CurRows(prepare(r), get_num_row(prepare(r)))) \in Seq(S)
    BY TextOfRows
  <2>2. QED
    BY <1>3, <2>1, Granted, Lines DEF Selected
<1>4. QED
  BY <1>1, <1>2, <1>3 DEF Answer

(* Whatever MySQL refuses or loses, and whatever is in flag: at most one   *)
(* statement is executed; who is answered 400 has had nothing changed, a   *)
(* select answered 200 has its rows, and a request marked as an error is   *)
(* refused without a statement (MiniServer.cpp:114-130,                    *)
(* Manager.cpp:52-60).                                                     *)
THEOREM AnswersTell == Spec => []AnswerTells
<1>1. ASSUME Answering PROVE AnswerTells
  <2> USE DEF Changes, INSERTION, UPDATION, DELETION, SELECTION, ERR
  <2>1. Len(executed) <= 1
    BY <1>1 DEF Answering
  <2>2. CASE at # "done"
    BY <2>1, <2>2 DEF AnswerTells, Answered
  <2>3. CASE at = "done"
    <3>1. \/ sent[1] = StatusLine(bad_request) /\ NoResult /\ Harmless
          \/ sent[1] = StatusLine(ok) /\ NoResult /\ flag \in Changes
          \/ sent[1] = StatusLine(ok) /\ flag = SELECTION /\ Len(fetched) = 1
      BY <1>1, <2>3, Told DEF Answering
    <3>2. CASE sent[1] = StatusLine(bad_request) /\ NoResult /\ Harmless
      <4>1. fetched = <<>> /\ (flag = ERR => executed = <<>>)
        BY <3>2 DEF NoResult, Operations
      <4>2. \A i \in DOMAIN executed : executed[i].kind = SELECTION
        BY <3>2 DEF Harmless, build_sql
      <4>3. QED
        BY <2>1, <2>3, <3>2, <4>1, <4>2, Lines DEF AnswerTells, Answered
    <3>3. CASE sent[1] = StatusLine(ok) /\ NoResult /\ flag \in Changes
      BY <2>1, <2>3, <3>3, Lines DEF AnswerTells, Answered
    <3>4. CASE sent[1] = StatusLine(ok) /\ flag = SELECTION /\ Len(fetched) = 1
      BY <2>1, <2>3, <3>4, Lines DEF AnswerTells, Answered
    <3>5. QED
      BY <3>1, <3>2, <3>3, <3>4
  <2>4. QED
    BY <2>2, <2>3
<1>2. QED
  BY <1>1, AlwaysAnswering, PTL

(* Whatever rows MySQL returns, the client can cut the answer out of the   *)
(* stream by its Content-Length and reads just these rows in it            *)
(* (MiniServer.cpp:134-159, MySql.cpp:77-99, reply.cpp:94-109).            *)
THEOREM AnswersReadBack == Spec => []AnswerReadsBack
<1>1. ASSUME Answer PROVE AnswerReadsBack
  <2>1. CASE NoResult /\ Harmless /\ sent = to_buffers(stock_reply(bad_request))
    BY <2>1, Refused DEF AnswerReadsBack, NoResult
  <2>2. CASE NoResult /\ flag \in Changes /\ sent = to_buffers(OkReply(<<>>))
    <3>1. <<>> \in Seq({})
      BY EmptySeq
    <3>2. ReadsAs(sent, ok, <<>>)
      BY <2>2, <3>1, Granted
    <3>3. QED
      BY <2>2, <3>2 DEF AnswerReadsBack, NoResult
  <2>3. ASSUME NEW r \in Results, Selected(r),
               sent = to_buffers(OkReply(
                      Text(CurRows(prepare(r), get_num_row(prepare(r))))))
        PROVE  AnswerReadsBack
    <3> DEFINE content == Text(CurRows(prepare(r), get_num_row(prepare(r))))
    <3>1. PICK S : content \in Seq(S)
      BY TextOfRows
    <3>2. Shows(content, r)
      BY TextOfRows
    <3> HIDE DEF content
    <3>3. /\ ReadsAs(sent, ok, content) /\ SubSeq(sent, 7, Len(sent)) = content
          /\ Len(sent) = 6 + Len(content) /\ Len(content) \in Nat
      BY <2>3, <3>1, Granted DEF content
    <3>4. content # <<>>
      BY <3>2 DEF Shows
    <3>5. Len(content) # 0
      BY <3>1, <3>4, EmptySeq
    <3>6. 7 \in 1..Len(sent)
      BY <3>3, <3>5
    <3>7. fetched # <<>> /\ fetched[1] = r
      BY <2>3 DEF Selected
    <3>8. QED
      BY <3>2, <3>3, <3>6, <3>7 DEF AnswerReadsBack
  <2>4. QED
    BY <1>1, <2>1, <2>2, <2>3 DEF Answer
<1>2. Answering => AnswerReadsBack
  BY <1>1 DEF Answering, AnswerReadsBack
<1>3. QED
  BY <1>2, AlwaysAnswering, PTL
=============================================================================
