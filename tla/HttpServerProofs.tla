-------------------------- MODULE HttpServerProofs --------------------------
(***************************************************************************)
(* Theorems about HttpServer, for any connections, workers, requests and   *)
(* sizes of the Buffer.                                                    *)
(*                                                                         *)
(* Service is what keeps io_service::run busy, Reading what a connection   *)
(* waits for and how much room it has.  Each is inductive.                 *)
(***************************************************************************)
EXTENDS HttpServerProperties, SequenceTheorems, FiniteSetTheorems, FunctionTheorems,
        NaturalsInduction, WellFoundedInduction, TLAPS

-----------------------------------------------------------------------------
(* What Parse returns, for any input: where it stops and why.              *)

(* A set of naturals has a least element.                                  *)
LEMMA Least ==
  ASSUME NEW S, S \subseteq Nat, S # {}
  PROVE  \E m \in S : \A k \in S : m <= k
<1>1. PICK m \in S : \A k \in S : ~ (<<k, m>> \in OpToRel(<, Nat))
  BY NatLessThanWellFounded, WFMin
<1>2. ASSUME NEW k \in S, k < m PROVE FALSE
  <2>1. <<k, m>> \in {ss \in Nat \X Nat : ss[1] < ss[2]}
    BY <1>2
  <2>2. OpToRel(<, Nat) = {ss \in Nat \X Nat : ss[1] < ss[2]}
    BY DEF OpToRel
  <2>3. QED
    BY <1>1, <2>1, <2>2
<1>3. QED
  BY <1>2

(* Where the bytes are not all accepted, parse stops at the first that is  *)
(* not (request_parser.hpp:32-37).                                         *)
LEMMA FirstRefused ==
  ASSUME NEW p, NEW s \in Seq(Byte), ~Accepts(p, s, Len(s))
  PROVE  \E j \in 1..Len(s) : Accepts(p, s, j - 1) /\ ~Accepts(p, s, j)
<1> DEFINE S == {j \in 1..Len(s) : ResultAt(p, s, j) # "indeterminate"}
<1>1. Len(s) \in Nat
  BY LenProperties
<1>2. S # {} /\ S \subseteq Nat
  BY <1>1 DEF Accepts
<1>3. PICK m \in S : \A k \in S : m <= k
  <2> HIDE DEF S
  <2>1. QED
    BY <1>2, Least
<1>4. m \in 1..Len(s) /\ ~Accepts(p, s, m)
  BY <1>1, <1>3 DEF Accepts
<1>5. Accepts(p, s, m - 1)
  BY <1>1, <1>3, <1>4 DEF Accepts
<1>6. QED
  BY <1>4, <1>5

(* parse consumes no more than it is given, and a good head ends with the  *)
(* byte that completes it.                                                 *)
LEMMA ParseStops ==
  ASSUME NEW p, NEW s \in Seq(Byte)
  PROVE  /\ Parse(p, s).result \in Result
         /\ Parse(p, s).consumed \in 0..Len(s)
         /\ Parse(p, s).result # "indeterminate" => Parse(p, s).consumed \in 1..Len(s)
         /\ Parse(p, s).result = "good" => s[Parse(p, s).consumed].class = "end"
<1>1. Len(s) \in Nat
  BY LenProperties
<1>2. CASE Accepts(p, s, Len(s))
  BY <1>1, <1>2 DEF Parse, Result
<1>3. CASE ~Accepts(p, s, Len(s))
  <2> DEFINE i == CHOOSE j \in 1..Len(s) : Accepts(p, s, j - 1) /\ ~Accepts(p, s, j)
  <2>1. i \in 1..Len(s) /\ Accepts(p, s, i - 1) /\ ~Accepts(p, s, i)
    BY <1>3, FirstRefused
  <2>2. Parse(p, s) = [result |-> ResultAt(p, s, i), consumed |-> i]
    BY <1>3 DEF Parse
  <2> HIDE DEF i
  <2>3. s[i] \in Byte
    BY <2>1, ElementOfSeq
  <2>4. ResultAt(p, s, i) # "indeterminate"
    BY <1>1, <2>1 DEF Accepts
  <2>5. /\ ResultAt(p, s, i) \in Result
        /\ ResultAt(p, s, i) = "good" => s[i].class = "end"
    BY <2>3 DEF ResultAt, Consume, Result, Byte
  <2>6. QED
    BY <1>1, <2>1, <2>2, <2>4, <2>5
<1>4. QED
  BY <1>2, <1>3

(* A brace begins no head (request_parser.cpp:22 and 292).                 *)
LEMMA BraceIsRefused ==
  ASSUME NEW s \in Seq(Byte), s # <<>>, s[1].class = "brace"
  PROVE  Parse("fresh", s).result = "bad"
<1>1. Len(s) \in Nat /\ 1 \in 1..Len(s)
  BY LenProperties, EmptySeq
<1>2. ResultAt("fresh", s, 1) = "bad"
  BY DEF ResultAt, Consume
<1>3. ~Accepts("fresh", s, Len(s))
  BY <1>1, <1>2 DEF Accepts
<1> DEFINE i == CHOOSE j \in 1..Len(s) : Accepts("fresh", s, j - 1) /\ ~Accepts("fresh", s, j)
<1>4. i \in 1..Len(s) /\ Accepts("fresh", s, i - 1)
  BY <1>3, FirstRefused
<1>5. Parse("fresh", s) = [result |-> ResultAt("fresh", s, i), consumed |-> i]
  BY <1>3 DEF Parse
<1> HIDE DEF i
<1>6. i = 1
  <2>1. CASE i # 1
    <3>1. 1 \in 1..(i - 1)
      BY <1>1, <1>4, <2>1
    <3>2. QED
      BY <1>2, <1>4, <3>1 DEF Accepts
  <2>2. QED
    BY <2>1
<1>7. QED
  BY <1>2, <1>5, <1>6

-----------------------------------------------------------------------------
(* The io_service.                                                         *)

Service ==
    /\ start_ => accepting \/ broken
    /\ service = "stopped" => broken

(* Only starting, accepting and the end of run() touch what Service is     *)
(* about.                                                                  *)
LEMMA NextService == Service /\ [Next]_vars => Service'
<1> SUFFICES ASSUME Service, [Next]_vars PROVE Service'
  OBVIOUS
<1> USE DEF Service
<1>1. CASE Start \/ AcceptFails \/ RunsOut
  BY <1>1 DEF Start, AcceptFails, RunsOut, Outstanding
<1>2. CASE \E c \in Conns : Accept(c) \/ AcceptThrows(c)
  BY <1>2 DEF Accept, AcceptThen, AcceptThrows
<1>3. CASE RunPost \/ FinishBadRequest
  BY <1>3 DEF RunPost, FinishBadRequest, serverVars
<1>4. CASE \E c \in Conns : Client(c)
  BY <1>4 DEF Client, ClientConnects, ClientSends, ClientLeaves, serverVars
<1>5. CASE \E c \in Conns : Completion(c)
  BY <1>5 DEF Completion, Read, ReadFails, FailThen, WriteSome, WriteEnds, serverVars
<1>6. CASE \E w \in Workers : Work(w)
  BY <1>6 DEF Work, Take, TakeLeaving, Analyze, Query, Send, Reject, FinishReject, FinishThen, serverVars
<1>7. CASE UNCHANGED vars
  BY <1>7 DEF vars, serverVars
<1>8. QED
  BY <1>1, <1>2, <1>3, <1>4, <1>5, <1>6, <1>7 DEF Next

(* The io_service stops only when an accept has failed: as long as the     *)
(* chain of accepts is unbroken (MiniServer.cpp:31), run() does not return *)
(* for want of work, whatever clients and workers do.                      *)
THEOREM ServiceKeepsRunning == Safety => []AcceptKeepsServiceRunning
<1>1. Init => Service
  BY DEF Init, Service
<1>2. Service => AcceptKeepsServiceRunning
  BY DEF Service, AcceptKeepsServiceRunning
<1>3. QED
  BY <1>1, <1>2, NextService, PTL DEF Safety

-----------------------------------------------------------------------------
(* Reading.                                                                *)

ReadingType ==
    /\ conn \in [Conns -> {"none", "backlog", "accepted", "dropped"}]
    /\ wire \in [Conns -> Seq(Byte)]
    /\ buf \in [Conns -> Seq(Byte)]
    /\ read_pos \in [Conns -> Nat]
    /\ size \in [Conns -> Nat]
    /\ reads \in [Conns -> Seq(ReadType)]
    /\ rejected \in [Conns -> Nat]

(* Only what has been received is committed.                               *)
Committed == \A c \in Conns : read_pos[c] <= Len(buf[c])

(* There is always room, even while nobody reads.                          *)
Room == \A c \in Conns : Writeable(c) > 0

(* A head that is rejected has been read, and ends the reading.            *)
Rejected ==
    \A c \in Conns : rejected[c] > 0 =>
        rejected[c] = 1 /\ reads[c] = <<>> /\ conn[c] = "accepted"

Reading == ReadingType /\ OneReader /\ Committed /\ Room /\ Rejected

readingVars == <<conn, wire, bufferVars, reads, rejected>>

(* Nothing is read at first.                                               *)
LEMMA InitReading == Init => Reading
<1> SUFFICES ASSUME Init PROVE Reading
  OBVIOUS
<1> USE ServerAssumption DEF ServerAssumption
<1>1. ReadingType
  BY EmptySeq DEF Init, ReadingType
<1>2. \A c \in Conns : Len(reads[c]) = 0
  BY EmptySeq DEF Init
<1>3. \A c \in Conns : Len(buf[c]) = 0 /\ size[c] = BUFFERSIZE
  BY EmptySeq DEF Init
<1>4. \A c \in Conns : read_pos[c] = 0
  BY DEF Init
<1>5. QED
  BY <1>1, <1>2, <1>3, <1>4 DEF Init, Reading, OneReader, Committed, Room, Rejected, Writeable

(* What is not touched stays as it is.                                     *)
LEMMA ReadingKept == Reading /\ UNCHANGED readingVars => Reading'
  BY DEF Reading, ReadingType, OneReader, Committed, Room, Rejected, Writeable, readingVars, bufferVars

(* Bytes are received, and the Buffer grows when they fill it              *)
(* (TcpConnection.h:75-77).                                                *)
LEMMA Receives ==
  ASSUME ReadingType, Room, NEW c \in Conns, NEW n \in 1..Len(wire[c]),
         n <= Writeable(c), Receive(c, n)
  PROVE  /\ wire' \in [Conns -> Seq(Byte)]
         /\ buf' \in [Conns -> Seq(Byte)]
         /\ size' \in [Conns -> Nat]
         /\ \A d \in Conns : Len(buf[d]) <= Len(buf'[d])
         /\ Room'
<1> USE ServerAssumption DEF ServerAssumption
<1>1. /\ wire[c] \in Seq(Byte) /\ Len(wire[c]) \in Nat
      /\ buf[c] \in Seq(Byte) /\ Len(buf[c]) \in Nat
      /\ size[c] \in Nat
  BY LenProperties DEF ReadingType
<1>2. \A i \in 1..Len(wire[c]) : wire[c][i] \in Byte
  BY <1>1, ElementOfSeq
<1>3. SubSeq(wire[c], n + 1, Len(wire[c])) \in Seq(Byte)
  BY <1>1, <1>2, SubSeqProperties
<1>4. SubSeq(wire[c], 1, n) \in Seq(Byte) /\ Len(SubSeq(wire[c], 1, n)) = n
  BY <1>1, <1>2, SubSeqProperties
<1>5. /\ buf[c] \o SubSeq(wire[c], 1, n) \in Seq(Byte)
      /\ Len(buf[c] \o SubSeq(wire[c], 1, n)) = Len(buf[c]) + n
  BY <1>1, <1>4, ConcatProperties
<1>6. /\ wire' = [wire EXCEPT ![c] = SubSeq(wire[c], n + 1, Len(wire[c]))]
      /\ buf' = [buf EXCEPT ![c] = buf[c] \o SubSeq(wire[c], 1, n)]
      /\ size' = [size EXCEPT ![c] = IF n = Writeable(c) THEN 2 * size[c] ELSE size[c]]
  BY DEF Receive, ReceiveAndGrow
<1>7. /\ wire' \in [Conns -> Seq(Byte)]
      /\ buf' \in [Conns -> Seq(Byte)]
      /\ size' \in [Conns -> Nat]
  BY <1>1, <1>3, <1>5, <1>6 DEF ReadingType
<1>8. ASSUME NEW d \in Conns
      PROVE  size'[d] - PRERESERVE - Len(buf'[d]) > 0
  <2>1. CASE d # c
    BY <1>6, <2>1 DEF ReadingType, Room, Writeable
  <2>2. CASE d = c
    <3>1. Len(buf'[c]) = Len(buf[c]) + n
      BY <1>5, <1>6 DEF ReadingType
    <3>2. size'[c] = IF n = size[c] - PRERESERVE - Len(buf[c]) THEN 2 * size[c] ELSE size[c]
      BY <1>6 DEF ReadingType, Writeable
    <3>3. n <= size[c] - PRERESERVE - Len(buf[c]) /\ n \in Nat /\ n > 0
      BY <1>1 DEF Writeable
    <3>4. CASE n = size[c] - PRERESERVE - Len(buf[c])
      <4>1. size'[c] = 2 * size[c]
        BY <3>2, <3>4
      <4>2. size[c] > 0
        BY <1>1, <3>3, <3>4
      <4>3. size'[c] - PRERESERVE - Len(buf'[c]) = size[c]
        BY <1>1, <3>1, <3>3, <3>4, <4>1
      <4>4. QED
        BY <2>2, <4>2, <4>3
    <3>5. CASE n # size[c] - PRERESERVE - Len(buf[c])
      <4>1. size'[c] = size[c]
        BY <3>2, <3>5
      <4>2. n < size[c] - PRERESERVE - Len(buf[c])
        BY <1>1, <3>3, <3>5
      <4>3. QED
        BY <1>1, <2>2, <3>1, <3>3, <4>1, <4>2
    <3>6. QED
      BY <3>4, <3>5
  <2>3. QED
    BY <2>1, <2>2
<1>9. ASSUME NEW d \in Conns PROVE Len(buf[d]) <= Len(buf'[d])
  <2>1. buf[d] \in Seq(Byte) /\ Len(buf[d]) \in Nat
    BY LenProperties DEF ReadingType
  <2>2. buf'[d] = IF d = c THEN buf[c] \o SubSeq(wire[c], 1, n) ELSE buf[d]
    BY <1>6 DEF ReadingType
  <2>3. QED
    BY <1>5, <2>1, <2>2
<1>10. QED
  BY <1>7, <1>8, <1>9 DEF Room, Writeable

(* How a handler of async_read leaves the chain of reads.                  *)
GoesOn(c, more) ==
    /\ more \in Seq(ReadType) /\ Len(more) <= 1
    /\ Reread(c, more)
    /\ \/ UNCHANGED rejected
       \/ more = <<>> /\ rejected' = [rejected EXCEPT ![c] = @ + 1]

(* http_datacallback asks for one read (MiniServer.cpp:85-101).            *)
LEMMA DataCallbackGoesOn ==
  ASSUME NEW c \in Conns, NEW STATE n, n \in Length,
         NEW STATE pos, pos \in 0..Len(buf'[c]), buf'[c] \in Seq(Byte),
         DataCallback(c, n, pos)
  PROVE  \E more : GoesOn(c, more)
<1>1. HeadRead("fresh") \in ReadType /\ (n \in Nat => DataRead(n) \in ReadType)
  BY DEF HeadRead, DataRead, ReadType, ParserState
<1>2. /\ <<HeadRead("fresh")>> \in Seq(ReadType) /\ Len(<<HeadRead("fresh")>>) = 1
      /\ n \in Nat => <<DataRead(n)>> \in Seq(ReadType) /\ Len(<<DataRead(n)>>) = 1
  BY <1>1
<1>3. /\ UNCHANGED rejected
      /\ \/ Reread(c, <<HeadRead("fresh")>>)
         \/ Reread(c, <<DataRead(n)>>) /\ n \in Nat
  <2>1. Len(buf'[c]) \in Nat
    BY LenProperties
  <2>2. n \notin Nat => n = Negative
    BY DEF Length
  <2>3. n \notin Nat => ~ (Len(buf'[c]) - pos < n)
    BY <2>1, <2>2 DEF Negative
  <2>4. QED
    BY <2>3 DEF DataCallback, BodyOrMore
<1>4. CASE Reread(c, <<HeadRead("fresh")>>)
  <2>1. GoesOn(c, <<HeadRead("fresh")>>)
    BY <1>2, <1>3, <1>4 DEF GoesOn
  <2>2. QED
    BY <2>1
<1>5. CASE Reread(c, <<DataRead(n)>>) /\ n \in Nat
  <2>1. GoesOn(c, <<DataRead(n)>>)
    BY <1>2, <1>3, <1>5 DEF GoesOn
  <2>2. QED
    BY <2>1
<1>6. QED
  BY <1>3, <1>4, <1>5

(* What is left of a sequence behind its first k elements.                 *)
LEMMA Suffix ==
  ASSUME NEW S, NEW s \in Seq(S), NEW k \in Nat, k <= Len(s)
  PROVE  /\ SubSeq(s, k + 1, Len(s)) \in Seq(S)
         /\ Len(SubSeq(s, k + 1, Len(s))) = Len(s) - k
         /\ \A i \in 1..(Len(s) - k) : SubSeq(s, k + 1, Len(s))[i] = s[k + i]
<1>1. Len(s) \in Nat /\ \A i \in 1..Len(s) : s[i] \in S
  BY LenProperties, ElementOfSeq
<1>2. \A i \in (k + 1)..Len(s) : s[i] \in S
  BY <1>1
<1>3. /\ SubSeq(s, k + 1, Len(s)) \in Seq(S)
      /\ Len(SubSeq(s, k + 1, Len(s))) =
            IF k + 1 <= Len(s) THEN Len(s) - (k + 1) + 1 ELSE 0
      /\ \A i \in 1..(Len(s) - (k + 1) + 1) :
            SubSeq(s, k + 1, Len(s))[i] = s[k + 1 + i - 1]
  BY <1>1, <1>2, SubSeqProperties
<1>4. ASSUME NEW i \in 1..(Len(s) - k)
      PROVE  SubSeq(s, k + 1, Len(s))[i] = s[k + i]
  <2>1. i \in 1..(Len(s) - (k + 1) + 1) /\ k + 1 + i - 1 = k + i
    BY <1>1
  <2>2. QED
    BY <1>3, <2>1
<1>5. QED
  BY <1>1, <1>3, <1>4

(* What a handler finds in the Buffer.                                     *)
Unread(c) == SubSeq(buf'[c], read_pos[c] + 1, Len(buf'[c]))

(* parse stays within what has been received (MiniServer.cpp:49-52).       *)
LEMMA ParseStaysInside ==
  ASSUME ReadingType, NEW c \in Conns, buf'[c] \in Seq(Byte),
         read_pos[c] <= Len(buf'[c]), NEW p
  PROVE  read_pos[c] + Parse(p, Unread(c)).consumed \in read_pos[c]..Len(buf'[c])
<1>1. read_pos[c] \in Nat /\ Len(buf'[c]) \in Nat
  BY LenProperties DEF ReadingType
<1>2. /\ Unread(c) \in Seq(Byte)
      /\ Len(Unread(c)) = Len(buf'[c]) - read_pos[c]
  BY <1>1, Suffix DEF Unread
<1>3. Parse(p, Unread(c)).consumed \in 0..Len(Unread(c))
  BY <1>2, ParseStops
<1>4. QED
  BY <1>1, <1>2, <1>3

(* http_requestcallback asks for one read or, at the end of the            *)
(* conversation and when it throws, for none (MiniServer.cpp:44-83).       *)
LEMMA RequestCallbackGoesOn ==
  ASSUME ReadingType, NEW c \in Conns, buf'[c] \in Seq(Byte),
         read_pos[c] <= Len(buf'[c]), NEW p, RequestCallback(c, p)
  PROVE  \E more : GoesOn(c, more)
<1>1. /\ <<>> \in Seq(ReadType) /\ Len(<<>>) = 0
      /\ HeadRead("begun") \in ReadType
  BY EmptySeq DEF HeadRead, ReadType, ParserState
<1>2. <<HeadRead("begun")>> \in Seq(ReadType) /\ Len(<<HeadRead("begun")>>) = 1
  BY <1>1
<1>3. CASE HeadIncomplete(c)
  <2>1. GoesOn(c, <<HeadRead("begun")>>)
    BY <1>2, <1>3 DEF HeadIncomplete, CommitHead, GoesOn
  <2>2. QED
    BY <2>1
<1>4. CASE HeadBad(c)
  <2>1. GoesOn(c, <<>>)
    BY <1>1, <1>4 DEF HeadBad, RejectHead, GoesOn
  <2>2. QED
    BY <2>1
<1>5. CASE HeadCompleteThrows(c)
  <2>1. GoesOn(c, <<>>)
    BY <1>1, <1>5 DEF HeadCompleteThrows, GoesOn
  <2>2. QED
    BY <2>1
<1>6. ASSUME NEW STATE e, e \in 0..Len(buf'[c]), HeadComplete(c, e)
      PROVE  \E more : GoesOn(c, more)
  <2>1. CASE Reread(c, <<>>) /\ UNCHANGED rejected
    <3>1. GoesOn(c, <<>>)
      BY <1>1, <2>1 DEF GoesOn
    <3>2. QED
      BY <3>1
  <2>2. CASE /\ buf'[c][e].len \in Nat \cup {Negative}
             /\ DataCallback(c, buf'[c][e].len, e)
    BY <1>6, <2>2, DataCallbackGoesOn DEF Length
  <2>3. QED
    BY <1>6, <2>1, <2>2 DEF HeadComplete
<1> DEFINE scan == Parse(p, Unread(c))
<1>7. read_pos[c] + scan.consumed \in 0..Len(buf'[c])
  <2>1. read_pos[c] \in Nat /\ Len(buf'[c]) \in Nat
    BY LenProperties DEF ReadingType
  <2>2. QED
    BY <2>1, ParseStaysInside
<1>8. CASE HeadComplete(c, read_pos[c] + scan.consumed)
  BY <1>6, <1>7, <1>8
<1>9. QED
  BY <1>3, <1>4, <1>5, <1>8 DEF RequestCallback, Unread

(* How a handler leaves read_pos.                                          *)
Commits(c) ==
    \E e \in read_pos[c]..Len(buf'[c]) : read_pos' = [read_pos EXCEPT ![c] = e]

(* A handler commits what it has parsed, or nothing, and never anything    *)
(* that has not been received (MiniServer.cpp:56 and 78).                  *)
LEMMA HandlerCommits ==
  ASSUME ReadingType, NEW c \in Conns, buf'[c] \in Seq(Byte),
         read_pos[c] <= Len(buf'[c]), NEW p, NEW n,
         RequestCallback(c, p) \/ DataCallback(c, n, read_pos[c])
  PROVE  Commits(c)
<1> DEFINE e == read_pos[c] + Parse(p, Unread(c)).consumed
<1>1. e \in read_pos[c]..Len(buf'[c])
  BY ParseStaysInside
<1>2. /\ read_pos[c] \in read_pos[c]..Len(buf'[c])
      /\ Len(buf'[c]) \in read_pos[c]..Len(buf'[c])
  BY LenProperties DEF ReadingType
<1> HIDE DEF e
<1>3. CASE read_pos' = Set(read_pos, c, e)
  BY <1>1, <1>3 DEF Set, Commits
<1>4. CASE read_pos' = Set(read_pos, c, Len(buf'[c]))
  BY <1>2, <1>4 DEF Set, Commits
<1>5. CASE read_pos' = Set(read_pos, c, read_pos[c]) \/ UNCHANGED read_pos
  <2>1. read_pos' = [read_pos EXCEPT ![c] = read_pos[c]]
    BY <1>5 DEF Set, ReadingType
  <2>2. QED
    BY <1>2, <2>1 DEF Commits
<1>6. CASE DataCallback(c, n, read_pos[c])
  BY <1>5, <1>6 DEF DataCallback, BodyOrMore
<1>7. CASE HeadComplete(c, e)
  BY <1>3, <1>7 DEF HeadComplete, DataCallback, BodyOrMore
<1>8. CASE HeadCompleteThrows(c) \/ HeadBad(c)
  BY <1>5, <1>8 DEF HeadCompleteThrows, HeadBad, RejectHead
<1>9. CASE HeadIncomplete(c)
  BY <1>4, <1>9 DEF HeadIncomplete, CommitHead
<1>10. QED
  BY <1>6, <1>7, <1>8, <1>9 DEF RequestCallback, Unread, e

(* A chain of one read goes on with at most one, and a rejection ends it.  *)
LEMMA ChainGoesOn ==
  ASSUME Reading, NEW c \in Conns, reads[c] # <<>>, NEW more, GoesOn(c, more),
         UNCHANGED conn
  PROVE  /\ reads' \in [Conns -> Seq(ReadType)]
         /\ rejected' \in [Conns -> Nat]
         /\ OneReader'
         /\ Rejected'
<1> USE DEF Reading
<1>1. reads[c] \in Seq(ReadType) /\ Len(reads[c]) <= 1 /\ Len(reads[c]) \in Nat
  BY LenProperties DEF ReadingType, OneReader
<1>2. Tail(reads[c]) = <<>>
  BY <1>1, EmptySeq, HeadTailProperties
<1>3. Tail(reads[c]) \o more = more
  BY <1>2, ConcatEmptySeq DEF GoesOn
<1>4. reads' = [reads EXCEPT ![c] = more]
  BY <1>3 DEF GoesOn, Reread
<1>5. /\ reads' \in [Conns -> Seq(ReadType)]
      /\ reads'[c] = more
      /\ \A d \in Conns : d # c => reads'[d] = reads[d]
  BY <1>4 DEF GoesOn, ReadingType
<1>6. conn[c] = "accepted" /\ conn'[c] = "accepted" /\ rejected[c] = 0
  BY DEF OneReader, Rejected, ReadingType
<1>7. /\ rejected' \in [Conns -> Nat]
      /\ rejected'[c] > 0 => rejected'[c] = 1 /\ more = <<>>
      /\ \A d \in Conns : d # c => rejected'[d] = rejected[d]
  <2>1. rejected \in [Conns -> Nat]
    BY DEF ReadingType
  <2>2. CASE UNCHANGED rejected
    BY <1>6, <2>1, <2>2
  <2>3. CASE more = <<>> /\ rejected' = [rejected EXCEPT ![c] = rejected[c] + 1]
    <3>1. rejected' = [rejected EXCEPT ![c] = 1]
      BY <1>6, <2>3
    <3>2. QED
      BY <2>1, <2>3, <3>1
  <2>4. QED
    BY <2>2, <2>3 DEF GoesOn
<1>8. OneReader'
  BY <1>5, <1>6 DEF GoesOn, OneReader
<1>9. Rejected'
  BY <1>5, <1>6, <1>7 DEF Rejected
<1>10. QED
  BY <1>5, <1>7, <1>8, <1>9

(* A read begins with the accept.                                          *)
LEMMA AcceptReading == ASSUME Reading, NEW c \in Conns, Accept(c) PROVE Reading'
<1> USE DEF Reading
<1>1. /\ conn[c] = "backlog"
      /\ conn' = [conn EXCEPT ![c] = "accepted"]
      /\ reads' = [reads EXCEPT ![c] = Append(@, HeadRead("fresh"))]
      /\ UNCHANGED <<wire, buf, read_pos, size, rejected>>
  BY DEF Accept, AcceptThen, Set, Push, bufferVars, workVars, historyVars
<1>2. reads[c] = <<>> /\ rejected[c] = 0
  BY <1>1 DEF OneReader, Rejected, ReadingType
<1>3. HeadRead("fresh") \in ReadType
  BY DEF HeadRead, ReadType, ParserState
<1>4. /\ Append(reads[c], HeadRead("fresh")) \in Seq(ReadType)
      /\ Len(Append(reads[c], HeadRead("fresh"))) = 1
  BY <1>2, <1>3, EmptySeq, AppendProperties
<1>5. ReadingType'
  BY <1>1, <1>4 DEF ReadingType
<1>6. OneReader'
  BY <1>1, <1>4 DEF OneReader, ReadingType
<1>7. Room'
  BY <1>1 DEF Room, Writeable
<1>8. Rejected'
  BY <1>1, <1>2 DEF Rejected, ReadingType
<1>9. Committed'
  BY <1>1 DEF Committed
<1>10. QED
  BY <1>5, <1>6, <1>7, <1>8, <1>9

(* What is read has a handler, which the connection's chain goes on from.  *)
LEMMA ReadReading == ASSUME Reading, NEW c \in Conns, Read(c) PROVE Reading'
<1> USE DEF Reading
<1>1. reads[c] # <<>> /\ UNCHANGED conn
  BY DEF Read, clientVars
<1>2. /\ wire' \in [Conns -> Seq(Byte)]
      /\ buf' \in [Conns -> Seq(Byte)]
      /\ size' \in [Conns -> Nat]
      /\ \A d \in Conns : Len(buf[d]) <= Len(buf'[d])
      /\ Room'
  <2>1. PICK n \in 1..Len(wire[c]) : n <= Writeable(c) /\ Receive(c, n)
    BY DEF Read
  <2>2. QED
    BY <2>1, Receives
<1>3. Head(reads[c]) \in ReadType
  <2>1. reads[c] \in Seq(ReadType)
    BY DEF ReadingType
  <2>2. QED
    BY <1>1, <2>1, HeadTailProperties
<1>4. /\ buf'[c] \in Seq(Byte)
      /\ read_pos[c] \in Nat /\ Len(buf[c]) \in Nat /\ Len(buf'[c]) \in Nat
      /\ read_pos[c] <= Len(buf'[c])
  <2>1. /\ buf'[c] \in Seq(Byte) /\ buf[c] \in Seq(Byte)
        /\ read_pos[c] \in Nat
        /\ Len(buf[c]) <= Len(buf'[c])
        /\ read_pos[c] <= Len(buf[c])
    BY <1>2 DEF ReadingType, Committed
  <2>2. Len(buf[c]) \in Nat /\ Len(buf'[c]) \in Nat
    BY <2>1, LenProperties
  <2>3. QED
    BY <2>1, <2>2
<1>5. PICK more : GoesOn(c, more)
  <2>1. CASE RequestCallback(c, Head(reads[c]).parser)
    BY <1>4, <2>1, RequestCallbackGoesOn
  <2>2. CASE DataCallback(c, Head(reads[c]).nlen, read_pos[c])
    <3>1. Head(reads[c]).nlen \in Length
      BY <1>3 DEF ReadType, Length
    <3>2. read_pos[c] \in 0..Len(buf'[c])
      BY <1>4
    <3>3. QED
      BY <1>4, <2>2, <3>1, <3>2, DataCallbackGoesOn
  <2>3. QED
    BY <2>1, <2>2 DEF Read
<1>6. /\ reads' \in [Conns -> Seq(ReadType)]
      /\ rejected' \in [Conns -> Nat]
      /\ OneReader'
      /\ Rejected'
  BY <1>1, <1>5, ChainGoesOn
<1>7. Commits(c)
  BY <1>4, HandlerCommits DEF Read
<1>8. ReadingType' /\ Committed'
  <2>1. PICK e \in read_pos[c]..Len(buf'[c]) : read_pos' = [read_pos EXCEPT ![c] = e]
    BY <1>7 DEF Commits
  <2>2. e \in Nat
    BY <1>4
  <2>3. ReadingType'
    BY <1>1, <1>2, <1>6, <2>1, <2>2 DEF ReadingType
  <2>4. ASSUME NEW d \in Conns PROVE read_pos'[d] <= Len(buf'[d])
    <3>1. CASE d = c
      BY <1>4, <2>1, <3>1 DEF ReadingType
    <3>2. CASE d # c
      <4>1. /\ read_pos'[d] = read_pos[d] /\ read_pos[d] \in Nat
            /\ buf[d] \in Seq(Byte) /\ buf'[d] \in Seq(Byte)
            /\ read_pos[d] <= Len(buf[d]) /\ Len(buf[d]) <= Len(buf'[d])
        BY <1>2, <2>1, <3>2 DEF ReadingType, Committed
      <4>2. Len(buf[d]) \in Nat /\ Len(buf'[d]) \in Nat
        BY <4>1, LenProperties
      <4>3. QED
        BY <4>1, <4>2
    <3>3. QED
      BY <3>1, <3>2
  <2>5. QED
    BY <2>3, <2>4 DEF Committed
<1>9. QED
  BY <1>2, <1>6, <1>8

(* An error ends the chain.                                                *)
LEMMA ReadFailsReading == ASSUME Reading, NEW c \in Conns, ReadFails(c) PROVE Reading'
<1> USE DEF Reading
<1>1. /\ reads[c] # <<>> /\ Reread(c, <<>>)
      /\ UNCHANGED <<conn, wire, buf, read_pos, size, rejected>>
  BY DEF ReadFails, FailThen, clientVars, bufferVars, workVars, historyVars
<1>2. GoesOn(c, <<>>)
  BY <1>1, EmptySeq DEF GoesOn
<1>3. reads' \in [Conns -> Seq(ReadType)] /\ OneReader' /\ Rejected'
  BY <1>1, <1>2, ChainGoesOn
<1>4. ReadingType' /\ Committed' /\ Room'
  BY <1>1, <1>3 DEF ReadingType, Committed, Room, Writeable
<1>5. QED
  BY <1>3, <1>4

(* Before it is accepted, a connection is not read.                        *)
LEMMA ConnReading ==
  ASSUME Reading, NEW c \in Conns, NEW state \in {"backlog", "dropped"},
         conn[c] # "accepted", conn' = [conn EXCEPT ![c] = state],
         UNCHANGED <<wire, bufferVars, reads, rejected>>
  PROVE  Reading'
BY DEF Reading, ReadingType, OneReader, Committed, Room, bufferVars, Rejected, Writeable

(* What a client sends is made of bytes.                                   *)
LEMMA SendsReading == ASSUME Reading, NEW c \in Conns, ClientSends(c) PROVE Reading'
<1> USE DEF Reading
<1>1. UNCHANGED <<conn, buf, read_pos, size, reads, rejected>>
  BY DEF ClientSends, bufferVars, workVars, historyVars
<1>2. wire' \in [Conns -> Seq(Byte)]
  <2>1. PICK r \in Requests : wire' = [wire EXCEPT ![c] = wire[c] \o r]
    BY DEF ClientSends
  <2>2. r \in Seq(Byte) /\ wire[c] \in Seq(Byte)
    BY ServerAssumption DEF ServerAssumption, ReadingType
  <2>3. wire[c] \o r \in Seq(Byte)
    BY <2>2, ConcatProperties
  <2>4. QED
    BY <2>1, <2>3 DEF ReadingType
<1>3. QED
  BY <1>1, <1>2 DEF ReadingType, OneReader, Committed, Room, Rejected, Writeable

LEMMA NextReading == Reading /\ [Next]_vars => Reading'
<1> SUFFICES ASSUME Reading, [Next]_vars PROVE Reading'
  OBVIOUS
<1>1. CASE Start \/ AcceptFails \/ RunsOut
  <2>1. UNCHANGED readingVars
    BY <1>1 DEF Start, AcceptFails, RunsOut, readingVars, clientVars, inVars,
                bufferVars, workVars, historyVars
  <2>2. QED
    BY <2>1, ReadingKept
<1>2. CASE RunPost \/ FinishBadRequest
  <2>1. UNCHANGED readingVars
    BY <1>2 DEF RunPost, FinishBadRequest, readingVars, clientVars, inVars,
                bufferVars, workVars, historyVars
  <2>2. QED
    BY <2>1, ReadingKept
<1>3. ASSUME NEW c \in Conns, Client(c) PROVE Reading'
  <2>1. CASE ClientConnects(c)
    BY <2>1, ConnReading
       DEF ClientConnects, Set, inVars, bufferVars, workVars, historyVars
  <2>2. CASE ClientSends(c)
    BY <2>2, SendsReading
  <2>3. CASE ClientLeaves(c)
    <3>1. UNCHANGED readingVars
      BY <2>3 DEF ClientLeaves, readingVars, inVars, bufferVars, workVars, historyVars
    <3>2. QED
      BY <3>1, ReadingKept
  <2>4. QED
    BY <1>3, <2>1, <2>2, <2>3 DEF Client
<1>4. ASSUME NEW c \in Conns, AcceptThrows(c) PROVE Reading'
  BY <1>4, ConnReading
     DEF AcceptThrows, Set, inVars, bufferVars, workVars, historyVars
<1>5. ASSUME NEW c \in Conns, Completion(c) PROVE Reading'
  <2>1. CASE WriteSome(c) \/ WriteEnds(c)
    <3>1. UNCHANGED readingVars
      BY <2>1 DEF WriteSome, WriteEnds, readingVars, clientVars, inVars,
                  bufferVars, workVars, historyVars
    <3>2. QED
      BY <3>1, ReadingKept
  <2>2. QED
    BY <1>5, <2>1, ReadReading, ReadFailsReading DEF Completion
<1>6. ASSUME NEW w \in Workers, Work(w) PROVE Reading'
  <2>1. UNCHANGED readingVars
    BY <1>6 DEF Work, Take, TakeLeaving, Analyze, Query, Send, Reject, FinishReject, FinishThen,
                readingVars, clientVars, inVars, bufferVars, workVars, historyVars
  <2>2. QED
    BY <2>1, ReadingKept
<1>7. CASE UNCHANGED vars
  BY <1>7, ReadingKept
     DEF vars, readingVars, clientVars, inVars, bufferVars, workVars, historyVars
<1>8. QED
  BY <1>1, <1>2, <1>3, <1>4, <1>5, <1>6, <1>7, AcceptReading DEF Next

LEMMA AlwaysReading == Safety => []Reading
BY InitReading, NextReading, PTL DEF Safety

(* At no time do two async_reads fill the same bytes of a Buffer, and      *)
(* nothing is read before the accept (MiniServer.cpp:27, 79, 90 and 97).   *)
THEOREM ReadsAreAChain == Safety => []OneReader
<1>1. Reading => OneReader
  BY DEF Reading
<1>2. QED
  BY <1>1, AlwaysReading, PTL

(* A Buffer of any size is never full when it is read into                 *)
(* (TcpConnection.h:75-77).                                                *)
THEOREM BufferNeverFull == Safety => []ReadHasRoom
<1>1. Reading => ReadHasRoom
  BY DEF Reading, Room, ReadHasRoom
<1>2. QED
  BY <1>1, AlwaysReading, PTL

(* The io thread rejects one head of a connection and reads no more of it  *)
(* (MiniServer.cpp:69-76).                                                 *)
THEOREM OneRejection == Safety => []RejectionEndsReading
<1>1. Reading => RejectionEndsReading
  BY DEF Reading, Rejected, RejectionEndsReading
<1>2. QED
  BY <1>1, AlwaysReading, PTL

-----------------------------------------------------------------------------
(* Where reading ends.                                                     *)

(* The client of a connection that is no longer read, short of the three   *)
(* ends that ReadingGoesOn names.                                          *)
EndsWell(c) ==
    conn[c] = "accepted" /\ peer[c] = "here" /\ reads[c] = <<>>
        => rejected[c] > 0 \/ Deaf(c)

Hearing ==
    /\ peer \in [Conns -> {"here", "gone"}]
    /\ \A c \in Conns : EndsWell(c)

hearingVars == <<conn, peer, buf, read_pos, reads, rejected>>

LEMMA HearingKept == Hearing /\ UNCHANGED hearingVars => Hearing'
BY DEF Hearing, EndsWell, Deaf, hearingVars

(* Once nothing more is asked for, the new chain is what was asked for.    *)
LEMMA ChainIs ==
  ASSUME Reading, NEW c \in Conns, reads[c] # <<>>,
         NEW more, more \in Seq(ReadType), Reread(c, more)
  PROVE  reads'[c] = more
<1>1. /\ reads \in [Conns -> Seq(ReadType)]
      /\ Len(reads[c]) <= 1 /\ Len(reads[c]) \in Nat
  BY LenProperties DEF Reading, ReadingType, OneReader
<1>2. Tail(reads[c]) = <<>>
  BY <1>1, EmptySeq, HeadTailProperties
<1>3. Tail(reads[c]) \o more = more
  BY <1>2, ConcatEmptySeq
<1>4. QED
  BY <1>1, <1>3 DEF Reread

(* http_datacallback always asks for a read (MiniServer.cpp:85-101).       *)
LEMMA DataCallbackReads ==
  ASSUME Reading, NEW c \in Conns, reads[c] # <<>>, buf'[c] \in Seq(Byte),
         NEW STATE n, n \in Length, NEW STATE pos, pos \in 0..Len(buf'[c]),
         DataCallback(c, n, pos)
  PROVE  reads'[c] # <<>>
<1>1. HeadRead("fresh") \in ReadType /\ (n \in Nat => DataRead(n) \in ReadType)
  BY DEF HeadRead, DataRead, ReadType, ParserState
<1>2. /\ <<HeadRead("fresh")>> \in Seq(ReadType) /\ <<HeadRead("fresh")>> # <<>>
      /\ n \in Nat => <<DataRead(n)>> \in Seq(ReadType) /\ <<DataRead(n)>> # <<>>
  BY <1>1
<1>3. \/ Reread(c, <<HeadRead("fresh")>>)
      \/ Reread(c, <<DataRead(n)>>) /\ n \in Nat
  <2>1. Len(buf'[c]) \in Nat
    BY LenProperties
  <2>2. n \notin Nat => n = Negative
    BY DEF Length
  <2>3. n \notin Nat => ~ (Len(buf'[c]) - pos < n)
    BY <2>1, <2>2 DEF Negative
  <2>4. QED
    BY <2>3 DEF DataCallback, BodyOrMore
<1>4. QED
  BY <1>2, <1>3, ChainIs

(* Where a good head ends there is the byte that has completed it.         *)
LEMMA HeadEnds ==
  ASSUME ReadingType, NEW c \in Conns, buf'[c] \in Seq(Byte),
         read_pos[c] <= Len(buf'[c]), NEW p, Parse(p, Unread(c)).result = "good"
  PROVE  LET e == read_pos[c] + Parse(p, Unread(c)).consumed
         IN  e \in 1..Len(buf'[c]) /\ buf'[c][e].class = "end"
<1>1. read_pos[c] \in Nat /\ Len(buf'[c]) \in Nat
  BY LenProperties DEF ReadingType
<1>2. /\ Unread(c) \in Seq(Byte)
      /\ Len(Unread(c)) = Len(buf'[c]) - read_pos[c]
      /\ \A i \in 1..(Len(buf'[c]) - read_pos[c]) : Unread(c)[i] = buf'[c][read_pos[c] + i]
  BY <1>1, Suffix DEF Unread
<1>3. /\ Parse(p, Unread(c)).consumed \in 1..Len(Unread(c))
      /\ Unread(c)[Parse(p, Unread(c)).consumed].class = "end"
  BY <1>2, ParseStops
<1>4. QED
  BY <1>1, <1>2, <1>3

(* http_requestcallback asks for a read, or ends reading in one of the     *)
(* three ways, or throws because the client is gone (MiniServer.cpp:44-83).*)
LEMMA RequestCallbackReads ==
  ASSUME Reading, NEW c \in Conns, reads[c] # <<>>, peer[c] = "here",
         buf'[c] \in Seq(Byte), read_pos[c] <= Len(buf'[c]), NEW p,
         RequestCallback(c, p)
  PROVE  reads'[c] # <<>> \/ rejected'[c] > 0 \/ Deaf(c)'
<1> USE DEF Reading
<1> DEFINE scan == Parse(p, Unread(c))
           e == read_pos[c] + scan.consumed
<1>1. CASE scan.result = "good" /\ HeadComplete(c, e)
  <2>1. e \in 1..Len(buf'[c]) /\ buf'[c][e].class = "end"
    BY <1>1, HeadEnds
  <2>2. e \in 0..Len(buf'[c])
    BY <2>1
  <2> HIDE DEF e, scan
  <2>3. CASE buf'[c][e].len \in Nat \cup {Negative} /\ DataCallback(c, buf'[c][e].len, e)
    BY <2>2, <2>3, DataCallbackReads DEF Length
  <2>4. CASE buf'[c][e].len \in {NoLength, NotANumber} /\ read_pos' = Set(read_pos, c, e)
    <3>1. read_pos'[c] = e
      BY <2>4 DEF Set, ReadingType
    <3>2. e > 0
      BY <2>1, LenProperties
    <3>3. QED
      BY <2>1, <2>4, <3>1, <3>2 DEF Deaf
  <2>5. QED
    BY <1>1, <2>3, <2>4 DEF HeadComplete
<1>2. CASE HeadCompleteThrows(c)
  BY <1>2 DEF HeadCompleteThrows
<1>3. CASE HeadBad(c)
  <2>1. rejected' = [rejected EXCEPT ![c] = @ + 1]
    BY <1>3 DEF HeadBad, RejectHead
  <2>2. QED
    BY <2>1 DEF ReadingType
<1>4. CASE HeadIncomplete(c)
  <2>1. HeadRead("begun") \in ReadType
    BY DEF HeadRead, ReadType, ParserState
  <2>2. <<HeadRead("begun")>> \in Seq(ReadType) /\ <<HeadRead("begun")>> # <<>>
    BY <2>1
  <2>3. QED
    BY <1>4, <2>2, ChainIs DEF HeadIncomplete, CommitHead
<1>5. QED
  BY <1>1, <1>2, <1>3, <1>4 DEF RequestCallback, Unread

(* A read of a connection leaves the others alone.                         *)
LEMMA ReadLeavesOthers ==
  ASSUME Reading, NEW c \in Conns, Read(c), NEW d \in Conns, d # c
  PROVE  /\ buf'[d] = buf[d] /\ read_pos'[d] = read_pos[d]
         /\ reads'[d] = reads[d] /\ rejected'[d] = rejected[d]
<1> USE DEF Reading
<1>1. PICK b, q : buf' = [buf EXCEPT ![c] = b] /\ reads' = [reads EXCEPT ![c] = q]
  <2>1. \E b : buf' = [buf EXCEPT ![c] = b]
    BY DEF Read, Receive, ReceiveAndGrow
  <2>2. \E q : reads' = [reads EXCEPT ![c] = q]
    BY DEF Read, RequestCallback, HeadComplete, HeadCompleteThrows, HeadBad, RejectHead,
           HeadIncomplete, CommitHead, DataCallback, BodyOrMore, Reread
  <2>3. QED
    BY <2>1, <2>2
<1>2. \/ UNCHANGED read_pos
      \/ \E k : read_pos' = [read_pos EXCEPT ![c] = k]
  BY DEF Read, RequestCallback, HeadComplete, HeadCompleteThrows, HeadBad, RejectHead,
         HeadIncomplete, CommitHead, DataCallback, BodyOrMore, Set
<1>3. \/ UNCHANGED rejected
      \/ rejected' = [rejected EXCEPT ![c] = @ + 1]
  BY DEF Read, RequestCallback, HeadComplete, HeadCompleteThrows, HeadBad, RejectHead,
         HeadIncomplete, CommitHead, DataCallback, BodyOrMore
<1>4. QED
  BY <1>1, <1>2, <1>3 DEF ReadingType

LEMMA ReadHearing ==
  ASSUME Reading, Hearing, NEW c \in Conns, Read(c)
  PROVE  Hearing'
<1> USE DEF Reading
<1>1. reads[c] # <<>> /\ UNCHANGED <<conn, peer>>
  BY DEF Read, clientVars
<1>2. buf'[c] \in Seq(Byte) /\ Len(buf'[c]) \in Nat /\ read_pos[c] \in 0..Len(buf'[c])
  <2>1. PICK n \in 1..Len(wire[c]) : n <= Writeable(c) /\ Receive(c, n)
    BY DEF Read
  <2>2. buf' \in [Conns -> Seq(Byte)] /\ Len(buf[c]) <= Len(buf'[c])
    BY <2>1, Receives
  <2>3. /\ Len(buf[c]) \in Nat /\ Len(buf'[c]) \in Nat /\ read_pos[c] \in Nat
        /\ read_pos[c] <= Len(buf[c])
    BY <2>2, LenProperties DEF ReadingType, Committed
  <2>4. QED
    BY <2>2, <2>3
<1>3. Head(reads[c]).nlen \in Length
  <2>1. Head(reads[c]) \in ReadType
    BY <1>1, HeadTailProperties DEF ReadingType
  <2>2. QED
    BY <2>1 DEF ReadType, Length
<1>4. EndsWell(c)'
  <2>1. CASE peer[c] = "here" /\ RequestCallback(c, Head(reads[c]).parser)
    <3>1. reads'[c] # <<>> \/ rejected'[c] > 0 \/ Deaf(c)'
      BY <1>1, <1>2, <2>1, RequestCallbackReads
    <3>2. QED
      BY <3>1 DEF EndsWell
  <2>2. CASE DataCallback(c, Head(reads[c]).nlen, read_pos[c])
    <3>1. reads'[c] # <<>>
      BY <1>1, <1>2, <1>3, <2>2, DataCallbackReads
    <3>2. QED
      BY <3>1 DEF EndsWell
  <2>3. CASE peer[c] # "here"
    BY <1>1, <2>3 DEF EndsWell
  <2>4. QED
    BY <2>1, <2>2, <2>3 DEF Read
<1>5. ASSUME NEW d \in Conns, d # c PROVE EndsWell(d)'
  BY <1>1, <1>5, ReadLeavesOthers DEF Hearing, EndsWell, Deaf
<1>6. QED
  BY <1>1, <1>4, <1>5 DEF Hearing

LEMMA NextHearing == Reading /\ Hearing /\ [Next]_vars => Hearing'
<1> SUFFICES ASSUME Reading, Hearing, [Next]_vars PROVE Hearing'
  OBVIOUS
<1>1. CASE Start \/ AcceptFails \/ RunsOut \/ RunPost \/ FinishBadRequest
  <2>1. UNCHANGED hearingVars
    BY <1>1 DEF Start, AcceptFails, RunsOut, RunPost, FinishBadRequest, hearingVars,
                clientVars, inVars, bufferVars, workVars, historyVars
  <2>2. QED
    BY <2>1, HearingKept
<1>2. ASSUME NEW c \in Conns, Client(c) PROVE Hearing'
  <2>1. CASE ClientConnects(c)
    BY <2>1 DEF ClientConnects, Set, Hearing, EndsWell, Deaf, Reading, ReadingType,
                inVars, bufferVars, workVars, historyVars
  <2>2. CASE ClientSends(c)
    <3>1. UNCHANGED hearingVars
      BY <2>2 DEF ClientSends, hearingVars, bufferVars, workVars, historyVars
    <3>2. QED
      BY <3>1, HearingKept
  <2>3. CASE ClientLeaves(c)
    BY <2>3 DEF ClientLeaves, Set, Hearing, EndsWell, Deaf,
                inVars, bufferVars, workVars, historyVars
  <2>4. QED
    BY <1>2, <2>1, <2>2, <2>3 DEF Client
<1>3. ASSUME NEW c \in Conns, Accept(c) PROVE Hearing'
  <2>1. /\ conn' = [conn EXCEPT ![c] = "accepted"]
        /\ reads' = [reads EXCEPT ![c] = Append(@, HeadRead("fresh"))]
        /\ UNCHANGED <<peer, buf, read_pos, rejected>>
    BY <1>3 DEF Accept, AcceptThen, Set, Push, bufferVars, workVars, historyVars
  <2>2. reads'[c] # <<>>
    <3>1. HeadRead("fresh") \in ReadType
      BY DEF HeadRead, ReadType, ParserState
    <3>2. Append(reads[c], HeadRead("fresh")) # <<>>
      <4>1. reads[c] \in Seq(ReadType)
        BY DEF Reading, ReadingType
      <4>2. Len(reads[c]) \in Nat /\ Len(Append(reads[c], HeadRead("fresh"))) = Len(reads[c]) + 1
        BY <3>1, <4>1, LenProperties, AppendProperties
      <4>3. CASE Append(reads[c], HeadRead("fresh")) = <<>>
        <5>1. Len(Append(reads[c], HeadRead("fresh"))) = 0
          BY <4>3, EmptySeq
        <5>2. QED
          BY <4>2, <5>1
      <4>4. QED
        BY <4>3
    <3>3. QED
      BY <2>1, <3>2 DEF Reading, ReadingType
  <2>3. \A d \in Conns : d # c => conn'[d] = conn[d] /\ reads'[d] = reads[d]
    BY <2>1 DEF Reading, ReadingType
  <2>4. QED
    BY <2>1, <2>2, <2>3 DEF Hearing, EndsWell, Deaf
<1>4. ASSUME NEW c \in Conns, AcceptThrows(c) PROVE Hearing'
  BY <1>4 DEF AcceptThrows, Set, Hearing, EndsWell, Deaf, Reading, ReadingType,
              inVars, bufferVars, workVars, historyVars
<1>5. ASSUME NEW c \in Conns, Completion(c) PROVE Hearing'
  <2>1. CASE WriteSome(c) \/ WriteEnds(c)
    <3>1. UNCHANGED hearingVars
      BY <2>1 DEF WriteSome, WriteEnds, hearingVars, clientVars, inVars, bufferVars,
                  workVars, historyVars
    <3>2. QED
      BY <3>1, HearingKept
  <2>2. CASE ReadFails(c)
    BY <2>2 DEF ReadFails, FailThen, Reread, Hearing, EndsWell, Deaf, Reading, ReadingType,
                clientVars, bufferVars, workVars, historyVars
  <2>3. QED
    BY <1>5, <2>1, <2>2, ReadHearing DEF Completion
<1>6. ASSUME NEW w \in Workers, Work(w) PROVE Hearing'
  <2>1. UNCHANGED hearingVars
    BY <1>6 DEF Work, Take, TakeLeaving, Analyze, Query, Send, Reject, FinishReject, FinishThen,
                hearingVars, clientVars, inVars, bufferVars, workVars, historyVars
  <2>2. QED
    BY <2>1, HearingKept
<1>7. CASE UNCHANGED vars
  BY <1>7, HearingKept DEF vars, hearingVars, clientVars, inVars, bufferVars,
                           workVars, historyVars
<1>8. QED
  BY <1>1, <1>2, <1>3, <1>4, <1>5, <1>6, <1>7 DEF Next

(* No handler forgets to ask for the next read: whatever is sent and       *)
(* however it arrives, a connection whose client is there is read until a  *)
(* head is rejected or makes the io thread deaf (MiniServer.cpp:44-101).   *)
THEOREM ReadingEndsWell == Safety => []ReadingGoesOn
<1>1. Init => Hearing
  BY DEF Init, Hearing, EndsWell
<1>2. Hearing => ReadingGoesOn
  BY DEF Hearing, EndsWell, ReadingGoesOn
<1>3. QED
  BY <1>1, <1>2, AlwaysReading, NextHearing, PTL DEF Safety

-----------------------------------------------------------------------------
(* What workers do.                                                        *)

EachWorker == worker = [w \in Workers |-> worker[w]]

(* What only happens to other threads does not change a worker's stage.    *)
LEMMA StageKept ==
  ASSUME UNCHANGED worker
  PROVE  \A w \in Workers : UNCHANGED StageOf(w)
BY DEF StageOf

(* A step of one worker is a step of its life, and no other worker takes   *)
(* part in it.                                                             *)
LEMMA WorkLives ==
  ASSUME EachWorker, NEW w \in Workers, Work(w), NEW v \in Workers
  PROVE  Life(v)!Next \/ UNCHANGED StageOf(v)
<1>1. CASE v # w
  <2>1. worker'[v] = worker[v]
    BY <1>1 DEF EachWorker, Work, Take, TakeLeaving, Analyze, Query, Send, Reject,
                FinishReject, FinishThen, Become
  <2>2. QED
    BY <2>1 DEF StageOf
<1>2. CASE v = w
  <2> USE DEF EachWorker, StageOf, Become, Busy, Idle, Life!Next, Life!Go
  <2>1. CASE Take(w)
    BY <1>2, <2>1 DEF Take, TakeLeaving
  <2>2. CASE Analyze(w)
    <3>1. worker[w].at = "analyze"
      BY <2>2 DEF Analyze
    <3>2. worker'[w].at \in {"query", "marked", "reject", "idle"}
      BY <2>2 DEF Analyze, Analyses
    <3>3. StageOf(w) = "analyze" /\ StageOf(w)' \in {"query", "reject", "idle"}
      BY <3>1, <3>2
    <3>4. QED
      BY <1>2, <3>3
  <2>3. CASE Query(w)
    BY <1>2, <2>3 DEF Query
  <2>4. CASE Send(w)
    BY <1>2, <2>4 DEF Send
  <2>5. CASE Reject(w)
    BY <1>2, <2>5 DEF Reject
  <2>6. CASE FinishReject(w)
    BY <1>2, <2>6 DEF FinishReject, FinishThen
  <2>7. QED
    BY <2>1, <2>2, <2>3, <2>4, <2>5, <2>6 DEF Work
<1>3. QED
  BY <1>1, <1>2

(* Every worker of the server, however many there are, does with a request *)
(* what WorkerLife allows: it is analyzed, queried at most once, answered  *)
(* once or dropped by an exception (MiniServer.cpp:109-132).               *)
THEOREM ServerWorkersLive == Safety => WorkersLive
<1>1. Init => EachWorker /\ \A w \in Workers : Life(w)!Init
  BY DEF Init, EachWorker, StageOf, Idle, Life!Init
<1>2. EachWorker /\ [Next]_vars =>
        /\ EachWorker'
        /\ [\A w \in Workers : Life(w)!Next \/ UNCHANGED StageOf(w)]_vars
  <2> SUFFICES ASSUME EachWorker, [Next]_vars
               PROVE  /\ EachWorker'
                      /\ \A w \in Workers : Life(w)!Next \/ UNCHANGED StageOf(w)
    OBVIOUS
  <2>1. CASE UNCHANGED worker
    BY <2>1, StageKept DEF EachWorker
  <2>2. ASSUME NEW w \in Workers, Work(w)
        PROVE  /\ EachWorker'
               /\ \A v \in Workers : Life(v)!Next \/ UNCHANGED StageOf(v)
    <3>1. EachWorker'
      BY <2>2 DEF EachWorker, Work, Take, TakeLeaving, Analyze, Query, Send, Reject,
                  FinishReject, FinishThen, Become
    <3>2. QED
      BY <2>2, <3>1, WorkLives
  <2>3. CASE \E c \in Conns : Client(c) \/ Accept(c) \/ AcceptThrows(c) \/ Completion(c)
    <3>1. UNCHANGED worker
      BY <2>3 DEF Client, ClientConnects, ClientSends, ClientLeaves, Accept,
                  AcceptThen, AcceptThrows, Completion, Read, ReadFails, FailThen,
                  WriteSome, WriteEnds, workVars, poolVars
    <3>2. QED
      BY <2>1, <3>1
  <2>4. CASE Start \/ AcceptFails \/ RunsOut \/ RunPost \/ FinishBadRequest
    <3>1. UNCHANGED worker
      BY <2>4 DEF Start, AcceptFails, RunsOut, RunPost, FinishBadRequest, workVars,
                  poolVars
    <3>2. QED
      BY <2>1, <3>1
  <2>5. CASE UNCHANGED vars
    <3>1. UNCHANGED worker
      BY <2>5 DEF vars, workVars, poolVars
    <3>2. QED
      BY <2>1, <3>1
  <2>6. QED
    BY <2>2, <2>3, <2>4, <2>5 DEF Next
<1>3. QED
  BY <1>1, <1>2, PTL DEF Safety, WorkersLive
=============================================================================
