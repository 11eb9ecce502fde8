---------------------------- MODULE FramingProofs ---------------------------
(***************************************************************************)
(* What HttpServer hands to the workers, for any connections, requests,    *)
(* sizes of the Buffer and cuts of the network: bodies that a head has     *)
(* announced, and in the order of their heads.                             *)
(*                                                                         *)
(* The invariant says what a connection is waiting for: while the rest of  *)
(* a body is outstanding, read_pos is at the end of the head that          *)
(* announced it, and behind every body handed over before.                 *)
(***************************************************************************)
EXTENDS HttpServerProofs

ViewType == [from : Nat, nlen : Length]

(* Head e of b announced n bytes, and v is what it announced.              *)
AtEnd(b, e, n) == e \in 1..Len(b) /\ b[e].class = "end" /\ b[e].len = n

IsBody(b, v) ==
    /\ v.from \in 1..Len(b)
    /\ b[v.from].class = "end"
    /\ v.nlen # Negative => v.nlen \in 0..(Len(b) - v.from)
    /\ \/ b[v.from].len = v.nlen
       \/ b[v.from].len = NoLength /\ v.nlen = 0

Bodied(b, vs) == \A i \in 1..Len(vs) : IsBody(b, vs[i])
Advance(vs) == \A i \in 1..Len(vs) : \A j \in 1..(i - 1) : vs[j].from < vs[i].from
Behind(vs, pos) == \A i \in 1..Len(vs) : vs[i].from <= pos
Before(vs, pos) == \A i \in 1..Len(vs) : vs[i].from < pos

Waits(rs) == rs # <<>> /\ Head(rs).handler = "http_datacallback"

(* A connection with Buffer b, of which pos bytes are committed, reads rs  *)
(* and bodies vs.                                                          *)
Frame(b, pos, rs, vs) ==
    /\ Bodied(b, vs) /\ Advance(vs) /\ Behind(vs, pos)
    /\ Waits(rs) => AtEnd(b, pos, Head(rs).nlen) /\ Before(vs, pos)

FrameOf(c) == Frame(buf[c], read_pos[c], reads[c], views[c])

Framing ==
    /\ views \in [Conns -> Seq(ViewType)]
    /\ \A c \in Conns : FrameOf(c)

framingVars == <<buf, read_pos, reads, views>>

-----------------------------------------------------------------------------
(* What is received later changes nothing that was there.                  *)
LEMMA MoreReceived ==
  ASSUME NEW b \in Seq(Byte), NEW s \in Seq(Byte), NEW pos, NEW rs,
         NEW vs \in Seq(ViewType), Frame(b, pos, rs, vs)
  PROVE  Frame(b \o s, pos, rs, vs)
<1>1. /\ b \o s \in Seq(Byte) /\ Len(b \o s) = Len(b) + Len(s)
      /\ \A i \in 1..Len(b) : (b \o s)[i] = b[i]
  BY ConcatProperties, LenProperties
<1>2. Len(b) \in Nat /\ Len(s) \in Nat
  BY LenProperties
<1>3. ASSUME NEW i \in 1..Len(vs) PROVE IsBody(b \o s, vs[i])
  <2>1. IsBody(b, vs[i]) /\ vs[i] \in ViewType
    BY ElementOfSeq DEF Frame, Bodied
  <2>2. QED
    BY <1>1, <1>2, <2>1 DEF IsBody, ViewType
<1>4. Waits(rs) => AtEnd(b \o s, pos, Head(rs).nlen)
  BY <1>1, <1>2 DEF Frame, AtEnd
<1>5. QED
  BY <1>3, <1>4 DEF Frame, Bodied

(* A body is handed over: the one of the head that ends at e.              *)
LEMMA HandsOver ==
  ASSUME NEW b \in Seq(Byte), NEW vs \in Seq(ViewType), NEW e \in Nat, NEW n \in Length,
         NEW rs, ~Waits(rs), Bodied(b, vs), Advance(vs), Before(vs, e),
         IsBody(b, [from |-> e, nlen |-> n])
  PROVE  /\ Append(vs, [from |-> e, nlen |-> n]) \in Seq(ViewType)
         /\ Frame(b, e, rs, Append(vs, [from |-> e, nlen |-> n]))
<1> DEFINE v == [from |-> e, nlen |-> n]
           w == Append(vs, v)
<1>1. v \in ViewType /\ v.from = e
  BY DEF ViewType
<1>2. Len(vs) \in Nat
  BY LenProperties
<1>3. IsBody(b, v)
  OBVIOUS
<1> HIDE DEF v
<1>4. /\ w \in Seq(ViewType) /\ Len(w) = Len(vs) + 1
      /\ \A i \in 1..Len(vs) : w[i] = vs[i]
      /\ w[Len(vs) + 1] = v
  BY <1>1, AppendProperties
<1> HIDE DEF w
<1>5. ASSUME NEW i \in 1..Len(w)
      PROVE  /\ IsBody(b, w[i])
             /\ w[i].from <= e
             /\ \A j \in 1..(i - 1) : w[j].from < w[i].from
  <2>1. CASE i \in 1..Len(vs)
    <3>1. w[i] = vs[i] /\ vs[i] \in ViewType /\ vs[i].from < e
      BY <1>4, <2>1, ElementOfSeq DEF Before
    <3>2. \A j \in 1..(i - 1) : w[j] = vs[j] /\ vs[j].from < vs[i].from
      BY <1>2, <1>4, <2>1 DEF Advance
    <3>3. IsBody(b, vs[i])
      BY <2>1 DEF Bodied
    <3>4. QED
      BY <3>1, <3>2, <3>3 DEF ViewType
  <2>2. CASE i = Len(vs) + 1
    <3>1. w[i] = v
      BY <1>4, <2>2
    <3>2. \A j \in 1..(i - 1) : w[j] = vs[j] /\ vs[j].from < e
      BY <1>2, <1>4, <2>2 DEF Before
    <3>3. QED
      BY <1>1, <1>3, <3>1, <3>2
  <2>3. QED
    BY <1>2, <1>4, <2>1, <2>2
<1>6. Frame(b, e, rs, w)
  BY <1>5 DEF Frame, Bodied, Advance, Behind
<1>7. QED
  BY <1>4, <1>6 DEF w, v

(* No body is handed over, but read_pos may advance.                       *)
LEMMA HandsNothing ==
  ASSUME NEW b, NEW vs \in Seq(ViewType), NEW pos \in Nat, NEW e \in Nat, NEW rs,
         ~Waits(rs), Bodied(b, vs), Advance(vs), Behind(vs, pos), pos <= e
  PROVE  Frame(b, e, rs, vs)
<1>1. ASSUME NEW i \in 1..Len(vs) PROVE vs[i].from <= e
  <2>1. vs[i] \in ViewType /\ vs[i].from <= pos
    BY ElementOfSeq DEF Behind
  <2>2. QED
    BY <2>1 DEF ViewType
<1>2. QED
  BY <1>1 DEF Frame, Behind

-----------------------------------------------------------------------------
(* How a handler leaves its connection.                                    *)
Framed(c, more) ==
    /\ more \in Seq(ReadType)
    /\ Reread(c, more)
    /\ \E vs \in Seq(ViewType) :
        /\ views' = [views EXCEPT ![c] = vs]
        /\ Frame(buf'[c], read_pos'[c], more, vs)

(* What a handler starts from.                                             *)
Starts(c) ==
    /\ views \in [Conns -> Seq(ViewType)]
    /\ read_pos \in [Conns -> Nat]
    /\ buf'[c] \in Seq(Byte)
    /\ Bodied(buf'[c], views[c]) /\ Advance(views[c]) /\ Behind(views[c], read_pos[c])

(* The reads that handlers ask for, and which of them wait for a body.     *)
LEMMA ReadKinds ==
  /\ \A p \in ParserState : <<HeadRead(p)>> \in Seq(ReadType) /\ ~Waits(<<HeadRead(p)>>)
  /\ \A n \in Nat : <<DataRead(n)>> \in Seq(ReadType) /\ Head(<<DataRead(n)>>).nlen = n
  /\ <<>> \in Seq(ReadType) /\ ~Waits(<<>>)
  /\ "fresh" \in ParserState /\ "begun" \in ParserState
<1>1. ASSUME NEW p \in ParserState
      PROVE  <<HeadRead(p)>> \in Seq(ReadType) /\ ~Waits(<<HeadRead(p)>>)
  <2>1. HeadRead(p) \in ReadType /\ HeadRead(p).handler # "http_datacallback"
    BY <1>1 DEF HeadRead, ReadType
  <2>2. <<HeadRead(p)>> \in Seq(ReadType) /\ Head(<<HeadRead(p)>>) = HeadRead(p)
    BY <2>1
  <2>3. QED
    BY <2>1, <2>2 DEF Waits
<1>2. ASSUME NEW n \in Nat
      PROVE  <<DataRead(n)>> \in Seq(ReadType) /\ Head(<<DataRead(n)>>).nlen = n
  <2>1. DataRead(n) \in ReadType /\ DataRead(n).nlen = n
    BY <1>2 DEF DataRead, ReadType, ParserState
  <2>2. <<DataRead(n)>> \in Seq(ReadType) /\ Head(<<DataRead(n)>>) = DataRead(n)
    BY <2>1
  <2>3. QED
    BY <2>1, <2>2
<1>3. <<>> \in Seq(ReadType) /\ ~Waits(<<>>)
  BY EmptySeq DEF Waits
<1>4. QED
  BY <1>1, <1>2, <1>3 DEF ParserState

(* Leaving views as they are is leaving those of c.                        *)
LEMMA SameViews ==
  ASSUME NEW c \in Conns, views \in [Conns -> Seq(ViewType)], UNCHANGED views
  PROVE  views[c] \in Seq(ViewType) /\ views' = [views EXCEPT ![c] = views[c]]
OBVIOUS

(* http_datacallback, at the end of the head that announced the body       *)
(* (MiniServer.cpp:85-101).                                                *)
LEMMA DataCallbackFrames ==
  ASSUME NEW c \in Conns, Starts(c), NEW STATE n, n \in Length, NEW STATE pos,
         AtEnd(buf'[c], pos, n), Before(views[c], pos), DataCallback(c, n, pos)
  PROVE  \E more : Framed(c, more)
<1>1. /\ read_pos'[c] = pos /\ pos \in 1..Len(buf'[c]) /\ pos \in Nat
      /\ Len(buf'[c]) \in Nat /\ views[c] \in Seq(ViewType)
  BY LenProperties DEF DataCallback, BodyOrMore, Set, Starts, AtEnd
<1>2. CASE /\ Len(buf'[c]) - pos >= n
           /\ Reread(c, <<HeadRead("fresh")>>)
           /\ Enqueue(c, pos, n)
  <2> DEFINE v == [from |-> pos, nlen |-> n]
  <2>1. IsBody(buf'[c], v)
    <3>1. n # Negative => n \in 0..(Len(buf'[c]) - pos)
      BY <1>1, <1>2 DEF Length
    <3>2. QED
      BY <1>1, <3>1 DEF IsBody, AtEnd
  <2>2. /\ Append(views[c], v) \in Seq(ViewType)
        /\ Frame(buf'[c], pos, <<HeadRead("fresh")>>, Append(views[c], v))
    BY <1>1, <2>1, HandsOver, ReadKinds DEF Starts
  <2>3. views' = [views EXCEPT ![c] = Append(views[c], v)]
    BY <1>2 DEF Enqueue, EnqueueView, Push
  <2>4. Framed(c, <<HeadRead("fresh")>>)
    BY <1>1, <1>2, <2>2, <2>3, ReadKinds DEF Framed
  <2>5. QED
    BY <2>4
<1>3. CASE /\ Len(buf'[c]) - pos < n
           /\ Reread(c, <<DataRead(n)>>) /\ UNCHANGED views
  <2>0. n \in Nat
    BY <1>1, <1>3 DEF Length, Negative
  <2>1. Frame(buf'[c], pos, <<DataRead(n)>>, views[c])
    <3>1. Behind(views[c], pos)
      <4>1. ASSUME NEW i \in 1..Len(views[c]) PROVE views[c][i].from <= pos
        <5>1. views[c][i] \in ViewType /\ views[c][i].from < pos
          BY <1>1, ElementOfSeq DEF Before
        <5>2. QED
          BY <1>1, <5>1 DEF ViewType
      <4>2. QED
        BY <4>1 DEF Behind
    <3>2. QED
      BY <2>0, <3>1, ReadKinds DEF Frame, Starts
  <2>2. Framed(c, <<DataRead(n)>>)
    BY <1>1, <1>3, <2>0, <2>1, ReadKinds, SameViews DEF Framed, Starts
  <2>3. QED
    BY <2>2
<1>4. QED
  BY <1>2, <1>3 DEF DataCallback, BodyOrMore

(* http_requestcallback: a good head ends behind everything handed over so *)
(* far (MiniServer.cpp:44-83).                                             *)
LEMMA RequestCallbackFrames ==
  ASSUME NEW c \in Conns, Starts(c), ReadingType, read_pos[c] <= Len(buf'[c]), NEW p,
         RequestCallback(c, p)
  PROVE  \E more : Framed(c, more)
<1> DEFINE scan == Parse(p, Unread(c))
           e == read_pos[c] + scan.consumed
<1>1. /\ read_pos[c] \in Nat /\ Len(buf'[c]) \in Nat /\ buf'[c] \in Seq(Byte)
      /\ views[c] \in Seq(ViewType)
  BY LenProperties DEF Starts
<1>2. /\ Unread(c) \in Seq(Byte)
      /\ Len(Unread(c)) = Len(buf'[c]) - read_pos[c]
      /\ \A i \in 1..(Len(buf'[c]) - read_pos[c]) : Unread(c)[i] = buf'[c][read_pos[c] + i]
  BY <1>1, Suffix DEF Unread
<1>3. CASE UNCHANGED <<read_pos, views>> /\ Reread(c, <<>>)
  <2>1. Frame(buf'[c], read_pos'[c], <<>>, views[c])
    BY <1>1, <1>3, HandsNothing, ReadKinds DEF Starts
  <2>2. Framed(c, <<>>)
    BY <1>3, <2>1, ReadKinds, SameViews DEF Framed, Starts
  <2>3. QED
    BY <2>2
<1>4. CASE HeadIncomplete(c)
  <2>1. read_pos'[c] = Len(buf'[c]) /\ UNCHANGED views /\ Reread(c, <<HeadRead("begun")>>)
    BY <1>4 DEF HeadIncomplete, CommitHead, Set, Starts
  <2>2. Frame(buf'[c], read_pos'[c], <<HeadRead("begun")>>, views[c])
    BY <1>1, <2>1, HandsNothing, ReadKinds DEF Starts
  <2>3. Framed(c, <<HeadRead("begun")>>)
    BY <2>1, <2>2, ReadKinds, SameViews DEF Framed, Starts
  <2>4. QED
    BY <2>3
<1>5. CASE scan.result = "good" /\ HeadComplete(c, e)
  <2>1. scan.consumed \in 1..Len(Unread(c)) /\ Unread(c)[scan.consumed].class = "end"
    BY <1>2, <1>5, ParseStops
  <2>2. /\ e \in 1..Len(buf'[c]) /\ e \in Nat /\ read_pos[c] < e
        /\ buf'[c][e].class = "end"
    BY <1>1, <1>2, <2>1
  <2> HIDE DEF e
  <2>3. Before(views[c], e)
    <3>1. ASSUME NEW i \in 1..Len(views[c]) PROVE views[c][i].from < e
      <4>1. views[c][i] \in ViewType /\ views[c][i].from <= read_pos[c]
        BY <1>1, ElementOfSeq DEF Starts, Behind
      <4>2. QED
        BY <1>1, <2>2, <4>1 DEF ViewType
    <3>2. QED
      BY <3>1 DEF Before
  <2>4. CASE buf'[c][e].len \in Nat \cup {Negative} /\ DataCallback(c, buf'[c][e].len, e)
    <3>1. AtEnd(buf'[c], e, buf'[c][e].len)
      BY <2>2 DEF AtEnd
    <3>2. PICK n : n = buf'[c][e].len
      OBVIOUS
    <3>3. n \in Length /\ AtEnd(buf'[c], e, n) /\ DataCallback(c, n, e)
      BY <2>4, <3>1, <3>2 DEF Length
    <3>4. QED
      BY <2>3, <3>3, DataCallbackFrames
  <2>5. CASE /\ buf'[c][e].len = NoLength /\ read_pos' = Set(read_pos, c, e)
             /\ Reread(c, <<>>) /\ Enqueue(c, e, 0)
    <3> DEFINE v == [from |-> e, nlen |-> 0]
    <3>1. IsBody(buf'[c], v)
      BY <1>1, <2>2, <2>5 DEF IsBody
    <3>2. /\ Append(views[c], v) \in Seq(ViewType)
          /\ Frame(buf'[c], e, <<>>, Append(views[c], v))
      <4>1. 0 \in Length
        BY DEF Length
      <4>2. QED
        BY <1>1, <2>2, <2>3, <3>1, <4>1, HandsOver, ReadKinds DEF Starts
    <3>3. views' = [views EXCEPT ![c] = Append(views[c], v)] /\ read_pos'[c] = e
      BY <2>5 DEF Enqueue, EnqueueView, Push, Set, Starts
    <3>4. Framed(c, <<>>)
      BY <2>5, <3>2, <3>3, ReadKinds DEF Framed
    <3>5. QED
      BY <3>4
  <2>6. CASE /\ read_pos' = Set(read_pos, c, e) /\ Reread(c, <<>>)
             /\ UNCHANGED views
    <3>1. read_pos'[c] = e
      BY <2>6 DEF Set, Starts
    <3>2. Frame(buf'[c], e, <<>>, views[c])
      BY <1>1, <2>2, HandsNothing, ReadKinds DEF Starts
    <3>3. Framed(c, <<>>)
      BY <2>6, <3>1, <3>2, ReadKinds, SameViews DEF Framed, Starts
    <3>4. QED
      BY <3>3
  <2>7. QED
    BY <1>5, <2>4, <2>5, <2>6 DEF HeadComplete
<1>6. CASE HeadCompleteThrows(c) \/ HeadBad(c)
  BY <1>3, <1>6 DEF HeadCompleteThrows, HeadBad, RejectHead
<1>7. QED
  BY <1>4, <1>5, <1>6 DEF RequestCallback, Unread

(* The frame of a connection that has a read is kept by its handler.       *)
LEMMA ReadFraming ==
  ASSUME Reading, Framing, NEW c \in Conns, Read(c)
  PROVE  Framing'
<1> USE DEF Reading
<1>1. PICK n \in 1..Len(wire[c]) : n <= Writeable(c) /\ Receive(c, n)
  BY DEF Read
<1>2. /\ wire[c] \in Seq(Byte) /\ buf[c] \in Seq(Byte)
      /\ read_pos[c] \in Nat /\ reads[c] \in Seq(ReadType)
      /\ views[c] \in Seq(ViewType) /\ FrameOf(c)
  BY DEF ReadingType, Framing
<1>3. SubSeq(wire[c], 1, n) \in Seq(Byte)
  <2>1. Len(wire[c]) \in Nat /\ \A i \in 1..Len(wire[c]) : wire[c][i] \in Byte
    BY <1>2, LenProperties, ElementOfSeq
  <2>2. QED
    BY <1>2, <2>1, SubSeqProperties
<1>4. buf' = [buf EXCEPT ![c] = buf[c] \o SubSeq(wire[c], 1, n)]
  BY <1>1 DEF Receive, ReceiveAndGrow
<1>5. buf'[c] = buf[c] \o SubSeq(wire[c], 1, n) /\ buf'[c] \in Seq(Byte)
  BY <1>2, <1>3, <1>4, ConcatProperties DEF ReadingType
<1>6. Frame(buf'[c], read_pos[c], reads[c], views[c])
  BY <1>2, <1>3, <1>5, MoreReceived DEF FrameOf
<1>7. Starts(c)
  BY <1>2, <1>5, <1>6 DEF Starts, Frame, ReadingType, Framing
<1>8. read_pos[c] <= Len(buf'[c])
  <2>1. /\ Len(buf'[c]) = Len(buf[c]) + Len(SubSeq(wire[c], 1, n))
        /\ Len(buf[c]) \in Nat /\ Len(SubSeq(wire[c], 1, n)) \in Nat
    BY <1>2, <1>3, <1>5, ConcatProperties, LenProperties
  <2>2. read_pos[c] <= Len(buf[c])
    BY DEF Committed
  <2>3. QED
    BY <1>2, <2>1, <2>2
<1>9. reads[c] # <<>> /\ Head(reads[c]) \in ReadType /\ Tail(reads[c]) = <<>>
  <2>1. reads[c] # <<>> /\ Len(reads[c]) <= 1 /\ Len(reads[c]) \in Nat
    BY <1>2, LenProperties DEF Read, OneReader
  <2>2. QED
    BY <1>2, <2>1, EmptySeq, HeadTailProperties
<1>10. PICK more : Framed(c, more)
  <2>1. CASE RequestCallback(c, Head(reads[c]).parser)
    BY <1>7, <1>8, <2>1, RequestCallbackFrames
  <2>2. CASE /\ Head(reads[c]).handler = "http_datacallback"
             /\ DataCallback(c, Head(reads[c]).nlen, read_pos[c])
    <3>1. AtEnd(buf'[c], read_pos[c], Head(reads[c]).nlen) /\ Before(views[c], read_pos[c])
      BY <1>6, <1>9, <2>2 DEF Frame, Waits
    <3>2. Head(reads[c]).nlen \in Length
      BY <1>9 DEF ReadType, Length
    <3>3. QED
      BY <1>7, <2>2, <3>1, <3>2, DataCallbackFrames
  <2>3. QED
    BY <2>1, <2>2 DEF Read
<1>11. PICK vs \in Seq(ViewType) :
          /\ views' = [views EXCEPT ![c] = vs]
          /\ Frame(buf'[c], read_pos'[c], more, vs)
  BY <1>10 DEF Framed
<1>12. reads' = [reads EXCEPT ![c] = more]
  BY <1>9, <1>10, ConcatEmptySeq DEF Framed, Reread
<1>13. Commits(c)
  BY <1>5, <1>8, HandlerCommits DEF Read
<1>14. views' \in [Conns -> Seq(ViewType)]
  BY <1>11 DEF Framing
<1>15. ASSUME NEW d \in Conns PROVE FrameOf(d)'
  <2>1. CASE d = c
    <3>1. reads'[c] = more /\ views'[c] = vs
      BY <1>11, <1>12 DEF ReadingType, Framing
    <3>2. QED
      BY <1>11, <2>1, <3>1 DEF FrameOf
  <2>2. CASE d # c
    <3>1. /\ buf'[d] = buf[d] /\ reads'[d] = reads[d] /\ views'[d] = views[d]
          /\ read_pos'[d] = read_pos[d]
      BY <1>4, <1>11, <1>12, <1>13, <2>2 DEF ReadingType, Framing, Commits
    <3>2. FrameOf(d)
      BY DEF Framing
    <3>3. QED
      BY <3>1, <3>2 DEF FrameOf
  <2>3. QED
    BY <2>1, <2>2
<1>16. QED
  BY <1>14, <1>15 DEF Framing

(* Reads are also begun by the accept, and ended by errors.                *)
LEMMA ReadsChange ==
  ASSUME Reading, Framing, NEW c \in Conns, NEW rs, ~Waits(rs),
         reads' = [reads EXCEPT ![c] = rs], UNCHANGED <<buf, read_pos, views>>
  PROVE  Framing'
<1>1. ASSUME NEW d \in Conns PROVE FrameOf(d)'
  <2>1. reads'[d] = IF d = c THEN rs ELSE reads[d]
    BY DEF Reading, ReadingType
  <2>2. FrameOf(d) /\ buf'[d] = buf[d] /\ read_pos'[d] = read_pos[d] /\ views'[d] = views[d]
    BY DEF Framing
  <2>3. QED
    BY <2>1, <2>2 DEF FrameOf, Frame
<1>2. QED
  BY <1>1 DEF Framing

LEMMA FramingKept == Framing /\ UNCHANGED framingVars => Framing'
BY DEF Framing, FrameOf, framingVars

LEMMA NextFraming == Reading /\ Framing /\ [Next]_vars => Framing'
<1> SUFFICES ASSUME Reading, Framing, [Next]_vars PROVE Framing'
  OBVIOUS
<1> USE DEF framingVars, inVars, bufferVars, workVars, historyVars
<1>1. CASE Start \/ AcceptFails \/ RunsOut \/ RunPost \/ FinishBadRequest
  BY <1>1, FramingKept DEF Start, AcceptFails, RunsOut, RunPost, FinishBadRequest
<1>2. ASSUME NEW c \in Conns, Client(c) \/ AcceptThrows(c) PROVE Framing'
  BY <1>2, FramingKept
     DEF Client, ClientConnects, ClientSends, ClientLeaves, AcceptThrows
<1>3. ASSUME NEW c \in Conns, Accept(c) PROVE Framing'
  <2>1. reads[c] = <<>>
    BY <1>3 DEF Accept, AcceptThen, Reading, OneReader
  <2>2. reads' = [reads EXCEPT ![c] = <<HeadRead("fresh")>>]
    <3>1. Append(<<>>, HeadRead("fresh")) = <<HeadRead("fresh")>>
      OBVIOUS
    <3>2. QED
      BY <1>3, <2>1, <3>1 DEF Accept, AcceptThen, Push
  <2>3. QED
    BY <1>3, <2>2, ReadsChange, ReadKinds DEF Accept, AcceptThen
<1>4. ASSUME NEW c \in Conns, ReadFails(c) PROVE Framing'
  <2>1. reads[c] \in Seq(ReadType) /\ Len(reads[c]) <= 1 /\ reads[c] # <<>>
    BY <1>4 DEF ReadFails, FailThen, Reading, ReadingType, OneReader
  <2>2. Tail(reads[c]) = <<>>
    BY <2>1, EmptySeq, HeadTailProperties, LenProperties
  <2>3. reads' = [reads EXCEPT ![c] = <<>>]
    BY <1>4, <2>2, EmptySeq, ConcatEmptySeq DEF ReadFails, FailThen, Reread
  <2>4. QED
    BY <1>4, <2>3, ReadsChange, ReadKinds DEF ReadFails, FailThen
<1>5. ASSUME NEW c \in Conns, WriteSome(c) \/ WriteEnds(c) PROVE Framing'
  BY <1>5, FramingKept DEF WriteSome, WriteEnds
<1>6. ASSUME NEW w \in Workers, Work(w) PROVE Framing'
  BY <1>6, FramingKept
     DEF Work, Take, TakeLeaving, Analyze, Query, Send, Reject, FinishReject, FinishThen
<1>7. CASE UNCHANGED vars
  BY <1>7, FramingKept DEF vars
<1>8. QED
  BY <1>1, <1>2, <1>3, <1>4, <1>5, <1>6, <1>7, ReadFraming DEF Next, Completion

LEMMA InitFraming == Init => Framing
<1> SUFFICES ASSUME Init PROVE Framing
  OBVIOUS
<1>1. views \in [Conns -> Seq(ViewType)]
  BY EmptySeq DEF Init
<1>2. ASSUME NEW c \in Conns PROVE FrameOf(c)
  <2>1. views[c] = <<>> /\ Len(views[c]) = 0 /\ reads[c] = <<>>
    BY EmptySeq DEF Init
  <2>2. QED
    BY <2>1 DEF FrameOf, Frame, Waits, Bodied, Advance, Behind
<1>3. QED
  BY <1>1, <1>2 DEF Framing

LEMMA AlwaysFraming == Safety => [](Reading /\ Framing)
BY InitReading, InitFraming, NextReading, NextFraming, PTL DEF Safety

(* Whatever clients send and however the network cuts it, a worker is      *)
(* given exactly the bytes that follow a head which announced so many      *)
(* (MiniServer.cpp:56-67 and 88-93).                                       *)
THEOREM BodiesAreHandedOver == Safety => []ViewsAreBodies
<1>1. Framing => ViewsAreBodies
  <2> SUFFICES ASSUME Framing, NEW c \in Conns, NEW i \in DOMAIN views[c]
               PROVE  IsBody(buf[c], views[c][i])
    BY DEF ViewsAreBodies, IsBody
  <2>1. i \in 1..Len(views[c])
    BY LenProperties DEF Framing
  <2>2. QED
    BY <2>1 DEF Framing, FrameOf, Frame, Bodied
<1>2. QED
  BY <1>1, AlwaysFraming, PTL

(* ... and no bytes twice: each body begins behind the head of the one     *)
(* handed over before it.                                                  *)
THEOREM BodiesAdvance == Safety => []ViewsAdvance
<1>1. Framing => ViewsAdvance
  <2> SUFFICES ASSUME Framing, NEW c \in Conns, NEW i \in DOMAIN views[c],
                      NEW j \in 1..(i - 1)
               PROVE  views[c][j].from < views[c][i].from
    BY DEF ViewsAdvance
  <2>1. i \in 1..Len(views[c])
    BY LenProperties DEF Framing
  <2>2. QED
    BY <2>1 DEF Framing, FrameOf, Frame, Advance
<1>2. QED
  BY <1>1, AlwaysFraming, PTL
-----------------------------------------------------------------------------
(* A body that is a JSON object.                                           *)
Braced(b, v) == v.nlen > 0 /\ b[v.from + 1].class = "brace"

(* It is the last one, and the next head would begin with its brace.       *)
LastObject(c) ==
    \A i \in 1..Len(views[c]) : Braced(buf[c], views[c][i]) =>
        /\ i = Len(views[c])
        /\ \/ reads[c] = <<>>
           \/ reads[c] = <<HeadRead("fresh")>> /\ read_pos[c] = views[c][i].from

(* Before the accept there are no bodies.                                  *)
Objects ==
    \A c \in Conns : LastObject(c) /\ (conn[c] # "accepted" => views[c] = <<>>)

(* How a handler hands over a body.                                        *)
HandsBody(c, more) ==
    /\ Reread(c, more)
    /\ \/ UNCHANGED views
       \/ /\ more \in {<<>>, <<HeadRead("fresh")>>}
          /\ \E n : views' = Push(views, c, [from |-> read_pos'[c], nlen |-> n])

LEMMA DataHandsBody ==
  ASSUME NEW c \in Conns, read_pos \in [Conns -> Nat], NEW n, NEW pos, DataCallback(c, n, pos)
  PROVE  \E more : HandsBody(c, more)
<1>1. read_pos'[c] = pos
  BY DEF DataCallback, BodyOrMore, Set
<1>2. CASE Reread(c, <<HeadRead("fresh")>>) /\ Enqueue(c, pos, n)
  <2>1. HandsBody(c, <<HeadRead("fresh")>>)
    BY <1>1, <1>2 DEF HandsBody, Enqueue, EnqueueView
  <2>2. QED
    BY <2>1
<1>3. CASE Reread(c, <<DataRead(n)>>) /\ UNCHANGED views
  <2>1. HandsBody(c, <<DataRead(n)>>)
    BY <1>3 DEF HandsBody
  <2>2. QED
    BY <2>1
<1>4. QED
  BY <1>2, <1>3 DEF DataCallback, BodyOrMore

LEMMA RequestHandsBody ==
  ASSUME NEW c \in Conns, read_pos \in [Conns -> Nat], NEW p, RequestCallback(c, p)
  PROVE  \E more : HandsBody(c, more)
<1>1. ASSUME NEW more, Reread(c, more), UNCHANGED views PROVE HandsBody(c, more)
  BY <1>1 DEF HandsBody
<1>2. ASSUME NEW STATE e, HeadComplete(c, e) PROVE \E more : HandsBody(c, more)
  <2>1. CASE DataCallback(c, buf'[c][e].len, e)
    <3>1. PICK n : n = buf'[c][e].len
      OBVIOUS
    <3>2. PICK pos : pos = e
      OBVIOUS
    <3>3. DataCallback(c, n, pos)
      BY <2>1, <3>1, <3>2
    <3>4. QED
      BY <3>3, DataHandsBody
  <2>2. CASE read_pos' = Set(read_pos, c, e) /\ Reread(c, <<>>) /\ Enqueue(c, e, 0)
    <3>1. read_pos'[c] = e
      BY <2>2 DEF Set
    <3>2. HandsBody(c, <<>>)
      BY <2>2, <3>1 DEF HandsBody, Enqueue, EnqueueView
    <3>3. QED
      BY <3>2
  <2>3. QED
    BY <1>1, <1>2, <2>1, <2>2 DEF HeadComplete
<1>3. QED
  BY <1>1, <1>2
     DEF RequestCallback, HeadCompleteThrows, HeadBad, RejectHead, HeadIncomplete, CommitHead

LEMMA ReadHandsBody ==
  ASSUME NEW c \in Conns, read_pos \in [Conns -> Nat], Read(c)
  PROVE  \E more : HandsBody(c, more)
<1>1. CASE RequestCallback(c, Head(reads[c]).parser)
  BY <1>1, RequestHandsBody
<1>2. CASE DataCallback(c, Head(reads[c]).nlen, read_pos[c])
  <2>1. PICK n : n = Head(reads[c]).nlen
    OBVIOUS
  <2>2. PICK pos : pos = read_pos[c]
    OBVIOUS
  <2>3. DataCallback(c, n, pos)
    BY <1>2, <2>1, <2>2
  <2>4. QED
    BY <2>3, DataHandsBody
<1>3. QED
  BY <1>1, <1>2 DEF Read

(* ... and commits only on its own connection.                             *)
LEMMA ReadLeavesPositions ==
  ASSUME Reading, NEW c \in Conns, Read(c), NEW d \in Conns, d # c
  PROVE  read_pos'[d] = read_pos[d]
<1>1. read_pos \in [Conns -> Nat]
  BY DEF Reading, ReadingType
<1>2. \/ UNCHANGED read_pos
      \/ \E e : read_pos' = Set(read_pos, c, e)
  <2>1. ASSUME NEW STATE e, HeadComplete(c, e) PROVE read_pos' = Set(read_pos, c, e)
    BY <2>1 DEF HeadComplete, DataCallback, BodyOrMore
  <2>2. QED
    BY <2>1 DEF Read, RequestCallback, HeadCompleteThrows, HeadBad, RejectHead,
                HeadIncomplete, CommitHead, DataCallback, BodyOrMore
<1>3. QED
  BY <1>1, <1>2 DEF Set

(* A read of a connection whose last body is an object rejects it, and any *)
(* other read hands over at most one body, where the next head begins.     *)
(* A body that is not empty has a first byte.                              *)
LEMMA FirstOfBody ==
  ASSUME NEW b, Len(b) \in Nat, NEW v \in ViewType, IsBody(b, v), v.nlen > 0
  PROVE  v.from \in Nat /\ v.from + 1 \in 1..Len(b)
<1>1. v.from \in 1..Len(b) /\ (v.nlen # Negative => v.nlen \in 0..(Len(b) - v.from))
  BY DEF IsBody
<1>2. v.nlen # Negative /\ v.nlen \in Nat
  <2>1. v.nlen \in Nat \cup {Negative}
    BY DEF ViewType, Length
  <2>2. v.nlen # Negative
    BY DEF Negative
  <2>3. QED
    BY <2>1, <2>2
<1>3. v.from \in 1..Len(b) /\ v.nlen \in 0..(Len(b) - v.from) /\ v.nlen > 0
  BY <1>1, <1>2
<1>4. QED
  BY <1>3

LEMMA ReadObjects ==
  ASSUME Reading, Framing, Objects, NEW c \in Conns, Read(c)
  PROVE  LastObject(c)' /\ views' = [views EXCEPT ![c] = views'[c]]
<1> USE DEF Reading
<1>1. PICK n \in 1..Len(wire[c]) : n <= Writeable(c) /\ Receive(c, n)
  BY DEF Read
<1>2. /\ wire[c] \in Seq(Byte) /\ buf[c] \in Seq(Byte) /\ Len(buf[c]) \in Nat
      /\ read_pos \in [Conns -> Nat] /\ reads[c] \in Seq(ReadType)
      /\ views \in [Conns -> Seq(ViewType)] /\ Len(views[c]) \in Nat
      /\ \A i \in 1..Len(views[c]) : views[c][i] \in ViewType /\ IsBody(buf[c], views[c][i])
  BY LenProperties, ElementOfSeq DEF ReadingType, Framing, FrameOf, Frame, Bodied
<1>3. /\ SubSeq(wire[c], 1, n) \in Seq(Byte) /\ Len(SubSeq(wire[c], 1, n)) = n
      /\ n \in Nat /\ n > 0
  <2>1. Len(wire[c]) \in Nat /\ \A i \in 1..Len(wire[c]) : wire[c][i] \in Byte
    BY <1>2, LenProperties, ElementOfSeq
  <2>2. QED
    BY <1>2, <2>1, SubSeqProperties
<1>4. buf'[c] = buf[c] \o SubSeq(wire[c], 1, n)
  BY <1>1 DEF Receive, ReceiveAndGrow, ReadingType
<1>5. /\ buf'[c] \in Seq(Byte) /\ Len(buf'[c]) = Len(buf[c]) + n
      /\ \A i \in 1..Len(buf[c]) : buf'[c][i] = buf[c][i]
  BY <1>2, <1>3, <1>4, ConcatProperties
<1>6. reads[c] # <<>> /\ Tail(reads[c]) = <<>>
  <2>1. reads[c] # <<>> /\ Len(reads[c]) <= 1 /\ Len(reads[c]) \in Nat
    BY <1>2, LenProperties DEF Read, OneReader
  <2>2. QED
    BY <1>2, <2>1, EmptySeq, HeadTailProperties
<1>7. ASSUME NEW i \in 1..Len(views[c])
      PROVE  Braced(buf'[c], views[c][i]) <=> Braced(buf[c], views[c][i])
  <2>1. CASE views[c][i].nlen > 0
    <3>1. views[c][i].from + 1 \in 1..Len(buf[c])
      BY <1>2, <2>1, FirstOfBody
    <3>2. QED
      BY <1>5, <3>1 DEF Braced
  <2>2. QED
    BY <2>1 DEF Braced
<1>8. CASE \E i \in 1..Len(views[c]) : Braced(buf[c], views[c][i])
  <2>1. PICK i \in 1..Len(views[c]) : Braced(buf[c], views[c][i])
    BY <1>8
  <2>2. reads[c] = <<HeadRead("fresh")>> /\ read_pos[c] = views[c][i].from /\ i = Len(views[c])
    BY <1>6, <2>1 DEF Objects, LastObject
  <2>3. Head(reads[c]).handler = "http_requestcallback" /\ Head(reads[c]).parser = "fresh"
    BY <2>2 DEF HeadRead
  <2>4. RequestCallback(c, "fresh")
    BY <2>3 DEF Read
  <2>5. Unread(c) \in Seq(Byte) /\ Unread(c) # <<>> /\ Unread(c)[1].class = "brace"
    <3>1. views[c][i].from + 1 \in 1..Len(buf[c]) /\ views[c][i].from \in Nat
      <4>1. views[c][i].nlen > 0
        BY <2>1 DEF Braced
      <4>2. QED
        BY <1>2, <4>1, FirstOfBody
    <3>2. read_pos[c] + 1 \in 1..Len(buf'[c]) /\ buf'[c][read_pos[c] + 1].class = "brace"
      BY <1>5, <2>1, <2>2, <3>1, <1>2, <1>3 DEF Braced
    <3>3. /\ Unread(c) \in Seq(Byte) /\ Len(Unread(c)) = Len(buf'[c]) - read_pos[c]
          /\ \A k \in 1..(Len(buf'[c]) - read_pos[c]) : Unread(c)[k] = buf'[c][read_pos[c] + k]
      <4>1. read_pos[c] \in Nat /\ buf'[c] \in Seq(Byte) /\ read_pos[c] <= Len(buf'[c])
        <5>1. read_pos[c] \in Nat /\ Len(buf'[c]) \in Nat
          BY <1>2, <1>3, <1>5
        <5>2. QED
          BY <1>5, <3>2, <5>1
      <4>2. QED
        BY <4>1, Suffix DEF Unread
    <3>4. 1 \in 1..(Len(buf'[c]) - read_pos[c]) /\ Len(Unread(c)) # 0
      BY <1>2, <1>3, <1>5, <3>2, <3>3
    <3>5. QED
      BY <3>2, <3>3, <3>4, EmptySeq
  <2>6. Parse("fresh", Unread(c)).result = "bad"
    BY <2>5, BraceIsRefused
  <2>7. HeadBad(c)
    BY <2>4, <2>6 DEF RequestCallback, Unread
  <2>8. reads'[c] = <<>> /\ UNCHANGED views
    BY <1>6, <2>7, EmptySeq, ConcatEmptySeq DEF HeadBad, RejectHead, Reread, ReadingType
  <2>9. \A k \in 1..Len(views[c]) : Braced(buf'[c], views[c][k]) => k = Len(views[c])
    BY <1>7 DEF Objects, LastObject
  <2>10. QED
    BY <1>2, <2>8, <2>9 DEF LastObject
<1>9. CASE \A i \in 1..Len(views[c]) : ~Braced(buf[c], views[c][i])
  <2>1. PICK more : HandsBody(c, more)
    BY <1>2, ReadHandsBody
  <2>2. CASE UNCHANGED views
    BY <1>2, <1>7, <1>9, <2>2 DEF LastObject
  <2>3. CASE /\ more \in {<<>>, <<HeadRead("fresh")>>}
             /\ \E k : views' = Push(views, c, [from |-> read_pos'[c], nlen |-> k])
    <3>1. PICK k : views' = [views EXCEPT ![c] = Append(@, [from |-> read_pos'[c], nlen |-> k])]
      BY <2>3 DEF Push
    <3> DEFINE v == [from |-> read_pos'[c], nlen |-> k]
    <3>2. reads'[c] = more
      <4>1. more \in Seq(ReadType)
        BY <2>3, ReadKinds
      <4>2. QED
        BY <1>6, <2>1, <4>1, ConcatEmptySeq DEF HandsBody, Reread, ReadingType
    <3>3. /\ views'[c] = Append(views[c], v)
          /\ Len(views'[c]) = Len(views[c]) + 1
          /\ \A i \in 1..Len(views[c]) : views'[c][i] = views[c][i]
          /\ views'[c][Len(views[c]) + 1] = v
      BY <1>2, <3>1
    <3>4. v.from = read_pos'[c]
      OBVIOUS
    <3> HIDE DEF v
    <3>5. ASSUME NEW i \in 1..Len(views'[c]), Braced(buf'[c], views'[c][i])
          PROVE  i = Len(views'[c])
      <4>1. i \notin 1..Len(views[c])
        BY <1>7, <1>9, <3>3, <3>5
      <4>2. QED
        BY <1>2, <3>3, <4>1
    <3>6. LastObject(c)'
      BY <2>3, <3>2, <3>3, <3>4, <3>5 DEF LastObject
    <3>7. QED
      BY <1>2, <3>1, <3>6
  <2>4. QED
    BY <2>1, <2>2, <2>3 DEF HandsBody
<1>10. QED
  BY <1>8, <1>9

LEMMA ObjectsKept ==
  ASSUME Reading, Objects, UNCHANGED framingVars,
         \A c \in Conns : conn'[c] = "accepted" \/ conn[c] # "accepted"
  PROVE  Objects'
BY DEF Objects, LastObject, framingVars

LEMMA NextObjects == Reading /\ Framing /\ Objects /\ [Next]_vars => Objects'
<1> SUFFICES ASSUME Reading, Framing, Objects, [Next]_vars PROVE Objects'
  OBVIOUS
<1> USE DEF framingVars, inVars, bufferVars, workVars, historyVars, clientVars
<1>1. CASE Start \/ AcceptFails \/ RunsOut \/ RunPost \/ FinishBadRequest
  BY <1>1, ObjectsKept DEF Start, AcceptFails, RunsOut, RunPost, FinishBadRequest
<1>2. ASSUME NEW c \in Conns, ClientConnects(c) \/ AcceptThrows(c) PROVE Objects'
  <2>1. \A d \in Conns : conn'[d] = "accepted" \/ conn[d] # "accepted"
    BY <1>2 DEF ClientConnects, AcceptThrows, Set, Reading, ReadingType
  <2>2. QED
    BY <1>2, <2>1, ObjectsKept DEF ClientConnects, AcceptThrows
<1>3. ASSUME NEW c \in Conns, ClientSends(c) \/ ClientLeaves(c) PROVE Objects'
  BY <1>3, ObjectsKept DEF ClientSends, ClientLeaves
<1>4. ASSUME NEW c \in Conns, Accept(c) PROVE Objects'
  <2>1. /\ conn[c] = "backlog" /\ conn' = [conn EXCEPT ![c] = "accepted"]
        /\ \A d \in Conns : d # c => reads'[d] = reads[d]
        /\ UNCHANGED <<buf, read_pos, views>>
    BY <1>4 DEF Accept, AcceptThen, Set, Push, Reading, ReadingType
  <2>2. views[c] = <<>> /\ Len(views[c]) = 0
    BY <2>1, EmptySeq DEF Objects
  <2>3. ASSUME NEW d \in Conns
        PROVE  LastObject(d)' /\ (conn'[d] # "accepted" => views'[d] = <<>>)
    <3>1. CASE d = c
      BY <2>1, <2>2, <3>1 DEF LastObject, Reading, ReadingType
    <3>2. CASE d # c
      BY <2>1, <3>2 DEF Objects, LastObject, Reading, ReadingType
    <3>3. QED
      BY <3>1, <3>2
  <2>4. QED
    BY <2>3 DEF Objects
<1>5. ASSUME NEW c \in Conns, ReadFails(c) PROVE Objects'
  <2>1. reads[c] \in Seq(ReadType) /\ Len(reads[c]) <= 1 /\ reads[c] # <<>>
    BY <1>5 DEF ReadFails, FailThen, Reading, ReadingType, OneReader
  <2>2. Tail(reads[c]) = <<>>
    BY <2>1, EmptySeq, HeadTailProperties, LenProperties
  <2>3. reads' = [reads EXCEPT ![c] = <<>>]
    BY <1>5, <2>2, EmptySeq, ConcatEmptySeq DEF ReadFails, FailThen, Reread
  <2>4. UNCHANGED <<buf, read_pos, views, conn>>
    BY <1>5 DEF ReadFails, FailThen
  <2>5. ASSUME NEW d \in Conns PROVE LastObject(d)'
    <3>1. reads'[d] = <<>> \/ reads'[d] = reads[d]
      BY <2>3 DEF Reading, ReadingType
    <3>2. QED
      BY <2>4, <3>1 DEF Objects, LastObject
  <2>6. QED
    BY <2>4, <2>5 DEF Objects
<1>6. ASSUME NEW c \in Conns, Read(c) PROVE Objects'
  <2>1. LastObject(c)' /\ views' = [views EXCEPT ![c] = views'[c]]
    BY <1>6, ReadObjects
  <2>2. UNCHANGED conn /\ conn[c] = "accepted"
    BY <1>6 DEF Read, Reading, OneReader
  <2>3. ASSUME NEW d \in Conns, d # c
        PROVE  LastObject(d)' /\ (conn'[d] # "accepted" => views'[d] = <<>>)
    <3>1. views'[d] = views[d]
      BY <2>1, <2>3 DEF Framing
    <3>2. buf'[d] = buf[d]
      <4>1. PICK n \in 1..Len(wire[c]) : Receive(c, n)
        BY <1>6 DEF Read
      <4>2. QED
        BY <2>3, <4>1 DEF Receive, ReceiveAndGrow, Reading, ReadingType
    <3>3. PICK more : HandsBody(c, more)
      BY <1>6, ReadHandsBody DEF Reading, ReadingType
    <3>4. reads'[d] = reads[d]
      BY <2>3, <3>3 DEF HandsBody, Reread, Reading, ReadingType
    <3>5. read_pos'[d] = read_pos[d]
      BY <1>6, <2>3, ReadLeavesPositions
    <3>6. QED
      BY <2>2, <3>1, <3>2, <3>4, <3>5 DEF Objects, LastObject
  <2>4. QED
    BY <2>1, <2>2, <2>3 DEF Objects
<1>7. ASSUME NEW c \in Conns, WriteSome(c) \/ WriteEnds(c) PROVE Objects'
  BY <1>7, ObjectsKept DEF WriteSome, WriteEnds
<1>8. ASSUME NEW w \in Workers, Work(w) PROVE Objects'
  BY <1>8, ObjectsKept
     DEF Work, Take, TakeLeaving, Analyze, Query, Send, Reject, FinishReject, FinishThen
<1>9. CASE UNCHANGED vars
  BY <1>9, ObjectsKept DEF vars
<1>10. QED
  BY <1>1, <1>2, <1>3, <1>4, <1>5, <1>6, <1>7, <1>8, <1>9 DEF Next, Client, Completion

LEMMA InitObjects == Init => Objects
<1> SUFFICES ASSUME Init, NEW c \in Conns PROVE LastObject(c) /\ views[c] = <<>>
  BY DEF Objects
<1>1. views[c] = <<>> /\ Len(views[c]) = 0
  BY EmptySeq DEF Init
<1>2. QED
  BY <1>1 DEF LastObject

(* A JSON object is the last body of its connection, for the next head is  *)
(* parsed from its brace on: whatever is sent behind it, nobody will be    *)
(* given it (MiniServer.cpp:90).                                           *)
THEOREM ObjectsAreLast == Safety => []ObjectBodyIsLast
<1>1. Reading /\ Framing /\ Objects => ObjectBodyIsLast
  <2> SUFFICES ASSUME Framing, Objects, NEW c \in Conns, NEW i \in DOMAIN views[c],
                      Braced(buf[c], views[c][i])
               PROVE  i = Len(views[c])
    BY DEF ObjectBodyIsLast, Braced
  <2>1. i \in 1..Len(views[c])
    BY LenProperties DEF Framing
  <2>2. QED
    BY <2>1 DEF Objects, LastObject
<1>2. QED
  BY <1>1, InitReading, InitFraming, InitObjects, NextReading, NextFraming, NextObjects,
     PTL DEF Safety
=============================================================================
