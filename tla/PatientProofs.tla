---------------------------- MODULE PatientProofs ---------------------------
(***************************************************************************)
(* What HttpServer promises a client that waits for each answer before it  *)
(* sends the next request, for any connections, workers, sizes and cuts of *)
(* the network, and for any requests that are as long as their heads say.  *)
(*                                                                         *)
(* The argument: each request becomes one body or one rejection at most    *)
(* (Once), of which each becomes one reply (EachRequestOnce); so a client  *)
(* that has got the replies to all requests but the last has at most one   *)
(* request in the server, or one reply that has not left in full           *)
(* (OneOpen).  Everything else follows from that.                          *)
(***************************************************************************)
EXTENDS AnsweringProofs

-----------------------------------------------------------------------------
(* Reading.                                                                *)

(* The heads that are complete in s behind its first pos bytes.            *)
Heads(s, pos) == {e \in (pos + 1)..Len(s) : s[e].class = "end"}

(* At most one request of s is still to be parsed behind pos, and it is    *)
(* the end of s.                                                           *)
OneLeft(s, pos) ==
    /\ \A e, f \in Heads(s, pos) : e = f
    /\ \A e \in Heads(s, pos) :
        s[e].len # Negative /\ (s[e].len \in Nat => Len(s) = e + s[e].len)

(* A body that is waited for is the end of s.                              *)
Awaited(s, pos, rs) ==
    Waits(rs) => Heads(s, pos) = {} /\ Len(s) = pos + Head(rs).nlen

(* The connection is read, or will be.                                     *)
Alive(c) == conn[c] \in {"none", "backlog"} \/ reads[c] # <<>>

(* How many requests the server has made something of.                     *)
Met(c) == Len(views[c]) + rejected[c]

(* Nothing is left to be parsed.                                           *)
Settled(c) ==
    wire[c] = <<>> /\ ~Waits(reads[c]) /\ Heads(Sent(c), read_pos[c]) = {}

Once(c) ==
    /\ Met(c) <= asked[c]
    /\ Alive(c) =>
        /\ OneLeft(Sent(c), read_pos[c])
        /\ Awaited(Sent(c), read_pos[c], reads[c])
        /\ Met(c) = asked[c] => Settled(c)

(* The only read of a connection goes on with another, or ends.            *)
LEMMA Rereads ==
  ASSUME Reading, NEW c \in Conns, reads[c] # <<>>, NEW more \in Seq(ReadType),
         Reread(c, more)
  PROVE  reads'[c] = more /\ \A d \in Conns : d # c => reads'[d] = reads[d]
<1>1. reads \in [Conns -> Seq(ReadType)] /\ Tail(reads[c]) = <<>>
  <2>1. reads[c] \in Seq(ReadType) /\ Len(reads[c]) <= 1 /\ Len(reads[c]) \in Nat
    BY LenProperties DEF Reading, ReadingType, OneReader
  <2>2. QED
    BY <2>1, EmptySeq, HeadTailProperties DEF Reading, ReadingType
<1>2. <<>> \o more = more
  BY ConcatEmptySeq
<1>3. reads' = [reads EXCEPT ![c] = more]
  BY <1>1, <1>2 DEF Reread
<1>4. QED
  BY <1>1, <1>3

(* What a handler makes of the connection that it has read: it ends the    *)
(* reading, waits for more of a head or of a body, or has handed over all  *)
(* that was sent.                                                          *)
Leaves(c) ==
    \/ reads'[c] = <<>>
    \/ /\ UNCHANGED <<views, rejected>>
       /\ read_pos'[c] \in Nat /\ read_pos'[c] >= read_pos[c]
       /\ reads'[c] # <<>> /\ ~Waits(reads'[c])
    \/ /\ UNCHANGED <<views, rejected>>
       /\ Heads(Sent(c), read_pos'[c]) = {}
       /\ Len(Sent(c)) = read_pos'[c] + Head(reads'[c]).nlen
    \/ /\ wire'[c] = <<>> /\ ~Waits(reads'[c])
       /\ Heads(Sent(c), read_pos'[c]) = {}

(* http_datacallback, for a body that is the end of what was sent.         *)
LEMMA DataLeaves ==
  ASSUME Reading, NEW c \in Conns, reads[c] # <<>>, Received(c),
         NEW n \in Nat, NEW pos \in Nat, DataCallback(c, n, pos),
         Heads(Sent(c), pos) = {}, Len(Sent(c)) = pos + n
  PROVE  Leaves(c)
<1> DEFINE B == Len(buf'[c])
           W == Len(wire'[c])
           L == Len(Sent(c))
<1>1. read_pos'[c] = pos
  BY DEF DataCallback, BodyOrMore, Set, Reading, ReadingType
<1>2. B \in Nat /\ W \in Nat /\ L = B + W /\ L = pos + n
  BY LenProperties DEF Received
<1>3. CASE B - pos >= n /\ Reread(c, <<HeadRead("fresh")>>)
  <2>1. W = 0
    <3> HIDE DEF B, W, L
    <3>1. QED
      BY <1>2, <1>3
  <2>2. wire'[c] = <<>>
    BY <2>1, EmptySeq DEF Received
  <2>3. reads'[c] = <<HeadRead("fresh")>>
    BY <1>3, ReadKinds, Rereads
  <2>4. QED
    BY <1>1, <2>2, <2>3, ReadKinds DEF Leaves
<1>4. CASE Reread(c, <<DataRead(n)>>) /\ UNCHANGED <<views, rejected>>
  <2>1. reads'[c] = <<DataRead(n)>>
    BY <1>4, ReadKinds, Rereads
  <2>2. QED
    BY <1>1, <1>4, <2>1, ReadKinds DEF Leaves
<1>5. QED
  BY <1>3, <1>4 DEF DataCallback, BodyOrMore

(* http_requestcallback, where one request at most is left.                *)
LEMMA RequestLeaves ==
  ASSUME Reading, NEW c \in Conns, reads[c] # <<>>, Received(c), NEW p \in ParserState,
         RequestCallback(c, p), OneLeft(Sent(c), read_pos[c])
  PROVE  Leaves(c)
<1> DEFINE s == Sent(c)
           b == buf'[c]
           pos == read_pos[c]
           scan == Parse(p, Unread(c))
           e == pos + scan.consumed
<1>1. /\ pos \in Nat /\ pos <= Len(b) /\ b \in Seq(Byte)
      /\ Len(b) \in Nat /\ Len(s) \in Nat /\ Len(b) <= Len(s)
      /\ \A i \in 1..Len(b) : b[i] = s[i]
  <2>1. Len(b) \in Nat /\ Len(wire'[c]) \in Nat
    BY LenProperties DEF Received
  <2>2. Len(s) = Len(b) + Len(wire'[c])
    BY DEF Received
  <2>3. Len(s) \in Nat /\ Len(b) <= Len(s)
    <3> HIDE DEF s, b
    <3>1. QED
      BY <2>1, <2>2
  <2>4. pos \in 0..Len(b) /\ b \in Seq(Byte) /\ \A i \in 1..Len(b) : b[i] = s[i]
    BY DEF Received
  <2> HIDE DEF s, b, pos
  <2>5. pos \in Nat /\ pos <= Len(b)
    BY <2>1, <2>4
  <2>6. QED
    BY <2>1, <2>3, <2>4, <2>5
<1>2. OneLeft(s, pos)
  OBVIOUS
<1>3. CASE Reread(c, <<>>)
  <2>1. reads'[c] = <<>>
    BY <1>3, ReadKinds, Rereads
  <2>2. QED
    BY <2>1 DEF Leaves
<1>4. CASE HeadIncomplete(c)
  <2>1. /\ reads'[c] = <<HeadRead("begun")>> /\ read_pos'[c] = Len(buf'[c])
        /\ UNCHANGED <<views, rejected>>
    BY <1>4, ReadKinds, Rereads DEF HeadIncomplete, CommitHead, Set, Reading, ReadingType
  <2>2. QED
    BY <1>1, <2>1, ReadKinds DEF Leaves
<1>5. CASE scan.result = "good" /\ HeadComplete(c, e)
  <2>1. /\ Unread(c) \in Seq(Byte)
        /\ Len(Unread(c)) = Len(b) - pos
        /\ \A i \in 1..(Len(b) - pos) : Unread(c)[i] = b[pos + i]
    <3>1. Unread(c) = SubSeq(b, pos + 1, Len(b))
      BY DEF Unread
    <3> HIDE DEF b, pos, s, scan
    <3>2. QED
      BY <1>1, <3>1, Suffix
  <2>2. scan.consumed \in 1..Len(Unread(c)) /\ Unread(c)[scan.consumed].class = "end"
    BY <1>5, <2>1, ParseStops
  <2>3. HeadComplete(c, e)
    BY <1>5
  <2>4. e = pos + scan.consumed
    OBVIOUS
  <2> HIDE DEF s, b, pos, scan, e
  <2>5. /\ e \in Nat /\ e \in (pos + 1)..Len(b) /\ e \in 1..Len(b)
        /\ b[e].class = "end"
    <3>1. PICK k : k = scan.consumed
      OBVIOUS
    <3>2. k \in 1..(Len(b) - pos) /\ e = pos + k /\ Unread(c)[k].class = "end"
      BY <2>1, <2>2, <2>4, <3>1
    <3>3. e \in Nat /\ e \in (pos + 1)..Len(b) /\ e \in 1..Len(b)
      BY <1>1, <3>2
    <3>4. Unread(c)[k] = b[e]
      BY <2>1, <3>2
    <3>5. QED
      BY <3>2, <3>3, <3>4
  <2>6. e \in (pos + 1)..Len(s)
    BY <1>1, <2>5
  <2>7. b[e] = s[e] /\ e \in Heads(s, pos)
    BY <1>1, <2>5, <2>6 DEF Heads
  <2>8. Heads(s, e) = {}
    <3>1. ASSUME NEW f \in Heads(s, e) PROVE FALSE
      <4>1. f \in (e + 1)..Len(s) /\ s[f].class = "end"
        BY <3>1 DEF Heads
      <4>2. f \in (pos + 1)..Len(s) /\ f # e
        BY <1>1, <2>5, <4>1
      <4>3. f \in Heads(s, pos)
        BY <4>1, <4>2 DEF Heads
      <4>4. QED
        BY <1>2, <2>7, <4>2, <4>3 DEF OneLeft
    <3>2. QED
      BY <3>1
  <2>9. b[e].len # Negative /\ (b[e].len \in Nat => Len(s) = e + b[e].len)
    BY <1>2, <2>7 DEF OneLeft
  <2>10. CASE b[e].len \in Nat /\ DataCallback(c, b[e].len, e)
    <3>1. PICK n : n = b[e].len
      OBVIOUS
    <3>2. PICK at : at = e
      OBVIOUS
    <3>3. n \in Nat /\ at \in Nat /\ DataCallback(c, n, at)
      BY <2>5, <2>10, <3>1, <3>2
    <3>4. Heads(Sent(c), at) = {} /\ Len(Sent(c)) = at + n
      BY <2>8, <2>9, <3>1, <3>2, <3>3 DEF s
    <3>5. QED
      BY <3>3, <3>4, DataLeaves
  <2>11. CASE Reread(c, <<>>)
    BY <1>3, <2>11
  <2>12. QED
    <3>1. \/ b[e].len \in Nat \cup {Negative} /\ DataCallback(c, b[e].len, e)
          \/ Reread(c, <<>>)
      BY <2>3 DEF HeadComplete, b
    <3>2. QED
      BY <2>9, <2>10, <2>11, <3>1
<1>6. QED
  BY <1>3, <1>4, <1>5 DEF RequestCallback, HeadCompleteThrows, HeadBad, RejectHead, Unread

(* What is behind a later position is behind an earlier one.               *)
LEMMA LaterHeads ==
  ASSUME NEW s \in Seq(Byte), NEW pos \in Nat, NEW q \in Nat, pos <= q
  PROVE  Heads(s, q) \subseteq Heads(s, pos)
<1>1. Len(s) \in Nat
  BY LenProperties
<1>2. QED
  BY <1>1 DEF Heads

(* A read meets one request at most, where one is left to be met.          *)
LEMMA ReadMeets ==
  ASSUME Reading, Framing, NEW c \in Conns, Read(c)
  PROVE  /\ Met(c) \in Nat /\ Met(c)' \in Nat
         /\ Met(c)' \in {Met(c), Met(c) + 1}
         /\ UNCHANGED <<views, rejected>> => Met(c)' = Met(c)
<1> DEFINE v == Len(views[c])
           r == rejected[c]
<1>1. /\ views \in [Conns -> Seq(ViewType)] /\ rejected \in [Conns -> Nat]
      /\ views[c] \in Seq(ViewType) /\ v \in Nat /\ r \in Nat
  BY LenProperties DEF Framing, Reading, ReadingType
<1>2. /\ Met(c) = v + r /\ Met(c)' = Len(views'[c]) + rejected'[c]
      /\ v + r \in Nat /\ v + r + 1 \in Nat
  BY <1>1 DEF Met
<1>3. UNCHANGED <<views, rejected>> => Met(c)' = Met(c)
  BY DEF Met
<1>4. CASE Hands(c)
  <2>1. PICK x \in ViewType : views' = [views EXCEPT ![c] = Append(views[c], x)]
    BY <1>4 DEF Hands, Push, ViewOf, ViewType, TaskType
  <2>2. views'[c] = Append(views[c], x) /\ rejected'[c] = r
    BY <1>1, <1>4, <2>1 DEF Hands
  <2>3. Len(views'[c]) = v + 1
    BY <1>1, <2>2, AppendProperties
  <2> HIDE DEF v, r
  <2>4. (v + 1) + r = v + r + 1
    BY <1>1
  <2>5. QED
    BY <1>2, <1>3, <2>2, <2>3, <2>4
<1>5. CASE Rejects(c)
  <2>1. rejected'[c] = r + 1 /\ Len(views'[c]) = v
    BY <1>1, <1>5 DEF Rejects
  <2> HIDE DEF v, r
  <2>2. v + (r + 1) = v + r + 1
    BY <1>1
  <2>3. QED
    BY <1>2, <1>3, <2>1, <2>2
<1>6. QED
  BY <1>2, <1>3, <1>4, <1>5, ReadDoes DEF Quiet

LEMMA ReadOnce ==
  ASSUME Reading, Framing, Types, NEW c \in Conns, Read(c), Once(c)
  PROVE  Met(c) < asked[c] /\ Once(c)'
<1> USE DEF Reading
<1>1. PICK n \in 1..Len(wire[c]) : n <= Writeable(c) /\ Receive(c, n)
  BY DEF Read
<1>2. Received(c)
  BY <1>1, ReceivesSent
<1>3. reads[c] # <<>> /\ Alive(c) /\ asked'[c] = asked[c] /\ asked[c] \in Nat
  <2>1. asked[c] \in 0..MaxRequests
    BY DEF Types, OutsideTypes
  <2>2. QED
    BY <2>1, ServerAssumption DEF Read, clientVars, Alive, ServerAssumption
<1>4. wire[c] # <<>>
  <2>1. Len(wire[c]) # 0
    BY <1>1
  <2>2. QED
    BY <2>1, EmptySeq
<1>5. /\ Met(c) \in Nat /\ Met(c)' \in Nat
      /\ Met(c)' \in {Met(c), Met(c) + 1}
      /\ UNCHANGED <<views, rejected>> => Met(c)' = Met(c)
  BY ReadMeets
<1>6. Met(c) < asked[c]
  <2>1. Met(c) <= asked[c] /\ Met(c) # asked[c]
    BY <1>3, <1>4 DEF Once, Settled
  <2>2. QED
    BY <1>3, <1>5, <2>1
<1>7. OneLeft(Sent(c), read_pos[c]) /\ Awaited(Sent(c), read_pos[c], reads[c])
  BY <1>3 DEF Once
<1>8. Leaves(c)
  <2>1. Head(reads[c]) \in ReadType
    BY <1>3, HeadTailProperties DEF ReadingType
  <2>2. CASE RequestCallback(c, Head(reads[c]).parser)
    BY <1>2, <1>3, <1>7, <2>1, <2>2, RequestLeaves DEF ReadType
  <2>3. CASE /\ Head(reads[c]).handler = "http_datacallback"
             /\ DataCallback(c, Head(reads[c]).nlen, read_pos[c])
    <3>1. Heads(Sent(c), read_pos[c]) = {} /\ Len(Sent(c)) = read_pos[c] + Head(reads[c]).nlen
      BY <1>3, <1>7, <2>3 DEF Awaited, Waits
    <3>2. PICK k : k = Head(reads[c]).nlen
      OBVIOUS
    <3>3. PICK pos : pos = read_pos[c]
      OBVIOUS
    <3>4. k \in Nat /\ pos \in Nat
      BY <2>1, <3>2, <3>3 DEF ReadType, ReadingType
    <3>5. /\ DataCallback(c, k, pos)
          /\ Heads(Sent(c), pos) = {} /\ Len(Sent(c)) = pos + k
      BY <2>3, <3>1, <3>2, <3>3
    <3>6. QED
      BY <1>2, <1>3, <3>4, <3>5, DataLeaves
  <2>4. QED
    BY <2>2, <2>3 DEF Read
<1>9. Met(c)' <= asked'[c]
  BY <1>3, <1>5, <1>6
<1>10. ASSUME reads'[c] # <<>>
       PROVE  /\ OneLeft(Sent(c), read_pos'[c])
              /\ Awaited(Sent(c), read_pos'[c], reads'[c])
              /\ Met(c)' = asked'[c] =>
                    wire'[c] = <<>> /\ ~Waits(reads'[c]) /\ Heads(Sent(c), read_pos'[c]) = {}
  <2>1. ASSUME UNCHANGED <<views, rejected>> PROVE Met(c)' # asked'[c]
    BY <1>3, <1>5, <1>6, <2>1
  <2>2. CASE /\ UNCHANGED <<views, rejected>>
             /\ read_pos'[c] \in Nat /\ read_pos'[c] >= read_pos[c]
             /\ ~Waits(reads'[c])
    <3>1. Heads(Sent(c), read_pos'[c]) \subseteq Heads(Sent(c), read_pos[c])
      <4>1. PICK q : q = read_pos'[c]
        OBVIOUS
      <4>2. q \in Nat /\ read_pos[c] \in Nat /\ read_pos[c] <= q /\ Sent(c) \in Seq(Byte)
        BY <1>2, <2>2, <4>1 DEF Received, ReadingType
      <4>3. QED
        BY <4>1, <4>2, LaterHeads
    <3>2. OneLeft(Sent(c), read_pos'[c])
      BY <1>7, <3>1 DEF OneLeft
    <3>3. QED
      BY <2>1, <2>2, <3>2 DEF Awaited
  <2>3. CASE /\ UNCHANGED <<views, rejected>>
             /\ Heads(Sent(c), read_pos'[c]) = {}
             /\ Len(Sent(c)) = read_pos'[c] + Head(reads'[c]).nlen
    BY <2>1, <2>3 DEF OneLeft, Awaited
  <2>4. CASE /\ wire'[c] = <<>> /\ ~Waits(reads'[c])
             /\ Heads(Sent(c), read_pos'[c]) = {}
    BY <2>4 DEF OneLeft, Awaited
  <2>5. QED
    BY <1>8, <1>10, <2>2, <2>3, <2>4 DEF Leaves
<1>11. Alive(c)' => reads'[c] # <<>>
  <2>1. conn[c] = "accepted" /\ conn'[c] = conn[c]
    BY <1>3 DEF OneReader, Read, clientVars, ReadingType
  <2>2. QED
    BY <2>1 DEF Alive
<1>12. Sent(c)' = Sent(c)
  BY <1>2 DEF Received
<1>13. QED
  BY <1>6, <1>9, <1>10, <1>11, <1>12 DEF Once, Settled

(* Each request is met once at most.                                       *)
EachOnce == \A c \in Conns : Once(c)

(* What keeps a connection as it is, but for its reads, which may end or   *)
(* begin with a head.                                                      *)
Still(c) ==
    /\ buf'[c] = buf[c] /\ wire'[c] = wire[c] /\ read_pos'[c] = read_pos[c]
    /\ views'[c] = views[c] /\ rejected'[c] = rejected[c] /\ asked'[c] = asked[c]
    /\ reads'[c] = reads[c] \/ ~Waits(reads'[c])
    /\ Alive(c)' => Alive(c)

LEMMA StillOnce == ASSUME NEW c \in Conns, Once(c), Still(c) PROVE Once(c)'
BY DEF Still, Once, Met, Sent, Settled, Awaited

(* A read concerns one connection.                                         *)
Elsewhere(c) ==
    \A d \in Conns : d # c =>
        /\ buf'[d] = buf[d] /\ wire'[d] = wire[d] /\ size'[d] = size[d]
        /\ read_pos'[d] = read_pos[d] /\ reads'[d] = reads[d]
        /\ views'[d] = views[d] /\ rejected'[d] = rejected[d]
        /\ writes'[d] = writes[d] /\ out'[d] = out[d] /\ replies'[d] = replies[d]

LEMMA ReadElsewhere ==
  ASSUME Reading, Framing, Types, NEW c \in Conns, Read(c)
  PROVE  Elsewhere(c)
<1> SUFFICES ASSUME NEW d \in Conns, d # c
             PROVE  /\ buf'[d] = buf[d] /\ wire'[d] = wire[d] /\ size'[d] = size[d]
                    /\ read_pos'[d] = read_pos[d] /\ reads'[d] = reads[d]
                    /\ views'[d] = views[d] /\ rejected'[d] = rejected[d]
                    /\ writes'[d] = writes[d] /\ out'[d] = out[d]
                    /\ replies'[d] = replies[d]
  BY DEF Elsewhere
<1>1. buf'[d] = buf[d] /\ wire'[d] = wire[d] /\ size'[d] = size[d]
  <2>1. PICK n \in 1..Len(wire[c]) : Receive(c, n)
    BY DEF Read
  <2>2. QED
    BY <2>1 DEF Receive, ReceiveAndGrow, Reading, ReadingType
<1>2. read_pos'[d] = read_pos[d]
  BY ReadLeavesPositions
<1>3. reads'[d] = reads[d]
  <2>1. PICK more : HandsBody(c, more)
    BY ReadHandsBody DEF Reading, ReadingType
  <2>2. QED
    BY <2>1 DEF HandsBody, Reread, Reading, ReadingType
<1>4. /\ views'[d] = views[d] /\ rejected'[d] = rejected[d]
      /\ writes'[d] = writes[d] /\ out'[d] = out[d] /\ replies'[d] = replies[d]
  <2>1. CASE Quiet
    BY <2>1 DEF Quiet, replyVars
  <2>2. CASE Hands(c)
    BY <2>2 DEF Hands, Push, replyVars, Framing
  <2>3. CASE Rejects(c)
    <3>1. PICK k \in 0..Chunks : AsyncWrite(c, NextReply(c), k)
      BY <2>3 DEF Rejects, WriteBadRequest
    <3>2. replies' = [replies EXCEPT ![c] = Append(replies[c], "bad")]
      BY <2>3 DEF Rejects, WriteBadRequest, Push
    <3>3. QED
      BY <2>3, <3>1, <3>2 DEF Rejects, AsyncWrite, Types, ReplyTypes, Reading, ReadingType
  <2>4. QED
    BY <2>1, <2>2, <2>3, ReadDoes
<1>5. QED
  BY <1>1, <1>2, <1>3, <1>4

-----------------------------------------------------------------------------
(* Sending.                                                                *)

(* A client has received no more replies than there are.                   *)
LEMMA DeliveredCount ==
  ASSUME Types, NEW c \in Conns
  PROVE  /\ Len(replies[c]) \in Nat /\ DOMAIN replies[c] = 1..Len(replies[c])
         /\ IsFiniteSet(Delivered(c)) /\ Cardinality(Delivered(c)) \in Nat
         /\ Cardinality(Delivered(c)) <= Len(replies[c])
<1>1. Len(replies[c]) \in Nat /\ DOMAIN replies[c] = 1..Len(replies[c])
  BY LenProperties DEF Types, ReplyTypes
<1>2. Delivered(c) \in SUBSET (1..Len(replies[c]))
  BY <1>1 DEF Delivered
<1>3. /\ IsFiniteSet(1..Len(replies[c]))
      /\ Cardinality(1..Len(replies[c])) = Len(replies[c])
  <2>1. PICK n \in Nat : n = Len(replies[c])
    BY <1>1
  <2>2. IsFiniteSet(1..n) /\ Cardinality(1..n) = n
    BY <2>1, FS_Interval
  <2>3. QED
    BY <2>1, <2>2
<1>4. /\ IsFiniteSet(Delivered(c))
      /\ Cardinality(Delivered(c)) <= Cardinality(1..Len(replies[c]))
  BY <1>2, <1>3, FS_Subset
<1>5. QED
  BY <1>1, <1>3, <1>4, FS_CardinalityType

(* ... and each of them is for a request that was met.                     *)
LEMMA RepliesMet ==
  ASSUME Reading, Framing, Types, EachRequestOnce, NEW c \in Conns
  PROVE  /\ Met(c) \in Nat /\ Len(replies[c]) <= Met(c)
         /\ Cardinality(Delivered(c)) <= Met(c)
<1>1. /\ Len(views[c]) + rejected[c] =
            Cardinality(Queued(c)) + Cardinality(Unanswered(c))
                + Len(replies[c]) + failed[c]
      /\ Len(views[c]) \in Nat /\ rejected[c] \in Nat
      /\ Cardinality(Queued(c)) \in Nat /\ Cardinality(Unanswered(c)) \in Nat
      /\ Len(replies[c]) \in Nat /\ failed[c] \in Nat
  BY AccountTypes DEF EachRequestOnce, Types
<1>2. Cardinality(Delivered(c)) \in Nat /\ Cardinality(Delivered(c)) <= Len(replies[c])
  BY DeliveredCount
<1>3. QED
  BY <1>1, <1>2 DEF Met

(* The request that is sent when nothing is left is the only one left.     *)
LEMMA OnlyRequest ==
  ASSUME NEW b \in Seq(Byte), NEW r \in Seq(Byte), NEW pos \in Nat, pos <= Len(b),
         Heads(b, pos) = {}, OneRequest(r)
  PROVE  OneLeft(b \o r, pos)
<1> DEFINE s == b \o r
           n == Len(b)
<1>1. /\ Len(b) \in Nat /\ Len(r) \in Nat /\ Len(s) \in Nat /\ DOMAIN r = 1..Len(r)
      /\ s \in Seq(Byte) /\ Len(s) = Len(b) + Len(r)
      /\ \A i \in 1..Len(b) : s[i] = b[i]
      /\ \A i \in (Len(b) + 1)..Len(s) : s[i] = r[i - Len(b)]
  BY LenProperties, ConcatProperties
<1> HIDE DEF s
<1>2. ASSUME NEW e \in Heads(s, pos)
      PROVE  e \in Nat /\ e - n \in 1..Len(r) /\ e - n \in Ends(r) /\ s[e] = r[e - n]
  <2>1. e \in (pos + 1)..Len(s) /\ s[e].class = "end"
    BY <1>2 DEF Heads
  <2>2. ~(e <= n)
    <3>1. ASSUME e <= n PROVE FALSE
      <4>1. e \in (pos + 1)..Len(b) /\ e \in 1..Len(b)
        BY <1>1, <2>1, <3>1
      <4>2. e \in Heads(b, pos)
        BY <1>1, <2>1, <4>1 DEF Heads
      <4>3. QED
        BY <4>2
    <3>2. QED
      BY <3>1
  <2>3. e \in (n + 1)..Len(s) /\ e - n \in 1..Len(r) /\ e \in Nat
    BY <1>1, <2>1, <2>2
  <2>4. s[e] = r[e - n]
    BY <1>1, <2>3
  <2>5. e - n \in Ends(r)
    BY <1>1, <2>1, <2>3, <2>4 DEF Ends
  <2>6. QED
    BY <2>3, <2>4, <2>5
<1>3. ASSUME NEW e \in Heads(s, pos), NEW f \in Heads(s, pos) PROVE e = f
  <2>1. e - n = f - n
    BY <1>2, <1>3 DEF OneRequest, OneHead
  <2>2. e \in Nat /\ f \in Nat /\ n \in Nat
    BY <1>1, <1>2, <1>3
  <2> HIDE DEF n
  <2>3. QED
    BY <2>1, <2>2
<1>4. ASSUME NEW e \in Heads(s, pos)
      PROVE  s[e].len # Negative /\ (s[e].len \in Nat => Len(s) = e + s[e].len)
  <2>1. /\ r[e - n].len # Negative
        /\ r[e - n].len \in Nat => Len(r) = (e - n) + r[e - n].len
    BY <1>2, <1>4 DEF OneRequest
  <2>2. PICK l : l = r[e - n].len
    OBVIOUS
  <2>3. s[e].len = l /\ e \in Nat /\ n \in Nat /\ Len(r) \in Nat /\ Len(s) = n + Len(r)
    BY <1>1, <1>2, <1>4, <2>2
  <2>4. l \in Nat => Len(r) = (e - n) + l
    BY <2>1, <2>2
  <2>5. l # Negative
    BY <2>1, <2>2
  <2> HIDE DEF n
  <2>6. ASSUME l \in Nat PROVE Len(s) = e + l
    BY <2>3, <2>4, <2>6
  <2>7. QED
    BY <2>3, <2>5, <2>6
<1>5. QED
  BY <1>3, <1>4 DEF OneLeft, s

LEMMA SendsOnce ==
  ASSUME Patient, \A r \in Requests : OneRequest(r),
         Reading, Framing, Types, EachRequestOnce,
         NEW c \in Conns, ClientSends(c), Once(c)
  PROVE  Once(c)'
<1>1. /\ asked[c] \in Nat /\ asked'[c] = asked[c] + 1
      /\ Cardinality(Delivered(c)) = asked[c]
  <2>1. asked \in [Conns -> 0..MaxRequests]
    BY DEF Types, OutsideTypes
  <2>2. QED
    BY <2>1, ServerAssumption DEF ClientSends, ServerAssumption
<1>2. /\ UNCHANGED <<buf, read_pos, reads, conn, views, rejected>>
      /\ Met(c)' = Met(c) /\ (Alive(c)' <=> Alive(c))
  BY DEF ClientSends, bufferVars, workVars, historyVars, Met, Alive
<1>3. Met(c) \in Nat /\ Met(c) = asked[c]
  <2>1. Met(c) \in Nat /\ Cardinality(Delivered(c)) <= Met(c)
    BY RepliesMet
  <2>2. Met(c) <= asked[c]
    BY DEF Once
  <2>3. QED
    BY <1>1, <2>1, <2>2
<1>4. Met(c)' <= asked'[c] /\ Met(c)' # asked'[c]
  BY <1>1, <1>2, <1>3
<1>5. CASE Alive(c)
  <2>1. wire[c] = <<>> /\ ~Waits(reads[c]) /\ Heads(Sent(c), read_pos[c]) = {}
    BY <1>3, <1>5 DEF Once, Settled
  <2>2. PICK r \in Requests : wire' = [wire EXCEPT ![c] = wire[c] \o r]
    BY DEF ClientSends
  <2>3. PICK b \in Seq(Byte) : b = buf[c]
    BY DEF Reading, ReadingType
  <2>4. PICK pos \in Nat : pos = read_pos[c]
    BY DEF Reading, ReadingType
  <2>5. r \in Seq(Byte) /\ OneRequest(r)
    BY <2>2, ServerAssumption DEF ServerAssumption
  <2>6. wire'[c] = r /\ Sent(c)' = b \o r
    <3>1. <<>> \o r = r
      BY <2>5, ConcatEmptySeq
    <3>2. wire'[c] = r
      BY <2>1, <2>2, <3>1 DEF Reading, ReadingType
    <3>3. QED
      BY <1>2, <2>3, <3>2 DEF Sent
  <2>7. Sent(c) = b
    BY <2>1, <2>3, ConcatEmptySeq DEF Sent
  <2>8. Heads(b, pos) = {} /\ pos <= Len(b)
    BY <2>1, <2>3, <2>4, <2>7 DEF Reading, Committed
  <2>9. OneLeft(b \o r, pos)
    BY <2>5, <2>8, OnlyRequest
  <2>10. OneLeft(Sent(c), read_pos[c])'
    BY <1>2, <2>4, <2>6, <2>9
  <2>11. ~Waits(reads[c])'
    BY <1>2, <2>1
  <2>12. QED
    BY <1>4, <2>10, <2>11 DEF Once, Awaited
<1>6. QED
  BY <1>2, <1>4, <1>5 DEF Once

LEMMA NextOnce ==
  ASSUME Patient, \A r \in Requests : OneRequest(r),
         Reading, Framing, Types, EachRequestOnce, EachOnce, [Next]_vars
  PROVE  EachOnce'
<1> SUFFICES ASSUME NEW d \in Conns PROVE Once(d)'
  BY DEF EachOnce
<1> USE DEF inVars, bufferVars, clientVars, workVars, historyVars
<1>0. Once(d)
  BY DEF EachOnce
<1>1. CASE UNCHANGED <<conn, asked, inVars, views, rejected>>
  <2>1. Still(d)
    BY <1>1 DEF Still, Alive
  <2>2. QED
    BY <1>0, <2>1, StillOnce
<1>2. CASE Start \/ AcceptFails \/ RunsOut \/ RunPost \/ FinishBadRequest
  BY <1>1, <1>2 DEF Start, AcceptFails, RunsOut, RunPost, FinishBadRequest
<1>3. ASSUME NEW c \in Conns, ClientConnects(c) \/ AcceptThrows(c) PROVE Once(d)'
  <2>1. /\ UNCHANGED <<asked, inVars, views, rejected>>
        /\ Alive(d)' => Alive(d)
    BY <1>3 DEF ClientConnects, AcceptThrows, Set, Alive, Reading, ReadingType
  <2>2. Still(d)
    BY <2>1 DEF Still
  <2>3. QED
    BY <1>0, <2>2, StillOnce
<1>4. ASSUME NEW c \in Conns, ClientSends(c) PROVE Once(d)'
  <2>1. CASE d = c
    BY <1>0, <1>4, <2>1, SendsOnce
  <2>2. CASE d # c
    <3>1. /\ UNCHANGED <<conn, bufferVars, reads, views, rejected>>
          /\ asked'[d] = asked[d] /\ wire'[d] = wire[d]
      BY <1>4, <2>2 DEF ClientSends, Reading, ReadingType, Types, OutsideTypes
    <3>2. Still(d)
      BY <3>1 DEF Still, Alive
    <3>3. QED
      BY <1>0, <3>2, StillOnce
  <2>3. QED
    BY <2>1, <2>2
<1>5. ASSUME NEW c \in Conns, ClientLeaves(c) PROVE Once(d)'
  BY <1>1, <1>5 DEF ClientLeaves
<1>6. ASSUME NEW c \in Conns, Accept(c) PROVE Once(d)'
  <2>1. /\ UNCHANGED <<asked, wire, bufferVars, views, rejected>>
        /\ conn[c] = "backlog" /\ reads[c] = <<>>
        /\ conn'[d] = IF d = c THEN "accepted" ELSE conn[d]
        /\ reads'[d] = IF d = c THEN Append(reads[c], HeadRead("fresh")) ELSE reads[d]
    BY <1>6 DEF Accept, AcceptThen, Set, Push, Reading, ReadingType, OneReader
  <2>2. CASE d = c
    <3>1. reads'[d] = <<HeadRead("fresh")>>
      <4>1. Append(<<>>, HeadRead("fresh")) = <<HeadRead("fresh")>>
        OBVIOUS
      <4>2. QED
        BY <2>1, <2>2, <4>1
    <3>2. ~Waits(reads'[d])
      BY <3>1, ReadKinds
    <3>3. Alive(d)
      BY <2>1, <2>2 DEF Alive
    <3>4. Still(d)
      BY <2>1, <3>2, <3>3 DEF Still
    <3>5. QED
      BY <1>0, <3>4, StillOnce
  <2>3. CASE d # c
    <3>1. Still(d)
      BY <2>1, <2>3 DEF Still, Alive
    <3>2. QED
      BY <1>0, <3>1, StillOnce
  <2>4. QED
    BY <2>2, <2>3
<1>7. ASSUME NEW c \in Conns, ReadFails(c) PROVE Once(d)'
  <2>1. /\ reads[c] # <<>> /\ Reread(c, <<>>)
        /\ UNCHANGED <<conn, asked, wire, bufferVars, views, rejected>>
    BY <1>7 DEF ReadFails, FailThen
  <2>2. reads'[c] = <<>> /\ \A e \in Conns : e # c => reads'[e] = reads[e]
    BY <2>1, ReadKinds, Rereads
  <2>3. Still(d)
    BY <2>1, <2>2, ReadKinds DEF Still, Alive
  <2>4. QED
    BY <1>0, <2>3, StillOnce
<1>8. ASSUME NEW c \in Conns, Read(c) PROVE Once(d)'
  <2>1. CASE d = c
    BY <1>0, <1>8, <2>1, ReadOnce
  <2>2. CASE d # c
    <3>1. Elsewhere(c) /\ UNCHANGED <<conn, asked>>
      BY <1>8, ReadElsewhere DEF Read
    <3>2. Still(d)
      BY <2>2, <3>1 DEF Still, Elsewhere, Alive
    <3>3. QED
      BY <1>0, <3>2, StillOnce
  <2>3. QED
    BY <2>1, <2>2
<1>9. ASSUME NEW c \in Conns, WriteSome(c) \/ WriteEnds(c) PROVE Once(d)'
  BY <1>1, <1>9 DEF WriteSome, WriteEnds
<1>10. ASSUME NEW w \in Workers, Work(w) PROVE Once(d)'
  BY <1>1, <1>10
     DEF Work, Take, TakeLeaving, Analyze, Query, Send, Reject, FinishReject, FinishThen
<1>11. CASE UNCHANGED vars
  BY <1>1, <1>11 DEF vars
<1>12. QED
  BY <1>2, <1>3, <1>4, <1>5, <1>6, <1>7, <1>8, <1>9, <1>10, <1>11
     DEF Next, Client, Completion

LEMMA InitOnce == Init => EachOnce
<1> SUFFICES ASSUME Init, NEW c \in Conns PROVE Once(c)
  BY DEF EachOnce
<1>1. /\ buf[c] = <<>> /\ wire[c] = <<>> /\ reads[c] = <<>> /\ views[c] = <<>>
      /\ asked[c] = 0 /\ rejected[c] = 0
  BY DEF Init
<1>2. Sent(c) = <<>> /\ Len(Sent(c)) = 0 /\ Met(c) = 0
  BY <1>1, EmptySeq, ConcatEmptySeq DEF Sent, Met
<1>3. \A pos \in Nat : Heads(Sent(c), pos) = {}
  BY <1>2 DEF Heads
<1>4. read_pos[c] \in Nat
  BY DEF Init
<1>5. QED
  BY <1>1, <1>2, <1>3, <1>4, ReadKinds DEF Once, OneLeft, Awaited, Settled

-----------------------------------------------------------------------------
(* Writing: a reply leaves as far as its write says, and only once.        *)

Number == Nat \ {0}

(* How much of reply r has left.                                           *)
Count(s, r) == Cardinality({i \in DOMAIN s : s[i] = r})

(* t is s and k chunks of r.                                               *)
Adds(s, r, k, t) ==
    /\ t \in Seq(Number) /\ Len(t) = Len(s) + k
    /\ \A i \in 1..Len(s) : t[i] = s[i]
    /\ \A i \in 1..Len(t) : i > Len(s) => t[i] = r

LEMMA Added ==
  ASSUME NEW s \in Seq(Number), NEW r \in Number, NEW k \in Nat
  PROVE  Adds(s, r, k, s \o [i \in 1..k |-> r])
<1>0. PICK x : x = [i \in 1..k |-> r]
  OBVIOUS
<1>1. x \in Seq(Number) /\ Len(x) = k /\ \A i \in 1..k : x[i] = r
  BY <1>0
<1>2. Len(s) \in Nat
  BY LenProperties
<1>3. /\ s \o x \in Seq(Number) /\ Len(s \o x) = Len(s) + k
      /\ \A i \in 1..Len(s) : (s \o x)[i] = s[i]
      /\ \A i \in (Len(s) + 1)..Len(s \o x) : (s \o x)[i] = x[i - Len(s)]
  BY <1>1, <1>2, ConcatProperties
<1>4. ASSUME NEW i \in 1..Len(s \o x), i > Len(s) PROVE (s \o x)[i] = r
  <2>1. i \in (Len(s) + 1)..Len(s \o x) /\ i - Len(s) \in 1..k
    BY <1>2, <1>3, <1>4
  <2>2. QED
    BY <1>1, <1>3, <2>1
<1>5. QED
  BY <1>0, <1>3, <1>4 DEF Adds

LEMMA CountTypes ==
  ASSUME NEW s \in Seq(Number), NEW r
  PROVE  /\ Len(s) \in Nat /\ DOMAIN s = 1..Len(s)
         /\ IsFiniteSet({i \in 1..Len(s) : s[i] = r})
         /\ Count(s, r) = Cardinality({i \in 1..Len(s) : s[i] = r})
         /\ Count(s, r) \in Nat
<1>1. Len(s) \in Nat /\ DOMAIN s = 1..Len(s)
  BY LenProperties
<1>2. IsFiniteSet(1..Len(s)) /\ {i \in 1..Len(s) : s[i] = r} \in SUBSET (1..Len(s))
  BY <1>1, FS_Interval
<1>3. IsFiniteSet({i \in 1..Len(s) : s[i] = r})
  BY <1>2, FS_Subset
<1>4. QED
  BY <1>1, <1>3, FS_CardinalityType DEF Count

LEMMA CountAdded ==
  ASSUME NEW s \in Seq(Number), NEW r \in Number, NEW k \in Nat,
         NEW t \in Seq(Number), Adds(s, r, k, t), NEW q
  PROVE  /\ q = r => Count(t, q) = Count(s, q) + k
         /\ q # r => Count(t, q) = Count(s, q)
<1> DEFINE S == {i \in 1..Len(s) : s[i] = q}
           T == {i \in 1..Len(t) : t[i] = q}
           N == (Len(s) + 1)..(Len(s) + k)
<1>1. /\ Len(s) \in Nat /\ Len(t) = Len(s) + k
      /\ IsFiniteSet(S) /\ Count(s, q) = Cardinality(S) /\ Cardinality(S) \in Nat
      /\ Count(t, q) = Cardinality(T)
  BY CountTypes DEF Adds
<1>2. \A i \in 1..Len(s) : t[i] = s[i]
  BY DEF Adds
<1>3. \A i \in N : i \in 1..Len(t) /\ i > Len(s) /\ t[i] = r
  BY <1>1 DEF Adds
<1>4. \A i \in 1..Len(t) : i \in 1..Len(s) \/ i \in N
  BY <1>1
<1>5. \A i \in 1..Len(s) : i \in 1..Len(t) /\ i \notin N
  BY <1>1
<1>6. CASE q # r
  <2>1. T = S
    BY <1>2, <1>3, <1>4, <1>5, <1>6
  <2> HIDE DEF S, T
  <2>2. QED
    BY <1>1, <1>6, <2>1
<1>7. CASE q = r
  <2>1. T = S \cup N /\ S \cap N = {}
    BY <1>2, <1>3, <1>4, <1>5, <1>7
  <2>2. IsFiniteSet(N) /\ Cardinality(N) = k
    <3>1. PICK a \in Nat : a = Len(s)
      BY <1>1
    <3>2. IsFiniteSet((a + 1)..(a + k))
          /\ Cardinality((a + 1)..(a + k)) = IF a + 1 > a + k THEN 0 ELSE (a + k) - (a + 1) + 1
      BY FS_Interval
    <3>3. (IF a + 1 > a + k THEN 0 ELSE (a + k) - (a + 1) + 1) = k
      OBVIOUS
    <3>4. QED
      BY <3>1, <3>2, <3>3
  <2> HIDE DEF S, T, N
  <2>3. Cardinality(S \cup N) = Cardinality(S) + Cardinality(N) - Cardinality(S \cap N)
    BY <1>1, <2>2, FS_Union
  <2>4. Cardinality(S \cap N) = 0
    BY <2>1, FS_EmptySet
  <2>5. Cardinality(T) = Cardinality(S) + k
    BY <1>1, <2>1, <2>2, <2>3, <2>4
  <2>6. QED
    BY <1>1, <1>7, <2>5
<1>8. QED
  BY <1>6, <1>7

(* Of n replies, those in ws are being written and those in ps are posted; *)
(* chunks os have left.                                                    *)
Sending(ws, ps, os, n) ==
    /\ \A op \in ws : op.reply \in 1..n /\ Count(os, op.reply) + op.left = Chunks
    /\ \A op1, op2 \in ws : op1.reply = op2.reply => op1 = op2
    /\ \A i \in 1..Len(os) : os[i] \in 1..n
    /\ \A r \in ps :
        /\ r \in 1..n /\ Count(os, r) = 0
        /\ \A op \in ws : op.reply # r

LEMMA SendingBegins ==
  ASSUME NEW ws \in SUBSET WriteType, NEW ps, NEW os \in Seq(Number), NEW n \in Nat,
         Sending(ws, ps, os, n),
         NEW r \in ps, NEW k \in 0..Chunks, NEW t \in Seq(Number), Adds(os, r, k, t)
  PROVE  Sending(ws \cup {[reply |-> r, left |-> Chunks - k]}, ps \ {r}, t, n)
<1> DEFINE new == [reply |-> r, left |-> Chunks - k]
<1>1. r \in Number /\ k \in Nat /\ Chunks \in Nat /\ Count(os, r) = 0 /\ r \in 1..n
  BY ServerAssumption DEF Sending, Number, ServerAssumption
<1>2. /\ Count(t, r) = k
      /\ \A q : q # r => Count(t, q) = Count(os, q)
  <2>1. Count(t, r) = Count(os, r) + k
    BY <1>1, CountAdded
  <2>2. \A q : q # r => Count(t, q) = Count(os, q)
    BY <1>1, CountAdded
  <2>3. QED
    BY <1>1, <2>1, <2>2
<1>3. new.reply = r /\ new.left = Chunks - k
  OBVIOUS
<1>4. k + (Chunks - k) = Chunks
  BY <1>1
<1> HIDE DEF new
<1>5. ASSUME NEW op \in ws \cup {new}
      PROVE  op.reply \in 1..n /\ Count(t, op.reply) + op.left = Chunks
  <2>1. CASE op = new
    BY <1>1, <1>2, <1>3, <1>4, <2>1
  <2>2. CASE op \in ws
    BY <1>2, <2>2 DEF Sending
  <2>3. QED
    BY <2>1, <2>2
<1>6. ASSUME NEW op1 \in ws \cup {new}, NEW op2 \in ws \cup {new}, op1.reply = op2.reply
      PROVE  op1 = op2
  BY <1>3, <1>6 DEF Sending
<1>7. ASSUME NEW i \in 1..Len(t) PROVE t[i] \in 1..n
  <2>1. Len(os) \in Nat
    BY LenProperties
  <2>2. CASE i > Len(os)
    BY <1>1, <2>2 DEF Adds
  <2>3. CASE ~(i > Len(os))
    <3>1. i \in 1..Len(os)
      BY <2>1, <2>3
    <3>2. QED
      BY <3>1 DEF Adds, Sending
  <2>4. QED
    BY <2>2, <2>3
<1>8. ASSUME NEW q \in ps \ {r}
      PROVE  /\ q \in 1..n /\ Count(t, q) = 0
             /\ \A op \in ws \cup {new} : op.reply # q
  BY <1>2, <1>3 DEF Sending
<1>9. QED
  BY <1>5, <1>6, <1>7, <1>8 DEF Sending, new

LEMMA SendingPosts ==
  ASSUME NEW ws \in SUBSET WriteType, NEW ps, NEW os \in Seq(Number), NEW n \in Nat,
         Sending(ws, ps, os, n)
  PROVE  /\ Sending(ws, ps \cup {n + 1}, os, n + 1)
         /\ n + 1 \notin ps /\ Count(os, n + 1) = 0
<1>1. n + 1 \notin 1..n /\ n + 1 \in 1..(n + 1) /\ \A i \in 1..n : i \in 1..(n + 1)
  OBVIOUS
<1>2. Count(os, n + 1) = 0
  <2>1. {i \in 1..Len(os) : os[i] = n + 1} = {}
    BY <1>1 DEF Sending
  <2>2. QED
    BY <2>1, CountTypes, FS_EmptySet
<1>3. QED
  BY <1>1, <1>2 DEF Sending

LEMMA SendingGoesOn ==
  ASSUME NEW ws \in SUBSET WriteType, NEW ps, NEW os \in Seq(Number), NEW n \in Nat,
         Sending(ws, ps, os, n), NEW op \in ws, NEW k \in 1..op.left,
         NEW t \in Seq(Number), Adds(os, op.reply, k, t)
  PROVE  Sending((ws \ {op}) \cup {[op EXCEPT !.left = @ - k]}, ps, t, n)
<1> DEFINE new == [op EXCEPT !.left = @ - k]
           r == op.reply
           l == op.left
<1>1. /\ r \in Number /\ r \in 1..n /\ l \in Nat /\ k \in Nat /\ k <= l
      /\ Count(os, r) + l = Chunks /\ Count(os, r) \in Nat /\ Chunks \in Nat
  <2>1. Chunks \in Nat
    BY ServerAssumption DEF ServerAssumption
  <2>2. op \in WriteType
    OBVIOUS
  <2>3. r \in Number /\ l \in Nat
    BY <2>1, <2>2 DEF WriteType, Number
  <2>4. r \in 1..n /\ Count(os, r) + l = Chunks
    BY DEF Sending
  <2>5. Count(os, r) \in Nat
    BY CountTypes
  <2>6. k \in 1..l
    OBVIOUS
  <2> HIDE DEF r, l
  <2>7. k \in Nat /\ k <= l
    BY <2>3, <2>6
  <2>8. QED
    BY <2>1, <2>3, <2>4, <2>5, <2>7
<1>2. new.reply = r /\ new.left = l - k
  BY DEF WriteType
<1>3. /\ Count(t, r) = Count(os, r) + k
      /\ \A q : q # r => Count(t, q) = Count(os, q)
  BY <1>1, CountAdded
<1> HIDE DEF new, r, l
<1>4. Count(t, r) + (l - k) = Chunks
  BY <1>1, <1>3
<1>5. ASSUME NEW o \in ws, o # op PROVE o.reply # r
  BY <1>5 DEF Sending, r
<1>6. ASSUME NEW o \in (ws \ {op}) \cup {new}
      PROVE  o.reply \in 1..n /\ Count(t, o.reply) + o.left = Chunks
  <2>1. CASE o = new
    BY <1>1, <1>2, <1>4, <2>1
  <2>2. CASE o \in ws \ {op}
    BY <1>3, <1>5, <2>2 DEF Sending
  <2>3. QED
    BY <2>1, <2>2
<1>7. ASSUME NEW o1 \in (ws \ {op}) \cup {new}, NEW o2 \in (ws \ {op}) \cup {new},
             o1.reply = o2.reply
      PROVE  o1 = o2
  BY <1>2, <1>5, <1>7 DEF Sending
<1>8. ASSUME NEW i \in 1..Len(t) PROVE t[i] \in 1..n
  <2>1. Len(os) \in Nat
    BY LenProperties
  <2>2. CASE i > Len(os)
    BY <1>1, <2>2 DEF Adds, r
  <2>3. CASE ~(i > Len(os))
    <3>1. i \in 1..Len(os)
      BY <2>1, <2>3
    <3>2. QED
      BY <3>1 DEF Adds, Sending
  <2>4. QED
    BY <2>2, <2>3
<1>9. ASSUME NEW q \in ps
      PROVE  /\ q \in 1..n /\ Count(t, q) = 0
             /\ \A o \in (ws \ {op}) \cup {new} : o.reply # q
  BY <1>2, <1>3 DEF Sending, r
<1>10. QED
  BY <1>6, <1>7, <1>8, <1>9 DEF Sending, new

(* The replies that have left in full.                                     *)
Gone(s, n) == {r \in 1..n : Count(s, r) = Chunks}

(* No reply of which chunks have left is cut in two, nor can one that has  *)
(* not left in full be cut by what leaves next of it.                      *)
InOnePiece(s, n) ==
    /\ \A i, k \in 1..Len(s) : s[i] = s[k] => \A j \in i..k : s[j] = s[i]
    /\ \A i \in 1..Len(s) : s[i] \notin Gone(s, n) => \A j \in i..Len(s) : s[j] = s[i]

LEMMA GoneStays ==
  ASSUME NEW s \in Seq(Number), NEW r \in Number, NEW k \in Nat,
         NEW t \in Seq(Number), Adds(s, r, k, t),
         NEW n \in Nat, NEW m \in Nat, n <= m, r \notin Gone(s, n)
  PROVE  Gone(s, n) \subseteq Gone(t, m)
<1> SUFFICES ASSUME NEW q \in Gone(s, n) PROVE q \in Gone(t, m)
  OBVIOUS
<1>1. q # r /\ q \in 1..n /\ Count(s, q) = Chunks
  BY DEF Gone
<1>2. Count(t, q) = Count(s, q)
  BY <1>1, CountAdded
<1>3. q \in 1..m
  BY <1>1
<1>4. QED
  BY <1>1, <1>2, <1>3 DEF Gone

LEMMA PieceGrows ==
  ASSUME NEW s \in Seq(Number), NEW r \in Number, NEW k \in Nat,
         NEW t \in Seq(Number), Adds(s, r, k, t),
         NEW n \in Nat, NEW m \in Nat, n <= m, r \notin Gone(s, n),
         \A i \in 1..Len(s) : s[i] \in 1..n,
         \A q \in 1..n : q # r => q \in Gone(s, n),
         InOnePiece(s, n)
  PROVE  InOnePiece(t, m)
<1> DEFINE a == Len(s)
           b == Len(t)
<1>1. a \in Nat /\ b \in Nat /\ b = a + k
  BY LenProperties DEF Adds
<1>2. /\ \A i \in 1..a : t[i] = s[i]
      /\ \A i \in 1..b : i > a => t[i] = r
  BY DEF Adds
<1>3. Gone(s, n) \subseteq Gone(t, m)
  BY GoneStays
<1>4. /\ \A i, j \in 1..a : s[i] = s[j] => \A l \in i..j : s[l] = s[i]
      /\ \A i \in 1..a : s[i] \notin Gone(s, n) => \A j \in i..a : s[j] = s[i]
      /\ \A i \in 1..a : s[i] # r => s[i] \in Gone(s, n)
  BY DEF InOnePiece
<1> HIDE DEF a, b
<1>5. ASSUME NEW i \in 1..b, t[i] = r, NEW j \in i..b PROVE t[j] = r
  <2>1. j \in 1..b /\ i \in Nat /\ j \in Nat /\ i <= j
    BY <1>1, <1>5
  <2>2. CASE j > a
    BY <1>2, <2>1, <2>2
  <2>3. CASE ~(j > a)
    <3>1. i \in 1..a /\ j \in 1..a /\ j \in i..a
      BY <1>1, <2>1, <2>3
    <3>2. s[i] = r /\ s[i] \notin Gone(s, n)
      BY <1>2, <1>5, <3>1
    <3>3. s[j] = r
      BY <1>4, <3>1, <3>2
    <3>4. QED
      BY <1>2, <3>1, <3>3
  <2>4. QED
    BY <2>2, <2>3
<1>6. ASSUME NEW i \in 1..b, NEW j \in 1..b, t[i] = t[j], NEW l \in i..j PROVE t[l] = t[i]
  <2>1. l \in 1..b /\ l \in i..b /\ i <= l /\ l <= j /\ i \in Nat /\ j \in Nat /\ l \in Nat
    BY <1>1, <1>6
  <2>2. CASE t[i] = r
    BY <1>5, <2>1, <2>2
  <2>3. CASE t[i] # r
    <3>1. ~(i > a) /\ ~(j > a)
      BY <1>2, <1>6, <2>3
    <3>2. i \in 1..a /\ j \in 1..a /\ l \in 1..a
      BY <1>1, <2>1, <3>1
    <3>3. s[i] = s[j]
      BY <1>2, <1>6, <3>2
    <3>4. s[l] = s[i]
      BY <1>4, <1>6, <3>2, <3>3
    <3>5. QED
      BY <1>2, <3>2, <3>4
  <2>4. QED
    BY <2>2, <2>3
<1>7. ASSUME NEW i \in 1..b, t[i] \notin Gone(t, m), NEW j \in i..b PROVE t[j] = t[i]
  <2>1. CASE t[i] = r
    BY <1>5, <1>7, <2>1
  <2>2. CASE t[i] # r
    <3>1. i \in 1..a
      BY <1>1, <1>2, <2>2
    <3>2. t[i] \in Gone(s, n)
      BY <1>2, <1>4, <2>2, <3>1
    <3>3. QED
      BY <1>3, <1>7, <3>2
  <2>3. QED
    BY <2>1, <2>2
<1>8. QED
  BY <1>6, <1>7 DEF InOnePiece, b

LEMMA PieceStays ==
  ASSUME NEW s \in Seq(Number), NEW n \in Nat, InOnePiece(s, n)
  PROVE  Gone(s, n) \subseteq Gone(s, n + 1) /\ InOnePiece(s, n + 1)
<1>1. Gone(s, n) \subseteq Gone(s, n + 1)
  BY DEF Gone
<1>2. QED
  BY <1>1 DEF InOnePiece

-----------------------------------------------------------------------------
(* The replies that are posted.                                            *)

PostType == [conn : Conns, reply : Number]

UnsentIn(s, c) == {r \in Number : \E i \in 1..Len(s) : s[i] = [conn |-> c, reply |-> r]}

Distinct(s) == \A i, j \in 1..Len(s) : s[i] = s[j] => i = j

LEMMA UnsentTail ==
  ASSUME NEW s \in Seq(PostType), s # <<>>, Distinct(s)
  PROVE  /\ Head(s) \in PostType /\ Distinct(Tail(s))
         /\ Head(s).reply \in UnsentIn(s, Head(s).conn)
         /\ UnsentIn(Tail(s), Head(s).conn) = UnsentIn(s, Head(s).conn) \ {Head(s).reply}
         /\ \A c : c # Head(s).conn => UnsentIn(Tail(s), c) = UnsentIn(s, c)
<1> DEFINE q == Tail(s)
           h == Head(s)
           n == Len(s)
<1>1. /\ n \in Nat /\ n # 0 /\ s[1] = h /\ h \in PostType
      /\ q \in Seq(PostType) /\ Len(q) = n - 1
      /\ \A i \in 1..Len(q) : q[i] = s[i + 1]
  BY LenProperties, EmptySeq, HeadTailProperties
<1>2. h = [conn |-> h.conn, reply |-> h.reply] /\ h.reply \in Number
  BY <1>1 DEF PostType
<1>3. \A i, j \in 1..n : s[i] = s[j] => i = j
  BY DEF Distinct
<1> HIDE DEF q, h, n
<1>4. /\ \A i \in 1..Len(q) : i + 1 \in 1..n /\ i + 1 # 1 /\ q[i] = s[i + 1]
      /\ \A i \in 1..n : i # 1 => i - 1 \in 1..Len(q) /\ q[i - 1] = s[i]
      /\ 1 \in 1..n
  <2>1. \A i \in 1..Len(q) : i + 1 \in 1..n /\ i + 1 # 1 /\ q[i] = s[i + 1]
    BY <1>1
  <2>2. ASSUME NEW i \in 1..n, i # 1 PROVE i - 1 \in 1..Len(q) /\ q[i - 1] = s[i]
    <3>1. i - 1 \in 1..Len(q) /\ (i - 1) + 1 = i
      BY <1>1, <2>2
    <3>2. QED
      BY <1>1, <3>1
  <2>3. QED
    BY <1>1, <2>1, <2>2
<1>5. Distinct(q)
  <2>1. ASSUME NEW i \in 1..Len(q), NEW j \in 1..Len(q), q[i] = q[j] PROVE i = j
    <3>1. i + 1 = j + 1
      BY <1>3, <1>4, <2>1
    <3>2. QED
      BY <3>1
  <2>2. QED
    BY <2>1 DEF Distinct
<1>6. \A i \in 1..n : s[i] = h => i = 1
  BY <1>1, <1>3, <1>4
<1>7. ASSUME NEW c, NEW r, [conn |-> c, reply |-> r] # h
      PROVE  r \in UnsentIn(q, c) <=> r \in UnsentIn(s, c)
  <2>1. ASSUME NEW i \in 1..Len(q), q[i] = [conn |-> c, reply |-> r]
        PROVE  \E j \in 1..n : s[j] = [conn |-> c, reply |-> r]
    BY <1>4, <2>1
  <2>2. ASSUME NEW i \in 1..n, s[i] = [conn |-> c, reply |-> r]
        PROVE  \E j \in 1..Len(q) : q[j] = [conn |-> c, reply |-> r]
    <3>1. i # 1
      BY <1>1, <1>7, <2>2
    <3>2. QED
      BY <1>4, <2>2, <3>1
  <2>3. QED
    BY <2>1, <2>2 DEF UnsentIn, n
<1>8. h.reply \in UnsentIn(s, h.conn)
  BY <1>1, <1>2, <1>4 DEF UnsentIn, n
<1>9. h.reply \notin UnsentIn(q, h.conn)
  <2>1. ASSUME NEW i \in 1..Len(q) PROVE q[i] # [conn |-> h.conn, reply |-> h.reply]
    BY <1>2, <1>4, <1>6
  <2>2. QED
    BY <2>1 DEF UnsentIn
<1>10. UnsentIn(q, h.conn) = UnsentIn(s, h.conn) \ {h.reply}
  <2>1. ASSUME NEW r, r # h.reply
        PROVE  r \in UnsentIn(q, h.conn) <=> r \in UnsentIn(s, h.conn)
    BY <1>2, <1>7, <2>1
  <2>2. QED
    BY <1>9, <2>1
<1>11. ASSUME NEW c, c # h.conn PROVE UnsentIn(q, c) = UnsentIn(s, c)
  <2>1. ASSUME NEW r PROVE r \in UnsentIn(q, c) <=> r \in UnsentIn(s, c)
    BY <1>2, <1>7, <1>11
  <2>2. QED
    BY <2>1
<1>12. QED
  BY <1>1, <1>5, <1>8, <1>10, <1>11 DEF q, h

LEMMA UnsentAppend ==
  ASSUME NEW s \in Seq(PostType), Distinct(s), NEW c \in Conns, NEW r \in Number,
         r \notin UnsentIn(s, c)
  PROVE  LET p == [conn |-> c, reply |-> r] IN
         /\ Distinct(Append(s, p))
         /\ UnsentIn(Append(s, p), c) = UnsentIn(s, c) \cup {r}
         /\ \A d : d # c => UnsentIn(Append(s, p), d) = UnsentIn(s, d)
<1> DEFINE p == [conn |-> c, reply |-> r]
           q == Append(s, p)
           n == Len(s)
<1>1. p \in PostType
  BY DEF PostType
<1>2. /\ n \in Nat /\ Len(q) = n + 1 /\ q[n + 1] = p
      /\ \A i \in 1..n : q[i] = s[i]
  BY <1>1, AppendProperties, LenProperties
<1>3. p.conn = c /\ p.reply = r
  OBVIOUS
<1>4. \A i \in 1..n : s[i] # p
  BY DEF UnsentIn
<1>5. \A i, j \in 1..n : s[i] = s[j] => i = j
  BY DEF Distinct
<1> HIDE DEF q, n
<1>6. /\ \A i \in 1..Len(q) : i \in 1..n \/ i = n + 1
      /\ \A i \in 1..n : i \in 1..Len(q)
      /\ n + 1 \in 1..Len(q)
  BY <1>2
<1>7. Distinct(q)
  <2>1. ASSUME NEW i \in 1..Len(q), NEW j \in 1..Len(q), q[i] = q[j] PROVE i = j
    BY <1>2, <1>4, <1>5, <1>6, <2>1
  <2>2. QED
    BY <2>1 DEF Distinct
<1>8. ASSUME NEW d, NEW x \in Number
      PROVE  x \in UnsentIn(q, d) <=> x \in UnsentIn(s, d) \/ [conn |-> d, reply |-> x] = p
  <2>1. ASSUME NEW i \in 1..Len(q), q[i] = [conn |-> d, reply |-> x]
        PROVE  \/ \E j \in 1..n : s[j] = [conn |-> d, reply |-> x]
               \/ [conn |-> d, reply |-> x] = p
    BY <1>2, <1>6, <2>1
  <2>2. ASSUME NEW i \in 1..n, s[i] = [conn |-> d, reply |-> x]
        PROVE  \E j \in 1..Len(q) : q[j] = [conn |-> d, reply |-> x]
    BY <1>2, <1>6, <2>2
  <2>3. ASSUME [conn |-> d, reply |-> x] = p
        PROVE  \E j \in 1..Len(q) : q[j] = [conn |-> d, reply |-> x]
    BY <1>2, <1>6, <2>3
  <2>4. QED
    BY <2>1, <2>2, <2>3 DEF UnsentIn, n
<1>9. UnsentIn(q, c) = UnsentIn(s, c) \cup {r}
  <2>1. UnsentIn(q, c) \subseteq Number /\ UnsentIn(s, c) \subseteq Number
    BY DEF UnsentIn
  <2>2. \A x : [conn |-> c, reply |-> x] = p <=> x = r
    OBVIOUS
  <2>3. QED
    BY <1>8, <2>1, <2>2
<1>10. ASSUME NEW d, d # c PROVE UnsentIn(q, d) = UnsentIn(s, d)
  <2>1. UnsentIn(q, d) \subseteq Number /\ UnsentIn(s, d) \subseteq Number
    BY DEF UnsentIn
  <2>2. \A x : [conn |-> d, reply |-> x] # p
    BY <1>3, <1>10
  <2> HIDE DEF p
  <2>3. QED
    BY <1>8, <2>1, <2>2
<1>11. QED
  BY <1>7, <1>9, <1>10 DEF q

-----------------------------------------------------------------------------
(* What a step does to the replies of a connection.                        *)

Unsent(c) == UnsentIn(posts, c)

Operation(r, left) == [reply |-> r, left |-> left]

(* Nothing, but that a write may have ended.                               *)
Keeps(c) ==
    /\ writes'[c] \subseteq writes[c] /\ out'[c] = out[c] /\ replies'[c] = replies[c]
    /\ Unsent(c)' = Unsent(c)

(* A reply is posted.                                                      *)
PostsOne(c) ==
    /\ writes'[c] = writes[c] /\ out'[c] = out[c]
    /\ Len(replies'[c]) = Len(replies[c]) + 1
    /\ Unsent(c)' = Unsent(c) \cup {NextReply(c)}

(* A reply that was posted begins to leave.                                *)
Begins(c) ==
    \E r \in Unsent(c) : \E k \in 0..Chunks :
        /\ Unsent(c)' = Unsent(c) \ {r} /\ replies'[c] = replies[c]
        /\ writes'[c] = writes[c] \cup {Operation(r, Chunks - k)}
        /\ Adds(out[c], r, k, out'[c])

(* A reply begins to leave at once, and what it answers was being read or  *)
(* was in a worker's hand.                                                 *)
Answers(c) ==
    /\ \E k \in 0..Chunks :
        /\ Unsent(c)' = Unsent(c) /\ Len(replies'[c]) = Len(replies[c]) + 1
        /\ writes'[c] = writes[c] \cup {Operation(NextReply(c), Chunks - k)}
        /\ Adds(out[c], NextReply(c), k, out'[c])
    /\ Read(c) \/ Unanswered(c) # {}

(* A reply goes on leaving.                                                *)
LeavesOn(c) ==
    \E op \in writes[c] : \E k \in 1..op.left :
        /\ Unsent(c)' = Unsent(c) /\ replies'[c] = replies[c]
        /\ writes'[c] = (writes[c] \ {op}) \cup {[op EXCEPT !.left = @ - k]}
        /\ Adds(out[c], op.reply, k, out'[c])

Moves(c) == Keeps(c) \/ PostsOne(c) \/ Begins(c) \/ Answers(c) \/ LeavesOn(c)

PostsOnce == Distinct(posts)

Written(c) == PostsOnce /\ Sending(writes[c], Unsent(c), out[c], Len(replies[c]))

Writing == \A c \in Conns : Written(c)

LEMMA ReplyKinds ==
  ASSUME Types
  PROVE  /\ posts \in Seq(PostType)
         /\ writes \in [Conns -> SUBSET WriteType]
         /\ replies \in [Conns -> Seq({"ok", "bad"})]
         /\ out \in [Conns -> Seq(Number)]
         /\ \A c \in Conns : /\ out[c] \in Seq(Number) /\ Len(replies[c]) \in Nat
                             /\ writes[c] \in SUBSET WriteType
                             /\ NextReply(c) = Len(replies[c]) + 1
                             /\ NextReply(c) \in Number
  BY LenProperties DEF Types, ReplyTypes, PostType, Number, NextReply

LEMMA AsyncWriteMoves ==
  ASSUME Types, NEW STATE c, c \in Conns, NEW STATE r, r \in Number,
         NEW k \in 0..Chunks, AsyncWrite(c, r, k)
  PROVE  /\ writes'[c] = writes[c] \cup {Operation(r, Chunks - k)}
         /\ Adds(out[c], r, k, out'[c])
         /\ \A d \in Conns : d # c => writes'[d] = writes[d] /\ out'[d] = out[d]
<1>1. k \in Nat
  BY ServerAssumption DEF ServerAssumption
<1>2. out[c] \in Seq(Number) /\ out \in [Conns -> Seq(Number)]
      /\ writes \in [Conns -> SUBSET WriteType]
  BY ReplyKinds
<1>3. out' = [out EXCEPT ![c] = out[c] \o [i \in 1..k |-> r]]
  BY DEF AsyncWrite
<1>4. Adds(out[c], r, k, out[c] \o [i \in 1..k |-> r])
  <2>1. PICK s \in Seq(Number) : s = out[c]
    BY <1>2
  <2>2. PICK q \in Number : q = r
    OBVIOUS
  <2>3. Adds(s, q, k, s \o [i \in 1..k |-> q])
    BY <1>1, Added
  <2>4. QED
    BY <2>1, <2>2, <2>3
<1>5. QED
  BY <1>2, <1>3, <1>4 DEF AsyncWrite, Operation

(* bad_request.                                                            *)
LEMMA WriteBadMoves ==
  ASSUME Types, NEW c \in Conns, WriteBadRequest(c), UNCHANGED posts,
         Read(c) \/ Unanswered(c) # {}
  PROVE  Answers(c) /\ \A d \in Conns : d # c => Keeps(d)
<1>1. PICK k \in 0..Chunks : AsyncWrite(c, NextReply(c), k)
  BY DEF WriteBadRequest
<1>2. /\ writes'[c] = writes[c] \cup {Operation(NextReply(c), Chunks - k)}
      /\ Adds(out[c], NextReply(c), k, out'[c])
      /\ \A d \in Conns : d # c => writes'[d] = writes[d] /\ out'[d] = out[d]
  BY <1>1, ReplyKinds, AsyncWriteMoves
<1>3. replies' = [replies EXCEPT ![c] = Append(replies[c], "bad")]
  BY DEF WriteBadRequest, Push
<1>4. Len(Append(replies[c], "bad")) = Len(replies[c]) + 1
  BY ReplyKinds, AppendProperties
<1>5. /\ Len(replies'[c]) = Len(replies[c]) + 1
      /\ \A d \in Conns : d # c => replies'[d] = replies[d]
  BY <1>3, <1>4, ReplyKinds
<1>6. \A d \in Conns : Unsent(d)' = Unsent(d)
  BY DEF Unsent
<1>7. QED
  BY <1>2, <1>5, <1>6 DEF Answers, Keeps

LEMMA Posting ==
  ASSUME Types, Writing, RunPost, NEW d \in Conns
  PROVE  Moves(d) /\ PostsOnce'
<1> DEFINE p == Head(posts)
<1>1. posts \in Seq(PostType) /\ posts # <<>> /\ Distinct(posts) /\ posts' = Tail(posts)
  BY ReplyKinds DEF RunPost, Writing, Written, PostsOnce
<1>2. /\ p \in PostType /\ Distinct(Tail(posts))
      /\ p.reply \in UnsentIn(posts, p.conn)
      /\ UnsentIn(Tail(posts), p.conn) = UnsentIn(posts, p.conn) \ {p.reply}
      /\ \A e : e # p.conn => UnsentIn(Tail(posts), e) = UnsentIn(posts, e)
  BY <1>1, UnsentTail
<1>3. p.conn \in Conns /\ p.reply \in Number
  BY <1>2 DEF PostType
<1>4. PICK k \in 0..Chunks : AsyncWrite(p.conn, p.reply, k)
  BY DEF RunPost
<1> HIDE DEF p
<1>5. /\ writes'[p.conn] = writes[p.conn] \cup {Operation(p.reply, Chunks - k)}
      /\ Adds(out[p.conn], p.reply, k, out'[p.conn])
      /\ \A e \in Conns : e # p.conn => writes'[e] = writes[e] /\ out'[e] = out[e]
  BY <1>3, <1>4, AsyncWriteMoves
<1>6. UNCHANGED replies
  BY DEF RunPost
<1>7. CASE d = p.conn
  <2>1. Begins(d)
    BY <1>1, <1>2, <1>5, <1>6, <1>7 DEF Begins, Unsent
  <2>2. QED
    BY <1>1, <1>2, <2>1 DEF Moves, PostsOnce
<1>8. CASE d # p.conn
  <2>1. Keeps(d)
    BY <1>1, <1>2, <1>5, <1>6, <1>8 DEF Keeps, Unsent
  <2>2. QED
    BY <1>1, <1>2, <2>1 DEF Moves, PostsOnce
<1>9. QED
  BY <1>7, <1>8

(* send2client.                                                            *)
LEMMA Sends ==
  ASSUME Types, Writing, NEW w \in Workers, Send(w), NEW d \in Conns
  PROVE  Moves(d) /\ PostsOnce'
<1> DEFINE c == worker[w].task.conn
           r == NextReply(c)
           p == [conn |-> c, reply |-> r]
<1>1. c \in Conns
  BY BusyTypes DEF Send, Types, PoolTypes
<1>2. /\ r \in Number /\ r = Len(replies[c]) + 1 /\ Len(replies[c]) \in Nat
      /\ posts \in Seq(PostType) /\ Distinct(posts)
  BY <1>1, ReplyKinds DEF Writing, Written, PostsOnce
<1>3. /\ posts' = Append(posts, p) /\ UNCHANGED <<writes, out>>
      /\ replies' = [replies EXCEPT ![c] = Append(replies[c], "ok")]
  BY DEF Send, Push
<1> HIDE DEF c, r
<1>4. /\ Len(replies'[c]) = Len(replies[c]) + 1
      /\ \A e \in Conns : e # c => replies'[e] = replies[e]
  <2>1. Len(Append(replies[c], "ok")) = Len(replies[c]) + 1
    BY <1>1, ReplyKinds, AppendProperties
  <2>2. QED
    BY <1>1, <1>3, <2>1, ReplyKinds
<1>5. r \notin UnsentIn(posts, c)
  <2>1. Sending(writes[c], Unsent(c), out[c], Len(replies[c]))
    BY <1>1 DEF Writing, Written
  <2>2. \A q \in Unsent(c) : q \in 1..Len(replies[c])
    BY <2>1 DEF Sending
  <2>3. r \notin 1..Len(replies[c])
    BY <1>2
  <2>4. QED
    BY <2>2, <2>3 DEF Unsent
<1>6. /\ Distinct(Append(posts, p))
      /\ UnsentIn(Append(posts, p), c) = UnsentIn(posts, c) \cup {r}
      /\ \A e : e # c => UnsentIn(Append(posts, p), e) = UnsentIn(posts, e)
  BY <1>1, <1>2, <1>5, UnsentAppend
<1>7. CASE d = c
  <2>1. PostsOne(d)
    BY <1>3, <1>4, <1>6, <1>7 DEF PostsOne, Unsent, r
  <2>2. QED
    BY <1>3, <1>6, <2>1 DEF Moves, PostsOnce
<1>8. CASE d # c
  <2>1. Keeps(d)
    BY <1>3, <1>4, <1>6, <1>8 DEF Keeps, Unsent
  <2>2. QED
    BY <1>3, <1>6, <2>1 DEF Moves, PostsOnce
<1>9. QED
  BY <1>7, <1>8

LEMMA WritesSome ==
  ASSUME Types, NEW c \in Conns, WriteSome(c), NEW d \in Conns
  PROVE  Moves(d)
<1>1. PICK op \in writes[c] : \E k \in 1..op.left :
        /\ writes' = [writes EXCEPT ![c] =
                        (@ \ {op}) \cup {[op EXCEPT !.left = @ - k]}]
        /\ out' = [out EXCEPT ![c] = @ \o [i \in 1..k |-> op.reply]]
  BY DEF WriteSome
<1>2. PICK k \in 1..op.left :
        /\ writes' = [writes EXCEPT ![c] =
                        (@ \ {op}) \cup {[op EXCEPT !.left = @ - k]}]
        /\ out' = [out EXCEPT ![c] = @ \o [i \in 1..k |-> op.reply]]
  BY <1>1
<1>3. UNCHANGED <<replies, posts>>
  BY DEF WriteSome
<1>4. Unsent(d)' = Unsent(d)
  BY <1>3 DEF Unsent
<1>5. op \in WriteType /\ op.reply \in Number /\ k \in Nat
  <2>1. op \in WriteType
    BY ReplyKinds
  <2>2. op.left \in 0..Chunks /\ op.reply \in Number
    BY <2>1 DEF WriteType, Number
  <2>3. k \in Nat
    BY <2>2, ServerAssumption DEF ServerAssumption
  <2>4. QED
    BY <2>1, <2>2, <2>3
<1>6. Adds(out[c], op.reply, k, out[c] \o [i \in 1..k |-> op.reply])
  <2>1. PICK s \in Seq(Number) : s = out[c]
    BY ReplyKinds
  <2>2. PICK q \in Number : q = op.reply
    BY <1>5
  <2>3. Adds(s, q, k, s \o [i \in 1..k |-> q])
    BY <1>5, Added
  <2>4. QED
    BY <2>1, <2>2, <2>3
<1>7. CASE d = c
  <2>1. /\ writes'[c] = (writes[c] \ {op}) \cup {[op EXCEPT !.left = @ - k]}
        /\ out'[c] = out[c] \o [i \in 1..k |-> op.reply]
    BY <1>2, ReplyKinds
  <2>2. LeavesOn(d)
    BY <1>3, <1>4, <1>6, <1>7, <2>1 DEF LeavesOn
  <2>3. QED
    BY <2>2 DEF Moves
<1>8. CASE d # c
  <2>1. Keeps(d)
    BY <1>2, <1>3, <1>4, <1>8, ReplyKinds DEF Keeps
  <2>2. QED
    BY <2>1 DEF Moves
<1>9. QED
  BY <1>7, <1>8

(* Every step is one of the five for every connection.                     *)
LEMMA NextMoves ==
  ASSUME Reading, Framing, Types, Writing, [Next]_vars
  PROVE  \A d \in Conns : PostsOnce' /\ Moves(d)
<1> SUFFICES ASSUME NEW d \in Conns PROVE PostsOnce' /\ Moves(d)
  OBVIOUS
<1> USE DEF outVars, replyVars
<1>0. PostsOnce
  BY DEF Writing, Written
<1>1. CASE UNCHANGED <<writes, replies, out, posts>>
  BY <1>0, <1>1 DEF PostsOnce, Moves, Keeps, Unsent
<1>2. CASE Start \/ AcceptFails \/ RunsOut \/ FinishBadRequest
  BY <1>1, <1>2 DEF Start, AcceptFails, RunsOut, FinishBadRequest, SetContext
<1>3. CASE RunPost
  BY <1>3, Posting
<1>4. ASSUME NEW c \in Conns, Client(c) \/ Accept(c) \/ AcceptThrows(c) \/ ReadFails(c)
      PROVE  PostsOnce' /\ Moves(d)
  BY <1>1, <1>4
     DEF Client, ClientConnects, ClientSends, ClientLeaves, Accept, AcceptThen, AcceptThrows,
         ReadFails, FailThen
<1>5. ASSUME NEW c \in Conns, Read(c) PROVE PostsOnce' /\ Moves(d)
  <2>1. UNCHANGED posts
    BY <1>5 DEF Read
  <2>2. CASE Quiet \/ Hands(c)
    BY <1>1, <2>1, <2>2 DEF Quiet, Hands
  <2>3. CASE Rejects(c)
    <3>1. Answers(c) /\ \A e \in Conns : e # c => Keeps(e)
      BY <1>5, <2>1, <2>3, WriteBadMoves DEF Rejects
    <3>2. QED
      BY <1>0, <2>1, <3>1 DEF Moves, PostsOnce
  <2>4. QED
    BY <1>5, <2>2, <2>3, ReadDoes
<1>6. ASSUME NEW c \in Conns, WriteSome(c) PROVE PostsOnce' /\ Moves(d)
  BY <1>0, <1>6, WritesSome DEF WriteSome, PostsOnce
<1>7. ASSUME NEW c \in Conns, WriteEnds(c) PROVE PostsOnce' /\ Moves(d)
  <2>1. PICK op \in writes[c] : writes' = [writes EXCEPT ![c] = @ \ {op}]
    BY <1>7 DEF WriteEnds
  <2>2. writes'[d] \subseteq writes[d]
    BY <2>1, ReplyKinds
  <2>3. QED
    BY <1>0, <1>7, <2>2 DEF WriteEnds, PostsOnce, Moves, Keeps, Unsent
<1>8. ASSUME NEW w \in Workers, Work(w) PROVE PostsOnce' /\ Moves(d)
  <2>1. CASE Send(w)
    BY <2>1, Sends
  <2>2. CASE Reject(w)
    <3>1. PICK c : c = worker[w].task.conn
      OBVIOUS
    <3>2. c \in Conns
      BY <2>2, <3>1, BusyTypes DEF Reject, Types, PoolTypes
    <3>3. w \in Unanswered(c)
      BY <2>2, <3>1 DEF Unanswered, Reject
    <3>4. WriteBadRequest(c) /\ UNCHANGED posts
      BY <2>2, <3>1 DEF Reject
    <3>5. Answers(c) /\ \A e \in Conns : e # c => Keeps(e)
      BY <3>2, <3>3, <3>4, WriteBadMoves
    <3>6. QED
      BY <1>0, <3>4, <3>5 DEF Moves, PostsOnce
  <2>3. CASE Take(w) \/ Analyze(w) \/ Query(w) \/ FinishReject(w)
    BY <1>1, <2>3 DEF Take, TakeLeaving, Analyze, Query, FinishReject, FinishThen, SetContext
  <2>4. QED
    BY <1>8, <2>1, <2>2, <2>3 DEF Work
<1>9. CASE UNCHANGED vars
  BY <1>1, <1>9 DEF vars
<1>10. QED
  BY <1>2, <1>3, <1>4, <1>5, <1>6, <1>7, <1>8, <1>9 DEF Next, Completion

(* Each step keeps what is said of the writes of a connection.             *)
LEMMA MovesWritten ==
  ASSUME Types, Types', NEW c \in Conns, Written(c), PostsOnce', Moves(c)
  PROVE  Written(c)'
<1>1. PICK ws \in SUBSET WriteType, os \in Seq(Number), n \in Nat :
        ws = writes[c] /\ os = out[c] /\ n = Len(replies[c])
  BY ReplyKinds
<1>2. PICK ps : ps = Unsent(c)
  OBVIOUS
<1>3. PICK t \in Seq(Number) : t = out'[c]
  BY DEF Types, ReplyTypes, Number
<1>4. Sending(ws, ps, os, n)
  BY <1>1, <1>2 DEF Written
<1>5. ASSUME Sending(writes'[c], Unsent(c)', t, Len(replies'[c]))
      PROVE  Written(c)'
  BY <1>3, <1>5 DEF Written
<1>6. CASE Keeps(c)
  <2>1. PICK vs : vs = writes'[c]
    OBVIOUS
  <2>2. vs \subseteq ws /\ t = os /\ replies'[c] = replies[c] /\ Unsent(c)' = ps
    BY <1>1, <1>2, <1>3, <1>6, <2>1 DEF Keeps
  <2>3. Sending(vs, ps, os, n)
    BY <1>4, <2>2 DEF Sending
  <2>4. QED
    BY <1>1, <1>5, <2>1, <2>2, <2>3
<1>7. CASE PostsOne(c)
  <2>1. Sending(ws, ps \cup {n + 1}, os, n + 1)
    BY <1>4, SendingPosts
  <2>2. QED
    BY <1>1, <1>2, <1>3, <1>5, <1>7, <2>1 DEF PostsOne, NextReply
<1>8. CASE Begins(c)
  <2>1. PICK r \in ps : \E k \in 0..Chunks :
            /\ Unsent(c)' = ps \ {r} /\ replies'[c] = replies[c]
            /\ writes'[c] = ws \cup {Operation(r, Chunks - k)}
            /\ Adds(os, r, k, t)
    BY <1>1, <1>2, <1>3, <1>8 DEF Begins
  <2>2. PICK k \in 0..Chunks :
            /\ Unsent(c)' = ps \ {r} /\ replies'[c] = replies[c]
            /\ writes'[c] = ws \cup {Operation(r, Chunks - k)}
            /\ Adds(os, r, k, t)
    BY <2>1
  <2>3. Sending(ws \cup {Operation(r, Chunks - k)}, ps \ {r}, t, n)
    BY <1>4, <2>2, SendingBegins DEF Operation
  <2>4. QED
    BY <1>1, <1>5, <2>2, <2>3
<1>9. CASE Answers(c)
  <2>1. PICK k \in 0..Chunks :
            /\ Unsent(c)' = ps /\ Len(replies'[c]) = n + 1
            /\ writes'[c] = ws \cup {Operation(n + 1, Chunks - k)}
            /\ Adds(os, n + 1, k, t)
    BY <1>1, <1>2, <1>3, <1>9 DEF Answers, NextReply
  <2>2. PICK m \in Nat : m = n + 1
    OBVIOUS
  <2>3. PICK qs : qs = ps \cup {m}
    OBVIOUS
  <2>4. Sending(ws, qs, os, m) /\ m \notin ps
    BY <1>4, <2>2, <2>3, SendingPosts
  <2>5. m \in qs /\ Adds(os, m, k, t)
    BY <2>1, <2>2, <2>3
  <2>6. Sending(ws \cup {Operation(m, Chunks - k)}, qs \ {m}, t, m)
    BY <2>4, <2>5, SendingBegins DEF Operation
  <2>7. qs \ {m} = ps
    BY <2>3, <2>4
  <2>8. QED
    BY <1>5, <2>1, <2>2, <2>6, <2>7
<1>10. CASE LeavesOn(c)
  <2>1. PICK op \in ws : \E k \in 1..op.left :
            /\ Unsent(c)' = ps /\ replies'[c] = replies[c]
            /\ writes'[c] = (ws \ {op}) \cup {[op EXCEPT !.left = @ - k]}
            /\ Adds(os, op.reply, k, t)
    BY <1>1, <1>2, <1>3, <1>10 DEF LeavesOn
  <2>2. PICK k \in 1..op.left :
            /\ Unsent(c)' = ps /\ replies'[c] = replies[c]
            /\ writes'[c] = (ws \ {op}) \cup {[op EXCEPT !.left = @ - k]}
            /\ Adds(os, op.reply, k, t)
    BY <2>1
  <2>3. Sending((ws \ {op}) \cup {[op EXCEPT !.left = @ - k]}, ps, t, n)
    BY <1>4, <2>2, SendingGoesOn
  <2>4. QED
    BY <1>1, <1>5, <2>2, <2>3
<1>11. QED
  BY <1>6, <1>7, <1>8, <1>9, <1>10 DEF Moves

(* Chunks of a reply leave only while it has not left in full.             *)
Adding(c) ==
    \E r \in Number : \E k \in Nat :
        /\ Adds(out[c], r, k, out'[c])
        /\ r \notin Gone(out[c], Len(replies[c]))
        /\ \/ r \in 1..Len(replies[c]) /\ replies'[c] = replies[c]
           \/ Answers(c)

LEMMA MovesAdd ==
  ASSUME Types, NEW c \in Conns, Written(c), Moves(c)
  PROVE  /\ Len(replies'[c]) \in {Len(replies[c]), Len(replies[c]) + 1}
         /\ out'[c] = out[c] \/ Adding(c)
<1>1. PICK ws \in SUBSET WriteType, os \in Seq(Number), n \in Nat :
        ws = writes[c] /\ os = out[c] /\ n = Len(replies[c])
  BY ReplyKinds
<1>2. PICK ps : ps = Unsent(c)
  OBVIOUS
<1>3. Sending(ws, ps, os, n)
  BY <1>1, <1>2 DEF Written
<1>4. Chunks \in Nat /\ Chunks # 0
  BY ServerAssumption DEF ServerAssumption
<1>5. CASE Keeps(c) \/ PostsOne(c)
  BY <1>5 DEF Keeps, PostsOne
<1>6. CASE Begins(c)
  <2>1. PICK r \in ps : \E k \in 0..Chunks :
            replies'[c] = replies[c] /\ Adds(os, r, k, out'[c])
    BY <1>1, <1>2, <1>6 DEF Begins
  <2>2. PICK k \in 0..Chunks : replies'[c] = replies[c] /\ Adds(os, r, k, out'[c])
    BY <2>1
  <2>3. r \in 1..n /\ Count(os, r) = 0
    BY <1>3 DEF Sending
  <2>4. r \notin Gone(os, n) /\ r \in Number /\ k \in Nat
    BY <1>4, <2>3 DEF Gone, Number
  <2>5. QED
    BY <1>1, <2>2, <2>3, <2>4 DEF Adding
<1>7. CASE Answers(c)
  <2>1. PICK k \in 0..Chunks :
            Len(replies'[c]) = n + 1 /\ Adds(os, n + 1, k, out'[c])
    BY <1>1, <1>7 DEF Answers, NextReply
  <2>2. n + 1 \notin Gone(os, n) /\ n + 1 \in Number /\ k \in Nat
    BY <1>4 DEF Gone, Number
  <2>3. QED
    BY <1>1, <1>7, <2>1, <2>2 DEF Adding
<1>8. CASE LeavesOn(c)
  <2>1. PICK op \in ws : \E k \in 1..op.left :
            replies'[c] = replies[c] /\ Adds(os, op.reply, k, out'[c])
    BY <1>1, <1>8 DEF LeavesOn
  <2>2. PICK k \in 1..op.left : replies'[c] = replies[c] /\ Adds(os, op.reply, k, out'[c])
    BY <2>1
  <2>3. PICK r : r = op.reply
    OBVIOUS
  <2>4. PICK l : l = op.left
    OBVIOUS
  <2>5. r \in 1..n /\ Count(os, r) + l = Chunks
    BY <1>3, <2>3, <2>4 DEF Sending
  <2>6. l \in Nat /\ k \in 1..l
    BY <1>4, <2>4 DEF WriteType
  <2>7. k \in Nat /\ l # 0 /\ Count(os, r) # Chunks
    <3>1. Count(os, r) \in Nat
      BY CountTypes
    <3>2. QED
      BY <1>4, <2>5, <2>6, <3>1
  <2>8. r \in Number /\ r \notin Gone(os, n)
    BY <2>5, <2>7 DEF Gone, Number
  <2>9. QED
    BY <1>1, <2>2, <2>3, <2>5, <2>7, <2>8 DEF Adding
<1>9. QED
  BY <1>5, <1>6, <1>7, <1>8 DEF Moves

(* What has been delivered stays delivered.                                *)
LEMMA DeliveredIsGone ==
  ASSUME Types, NEW c \in Conns
  PROVE  Delivered(c) = Gone(out[c], Len(replies[c]))
<1>1. DOMAIN replies[c] = 1..Len(replies[c])
  BY DeliveredCount
<1>2. QED
  BY <1>1 DEF Delivered, Gone, Count

LEMMA DeliveredStays ==
  ASSUME Types, Types', NEW c \in Conns, Written(c), Moves(c)
  PROVE  /\ Delivered(c) \subseteq Delivered(c)'
         /\ Cardinality(Delivered(c)) <= Cardinality(Delivered(c)')
         /\ Cardinality(Delivered(c)') \in Nat
<1>1. PICK s \in Seq(Number), t \in Seq(Number), n \in Nat, m \in Nat :
        s = out[c] /\ t = out'[c] /\ n = Len(replies[c]) /\ m = Len(replies'[c])
  <2>1. Len(replies'[c]) \in Nat
    BY LenProperties DEF Types, ReplyTypes
  <2>2. QED
    BY <2>1, ReplyKinds DEF Types, ReplyTypes, Number
<1>2. m \in {n, n + 1} /\ (t = s \/ Adding(c))
  BY <1>1, MovesAdd
<1>3. n <= m
  BY <1>2
<1>4. Gone(s, n) \subseteq Gone(t, m)
  <2>1. CASE t = s
    BY <1>3, <2>1 DEF Gone
  <2>2. CASE Adding(c)
    <3>1. PICK r \in Number : \E k \in Nat : Adds(s, r, k, t) /\ r \notin Gone(s, n)
      BY <1>1, <2>2 DEF Adding
    <3>2. PICK k \in Nat : Adds(s, r, k, t) /\ r \notin Gone(s, n)
      BY <3>1
    <3>3. QED
      BY <1>3, <3>2, GoneStays
  <2>3. QED
    BY <1>2, <2>1, <2>2
<1>5. Delivered(c) = Gone(s, n) /\ Delivered(c)' = Gone(t, m)
  <2>1. Delivered(c)' = Gone(t, m)
    <3>1. DOMAIN replies'[c] = 1..m
      BY <1>1, LenProperties DEF Types, ReplyTypes
    <3>2. QED
      BY <1>1, <3>1 DEF Delivered, Gone, Count
  <2>2. QED
    BY <1>1, <2>1, DeliveredIsGone
<1>6. IsFiniteSet(Gone(t, m))
  <2>1. IsFiniteSet(1..m) /\ Gone(t, m) \in SUBSET (1..m)
    BY FS_Interval DEF Gone
  <2>2. QED
    BY <2>1, FS_Subset
<1>7. /\ Cardinality(Gone(s, n)) <= Cardinality(Gone(t, m))
      /\ Cardinality(Gone(t, m)) \in Nat
  BY <1>4, <1>6, FS_Subset, FS_CardinalityType
<1>8. QED
  BY <1>4, <1>5, <1>7

-----------------------------------------------------------------------------
(* A client that waits.                                                    *)

(* It has the replies to all its requests but the last.                    *)
Waiting == \A c \in Conns : asked[c] <= Cardinality(Delivered(c)) + 1

Patience ==
    /\ Reading /\ Framing /\ Types /\ EachRequestOnce
    /\ EachOnce /\ Writing /\ Waiting

LEMMA NextWaiting ==
  ASSUME Patient, Reading, Framing, Types, Types', Writing, Waiting, [Next]_vars
  PROVE  Waiting'
<1> SUFFICES ASSUME NEW d \in Conns
             PROVE  asked'[d] <= Cardinality(Delivered(d)') + 1
  BY DEF Waiting
<1>1. /\ Cardinality(Delivered(d)) <= Cardinality(Delivered(d)')
      /\ Cardinality(Delivered(d)) \in Nat /\ Cardinality(Delivered(d)') \in Nat
  BY NextMoves, DeliveredStays, DeliveredCount DEF Writing
<1>2. asked[d] \in Nat /\ asked[d] <= Cardinality(Delivered(d)) + 1
  <2>1. asked[d] \in 0..MaxRequests
    BY DEF Types, OutsideTypes
  <2>2. QED
    BY <2>1, ServerAssumption DEF Waiting, ServerAssumption
<1> DEFINE before == Cardinality(Delivered(d))
           after == Cardinality(Delivered(d)')
<1>3. \/ asked'[d] = asked[d]
      \/ asked'[d] = asked[d] + 1 /\ before = asked[d]
  <2> USE DEF clientVars
  <2>1. CASE Start \/ AcceptFails \/ RunsOut \/ RunPost \/ FinishBadRequest
    BY <2>1 DEF Start, AcceptFails, RunsOut, RunPost, FinishBadRequest
  <2>2. ASSUME NEW c \in Conns, ClientConnects(c) \/ ClientLeaves(c) \/ Accept(c) \/ AcceptThrows(c)
        PROVE  asked'[d] = asked[d]
    BY <2>2 DEF ClientConnects, ClientLeaves, Accept, AcceptThen, AcceptThrows
  <2>3. ASSUME NEW c \in Conns, ClientSends(c)
        PROVE  \/ asked'[d] = asked[d]
               \/ asked'[d] = asked[d] + 1 /\ before = asked[d]
    BY <2>3 DEF ClientSends, Types, OutsideTypes
  <2>4. ASSUME NEW c \in Conns, Completion(c) PROVE asked'[d] = asked[d]
    BY <2>4 DEF Completion, Read, ReadFails, FailThen, WriteSome, WriteEnds
  <2>5. ASSUME NEW w \in Workers, Work(w) PROVE asked'[d] = asked[d]
    BY <2>5
       DEF Work, Take, TakeLeaving, Analyze, Query, Send, Reject, FinishReject, FinishThen
  <2>6. CASE UNCHANGED vars
    BY <2>6 DEF vars
  <2>7. QED
    BY <2>1, <2>2, <2>3, <2>4, <2>5, <2>6 DEF Next, Client
<1> HIDE DEF before, after
<1>4. before \in Nat /\ after \in Nat /\ before <= after /\ asked[d] <= before + 1
  BY <1>1, <1>2 DEF before, after
<1>5. asked'[d] <= after + 1
  BY <1>2, <1>3, <1>4
<1>6. QED
  BY <1>5 DEF after

LEMMA NextWriting ==
  ASSUME Reading, Framing, Types, Types', Writing, [Next]_vars
  PROVE  Writing'
BY NextMoves, MovesWritten DEF Writing

LEMMA InitPatience == Init => Patience
<1> SUFFICES ASSUME Init PROVE Patience
  OBVIOUS
<1>1. Reading /\ Framing /\ Types /\ EachRequestOnce /\ EachOnce
  BY InitReading, InitFraming, InitTypes, InitAccount, InitOnce
<1>2. ASSUME NEW c \in Conns PROVE Written(c)
  <2>1. posts = <<>> /\ Len(posts) = 0 /\ out[c] = <<>> /\ Len(out[c]) = 0 /\ writes[c] = {}
    BY EmptySeq DEF Init
  <2>2. Unsent(c) = {} /\ PostsOnce
    BY <2>1 DEF Unsent, UnsentIn, PostsOnce, Distinct
  <2>3. QED
    BY <2>1, <2>2 DEF Written, Sending
<1>3. ASSUME NEW c \in Conns PROVE asked[c] <= Cardinality(Delivered(c)) + 1
  <2>1. asked[c] = 0
    BY DEF Init
  <2>2. Cardinality(Delivered(c)) \in Nat
    BY <1>1, DeliveredCount
  <2>3. QED
    BY <2>1, <2>2
<1>4. QED
  BY <1>1, <1>2, <1>3 DEF Patience, Writing, Waiting

LEMMA NextPatience ==
  ASSUME Patient, \A r \in Requests : OneRequest(r), Patience, [Next]_vars
  PROVE  Patience'
<1> USE DEF Patience
<1>1. Reading' /\ Framing'
  BY NextReading, NextFraming
<1>2. Types'
  BY NextOutside, NextAnswering DEF Types
<1>3. EachRequestOnce'
  BY NextAccount
<1>4. EachOnce'
  BY NextOnce
<1>5. Writing' /\ Waiting'
  BY <1>2, NextWriting, NextWaiting
<1>6. QED
  BY <1>1, <1>2, <1>3, <1>4, <1>5

(* At most one request is in the server, or one reply is on its way.       *)
LEMMA OneOpen ==
  ASSUME Patience, NEW c \in Conns
  PROVE  /\ Cardinality(Queued(c)) + Cardinality(Unanswered(c)) + failed[c] + Len(replies[c])
                <= Cardinality(Delivered(c)) + 1
         /\ Met(c) < asked[c] =>
                /\ Cardinality(Queued(c)) = 0 /\ Cardinality(Unanswered(c)) = 0
                /\ failed[c] = 0 /\ Len(replies[c]) = Cardinality(Delivered(c))
<1> USE DEF Patience
<1>1. PICK v \in Nat, r \in Nat, q \in Nat, u \in Nat, l \in Nat, f \in Nat :
        /\ v = Len(views[c]) /\ r = rejected[c]
        /\ q = Cardinality(Queued(c)) /\ u = Cardinality(Unanswered(c))
        /\ l = Len(replies[c]) /\ f = failed[c]
  BY AccountTypes DEF Types
<1>2. PICK d \in Nat : d = Cardinality(Delivered(c)) /\ d <= l
  BY <1>1, DeliveredCount
<1>3. PICK a \in Nat : a = asked[c]
  <2>1. asked[c] \in 0..MaxRequests
    BY DEF Types, OutsideTypes
  <2>2. QED
    BY <2>1, ServerAssumption DEF ServerAssumption
<1>4. v + r = q + u + l + f
  BY <1>1 DEF EachRequestOnce
<1>5. v + r <= a /\ a <= d + 1
  BY <1>1, <1>2, <1>3 DEF EachOnce, Once, Met, Waiting
<1>6. q + u + f + l <= d + 1
  BY <1>4, <1>5
<1>7. v + r < a => q = 0 /\ u = 0 /\ f = 0 /\ l = d
  BY <1>2, <1>4, <1>5
<1>8. QED
  BY <1>1, <1>2, <1>3, <1>6, <1>7 DEF Met

(* A client that waits for each answer, and sends requests that are as     *)
(* long as their heads say, never has two requests in the queue and in the *)
(* hands of workers, however the network cuts them: the backlog of the     *)
(* pool is bounded by the number of its clients (MiniServer.cpp:174).      *)
THEOREM OneRequestInHand ==
  ASSUME Patient, \A r \in Requests : OneRequest(r)
  PROVE  Safety => []OneInHand
<1>1. Patience => OneInHand
  <2> SUFFICES ASSUME Patience, NEW c \in Conns
               PROVE  Cardinality(Queued(c)) + Cardinality(Unanswered(c)) <= 1
    BY DEF OneInHand
  <2>1. /\ Cardinality(Queued(c)) \in Nat /\ Cardinality(Unanswered(c)) \in Nat
        /\ Len(replies[c]) \in Nat /\ failed[c] \in Nat
    BY AccountTypes DEF Patience, Types
  <2>2. Cardinality(Delivered(c)) \in Nat /\ Cardinality(Delivered(c)) <= Len(replies[c])
    BY DeliveredCount DEF Patience
  <2>3. Cardinality(Queued(c)) + Cardinality(Unanswered(c)) + failed[c] + Len(replies[c])
                <= Cardinality(Delivered(c)) + 1
    BY OneOpen
  <2>4. QED
    BY <2>1, <2>2, <2>3
<1>2. Patience /\ [Next]_vars => Patience'
  BY NextPatience
<1>3. QED
  BY <1>1, <1>2, InitPatience, PTL DEF Safety

-----------------------------------------------------------------------------
(* Replies leave one after the other.                                      *)

Whole == \A c \in Conns : InOnePiece(out[c], Len(replies[c]))

(* All of n are in S but one.                                              *)
LEMMA OneMissing ==
  ASSUME NEW n \in Nat, NEW S \in SUBSET (1..n)
  PROVE  /\ \A r \in 1..n : n <= Cardinality(S) + 1 /\ r \notin S =>
                \A q \in 1..n : q # r => q \in S
         /\ n <= Cardinality(S) => \A q \in 1..n : q \in S
<1>1. IsFiniteSet(1..n) /\ Cardinality(1..n) = n
  BY FS_Interval
<1>2. IsFiniteSet(S) /\ Cardinality(S) \in Nat
  BY <1>1, FS_Subset, FS_CardinalityType
<1>3. ASSUME NEW r \in 1..n, n <= Cardinality(S) + 1, r \notin S
      PROVE  \A q \in 1..n : q # r => q \in S
  <2>1. IsFiniteSet((1..n) \ {r}) /\ Cardinality((1..n) \ {r}) = n - 1
    BY <1>1, FS_RemoveElement
  <2>2. S \in SUBSET ((1..n) \ {r})
    BY <1>3
  <2>3. Cardinality(S) <= Cardinality((1..n) \ {r})
    BY <2>1, <2>2, FS_Subset
  <2>4. Cardinality((1..n) \ {r}) = Cardinality(S)
    BY <1>2, <1>3, <2>1, <2>3
  <2>5. (1..n) \ {r} = S
    BY <2>1, <2>2, <2>4, FS_Subset
  <2>6. QED
    BY <2>5
<1>4. ASSUME n <= Cardinality(S) PROVE \A q \in 1..n : q \in S
  <2>1. Cardinality(S) <= Cardinality(1..n)
    BY <1>1, FS_Subset
  <2>2. Cardinality(1..n) = Cardinality(S)
    BY <1>1, <1>2, <1>4, <2>1
  <2>3. 1..n = S
    BY <1>1, <2>2, FS_Subset
  <2>4. QED
    BY <2>3
<1>5. QED
  BY <1>3, <1>4

(* When chunks of a reply leave, all other replies have left in full.      *)
LEMMA Alone ==
  ASSUME Patience, NEW c \in Conns, NEW r,
         \/ r \in 1..Len(replies[c]) /\ r \notin Delivered(c)
         \/ Answers(c)
  PROVE  \A q \in 1..Len(replies[c]) : q # r => q \in Delivered(c)
<1> USE DEF Patience
<1>1. PICK n \in Nat : n = Len(replies[c])
  BY DeliveredCount
<1>2. PICK S \in SUBSET (1..n) : S = Delivered(c)
  BY <1>1, DeliveredCount DEF Delivered
<1>3. PICK q \in Nat, u \in Nat, f \in Nat :
        q = Cardinality(Queued(c)) /\ u = Cardinality(Unanswered(c)) /\ f = failed[c]
  BY AccountTypes DEF Types
<1>4. PICK d \in Nat : d = Cardinality(S)
  BY <1>2, DeliveredCount
<1>5. q + u + f + n <= d + 1
  BY <1>1, <1>2, <1>3, <1>4, OneOpen
<1>6. n <= d + 1
  BY <1>5
<1>7. CASE r \in 1..n /\ r \notin S
  BY <1>1, <1>2, <1>4, <1>6, <1>7, OneMissing
<1>8. CASE Answers(c)
  <2>1. CASE Read(c)
    <3>1. Met(c) < asked[c]
      BY <2>1, ReadOnce DEF EachOnce
    <3>2. n = Cardinality(S)
      BY <1>1, <1>2, <3>1, OneOpen
    <3>3. n <= Cardinality(S)
      BY <3>2
    <3>4. QED
      BY <1>1, <1>2, <3>3, OneMissing
  <2>2. CASE Unanswered(c) # {}
    <3>1. u # 0
      <4>1. IsFiniteSet(Unanswered(c))
        BY UnansweredFinite
      <4>2. QED
        BY <1>3, <2>2, <4>1, FS_EmptySet
    <3>2. n <= d
      BY <1>5, <3>1
    <3>3. QED
      BY <1>1, <1>2, <1>4, <3>2, OneMissing
  <2>3. QED
    BY <1>8, <2>1, <2>2 DEF Answers
<1>9. QED
  BY <1>1, <1>2, <1>7, <1>8

LEMMA NextWhole ==
  ASSUME Patience, Types', Whole, [Next]_vars
  PROVE  Whole'
<1> SUFFICES ASSUME NEW c \in Conns
             PROVE  InOnePiece(out'[c], Len(replies'[c]))
  BY DEF Whole
<1> USE DEF Patience
<1>1. Written(c) /\ Moves(c)
  BY NextMoves DEF Writing
<1>2. PICK s \in Seq(Number), t \in Seq(Number), n \in Nat, m \in Nat :
        s = out[c] /\ t = out'[c] /\ n = Len(replies[c]) /\ m = Len(replies'[c])
  <2>1. Len(replies'[c]) \in Nat
    BY LenProperties DEF Types, ReplyTypes
  <2>2. QED
    BY <2>1, ReplyKinds DEF Types, ReplyTypes, Number
<1>3. m \in {n, n + 1} /\ (t = s \/ Adding(c))
  BY <1>1, <1>2, MovesAdd
<1>4. InOnePiece(s, n) /\ \A i \in 1..Len(s) : s[i] \in 1..n
  BY <1>1, <1>2 DEF Whole, Written, Sending
<1>5. CASE t = s
  <2>1. InOnePiece(s, n + 1)
    BY <1>4, PieceStays
  <2>2. QED
    BY <1>2, <1>3, <1>4, <1>5, <2>1
<1>6. CASE Adding(c)
  <2>1. PICK r \in Number : \E k \in Nat :
            /\ Adds(s, r, k, t) /\ r \notin Gone(s, n)
            /\ r \in 1..n \/ Answers(c)
    BY <1>2, <1>6 DEF Adding
  <2>2. PICK k \in Nat :
            /\ Adds(s, r, k, t) /\ r \notin Gone(s, n)
            /\ r \in 1..n \/ Answers(c)
    BY <2>1
  <2>3. Delivered(c) = Gone(s, n)
    BY <1>2, DeliveredIsGone
  <2>4. \A q \in 1..n : q # r => q \in Gone(s, n)
    BY <1>2, <2>2, <2>3, Alone
  <2>5. n <= m
    BY <1>3
  <2>6. InOnePiece(t, m)
    BY <1>4, <2>2, <2>4, <2>5, PieceGrows
  <2>7. QED
    BY <1>2, <2>6
<1>7. QED
  BY <1>3, <1>5, <1>6

(* The chunks of two replies to a client that waits are not interleaved:   *)
(* when a chunk of one leaves, every other has left in full, though the io *)
(* thread and the workers all call async_write (MiniServer.cpp:105, 162).  *)
THEOREM RepliesInOnePiece ==
  ASSUME Patient, \A r \in Requests : OneRequest(r)
  PROVE  Safety => []RepliesNotInterleaved
<1>1. Init => Whole
  <2> SUFFICES ASSUME Init, NEW c \in Conns PROVE InOnePiece(out[c], Len(replies[c]))
    BY DEF Whole
  <2>1. Len(out[c]) = 0
    BY EmptySeq DEF Init
  <2>2. QED
    BY <2>1 DEF InOnePiece
<1>2. Patience /\ [Next]_vars => Patience'
  BY NextPatience
<1>3. Patience /\ Patience' /\ Whole /\ [Next]_vars => Whole'
  BY NextWhole DEF Patience
<1>4. Patience /\ Whole => RepliesNotInterleaved
  <2> SUFFICES ASSUME Patience, Whole, NEW c \in Conns,
                      NEW i \in DOMAIN out[c], NEW k \in DOMAIN out[c],
                      out[c][i] = out[c][k], NEW j \in i..k
               PROVE  out[c][j] = out[c][i]
    BY DEF RepliesNotInterleaved
  <2>1. DOMAIN out[c] = 1..Len(out[c])
    BY ReplyKinds, LenProperties DEF Patience
  <2>2. InOnePiece(out[c], Len(replies[c]))
    BY DEF Whole
  <2>3. QED
    BY <2>1, <2>2 DEF InOnePiece
<1>5. QED
  BY <1>1, <1>2, <1>3, <1>4, InitPatience, PTL DEF Safety

-----------------------------------------------------------------------------
(* Memory: a body is parsed before the connection is read again.           *)

(* When a connection is read, nothing of it is in the server.              *)
LEMMA ReadAlone ==
  ASSUME Patience, NEW c \in Conns, Read(c)
  PROVE  /\ \A i \in 1..Len(tasks) : tasks[i].conn # c
         /\ \A w \in Workers : ~Holds(worker[w], c)
<1> USE DEF Patience
<1>1. Met(c) < asked[c]
  BY ReadOnce DEF EachOnce
<1>2. Cardinality(Queued(c)) = 0 /\ Cardinality(Unanswered(c)) = 0
  BY <1>1, OneOpen
<1>3. IsFiniteSet(Queued(c))
  BY TaskKinds, InSeqFinite DEF Queued, InSeq
<1>4. IsFiniteSet(Unanswered(c)) /\ Unanswered(c) = {w \in Workers : Holds(worker[w], c)}
  BY UnansweredFinite
<1>5. Queued(c) = {} /\ Unanswered(c) = {}
  BY <1>2, <1>3, <1>4, FS_EmptySet
<1>6. \A i \in 1..Len(tasks) : tasks[i].conn # c
  BY <1>5, TaskKinds DEF Queued
<1>7. QED
  BY <1>4, <1>5, <1>6

(* A task that waits, or is about to be parsed, has the Buffer's array.    *)
SizesHold ==
    /\ \A i \in 1..Len(tasks) : tasks[i].size = size[tasks[i].conn]
    /\ \A w \in Workers : worker[w].at = "analyze" =>
            worker[w].task.size = size[worker[w].task.conn]

LEMMA SizesKept == SizesHold /\ UNCHANGED <<tasks, worker, size>> => SizesHold'
BY DEF SizesHold

LEMMA ReadSizes ==
  ASSUME Patience, SizesHold, NEW c \in Conns, Read(c)
  PROVE  SizesHold'
<1> USE DEF Patience
<1>1. /\ \A i \in 1..Len(tasks) : tasks[i].conn # c
      /\ \A w \in Workers : ~Holds(worker[w], c)
  BY ReadAlone
<1>2. \A d \in Conns : d # c => size'[d] = size[d]
  BY ReadElsewhere DEF Elsewhere
<1>3. UNCHANGED worker
  BY DEF Read
<1>4. ASSUME NEW w \in Workers, worker'[w].at = "analyze"
      PROVE  worker'[w].task.size = size'[worker'[w].task.conn]
  BY <1>1, <1>2, <1>3, <1>4, TaskKinds DEF Holds, SizesHold
<1>5. \A i \in 1..Len(tasks) : tasks[i].size = size'[tasks[i].conn]
  BY <1>1, <1>2, TaskKinds DEF SizesHold
<1>6. CASE UNCHANGED tasks
  BY <1>4, <1>5, <1>6 DEF SizesHold
<1>7. CASE Hands(c)
  <2>1. PICK t \in TaskType : t.conn = c /\ t.size = size'[c] /\ tasks' = Append(tasks, t)
    BY <1>7 DEF Hands
  <2>2. /\ Len(tasks') = Len(tasks) + 1 /\ tasks'[Len(tasks) + 1] = t
        /\ \A i \in 1..Len(tasks) : tasks'[i] = tasks[i]
    BY <2>1, TaskKinds, AppendProperties
  <2>3. ASSUME NEW i \in 1..Len(tasks') PROVE tasks'[i].size = size'[tasks'[i].conn]
    <3>1. i \in 1..Len(tasks) \/ i = Len(tasks) + 1
      BY <2>2, <2>3, TaskKinds
    <3>2. QED
      BY <1>5, <2>1, <2>2, <3>1
  <2>4. QED
    BY <1>4, <2>3 DEF SizesHold
<1>8. QED
  BY <1>6, <1>7, ReadDoes DEF Quiet, Rejects

LEMMA WorkSizes ==
  ASSUME Types, SizesHold, NEW w \in Workers, Work(w)
  PROVE  SizesHold'
<1>1. /\ Takes(w) \/ Continues(w)
      /\ \A v \in Workers : v # w => worker'[v] = worker[v]
      /\ UNCHANGED size
  BY WorkMoves
<1>2. CASE Takes(w)
  <2>1. /\ Len(tasks) \in Nat /\ Len(tasks) # 0 /\ Head(tasks) = tasks[1]
        /\ Len(tasks') = Len(tasks) - 1
        /\ \A i \in 1..Len(tasks') : tasks'[i] = tasks[i + 1]
    BY <1>2, TaskKinds, LenProperties, EmptySeq, HeadTailProperties DEF Takes
  <2>2. ASSUME NEW i \in 1..Len(tasks') PROVE tasks'[i].size = size'[tasks'[i].conn]
    <3>1. i + 1 \in 1..Len(tasks)
      BY <2>1, <2>2
    <3>2. QED
      BY <1>1, <2>1, <3>1 DEF SizesHold
  <2>3. Head(tasks).size = size[Head(tasks).conn]
    <3>1. 1 \in 1..Len(tasks)
      BY <2>1
    <3>2. QED
      BY <2>1, <3>1 DEF SizesHold
  <2>4. worker'[w].task = Head(tasks)
    BY <1>2 DEF Takes, Busy
  <2>5. QED
    BY <1>1, <2>2, <2>3, <2>4 DEF SizesHold
<1>3. CASE Continues(w)
  <2>1. worker'[w].at # "analyze" /\ UNCHANGED tasks
    BY <1>3 DEF Continues, Idle
  <2>2. QED
    BY <1>1, <2>1 DEF SizesHold
<1>4. QED
  BY <1>1, <1>2, <1>3

LEMMA NextSizes ==
  ASSUME Patience, SizesHold, [Next]_vars
  PROVE  SizesHold'
BY SizesKept, StepKinds, ReadSizes, WorkSizes DEF Patience

LEMMA InitSizes == Init => SizesHold
<1> SUFFICES ASSUME Init PROVE SizesHold
  OBVIOUS
<1>1. Len(tasks) = 0 /\ \A w \in Workers : worker[w].at = "idle"
  BY EmptySeq DEF Init, Idle
<1>2. QED
  BY <1>1 DEF SizesHold

(* A worker that parses a body finds it in the array that the Buffer has:  *)
(* for a client that waits, no read and so no double_size comes between    *)
(* the enqueueing of the string_view and the parsing of it                 *)
(* (MiniServer.cpp:92, TcpConnection.h:77).                                *)
THEOREM ViewsValid ==
  ASSUME Patient, \A r \in Requests : OneRequest(r)
  PROVE  Safety => []ViewsStayValid
<1>1. Patience /\ [Next]_vars => Patience'
  BY NextPatience
<1>2. Patience /\ SizesHold /\ [Next]_vars => SizesHold'
  BY NextSizes
<1>3. SizesHold => ViewsStayValid
  BY DEF SizesHold, ViewsStayValid, Stale
<1>4. QED
  BY <1>1, <1>2, <1>3, InitPatience, InitSizes, PTL DEF Safety

-----------------------------------------------------------------------------
(* Bodies: a worker that has a query or a reply was given an object.       *)

(* No head announces a length below zero.                                  *)
NoneBelow(s) == \A e \in 1..Len(s) : s[e].class = "end" => s[e].len # Negative

NoneBelowZero == \A c \in Conns : NoneBelow(Sent(c))

LEMMA BelowConcat ==
  ASSUME NEW s \in Seq(Byte), NEW r \in Seq(Byte), NoneBelow(s), OneRequest(r)
  PROVE  NoneBelow(s \o r)
<1>1. /\ Len(s) \in Nat /\ Len(r) \in Nat /\ DOMAIN r = 1..Len(r)
      /\ Len(s \o r) = Len(s) + Len(r)
      /\ \A i \in 1..Len(s) : (s \o r)[i] = s[i]
      /\ \A i \in (Len(s) + 1)..Len(s \o r) : (s \o r)[i] = r[i - Len(s)]
  BY LenProperties, ConcatProperties
<1>2. ASSUME NEW e \in 1..Len(s \o r), (s \o r)[e].class = "end"
      PROVE  (s \o r)[e].len # Negative
  <2>1. CASE e \in 1..Len(s)
    BY <1>1, <1>2, <2>1 DEF NoneBelow
  <2>2. CASE e \in (Len(s) + 1)..Len(s \o r)
    <3>1. e - Len(s) \in 1..Len(r) /\ (s \o r)[e] = r[e - Len(s)]
      BY <1>1, <2>2
    <3>2. QED
      BY <1>1, <1>2, <3>1 DEF OneRequest, Ends
  <2>3. QED
    BY <1>1, <1>2, <2>1, <2>2
<1>3. QED
  BY <1>2 DEF NoneBelow

LEMMA NextBelow ==
  ASSUME \A r \in Requests : OneRequest(r), Reading, NoneBelowZero, [Next]_vars
  PROVE  NoneBelowZero'
<1> USE DEF inVars, bufferVars
<1>1. CASE UNCHANGED <<buf, wire>>
  BY <1>1 DEF NoneBelowZero, Sent
<1>2. CASE Start \/ AcceptFails \/ RunsOut \/ RunPost \/ FinishBadRequest
  BY <1>1, <1>2 DEF Start, AcceptFails, RunsOut, RunPost, FinishBadRequest
<1>3. ASSUME NEW c \in Conns,
             ClientConnects(c) \/ ClientLeaves(c) \/ Accept(c) \/ AcceptThrows(c)
      PROVE  NoneBelowZero'
  BY <1>1, <1>3 DEF ClientConnects, ClientLeaves, Accept, AcceptThen, AcceptThrows
<1>4. ASSUME NEW c \in Conns, ClientSends(c) PROVE NoneBelowZero'
  <2>1. PICK r \in Requests : wire' = [wire EXCEPT ![c] = wire[c] \o r]
    BY <1>4 DEF ClientSends
  <2>2. r \in Seq(Byte) /\ OneRequest(r)
    BY ServerAssumption DEF ServerAssumption
  <2>3. PICK b \in Seq(Byte), w \in Seq(Byte) : b = buf[c] /\ w = wire[c]
    BY DEF Reading, ReadingType
  <2>4. /\ UNCHANGED buf /\ wire'[c] = w \o r
        /\ \A d \in Conns : d # c => wire'[d] = wire[d]
    BY <1>4, <2>1, <2>3 DEF ClientSends, Reading, ReadingType
  <2>5. Sent(c) = b \o w /\ Sent(c)' = b \o (w \o r)
    BY <2>3, <2>4 DEF Sent
  <2>6. b \o w \in Seq(Byte) /\ b \o (w \o r) = (b \o w) \o r
    BY <2>2, ConcatProperties, ConcatAssociative
  <2>7. NoneBelow(b \o w)
    BY <2>5 DEF NoneBelowZero
  <2>8. NoneBelow((b \o w) \o r)
    BY <2>2, <2>6, <2>7, BelowConcat
  <2>9. NoneBelow(Sent(c)')
    BY <2>5, <2>6, <2>8
  <2>10. ASSUME NEW d \in Conns, d # c PROVE Sent(d)' = Sent(d)
    BY <2>4, <2>10 DEF Sent
  <2>11. QED
    BY <2>9, <2>10 DEF NoneBelowZero, NoneBelow
<1>5. ASSUME NEW c \in Conns, Read(c) PROVE NoneBelowZero'
  <2>1. PICK n \in 1..Len(wire[c]) : n <= Writeable(c) /\ Receive(c, n)
    BY <1>5 DEF Read
  <2>2. Received(c)
    BY <2>1, ReceivesSent
  <2>3. ASSUME NEW d \in Conns PROVE Sent(d)' = Sent(d)
    BY <2>2 DEF Received, Sent
  <2>4. QED
    BY <2>3 DEF NoneBelowZero, NoneBelow
<1>6. ASSUME NEW c \in Conns, ReadFails(c) \/ WriteSome(c) \/ WriteEnds(c)
      PROVE  NoneBelowZero'
  BY <1>1, <1>6 DEF ReadFails, FailThen, WriteSome, WriteEnds
<1>7. ASSUME NEW w \in Workers, Work(w) PROVE NoneBelowZero'
  BY <1>1, <1>7
     DEF Work, Take, TakeLeaving, Analyze, Query, Send, Reject, FinishReject, FinishThen
<1>8. CASE UNCHANGED vars
  BY <1>1, <1>8 DEF vars
<1>9. QED
  BY <1>2, <1>3, <1>4, <1>5, <1>6, <1>7, <1>8 DEF Next, Client, Completion

(* What the server takes for a request is a body that begins an object:    *)
(* with a view that has stayed valid and a length that is not below zero.  *)
LEMMA RequestsAreObjects ==
  ASSUME Framing, Reading, NoneBelowZero, NEW t \in TaskType, t.conn \in Conns,
         IsFor(t, views[t.conn]), ~Stale(t), "query" \in Analyses(t)
  PROVE  Braced(buf[t.conn], t)
<1>1. PICK c \in Conns : c = t.conn
  OBVIOUS
<1>2. PICK i \in 1..Len(views[c]) : views[c][i] = ViewOf(t)
  BY <1>1 DEF IsFor
<1>3. IsBody(buf[c], ViewOf(t))
  BY <1>2 DEF Framing, FrameOf, Frame, Bodied
<1>4. /\ t.from \in 1..Len(buf[c]) /\ buf[c][t.from].class = "end"
      /\ buf[c][t.from].len = t.nlen \/ t.nlen = 0
  BY <1>3 DEF IsBody, ViewOf
<1>5. t.nlen # Negative
  <2>1. PICK b \in Seq(Byte), w \in Seq(Byte) : b = buf[c] /\ w = wire[c]
    BY DEF Reading, ReadingType
  <2>2. /\ Len(b) \in Nat /\ Len(w) \in Nat /\ Len(b \o w) = Len(b) + Len(w)
        /\ \A k \in 1..Len(b) : (b \o w)[k] = b[k]
    BY LenProperties, ConcatProperties
  <2>3. t.from \in 1..Len(b \o w) /\ (b \o w)[t.from] = b[t.from]
    <3>1. t.from \in 1..Len(b)
      BY <1>4, <2>1
    <3>2. PICK m \in Nat, n \in Nat : m = Len(b) /\ n = Len(b \o w) /\ m <= n
      BY <2>2
    <3>3. t.from \in 1..n
      BY <3>1, <3>2
    <3>4. QED
      BY <2>2, <3>1, <3>2, <3>3
  <2>4. NoneBelow(b \o w)
    BY <2>1 DEF NoneBelowZero, Sent
  <2>5. buf[c][t.from].len # Negative
    BY <1>4, <2>1, <2>3, <2>4 DEF NoneBelow
  <2>6. 0 # Negative
    BY DEF Negative
  <2>7. QED
    BY <1>4, <2>5, <2>6
<1>6. t.nlen # 0 /\ buf[c][t.from + 1].class = "brace"
  BY <1>1, <1>5 DEF Analyses
<1>7. t.nlen > 0
  <2>1. t.nlen \in Nat
    BY <1>5 DEF TaskType, Length
  <2>2. QED
    BY <1>6, <2>1
<1>8. QED
  BY <1>1, <1>6, <1>7 DEF Braced

(* ... and only such a body is queried for or answered 200.                *)
QueriesObjects ==
    \A w \in Workers : worker[w].at \in {"query", "reply"} =>
        Braced(buf[worker[w].task.conn], worker[w].task)

LEMMA WorkQueries ==
  ASSUME Types, Reading, Framing, NoneBelowZero, SizesHold, TasksAreViews,
         QueriesObjects, NEW w \in Workers, Work(w)
  PROVE  QueriesObjects'
<1>1. /\ Takes(w) \/ Continues(w)
      /\ \A v \in Workers : v # w => worker'[v] = worker[v]
      /\ UNCHANGED buf
  BY WorkMoves
<1>2. ASSUME worker'[w].at \in {"query", "reply"}
      PROVE  Braced(buf[worker'[w].task.conn], worker'[w].task)
  <2>1. /\ worker'[w].task = worker[w].task
        /\ worker[w].at \in {"analyze", "query", "marked", "reject"}
    BY <1>1, <1>2 DEF Takes, Continues, Idle, Busy
  <2>2. CASE worker[w].at = "query"
    BY <2>1, <2>2 DEF QueriesObjects
  <2>3. CASE worker[w].at = "analyze"
    <3>1. Analyze(w)
      BY <2>3 DEF Work, Take, TakeLeaving, Idle, Query, Send, Reject, FinishReject, FinishThen
    <3>2. "query" \in Analyses(worker[w].task)
      <4>1. worker'[w].at = "query"
        BY <1>2, <3>1, TaskKinds DEF Analyze, Analyses, Become, Busy, Idle
      <4>2. QED
        BY <3>1, <4>1, TaskKinds DEF Analyze, Become, Busy, Idle
    <3>3. worker[w].task \in TaskType /\ worker[w].task.conn \in Conns
      BY <2>3, TaskKinds
    <3>4. IsFor(worker[w].task, views[worker[w].task.conn]) /\ ~Stale(worker[w].task)
      BY <2>3 DEF TasksAreViews, SizesHold, Stale
    <3>5. PICK t \in TaskType : t = worker[w].task
      BY <3>3
    <3>6. Braced(buf[t.conn], t)
      BY <3>2, <3>3, <3>4, <3>5, RequestsAreObjects
    <3>7. QED
      BY <2>1, <3>5, <3>6
  <2>4. CASE worker[w].at = "reject"
    <3>1. Reject(w)
      BY <2>4 DEF Work, Take, TakeLeaving, Idle, Query, Send, Analyze, FinishReject, FinishThen
    <3>2. worker'[w].at = "context"
      BY <3>1, TaskKinds DEF Reject, Become
    <3>3. QED
      BY <1>2, <3>2
  <2>5. CASE worker[w].at = "marked"
    <3>1. Query(w)
      BY <2>5 DEF Work, Take, TakeLeaving, Idle, Analyze, Send, Reject, FinishReject, FinishThen
    <3>2. worker'[w].at = "reject"
      BY <2>5, <3>1, TaskKinds DEF Query, Become, Busy
    <3>3. QED
      BY <1>2, <3>2
  <2>6. QED
    BY <2>1, <2>2, <2>3, <2>4, <2>5
<1>3. QED
  BY <1>1, <1>2 DEF QueriesObjects

LEMMA ReadQueries ==
  ASSUME Patience, QueriesObjects, NEW c \in Conns, Read(c)
  PROVE  QueriesObjects'
<1> USE DEF Patience
<1>1. \A w \in Workers : ~Holds(worker[w], c)
  BY ReadAlone
<1>2. \A d \in Conns : d # c => buf'[d] = buf[d]
  BY ReadElsewhere DEF Elsewhere
<1>3. UNCHANGED worker
  BY DEF Read
<1>4. ASSUME NEW w \in Workers, worker[w].at \in {"query", "reply"}
      PROVE  Braced(buf'[worker[w].task.conn], worker[w].task)
  <2>1. worker[w].task.conn \in Conns /\ worker[w].task.conn # c
    BY <1>1, <1>4, TaskKinds DEF Holds
  <2>2. QED
    BY <1>2, <1>4, <2>1 DEF QueriesObjects
<1>5. QED
  BY <1>3, <1>4 DEF QueriesObjects

(* What workers and reads know of bodies.                                  *)
Serving ==
    /\ Patience /\ Objects
    /\ SizesHold /\ NoneBelowZero /\ TasksAreViews /\ QueriesObjects

LEMMA NextServing ==
  ASSUME Patient, \A r \in Requests : OneRequest(r), Serving, [Next]_vars
  PROVE  Serving'
<1> USE DEF Serving, Patience
<1>1. Patience' /\ Objects' /\ SizesHold' /\ NoneBelowZero'
  BY NextPatience, NextObjects, NextSizes, NextBelow
<1>2. TasksAreViews' /\ QueriesObjects'
  <2>1. CASE UNCHANGED <<size, buf, views, tasks, worker, replies>>
    BY <2>1 DEF TasksAreViews, QueriesObjects
  <2>2. ASSUME NEW c \in Conns, Read(c) PROVE TasksAreViews' /\ QueriesObjects'
    BY <2>2, ReadViews, ReadQueries
  <2>3. ASSUME NEW w \in Workers, Work(w) PROVE TasksAreViews' /\ QueriesObjects'
    BY <2>3, WorkViews, WorkQueries
  <2>4. QED
    BY <2>1, <2>2, <2>3, StepKinds
<1>3. QED
  BY <1>1, <1>2

LEMMA InitServing == Init => Serving
<1> SUFFICES ASSUME Init PROVE Serving
  OBVIOUS
<1>1. Len(tasks) = 0 /\ \A w \in Workers : worker[w].at = "idle"
  BY EmptySeq DEF Init, Idle
<1>2. TasksAreViews /\ QueriesObjects
  BY <1>1 DEF TasksAreViews, QueriesObjects
<1>3. NoneBelowZero
  <2>1. ASSUME NEW c \in Conns PROVE Len(Sent(c)) = 0
    BY EmptySeq, ConcatEmptySeq DEF Init, Sent
  <2>2. QED
    BY <2>1 DEF NoneBelowZero, NoneBelow
<1>4. QED
  BY <1>2, <1>3, InitPatience, InitObjects, InitSizes DEF Serving
-----------------------------------------------------------------------------
(* Answers: one request at most is answered 200.                           *)

OksOf(s) == {r \in 1..Len(s) : s[r] = "ok"}

LEMMA OksAppend ==
  ASSUME NEW s \in Seq({"ok", "bad"})
  PROVE  /\ OksOf(Append(s, "bad")) = OksOf(s)
         /\ OksOf(Append(s, "ok")) = OksOf(s) \cup {Len(s) + 1}
<1>1. Len(s) \in Nat
  BY LenProperties
<1>2. ASSUME NEW x \in {"ok", "bad"}
      PROVE  /\ Len(Append(s, x)) = Len(s) + 1
             /\ \A i \in 1..Len(s) : Append(s, x)[i] = s[i]
             /\ Append(s, x)[Len(s) + 1] = x
  BY AppendProperties
<1>3. 1..(Len(s) + 1) = (1..Len(s)) \cup {Len(s) + 1}
  BY <1>1
<1>4. QED
  BY <1>2, <1>3 DEF OksOf

LEMMA ReadOks ==
  ASSUME Reading, Types, NEW c \in Conns, Read(c), NEW d \in Conns
  PROVE  OksOf(replies'[d]) = OksOf(replies[d])
<1>1. replies \in [Conns -> Seq({"ok", "bad"})]
  BY ReplyKinds
<1>2. CASE UNCHANGED replies
  BY <1>2
<1>3. CASE Rejects(c)
  <2>1. replies' = [replies EXCEPT ![c] = Append(replies[c], "bad")]
    BY <1>3 DEF Rejects, WriteBadRequest, Push
  <2>2. OksOf(Append(replies[c], "bad")) = OksOf(replies[c])
    BY <1>1, OksAppend
  <2>3. QED
    BY <1>1, <2>1, <2>2
<1>4. QED
  BY <1>2, <1>3, ReadDoes DEF Quiet, Hands, replyVars

LEMMA WorkOks ==
  ASSUME Types, NEW w \in Workers, Work(w), NEW d \in Conns
  PROVE  \/ OksOf(replies'[d]) = OksOf(replies[d])
         \/ /\ worker[w].at = "reply" /\ worker[w].task.conn = d
            /\ worker'[w] = Idle /\ UNCHANGED tasks
            /\ OksOf(replies'[d]) = OksOf(replies[d]) \cup {Len(replies[d]) + 1}
<1>1. replies \in [Conns -> Seq({"ok", "bad"})] /\ worker \in [Workers -> WorkerType]
  BY ReplyKinds, TaskKinds
<1> DEFINE c == worker[w].task.conn
<1>2. CASE UNCHANGED replies
  BY <1>2
<1>3. CASE Reject(w)
  <2>1. replies' = [replies EXCEPT ![c] = Append(replies[c], "bad")]
    BY <1>3 DEF Reject, WriteBadRequest, Push
  <2>2. c \in Conns
    BY <1>3, TaskKinds DEF Reject
  <2>3. OksOf(Append(replies[c], "bad")) = OksOf(replies[c])
    BY <1>1, <2>2, OksAppend
  <2>4. QED
    BY <1>1, <2>1, <2>3
<1>4. CASE Send(w)
  <2>1. /\ worker[w].at = "reply" /\ worker'[w] = Idle /\ UNCHANGED tasks
        /\ replies' = [replies EXCEPT ![c] = Append(replies[c], "ok")]
    BY <1>1, <1>4 DEF Send, Push, Become
  <2>2. c \in Conns
    BY <2>1, TaskKinds
  <2>3. OksOf(Append(replies[c], "ok")) = OksOf(replies[c]) \cup {Len(replies[c]) + 1}
    BY <1>1, <2>2, OksAppend
  <2>4. QED
    BY <1>1, <2>1, <2>2, <2>3
<1>5. QED
  BY <1>2, <1>3, <1>4
     DEF Work, Take, TakeLeaving, Analyze, Query, FinishReject, FinishThen, SetContext,
         outVars, replyVars

(* With a connection that has been answered 200 the server is done: what   *)
(* was answered is an object, and no further request of it will be met.    *)
Done(c) ==
    /\ \A i \in 1..Len(tasks) : tasks[i].conn # c
    /\ \A w \in Workers : ~Holds(worker[w], c)
    /\ \E i \in 1..Len(views[c]) : Braced(buf[c], views[c][i])

OkEndsIt ==
    \A c \in Conns :
        /\ \A r, s \in OksOf(replies[c]) : r = s
        /\ OksOf(replies[c]) # {} => Done(c)

(* A read of such a connection hands nothing over, by Objects.             *)
LEMMA ReadDone ==
  ASSUME Serving, NEW c \in Conns, Read(c), NEW d \in Conns, Done(d)
  PROVE  Done(d)'
<1> USE DEF Serving, Patience
<1>1. UNCHANGED worker
  BY DEF Read
<1>2. PICK i \in 1..Len(views[d]) : Braced(buf[d], views[d][i])
  BY DEF Done
<1>3. /\ i \in 1..Len(views'[d]) /\ views'[d][i] = views[d][i]
      /\ Braced(buf'[d], views'[d][i])
  <2>1. i \in 1..Len(views'[d]) /\ views'[d][i] = views[d][i]
    BY ReadGrows DEF Grown
  <2>2. PICK v \in ViewType : v = views[d][i] /\ IsBody(buf[d], v)
    BY ElementOfSeq DEF Framing, FrameOf, Frame, Bodied
  <2>3. v.nlen > 0 /\ Len(buf[d]) \in Nat
    BY <1>2, <2>2, LenProperties DEF Braced, Reading, ReadingType
  <2>4. v.from + 1 \in 1..Len(buf[d])
    BY <2>2, <2>3, FirstOfBody
  <2>5. buf'[d][v.from + 1] = buf[d][v.from + 1]
    BY <2>4, ReadGrows DEF Grown
  <2>6. QED
    BY <1>2, <2>1, <2>2, <2>5 DEF Braced
<1>4. CASE UNCHANGED tasks
  BY <1>1, <1>3, <1>4 DEF Done
<1>5. CASE Hands(c)
  <2>1. PICK t \in TaskType : /\ t.conn = c /\ tasks' = Append(tasks, t)
                              /\ views' = Push(views, c, ViewOf(t))
    BY <1>5 DEF Hands
  <2>2. CASE d = c
    <3>1. views[d] \in Seq(ViewType) /\ views'[d] = Append(views[d], ViewOf(t))
      BY <2>1, <2>2 DEF Push, Framing
    <3>2. Len(views[d]) \in Nat /\ Len(views'[d]) = Len(views[d]) + 1
      BY <3>1, LenProperties, AppendProperties DEF ViewOf, ViewType, TaskType
    <3>3. LastObject(d)'
      BY <2>2, ReadObjects
    <3>4. i = Len(views'[d])
      BY <1>3, <3>3 DEF LastObject
    <3>5. FALSE
      BY <3>2, <3>4
    <3>6. QED
      BY <3>5
  <2>3. CASE d # c
    <3>1. /\ Len(tasks') = Len(tasks) + 1 /\ tasks'[Len(tasks) + 1] = t
          /\ \A k \in 1..Len(tasks) : tasks'[k] = tasks[k]
      BY <2>1, TaskKinds, AppendProperties
    <3>2. ASSUME NEW k \in 1..Len(tasks') PROVE tasks'[k].conn # d
      <4>1. k \in 1..Len(tasks) \/ k = Len(tasks) + 1
        BY <3>1, TaskKinds
      <4>2. QED
        BY <2>1, <2>3, <3>1, <4>1 DEF Done
    <3>3. QED
      BY <1>1, <1>3, <3>2 DEF Done
  <2>4. QED
    BY <2>2, <2>3
<1>6. QED
  BY <1>4, <1>5, ReadDoes DEF Quiet, Rejects

LEMMA WorkDone ==
  ASSUME Types, NEW w \in Workers, Work(w), NEW d \in Conns, Done(d)
  PROVE  Done(d)'
<1>1. /\ Takes(w) \/ Continues(w)
      /\ \A v \in Workers : v # w => worker'[v] = worker[v]
      /\ UNCHANGED <<buf, views>>
  BY WorkMoves
<1>2. CASE Takes(w)
  <2>1. /\ Len(tasks) \in Nat /\ Len(tasks) # 0 /\ Head(tasks) = tasks[1]
        /\ Len(tasks') = Len(tasks) - 1
        /\ \A i \in 1..Len(tasks') : tasks'[i] = tasks[i + 1]
    BY <1>2, TaskKinds, LenProperties, EmptySeq, HeadTailProperties DEF Takes
  <2>2. ASSUME NEW i \in 1..Len(tasks') PROVE tasks'[i].conn # d
    <3>1. i + 1 \in 1..Len(tasks)
      BY <2>1, <2>2
    <3>2. QED
      BY <2>1, <3>1 DEF Done
  <2>3. ~Holds(worker'[w], d)
    <3>1. 1 \in 1..Len(tasks)
      BY <2>1
    <3>2. Head(tasks).conn # d
      BY <2>1, <3>1 DEF Done
    <3>3. QED
      BY <1>2, <3>2 DEF Takes, Busy, Holds
  <2>4. QED
    BY <1>1, <2>2, <2>3 DEF Done
<1>3. CASE Continues(w)
  <2>1. ~Holds(worker'[w], d)
    BY <1>3 DEF Continues, Idle, Holds, Done
  <2>2. UNCHANGED tasks
    BY <1>3 DEF Continues
  <2>3. QED
    BY <1>1, <2>1, <2>2 DEF Done
<1>4. QED
  BY <1>1, <1>2, <1>3

(* The worker that answers 200 has the only request of its client.         *)
LEMMA AnswerIsLast ==
  ASSUME Serving, NEW w \in Workers, Work(w), NEW d \in Conns,
         worker[w].at = "reply", worker[w].task.conn = d,
         worker'[w] = Idle, UNCHANGED tasks
  PROVE  Done(d)'
<1> USE DEF Serving, Patience
<1>1. PICK q \in Nat, u \in Nat, f \in Nat, l \in Nat :
        /\ q = Cardinality(Queued(d)) /\ u = Cardinality(Unanswered(d))
        /\ f = failed[d] /\ l = Len(replies[d])
  BY AccountTypes DEF Types
<1>2. PICK k \in Nat : k = Cardinality(Delivered(d)) /\ k <= l
  BY <1>1, DeliveredCount
<1>3. q + u + f + l <= k + 1
  BY <1>1, <1>2, OneOpen
<1>4. w \in Unanswered(d)
  BY DEF Unanswered
<1>5. /\ IsFiniteSet(Unanswered(d))
      /\ Unanswered(d) = {v \in Workers : Holds(worker[v], d)}
  BY UnansweredFinite
<1>6. u # 0
  BY <1>1, <1>4, <1>5, FS_EmptySet
<1>7. q = 0 /\ u = 1
  BY <1>2, <1>3, <1>6
<1>8. Queued(d) = {}
  <2>1. IsFiniteSet(Queued(d))
    BY TaskKinds, InSeqFinite DEF Queued, InSeq
  <2>2. QED
    BY <1>1, <1>7, <2>1, FS_EmptySet
<1>9. PICK x : Unanswered(d) = {x}
  BY <1>1, <1>5, <1>7, FS_Singleton
<1>10. \A v \in Workers : v # w => ~Holds(worker[v], d)
  BY <1>4, <1>5, <1>9
<1>11. /\ \A v \in Workers : v # w => worker'[v] = worker[v]
       /\ UNCHANGED <<buf, views>>
  BY WorkMoves
<1>12. \A v \in Workers : ~Holds(worker'[v], d)
  BY <1>10, <1>11 DEF Holds, Idle
<1>13. \A i \in 1..Len(tasks) : tasks[i].conn # d
  BY <1>8, TaskKinds DEF Queued
<1>14. \E i \in 1..Len(views[d]) : Braced(buf[d], views[d][i])
  <2>1. Braced(buf[d], worker[w].task)
    BY DEF QueriesObjects
  <2>2. PICK i \in 1..Len(views[d]) : views[d][i] = ViewOf(worker[w].task)
    BY DEF TasksAreViews, IsFor
  <2>3. QED
    BY <2>1, <2>2 DEF Braced, ViewOf
<1>15. QED
  BY <1>11, <1>12, <1>13, <1>14 DEF Done

LEMMA NextOk ==
  ASSUME Serving, OkEndsIt, [Next]_vars
  PROVE  OkEndsIt'
<1> USE DEF Serving, Patience
<1> SUFFICES ASSUME NEW d \in Conns
             PROVE  /\ \A r, s \in OksOf(replies'[d]) : r = s
                    /\ OksOf(replies'[d]) # {} => Done(d)'
  BY DEF OkEndsIt
<1>0. /\ \A r, s \in OksOf(replies[d]) : r = s
      /\ OksOf(replies[d]) # {} => Done(d)
  BY DEF OkEndsIt
<1>1. CASE UNCHANGED <<size, buf, views, tasks, worker, replies>>
  BY <1>0, <1>1 DEF Done
<1>2. ASSUME NEW c \in Conns, Read(c)
      PROVE  /\ \A r, s \in OksOf(replies'[d]) : r = s
             /\ OksOf(replies'[d]) # {} => Done(d)'
  BY <1>0, <1>2, ReadOks, ReadDone
<1>3. ASSUME NEW w \in Workers, Work(w)
      PROVE  /\ \A r, s \in OksOf(replies'[d]) : r = s
             /\ OksOf(replies'[d]) # {} => Done(d)'
  <2>1. CASE OksOf(replies'[d]) = OksOf(replies[d])
    BY <1>0, <1>3, <2>1, WorkDone
  <2>2. CASE /\ worker[w].at = "reply" /\ worker[w].task.conn = d
             /\ worker'[w] = Idle /\ UNCHANGED tasks
             /\ OksOf(replies'[d]) = OksOf(replies[d]) \cup {Len(replies[d]) + 1}
    <3>1. Done(d)'
      BY <1>3, <2>2, AnswerIsLast
    <3>2. ~Done(d)
      BY <2>2 DEF Done, Holds
    <3>3. QED
      BY <1>0, <2>2, <3>1, <3>2
  <2>3. QED
    BY <1>3, <2>1, <2>2, WorkOks
<1>4. QED
  BY <1>1, <1>2, <1>3, StepKinds

(* A client that waits for each answer is answered 200 once at most on a   *)
(* connection: the body is never committed (MiniServer.cpp:90), so the     *)
(* request after an object meets a 400, whatever it is.                    *)
THEOREM OneOkAtMost ==
  ASSUME Patient, \A r \in Requests : OneRequest(r)
  PROVE  Safety => []AtMostOneOk
<1>1. Init => OkEndsIt
  <2> SUFFICES ASSUME Init, NEW c \in Conns PROVE OksOf(replies[c]) = {}
    BY DEF OkEndsIt
  <2>1. Len(replies[c]) = 0
    BY EmptySeq DEF Init
  <2>2. QED
    BY <2>1 DEF OksOf
<1>2. Serving /\ [Next]_vars => Serving'
  BY NextServing
<1>3. Serving /\ OkEndsIt /\ [Next]_vars => OkEndsIt'
  BY NextOk
<1>4. Serving /\ OkEndsIt => AtMostOneOk
  <2> SUFFICES ASSUME Serving, OkEndsIt, NEW c \in Conns
               PROVE  Cardinality({r \in DOMAIN replies[c] : replies[c][r] = "ok"}) <= 1
    BY DEF AtMostOneOk
  <2>1. {r \in DOMAIN replies[c] : replies[c][r] = "ok"} = OksOf(replies[c])
    BY DeliveredCount DEF Serving, Patience, OksOf
  <2>2. CASE OksOf(replies[c]) = {}
    BY <2>1, <2>2, FS_EmptySet
  <2>3. CASE OksOf(replies[c]) # {}
    <3>1. PICK r : r \in OksOf(replies[c])
      BY <2>3
    <3>2. OksOf(replies[c]) = {r}
      BY <3>1 DEF OkEndsIt
    <3>3. QED
      BY <2>1, <3>2, FS_Singleton
  <2>4. QED
    BY <2>2, <2>3
<1>5. QED
  BY <1>1, <1>2, <1>3, <1>4, InitServing, PTL DEF Safety
=============================================================================
