---------------------------- MODULE BufferProofs ----------------------------
(***************************************************************************)
(* Theorems about Buffer, for every size of the array and of the space in  *)
(* front, every kind of byte and everything that may be put in.            *)
(***************************************************************************)
EXTENDS Buffer, SequenceTheorems, TLAPS

(* Filling an array from a constant makes a sequence of bytes.             *)
LEMMA ZerosSeq ==
  ASSUME NEW n \in Nat
  PROVE  /\ Zeros(n) \in Seq(Data)
         /\ Len(Zeros(n)) = n
  BY BufferAssumption, SMT DEF BufferAssumption, Zeros

(* What From takes out of an array.                                        *)
LEMMA FromSeq ==
  ASSUME NEW a \in Seq(Data), NEW p \in Nat, NEW n \in Nat, p + n <= Len(a)
  PROVE  /\ From(a, p, n) \in Seq(Data)
         /\ Len(From(a, p, n)) = n
         /\ \A i \in 1..n : From(a, p, n)[i] = a[p + i]
<1>1. \A i \in (p + 1)..(p + n) : a[i] \in Data
  BY LenProperties, ElementOfSeq
<1>2. QED
  BY <1>1, SubSeqProperties DEF From

(* What Copy makes of an array.                                            *)
LEMMA CopySeq ==
  ASSUME NEW a \in Seq(Data), NEW s \in Seq(Data), NEW p \in Nat, p + Len(s) <= Len(a)
  PROVE  /\ Copy(a, p, s) \in Seq(Data)
         /\ Len(Copy(a, p, s)) = Len(a)
         /\ \A i \in 1..Len(a) : Copy(a, p, s)[i] =
                IF p < i /\ i <= p + Len(s) THEN s[i - p] ELSE a[i]
  BY SMT DEF Copy

(* What has been copied to a place can be read there.                      *)
LEMMA FromCopy ==
  ASSUME NEW a \in Seq(Data), NEW s \in Seq(Data), NEW p \in Nat, p + Len(s) <= Len(a)
  PROVE  From(Copy(a, p, s), p, Len(s)) = s
<1>1. /\ Copy(a, p, s) \in Seq(Data)
      /\ Len(Copy(a, p, s)) = Len(a)
      /\ Len(s) \in Nat
  BY CopySeq
<1>2. /\ From(Copy(a, p, s), p, Len(s)) \in Seq(Data)
      /\ Len(From(Copy(a, p, s), p, Len(s))) = Len(s)
  BY <1>1, FromSeq
<1>3. ASSUME NEW i \in 1..Len(s)
      PROVE  From(Copy(a, p, s), p, Len(s))[i] = s[i]
  <2>1. From(Copy(a, p, s), p, Len(s))[i] = Copy(a, p, s)[p + i]
    BY <1>1, FromSeq
  <2>2. p + i \in 1..Len(a) /\ p < p + i /\ p + i <= p + Len(s) /\ (p + i) - p = i
    BY <1>1
  <2>3. QED
    BY <2>1, <2>2, CopySeq
<1>4. QED
  BY <1>2, <1>3, SeqEqual

(* Reading on behind what has been taken out.                              *)
LEMMA FromFrom ==
  ASSUME NEW a \in Seq(Data), NEW p \in Nat, NEW n \in Nat, p + n <= Len(a),
         NEW k \in 0..n
  PROVE  From(a, p + k, n - k) = SubSeq(From(a, p, n), k + 1, Len(From(a, p, n)))
<1> DEFINE b == From(a, p, n)
           t == SubSeq(b, k + 1, n)
<1>1. b \in Seq(Data) /\ Len(b) = n /\ \A i \in 1..n : b[i] = a[p + i]
  BY FromSeq
<1>2. /\ From(a, p + k, n - k) \in Seq(Data)
      /\ Len(From(a, p + k, n - k)) = n - k
      /\ \A i \in 1..(n - k) : From(a, p + k, n - k)[i] = a[p + k + i]
  BY FromSeq
<1>3. \A i \in (k + 1)..n : b[i] \in Data
  BY <1>1, ElementOfSeq
<1>4. t \in Seq(Data) /\ Len(t) = n - k /\ \A i \in 1..(n - k) : t[i] = b[k + i]
  BY <1>3, SubSeqProperties
<1>5. \A i \in 1..(n - k) : t[i] = From(a, p + k, n - k)[i]
  <2> TAKE i \in 1..(n - k)
  <2>1. t[i] = b[k + i] /\ k + i \in 1..n /\ p + (k + i) = p + k + i
    BY <1>4
  <2>2. QED
    BY <2>1, <1>1, <1>2
<1>6. QED
  BY <1>1, <1>2, <1>4, <1>5, SeqEqual

(* Putting s behind n bytes.                                               *)
LEMMA FromCopyBehind ==
  ASSUME NEW a \in Seq(Data), NEW s \in Seq(Data), NEW p \in Nat, NEW n \in Nat,
         p + n + Len(s) <= Len(a)
  PROVE  From(Copy(a, p + n, s), p, n + Len(s)) = From(a, p, n) \o s
<1> DEFINE c == Copy(a, p + n, s)
           l == From(c, p, n + Len(s))
           r == From(a, p, n) \o s
<1>1. /\ Len(s) \in Nat /\ Len(a) \in Nat /\ n + Len(s) \in Nat /\ p + n \in Nat
      /\ p + n <= Len(a) /\ p + (n + Len(s)) <= Len(a)
  <2>1. Len(s) \in Nat /\ Len(a) \in Nat
    BY LenProperties
  <2>2. QED
    BY <2>1
<1>2. c \in Seq(Data) /\ Len(c) = Len(a)
  BY <1>1, CopySeq
<1>3. /\ l \in Seq(Data) /\ Len(l) = n + Len(s)
      /\ \A i \in 1..(n + Len(s)) : l[i] = c[p + i]
  BY <1>1, <1>2, FromSeq
<1>4. /\ From(a, p, n) \in Seq(Data) /\ Len(From(a, p, n)) = n
      /\ \A i \in 1..n : From(a, p, n)[i] = a[p + i]
  BY <1>1, FromSeq
<1>5. /\ r \in Seq(Data) /\ Len(r) = n + Len(s)
      /\ \A i \in 1..(n + Len(s)) :
            r[i] = IF i <= n THEN From(a, p, n)[i] ELSE s[i - n]
  <2> DEFINE q == From(a, p, n)
  <2>1. q \in Seq(Data) /\ Len(q) = n
    BY <1>4
  <2>2. /\ q \o s \in Seq(Data)
        /\ Len(q \o s) = Len(q) + Len(s)
        /\ \A i \in 1..(Len(q) + Len(s)) :
              (q \o s)[i] = IF i <= Len(q) THEN q[i] ELSE s[i - Len(q)]
    <3> HIDE DEF q
    <3>1. QED
      BY <2>1, ConcatProperties
  <2>3. QED
    BY <2>1, <2>2
<1>6. ASSUME NEW i \in 1..(n + Len(s))
      PROVE  l[i] = r[i]
  <2>1. /\ p + i \in 1..Len(a)
        /\ c[p + i] = IF p + n < p + i /\ p + i <= p + n + Len(s)
                      THEN s[(p + i) - (p + n)] ELSE a[p + i]
    BY <1>1, CopySeq
  <2>2. CASE i <= n
    BY <2>1, <2>2, <1>1, <1>3, <1>4, <1>5
  <2>3. CASE ~(i <= n)
    <3>1. (p + i) - (p + n) = i - n /\ p + n < p + i /\ p + i <= p + n + Len(s)
      BY <2>3, <1>1
    <3>2. QED
      BY <3>1, <2>1, <2>3, <1>3, <1>5
  <2>4. QED
    BY <2>2, <2>3
<1>7. QED
  BY <1>3, <1>5, <1>6, SeqEqual

(* What is read from the old part of an array that has grown.              *)
LEMMA FromConcat ==
  ASSUME NEW a \in Seq(Data), NEW z \in Seq(Data), NEW p \in Nat, NEW n \in Nat,
         p + n <= Len(a)
  PROVE  From(a \o z, p, n) = From(a, p, n)
<1>1. a \o z \in Seq(Data) /\ Len(a \o z) = Len(a) + Len(z)
      /\ \A i \in 1..Len(a) : (a \o z)[i] = a[i]
  BY ConcatProperties, LenProperties
<1>2. /\ From(a, p, n) \in Seq(Data) /\ Len(From(a, p, n)) = n
      /\ \A i \in 1..n : From(a, p, n)[i] = a[p + i]
  BY FromSeq
<1>3. /\ From(a \o z, p, n) \in Seq(Data) /\ Len(From(a \o z, p, n)) = n
      /\ \A i \in 1..n : From(a \o z, p, n)[i] = (a \o z)[p + i]
  <2>1. p + n <= Len(a \o z)
    BY <1>1, LenProperties
  <2>2. QED
    BY <1>1, <2>1, FromSeq
<1>4. \A i \in 1..n : p + i \in 1..Len(a)
  BY LenProperties
<1>5. QED
  BY <1>1, <1>2, <1>3, <1>4, SeqEqual

-----------------------------------------------------------------------------
(* The positions, of a buffer that is used as a queue.                     *)
Positions ==
    /\ buffer \in Seq(Data)
    /\ read_pos \in Nat /\ write_pos \in Nat
    /\ PRERESERVE <= read_pos /\ read_pos <= write_pos /\ write_pos <= Len(buffer)

(* ... as long as it is used as one.                                       *)
QueuePositions == asQueue \in BOOLEAN /\ (asQueue => Positions)

(* What the buffer holds as a queue.                                       *)
held == IF asQueue THEN content ELSE <<>>

(* move_front loses nothing (Buffer.cpp:72-78).                            *)
LEMMA MoveFrontKeeps ==
  ASSUME NEW STATE a, NEW STATE r, NEW STATE w,
         a \in Seq(Data), r \in Nat, w \in Nat,
         PRERESERVE <= r, r <= w, w <= Len(a), MoveFront(a, r, w)
  PROVE  Positions' /\ content' = From(a, r, w - r)
<1> USE BufferAssumption DEF BufferAssumption
<1> DEFINE s == From(a, r, w - r)
<1>1. Len(a) \in Nat /\ w - r \in Nat /\ PRERESERVE + (w - r) <= Len(a)
  BY LenProperties
<1>2. s \in Seq(Data) /\ Len(s) = w - r
  BY <1>1, FromSeq
<1>3. /\ Copy(a, PRERESERVE, s) \in Seq(Data)
      /\ Len(Copy(a, PRERESERVE, s)) = Len(a)
      /\ From(Copy(a, PRERESERVE, s), PRERESERVE, Len(s)) = s
  BY <1>1, <1>2, CopySeq, FromCopy
<1>4. /\ buffer' = Copy(a, PRERESERVE, s) /\ read_pos' = PRERESERVE
      /\ write_pos' = PRERESERVE + w - r /\ write_pos' - read_pos' = w - r
  BY DEF MoveFront, Is
<1>5. Positions'
  BY <1>1, <1>3, <1>4 DEF Positions
<1>6. QED
  BY <1>2, <1>3, <1>4, <1>5 DEF content, readable

(* Taking out n bytes, whether the rest moves or not.                      *)
LEMMA TakesOut ==
  ASSUME Positions, NEW STATE n, n \in 0..readable,
         Is(buffer, read_pos + n, write_pos) \/ MoveFront(buffer, read_pos + n, write_pos)
  PROVE  Positions' /\ content' = SubSeq(content, n + 1, Len(content))
<1> USE BufferAssumption DEF BufferAssumption
<1>1. /\ readable \in Nat /\ n \in Nat /\ read_pos + readable = write_pos
      /\ Len(buffer) \in Nat
  BY LenProperties DEF Positions, readable
<1>2. From(buffer, read_pos + n, readable - n) = SubSeq(content, n + 1, Len(content))
  BY <1>1, FromFrom DEF Positions, content
<1>3. write_pos - (read_pos + n) = readable - n
  BY <1>1 DEF Positions
<1>4. CASE Is(buffer, read_pos + n, write_pos)
  BY <1>1, <1>2, <1>3, <1>4 DEF Is, Positions, content, readable
<1>5. CASE MoveFront(buffer, read_pos + n, write_pos)
  <2>1. read_pos + n \in Nat /\ PRERESERVE <= read_pos + n /\ read_pos + n <= write_pos
    BY <1>1 DEF Positions
  <2>2. Positions' /\ content' = From(buffer, read_pos + n, write_pos - (read_pos + n))
    BY <1>5, <2>1, MoveFrontKeeps DEF Positions
  <2>3. QED
    BY <1>2, <1>3, <2>2
<1>6. QED
  BY <1>4, <1>5

(* A new buffer is empty, its positions behind the space in front.         *)
LEMMA InitPositions == Init => Positions
  BY BufferAssumption, ZerosSeq DEF BufferAssumption, Init, Positions

(* Each operation of a queue keeps the positions, and does to the content  *)
(* what an operation of ByteQueue does, or nothing.                        *)

(* write_n puts s behind what is there, if that is what it is told.        *)
LEMMA Writes ==
  ASSUME Positions, NEW s \in Strings, NEW n, write_n(s, n), Clamped(n) = Len(s)
  PROVE  Positions' /\ content' = content \o s
<1> USE BufferAssumption DEF BufferAssumption
<1>1. /\ s \in Seq(Data) /\ Len(s) \in Nat /\ Len(buffer) \in Nat
      /\ write_pos + Len(s) <= Len(buffer)
  BY LenProperties DEF write_n, writeable, Positions
<1>2. /\ readable \in Nat /\ read_pos + readable = write_pos
  BY DEF Positions, readable
<1>3. /\ buffer' = Copy(buffer, write_pos, s) /\ read_pos' = read_pos
      /\ write_pos' = write_pos + Len(s)
      /\ readable' = readable + Len(s)
  BY <1>1, <1>2 DEF write_n, Is, readable, Positions
<1>4. buffer' \in Seq(Data) /\ Len(buffer') = Len(buffer)
  BY <1>1, <1>3, CopySeq DEF Positions
<1>5. content' = content \o s
  <2>1. content' = From(Copy(buffer, read_pos + readable, s), read_pos, readable + Len(s))
    BY <1>2, <1>3 DEF content
  <2>2. read_pos + readable + Len(s) <= Len(buffer) /\ read_pos \in Nat
    BY <1>1, <1>2 DEF Positions
  <2>3. buffer \in Seq(Data)
    BY DEF Positions
  <2>4. /\ From(Copy(buffer, read_pos + readable, s), read_pos, readable + Len(s))
              = From(buffer, read_pos, readable) \o s
    BY <1>1, <1>2, <2>2, <2>3, FromCopyBehind
  <2>5. QED
    BY <2>1, <2>4 DEF content
<1>6. QED
  BY <1>1, <1>3, <1>4, <1>5 DEF Positions

(* commit takes out n bytes, or only moves what is there.                  *)
LEMMA Commits ==
  ASSUME Positions, NEW n \in 0..(readable + 1), commit(n)
  PROVE  /\ Positions'
         /\ \/ content' = content
            \/ n \in 0..readable /\ content' = SubSeq(content, n + 1, Len(content))
<1>1. readable \in Nat
  BY DEF Positions, readable
<1>2. CASE n > readable
  <2>1. MoveFront(buffer, read_pos, write_pos)
    BY <1>2 DEF commit
  <2>2. QED
    BY <2>1, MoveFrontKeeps DEF Positions, content, readable
<1>3. CASE ~(n > readable)
  <2>1. n \in 0..readable
    BY <1>1, <1>3
  <2>2. Is(buffer, read_pos + n, write_pos)
    BY <1>3 DEF commit
  <2>3. QED
    BY <2>1, <2>2, TakesOut
<1>4. QED
  BY <1>2, <1>3

(* get_n_bytes takes out what was asked for, or all there is.              *)
LEMMA GetsBytes ==
  ASSUME Positions, NEW n \in 0..(readable + 1), get_n_bytes(n)
  PROVE  /\ Positions'
         /\ \E k \in 0..readable : content' = SubSeq(content, k + 1, Len(content))
<1> DEFINE k == IF n > readable THEN readable ELSE n
<1>1. k \in 0..readable
  BY DEF Positions, readable
<1>2. \/ Is(buffer, read_pos + k, write_pos)
      \/ MoveFront(buffer, read_pos + k, write_pos)
  BY DEF get_n_bytes, Consume
<1> HIDE DEF k
<1>3. QED
  BY <1>1, <1>2, TakesOut

(* writefd takes out what the system call has accepted.                    *)
LEMMA WritesToFile ==
  ASSUME Positions, NEW n \in 0..readable, writefd(n)
  PROVE  Positions' /\ content' = SubSeq(content, n + 1, Len(content))
  BY TakesOut DEF writefd

(* double_size shows only in the room behind the data.                     *)
LEMMA Doubles ==
  ASSUME Positions, double_size
  PROVE  Positions' /\ content' = content
<1>1. Len(buffer) \in Nat
  BY LenProperties DEF Positions
<1>2. Zeros(Len(buffer)) \in Seq(Data) /\ Len(Zeros(Len(buffer))) = Len(buffer)
  BY <1>1, ZerosSeq
<1>3. /\ buffer' = buffer \o Zeros(Len(buffer))
      /\ read_pos' = read_pos /\ write_pos' = write_pos
  BY DEF double_size, Is
<1>4. buffer' \in Seq(Data) /\ Len(buffer') = Len(buffer) + Len(buffer)
  BY <1>2, <1>3, ConcatProperties DEF Positions
<1>5. readable \in Nat /\ read_pos + readable = write_pos
  BY DEF Positions, readable
<1>6. content' = content
  BY <1>1, <1>2, <1>3, <1>5, FromConcat DEF Positions, content, readable
<1>7. QED
  BY <1>1, <1>3, <1>4, <1>6 DEF Positions

-----------------------------------------------------------------------------
(* Taking nothing out is no step of the queue.                             *)
LEMMA TakeNothing ==
  ASSUME Positions
  PROVE  content \in Seq(Data) /\ Len(content) = readable
         /\ SubSeq(content, 1, Len(content)) = content
<1>1. readable \in Nat /\ read_pos + readable <= Len(buffer)
  BY DEF Positions, readable
<1>2. content \in Seq(Data) /\ Len(content) = readable
  BY <1>1, FromSeq DEF Positions, content
<1>3. QED
  BY <1>2, SubSeqFull

(* An operation of a queue is a step of the queue, or none.                *)
LEMMA QueueCallImplements ==
  ASSUME Positions, QueueCall
  PROVE  /\ Positions'
         /\ \/ content' = content
            \/ \E s \in Strings : content' = content \o s
            \/ \E n \in 1..Len(content) :
                  content' = SubSeq(content, n + 1, Len(content))
<1>1. readable \in Nat /\ Len(content) = readable
      /\ SubSeq(content, 1, Len(content)) = content
  BY TakeNothing DEF Positions, readable
<1>2. ASSUME NEW STATE n, n \in 0..readable, Positions',
             content' = SubSeq(content, n + 1, Len(content))
      PROVE  \/ content' = content
             \/ \E k \in 1..Len(content) :
                   content' = SubSeq(content, k + 1, Len(content))
  <2>1. CASE n = 0
    BY <1>1, <1>2, <2>1
  <2>2. CASE n # 0
    <3>1. n \in 1..Len(content)
      BY <1>1, <1>2, <2>2
    <3>2. QED
      BY <1>2, <3>1
  <2>3. QED
    BY <2>1, <2>2
<1>3. CASE \E s \in Strings : \E n \in 0..(writeable + 1) :
              Clamped(n) = Len(s) /\ write_n(s, n)
  BY <1>3, Writes
<1>4. CASE \E n \in 0..(readable + 1) : commit(n)
  <2>1. PICK n \in 0..(readable + 1) : commit(n)
    BY <1>4
  <2>2. QED
    BY <1>2, <2>1, Commits
<1>5. CASE \E n \in 0..(readable + 1) : get_n_bytes(n)
  <2>1. PICK n \in 0..(readable + 1) : get_n_bytes(n)
    BY <1>5
  <2>2. PICK k \in 0..readable : content' = SubSeq(content, k + 1, Len(content))
    BY <2>1, GetsBytes
  <2>3. QED
    BY <1>2, <2>1, <2>2, GetsBytes
<1>6. CASE \E n \in 0..readable : writefd(n)
  <2>1. PICK n \in 0..readable : writefd(n)
    BY <1>6
  <2>2. QED
    BY <1>2, <2>1, WritesToFile
<1>7. CASE double_size
  BY <1>7, Doubles
<1>8. QED
  BY <1>3, <1>4, <1>5, <1>6, <1>7 DEF QueueCall

(* A step of the buffer, whatever is called.                               *)
LEMMA StepImplements ==
  ASSUME QueuePositions, Next
  PROVE  QueuePositions' /\ [Queue!Next]_held
<1>1. CASE asQueue /\ QueueCall /\ UNCHANGED asQueue
  <2>1. Positions /\ held = content /\ held' = content'
    BY <1>1 DEF QueuePositions, held
  <2>2. QueuePositions'
    BY <1>1, <2>1, QueueCallImplements DEF QueuePositions
  <2>3. \/ held' = held
        \/ \E s \in Strings : Queue!Put(s)
        \/ \E n \in 1..Len(held) : Queue!Take(n)
    BY <1>1, <2>1, QueueCallImplements DEF Queue!Put, Queue!Take, held
  <2>4. QED
    BY <2>2, <2>3 DEF Queue!Next, held
<1>2. CASE asQueue /\ asQueue' = FALSE
  <2>1. Positions /\ held = content /\ held' = <<>>
    BY <1>2 DEF QueuePositions, held
  <2>2. content \in Seq(Data) /\ Len(content) \in Nat
    BY <2>1, TakeNothing, LenProperties
  <2>3. CASE Len(content) = 0
    BY <1>2, <2>1, <2>2, <2>3, EmptySeq DEF QueuePositions
  <2>4. CASE Len(content) # 0
    <3>1. SubSeq(content, Len(content) + 1, Len(content)) = <<>>
      BY <2>2, SubSeqEmpty
    <3>2. Len(content) \in 1..Len(content)
      BY <2>2, <2>4
    <3>3. Queue!Take(Len(content))
      BY <2>1, <3>1 DEF Queue!Take, held
    <3>4. QED
      BY <1>2, <2>1, <3>2, <3>3 DEF QueuePositions, Queue!Next, held
  <2>5. QED
    BY <2>3, <2>4
<1>3. CASE asQueue = FALSE /\ asQueue' = FALSE
  BY <1>3 DEF QueuePositions, held
<1>4. QED
  BY <1>1, <1>2, <1>3 DEF Next, QueuePositions

(* As long as data is only put behind what is there, a Buffer is a queue   *)
(* of bytes, for any sizes and whatever is put in: no byte is lost,        *)
(* changed or moved, however often the array is compacted or doubled.      *)
THEOREM BufferImplementsByteQueue == Spec => ImplementsByteQueue
<1>1. Init => QueuePositions /\ Queue!Init
  <2> SUFFICES ASSUME Init PROVE QueuePositions /\ Queue!Init
    OBVIOUS
  <2>1. Positions /\ readable = 0 /\ asQueue = TRUE
    BY InitPositions, BufferAssumption DEF Init, readable, BufferAssumption
  <2>2. content \in Seq(Data) /\ Len(content) = 0
    BY <2>1, TakeNothing
  <2>3. QED
    BY <2>1, <2>2, EmptySeq DEF QueuePositions, Queue!Init
<1>2. QueuePositions /\ [Next]_vars => QueuePositions' /\ [Queue!Next]_held
  <2> SUFFICES ASSUME QueuePositions, [Next]_vars
               PROVE  QueuePositions' /\ [Queue!Next]_held
    OBVIOUS
  <2>1. CASE Next
    BY <2>1, StepImplements
  <2>2. CASE UNCHANGED vars
    BY <2>2 DEF vars, QueuePositions, Positions, content, readable, held
  <2>3. QED
    BY <2>1, <2>2
<1>3. Spec => Queue!Init /\ [][Queue!Next]_held
  BY <1>1, <1>2, PTL DEF Spec
<1>4. QED
  BY <1>3 DEF ImplementsByteQueue, Queue!Spec, held
-----------------------------------------------------------------------------
(* The positions, whatever is called.  They may be in front of PRERESERVE, *)
(* and write_pos behind the end of the array: the calls that follow are    *)
(* then undefined, and Next is disabled (Defined).                         *)
Ordered ==
    /\ buffer \in Seq(Data)
    /\ read_pos \in Nat /\ write_pos \in Nat
    /\ read_pos <= write_pos

OrderedUnlessFailed == failed \in BOOLEAN /\ (failed \/ Ordered)

(* Copying keeps an array an array of the same size, even when what is     *)
(* copied does not fit.                                                    *)
LEMMA CopyType ==
  ASSUME NEW a \in Seq(Data), NEW s \in Seq(Data), NEW p \in Nat
  PROVE  Copy(a, p, s) \in Seq(Data) /\ Len(Copy(a, p, s)) = Len(a)
<1>1. ASSUME NEW i \in 1..Len(a)
      PROVE  (IF p < i /\ i <= p + Len(s) THEN s[i - p] ELSE a[i]) \in Data
  <2>1. CASE p < i /\ i <= p + Len(s)
    <3>1. i - p \in 1..Len(s)
      BY <2>1, LenProperties
    <3>2. QED
      BY <2>1, <3>1, ElementOfSeq
  <2>2. CASE ~(p < i /\ i <= p + Len(s))
    BY <2>2, ElementOfSeq
  <2>3. QED
    BY <2>1, <2>2
<1>2. Copy(a, p, s) = [i \in 1..Len(a) |->
         IF p < i /\ i <= p + Len(s) THEN s[i - p] ELSE a[i]]
  BY LenProperties DEF Copy
<1> DEFINE c == Copy(a, p, s)
<1>3. c \in [1..Len(a) -> Data]
  BY <1>1, <1>2
<1> HIDE DEF c
<1>4. c \in Seq(Data) /\ Len(c) = Len(a)
  <2>1. Len(a) \in Nat
    BY LenProperties
  <2>2. QED
    BY <1>3, <2>1, SMT
<1>5. QED
  BY <1>4 DEF c

(* move_front, wherever the positions are.                                 *)
LEMMA MoveFrontOrders ==
  ASSUME NEW STATE a, NEW STATE r, NEW STATE w,
         a \in Seq(Data), r \in Nat, w \in Nat, r <= w, w <= Len(a),
         MoveFront(a, r, w)
  PROVE  Ordered'
<1> USE BufferAssumption DEF BufferAssumption
<1>1. w - r \in Nat /\ r + (w - r) <= Len(a)
  BY LenProperties
<1>2. From(a, r, w - r) \in Seq(Data)
  BY <1>1, FromSeq
<1>3. Copy(a, PRERESERVE, From(a, r, w - r)) \in Seq(Data)
  BY <1>2, CopyType
<1>4. /\ buffer' = Copy(a, PRERESERVE, From(a, r, w - r))
      /\ read_pos' = PRERESERVE /\ write_pos' = PRERESERVE + w - r
  BY DEF MoveFront, Is
<1>5. QED
  BY <1>1, <1>3, <1>4 DEF Ordered

(* Putting data behind what is there, and saying how much it was.          *)
LEMMA WritesBehind ==
  ASSUME Ordered, NEW STATE s, s \in Seq(Data), NEW STATE n, n \in Nat,
         Is(Copy(buffer, write_pos, s), read_pos, write_pos + n)
  PROVE  Ordered'
<1>1. Copy(buffer, write_pos, s) \in Seq(Data)
  BY CopyType DEF Ordered
<1>2. QED
  BY <1>1 DEF Is, Ordered

(* write_n, whatever number it is told, but none below zero.               *)
LEMMA WriteNOrders ==
  ASSUME Ordered, Defined, NEW s \in Strings, NEW n \in 0..(writeable + 1),
         write_n(s, n)
  PROVE  Ordered'
<1>1. writeable \in Nat
  BY LenProperties DEF Ordered, Defined, writeable
<1>2. Clamped(n) \in Nat
  BY <1>1 DEF Clamped
<1>3. s \in Seq(Data)
  BY BufferAssumption DEF BufferAssumption
<1>4. Is(Copy(buffer, write_pos, s), read_pos, write_pos + Clamped(n))
  BY DEF write_n
<1> DEFINE k == Clamped(n)
<1>5. k \in Nat /\ Is(Copy(buffer, write_pos, s), read_pos, write_pos + k)
  BY <1>2, <1>4
<1> HIDE DEF k
<1>6. QED
  BY <1>3, <1>5, WritesBehind

(* append, and readfd with more than there is room for.                    *)
LEMMA Inserts ==
  ASSUME NEW STATE a, NEW STATE r, NEW STATE w, NEW STATE s,
         a \in Seq(Data), r \in Nat, w \in Nat, s \in Seq(Data),
         r <= w, w <= Len(a), Insert(a, r, w, s)
  PROVE  Ordered'
<1> USE BufferAssumption DEF BufferAssumption
<1>1. w - r \in Nat /\ r + (w - r) <= Len(a) /\ Len(s) \in Nat
  BY LenProperties
<1>2. CASE Len(s) < Len(a) - w - PRERESERVE
  <2>1. Copy(a, PRERESERVE, From(a, r, w - r)) \in Seq(Data)
    BY <1>1, FromSeq, CopyType
  <2>2. s \o Copy(a, PRERESERVE, From(a, r, w - r)) \in Seq(Data)
    BY <2>1, ConcatProperties
  <2>3. /\ buffer' = s \o Copy(a, PRERESERVE, From(a, r, w - r))
        /\ read_pos' = PRERESERVE /\ write_pos' = PRERESERVE + w - r + Len(s)
    BY <1>2 DEF Insert, Is
  <2>4. QED
    BY <1>1, <2>2, <2>3 DEF Ordered
<1>3. CASE ~(Len(s) < Len(a) - w - PRERESERVE)
  <2>1. s \o a \in Seq(Data)
    BY ConcatProperties
  <2>2. buffer' = s \o a /\ read_pos' = r /\ write_pos' = w + Len(s)
    BY <1>3 DEF Insert, Is
  <2>3. QED
    BY <1>1, <2>1, <2>2 DEF Ordered
<1>4. QED
  BY <1>2, <1>3

(* The operations of a queue.                                              *)
LEMMA QueueCallOrders ==
  ASSUME Ordered, Defined, QueueCall
  PROVE  Ordered'
<1> USE BufferAssumption DEF BufferAssumption
<1>1. /\ readable \in Nat /\ read_pos + readable = write_pos
      /\ Len(buffer) \in Nat /\ write_pos <= Len(buffer)
  BY LenProperties DEF Ordered, Defined, readable
<1>2. ASSUME NEW STATE k, k \in 0..readable,
             \/ Is(buffer, read_pos + k, write_pos)
             \/ MoveFront(buffer, read_pos + k, write_pos)
      PROVE  Ordered'
  <2>1. read_pos + k \in Nat /\ read_pos + k <= write_pos
    BY <1>1, <1>2 DEF Ordered
  <2>2. CASE Is(buffer, read_pos + k, write_pos)
    BY <2>1, <2>2 DEF Is, Ordered
  <2>3. CASE MoveFront(buffer, read_pos + k, write_pos)
    BY <1>1, <2>1, <2>3, MoveFrontOrders DEF Ordered
  <2>4. QED
    BY <1>2, <2>2, <2>3
<1>3. ASSUME NEW s \in Strings, NEW n \in 0..(writeable + 1), write_n(s, n)
      PROVE  Ordered'
  BY <1>3, WriteNOrders
<1>4. ASSUME NEW n \in 0..(readable + 1), commit(n)
      PROVE  Ordered'
  <2>1. CASE n > readable
    BY <1>1, <1>4, <2>1, MoveFrontOrders DEF commit, Ordered
  <2>2. CASE ~(n > readable)
    <3>1. n \in 0..readable
      BY <1>1, <2>2
    <3>2. QED
      BY <1>2, <1>4, <2>2, <3>1 DEF commit
  <2>3. QED
    BY <2>1, <2>2
<1>5. ASSUME NEW n \in 0..(readable + 1), get_n_bytes(n)
      PROVE  Ordered'
  <2> DEFINE k == IF n > readable THEN readable ELSE n
  <2>1. k \in 0..readable
    BY <1>1
  <2>2. \/ Is(buffer, read_pos + k, write_pos)
        \/ MoveFront(buffer, read_pos + k, write_pos)
    BY <1>5 DEF get_n_bytes, Consume
  <2> HIDE DEF k
  <2>3. QED
    BY <1>2, <2>1, <2>2
<1>6. ASSUME NEW n \in 0..readable, writefd(n)
      PROVE  Ordered'
  BY <1>2, <1>6 DEF writefd
<1>7. ASSUME double_size
      PROVE  Ordered'
  <2>1. Zeros(Len(buffer)) \in Seq(Data)
    BY <1>1, ZerosSeq
  <2>2. buffer \o Zeros(Len(buffer)) \in Seq(Data)
    BY <2>1, ConcatProperties DEF Ordered
  <2>3. QED
    BY <1>7, <2>2 DEF double_size, Is, Ordered
<1>8. QED
  BY <1>3, <1>4, <1>5, <1>6, <1>7 DEF QueueCall

(* append, pre_append, readfd and a write_n that is told something else.   *)
LEMMA OtherCallOrders ==
  ASSUME Ordered, Defined, OtherCall
  PROVE  Ordered'
<1>1. PICK s \in Strings :
        \/ append(s) \/ pre_append(s) \/ readfd(s)
        \/ \E n \in 0..(writeable + 1) : write_n(s, n)
  BY DEF OtherCall
<1>2. s \in Seq(Data) /\ Len(s) \in Nat
  BY BufferAssumption, LenProperties DEF BufferAssumption
<1>3. /\ buffer \in Seq(Data) /\ read_pos \in Nat /\ write_pos \in Nat
      /\ read_pos <= write_pos /\ write_pos <= Len(buffer)
      /\ Len(buffer) \in Nat /\ writeable \in Nat
      /\ write_pos + writeable = Len(buffer)
  BY LenProperties DEF Ordered, Defined, writeable
<1>4. CASE append(s)
  BY <1>2, <1>3, <1>4, Inserts DEF append
<1>5. CASE pre_append(s)
  <2>1. CASE Len(s) <= read_pos
    <3>1. read_pos - Len(s) \in Nat /\ read_pos - Len(s) <= write_pos
      BY <1>2, <1>3, <2>1
    <3>2. Copy(buffer, read_pos - Len(s), s) \in Seq(Data)
      BY <1>2, <1>3, <3>1, CopyType
    <3>3. /\ buffer' = Copy(buffer, read_pos - Len(s), s)
          /\ read_pos' = read_pos - Len(s) /\ write_pos' = write_pos
      BY <1>5, <2>1 DEF pre_append, Is
    <3>4. QED
      BY <1>3, <3>1, <3>2, <3>3 DEF Ordered
  <2>2. CASE ~(Len(s) <= read_pos)
    <3>1. From(buffer, read_pos, writeable) \in Seq(Data)
      BY <1>3, FromSeq
    <3>2. s \o From(buffer, read_pos, writeable) \in Seq(Data)
      BY <1>2, <3>1, ConcatProperties
    <3>3. /\ buffer' = s \o From(buffer, read_pos, writeable)
          /\ read_pos' = 0 /\ write_pos' = Len(s) + writeable
      BY <1>5, <2>2 DEF pre_append, Is
    <3>4. QED
      BY <1>2, <1>3, <3>2, <3>3 DEF Ordered
  <2>3. QED
    BY <2>1, <2>2
<1>6. CASE readfd(s)
  <2>1. CASE Len(s) > writeable
    <3> DEFINE a == Copy(buffer, write_pos, From(s, 0, writeable))
               t == From(s, writeable, Len(s) - writeable)
    <3>1. From(s, 0, writeable) \in Seq(Data)
      BY <1>2, <1>3, <2>1, FromSeq
    <3>2. t \in Seq(Data)
      BY <1>2, <1>3, <2>1, FromSeq
    <3>3. a \in Seq(Data) /\ Len(a) = Len(buffer)
      BY <1>3, <3>1, CopyType
    <3>4. Insert(a, read_pos, Len(buffer), t)
      BY <1>6, <2>1 DEF readfd
    <3> HIDE DEF a, t
    <3>5. QED
      BY <1>3, <3>2, <3>3, <3>4, Inserts
  <2>2. CASE ~(Len(s) > writeable)
    BY <1>2, <1>6, <2>2, WritesBehind DEF readfd
  <2>3. QED
    BY <2>1, <2>2
<1>7. CASE \E n \in 0..(writeable + 1) : write_n(s, n)
  BY <1>7, WriteNOrders
<1>8. QED
  BY <1>1, <1>4, <1>5, <1>6, <1>7

(* Whatever is called and in any order, with any sizes and contents: no    *)
(* position is overtaken by the other unless a number below zero was added *)
(* to one (Buffer.cpp:22 and 104).                                         *)
THEOREM PositionsStayInOrder == Spec => []PositionsInOrder
<1>1. Init => OrderedUnlessFailed
  BY InitPositions DEF Init, OrderedUnlessFailed, Positions, Ordered
<1>2. OrderedUnlessFailed /\ [Next]_vars => OrderedUnlessFailed'
  <2> SUFFICES ASSUME OrderedUnlessFailed, [Next]_vars
               PROVE  OrderedUnlessFailed'
    OBVIOUS
  <2>1. CASE Defined /\ QueueCall /\ UNCHANGED failed
    BY <2>1, QueueCallOrders DEF OrderedUnlessFailed
  <2>2. CASE Defined /\ OtherCall /\ UNCHANGED failed
    BY <2>2, OtherCallOrders DEF OrderedUnlessFailed
  <2>3. CASE failed' = TRUE
    BY <2>3 DEF OrderedUnlessFailed
  <2>4. CASE UNCHANGED vars
    BY <2>4 DEF vars, OrderedUnlessFailed, Ordered
  <2>5. QED
    BY <2>1, <2>2, <2>3, <2>4 DEF Next
<1>3. OrderedUnlessFailed => PositionsInOrder
  BY DEF OrderedUnlessFailed, Ordered, PositionsInOrder
<1>4. QED
  BY <1>1, <1>2, <1>3, PTL DEF Spec
=============================================================================
