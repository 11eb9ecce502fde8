------------------------------- MODULE Buffer -------------------------------
(***************************************************************************)
(* The class Buffer of Buffer.hpp and Buffer.cpp: an array of which        *)
(* [read_pos, write_pos) is readable, with PRERESERVE bytes kept free in   *)
(* front for a header to be put before the data.                           *)
(*                                                                         *)
(* HttpServer needs three of its operations only; here are all of them, in *)
(* any order.  Byte p of the array is buffer[p + 1].  resize has no caller *)
(* but double_size.                                                        *)
(*                                                                         *)
(* A definition that begins with Bug is the mistake that the definition    *)
(* after it does not make (PROJECT.json, "mutants").                       *)
(***************************************************************************)
EXTENDS Integers, Sequences

CONSTANTS
    Data,           \* the values of a byte
    Zero,           \* the one that std::vector fills new space with
    BUFFERSIZE, PRERESERVE,
    MaxSize,        \* bound: the array does not grow beyond it
    Strings         \* what may be put in

ASSUME BufferAssumption ==
    /\ Zero \in Data
    /\ BUFFERSIZE \in Nat /\ PRERESERVE \in Nat /\ PRERESERVE <= BUFFERSIZE
    /\ MaxSize \in Nat
    /\ Strings \subseteq Seq(Data)

VARIABLES
    buffer, read_pos, write_pos,
    asQueue,    \* history: only operations of a queue have been called
    failed      \* history: a number below zero has been added to a position

vars == <<buffer, read_pos, write_pos, asQueue, failed>>

Zeros(n) == [i \in 1..n |-> Zero]

Init ==
    /\ buffer = Zeros(BUFFERSIZE)
    /\ read_pos = PRERESERVE
    /\ write_pos = PRERESERVE
    /\ asQueue = TRUE
    /\ failed = FALSE

readable == write_pos - read_pos
writeable == Len(buffer) - write_pos

(* The n bytes of array a from position p, and a with s copied to p.  What *)
(* would be copied behind the end of the array goes astray.                *)
From(a, p, n) == SubSeq(a, p + 1, p + n)
Copy(a, p, s) ==
    [i \in DOMAIN a |-> IF p < i /\ i <= p + Len(s) THEN s[i - p] ELSE a[i]]

Is(a, r, w) ==
    /\ buffer' = a
    /\ read_pos' = r
    /\ write_pos' = w

BugMoveFront(a, r, w) ==
    Is(Copy(a, PRERESERVE, From(a, r, w - r)), PRERESERVE, w)

(* move_front                                                              *)
MoveFront(a, r, w) ==
    Is(Copy(a, PRERESERVE, From(a, r, w - r)), PRERESERVE, PRERESERVE + w - r)

-----------------------------------------------------------------------------
(* What write_n makes of a number n of bytes said to have been put in.     *)
Clamped(n) == IF n > writeable THEN writeable ELSE n

(* A socket has read s into the free space, and says that it was n bytes.  *)
write_n(s, n) ==
    /\ Len(s) <= writeable
    /\ Is(Copy(buffer, write_pos, s), read_pos, write_pos + Clamped(n))

(* commit: more than is there only moves the data.                         *)
commit(n) ==
    IF n > readable
    THEN MoveFront(buffer, read_pos, write_pos)
    ELSE Is(buffer, read_pos + n, write_pos)

Consume(n) ==
    IF n >= readable
    THEN MoveFront(buffer, read_pos + n, write_pos)
    ELSE Is(buffer, read_pos + n, write_pos)

BugGetNBytes(n) == Consume(n)

(* get_n_bytes, and get_all for all that is there.  A number below zero    *)
(* makes it throw before anything is changed.                              *)
get_n_bytes(n) == Consume(IF n > readable THEN readable ELSE n)

double_size ==
    /\ 2 * Len(buffer) <= MaxSize
    /\ Is(buffer \o Zeros(Len(buffer)), read_pos, write_pos)

(* append inserts at the beginning of the array, having moved the data to  *)
(* the front if there was room anyway.                                     *)
Insert(a, r, w, s) ==
    /\ Len(a) + Len(s) <= MaxSize
    /\ IF Len(s) < Len(a) - w - PRERESERVE
       THEN Is(s \o Copy(a, PRERESERVE, From(a, r, w - r)), PRERESERVE,
               PRERESERVE + w - r + Len(s))
       ELSE Is(s \o a, r, w + Len(s))

append(s) == Insert(buffer, read_pos, write_pos, s)

(* pre_append copies s in front of the data, or to the beginning of a new  *)
(* array, followed by as many bytes as there was room behind the data.     *)
pre_append(s) ==
    IF Len(s) <= read_pos
    THEN Is(Copy(buffer, read_pos - Len(s), s), read_pos - Len(s), write_pos)
    ELSE /\ Len(s) + writeable <= MaxSize
         /\ Is(s \o From(buffer, read_pos, writeable), 0, Len(s) + writeable)

(* readv has read s into the free space, and what did not fit into an      *)
(* array on the stack, which is appended.                                  *)
readfd(s) ==
    IF Len(s) > writeable
    THEN Insert(Copy(buffer, write_pos, From(s, 0, writeable)), read_pos,
                Len(buffer), From(s, writeable, Len(s) - writeable))
    ELSE Is(Copy(buffer, write_pos, s), read_pos, write_pos + Len(s))

(* write has taken n bytes.  Whether all is written is read off the wrong  *)
(* quantity, and the data moves when it need not.                          *)
writefd(n) ==
    IF read_pos + n = writeable
    THEN MoveFront(buffer, read_pos + n, write_pos)
    ELSE Is(buffer, read_pos + n, write_pos)

(* A system call that fails returns -1, which is added to a position, as   *)
(* write_n and commit add what they are given if it is below zero.         *)
readfdFails == Is(buffer, read_pos, write_pos - 1)

writefdFails ==
    IF read_pos - 1 = writeable
    THEN MoveFront(buffer, read_pos - 1, write_pos)
    ELSE Is(buffer, read_pos - 1, write_pos)

(* Positions outside the array make the next access undefined: no call is  *)
(* followed any further from there.                                        *)
Defined == 0 <= read_pos /\ read_pos <= write_pos /\ write_pos <= Len(buffer)

(* The operations that put data behind what is there, or take data out.    *)
QueueCall ==
    \/ \E s \in Strings : \E n \in 0..(writeable + 1) :
          Clamped(n) = Len(s) /\ write_n(s, n)
    \/ \E n \in 0..(readable + 1) : commit(n) \/ get_n_bytes(n)
    \/ \E n \in 0..readable : writefd(n)
    \/ double_size

(* Others, and a write_n that does not say what has been put in.           *)
OtherCall ==
    \E s \in Strings :
        \/ append(s) \/ pre_append(s) \/ readfd(s)
        \/ \E n \in 0..(writeable + 1) : write_n(s, n)

Below == {-1}       \* bound: a number further below is as good as several calls

CallFails ==
    \/ readfdFails \/ writefdFails
    \/ \E n \in Below : write_n(<<>>, n) \/ commit(n)

Next ==
    /\ Defined
    /\ \/ QueueCall /\ UNCHANGED <<asQueue, failed>>
       \/ OtherCall /\ asQueue' = FALSE /\ UNCHANGED failed
       \/ CallFails /\ asQueue' = FALSE /\ failed' = TRUE

Spec == Init /\ [][Next]_vars

-----------------------------------------------------------------------------
(* What is in the buffer.                                                  *)
content == From(buffer, read_pos, readable)

(* As long as only operations of a queue have been called, the buffer is   *)
(* one: double_size and move_front, wherever they happen, change nothing   *)
(* that can be read.  What it holds after another call is left open.       *)
Queue == INSTANCE ByteQueue WITH bytes <- IF asQueue THEN content ELSE <<>>

ImplementsByteQueue == Queue!Spec

(* Whatever is called, and in any order, no position is overtaken by the   *)
(* other unless a number below zero was added to one: by a system call     *)
(* that has failed (Buffer.cpp:22 and 104) or by the caller of write_n or  *)
(* commit.                                                                 *)
PositionsInOrder == ~failed => 0 <= read_pos /\ read_pos <= write_pos

(* "put data into the buffer" (Buffer.hpp:73, in Chinese): after append(s) *)
(* s can be read, before or behind what could be read already.             *)
AppendPutsDataIn ==
    [][\A s \in Strings : append(s) => content' \in {content \o s, s \o content}]_vars
=============================================================================
