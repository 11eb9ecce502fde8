----------------------------- MODULE ByteQueue -----------------------------
(***************************************************************************)
(* What a buffer between a socket and a program is for: bytes are put in   *)
(* at one end and taken out at the other, none is lost, changed or moved.  *)
(***************************************************************************)
EXTENDS Naturals, Sequences

CONSTANT Strings    \* what may be put in

VARIABLE bytes      \* what has been put in and not been taken out

Init == bytes = <<>>

Put(s) == bytes' = bytes \o s

Take(n) == bytes' = SubSeq(bytes, n + 1, Len(bytes))

Next ==
    \/ \E s \in Strings : Put(s)
    \/ \E n \in 1..Len(bytes) : Take(n)

Spec == Init /\ [][Next]_bytes
=============================================================================
