------------------------------ MODULE HeadScan ------------------------------
(***************************************************************************)
(* What HttpServer needs to know of request_parser: how far it reads into  *)
(* the bytes it is given, and with which of its three results.             *)
(*                                                                         *)
(* A byte of the input stands for a run of characters that the parser      *)
(* treats alike, classified by how it reacts to them where they come:      *)
(*   "text"  may begin a request head and may continue one;                *)
(*   "brace" cannot begin a head (the '{' of a JSON object is the case     *)
(*           that matters, request_parser.cpp:22 and 292) but can be part  *)
(*           of one that has begun;                                        *)
(*   "junk"  is rejected wherever it comes;                                *)
(*   "end"   is the blank line that completes a head that has begun; it    *)
(*           carries the Content-Length that the head has announced.       *)
(***************************************************************************)
EXTENDS Integers, Sequences

NoLength == -1      \* the head has no Content-Length header
NotANumber == -2    \* std::stoi throws on the value of that header
Negative == -3      \* that value is a number below zero

Byte ==
    [class : {"text", "brace", "junk", "end"},
     len : Nat \cup {NoLength, NotANumber, Negative}]

(* A parser that has consumed nothing is "fresh", later it is "begun".     *)
ParserState == {"fresh", "begun"}

Result == {"good", "bad", "indeterminate"}

BugConsumeBrace(p, b) ==
    CASE b.class \in {"text", "brace"} -> "indeterminate"
      [] b.class = "end"   -> IF p = "fresh" THEN "bad" ELSE "good"
      [] b.class = "junk"  -> "bad"

(* request_parser::consume; Bug marks the mistake it does not make.        *)
Consume(p, b) ==
    CASE b.class = "text"  -> "indeterminate"
      [] b.class = "brace" -> IF p = "fresh" THEN "bad" ELSE "indeterminate"
      [] b.class = "end"   -> IF p = "fresh" THEN "bad" ELSE "good"
      [] b.class = "junk"  -> "bad"

(* The result for byte i of s when the parser was in state p before s: it  *)
(* has begun as soon as it has accepted one byte.                          *)
ResultAt(p, s, i) == Consume(IF i = 1 THEN p ELSE "begun", s[i])

(* The bytes of s up to i leave the parser waiting for more.               *)
Accepts(p, s, i) == \A j \in 1..i : ResultAt(p, s, j) = "indeterminate"

(* request_parser::parse: the result, and the number of bytes consumed.    *)
Parse(p, s) ==
    IF Accepts(p, s, Len(s))
    THEN [result |-> "indeterminate", consumed |-> Len(s)]
    ELSE LET i == CHOOSE j \in 1..Len(s) :
                      Accepts(p, s, j - 1) /\ ~Accepts(p, s, j)
         IN  [result |-> ResultAt(p, s, i), consumed |-> i]
=============================================================================
