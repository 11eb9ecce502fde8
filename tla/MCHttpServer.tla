---------------------------- MODULE MCHttpServer ----------------------------
(* Small instances of HttpServer for TLC: what clients send.               *)
EXTENDS HttpServerProperties, TLC

Text == [class |-> "text", len |-> NoLength]
Brace == [class |-> "brace", len |-> NoLength]
Junk == [class |-> "junk", len |-> NoLength]
End(n) == [class |-> "end", len |-> n]

ObjectPost == <<Text, End(2), Brace, Text>>     \* a JSON object of two bytes
LongPost == <<Text, End(3), Brace, Text, Text>>
NumberPost == <<Text, End(1), Text>>            \* JSON, but no object
EmptyPost == <<Text, End(0)>>
Get == <<Text, End(NoLength)>>
BadLength == <<Text, End(NotANumber), Text>>
Malformed == <<Text, Junk>>
BelowZero == <<Text, End(Negative), Brace>>

AllRequests ==
    {ObjectPost, LongPost, NumberPost, EmptyPost, Get, BadLength, Malformed}
EveryRequest == AllRequests \cup {BelowZero}
Posts == {ObjectPost, NumberPost, EmptyPost}
TwoPosts == {ObjectPost, EmptyPost}
SomeDeafen == TwoPosts \cup {BadLength}

(* What the theorems about a patient client suppose of its requests.       *)
ASSUME AllAreRequests == \A r \in AllRequests : OneRequest(r)
ASSUME EachHasOneHead == \A r \in EveryRequest : OneHead(r)

Symmetric == Permutations(Conns) \cup Permutations(Workers)
=============================================================================
