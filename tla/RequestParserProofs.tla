------------------------ MODULE RequestParserProofs ------------------------
EXTENDS RequestParser, SequenceTheorems, NaturalsInduction, WellFoundedInduction, TLAPS

-----------------------------------------------------------------------------
(* Induction, for sets of numbers.                                         *)

LEMMA Least ==
  ASSUME NEW S \in SUBSET Nat, NEW k \in S
  PROVE  \E m \in S : \A j \in S : m <= j
<1>1. PICK R : R = OpToRel(<, Nat) /\ IsWellFoundedOn(R, Nat)
  BY NatLessThanWellFounded
<1>2. \E m \in S : \A j \in S : ~(<<j, m>> \in R)
  BY <1>1, WFMin
<1>3. \A j, m \in Nat : j < m => <<j, m>> \in R
  BY <1>1 DEF OpToRel
<1>4. PICK m \in S : \A j \in S : ~(<<j, m>> \in R)
  BY <1>2
<1>5. ASSUME NEW j \in S PROVE m <= j
  <2>1. ~(j < m)
    BY <1>3, <1>4
  <2>2. QED
    BY <2>1
<1>6. QED
  BY <1>5

LEMMA Induction ==
  ASSUME NEW S, 0 \in S, \A n \in Nat : n \in S => n + 1 \in S
  PROVE  Nat \subseteq S
<1> SUFFICES ASSUME NEW k \in Nat \ S PROVE FALSE
  OBVIOUS
<1>1. PICK m \in Nat \ S : \A j \in Nat \ S : m <= j
  BY Least
<1>2. m # 0 /\ m - 1 \in Nat
  BY <1>1
<1>3. m - 1 \in S
  BY <1>1, <1>2
<1>4. QED
  BY <1>1, <1>2, <1>3

(* The parser after each character of s.                                   *)
After(f, r, s) ==
    /\ DOMAIN f = 0..Len(s) /\ f[0] = r
    /\ \A i \in 1..Len(s) : f[i] = consume(f[i - 1], s[i])

LEMMA FedSteps ==
  ASSUME NEW r, NEW s, Len(s) \in Nat
  PROVE  \E f : After(f, r, s) /\ Fed(r, s) = f[Len(s)]
<1> DEFINE Step(f, i) == IF i = 0 THEN r ELSE consume(f[i - 1], s[i])
           S == {n \in Nat : \E f : f = [i \in 0..n |-> Step(f, i)]}
<1>1. 0 \in S
  <2>1. PICK f : f = [i \in 0..0 |-> r]
    OBVIOUS
  <2>2. f = [i \in 0..0 |-> Step(f, i)]
    BY <2>1
  <2>3. QED
    BY <2>2
<1>2. ASSUME NEW n \in Nat, n \in S PROVE n + 1 \in S
  <2>1. PICK f : f = [i \in 0..n |-> Step(f, i)]
    BY <1>2
  <2>2. PICK g : g = [i \in 0..(n + 1) |-> IF i <= n THEN f[i] ELSE consume(f[n], s[n + 1])]
    OBVIOUS
  <2>3. \A i \in 0..n : g[i] = f[i] /\ f[i] = Step(f, i)
    BY <2>1, <2>2
  <2>4. \A i \in 0..(n + 1) : g[i] = Step(g, i)
    <3>1. ASSUME NEW i \in 0..n PROVE Step(f, i) = Step(g, i)
      <4>1. i # 0 => i - 1 \in 0..n
        OBVIOUS
      <4>2. QED
        BY <2>3, <4>1
    <3>2. g[n + 1] = consume(g[n], s[n + 1])
      BY <2>2, <2>3
    <3>3. QED
      BY <2>3, <3>1, <3>2
  <2>5. g = [i \in 0..(n + 1) |-> Step(g, i)]
    BY <2>2, <2>4
  <2>6. QED
    BY <2>5
<1>3. PICK n \in Nat : n = Len(s)
  OBVIOUS
<1>4. n \in S
  <2> HIDE DEF S
  <2>1. QED
    BY <1>1, <1>2, <1>3, Induction
<1>5. PICK f : f = CHOOSE g : g = [i \in 0..n |-> Step(g, i)]
  OBVIOUS
<1>6. f = [i \in 0..n |-> Step(f, i)]
  BY <1>4, <1>5
<1>7. Fed(r, s) = f[n]
  BY <1>3, <1>5 DEF Fed
<1>8. After(f, r, s)
  BY <1>3, <1>6 DEF After
<1>9. QED
  BY <1>3, <1>7, <1>8

-----------------------------------------------------------------------------
(* One character.                                                          *)

Header == [name : Seq(Token), value : Seq(Text)]

ParserType ==
    [state_ : State, headers : Seq(Header),
     result : {"good", "bad", "indeterminate"}, consumed : Nat]

(* In the middle of a header there is one to extend.                       *)
InHeader == {"header_name", "space_before_header_value", "header_value", "header_lws",
             "expecting_newline_2"}

LEMMA Consumes ==
  ASSUME NEW r \in ParserType, r.result = "indeterminate", NEW c, NEW t, t = consume(r, c)
  PROVE  /\ t.consumed = r.consumed + 1
         /\ \/ /\ t.result = "bad" /\ t.state_ = r.state_ /\ t.headers = r.headers
               /\ \A q \in State \cup {"good"} : ~Leads(r.state_, c, q, r.headers)
            \/ /\ t.result = "good" /\ t.state_ = r.state_ /\ t.headers = r.headers
               /\ Leads(r.state_, c, "good", r.headers)
            \/ /\ t.result = "indeterminate" /\ t.state_ \in State
               /\ Leads(r.state_, c, t.state_, r.headers)
               /\ t.headers = Collect(r.state_, c, t.state_, r.headers)
<1> DEFINE T == {q \in State \cup {"good"} : Leads(r.state_, c, q, r.headers)}
<1>1. PICK q : q = CHOOSE x \in T : TRUE
  OBVIOUS
<1>2. t = CASE T = {} -> [r EXCEPT !.result = "bad", !.consumed = @ + 1]
            [] "good" \in T -> [r EXCEPT !.result = "good", !.consumed = @ + 1]
            [] OTHER -> [r EXCEPT !.state_ = q, !.consumed = @ + 1,
                                  !.headers = Collect(r.state_, c, q, @)]
  BY <1>1 DEF consume
<1>3. T # {} => q \in State \cup {"good"} /\ Leads(r.state_, c, q, r.headers)
  BY <1>1
<1>4. /\ T = {} => \A x \in State \cup {"good"} : ~Leads(r.state_, c, x, r.headers)
      /\ "good" \in T => Leads(r.state_, c, "good", r.headers)
      /\ T # {} /\ "good" \notin T => q # "good"
  BY <1>1
<1> HIDE DEF T
<1>5. CASE T = {}
  <2>1. t = [r EXCEPT !.result = "bad", !.consumed = @ + 1]
    BY <1>2, <1>5, Zenon
  <2>2. QED
    BY <1>4, <1>5, <2>1 DEF ParserType
<1>6. CASE "good" \in T
  <2>1. t = [r EXCEPT !.result = "good", !.consumed = @ + 1]
    BY <1>2, <1>6, Zenon
  <2>2. QED
    BY <1>4, <1>6, <2>1 DEF ParserType
<1>7. CASE T # {} /\ "good" \notin T
  <2>1. t = [r EXCEPT !.state_ = q, !.consumed = @ + 1,
                      !.headers = Collect(r.state_, c, q, @)]
    BY <1>2, <1>7, Zenon
  <2>2. q \in State
    BY <1>3, <1>4, <1>7
  <2>3. QED
    BY <1>3, <1>7, <2>1, <2>2 DEF ParserType
<1>8. QED
  BY <1>5, <1>6, <1>7

LEMMA Extends ==
  ASSUME NEW h \in Seq(Header), h # <<>>, NEW c
  PROVE  /\ c \in Token => Extend(h, "name", c) \in Seq(Header)
         /\ c \in Text => Extend(h, "value", c) \in Seq(Header)
         /\ Extend(h, "name", c) # <<>> /\ Extend(h, "value", c) # <<>>
<1>1. PICK n \in Nat \ {0} : n = Len(h)
  BY EmptySeq
<1>2. n \in 1..Len(h) /\ h[n] \in Header
  BY <1>1, ElementOfSeq
<1>3. DOMAIN h = 1..n
  BY <1>1, LenProperties
<1>4. c \in Token => [h[n] EXCEPT !["name"] = Append(h[n]["name"], c)] \in Header
  BY <1>2, AppendProperties DEF Header
<1>5. c \in Text => [h[n] EXCEPT !["value"] = Append(h[n]["value"], c)] \in Header
  BY <1>2, AppendProperties DEF Header
<1>6. PICK x, y : /\ x = [h[n] EXCEPT !["name"] = Append(h[n]["name"], c)]
                  /\ y = [h[n] EXCEPT !["value"] = Append(h[n]["value"], c)]
  OBVIOUS
<1>7. Extend(h, "name", c) = [h EXCEPT ![n] = x] /\ Extend(h, "value", c) = [h EXCEPT ![n] = y]
  BY <1>1, <1>3, <1>6 DEF Extend
<1>8. ASSUME NEW z \in Header, NEW g, g = [h EXCEPT ![n] = z] PROVE g \in Seq(Header)
  BY <1>2, <1>8, ExceptSeq
<1>9. ASSUME NEW z, NEW g, g = [h EXCEPT ![n] = z] PROVE g # <<>>
  <2>1. n \in DOMAIN g
    BY <1>1, <1>3, <1>9
  <2>2. QED
    BY <2>1
<1>10. QED
  BY <1>4, <1>5, <1>6, <1>7, <1>8, <1>9

(* The headers keep their type, and are never taken away.                  *)
LEMMA Collects ==
  ASSUME NEW p \in State, NEW c \in Char, NEW q \in State, NEW h \in Seq(Header),
         Leads(p, c, q, h), p \in InHeader => h # <<>>,
         NEW k, k = Collect(p, c, q, h)
  PROVE  /\ k \in Seq(Header)
         /\ k = <<>> <=> h = <<>> /\ ~(p # "header_name" /\ q = "header_name")
<1>1. CASE p # "header_name" /\ q = "header_name"
  <2>1. c \in Token
    BY <1>1 DEF Leads, RequestLine, VersionName, VersionNumber, LineStart, HeaderLine
  <2>2. k = Append(h, [name |-> <<c>>, value |-> <<>>])
    BY <1>1 DEF Collect
  <2>3. [name |-> <<c>>, value |-> <<>>] \in Header
    BY <2>1, EmptySeq DEF Header
  <2>4. QED
    BY <1>1, <2>2, <2>3, AppendProperties
<1>2. CASE p = "header_name" /\ q = "header_name"
  <2>1. c \in Token
    BY <1>2 DEF Leads, RequestLine, VersionName, VersionNumber, LineStart, HeaderLine
  <2>2. k = Extend(h, "name", c) /\ h # <<>>
    BY <1>2 DEF Collect, InHeader
  <2>3. QED
    BY <1>2, <2>1, <2>2, Extends
<1>3. CASE p \in {"header_value", "header_lws"} /\ q = "header_value"
  <2>1. c \in Text
    BY <1>3 DEF Leads, RequestLine, VersionName, VersionNumber, LineStart, HeaderLine
  <2>2. k = Extend(h, "value", c) /\ h # <<>>
    BY <1>3 DEF Collect, InHeader
  <2>3. QED
    BY <1>3, <2>1, <2>2, Extends
<1>4. CASE q # "header_name" /\ ~(p \in {"header_value", "header_lws"} /\ q = "header_value")
  <2>1. k = h
    BY <1>4 DEF Collect
  <2>2. QED
    BY <1>4, <2>1
<1>5. QED
  BY <1>1, <1>2, <1>3, <1>4

-----------------------------------------------------------------------------
(* What the parser has seen of s when it has consumed i characters of it,  *)
(* told by where it is.                                                    *)

All(s, a, b, C) == \A j \in a..b : s[j] \in C
NoCR(s, a, b) == \A j \in a..b : s[j] # "CR"

(* A method up to the blank at m, and a uri behind it.                     *)
UriFrom(s, m, i) ==
    /\ m \in 2..i /\ s[m] = "SP"
    /\ All(s, 1, m - 1, Token) /\ All(s, m + 1, i, Text \ {"SP"})

Name(s, k) ==
    /\ s[k + 1] = "H" /\ s[k + 2] = "T" /\ s[k + 3] = "T" /\ s[k + 4] = "P"
    /\ s[k + 5] = "/"

(* A version number behind the name at k, with its dot at d.               *)
Number(s, k, d, i) ==
    /\ d \in (k + 7)..i /\ s[d] = "."
    /\ \A j \in (k + 6)..i : j # d => s[j] = "digit"

InVersion(s, k, i, q) ==
    \/ q = "http_version_h" /\ i = k
    \/ q = "http_version_t_1" /\ i = k + 1 /\ s[k + 1] = "H"
    \/ q = "http_version_t_2" /\ i = k + 2 /\ s[k + 1] = "H" /\ s[k + 2] = "T"
    \/ /\ q = "http_version_p" /\ i = k + 3
       /\ s[k + 1] = "H" /\ s[k + 2] = "T" /\ s[k + 3] = "T"
    \/ /\ q = "http_version_slash" /\ i = k + 4
       /\ s[k + 1] = "H" /\ s[k + 2] = "T" /\ s[k + 3] = "T" /\ s[k + 4] = "P"
    \/ q = "http_version_major_start" /\ i = k + 5 /\ Name(s, k)
    \/ q = "http_version_major" /\ i >= k + 6 /\ Name(s, k) /\ All(s, k + 6, i, {"digit"})
    \/ q = "http_version_minor_start" /\ Name(s, k) /\ Number(s, k, i, i)
    \/ q = "http_version_minor" /\ Name(s, k) /\ \E d \in 1..(i - 1) : Number(s, k, d, i)

(* A request line that is ended by the CR at e.                            *)
FirstLine(s, e) ==
    \E m, k, d \in 1..(e - 2) :
        UriFrom(s, m, k - 1) /\ s[k] = "SP" /\ Name(s, k) /\ Number(s, k, d, e - 1)

LineShape(s, i, q) ==
    \/ /\ NoCR(s, 1, i)
       /\ \/ q = "method_start" /\ i = 0
          \/ q = "method" /\ i >= 1 /\ All(s, 1, i, Token)
          \/ q = "uri" /\ \E m \in 1..i : UriFrom(s, m, i)
          \/ \E m, k \in 1..i :
                UriFrom(s, m, k - 1) /\ s[k] = "SP" /\ InVersion(s, k, i, q)
    \/ /\ q = "expecting_newline_1" /\ i >= 1
       /\ s[i] = "CR" /\ NoCR(s, 1, i - 1) /\ FirstLine(s, i)

Field(s, a, b) ==
    \E n \in (a + 1)..(b - 1) :
        /\ All(s, a, n - 1, Token) /\ s[n] = ":" /\ s[n + 1] = "SP"
        /\ All(s, n + 2, b, Text)

Continued(s, a, b) ==
    \E n \in a..b : All(s, a, n, Blank) /\ All(s, n + 1, b, Text)

(* A line from a to b of a head whose first line is ended by the CR at e.  *)
OtherLine(s, e, a, b) == Field(s, a, b) \/ (a # e + 2 /\ Continued(s, a, b))

End(s, y) == s[y] = "CR" /\ s[y + 1] = "LF"

(* A line whose value has begun.                                           *)
Valued(s, e, a, b) ==
    \/ Field(s, a, b)
    \/ /\ a # e + 2
       /\ \E n \in a..(b - 1) :
            All(s, a, n, Blank) /\ s[n + 1] \in Text \ Blank /\ All(s, n + 2, b, Text)

(* The lines before a are a request line and other lines.                  *)
Done(s, e, a) ==
    /\ FirstLine(s, e) /\ NoCR(s, 1, e - 1) /\ End(s, e)
    /\ a >= e + 2 /\ End(s, a - 2)
    /\ \A x \in (e + 2)..(a - 1) : \A y \in x..(a - 2) :
            /\ End(s, x - 2) /\ End(s, y)
            /\ \A z \in x..(y - 1) : ~End(s, z)
            => OtherLine(s, e, x, y - 1)

(* In the line that begins at a.                                           *)
HeaderShape(s, i, q, e, a) ==
    \/ /\ NoCR(s, a, i)
       /\ \/ q = "header_line_start" /\ i = a - 1
          \/ q = "header_name" /\ i >= a /\ All(s, a, i, Token)
          \/ /\ q = "space_before_header_value" /\ i > a
             /\ All(s, a, i - 1, Token) /\ s[i] = ":"
          \/ q = "header_lws" /\ i >= a /\ a # e + 2 /\ All(s, a, i, Blank)
          \/ q = "header_value" /\ i >= a /\ Valued(s, e, a, i)
    \/ q = "expecting_newline_3" /\ i = a /\ s[i] = "CR"
    \/ /\ q = "expecting_newline_2" /\ i > a
       /\ s[i] = "CR" /\ NoCR(s, a, i - 1) /\ OtherLine(s, e, a, i - 1)

(* There is a header as soon as a line other than the first has begun.     *)
Headed(q, e, a, h) ==
    /\ q \in InHeader => h # <<>>
    /\ h = <<>> <=> a = e + 2 /\ q \notin InHeader

InHeaders(s, i, q, h) ==
    \E e \in 1..i, a \in 1..(i + 1) :
        Done(s, e, a) /\ HeaderShape(s, i, q, e, a) /\ Headed(q, e, a, h)

Shape(s, i, q, h) == (LineShape(s, i, q) /\ h = <<>>) \/ InHeaders(s, i, q, h)

LEMMA Classes ==
  /\ Token \subseteq Text \ {"SP"} /\ Text \subseteq Char /\ Blank \subseteq Char
  /\ \A c \in Text \cup Blank : c \notin {"CR", "LF"}
  /\ ":" \in Text \ Token /\ "SP" \in Text /\ "." \in Text /\ "digit" \in Text
  /\ Token \cap Blank = {}
BY DEF Token, Text, Blank, Char, is_char, is_ctl, is_tspecial

LEMMA RequestLineShapes ==
  ASSUME NEW s, NEW i \in Nat, NEW p, NEW q, LineShape(s, i, p), RequestLine(p, s[i + 1], q)
  PROVE  LineShape(s, i + 1, q)
<1>1. \A j \in 1..(i + 1) : j \in 1..i \/ j = i + 1
  OBVIOUS
<1>2. s[i + 1] # "CR" /\ p # "expecting_newline_1"
  BY Classes DEF RequestLine
<1>3. NoCR(s, 1, i + 1)
  BY <1>1, <1>2 DEF LineShape, NoCR
<1>4. CASE p = "method_start"
  <2>1. i = 0 /\ q = "method" /\ s[1] \in Token
    BY <1>4 DEF LineShape, InVersion, RequestLine
  <2>2. QED
    BY <1>3, <2>1 DEF LineShape, All
<1>5. CASE p = "method"
  <2>1. i >= 1 /\ All(s, 1, i, Token)
    BY <1>5 DEF LineShape, InVersion
  <2>2. CASE q = "uri"
    <3>1. s[i + 1] = "SP"
      BY <1>5, <2>2 DEF RequestLine
    <3>2. UriFrom(s, i + 1, i + 1)
      BY <2>1, <3>1 DEF UriFrom, All
    <3>3. i + 1 \in 1..(i + 1)
      OBVIOUS
    <3>4. QED
      BY <1>3, <2>2, <3>2, <3>3 DEF LineShape
  <2>3. CASE q = "method" /\ s[i + 1] \in Token
    BY <1>1, <1>3, <2>1, <2>3 DEF LineShape, All
  <2>4. QED
    BY <1>5, <2>2, <2>3 DEF RequestLine
<1>6. CASE p = "uri"
  <2>1. PICK m \in 1..i : UriFrom(s, m, i)
    BY <1>6 DEF LineShape, InVersion
  <2>2. m \in 1..(i + 1) /\ i + 1 \in 1..(i + 1)
    OBVIOUS
  <2>3. CASE q = "http_version_h" /\ s[i + 1] = "SP"
    <3>1. UriFrom(s, m, (i + 1) - 1) /\ InVersion(s, i + 1, i + 1, q)
      BY <2>1, <2>3 DEF InVersion
    <3>2. QED
      BY <1>3, <2>2, <2>3, <3>1 DEF LineShape
  <2>4. CASE q = "uri" /\ s[i + 1] \in Text \ {"SP"}
    <3>1. UriFrom(s, m, i + 1)
      BY <2>1, <2>4 DEF UriFrom, All
    <3>2. QED
      BY <1>3, <2>2, <2>4, <3>1 DEF LineShape
  <2>5. QED
    BY <1>6, <2>3, <2>4 DEF RequestLine
<1>7. QED
  BY <1>4, <1>5, <1>6 DEF RequestLine

(* What leads on from p begins with s[i + 1], where the shape at i ends.   *)
LEMMA VersionShapes ==
  ASSUME NEW s, NEW i \in Nat, NEW p, NEW q, LineShape(s, i, p),
         VersionName(p, s[i + 1], q) \/ VersionNumber(p, s[i + 1], q),
         q # "header_line_start"
  PROVE  LineShape(s, i + 1, q)
<1> DEFINE Versions == {"http_version_h", "http_version_t_1", "http_version_t_2",
                        "http_version_p", "http_version_slash",
                        "http_version_major_start", "http_version_major",
                        "http_version_minor_start", "http_version_minor"}
<1>1. p \in Versions
  BY DEF LineShape, VersionName, VersionNumber
<1>2. NoCR(s, 1, i)
  BY <1>1 DEF LineShape
<1>3. PICK m \in 1..i : \E k \in 1..i :
        UriFrom(s, m, k - 1) /\ s[k] = "SP" /\ InVersion(s, k, i, p)
  BY <1>1 DEF LineShape
<1>4. PICK k \in 1..i : UriFrom(s, m, k - 1) /\ s[k] = "SP" /\ InVersion(s, k, i, p)
  BY <1>3
<1>5. m \in 1..(i + 1) /\ k \in 1..(i + 1) /\ m <= k - 1
  BY <1>4 DEF UriFrom
<1>6. \A j \in 1..(i + 1) : j \in 1..i \/ j = i + 1
  OBVIOUS
<1>7. CASE VersionName(p, s[i + 1], q)
  <2>1. s[i + 1] # "CR"
    BY <1>7 DEF VersionName
  <2>2. NoCR(s, 1, i + 1)
    BY <1>2, <1>6, <2>1 DEF NoCR
  <2>3. InVersion(s, k, i + 1, q)
    BY <1>4, <1>7 DEF VersionName, InVersion, Name
  <2>4. QED
    BY <1>4, <1>5, <2>2, <2>3 DEF LineShape
<1>8. CASE VersionNumber(p, s[i + 1], q) /\ q # "expecting_newline_1"
  <2>1. s[i + 1] # "CR"
    BY <1>8 DEF VersionNumber
  <2>2. NoCR(s, 1, i + 1)
    BY <1>2, <1>6, <2>1 DEF NoCR
  <2>3. InVersion(s, k, i + 1, q)
    <3>1. CASE p = "http_version_major_start"
      <4>1. i = k + 5 /\ Name(s, k) /\ s[i + 1] = "digit" /\ q = "http_version_major"
        BY <1>4, <1>8, <3>1 DEF VersionNumber, InVersion
      <4>2. QED
        BY <4>1 DEF InVersion, All
    <3>2. CASE p = "http_version_major"
      <4>1. i >= k + 6 /\ Name(s, k) /\ All(s, k + 6, i, {"digit"})
        BY <1>4, <3>2 DEF InVersion
      <4>2. CASE q = "http_version_major" /\ s[i + 1] = "digit"
        BY <4>1, <4>2 DEF InVersion, All
      <4>3. CASE q = "http_version_minor_start" /\ s[i + 1] = "."
        <5>1. Number(s, k, i + 1, i + 1)
          BY <4>1, <4>3 DEF Number, All
        <5>2. QED
          BY <4>1, <4>3, <5>1 DEF InVersion
      <4>4. QED
        BY <1>8, <3>2, <4>2, <4>3 DEF VersionNumber
    <3>3. CASE p = "http_version_minor_start"
      <4>1. Name(s, k) /\ Number(s, k, i, i) /\ s[i + 1] = "digit" /\ q = "http_version_minor"
        BY <1>4, <1>8, <3>3 DEF InVersion, VersionNumber
      <4>2. Number(s, k, i, i + 1)
        BY <4>1 DEF Number
      <4>3. i \in 1..((i + 1) - 1)
        BY <1>4
      <4>4. QED
        BY <4>1, <4>2, <4>3 DEF InVersion
    <3>4. CASE p = "http_version_minor"
      <4>1. Name(s, k) /\ s[i + 1] = "digit" /\ q = "http_version_minor"
        BY <1>4, <1>8, <3>4 DEF InVersion, VersionNumber
      <4>2. PICK d \in 1..(i - 1) : Number(s, k, d, i)
        BY <1>4, <3>4 DEF InVersion
      <4>3. Number(s, k, d, i + 1) /\ d \in 1..((i + 1) - 1)
        BY <4>1, <4>2 DEF Number
      <4>4. QED
        BY <4>1, <4>3 DEF InVersion
    <3>5. QED
      BY <1>8, <3>1, <3>2, <3>3, <3>4 DEF VersionNumber
  <2>4. QED
    BY <1>4, <1>5, <2>2, <2>3 DEF LineShape
<1>9. CASE q = "expecting_newline_1"
  <2>1. p = "http_version_minor" /\ s[i + 1] = "CR"
    BY <1>9 DEF VersionName, VersionNumber
  <2>2. Name(s, k)
    BY <1>4, <2>1 DEF InVersion
  <2>3. PICK d \in 1..(i - 1) : Number(s, k, d, i)
    BY <1>4, <2>1 DEF InVersion
  <2>4. /\ m \in 1..((i + 1) - 2) /\ k \in 1..((i + 1) - 2) /\ d \in 1..((i + 1) - 2)
        /\ (i + 1) - 1 = i
    BY <1>5, <2>3 DEF Number
  <2>5. FirstLine(s, i + 1)
    BY <1>4, <2>2, <2>3, <2>4 DEF FirstLine
  <2>6. QED
    BY <1>2, <1>9, <2>1, <2>4, <2>5 DEF LineShape
<1>10. QED
  BY <1>7, <1>8, <1>9

(* The end of the request line.                                            *)
LEMMA FirstLineDone ==
  ASSUME NEW s, NEW i \in Nat, LineShape(s, i, "expecting_newline_1"), s[i + 1] = "LF"
  PROVE  InHeaders(s, i + 1, "header_line_start", <<>>)
<1>1. i >= 1 /\ s[i] = "CR" /\ NoCR(s, 1, i - 1) /\ FirstLine(s, i)
  BY DEF LineShape, InVersion
<1>2. End(s, i) /\ (i + 2) - 2 = i
  BY <1>1 DEF End
<1>3. Done(s, i, i + 2)
  BY <1>1, <1>2 DEF Done
<1>4. HeaderShape(s, i + 1, "header_line_start", i, i + 2)
  BY DEF HeaderShape, NoCR
<1>5. Headed("header_line_start", i, i + 2, <<>>)
  BY DEF Headed, InHeader
<1>6. i \in 1..(i + 1) /\ i + 2 \in 1..((i + 1) + 1)
  BY <1>1
<1>7. QED
  BY <1>3, <1>4, <1>5, <1>6 DEF InHeaders

LEMMA ValuedGrows ==
  ASSUME NEW s, NEW e \in Nat, NEW a \in Nat, NEW i \in Nat,
         Valued(s, e, a, i), s[i + 1] \in Text
  PROVE  Valued(s, e, a, i + 1)
<1>1. CASE Field(s, a, i)
  <2>1. PICK n \in (a + 1)..(i - 1) :
            /\ All(s, a, n - 1, Token) /\ s[n] = ":" /\ s[n + 1] = "SP"
            /\ All(s, n + 2, i, Text)
    BY <1>1 DEF Field
  <2>2. All(s, n + 2, i + 1, Text) /\ n \in (a + 1)..((i + 1) - 1)
    BY <2>1 DEF All
  <2>3. QED
    BY <2>1, <2>2 DEF Field, Valued
<1>2. CASE a # e + 2 /\ ~Field(s, a, i)
  <2>1. PICK n \in a..(i - 1) :
            All(s, a, n, Blank) /\ s[n + 1] \in Text \ Blank /\ All(s, n + 2, i, Text)
    BY <1>2 DEF Valued
  <2>2. All(s, n + 2, i + 1, Text) /\ n \in a..((i + 1) - 1)
    BY <2>1 DEF All
  <2>3. QED
    BY <1>2, <2>1, <2>2 DEF Valued
<1>3. QED
  BY <1>1, <1>2 DEF Valued

LEMMA ValuedIsLine ==
  ASSUME NEW s, NEW e \in Nat, NEW a \in Nat, NEW i \in Nat, Valued(s, e, a, i)
  PROVE  OtherLine(s, e, a, i)
<1>1. CASE a # e + 2 /\ ~Field(s, a, i)
  <2>1. PICK n \in a..(i - 1) :
            All(s, a, n, Blank) /\ s[n + 1] \in Text \ Blank /\ All(s, n + 2, i, Text)
    BY <1>1 DEF Valued
  <2>2. All(s, n + 1, i, Text) /\ n \in a..i
    BY <2>1 DEF All
  <2>3. QED
    BY <1>1, <2>1, <2>2 DEF Continued, OtherLine
<1>2. QED
  BY <1>1 DEF Valued, OtherLine

(* One more character of the line that begins at a.                        *)
LEMMA LineGrows ==
  ASSUME NEW s, NEW i \in Nat, NEW e \in 1..i, NEW a \in 1..(i + 1), NEW p, NEW q, NEW h,
         HeaderShape(s, i, p, e, a), Headed(p, e, a, h), a >= e + 2,
         LineStart(p, s[i + 1], q, h = <<>>) \/ HeaderLine(p, s[i + 1], q),
         q \notin {"header_line_start", "good"}
  PROVE  HeaderShape(s, i + 1, q, e, a)
<1>1. \A j \in a..(i + 1) : j \in a..i \/ j = i + 1
  OBVIOUS
<1>2. NoCR(s, a, i) /\ a <= i + 1
  BY DEF HeaderShape, LineStart, HeaderLine
<1>3. s[i + 1] # "CR" => NoCR(s, a, i + 1)
  BY <1>1, <1>2 DEF NoCR
<1>4. CASE p = "header_line_start"
  <2>1. i = a - 1
    BY <1>4 DEF HeaderShape
  <2>2. CASE q = "expecting_newline_3" /\ s[i + 1] = "CR"
    BY <2>1, <2>2 DEF HeaderShape
  <2>3. CASE q = "header_name" /\ s[i + 1] \in Token
    <3>1. NoCR(s, a, i + 1) /\ All(s, a, i + 1, Token)
      BY <1>3, <2>1, <2>3, Classes DEF All
    <3>2. QED
      BY <1>2, <2>3, <3>1 DEF HeaderShape
  <2>4. CASE q = "header_lws" /\ s[i + 1] \in Blank /\ h # <<>>
    <3>1. NoCR(s, a, i + 1) /\ All(s, a, i + 1, Blank)
      BY <1>3, <2>1, <2>4, Classes DEF All
    <3>2. a # e + 2
      BY <1>4, <2>4 DEF Headed, InHeader
    <3>3. QED
      BY <1>2, <2>4, <3>1, <3>2 DEF HeaderShape
  <2>5. QED
    BY <1>4, <2>2, <2>3, <2>4 DEF LineStart, HeaderLine
<1>5. CASE p = "header_name"
  <2>1. i >= a /\ All(s, a, i, Token)
    BY <1>5 DEF HeaderShape
  <2>2. CASE q = "space_before_header_value" /\ s[i + 1] = ":"
    BY <1>3, <2>1, <2>2 DEF HeaderShape
  <2>3. CASE q = "header_name" /\ s[i + 1] \in Token
    <3>1. NoCR(s, a, i + 1) /\ All(s, a, i + 1, Token)
      BY <1>1, <1>3, <2>1, <2>3, Classes DEF All
    <3>2. QED
      BY <1>2, <2>3, <3>1 DEF HeaderShape
  <2>4. QED
    BY <1>5, <2>2, <2>3 DEF LineStart, HeaderLine
<1>6. CASE p = "space_before_header_value"
  <2>1. /\ i > a /\ All(s, a, i - 1, Token) /\ s[i] = ":"
        /\ q = "header_value" /\ s[i + 1] = "SP"
    BY <1>6 DEF HeaderShape, LineStart, HeaderLine
  <2>2. i \in (a + 1)..((i + 1) - 1) /\ All(s, i + 2, i + 1, Text)
    BY <2>1 DEF All
  <2>3. Valued(s, e, a, i + 1)
    BY <2>1, <2>2 DEF Field, Valued
  <2>4. QED
    BY <1>3, <2>1, <2>3 DEF HeaderShape
<1>7. CASE p = "header_value"
  <2>1. i >= a /\ Valued(s, e, a, i)
    BY <1>7 DEF HeaderShape
  <2>2. CASE q = "expecting_newline_2" /\ s[i + 1] = "CR"
    <3>1. (i + 1) - 1 = i /\ OtherLine(s, e, a, i)
      BY <2>1, ValuedIsLine
    <3>2. QED
      BY <1>2, <2>1, <2>2, <3>1 DEF HeaderShape
  <2>3. CASE q = "header_value" /\ s[i + 1] \in Text
    <3>1. Valued(s, e, a, i + 1) /\ NoCR(s, a, i + 1)
      BY <1>3, <2>1, <2>3, ValuedGrows, Classes
    <3>2. QED
      BY <2>1, <2>3, <3>1 DEF HeaderShape
  <2>4. QED
    BY <1>7, <2>2, <2>3 DEF LineStart, HeaderLine
<1>8. CASE p = "header_lws"
  <2>1. i >= a /\ a # e + 2 /\ All(s, a, i, Blank)
    BY <1>8 DEF HeaderShape
  <2>2. CASE q = "expecting_newline_2" /\ s[i + 1] = "CR"
    <3>1. (i + 1) - 1 = i /\ OtherLine(s, e, a, i)
      BY <2>1 DEF OtherLine, Continued, All
    <3>2. QED
      BY <1>2, <2>1, <2>2, <3>1 DEF HeaderShape
  <2>3. CASE q = "header_lws" /\ s[i + 1] \in Blank
    <3>1. NoCR(s, a, i + 1) /\ All(s, a, i + 1, Blank)
      BY <1>1, <1>3, <2>1, <2>3, Classes DEF All
    <3>2. QED
      BY <2>1, <2>3, <3>1 DEF HeaderShape
  <2>4. CASE q = "header_value" /\ s[i + 1] \in Text \ Blank
    <3>1. All(s, i + 2, i + 1, Text) /\ i \in a..((i + 1) - 1)
      BY <2>1, <2>4 DEF All
    <3>2. Valued(s, e, a, i + 1) /\ NoCR(s, a, i + 1)
      BY <1>3, <2>1, <2>4, <3>1, Classes DEF Valued
    <3>3. QED
      BY <2>1, <2>4, <3>2 DEF HeaderShape
  <2>5. QED
    BY <1>8, <2>2, <2>3, <2>4 DEF LineStart, HeaderLine
<1>9. QED
  BY <1>4, <1>5, <1>6, <1>7, <1>8 DEF LineStart, HeaderLine

(* A line that is ended by the CR at i has been read.                      *)
LEMMA LineDone ==
  ASSUME NEW s, NEW i \in Nat, NEW e \in 1..i, NEW a \in 1..(i + 1), Done(s, e, a),
         HeaderShape(s, i, "expecting_newline_2", e, a), s[i + 1] = "LF"
  PROVE  Done(s, e, i + 2)
<1>1. i > a /\ s[i] = "CR" /\ NoCR(s, a, i - 1) /\ OtherLine(s, e, a, i - 1)
  BY DEF HeaderShape
<1>2. a >= e + 2 /\ End(s, a - 2)
  BY DEF Done
<1>3. s[a - 2] = "CR" /\ s[a - 1] = "LF"
  BY <1>2 DEF End
<1>4. ASSUME NEW x \in (e + 2)..((i + 2) - 1), NEW y \in x..((i + 2) - 2),
             End(s, x - 2), End(s, y), \A z \in x..(y - 1) : ~End(s, z)
      PROVE  OtherLine(s, e, x, y - 1)
  <2>1. s[y] = "CR" /\ s[x - 2] = "CR" /\ s[x - 1] = "LF"
    BY <1>4 DEF End
  <2>2. CASE y <= a - 2
    <3>1. x \in (e + 2)..(a - 1) /\ y \in x..(a - 2)
      BY <2>2
    <3>2. QED
      BY <1>4, <3>1 DEF Done
  <2>3. y > a - 2 => y = i
    <3>1. y # a - 1
      BY <1>3, <2>1
    <3>2. ~(y \in a..(i - 1))
      BY <1>1, <2>1 DEF NoCR
    <3>3. QED
      BY <3>1, <3>2
  <2>4. CASE y = i
    <3>1. ~(a - 2 \in x..(y - 1))
      BY <1>2, <1>4
    <3>2. x # a - 1
      BY <1>3, <2>1
    <3>3. ~(x - 2 \in a..(i - 1))
      BY <1>1, <2>1 DEF NoCR
    <3>4. x # a + 1
      BY <1>3, <2>1
    <3>5. x = a
      BY <1>1, <1>2, <2>4, <3>1, <3>2, <3>3, <3>4
    <3>6. QED
      BY <1>1, <2>4, <3>5
  <2>5. QED
    BY <2>2, <2>3, <2>4
<1>5. End(s, (i + 2) - 2) /\ i + 2 >= e + 2
  BY <1>1 DEF End
<1>6. QED
  BY <1>4, <1>5 DEF Done

FirstLineStates ==
    {"method_start", "method", "uri", "http_version_h", "http_version_t_1",
     "http_version_t_2", "http_version_p", "http_version_slash",
     "http_version_major_start", "http_version_major", "http_version_minor_start",
     "http_version_minor", "expecting_newline_1"}

LEMMA Parts ==
  ASSUME NEW p, NEW c, NEW q
  PROVE  /\ RequestLine(p, c, q) \/ VersionName(p, c, q) \/ VersionNumber(p, c, q)
            => /\ p \in FirstLineStates
               /\ q \in (FirstLineStates \ {"method_start"}) \cup {"header_line_start"}
               /\ q = "header_line_start" => p = "expecting_newline_1" /\ c = "LF"
         /\ \A b : LineStart(p, c, q, b) \/ HeaderLine(p, c, q)
            => /\ p \in State \ FirstLineStates
               /\ q \in (State \ FirstLineStates) \cup {"good"}
               /\ q = "header_line_start" => p = "expecting_newline_2" /\ c = "LF"
               /\ q = "good" => p = "expecting_newline_3" /\ c = "LF"
         /\ \A s, i : LineShape(s, i, p) => p \in FirstLineStates
         /\ \A s, i, e, a : HeaderShape(s, i, p, e, a) => p \in State \ FirstLineStates
<1>1. RequestLine(p, c, q) => p \in FirstLineStates /\ q \in FirstLineStates \ {"method_start"}
  BY DEF RequestLine, FirstLineStates
<1>2. VersionName(p, c, q) => p \in FirstLineStates /\ q \in FirstLineStates \ {"method_start"}
  BY DEF VersionName, FirstLineStates
<1>3. VersionNumber(p, c, q)
        => /\ p \in FirstLineStates
           /\ q \in (FirstLineStates \ {"method_start"}) \cup {"header_line_start"}
           /\ q = "header_line_start" => p = "expecting_newline_1" /\ c = "LF"
  BY DEF VersionNumber, FirstLineStates
<1>4. \A b : LineStart(p, c, q, b)
            => /\ p \in State \ FirstLineStates
               /\ q \in (State \ FirstLineStates) \ {"header_line_start"}
  BY DEF LineStart, FirstLineStates, State
<1>5. HeaderLine(p, c, q)
            => /\ p \in State \ FirstLineStates
               /\ q \in (State \ FirstLineStates) \cup {"good"}
               /\ q = "header_line_start" => p = "expecting_newline_2" /\ c = "LF"
               /\ q = "good" => p = "expecting_newline_3" /\ c = "LF"
  BY DEF HeaderLine, FirstLineStates, State
<1>6. \A s, i : LineShape(s, i, p) => p \in FirstLineStates
  BY DEF LineShape, InVersion, FirstLineStates
<1>7. \A s, i, e, a : HeaderShape(s, i, p, e, a) => p \in State \ FirstLineStates
  BY DEF HeaderShape, FirstLineStates, State
<1>8. "header_line_start" \notin FirstLineStates /\ "good" \notin State
  BY DEF FirstLineStates, State
<1>9. QED
  BY <1>1, <1>2, <1>3, <1>4, <1>5, <1>6, <1>7, <1>8

(* Every character that leads on from a state leads to the shape of the    *)
(* next.                                                                   *)
LEMMA ShapeLeads ==
  ASSUME NEW s, NEW i \in Nat, s[i + 1] \in Char, NEW p \in State, NEW h \in Seq(Header),
         Shape(s, i, p, h), NEW q \in State, Leads(p, s[i + 1], q, h),
         NEW k, k = Collect(p, s[i + 1], q, h)
  PROVE  Shape(s, i + 1, q, k) /\ k \in Seq(Header)
<1>1. q # "good"
  BY DEF State
<1>2. CASE LineShape(s, i, p) /\ h = <<>>
  <2>1. RequestLine(p, s[i + 1], q) \/ VersionName(p, s[i + 1], q) \/ VersionNumber(p, s[i + 1], q)
    BY <1>2, Parts DEF Leads
  <2>2. k = h
    <3>1. q # "header_name" /\ q # "header_value"
      BY <2>1, Parts DEF FirstLineStates
    <3>2. QED
      BY <3>1 DEF Collect
  <2>3. CASE q = "header_line_start"
    <3>1. p = "expecting_newline_1" /\ s[i + 1] = "LF"
      BY <2>1, <2>3, Parts
    <3>2. InHeaders(s, i + 1, q, k)
      BY <1>2, <2>2, <2>3, <3>1, FirstLineDone
    <3>3. QED
      BY <2>2, <3>2 DEF Shape
  <2>4. CASE q # "header_line_start"
    <3>1. LineShape(s, i + 1, q)
      BY <1>2, <2>1, <2>4, RequestLineShapes, VersionShapes
    <3>2. QED
      BY <1>2, <2>2, <3>1 DEF Shape
  <2>5. QED
    BY <2>3, <2>4
<1>3. CASE InHeaders(s, i, p, h)
  <2>1. PICK e \in 1..i : \E a \in 1..(i + 1) :
            Done(s, e, a) /\ HeaderShape(s, i, p, e, a) /\ Headed(p, e, a, h)
    BY <1>3 DEF InHeaders
  <2>2. PICK a \in 1..(i + 1) :
            Done(s, e, a) /\ HeaderShape(s, i, p, e, a) /\ Headed(p, e, a, h)
    BY <2>1
  <2>3. LineStart(p, s[i + 1], q, h = <<>>) \/ HeaderLine(p, s[i + 1], q)
    BY <2>2, Parts DEF Leads
  <2>4. p \in InHeader => h # <<>>
    BY <2>2 DEF Headed
  <2>5. /\ k \in Seq(Header)
        /\ k = <<>> <=> h = <<>> /\ ~(p # "header_name" /\ q = "header_name")
    BY <2>4, Collects
  <2>6. a >= e + 2
    BY <2>2 DEF Done
  <2>7. CASE q = "header_line_start"
    <3>1. p = "expecting_newline_2" /\ s[i + 1] = "LF"
      BY <2>3, <2>7 DEF LineStart, HeaderLine
    <3>2. Done(s, e, i + 2) /\ i > a
      BY <2>2, <3>1, LineDone DEF HeaderShape
    <3>3. HeaderShape(s, i + 1, q, e, i + 2)
      BY <2>7 DEF HeaderShape, NoCR
    <3>4. Headed(q, e, i + 2, k)
      <4>1. k # <<>>
        BY <2>4, <2>5, <3>1 DEF InHeader
      <4>2. i + 2 # e + 2
        BY <2>6, <3>2
      <4>3. q \notin InHeader
        BY <2>7 DEF InHeader
      <4>4. QED
        BY <4>1, <4>2, <4>3 DEF Headed
    <3>5. e \in 1..(i + 1) /\ i + 2 \in 1..((i + 1) + 1)
      OBVIOUS
    <3>6. QED
      BY <2>5, <3>2, <3>3, <3>4, <3>5 DEF InHeaders, Shape
  <2>8. CASE q # "header_line_start"
    <3>1. HeaderShape(s, i + 1, q, e, a)
      BY <1>1, <2>2, <2>3, <2>6, <2>8, LineGrows
    <3>2. Headed(q, e, a, k)
      BY <2>2, <2>3, <2>5, <2>8 DEF Headed, InHeader, LineStart, HeaderLine
    <3>3. e \in 1..(i + 1) /\ a \in 1..((i + 1) + 1)
      OBVIOUS
    <3>4. QED
      BY <2>2, <2>5, <3>1, <3>2, <3>3 DEF InHeaders, Shape
  <2>9. QED
    BY <2>7, <2>8
<1>4. QED
  BY <1>2, <1>3 DEF Shape

-----------------------------------------------------------------------------
(* A shape is told by the first i characters.                              *)

LEMMA SameFirstLine ==
  ASSUME NEW s, NEW t, NEW e \in Nat, \A j \in 1..(e - 1) : s[j] = t[j], FirstLine(s, e)
  PROVE  FirstLine(t, e)
<1>1. PICK m \in 1..(e - 2) : \E k, d \in 1..(e - 2) :
        UriFrom(s, m, k - 1) /\ s[k] = "SP" /\ Name(s, k) /\ Number(s, k, d, e - 1)
  BY DEF FirstLine
<1>2. PICK k \in 1..(e - 2) : \E d \in 1..(e - 2) :
        UriFrom(s, m, k - 1) /\ s[k] = "SP" /\ Name(s, k) /\ Number(s, k, d, e - 1)
  BY <1>1
<1>3. PICK d \in 1..(e - 2) :
        UriFrom(s, m, k - 1) /\ s[k] = "SP" /\ Name(s, k) /\ Number(s, k, d, e - 1)
  BY <1>2
<1>4. UriFrom(t, m, k - 1) /\ t[k] = "SP"
  BY <1>3 DEF UriFrom, All
<1>5. Name(t, k) /\ Number(t, k, d, e - 1)
  BY <1>3 DEF Name, Number
<1>6. QED
  BY <1>4, <1>5 DEF FirstLine

LEMMA SameOtherLine ==
  ASSUME NEW s, NEW t, NEW e \in Nat, NEW a \in Nat, NEW b \in Nat,
         \A j \in a..b : s[j] = t[j], OtherLine(s, e, a, b)
  PROVE  OtherLine(t, e, a, b)
<1>1. CASE Field(s, a, b)
  <2>1. PICK n \in (a + 1)..(b - 1) :
            /\ All(s, a, n - 1, Token) /\ s[n] = ":" /\ s[n + 1] = "SP"
            /\ All(s, n + 2, b, Text)
    BY <1>1 DEF Field
  <2>2. All(t, a, n - 1, Token) /\ t[n] = ":" /\ t[n + 1] = "SP" /\ All(t, n + 2, b, Text)
    BY <2>1 DEF All
  <2>3. QED
    BY <2>2 DEF Field, OtherLine
<1>2. CASE a # e + 2 /\ Continued(s, a, b)
  <2>1. PICK n \in a..b : All(s, a, n, Blank) /\ All(s, n + 1, b, Text)
    BY <1>2 DEF Continued
  <2>2. All(t, a, n, Blank) /\ All(t, n + 1, b, Text)
    BY <2>1 DEF All
  <2>3. QED
    BY <1>2, <2>2 DEF Continued, OtherLine
<1>3. QED
  BY <1>1, <1>2 DEF OtherLine

LEMMA SameValued ==
  ASSUME NEW s, NEW t, NEW e \in Nat, NEW a \in Nat, NEW b \in Nat,
         \A j \in a..b : s[j] = t[j], Valued(s, e, a, b)
  PROVE  Valued(t, e, a, b)
<1>1. CASE Field(s, a, b)
  <2>1. PICK n \in (a + 1)..(b - 1) :
            /\ All(s, a, n - 1, Token) /\ s[n] = ":" /\ s[n + 1] = "SP"
            /\ All(s, n + 2, b, Text)
    BY <1>1 DEF Field
  <2>2. All(t, a, n - 1, Token) /\ t[n] = ":" /\ t[n + 1] = "SP" /\ All(t, n + 2, b, Text)
    BY <2>1 DEF All
  <2>3. QED
    BY <2>2 DEF Field, Valued
<1>2. CASE a # e + 2 /\ ~Field(s, a, b)
  <2>1. PICK n \in a..(b - 1) :
            All(s, a, n, Blank) /\ s[n + 1] \in Text \ Blank /\ All(s, n + 2, b, Text)
    BY <1>2 DEF Valued
  <2>2. All(t, a, n, Blank) /\ t[n + 1] \in Text \ Blank /\ All(t, n + 2, b, Text)
    BY <2>1 DEF All
  <2>3. QED
    BY <1>2, <2>2 DEF Valued
<1>3. QED
  BY <1>1, <1>2 DEF Valued

LEMMA SameDone ==
  ASSUME NEW s, NEW t, NEW e \in Nat, NEW a \in Nat, \A j \in 1..(a - 1) : s[j] = t[j],
         e >= 1, Done(s, e, a)
  PROVE  Done(t, e, a)
<1>1. /\ FirstLine(s, e) /\ NoCR(s, 1, e - 1) /\ End(s, e)
      /\ a >= e + 2 /\ End(s, a - 2)
  BY DEF Done
<1>2. \A z \in 1..(a - 2) : End(s, z) <=> End(t, z)
  BY <1>1 DEF End
<1>3. FirstLine(t, e) /\ NoCR(t, 1, e - 1)
  BY <1>1, SameFirstLine DEF NoCR
<1>4. End(t, e) /\ End(t, a - 2)
  BY <1>1, <1>2
<1>5. ASSUME NEW x \in (e + 2)..(a - 1), NEW y \in x..(a - 2),
             End(t, x - 2), End(t, y), \A z \in x..(y - 1) : ~End(t, z)
      PROVE  OtherLine(t, e, x, y - 1)
  <2>1. End(s, x - 2) /\ End(s, y)
    BY <1>1, <1>2, <1>5
  <2>2. \A z \in x..(y - 1) : ~End(s, z)
    BY <1>1, <1>2, <1>5
  <2>3. OtherLine(s, e, x, y - 1)
    BY <2>1, <2>2 DEF Done
  <2>4. x \in Nat /\ y - 1 \in Nat /\ \A j \in x..(y - 1) : s[j] = t[j]
    BY <1>1
  <2>5. QED
    BY <2>3, <2>4, SameOtherLine
<1>6. QED
  BY <1>1, <1>3, <1>4, <1>5 DEF Done

LEMMA SameLineShape ==
  ASSUME NEW s, NEW t, NEW i \in Nat, \A j \in 1..i : s[j] = t[j],
         NEW q, LineShape(s, i, q)
  PROVE  LineShape(t, i, q)
<1>1. CASE NoCR(s, 1, i)
  <2>1. NoCR(t, 1, i)
    BY <1>1 DEF NoCR
  <2>2. CASE q \in {"method_start", "method"}
    BY <1>1, <2>1, <2>2 DEF LineShape, All, InVersion
  <2>3. CASE q = "uri"
    <3>1. PICK m \in 1..i : UriFrom(s, m, i)
      BY <2>3 DEF LineShape, InVersion
    <3>2. UriFrom(t, m, i)
      BY <3>1 DEF UriFrom, All
    <3>3. QED
      BY <2>1, <2>3, <3>2 DEF LineShape
  <2>4. CASE \E m, k \in 1..i : UriFrom(s, m, k - 1) /\ s[k] = "SP" /\ InVersion(s, k, i, q)
    <3>1. PICK m \in 1..i : \E k \in 1..i :
            UriFrom(s, m, k - 1) /\ s[k] = "SP" /\ InVersion(s, k, i, q)
      BY <2>4
    <3>2. PICK k \in 1..i : UriFrom(s, m, k - 1) /\ s[k] = "SP" /\ InVersion(s, k, i, q)
      BY <3>1
    <3>3. UriFrom(t, m, k - 1) /\ t[k] = "SP"
      BY <3>2 DEF UriFrom, All
    <3>4. i >= k + 5 /\ Name(s, k) => Name(t, k)
      BY DEF Name
    <3>5. \A d \in 1..i : Number(s, k, d, i) => Number(t, k, d, i)
      BY DEF Number
    <3>6. InVersion(t, k, i, q)
      BY <3>2, <3>4, <3>5 DEF InVersion, All, Number
    <3>7. QED
      BY <2>1, <3>3, <3>6 DEF LineShape
  <2>5. ~(i >= 1 /\ s[i] = "CR")
    BY <1>1 DEF NoCR
  <2>6. QED
    BY <2>2, <2>3, <2>4, <2>5 DEF LineShape
<1>2. CASE ~NoCR(s, 1, i)
  <2>1. q = "expecting_newline_1" /\ i >= 1 /\ s[i] = "CR" /\ NoCR(s, 1, i - 1) /\ FirstLine(s, i)
    BY <1>2 DEF LineShape
  <2>2. t[i] = "CR" /\ NoCR(t, 1, i - 1) /\ FirstLine(t, i)
    BY <2>1, SameFirstLine DEF NoCR
  <2>3. QED
    BY <2>1, <2>2 DEF LineShape
<1>3. QED
  BY <1>1, <1>2

LEMMA SameShape ==
  ASSUME NEW s, NEW t, NEW i \in Nat, \A j \in 1..i : s[j] = t[j],
         NEW q, NEW h, Shape(s, i, q, h)
  PROVE  Shape(t, i, q, h)
<1>1. CASE LineShape(s, i, q) /\ h = <<>>
  BY <1>1, SameLineShape DEF Shape
<1>2. CASE InHeaders(s, i, q, h)
  <2>1. PICK e \in 1..i : \E a \in 1..(i + 1) :
            Done(s, e, a) /\ HeaderShape(s, i, q, e, a) /\ Headed(q, e, a, h)
    BY <1>2 DEF InHeaders
  <2>2. PICK a \in 1..(i + 1) :
            Done(s, e, a) /\ HeaderShape(s, i, q, e, a) /\ Headed(q, e, a, h)
    BY <2>1
  <2>3. a >= e + 2
    BY <2>2 DEF Done
  <2>4. Done(t, e, a)
    BY <2>2, <2>3, SameDone
  <2>5. HeaderShape(t, i, q, e, a)
    <3>1. \A b \in a..i : NoCR(s, a, b) => NoCR(t, a, b)
      BY DEF NoCR
    <3>2. \A b \in a..i : OtherLine(s, e, a, b) => OtherLine(t, e, a, b)
      BY SameOtherLine
    <3>3. i \in a..i /\ Valued(s, e, a, i) => Valued(t, e, a, i)
      BY SameValued
    <3>4. CASE i >= a
      <4>1. i \in a..i /\ s[i] = t[i] /\ (i > a => i - 1 \in a..i)
        BY <2>3, <3>4
      <4>2. /\ All(s, a, i, Token) => All(t, a, i, Token)
            /\ All(s, a, i - 1, Token) => All(t, a, i - 1, Token)
            /\ All(s, a, i, Blank) => All(t, a, i, Blank)
        BY DEF All
      <4>3. QED
        BY <2>2, <3>1, <3>2, <3>4, <3>3, <4>1, <4>2 DEF HeaderShape
    <3>5. CASE i < a
      <4>1. q = "header_line_start" /\ i = a - 1
        BY <2>2, <3>5 DEF HeaderShape
      <4>2. QED
        BY <3>5, <4>1 DEF HeaderShape, NoCR
    <3>6. QED
      BY <3>4, <3>5
  <2>6. QED
    BY <2>2, <2>4, <2>5 DEF InHeaders, Shape
<1>3. QED
  BY <1>1, <1>2 DEF Shape

-----------------------------------------------------------------------------
(* The lines of a head, told by their places in it.                        *)

LEMMA PartOf ==
  ASSUME NEW S, NEW s \in Seq(S), NEW m \in Nat \ {0}, NEW n \in Nat, n <= Len(s), m <= n + 1,
         NEW l, l = SubSeq(s, m, n)
  PROVE  /\ l \in Seq(S) /\ Len(l) = n - m + 1
         /\ \A j \in 1..(n - m + 1) : l[j] = s[m + j - 1]
<1>1. Len(s) \in Nat
  BY LenProperties
<1>2. \A j \in m..n : s[j] \in S
  BY <1>1, ElementOfSeq
<1>3. QED
  BY <1>2, SubSeqProperties

LEMMA PrefixOf ==
  ASSUME NEW S, NEW s \in Seq(S), NEW n \in Nat, n <= Len(s), NEW l, l = SubSeq(s, 1, n)
  PROVE  l \in Seq(S) /\ Len(l) = n /\ \A j \in 1..n : l[j] = s[j]
<1>1. 1 \in Nat \ {0} /\ 1 <= n + 1 /\ n - 1 + 1 = n /\ \A j \in 1..n : 1 + j - 1 = j
  OBVIOUS
<1>2. l \in Seq(S) /\ Len(l) = n - 1 + 1 /\ \A j \in 1..(n - 1 + 1) : l[j] = s[1 + j - 1]
  BY <1>1, PartOf
<1>3. QED
  BY <1>1, <1>2

LEMMA FieldPlaces ==
  ASSUME NEW s \in Seq(Char), NEW x \in Nat \ {0}, NEW y \in Nat, y <= Len(s), x <= y
  PROVE  IsField(SubSeq(s, x, y - 1)) <=> Field(s, x, y - 1)
<1> DEFINE l == SubSeq(s, x, y - 1)
<1>1. /\ Len(l) = y - x
      /\ \A j \in 1..(y - x) : l[j] = s[x + j - 1]
  <2>1. Len(s) \in Nat /\ y - 1 \in Nat /\ y - 1 <= Len(s) /\ x <= (y - 1) + 1
    BY LenProperties
  <2>2. QED
    BY <2>1, PartOf
<1>2. \A j \in x..(y - 1) : l[j - x + 1] = s[j]
  <2>1. \A j \in x..(y - 1) : j - x + 1 \in 1..(y - x) /\ x + (j - x + 1) - 1 = j
    OBVIOUS
  <2>2. QED
    BY <1>1, <2>1
<1> HIDE DEF l
<1>3. ASSUME IsField(l) PROVE Field(s, x, y - 1)
  <2>1. PICK i \in 2..(Len(l) - 1) :
            /\ \A j \in 1..(i - 1) : l[j] \in Token
            /\ l[i] = ":" /\ l[i + 1] = "SP"
            /\ \A j \in (i + 2)..Len(l) : l[j] \in Text
    BY <1>3 DEF IsField
  <2>2. PICK n \in (x + 1)..(y - 2) : n = x + i - 1
    BY <1>1, <2>1
  <2>3. s[n] = ":" /\ s[n + 1] = "SP"
    BY <1>1, <2>1, <2>2
  <2>4. ASSUME NEW j \in x..(n - 1) PROVE s[j] \in Token
    <3>1. j - x + 1 \in 1..(i - 1) /\ j \in x..(y - 1)
      BY <2>2, <2>4
    <3>2. QED
      BY <1>2, <2>1, <3>1
  <2>5. ASSUME NEW j \in (n + 2)..(y - 1) PROVE s[j] \in Text
    <3>1. j - x + 1 \in (i + 2)..Len(l) /\ j \in x..(y - 1)
      BY <1>1, <2>2, <2>5
    <3>2. QED
      BY <1>2, <2>1, <3>1
  <2>6. n \in (x + 1)..((y - 1) - 1)
    BY <2>2
  <2>7. QED
    BY <2>3, <2>4, <2>5, <2>6 DEF Field, All
<1>4. ASSUME Field(s, x, y - 1) PROVE IsField(l)
  <2>1. PICK n \in (x + 1)..((y - 1) - 1) :
            /\ All(s, x, n - 1, Token) /\ s[n] = ":" /\ s[n + 1] = "SP"
            /\ All(s, n + 2, y - 1, Text)
    BY <1>4 DEF Field
  <2>2. PICK i \in 2..(Len(l) - 1) : i = n - x + 1
    BY <1>1, <2>1
  <2>3. n \in x..(y - 1) /\ n + 1 \in x..(y - 1) /\ (n + 1) - x + 1 = i + 1
    BY <2>1, <2>2
  <2>4. l[i] = ":" /\ l[i + 1] = "SP"
    BY <1>2, <2>1, <2>2, <2>3
  <2>5. ASSUME NEW j \in 1..(i - 1) PROVE l[j] \in Token
    <3>1. x + j - 1 \in x..(n - 1) /\ j \in 1..(y - x)
      BY <2>1, <2>2, <2>5
    <3>2. QED
      BY <1>1, <2>1, <3>1 DEF All
  <2>6. ASSUME NEW j \in (i + 2)..Len(l) PROVE l[j] \in Text
    <3>1. x + j - 1 \in (n + 2)..(y - 1) /\ j \in 1..(y - x)
      BY <1>1, <2>1, <2>2, <2>6
    <3>2. QED
      BY <1>1, <2>1, <3>1 DEF All
  <2>7. QED
    BY <2>4, <2>5, <2>6 DEF IsField
<1>5. QED
  BY <1>3, <1>4 DEF l

LEMMA ContinuationPlaces ==
  ASSUME NEW s \in Seq(Char), NEW x \in Nat \ {0}, NEW y \in Nat, y <= Len(s), x <= y
  PROVE  IsContinuation(SubSeq(s, x, y - 1)) <=> Continued(s, x, y - 1)
<1> DEFINE l == SubSeq(s, x, y - 1)
<1>1. /\ Len(l) = y - x
      /\ \A j \in 1..(y - x) : l[j] = s[x + j - 1]
  <2>1. Len(s) \in Nat /\ y - 1 \in Nat /\ y - 1 <= Len(s) /\ x <= (y - 1) + 1
    BY LenProperties
  <2>2. QED
    BY <2>1, PartOf
<1>2. \A j \in x..(y - 1) : j - x + 1 \in 1..(y - x) /\ l[j - x + 1] = s[j]
  <2>1. \A j \in x..(y - 1) : j - x + 1 \in 1..(y - x) /\ x + (j - x + 1) - 1 = j
    OBVIOUS
  <2>2. QED
    BY <1>1, <2>1
<1> HIDE DEF l
<1>3. ASSUME IsContinuation(l) PROVE Continued(s, x, y - 1)
  <2>1. PICK i \in 1..Len(l) : /\ \A j \in 1..i : l[j] \in Blank
                               /\ \A j \in (i + 1)..Len(l) : l[j] \in Text
    BY <1>3 DEF IsContinuation
  <2>2. PICK n \in x..(y - 1) : n = x + i - 1
    BY <1>1, <2>1
  <2>3. ASSUME NEW j \in x..n PROVE s[j] \in Blank
    <3>1. j - x + 1 \in 1..i /\ j \in x..(y - 1)
      BY <2>2, <2>3
    <3>2. QED
      BY <1>2, <2>1, <3>1
  <2>4. ASSUME NEW j \in (n + 1)..(y - 1) PROVE s[j] \in Text
    <3>1. j - x + 1 \in (i + 1)..Len(l) /\ j \in x..(y - 1)
      BY <1>1, <2>2, <2>4
    <3>2. QED
      BY <1>2, <2>1, <3>1
  <2>5. QED
    BY <2>3, <2>4 DEF Continued, All
<1>4. ASSUME Continued(s, x, y - 1) PROVE IsContinuation(l)
  <2>1. PICK n \in x..(y - 1) : All(s, x, n, Blank) /\ All(s, n + 1, y - 1, Text)
    BY <1>4 DEF Continued
  <2>2. PICK i \in 1..Len(l) : i = n - x + 1
    BY <1>1, <2>1
  <2>3. ASSUME NEW j \in 1..i PROVE l[j] \in Blank
    <3>1. x + j - 1 \in x..n /\ j \in 1..(y - x)
      BY <2>1, <2>2, <2>3
    <3>2. QED
      BY <1>1, <2>1, <3>1 DEF All
  <2>4. ASSUME NEW j \in (i + 1)..Len(l) PROVE l[j] \in Text
    <3>1. x + j - 1 \in (n + 1)..(y - 1) /\ j \in 1..(y - x)
      BY <1>1, <2>1, <2>2, <2>4
    <3>2. QED
      BY <1>1, <2>1, <3>1 DEF All
  <2>5. QED
    BY <2>3, <2>4 DEF IsContinuation
<1>5. QED
  BY <1>3, <1>4 DEF l

LEMMA RequestLinePlaces ==
  ASSUME NEW s \in Seq(Char), NEW e \in Nat \ {0}, e <= Len(s)
  PROVE  IsRequestLine(SubSeq(s, 1, e - 1)) <=> FirstLine(s, e)
<1> DEFINE l == SubSeq(s, 1, e - 1)
<1>1. /\ l \in Seq(Char) /\ Len(l) = e - 1
      /\ \A j \in 1..(e - 1) : l[j] = s[j]
  <2>1. Len(s) \in Nat /\ e - 1 \in Nat /\ e - 1 <= Len(s)
    BY LenProperties
  <2>2. QED
    BY <2>1, PrefixOf
<1> HIDE DEF l
<1>2. ASSUME NEW k \in Nat, k + 8 <= Len(l)
      PROVE  SubSeq(l, k + 1, k + 5) = <<"H", "T", "T", "P", "/">> <=> Name(s, k)
  <2> DEFINE n == SubSeq(l, k + 1, k + 5)
  <2>1. n \in Seq(Char) /\ Len(n) = 5 /\ \A j \in 1..5 : n[j] = l[k + j]
    <3>1. k + 1 \in Nat \ {0} /\ k + 5 \in Nat /\ k + 5 <= Len(l) /\ k + 1 <= (k + 5) + 1
      BY <1>1, <1>2
    <3>2. \A j \in 1..5 : (k + 1) + j - 1 = k + j
      OBVIOUS
    <3>3. (k + 5) - (k + 1) + 1 = 5
      OBVIOUS
    <3>4. QED
      BY <1>1, <3>1, <3>2, <3>3, PartOf
  <2>2. n = [j \in 1..5 |-> n[j]]
    BY <2>1, LenProperties
  <2> HIDE DEF n
  <2>3. ASSUME NEW j \in 1..5 PROVE n[j] = s[k + j]
    <3>1. k + j \in 1..(e - 1)
      BY <1>1, <1>2
    <3>2. QED
      BY <1>1, <2>1, <3>1
  <2>4. n = <<"H", "T", "T", "P", "/">>
        <=> n[1] = "H" /\ n[2] = "T" /\ n[3] = "T" /\ n[4] = "P" /\ n[5] = "/"
    BY <2>2
  <2>5. QED
    BY <2>3, <2>4 DEF Name, n
<1>3. ASSUME IsRequestLine(l) PROVE FirstLine(s, e)
  <2>1. PICK m, k \in 1..Len(l) :
            /\ m < k /\ l[m] = "SP" /\ l[k] = "SP"
            /\ m > 1 /\ \A j \in 1..(m - 1) : l[j] \in Token
            /\ \A j \in (m + 1)..(k - 1) : l[j] \in Text \ {"SP"}
            /\ k + 8 <= Len(l)
            /\ SubSeq(l, k + 1, k + 5) = <<"H", "T", "T", "P", "/">>
            /\ \E d \in (k + 7)..(Len(l) - 1) :
                /\ l[d] = "."
                /\ \A j \in (k + 6)..Len(l) : j # d => l[j] = "digit"
    BY <1>3, Zenon DEF IsRequestLine
  <2>2. PICK d \in (k + 7)..(Len(l) - 1) :
            l[d] = "." /\ \A j \in (k + 6)..Len(l) : j # d => l[j] = "digit"
    BY <2>1
  <2>3. m \in 1..(e - 2) /\ k \in 1..(e - 2) /\ d \in 1..(e - 2) /\ m < k /\ m > 1
    BY <1>1, <2>1, <2>2
  <2>4. Name(s, k) /\ s[k] = "SP"
    BY <1>1, <1>2, <2>1, <2>3
  <2>5. UriFrom(s, m, k - 1)
    <3>1. /\ l[m] = "SP" /\ \A j \in 1..(m - 1) : l[j] \in Token
          /\ \A j \in (m + 1)..(k - 1) : l[j] \in Text \ {"SP"}
      BY <2>1
    <3>2. /\ \A j \in 1..(m - 1) : l[j] = s[j]
          /\ \A j \in (m + 1)..(k - 1) : l[j] = s[j]
          /\ l[m] = s[m] /\ m \in 2..(k - 1)
      BY <1>1, <2>3
    <3>3. QED
      BY <3>1, <3>2 DEF UriFrom, All
  <2>6. Number(s, k, d, e - 1)
    <3>1. \A j \in (k + 6)..(e - 1) : l[j] = s[j]
      BY <1>1, <2>3
    <3>2. d \in (k + 7)..(e - 1) /\ k \in Nat
      BY <1>1, <2>2, <2>3
    <3>3. QED
      BY <1>1, <2>2, <3>1, <3>2 DEF Number
  <2>7. QED
    BY <2>3, <2>4, <2>5, <2>6 DEF FirstLine
<1>4. ASSUME FirstLine(s, e) PROVE IsRequestLine(l)
  <2>1. PICK m, k, d \in 1..(e - 2) :
            UriFrom(s, m, k - 1) /\ s[k] = "SP" /\ Name(s, k) /\ Number(s, k, d, e - 1)
    BY <1>4, Zenon DEF FirstLine
  <2>2. d \in (k + 7)..(e - 1) /\ d <= e - 2 /\ m >= 2 /\ m < k
    BY <2>1 DEF Number, UriFrom
  <2>3. k + 8 <= Len(l) /\ SubSeq(l, k + 1, k + 5) = <<"H", "T", "T", "P", "/">>
    BY <1>1, <1>2, <2>1, <2>2
  <2>4. d \in (k + 7)..(Len(l) - 1) /\ l[d] = "."
        /\ \A j \in (k + 6)..Len(l) : j # d => l[j] = "digit"
    BY <1>1, <2>1, <2>2 DEF Number
  <2>5. /\ l[m] = "SP" /\ l[k] = "SP"
        /\ \A j \in 1..(m - 1) : l[j] \in Token
        /\ \A j \in (m + 1)..(k - 1) : l[j] \in Text \ {"SP"}
    BY <1>1, <2>1, <2>2 DEF UriFrom, All
  <2>6. m \in 1..Len(l) /\ k \in 1..Len(l)
    BY <1>1, <2>1
  <2>7. /\ m < k /\ l[m] = "SP" /\ l[k] = "SP"
        /\ m > 1 /\ \A j \in 1..(m - 1) : l[j] \in Token
        /\ \A j \in (m + 1)..(k - 1) : l[j] \in Text \ {"SP"}
        /\ k + 8 <= Len(l)
        /\ SubSeq(l, k + 1, k + 5) = <<"H", "T", "T", "P", "/">>
        /\ \E f \in (k + 7)..(Len(l) - 1) :
            /\ l[f] = "."
            /\ \A j \in (k + 6)..Len(l) : j # f => l[j] = "digit"
    <3>1. m > 1 /\ m < k
      BY <2>2
    <3>2. QED
      BY <2>3, <2>4, <2>5, <3>1, Zenon
  <2>8. QED
    BY <2>6, <2>7, Zenon DEF IsRequestLine
<1>5. QED
  BY <1>3, <1>4 DEF l

LEMMA LinesArePairs ==
  ASSUME NEW s \in Seq(Char)
  PROVE  /\ \A z : z \in Ends(s) <=> z \in 1..(Len(s) - 1) /\ End(s, z)
         /\ \A line \in Lines(s) :
                \E x, y \in Nat :
                    /\ line = <<x, y>> /\ x >= 1 /\ x <= y /\ y \in Ends(s)
                    /\ x = 1 \/ x - 2 \in Ends(s)
                    /\ \A z \in Ends(s) : ~(x <= z /\ z < y)
         /\ \A x, y \in Nat :
                /\ x <= y /\ y \in Ends(s)
                /\ x = 1 \/ x - 2 \in Ends(s)
                /\ \A z \in Ends(s) : ~(x <= z /\ z < y)
                => <<x, y>> \in Lines(s)
<1>1. Len(s) \in Nat
  BY LenProperties
<1>2. \A z : z \in Ends(s) <=> z \in 1..(Len(s) - 1) /\ End(s, z)
  BY DEF Ends, End
<1> DEFINE X == {1} \cup {e + 2 : e \in Ends(s)}
<1>3. \A x : x \in X <=> x = 1 \/ \E e \in Ends(s) : x = e + 2
  OBVIOUS
<1>4. Lines(s) = {line \in X \X Ends(s) :
            line[1] <= line[2] /\ \A e \in Ends(s) : ~(line[1] <= e /\ e < line[2])}
  BY DEF Lines
<1> HIDE DEF X
<1>5. ASSUME NEW line \in Lines(s)
      PROVE  \E x, y \in Nat :
                    /\ line = <<x, y>> /\ x >= 1 /\ x <= y /\ y \in Ends(s)
                    /\ x = 1 \/ x - 2 \in Ends(s)
                    /\ \A z \in Ends(s) : ~(x <= z /\ z < y)
  <2>1. PICK x \in X : \E y \in Ends(s) :
            line = <<x, y>> /\ x <= y /\ \A z \in Ends(s) : ~(x <= z /\ z < y)
    BY <1>4
  <2>2. PICK y \in Ends(s) :
            line = <<x, y>> /\ x <= y /\ \A z \in Ends(s) : ~(x <= z /\ z < y)
    BY <2>1
  <2>3. y \in Nat
    BY <1>1, <1>2
  <2>4. x \in Nat /\ x >= 1 /\ (x = 1 \/ x - 2 \in Ends(s))
    <3>1. CASE x = 1
      BY <3>1
    <3>2. CASE \E e \in Ends(s) : x = e + 2
      <4>1. PICK e \in Ends(s) : x = e + 2
        BY <3>2
      <4>2. e \in Nat /\ x - 2 = e
        BY <1>1, <1>2, <4>1
      <4>3. QED
        BY <4>1, <4>2
    <3>3. QED
      BY <1>3, <3>1, <3>2
  <2>5. QED
    BY <2>2, <2>3, <2>4
<1>6. ASSUME NEW x \in Nat, NEW y \in Nat, x <= y, y \in Ends(s), x = 1 \/ x - 2 \in Ends(s),
             \A z \in Ends(s) : ~(x <= z /\ z < y)
      PROVE  <<x, y>> \in Lines(s)
  <2>1. x \in X
    <3>1. x = (x - 2) + 2
      OBVIOUS
    <3>2. QED
      BY <1>3, <1>6, <3>1
  <2>2. QED
    BY <1>4, <1>6, <2>1
<1>7. QED
  BY <1>2, <1>5, <1>6

(* The lines of a head: the first, the last, and those between them.       *)
LEMMA DoneLines ==
  ASSUME NEW s \in Seq(Char), NEW e \in Nat \ {0}, NEW a \in Nat, Len(s) = a + 1,
         Done(s, e, a), End(s, a)
  PROVE  /\ <<1, e>> \in Lines(s) /\ <<a, a>> \in Lines(s)
         /\ \A line \in Lines(s) :
                \/ line = <<1, e>> \/ line = <<a, a>>
                \/ /\ line[1] \in (e + 2)..(a - 1) /\ line[2] \in (line[1] + 1)..(a - 2)
                   /\ OtherLine(s, e, line[1], line[2] - 1)
<1>1. /\ FirstLine(s, e) /\ a >= e + 2 /\ s[e] = "CR" /\ s[e + 1] = "LF"
      /\ s[a - 2] = "CR" /\ s[a - 1] = "LF" /\ s[a] = "CR" /\ s[a + 1] = "LF"
      /\ \A j \in 1..(e - 1) : s[j] # "CR"
  BY DEF Done, End, NoCR
<1>2. \A z : z \in Ends(s) <=> z \in 1..a /\ End(s, z)
  BY LinesArePairs
<1>3. e \in Ends(s) /\ a - 2 \in Ends(s) /\ a \in Ends(s) /\ e >= 3
  <2>1. e >= 3
    BY <1>1 DEF FirstLine
  <2>2. QED
    BY <1>1, <1>2, <2>1 DEF End
<1>4. \A z \in Ends(s) : z \in e..a /\ z # a - 1 /\ s[z] = "CR" /\ s[z + 1] = "LF"
  BY <1>1, <1>2 DEF End
<1>5. <<1, e>> \in Lines(s)
  <2>1. \A z \in Ends(s) : ~(1 <= z /\ z < e)
    BY <1>4
  <2>2. QED
    BY <1>3, <2>1, LinesArePairs
<1>6. <<a, a>> \in Lines(s)
  <2>1. \A z \in Ends(s) : ~(a <= z /\ z < a)
    BY <1>4
  <2>2. QED
    BY <1>3, <2>1, LinesArePairs
<1>7. ASSUME NEW line \in Lines(s)
      PROVE  \/ line = <<1, e>> \/ line = <<a, a>>
             \/ /\ line[1] \in (e + 2)..(a - 1) /\ line[2] \in (line[1] + 1)..(a - 2)
                /\ OtherLine(s, e, line[1], line[2] - 1)
  <2>1. PICK x, y \in Nat :
            /\ line = <<x, y>> /\ x >= 1 /\ x <= y /\ y \in Ends(s)
            /\ x = 1 \/ x - 2 \in Ends(s)
            /\ \A z \in Ends(s) : ~(x <= z /\ z < y)
    BY LinesArePairs
  <2>2. y \in e..a /\ y # a - 1
    BY <1>4, <2>1
  <2>3. ~(x <= e /\ e < y) /\ ~(x <= a - 2 /\ a - 2 < y)
    BY <1>3, <2>1
  <2>4. CASE x = 1
    BY <1>1, <2>1, <2>2, <2>3, <2>4
  <2>5. CASE x - 2 \in Ends(s)
    <3>1. x - 2 >= e /\ s[x - 1] = "LF" /\ s[y] = "CR"
      <4>1. (x - 2) + 1 = x - 1
        OBVIOUS
      <4>2. QED
        BY <1>4, <2>1, <2>5, <4>1
    <3>2. CASE y = a
      <4>1. x # a - 1
        BY <1>1, <1>4, <2>5
      <4>2. x = a
        BY <2>1, <2>3, <3>2, <4>1
      <4>3. QED
        BY <2>1, <3>2, <4>2
    <3>3. CASE y <= a - 2
      <4>1. x \in (e + 2)..(a - 1) /\ y \in x..(a - 2)
        BY <2>1, <3>1, <3>3
      <4>2. End(s, x - 2) /\ End(s, y)
        BY <1>2, <2>1, <2>5
      <4>3. \A z \in x..(y - 1) : ~End(s, z)
        BY <1>2, <2>1, <4>1
      <4>4. OtherLine(s, e, x, y - 1)
        BY <4>1, <4>2, <4>3 DEF Done
      <4>5. x # y
        BY <4>1, <4>4 DEF OtherLine, Field, Continued
      <4>6. QED
        BY <2>1, <4>1, <4>4, <4>5
    <3>4. QED
      BY <2>2, <3>2, <3>3
  <2>6. QED
    BY <2>1, <2>4, <2>5
<1>8. QED
  BY <1>5, <1>6, <1>7

LEMMA DoneIsHead ==
  ASSUME NEW s \in Seq(Char), NEW e \in Nat \ {0}, NEW a \in Nat, Len(s) = a + 1,
         Done(s, e, a), End(s, a)
  PROVE  IsHead(s)
<1> DEFINE first == {line \in Lines(s) : line[1] = 1}
           last == {line \in Lines(s) : line[1] = line[2]}
<1>1. a >= e + 2 /\ FirstLine(s, e) /\ e >= 3
  BY DEF Done, FirstLine
<1>2. last = {<<a, a>>} /\ first = {<<1, e>>}
  <2>1. <<1, e>> \in first /\ <<a, a>> \in last
    BY DoneLines
  <2>2. ASSUME NEW line \in Lines(s), line # <<1, e>>, line # <<a, a>>
        PROVE  line[1] # 1 /\ line[1] # line[2]
    <3>1. line[1] \in (e + 2)..(a - 1) /\ line[2] \in (line[1] + 1)..(a - 2)
      BY <2>2, DoneLines
    <3>2. QED
      BY <3>1
  <2>3. <<1, e>>[1] # <<1, e>>[2] /\ <<a, a>>[1] # 1
    BY <1>1
  <2>4. QED
    BY <2>1, <2>2, <2>3
<1>3. IsRequestLine(LineOf(s, <<1, e>>))
  BY <1>1, RequestLinePlaces DEF LineOf
<1>4. ASSUME NEW line \in Lines(s) \ (first \cup last)
      PROVE  \/ IsField(LineOf(s, line))
             \/ IsContinuation(LineOf(s, line)) /\ e + 2 # line[1]
  <2>1. PICK x \in (e + 2)..(a - 1) : \E y \in (x + 1)..(a - 2) :
            x = line[1] /\ y = line[2] /\ OtherLine(s, e, x, y - 1)
    BY <1>2, DoneLines
  <2>2. PICK y \in (x + 1)..(a - 2) :
            x = line[1] /\ y = line[2] /\ OtherLine(s, e, x, y - 1)
    BY <2>1
  <2>3. x \in Nat \ {0} /\ y \in Nat /\ y <= Len(s) /\ x <= y
    BY <1>1
  <2>4. QED
    BY <2>2, <2>3, FieldPlaces, ContinuationPlaces DEF OtherLine, LineOf
<1>5. Len(s) - 1 = a
  OBVIOUS
<1>6. \A f \in first : f[2] = e
  BY <1>2
<1>7. \E line \in first : IsRequestLine(LineOf(s, line))
  BY <1>2, <1>3
<1>8. QED
  <2>1. \A line \in Lines(s) \ (first \cup last) :
            \/ IsField(LineOf(s, line))
            \/ IsContinuation(LineOf(s, line)) /\ \A f \in first : f[2] + 2 # line[1]
    BY <1>4, <1>6
  <2>2. last = {<<Len(s) - 1, Len(s) - 1>>}
    BY <1>2, <1>5
  <2>3. QED
    BY <1>7, <2>1, <2>2, Zenon DEF IsHead

(* A head ends with an empty line.                                         *)
LEMMA HeadEnds ==
  ASSUME NEW s \in Seq(Char), NEW n, n = Len(s), IsHead(s)
  PROVE  /\ n >= 2 /\ s[n - 1] = "CR" /\ s[n] = "LF"
         /\ n = 2 \/ (n >= 4 /\ s[n - 3] = "CR" /\ s[n - 2] = "LF")
<1>1. n \in Nat
  BY LenProperties
<1>2. <<n - 1, n - 1>> \in Lines(s)
  BY DEF IsHead
<1>3. PICK x, y \in Nat :
            /\ <<n - 1, n - 1>> = <<x, y>> /\ x >= 1 /\ x <= y /\ y \in Ends(s)
            /\ x = 1 \/ x - 2 \in Ends(s)
  BY <1>2, LinesArePairs
<1>4. x = n - 1 /\ y = n - 1
  BY <1>3
<1>5. n - 1 \in 1..(n - 1) /\ s[n - 1] = "CR" /\ s[(n - 1) + 1] = "LF"
  BY <1>3, <1>4, LinesArePairs DEF End
<1>6. CASE x = 1
  BY <1>1, <1>4, <1>5, <1>6
<1>7. CASE x - 2 \in Ends(s)
  <2>1. x - 2 \in 1..(n - 1) /\ s[x - 2] = "CR" /\ s[(x - 2) + 1] = "LF"
    BY <1>7, LinesArePairs DEF End
  <2>2. x - 2 = n - 3 /\ (x - 2) + 1 = n - 2
    BY <1>1, <1>4
  <2>3. QED
    BY <1>1, <1>5, <2>1, <2>2
<1>8. QED
  BY <1>3, <1>6, <1>7

-----------------------------------------------------------------------------
(* The characters at places of a sequence.                                 *)

(* What has been gathered of s, for the places in P, after each character. *)
Gathers(f, s, P, n) ==
    /\ DOMAIN f = 0..n /\ f[0] = <<>>
    /\ \A i \in 1..n : f[i] = IF i \in P THEN Append(f[i - 1], s[i]) ELSE f[i - 1]

LEMMA CharsGather ==
  ASSUME NEW s, NEW P, NEW n \in Nat
  PROVE  \E f : Gathers(f, s, P, n) /\ CharsAt(s, P, n) = f[n]
<1> DEFINE More(l, i) == IF i \in P THEN Append(l, s[i]) ELSE l
           Step(f, i) == IF i = 0 THEN <<>> ELSE More(f[i - 1], i)
           S == {k \in Nat : \E f : f = [i \in 0..k |-> Step(f, i)]}
<1> HIDE DEF More
<1>1. 0 \in S
  <2>1. PICK f : f = [i \in 0..0 |-> <<>>]
    OBVIOUS
  <2>2. f = [i \in 0..0 |-> Step(f, i)]
    BY <2>1
  <2>3. QED
    BY <2>2
<1>2. ASSUME NEW k \in Nat, k \in S PROVE k + 1 \in S
  <2>1. PICK f : f = [i \in 0..k |-> Step(f, i)]
    BY <1>2
  <2>2. PICK last : last = More(f[k], k + 1)
    OBVIOUS
  <2>3. PICK g : g = [i \in 0..(k + 1) |-> IF i <= k THEN f[i] ELSE last]
    OBVIOUS
  <2>4. \A i \in 0..k : g[i] = f[i] /\ f[i] = Step(f, i)
    BY <2>1, <2>3
  <2>5. \A i \in 0..(k + 1) : g[i] = Step(g, i)
    <3>1. ASSUME NEW i \in 0..k PROVE Step(f, i) = Step(g, i)
      <4>1. i # 0 => i - 1 \in 0..k
        OBVIOUS
      <4>2. QED
        BY <2>4, <4>1
    <3>2. g[k + 1] = Step(g, k + 1)
      <4>1. g[k + 1] = last /\ (k + 1) - 1 = k /\ k + 1 # 0 /\ g[k] = f[k]
        BY <2>3, <2>4
      <4>2. QED
        BY <2>2, <4>1
    <3>3. QED
      BY <2>4, <3>1, <3>2
  <2>6. g = [i \in 0..(k + 1) |-> Step(g, i)]
    BY <2>3, <2>5
  <2>7. QED
    BY <2>6
<1>3. n \in S
  <2> HIDE DEF S
  <2>1. QED
    BY <1>1, <1>2, Induction
<1>4. PICK f : f = CHOOSE g : g = [i \in 0..n |-> Step(g, i)]
  OBVIOUS
<1>5. f = [i \in 0..n |-> Step(f, i)]
  BY <1>3, <1>4
<1>6. CharsAt(s, P, n) = f[n]
  BY <1>4 DEF CharsAt, More
<1>7. Gathers(f, s, P, n)
  <2>1. DOMAIN f = 0..n /\ f[0] = <<>> /\ \A i \in 1..n : f[i] = More(f[i - 1], i)
    BY <1>5
  <2>2. QED
    BY <2>1 DEF Gathers, More
<1>8. QED
  BY <1>6, <1>7

(* They depend on the characters and on which of their places are in P.    *)
LEMMA SameGathered ==
  ASSUME NEW s, NEW t, NEW P, NEW Q, NEW n \in Nat, NEW m \in n..(n + 1),
         NEW f, Gathers(f, s, P, n), NEW g, Gathers(g, t, Q, m),
         \A j \in 1..n : s[j] = t[j] /\ (j \in P <=> j \in Q)
  PROVE  f[n] = g[n]
<1> DEFINE S == {k \in Nat : k <= n => f[k] = g[k]}
<1>1. 0 \in S
  BY DEF Gathers
<1>2. ASSUME NEW k \in Nat, k \in S PROVE k + 1 \in S
  <2> SUFFICES ASSUME k + 1 <= n PROVE f[k + 1] = g[k + 1]
    OBVIOUS
  <2>1. k + 1 \in 1..n /\ k + 1 \in 1..m /\ (k + 1) - 1 = k /\ f[k] = g[k]
    BY <1>2
  <2>2. s[k + 1] = t[k + 1] /\ (k + 1 \in P <=> k + 1 \in Q)
    BY <2>1
  <2>3. QED
    BY <2>1, <2>2 DEF Gathers
<1>3. n \in S
  <2> HIDE DEF S
  <2>1. QED
    BY <1>1, <1>2, Induction
<1>4. QED
  BY <1>3

LEMMA SameChars ==
  ASSUME NEW s, NEW t, NEW P, NEW Q, NEW n \in Nat,
         \A j \in 1..n : s[j] = t[j] /\ (j \in P <=> j \in Q)
  PROVE  CharsAt(s, P, n) = CharsAt(t, Q, n)
<1>1. PICK f : Gathers(f, s, P, n) /\ CharsAt(s, P, n) = f[n]
  BY CharsGather
<1>2. PICK g : Gathers(g, t, Q, n) /\ CharsAt(t, Q, n) = g[n]
  BY CharsGather
<1>3. QED
  BY <1>1, <1>2, SameGathered

LEMMA CharsStep ==
  ASSUME NEW s, NEW P, NEW n \in Nat
  PROVE  CharsAt(s, P, n + 1) =
            IF n + 1 \in P THEN Append(CharsAt(s, P, n), s[n + 1]) ELSE CharsAt(s, P, n)
<1>1. PICK f : Gathers(f, s, P, n) /\ CharsAt(s, P, n) = f[n]
  BY CharsGather
<1>2. PICK m \in n..(n + 1) : m = n + 1
  OBVIOUS
<1>3. PICK g : Gathers(g, s, P, m) /\ CharsAt(s, P, m) = g[m]
  BY CharsGather
<1>4. f[n] = g[n]
  BY <1>1, <1>3, SameGathered
<1>5. g[m] = IF m \in P THEN Append(g[m - 1], s[m]) ELSE g[m - 1]
  BY <1>2, <1>3 DEF Gathers
<1>6. m - 1 = n
  BY <1>2
<1>7. QED
  BY <1>1, <1>2, <1>3, <1>4, <1>5, <1>6

LEMMA NoChars ==
  ASSUME NEW s, NEW P, NEW n \in Nat, \A j \in 1..n : j \notin P
  PROVE  CharsAt(s, P, n) = <<>>
<1>1. PICK f : Gathers(f, s, P, n) /\ CharsAt(s, P, n) = f[n]
  BY CharsGather
<1> DEFINE S == {k \in Nat : k <= n => f[k] = <<>>}
<1>2. 0 \in S
  BY <1>1 DEF Gathers
<1>3. ASSUME NEW k \in Nat, k \in S PROVE k + 1 \in S
  <2> SUFFICES ASSUME k + 1 <= n PROVE f[k + 1] = <<>>
    OBVIOUS
  <2>1. k + 1 \in 1..n /\ (k + 1) - 1 = k /\ f[k] = <<>>
    BY <1>3
  <2>2. QED
    BY <1>1, <2>1 DEF Gathers
<1>4. n \in S
  <2> HIDE DEF S
  <2>1. QED
    BY <1>2, <1>3, Induction
<1>5. QED
  BY <1>1, <1>4

-----------------------------------------------------------------------------
(* What the parser has collected when it has consumed i characters of s.   *)

StartsAt(s, x) == x >= 3 /\ End(s, x - 2) /\ s[x] \in Token

(* Place y belongs to the header that starts at x.                         *)
Own(s, x, y) == y >= x /\ \A z \in (x + 1)..y : ~StartsAt(s, z)

Indents(s, y) == \E l \in 3..y : End(s, l - 2) /\ All(s, l, y, Blank)

Named(s, x) == {y \in Nat : Own(s, x, y) /\ \A z \in x..y : s[z] # ":"}

Said(s, x) ==
    {y \in Nat : /\ Own(s, x, y) /\ s[y] \notin {"CR", "LF"} /\ ~Indents(s, y)
                 /\ \E z \in x..(y - 2) : s[z] = ":"}

HeaderOf(s, x, i) ==
    [name |-> CharsAt(s, Named(s, x), i), value |-> CharsAt(s, Said(s, x), i)]

(* Header n starts at from[n], and every start is the start of a header.   *)
Split(s, i, h, from) ==
    /\ DOMAIN from = 1..Len(h)
    /\ \A n \in 1..Len(h) : from[n] \in 3..i /\ StartsAt(s, from[n])
    /\ \A x \in 3..i : StartsAt(s, x) => \E n \in 1..Len(h) : from[n] = x
    /\ \A m, n \in 1..Len(h) : m < n => from[m] < from[n]
    /\ \A n \in 1..Len(h) : h[n] = HeaderOf(s, from[n], i)

Coloned(s, x, i, q) ==
    q \notin {"header_name", "space_before_header_value"} =>
        \E z \in x..(i - 1) : s[z] = ":"

Told(s, i, q, h) ==
    \E from : Split(s, i, h, from) /\ (h # <<>> => Coloned(s, from[Len(h)], i, q))

(* A character that starts no header is part of the last one, or of none.  *)
LEMMA SplitOn ==
  ASSUME NEW s, NEW i \in Nat, NEW h \in Seq(Header), NEW from, Split(s, i, h, from),
         ~StartsAt(s, i + 1), NEW N \in Nat, N = Len(h),
         NEW k \in Seq(Header), Len(k) = N, \A n \in 1..(N - 1) : k[n] = h[n],
         N # 0 => k[N] =
            [name |-> IF i + 1 \in Named(s, from[N]) THEN Append(h[N].name, s[i + 1])
                      ELSE h[N].name,
             value |-> IF i + 1 \in Said(s, from[N]) THEN Append(h[N].value, s[i + 1])
                       ELSE h[N].value]
  PROVE  Split(s, i + 1, k, from)
<1>1. /\ DOMAIN from = 1..N
      /\ \A n \in 1..N : from[n] \in 3..i /\ StartsAt(s, from[n])
      /\ \A x \in 3..i : StartsAt(s, x) => \E n \in 1..N : from[n] = x
      /\ \A m, n \in 1..N : m < n => from[m] < from[n]
      /\ \A n \in 1..N : h[n] = HeaderOf(s, from[n], i)
  BY DEF Split
<1>2. \A x \in 3..(i + 1) : StartsAt(s, x) => \E n \in 1..N : from[n] = x
  <2>1. \A x \in 3..(i + 1) : x \in 3..i \/ x = i + 1
    OBVIOUS
  <2>2. QED
    BY <1>1, <2>1
<1>3. ASSUME NEW n \in 1..N PROVE k[n] = HeaderOf(s, from[n], i + 1)
  <2>1. PICK x : x = from[n]
    OBVIOUS
  <2>2. PICK P, Q : P = Named(s, x) /\ Q = Said(s, x)
    OBVIOUS
  <2>3. /\ CharsAt(s, P, i + 1) =
                IF i + 1 \in P THEN Append(CharsAt(s, P, i), s[i + 1]) ELSE CharsAt(s, P, i)
        /\ CharsAt(s, Q, i + 1) =
                IF i + 1 \in Q THEN Append(CharsAt(s, Q, i), s[i + 1]) ELSE CharsAt(s, Q, i)
    BY CharsStep
  <2>4. h[n] = [name |-> CharsAt(s, P, i), value |-> CharsAt(s, Q, i)]
    BY <1>1, <2>1, <2>2 DEF HeaderOf
  <2>5. HeaderOf(s, x, i + 1) = [name |-> CharsAt(s, P, i + 1), value |-> CharsAt(s, Q, i + 1)]
    BY <2>2 DEF HeaderOf
  <2>6. CASE n = N
    <3>1. N # 0
      OBVIOUS
    <3>2. k[N] = [name |-> IF i + 1 \in P THEN Append(h[N].name, s[i + 1]) ELSE h[N].name,
                  value |-> IF i + 1 \in Q THEN Append(h[N].value, s[i + 1]) ELSE h[N].value]
      BY <2>1, <2>2, <2>6, <3>1
    <3>3. h[N].name = CharsAt(s, P, i) /\ h[N].value = CharsAt(s, Q, i)
      BY <2>4, <2>6
    <3>4. QED
      BY <2>1, <2>3, <2>5, <2>6, <3>2, <3>3
  <2>7. CASE n # N
    <3>1. n \in 1..(N - 1) /\ N \in 1..N /\ n < N
      BY <2>7
    <3>2. from[N] \in (x + 1)..(i + 1) /\ StartsAt(s, from[N])
      <4>1. PICK y : y = from[N]
        OBVIOUS
      <4>2. x \in 3..i /\ y \in 3..i /\ x < y /\ StartsAt(s, y)
        BY <1>1, <2>1, <3>1, <4>1
      <4>3. x \in Int /\ y \in Int /\ i \in Int /\ x < y /\ y <= i
        BY <4>2
      <4>4. y \in (x + 1)..(i + 1)
        BY <4>3
      <4>5. QED
        BY <4>1, <4>2, <4>4
    <3>3. ~Own(s, x, i + 1)
      BY <3>2 DEF Own
    <3>4. i + 1 \notin P /\ i + 1 \notin Q
      BY <2>2, <3>3 DEF Named, Said
    <3>5. QED
      BY <2>1, <2>3, <2>4, <2>5, <3>1, <3>4
  <2>8. QED
    BY <2>6, <2>7
<1>4. \A n \in 1..N : from[n] \in 3..(i + 1) /\ StartsAt(s, from[n])
  BY <1>1
<1>5. QED
  BY <1>1, <1>2, <1>3, <1>4 DEF Split

(* A character that starts a header is the first of its name.              *)
LEMMA SplitNew ==
  ASSUME NEW s, NEW i \in Nat, NEW h \in Seq(Header), NEW from, Split(s, i, h, from),
         StartsAt(s, i + 1), NEW k, k = Append(h, [name |-> <<s[i + 1]>>, value |-> <<>>])
  PROVE  \E g : Split(s, i + 1, k, g) /\ g[Len(k)] = i + 1
<1>1. PICK N \in Nat : N = Len(h)
  BY LenProperties
<1>2. /\ DOMAIN from = 1..N
      /\ \A n \in 1..N : from[n] \in 3..i /\ StartsAt(s, from[n])
      /\ \A x \in 3..i : StartsAt(s, x) => \E n \in 1..N : from[n] = x
      /\ \A m, n \in 1..N : m < n => from[m] < from[n]
      /\ \A n \in 1..N : h[n] = HeaderOf(s, from[n], i)
  BY <1>1 DEF Split
<1>3. /\ Len(k) = N + 1 /\ k[N + 1] = [name |-> <<s[i + 1]>>, value |-> <<>>]
      /\ \A n \in 1..N : k[n] = h[n]
  <2>1. PICK d : d = [name |-> <<s[i + 1]>>, value |-> <<>>]
    OBVIOUS
  <2>2. k = Append(h, d)
    BY <2>1
  <2>3. QED
    BY <1>1, <2>1, <2>2
<1>4. PICK g : g = [n \in 1..(N + 1) |-> IF n <= N THEN from[n] ELSE i + 1]
  OBVIOUS
<1>5. /\ DOMAIN g = 1..(N + 1) /\ g[N + 1] = i + 1
      /\ \A n \in 1..N : g[n] = from[n]
      /\ \A n \in 1..(N + 1) : n \in 1..N \/ n = N + 1
  BY <1>4
<1>6. i + 1 \in 3..(i + 1) /\ s[i + 1] \in Token
  BY DEF StartsAt
<1>7. \A n \in 1..(N + 1) : g[n] \in 3..(i + 1) /\ StartsAt(s, g[n])
  BY <1>2, <1>5, <1>6
<1>8. \A x \in 3..(i + 1) : StartsAt(s, x) => \E n \in 1..(N + 1) : g[n] = x
  <2>1. \A x \in 3..(i + 1) : x \in 3..i \/ x = i + 1
    OBVIOUS
  <2>2. N + 1 \in 1..(N + 1) /\ \A n \in 1..N : n \in 1..(N + 1)
    OBVIOUS
  <2>3. QED
    BY <1>2, <1>5, <2>1, <2>2
<1>9. \A m, n \in 1..(N + 1) : m < n => g[m] < g[n]
  <2> SUFFICES ASSUME NEW m \in 1..(N + 1), NEW n \in 1..(N + 1), m < n PROVE g[m] < g[n]
    OBVIOUS
  <2>1. m \in 1..N
    OBVIOUS
  <2>2. g[m] = from[m] /\ from[m] \in 3..i
    BY <1>2, <1>5, <2>1
  <2>3. CASE n \in 1..N
    <3>1. g[n] = from[n] /\ from[m] < from[n]
      BY <1>2, <1>5, <2>1, <2>3
    <3>2. QED
      BY <2>2, <3>1
  <2>4. CASE n = N + 1
    BY <1>5, <2>2, <2>4
  <2>5. QED
    BY <2>3, <2>4
<1>10. ASSUME NEW n \in 1..(N + 1) PROVE k[n] = HeaderOf(s, g[n], i + 1)
  <2>1. PICK x : x = g[n]
    OBVIOUS
  <2>2. PICK P, Q : P = Named(s, x) /\ Q = Said(s, x)
    OBVIOUS
  <2>3. /\ CharsAt(s, P, i + 1) =
                IF i + 1 \in P THEN Append(CharsAt(s, P, i), s[i + 1]) ELSE CharsAt(s, P, i)
        /\ CharsAt(s, Q, i + 1) =
                IF i + 1 \in Q THEN Append(CharsAt(s, Q, i), s[i + 1]) ELSE CharsAt(s, Q, i)
    BY CharsStep
  <2>4. HeaderOf(s, x, i + 1) = [name |-> CharsAt(s, P, i + 1), value |-> CharsAt(s, Q, i + 1)]
    BY <2>2 DEF HeaderOf
  <2>5. CASE n = N + 1
    <3>1. x = i + 1
      BY <1>5, <2>1, <2>5
    <3>2. \A j \in 1..i : j \notin P /\ j \notin Q
      BY <2>2, <3>1 DEF Named, Said, Own
    <3>3. CharsAt(s, P, i) = <<>> /\ CharsAt(s, Q, i) = <<>>
      BY <3>2, NoChars
    <3>4. i + 1 \in P
      <4>1. s[i + 1] # ":"
        BY <1>6, Classes
      <4>2. QED
        BY <2>2, <3>1, <4>1 DEF Named, Own
    <3>5. i + 1 \notin Q
      BY <2>2, <3>1 DEF Said
    <3>6. Append(<<>>, s[i + 1]) = <<s[i + 1]>>
      OBVIOUS
    <3>7. QED
      BY <1>3, <2>1, <2>3, <2>4, <2>5, <3>3, <3>4, <3>5, <3>6
  <2>6. CASE n \in 1..N
    <3>1. x = from[n] /\ k[n] = h[n] /\ x \in 3..i
      BY <1>2, <1>3, <1>5, <2>1, <2>6
    <3>2. i + 1 \in (x + 1)..(i + 1)
      BY <3>1
    <3>3. ~Own(s, x, i + 1)
      BY <3>2 DEF Own
    <3>4. i + 1 \notin P /\ i + 1 \notin Q
      BY <2>2, <3>3 DEF Named, Said
    <3>5. h[n] = [name |-> CharsAt(s, P, i), value |-> CharsAt(s, Q, i)]
      BY <1>2, <2>2, <2>6, <3>1 DEF HeaderOf
    <3>6. QED
      BY <2>1, <2>3, <2>4, <3>1, <3>4, <3>5
  <2>7. QED
    BY <1>5, <2>5, <2>6
<1>11. Split(s, i + 1, k, g)
  <2>1. PICK M : M = N + 1
    OBVIOUS
  <2>2. Len(k) = M /\ DOMAIN g = 1..M
    BY <1>3, <1>5, <2>1
  <2>3. \A n \in 1..M : k[n] = HeaderOf(s, g[n], i + 1)
    BY <1>10, <2>1
  <2>4. QED
    BY <1>7, <1>8, <1>9, <2>1, <2>2, <2>3 DEF Split
<1>12. QED
  BY <1>3, <1>5, <1>11

(* Within a line there is no end of one, so that no header starts there,   *)
(* and only blanks from its start on indent it.                            *)
LEMMA LineText ==
  ASSUME NEW s, NEW i \in Nat, NEW e \in Nat, NEW a \in Nat, NEW p,
         HeaderShape(s, i, p, e, a)
  PROVE  \A j \in a..i : s[j] # "LF"
<1>1. \A c \in Text \cup Blank : c \notin {"CR", "LF"}
  BY Classes
<1>2. Token \subseteq Text
  BY Classes
<1>3. ASSUME NEW b \in Int, Field(s, a, b) PROVE \A j \in a..b : s[j] # "LF"
  <2>1. PICK n \in (a + 1)..(b - 1) :
            /\ All(s, a, n - 1, Token) /\ s[n] = ":" /\ s[n + 1] = "SP"
            /\ All(s, n + 2, b, Text)
    BY <1>3 DEF Field
  <2>2. \A j \in a..b : j \in a..(n - 1) \/ j = n \/ j = n + 1 \/ j \in (n + 2)..b
    OBVIOUS
  <2>3. QED
    BY <1>1, <1>2, <2>1, <2>2 DEF All
<1>4. ASSUME NEW b \in Int, Continued(s, a, b) PROVE \A j \in a..b : s[j] # "LF"
  <2>1. PICK n \in a..b : All(s, a, n, Blank) /\ All(s, n + 1, b, Text)
    BY <1>4 DEF Continued
  <2>2. \A j \in a..b : j \in a..n \/ j \in (n + 1)..b
    OBVIOUS
  <2>3. QED
    BY <1>1, <2>1, <2>2 DEF All
<1>5. Valued(s, e, a, i) => Field(s, a, i) \/ Continued(s, a, i)
  <2> SUFFICES ASSUME NEW n \in a..(i - 1), All(s, a, n, Blank), s[n + 1] \in Text \ Blank,
                      All(s, n + 2, i, Text)
               PROVE  Continued(s, a, i)
    BY DEF Valued
  <2>1. \A j \in (n + 1)..i : j = n + 1 \/ j \in (n + 2)..i
    OBVIOUS
  <2>2. All(s, n + 1, i, Text) /\ n \in a..i
    BY <2>1 DEF All
  <2>3. QED
    BY <2>2 DEF Continued
<1>6. CASE p = "header_line_start"
  BY <1>6 DEF HeaderShape
<1>7. CASE p \in {"header_name", "header_lws"}
  BY <1>1, <1>2, <1>7 DEF HeaderShape, All
<1>8. CASE p = "space_before_header_value"
  <2>1. All(s, a, i - 1, Token) /\ s[i] = ":"
    BY <1>8 DEF HeaderShape
  <2>2. \A j \in a..i : j \in a..(i - 1) \/ j = i
    OBVIOUS
  <2>3. QED
    BY <1>1, <1>2, <2>1, <2>2 DEF All
<1>9. CASE p = "header_value"
  BY <1>3, <1>4, <1>5, <1>9 DEF HeaderShape
<1>10. CASE p = "expecting_newline_3"
  BY <1>10 DEF HeaderShape
<1>11. CASE p = "expecting_newline_2"
  <2>1. s[i] = "CR" /\ OtherLine(s, e, a, i - 1)
    BY <1>11 DEF HeaderShape
  <2>2. \A j \in a..i : j \in a..(i - 1) \/ j = i
    OBVIOUS
  <2>3. \A j \in a..(i - 1) : s[j] # "LF"
    BY <1>3, <1>4, <2>1 DEF OtherLine
  <2>4. QED
    BY <2>1, <2>2, <2>3
<1>12. QED
  BY <1>6, <1>7, <1>8, <1>9, <1>10, <1>11 DEF HeaderShape

LEMMA NoStartInLine ==
  ASSUME NEW s, NEW i \in Nat, NEW a \in Nat, a >= 3, \A j \in a..i : s[j] # "LF",
         End(s, a - 2)
  PROVE  /\ \A z \in (a + 1)..(i + 1) : ~StartsAt(s, z)
         /\ a <= i + 1 => (Indents(s, i + 1) <=> All(s, a, i + 1, Blank))
<1>1. s[a - 1] = "LF" /\ "LF" \notin Blank
  <2>1. (a - 2) + 1 = a - 1
    OBVIOUS
  <2>2. QED
    BY <2>1 DEF End, Blank
<1>2. ASSUME NEW z \in (a + 1)..(i + 1), End(s, z - 2) PROVE FALSE
  <2>1. (z - 2) + 1 = z - 1 /\ z - 1 \in a..i
    OBVIOUS
  <2>2. QED
    BY <1>2, <2>1 DEF End
<1>3. \A z \in (a + 1)..(i + 1) : ~StartsAt(s, z)
  BY <1>2 DEF StartsAt
<1>4. ASSUME a <= i + 1, All(s, a, i + 1, Blank) PROVE Indents(s, i + 1)
  <2>1. a \in 3..(i + 1)
    BY <1>4
  <2>2. QED
    BY <1>4, <2>1 DEF Indents
<1>5. ASSUME a <= i + 1, Indents(s, i + 1) PROVE All(s, a, i + 1, Blank)
  <2>1. PICK l \in 3..(i + 1) : End(s, l - 2) /\ All(s, l, i + 1, Blank)
    BY <1>5 DEF Indents
  <2>2. l \notin (a + 1)..(i + 1)
    BY <1>2, <2>1
  <2>3. ~(l < a)
    <3>1. l < a => a - 1 \in l..(i + 1)
      BY <1>5
    <3>2. QED
      BY <1>1, <2>1, <3>1 DEF All
  <2>4. l = a
    BY <2>2, <2>3
  <2>5. QED
    BY <2>1, <2>4
<1>6. QED
  BY <1>3, <1>4, <1>5

LEMMA NoStartInFirstLine ==
  ASSUME NEW s, NEW i \in Nat, NEW p, LineShape(s, i, p)
  PROVE  \A x \in 3..(i + 1) : ~StartsAt(s, x)
<1>1. NoCR(s, 1, i) \/ NoCR(s, 1, i - 1)
  BY DEF LineShape
<1>2. \A x \in 3..(i + 1) : x - 2 \in 1..i /\ x - 2 \in 1..(i - 1)
  OBVIOUS
<1>3. QED
  BY <1>1, <1>2 DEF NoCR, StartsAt, End

(* The last header is the one of the last start, and owns what follows.    *)
LEMMA LastOwns ==
  ASSUME NEW s, NEW i \in Nat, NEW h \in Seq(Header), h # <<>>, NEW from, Split(s, i, h, from),
         NEW x, x = from[Len(h)]
  PROVE  /\ x \in 3..i /\ StartsAt(s, x)
         /\ \A z \in (x + 1)..i : ~StartsAt(s, z)
         /\ ~StartsAt(s, i + 1) => Own(s, x, i + 1)
<1>1. PICK N \in Nat \ {0} : N = Len(h)
  BY EmptySeq
<1>2. N \in 1..N /\ x = from[N]
  BY <1>1
<1>3. /\ \A n \in 1..N : from[n] \in 3..i /\ StartsAt(s, from[n])
      /\ \A z \in 3..i : StartsAt(s, z) => \E n \in 1..N : from[n] = z
      /\ \A m, n \in 1..N : m < n => from[m] < from[n]
  BY <1>1 DEF Split
<1>4. x \in 3..i /\ StartsAt(s, x)
  BY <1>2, <1>3
<1>5. ASSUME NEW z \in (x + 1)..i, StartsAt(s, z) PROVE FALSE
  <2>1. z \in 3..i
    BY <1>4
  <2>2. PICK n \in 1..N : from[n] = z
    BY <1>3, <1>5, <2>1
  <2>3. n = N \/ n < N
    OBVIOUS
  <2>4. z = x \/ z < x
    BY <1>2, <1>3, <2>2, <2>3
  <2>5. QED
    BY <1>4, <2>4
<1>6. \A z \in (x + 1)..(i + 1) : z \in (x + 1)..i \/ z = i + 1
  BY <1>4
<1>7. ~StartsAt(s, i + 1) => Own(s, x, i + 1)
  BY <1>4, <1>5, <1>6 DEF Own
<1>8. QED
  BY <1>4, <1>5, <1>7

Lengthened(k, h, last) ==
    /\ k \in Seq(Header) /\ Len(k) = Len(h)
    /\ \A n \in 1..(Len(h) - 1) : k[n] = h[n]
    /\ k[Len(h)] = last

LEMMA ExtendsLast ==
  ASSUME NEW h \in Seq(Header), h # <<>>, NEW c
  PROVE  /\ c \in Token =>
            Lengthened(Extend(h, "name", c), h,
                       [name |-> Append(h[Len(h)].name, c), value |-> h[Len(h)].value])
         /\ c \in Text =>
            Lengthened(Extend(h, "value", c), h,
                       [name |-> h[Len(h)].name, value |-> Append(h[Len(h)].value, c)])
<1>1. PICK N \in Nat \ {0} : N = Len(h)
  BY EmptySeq
<1>2. N \in 1..Len(h) /\ h[N] \in Header
  BY <1>1, ElementOfSeq
<1>3. DOMAIN h = 1..N
  BY <1>1, LenProperties
<1>4. h[N] = [name |-> h[N].name, value |-> h[N].value]
  BY <1>2 DEF Header
<1>5. PICK y, z : /\ y = [h[N] EXCEPT !["name"] = Append(h[N]["name"], c)]
                  /\ z = [h[N] EXCEPT !["value"] = Append(h[N]["value"], c)]
  OBVIOUS
<1>6. Extend(h, "name", c) = [h EXCEPT ![N] = y] /\ Extend(h, "value", c) = [h EXCEPT ![N] = z]
  BY <1>1, <1>2, <1>3, <1>5 DEF Extend
<1>7. /\ y = [name |-> Append(h[N].name, c), value |-> h[N].value]
      /\ z = [name |-> h[N].name, value |-> Append(h[N].value, c)]
  BY <1>4, <1>5
<1>8. ASSUME NEW u, NEW k, k = [h EXCEPT ![N] = u], k \in Seq(Header)
      PROVE  Lengthened(k, h, u)
  <2>1. DOMAIN k = 1..N /\ k[N] = u
    BY <1>1, <1>3, <1>8
  <2>2. \A n \in 1..(N - 1) : n \in 1..N /\ n # N
    OBVIOUS
  <2>3. \A n \in 1..(N - 1) : k[n] = h[n]
    BY <1>3, <1>8, <2>2
  <2>4. Len(k) = N
    BY <1>8, <2>1, LenProperties
  <2>5. QED
    BY <1>1, <1>8, <2>1, <2>3, <2>4 DEF Lengthened
<1>9. /\ c \in Token => Extend(h, "name", c) \in Seq(Header)
      /\ c \in Text => Extend(h, "value", c) \in Seq(Header)
  BY Extends
<1>10. /\ c \in Token => Lengthened(Extend(h, "name", c), h, y)
       /\ c \in Text => Lengthened(Extend(h, "value", c), h, z)
  BY <1>6, <1>8, <1>9
<1>11. QED
  BY <1>1, <1>7, <1>10

(* Only a character that leads to a name from elsewhere starts a header.   *)
LEMMA StartsNothing ==
  ASSUME NEW s, NEW i \in Nat, NEW p, NEW e \in Nat, NEW a \in 3..(i + 1), End(s, a - 2),
         HeaderShape(s, i, p, e, a), NEW q, NEW first,
         LineStart(p, s[i + 1], q, first) \/ HeaderLine(p, s[i + 1], q),
         p = "header_name" \/ q # "header_name"
  PROVE  ~StartsAt(s, i + 1)
<1>1. CASE p = "header_line_start"
  <2>1. s[i + 1] = "CR" \/ s[i + 1] \in Blank
    BY <1>1 DEF LineStart, HeaderLine
  <2>2. s[i + 1] \notin Token
    BY <2>1, Classes
  <2>3. QED
    BY <2>2 DEF StartsAt
<1>2. CASE p # "header_line_start"
  <2>1. i >= a
    BY <1>2 DEF HeaderShape, Valued, Field
  <2>2. i + 1 \in (a + 1)..(i + 1)
    BY <2>1
  <2>3. \A j \in a..i : s[j] # "LF"
    BY LineText
  <2>4. a \in Nat /\ a >= 3
    OBVIOUS
  <2>5. \A z \in (a + 1)..(i + 1) : ~StartsAt(s, z)
    BY <2>3, <2>4, NoStartInLine
  <2>6. QED
    BY <2>2, <2>5
<1>3. QED
  BY <1>1, <1>2

(* What has been told goes on to be what the parser has collected.         *)
LEMMA ToldInLine ==
  ASSUME NEW s, NEW i \in Nat, s[i + 1] \in Char, NEW p, NEW h \in Seq(Header), h # <<>>,
         NEW e \in Nat, NEW a \in 3..(i + 1), End(s, a - 2), HeaderShape(s, i, p, e, a),
         NEW q, LineStart(p, s[i + 1], q, FALSE) \/ HeaderLine(p, s[i + 1], q),
         p = "header_name" \/ q # "header_name",
         Told(s, i, p, h), NEW k, k = Collect(p, s[i + 1], q, h)
  PROVE  Told(s, i + 1, q, k) /\ k \in Seq(Header)
<1> DEFINE c == s[i + 1]
<1>1. PICK from : Split(s, i, h, from) /\ Coloned(s, from[Len(h)], i, p)
  BY DEF Told
<1>2. PICK N \in Nat \ {0} : N = Len(h)
  BY EmptySeq
<1>3. PICK x : x = from[N]
  OBVIOUS
<1>4. /\ Split(s, i, h, from) /\ Coloned(s, x, i, p)
      /\ x = from[Len(h)] /\ x = from[N]
  BY <1>1, <1>2, <1>3
<1>5. N \in 1..N /\ h[N] \in Header /\ h[N] = [name |-> h[N].name, value |-> h[N].value]
  <2>1. h[N] \in Header
    BY <1>2, ElementOfSeq
  <2>2. QED
    BY <2>1 DEF Header
<1>6. \A j \in a..i : s[j] # "LF"
  BY LineText
<1>7. /\ \A z \in (a + 1)..(i + 1) : ~StartsAt(s, z)
      /\ Indents(s, i + 1) <=> All(s, a, i + 1, Blank)
  BY <1>6, NoStartInLine
<1>8. ~StartsAt(s, i + 1)
  BY StartsNothing
<1>9. /\ x \in 3..i /\ StartsAt(s, x) /\ Own(s, x, i + 1)
      /\ \A z \in (x + 1)..i : ~StartsAt(s, z)
  BY <1>4, <1>8, LastOwns
<1>10. ASSUME p \in {"header_name", "space_before_header_value"}, NEW b \in Nat, b >= a, b <= i,
              All(s, a, b, Token)
       PROVE  x = a /\ \A j \in a..b : s[j] # ":"
  <2>1. \A j \in a..b : s[j] \in Token /\ s[j] # ":"
    BY <1>10, Classes DEF All
  <2>2. StartsAt(s, a)
    BY <1>10, <2>1 DEF StartsAt
  <2>3. x <= a
    BY <1>7, <1>9
  <2>4. x >= a
    BY <1>9, <1>10, <2>2
  <2>5. QED
    BY <1>9, <2>1, <2>3, <2>4
(* What has to be shown in each case.                                      *)
<1> DEFINE named == i + 1 \in Named(s, x)
           said == i + 1 \in Said(s, x)
<1>11. /\ named <=> \A z \in x..(i + 1) : s[z] # ":"
       /\ said <=> /\ c \notin {"CR", "LF"} /\ ~All(s, a, i + 1, Blank)
                   /\ \E z \in x..(i - 1) : s[z] = ":"
  <2>1. (i + 1) - 2 = i - 1 /\ i + 1 \in Nat
    OBVIOUS
  <2>2. QED
    BY <1>7, <1>9, <2>1 DEF Named, Said
<1> HIDE DEF named, said
<1>12. ASSUME k \in Seq(Header), Len(k) = N, \A n \in 1..(N - 1) : k[n] = h[n],
              k[N] = [name |-> IF named THEN Append(h[N].name, c) ELSE h[N].name,
                      value |-> IF said THEN Append(h[N].value, c) ELSE h[N].value],
              Coloned(s, x, i + 1, q)
       PROVE  Told(s, i + 1, q, k) /\ k \in Seq(Header)
  <2>1. Split(s, i + 1, k, from)
    <3>1. N # 0 => k[N] =
            [name |-> IF i + 1 \in Named(s, from[N]) THEN Append(h[N].name, s[i + 1])
                      ELSE h[N].name,
             value |-> IF i + 1 \in Said(s, from[N]) THEN Append(h[N].value, s[i + 1])
                       ELSE h[N].value]
      BY <1>4, <1>12 DEF named, said
    <3>2. N \in Nat /\ Split(s, i, h, from) /\ k \in Seq(Header) /\ Len(k) = N
      BY <1>4, <1>12
    <3>3. QED
      BY <1>2, <1>8, <1>12, <3>1, <3>2, SplitOn
  <2>2. x = from[Len(k)]
    BY <1>4, <1>12
  <2>3. QED
    BY <1>12, <2>1, <2>2 DEF Told
<1>13. ASSUME k = h, ~named, ~said, Coloned(s, x, i + 1, q)
       PROVE  Told(s, i + 1, q, k) /\ k \in Seq(Header)
  BY <1>2, <1>5, <1>12, <1>13
<1>14. CASE p = "header_name"
  <2>1. i >= a /\ All(s, a, i, Token)
    BY <1>14 DEF HeaderShape
  <2>2. x = a /\ \A j \in a..i : s[j] # ":"
    BY <1>10, <1>14, <2>1
  <2>3. ~said
    BY <1>11, <2>2
  <2>4. CASE q = "header_name"
    <3>1. c \in Token /\ k = Extend(h, "name", c)
      BY <1>14, <2>4 DEF LineStart, HeaderLine, Collect
    <3>2. named
      <4>1. c # ":"
        BY <3>1, Classes
      <4>2. \A z \in x..(i + 1) : z \in a..i \/ z = i + 1
        BY <2>2
      <4>3. QED
        BY <1>11, <2>2, <4>1, <4>2
    <3>3. /\ k \in Seq(Header) /\ Len(k) = N /\ \A n \in 1..(N - 1) : k[n] = h[n]
          /\ k[N] = [name |-> Append(h[N].name, c), value |-> h[N].value]
      <4>1. Lengthened(k, h, [name |-> Append(h[N].name, c), value |-> h[N].value])
        BY <1>2, <3>1, ExtendsLast
      <4>2. QED
        BY <1>2, <4>1 DEF Lengthened
    <3>4. Coloned(s, x, i + 1, q)
      BY <2>4 DEF Coloned
    <3>5. QED
      BY <1>12, <2>3, <3>2, <3>3, <3>4
  <2>5. CASE q # "header_name"
    <3>1. c = ":" /\ q = "space_before_header_value"
      BY <1>14, <2>5 DEF LineStart, HeaderLine
    <3>2. k = h
      BY <1>14, <3>1 DEF Collect
    <3>3. ~named
      BY <1>9, <1>11, <3>1
    <3>4. Coloned(s, x, i + 1, q)
      BY <3>1 DEF Coloned
    <3>5. QED
      BY <1>13, <2>3, <3>2, <3>3, <3>4
  <2>6. QED
    BY <2>4, <2>5
<1>15. CASE p = "space_before_header_value"
  <2>1. i > a /\ All(s, a, i - 1, Token) /\ s[i] = ":"
    BY <1>15 DEF HeaderShape
  <2>2. x = a /\ \A j \in a..(i - 1) : s[j] # ":"
    <3>1. i - 1 \in Nat /\ i - 1 >= a /\ i - 1 <= i
      BY <2>1
    <3>2. QED
      BY <1>10, <1>15, <2>1, <3>1
  <2>3. q = "header_value" /\ k = h
    BY <1>15 DEF LineStart, HeaderLine, Collect
  <2>4. ~said /\ ~named
    BY <1>9, <1>11, <2>1, <2>2
  <2>5. Coloned(s, x, i + 1, q)
    BY <1>9, <2>1 DEF Coloned
  <2>6. QED
    BY <1>13, <2>3, <2>4, <2>5
<1>16. CASE p \notin {"header_name", "space_before_header_value"}
  <2>1. PICK y \in x..(i - 1) : s[y] = ":"
    BY <1>4, <1>16 DEF Coloned
  <2>2. Coloned(s, x, i + 1, q)
    BY <1>9, <2>1 DEF Coloned
  <2>3. ~named
    BY <1>9, <1>11, <2>1
  <2>4. CASE q = "header_value"
    <3>1. p \in {"header_value", "header_lws"} /\ c \in Text
      BY <1>16, <2>4 DEF LineStart, HeaderLine
    <3>2. k = Extend(h, "value", c)
      BY <2>4, <3>1 DEF Collect
    <3>3. ~All(s, a, i + 1, Blank)
      <4>1. CASE p = "header_lws"
        <5>1. c \notin Blank
          BY <2>4, <4>1 DEF LineStart, HeaderLine
        <5>2. QED
          BY <5>1 DEF All
      <4>2. CASE p = "header_value"
        <5>1. i >= a /\ Valued(s, e, a, i)
          BY <4>2 DEF HeaderShape
        <5>2. CASE Field(s, a, i)
          <6>1. s[a] \in Token
            BY <5>2 DEF Field, All
          <6>2. s[a] \notin Blank
            BY <6>1, Classes
          <6>3. QED
            BY <5>1, <6>2 DEF All
        <5>3. CASE \E n \in a..(i - 1) : s[n + 1] \in Text \ Blank
          <6>1. PICK n \in a..(i - 1) : s[n + 1] \in Text \ Blank
            BY <5>3
          <6>2. n + 1 \in a..(i + 1)
            OBVIOUS
          <6>3. QED
            BY <6>1, <6>2 DEF All
        <5>4. QED
          BY <5>1, <5>2, <5>3 DEF Valued
      <4>3. QED
        BY <3>1, <4>1, <4>2
    <3>4. said
      BY <1>11, <2>1, <3>1, <3>3, Classes
    <3>5. /\ k \in Seq(Header) /\ Len(k) = N /\ \A n \in 1..(N - 1) : k[n] = h[n]
          /\ k[N] = [name |-> h[N].name, value |-> Append(h[N].value, c)]
      <4>1. Lengthened(k, h, [name |-> h[N].name, value |-> Append(h[N].value, c)])
        BY <1>2, <3>1, <3>2, ExtendsLast
      <4>2. QED
        BY <1>2, <4>1 DEF Lengthened
    <3>6. QED
      BY <1>12, <2>2, <2>3, <3>4, <3>5
  <2>5. CASE q # "header_value"
    <3>1. k = h
      BY <1>16, <2>5 DEF Collect
    <3>2. ~said
      <4>1. CASE c \in {"CR", "LF"}
        BY <1>11, <4>1
      <4>2. CASE c \notin {"CR", "LF"}
        <5>1. p \in {"header_line_start", "header_lws"} /\ c \in Blank
          BY <1>16, <2>5, <4>2 DEF LineStart, HeaderLine
        <5>2. All(s, a, i, Blank)
          BY <5>1 DEF HeaderShape, All
        <5>3. All(s, a, i + 1, Blank)
          <6>1. \A z \in a..(i + 1) : z \in a..i \/ z = i + 1
            OBVIOUS
          <6>2. QED
            BY <5>1, <5>2, <6>1 DEF All
        <5>4. QED
          BY <1>11, <5>3
      <4>3. QED
        BY <4>1, <4>2
    <3>3. QED
      BY <1>13, <2>2, <2>3, <3>1, <3>2
  <2>6. QED
    BY <2>4, <2>5
<1>17. QED
  BY <1>14, <1>15, <1>16

LEMMA ToldOn ==
  ASSUME NEW s, NEW i \in Nat, s[i + 1] \in Char, NEW p \in State, NEW h \in Seq(Header),
         Shape(s, i, p, h), Told(s, i, p, h),
         NEW q \in State \cup {"good"}, Leads(p, s[i + 1], q, h),
         NEW k, k = Collect(p, s[i + 1], q, h)
  PROVE  Told(s, i + 1, q, k) /\ k \in Seq(Header)
<1>1. ASSUME h = <<>>, k = <<>>, ~StartsAt(s, i + 1)
      PROVE  Told(s, i + 1, q, k) /\ k \in Seq(Header)
  <2>1. PICK from : Split(s, i, h, from)
    BY DEF Told
  <2>2. Len(h) = 0 /\ Len(k) = 0 /\ k \in Seq(Header) /\ 0 \in Nat
        /\ \A n \in 1..(0 - 1) : k[n] = h[n]
    BY <1>1, EmptySeq
  <2>3. Split(s, i + 1, k, from)
    BY <1>1, <2>1, <2>2, SplitOn
  <2>4. QED
    BY <1>1, <2>2, <2>3 DEF Told
<1>2. CASE LineShape(s, i, p) /\ h = <<>>
  <2>1. RequestLine(p, s[i + 1], q) \/ VersionName(p, s[i + 1], q) \/ VersionNumber(p, s[i + 1], q)
    BY <1>2, Parts DEF Leads
  <2>2. q # "header_name" /\ q # "header_value"
    BY <2>1, Parts DEF FirstLineStates
  <2>3. k = <<>>
    BY <1>2, <2>2 DEF Collect
  <2>4. i + 1 >= 3 => ~StartsAt(s, i + 1)
    BY <1>2, NoStartInFirstLine
  <2>5. ~StartsAt(s, i + 1)
    BY <2>4 DEF StartsAt
  <2>6. QED
    BY <1>1, <1>2, <2>3, <2>5
<1>3. CASE InHeaders(s, i, p, h)
  <2>1. PICK e \in 1..i : \E a \in 1..(i + 1) :
            Done(s, e, a) /\ HeaderShape(s, i, p, e, a) /\ Headed(p, e, a, h)
    BY <1>3 DEF InHeaders
  <2>2. PICK a \in 1..(i + 1) :
            Done(s, e, a) /\ HeaderShape(s, i, p, e, a) /\ Headed(p, e, a, h)
    BY <2>1
  <2>3. LineStart(p, s[i + 1], q, h = <<>>) \/ HeaderLine(p, s[i + 1], q)
    BY <2>2, Parts DEF Leads
  <2>4. a \in 3..(i + 1) /\ End(s, a - 2) /\ e \in Nat
    BY <2>2 DEF Done
  <2>5. CASE p # "header_name" /\ q = "header_name"
    <3>1. p = "header_line_start" /\ s[i + 1] \in Token
      BY <2>3, <2>5 DEF LineStart, HeaderLine
    <3>2. i = a - 1
      BY <3>1, <2>2 DEF HeaderShape
    <3>3. StartsAt(s, i + 1)
      <4>1. i + 1 = a
        BY <3>2
      <4>2. QED
        BY <2>4, <3>1, <4>1 DEF StartsAt
    <3>4. k = Append(h, [name |-> <<s[i + 1]>>, value |-> <<>>])
      BY <2>5 DEF Collect
    <3>5. PICK from : Split(s, i, h, from)
      BY DEF Told
    <3>6. \E g : Split(s, i + 1, k, g) /\ g[Len(k)] = i + 1
      BY <3>3, <3>4, <3>5, SplitNew
    <3>7. k \in Seq(Header)
      <4>1. [name |-> <<s[i + 1]>>, value |-> <<>>] \in Header
        BY <3>1, EmptySeq DEF Header
      <4>2. QED
        BY <3>4, <4>1, AppendProperties
    <3>8. QED
      BY <2>5, <3>6, <3>7 DEF Told, Coloned
  <2>6. CASE (p = "header_name" \/ q # "header_name") /\ h = <<>>
    <3>1. ~StartsAt(s, i + 1)
      BY <2>2, <2>3, <2>4, <2>6, StartsNothing
    <3>2. p \notin InHeader
      BY <2>2, <2>6 DEF Headed
    <3>3. k = <<>>
      BY <2>6, <3>2 DEF Collect, InHeader
    <3>4. QED
      BY <1>1, <2>6, <3>1, <3>3
  <2>7. CASE (p = "header_name" \/ q # "header_name") /\ h # <<>>
    <3>1. LineStart(p, s[i + 1], q, FALSE) \/ HeaderLine(p, s[i + 1], q)
      BY <2>3, <2>7 DEF LineStart
    <3>2. h # <<>> /\ HeaderShape(s, i, p, e, a) /\ (p = "header_name" \/ q # "header_name")
      BY <2>2, <2>7
    <3>3. QED
      BY <2>4, <3>1, <3>2, ToldInLine, Zenon
  <2>8. QED
    BY <2>5, <2>6, <2>7
<1>4. QED
  BY <1>2, <1>3 DEF Shape

(* It is told by the characters consumed.                                  *)
LEMMA SamePlaces ==
  ASSUME NEW s, NEW t, NEW i \in Nat, \A j \in 1..i : s[j] = t[j]
  PROVE  /\ \A x \in 1..i : StartsAt(s, x) <=> StartsAt(t, x)
         /\ \A x \in 3..i : HeaderOf(s, x, i) = HeaderOf(t, x, i)
<1>1. ASSUME NEW x \in 3..(i + 1) PROVE End(s, x - 2) <=> End(t, x - 2)
  <2>1. (x - 2) + 1 = x - 1 /\ x - 2 \in 1..i /\ x - 1 \in 1..i
    OBVIOUS
  <2>2. QED
    BY <2>1 DEF End
<1>2. ASSUME NEW x \in 1..i PROVE StartsAt(s, x) <=> StartsAt(t, x)
  <2>1. x >= 3 => (End(s, x - 2) <=> End(t, x - 2))
    BY <1>1
  <2>2. QED
    BY <2>1 DEF StartsAt
<1>3. ASSUME NEW x \in 3..i PROVE HeaderOf(s, x, i) = HeaderOf(t, x, i)
  <2>1. PICK P, Q, R, T : /\ P = Named(s, x) /\ Q = Named(t, x)
                          /\ R = Said(s, x) /\ T = Said(t, x)
    OBVIOUS
  <2>2. ASSUME NEW y \in 1..i PROVE (y \in P <=> y \in Q) /\ (y \in R <=> y \in T)
    <3>1. \A z \in (x + 1)..y : StartsAt(s, z) <=> StartsAt(t, z)
      BY <1>2
    <3>2. Own(s, x, y) <=> Own(t, x, y)
      BY <3>1 DEF Own
    <3>3. \A z \in x..y : s[z] = t[z]
      OBVIOUS
    <3>4. \A z \in x..(y - 2) : s[z] = t[z]
      OBVIOUS
    <3>5. Indents(s, y) <=> Indents(t, y)
      <4>1. \A l \in 3..y : End(s, l - 2) <=> End(t, l - 2)
        BY <1>1
      <4>2. \A l \in 3..y : All(s, l, y, Blank) <=> All(t, l, y, Blank)
        BY DEF All
      <4>3. QED
        BY <4>1, <4>2 DEF Indents
    <3>6. s[y] = t[y]
      OBVIOUS
    <3>7. y \in P <=> y \in Q
      BY <2>1, <3>2, <3>3 DEF Named
    <3>8. y \in R <=> y \in T
      BY <2>1, <3>2, <3>4, <3>5, <3>6 DEF Said
    <3>9. QED
      BY <3>7, <3>8
  <2>3. CharsAt(s, P, i) = CharsAt(t, Q, i) /\ CharsAt(s, R, i) = CharsAt(t, T, i)
    BY <2>2, SameChars
  <2>4. QED
    BY <2>1, <2>3 DEF HeaderOf
<1>4. QED
  BY <1>2, <1>3

LEMMA SameTold ==
  ASSUME NEW s, NEW t, NEW i \in Nat, \A j \in 1..i : s[j] = t[j],
         NEW q, NEW h \in Seq(Header), Told(s, i, q, h)
  PROVE  Told(t, i, q, h)
<1>1. PICK from : Split(s, i, h, from) /\ (h # <<>> => Coloned(s, from[Len(h)], i, q))
  BY DEF Told
<1>2. /\ \A x \in 1..i : StartsAt(s, x) <=> StartsAt(t, x)
      /\ \A x \in 3..i : HeaderOf(s, x, i) = HeaderOf(t, x, i)
  BY SamePlaces
<1>3. PICK N \in Nat : N = Len(h)
  BY LenProperties
<1>4. Split(t, i, h, from)
  <2>1. \A x \in 3..i : x \in 1..i
    OBVIOUS
  <2>2. QED
    BY <1>1, <1>2, <1>3, <2>1 DEF Split
<1>5. h # <<>> => Coloned(t, from[Len(h)], i, q)
  <2> SUFFICES ASSUME h # <<>> PROVE Coloned(t, from[Len(h)], i, q)
    OBVIOUS
  <2>1. N # 0
    BY <1>3, EmptySeq
  <2>2. PICK x \in 3..i : x = from[Len(h)]
    BY <1>1, <1>3, <2>1 DEF Split
  <2>3. \A z \in x..(i - 1) : s[z] = t[z]
    OBVIOUS
  <2>4. QED
    BY <1>1, <2>2, <2>3 DEF Coloned
<1>6. QED
  BY <1>4, <1>5 DEF Told

-----------------------------------------------------------------------------
(* What a call of parse makes of a piece.                                  *)

(* Before the last character of a head the parser waits for just that.     *)
LEMMA LastOfHead ==
  ASSUME NEW s \in Seq(Char), NEW n, n = Len(s), NEW p, NEW h, Shape(s, n - 1, p, h), IsHead(s)
  PROVE  p = "expecting_newline_3" /\ s[n] = "LF"
<1>1. /\ n \in Nat /\ n >= 2 /\ s[n - 1] = "CR" /\ s[n] = "LF"
      /\ n = 2 \/ (n >= 4 /\ s[n - 3] = "CR" /\ s[n - 2] = "LF")
  BY HeadEnds, LenProperties
<1>2. PICK i \in Nat \ {0} : i = n - 1
  BY <1>1
<1>3. s[i] = "CR" /\ (i = 1 \/ (i >= 3 /\ s[i - 2] = "CR" /\ s[i - 1] = "LF"))
  <2>1. n - 3 = i - 2 /\ n - 2 = i - 1
    BY <1>1, <1>2
  <2>2. QED
    BY <1>1, <1>2, <2>1
<1>4. ~LineShape(s, i, p)
  <2> SUFFICES ASSUME LineShape(s, i, p) PROVE FALSE
    OBVIOUS
  <2>1. ~NoCR(s, 1, i)
    BY <1>3 DEF NoCR
  <2>2. NoCR(s, 1, i - 1) /\ FirstLine(s, i)
    BY <2>1 DEF LineShape
  <2>3. i # 1
    BY <2>2 DEF FirstLine
  <2>4. QED
    BY <1>3, <2>2, <2>3 DEF NoCR
<1>5. CASE InHeaders(s, i, p, h)
  <2>1. PICK e \in 1..i : \E a \in 1..(i + 1) : Done(s, e, a) /\ HeaderShape(s, i, p, e, a)
    BY <1>5 DEF InHeaders
  <2>2. PICK a \in 1..(i + 1) : Done(s, e, a) /\ HeaderShape(s, i, p, e, a)
    BY <2>1
  <2>3. a >= e + 2 /\ s[a - 1] = "LF"
    <3>1. a >= e + 2 /\ s[(a - 2) + 1] = "LF" /\ (a - 2) + 1 = a - 1
      BY <2>2 DEF Done, End
    <3>2. QED
      BY <3>1
  <2>4. ~NoCR(s, a, i)
    BY <1>3, <2>3 DEF NoCR
  <2>5. ~(i > a /\ NoCR(s, a, i - 1))
    <3> SUFFICES ASSUME i > a, NoCR(s, a, i - 1) PROVE FALSE
      OBVIOUS
    <3>1. s[i - 2] = "CR" /\ i >= 3
      BY <1>3, <2>3
    <3>2. ~(i - 2 \in a..(i - 1))
      BY <3>1 DEF NoCR
    <3>3. i - 2 = a - 1
      BY <3>2
    <3>4. QED
      BY <2>3, <3>1, <3>3
  <2>6. QED
    BY <1>1, <2>2, <2>4, <2>5 DEF HeaderShape
<1>6. QED
  BY <1>2, <1>4, <1>5 DEF Shape

(* While a shape can be told of all of s, s is not a head yet.             *)
LEMMA ShapeNoHead ==
  ASSUME NEW s \in Seq(Char), NEW n, n = Len(s), NEW p, NEW h, Shape(s, n, p, h), IsHead(s)
  PROVE  FALSE
<1>1. /\ n \in Nat /\ n >= 2 /\ s[n - 1] = "CR" /\ s[n] = "LF"
      /\ n = 2 \/ (n >= 4 /\ s[n - 3] = "CR" /\ s[n - 2] = "LF")
  BY HeadEnds, LenProperties
<1>2. ~LineShape(s, n, p)
  BY <1>1 DEF LineShape, NoCR
<1>3. PICK e \in 1..n : \E a \in 1..(n + 1) : Done(s, e, a) /\ HeaderShape(s, n, p, e, a)
  BY <1>2 DEF Shape, InHeaders
<1>4. PICK a \in 1..(n + 1) : Done(s, e, a) /\ HeaderShape(s, n, p, e, a)
  BY <1>3
<1>5. /\ a >= e + 2 /\ s[a - 2] = "CR" /\ s[a - 1] = "LF" /\ s[e + 1] = "LF" /\ e >= 3
      /\ NoCR(s, 1, e - 1)
  <2>1. e >= 3 /\ a >= e + 2 /\ (a - 2) + 1 = a - 1
    BY <1>4 DEF Done, FirstLine
  <2>2. QED
    BY <1>4, <2>1 DEF Done, End
<1>6. a = n + 1
  <2>1. a > n - 1
    BY <1>1, <1>4 DEF HeaderShape, NoCR
  <2>2. a # n
    BY <1>1, <1>5
  <2>3. QED
    BY <1>1, <2>1, <2>2
<1>7. n >= 4 /\ s[n - 3] = "CR" /\ s[n - 2] = "LF"
  BY <1>1, <1>5, <1>6
<1>8. e # n - 1 /\ e # n - 2
  <2>1. ~(n - 3 \in 1..(e - 1))
    BY <1>5, <1>7 DEF NoCR
  <2>2. e # n - 1 /\ e # n - 2
    BY <1>1, <1>7, <2>1
  <2>3. QED
    BY <2>2
<1>9. PICK x \in Nat : x = n - 1
  BY <1>1
<1>10. x \in (e + 2)..(a - 1) /\ x \in x..(a - 2)
  BY <1>1, <1>5, <1>6, <1>8, <1>9
<1>11. End(s, x - 2) /\ End(s, x)
  <2>1. x - 2 = n - 3 /\ (x - 2) + 1 = n - 2 /\ x + 1 = n
    BY <1>1, <1>9
  <2>2. QED
    BY <1>1, <1>7, <1>9, <2>1 DEF End
<1>12. OtherLine(s, e, x, x - 1)
  BY <1>4, <1>10, <1>11 DEF Done
<1>13. QED
  BY <1>12 DEF OtherLine, Field, Continued

(* The first i characters of s are a head, and h are its headers.          *)
Ended(s, i, h) ==
    \E e \in 1..(i - 1) : Done(s, e, i - 1) /\ End(s, i - 1) /\ Told(s, i, "good", h)

(* Parser r has been fed the first n characters of s.                      *)
Follows(r, s, n) ==
    /\ r \in ParserType /\ r.consumed \in 0..n
    /\ r.result = "indeterminate" =>
        r.consumed = n /\ Shape(s, n, r.state_, r.headers) /\ Told(s, n, r.state_, r.headers)
    /\ r.result = "good" =>
        /\ r.consumed >= 1 /\ IsHead(SubSeq(s, 1, r.consumed))
        /\ Ended(s, r.consumed, r.headers)
    /\ r.result = "bad" =>
        /\ r.consumed >= 1 /\ Shape(s, r.consumed - 1, r.state_, r.headers)
        /\ \A q \in State \cup {"good"} :
            ~Leads(r.state_, s[r.consumed], q, r.headers)

LEMMA FollowsOn ==
  ASSUME NEW s \in Seq(Char), NEW n \in Nat, n < Len(s), NEW r, Follows(r, s, n),
         NEW t, t = consume(r, s[n + 1])
  PROVE  Follows(t, s, n + 1)
<1>1. Len(s) \in Nat /\ n + 1 \in 1..Len(s) /\ s[n + 1] \in Char
  BY LenProperties, ElementOfSeq
<1>2. CASE r.result # "indeterminate"
  <2>1. t = r
    BY <1>2 DEF consume
  <2>2. QED
    BY <1>2, <2>1 DEF Follows
<1>3. CASE r.result = "indeterminate"
  <2>1. /\ r \in ParserType /\ r.consumed = n /\ Shape(s, n, r.state_, r.headers)
        /\ Told(s, n, r.state_, r.headers)
        /\ r.state_ \in State /\ r.headers \in Seq(Header)
    BY <1>3 DEF Follows, ParserType
  <2>2. /\ t.consumed = n + 1
        /\ \/ /\ t.result = "bad" /\ t.state_ = r.state_ /\ t.headers = r.headers
              /\ \A q \in State \cup {"good"} : ~Leads(r.state_, s[n + 1], q, r.headers)
           \/ /\ t.result = "good" /\ t.state_ = r.state_ /\ t.headers = r.headers
              /\ Leads(r.state_, s[n + 1], "good", r.headers)
           \/ /\ t.result = "indeterminate" /\ t.state_ \in State
              /\ Leads(r.state_, s[n + 1], t.state_, r.headers)
              /\ t.headers = Collect(r.state_, s[n + 1], t.state_, r.headers)
    BY <1>3, <2>1, Consumes
  <2>3. t = [state_ |-> t.state_, headers |-> t.headers, result |-> t.result,
             consumed |-> t.consumed]
    BY <1>3, <2>1, <2>2 DEF consume, ParserType
  <2>4. CASE t.result = "bad"
    <3>1. /\ t.state_ = r.state_ /\ t.headers = r.headers
          /\ \A q \in State \cup {"good"} : ~Leads(r.state_, s[n + 1], q, r.headers)
      BY <2>2, <2>4
    <3>2. t \in ParserType
      BY <2>1, <2>2, <2>3, <2>4, <3>1 DEF ParserType
    <3>3. (n + 1) - 1 = n
      OBVIOUS
    <3>4. QED
      BY <2>1, <2>2, <2>4, <3>1, <3>2, <3>3 DEF Follows
  <2>5. CASE t.result = "good"
    <3>1. /\ t.state_ = r.state_ /\ t.headers = r.headers
          /\ Leads(r.state_, s[n + 1], "good", r.headers)
      BY <2>2, <2>5
    <3>2. t \in ParserType
      BY <2>1, <2>2, <2>3, <2>5, <3>1 DEF ParserType
    <3>3. r.state_ = "expecting_newline_3" /\ s[n + 1] = "LF"
      BY <3>1 DEF Leads, RequestLine, VersionName, VersionNumber, LineStart, HeaderLine
    <3>4. InHeaders(s, n, r.state_, r.headers)
      BY <2>1, <3>3, Parts DEF Shape, FirstLineStates
    <3>5. PICK e \in 1..n : \E a \in 1..(n + 1) :
            Done(s, e, a) /\ HeaderShape(s, n, r.state_, e, a)
      BY <3>4 DEF InHeaders
    <3>6. PICK a \in 1..(n + 1) : Done(s, e, a) /\ HeaderShape(s, n, r.state_, e, a)
      BY <3>5
    <3>7. n = a /\ s[a] = "CR"
      BY <3>3, <3>6 DEF HeaderShape
    <3> DEFINE u == SubSeq(s, 1, n + 1)
    <3>8. /\ u \in Seq(Char) /\ Len(u) = n + 1
          /\ \A j \in 1..(n + 1) : u[j] = s[j]
      <4>1. n + 1 \in Nat /\ n + 1 <= Len(s)
        BY <1>1
      <4>2. QED
        BY <4>1, PrefixOf
    <3> HIDE DEF u
    <3>9. Done(u, e, a)
      <4>1. \A j \in 1..(a - 1) : s[j] = u[j]
        BY <3>7, <3>8
      <4>2. QED
        BY <3>6, <4>1, SameDone
    <3>10. End(u, a)
      BY <3>3, <3>7, <3>8 DEF End
    <3>11. IsHead(u)
      <4>1. e \in Nat \ {0} /\ a \in Nat /\ Len(u) = a + 1
        BY <3>7, <3>8
      <4>2. QED
        BY <3>8, <3>9, <3>10, <4>1, DoneIsHead
    <3>12. Ended(s, n + 1, t.headers)
      <4>1. Collect(r.state_, s[n + 1], "good", r.headers) = r.headers
        BY <3>3 DEF Collect
      <4>2. Told(s, n + 1, "good", t.headers)
        BY <1>1, <2>1, <3>1, <4>1, ToldOn
      <4>3. (n + 1) - 1 = n /\ e \in 1..n /\ Done(s, e, n) /\ End(s, n)
        BY <3>3, <3>6, <3>7 DEF End
      <4>4. QED
        BY <4>2, <4>3 DEF Ended
    <3>13. QED
      BY <2>2, <2>5, <3>2, <3>11, <3>12 DEF Follows, u
  <2>6. CASE t.result = "indeterminate"
    <3>1. /\ t.state_ \in State
          /\ Leads(r.state_, s[n + 1], t.state_, r.headers)
          /\ t.headers = Collect(r.state_, s[n + 1], t.state_, r.headers)
      BY <2>2, <2>6
    <3>2. Shape(s, n + 1, t.state_, t.headers) /\ t.headers \in Seq(Header)
      BY <1>1, <2>1, <3>1, ShapeLeads
    <3>3. t \in ParserType
      BY <2>1, <2>2, <2>3, <2>6, <3>1, <3>2 DEF ParserType
    <3>4. Told(s, n + 1, t.state_, t.headers)
      BY <1>1, <2>1, <3>1, ToldOn
    <3>5. QED
      BY <2>2, <2>6, <3>2, <3>3, <3>4 DEF Follows
  <2>7. QED
    BY <2>2, <2>4, <2>5, <2>6
<1>4. QED
  BY <1>2, <1>3

LEMMA FollowsPiece ==
  ASSUME NEW s \in Seq(Char), NEW piece \in Seq(Char), NEW r, r.result = "indeterminate",
         Follows(r, s, Len(s)), NEW t, t = s \o piece
  PROVE  Follows(Fed(r, piece), t, Len(t)) /\ t \in Seq(Char)
<1>1. /\ Len(s) \in Nat /\ Len(piece) \in Nat /\ t \in Seq(Char)
      /\ Len(t) = Len(s) + Len(piece)
      /\ \A j \in 1..Len(s) : s[j] = t[j]
      /\ \A j \in 1..Len(piece) : t[Len(s) + j] = piece[j]
  <2>1. Len(s) \in Nat /\ Len(piece) \in Nat
    BY LenProperties
  <2>2. /\ t \in Seq(Char) /\ Len(t) = Len(s) + Len(piece)
        /\ \A j \in 1..(Len(s) + Len(piece)) :
            t[j] = IF j <= Len(s) THEN s[j] ELSE piece[j - Len(s)]
    BY ConcatProperties
  <2>3. \A j \in 1..Len(piece) : ~(Len(s) + j <= Len(s)) /\ (Len(s) + j) - Len(s) = j
    BY <2>1
  <2>4. QED
    BY <2>1, <2>2, <2>3
<1>2. PICK f : After(f, r, piece) /\ Fed(r, piece) = f[Len(piece)]
  BY <1>1, FedSteps
<1>3. Follows(r, t, Len(s))
  <2>1. Shape(t, Len(s), r.state_, r.headers)
    BY <1>1, SameShape DEF Follows
  <2>2. Told(t, Len(s), r.state_, r.headers)
    BY <1>1, SameTold DEF Follows, ParserType
  <2>3. QED
    BY <2>1, <2>2 DEF Follows
<1> DEFINE S == {j \in Nat : j <= Len(piece) => Follows(f[j], t, Len(s) + j)}
<1>4. 0 \in S
  BY <1>1, <1>2, <1>3 DEF After
<1>5. ASSUME NEW j \in Nat, j \in S PROVE j + 1 \in S
  <2> SUFFICES ASSUME j + 1 <= Len(piece) PROVE Follows(f[j + 1], t, Len(s) + (j + 1))
    OBVIOUS
  <2>1. Follows(f[j], t, Len(s) + j) /\ j + 1 \in 1..Len(piece)
    BY <1>1, <1>5
  <2>2. f[j + 1] = consume(f[(j + 1) - 1], piece[j + 1]) /\ (j + 1) - 1 = j
    BY <1>2, <2>1 DEF After
  <2>3. t[(Len(s) + j) + 1] = piece[j + 1]
    <3>1. (Len(s) + j) + 1 = Len(s) + (j + 1)
      BY <1>1
    <3>2. QED
      BY <1>1, <2>1, <3>1
  <2>4. Len(s) + j \in Nat /\ Len(s) + j < Len(t)
    BY <1>1, <2>1
  <2>5. Follows(f[j + 1], t, (Len(s) + j) + 1)
    BY <1>1, <2>1, <2>2, <2>3, <2>4, FollowsOn
  <2>6. QED
    BY <1>1, <2>5
<1>6. Len(piece) \in S
  <2> HIDE DEF S
  <2>1. QED
    BY <1>1, <1>4, <1>5, Induction
<1>7. QED
  BY <1>1, <1>2, <1>6

-----------------------------------------------------------------------------
(* The parser, whatever it is sent and however that is cut into pieces.    *)

PiecesOfText == MaxPieces \in Nat /\ \A s \in Seq(Char) : Pieces(s) \in SUBSET Seq(Char)

Inv ==
    /\ input \in Seq(Char) /\ pieces \in 0..MaxPieces
    /\ Follows(parser, input, Len(input))

LEMMA ParseFollows ==
  ASSUME PiecesOfText, Inv, [Next]_vars
  PROVE  Inv'
<1>1. CASE Next
  <2>1. PICK piece \in Pieces(input) : parse(piece)
    BY <1>1 DEF Next
  <2>2. piece \in Seq(Char)
    BY <2>1 DEF PiecesOfText, Inv
  <2>3. Follows(Fed(parser, piece), input \o piece, Len(input \o piece))
        /\ input \o piece \in Seq(Char)
    <3>1. parser.result = "indeterminate"
      BY <2>1 DEF parse, parser
    <3>2. QED
      BY <2>2, <3>1, FollowsPiece DEF Inv
  <2>4. parser' = Fed(parser, piece)
    <3>1. PICK r : r = Fed(parser, piece)
      OBVIOUS
    <3>2. r \in ParserType
      BY <2>3, <3>1 DEF Follows
    <3>3. parser' = [state_ |-> r.state_, headers |-> r.headers, result |-> r.result,
                     consumed |-> r.consumed]
      BY <2>1, <3>1 DEF parse, parser
    <3>4. QED
      BY <3>1, <3>2, <3>3 DEF ParserType
  <2>5. input' = input \o piece /\ pieces' \in 0..MaxPieces
    BY <2>1 DEF parse, Inv, PiecesOfText
  <2>6. QED
    BY <2>3, <2>4, <2>5 DEF Inv
<1>2. CASE UNCHANGED vars
  BY <1>2 DEF vars, Inv, parser
<1>3. QED
  BY <1>1, <1>2

LEMMA InitFollows ==
  ASSUME PiecesOfText, Init
  PROVE  Inv
<1>1. input = <<>> /\ input \in Seq(Char) /\ Len(input) = 0
  BY EmptySeq DEF Init
<1>2. parser \in ParserType
  <2>1. headers \in Seq(Header)
    BY EmptySeq DEF Init
  <2>2. QED
    BY <2>1 DEF Init, parser, ParserType, State
<1>3. LineShape(input, 0, "method_start")
  BY DEF LineShape, NoCR
<1>4. Shape(input, 0, parser.state_, parser.headers)
  BY <1>3 DEF Shape, Init, parser
<1>5. parser.result = "indeterminate" /\ parser.consumed = 0
  BY DEF Init, parser
<1>6. Told(input, 0, parser.state_, parser.headers)
  <2>1. parser.headers = <<>>
    BY DEF Init, parser
  <2>2. PICK from : from = [n \in 1..0 |-> 0]
    OBVIOUS
  <2>3. Split(input, 0, <<>>, from)
    BY <2>2 DEF Split
  <2>4. QED
    BY <2>1, <2>3 DEF Told
<1>7. Follows(parser, input, 0)
  BY <1>2, <1>4, <1>5, <1>6 DEF Follows
<1>8. QED
  BY <1>1, <1>7 DEF Init, Inv, PiecesOfText

LEMMA Invariance ==
  ASSUME PiecesOfText
  PROVE  Spec => []Inv
<1>1. Init => Inv
  BY InitFollows
<1>2. Inv /\ [Next]_vars => Inv'
  BY ParseFollows
<1>3. QED
  BY <1>1, <1>2, PTL DEF Spec

(* The parser is always in one of its states, collects headers whose names *)
(* are tokens and whose values are text, and has consumed no more than it  *)
(* was given.                                                              *)
THEOREM Typed ==
  ASSUME PiecesOfText
  PROVE  Spec => []TypeOK
<1>1. Inv => TypeOK
  <2> SUFFICES ASSUME Inv PROVE TypeOK
    OBVIOUS
  <2>1. parser \in ParserType /\ parser.consumed \in 0..Len(input)
    BY DEF Inv, Follows
  <2>2. /\ parser.state_ = state_ /\ parser.headers = headers
        /\ parser.result = result /\ parser.consumed = consumed
    BY DEF parser
  <2>3. QED
    BY <2>1, <2>2 DEF Inv, TypeOK, ParserType, Header
<1>2. QED
  BY <1>1, Invariance, PTL

(* The parser accepts just the heads, and stops behind the last character  *)
(* of one, whatever it is sent and however that is cut.                    *)
THEOREM AcceptsJustHeads ==
  ASSUME PiecesOfText
  PROVE  Spec => []GoodIsHead
<1>1. Inv => GoodIsHead
  <2> SUFFICES ASSUME Inv PROVE GoodIsHead
    OBVIOUS
  <2>1. /\ Follows(parser, input, Len(input)) /\ input \in Seq(Char) /\ Len(input) \in Nat
        /\ parser.result = result /\ parser.consumed = consumed
        /\ parser.state_ = state_ /\ parser.headers = headers
    BY LenProperties DEF Inv, parser
  <2>2. /\ consumed \in 0..Len(input) /\ result \in {"good", "bad", "indeterminate"}
        /\ state_ \in State
    BY <2>1 DEF Follows, ParserType
  <2>3. /\ Seen \in Seq(Char) /\ Len(Seen) = consumed
        /\ \A j \in 1..consumed : Seen[j] = input[j]
    BY <2>1, <2>2, PrefixOf DEF Seen
  <2>4. CASE result = "good"
    BY <2>1, <2>4 DEF Follows, GoodIsHead, Seen
  <2>5. CASE result = "bad"
    <3> SUFFICES ASSUME IsHead(Seen) PROVE FALSE
      BY <2>5 DEF GoodIsHead
    <3>1. /\ consumed >= 1 /\ Shape(input, consumed - 1, state_, headers)
          /\ ~Leads(state_, input[consumed], "good", headers)
      BY <2>1, <2>5 DEF Follows
    <3>2. Shape(Seen, consumed - 1, state_, headers)
      <4>1. consumed - 1 \in Nat /\ \A j \in 1..(consumed - 1) : input[j] = Seen[j]
        BY <2>2, <2>3, <3>1
      <4>2. QED
        BY <3>1, <4>1, SameShape
    <3>3. state_ = "expecting_newline_3" /\ Seen[consumed] = "LF"
      BY <2>3, <3>2, LastOfHead
    <3>4. HeaderLine(state_, input[consumed], "good")
      BY <2>2, <2>3, <3>1, <3>3 DEF HeaderLine
    <3>5. QED
      BY <3>1, <3>4 DEF Leads
  <2>6. CASE result = "indeterminate"
    <3> SUFFICES ASSUME IsHead(Seen) PROVE FALSE
      BY <2>6 DEF GoodIsHead
    <3>1. consumed = Len(input) /\ Shape(input, consumed, state_, headers)
      BY <2>1, <2>6 DEF Follows
    <3>2. Shape(Seen, consumed, state_, headers)
      BY <2>2, <2>3, <3>1, SameShape
    <3>3. QED
      BY <2>3, <3>2, ShapeNoHead
  <2>7. QED
    BY <2>2, <2>4, <2>5, <2>6
<1>2. QED
  BY <1>1, Invariance, PTL

-----------------------------------------------------------------------------
(* From every state the parser can be led to the end of a head.            *)

(* Character c leads from p to q whatever headers there are.               *)
Surely(p, c, q) == \A h : Leads(p, c, q, h)

(* Behind i, the rest of s is the rest of L from l on, and leads along P.  *)
Led(s, i, l, n, P, L) ==
    /\ Len(s) = i + (n - l + 1)
    /\ \A m \in l..n : P[m] \in State /\ L[m] = s[i + (m - l + 1)]
    /\ \A m \in l..(n - 1) : Surely(P[m], L[m], P[m + 1])
    /\ P[n] = "expecting_newline_3" /\ L[n] = "LF"

LEMMA PathToEnd ==
  ASSUME NEW s \in Seq(Char), NEW i \in Nat, NEW n \in Nat, NEW l \in 1..n, NEW P, NEW L,
         Led(s, i, l, n, P, L), NEW h \in Seq(Header), Shape(s, i, P[l], h)
  PROVE  IsHead(s)
<1> USE DEF Led
<1> DEFINE S == {k \in Nat : l + k <= n =>
                    \E g \in Seq(Header) : Shape(s, i + k, P[l + k], g)}
<1>1. 0 \in S
  OBVIOUS
<1>2. ASSUME NEW k \in Nat, k \in S PROVE k + 1 \in S
  <2> SUFFICES ASSUME l + (k + 1) <= n
               PROVE  \E g \in Seq(Header) : Shape(s, i + (k + 1), P[l + (k + 1)], g)
    OBVIOUS
  <2>1. PICK m \in l..(n - 1) : m = l + k
    OBVIOUS
  <2>2. PICK j \in Nat : j = i + k
    OBVIOUS
  <2>3. PICK g \in Seq(Header) : Shape(s, j, P[m], g)
    BY <1>2, <2>1, <2>2
  <2>4. l + (k + 1) = m + 1 /\ i + (k + 1) = j + 1 /\ i + (m - l + 1) = j + 1
    BY <2>1, <2>2
  <2>5. /\ P[m] \in State /\ P[m + 1] \in State /\ L[m] = s[j + 1]
        /\ Leads(P[m], s[j + 1], P[m + 1], g)
    <3>1. m \in l..n /\ m + 1 \in l..n
      BY <2>1
    <3>2. Surely(P[m], L[m], P[m + 1])
      BY <2>1
    <3>3. P[m] \in State /\ P[m + 1] \in State /\ L[m] = s[i + (m - l + 1)]
      BY <3>1
    <3>4. QED
      BY <2>4, <3>2, <3>3 DEF Surely
  <2>6. s[j + 1] \in Char
    <3>1. j + 1 \in 1..Len(s)
      BY <2>1, <2>2
    <3>2. QED
      BY <3>1, ElementOfSeq
  <2>7. PICK f : f = Collect(P[m], s[j + 1], P[m + 1], g)
    OBVIOUS
  <2>8. Shape(s, j + 1, P[m + 1], f) /\ f \in Seq(Header)
    BY <2>3, <2>5, <2>6, <2>7, ShapeLeads
  <2>9. QED
    BY <2>4, <2>8
<1>3. n - l \in S
  <2>1. n - l \in Nat
    OBVIOUS
  <2> HIDE DEF S
  <2>2. QED
    BY <1>1, <1>2, <2>1, Induction
<1>4. PICK j \in Nat : j = i + (n - l)
  OBVIOUS
<1>5. \E g \in Seq(Header) : Shape(s, j, P[n], g)
  <2>1. l + (n - l) = n /\ n - l \in Nat
    OBVIOUS
  <2>2. QED
    BY <1>3, <1>4, <2>1
<1>6. Len(s) = j + 1 /\ s[j + 1] = "LF"
  <2>1. i + (n - l + 1) = j + 1 /\ n \in l..n
    BY <1>4
  <2>2. QED
    BY <2>1
<1>7. PICK g \in Seq(Header) : Shape(s, j, "expecting_newline_3", g)
  BY <1>5
<1>8. InHeaders(s, j, "expecting_newline_3", g)
  BY <1>7, Parts DEF Shape, FirstLineStates
<1>9. PICK e \in 1..j : \E a \in 1..(j + 1) :
        Done(s, e, a) /\ HeaderShape(s, j, "expecting_newline_3", e, a)
  BY <1>8 DEF InHeaders
<1>10. PICK a \in 1..(j + 1) :
        Done(s, e, a) /\ HeaderShape(s, j, "expecting_newline_3", e, a)
  BY <1>9
<1>11. a = j /\ s[a] = "CR"
  BY <1>10 DEF HeaderShape
<1>12. End(s, a) /\ e \in Nat \ {0} /\ a \in Nat /\ Len(s) = a + 1
  BY <1>6, <1>11 DEF End
<1>13. QED
  BY <1>10, <1>12, DoneIsHead

(* The endings, and where the parser is before each character of them.     *)
HeadText ==
    <<"x", "SP", "SP", "H", "T", "T", "P", "/", "digit", ".", "digit", "CR", "LF",
      "CR", "LF">>

HeadPath ==
    <<"method_start", "method", "uri", "http_version_h", "http_version_t_1",
      "http_version_t_2", "http_version_p", "http_version_slash",
      "http_version_major_start", "http_version_major", "http_version_minor_start",
      "http_version_minor", "expecting_newline_1", "header_line_start",
      "expecting_newline_3">>

FieldText == <<"x", ":", "SP", "CR", "LF", "CR", "LF">>

FieldPath(value) ==
    <<"header_line_start", "header_name", "space_before_header_value", value,
      "expecting_newline_2", "header_line_start", "expecting_newline_3">>

LEMMA HeadPathLeads ==
  /\ \A m \in 1..15 : HeadPath[m] \in State /\ HeadText[m] \in Char
  /\ \A m \in 1..14 : Surely(HeadPath[m], HeadText[m], HeadPath[m + 1])
  /\ HeadText \in Seq(Char) /\ Len(HeadText) = 15
<1>1. "x" \in Token
  BY DEF Token, Char, is_char, is_ctl, is_tspecial
<1>2. ASSUME NEW m \in 1..15 PROVE HeadPath[m] \in State /\ HeadText[m] \in Char
  <2>1. HeadPath \in Seq(State) /\ Len(HeadPath) = 15
    BY DEF HeadPath, State
  <2>2. HeadText \in Seq(Char) /\ Len(HeadText) = 15
    BY DEF HeadText, Char
  <2>3. QED
    BY <2>1, <2>2, ElementOfSeq
<1>3. HeadText \in Seq(Char) /\ Len(HeadText) = 15
  BY DEF HeadText, Char
<1>4. ASSUME NEW m \in 1..14, NEW p, NEW c, NEW q,
             p = HeadPath[m], c = HeadText[m], q = HeadPath[m + 1]
      PROVE  Surely(p, c, q)
  <2>1. CASE m \in {1, 2, 3}
    <3>1. RequestLine(p, c, q)
      BY <1>1, <1>4, <2>1 DEF HeadPath, HeadText, RequestLine
    <3>2. QED
      BY <3>1 DEF Surely, Leads
  <2>2. CASE m \in {4, 5, 6, 7, 8}
    <3>1. VersionName(p, c, q)
      BY <1>4, <2>2 DEF HeadPath, HeadText, VersionName
    <3>2. QED
      BY <3>1 DEF Surely, Leads
  <2>3. CASE m \in {9, 10, 11, 12, 13}
    <3>1. VersionNumber(p, c, q)
      BY <1>4, <2>3 DEF HeadPath, HeadText, VersionNumber
    <3>2. QED
      BY <3>1 DEF Surely, Leads
  <2>4. CASE m = 14
    <3>1. p = "header_line_start" /\ c = "CR" /\ q = "expecting_newline_3"
      BY <1>4, <2>4 DEF HeadPath, HeadText
    <3>2. QED
      BY <3>1 DEF Surely, Leads, LineStart
  <2>5. QED
    BY <1>4, <2>1, <2>2, <2>3, <2>4
<1>5. QED
  BY <1>2, <1>3, <1>4

LEMMA FieldPathLeads ==
  ASSUME NEW v \in {"header_value", "header_lws"}
  PROVE  /\ \A m \in 1..7 : FieldPath(v)[m] \in State /\ FieldText[m] \in Char
         /\ \A m \in (IF v = "header_value" THEN 1 ELSE 4)..6 :
                Surely(FieldPath(v)[m], FieldText[m], FieldPath(v)[m + 1])
         /\ FieldText \in Seq(Char) /\ Len(FieldText) = 7
<1>1. "x" \in Token
  BY DEF Token, Char, is_char, is_ctl, is_tspecial
<1>2. ASSUME NEW m \in 1..7 PROVE FieldPath(v)[m] \in State /\ FieldText[m] \in Char
  <2>1. v \in State
    BY DEF State
  <2>2. FieldPath(v) \in Seq(State) /\ Len(FieldPath(v)) = 7
    BY <2>1 DEF FieldPath, State
  <2>3. FieldText \in Seq(Char) /\ Len(FieldText) = 7
    BY DEF FieldText, Char
  <2>4. QED
    BY <2>2, <2>3, ElementOfSeq
<1>3. FieldText \in Seq(Char) /\ Len(FieldText) = 7
  BY DEF FieldText, Char
<1>4. ASSUME NEW m \in 1..6, v = "header_value" \/ m >= 4, NEW p, NEW c, NEW q,
             p = FieldPath(v)[m], c = FieldText[m], q = FieldPath(v)[m + 1]
      PROVE  Surely(p, c, q)
  <2>1. CASE m \in {1, 6}
    <3>1. \A h : LineStart(p, c, q, h = <<>>)
      BY <1>1, <1>4, <2>1 DEF FieldPath, FieldText, LineStart
    <3>2. QED
      BY <3>1 DEF Surely, Leads
  <2>2. CASE m \in {2, 3, 4, 5}
    <3>1. HeaderLine(p, c, q)
      BY <1>4, <2>2 DEF FieldPath, FieldText, HeaderLine
    <3>2. QED
      BY <3>1 DEF Surely, Leads
  <2>3. QED
    BY <2>1, <2>2
<1>5. QED
  BY <1>2, <1>3, <1>4

LEMMA EndingLeads ==
  ASSUME NEW s \in Seq(Char), NEW L \in Seq(Char), NEW n, n = Len(L), NEW l \in 1..n, NEW P,
         \A m \in l..n : P[m] \in State,
         \A m \in l..(n - 1) : Surely(P[m], L[m], P[m + 1]),
         P[n] = "expecting_newline_3", L[n] = "LF",
         NEW h \in Seq(Header), Shape(s, Len(s), P[l], h)
  PROVE  IsHead(s \o SubSeq(L, l, n))
<1> DEFINE w == SubSeq(L, l, n)
           t == s \o w
<1>1. n \in Nat /\ Len(s) \in Nat
  BY LenProperties
<1>2. /\ w \in Seq(Char) /\ Len(w) = n - l + 1
      /\ \A j \in 1..(n - l + 1) : w[j] = L[l + j - 1]
  <2>1. l \in Nat \ {0} /\ n <= Len(L) /\ l <= n + 1
    BY <1>1
  <2>2. QED
    BY <1>1, <2>1, PartOf
<1> HIDE DEF w
<1>3. /\ t \in Seq(Char) /\ Len(t) = Len(s) + Len(w)
      /\ \A j \in 1..(Len(s) + Len(w)) : t[j] = IF j <= Len(s) THEN s[j] ELSE w[j - Len(s)]
  BY <1>2, ConcatProperties
<1> HIDE DEF t
<1>4. Len(t) = Len(s) + (n - l + 1)
  BY <1>2, <1>3
<1>5. \A j \in 1..Len(s) : s[j] = t[j]
  BY <1>1, <1>2, <1>3
<1>6. ASSUME NEW m \in l..n PROVE L[m] = t[Len(s) + (m - l + 1)]
  <2>1. PICK j \in 1..(n - l + 1) : j = m - l + 1
    BY <1>1
  <2>2. w[j] = L[m]
    <3>1. l + j - 1 = m
      BY <1>1, <2>1
    <3>2. QED
      BY <1>2, <2>1, <3>1
  <2>3. /\ Len(s) + j \in 1..(Len(s) + Len(w)) /\ ~(Len(s) + j <= Len(s))
        /\ (Len(s) + j) - Len(s) = j
    BY <1>1, <1>2, <2>1
  <2>4. QED
    BY <1>3, <2>1, <2>2, <2>3
<1>7. Shape(t, Len(s), P[l], h)
  BY <1>1, <1>5, SameShape
<1>8. IsHead(t)
  <2>1. Led(t, Len(s), l, n, P, L)
    BY <1>4, <1>6 DEF Led
  <2>2. QED
    BY <1>1, <1>3, <1>7, <2>1, PathToEnd
<1>9. QED
  BY <1>8 DEF t, w

LEMMA EveryStateEnds ==
  ASSUME NEW s \in Seq(Char), NEW p \in State, NEW h \in Seq(Header), Shape(s, Len(s), p, h)
  PROVE  \E w \in Endings : IsHead(s \o w)
<1>1. ASSUME NEW l \in 1..15, p = HeadPath[l] PROVE \E w \in Endings : IsHead(s \o w)
  <2>1. 15 = Len(HeadText) /\ HeadText \in Seq(Char)
    BY HeadPathLeads
  <2>2. /\ \A m \in l..15 : HeadPath[m] \in State
        /\ \A m \in l..(15 - 1) : Surely(HeadPath[m], HeadText[m], HeadPath[m + 1])
    <3>1. l..15 \subseteq 1..15 /\ l..(15 - 1) \subseteq 1..14
      OBVIOUS
    <3>2. QED
      BY <3>1, HeadPathLeads, Zenon
  <2>3. HeadPath[15] = "expecting_newline_3" /\ HeadText[15] = "LF"
    BY DEF HeadPath, HeadText
  <2>4. IsHead(s \o SubSeq(HeadText, l, 15))
    BY <1>1, <2>1, <2>2, <2>3, EndingLeads
  <2>5. SubSeq(HeadText, l, 15) \in Endings
    <3>1. SubSeq(HeadText, l, 15) \in Suffixes(HeadText)
      BY <2>1 DEF Suffixes
    <3>2. QED
      BY <3>1 DEF Endings, HeadText
  <2>6. QED
    BY <2>4, <2>5
<1>2. ASSUME NEW v \in {"header_value", "header_lws"}, NEW l \in 1..7, p = FieldPath(v)[l],
             v = "header_value" \/ l >= 4
      PROVE  \E w \in Endings : IsHead(s \o w)
  <2>1. 7 = Len(FieldText) /\ FieldText \in Seq(Char)
    BY FieldPathLeads
  <2>2. /\ \A m \in l..7 : FieldPath(v)[m] \in State
        /\ \A m \in l..(7 - 1) : Surely(FieldPath(v)[m], FieldText[m], FieldPath(v)[m + 1])
    <3> DEFINE from == IF v = "header_value" THEN 1 ELSE 4
    <3>1. l..7 \subseteq 1..7 /\ l..(7 - 1) \subseteq from..6
      BY <1>2
    <3>2. /\ \A m \in 1..7 : FieldPath(v)[m] \in State
          /\ \A m \in from..6 : Surely(FieldPath(v)[m], FieldText[m], FieldPath(v)[m + 1])
      BY FieldPathLeads
    <3>3. QED
      BY <3>1, <3>2, Zenon
  <2>3. FieldPath(v)[7] = "expecting_newline_3" /\ FieldText[7] = "LF"
    BY DEF FieldPath, FieldText
  <2>4. IsHead(s \o SubSeq(FieldText, l, 7))
    <3> DEFINE P == FieldPath(v)
    <3>1. /\ \A m \in l..7 : P[m] \in State
          /\ \A m \in l..(7 - 1) : Surely(P[m], FieldText[m], P[m + 1])
          /\ P[7] = "expecting_newline_3" /\ p = P[l]
      BY <1>2, <2>2, <2>3
    <3> HIDE DEF P
    <3>2. QED
      BY <2>1, <2>3, <3>1, EndingLeads
  <2>5. SubSeq(FieldText, l, 7) \in Endings
    <3>1. SubSeq(FieldText, l, 7) \in Suffixes(FieldText)
      BY <2>1 DEF Suffixes
    <3>2. QED
      BY <3>1 DEF Endings, FieldText
  <2>6. QED
    BY <2>4, <2>5
<1>3. CASE p \in FirstLineStates \cup {"header_line_start", "expecting_newline_3"}
  <2>1. \E l \in 1..15 : p = HeadPath[l]
    <3>1. p \in {"method_start", "method", "uri", "http_version_h", "http_version_t_1"}
            => \E l \in {1, 2, 3, 4, 5} : p = HeadPath[l]
      BY DEF HeadPath
    <3>2. p \in {"http_version_t_2", "http_version_p", "http_version_slash",
                 "http_version_major_start", "http_version_major"}
            => \E l \in {6, 7, 8, 9, 10} : p = HeadPath[l]
      BY DEF HeadPath
    <3>3. p \in {"http_version_minor_start", "http_version_minor", "expecting_newline_1",
                 "header_line_start", "expecting_newline_3"}
            => \E l \in {11, 12, 13, 14, 15} : p = HeadPath[l]
      BY DEF HeadPath
    <3>4. QED
      BY <1>3, <3>1, <3>2, <3>3 DEF FirstLineStates
  <2>2. QED
    BY <1>1, <2>1
<1>4. CASE p \in {"header_name", "space_before_header_value", "header_value",
                  "expecting_newline_2"}
  <2>1. \E l \in 1..7 : p = FieldPath("header_value")[l]
    <3>1. \E l \in {2, 3, 4, 5} : p = FieldPath("header_value")[l]
      BY <1>4 DEF FieldPath
    <3>2. QED
      BY <3>1
  <2>2. QED
    BY <1>2, <2>1
<1>5. CASE p = "header_lws"
  <2>1. p = FieldPath("header_lws")[4]
    BY <1>5 DEF FieldPath
  <2>2. QED
    BY <1>2, <2>1
<1>6. QED
  BY <1>3, <1>4, <1>5 DEF State, FirstLineStates

LEMMA EndingsAreText == Endings \in SUBSET Seq(Char)
<1>1. ASSUME NEW L \in Seq(Char), NEW w \in Suffixes(L) PROVE w \in Seq(Char)
  <2>1. CASE w = <<>>
    BY <2>1, EmptySeq
  <2>2. CASE \E l \in 1..Len(L) : w = SubSeq(L, l, Len(L))
    <3>1. PICK l \in 1..Len(L) : w = SubSeq(L, l, Len(L))
      BY <2>2
    <3>2. l \in Nat \ {0} /\ Len(L) \in Nat /\ Len(L) <= Len(L) /\ l <= Len(L) + 1
      BY LenProperties
    <3>3. QED
      BY <3>1, <3>2, PartOf
  <2>3. QED
    BY <2>1, <2>2 DEF Suffixes
<1>2. Endings = Suffixes(HeadText) \cup Suffixes(FieldText)
  BY DEF Endings, HeadText, FieldText
<1>3. HeadText \in Seq(Char) /\ FieldText \in Seq(Char)
  BY HeadPathLeads, FieldPathLeads
<1>4. QED
  BY <1>1, <1>2, <1>3

-----------------------------------------------------------------------------
(* Wherever the parser is in a head, the next character leads on.          *)

LEMMA FirstLineText ==
  ASSUME NEW s, NEW e \in Nat, FirstLine(s, e)
  PROVE  NoCR(s, 1, e - 1)
<1>1. PICK m, k, d \in 1..(e - 2) :
        UriFrom(s, m, k - 1) /\ s[k] = "SP" /\ Name(s, k) /\ Number(s, k, d, e - 1)
  BY Zenon DEF FirstLine
<1>2. ASSUME NEW j \in 1..(e - 1) PROVE s[j] # "CR"
  <2>1. CASE j <= k - 1
    <3>1. s[j] \in Token \/ s[j] = "SP" \/ s[j] \in Text
      BY <1>1, <2>1 DEF UriFrom, All
    <3>2. QED
      BY <3>1, Classes
  <2>2. CASE j \in k..(k + 5)
    <3>1. j = k \/ j = k + 1 \/ j = k + 2 \/ j = k + 3 \/ j = k + 4 \/ j = k + 5
      BY <2>2
    <3>2. QED
      BY <1>1, <3>1 DEF Name
  <2>3. CASE j >= k + 6
    BY <1>1, <2>3 DEF Number
  <2>4. QED
    BY <2>1, <2>2, <2>3
<1>3. QED
  BY <1>2 DEF NoCR

LEMMA OtherLineText ==
  ASSUME NEW s, NEW e \in Nat, NEW a \in Nat, NEW b \in Nat, OtherLine(s, e, a, b)
  PROVE  All(s, a, b, Text \cup Blank) /\ NoCR(s, a, b)
<1>1. CASE Field(s, a, b)
  <2>1. PICK n \in (a + 1)..(b - 1) :
            /\ All(s, a, n - 1, Token) /\ s[n] = ":" /\ s[n + 1] = "SP"
            /\ All(s, n + 2, b, Text)
    BY <1>1 DEF Field
  <2>2. ASSUME NEW j \in a..b PROVE s[j] \in Text
    <3>1. j \in a..(n - 1) \/ j = n \/ j = n + 1 \/ j \in (n + 2)..b
      BY <2>1
    <3>2. QED
      BY <2>1, <3>1, Classes DEF All
  <2>3. QED
    BY <2>2, Classes DEF All, NoCR
<1>2. CASE Continued(s, a, b)
  <2>1. PICK n \in a..b : All(s, a, n, Blank) /\ All(s, n + 1, b, Text)
    BY <1>2 DEF Continued
  <2>2. ASSUME NEW j \in a..b PROVE s[j] \in Text \cup Blank
    BY <2>1, <2>2 DEF All
  <2>3. QED
    BY <2>2, Classes DEF All, NoCR
<1>3. QED
  BY <1>1, <1>2 DEF OtherLine

(* What a head has to offer at each place of it.                           *)
LEMMA HeadLines ==
  ASSUME NEW s \in Seq(Char), NEW n, n = Len(s), IsHead(s)
  PROVE  \E e \in Nat \ {0} :
            /\ FirstLine(s, e) /\ End(s, e) /\ e < n
            /\ \A a \in 3..n : End(s, a - 2) =>
                \E y \in a..(n - 1) : End(s, y) /\ (y = a \/ OtherLine(s, e, a, y - 1))
<1> DEFINE first == {line \in Lines(s) : line[1] = 1}
           last == {line \in Lines(s) : line[1] = line[2]}
<1>1. n \in Nat
  BY LenProperties
<1>2. /\ \E line \in first : IsRequestLine(LineOf(s, line))
      /\ last = {<<n - 1, n - 1>>}
      /\ \A line \in Lines(s) \ (first \cup last) :
            \/ IsField(LineOf(s, line))
            \/ /\ IsContinuation(LineOf(s, line))
               /\ \A f \in first : f[2] + 2 # line[1]
  BY Zenon DEF IsHead
<1>3. PICK line \in first : IsRequestLine(LineOf(s, line))
  BY <1>2
<1>4. PICK e \in Nat : line = <<1, e>> /\ e >= 1 /\ e \in Ends(s)
  BY <1>3, LinesArePairs
<1>5. /\ \A z : z \in Ends(s) <=> z \in 1..(n - 1) /\ End(s, z)
      /\ \A x, y \in Nat :
                /\ x <= y /\ y \in Ends(s)
                /\ x = 1 \/ x - 2 \in Ends(s)
                /\ \A z \in Ends(s) : ~(x <= z /\ z < y)
                => <<x, y>> \in Lines(s)
  BY LinesArePairs
<1>6. FirstLine(s, e) /\ End(s, e) /\ e < n
  <2>1. End(s, e) /\ e < n
    BY <1>1, <1>4, <1>5
  <2>2. IsRequestLine(SubSeq(s, 1, e - 1))
    BY <1>3, <1>4 DEF LineOf
  <2>3. FirstLine(s, e)
    BY <1>1, <1>4, <2>1, <2>2, RequestLinePlaces
  <2>4. QED
    BY <2>1, <2>3
<1>7. ASSUME NEW a \in 3..n, End(s, a - 2)
      PROVE  \E y \in a..(n - 1) : End(s, y) /\ (y = a \/ OtherLine(s, e, a, y - 1))
  <2>1. n - 1 \in Ends(s) /\ a # n
    <3>1. n >= 2 /\ s[n - 1] = "CR" /\ s[n] = "LF"
      BY HeadEnds
    <3>2. s[a - 1] = "LF" /\ (n - 1) + 1 = n
      <4>1. (a - 2) + 1 = a - 1
        OBVIOUS
      <4>2. QED
        BY <1>1, <1>7, <4>1 DEF End
    <3>3. QED
      BY <1>1, <1>5, <3>1, <3>2 DEF End
  <2> DEFINE S == {z \in Ends(s) : z >= a}
  <2>2. S \in SUBSET Nat /\ n - 1 \in S
    BY <1>1, <1>5, <2>1
  <2>3. PICK y \in S : \A z \in S : y <= z
    <3> HIDE DEF S
    <3>1. QED
      BY <2>2, Least
  <2>4. y \in a..(n - 1) /\ End(s, y) /\ y \in Ends(s)
    BY <1>1, <1>5, <2>3
  <2>5. <<a, y>> \in Lines(s)
    <3>1. \A z \in Ends(s) : ~(a <= z /\ z < y)
      BY <1>1, <1>5, <2>3, <2>4
    <3>2. a - 2 \in Ends(s)
      BY <1>1, <1>5, <1>7
    <3>3. QED
      BY <1>1, <1>5, <2>4, <3>1, <3>2
  <2>6. CASE y # a
    <3>1. <<a, y>> \notin first \cup last
      BY <2>6
    <3>2. \/ IsField(LineOf(s, <<a, y>>))
          \/ /\ IsContinuation(LineOf(s, <<a, y>>))
             /\ \A f \in first : f[2] + 2 # <<a, y>>[1]
      BY <1>2, <2>5, <3>1
    <3>3. line \in first /\ line[2] = e
      BY <1>3, <1>4
    <3>4. IsField(SubSeq(s, a, y - 1)) \/ (IsContinuation(SubSeq(s, a, y - 1)) /\ a # e + 2)
      BY <3>2, <3>3 DEF LineOf
    <3>5. a \in Nat \ {0} /\ y \in Nat /\ y <= Len(s) /\ a <= y
      BY <1>1, <2>4
    <3>6. OtherLine(s, e, a, y - 1)
      BY <3>4, <3>5, FieldPlaces, ContinuationPlaces DEF OtherLine
    <3>7. QED
      BY <2>4, <3>6
  <2>7. QED
    BY <2>4, <2>6
<1>8. QED
  BY <1>4, <1>6, <1>7

LEMMA FirstLineGoesOn ==
  ASSUME NEW s, NEW i \in Nat, NEW p, NEW h, LineShape(s, i, p),
         NEW e \in Nat \ {0}, FirstLine(s, e), End(s, e)
  PROVE  \E q \in State : Leads(p, s[i + 1], q, h)
<1> DEFINE c == s[i + 1]
<1>1. PICK m, k, d \in 1..(e - 2) :
        UriFrom(s, m, k - 1) /\ s[k] = "SP" /\ Name(s, k) /\ Number(s, k, d, e - 1)
  BY Zenon DEF FirstLine
<1>2. /\ m \in 2..(k - 1) /\ s[m] = "SP" /\ s[k] = "SP"
      /\ \A j \in 1..(m - 1) : s[j] \in Token
      /\ \A j \in (m + 1)..(k - 1) : s[j] \in Text \ {"SP"}
      /\ d \in (k + 7)..(e - 2) /\ s[d] = "."
      /\ \A j \in (k + 6)..(e - 1) : j # d => s[j] = "digit"
  <2>1. /\ m \in 2..(k - 1) /\ s[m] = "SP"
        /\ \A j \in 1..(m - 1) : s[j] \in Token
        /\ \A j \in (m + 1)..(k - 1) : s[j] \in Text \ {"SP"}
    BY <1>1 DEF UriFrom, All
  <2>2. /\ d \in (k + 7)..(e - 2) /\ s[d] = "."
        /\ \A j \in (k + 6)..(e - 1) : j # d => s[j] = "digit"
    BY <1>1 DEF Number
  <2>3. QED
    BY <1>1, <2>1, <2>2
<1>3. s[e] = "CR" /\ s[e + 1] = "LF"
  BY DEF End
<1>4. NoCR(s, 1, e - 1)
  BY FirstLineText
<1>5. NoCR(s, 1, i) => i + 1 <= e
  BY <1>3 DEF NoCR
<1>6. "SP" \notin Token /\ "." # "digit"
  BY Classes
<1>7. CASE p = "method_start"
  <2>1. i = 0
    BY <1>7 DEF LineShape, InVersion
  <2>2. c \in Token
    BY <1>2, <2>1
  <2>3. RequestLine(p, c, "method")
    BY <1>7, <2>2 DEF RequestLine
  <2>4. QED
    BY <2>3 DEF Leads, State
<1>8. CASE p = "method"
  <2>1. i >= 1 /\ \A j \in 1..i : s[j] \in Token
    BY <1>8 DEF LineShape, InVersion, All
  <2>2. i + 1 <= m
    BY <1>2, <1>6, <2>1
  <2>3. c = "SP" \/ c \in Token
    BY <1>2, <2>2
  <2>4. RequestLine(p, c, "uri") \/ RequestLine(p, c, "method")
    BY <1>8, <2>3 DEF RequestLine
  <2>5. QED
    BY <2>4 DEF Leads, State
<1>9. ASSUME NEW x \in 1..i, NEW b \in Nat, b <= i, UriFrom(s, x, b) PROVE x = m /\ b <= k - 1
  <2>1. /\ x \in 2..b /\ s[x] = "SP" /\ \A j \in 1..(x - 1) : s[j] \in Token
        /\ \A j \in (x + 1)..b : s[j] # "SP"
    BY <1>9 DEF UriFrom, All
  <2>2. x = m
    BY <1>2, <1>6, <2>1
  <2>3. ~(k \in (x + 1)..b)
    BY <1>2, <2>1
  <2>4. QED
    BY <1>2, <2>2, <2>3
<1>10. CASE p = "uri"
  <2>1. PICK x \in 1..i : UriFrom(s, x, i)
    BY <1>10 DEF LineShape, InVersion
  <2>2. i <= k - 1 /\ i >= m
    BY <1>9, <2>1
  <2>3. c = "SP" \/ c \in Text \ {"SP"}
    BY <1>2, <2>2
  <2>4. RequestLine(p, c, "http_version_h") \/ RequestLine(p, c, "uri")
    BY <1>10, <2>3 DEF RequestLine
  <2>5. QED
    BY <2>4 DEF Leads, State
<1>11. CASE p = "expecting_newline_1"
  <2>1. i >= 1 /\ s[i] = "CR" /\ NoCR(s, 1, i - 1)
    BY <1>11 DEF LineShape, InVersion
  <2>2. i = e
    BY <1>3, <1>4, <2>1 DEF NoCR
  <2>3. VersionNumber(p, c, "header_line_start")
    BY <1>3, <1>11, <2>2 DEF VersionNumber
  <2>4. QED
    BY <2>3 DEF Leads, State
<1>12. CASE p \notin {"method_start", "method", "uri", "expecting_newline_1"}
  <2>1. NoCR(s, 1, i)
    BY <1>12 DEF LineShape
  <2>2. PICK x \in 1..i : \E y \in 1..i : UriFrom(s, x, y - 1) /\ s[y] = "SP" /\ InVersion(s, y, i, p)
    BY <1>12 DEF LineShape
  <2>3. PICK y \in 1..i : UriFrom(s, x, y - 1) /\ s[y] = "SP" /\ InVersion(s, y, i, p)
    BY <2>2
  <2>4. y = k
    <3>1. x = m /\ y - 1 <= k - 1 /\ x <= y - 1
      <4>1. y - 1 \in Nat /\ y - 1 <= i
        BY <2>3
      <4>2. QED
        BY <1>9, <2>3, <4>1 DEF UriFrom
    <3>2. ~(y \in (m + 1)..(k - 1))
      BY <1>2, <2>3
    <3>3. QED
      BY <3>1, <3>2
  <2>5. InVersion(s, k, i, p) /\ i + 1 <= e
    BY <1>5, <2>1, <2>3, <2>4
  <2>6. CASE p \in {"http_version_h", "http_version_t_1", "http_version_t_2",
                    "http_version_p", "http_version_slash"}
    <3>1. \E q \in State : VersionName(p, c, q)
      BY <1>1, <2>5, <2>6 DEF InVersion, Name, VersionName, State
    <3>2. QED
      BY <3>1 DEF Leads
  <2>7. CASE p = "http_version_major_start"
    <3>1. i = k + 5
      BY <2>5, <2>7 DEF InVersion
    <3>2. c = "digit"
      BY <1>2, <3>1
    <3>3. VersionNumber(p, c, "http_version_major")
      BY <2>7, <3>2 DEF VersionNumber
    <3>4. QED
      BY <3>3 DEF Leads, State
  <2>8. CASE p = "http_version_major"
    <3>1. i >= k + 6 /\ \A j \in (k + 6)..i : s[j] = "digit"
      BY <2>5, <2>8 DEF InVersion, All
    <3>2. i + 1 <= d
      BY <1>2, <1>6, <3>1
    <3>3. c = "." \/ c = "digit"
      BY <1>2, <3>1, <3>2
    <3>4. VersionNumber(p, c, "http_version_minor_start") \/ VersionNumber(p, c, "http_version_major")
      BY <2>8, <3>3 DEF VersionNumber
    <3>5. QED
      BY <3>4 DEF Leads, State
  <2>9. ASSUME NEW f \in 1..i, Number(s, k, f, i) PROVE f = d
    <3>1. /\ f \in (k + 7)..i /\ s[f] = "."
      BY <2>9 DEF Number
    <3>2. f <= e - 1
      BY <2>5
    <3>3. QED
      BY <1>2, <1>6, <3>1, <3>2
  <2>10. CASE p = "http_version_minor_start"
    <3>1. i = d
      <4>1. Number(s, k, i, i) /\ i \in 1..i
        BY <2>5, <2>10 DEF InVersion
      <4>2. QED
        BY <2>9, <4>1
    <3>2. c = "digit"
      BY <1>2, <3>1
    <3>3. VersionNumber(p, c, "http_version_minor")
      BY <2>10, <3>2 DEF VersionNumber
    <3>4. QED
      BY <3>3 DEF Leads, State
  <2>11. CASE p = "http_version_minor"
    <3>1. PICK f \in 1..(i - 1) : Number(s, k, f, i)
      BY <2>5, <2>11 DEF InVersion
    <3>2. f = d
      BY <2>9, <3>1
    <3>3. c = "CR" \/ c = "digit"
      <4>1. i + 1 = e \/ i + 1 \in (k + 6)..(e - 1)
        BY <1>2, <2>5, <3>1, <3>2
      <4>2. i + 1 # d
        BY <3>1, <3>2
      <4>3. QED
        BY <1>2, <1>3, <4>1, <4>2
    <3>4. VersionNumber(p, c, "expecting_newline_1") \/ VersionNumber(p, c, "http_version_minor")
      BY <2>11, <3>3 DEF VersionNumber
    <3>5. QED
      BY <3>4 DEF Leads, State
  <2>12. p \in FirstLineStates
    BY Parts
  <2>13. QED
    BY <1>12, <2>6, <2>7, <2>8, <2>10, <2>11, <2>12 DEF FirstLineStates
<1>13. QED
  BY <1>7, <1>8, <1>10, <1>11, <1>12

LEMMA OtherLineGoesOn ==
  ASSUME NEW s, NEW i \in Nat, NEW e \in Nat \ {0}, NEW a \in Nat, a >= e + 2,
         NEW p, HeaderShape(s, i, p, e, a), NEW h, Headed(p, e, a, h),
         NEW y \in Nat, y >= a, End(s, y), y = a \/ OtherLine(s, e, a, y - 1)
  PROVE  \E q \in State \cup {"good"} : Leads(p, s[i + 1], q, h)
<1> DEFINE c == s[i + 1]
<1>1. s[y] = "CR" /\ s[y + 1] = "LF"
  BY DEF End
<1>2. NoCR(s, a, y - 1) /\ (y > a => All(s, a, y - 1, Text \cup Blank))
  <2>1. CASE y = a
    BY <2>1 DEF NoCR
  <2>2. CASE y > a
    <3>1. y - 1 \in Nat /\ OtherLine(s, e, a, y - 1)
      BY <2>2
    <3>2. All(s, a, y - 1, Text \cup Blank) /\ NoCR(s, a, y - 1)
      BY <3>1, OtherLineText
    <3>3. QED
      BY <3>2
  <2>3. QED
    BY <2>1, <2>2
<1>3. NoCR(s, a, i) => i < y
  BY <1>1 DEF NoCR
<1>4. i + 1 >= a /\ i >= a - 1
  BY DEF HeaderShape
<1>5. ASSUME y > a PROVE OtherLine(s, e, a, y - 1)
  BY <1>5
<1>6. Token \cap Blank = {} /\ ":" \notin Token /\ "CR" \notin Token \cup Text \cup Blank
  BY Classes DEF Blank
<1>7. CASE p = "header_line_start"
  <2>1. i + 1 = a
    BY <1>7 DEF HeaderShape
  <2>2. CASE y = a
    <3>1. LineStart(p, c, "expecting_newline_3", h = <<>>)
      BY <1>1, <1>7, <2>1, <2>2 DEF LineStart
    <3>2. QED
      BY <3>1 DEF Leads, State
  <2>3. CASE y > a /\ Field(s, a, y - 1)
    <3>1. c \in Token
      BY <2>1, <2>3 DEF Field, All
    <3>2. LineStart(p, c, "header_name", h = <<>>)
      BY <1>7, <3>1 DEF LineStart
    <3>3. QED
      BY <3>2 DEF Leads, State
  <2>4. CASE y > a /\ a # e + 2 /\ Continued(s, a, y - 1)
    <3>1. c \in Blank
      BY <2>1, <2>4 DEF Continued, All
    <3>2. h # <<>>
      BY <2>4 DEF Headed
    <3>3. LineStart(p, c, "header_lws", h = <<>>)
      BY <1>7, <3>1, <3>2 DEF LineStart
    <3>4. QED
      BY <3>3 DEF Leads, State
  <2>5. QED
    BY <1>5, <2>2, <2>3, <2>4 DEF OtherLine
<1>8. CASE p \in {"header_name", "space_before_header_value"}
  <2>1. s[a] \in Token /\ i >= a /\ NoCR(s, a, i)
    <3>1. i >= a /\ NoCR(s, a, i) /\ (All(s, a, i, Token) \/ (i > a /\ All(s, a, i - 1, Token)))
      BY <1>8 DEF HeaderShape
    <3>2. QED
      BY <3>1 DEF All
  <2>2. y > a
    BY <1>1, <1>6, <2>1
  <2>3. Field(s, a, y - 1)
    <3>1. ~Continued(s, a, y - 1)
      BY <1>6, <2>1 DEF Continued, All
    <3>2. QED
      BY <1>5, <2>2, <3>1 DEF OtherLine
  <2>4. PICK n \in (a + 1)..((y - 1) - 1) :
            /\ \A j \in a..(n - 1) : s[j] \in Token
            /\ s[n] = ":" /\ s[n + 1] = "SP"
    BY <2>3 DEF Field, All
  <2>5. CASE p = "header_name"
    <3>1. \A j \in a..i : s[j] \in Token
      BY <2>5 DEF HeaderShape, All
    <3>2. i + 1 <= n
      BY <1>6, <2>4, <3>1
    <3>3. c = ":" \/ c \in Token
      BY <2>1, <2>4, <3>2
    <3>4. HeaderLine(p, c, "space_before_header_value") \/ HeaderLine(p, c, "header_name")
      BY <2>5, <3>3 DEF HeaderLine
    <3>5. QED
      BY <3>4 DEF Leads, State
  <2>6. CASE p = "space_before_header_value"
    <3>1. i > a /\ s[i] = ":" /\ \A j \in a..(i - 1) : s[j] \in Token
      BY <2>6 DEF HeaderShape, All
    <3>2. i = n
      BY <1>6, <2>4, <3>1
    <3>3. HeaderLine(p, c, "header_value")
      BY <2>4, <2>6, <3>2 DEF HeaderLine
    <3>4. QED
      BY <3>3 DEF Leads, State
  <2>7. QED
    BY <1>8, <2>5, <2>6
<1>9. CASE p = "header_lws"
  <2>1. i >= a /\ NoCR(s, a, i)
    BY <1>9 DEF HeaderShape
  <2>2. i + 1 = y \/ i + 1 \in a..(y - 1)
    BY <1>3, <1>4, <2>1
  <2>3. c = "CR" \/ c \in Text \cup Blank
    BY <1>1, <1>2, <2>2 DEF All
  <2>4. \/ HeaderLine(p, c, "expecting_newline_2") \/ HeaderLine(p, c, "header_lws")
        \/ HeaderLine(p, c, "header_value")
    BY <1>9, <2>3 DEF HeaderLine
  <2>5. QED
    BY <2>4 DEF Leads, State
<1>10. CASE p = "header_value"
  <2>1. i >= a /\ NoCR(s, a, i) /\ Valued(s, e, a, i)
    BY <1>10 DEF HeaderShape
  <2>2. CASE i + 1 = y
    <3>1. HeaderLine(p, c, "expecting_newline_2")
      BY <1>1, <1>10, <2>2 DEF HeaderLine
    <3>2. QED
      BY <3>1 DEF Leads, State
  <2>3. CASE i + 1 # y
    <3>1. i + 1 <= y - 1 /\ y > a
      BY <1>3, <1>4, <2>1, <2>3
    <3>2. c \in Text
      <4>1. CASE Field(s, a, i)
        <5>1. PICK n \in (a + 1)..(i - 1) : s[n] = ":" /\ \A j \in a..(n - 1) : s[j] \in Token
          BY <4>1 DEF Field, All
        <5>2. s[a] \in Token
          BY <5>1
        <5>3. ~Continued(s, a, y - 1)
          BY <1>6, <5>2 DEF Continued, All
        <5>4. PICK k \in (a + 1)..((y - 1) - 1) :
                  /\ s[k] = ":" /\ \A j \in a..(k - 1) : s[j] \in Token
                  /\ \A j \in (k + 2)..(y - 1) : s[j] \in Text
          BY <1>5, <3>1, <5>3 DEF OtherLine, Field, All
        <5>5. k = n
          BY <1>6, <5>1, <5>4
        <5>6. QED
          BY <3>1, <5>1, <5>4, <5>5
      <4>2. CASE ~Field(s, a, i)
        <5>1. PICK n \in a..(i - 1) :
                  s[n + 1] \in Text \ Blank /\ \A j \in a..n : s[j] \in Blank
          BY <2>1, <4>2 DEF Valued, All
        <5>2. s[a] \in Blank
          BY <5>1
        <5>3. ~Field(s, a, y - 1)
          BY <1>6, <5>2 DEF Field, All
        <5>4. PICK k \in a..(y - 1) :
                  /\ \A j \in a..k : s[j] \in Blank
                  /\ \A j \in (k + 1)..(y - 1) : s[j] \in Text
          BY <1>5, <3>1, <5>3 DEF OtherLine, Continued, All
        <5>5. ~(n + 1 \in a..k)
          BY <5>1, <5>4
        <5>6. QED
          BY <3>1, <5>1, <5>4, <5>5
      <4>3. QED
        BY <4>1, <4>2
    <3>3. HeaderLine(p, c, "header_value")
      BY <1>10, <3>2 DEF HeaderLine
    <3>4. QED
      BY <3>3 DEF Leads, State
  <2>4. QED
    BY <2>2, <2>3
<1>11. CASE p = "expecting_newline_2"
  <2>1. i > a /\ s[i] = "CR" /\ NoCR(s, a, i - 1)
    BY <1>11 DEF HeaderShape
  <2>2. y >= i /\ i >= y
    BY <1>1, <1>2, <2>1 DEF NoCR
  <2>3. HeaderLine(p, c, "header_line_start")
    BY <1>1, <1>11, <2>2 DEF HeaderLine
  <2>4. QED
    BY <2>3 DEF Leads, State
<1>12. CASE p = "expecting_newline_3"
  <2>1. i = a /\ s[a] = "CR"
    BY <1>12 DEF HeaderShape
  <2>2. y = a
    BY <1>2, <2>1 DEF NoCR
  <2>3. HeaderLine(p, c, "good")
    BY <1>1, <1>12, <2>1, <2>2 DEF HeaderLine
  <2>4. QED
    BY <2>3 DEF Leads
<1>13. QED
  BY <1>7, <1>8, <1>9, <1>10, <1>11, <1>12 DEF HeaderShape

LEMMA HeadGoesOn ==
  ASSUME NEW s \in Seq(Char), IsHead(s), NEW i \in Nat, i < Len(s),
         NEW p, NEW h, Shape(s, i, p, h)
  PROVE  \E q \in State \cup {"good"} : Leads(p, s[i + 1], q, h)
<1>1. PICK n \in Nat : n = Len(s)
  BY LenProperties
<1>2. PICK e \in Nat \ {0} :
            /\ FirstLine(s, e) /\ End(s, e) /\ e < n
            /\ \A a \in 3..n : End(s, a - 2) =>
                \E y \in a..(n - 1) : End(s, y) /\ (y = a \/ OtherLine(s, e, a, y - 1))
  BY <1>1, HeadLines
<1>3. CASE LineShape(s, i, p)
  <2>1. \E q \in State : Leads(p, s[i + 1], q, h)
    BY <1>2, <1>3, FirstLineGoesOn
  <2>2. QED
    BY <2>1
<1>4. CASE InHeaders(s, i, p, h)
  <2>1. PICK f \in 1..i : \E a \in 1..(i + 1) :
            Done(s, f, a) /\ HeaderShape(s, i, p, f, a) /\ Headed(p, f, a, h)
    BY <1>4 DEF InHeaders
  <2>2. PICK a \in 1..(i + 1) :
            Done(s, f, a) /\ HeaderShape(s, i, p, f, a) /\ Headed(p, f, a, h)
    BY <2>1
  <2>3. End(s, f) /\ NoCR(s, 1, f - 1) /\ a >= f + 2 /\ End(s, a - 2)
    BY <2>2 DEF Done
  <2>4. f = e
    <3>1. NoCR(s, 1, e - 1)
      BY <1>2, FirstLineText
    <3>2. s[f] = "CR" /\ s[e] = "CR"
      BY <1>2, <2>3 DEF End
    <3>3. QED
      BY <2>3, <3>1, <3>2 DEF NoCR
  <2>5. a \in 3..n
    BY <1>1, <2>3
  <2>6. PICK y \in a..(n - 1) : End(s, y) /\ (y = a \/ OtherLine(s, e, a, y - 1))
    BY <1>2, <2>3, <2>5
  <2>7. a \in Nat /\ y \in Nat /\ y >= a
    BY <1>1
  <2>8. QED
    BY <2>2, <2>3, <2>4, <2>6, <2>7, OtherLineGoesOn
<1>5. QED
  BY <1>3, <1>4 DEF Shape

(* The parser asks for more just as long as there is more that would make  *)
(* a head, and so rejects at the first character that cannot belong to one.*)
THEOREM RejectsAtFirst ==
  ASSUME PiecesOfText
  PROVE  Spec => []RejectsAtOnce
<1>1. Inv => RejectsAtOnce
  <2> SUFFICES ASSUME Inv, result # "good"
               PROVE  result = "indeterminate" <=> \E e \in Endings : IsHead(Seen \o e)
    BY DEF RejectsAtOnce
  <2>1. /\ Follows(parser, input, Len(input)) /\ input \in Seq(Char) /\ Len(input) \in Nat
        /\ parser.result = result /\ parser.consumed = consumed
        /\ parser.state_ = state_ /\ parser.headers = headers
    BY LenProperties DEF Inv, parser
  <2>2. /\ consumed \in 0..Len(input) /\ result \in {"good", "bad", "indeterminate"}
        /\ state_ \in State /\ headers \in Seq(Header)
    BY <2>1 DEF Follows, ParserType
  <2>3. /\ Seen \in Seq(Char) /\ Len(Seen) = consumed
        /\ \A j \in 1..consumed : Seen[j] = input[j]
    BY <2>1, <2>2, PrefixOf DEF Seen
  <2>4. CASE result = "indeterminate"
    <3>1. consumed = Len(input) /\ Shape(input, consumed, state_, headers)
      BY <2>1, <2>4 DEF Follows
    <3>2. Shape(Seen, consumed, state_, headers)
      BY <2>2, <2>3, <3>1, SameShape
    <3>3. QED
      BY <2>2, <2>3, <2>4, <3>2, EveryStateEnds
  <2>5. CASE result = "bad"
    <3> SUFFICES ASSUME NEW e \in Endings, IsHead(Seen \o e) PROVE FALSE
      BY <2>5
    <3> DEFINE t == Seen \o e
    <3>1. /\ consumed >= 1 /\ Shape(input, consumed - 1, state_, headers)
          /\ \A q \in State \cup {"good"} : ~Leads(state_, input[consumed], q, headers)
      BY <2>1, <2>5 DEF Follows
    <3>2. e \in Seq(Char) /\ Len(e) \in Nat
      BY EndingsAreText, LenProperties
    <3>3. /\ t \in Seq(Char) /\ Len(t) = consumed + Len(e)
          /\ \A j \in 1..(consumed + Len(e)) :
                t[j] = IF j <= consumed THEN Seen[j] ELSE e[j - consumed]
      BY <2>3, <3>2, ConcatProperties
    <3>4. IsHead(t)
      OBVIOUS
    <3> HIDE DEF t
    <3>5. \A j \in 1..consumed : input[j] = t[j]
      BY <2>2, <2>3, <3>2, <3>3
    <3>6. PICK i \in Nat : i = consumed - 1
      BY <2>2, <3>1
    <3>7. Shape(t, i, state_, headers)
      <4>1. \A j \in 1..i : input[j] = t[j]
        BY <2>2, <3>5, <3>6
      <4>2. QED
        BY <3>1, <3>6, <4>1, SameShape
    <3>8. i < Len(t) /\ t[i + 1] = input[consumed]
      BY <2>2, <3>1, <3>2, <3>3, <3>5, <3>6
    <3>9. \E q \in State \cup {"good"} : Leads(state_, t[i + 1], q, headers)
      BY <3>3, <3>4, <3>7, <3>8, HeadGoesOn
    <3>10. QED
      BY <3>1, <3>8, <3>9
  <2>6. QED
    BY <2>2, <2>4, <2>5
<1>2. QED
  BY <1>1, Invariance, PTL

-----------------------------------------------------------------------------
(* What the parser has collected are the fields of the head.               *)

LEMMA EveryLine ==
  ASSUME NEW s \in Seq(Char), NEW x \in 3..Len(s), NEW z \in Ends(s), x <= z, End(s, x - 2)
  PROVE  \E y \in Nat : <<x, y>> \in Lines(s)
<1>1. Len(s) \in Nat /\ \A y : y \in Ends(s) <=> y \in 1..(Len(s) - 1) /\ End(s, y)
  BY LinesArePairs, LenProperties
<1>2. PICK S : S = {y \in Ends(s) : x <= y}
  OBVIOUS
<1>3. S \in SUBSET Nat /\ z \in S
  BY <1>1, <1>2
<1>4. PICK y \in S : \A j \in S : y <= j
  BY <1>3, Least
<1>5. x \in Nat /\ y \in Nat /\ y \in Ends(s) /\ x <= y /\ x - 2 \in Ends(s)
  BY <1>1, <1>2, <1>3, <1>4
<1>6. \A j \in Ends(s) : ~(x <= j /\ j < y)
  BY <1>1, <1>2, <1>4, <1>5
<1>7. <<x, y>> \in Lines(s)
  BY <1>5, <1>6, LinesArePairs
<1>8. QED
  BY <1>5, <1>7

(* The places that are told by the characters, in a head.                  *)
LEMMA HeadPlaces ==
  ASSUME NEW s \in Seq(Char), NEW e \in Nat \ {0}, NEW a \in Nat, Len(s) = a + 1,
         Done(s, e, a), End(s, a)
  PROVE  /\ \A x : x \in FieldStarts(s) <=> x \in 3..(a + 1) /\ StartsAt(s, x)
         /\ \A y \in 1..(a + 1) : y \in Margin(s) <=> Indents(s, y)
<1>1. /\ FirstLine(s, e) /\ e >= 3 /\ a >= e + 2 /\ s[a - 1] = "LF" /\ s[a] = "CR" /\ s[a + 1] = "LF"
  <2>1. FirstLine(s, e) /\ a >= e + 2 /\ End(s, a - 2)
    BY DEF Done
  <2>2. e >= 3
    BY <2>1 DEF FirstLine
  <2>3. (a - 2) + 1 = a - 1
    OBVIOUS
  <2>4. QED
    BY <2>1, <2>2, <2>3 DEF End
<1>2. a \in Ends(s) /\ \A z : z \in Ends(s) <=> z \in 1..a /\ End(s, z)
  <2>1. (a + 1) - 1 = a /\ a \in 1..a
    BY <1>1
  <2>2. QED
    BY <2>1, LinesArePairs
<1>3. ASSUME NEW x \in 3..(a + 1), End(s, x - 2)
      PROVE  x \in 3..a /\ \E y \in Nat : <<x, y>> \in Lines(s)
  <2>1. x # a + 1
    <3>1. (a + 1) - 2 = a - 1
      OBVIOUS
    <3>2. QED
      BY <1>1, <1>3, <3>1 DEF End
  <2>2. x \in 3..a
    BY <2>1
  <2>3. x \in 3..Len(s) /\ x <= a
    BY <2>2
  <2>4. \E y \in Nat : <<x, y>> \in Lines(s)
    BY <1>2, <1>3, <2>3, EveryLine
  <2>5. QED
    BY <2>2, <2>4
<1>4. \A line \in Lines(s) :
         \E x, y \in Nat : /\ line = <<x, y>> /\ x >= 1 /\ x <= y /\ y \in Ends(s)
                           /\ x = 1 \/ x - 2 \in Ends(s)
  BY LinesArePairs
<1>5. ASSUME NEW x \in FieldStarts(s) PROVE x \in 3..(a + 1) /\ StartsAt(s, x)
  <2>1. PICK line \in Lines(s) : line[1] = x /\ x # 1 /\ IsField(LineOf(s, line))
    BY DEF FieldStarts
  <2>2. PICK u, y \in Nat : /\ line = <<u, y>> /\ u >= 1 /\ u <= y /\ y \in Ends(s)
                            /\ u = 1 \/ u - 2 \in Ends(s)
    BY <1>4
  <2>3. u = x /\ x - 2 \in Ends(s) /\ y \in 1..a
    BY <1>2, <2>1, <2>2
  <2>4. x \in 3..a /\ End(s, x - 2)
    BY <1>2, <2>2, <2>3
  <2>5. Field(s, x, y - 1)
    <3>1. x \in Nat \ {0} /\ y \in Nat /\ y <= Len(s) /\ x <= y
      BY <2>2, <2>3, <2>4
    <3>2. IsField(SubSeq(s, x, y - 1))
      BY <2>1, <2>2, <2>3 DEF LineOf
    <3>3. QED
      BY <3>1, <3>2, FieldPlaces
  <2>6. s[x] \in Token
    BY <2>2, <2>3, <2>5 DEF Field, All
  <2>7. QED
    BY <2>4, <2>6 DEF StartsAt
<1>6. ASSUME NEW x \in 3..(a + 1), StartsAt(s, x) PROVE x \in FieldStarts(s)
  <2>1. End(s, x - 2) /\ s[x] \in Token
    BY <1>6 DEF StartsAt
  <2>2. PICK y \in Nat : <<x, y>> \in Lines(s)
    BY <1>3, <2>1
  <2>3. x # a
    BY <1>1, <2>1, Classes
  <2>4. <<x, y>>[1] = x /\ <<x, y>>[2] = y
    OBVIOUS
  <2>5. /\ x \in (e + 2)..(a - 1) /\ y \in (x + 1)..(a - 2)
        /\ OtherLine(s, e, x, y - 1)
    <3>1. <<x, y>> # <<1, e>> /\ <<x, y>> # <<a, a>>
      BY <2>3
    <3>2. QED
      BY <2>2, <2>4, <3>1, DoneLines
  <2>6. ~Continued(s, x, y - 1)
    <3>1. s[x] \notin Blank
      BY <2>1, Classes
    <3>2. QED
      BY <3>1 DEF Continued, All
  <2>7. Field(s, x, y - 1)
    BY <2>5, <2>6 DEF OtherLine
  <2>8. IsField(SubSeq(s, x, y - 1))
    <3>1. x \in Nat \ {0} /\ y <= Len(s) /\ x <= y
      BY <2>5
    <3>2. QED
      BY <2>7, <3>1, FieldPlaces
  <2>9. IsField(LineOf(s, <<x, y>>)) /\ x # 1
    BY <2>8 DEF LineOf
  <2>10. <<x, y>> \in {l \in Lines(s) : l[1] # 1 /\ IsField(LineOf(s, l))}
    BY <2>2, <2>4, <2>9
  <2>11. QED
    BY <2>4, <2>10 DEF FieldStarts
<1>7. ASSUME NEW y \in 1..(a + 1), y \in Margin(s) PROVE Indents(s, y)
  <2>1. PICK line \in Lines(s) : line[1] <= y /\ \A j \in line[1]..y : s[j] \in Blank
    BY <1>7 DEF Margin
  <2>2. PICK u, v \in Nat : /\ line = <<u, v>> /\ u >= 1 /\ u <= v /\ v \in Ends(s)
                            /\ u = 1 \/ u - 2 \in Ends(s)
    BY <1>4
  <2>3. u <= y /\ \A j \in u..y : s[j] \in Blank
    BY <2>1, <2>2
  <2>4. u # 1
    <3>1. PICK m \in 1..(e - 2) : m >= 2 /\ All(s, 1, m - 1, Token)
      BY <1>1 DEF FirstLine, UriFrom
    <3>2. s[1] \in Token
      BY <3>1 DEF All
    <3>3. s[1] \notin Blank
      BY <3>2, Classes
    <3>4. QED
      BY <2>3, <3>3
  <2>5. u \in 3..y /\ End(s, u - 2)
    BY <1>2, <2>2, <2>3, <2>4
  <2>6. QED
    BY <2>3, <2>5 DEF Indents, All
<1>8. ASSUME NEW y \in 1..(a + 1), Indents(s, y) PROVE y \in Margin(s)
  <2>1. PICK l \in 3..y : End(s, l - 2) /\ All(s, l, y, Blank)
    BY <1>8 DEF Indents
  <2>2. l \in 3..(a + 1)
    OBVIOUS
  <2>3. PICK v \in Nat : <<l, v>> \in Lines(s)
    BY <1>3, <2>1, <2>2
  <2>4. <<l, v>>[1] = l
    OBVIOUS
  <2>5. y \in 1..Len(s)
    OBVIOUS
  <2>6. QED
    BY <2>1, <2>3, <2>4, <2>5 DEF Margin, All
<1>9. QED
  BY <1>5, <1>6, <1>7, <1>8

LEMMA ToldAreFields ==
  ASSUME Inv, result = "good"
  PROVE  HeadersAreFields
<1>1. /\ Follows(parser, input, Len(input)) /\ input \in Seq(Char) /\ Len(input) \in Nat
      /\ parser.result = result /\ parser.consumed = consumed /\ parser.headers = headers
  BY LenProperties DEF Inv, parser
<1>2. /\ consumed \in 1..Len(input) /\ headers \in Seq(Header)
      /\ Ended(input, consumed, headers)
  BY <1>1 DEF Follows, ParserType
<1>3. PICK s : s = Seen
  OBVIOUS
<1>4. s \in Seq(Char) /\ Len(s) = consumed /\ \A j \in 1..consumed : s[j] = input[j]
  BY <1>1, <1>2, <1>3, PrefixOf DEF Seen
<1>5. PICK a \in Nat : consumed = a + 1
  BY <1>1, <1>2
<1>6. PICK e \in 1..a : Done(input, e, a) /\ End(input, a) /\ Told(input, a + 1, "good", headers)
  <2>1. (a + 1) - 1 = a
    OBVIOUS
  <2>2. QED
    BY <1>2, <1>5, <2>1 DEF Ended
<1>7. Done(s, e, a) /\ End(s, a) /\ Told(s, a + 1, "good", headers)
  <2>1. \A j \in 1..(a + 1) : input[j] = s[j]
    BY <1>4, <1>5
  <2>2. Told(s, a + 1, "good", headers)
    BY <1>2, <1>6, <2>1, SameTold
  <2>3. \A j \in 1..(a - 1) : input[j] = s[j]
    BY <2>1
  <2>4. Done(s, e, a)
    BY <1>6, <2>3, SameDone
  <2>5. End(s, a)
    BY <1>6, <2>1 DEF End
  <2>6. QED
    BY <2>2, <2>4, <2>5
<1>8. /\ \A x : x \in FieldStarts(s) <=> x \in 3..(a + 1) /\ StartsAt(s, x)
      /\ \A y \in 1..(a + 1) : y \in Margin(s) <=> Indents(s, y)
  BY <1>4, <1>5, <1>7, HeadPlaces
<1> DEFINE starts == FieldStarts(Seen)
           margin == Margin(Seen)
<1>9. starts = FieldStarts(s) /\ margin = Margin(s)
  BY <1>3
<1> HIDE DEF starts, margin
<1>10. PICK g : Split(s, a + 1, headers, g)
  BY <1>7 DEF Told
<1>11. PICK N \in Nat : N = Len(headers)
  BY <1>2, LenProperties
<1>12. DOMAIN headers = 1..N /\ DOMAIN g = 1..N
  BY <1>2, <1>10, <1>11, LenProperties DEF Split
<1>13. \A n \in 1..N : g[n] \in 3..(a + 1) /\ StartsAt(s, g[n]) /\ g[n] \in starts
  BY <1>3, <1>8, <1>9, <1>10, <1>11 DEF Split
<1>14. PICK from : from = [n \in 1..N |-> g[n]]
  OBVIOUS
<1>15. from \in [DOMAIN headers -> starts] /\ \A n \in 1..N : from[n] = g[n]
  BY <1>12, <1>13, <1>14
<1>16. \A x \in starts : \E n \in DOMAIN headers : from[n] = x
  BY <1>3, <1>8, <1>9, <1>10, <1>11, <1>12, <1>15 DEF Split
<1>17. \A m, n \in DOMAIN headers : m < n => from[m] < from[n]
  BY <1>10, <1>11, <1>12, <1>15 DEF Split
<1> DEFINE own(x) == {i \in x..consumed : \A y \in starts : y <= i => y <= x}
           named(x) == {i \in own(x) : \A j \in x..i : Seen[j] # ":"}
           said(x) == {i \in own(x) \ margin :
                        /\ Seen[i] \notin {"CR", "LF"}
                        /\ \E j \in x..(i - 2) : Seen[j] = ":"}
<1>18. ASSUME NEW n \in DOMAIN headers
       PROVE  headers[n] = [name |-> CharsAt(Seen, named(from[n]), consumed),
                            value |-> CharsAt(Seen, said(from[n]), consumed)]
  <2>1. PICK x : x = from[n]
    OBVIOUS
  <2>2. n \in 1..N /\ x = g[n] /\ x \in 3..(a + 1)
    BY <1>12, <1>13, <1>15, <2>1
  <2>3. headers[n] = [name |-> CharsAt(s, Named(s, x), a + 1),
                      value |-> CharsAt(s, Said(s, x), a + 1)]
    BY <1>10, <1>11, <2>2 DEF Split, HeaderOf
  <2>4. ASSUME NEW y \in 1..(a + 1)
        PROVE  /\ y \in Named(s, x) <=> y \in named(x)
               /\ y \in Said(s, x) <=> y \in said(x)
    <3>1. Own(s, x, y) <=> y \in own(x)
      <4>1. ASSUME Own(s, x, y) PROVE y \in own(x)
        <5>1. y \in x..consumed /\ \A z \in (x + 1)..y : ~StartsAt(s, z)
          BY <1>5, <2>2, <4>1 DEF Own
        <5>2. ASSUME NEW z \in starts, z <= y PROVE z <= x
          <6>1. z \in 3..(a + 1) /\ StartsAt(s, z)
            BY <1>3, <1>8, <1>9
          <6>2. z \notin (x + 1)..y
            BY <5>1, <6>1
          <6>3. QED
            BY <2>2, <5>2, <6>1, <6>2
        <5>3. QED
          BY <5>1, <5>2
      <4>2. ASSUME y \in own(x) PROVE Own(s, x, y)
        <5>1. y >= x /\ \A z \in starts : z <= y => z <= x
          BY <2>2, <4>2
        <5>2. ASSUME NEW z \in (x + 1)..y, StartsAt(s, z) PROVE FALSE
          <6>1. z \in 3..(a + 1)
            BY <2>2
          <6>2. z \in starts
            BY <1>3, <1>8, <1>9, <5>2, <6>1
          <6>3. QED
            BY <2>2, <5>1, <6>2
        <5>3. QED
          BY <5>1, <5>2 DEF Own
      <4>3. QED
        BY <4>1, <4>2
    <3>2. y \in Nat
      OBVIOUS
    <3>3. y \in Margin(s) <=> Indents(s, y)
      BY <1>8
    <3> HIDE DEF own
    <3>4. y \in Named(s, x) <=> y \in named(x)
      BY <1>3, <3>1, <3>2 DEF Named
    <3>5. y \in Said(s, x) <=> y \in said(x)
      BY <1>3, <1>9, <3>1, <3>2, <3>3 DEF Said
    <3>6. QED
      BY <3>4, <3>5
  <2> HIDE DEF named, said
  <2>5. /\ CharsAt(s, Named(s, x), a + 1) = CharsAt(s, named(x), a + 1)
        /\ CharsAt(s, Said(s, x), a + 1) = CharsAt(s, said(x), a + 1)
    BY <2>4, SameChars
  <2>6. QED
    BY <1>3, <1>5, <2>1, <2>3, <2>5
<1> HIDE DEF own, named, said
<1>19. \E f \in [DOMAIN headers -> starts] :
            /\ \A x \in starts : \E n \in DOMAIN headers : f[n] = x
            /\ \A m, n \in DOMAIN headers : m < n => f[m] < f[n]
            /\ \A n \in DOMAIN headers :
                headers[n] = [name |-> CharsAt(Seen, named(f[n]), consumed),
                              value |-> CharsAt(Seen, said(f[n]), consumed)]
  BY <1>15, <1>16, <1>17, <1>18
<1>20. QED
  BY <1>19 DEF HeadersAreFields, starts, margin, own, named, said

(* The headers the parser has collected are the fields of the head, in     *)
(* their order, each with its name and with all that its lines say.        *)
THEOREM CollectsFields ==
  ASSUME PiecesOfText
  PROVE  Spec => []HeadersAreFields
<1>1. Inv => HeadersAreFields
  <2>1. CASE result = "good"
    BY <2>1, ToldAreFields
  <2>2. CASE result # "good"
    BY <2>2 DEF HeadersAreFields
  <2>3. QED
    BY <2>1, <2>2
<1>2. QED
  BY <1>1, Invariance, PTL

-----------------------------------------------------------------------------
(* What HeadScan takes for granted of the parser: it reads all it is given *)
(* unless it comes to a decision; it refuses a brace that comes first; and *)
(* it accepts at the end of a blank line, the first there is.              *)

brace == "{"    \* with which a JSON object begins

AsHeadScanSays ==
    /\ result = "indeterminate" => consumed = Len(input)
    /\ Len(input) >= 1 /\ input[1] = brace => result = "bad" /\ consumed = 1
    /\ result = "good" =>
        /\ consumed >= 4 /\ End(input, consumed - 3) /\ End(input, consumed - 1)
        /\ \A i \in 1..(consumed - 4) : ~(End(input, i) /\ End(input, i + 2))

LEMMA FirstLineBegins ==
  ASSUME NEW s, NEW e, FirstLine(s, e)
  PROVE  s[1] \in Token
<1>1. PICK m, k \in 1..(e - 2) : UriFrom(s, m, k - 1)
  BY DEF FirstLine
<1>2. 1 \in 1..(m - 1) /\ All(s, 1, m - 1, Token)
  BY <1>1 DEF UriFrom
<1>3. QED
  BY <1>2 DEF All

LEMMA ShapeBegins ==
  ASSUME NEW s, NEW i \in Nat \ {0}, NEW p, NEW h, Shape(s, i, p, h)
  PROVE  s[1] \in Token
<1>1. CASE InHeaders(s, i, p, h)
  <2>1. PICK e \in 1..i : FirstLine(s, e)
    BY <1>1 DEF InHeaders, Done
  <2>2. QED
    BY <2>1, FirstLineBegins
<1>2. CASE LineShape(s, i, p)
  <2>1. CASE p = "expecting_newline_1" /\ FirstLine(s, i)
    BY <2>1, FirstLineBegins
  <2>2. CASE All(s, 1, i, Token)
    BY <2>2 DEF All
  <2>3. CASE \E m, k \in Int : UriFrom(s, m, k)
    <3>1. PICK m, k \in Int : UriFrom(s, m, k)
      BY <2>3
    <3>2. 1 \in 1..(m - 1) /\ All(s, 1, m - 1, Token)
      BY <3>1 DEF UriFrom
    <3>3. QED
      BY <3>2 DEF All
  <2>4. \A m \in 1..i : UriFrom(s, m, i) => \E k \in Int : UriFrom(s, m, k)
    OBVIOUS
  <2>5. \A k \in 1..i : k - 1 \in Int
    OBVIOUS
  <2>6. QED
    BY <1>2, <2>1, <2>2, <2>3, <2>4, <2>5 DEF LineShape
<1>3. QED
  BY <1>1, <1>2 DEF Shape

LEMMA FirstBlankLine ==
  ASSUME NEW s, NEW e \in Nat, NEW a \in Nat, Done(s, e, a), End(s, a),
         NEW i \in 1..(a - 3), End(s, i), End(s, i + 2)
  PROVE  FALSE
<1>1. /\ FirstLine(s, e) /\ NoCR(s, 1, e - 1) /\ End(s, a - 2)
      /\ \A x \in (e + 2)..(a - 1) : \A y \in x..(a - 2) :
            /\ End(s, x - 2) /\ End(s, y)
            /\ \A z \in x..(y - 1) : ~End(s, z)
            => OtherLine(s, e, x, y - 1)
  BY DEF Done
<1>2. i >= e
  <2>1. i \notin 1..(e - 1)
    BY <1>1 DEF NoCR, End
  <2>2. QED
    BY <2>1
<1>3. i # a - 3
  <2>1. (i + 2) + 1 = i + 3 /\ (a - 3) + 3 = a
    OBVIOUS
  <2>2. s[i + 3] = "LF" /\ s[a] = "CR"
    BY <2>1 DEF End
  <2>3. QED
    BY <2>1, <2>2
<1>4. PICK x \in (e + 2)..(a - 1) : x = i + 2 /\ x \in x..(a - 2) /\ x - 2 = i
  BY <1>2, <1>3
<1>5. End(s, x - 2) /\ End(s, x) /\ \A z \in x..(x - 1) : ~End(s, z)
  BY <1>4
<1>6. OtherLine(s, e, x, x - 1)
  BY <1>1, <1>4, <1>5
<1>7. QED
  BY <1>6 DEF OtherLine, Field, Continued

(* What HttpServer's theorems need of the parser is so of request_parser,  *)
(* whatever it is sent and however that is cut.                            *)
THEOREM ScansAsAssumed ==
  ASSUME PiecesOfText
  PROVE  Spec => []AsHeadScanSays
<1>1. Inv => AsHeadScanSays
  <2> SUFFICES ASSUME Inv PROVE AsHeadScanSays
    OBVIOUS
  <2>1. /\ Follows(parser, input, Len(input)) /\ input \in Seq(Char) /\ Len(input) \in Nat
        /\ parser.result = result /\ parser.consumed = consumed
        /\ parser.state_ = state_ /\ parser.headers = headers
    BY LenProperties DEF Inv, parser
  <2>2. /\ consumed \in 0..Len(input) /\ result \in {"good", "bad", "indeterminate"}
    BY <2>1 DEF Follows, ParserType
  <2>3. /\ result = "indeterminate" =>
                consumed = Len(input) /\ Shape(input, consumed, state_, headers)
        /\ result = "bad" => consumed >= 1 /\ Shape(input, consumed - 1, state_, headers)
        /\ result = "good" => Ended(input, consumed, headers)
    BY <2>1 DEF Follows
  <2>4. ASSUME result = "good"
        PROVE  /\ input[1] \in Token
               /\ consumed >= 4 /\ End(input, consumed - 3) /\ End(input, consumed - 1)
               /\ \A i \in 1..(consumed - 4) : ~(End(input, i) /\ End(input, i + 2))
    <3>1. PICK e \in 1..(consumed - 1) :
                Done(input, e, consumed - 1) /\ End(input, consumed - 1)
      BY <2>3, <2>4 DEF Ended
    <3>2. PICK a \in Nat : a = consumed - 1
      BY <2>2, <3>1
    <3>3. Done(input, e, a) /\ End(input, a) /\ consumed = a + 1 /\ e \in Nat
      BY <2>2, <3>1, <3>2
    <3>4. FirstLine(input, e) /\ a >= e + 2 /\ End(input, a - 2)
      BY <3>3 DEF Done
    <3>5. consumed - 3 = a - 2 /\ consumed - 4 = a - 3 /\ consumed >= 4
      BY <3>2, <3>3, <3>4
    <3>6. \A i \in 1..(a - 3) : ~(End(input, i) /\ End(input, i + 2))
      BY <3>3, FirstBlankLine
    <3>7. QED
      BY <3>1, <3>4, <3>5, <3>6, FirstLineBegins
  <2>5. ASSUME Len(input) >= 1, input[1] = brace PROVE result = "bad" /\ consumed = 1
    <3>1. input[1] \notin Token
      <4>1. brace \notin Token
        BY Zenon DEF brace, Token, is_tspecial
      <4>2. QED
        BY <2>5, <4>1
    <3>2. result # "good"
      BY <2>4, <3>1
    <3>3. result # "indeterminate"
      <4>1. Len(input) \in Nat \ {0}
        BY <2>1, <2>5
      <4>2. QED
        BY <2>3, <3>1, <4>1, ShapeBegins
    <3>4. result = "bad"
      BY <2>2, <3>2, <3>3
    <3>5. ~(consumed > 1)
      <4>1. consumed > 1 => consumed - 1 \in Nat \ {0}
        BY <2>2
      <4>2. QED
        BY <2>3, <3>1, <3>4, <4>1, ShapeBegins
    <3>6. QED
      BY <2>2, <2>3, <3>4, <3>5
  <2>6. QED
    BY <2>3, <2>4, <2>5 DEF AsHeadScanSays
<1>2. QED
  BY <1>1, Invariance, PTL
=============================================================================
