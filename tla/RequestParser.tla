--------------------------- MODULE RequestParser ---------------------------
(***************************************************************************)
(* request_parser.cpp: the state machine that reads the head of a request  *)
(* one character at a time, over as many calls of parse as the network     *)
(* cuts the head into.                                                     *)
(*                                                                         *)
(* Characters are told apart as far as the parser tells them apart; "x"    *)
(* is any character of a token that it never looks for.  The method, the   *)
(* uri and the version number are read by nobody and are left out; the     *)
(* headers are collected, for HttpServer looks up Content-Length in them.  *)
(*                                                                         *)
(* A definition that begins with Bug is the mistake that the definition    *)
(* after it does not make (PROJECT.json, "mutants").                       *)
(***************************************************************************)
EXTENDS Naturals, Sequences, SequencesExt

CONSTANTS
    Pieces(_),  \* what one read of the socket may deliver after the input
    MaxPieces   \* bound: reads per head

VARIABLES
    state_,     \* where the parser is in the head
    headers,    \* the headers of the request so far
    result,     \* what the last call of parse has returned
    consumed,   \* how many characters all calls have consumed
    input,      \* history: everything that was delivered
    pieces      \* history: in how many pieces

parser == [state_ |-> state_, headers |-> headers, result |-> result,
           consumed |-> consumed]

vars == <<state_, headers, result, consumed, input, pieces>>

-----------------------------------------------------------------------------
Char ==
    {"x", "H", "T", "P", "digit", ".", "SP", "TAB", "CR", "LF", ":", "/", "{",
     "ctl", "high"}

(* tab, CR and LF are control characters too; a char above 127 is negative *)
(* and so neither an is_char nor an is_ctl.                                *)
is_char(c) == c # "high"
is_ctl(c) == c \in {"TAB", "CR", "LF", "ctl"}
is_tspecial(c) == c \in {"SP", "TAB", ":", "/", "{"}

Token == {c \in Char : is_char(c) /\ ~is_ctl(c) /\ ~is_tspecial(c)}
Text == {c \in Char : ~is_ctl(c)}
Blank == {"SP", "TAB"}

(* What the parser can be in, besides "good" and "bad" at the end.         *)
State ==
    {"method_start", "method", "uri", "http_version_h", "http_version_t_1",
     "http_version_t_2", "http_version_p", "http_version_slash",
     "http_version_major_start", "http_version_major",
     "http_version_minor_start", "http_version_minor", "expecting_newline_1",
     "header_line_start", "header_lws", "header_name",
     "space_before_header_value", "header_value", "expecting_newline_2",
     "expecting_newline_3"}

(* In each part of a head: character c leads from p to q.                  *)
RequestLine(p, c, q) ==
    \/ p = "method_start" /\ c \in Token /\ q = "method"
    \/ p = "method" /\ c = "SP" /\ q = "uri"
    \/ p = "method" /\ c \in Token /\ q = "method"
    \/ p = "uri" /\ c = "SP" /\ q = "http_version_h"
    \/ p = "uri" /\ c \in Text \ {"SP"} /\ q = "uri"

VersionName(p, c, q) ==
    \/ p = "http_version_h" /\ c = "H" /\ q = "http_version_t_1"
    \/ p = "http_version_t_1" /\ c = "T" /\ q = "http_version_t_2"
    \/ p = "http_version_t_2" /\ c = "T" /\ q = "http_version_p"
    \/ p = "http_version_p" /\ c = "P" /\ q = "http_version_slash"
    \/ p = "http_version_slash" /\ c = "/" /\ q = "http_version_major_start"

BugVersionNumber(p, c, q) ==
    \/ p = "http_version_major_start" /\ c = "digit" /\ q = "http_version_major"
    \/ p = "http_version_major" /\ c = "." /\ q = "http_version_minor"
    \/ p = "http_version_major" /\ c = "digit" /\ q = "http_version_major"
    \/ p = "http_version_minor" /\ c = "CR" /\ q = "expecting_newline_1"
    \/ p = "http_version_minor" /\ c = "digit" /\ q = "http_version_minor"
    \/ p = "expecting_newline_1" /\ c = "LF" /\ q = "header_line_start"

VersionNumber(p, c, q) ==
    \/ p = "http_version_major_start" /\ c = "digit" /\ q = "http_version_major"
    \/ p = "http_version_major" /\ c = "." /\ q = "http_version_minor_start"
    \/ p = "http_version_major" /\ c = "digit" /\ q = "http_version_major"
    \/ p = "http_version_minor_start" /\ c = "digit" /\ q = "http_version_minor"
    \/ p = "http_version_minor" /\ c = "CR" /\ q = "expecting_newline_1"
    \/ p = "http_version_minor" /\ c = "digit" /\ q = "http_version_minor"
    \/ p = "expecting_newline_1" /\ c = "LF" /\ q = "header_line_start"

BugLineStart(p, c, q, first) ==
    /\ p = "header_line_start"
    /\ \/ c = "CR" /\ q = "expecting_newline_3"
       \/ c \in Token /\ q = "header_name"
       \/ c \in Blank /\ q = "header_lws"

(* A line that begins with a blank continues the header of the line before *)
(* it; the first line has none to continue.                                *)
LineStart(p, c, q, first) ==
    /\ p = "header_line_start"
    /\ \/ c = "CR" /\ q = "expecting_newline_3"
       \/ c \in Token /\ q = "header_name"
       \/ ~first /\ c \in Blank /\ q = "header_lws"

BugHeaderLine(p, c, q) ==
    \/ p = "header_name" /\ c = ":" /\ q = "space_before_header_value"
    \/ p = "header_name" /\ c \in Token /\ q = "header_name"
    \/ p = "space_before_header_value" /\ c = "SP" /\ q = "header_value"
    \/ p \in {"header_value", "header_lws"} /\ c = "CR" /\ q = "expecting_newline_2"
    \/ p = "header_value" /\ c \in Text \cup Blank /\ q = "header_value"
    \/ p = "header_lws" /\ c \in Text /\ q = "header_value"
    \/ p = "expecting_newline_2" /\ c = "LF" /\ q = "header_line_start"
    \/ p = "expecting_newline_3" /\ c = "LF" /\ q = "good"

HeaderLine(p, c, q) ==
    \/ p = "header_name" /\ c = ":" /\ q = "space_before_header_value"
    \/ p = "header_name" /\ c \in Token /\ q = "header_name"
    \/ p = "space_before_header_value" /\ c = "SP" /\ q = "header_value"
    \/ p \in {"header_value", "header_lws"} /\ c = "CR" /\ q = "expecting_newline_2"
    \/ p = "header_value" /\ c \in Text /\ q = "header_value"
    \/ p = "header_lws" /\ c \in Blank /\ q = "header_lws"
    \/ p = "header_lws" /\ c \in Text \ Blank /\ q = "header_value"
    \/ p = "expecting_newline_2" /\ c = "LF" /\ q = "header_line_start"
    \/ p = "expecting_newline_3" /\ c = "LF" /\ q = "good"

Leads(p, c, q, h) ==
    \/ RequestLine(p, c, q)
    \/ VersionName(p, c, q)
    \/ VersionNumber(p, c, q)
    \/ LineStart(p, c, q, h = <<>>)
    \/ HeaderLine(p, c, q)

(* The headers once c has led from p to q: a new one, or a longer one.     *)
Extend(h, field, c) ==
    [h EXCEPT ![Len(h)][field] = Append(@, c)]

BugCollect(p, c, q, h) ==
    CASE p # "header_name" /\ q = "header_name" ->
            Append(h, [name |-> <<c>>, value |-> <<>>])
      [] p = "header_name" /\ q = "header_name" -> Extend(h, "name", c)
      [] p = "header_value" /\ q = "header_value" -> Extend(h, "value", c)
      [] OTHER -> h

Collect(p, c, q, h) ==
    CASE p # "header_name" /\ q = "header_name" ->
            Append(h, [name |-> <<c>>, value |-> <<>>])
      [] p = "header_name" /\ q = "header_name" -> Extend(h, "name", c)
      [] p \in {"header_value", "header_lws"} /\ q = "header_value" ->
            Extend(h, "value", c)
      [] OTHER -> h

(* request_parser::consume.  The state stays what it was when the result   *)
(* is good or bad, and parse stops there.                                  *)
consume(r, c) ==
    IF r.result # "indeterminate" THEN r
    ELSE LET Targets == {q \in State \cup {"good"} : Leads(r.state_, c, q, r.headers)}
             q == CHOOSE t \in Targets : TRUE
         IN  CASE Targets = {} ->
                    [r EXCEPT !.result = "bad", !.consumed = @ + 1]
               [] "good" \in Targets ->
                    [r EXCEPT !.result = "good", !.consumed = @ + 1]
               [] OTHER ->
                    [r EXCEPT !.state_ = q, !.consumed = @ + 1,
                              !.headers = Collect(r.state_, c, q, @)]

-----------------------------------------------------------------------------
Init ==
    /\ state_ = "method_start"
    /\ headers = <<>>
    /\ result = "indeterminate"
    /\ consumed = 0
    /\ input = <<>>
    /\ pieces = 0

(* What becomes of parser r with the characters of s, one after the other. *)
Fed(r, s) ==
    LET after[i \in 0..Len(s)] == IF i = 0 THEN r ELSE consume(after[i - 1], s[i])
    IN  after[Len(s)]

(* request_parser::parse, called for what one read has delivered.          *)
parse(piece) ==
    /\ result = "indeterminate"
    /\ pieces < MaxPieces
    /\ LET r == Fed(parser, piece) IN
        /\ state_' = r.state_
        /\ headers' = r.headers
        /\ result' = r.result
        /\ consumed' = r.consumed
    /\ input' = input \o piece
    /\ pieces' = pieces + 1

Next == \E piece \in Pieces(input) : parse(piece)

Spec == Init /\ [][Next]_vars

-----------------------------------------------------------------------------
(* What a head is, told by its lines: the reference for the properties.    *)

IsRequestLine(l) ==
    \E i, k \in 1..Len(l) :
        /\ i < k /\ l[i] = "SP" /\ l[k] = "SP"
        /\ i > 1 /\ \A j \in 1..(i - 1) : l[j] \in Token
        /\ \A j \in (i + 1)..(k - 1) : l[j] \in Text \ {"SP"}
        /\ k + 8 <= Len(l)
        /\ SubSeq(l, k + 1, k + 5) = <<"H", "T", "T", "P", "/">>
        /\ \E d \in (k + 7)..(Len(l) - 1) :
            /\ l[d] = "."
            /\ \A j \in (k + 6)..Len(l) : j # d => l[j] = "digit"

IsField(l) ==
    \E i \in 2..(Len(l) - 1) :
        /\ \A j \in 1..(i - 1) : l[j] \in Token
        /\ l[i] = ":" /\ l[i + 1] = "SP"
        /\ \A j \in (i + 2)..Len(l) : l[j] \in Text

IsContinuation(l) ==
    \E i \in 1..Len(l) :
        /\ \A j \in 1..i : l[j] \in Blank
        /\ \A j \in (i + 1)..Len(l) : l[j] \in Text

(* The lines of s, without their ends: each pair is a line's first         *)
(* character and the CR after its last.                                    *)
Ends(s) == {i \in 1..(Len(s) - 1) : s[i] = "CR" /\ s[i + 1] = "LF"}

Lines(s) ==
    {line \in ({1} \cup {e + 2 : e \in Ends(s)}) \X Ends(s) :
        /\ line[1] <= line[2]
        /\ \A e \in Ends(s) : ~(line[1] <= e /\ e < line[2])}

LineOf(s, line) == SubSeq(s, line[1], line[2] - 1)

(* A request line, fields and continuations of fields, an empty line.      *)
IsHead(s) ==
    LET first == {line \in Lines(s) : line[1] = 1}
        last == {line \in Lines(s) : line[1] = line[2]}
    IN  /\ last = {<<Len(s) - 1, Len(s) - 1>>}
        /\ \E line \in first : IsRequestLine(LineOf(s, line))
        /\ \A line \in Lines(s) \ (first \cup last) :
            \/ IsField(LineOf(s, line))
            \/ /\ IsContinuation(LineOf(s, line))
               /\ \A f \in first : f[2] + 2 # line[1]

(* How a head can go on from any point of it, as briefly as possible.      *)
Endings ==
    Suffixes(<<"x", "SP", "SP", "H", "T", "T", "P", "/", "digit", ".", "digit",
               "CR", "LF", "CR", "LF">>)
        \cup Suffixes(<<"x", ":", "SP", "CR", "LF", "CR", "LF">>)

-----------------------------------------------------------------------------
TypeOK ==
    /\ state_ \in State
    /\ headers \in Seq([name : Seq(Token), value : Seq(Text)])
    /\ result \in {"good", "bad", "indeterminate"}
    /\ consumed \in 0..Len(input)
    /\ input \in Seq(Char)
    /\ pieces \in 0..MaxPieces

(* What the parser has looked at.                                          *)
Seen == SubSeq(input, 1, consumed)

(* The parser accepts just the heads, and stops behind the last character  *)
(* of one, so that what is left in the Buffer is the body, whatever the    *)
(* pieces in which the head has come (request_parser.cpp:19-272).          *)
GoodIsHead == result = "good" <=> IsHead(Seen)

(* It asks for more just as long as there is more that would make a head,  *)
(* and so rejects at the first character that cannot belong to one.        *)
RejectsAtOnce ==
    result # "good" =>
        (result = "indeterminate" <=> \E e \in Endings : IsHead(Seen \o e))

(* The characters of s up to n that are at places in P, in their order.    *)
CharsAt(s, P, n) ==
    LET upto[i \in 0..n] ==
            IF i = 0 THEN <<>>
            ELSE IF i \in P THEN Append(upto[i - 1], s[i]) ELSE upto[i - 1]
    IN  upto[n]

(* Where the fields of s begin, and where the blanks before a line are.    *)
FieldStarts(s) ==
    {line[1] : line \in {l \in Lines(s) : l[1] # 1 /\ IsField(LineOf(s, l))}}

Margin(s) ==
    {i \in 1..Len(s) : \E line \in Lines(s) :
        line[1] <= i /\ \A j \in line[1]..i : s[j] \in Blank}

(* The headers are the fields of the head, in their order.  A name is what *)
(* stands before the colon; a value is what follows colon and blank up to  *)
(* the next field, without the ends of lines and the blanks by which a     *)
(* continuation is indented (request_parser.cpp:176-257).                  *)
HeadersAreFields ==
    result = "good" =>
        LET starts == FieldStarts(Seen)
            margin == Margin(Seen)
        IN  \E from \in [DOMAIN headers -> starts] :
                /\ \A x \in starts : \E n \in DOMAIN headers : from[n] = x
                /\ \A m, n \in DOMAIN headers : m < n => from[m] < from[n]
                /\ \A n \in DOMAIN headers :
                    LET own == {i \in from[n]..consumed :
                                    \A x \in starts : x <= i => x <= from[n]}
                        named == {i \in own : \A j \in from[n]..i : Seen[j] # ":"}
                        said == {i \in own \ margin :
                                    /\ Seen[i] \notin {"CR", "LF"}
                                    /\ \E j \in from[n]..(i - 2) : Seen[j] = ":"}
                    IN  headers[n] = [name |-> CharsAt(Seen, named, consumed),
                                      value |-> CharsAt(Seen, said, consumed)]
=============================================================================
