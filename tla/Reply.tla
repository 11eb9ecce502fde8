-------------------------------- MODULE Reply -------------------------------
(***************************************************************************)
(* The struct reply of reply.hpp and reply.cpp, what becomes of it on the  *)
(* wire, and how a client reads it.                                        *)
(*                                                                         *)
(* A token is a tuple that stands for a piece of text: a status line, a    *)
(* header, an end of line, a page, a row.  The size of a text is the       *)
(* number of its tokens.                                                   *)
(***************************************************************************)
EXTENDS Integers, Sequences

hello == 199
ok == 200
bad_request == 400
internal_server_error == 500

status_type ==
    {hello, ok, 201, 202, 204, 300, 301, 302, 304, bad_request, 401, 403, 404,
     internal_server_error, 501, 502, 503}

(* The default of the two switches.                                        *)
Known(status) == IF status \in status_type THEN status ELSE internal_server_error

(* status_strings::to_buffer                                               *)
StatusLine(status) ==
    <<"HTTP/1.0", IF status = hello THEN ok ELSE Known(status)>>

(* stock_replies::to_string: the page for ok is empty.                     *)
Page(status) == IF status = ok THEN <<>> ELSE << <<"page", Known(status)>> >>

crlf == <<"crlf">>

(* stock_reply and send2client resize the headers to two.                  *)
Headers(length) == << <<"Content-Length", length>>, <<"Content-Type", "text/html">> >>

ReplyOf(status, content) ==
    [status |-> status, headers |-> Headers(Len(content)), content |-> content]

stock_reply(status) == ReplyOf(status, Page(status))

(* to_buffers: the status line brings its own end of line.                 *)
to_buffers(rep) ==
    <<StatusLine(rep.status)>>
        \o [i \in 1..(2 * Len(rep.headers)) |->
                IF i % 2 = 1 THEN rep.headers[(i + 1) \div 2] ELSE crlf]
        \o <<crlf>>
        \o rep.content

(* A client that reads up to the first blank line, and from there as much  *)
(* as Content-Length says, gets this status and content, and nothing is    *)
(* left over that it would take for the beginning of the next reply.       *)
ReadsAs(wire, status, content) ==
    \E blank \in 3..Len(wire) :
        /\ wire[blank - 1] = crlf /\ wire[blank] = crlf
        /\ \A i \in 3..(blank - 1) : ~(wire[i - 1] = crlf /\ wire[i] = crlf)
        /\ wire[1] = <<"HTTP/1.0", status>>
        /\ \E i \in 2..blank : wire[i] = <<"Content-Length", Len(wire) - blank>>
        /\ SubSeq(wire, blank + 1, Len(wire)) = content
=============================================================================
