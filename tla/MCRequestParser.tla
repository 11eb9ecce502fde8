-------------------------- MODULE MCRequestParser --------------------------
(* An instance of RequestParser for TLC: the pieces in which heads come.   *)
EXTENDS RequestParser

VersionText == <<"H", "T", "T", "P", "/", "digit", ".", "digit">>

WholeLine == <<"x", "SP", "SP">> \o VersionText \o <<"CR", "LF">>

(* Pieces that make every kind of request line.                            *)
LinePieces ==
    {<<"x">>, <<"SP">>, <<"{">>, <<"high">>, <<"H", "T", "T", "P", "/">>,
     <<"digit">>, <<"digit", ".">>, <<"digit", "CR", "LF">>, <<"CR", "LF">>}

(* Pieces that make every kind of header, cut at every character.          *)
HeaderPieces ==
    {<<"CR", "LF">>, <<"x">>, <<"x", ":", "SP">>, <<":">>, <<"SP">>, <<"TAB">>,
     <<"CR">>, <<"LF">>}

(* A head comes in small pieces from the beginning, or from the end of its *)
(* request line or of the name of its first header on.                     *)
HeadPieces(s) ==
    CASE s = <<>> -> LinePieces \cup {WholeLine, WholeLine \o <<"x", ":", "SP">>}
      [] IsPrefix(WholeLine, s) -> HeaderPieces
      [] OTHER -> LinePieces
=============================================================================
