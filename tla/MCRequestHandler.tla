-------------------------- MODULE MCRequestHandler --------------------------
(* A small instance of RequestHandler for TLC.                             *)
EXTENDS RequestHandler

SomeReasons == {Absent, NoInt, ERR, 1, 4, 9}
SomeFuns == {Absent, NoInt, ERR, 0, 1, 2, 3, 9}
SomePages == {Absent, NoInt, ERR, 10}
SomeLengths == {207, 208, 236}
Leftovers == {0, SELECTION, INSERTION}

(* No row, one, and two of which one has a NULL.                           *)
Rows(rows) == [fields |-> <<"corpus", "hot">>, rows |-> rows]
SomeResults ==
    {Rows(<<>>), Rows(<< <<"a", "1">> >>), Rows(<< <<"a", "1">>, <<"b", NULL>> >>)}
=============================================================================
