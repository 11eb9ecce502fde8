------------------------------ MODULE MCBuffer ------------------------------
(* A small instance of Buffer for TLC.                                     *)
EXTENDS Buffer

Words == {<<"a">>, <<"b", "a">>, <<"b", "a", "a">>}
=============================================================================
