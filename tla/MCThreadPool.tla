---------------------------- MODULE MCThreadPool ----------------------------
(* A small instance of ThreadPool for TLC: its threads and tasks.          *)
EXTENDS ThreadPool

CONSTANTS w1, w2, w3, c1, c2, t1, t2
=============================================================================
