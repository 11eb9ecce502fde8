----------------------------- MODULE WorkerLife -----------------------------
(***************************************************************************)
(* What a worker may do with the request in its hand, as the rest of the   *)
(* server sees it: it analyzes the body, and unless that throws or finds   *)
(* no request it queries the database once; then it answers, once, and is  *)
(* idle.  A handler that breaks the process has no next step.              *)
(***************************************************************************)

VARIABLE stage      \* "idle", "analyze", "query", "reply", "reject", "crashed"

Init == stage \in {"idle", "analyze"}

Go(from, to) == stage \in from /\ stage' \in to

Next ==
    \/ Go({"idle"}, {"analyze"})
    \/ Go({"analyze"}, {"query", "reject", "idle", "crashed"})
    \/ Go({"query"}, {"reply", "reject", "crashed"})
    \/ Go({"reply", "reject"}, {"idle"})

Spec == Init /\ [][Next]_stage
=============================================================================
