------------------------------- MODULE MCWalk -------------------------------
(***************************************************************************)
(* Walk for TLC: without an end, as a log tail does, and to one.           *)
(***************************************************************************)
EXTENDS Walk

MCWalks ==
  {[start |-> 1, end |-> NoEnd, limit |-> 2, backoff |-> "retry"],
   [start |-> 1, end |-> NoEnd, limit |-> 1, backoff |-> "done"],
   [start |-> 0, end |-> 3, limit |-> 2, backoff |-> "countErr"],
   [start |-> 1, end |-> 3, limit |-> 1, backoff |-> "count"],
   [start |-> 0, end |-> 2, limit |-> 3, backoff |-> "done"],
   [start |-> 4, end |-> 3, limit |-> 1, backoff |-> "countErr"]}
=============================================================================
