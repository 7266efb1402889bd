----------------------------- MODULE MCResearch -----------------------------
(* Instances of Research for TLC. *)
EXTENDS Research

\* Each limit is the first to be reached in one of them.
SomeLimits ==
    {[queries |-> 4, sources |-> 3, saturation |-> 3, cost |-> 0],
     [queries |-> 6, sources |-> 2, saturation |-> 2, cost |-> 5],
     [queries |-> 6, sources |-> 3, saturation |-> 4, cost |-> 0]}
=============================================================================
