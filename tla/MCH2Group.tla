----------------------------- MODULE MCH2Group ------------------------------
(* The clients for which H2Group is checked: two origins with one session  *)
(* each, of which one must go when the other comes, and one origin with    *)
(* two sessions.                                                           *)
EXTENDS H2Group

CONSTANTS k1, k2

MCShapes ==
  {[keys |-> {k1, k2}, sessions |-> 1, ids |-> 2, breaks |-> TRUE],
   [keys |-> {k1}, sessions |-> 2, ids |-> 1, breaks |-> FALSE]}
=============================================================================
