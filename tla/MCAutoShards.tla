---------------------------- MODULE MCAutoShards ----------------------------
(* The levels of maybe_expand_auto_shards for three shards and a few       *)
(* requests: one in flight wants two shards, more want all of them.        *)
EXTENDS AutoShards

MCWanted == [n \in 1..Cardinality(Guarded) |-> IF n = 1 THEN 2 ELSE 3]
=============================================================================
