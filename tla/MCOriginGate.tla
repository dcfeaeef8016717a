---------------------------- MODULE MCOriginGate ----------------------------
(***************************************************************************)
(* OriginGate for TLC: requests that nothing tells apart are symmetric.    *)
(***************************************************************************)
EXTENDS OriginGate, TLC

Symmetric == Permutations(Requests)

=============================================================================
