------------------------------ MODULE MCH1Pool ------------------------------
(***************************************************************************)
(* H1Pool for TLC.                                                         *)
(***************************************************************************)
EXTENDS H1Pool, TLC

\* Coroutines of one kind that the configuration does not single out are
\* interchangeable.
Symmetry ==
  Permutations(Requests \ (Timed \cup Cancellable)) \cup Permutations(Workers)
=============================================================================
