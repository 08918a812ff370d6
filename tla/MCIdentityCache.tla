--------------------------- MODULE MCIdentityCache ---------------------------
(* Requests, workers and subs are interchangeable.                         *)
EXTENDS IdentityCache, TLC

Symmetry ==
  Permutations(Requests) \cup Permutations(Workers) \cup Permutations(Subs)

=============================================================================
