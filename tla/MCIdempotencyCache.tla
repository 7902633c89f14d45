-------------------------- MODULE MCIdempotencyCache --------------------------
(* IdempotencyCache for TLC.  Tasks, keys and results are interchangeable.  *)
EXTENDS IdempotencyCache, TLC

Symmetry == Permutations(Tasks) \cup Permutations(Keys) \cup Permutations(Results)
=============================================================================
