------------------------ MODULE MCIdempotencyCacheLive ------------------------
(* The cache below its capacity, with fairness, against SingleFlight.        *)
EXTENDS IdempotencyCacheRefinement

ASSUME BelowCapacity == NeverFull /\ HoldsAreShort
=============================================================================
