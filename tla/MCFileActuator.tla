---------------------------- MODULE MCFileActuator ----------------------------
(* A short text, one of exactly max_bytes, one that is cut inside a          *)
(* character.  One target has the name of a temporary file.                  *)
EXTENDS FileActuator, TLC

CONSTANTS Short, Full, Long, Plain, Odd

MCLength   == (Short :> 1 @@ Full :> 2 @@ Long :> 3)
MCSplitsAt == (Short :> {} @@ Full :> {1} @@ Long :> {2})
Symmetry   == Permutations(Actions)
=============================================================================
