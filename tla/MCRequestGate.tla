----------------------------- MODULE MCRequestGate -----------------------------
(* RequestGate for TLC: its constants are numbers and sets of the cfg.        *)
EXTENDS RequestGate
=============================================================================
