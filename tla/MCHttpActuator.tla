---------------------------- MODULE MCHttpActuator ----------------------------
(* Two URLs of the allowlist, one of them not in its normal form, whose normal *)
(* form is not listed, a public and a private address, and bodies below, at    *)
(* and above the bound, with and without broken characters.                   *)
EXTENDS HttpActuator

CONSTANTS listed, odd, oddNormal, plain

MCNormal == [u \in Urls |-> IF u = odd THEN oddNormal ELSE u]
MCAddresses == {[family |-> "v4", range |-> "public"], [family |-> "mapped v4", range |-> "loopback"]}
MCBodies == {[length |-> n, broken |-> {}] : n \in 0 .. 3} \cup {[length |-> 3, broken |-> {2, 3}]}
=============================================================================
