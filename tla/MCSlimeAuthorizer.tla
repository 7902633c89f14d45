--------------------------- MODULE MCSlimeAuthorizer ---------------------------
(* Two agents on a two-bit counter.  One agent's budget is the counter's    *)
(* whole range, so that current + magnitude overflows before it exceeds the  *)
(* budget; the other's budget is smaller.  Each has one domain disabled.        *)
EXTENDS SlimeAuthorizer, TLC

CONSTANTS Wide, Narrow, Write, Exec

MCMaxCapacity == (Wide :> 3 @@ Narrow :> 2)
MCLimit == (Wide :> (Write :> 2 @@ Exec :> 0)) @@ (Narrow :> (Write :> 0 @@ Exec :> 2))
=============================================================================
