---------------------------- MODULE CapacityBudget ----------------------------
(***************************************************************************)
(* What the SLIME authorizer promises: each agent has a budget for the      *)
(* session, a reservation is decided in one indivisible step and takes its *)
(* magnitude when, and only when, it fits, and nothing is ever given back. *)
(* A call that policy refuses, and a dry run, leave no trace.               *)
(***************************************************************************)
EXTENDS Naturals

CONSTANTS
    Callers,      \* the threads that call the authorizer
    Agents, Domains,
    Magnitudes,   \* the magnitudes of requests; validate_magnitude: >= 1
    MaxCapacity,  \* [Agents -> Nat], max_capacity of the agent's config
    Limit,        \* [Agents -> [Domains -> Nat]], max_magnitude_per_action;
                  \* 0 for a domain that is disabled or not configured
    NoCall

Calls == [agent : Agents, domain : Domains, magnitude : Magnitudes]

(* check_policy *)
Permitted(call) == call.magnitude <= Limit[call.agent][call.domain]

VARIABLES
    used,      \* capacity_used() of each agent
    pending    \* the reservation each caller waits for

vars == <<used, pending>>

Fits(call) == used[call.agent] + call.magnitude <= MaxCapacity[call.agent]

Init ==
    /\ used = [a \in Agents |-> 0]
    /\ pending = [c \in Callers |-> NoCall]

Begin(c, call) ==
    /\ pending[c] = NoCall
    /\ Permitted(call)
    /\ pending' = [pending EXCEPT ![c] = call]
    /\ UNCHANGED used

Grant(c) ==
    LET call == pending[c] IN
    /\ call # NoCall /\ Fits(call)
    /\ used' = [used EXCEPT ![call.agent] = @ + call.magnitude]
    /\ pending' = [pending EXCEPT ![c] = NoCall]

Deny(c) ==
    /\ pending[c] # NoCall /\ ~Fits(pending[c])
    /\ pending' = [pending EXCEPT ![c] = NoCall]
    /\ UNCHANGED used

Next == \E c \in Callers :
    \/ \E call \in Calls : Begin(c, call)
    \/ Grant(c)
    \/ Deny(c)

Spec == Init /\ [][Next]_vars
=============================================================================
