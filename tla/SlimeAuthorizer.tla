---------------------------- MODULE SlimeAuthorizer ----------------------------
(***************************************************************************)
(* P0Authorizer and AgentRegistry of safa-core/src/slime.rs: one atomic     *)
(* counter per agent, reserved by a load / checked_add /                   *)
(* compare_exchange_weak loop that any number of handlers runs at once.    *)
(*                                                                         *)
(* Policies are fixed at boot, so check_policy is a function of the call.  *)
(* Limit stands for the policy table: 0 is a domain that is disabled or    *)
(* missing, which from_toml_str's rejection of 0 leaves free.              *)
(***************************************************************************)
EXTENDS Naturals, FiniteSets

CONSTANTS
    Callers, Agents, Domains, Magnitudes, MaxCapacity, Limit,
    U64Max,   \* the largest value of the counter's type
    NoCall

Calls == [agent : Agents, domain : Domains, magnitude : Magnitudes]

ASSUME AuthorizerConstants ==
    /\ Magnitudes \subseteq Nat \ {0}
    /\ U64Max \in Nat
    /\ MaxCapacity \in [Agents -> 0 .. U64Max]
    /\ Limit \in [Agents -> [Domains -> Nat]]
    /\ NoCall \notin Calls

VARIABLES
    capacity,   \* the AtomicU64 of each agent's authorizer
    pc,         \* where each caller is in try_reserve
    call,       \* its arguments
    current,    \* its local of that name
    granted,    \* history: the sum of the magnitudes authorized, per agent
    denied,     \* history: the agents and magnitudes refused for capacity
    losses      \* history: how often each call lost its exchange to another

code    == <<capacity, pc, call, current>>
history == <<granted, denied, losses>>
vars    == <<capacity, pc, call, current, granted, denied, losses>>

(* check_policy: enabled, and within max_magnitude_per_action.               *)
CheckPolicy(c) == c.magnitude <= Limit[c.agent][c.domain]

(* Mutant: a wrapping addition.                                              *)
AdmissibleWrapping(c, cur) ==
    (cur + c.magnitude) % (U64Max + 1) <= MaxCapacity[c.agent]

(* Mutant: the last unit of the budget is never granted.                     *)
AdmissibleBelow(c, cur) == cur + c.magnitude < MaxCapacity[c.agent]

(* current.checked_add(magnitude) is Some(new) with new <= max_capacity.     *)
Admissible(c, cur) ==
    /\ cur + c.magnitude <= U64Max
    /\ cur + c.magnitude <= MaxCapacity[c.agent]

TypeOK ==
    /\ capacity \in [Agents -> 0 .. U64Max]
    /\ pc \in [Callers -> {"idle", "load", "cas"}]
    /\ call \in [Callers -> Calls \cup {NoCall}]
    /\ \A c \in Callers : pc[c] = "idle" <=> call[c] = NoCall
    /\ current \in [Callers -> 0 .. U64Max]
    /\ granted \in [Agents -> Nat]
    /\ denied \subseteq Agents \X Magnitudes
    /\ losses \in [Callers -> Nat]

Init ==
    /\ capacity = [a \in Agents |-> 0]
    /\ pc = [c \in Callers |-> "idle"]
    /\ call = [c \in Callers |-> NoCall]
    /\ current = [c \in Callers |-> 0]
    /\ granted = [a \in Agents |-> 0]
    /\ denied = {}
    /\ losses = [c \in Callers |-> 0]

-----------------------------------------------------------------------------
Return(c) ==
    /\ pc' = [pc EXCEPT ![c] = "idle"]
    /\ call' = [call EXCEPT ![c] = NoCall]
    /\ current' = [current EXCEPT ![c] = 0]
    /\ losses' = [losses EXCEPT ![c] = 0]

(* try_reserve up to the loop.  A call that policy refuses returns at once    *)
(* and changes nothing, so it has no action.                                 *)
ReserveEnter(c, request) ==
    /\ pc[c] = "idle"
    /\ CheckPolicy(request)
    /\ pc' = [pc EXCEPT ![c] = "load"]
    /\ call' = [call EXCEPT ![c] = request]
    /\ UNCHANGED <<capacity, current, history>>

(* The load, and the branch on checked_add.                                  *)
LoadAdmits(c) ==
    /\ pc[c] = "load"
    /\ Admissible(call[c], capacity[call[c].agent])
    /\ current' = [current EXCEPT ![c] = capacity[call[c].agent]]
    /\ pc' = [pc EXCEPT ![c] = "cas"]
    /\ UNCHANGED <<capacity, call, history>>

LoadDenies(c) ==
    /\ pc[c] = "load"
    /\ ~Admissible(call[c], capacity[call[c].agent])
    /\ denied' = denied \cup {<<call[c].agent, call[c].magnitude>>}
    /\ Return(c)
    /\ UNCHANGED <<capacity, granted>>

(* Mutant: the new value is stored without comparing.                        *)
StoreBlindly(c) ==
    LET a == call[c].agent IN
    /\ pc[c] = "cas"
    /\ capacity' = [capacity EXCEPT ![a] = current[c] + call[c].magnitude]
    /\ granted' = [granted EXCEPT ![a] = @ + call[c].magnitude]
    /\ Return(c)
    /\ UNCHANGED denied

(* compare_exchange_weak.                                                    *)
CasSucceeds(c) ==
    LET a == call[c].agent IN
    /\ pc[c] = "cas"
    /\ capacity[a] = current[c]
    /\ capacity' = [capacity EXCEPT ![a] = current[c] + call[c].magnitude]
    /\ granted' = [granted EXCEPT ![a] = @ + call[c].magnitude]
    /\ Return(c)
    /\ UNCHANGED denied

(* Mutant: the exchange is tried again with the value loaded before, and     *)
(* fails again.                                                              *)
CasRetriesLost(c) ==
    /\ pc[c] = "cas" /\ capacity[call[c].agent] # current[c]
    /\ losses' = [losses EXCEPT ![c] = @ + 1]
    /\ UNCHANGED <<code, granted, denied>>

(* Mutant: the same, uncounted.                                              *)
CasRetriesStale(c) == pc[c] = "cas" /\ UNCHANGED vars

(* It fails when the counter moved, and may fail when it did not: continue.  *)
CasFails(c) ==
    /\ pc[c] = "cas"
    /\ pc' = [pc EXCEPT ![c] = "load"]
    /\ current' = [current EXCEPT ![c] = 0]
    /\ losses' = [losses EXCEPT ![c] = IF capacity[call[c].agent] = current[c] THEN @ ELSE @ + 1]
    /\ UNCHANGED <<capacity, call, granted, denied>>

(* check_only: one load, no loop, nothing reserved.  Only its refusals for     *)
(* capacity are recorded.                                                    *)
CheckOnlyDenies(c, request) ==
    /\ pc[c] = "idle"
    /\ CheckPolicy(request)
    /\ ~Admissible(request, capacity[request.agent])
    /\ denied' = denied \cup {<<request.agent, request.magnitude>>}
    /\ UNCHANGED <<code, granted, losses>>

Step(c) ==
    \/ \E request \in Calls :
          ReserveEnter(c, request) \/ CheckOnlyDenies(c, request)
    \/ LoadAdmits(c)
    \/ LoadDenies(c)
    \/ CasSucceeds(c)
    \/ CasFails(c)

Next == \E c \in Callers : Step(c)

Spec == Init /\ [][Next]_vars

(* A thread in the loop keeps running, and a weak compare-exchange that is   *)
(* tried again and again on an unchanged counter succeeds in the end.        *)
Fairness == \A c \in Callers :
    /\ WF_vars(LoadAdmits(c) \/ LoadDenies(c) \/ CasSucceeds(c) \/ CasFails(c))
    /\ SF_vars(CasSucceeds(c))
FairSpec == Spec /\ Fairness

-----------------------------------------------------------------------------
(* Properties.                                                               *)

(* The counter is exactly what was authorized, to the last unit, however    *)
(* the loops of concurrent requests interleave: none is lost, none is       *)
(* counted twice, and the sum stays within max_capacity.                    *)
ExactBudget ==
    \A a \in Agents : capacity[a] = granted[a] /\ granted[a] <= MaxCapacity[a]

(* "impossible" for capacity is final: a magnitude once refused never fits   *)
(* again in this session, so a retry or a dry run cannot be answered        *)
(* otherwise (CAPACITY_MODEL.md: capacity never decreases, no rollback).     *)
DenialIsFinal ==
    \A d \in denied : capacity[d[1]] + d[2] > MaxCapacity[d[1]]

(* No call loses more exchanges to others than its agent's counter has units:  *)
(* who loses one finds the counter higher, never where it was before.  So the *)
(* unbounded loop ends, but for spurious failures, after max_capacity losses. *)
LossesAreBounded ==
    \A c \in Callers : pc[c] # "idle" => losses[c] <= capacity[call[c].agent]

(* try_reserve returns: a lost exchange means that another request took at  *)
(* least one unit of a finite budget, so a caller cannot lose for ever.      *)
ReserveReturns == \A c \in Callers : pc[c] # "idle" ~> pc[c] = "idle"

Budget == INSTANCE CapacityBudget WITH used <- capacity, pending <- call

(* The loop is linearizable: it implements the indivisible reservation of    *)
(* CapacityBudget, deciding at the successful exchange or the refusing load. *)
ImplementsCapacityBudget == Budget!Spec
=============================================================================
