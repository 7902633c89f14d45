------------------------- MODULE SlimeAuthorizerProofs -------------------------
(***************************************************************************)
(* Proofs about SlimeAuthorizer, for any number of callers and agents, any *)
(* magnitudes, and any width of the counter.                               *)
(***************************************************************************)
EXTENDS SlimeAuthorizer, TLAPS

(* What makes the exchange safe: the sum a caller is about to store was     *)
(* checked against the budget with the very value it compares with.         *)
ExchangeIsChecked ==
    \A c \in Callers : pc[c] = "cas" => Admissible(call[c], current[c])

AuthInv == TypeOK /\ ExchangeIsChecked

(* A call in the loop is a call, with a positive magnitude.                  *)
LEMMA CallInLoop ==
  ASSUME TypeOK, NEW c \in Callers, pc[c] # "idle"
  PROVE  /\ call[c] \in Calls
         /\ call[c].agent \in Agents
         /\ call[c].magnitude \in Magnitudes
         /\ call[c].magnitude \in Nat /\ call[c].magnitude > 0
         /\ capacity[call[c].agent] \in 0 .. U64Max
         /\ MaxCapacity[call[c].agent] \in 0 .. U64Max
<1>1. call[c] \in Calls
  BY DEF TypeOK
<1>2. call[c].agent \in Agents /\ call[c].magnitude \in Magnitudes
  BY <1>1 DEF Calls
<1>3. call[c].magnitude \in Nat /\ call[c].magnitude > 0
  <2>1. \A m \in Magnitudes : m \in Nat /\ m # 0
    BY AuthorizerConstants, Zenon
  <2>2. call[c].magnitude \in Nat /\ call[c].magnitude # 0
    BY <1>2, <2>1, Zenon
  <2>3. \A n \in Nat : n # 0 => n > 0
    BY SMT
  <2> QED BY <2>2, <2>3, Zenon
<1>4. capacity[call[c].agent] \in 0 .. U64Max /\ MaxCapacity[call[c].agent] \in 0 .. U64Max
  BY <1>2, AuthorizerConstants DEF TypeOK
<1> QED BY <1>1, <1>2, <1>3, <1>4

(* The counters of a freshly booted registry are typed.                      *)
LEMMA AuthInit == Init => AuthInv
  BY AuthorizerConstants DEF Init, AuthInv, TypeOK, ExchangeIsChecked

(* Returning to idle leaves the caller's own variables typed, and takes it   *)
(* out of the exchange.                                                      *)
LEMMA ReturnIsTyped ==
  ASSUME AuthInv, NEW c \in Callers, Return(c)
  PROVE  /\ pc' \in [Callers -> {"idle", "load", "cas"}]
         /\ call' \in [Callers -> Calls \cup {NoCall}]
         /\ \A d \in Callers : pc'[d] = "idle" <=> call'[d] = NoCall
         /\ current' \in [Callers -> 0 .. U64Max]
         /\ losses' \in [Callers -> Nat]
         /\ \A d \in Callers : pc'[d] = "cas" => Admissible(call'[d], current'[d])
<1> USE DEF AuthInv, TypeOK, ExchangeIsChecked, Return
<1>1. /\ pc' \in [Callers -> {"idle", "load", "cas"}]
      /\ call' \in [Callers -> Calls \cup {NoCall}]
      /\ \A d \in Callers : pc'[d] = "idle" <=> call'[d] = NoCall
  OBVIOUS
<1>2. current' \in [Callers -> 0 .. U64Max] /\ losses' \in [Callers -> Nat]
  BY AuthorizerConstants
<1>3. \A d \in Callers : pc'[d] = "cas" => d # c /\ pc[d] = "cas"
  OBVIOUS
<1>4. \A d \in Callers : d # c => call'[d] = call[d] /\ current'[d] = current[d]
  OBVIOUS
<1> QED BY <1>1, <1>2, <1>3, <1>4

(* Every step of every caller keeps the types and the checked exchange.      *)
LEMMA AuthNext == AuthInv /\ [Next]_vars => AuthInv'
<1> SUFFICES ASSUME AuthInv, [Next]_vars PROVE AuthInv'
  OBVIOUS
<1> USE DEF AuthInv, TypeOK, ExchangeIsChecked
<1>1. ASSUME NEW c \in Callers, NEW request \in Calls, ReserveEnter(c, request)
      PROVE  AuthInv'
  <2>1. request # NoCall
    BY AuthorizerConstants
  <2>2. TypeOK'
    BY <1>1, <2>1 DEF ReserveEnter, history
  <2>3. ExchangeIsChecked'
    <3> SUFFICES ASSUME NEW d \in Callers, pc'[d] = "cas"
                 PROVE  Admissible(call'[d], current'[d])
      BY DEF Admissible
    <3>1. d # c /\ pc[d] = "cas" /\ call'[d] = call[d] /\ current'[d] = current[d]
      BY <1>1 DEF ReserveEnter
    <3> QED BY <3>1
  <2> QED BY <2>2, <2>3
<1>2. ASSUME NEW c \in Callers, NEW request \in Calls, CheckOnlyDenies(c, request)
      PROVE  AuthInv'
  <2>1. request.agent \in Agents /\ request.magnitude \in Magnitudes
    BY DEF Calls
  <2>2. denied' \subseteq Agents \X Magnitudes
    BY <1>2, <2>1 DEF CheckOnlyDenies
  <2> QED BY <1>2, <2>2 DEF CheckOnlyDenies, code, Admissible
<1>3. ASSUME NEW c \in Callers, LoadAdmits(c) PROVE AuthInv'
  <2>1. pc[c] # "idle" /\ call[c] # NoCall
    BY <1>3 DEF LoadAdmits
  <2>2. capacity[call[c].agent] \in 0 .. U64Max
    BY <2>1, CallInLoop
  <2>3. TypeOK'
    BY <1>3, <2>1, <2>2 DEF LoadAdmits, history
  <2>4. ExchangeIsChecked'
    BY <1>3, <2>2 DEF LoadAdmits, Admissible
  <2> QED BY <2>3, <2>4
<1>4. ASSUME NEW c \in Callers, LoadDenies(c) PROVE AuthInv'
  <2>1. call[c].agent \in Agents /\ call[c].magnitude \in Magnitudes
    BY <1>4, CallInLoop DEF LoadDenies
  <2>2. denied' \subseteq Agents \X Magnitudes
    BY <1>4, <2>1 DEF LoadDenies
  <2> QED BY <1>4, <2>2, ReturnIsTyped DEF LoadDenies
<1>5. ASSUME NEW c \in Callers, CasSucceeds(c) PROVE AuthInv'
  <2> DEFINE a == call[c].agent
  <2>1. /\ a \in Agents
        /\ call[c].magnitude \in Nat
        /\ Admissible(call[c], current[c])
        /\ current[c] \in 0 .. U64Max
    BY <1>5, CallInLoop DEF CasSucceeds
  <2>2. current[c] + call[c].magnitude \in 0 .. U64Max
    BY <2>1, AuthorizerConstants DEF Admissible
  <2>3. capacity' \in [Agents -> 0 .. U64Max]
    BY <1>5, <2>1, <2>2 DEF CasSucceeds
  <2>4. granted' \in [Agents -> Nat]
    BY <1>5, <2>1 DEF CasSucceeds
  <2> QED BY <1>5, <2>3, <2>4, ReturnIsTyped DEF CasSucceeds
<1>6. ASSUME NEW c \in Callers, CasFails(c) PROVE AuthInv'
  <2>1. TypeOK'
    BY <1>6, AuthorizerConstants DEF CasFails
  <2>2. ExchangeIsChecked'
    BY <1>6 DEF CasFails, Admissible
  <2> QED BY <2>1, <2>2
<1>7. CASE UNCHANGED vars
  BY <1>7 DEF vars, Admissible
<1> QED BY <1>1, <1>2, <1>3, <1>4, <1>5, <1>6, <1>7 DEF Next, Step

(* The strengthened type invariant holds in every behaviour.                 *)
LEMMA AuthCorrect == Spec => []AuthInv
  BY AuthInit, AuthNext, PTL DEF Spec

(* The counter never leaves its type: checked_add and the comparison bound   *)
(* it, whatever the budgets and the width.                                   *)
THEOREM AuthTypeCorrect == Spec => []TypeOK
<1>1. AuthInv => TypeOK
  BY DEF AuthInv
<1> QED BY <1>1, AuthCorrect, PTL

-----------------------------------------------------------------------------
(* Only a successful exchange moves a counter, and it moves one, upwards, by  *)
(* the magnitude it was called with, to a value within the budget.           *)
LEMMA CounterMoves ==
  ASSUME AuthInv, [Next]_vars
  PROVE  \/ UNCHANGED <<capacity, granted>>
         \/ \E a \in Agents, m \in Nat :
               /\ capacity' = [capacity EXCEPT ![a] = capacity[a] + m]
               /\ granted' = [granted EXCEPT ![a] = granted[a] + m]
               /\ capacity[a] + m <= MaxCapacity[a]
               /\ denied' = denied
<1>1. ASSUME NEW c \in Callers, CasSucceeds(c)
      PROVE  \E a \in Agents, m \in Nat :
               /\ capacity' = [capacity EXCEPT ![a] = capacity[a] + m]
               /\ granted' = [granted EXCEPT ![a] = granted[a] + m]
               /\ capacity[a] + m <= MaxCapacity[a]
               /\ denied' = denied
  <2>1. /\ call[c].agent \in Agents
        /\ call[c].magnitude \in Nat
        /\ Admissible(call[c], current[c])
    BY <1>1, CallInLoop DEF AuthInv, ExchangeIsChecked, CasSucceeds
  <2> QED BY <1>1, <2>1 DEF CasSucceeds, Admissible
<1>2. CASE UNCHANGED vars
  BY <1>2 DEF vars
<1> QED
  BY <1>1, <1>2 DEF Next, Step, ReserveEnter, CheckOnlyDenies, LoadAdmits,
                    LoadDenies, CasFails, code, history

(* The counter is exactly the sum of what was authorized and never passes    *)
(* max_capacity: no reservation is lost or counted twice by any interleaving *)
(* of any number of compare-exchange loops.                                  *)
THEOREM BudgetIsExact == Spec => []ExactBudget
<1>1. Init => ExactBudget
  BY AuthorizerConstants DEF Init, ExactBudget
<1>2. AuthInv /\ ExactBudget /\ [Next]_vars => ExactBudget'
  <2> SUFFICES ASSUME AuthInv, ExactBudget, [Next]_vars PROVE ExactBudget'
    OBVIOUS
  <2>1. CASE UNCHANGED <<capacity, granted>>
    BY <2>1 DEF ExactBudget
  <2>2. ASSUME NEW a \in Agents, NEW m \in Nat,
               capacity' = [capacity EXCEPT ![a] = capacity[a] + m],
               granted' = [granted EXCEPT ![a] = granted[a] + m],
               capacity[a] + m <= MaxCapacity[a]
        PROVE  ExactBudget'
    BY <2>2 DEF ExactBudget, AuthInv, TypeOK
  <2> QED BY <2>1, <2>2, CounterMoves
<1> QED BY <1>1, <1>2, AuthCorrect, PTL DEF Spec

-----------------------------------------------------------------------------
(* A refusal for capacity stays justified: counters only grow.               *)
THEOREM DenialsAreFinal == Spec => []DenialIsFinal
<1>1. Init => DenialIsFinal
  BY DEF Init, DenialIsFinal
<1>2. AuthInv /\ DenialIsFinal /\ [Next]_vars => DenialIsFinal'
  <2> SUFFICES ASSUME AuthInv, DenialIsFinal, [Next]_vars PROVE DenialIsFinal'
    OBVIOUS
  <2> USE DEF AuthInv, DenialIsFinal
  <2>1. ASSUME NEW a \in Agents, NEW m \in Nat,
               capacity' = [capacity EXCEPT ![a] = capacity[a] + m],
               denied' = denied
        PROVE  DenialIsFinal'
    <3> SUFFICES ASSUME NEW d \in denied
                 PROVE  capacity'[d[1]] + d[2] > MaxCapacity[d[1]]
      BY <2>1
    <3>1. d[1] \in Agents /\ d[2] \in Nat
      BY AuthorizerConstants DEF TypeOK
    <3>2. capacity[d[1]] \in 0 .. U64Max /\ MaxCapacity[d[1]] \in 0 .. U64Max
      BY <3>1, AuthorizerConstants DEF TypeOK
    <3>3. capacity'[d[1]] = capacity[d[1]] \/ capacity'[d[1]] = capacity[d[1]] + m
      BY <2>1, <3>1 DEF TypeOK
    <3> QED BY <3>1, <3>2, <3>3, AuthorizerConstants
  <2>2. ASSUME NEW c \in Calls, c.agent \in Agents, c.magnitude \in Nat,
               ~Admissible(c, capacity[c.agent]),
               denied' = denied \cup {<<c.agent, c.magnitude>>},
               UNCHANGED capacity
        PROVE  DenialIsFinal'
    BY <2>2, AuthorizerConstants DEF Admissible, TypeOK
  <2>3. ASSUME NEW c \in Callers, LoadDenies(c) PROVE DenialIsFinal'
    BY <2>2, <2>3, CallInLoop DEF LoadDenies
  <2>4. ASSUME NEW c \in Callers, NEW request \in Calls, CheckOnlyDenies(c, request)
        PROVE  DenialIsFinal'
    <3>1. request.agent \in Agents /\ request.magnitude \in Nat
      BY AuthorizerConstants DEF Calls
    <3> QED BY <2>2, <2>4, <3>1 DEF CheckOnlyDenies, code
  <2>5. ASSUME UNCHANGED <<capacity, denied>> PROVE DenialIsFinal'
    BY <2>5
  <2>6. ASSUME NEW c \in Callers, CasSucceeds(c) PROVE DenialIsFinal'
    <3>1. ~UNCHANGED capacity \/ UNCHANGED <<capacity, denied>>
      BY <2>6 DEF CasSucceeds
    <3> QED BY <2>1, <2>5, <3>1, CounterMoves
  <2> QED
    BY <2>3, <2>4, <2>5, <2>6
       DEF Next, Step, ReserveEnter, LoadAdmits, CasFails, vars, history
<1> QED BY <1>1, <1>2, AuthCorrect, PTL DEF Spec

-----------------------------------------------------------------------------
(* What a caller compares with, the counter has had: it is no more than the   *)
(* counter has now, and no less than the exchanges that the call has lost.   *)
LossInv ==
    \A c \in Callers :
        /\ pc[c] = "load" => losses[c] <= capacity[call[c].agent]
        /\ pc[c] = "cas"  => losses[c] <= current[c] /\ current[c] <= capacity[call[c].agent]
        /\ pc[c] = "idle" => losses[c] = 0

(* Counters never fall.                                                      *)
LEMMA CountersGrow ==
  ASSUME AuthInv, [Next]_vars, NEW a \in Agents
  PROVE  capacity[a] <= capacity'[a]
<1>1. capacity[a] \in Nat /\ capacity \in [Agents -> 0 .. U64Max]
  BY AuthorizerConstants DEF AuthInv, TypeOK
<1>2. CASE UNCHANGED <<capacity, granted>>
  BY <1>1, <1>2
<1>3. ASSUME NEW b \in Agents, NEW m \in Nat, capacity' = [capacity EXCEPT ![b] = capacity[b] + m]
      PROVE  capacity[a] <= capacity'[a]
  BY <1>1, <1>3
<1> QED BY <1>2, <1>3, CounterMoves

(* A caller that a step leaves where it is keeps its part of the invariant.   *)
LEMMA OthersLoseNothing ==
  ASSUME AuthInv, LossInv, [Next]_vars, NEW c \in Callers,
         pc'[c] = pc[c], call'[c] = call[c], current'[c] = current[c], losses'[c] = losses[c]
  PROVE  /\ pc'[c] = "load" => losses'[c] <= capacity'[call'[c].agent]
         /\ pc'[c] = "cas"  => losses'[c] <= current'[c] /\ current'[c] <= capacity'[call'[c].agent]
         /\ pc'[c] = "idle" => losses'[c] = 0
<1>1. CASE pc[c] = "idle"
  BY <1>1 DEF LossInv
<1>2. CASE pc[c] # "idle"
  <2> DEFINE a == call[c].agent
  <2>1. a \in Agents /\ capacity[a] \in Nat
    BY <1>2, CallInLoop, AuthorizerConstants DEF AuthInv
  <2>2. capacity[a] <= capacity'[a] /\ capacity'[a] \in Nat
    BY <2>1, CountersGrow, AuthNext, AuthorizerConstants DEF AuthInv, TypeOK
  <2>3. losses[c] \in Nat /\ current[c] \in Nat
    BY AuthorizerConstants DEF AuthInv, TypeOK
  <2> QED BY <2>1, <2>2, <2>3 DEF LossInv
<1> QED BY <1>1, <1>2

(* A lost exchange leaves the counter above what was compared with, so that   *)
(* it can be counted against it.                                             *)
LEMMA LossNext == AuthInv /\ LossInv /\ [Next]_vars => LossInv'
<1> SUFFICES ASSUME AuthInv, LossInv, [Next]_vars, NEW c \in Callers
             PROVE  /\ pc'[c] = "load" => losses'[c] <= capacity'[call'[c].agent]
                    /\ pc'[c] = "cas"  => losses'[c] <= current'[c] /\ current'[c] <= capacity'[call'[c].agent]
                    /\ pc'[c] = "idle" => losses'[c] = 0
  BY DEF LossInv
<1> DEFINE Stays == UNCHANGED <<pc[c], call[c], current[c], losses[c]>>
<1>0. losses[c] \in Nat /\ current[c] \in Nat /\ pc[c] \in {"idle", "load", "cas"}
  BY AuthorizerConstants DEF AuthInv, TypeOK
<1>1. ASSUME NEW request \in Calls, ReserveEnter(c, request)
      PROVE  pc'[c] = "load" /\ losses'[c] = 0 /\ call'[c] = request /\ capacity' = capacity
  BY <1>1 DEF ReserveEnter, history, AuthInv, TypeOK, LossInv
<1>2. CASE \E request \in Calls : ReserveEnter(c, request)
  <2>1. PICK request \in Calls : ReserveEnter(c, request)
    BY <1>2
  <2>2. request.agent \in Agents /\ capacity[request.agent] \in Nat
    BY AuthorizerConstants DEF Calls, AuthInv, TypeOK
  <2> QED BY <1>1, <2>1, <2>2
<1>3. CASE LoadAdmits(c)
  <2>1. /\ pc[c] = "load" /\ pc'[c] = "cas" /\ current'[c] = capacity[call[c].agent]
        /\ UNCHANGED <<capacity, call, losses>>
    BY <1>3 DEF LoadAdmits, history, AuthInv, TypeOK
  <2>2. capacity[call[c].agent] \in Nat
    BY <2>1, CallInLoop, AuthorizerConstants DEF AuthInv
  <2> QED BY <2>1, <2>2 DEF LossInv
<1>4. CASE LoadDenies(c) \/ CasSucceeds(c)
  BY <1>4 DEF LoadDenies, CasSucceeds, Return, AuthInv, TypeOK
<1>5. CASE CasFails(c)
  <2> DEFINE a == call[c].agent
  <2>1. /\ pc[c] = "cas" /\ pc'[c] = "load" /\ UNCHANGED <<capacity, call>>
        /\ losses'[c] = IF capacity[a] = current[c] THEN losses[c] ELSE losses[c] + 1
    BY <1>5 DEF CasFails, AuthInv, TypeOK
  <2>2. capacity[a] \in Nat /\ losses[c] <= current[c] /\ current[c] <= capacity[a]
    BY <2>1, CallInLoop, AuthorizerConstants DEF AuthInv, LossInv
  <2>3. losses'[c] <= capacity[a]
    BY <1>0, <2>1, <2>2
  <2> QED BY <2>1, <2>3
<1>6. ASSUME NEW d \in Callers, d # c, Step(d) PROVE Stays
  BY <1>6 DEF Step, ReserveEnter, CheckOnlyDenies, LoadAdmits, LoadDenies, CasSucceeds, CasFails,
              Return, history, code, AuthInv, TypeOK
<1>7. CASE UNCHANGED vars \/ \E request \in Calls : CheckOnlyDenies(c, request)
  BY <1>7, OthersLoseNothing DEF vars, code, CheckOnlyDenies
<1>8. ASSUME Stays
      PROVE  /\ pc'[c] = "load" => losses'[c] <= capacity'[call'[c].agent]
             /\ pc'[c] = "cas"  => losses'[c] <= current'[c] /\ current'[c] <= capacity'[call'[c].agent]
             /\ pc'[c] = "idle" => losses'[c] = 0
  BY <1>8, OthersLoseNothing
<1> QED BY <1>2, <1>3, <1>4, <1>5, <1>6, <1>7, <1>8 DEF Next, Step

(* The retries of the loop are bounded by the budget: whoever loses an        *)
(* exchange has lost it to units that were granted since its load.           *)
THEOREM RetriesAreBounded == Spec => []LossesAreBounded
<1>1. Init => LossInv
  BY DEF Init, LossInv
<1>2. AuthInv /\ LossInv => LossesAreBounded
  <2> SUFFICES ASSUME AuthInv, LossInv, NEW c \in Callers, pc[c] # "idle"
               PROVE  losses[c] <= capacity[call[c].agent]
    BY DEF LossesAreBounded
  <2>1. /\ losses[c] \in Nat /\ current[c] \in Nat /\ capacity[call[c].agent] \in Nat
        /\ pc[c] \in {"load", "cas"}
    BY CallInLoop, AuthorizerConstants DEF AuthInv, TypeOK
  <2> QED BY <2>1 DEF LossInv
<1> QED BY <1>1, <1>2, LossNext, AuthCorrect, PTL DEF Spec

-----------------------------------------------------------------------------
(* The loop implements the indivisible reservation: entering is Begin, a     *)
(* successful exchange is Grant, a refusing load is Deny, and every other    *)
(* step is invisible.  The exchange is a Grant of what fits because the      *)
(* value it compares with is the one it checked.                             *)
THEOREM Linearizable == Spec => ImplementsCapacityBudget
<1>1. Init => Budget!Init
  BY DEF Init, Budget!Init
<1>2. AuthInv /\ [Next]_vars => [Budget!Next]_(Budget!vars)
  <2> SUFFICES ASSUME AuthInv, [Next]_vars PROVE [Budget!Next]_(Budget!vars)
    OBVIOUS
  <2> USE DEF AuthInv, TypeOK, ExchangeIsChecked
  <2>1. ASSUME NEW c \in Callers, NEW request \in Calls, ReserveEnter(c, request)
        PROVE  Budget!Begin(c, request)
    BY <2>1 DEF ReserveEnter, Budget!Begin, Budget!Permitted, CheckPolicy
  <2>2. ASSUME NEW c \in Callers, CasSucceeds(c) PROVE Budget!Grant(c)
    <3>1. call[c] # NoCall /\ call[c].agent \in Agents
      BY <2>2, CallInLoop DEF CasSucceeds
    <3>2. Budget!Fits(call[c])
      BY <2>2 DEF CasSucceeds, Admissible, Budget!Fits
    <3> QED BY <2>2, <3>1, <3>2 DEF CasSucceeds, Return, Budget!Grant
  <2>3. ASSUME NEW c \in Callers, LoadDenies(c) PROVE Budget!Deny(c)
    <3>1. call[c] # NoCall
      BY <2>3 DEF LoadDenies
    <3>2. ~Budget!Fits(call[c])
      BY <2>3, CallInLoop, AuthorizerConstants DEF LoadDenies, Admissible, Budget!Fits
    <3> QED BY <2>3, <3>1, <3>2 DEF LoadDenies, Return, Budget!Deny
  <2>4. ASSUME UNCHANGED <<capacity, call>> PROVE UNCHANGED Budget!vars
    BY <2>4 DEF Budget!vars
  <2>5. CASE Next
    BY <2>1, <2>2, <2>3, <2>4, <2>5
       DEF Next, Step, LoadAdmits, CasFails, CheckOnlyDenies, code, history,
           Budget!Next, Calls, Budget!Calls
  <2>6. CASE UNCHANGED vars
    BY <2>4, <2>6 DEF vars
  <2> QED BY <2>5, <2>6
<1> QED BY <1>1, <1>2, AuthCorrect, PTL DEF Spec, ImplementsCapacityBudget, Budget!Spec
=============================================================================
