----------------------------- MODULE SingleFlight -----------------------------
(***************************************************************************)
(* What SAFA promises of an Idempotency-Key, without time and without the  *)
(* map that implements it: the ABSENT / IN_FLIGHT / DONE machine of        *)
(* docs/p1/SAFA_IDEMPOTENCY_STATE_MACHINE.md.  One handler at a time runs a *)
(* key; it commits an answer or is dropped; an answer is kept until the    *)
(* key is forgotten, and a key is never forgotten under its runner.        *)
(***************************************************************************)
CONSTANTS Tasks, Keys, Results, NoResult

VARIABLES
    status,   \* [Keys -> "absent", "in flight" or "done"]
    answer,   \* the committed answer of a key that is done
    runners   \* the handlers that run a key

vars == <<status, answer, runners>>

Idle(t) == \A k \in Keys : t \notin runners[k]

Init ==
    /\ status = [k \in Keys |-> "absent"]
    /\ answer = [k \in Keys |-> NoResult]
    /\ runners = [k \in Keys |-> {}]

Acquire(t, k) ==
    /\ Idle(t)
    /\ status[k] = "absent" /\ runners[k] = {}
    /\ status' = [status EXCEPT ![k] = "in flight"]
    /\ runners' = [runners EXCEPT ![k] = {t}]
    /\ UNCHANGED answer

Commit(t, k, r) ==
    /\ runners[k] = {t} /\ status[k] = "in flight"
    /\ status' = [status EXCEPT ![k] = "done"]
    /\ answer' = [answer EXCEPT ![k] = r]
    /\ runners' = [runners EXCEPT ![k] = {}]

Abandon(t, k) ==
    /\ runners[k] = {t}
    /\ runners' = [runners EXCEPT ![k] = {}]
    /\ UNCHANGED <<status, answer>>

Forget(S) ==
    /\ \A k \in S : status[k] # "absent" /\ runners[k] = {}
    /\ status' = [k \in Keys |-> IF k \in S THEN "absent" ELSE status[k]]
    /\ answer' = [k \in Keys |-> IF k \in S THEN NoResult ELSE answer[k]]
    /\ UNCHANGED runners

Finish(t, k) == Abandon(t, k) \/ \E r \in Results : Commit(t, k, r)

Next ==
    \/ \E t \in Tasks, k \in Keys : Acquire(t, k) \/ Finish(t, k)
    \/ \E S \in (SUBSET Keys) \ {{}} : Forget(S)

Spec == Init /\ [][Next]_vars

(* A handler that runs a key does not run for ever.                          *)
FairSpec == Spec /\ \A t \in Tasks, k \in Keys : WF_vars(Finish(t, k))
=============================================================================
