---------------------- MODULE IdempotencyCacheRefinement ----------------------
(***************************************************************************)
(* IdempotencyCache implements SingleFlight, as long as no Full path removes *)
(* an entry (it cannot when the keys fit below the capacity, and it can when *)
(* they do not) and handlers are shorter than the TTL.  An entry past its    *)
(* TTL is absent to SingleFlight, whether it is still in the map or not: the *)
(* next check_or_insert treats it so.                                        *)
(***************************************************************************)
EXTENDS IdempotencyCache

(* The cache never fills up: fewer keys than entries.                        *)
NeverFull == Cardinality(Keys) < MaxEntries

Live(k) == entries[k] # Absent /\ ~Expired(k)

StatusOf(k) == CASE ~Live(k)                         -> "absent"
                 [] Live(k) /\ entries[k].inFlight   -> "in flight"
                 [] Live(k) /\ ~entries[k].inFlight  -> "done"

AnswerOf(k) == IF Live(k) THEN entries[k].result ELSE NoResult

Ledger == INSTANCE SingleFlight WITH
    status  <- [k \in Keys |-> StatusOf(k)],
    answer  <- [k \in Keys |-> AnswerOf(k)],
    runners <- [k \in Keys |-> Owners(k)]

(* The cache is a single-flight table: every step of purge, snapshot, entry  *)
(* lock, complete, dropped future and clock is a step of SingleFlight or    *)
(* none, and every handler that owns a key gives it up.                     *)
ImplementsSingleFlight == Ledger!FairSpec
=============================================================================
