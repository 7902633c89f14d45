--------------------------- MODULE IdempotencyCache ---------------------------
(***************************************************************************)
(* The idempotency cache of safa-core/src/idempotency.rs, driven the way   *)
(* handle_action (safa-daemon/src/server.rs) drives it.                    *)
(*                                                                         *)
(* check_or_insert is not atomic: it purges expired entries, then reads    *)
(* the number of entries, and only then locks the key's shard.  Each of    *)
(* these is a step here, and the steps of different tasks interleave.  A   *)
(* task that is answered New owns its key until it calls complete or its   *)
(* future is dropped; a task that is answered Full calls remove.           *)
(*                                                                         *)
(* Time is the age of an entry in ticks, saturating one past the TTL: the  *)
(* code compares elapsed time with the TTL and never looks further.        *)
(***************************************************************************)
EXTENDS Naturals, FiniteSets

CONSTANTS
    Tasks,       \* the handler futures that may run at the same time
    Keys,        \* Idempotency-Key values
    Results,     \* response bodies handed to complete()
    MaxEntries,  \* max_entries (10_000 in AppState::new)
    TTL,         \* ttl (300 s in AppState::new), in ticks
    MaxHold,     \* the longest a task stays the owner of a key, in ticks
    NoKey,       \* a task that checks no key
    Absent,      \* no entry for a key
    NoResult     \* result: None

Age   == 0 .. TTL + 1
Entry == [result : Results \cup {NoResult}, age : Age, inFlight : BOOLEAN]

ASSUME CacheConstants ==
    /\ IsFiniteSet(Tasks)
    /\ IsFiniteSet(Keys)
    /\ MaxEntries \in Nat \ {0}
    /\ TTL \in Nat \ {0}
    /\ MaxHold \in Nat
    /\ NoKey \notin Keys
    /\ NoResult \notin Results
    /\ Absent \notin Entry

(* Each handler must be shorter-lived than the entry that protects it.  The  *)
(* 30 s TimeoutLayer against the 300 s TTL gives this to every handler that *)
(* reaches an await; a blocked file operation is outside the timer's reach. *)
HoldsAreShort == MaxHold < TTL

VARIABLES
    entries,     \* the map: [Keys -> Entry or Absent]
    pc,          \* where each task is in handle_action's use of the cache
    taskKey,     \* the key each task checks
    atCapacity,  \* the local of check_or_insert, read before the entry lock
    held,        \* ticks since an owner was answered New
    sinceGrant,  \* history: ticks since the last New answer for a key
    lost,        \* history: keys whose entry a Full path removed since then
    contested    \* history: keys with an owner whose entry was removed so

code    == <<entries, pc, taskKey, atCapacity, held>>
history == <<sinceGrant, lost, contested>>
vars    == <<entries, pc, taskKey, atCapacity, held, sinceGrant, lost, contested>>

Present     == {k \in Keys : entries[k] # Absent}
Size        == Cardinality(Present)
Expired(k)  == entries[k].age > TTL
Owners(k)   == {t \in Tasks : pc[t] = "owner" /\ taskKey[t] = k}
FreshEntry  == [result |-> NoResult, age |-> 0, inFlight |-> TRUE]

TypeOK ==
    /\ entries \in [Keys -> Entry \cup {Absent}]
    /\ pc \in [Tasks -> {"out", "purged", "snapped", "full", "owner"}]
    /\ taskKey \in [Tasks -> Keys \cup {NoKey}]
    /\ atCapacity \in [Tasks -> BOOLEAN]
    /\ held \in [Tasks -> 0 .. MaxHold]
    /\ sinceGrant \in [Keys -> Age]
    /\ lost \subseteq Keys
    /\ contested \subseteq Keys
    /\ \A t \in Tasks : pc[t] = "out" <=> taskKey[t] = NoKey

Init ==
    /\ entries = [k \in Keys |-> Absent]
    /\ pc = [t \in Tasks |-> "out"]
    /\ taskKey = [t \in Tasks |-> NoKey]
    /\ atCapacity = [t \in Tasks |-> FALSE]
    /\ held = [t \in Tasks |-> 0]
    /\ sinceGrant = [k \in Keys |-> TTL + 1]
    /\ lost = {}
    /\ contested = {}

(* The call or the handler ends, and its locals with it.                    *)
Leave(t) ==
    /\ pc' = [pc EXCEPT ![t] = "out"]
    /\ taskKey' = [taskKey EXCEPT ![t] = NoKey]
    /\ atCapacity' = [atCapacity EXCEPT ![t] = FALSE]
    /\ held' = [held EXCEPT ![t] = 0]
    /\ contested' = {k \in contested : Owners(k) \ {t} # {}}

-----------------------------------------------------------------------------
(* Mutant: everything without a result is purged too.                       *)
PurgeUnfinished ==
    entries' = [k \in Keys |->
                  IF entries[k] # Absent /\ (entries[k].inFlight \/ entries[k].age >= TTL)
                  THEN Absent ELSE entries[k]]

(* check_or_insert, step 1: purge_expired.  It keeps what is younger than   *)
(* the TTL, in flight or not.                                              *)
PurgeExpired ==
    entries' = [k \in Keys |-> IF entries[k] # Absent /\ entries[k].age >= TTL
                                 THEN Absent ELSE entries[k]]

CheckPurge(t, k) ==
    /\ pc[t] = "out"
    /\ PurgeExpired
    /\ pc' = [pc EXCEPT ![t] = "purged"]
    /\ taskKey' = [taskKey EXCEPT ![t] = k]
    /\ UNCHANGED <<atCapacity, held, history>>

(* Step 2: the capacity snapshot, taken before the entry lock.             *)
CheckLen(t) ==
    /\ pc[t] = "purged"
    /\ atCapacity' = [atCapacity EXCEPT ![t] = Size >= MaxEntries]
    /\ pc' = [pc EXCEPT ![t] = "snapped"]
    /\ UNCHANGED <<entries, taskKey, held, history>>

Grant(t) ==
    LET k == taskKey[t] IN
    /\ entries' = [entries EXCEPT ![k] = FreshEntry]
    /\ pc' = [pc EXCEPT ![t] = "owner"]
    /\ sinceGrant' = [sinceGrant EXCEPT ![k] = 0]
    /\ lost' = lost \ {k}
    /\ atCapacity' = [atCapacity EXCEPT ![t] = FALSE]
    /\ UNCHANGED <<taskKey, held, contested>>

(* Mutant: the capacity snapshot is not looked at.                           *)
EntryNewOverCapacity(t) ==
    /\ pc[t] = "snapped"
    /\ entries[taskKey[t]] # Absent => Expired(taskKey[t])
    /\ Grant(t)

(* Mutant: an insert that trusts an earlier look at the key.                 *)
EntryNewBlind(t) ==
    /\ pc[t] = "snapped"
    /\ ~atCapacity[t]
    /\ Grant(t)

(* Step 3, under the entry lock.  New: a vacant slot with the snapshot      *)
(* below capacity, or an occupied slot past its TTL, overwritten in place. *)
EntryNew(t) ==
    LET k == taskKey[t] IN
    /\ pc[t] = "snapped"
    /\ \/ entries[k] = Absent /\ ~atCapacity[t]
       \/ entries[k] # Absent /\ Expired(k)
    /\ Grant(t)

(* Mutant: a request that finds its key in flight renews the entry.          *)
EntryInFlightRenews(t) ==
    LET k == taskKey[t] IN
    /\ pc[t] = "snapped"
    /\ entries[k] # Absent /\ ~Expired(k) /\ entries[k].inFlight
    /\ entries' = [entries EXCEPT ![k].age = 0]
    /\ Leave(t)
    /\ UNCHANGED <<sinceGrant, lost>>

(* InFlight: also the defensive arm, an entry neither in flight nor done.   *)
EntryInFlight(t) ==
    LET k == taskKey[t] IN
    /\ pc[t] = "snapped"
    /\ entries[k] # Absent /\ ~Expired(k)
    /\ entries[k].inFlight \/ entries[k].result = NoResult
    /\ Leave(t)
    /\ UNCHANGED <<entries, sinceGrant, lost>>

EntryCached(t) ==
    LET k == taskKey[t] IN
    /\ pc[t] = "snapped"
    /\ entries[k] # Absent /\ ~Expired(k)
    /\ ~entries[k].inFlight /\ entries[k].result # NoResult
    /\ Leave(t)
    /\ UNCHANGED <<entries, sinceGrant, lost>>

EntryFull(t) ==
    /\ pc[t] = "snapped"
    /\ entries[taskKey[t]] = Absent /\ atCapacity[t]
    /\ pc' = [pc EXCEPT ![t] = "full"]
    /\ UNCHANGED <<entries, taskKey, atCapacity, held, history>>

(* The handler's answer to Full: remove(&idem_key), after the lock of        *)
(* check_or_insert has been released.                                       *)
FullRemove(t) ==
    LET k == taskKey[t] IN
    /\ pc[t] = "full"
    /\ entries' = [entries EXCEPT ![k] = Absent]
    /\ pc' = [pc EXCEPT ![t] = "out"]
    /\ taskKey' = [taskKey EXCEPT ![t] = NoKey]
    /\ atCapacity' = [atCapacity EXCEPT ![t] = FALSE]
    /\ lost' = IF entries[k] # Absent THEN lost \cup {k} ELSE lost
    /\ contested' = IF Owners(k) # {} THEN contested \cup {k} ELSE contested
    /\ UNCHANGED <<held, sinceGrant>>

(* Mutant: the key is removed instead, as P0 did after an error.             *)
CompleteRemoves(t, r) ==
    /\ pc[t] = "owner"
    /\ entries' = [entries EXCEPT ![taskKey[t]] = Absent]
    /\ Leave(t)
    /\ UNCHANGED <<sinceGrant, lost>>

Filled(e, r) == [result |-> r, age |-> e.age, inFlight |-> FALSE]

(* complete(key, result): whatever entry the key has now, if it has one.    *)
Complete(t, r) ==
    LET k == taskKey[t] IN
    /\ pc[t] = "owner"
    /\ entries' = IF entries[k] = Absent THEN entries
                  ELSE [entries EXCEPT ![k] = Filled(entries[k], r)]
    /\ Leave(t)
    /\ UNCHANGED <<sinceGrant, lost>>

(* The owner's future is dropped at an await (30 s deadline, disconnect):   *)
(* nothing runs after the await, and the entry stays in flight.             *)
Abandon(t) ==
    /\ pc[t] = "owner"
    /\ Leave(t)
    /\ UNCHANGED <<entries, sinceGrant, lost>>

Older(a) == IF a > TTL THEN a ELSE a + 1
Aged(e)  == [result |-> e.result, age |-> Older(e.age), inFlight |-> e.inFlight]

Elapse ==
    /\ entries' = [k \in Keys |->
                     IF entries[k] = Absent THEN Absent
                     ELSE Aged(entries[k])]
    /\ held' = [t \in Tasks |-> IF pc[t] = "owner" THEN held[t] + 1 ELSE held[t]]
    /\ sinceGrant' = [k \in Keys |-> Older(sinceGrant[k])]
    /\ UNCHANGED <<pc, taskKey, atCapacity, lost, contested>>

(* Mutant: no deadline ends a handler.                                       *)
TickWithoutDeadline == Elapse

(* Time passes; MaxHold is the bound that the deadline puts on an owner.     *)
Tick ==
    /\ \A t \in Tasks : pc[t] = "owner" => held[t] < MaxHold
    /\ Elapse

Step(t) ==
    \/ \E k \in Keys : CheckPurge(t, k)
    \/ CheckLen(t)
    \/ EntryNew(t)
    \/ EntryInFlight(t)
    \/ EntryCached(t)
    \/ EntryFull(t)
    \/ FullRemove(t)
    \/ \E r \in Results : Complete(t, r)
    \/ Abandon(t)

Next == Tick \/ \E t \in Tasks : Step(t)

Spec == Init /\ [][Next]_vars

(* An owner's handler ends (tokio keeps polling it, and the deadline drops  *)
(* it otherwise), and time passes.  No request is assumed ever to arrive.   *)
Finish(t) == Abandon(t) \/ \E r \in Results : Complete(t, r)
Fairness  == WF_vars(Tick) /\ \A t \in Tasks : WF_vars(Finish(t))
FairSpec  == Spec /\ Fairness

-----------------------------------------------------------------------------
(* Properties.                                                              *)

Granted(t) == pc[t] = "snapped" /\ pc'[t] = "owner"
Done(k)    == entries[k] # Absent /\ ~entries[k].inFlight
Blocked(k) == entries[k] # Absent /\ entries[k].inFlight /\ ~Expired(k)

(* Tasks that will insert on the strength of a snapshot below capacity.     *)
Inserters == {t \in Tasks : pc[t] = "snapped" /\ ~atCapacity[t]}

(* The snapshot is taken before the entry lock, so concurrent requests may   *)
(* all see the last free slot: check_or_insert never holds the map above    *)
(* max_entries by more than the other requests in progress.                 *)
BoundedSize == Size <= MaxEntries - 1 + Cardinality(Tasks)

(* While a handler runs, the map still has the entry of its own grant,      *)
(* still in flight, neither evicted nor replaced nor filled by another,     *)
(* unless a Full path removed one.                                          *)
OwnerIsProtected ==
    \A t \in Tasks : pc[t] = "owner" /\ taskKey[t] \notin contested =>
        /\ entries[taskKey[t]] # Absent
        /\ entries[taskKey[t]].inFlight
        /\ entries[taskKey[t]].age = held[t]

(* check_or_insert answers New to one request per key at a time: no two     *)
(* handlers run the same key side by side, a Full path's victims aside.     *)
SoleOwner ==
    \A k \in Keys \ contested : \A t, u \in Owners(k) : t = u

(* Two New answers for one key are at least the TTL apart, whatever the     *)
(* order of purge, snapshot, entry lock and complete of the requests in     *)
(* between, unless a Full path removed the key's entry since the first.     *)
SpacedGrants ==
    [][\A t \in Tasks : Granted(t) =>
          sinceGrant[taskKey[t]] >= TTL \/ taskKey[t] \in lost]_vars

(* complete does not look at whose entry it fills, and still a recorded     *)
(* answer is never replaced by another while its entry lives, but where a   *)
(* Full path removed the entry of an owner that is still running.           *)
DoneIsStable ==
    [][\A k \in Keys : Done(k) /\ Done(k)' /\ entries'[k].result # entries[k].result =>
          k \in contested]_vars

(* A key whose handler was dropped at an await stays in flight and answers   *)
(* 409, but not for ever: it is done, gone or expired in the end, however   *)
(* often its clients retry.                                                 *)
KeyUnblocks == \A k \in Keys : Blocked(k) ~> ~Blocked(k)

(* What SAFA_IDEMPOTENCY_STATE_MACHINE.md promises as I2: within its TTL a   *)
(* key is never granted twice.  The code does not keep it when the cache is *)
(* full: see the run cache_full_path.                                       *)
NoDuplicateGrant ==
    [][\A t \in Tasks : Granted(t) => sinceGrant[taskKey[t]] >= TTL]_vars
=============================================================================
