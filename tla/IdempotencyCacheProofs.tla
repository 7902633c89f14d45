------------------------ MODULE IdempotencyCacheProofs ------------------------
(***************************************************************************)
(* Proofs about IdempotencyCache, for any tasks, keys, capacity and TTL,    *)
(* and of the step simulation by which it implements SingleFlight.          *)
(***************************************************************************)
EXTENDS IdempotencyCacheRefinement, FiniteSetTheorems, TLAPS

(* The entry that check_or_insert inserts is an entry.                      *)
LEMMA FreshIsEntry == FreshEntry \in Entry /\ FreshEntry # Absent
<1>1. FreshEntry \in Entry
  BY CacheConstants DEF FreshEntry, Entry, Age
<1> QED BY <1>1, CacheConstants

(* What complete makes of an entry is an entry.                             *)
LEMMA FilledEntry ==
  ASSUME NEW e \in Entry, NEW r \in Results
  PROVE  Filled(e, r) \in Entry
  BY DEF Entry, Filled

(* A tick takes an age to an age, saturating past the TTL.                  *)
LEMMA OlderAge == ASSUME NEW a \in Age PROVE Older(a) \in Age
  BY CacheConstants DEF Older, Age

(* What the clock makes of an entry is an entry.                            *)
LEMMA AgedEntry ==
  ASSUME NEW e \in Entry
  PROVE  Aged(e) \in Entry
  BY OlderAge DEF Entry, Aged

(* The empty cache of AppState::new is typed.                               *)
LEMMA TypeInit == Init => TypeOK
  BY CacheConstants DEF Init, TypeOK, Age

(* Every step of every task, and the clock's, keeps the types.              *)
LEMMA TypeNext == TypeOK /\ [Next]_vars => TypeOK'
<1> SUFFICES ASSUME TypeOK, [Next]_vars PROVE TypeOK'
  OBVIOUS
<1> USE CacheConstants DEF TypeOK
<1>1. ASSUME NEW t \in Tasks, NEW k \in Keys, CheckPurge(t, k) PROVE TypeOK'
  BY <1>1 DEF CheckPurge, PurgeExpired, history
<1>2. ASSUME NEW t \in Tasks, CheckLen(t) PROVE TypeOK'
  BY <1>2 DEF CheckLen, history
<1>3. ASSUME NEW t \in Tasks, EntryNew(t) PROVE TypeOK'
  <2>1. taskKey[t] \in Keys
    BY <1>3 DEF EntryNew
  <2> QED BY <1>3, <2>1, FreshIsEntry DEF EntryNew, Grant, Age
<1>4. ASSUME NEW t \in Tasks, Leave(t), UNCHANGED <<sinceGrant, lost>>,
             entries' \in [Keys -> Entry \cup {Absent}]
      PROVE  TypeOK'
  BY <1>4 DEF Leave
<1>5. ASSUME NEW t \in Tasks, EntryInFlight(t) \/ EntryCached(t) \/ Abandon(t) PROVE TypeOK'
  BY <1>5, <1>4 DEF EntryInFlight, EntryCached, Abandon
<1>6. ASSUME NEW t \in Tasks, EntryFull(t) PROVE TypeOK'
  BY <1>6 DEF EntryFull, history
<1>7. ASSUME NEW t \in Tasks, FullRemove(t) PROVE TypeOK'
  BY <1>7 DEF FullRemove, Owners
<1>8. ASSUME NEW t \in Tasks, NEW r \in Results, Complete(t, r) PROVE TypeOK'
  <2>1. entries' \in [Keys -> Entry \cup {Absent}]
    BY <1>8, FilledEntry DEF Complete
  <2> QED BY <1>8, <1>4, <2>1 DEF Complete
<1>9. CASE Tick
  <2>1. entries' \in [Keys -> Entry \cup {Absent}]
    BY <1>9, AgedEntry DEF Tick, Elapse
  <2>2. sinceGrant' \in [Keys -> Age]
    BY <1>9, OlderAge DEF Tick, Elapse
  <2>3. held' \in [Tasks -> 0 .. MaxHold]
    BY <1>9 DEF Tick, Elapse
  <2> QED BY <1>9, <2>1, <2>2, <2>3 DEF Tick, Elapse
<1>10. CASE UNCHANGED vars
  BY <1>10 DEF vars
<1> QED
  BY <1>1, <1>2, <1>3, <1>5, <1>6, <1>7, <1>8, <1>9, <1>10 DEF Next, Step

(* The cache's variables keep their types, whatever the interleaving; the    *)
(* bound on held is the deadline's.                                         *)
THEOREM TypeCorrect == Spec => []TypeOK
  BY TypeInit, TypeNext, PTL DEF Spec

-----------------------------------------------------------------------------
(* An entry is as old as the last grant of its key, and a key without an     *)
(* entry was granted at least the TTL ago, unless a Full path removed it.    *)
GrantInv ==
    \A k \in Keys :
        /\ entries[k] # Absent => entries[k].age = sinceGrant[k]
        /\ entries[k] = Absent => sinceGrant[k] >= TTL \/ k \in lost

(* No key has an entry and none was granted at boot.                         *)
LEMMA GrantInit == Init => GrantInv
  BY CacheConstants DEF Init, GrantInv

(* Every step keeps an entry's age equal to its grant's, or takes the entry  *)
(* away after the TTL or by a Full path.                                    *)
LEMMA GrantNext == TypeOK /\ GrantInv /\ [Next]_vars => GrantInv'
<1> SUFFICES ASSUME TypeOK, GrantInv, [Next]_vars PROVE GrantInv'
  OBVIOUS
<1> USE CacheConstants DEF TypeOK, GrantInv
<1>1. ASSUME NEW t \in Tasks, NEW k \in Keys, CheckPurge(t, k) PROVE GrantInv'
  BY <1>1 DEF CheckPurge, PurgeExpired, history
<1>2. ASSUME NEW t \in Tasks, EntryNew(t) PROVE GrantInv'
  <2>1. FreshEntry # Absent /\ FreshEntry.age = 0
    BY FreshIsEntry DEF FreshEntry
  <2> QED BY <1>2, <2>1 DEF EntryNew, Grant
<1>3. ASSUME NEW t \in Tasks, FullRemove(t) PROVE GrantInv'
  BY <1>3 DEF FullRemove
<1>4. ASSUME NEW t \in Tasks, NEW r \in Results, Complete(t, r) PROVE GrantInv'
  <2> DEFINE k == taskKey[t]
  <2>1. k \in Keys
    BY <1>4 DEF Complete
  <2>2. CASE entries[k] = Absent
    BY <1>4, <2>2 DEF Complete, Leave
  <2>3. CASE entries[k] # Absent
    <3>1. Filled(entries[k], r) # Absent /\ Filled(entries[k], r).age = entries[k].age
      BY <2>1, <2>3, FilledEntry DEF Filled
    <3> QED BY <1>4, <2>1, <2>3, <3>1 DEF Complete, Leave
  <2> QED BY <2>2, <2>3
<1>5. CASE Tick
  <2> SUFFICES ASSUME NEW k \in Keys
               PROVE  /\ entries'[k] # Absent => entries'[k].age = sinceGrant'[k]
                      /\ entries'[k] = Absent => sinceGrant'[k] >= TTL \/ k \in lost'
    OBVIOUS
  <2>1. sinceGrant'[k] = Older(sinceGrant[k]) /\ lost' = lost
    BY <1>5 DEF Tick, Elapse
  <2>2. CASE entries[k] = Absent
    <3>1. entries'[k] = Absent
      BY <1>5, <2>2 DEF Tick, Elapse
    <3> QED BY <2>1, <2>2, <3>1 DEF Older, Age
  <2>3. CASE entries[k] # Absent
    <3>1. entries'[k] = Aged(entries[k])
      BY <1>5, <2>3 DEF Tick, Elapse
    <3>2. Aged(entries[k]) # Absent /\ Aged(entries[k]).age = Older(entries[k].age)
      BY <2>3, AgedEntry DEF Aged
    <3> QED BY <2>1, <2>3, <3>1, <3>2
  <2> QED BY <2>2, <2>3
<1>6. ASSUME NEW t \in Tasks, UNCHANGED <<entries, sinceGrant, lost>> PROVE GrantInv'
  BY <1>6
<1>7. ASSUME NEW t \in Tasks,
             CheckLen(t) \/ EntryInFlight(t) \/ EntryCached(t) \/ EntryFull(t) \/ Abandon(t)
      PROVE  GrantInv'
  BY <1>7, <1>6 DEF CheckLen, EntryInFlight, EntryCached, EntryFull, Abandon, history
<1>8. CASE UNCHANGED vars
  BY <1>8 DEF vars
<1> QED
  BY <1>1, <1>2, <1>3, <1>4, <1>5, <1>7, <1>8 DEF Next, Step

(* Only check_or_insert's New answer makes a task an owner.                  *)
LEMMA GrantIsEntryNew ==
  ASSUME TypeOK, Next, NEW t \in Tasks, Granted(t)
  PROVE  EntryNew(t)
<1> USE DEF TypeOK, Granted
<1>1. PICK u \in Tasks : Step(u)
  BY DEF Next, Tick, Elapse
<1>2. CASE u = t
  BY <1>1, <1>2 DEF Step, CheckPurge, CheckLen, EntryNew, EntryInFlight, EntryCached,
                   EntryFull, FullRemove, Complete, Abandon, Leave
<1>3. CASE u # t
  BY <1>1, <1>3 DEF Step, CheckPurge, CheckLen, EntryNew, Grant, EntryInFlight,
                   EntryCached, EntryFull, FullRemove, Complete, Abandon, Leave
<1> QED BY <1>2, <1>3

(* Two New answers for one key are at least the TTL apart, unless a Full     *)
(* path removed the key's entry in between: for any number of requests,     *)
(* keys and entries, and however long a handler keeps its key.              *)
THEOREM GrantsAreSpaced == Spec => SpacedGrants
<1>1. TypeOK /\ GrantInv /\ [Next]_vars =>
        [\A t \in Tasks : Granted(t) =>
            sinceGrant[taskKey[t]] >= TTL \/ taskKey[t] \in lost]_vars
  <2> SUFFICES ASSUME TypeOK, GrantInv, Next, NEW t \in Tasks, Granted(t)
               PROVE  sinceGrant[taskKey[t]] >= TTL \/ taskKey[t] \in lost
    OBVIOUS
  <2>1. EntryNew(t)
    BY GrantIsEntryNew
  <2>2. taskKey[t] \in Keys
    BY <2>1 DEF TypeOK, EntryNew
  <2> QED BY <2>1, <2>2, CacheConstants DEF TypeOK, GrantInv, EntryNew, Expired, Age
<1> QED BY <1>1, TypeCorrect, GrantInit, GrantNext, PTL DEF Spec, SpacedGrants

-----------------------------------------------------------------------------
(* With handlers shorter than the TTL, an owner has its own entry in the     *)
(* map and is alone, unless a Full path interfered.                         *)
OwnerInv ==
    /\ OwnerIsProtected
    /\ SoleOwner
    /\ \A t \in Tasks : pc[t] # "owner" => held[t] = 0

(* No task owns a key at boot.                                               *)
LEMMA OwnerInit == Init => OwnerInv
  BY DEF Init, OwnerInv, OwnerIsProtected, SoleOwner, Owners

(* A key that is neither contested nor protected by a live entry has no      *)
(* owner.                                                                   *)
LEMMA NoOwner ==
  ASSUME TypeOK, OwnerInv, HoldsAreShort,
         NEW k \in Keys, k \notin contested,
         entries[k] = Absent \/ entries[k].age >= TTL
  PROVE  Owners(k) = {}
<1> SUFFICES ASSUME NEW t \in Tasks, pc[t] = "owner", taskKey[t] = k PROVE FALSE
  BY DEF Owners
<1>1. entries[k] # Absent /\ entries[k].age = held[t]
  BY DEF OwnerInv, OwnerIsProtected
<1>2. held[t] \in 0 .. MaxHold
  BY DEF TypeOK
<1> QED BY <1>1, <1>2, CacheConstants DEF HoldsAreShort

(* When a task leaves a key, the key is contested still or was not, or has   *)
(* no owner any more.                                                       *)
LEMMA LeaveKeepsOwners ==
  ASSUME TypeOK, OwnerInv, NEW t \in Tasks, Leave(t),
         \A k \in Keys : entries'[k] = entries[k] \/ (taskKey[t] = k /\ pc[t] = "owner")
  PROVE  OwnerInv'
<1> USE DEF TypeOK, Leave
<1>1. ASSUME NEW u \in Tasks, pc'[u] = "owner"
      PROVE  u # t /\ pc[u] = "owner" /\ taskKey'[u] = taskKey[u] /\ held'[u] = held[u]
  BY <1>1
<1>2. \A k \in Keys : Owners(k)' = Owners(k) \ {t}
  BY DEF Owners
<1>3. ASSUME NEW k \in Keys, k \notin contested', Owners(k)' # {} PROVE k \notin contested
  BY <1>2, <1>3
<1>4. OwnerIsProtected'
  <2> SUFFICES ASSUME NEW u \in Tasks, pc'[u] = "owner", taskKey'[u] \notin contested'
               PROVE  /\ entries'[taskKey'[u]] # Absent
                      /\ entries'[taskKey'[u]].inFlight
                      /\ entries'[taskKey'[u]].age = held'[u]
    BY DEF OwnerIsProtected
  <2> DEFINE k == taskKey[u]
  <2>1. u # t /\ pc[u] = "owner" /\ taskKey'[u] = k /\ held'[u] = held[u]
    BY <1>1
  <2>2. k \in Keys
    BY <2>1
  <2>3. u \in Owners(k)'
    BY <2>1 DEF Owners
  <2>4. k \notin contested
    BY <1>3, <2>1, <2>2, <2>3
  <2>5. u \in Owners(k) /\ ~ (pc[t] = "owner" /\ taskKey[t] = k)
    BY <2>1, <2>2, <2>4 DEF OwnerInv, SoleOwner, Owners
  <2>6. entries'[k] = entries[k]
    BY <2>2, <2>5
  <2> QED BY <2>1, <2>4, <2>6 DEF OwnerInv, OwnerIsProtected
<1>5. SoleOwner'
  BY <1>2, <1>3 DEF OwnerInv, SoleOwner
<1>6. \A u \in Tasks : pc'[u] # "owner" => held'[u] = 0
  BY DEF OwnerInv
<1> QED BY <1>4, <1>5, <1>6 DEF OwnerInv

(* Every step keeps the owner invariant, when no handler outlasts the TTL.    *)
LEMMA OwnerNext == TypeOK /\ OwnerInv /\ HoldsAreShort /\ [Next]_vars => OwnerInv'
<1> SUFFICES ASSUME TypeOK, OwnerInv, HoldsAreShort, [Next]_vars PROVE OwnerInv'
  OBVIOUS
<1> USE CacheConstants DEF TypeOK
<1>1. ASSUME NEW t \in Tasks, NEW k \in Keys, CheckPurge(t, k) PROVE OwnerInv'
  <2>1. \A u \in Tasks : pc'[u] = "owner" => pc[u] = "owner" /\ taskKey'[u] = taskKey[u]
    BY <1>1 DEF CheckPurge
  <2>2. \A u \in Tasks : pc[u] = "owner" /\ taskKey[u] \notin contested =>
            entries'[taskKey[u]] = entries[taskKey[u]]
    <3> SUFFICES ASSUME NEW u \in Tasks, pc[u] = "owner", taskKey[u] \notin contested
                 PROVE  entries'[taskKey[u]] = entries[taskKey[u]]
      OBVIOUS
    <3>1. taskKey[u] \in Keys /\ u \in Owners(taskKey[u])
      BY DEF Owners
    <3>2. ~ (entries[taskKey[u]] # Absent /\ entries[taskKey[u]].age >= TTL)
      BY <3>1, NoOwner
    <3> QED BY <1>1, <3>1, <3>2 DEF CheckPurge, PurgeExpired
  <2>3. contested' = contested /\ held' = held
    BY <1>1 DEF CheckPurge, history
  <2>4. \A j \in Keys : Owners(j)' = Owners(j)
    BY <1>1 DEF CheckPurge, Owners
  <2>5. OwnerIsProtected'
    BY <2>1, <2>2, <2>3 DEF OwnerInv, OwnerIsProtected
  <2>6. SoleOwner'
    BY <2>3, <2>4 DEF OwnerInv, SoleOwner
  <2>7. \A u \in Tasks : pc'[u] # "owner" => held'[u] = 0
    BY <1>1, <2>3 DEF OwnerInv, CheckPurge
  <2> QED BY <2>5, <2>6, <2>7 DEF OwnerInv
<1>2. ASSUME NEW t \in Tasks, CheckLen(t) \/ EntryFull(t) PROVE OwnerInv'
  <2>1. \A j \in Keys : Owners(j)' = Owners(j)
    BY <1>2 DEF CheckLen, EntryFull, Owners
  <2>2. UNCHANGED <<entries, taskKey, held, contested>>
    BY <1>2 DEF CheckLen, EntryFull, history
  <2>3. \A u \in Tasks : pc'[u] = "owner" <=> pc[u] = "owner"
    BY <1>2 DEF CheckLen, EntryFull
  <2> QED BY <2>1, <2>2, <2>3 DEF OwnerInv, OwnerIsProtected, SoleOwner
<1>3. ASSUME NEW t \in Tasks, EntryNew(t) PROVE OwnerInv'
  <2> DEFINE k == taskKey[t]
  <2>1. k \in Keys /\ pc[t] = "snapped" /\ held[t] = 0
    BY <1>3 DEF EntryNew, OwnerInv
  <2>2. k \in contested \/ Owners(k) = {}
    BY <1>3, <2>1, NoOwner DEF EntryNew, Expired, Entry, Age
  <2>3. /\ entries' = [entries EXCEPT ![k] = FreshEntry]
        /\ pc' = [pc EXCEPT ![t] = "owner"]
        /\ UNCHANGED <<taskKey, held, contested>>
    BY <1>3 DEF EntryNew, Grant
  <2>4. FreshEntry # Absent /\ FreshEntry.age = 0 /\ FreshEntry.inFlight
    BY FreshIsEntry DEF FreshEntry
  <2>5. OwnerIsProtected'
    <3> SUFFICES ASSUME NEW u \in Tasks, pc'[u] = "owner", taskKey[u] \notin contested
                 PROVE  /\ entries'[taskKey[u]] # Absent
                        /\ entries'[taskKey[u]].inFlight
                        /\ entries'[taskKey[u]].age = held[u]
      BY <2>3 DEF OwnerIsProtected
    <3>1. CASE u = t
      BY <2>1, <2>3, <2>4, <3>1
    <3>2. CASE u # t
      <4>1. pc[u] = "owner" /\ taskKey[u] # k
        BY <2>1, <2>2, <2>3, <3>2 DEF Owners
      <4> QED BY <2>1, <2>3, <4>1 DEF OwnerInv, OwnerIsProtected
    <3> QED BY <3>1, <3>2
  <2>6. SoleOwner'
    <3>1. Owners(k)' = Owners(k) \cup {t}
      BY <2>1, <2>3 DEF Owners
    <3>2. \A j \in Keys \ {k} : Owners(j)' = Owners(j)
      BY <2>1, <2>3 DEF Owners
    <3> QED BY <2>2, <2>3, <3>1, <3>2 DEF OwnerInv, SoleOwner
  <2>7. \A u \in Tasks : pc'[u] # "owner" => held'[u] = 0
    BY <2>3 DEF OwnerInv
  <2> QED BY <2>5, <2>6, <2>7 DEF OwnerInv
<1>4. ASSUME NEW t \in Tasks, EntryInFlight(t) \/ EntryCached(t) \/ Abandon(t) PROVE OwnerInv'
  <2>1. Leave(t) /\ entries' = entries
    BY <1>4 DEF EntryInFlight, EntryCached, Abandon
  <2> QED BY <2>1, LeaveKeepsOwners
<1>5. ASSUME NEW t \in Tasks, NEW r \in Results, Complete(t, r) PROVE OwnerInv'
  <2>1. Leave(t) /\ pc[t] = "owner" /\ \A k \in Keys : entries'[k] = entries[k] \/ taskKey[t] = k
    BY <1>5 DEF Complete
  <2> QED BY <2>1, LeaveKeepsOwners
<1>6. ASSUME NEW t \in Tasks, FullRemove(t) PROVE OwnerInv'
  <2> DEFINE k == taskKey[t]
  <2>1. /\ pc[t] = "full" /\ k \in Keys
        /\ pc' = [pc EXCEPT ![t] = "out"]
        /\ taskKey' = [taskKey EXCEPT ![t] = NoKey]
        /\ entries' = [entries EXCEPT ![k] = Absent]
        /\ held' = held
    BY <1>6 DEF FullRemove
  <2>2. contested \subseteq contested' /\ (Owners(k) = {} \/ k \in contested')
    BY <1>6 DEF FullRemove
  <2>3. \A j \in Keys : Owners(j)' = Owners(j)
    BY <2>1 DEF Owners
  <2>4. OwnerIsProtected'
    <3> SUFFICES ASSUME NEW u \in Tasks, pc'[u] = "owner", taskKey'[u] \notin contested'
                 PROVE  /\ entries'[taskKey'[u]] # Absent
                        /\ entries'[taskKey'[u]].inFlight
                        /\ entries'[taskKey'[u]].age = held[u]
      BY <2>1 DEF OwnerIsProtected
    <3>1. pc[u] = "owner" /\ taskKey'[u] = taskKey[u] /\ taskKey[u] \notin contested
      BY <2>1, <2>2
    <3>2. taskKey[u] # k
      BY <2>1, <2>2, <3>1 DEF Owners
    <3> QED BY <2>1, <3>1, <3>2 DEF OwnerInv, OwnerIsProtected
  <2>5. SoleOwner'
    BY <2>2, <2>3 DEF OwnerInv, SoleOwner
  <2>6. \A u \in Tasks : pc'[u] # "owner" => held'[u] = 0
    BY <2>1 DEF OwnerInv
  <2> QED BY <2>4, <2>5, <2>6 DEF OwnerInv
<1>7. CASE Tick
  <2>1. /\ UNCHANGED <<pc, taskKey, contested>>
        /\ held' = [t \in Tasks |-> IF pc[t] = "owner" THEN held[t] + 1 ELSE held[t]]
        /\ entries' = [k \in Keys |-> IF entries[k] = Absent THEN Absent ELSE Aged(entries[k])]
    BY <1>7 DEF Tick, Elapse
  <2>2. OwnerIsProtected'
    <3> SUFFICES ASSUME NEW t \in Tasks, pc[t] = "owner", taskKey[t] \notin contested
                 PROVE  /\ entries'[taskKey[t]] # Absent
                        /\ entries'[taskKey[t]].inFlight
                        /\ entries'[taskKey[t]].age = held'[t]
      BY <2>1 DEF OwnerIsProtected
    <3> DEFINE e == entries[taskKey[t]]
    <3>1. e # Absent /\ e.inFlight /\ e.age = held[t] /\ taskKey[t] \in Keys
      BY DEF OwnerInv, OwnerIsProtected
    <3>2. entries'[taskKey[t]] = Aged(e) /\ e \in Entry
      BY <2>1, <3>1
    <3>3. Aged(e) # Absent /\ Aged(e).inFlight /\ Aged(e).age = Older(held[t])
      BY <3>1, <3>2, AgedEntry DEF Aged
    <3>4. held[t] \in 0 .. MaxHold /\ held'[t] = held[t] + 1
      BY <2>1
    <3>5. Older(held[t]) = held[t] + 1
      BY <3>4 DEF Older, HoldsAreShort
    <3> QED BY <3>2, <3>3, <3>4, <3>5
  <2>3. SoleOwner'
    BY <2>1 DEF OwnerInv, SoleOwner, Owners
  <2>4. \A u \in Tasks : pc'[u] # "owner" => held'[u] = 0
    BY <2>1 DEF OwnerInv
  <2> QED BY <2>2, <2>3, <2>4 DEF OwnerInv
<1>8. CASE UNCHANGED vars
  BY <1>8 DEF vars, OwnerInv, OwnerIsProtected, SoleOwner, Owners
<1> QED
  BY <1>1, <1>2, <1>3, <1>4, <1>5, <1>6, <1>7, <1>8 DEF Next, Step

(* The owner invariant holds in every behaviour.                             *)
LEMMA OwnerCorrect == ASSUME HoldsAreShort PROVE Spec => []OwnerInv
<1>1. TypeOK /\ OwnerInv /\ [Next]_vars => OwnerInv'
  BY OwnerNext
<1> QED BY <1>1, TypeCorrect, OwnerInit, PTL DEF Spec

(* When every handler is shorter than the TTL, no two handlers run one key   *)
(* at a time, a Full path's victims aside.                                  *)
THEOREM OwnersAreSole == ASSUME HoldsAreShort PROVE Spec => []SoleOwner
<1>1. OwnerInv => SoleOwner
  BY DEF OwnerInv
<1> QED BY <1>1, OwnerCorrect, PTL

(* And the entry of a running handler is its own, and in flight.             *)
THEOREM OwnersAreProtected == ASSUME HoldsAreShort PROVE Spec => []OwnerIsProtected
<1>1. OwnerInv => OwnerIsProtected
  BY DEF OwnerInv
<1> QED BY <1>1, OwnerCorrect, PTL

-----------------------------------------------------------------------------
(* A done key whose answer changes is contested: only its owner completes a  *)
(* key, and an owner of a key that is not contested finds it in flight.     *)
THEOREM DoneAnswersAreStable == ASSUME HoldsAreShort PROVE Spec => DoneIsStable
<1>1. TypeOK /\ OwnerInv /\ [Next]_vars =>
        [\A k \in Keys : Done(k) /\ Done(k)' /\ entries'[k].result # entries[k].result =>
            k \in contested]_vars
  <2> SUFFICES ASSUME TypeOK, OwnerInv, Next, NEW k \in Keys, Done(k), Done(k)',
                      entries'[k].result # entries[k].result, k \notin contested
               PROVE  FALSE
    OBVIOUS
  <2> USE DEF TypeOK
  <2>1. entries[k] # Absent /\ ~entries[k].inFlight /\ entries'[k] # Absent
        /\ ~entries'[k].inFlight /\ entries'[k] # entries[k]
    BY DEF Done
  <2>2. CASE Tick
    <3>1. entries'[k] = Aged(entries[k])
      BY <2>1, <2>2 DEF Tick, Elapse
    <3> QED BY <3>1 DEF Aged
  <2>3. ASSUME NEW t \in Tasks, EntryNew(t) PROVE FALSE
    BY <2>1, <2>3, FreshIsEntry DEF EntryNew, Grant, FreshEntry
  <2>4. ASSUME NEW t \in Tasks, NEW r \in Results, Complete(t, r) PROVE FALSE
    <3>1. pc[t] = "owner" /\ taskKey[t] = k
      BY <2>1, <2>4 DEF Complete
    <3> QED BY <2>1, <3>1 DEF OwnerInv, OwnerIsProtected
  <2>5. ASSUME NEW t \in Tasks, FullRemove(t) PROVE FALSE
    BY <2>1, <2>5 DEF FullRemove
  <2>6. ASSUME NEW t \in Tasks, NEW j \in Keys, CheckPurge(t, j) PROVE FALSE
    BY <2>1, <2>6 DEF CheckPurge, PurgeExpired
  <2>7. ASSUME NEW t \in Tasks, UNCHANGED entries PROVE FALSE
    BY <2>1, <2>7
  <2> QED
    BY <2>2, <2>3, <2>4, <2>5, <2>6, <2>7
    DEF Next, Step, CheckLen, EntryInFlight, EntryCached, EntryFull, Abandon
<1> QED BY <1>1, TypeCorrect, OwnerCorrect, PTL DEF Spec, DoneIsStable

-----------------------------------------------------------------------------
(* Every entry above the bound is one that an inserter has counted on: the   *)
(* entries and the tasks about to insert never exceed the bound together.   *)
SizeInv == Size + Cardinality(Inserters) <= MaxEntries - 1 + Cardinality(Tasks)

(* The entries and the inserters can be counted.                             *)
LEMMA FiniteSizes ==
    /\ IsFiniteSet(Present) /\ IsFiniteSet(Inserters)
    /\ Size \in Nat /\ Cardinality(Inserters) \in Nat /\ Cardinality(Tasks) \in Nat
    /\ Cardinality(Inserters) <= Cardinality(Tasks)
<1>1. Present \subseteq Keys /\ Inserters \subseteq Tasks
  BY DEF Present, Inserters
<1> QED BY <1>1, FS_Subset, FS_CardinalityType, CacheConstants DEF Size

(* The bound holds of the empty cache.                                       *)
LEMMA SizeInit == Init => SizeInv
<1> SUFFICES ASSUME Init PROVE SizeInv
  OBVIOUS
<1>1. Present = {} /\ Inserters = {}
  BY DEF Init, Present, Inserters
<1> QED BY <1>1, FS_EmptySet, FiniteSizes, CacheConstants DEF SizeInv, Size

(* A step that adds neither an entry nor an inserter keeps the bound.        *)
LEMMA SizeShrinks ==
  ASSUME SizeInv, Present' \subseteq Present, Inserters' \subseteq Inserters
  PROVE  SizeInv'
<1>1. Cardinality(Present') <= Cardinality(Present)
      /\ Cardinality(Inserters') <= Cardinality(Inserters)
      /\ Cardinality(Present') \in Nat /\ Cardinality(Inserters') \in Nat
  BY FiniteSizes, FS_Subset, FS_CardinalityType
<1> QED BY <1>1, FiniteSizes, CacheConstants DEF SizeInv, Size

(* Every step keeps the bound: an insert turns one inserter into one entry,   *)
(* and a snapshot below capacity leaves room for the task that takes it.     *)
LEMMA SizeNext == TypeOK /\ SizeInv /\ [Next]_vars => SizeInv'
<1> SUFFICES ASSUME TypeOK, SizeInv, [Next]_vars PROVE SizeInv'
  OBVIOUS
<1> USE DEF TypeOK
<1>1. ASSUME NEW t \in Tasks, NEW k \in Keys, CheckPurge(t, k) PROVE SizeInv'
  <2>1. Present' \subseteq Present /\ Inserters' \subseteq Inserters
    BY <1>1 DEF CheckPurge, PurgeExpired, Present, Inserters
  <2> QED BY <2>1, SizeShrinks
<1>2. ASSUME NEW t \in Tasks, CheckLen(t) PROVE SizeInv'
  <2>1. Present' = Present
    BY <1>2 DEF CheckLen, Present
  <2>2. CASE Size >= MaxEntries
    <3>1. Inserters' \subseteq Inserters
      BY <1>2, <2>2 DEF CheckLen, Inserters
    <3> QED BY <2>1, <3>1, SizeShrinks
  <2>3. CASE ~ (Size >= MaxEntries)
    <3>1. Inserters' \subseteq Tasks
      BY DEF Inserters
    <3>2. Cardinality(Inserters') <= Cardinality(Tasks) /\ Cardinality(Inserters') \in Nat
      BY <3>1, FS_Subset, FS_CardinalityType, CacheConstants
    <3> QED BY <2>1, <2>3, <3>2, FiniteSizes, CacheConstants DEF SizeInv, Size
  <2> QED BY <2>2, <2>3
<1>3. ASSUME NEW t \in Tasks, EntryNew(t) PROVE SizeInv'
  <2> DEFINE k == taskKey[t]
  <2>1. /\ k \in Keys /\ pc[t] = "snapped"
        /\ entries' = [entries EXCEPT ![k] = FreshEntry]
        /\ pc' = [pc EXCEPT ![t] = "owner"]
        /\ atCapacity' = [atCapacity EXCEPT ![t] = FALSE]
    BY <1>3 DEF EntryNew, Grant
  <2>2. Present' = Present \cup {k} /\ Inserters' = Inserters \ {t}
    BY <2>1, FreshIsEntry DEF Present, Inserters
  <2>3. CASE entries[k] = Absent
    <3>1. k \notin Present /\ t \in Inserters
      BY <1>3, <2>1, <2>3 DEF EntryNew, Present, Inserters
    <3>2. Cardinality(Present') = Cardinality(Present) + 1
          /\ Cardinality(Inserters') = Cardinality(Inserters) - 1
      BY <2>2, <3>1, FiniteSizes, FS_AddElement, FS_RemoveElement
    <3> QED BY <3>2, FiniteSizes, CacheConstants DEF SizeInv, Size
  <2>4. CASE entries[k] # Absent
    <3>1. Present' \subseteq Present /\ Inserters' \subseteq Inserters
      BY <2>1, <2>2, <2>4 DEF Present
    <3> QED BY <3>1, SizeShrinks
  <2> QED BY <2>3, <2>4
<1>4. ASSUME NEW t \in Tasks, EntryInFlight(t) \/ EntryCached(t) \/ Abandon(t) PROVE SizeInv'
  <2>1. Present' \subseteq Present /\ Inserters' \subseteq Inserters
    BY <1>4 DEF EntryInFlight, EntryCached, Abandon, Leave, Present, Inserters
  <2> QED BY <2>1, SizeShrinks
<1>5. ASSUME NEW t \in Tasks, EntryFull(t) \/ FullRemove(t) PROVE SizeInv'
  <2>1. Present' \subseteq Present /\ Inserters' \subseteq Inserters
    BY <1>5 DEF EntryFull, FullRemove, Present, Inserters
  <2> QED BY <2>1, SizeShrinks
<1>6. ASSUME NEW t \in Tasks, NEW r \in Results, Complete(t, r) PROVE SizeInv'
  <2>1. Present' \subseteq Present /\ Inserters' \subseteq Inserters
    BY <1>6 DEF Complete, Leave, Present, Inserters
  <2> QED BY <2>1, SizeShrinks
<1>7. CASE Tick
  <2>1. Present' \subseteq Present /\ Inserters' \subseteq Inserters
    BY <1>7 DEF Tick, Elapse, Present, Inserters
  <2> QED BY <2>1, SizeShrinks
<1>8. CASE UNCHANGED vars
  BY <1>8 DEF vars, SizeInv, Size, Present, Inserters
<1> QED
  BY <1>1, <1>2, <1>3, <1>4, <1>5, <1>6, <1>7, <1>8 DEF Next, Step

(* The map holds at most max_entries - 1 entries and one for each request in *)
(* progress, for any number of requests and keys.                           *)
THEOREM SizeIsBounded == Spec => []BoundedSize
<1>1. SizeInv => BoundedSize
  BY FiniteSizes, CacheConstants DEF SizeInv, BoundedSize
<1> QED BY <1>1, TypeCorrect, SizeInit, SizeNext, PTL DEF Spec

-----------------------------------------------------------------------------
(* SingleFlight.                                                             *)

(* No Full path has removed an entry whose key was not granted since.          *)
Lossless == lost = {}

(* A map of fewer keys than its capacity is never at it, so no request is      *)
(* answered Full and no entry is removed.                                    *)
NothingLost ==
    /\ \A t \in Tasks : ~atCapacity[t] /\ pc[t] # "full"
    /\ lost = {}

LEMMA SizeOfKeys == Size <= Cardinality(Keys) /\ Size \in Nat /\ Cardinality(Keys) \in Nat
<1>1. Present \subseteq Keys
  BY DEF Present
<1> QED BY <1>1, FS_Subset, FS_CardinalityType, CacheConstants DEF Size

LEMMA LosesNothingInit == Init => NothingLost
  BY DEF Init, NothingLost

LEMMA LosesNothingNext ==
  ASSUME NeverFull, TypeOK, NothingLost, [Next]_vars
  PROVE  NothingLost'
<1> USE DEF TypeOK, NothingLost
<1>1. ASSUME NEW t \in Tasks, CheckLen(t) PROVE NothingLost'
  <2>1. ~(Size >= MaxEntries)
    BY SizeOfKeys, CacheConstants DEF NeverFull
  <2> QED BY <1>1, <2>1 DEF CheckLen, history
<1>2. ASSUME NEW t \in Tasks, EntryFull(t) \/ FullRemove(t) PROVE FALSE
  BY <1>2 DEF EntryFull, FullRemove
<1>3. ASSUME NEW t \in Tasks, NEW k \in Keys, CheckPurge(t, k) PROVE NothingLost'
  BY <1>3 DEF CheckPurge, history
<1>4. ASSUME NEW t \in Tasks, EntryNew(t) PROVE NothingLost'
  BY <1>4 DEF EntryNew, Grant
<1>5. ASSUME NEW t \in Tasks, Leave(t), UNCHANGED lost PROVE NothingLost'
  BY <1>5 DEF Leave
<1>6. CASE Tick \/ UNCHANGED vars
  BY <1>6 DEF Tick, Elapse, vars
<1> QED BY <1>1, <1>2, <1>3, <1>4, <1>5, <1>6
        DEF Next, Step, EntryInFlight, EntryCached, Complete, Abandon

LEMMA NeverFullLosesNothing == ASSUME NeverFull PROVE Spec => []NothingLost
<1>1. TypeOK /\ NothingLost /\ [Next]_vars => NothingLost'
  BY LosesNothingNext
<1> QED BY <1>1, LosesNothingInit, TypeCorrect, PTL DEF Spec

(* What the docs promise as I2, a key is never granted twice within its TTL,  *)
(* holds of every behaviour in which no Full path removes an entry.           *)
THEOREM LosslessGrantsAreUnique == Spec /\ []Lossless => NoDuplicateGrant
<1>1. Lossless /\ [\A t \in Tasks : Granted(t) =>
                      sinceGrant[taskKey[t]] >= TTL \/ taskKey[t] \in lost]_vars
        => [\A t \in Tasks : Granted(t) => sinceGrant[taskKey[t]] >= TTL]_vars
  BY DEF Lossless
<1> QED BY <1>1, GrantsAreSpaced, PTL DEF SpacedGrants, NoDuplicateGrant

(* I2 below capacity, whatever the length of the handlers.                    *)
THEOREM GrantsAreUniqueBelowCapacity == ASSUME NeverFull PROVE Spec => NoDuplicateGrant
<1>1. NothingLost => Lossless
  BY DEF NothingLost, Lossless
<1> QED BY <1>1, NeverFullLosesNothing, LosslessGrantsAreUnique, PTL

-----------------------------------------------------------------------------
(* The refinement, step by step.                                             *)

(* While no Full path takes an entry, none takes an owner's.                  *)
LosslessInv == TypeOK /\ OwnerInv /\ lost = {} /\ contested = {}

LEMMA ContestedNext ==
  ASSUME HoldsAreShort, LosslessInv, [Next]_vars, Lossless'
  PROVE  contested' = {}
<1> USE DEF LosslessInv, Lossless
<1>1. ASSUME NEW t \in Tasks, FullRemove(t) PROVE contested' = {}
  <2> DEFINE k == taskKey[t]
  <2>1. k \in Keys /\ entries[k] = Absent
    BY <1>1 DEF FullRemove, TypeOK
  <2>2. Owners(k) = {}
    BY <2>1, NoOwner
  <2> QED BY <1>1, <2>2 DEF FullRemove
<1>2. ASSUME NEW t \in Tasks, Leave(t) PROVE contested' = {}
  BY <1>2 DEF Leave
<1>3. ASSUME NEW t \in Tasks, CheckLen(t) \/ EntryFull(t) \/ EntryNew(t) \/ \E k \in Keys : CheckPurge(t, k)
      PROVE  contested' = {}
  BY <1>3 DEF CheckLen, EntryFull, EntryNew, Grant, CheckPurge, history
<1>4. CASE Tick \/ UNCHANGED vars
  BY <1>4 DEF Tick, Elapse, vars
<1> QED BY <1>1, <1>2, <1>3, <1>4 DEF Next, Step, EntryInFlight, EntryCached, Complete, Abandon

(* What SingleFlight sees of a key, before a step and after.                  *)
LEMMA SeenOfKey ==
  ASSUME NEW k \in Keys
  PROVE  /\ ~Live(k) => StatusOf(k) = "absent" /\ AnswerOf(k) = NoResult
         /\ Live(k) => /\ StatusOf(k) = IF entries[k].inFlight THEN "in flight" ELSE "done"
                       /\ AnswerOf(k) = entries[k].result
  BY DEF StatusOf, AnswerOf

LEMMA SeenOfKeyNext ==
  ASSUME NEW k \in Keys
  PROVE  /\ ~Live(k)' => StatusOf(k)' = "absent" /\ AnswerOf(k)' = NoResult
         /\ Live(k)' => /\ StatusOf(k)' = IF entries'[k].inFlight THEN "in flight" ELSE "done"
                        /\ AnswerOf(k)' = entries'[k].result
  BY DEF StatusOf, AnswerOf

(* A step that only lets keys nobody runs expire is Forget, or nothing.       *)
Keeps(k)  == /\ Live(k)' <=> Live(k)
             /\ Live(k) => entries'[k].inFlight = entries[k].inFlight /\ entries'[k].result = entries[k].result
Expires(k) == Live(k) /\ ~Live(k)' /\ Owners(k) = {}

LEMMA ForgetStep ==
  ASSUME \A k \in Keys : Keeps(k) \/ Expires(k),
         \A k \in Keys : Owners(k)' = Owners(k)
  PROVE  [Ledger!Next]_(Ledger!vars)
<1> DEFINE S == {k \in Keys : ~Keeps(k)}
<1>1. \A k \in Keys \ S : StatusOf(k)' = StatusOf(k) /\ AnswerOf(k)' = AnswerOf(k)
  BY SeenOfKey, SeenOfKeyNext DEF Keeps
<1>2. \A k \in S : /\ StatusOf(k) # "absent" /\ Owners(k) = {}
                   /\ StatusOf(k)' = "absent" /\ AnswerOf(k)' = NoResult
  BY SeenOfKey, SeenOfKeyNext DEF Expires
<1>3. S \subseteq Keys
  OBVIOUS
<1> HIDE DEF S
<1>4. CASE S = {}
  BY <1>1, <1>4 DEF Ledger!vars
<1>5. CASE S # {}
  <2>1. Ledger!Forget(S)
    BY <1>1, <1>2, <1>3 DEF Ledger!Forget
  <2> QED BY <1>3, <1>5, <2>1 DEF Ledger!Next
<1> QED BY <1>4, <1>5

(* A step that leaves the entries and the owners alone is nothing to it.      *)
LEMMA NothingStep ==
  ASSUME UNCHANGED entries, \A k \in Keys : Owners(k)' = Owners(k)
  PROVE  UNCHANGED Ledger!vars
<1>1. \A k \in Keys : StatusOf(k)' = StatusOf(k) /\ AnswerOf(k)' = AnswerOf(k)
  BY DEF StatusOf, AnswerOf, Live, Expired
<1> QED BY <1>1 DEF Ledger!vars

(* The expiry of an entry, by the clock or by a purge, hits no owner.         *)
LEMMA PurgeSimulates ==
  ASSUME HoldsAreShort, LosslessInv, NEW t \in Tasks, NEW k \in Keys, CheckPurge(t, k)
  PROVE  [Ledger!Next]_(Ledger!vars)
<1> USE DEF LosslessInv
<1>1. \A j \in Keys : Owners(j)' = Owners(j)
  BY DEF CheckPurge, Owners, TypeOK
<1>2. ASSUME NEW j \in Keys PROVE Keeps(j) \/ Expires(j)
  <2>1. entries'[j] = IF entries[j] # Absent /\ entries[j].age >= TTL THEN Absent ELSE entries[j]
    BY DEF CheckPurge, PurgeExpired
  <2>2. CASE entries[j] # Absent /\ entries[j].age >= TTL
    <3>1. Owners(j) = {} /\ ~Live(j)'
      BY <2>1, <2>2, NoOwner DEF Live
    <3> QED BY <3>1 DEF Keeps, Expires
  <2>3. CASE ~(entries[j] # Absent /\ entries[j].age >= TTL)
    BY <2>1, <2>3 DEF Keeps, Live, Expired
  <2> QED BY <2>2, <2>3
<1> QED BY <1>1, <1>2, ForgetStep

LEMMA TickSimulates ==
  ASSUME HoldsAreShort, LosslessInv, Tick
  PROVE  [Ledger!Next]_(Ledger!vars)
<1> USE DEF LosslessInv
<1>1. \A j \in Keys : Owners(j)' = Owners(j)
  BY DEF Tick, Elapse, Owners
<1>2. ASSUME NEW j \in Keys PROVE Keeps(j) \/ Expires(j)
  <2>1. CASE entries[j] = Absent
    BY <2>1 DEF Tick, Elapse, Keeps, Live
  <2>2. CASE entries[j] # Absent
    <3>1. entries[j] \in Entry /\ entries'[j] = Aged(entries[j])
      BY <2>2 DEF Tick, Elapse, TypeOK
    <3>2. /\ entries'[j] # Absent
          /\ entries'[j].age = Older(entries[j].age)
          /\ entries'[j].inFlight = entries[j].inFlight /\ entries'[j].result = entries[j].result
      BY <3>1, AgedEntry, CacheConstants DEF Aged
    <3>3. entries[j].age \in Age
      BY <3>1 DEF Entry
    <3>4. CASE entries[j].age >= TTL
      <4>1. Owners(j) = {}
        BY <3>4, NoOwner
      <4>2. ~Live(j)'
        BY <3>2, <3>3, <3>4, CacheConstants DEF Older, Age, Live, Expired
      <4> QED BY <4>1, <4>2 DEF Keeps, Expires
    <3>5. CASE ~(entries[j].age >= TTL)
      BY <2>2, <3>2, <3>3, <3>5, CacheConstants DEF Older, Age, Live, Expired, Keeps
    <3> QED BY <3>4, <3>5
  <2> QED BY <2>1, <2>2
<1> QED BY <1>1, <1>2, ForgetStep

(* New is given for a key that is absent to SingleFlight and that nobody runs. *)
LEMMA GrantSimulates ==
  ASSUME HoldsAreShort, LosslessInv, NEW t \in Tasks, EntryNew(t)
  PROVE  Ledger!Next
<1> USE DEF LosslessInv
<1>k. PICK k \in Keys : k = taskKey[t]
  BY DEF EntryNew, TypeOK
<1>1. /\ pc[t] = "snapped" /\ ~Live(k)
      /\ entries' = [entries EXCEPT ![k] = FreshEntry]
      /\ pc' = [pc EXCEPT ![t] = "owner"]
      /\ UNCHANGED taskKey
  BY <1>k DEF EntryNew, Grant, TypeOK, Live
<1>2. Owners(k) = {}
  BY <1>k, <1>1, NoOwner, CacheConstants DEF EntryNew, Expired, Entry, Age, TypeOK
<1>3. /\ Owners(k)' = {t}
      /\ \A j \in Keys \ {k} : Owners(j)' = Owners(j)
      /\ \A j \in Keys : t \notin Owners(j)
  BY <1>k, <1>1, <1>2 DEF Owners, TypeOK
<1>4. /\ FreshEntry # Absent /\ FreshEntry.result = NoResult
      /\ FreshEntry.age = 0 /\ FreshEntry.inFlight
  BY FreshIsEntry DEF FreshEntry
<1>5. entries'[k] = FreshEntry /\ \A j \in Keys \ {k} : entries'[j] = entries[j]
  BY <1>1 DEF TypeOK
<1>6. Live(k)' /\ entries'[k].inFlight /\ entries'[k].result = NoResult
  BY <1>4, <1>5, CacheConstants DEF Live, Expired
<1>7. /\ StatusOf(k) = "absent" /\ StatusOf(k)' = "in flight"
      /\ AnswerOf(k) = NoResult /\ AnswerOf(k)' = NoResult
  BY <1>1, <1>6, SeenOfKey, SeenOfKeyNext
<1>8. \A j \in Keys \ {k} : StatusOf(j)' = StatusOf(j) /\ AnswerOf(j)' = AnswerOf(j)
  BY <1>5 DEF StatusOf, AnswerOf, Live, Expired
<1>9. Ledger!Acquire(t, k)
  BY <1>1, <1>2, <1>3, <1>7, <1>8 DEF Ledger!Acquire, Ledger!Idle
<1> QED BY <1>1, <1>9 DEF Ledger!Next

(* complete finds its owner's entry, and commits its answer.                   *)
LEMMA CompleteSimulates ==
  ASSUME HoldsAreShort, LosslessInv, NEW t \in Tasks, NEW r \in Results, Complete(t, r)
  PROVE  Ledger!Next
<1> USE DEF LosslessInv
<1>k. PICK k \in Keys : k = taskKey[t]
  BY DEF Complete, TypeOK
<1>1. k = taskKey[t] /\ pc[t] = "owner" /\ Leave(t) /\ Owners(k) = {t}
  BY <1>k DEF Complete, TypeOK, OwnerInv, SoleOwner, Owners
<1>2. entries[k] # Absent /\ entries[k].inFlight /\ entries[k].age = held[t]
  BY <1>1 DEF OwnerInv, OwnerIsProtected
<1>3. held[t] \in 0 .. MaxHold /\ entries[k] \in Entry
  BY <1>1, <1>2 DEF TypeOK
<1>4. entries' = [entries EXCEPT ![k] = Filled(entries[k], r)]
  BY <1>k, <1>2 DEF Complete
<1>5. /\ entries'[k] # Absent /\ entries'[k].age = entries[k].age
      /\ entries'[k].result = r /\ ~entries'[k].inFlight
      /\ \A j \in Keys \ {k} : entries'[j] = entries[j]
  BY <1>1, <1>3, <1>4, FilledEntry, CacheConstants DEF Filled, TypeOK
<1>6. Live(k) /\ Live(k)'
  BY <1>2, <1>3, <1>5, CacheConstants DEF Live, Expired, HoldsAreShort
<1>7. Owners(k)' = {} /\ \A j \in Keys \ {k} : Owners(j)' = Owners(j)
  BY <1>k, <1>1 DEF Leave, Owners, TypeOK
<1>8. StatusOf(k) = "in flight" /\ StatusOf(k)' = "done" /\ AnswerOf(k)' = r
  BY <1>1, <1>2, <1>5, <1>6, SeenOfKey, SeenOfKeyNext
<1>9. \A j \in Keys \ {k} : StatusOf(j)' = StatusOf(j) /\ AnswerOf(j)' = AnswerOf(j)
  BY <1>5 DEF StatusOf, AnswerOf, Live, Expired
<1>10. Ledger!Commit(t, k, r)
  BY <1>1, <1>7, <1>8, <1>9 DEF Ledger!Commit
<1> QED BY <1>1, <1>10 DEF Ledger!Next, Ledger!Finish

LEMMA AbandonSimulates ==
  ASSUME LosslessInv, NEW t \in Tasks, Abandon(t)
  PROVE  Ledger!Next
<1> USE DEF LosslessInv
<1>k. PICK k \in Keys : k = taskKey[t]
  BY DEF Abandon, TypeOK
<1>1. k = taskKey[t] /\ pc[t] = "owner" /\ Leave(t) /\ Owners(k) = {t} /\ UNCHANGED entries
  BY <1>k DEF Abandon, TypeOK, OwnerInv, SoleOwner, Owners
<1>2. Owners(k)' = {} /\ \A j \in Keys \ {k} : Owners(j)' = Owners(j)
  BY <1>k, <1>1 DEF Leave, Owners, TypeOK
<1>3. \A j \in Keys : StatusOf(j)' = StatusOf(j) /\ AnswerOf(j)' = AnswerOf(j)
  BY <1>1 DEF StatusOf, AnswerOf, Live, Expired
<1>4. Ledger!Abandon(t, k)
  BY <1>1, <1>2, <1>3 DEF Ledger!Abandon
<1> QED BY <1>1, <1>4 DEF Ledger!Next, Ledger!Finish

LEMMA StepSimulates ==
  ASSUME HoldsAreShort, LosslessInv, Lossless', [Next]_vars
  PROVE  [Ledger!Next]_(Ledger!vars)
<1> USE DEF LosslessInv, Lossless
<1>1. ASSUME NEW t \in Tasks, CheckLen(t) \/ EntryFull(t) PROVE UNCHANGED Ledger!vars
  <2>1. UNCHANGED entries /\ \A k \in Keys : Owners(k)' = Owners(k)
    BY <1>1 DEF CheckLen, EntryFull, history, Owners, TypeOK
  <2> QED BY <2>1, NothingStep
<1>2. ASSUME NEW t \in Tasks, EntryInFlight(t) \/ EntryCached(t) PROVE UNCHANGED Ledger!vars
  <2>1. UNCHANGED entries /\ \A k \in Keys : Owners(k)' = Owners(k)
    BY <1>2 DEF EntryInFlight, EntryCached, Leave, Owners, TypeOK
  <2> QED BY <2>1, NothingStep
<1>3. ASSUME NEW t \in Tasks, FullRemove(t) PROVE UNCHANGED Ledger!vars
  <2>1. entries[taskKey[t]] = Absent
    BY <1>3 DEF FullRemove
  <2>2. UNCHANGED entries /\ \A k \in Keys : Owners(k)' = Owners(k)
    BY <1>3, <2>1 DEF FullRemove, Owners, TypeOK
  <2> QED BY <2>2, NothingStep
<1>4. CASE UNCHANGED vars
  <2>1. UNCHANGED entries /\ \A k \in Keys : Owners(k)' = Owners(k)
    BY <1>4 DEF vars, Owners
  <2> QED BY <2>1, NothingStep
<1> QED
  BY <1>1, <1>2, <1>3, <1>4, PurgeSimulates, TickSimulates, GrantSimulates, CompleteSimulates,
     AbandonSimulates
  DEF Next, Step

(* The empty cache is the empty table.                                        *)
LEMMA InitSimulates == Init => Ledger!Init
<1> SUFFICES ASSUME Init PROVE Ledger!Init
  OBVIOUS
<1>1. \A k \in Keys : ~Live(k) /\ Owners(k) = {}
  BY DEF Init, Live, Owners
<1>2. \A k \in Keys : StatusOf(k) = "absent" /\ AnswerOf(k) = NoResult
  BY <1>1, SeenOfKey
<1> QED BY <1>1, <1>2 DEF Ledger!Init

LEMMA LosslessInit == Init => LosslessInv
  BY TypeInit, OwnerInit DEF Init, LosslessInv

LEMMA LosslessNext ==
  ASSUME HoldsAreShort, LosslessInv, [Next]_vars, Lossless'
  PROVE  LosslessInv'
  BY TypeNext, OwnerNext, ContestedNext DEF LosslessInv, Lossless

(* The cache implements the single-flight table for as long as no Full path    *)
(* removes an entry: purge, snapshot, entry lock, complete, dropped futures   *)
(* and the clock, in any interleaving of any number of requests.              *)
THEOREM LosslessIsSingleFlight ==
  ASSUME HoldsAreShort PROVE Spec /\ []Lossless => Ledger!Spec
<1>1. Init => LosslessInv
  BY LosslessInit
<1>2. LosslessInv /\ [Next]_vars /\ Lossless' => LosslessInv'
  BY LosslessNext
<1>3. LosslessInv /\ Lossless' /\ [Next]_vars => [Ledger!Next]_(Ledger!vars)
  BY StepSimulates
<1> QED BY <1>1, <1>2, <1>3, InitSimulates, PTL DEF Spec, Ledger!Spec

(* And so it does below its capacity.                                         *)
THEOREM SingleFlightBelowCapacity ==
  ASSUME HoldsAreShort, NeverFull PROVE Spec => Ledger!Spec
<1>1. NothingLost => Lossless
  BY DEF NothingLost, Lossless
<1> QED BY <1>1, NeverFullLosesNothing, LosslessIsSingleFlight, PTL
=============================================================================
