-------------------------- MODULE ActionServiceProofs --------------------------
(***************************************************************************)
(* Proofs about ActionService, for any slots, requests and configuration.   *)
(***************************************************************************)
EXTENDS ActionService, FiniteSetTheorems, TLAPS

(* What is proved of the cache, as the service uses it.                       *)
Proved == INSTANCE IdempotencyCacheProofs WITH Tasks <- Slots, MaxHold <- HoldBound

(* A slot has a request, and one whose action runs has an accepted one.      *)
SentInv ==
    /\ phase \in [Slots -> Phases]
    /\ req \in [Slots -> Requests \cup {NoRequest}]
    /\ \A t \in Slots : phase[t] # "idle" => req[t] \in Requests
    /\ \A t \in Slots : phase[t] \in {"blocking", "awaiting"} => FormOf[req[t]] \in Live

(* Substitution is total and loses nothing: with as many arguments as a      *)
(* well-formed template has placeholders, every slot is filled and every     *)
(* argument is somewhere in the command.                                     *)
LEMMA ArgvIsWhole ==
  ASSUME NEW template, NEW args, IsList(template), IsList(args),
         WellFormed(template), Len(args) = PlaceholderCount(template)
  PROVE  ArgvWhole(template, args)
<1> DEFINE slots == {i \in DOMAIN template : template[i][1] # "text"}
           argv  == Argv(template, args)
           n     == Len(args)
<1>1. /\ n \in Nat /\ DOMAIN args = 1 .. n
      /\ \A i \in slots : template[i][1] = "slot"
      /\ {template[i][2] : i \in slots} = 0 .. n - 1
  BY DEF IsList, WellFormed, PlaceholderCount
<1>2. DOMAIN argv = DOMAIN template
  BY DEF Argv
<1>3. \A i \in slots : argv[i] = <<"arg", args[template[i][2] + 1]>>
  <2> SUFFICES ASSUME NEW i \in slots PROVE argv[i] = <<"arg", args[template[i][2] + 1]>>
    OBVIOUS
  <2>1. template[i][2] \in 0 .. n - 1
    BY <1>1
  <2>2. template[i][2] < n
    BY <2>1, <1>1
  <2> QED BY <2>2, <1>1 DEF Argv
<1>4. ASSUME NEW i \in DOMAIN argv PROVE argv[i][1] \in {"text", "arg"}
  <2>1. CASE i \in slots
    BY <2>1, <1>3
  <2>2. CASE i \notin slots
    <3>1. template[i][1] = "text"
      BY <2>2, <1>2
    <3>2. argv[i] = template[i]
      BY <3>1, <1>2 DEF Argv
    <3> QED BY <3>1, <3>2
  <2> QED BY <2>1, <2>2
<1>5. ASSUME NEW j \in DOMAIN args PROVE <<"arg", args[j]>> \in Parts(argv)
  <2>1. j - 1 \in 0 .. n - 1 /\ (j - 1) + 1 = j
    BY <1>1
  <2>2. PICK i \in slots : template[i][2] = j - 1
    BY <2>1, <1>1
  <2>3. argv[i] = <<"arg", args[j]>>
    BY <2>1, <2>2, <1>3
  <2> QED BY <2>3, <1>2 DEF Parts
<1> QED BY <1>4, <1>5 DEF Filled, ArgvWhole

(* And only of a well-formed template: when the arguments differ and are as  *)
(* many as validation asks for, any other template drops one or leaves a     *)
(* placeholder in the command.                                               *)
THEOREM OnlyWellFormedIsWhole ==
  ASSUME NEW template, NEW args, IsList(template), IsList(args),
         \A i \in DOMAIN template :
            /\ template[i][1] \in {"text", "slot", "mixed"}
            /\ template[i][1] = "slot" => template[i][2] \in Nat,
         \A i, j \in DOMAIN args : args[i] = args[j] => i = j,
         Len(args) = PlaceholderCount(template)
  PROVE  ArgvWhole(template, args) <=> WellFormed(template)
<1> DEFINE slots == {i \in DOMAIN template : template[i][1] # "text"}
           argv  == Argv(template, args)
           n     == Len(args)
<1>1. WellFormed(template) => ArgvWhole(template, args)
  BY ArgvIsWhole
<1>2. ASSUME ArgvWhole(template, args) PROVE WellFormed(template)
  <2>1. n \in Nat /\ DOMAIN args = 1 .. n /\ n = Cardinality(slots)
    BY DEF IsList, PlaceholderCount
  <2>2. DOMAIN argv = DOMAIN template
    BY DEF Argv
  <2>3. ASSUME NEW i \in slots
        PROVE  /\ template[i][1] = "slot" /\ template[i][2] \in 0 .. n - 1
               /\ argv[i] = <<"arg", args[template[i][2] + 1]>>
    <3>1. argv[i][1] \in {"text", "arg"}
      BY <1>2, <2>2 DEF ArgvWhole, Filled
    <3>2. argv[i] # template[i]
      <4>1. template[i][1] \in {"slot", "mixed"}
        OBVIOUS
      <4>2. ~("slot" \in {"text", "arg"}) /\ ~("mixed" \in {"text", "arg"})
        OBVIOUS
      <4> QED BY <3>1, <4>1, <4>2
    <3>3. template[i][1] = "slot" /\ template[i][2] < n
      BY <3>2 DEF Argv
    <3>4. argv[i] = <<"arg", args[template[i][2] + 1]>>
      BY <3>3 DEF Argv
    <3>5. template[i][2] \in Nat
      BY <3>3
    <3>6. \A k \in Nat : k < n => k \in 0 .. n - 1
      BY <2>1
    <3> QED BY <3>3, <3>4, <3>5, <3>6
  <2>4. ASSUME NEW k \in 0 .. n - 1 PROVE \E i \in slots : template[i][2] = k
    <3>1. k + 1 \in DOMAIN args
      BY <2>1
    <3>2. PICK i \in DOMAIN argv : argv[i] = <<"arg", args[k + 1]>>
      BY <1>2, <3>1 DEF ArgvWhole, Parts
    <3>3. i \in slots
      <4>1. template[i][1] = "text" => argv[i] = template[i]
        BY <2>2, <3>2 DEF Argv
      <4> QED BY <2>2, <3>2, <4>1
    <3>4. template[i][2] \in 0 .. n - 1 /\ args[template[i][2] + 1] = args[k + 1]
      BY <2>3, <3>2, <3>3
    <3>5. template[i][2] + 1 \in DOMAIN args
      BY <2>1, <3>4
    <3>6. template[i][2] + 1 = k + 1
      BY <3>1, <3>4, <3>5
    <3> QED BY <3>3, <3>4, <3>6
  <2>5. {template[i][2] : i \in slots} = 0 .. n - 1
    BY <2>3, <2>4
  <2> QED BY <2>1, <2>3, <2>5 DEF WellFormed
<1> QED BY <1>1, <1>2

(* What validation accepts, the actuators run as it was sent, whatever the   *)
(* paths and the allowlist, and whatever the intents that have well-formed    *)
(* templates; the code does not see to that.                                 *)
THEOREM AcceptedRunsAsSent ==
  ASSUME NEW agent, NEW b, Accepted(agent, b), b.args # None => IsList(b.args),
         b.action = "shell_exec" => WellFormed(Intents[b.target[1]].template)
  PROVE  RunsAsSent(b)
<1>1. b.action \in {"file_write", "file_read", "shell_exec", "http_request"}
  BY DEF Accepted, Canonical
<1>2. /\ Required[b.action] \subseteq Given(b)
      /\ Forbidden[b.action] \cap Given(b) = {}
  BY <1>1 DEF Accepted, FieldsFit, Required
<1>3. CASE b.action = "file_write"
  BY <1>2, <1>3 DEF Required, Forbidden, Given, RunsAsSent
<1>4. CASE b.action = "file_read"
  BY <1>2, <1>4 DEF Required, Forbidden, Given, RunsAsSent
<1>5. CASE b.action = "http_request"
  BY <1>2, <1>5 DEF Required, Forbidden, Given, RunsAsSent
<1>6. CASE b.action = "shell_exec"
  <2> DEFINE intent == Intents[b.target[1]]
  <2>1. b.args # None /\ b.payload = None
    BY <1>2, <1>6 DEF Required, Forbidden, Given
  <2>2. b.target[1] \in DOMAIN Intents /\ Len(b.args) = PlaceholderCount(intent.template)
    BY <2>1, <1>6 DEF Accepted, Canonical, OrElse, ArgsFit
  <2>3. IsList(intent.template) /\ IsList(b.args)
    BY <2>1, <2>2, ValidationConstants
  <2> QED BY <2>1, <2>2, <2>3, <1>6, ArgvIsWhole DEF RunsAsSent
<1> QED BY <1>1, <1>3, <1>4, <1>5, <1>6

LEMMA MagnitudeIsNat ==
  ASSUME NEW agent, NEW b, Accepted(agent, b)
  PROVE  b.magnitude \in Nat
<1>1. b.magnitude \in 1 .. 1000
  BY Zenon DEF Accepted
<1> QED BY <1>1

(* A live form is an accepted body.                                          *)
LEMMA LiveIsAccepted ==
  ASSUME NEW q \in Requests, FormOf[q] \in Live
  PROVE  q.body # Garbled /\ Accepted(q.agent, q.body)
  BY DEF FormOf, Form, Live
-----------------------------------------------------------------------------
LEMMA SentInit == Init => SentInv
  BY DEF Init, SentInv, Phases

(* The three ways in which a step moves a slot: not at all, out, and on.     *)
LEMMA StaysSent ==
  ASSUME SentInv, UNCHANGED <<phase, req>>
  PROVE  SentInv'
  BY DEF SentInv

LEMMA LeavesSent ==
  ASSUME SentInv, NEW t \in Slots, Leave(t)
  PROVE  SentInv'
<1>1. \A u \in Slots : u # t => phase'[u] = phase[u] /\ req'[u] = req[u]
  BY DEF SentInv, Leave, Goto
<1>2. phase'[t] = "idle" /\ phase' \in [Slots -> Phases]
  BY DEF SentInv, Leave, Goto, Phases
<1>3. req' \in [Slots -> Requests \cup {NoRequest}]
  BY DEF SentInv, Leave
<1> QED BY <1>1, <1>2, <1>3 DEF SentInv

LEMMA MovesSent ==
  ASSUME SentInv, NEW t \in Slots, NEW p \in Phases, Goto(t, p), UNCHANGED req,
         phase[t] # "idle",
         p \in {"blocking", "awaiting"} => FormOf[req[t]] \in Live
  PROVE  SentInv'
<1>1. \A u \in Slots : u # t => phase'[u] = phase[u]
  BY DEF SentInv, Goto
<1>2. phase'[t] = p /\ phase' \in [Slots -> Phases]
  BY DEF SentInv, Goto
<1> QED BY <1>1, <1>2 DEF SentInv

LEMMA SentNext == SentInv /\ [Next]_vars => SentInv'
<1> SUFFICES ASSUME SentInv, [Next]_vars PROVE SentInv'
  OBVIOUS
<1>1. CASE UNCHANGED vars
  BY <1>1, StaysSent DEF vars, slotVars
<1>2. CASE Tick
  BY <1>2, StaysSent DEF Tick, Elapse
<1>3. ASSUME NEW t \in Slots, NEW q \in Requests, Arrive(t, q) PROVE SentInv'
  <2>1. \A u \in Slots : u # t => phase'[u] = phase[u] /\ req'[u] = req[u]
    BY <1>3 DEF SentInv, Arrive, Goto
  <2>2. phase'[t] = "queued" /\ req'[t] = q
    BY <1>3 DEF SentInv, Arrive, Goto
  <2>3. phase' \in [Slots -> Phases] /\ req' \in [Slots -> Requests \cup {NoRequest}]
    BY <1>3 DEF SentInv, Arrive, Goto, Phases
  <2> QED BY <2>1, <2>2, <2>3 DEF SentInv
<1>4. ASSUME NEW t \in Slots, Admit(t) PROVE SentInv'
  BY <1>4, MovesSent DEF Admit, Phases
<1>5. ASSUME NEW t \in Slots, HangUp(t) \/ DeadlineFires(t) \/ GateRejects(t) PROVE SentInv'
  BY <1>5, LeavesSent DEF HangUp, DeadlineFires, Drop, GateRejects
<1>6. ASSUME NEW t \in Slots, Check(t) PROVE SentInv'
  BY <1>6, MovesSent DEF Check, Phases
<1>7. ASSUME NEW t \in Slots, NetActionEnds(t) \/ NetActionTimesOut(t) PROVE SentInv'
  BY <1>7, MovesSent DEF NetActionEnds, NetActionTimesOut, ActionEnds, Phases
<1>8. ASSUME NEW t \in Slots, Handle(t) PROVE SentInv'
  <2>1. CASE Snapshot(t) \/ FindFull(t)
    BY <2>1, StaysSent DEF Snapshot, FindFull, slotVars
  <2>2. CASE Win(t)
    BY <2>2, MovesSent DEF Win, Phases
  <2>3. CASE AnswerFromCache(t) \/ BadJson(t) \/ Commit(t)
    BY <2>3, LeavesSent DEF AnswerFromCache, BadJson, Commit
  <2>4. CASE Decide(t)
    BY <2>4, MovesSent DEF Decide, Phases
  <2>5. CASE Reserve(t)
    <3>1. PICK p \in {"blocking", "awaiting"} : Goto(t, p)
      BY <2>5 DEF Reserve
    <3>2. phase[t] = "deciding" /\ FormOf[req[t]] \in Live /\ UNCHANGED req
      BY <2>5 DEF Reserve
    <3> QED BY <3>1, <3>2, MovesSent DEF Phases
  <2>6. CASE FileActionEnds(t)
    BY <2>6, MovesSent DEF FileActionEnds, ActionEnds, Phases
  <2>7. CASE RecordProof(t)
    BY <2>7, MovesSent DEF RecordProof, Phases
  <2> QED BY <1>8, <2>1, <2>2, <2>3, <2>4, <2>5, <2>6, <2>7 DEF Handle
<1> QED BY <1>1, <1>2, <1>3, <1>4, <1>5, <1>6, <1>7, <1>8 DEF Next

LEMMA SentIsEnough ==
  ASSUME \A i \in DOMAIN Intents : WellFormed(Intents[i].template)
  PROVE  SentInv => StartedAsSent
<1> SUFFICES ASSUME SentInv, NEW t \in Slots, phase[t] \in {"blocking", "awaiting"}
             PROVE  RunsAsSent(req[t].body)
  BY DEF StartedAsSent
<1>1. req[t] \in Requests /\ FormOf[req[t]] \in Live
  BY DEF SentInv
<1>2. req[t].body # Garbled /\ Accepted(req[t].agent, req[t].body)
  BY <1>1, LiveIsAccepted
<1>3. req[t].body.args # None => IsList(req[t].body.args)
  BY <1>1, <1>2, ServiceConstants
<1>4. req[t].body.action = "shell_exec" => WellFormed(Intents[req[t].body.target[1]].template)
  BY <1>2 DEF Accepted, Canonical
<1> QED BY <1>2, <1>3, <1>4, AcceptedRunsAsSent

(* Whatever happens to a request on its way, what is charged and started is  *)
(* what the client sent, if all templates are well-formed.                   *)
THEOREM ServiceStartsAsSent ==
  ASSUME \A i \in DOMAIN Intents : WellFormed(Intents[i].template)
  PROVE  Spec => []StartedAsSent
  BY SentInit, SentNext, SentIsEnough, PTL DEF Spec

-----------------------------------------------------------------------------
(* Owners are shorter than the TTL: net actions by their timers, file actions *)
(* by assumption.                                                            *)
LEMMA HoldsFit == HoldBound \in Nat /\ HoldBound < TTL
  BY ServiceConstants, BlocksAreShort DEF HoldBound

(* The service's constants are ones that a cache may have.                   *)
LEMMA CacheFits == Proved!CacheConstants
<1>1. Proved!IsFiniteSet(Slots) /\ Proved!IsFiniteSet(Keys)
  BY ServiceConstants DEF Proved!IsFiniteSet, IsFiniteSet
<1>2. HoldBound \in Nat
  BY ServiceConstants DEF HoldBound
<1>3. Proved!Entry = [result : Results \cup {NoResult}, age : 0 .. TTL + 1, inFlight : BOOLEAN]
  BY DEF Proved!Entry, Proved!Age
<1> QED BY <1>1, <1>2, <1>3, ServiceConstants DEF Proved!CacheConstants

(* The service's cache is the one that the proofs are about.                  *)
LEMMA SameCache ==
  /\ Proved!TypeOK <=> Cache!TypeOK
  /\ Proved!Init <=> Cache!Init
  /\ [Proved!Next]_Proved!vars <=> [Cache!Next]_Cache!vars
<1>1. Proved!TypeOK <=> Cache!TypeOK
  BY DEF Proved!TypeOK, Cache!TypeOK, Proved!Entry, Cache!Entry, Proved!Age, Cache!Age
<1>2. Proved!Init <=> Cache!Init
  BY DEF Proved!Init, Cache!Init
<1>3. [Proved!Next]_Proved!vars <=> [Cache!Next]_Cache!vars
  BY DEF Proved!vars, Cache!vars, Proved!history, Cache!history, Proved!Next, Cache!Next,
         Proved!Tick, Cache!Tick, Proved!Elapse, Cache!Elapse, Proved!Step, Cache!Step,
         Proved!CheckPurge, Cache!CheckPurge, Proved!PurgeExpired, Cache!PurgeExpired,
         Proved!CheckLen, Cache!CheckLen, Proved!EntryNew, Cache!EntryNew,
         Proved!Grant, Cache!Grant, Proved!EntryInFlight, Cache!EntryInFlight,
         Proved!EntryCached, Cache!EntryCached, Proved!EntryFull, Cache!EntryFull,
         Proved!FullRemove, Cache!FullRemove, Proved!Complete, Cache!Complete,
         Proved!Abandon, Cache!Abandon, Proved!Leave, Cache!Leave,
         Proved!Owners, Cache!Owners, Proved!Older, Cache!Older, Proved!Aged, Cache!Aged,
         Proved!Size, Cache!Size, Proved!Present, Cache!Present,
         Proved!Expired, Cache!Expired, Proved!FreshEntry, Cache!FreshEntry,
         Proved!Filled, Cache!Filled, Proved!Cardinality, Cache!Cardinality, Cardinality
<1> QED BY <1>1, <1>2, <1>3

(* What was shown of the cache's steps holds of the service's.                *)
LEMMA CacheKeepsTypes == Cache!TypeOK /\ [Cache!Next]_Cache!vars => Cache!TypeOK'
<1>1. Proved!TypeOK' <=> Cache!TypeOK'
  BY DEF Proved!TypeOK, Cache!TypeOK, Proved!Entry, Cache!Entry, Proved!Age, Cache!Age
<1> QED BY <1>1, SameCache, CacheFits, Proved!TypeNext

LEMMA CacheKeepsGrants ==
  Cache!TypeOK /\ Proved!GrantInv /\ [Cache!Next]_Cache!vars => Proved!GrantInv'
  BY SameCache, CacheFits, Proved!GrantNext
-----------------------------------------------------------------------------
(* A slot is where its task of the cache is, and works on the same key.       *)
Owning == {"deciding", "blocking", "awaiting", "recording", "committing"}

LinkAt(t) ==
    /\ phase[t] \in Owning <=> pc[t] = "owner"
    /\ phase[t] \in {"idle", "queued", "reading"} <=> pc[t] = "out"
    /\ pc[t] # "out" => taskKey[t] = Key(t)
    /\ phase[t] \in {"recording", "committing"} => outcome[t] \in Results

Links == \A t \in Slots : LinkAt(t)

(* A slot that is not idle carries a request, with a key and an agent.        *)
LEMMA SlotHasKey ==
  ASSUME TypeOK, NEW t \in Slots, phase[t] # "idle"
  PROVE  req[t] \in Requests /\ Key(t) \in Keys /\ req[t].agent \in Agents
  BY ServiceConstants DEF TypeOK, Key

(* Every step of the service is a step of the cache, or leaves it alone.      *)
LEMMA StepsAreTheCaches ==
  ASSUME TypeOK, Links, [Next]_vars
  PROVE  [Cache!Next]_Cache!vars
<1>1. ASSUME NEW t \in Slots, Cache!Step(t) PROVE Cache!Next
  BY <1>1 DEF Cache!Next
<1>2. ASSUME UNCHANGED cacheVars PROVE UNCHANGED Cache!vars
  BY <1>2 DEF cacheVars, Cache!vars
<1>3. ASSUME NEW t \in Slots, Drop(t) PROVE [Cache!Next]_Cache!vars
  BY <1>1, <1>2, <1>3 DEF Drop, Cache!Step
<1>4. ASSUME NEW t \in Slots, Check(t) PROVE Cache!Step(t)
  BY <1>4, SlotHasKey DEF Check, Cache!Step
<1>5. ASSUME NEW t \in Slots, Snapshot(t) \/ Win(t) \/ AnswerFromCache(t) \/ FindFull(t)
      PROVE  Cache!Step(t)
  BY <1>5 DEF Snapshot, Win, AnswerFromCache, FindFull, Cache!Step
<1>6. ASSUME NEW t \in Slots, BadJson(t) PROVE Cache!Step(t)
  <2>1. "bad request" \in Results
    BY DEF Results
  <2> QED BY <1>6, <2>1 DEF BadJson, Cache!Step
<1>7. ASSUME NEW t \in Slots, Commit(t) PROVE Cache!Step(t)
  <2>1. outcome[t] \in Results
    BY <1>7 DEF Links, LinkAt, Commit
  <2> QED BY <1>7, <2>1 DEF Commit, Cache!Step
<1>8. ASSUME NEW t \in Slots,
             \/ Admit(t) \/ GateRejects(t) \/ Decide(t) \/ Reserve(t) \/ RecordProof(t)
             \/ FileActionEnds(t) \/ NetActionEnds(t) \/ NetActionTimesOut(t)
      PROVE  UNCHANGED cacheVars
  BY <1>8 DEF Admit, GateRejects, Decide, Reserve, RecordProof, FileActionEnds,
              NetActionEnds, NetActionTimesOut, ActionEnds
<1>9. ASSUME NEW t \in Slots, NEW q \in Requests, Arrive(t, q) PROVE UNCHANGED cacheVars
  BY <1>9 DEF Arrive
<1>10. CASE Tick
  BY <1>10 DEF Tick, Elapse, Cache!Next
<1>11. CASE UNCHANGED vars
  BY <1>2, <1>11 DEF vars
<1> QED BY <1>1, <1>2, <1>3, <1>4, <1>5, <1>6, <1>7, <1>8, <1>9, <1>10, <1>11
        DEF Next, Handle, HangUp, DeadlineFires
-----------------------------------------------------------------------------
(* The types, in the parts that steps disturb.                                *)
SlotTypes ==
    /\ phase \in [Slots -> Phases]
    /\ req \in [Slots -> Requests \cup {NoRequest}]
    /\ clock \in [Slots -> 0 .. Deadline]
    /\ outcome \in [Slots -> Results \cup {NoResult}]
    /\ queue \in Seq(Slots)
    /\ \A t \in Slots : phase[t] = "idle" <=> req[t] = NoRequest

StoreTypes ==
    /\ used \in [Agents -> Nat]
    /\ \A a \in Agents : used[a] <= MaxCapacity[a]
    /\ proved \in [Keys -> {"none", "AUTHORIZED", "IMPOSSIBLE"}]
    /\ sinceEffect \in [Keys -> 0 .. TTL]
    /\ relapsed \subseteq Keys
    /\ acked \in [Keys -> Results \cup {NoResult}]

LEMMA TypeParts ==
  TypeOK <=> Cache!TypeOK /\ SlotTypes /\ StoreTypes /\ Cardinality(Running) <= Permits
  BY Zenon DEF TypeOK, SlotTypes, StoreTypes

LEMMA QueueShrinks ==
  ASSUME queue \in Seq(Slots), NEW t \in Slots
  PROVE  Without(t) \in Seq(Slots)
  BY DEF Without

(* The permits that are taken: no more than there are.                        *)
LEMMA RunningIsFinite == IsFiniteSet(Running) /\ Cardinality(Running) \in Nat
  BY FS_Subset, FS_CardinalityType, ServiceConstants DEF Running

LEMMA RunningShrinks ==
  ASSUME Cardinality(Running) <= Permits, Running' \subseteq Running
  PROVE  Cardinality(Running') <= Permits
<1>1. Cardinality(Running') <= Cardinality(Running) /\ Cardinality(Running') \in Nat
  BY RunningIsFinite, FS_Subset, FS_CardinalityType
<1> QED BY <1>1, RunningIsFinite, ServiceConstants

LEMMA ServiceTypeInit == Init => TypeOK
<1> SUFFICES ASSUME Init PROVE TypeOK
  OBVIOUS
<1>1. Cache!TypeOK
  BY SameCache, CacheFits, Proved!TypeInit DEF Init
<1>2. SlotTypes
  BY ServiceConstants DEF Init, SlotTypes, Phases
<1>3. StoreTypes
  BY ServiceConstants DEF Init, StoreTypes
<1>4. Running = {}
  BY DEF Init, Running
<1>5. Cardinality(Running) <= Permits
  BY <1>4, FS_EmptySet, ServiceConstants
<1> QED BY <1>1, <1>2, <1>3, <1>5, TypeParts

(* A slot that leaves, goes on, or is let in, is as well typed as before.     *)
LEMMA LeaveIsTyped ==
  ASSUME SlotTypes, Cardinality(Running) <= Permits, NEW t \in Slots, Leave(t)
  PROVE  SlotTypes' /\ Cardinality(Running') <= Permits
<1>1. SlotTypes'
  BY QueueShrinks, ServiceConstants DEF SlotTypes, Leave, Goto, Phases
<1>2. Running' \subseteq Running
  BY DEF SlotTypes, Leave, Goto, Running
<1> QED BY <1>1, <1>2, RunningShrinks

LEMMA GotoIsTyped ==
  ASSUME SlotTypes, Cardinality(Running) <= Permits,
         NEW t \in Slots, NEW p \in Phases \ {"idle", "queued"}, Goto(t, p),
         phase[t] \notin {"idle", "queued"},
         UNCHANGED <<req, clock, queue>>,
         outcome' \in [Slots -> Results \cup {NoResult}]
  PROVE  SlotTypes' /\ Cardinality(Running') <= Permits
<1>1. SlotTypes'
  BY DEF SlotTypes, Goto, Phases
<1>2. Running' \subseteq Running
  BY DEF SlotTypes, Goto, Running
<1> QED BY <1>1, <1>2, RunningShrinks

LEMMA AdmitIsTyped ==
  ASSUME SlotTypes, Cardinality(Running) <= Permits, NEW t \in Slots, Admit(t)
  PROVE  SlotTypes' /\ Cardinality(Running') <= Permits
<1>1. SlotTypes'
  BY DEF SlotTypes, Admit, Goto, Phases
<1>2. Running' = Running \cup {t} /\ t \notin Running
  BY DEF SlotTypes, Admit, Goto, Running
<1>3. Cardinality(Running') = Cardinality(Running) + 1
  BY <1>2, RunningIsFinite, FS_AddElement
<1> QED BY <1>1, <1>3, RunningIsFinite, ServiceConstants DEF Admit

LEMMA ArriveIsTyped ==
  ASSUME SlotTypes, Cardinality(Running) <= Permits,
         NEW t \in Slots, NEW q \in Requests, Arrive(t, q)
  PROVE  SlotTypes' /\ Cardinality(Running') <= Permits
<1>1. SlotTypes'
  BY ServiceConstants DEF SlotTypes, Arrive, Goto, Phases
<1>2. Running' \subseteq Running
  BY DEF SlotTypes, Arrive, Goto, Running
<1> QED BY <1>1, <1>2, RunningShrinks

LEMMA TickIsTyped ==
  ASSUME SlotTypes, StoreTypes, Cardinality(Running) <= Permits, Tick
  PROVE  SlotTypes' /\ StoreTypes' /\ Cardinality(Running') <= Permits
<1>1. clock' \in [Slots -> 0 .. Deadline]
  BY ServiceConstants DEF SlotTypes, Tick, Elapse
<1>2. SlotTypes'
  BY <1>1 DEF SlotTypes, Tick, Elapse
<1>3. StoreTypes'
  BY ServiceConstants DEF StoreTypes, Tick, Elapse
<1>4. Running' \subseteq Running
  BY DEF Tick, Elapse, Running
<1> QED BY <1>2, <1>3, <1>4, RunningShrinks

(* What a reservation adds still fits.                                        *)
LEMMA ReserveIsTyped ==
  ASSUME TypeOK, NEW t \in Slots, Reserve(t)
  PROVE  StoreTypes'
<1> DEFINE q == req[t]
<1>1. q \in Requests /\ q.key \in Keys /\ q.agent \in Agents
  BY SlotHasKey DEF Reserve, Key
<1>2. q.body.magnitude \in Nat
  <2>1. FormOf[q] \in Live
    BY DEF Reserve
  <2>2. Accepted(q.agent, q.body)
    BY <1>1, <2>1, LiveIsAccepted
  <2> HIDE DEF q
  <2> QED BY <2>2, MagnitudeIsNat
<1>3. used' = [used EXCEPT ![q.agent] = @ + q.body.magnitude]
      /\ used[q.agent] + q.body.magnitude <= MaxCapacity[q.agent]
  BY DEF Reserve, Fits
<1>4. used' \in [Agents -> Nat] /\ \A a \in Agents : used'[a] <= MaxCapacity[a]
  BY <1>1, <1>2, <1>3 DEF TypeOK
<1>5. sinceEffect' \in [Keys -> 0 .. TTL]
  BY <1>1, ServiceConstants DEF TypeOK, Reserve
<1> QED BY <1>4, <1>5 DEF TypeOK, StoreTypes, Reserve
(* Whatever a slot does, the service's variables keep their types.            *)
LEMMA ServiceTypeNext == TypeOK /\ Links /\ [Next]_vars => TypeOK'
<1> SUFFICES ASSUME TypeOK, Links, [Next]_vars PROVE TypeOK'
  OBVIOUS
<1>1. SlotTypes /\ StoreTypes /\ Cardinality(Running) <= Permits
  BY TypeParts
<1>2. Cache!TypeOK'
  BY StepsAreTheCaches, CacheKeepsTypes DEF TypeOK
<1>3. SUFFICES SlotTypes' /\ StoreTypes' /\ Cardinality(Running') <= Permits
  <2>1. TypeOK' <=> Cache!TypeOK' /\ SlotTypes' /\ StoreTypes' /\ Cardinality(Running') <= Permits
    BY Zenon DEF TypeOK, SlotTypes, StoreTypes
  <2> QED BY <1>2, <1>3, <2>1
<1>4. CASE Tick
  BY <1>1, <1>4, TickIsTyped
<1>5. ASSUME NEW t \in Slots, NEW q \in Requests, Arrive(t, q)
      PROVE  SlotTypes' /\ StoreTypes' /\ Cardinality(Running') <= Permits
  BY <1>1, <1>5, ArriveIsTyped DEF StoreTypes, Arrive, history
<1>6. ASSUME NEW t \in Slots, Admit(t)
      PROVE  SlotTypes' /\ StoreTypes' /\ Cardinality(Running') <= Permits
  BY <1>1, <1>6, AdmitIsTyped DEF StoreTypes, Admit, history
<1>7. ASSUME NEW t \in Slots, Drop(t) \/ GateRejects(t) \/ AnswerFromCache(t)
      PROVE  SlotTypes' /\ StoreTypes' /\ Cardinality(Running') <= Permits
  <2>1. Leave(t) /\ UNCHANGED <<used, proved, history>>
    BY <1>7 DEF Drop, GateRejects, AnswerFromCache
  <2> QED BY <1>1, <2>1, LeaveIsTyped DEF StoreTypes, history
<1>8. ASSUME NEW t \in Slots, BadJson(t) \/ Commit(t)
      PROVE  SlotTypes' /\ StoreTypes' /\ Cardinality(Running') <= Permits
  <2>1. PICK r \in Results : Leave(t) /\ acked' = [acked EXCEPT ![Key(t)] = r]
                             /\ UNCHANGED <<used, proved, sinceEffect, relapsed>>
    BY <1>8 DEF BadJson, Commit, Links, LinkAt, Results
  <2>2. SlotTypes' /\ Cardinality(Running') <= Permits
    BY <1>1, <2>1, LeaveIsTyped
  <2>3. StoreTypes'
    BY <1>1, <2>1 DEF StoreTypes
  <2> QED BY <2>2, <2>3
<1>9. ASSUME NEW t \in Slots, NEW p \in Phases \ {"idle", "queued"}, Goto(t, p),
             phase[t] \notin {"idle", "queued"}, UNCHANGED <<req, clock, queue, outcome>>
      PROVE  SlotTypes' /\ Cardinality(Running') <= Permits
  BY <1>1, <1>9, GotoIsTyped DEF SlotTypes
<1>10. ASSUME NEW t \in Slots, Check(t)
       PROVE  SlotTypes' /\ StoreTypes' /\ Cardinality(Running') <= Permits
  BY <1>1, <1>9, <1>10 DEF Check, StoreTypes, history, Phases
<1>11. ASSUME NEW t \in Slots, Win(t)
       PROVE  SlotTypes' /\ StoreTypes' /\ Cardinality(Running') <= Permits
  <2>1. Key(t) \in Keys
    BY <1>11, SlotHasKey DEF Win
  <2>2. StoreTypes'
    BY <1>1, <1>11, <2>1 DEF Win, StoreTypes
  <2> QED BY <1>9, <1>11, <2>2 DEF Win, Phases
<1>12. ASSUME NEW t \in Slots, Reserve(t)
       PROVE  SlotTypes' /\ StoreTypes' /\ Cardinality(Running') <= Permits
  <2>1. PICK p \in {"blocking", "awaiting"} : Goto(t, p)
    BY <1>12 DEF Reserve
  <2>2. phase[t] = "deciding" /\ UNCHANGED <<req, clock, queue, outcome>>
    BY <1>12 DEF Reserve
  <2> QED BY <1>9, <1>12, <2>1, <2>2, ReserveIsTyped DEF Phases
<1>13. ASSUME NEW t \in Slots, RecordProof(t)
       PROVE  SlotTypes' /\ StoreTypes' /\ Cardinality(Running') <= Permits
  <2>1. StoreTypes'
    BY <1>1, <1>13 DEF RecordProof, StoreTypes, history, Verdict
  <2> QED BY <1>9, <1>13, <2>1 DEF RecordProof, Phases
<1>14. ASSUME NEW t \in Slots,
              Decide(t) \/ FileActionEnds(t) \/ NetActionEnds(t) \/ NetActionTimesOut(t)
       PROVE  SlotTypes' /\ StoreTypes' /\ Cardinality(Running') <= Permits
  <2>1. /\ Goto(t, "recording") /\ UNCHANGED <<req, clock, queue>>
        /\ phase[t] \in {"deciding", "blocking", "awaiting"}
        /\ UNCHANGED <<used, proved, history>>
    BY <1>14 DEF Decide, FileActionEnds, NetActionEnds, NetActionTimesOut, ActionEnds
  <2>2. PICK r \in Results : outcome' = [outcome EXCEPT ![t] = r]
    BY <1>14
    DEF Decide, FileActionEnds, NetActionEnds, NetActionTimesOut, ActionEnds, Results
  <2>3. SlotTypes' /\ Cardinality(Running') <= Permits
    BY <1>1, <2>1, <2>2, GotoIsTyped DEF SlotTypes, Phases
  <2> QED BY <1>1, <2>1, <2>3 DEF StoreTypes, history
<1>15. ASSUME NEW t \in Slots, Snapshot(t) \/ FindFull(t)
       PROVE  SlotTypes' /\ StoreTypes' /\ Cardinality(Running') <= Permits
  BY <1>1, <1>15 DEF Snapshot, FindFull, slotVars, history, SlotTypes, StoreTypes, Running
<1>16. CASE UNCHANGED vars
  BY <1>1, <1>16 DEF vars, slotVars, history, SlotTypes, StoreTypes, Running
<1> QED BY <1>4, <1>5, <1>6, <1>7, <1>8, <1>10, <1>11, <1>12, <1>13, <1>14, <1>15, <1>16
        DEF Next, Handle, HangUp, DeadlineFires
-----------------------------------------------------------------------------
LEMMA LinksInit == Init => Links
  BY DEF Init, Cache!Init, Links, LinkAt, Owning

(* A step of one slot leaves the others where they are.                       *)
Elsewhere(t) ==
    \A u \in Slots \ {t} :
        /\ phase'[u] = phase[u] /\ req'[u] = req[u] /\ outcome'[u] = outcome[u]
        /\ pc'[u] = pc[u] /\ taskKey'[u] = taskKey[u]

LEMMA LinksElsewhere ==
  ASSUME Links, NEW t \in Slots, Elsewhere(t), LinkAt(t)'
  PROVE  Links'
<1> SUFFICES ASSUME NEW u \in Slots \ {t} PROVE LinkAt(u)'
  BY DEF Links
<1>1. /\ phase'[u] = phase[u] /\ req'[u] = req[u] /\ outcome'[u] = outcome[u]
      /\ pc'[u] = pc[u] /\ taskKey'[u] = taskKey[u]
  BY DEF Elsewhere
<1>2. LinkAt(u)
  BY DEF Links
<1> QED BY <1>1, <1>2 DEF LinkAt, Key

(* Slots and tasks leave together.                                            *)
LEMMA LeaveLinks ==
  ASSUME TypeOK, Links, NEW t \in Slots, Leave(t),
         \/ UNCHANGED cacheVars /\ pc[t] = "out"
         \/ /\ pc' = [pc EXCEPT ![t] = "out"]
            /\ taskKey' = [taskKey EXCEPT ![t] = NoKey]
  PROVE  Links'
<1>1. Elsewhere(t)
  BY DEF TypeOK, Cache!TypeOK, Elsewhere, Leave, Goto, cacheVars
<1>2. phase'[t] = "idle" /\ pc'[t] = "out"
  BY DEF TypeOK, Cache!TypeOK, Leave, Goto, cacheVars
<1>3. LinkAt(t)'
  BY <1>2 DEF LinkAt, Owning
<1> QED BY <1>1, <1>3, LinksElsewhere

(* A slot moves on while its task stays.                                      *)
LEMMA GotoLinks ==
  ASSUME TypeOK, Links, NEW t \in Slots, NEW p \in Phases, Goto(t, p),
         UNCHANGED <<pc, taskKey, req>>,
         p \in Owning <=> phase[t] \in Owning,
         p \in {"idle", "queued", "reading"} <=> phase[t] \in {"idle", "queued", "reading"},
         \A u \in Slots \ {t} : outcome'[u] = outcome[u],
         p \in {"recording", "committing"} => outcome'[t] \in Results
  PROVE  Links'
<1>1. Elsewhere(t)
  BY DEF TypeOK, Elsewhere, Goto
<1>2. phase'[t] = p /\ pc'[t] = pc[t] /\ taskKey'[t] = taskKey[t] /\ req'[t] = req[t]
  BY DEF TypeOK, Goto
<1>3. LinkAt(t)
  BY DEF Links
<1>4. LinkAt(t)'
  BY <1>2, <1>3 DEF LinkAt, Key
<1> QED BY <1>1, <1>4, LinksElsewhere

(* Slots and the cache's tasks stay in step.                                  *)
LEMMA LinksNext == TypeOK /\ Links /\ [Next]_vars => Links'
<1> SUFFICES ASSUME TypeOK, Links, [Next]_vars PROVE Links'
  OBVIOUS
<1>0. ASSUME UNCHANGED <<phase, req, outcome, pc, taskKey>> PROVE Links'
  BY <1>0 DEF Links, LinkAt, Key
<1>1. CASE Tick
  BY <1>0, <1>1 DEF Tick, Elapse, Cache!Tick, Cache!Elapse
<1>2. ASSUME NEW t \in Slots, NEW q \in Requests, Arrive(t, q) PROVE Links'
  <2>1. Elsewhere(t)
    BY <1>2 DEF TypeOK, Arrive, Goto, Elsewhere, cacheVars
  <2>2. phase'[t] = "queued" /\ pc'[t] = "out"
    BY <1>2 DEF TypeOK, Links, LinkAt, Arrive, Goto, cacheVars
  <2>3. LinkAt(t)'
    BY <2>2 DEF LinkAt, Owning
  <2> QED BY <2>1, <2>3, LinksElsewhere
<1>3. ASSUME NEW t \in Slots, Admit(t) PROVE Links'
  BY <1>3, GotoLinks DEF Admit, Phases, Owning, cacheVars
<1>4. ASSUME NEW t \in Slots, GateRejects(t) PROVE Links'
  BY <1>4, LeaveLinks DEF GateRejects, Links, LinkAt
<1>5. ASSUME NEW t \in Slots, phase[t] \in Awaits, Drop(t) PROVE Links'
  <2>1. CASE phase[t] = "awaiting"
    BY <1>5, <2>1, LeaveLinks DEF Drop, Cache!Abandon, Cache!Leave
  <2>2. CASE phase[t] # "awaiting"
    BY <1>5, <2>2, LeaveLinks DEF Drop, Awaits, Links, LinkAt
  <2> QED BY <2>1, <2>2
<1>6. ASSUME NEW t \in Slots, AnswerFromCache(t) PROVE Links'
  BY <1>6, LeaveLinks
  DEF AnswerFromCache, Cache!EntryInFlight, Cache!EntryCached, Cache!FullRemove, Cache!Leave
<1>7. ASSUME NEW t \in Slots, BadJson(t) \/ Commit(t) PROVE Links'
  BY <1>7, LeaveLinks DEF BadJson, Commit, Cache!Complete, Cache!Leave
<1>8. ASSUME NEW t \in Slots, Check(t) PROVE Links'
  <2>1. Elsewhere(t)
    BY <1>8 DEF TypeOK, Cache!TypeOK, Check, Goto, Cache!CheckPurge, Elsewhere
  <2>2. phase'[t] = "checking" /\ pc'[t] = "purged" /\ taskKey'[t] = Key(t) /\ req' = req
    BY <1>8 DEF TypeOK, Cache!TypeOK, Check, Goto, Cache!CheckPurge
  <2>3. LinkAt(t)'
    BY <2>2 DEF LinkAt, Owning, Key
  <2> QED BY <2>1, <2>3, LinksElsewhere
<1>9. ASSUME NEW t \in Slots, Snapshot(t) \/ FindFull(t) PROVE Links'
  <2>1. /\ UNCHANGED <<phase, req, outcome, taskKey>>
        /\ pc[t] \in {"purged", "snapped"}
        /\ \E p \in {"snapped", "full"} : pc' = [pc EXCEPT ![t] = p]
    BY <1>9 DEF Snapshot, FindFull, slotVars, Cache!CheckLen, Cache!EntryFull
  <2>2. Elsewhere(t)
    BY <2>1 DEF TypeOK, Cache!TypeOK, Elsewhere
  <2>3. LinkAt(t)'
    BY <2>1 DEF TypeOK, Cache!TypeOK, Links, LinkAt, Key
  <2> QED BY <2>2, <2>3, LinksElsewhere
<1>10. ASSUME NEW t \in Slots, Win(t) PROVE Links'
  <2>1. /\ phase' = [phase EXCEPT ![t] = "deciding"] /\ UNCHANGED <<req, outcome, taskKey>>
        /\ pc[t] = "snapped" /\ pc' = [pc EXCEPT ![t] = "owner"]
    BY <1>10 DEF Win, Goto, Cache!EntryNew, Cache!Grant
  <2>2. Elsewhere(t)
    BY <2>1 DEF TypeOK, Cache!TypeOK, Elsewhere
  <2>3. LinkAt(t)'
    BY <2>1 DEF TypeOK, Cache!TypeOK, Links, LinkAt, Key, Owning
  <2> QED BY <2>2, <2>3, LinksElsewhere
<1>11. ASSUME NEW t \in Slots,
              Decide(t) \/ FileActionEnds(t) \/ NetActionEnds(t) \/ NetActionTimesOut(t)
       PROVE  Links'
  <2>1. /\ Goto(t, "recording") /\ UNCHANGED <<req, pc, taskKey>>
        /\ phase[t] \in {"deciding", "blocking", "awaiting"}
    BY <1>11
    DEF Decide, FileActionEnds, NetActionEnds, NetActionTimesOut, ActionEnds, cacheVars
  <2>2. PICK r \in Results : outcome' = [outcome EXCEPT ![t] = r]
    BY <1>11
    DEF Decide, FileActionEnds, NetActionEnds, NetActionTimesOut, ActionEnds, Results
  <2>3. outcome'[t] \in Results /\ \A u \in Slots \ {t} : outcome'[u] = outcome[u]
    BY <2>2 DEF TypeOK
  <2> QED BY <2>1, <2>3, GotoLinks DEF Phases, Owning
<1>12. ASSUME NEW t \in Slots, Reserve(t) PROVE Links'
  <2>1. PICK p \in {"blocking", "awaiting"} : Goto(t, p)
    BY <1>12 DEF Reserve
  <2>2. phase[t] = "deciding" /\ UNCHANGED <<req, outcome, pc, taskKey>>
    BY <1>12 DEF Reserve, cacheVars
  <2> QED BY <2>1, <2>2, GotoLinks DEF Phases, Owning
<1>13. ASSUME NEW t \in Slots, RecordProof(t) PROVE Links'
  <2>1. outcome[t] \in Results
    BY <1>13 DEF RecordProof, Links, LinkAt
  <2> QED BY <1>13, <2>1, GotoLinks DEF RecordProof, Phases, Owning, cacheVars
<1>14. CASE UNCHANGED vars
  BY <1>0, <1>14 DEF vars, slotVars, cacheVars
<1> QED BY <1>1, <1>2, <1>3, <1>4, <1>5, <1>6, <1>7, <1>8, <1>9, <1>10, <1>11, <1>12, <1>13, <1>14
        DEF Next, Handle, HangUp, DeadlineFires, Timed, Awaits

(* The service's variables keep their types, and no more requests run than    *)
(* there are permits.                                                         *)
LEMMA TypesAndLinks == Spec => [](TypeOK /\ Links)
<1>1. TypeOK /\ Links /\ [Next]_vars => TypeOK' /\ Links'
  BY ServiceTypeNext, LinksNext
<1> QED BY <1>1, ServiceTypeInit, LinksInit, PTL DEF Spec

THEOREM ServiceTypeCorrect == Spec => []TypeOK
  BY TypesAndLinks, PTL

(* The service is a behaviour of IdempotencyCache, for the bound on owners    *)
(* that the two timers give: what was shown of the cache holds in it.         *)
THEOREM ServiceUsesCache == Spec => UsesCacheAsSpecified
<1>1. Init => Cache!Init
  BY DEF Init
<1>2. TypeOK /\ Links /\ [Next]_vars => [Cache!Next]_Cache!vars
  BY StepsAreTheCaches
<1> QED BY <1>1, <1>2, TypesAndLinks, PTL DEF Spec, UsesCacheAsSpecified, Cache!Spec
-----------------------------------------------------------------------------
(* Owners are as old as the last grant of their key at least, and only an     *)
(* owner whose entry was removed shares its key.  No action on a key was      *)
(* started before its last grant and less than a TTL ago, unless by the owner *)
(* of that grant, who has not started one while it decides.                   *)
Owns(t) == pc[t] = "owner"

RivalInv ==
    /\ \A t \in Slots : Owns(t) => held[t] >= sinceGrant[Key(t)]
    /\ \A t, u \in Slots : t # u /\ Owns(t) /\ Owns(u) /\ Key(t) = Key(u) => Key(t) \in relapsed

EffectInv ==
    /\ \A k \in Keys : sinceEffect[k] >= sinceGrant[k] \/ sinceEffect[k] = TTL
    /\ \A t \in Slots : phase[t] = "deciding" =>
          /\ sinceGrant[Key(t)] = 0
          /\ sinceEffect[Key(t)] = TTL \/ Key(t) \in relapsed

IInv == TypeOK /\ Links /\ Proved!GrantInv

(* What New answers: to whom, and when.                                       *)
LEMMA WinStep ==
  ASSUME IInv, NEW t \in Slots, Win(t)
  PROVE  /\ Key(t) \in Keys
         /\ phase' = [phase EXCEPT ![t] = "deciding"]
         /\ pc' = [pc EXCEPT ![t] = "owner"]
         /\ sinceGrant' = [sinceGrant EXCEPT ![Key(t)] = 0]
         /\ UNCHANGED <<held, taskKey, req, sinceEffect>>
         /\ entries' = [entries EXCEPT ![Key(t)] = Cache!FreshEntry]
         /\ acked' = [acked EXCEPT ![Key(t)] = NoResult]
         /\ proved' = [proved EXCEPT ![Key(t)] = "none"]
         /\ \A k \in Keys : k # Key(t) => (k \in relapsed' <=> k \in relapsed)
         /\ Key(t) \in relapsed' \/ sinceGrant[Key(t)] >= TTL
<1> DEFINE k == Key(t)
<1>1. k \in Keys
  BY SlotHasKey DEF IInv, Win
<1>2. taskKey[t] = k
  BY DEF IInv, Links, LinkAt, Win, Cache!EntryNew
<1>3. k \in relapsed' \/ sinceGrant[k] >= TTL
  <2>1. CASE k \in lost
    BY <2>1 DEF Win
  <2>2. CASE k \notin lost
    <3>1. CASE entries[k] = Absent
      BY <1>1, <2>2, <3>1 DEF IInv, Proved!GrantInv
    <3>2. CASE entries[k] # Absent
      <4>1. entries[k].age = sinceGrant[k] /\ entries[k].age > TTL
        BY <1>1, <1>2, <3>2 DEF IInv, Proved!GrantInv, Win, Cache!EntryNew, Cache!Expired
      <4>2. sinceGrant[k] \in 0 .. TTL + 1
        BY <1>1 DEF IInv, TypeOK, Cache!TypeOK, Cache!Age
      <4> QED BY <4>1, <4>2, ServiceConstants
    <3> QED BY <3>1, <3>2
  <2> QED BY <2>1, <2>2
<1>4. \A j \in Keys : j # k => (j \in relapsed' <=> j \in relapsed)
  BY DEF Win
<1>5. /\ phase' = [phase EXCEPT ![t] = "deciding"]
      /\ pc' = [pc EXCEPT ![t] = "owner"]
      /\ sinceGrant' = [sinceGrant EXCEPT ![k] = 0]
      /\ UNCHANGED <<held, taskKey, req, sinceEffect>>
      /\ entries' = [entries EXCEPT ![k] = Cache!FreshEntry]
      /\ acked' = [acked EXCEPT ![k] = NoResult]
      /\ proved' = [proved EXCEPT ![k] = "none"]
  BY <1>2 DEF Win, Goto, Cache!EntryNew, Cache!Grant
<1> QED BY <1>1, <1>3, <1>4, <1>5

(* A key that is granted without having been lost had no owner.               *)
LEMMA GrantedKeyIsFree ==
  ASSUME IInv, RivalInv, NEW t \in Slots, Win(t), Key(t) \notin relapsed'
  PROVE  \A u \in Slots : Owns(u) => Key(u) # Key(t)
<1> SUFFICES ASSUME NEW u \in Slots, Owns(u), Key(u) = Key(t) PROVE FALSE
  OBVIOUS
<1>1. sinceGrant[Key(t)] >= TTL /\ Key(t) \in Keys
  BY WinStep
<1>2. held[u] >= sinceGrant[Key(t)]
  BY DEF RivalInv
<1>3. held[u] \in 0 .. HoldBound /\ sinceGrant[Key(t)] \in 0 .. TTL + 1
  BY <1>1 DEF IInv, TypeOK, Cache!TypeOK, Cache!Age
<1> QED BY <1>1, <1>2, <1>3, HoldsFit, ServiceConstants

(* All other steps make no owner, and keep the time since an owner's grant     *)
(* but for the clock's.                                                       *)
Quiet ==
    /\ \A t \in Slots : Owns(t)' => Owns(t) /\ req'[t] = req[t]
    /\ relapsed' = relapsed

Timeless ==
    /\ sinceGrant' = sinceGrant
    /\ \A t \in Slots : Owns(t)' => held'[t] = held[t]

LEMMA ServiceStep ==
  ASSUME TypeOK, Links, [Next]_vars
  PROVE  \/ Tick
         \/ \E t \in Slots : Win(t)
         \/ Quiet /\ Timeless
<1>1. ASSUME NEW t \in Slots, NEW q \in Requests, Arrive(t, q) PROVE Quiet /\ Timeless
  <2>1. \A u \in Slots \ {t} : req'[u] = req[u]
    BY <1>1 DEF TypeOK, Arrive
  <2>2. ~Owns(t)
    BY <1>1 DEF Links, LinkAt, Owns, Arrive
  <2> QED BY <1>1, <2>1, <2>2 DEF Arrive, Quiet, Timeless, Owns, cacheVars, history
<1>2. ASSUME NEW t \in Slots, UNCHANGED <<cacheVars, req, relapsed>> PROVE Quiet /\ Timeless
  BY <1>2 DEF Quiet, Timeless, Owns, cacheVars
<1>3. ASSUME NEW t \in Slots,
             \/ Admit(t) \/ Decide(t) \/ Reserve(t) \/ RecordProof(t)
             \/ FileActionEnds(t) \/ NetActionEnds(t) \/ NetActionTimesOut(t)
      PROVE  Quiet /\ Timeless
  <2>1. UNCHANGED <<cacheVars, req, relapsed>>
    BY <1>3 DEF Admit, Decide, Reserve, RecordProof, FileActionEnds, NetActionEnds,
                NetActionTimesOut, ActionEnds, history
  <2> QED BY <1>2, <2>1
<1>4. ASSUME NEW t \in Slots, Leave(t), relapsed' = relapsed, sinceGrant' = sinceGrant,
             pc'[t] = "out",
             \A u \in Slots \ {t} : pc'[u] = pc[u] /\ held'[u] = held[u]
      PROVE  Quiet /\ Timeless
  <2>1. \A u \in Slots \ {t} : req'[u] = req[u]
    BY <1>4 DEF TypeOK, Leave
  <2> QED BY <1>4, <2>1 DEF Quiet, Timeless, Owns
<1>5. ASSUME NEW t \in Slots, GateRejects(t) \/ (Drop(t) /\ phase[t] \in Awaits)
      PROVE  Quiet /\ Timeless
  <2>1. Leave(t) /\ relapsed' = relapsed
    BY <1>5 DEF GateRejects, Drop, history
  <2>2. (UNCHANGED cacheVars /\ pc[t] = "out") \/ Cache!Abandon(t)
    BY <1>5 DEF GateRejects, Drop, Awaits, Links, LinkAt
  <2>3. /\ sinceGrant' = sinceGrant /\ pc'[t] = "out"
        /\ \A u \in Slots \ {t} : pc'[u] = pc[u] /\ held'[u] = held[u]
    BY <2>2 DEF TypeOK, Cache!TypeOK, cacheVars, Cache!Abandon, Cache!Leave
  <2> QED BY <1>4, <2>1, <2>3
<1>6. ASSUME NEW t \in Slots, AnswerFromCache(t) \/ BadJson(t) \/ Commit(t)
      PROVE  Quiet /\ Timeless
  <2>1. Leave(t) /\ relapsed' = relapsed
    BY <1>6 DEF AnswerFromCache, BadJson, Commit, history
  <2>2. /\ sinceGrant' = sinceGrant /\ pc'[t] = "out"
        /\ \A u \in Slots \ {t} : pc'[u] = pc[u] /\ held'[u] = held[u]
    BY <1>6
    DEF TypeOK, Cache!TypeOK, AnswerFromCache, BadJson, Commit, Cache!EntryInFlight,
        Cache!EntryCached, Cache!FullRemove, Cache!Complete, Cache!Leave
  <2> QED BY <1>4, <2>1, <2>2
<1>7. ASSUME NEW t \in Slots, Check(t) \/ Snapshot(t) \/ FindFull(t) PROVE Quiet /\ Timeless
  <2>1. UNCHANGED <<req, relapsed, sinceGrant, held>>
    BY <1>7 DEF Check, Snapshot, FindFull, slotVars, history, Cache!CheckPurge,
                Cache!CheckLen, Cache!EntryFull, Cache!history
  <2>2. \A u \in Slots : Owns(u)' => Owns(u)
    BY <1>7 DEF TypeOK, Cache!TypeOK, Owns, Check, Snapshot, FindFull,
                Cache!CheckPurge, Cache!CheckLen, Cache!EntryFull
  <2> QED BY <2>1, <2>2 DEF Quiet, Timeless
<1>8. CASE UNCHANGED vars
  BY <1>8 DEF vars, slotVars, history, cacheVars, Quiet, Timeless, Owns
<1> QED BY <1>1, <1>3, <1>5, <1>6, <1>7, <1>8
        DEF Next, Handle, HangUp, DeadlineFires, Timed, Awaits
-----------------------------------------------------------------------------
(* The types, the links and the age of grants, together.                      *)
LEMMA IInvCorrect == Spec => []IInv
<1>1. Init => Proved!GrantInv
  BY SameCache, CacheFits, Proved!GrantInit DEF Init
<1>2. TypeOK /\ Links /\ Proved!GrantInv /\ [Next]_vars => Proved!GrantInv'
  BY StepsAreTheCaches, CacheKeepsGrants DEF TypeOK
<1> QED BY <1>1, <1>2, TypesAndLinks, PTL DEF Spec, IInv

LEMMA RivalInit == Init => RivalInv
  BY DEF Init, Cache!Init, RivalInv, Owns

LEMMA OwnerHasKey ==
  ASSUME IInv, NEW t \in Slots, Owns(t)
  PROVE  phase[t] # "idle" /\ Key(t) \in Keys
<1>1. phase[t] # "idle"
  BY DEF IInv, Links, LinkAt, Owns
<1> QED BY <1>1, SlotHasKey DEF IInv

LEMMA TickStep ==
  ASSUME IInv, Tick
  PROVE  /\ UNCHANGED <<pc, req, relapsed, phase>>
         /\ \A t \in Slots : Owns(t) => held'[t] = held[t] + 1
         /\ \A k \in Keys : /\ sinceGrant[k] \in 0 .. TTL + 1
                            /\ sinceGrant'[k] \in 0 .. TTL + 1
                            /\ sinceGrant'[k] <= sinceGrant[k] + 1
         /\ \A k \in Keys : sinceEffect'[k] = IF sinceEffect[k] < TTL THEN sinceEffect[k] + 1 ELSE TTL
         /\ \A t \in Slots : phase[t] # "deciding"
<1>1. \A k \in Keys : sinceGrant[k] \in 0 .. TTL + 1
  BY DEF IInv, TypeOK, Cache!TypeOK, Cache!Age
<1>2. \A k \in Keys : sinceGrant'[k] = IF sinceGrant[k] > TTL THEN sinceGrant[k] ELSE sinceGrant[k] + 1
  BY DEF Tick, Elapse, Cache!Tick, Cache!Elapse, Cache!Older
<1>3. \A k \in Keys : sinceGrant'[k] \in 0 .. TTL + 1 /\ sinceGrant'[k] <= sinceGrant[k] + 1
  BY <1>1, <1>2, ServiceConstants
<1> QED BY <1>1, <1>3 DEF Tick, Elapse, Cache!Tick, Cache!Elapse, Owns

(* Owners stay as old as the last grant, and rivals are told from others.      *)
LEMMA RivalNext == IInv /\ RivalInv /\ [Next]_vars => RivalInv'
<1> SUFFICES ASSUME IInv, RivalInv, [Next]_vars PROVE RivalInv'
  OBVIOUS
<1>1. CASE Quiet /\ Timeless
  <2>1. \A t \in Slots : Owns(t)' => Owns(t) /\ Key(t)' = Key(t)
    BY <1>1 DEF Quiet, Key
  <2> QED BY <1>1, <2>1 DEF RivalInv, Quiet, Timeless
<1>2. CASE Tick
  <2>1. \A t \in Slots : (Owns(t)' <=> Owns(t)) /\ Key(t)' = Key(t)
    BY <1>2, TickStep DEF Owns, Key
  <2>2. ASSUME NEW t \in Slots, Owns(t) PROVE held'[t] >= sinceGrant'[Key(t)]
    <3>1. held[t] \in Nat /\ held[t] >= sinceGrant[Key(t)] /\ Key(t) \in Keys
      BY <2>2, OwnerHasKey DEF IInv, TypeOK, Cache!TypeOK, RivalInv
    <3> QED BY <1>2, <2>2, <3>1, TickStep, ServiceConstants
  <2> QED BY <1>2, <2>1, <2>2, TickStep DEF RivalInv
<1>3. ASSUME NEW t \in Slots, Win(t) PROVE RivalInv'
  <2> DEFINE k == Key(t)
  <2>1. /\ pc' = [pc EXCEPT ![t] = "owner"] /\ k \in Keys
        /\ sinceGrant' = [sinceGrant EXCEPT ![k] = 0]
        /\ UNCHANGED <<held, req>>
        /\ \A j \in Keys : j # k => (j \in relapsed' <=> j \in relapsed)
    BY <1>3, WinStep
  <2>2. \A u \in Slots : Key(u)' = Key(u) /\ (u # t => (Owns(u)' <=> Owns(u)))
    BY <2>1 DEF IInv, TypeOK, Cache!TypeOK, Owns, Key
  <2>3. ASSUME NEW u \in Slots, Owns(u)' PROVE held'[u] >= sinceGrant'[Key(u)]
    <3>1. held[u] \in Nat
      BY DEF IInv, TypeOK, Cache!TypeOK
    <3>2. CASE Key(u) = k
      BY <2>1, <3>1, <3>2 DEF IInv, TypeOK, Cache!TypeOK
    <3>3. CASE Key(u) # k
      <4>1. Owns(u)
        BY <2>2, <2>3, <3>3
      <4>2. Key(u) \in Keys
        BY <4>1, OwnerHasKey
      <4> QED BY <2>1, <3>3, <4>1, <4>2 DEF RivalInv, IInv, TypeOK, Cache!TypeOK
    <3> QED BY <3>2, <3>3
  <2>4. ASSUME NEW u \in Slots, NEW w \in Slots, u # w, Owns(u)', Owns(w)', Key(u) = Key(w)
        PROVE  Key(u) \in relapsed'
    <3>1. CASE Key(u) = k
      <4>1. Owns(u) \/ Owns(w)
        BY <2>2, <2>4
      <4> QED BY <1>3, <2>4, <3>1, <4>1, GrantedKeyIsFree
    <3>2. CASE Key(u) # k
      <4>1. Owns(u) /\ Owns(w) /\ Key(u) \in Keys
        BY <2>2, <2>4, <3>2, OwnerHasKey
      <4> QED BY <2>1, <2>4, <3>2, <4>1 DEF RivalInv
    <3> QED BY <3>1, <3>2
  <2> QED BY <2>2, <2>3, <2>4 DEF RivalInv
<1> QED BY <1>1, <1>2, <1>3, ServiceStep DEF IInv

LEMMA EffectInit == Init => EffectInv
  BY ServiceConstants DEF Init, Cache!Init, EffectInv

(* Only Reserve starts an action, and only Win makes a slot decide.            *)
LEMMA EffectStep ==
  ASSUME IInv, [Next]_vars
  PROVE  \/ Tick
         \/ \E t \in Slots : Win(t)
         \/ \E t \in Slots : Reserve(t)
         \/ /\ UNCHANGED <<sinceEffect, relapsed, sinceGrant>>
            /\ \A t \in Slots : phase'[t] = "deciding" => phase[t] = "deciding" /\ req'[t] = req[t]
<1> DEFINE Idles == /\ UNCHANGED <<sinceEffect, relapsed, sinceGrant>>
                    /\ \A t \in Slots : phase'[t] = "deciding" => phase[t] = "deciding" /\ req'[t] = req[t]
<1>1. ASSUME NEW t \in Slots, Leave(t), UNCHANGED <<sinceEffect, relapsed, sinceGrant>> PROVE Idles
  BY <1>1 DEF IInv, TypeOK, Leave, Goto
<1>2. ASSUME NEW t \in Slots, NEW p \in Phases \ {"deciding"}, Goto(t, p),
             \A u \in Slots \ {t} : req'[u] = req[u],
             UNCHANGED <<sinceEffect, relapsed, sinceGrant>>
      PROVE  Idles
  BY <1>2 DEF IInv, TypeOK, Goto
<1>3. ASSUME NEW t \in Slots, NEW q \in Requests, Arrive(t, q) PROVE Idles
  BY <1>2, <1>3 DEF IInv, TypeOK, Arrive, Phases, history, cacheVars
<1>4. ASSUME NEW t \in Slots,
             \/ Admit(t) \/ Check(t) \/ Decide(t) \/ RecordProof(t)
             \/ FileActionEnds(t) \/ NetActionEnds(t) \/ NetActionTimesOut(t)
      PROVE  Idles
  BY <1>2, <1>4
  DEF Admit, Check, Decide, RecordProof, FileActionEnds, NetActionEnds, NetActionTimesOut,
      ActionEnds, Cache!CheckPurge, Cache!history, Phases, history, cacheVars
<1>5. ASSUME NEW t \in Slots,
             GateRejects(t) \/ Drop(t) \/ AnswerFromCache(t) \/ BadJson(t) \/ Commit(t)
      PROVE  Idles
  BY <1>1, <1>5
  DEF GateRejects, Drop, AnswerFromCache, BadJson, Commit, history, cacheVars, Cache!Abandon,
      Cache!EntryInFlight, Cache!EntryCached, Cache!FullRemove, Cache!Complete
<1>6. ASSUME NEW t \in Slots, Snapshot(t) \/ FindFull(t) PROVE Idles
  BY <1>6 DEF Snapshot, FindFull, slotVars, history, Cache!CheckLen, Cache!EntryFull, Cache!history
<1>7. CASE UNCHANGED vars
  BY <1>7 DEF vars, slotVars, history, cacheVars
<1> QED BY <1>3, <1>4, <1>5, <1>6, <1>7 DEF Next, Handle, HangUp, DeadlineFires
(* What starts is a TTL away from what was started before, or was granted     *)
(* again after a removal.                                                     *)
LEMMA EffectNext == IInv /\ RivalInv /\ EffectInv /\ [Next]_vars => EffectInv'
<1> SUFFICES ASSUME IInv, RivalInv, EffectInv, [Next]_vars PROVE EffectInv'
  OBVIOUS
<1>0. \A k \in Keys : sinceEffect[k] \in 0 .. TTL /\ sinceGrant[k] \in 0 .. TTL + 1
  BY DEF IInv, TypeOK, Cache!TypeOK, Cache!Age
<1>a. \A t \in Slots : phase[t] = "deciding" => Owns(t) /\ Key(t) \in Keys
  BY OwnerHasKey DEF IInv, Links, LinkAt, Owning, Owns
<1>1. CASE Tick
  <2>1. \A t \in Slots : phase'[t] # "deciding"
    BY <1>1, TickStep
  <2>2. ASSUME NEW k \in Keys PROVE sinceEffect'[k] >= sinceGrant'[k] \/ sinceEffect'[k] = TTL
    <3>1. sinceEffect[k] >= sinceGrant[k] \/ sinceEffect[k] = TTL
      BY DEF EffectInv
    <3>2. sinceEffect'[k] = IF sinceEffect[k] < TTL THEN sinceEffect[k] + 1 ELSE TTL
      BY <1>1, TickStep
    <3>3. sinceGrant'[k] \in 0 .. TTL + 1 /\ sinceGrant'[k] <= sinceGrant[k] + 1
      BY <1>1, TickStep
    <3> QED BY <1>0, <3>1, <3>2, <3>3, ServiceConstants
  <2> QED BY <2>1, <2>2 DEF EffectInv
<1>2. ASSUME NEW t \in Slots, Win(t) PROVE EffectInv'
  <2> DEFINE k == Key(t)
  <2>1. /\ k \in Keys
        /\ phase' = [phase EXCEPT ![t] = "deciding"]
        /\ sinceGrant' = [sinceGrant EXCEPT ![k] = 0]
        /\ UNCHANGED <<req, sinceEffect>>
        /\ \A j \in Keys : j # k => (j \in relapsed' <=> j \in relapsed)
        /\ k \in relapsed' \/ sinceGrant[k] >= TTL
    BY <1>2, WinStep
  <2>2. sinceGrant'[k] = 0 /\ \A j \in Keys : j # k => sinceGrant'[j] = sinceGrant[j]
    BY <2>1 DEF IInv, TypeOK, Cache!TypeOK
  <2>3. ASSUME NEW j \in Keys PROVE sinceEffect[j] >= sinceGrant'[j] \/ sinceEffect[j] = TTL
    BY <1>0, <2>2 DEF EffectInv
  <2>4. sinceEffect[k] = TTL \/ k \in relapsed'
    BY <1>0, <2>1, ServiceConstants DEF EffectInv
  <2>5. ASSUME NEW u \in Slots, phase'[u] = "deciding"
        PROVE  /\ sinceGrant'[Key(u)] = 0
               /\ sinceEffect[Key(u)] = TTL \/ Key(u) \in relapsed'
    <3>1. CASE u = t
      BY <2>2, <2>4, <3>1
    <3>2. CASE u # t
      <4>1. phase[u] = "deciding" /\ Key(u) \in Keys
        BY <1>a, <2>1, <2>5, <3>2 DEF IInv, TypeOK
      <4>2. CASE Key(u) = k
        BY <2>2, <2>4, <4>2
      <4>3. CASE Key(u) # k
        BY <2>1, <2>2, <4>1, <4>3 DEF EffectInv
      <4> QED BY <4>2, <4>3
    <3> QED BY <3>1, <3>2
  <2> QED BY <2>1, <2>3, <2>5 DEF EffectInv, Key
<1>3. ASSUME NEW t \in Slots, Reserve(t) PROVE EffectInv'
  <2> DEFINE k == Key(t)
  <2>1. phase[t] = "deciding" /\ Owns(t) /\ k \in Keys
    BY <1>3, <1>a DEF Reserve
  <2>2. PICK p \in {"blocking", "awaiting"} : phase' = [phase EXCEPT ![t] = p]
    BY <1>3 DEF Reserve, Goto
  <2>3. /\ sinceEffect' = [sinceEffect EXCEPT ![k] = 0]
        /\ UNCHANGED <<req, sinceGrant, relapsed>>
    BY <1>3 DEF Reserve, Key, cacheVars
  <2>4. sinceEffect'[k] = 0 /\ \A j \in Keys : j # k => sinceEffect'[j] = sinceEffect[j]
    BY <2>1, <2>3 DEF IInv, TypeOK
  <2>5. ASSUME NEW j \in Keys PROVE sinceEffect'[j] >= sinceGrant[j] \/ sinceEffect'[j] = TTL
    BY <2>1, <2>4 DEF EffectInv
  <2>6. ASSUME NEW u \in Slots, phase'[u] = "deciding"
        PROVE  /\ sinceGrant[Key(u)] = 0
               /\ sinceEffect'[Key(u)] = TTL \/ Key(u) \in relapsed
    <3>1. u # t /\ phase[u] = "deciding"
      BY <2>2, <2>6 DEF IInv, TypeOK
    <3>2. Owns(u) /\ Key(u) \in Keys
      BY <1>a, <3>1
    <3>3. CASE Key(u) = k
      <4>1. k \in relapsed
        BY <2>1, <3>1, <3>2, <3>3 DEF RivalInv
      <4> QED BY <3>1, <3>3, <4>1 DEF EffectInv
    <3>4. CASE Key(u) # k
      BY <2>4, <3>1, <3>2, <3>4 DEF EffectInv
    <3> QED BY <3>3, <3>4
  <2> QED BY <2>3, <2>5, <2>6 DEF EffectInv, Key
<1>4. CASE /\ UNCHANGED <<sinceEffect, relapsed, sinceGrant>>
           /\ \A t \in Slots : phase'[t] = "deciding" => phase[t] = "deciding" /\ req'[t] = req[t]
  BY <1>4 DEF EffectInv, Key
<1> QED BY <1>1, <1>2, <1>3, <1>4, EffectStep

LEMMA RivalsCorrect == Spec => []RivalInv
  BY RivalInit, RivalNext, IInvCorrect, PTL DEF Spec

(* At most once, for any number of requests and keys and any timing: two      *)
(* actions on one key start at least the TTL apart, unless the key was        *)
(* granted again after a Full path had removed its entry.                     *)
THEOREM ServiceActsOnce == Spec => EffectsSpaced
<1>1. EffectInv /\ [Next]_vars =>
        [\A t \in Slots : Reserve(t) =>
            sinceEffect[Key(t)] >= TTL \/ Key(t) \in relapsed]_vars
  <2> SUFFICES ASSUME EffectInv, NEW t \in Slots, Reserve(t)
               PROVE  sinceEffect[Key(t)] >= TTL \/ Key(t) \in relapsed
    OBVIOUS
  <2>1. phase[t] = "deciding"
    BY DEF Reserve
  <2> QED BY <2>1, ServiceConstants DEF EffectInv
<1> QED BY <1>1, EffectInit, EffectNext, RivalsCorrect, IInvCorrect, PTL DEF Spec, EffectsSpaced
-----------------------------------------------------------------------------
(* What an owner finds is in flight, what was answered is what is stored, and *)
(* what is about to be stored has its proof record.                           *)
OwnersFindInFlight ==
    \A t \in Slots : Owns(t) /\ Key(t) \notin relapsed /\ entries[Key(t)] # Absent =>
        entries[Key(t)].inFlight

AckedIsStored ==
    \A k \in Keys : acked[k] # NoResult /\ entries[k] # Absent =>
        ~entries[k].inFlight /\ entries[k].result = acked[k]

CommitsAreProved ==
    \A t \in Slots : phase[t] = "committing" /\ Key(t) \notin relapsed =>
        proved[Key(t)] = Verdict(outcome[t])

AnswerInv ==
    /\ OwnersFindInFlight
    /\ AckedIsStored
    /\ CommitsAreProved
    /\ ProofPrecedesReplay

(* What all steps do to an entry but a grant and complete: it goes, or stays   *)
(* as it is but for its age.                                                  *)
Kept(k) ==
    entries'[k] # Absent =>
        /\ entries[k] # Absent
        /\ entries'[k].inFlight = entries[k].inFlight
        /\ entries'[k].result = entries[k].result

Calm ==
    /\ \A k \in Keys : Kept(k)
    /\ UNCHANGED <<acked, proved, relapsed>>
    /\ \A t \in Slots : Owns(t)' => Owns(t) /\ req'[t] = req[t]
    /\ \A t \in Slots : phase'[t] = "committing" =>
          phase[t] = "committing" /\ req'[t] = req[t] /\ outcome'[t] = outcome[t]

LEMMA AnswerInit == Init => AnswerInv
  BY DEF Init, Cache!Init, AnswerInv, OwnersFindInFlight, AckedIsStored, CommitsAreProved,
         ProofPrecedesReplay, Cache!Done, Owns

LEMMA CalmKeepsAnswers == IInv /\ AnswerInv /\ Calm => AnswerInv'
<1> SUFFICES ASSUME IInv, AnswerInv, Calm PROVE AnswerInv'
  OBVIOUS
<1>1. OwnersFindInFlight'
  <2> SUFFICES ASSUME NEW t \in Slots, Owns(t)', Key(t)' \notin relapsed', entries'[Key(t)'] # Absent
               PROVE  entries'[Key(t)'].inFlight
    BY DEF OwnersFindInFlight
  <2>1. Owns(t) /\ Key(t)' = Key(t) /\ Key(t) \in Keys
    BY OwnerHasKey DEF Calm, Key
  <2> QED BY <2>1 DEF AnswerInv, OwnersFindInFlight, Calm, Kept
<1>2. AckedIsStored'
  BY DEF AnswerInv, AckedIsStored, Calm, Kept
<1>3. CommitsAreProved'
  BY DEF AnswerInv, CommitsAreProved, Calm, Key
<1>4. ProofPrecedesReplay'
  BY DEF AnswerInv, ProofPrecedesReplay, Calm, Kept, Cache!Done
<1> QED BY <1>1, <1>2, <1>3, <1>4 DEF AnswerInv

(* Every step is calm, or one of three.                                       *)
LEMMA AnswerStep ==
  ASSUME IInv, [Next]_vars
  PROVE  \/ Calm
         \/ \E t \in Slots : Win(t) \/ RecordProof(t) \/ BadJson(t) \/ Commit(t)
<1> USE DEF IInv, TypeOK, Cache!TypeOK
<1>1. ASSUME UNCHANGED entries PROVE \A k \in Keys : Kept(k)
  BY <1>1 DEF Kept
<1>2. ASSUME NEW t \in Slots, Leave(t), \A k \in Keys : Kept(k),
             UNCHANGED <<acked, proved, relapsed>>,
             \A u \in Slots : Owns(u)' => Owns(u) /\ u # t
      PROVE  Calm
  BY <1>2 DEF Leave, Goto, Calm
<1>3. ASSUME NEW t \in Slots, NEW p \in Phases \ {"committing"}, Goto(t, p),
             \A k \in Keys : Kept(k),
             UNCHANGED <<acked, proved, relapsed>>,
             \A u \in Slots \ {t} : req'[u] = req[u] /\ outcome'[u] = outcome[u],
             \A u \in Slots : Owns(u)' => Owns(u) /\ req'[u] = req[u]
      PROVE  Calm
  BY <1>3 DEF Goto, Calm
<1>4. CASE Tick
  <2>1. \A k \in Keys : Kept(k)
    <3> SUFFICES ASSUME NEW k \in Keys, entries[k] # Absent
                 PROVE  entries'[k].inFlight = entries[k].inFlight /\ entries'[k].result = entries[k].result
      BY <1>4 DEF Tick, Elapse, Cache!Tick, Cache!Elapse, Kept
    <3>1. entries'[k] = Cache!Aged(entries[k])
      BY <1>4 DEF Tick, Elapse, Cache!Tick, Cache!Elapse
    <3> QED BY <3>1 DEF Cache!Aged
  <2> QED BY <1>4, <2>1 DEF Tick, Elapse, Cache!Tick, Cache!Elapse, Calm, Owns
<1>5. ASSUME NEW t \in Slots, NEW q \in Requests, Arrive(t, q) PROVE Calm
  <2>1. ~Owns(t)
    BY <1>5 DEF Arrive, Links, LinkAt, Owns
  <2>2. req' = [req EXCEPT ![t] = q] /\ UNCHANGED <<outcome, cacheVars, proved, history>>
    BY <1>5 DEF Arrive
  <2>3. \A u \in Slots : Owns(u)' => Owns(u) /\ req'[u] = req[u]
    BY <2>1, <2>2 DEF Owns, cacheVars
  <2> QED BY <1>1, <1>3, <1>5, <2>2, <2>3 DEF Arrive, Phases, cacheVars, history
<1>6. ASSUME NEW t \in Slots,
             Admit(t) \/ Reserve(t) \/ Decide(t) \/ FileActionEnds(t) \/ NetActionEnds(t)
             \/ NetActionTimesOut(t)
      PROVE  Calm
  <2>1. /\ UNCHANGED <<cacheVars, req, proved, acked, relapsed>>
        /\ \A u \in Slots \ {t} : outcome'[u] = outcome[u]
        /\ \E p \in Phases \ {"committing"} : Goto(t, p)
    BY <1>6 DEF Admit, Reserve, Decide, FileActionEnds, NetActionEnds, NetActionTimesOut,
                ActionEnds, Phases, history
  <2> QED BY <1>1, <1>3, <2>1 DEF cacheVars, Owns
<1>7. ASSUME NEW t \in Slots, GateRejects(t) \/ (Drop(t) /\ phase[t] \in Awaits) PROVE Calm
  <2>1. Leave(t) /\ UNCHANGED <<acked, proved, relapsed>>
    BY <1>7 DEF GateRejects, Drop, history
  <2>2. (UNCHANGED cacheVars /\ pc[t] = "out") \/ Cache!Abandon(t)
    BY <1>7 DEF GateRejects, Drop, Awaits, Links, LinkAt
  <2>3. UNCHANGED entries /\ \A u \in Slots : Owns(u)' => Owns(u) /\ u # t
    BY <2>2 DEF cacheVars, Cache!Abandon, Cache!Leave, Owns
  <2> QED BY <1>1, <1>2, <2>1, <2>3
<1>8. ASSUME NEW t \in Slots, AnswerFromCache(t) PROVE Calm
  <2>1. Leave(t) /\ UNCHANGED <<acked, proved, relapsed>>
    BY <1>8 DEF AnswerFromCache, history
  <2>2. \A k \in Keys : entries'[k] = entries[k] \/ entries'[k] = Absent
    BY <1>8 DEF AnswerFromCache, Cache!EntryInFlight, Cache!EntryCached, Cache!FullRemove
  <2>3. \A u \in Slots : Owns(u)' => Owns(u) /\ u # t
    BY <1>8 DEF AnswerFromCache, Cache!EntryInFlight, Cache!EntryCached, Cache!FullRemove,
                Cache!Leave, Owns
  <2>4. \A k \in Keys : Kept(k)
    BY <2>2 DEF Kept
  <2> QED BY <1>2, <2>1, <2>3, <2>4
<1>9. ASSUME NEW t \in Slots, Check(t) PROVE Calm
  <2>1. Goto(t, "checking") /\ UNCHANGED <<req, outcome, acked, proved, relapsed>>
    BY <1>9 DEF Check, history
  <2>2. \A k \in Keys : entries'[k] = entries[k] \/ entries'[k] = Absent
    BY <1>9 DEF Check, Cache!CheckPurge, Cache!PurgeExpired
  <2>3. \A u \in Slots : Owns(u)' => Owns(u)
    BY <1>9 DEF Check, Cache!CheckPurge, Owns
  <2>4. \A k \in Keys : Kept(k)
    BY <2>2 DEF Kept
  <2> QED BY <1>3, <2>1, <2>3, <2>4 DEF Phases
<1>10. ASSUME NEW t \in Slots, Snapshot(t) \/ FindFull(t) PROVE Calm
  <2>1. UNCHANGED <<phase, req, outcome, acked, proved, relapsed, entries>>
    BY <1>10 DEF Snapshot, FindFull, slotVars, history, Cache!CheckLen, Cache!EntryFull
  <2>2. \A u \in Slots : Owns(u)' => Owns(u)
    BY <1>10 DEF Snapshot, FindFull, Cache!CheckLen, Cache!EntryFull, Owns
  <2> QED BY <1>1, <2>1, <2>2 DEF Calm
<1>11. CASE UNCHANGED vars
  BY <1>1, <1>11 DEF vars, slotVars, history, cacheVars, Calm, Owns
<1> QED BY <1>4, <1>5, <1>6, <1>7, <1>8, <1>9, <1>10, <1>11
        DEF Next, Handle, HangUp, DeadlineFires, Timed, Awaits
(* A grant starts over: a fresh entry, no answer, no record.                  *)
LEMMA WinKeepsAnswers ==
  ASSUME IInv, RivalInv, AnswerInv, NEW t \in Slots, Win(t)
  PROVE  AnswerInv'
<1> DEFINE k == Key(t)
<1>1. /\ k \in Keys
      /\ phase' = [phase EXCEPT ![t] = "deciding"]
      /\ pc' = [pc EXCEPT ![t] = "owner"]
      /\ UNCHANGED <<req, outcome>>
      /\ entries' = [entries EXCEPT ![k] = Cache!FreshEntry]
      /\ acked' = [acked EXCEPT ![k] = NoResult]
      /\ proved' = [proved EXCEPT ![k] = "none"]
      /\ \A j \in Keys : j # k => (j \in relapsed' <=> j \in relapsed)
  BY WinStep DEF Win
<1>2. entries'[k].inFlight /\ acked'[k] = NoResult
  BY <1>1 DEF IInv, TypeOK, Cache!TypeOK, Cache!FreshEntry
<1>3. \A j \in Keys : j # k =>
        entries'[j] = entries[j] /\ acked'[j] = acked[j] /\ proved'[j] = proved[j]
  BY <1>1 DEF IInv, TypeOK, Cache!TypeOK
<1>4. \A u \in Slots : Key(u)' = Key(u) /\ (u # t => (Owns(u)' <=> Owns(u)) /\ phase'[u] = phase[u])
  BY <1>1 DEF IInv, TypeOK, Cache!TypeOK, Key, Owns
<1>5. phase'[t] = "deciding"
  BY <1>1 DEF IInv, TypeOK
<1>6. OwnersFindInFlight'
  <2> SUFFICES ASSUME NEW u \in Slots, Owns(u)', Key(u) \notin relapsed', entries'[Key(u)] # Absent
               PROVE  entries'[Key(u)].inFlight
    BY <1>4 DEF OwnersFindInFlight
  <2>1. CASE Key(u) = k
    BY <1>2, <2>1
  <2>2. CASE Key(u) # k
    <3>1. Owns(u) /\ Key(u) \in Keys
      BY <1>4, <2>2, OwnerHasKey
    <3> QED BY <1>1, <1>3, <2>2, <3>1 DEF AnswerInv, OwnersFindInFlight
  <2> QED BY <2>1, <2>2
<1>7. AckedIsStored'
  BY <1>2, <1>3 DEF AnswerInv, AckedIsStored
<1>8. CommitsAreProved'
  <2> SUFFICES ASSUME NEW u \in Slots, phase'[u] = "committing", Key(u) \notin relapsed'
               PROVE  proved'[Key(u)] = Verdict(outcome[u])
    BY <1>1, <1>4 DEF CommitsAreProved
  <2>1. u # t /\ phase[u] = "committing"
    BY <1>4, <1>5
  <2>2. Owns(u) /\ Key(u) \in Keys
    BY <2>1, OwnerHasKey DEF IInv, Links, LinkAt, Owning, Owns
  <2>3. Key(u) # k
    BY <2>2, GrantedKeyIsFree
  <2> QED BY <1>1, <1>3, <2>1, <2>2, <2>3 DEF AnswerInv, CommitsAreProved
<1>9. ProofPrecedesReplay'
  <2> SUFFICES ASSUME NEW j \in Keys, j \notin relapsed', Cache!Done(j)',
                      entries'[j].result # "bad request"
               PROVE  proved'[j] = Verdict(entries'[j].result)
    BY DEF ProofPrecedesReplay
  <2>1. j # k
    BY <1>2 DEF Cache!Done
  <2> QED BY <1>1, <1>3, <2>1 DEF AnswerInv, ProofPrecedesReplay, Cache!Done
<1> QED BY <1>6, <1>7, <1>8, <1>9 DEF AnswerInv

(* A record is made before any answer is stored, its own rivals aside.        *)
LEMMA RecordKeepsAnswers ==
  ASSUME IInv, RivalInv, AnswerInv, NEW t \in Slots, RecordProof(t)
  PROVE  AnswerInv'
<1> DEFINE k == Key(t)
<1>1. /\ phase[t] = "recording" /\ phase' = [phase EXCEPT ![t] = "committing"]
      /\ proved' = [proved EXCEPT ![k] = Verdict(outcome[t])]
      /\ UNCHANGED <<req, outcome, pc, entries, acked, relapsed>>
  BY DEF RecordProof, Goto, cacheVars, history
<1>2. Owns(t) /\ k \in Keys
  BY <1>1, OwnerHasKey DEF IInv, Links, LinkAt, Owning, Owns
<1>3. proved'[k] = Verdict(outcome[t]) /\ \A j \in Keys : j # k => proved'[j] = proved[j]
  BY <1>1, <1>2 DEF IInv, TypeOK
<1>4. OwnersFindInFlight' /\ AckedIsStored'
  BY <1>1 DEF AnswerInv, OwnersFindInFlight, AckedIsStored, Owns, Key
<1>5. CommitsAreProved'
  <2> SUFFICES ASSUME NEW u \in Slots, phase'[u] = "committing", Key(u) \notin relapsed
               PROVE  proved'[Key(u)] = Verdict(outcome[u])
    BY <1>1 DEF CommitsAreProved, Key
  <2>1. CASE u = t
    BY <1>3, <2>1
  <2>2. CASE u # t
    <3>1. phase[u] = "committing"
      BY <1>1, <2>2 DEF IInv, TypeOK
    <3>2. Owns(u) /\ Key(u) \in Keys
      BY <3>1, OwnerHasKey DEF IInv, Links, LinkAt, Owning, Owns
    <3>3. Key(u) # k
      BY <1>2, <2>2, <3>2 DEF RivalInv
    <3> QED BY <1>3, <3>1, <3>2, <3>3 DEF AnswerInv, CommitsAreProved
  <2> QED BY <2>1, <2>2
<1>6. ProofPrecedesReplay'
  <2> SUFFICES ASSUME NEW j \in Keys, j \notin relapsed, Cache!Done(j),
                      entries[j].result # "bad request"
               PROVE  proved'[j] = Verdict(entries[j].result)
    BY <1>1 DEF ProofPrecedesReplay, Cache!Done
  <2>1. j # k
    BY <1>2 DEF AnswerInv, OwnersFindInFlight, Cache!Done
  <2> QED BY <1>3, <2>1 DEF AnswerInv, ProofPrecedesReplay
<1> QED BY <1>4, <1>5, <1>6 DEF AnswerInv

(* What complete stores is what is answered.                                  *)
LEMMA CommitKeepsAnswers ==
  ASSUME IInv, RivalInv, AnswerInv, NEW t \in Slots, BadJson(t) \/ Commit(t)
  PROVE  AnswerInv'
<1> DEFINE k == Key(t)
<1>1. PICK r \in Results :
        /\ Cache!Complete(t, r)
        /\ acked' = [acked EXCEPT ![k] = r]
        /\ r = "bad request" \/ (phase[t] = "committing" /\ r = outcome[t])
  BY DEF BadJson, Commit, IInv, Links, LinkAt, Results
<1>2. Owns(t) /\ k \in Keys /\ taskKey[t] = k
  BY <1>1, OwnerHasKey DEF Cache!Complete, IInv, Links, LinkAt, Owns
<1>3. Leave(t) /\ UNCHANGED <<proved, relapsed>>
  BY DEF BadJson, Commit
<1>4. acked'[k] = r /\ \A j \in Keys : j # k => acked'[j] = acked[j] /\ entries'[j] = entries[j]
  BY <1>1, <1>2 DEF IInv, TypeOK, Cache!TypeOK, Cache!Complete
<1>5. entries'[k] # Absent => entries'[k].result = r /\ ~entries'[k].inFlight
  BY <1>1, <1>2 DEF IInv, TypeOK, Cache!TypeOK, Cache!Complete, Cache!Filled
<1>6. \A u \in Slots : Owns(u)' => u # t /\ Owns(u) /\ Key(u)' = Key(u)
  BY <1>1, <1>3 DEF IInv, TypeOK, Cache!TypeOK, Cache!Complete, Cache!Leave, Leave, Owns, Key
<1>7. OwnersFindInFlight'
  <2> SUFFICES ASSUME NEW u \in Slots, Owns(u)', Key(u) \notin relapsed, entries'[Key(u)] # Absent
               PROVE  entries'[Key(u)].inFlight
    BY <1>3, <1>6 DEF OwnersFindInFlight
  <2>1. u # t /\ Owns(u) /\ Key(u) \in Keys
    BY <1>6, OwnerHasKey
  <2>2. Key(u) # k
    BY <1>2, <2>1 DEF RivalInv
  <2> QED BY <1>4, <2>1, <2>2 DEF AnswerInv, OwnersFindInFlight
<1>8. AckedIsStored'
  BY <1>4, <1>5 DEF AnswerInv, AckedIsStored
<1>9. CommitsAreProved'
  <2> SUFFICES ASSUME NEW u \in Slots, phase'[u] = "committing", Key(u)' \notin relapsed
               PROVE  proved[Key(u)'] = Verdict(outcome'[u])
    BY <1>3 DEF CommitsAreProved
  <2>1. u # t /\ phase[u] = "committing" /\ Key(u)' = Key(u) /\ outcome'[u] = outcome[u]
    BY <1>3 DEF IInv, TypeOK, Leave, Goto, Key
  <2> QED BY <2>1 DEF AnswerInv, CommitsAreProved
<1>10. ProofPrecedesReplay'
  <2> SUFFICES ASSUME NEW j \in Keys, j \notin relapsed, Cache!Done(j)',
                      entries'[j].result # "bad request"
               PROVE  proved[j] = Verdict(entries'[j].result)
    BY <1>3 DEF ProofPrecedesReplay
  <2>1. CASE j = k
    <3>1. entries'[k].result = outcome[t] /\ phase[t] = "committing"
      BY <1>1, <1>5, <2>1 DEF Cache!Done
    <3> QED BY <2>1, <3>1 DEF AnswerInv, CommitsAreProved
  <2>2. CASE j # k
    BY <1>4, <2>2 DEF AnswerInv, ProofPrecedesReplay, Cache!Done
  <2> QED BY <2>1, <2>2
<1> QED BY <1>7, <1>8, <1>9, <1>10 DEF AnswerInv

LEMMA AnswersCorrect == Spec => []AnswerInv
<1>1. IInv /\ RivalInv /\ AnswerInv /\ [Next]_vars => AnswerInv'
  BY AnswerStep, CalmKeepsAnswers, WinKeepsAnswers, RecordKeepsAnswers, CommitKeepsAnswers
<1> QED BY <1>1, AnswerInit, RivalsCorrect, IInvCorrect, PTL DEF Spec

(* Whoever reads a stored answer finds its proof record there, with the        *)
(* verdict that the answer tells, for any requests in any order.              *)
THEOREM ServiceProvesFirst == Spec => []ProofPrecedesReplay
<1>1. AnswerInv => ProofPrecedesReplay
  BY DEF AnswerInv
<1> QED BY <1>1, AnswersCorrect, PTL

(* What a client has been answered, a retry within the TTL is answered too,    *)
(* unless a Full path removed the entry.                                      *)
THEOREM ServiceReplays == Spec => []AckedIsReplayable
<1>1. IInv /\ AnswerInv => AckedIsReplayable
  <2> SUFFICES ASSUME IInv, AnswerInv, NEW k \in Keys \ lost,
                      acked[k] # NoResult, sinceGrant[k] < TTL
               PROVE  Cache!Done(k) /\ entries[k].result = acked[k]
    BY DEF AckedIsReplayable
  <2>1. sinceGrant[k] \in 0 .. TTL + 1
    BY DEF IInv, TypeOK, Cache!TypeOK, Cache!Age
  <2>2. entries[k] # Absent
    BY <2>1, ServiceConstants DEF IInv, Proved!GrantInv
  <2> QED BY <2>2 DEF AnswerInv, AckedIsStored, Cache!Done
<1> QED BY <1>1, AnswersCorrect, IInvCorrect, PTL
-----------------------------------------------------------------------------
(* Whether an action on a key was started since its grant, told while the      *)
(* clocks of both run.  An owner that is no rival's has not been answered; it  *)
(* has started its action when it runs one, and what it is about to answer    *)
(* says whether it has.                                                       *)
Acts == {"authorized", "failed"}
Begun(k) == sinceEffect[k] <= sinceGrant[k]

OwnerTells(t) ==
    /\ acked[Key(t)] = NoResult
    /\ phase[t] \in {"blocking", "awaiting"} => Begun(Key(t))
    /\ phase[t] \in {"recording", "committing"} => (outcome[t] \in Acts <=> Begun(Key(t)))

OwnersTell == \A t \in Slots : Owns(t) /\ Key(t) \notin relapsed => OwnerTells(t)

TellInv == OwnersTell /\ AnswersTellEffects

(* An owner stays where it is, with what it has.                              *)
Rests(t) == /\ Owns(t) /\ req'[t] = req[t] /\ outcome'[t] = outcome[t]
            /\ phase'[t] = phase[t] \/ (phase[t] = "recording" /\ phase'[t] = "committing")

(* Steps that change no answer and no time: the owners rest, all but one that *)
(* may end its action or decide against it.                                   *)
Steady == UNCHANGED <<sinceEffect, sinceGrant, relapsed, acked>>

Ends(t) ==
    /\ Owns(t) /\ req'[t] = req[t] /\ phase'[t] = "recording"
    /\ \/ phase[t] \in {"blocking", "awaiting"} /\ outcome'[t] \in Acts
       \/ phase[t] = "deciding" /\ outcome'[t] \notin Acts

Hushed == Steady /\ \A t \in Slots : Owns(t)' => Rests(t) \/ Ends(t)

LEMMA TellInit == Init => TellInv
  BY DEF Init, Cache!Init, TellInv, OwnersTell, AnswersTellEffects, Owns

(* An owner that decides has not begun.                                       *)
LEMMA DecidingHasNotBegun ==
  ASSUME IInv, EffectInv, NEW t \in Slots, phase[t] = "deciding", Key(t) \notin relapsed
  PROVE  ~Begun(Key(t))
  BY ServiceConstants DEF EffectInv, Begun

LEMMA HushedKeepsTelling == IInv /\ EffectInv /\ TellInv /\ Hushed => TellInv'
<1> SUFFICES ASSUME IInv, EffectInv, TellInv, Hushed PROVE TellInv'
  OBVIOUS
<1>1. \A k \in Keys : Begun(k)' <=> Begun(k)
  BY DEF Hushed, Steady, Begun
<1>2. AnswersTellEffects'
  BY DEF TellInv, AnswersTellEffects, Hushed, Steady
<1>3. ASSUME NEW t \in Slots, Owns(t)', Key(t)' \notin relapsed' PROVE OwnerTells(t)'
  <2>1. Owns(t) /\ Key(t)' = Key(t) /\ Key(t) \in Keys /\ Key(t) \notin relapsed
    BY <1>3, OwnerHasKey DEF Hushed, Steady, Rests, Ends, Key
  <2>2. OwnerTells(t) /\ acked'[Key(t)] = NoResult /\ (Begun(Key(t))' <=> Begun(Key(t)))
    BY <1>1, <2>1 DEF TellInv, OwnersTell, OwnerTells, Hushed, Steady
  <2>3. CASE Rests(t)
    BY <2>1, <2>2, <2>3 DEF OwnerTells, Rests
  <2>4. CASE Ends(t)
    <3>1. phase[t] = "deciding" => ~Begun(Key(t))
      BY <2>1, DecidingHasNotBegun
    <3> QED BY <2>1, <2>2, <2>4, <3>1 DEF OwnerTells, Ends
  <2> QED BY <1>3, <2>3, <2>4 DEF Hushed
<1> QED BY <1>2, <1>3 DEF TellInv, OwnersTell

(* Every step is hushed, or time, a grant, a start or an answer.               *)
LEMMA TellStep ==
  ASSUME IInv, [Next]_vars
  PROVE  \/ Hushed
         \/ Tick
         \/ \E t \in Slots : Win(t) \/ Reserve(t) \/ BadJson(t) \/ Commit(t)
<1> USE DEF IInv, TypeOK, Cache!TypeOK
<1>1. ASSUME NEW t \in Slots, Leave(t), Steady, \A u \in Slots : Owns(u)' => Owns(u) /\ u # t
      PROVE  Hushed
  BY <1>1 DEF Leave, Goto, Hushed, Rests
<1>2. ASSUME NEW t \in Slots, NEW p, Goto(t, p), Steady,
             \A u \in Slots \ {t} : req'[u] = req[u] /\ outcome'[u] = outcome[u],
             \A u \in Slots : Owns(u)' => Owns(u) /\ (u = t => Rests(t) \/ Ends(t))
      PROVE  Hushed
  BY <1>2 DEF Goto, Hushed, Rests
<1>3. ASSUME NEW t \in Slots, NEW q \in Requests, Arrive(t, q) PROVE Hushed
  <2>1. ~Owns(t)
    BY <1>3 DEF Arrive, Links, LinkAt, Owns
  <2> QED BY <1>2, <1>3, <2>1 DEF Arrive, Steady, Owns, cacheVars, history
<1>4. ASSUME NEW t \in Slots, Admit(t) \/ Check(t) PROVE Hushed
  <2>1. ~Owns(t)
    BY <1>4 DEF Admit, Check, Cache!CheckPurge, Links, LinkAt, Owns
  <2>2. UNCHANGED <<req, outcome>> /\ Steady /\ \A u \in Slots \ {t} : Owns(u)' <=> Owns(u)
    BY <1>4 DEF Admit, Check, Cache!CheckPurge, Cache!history, Steady, Owns, cacheVars, history
  <2>3. ~Owns(t)'
    BY <1>4, <2>1 DEF Admit, Check, Cache!CheckPurge, Owns, cacheVars
  <2> QED BY <1>2, <1>4, <2>2, <2>3 DEF Admit, Check
<1>5. ASSUME NEW t \in Slots, Decide(t) \/ FileActionEnds(t) \/ NetActionEnds(t) \/ NetActionTimesOut(t)
      PROVE  Hushed
  <2>1. /\ UNCHANGED <<req, cacheVars, history>> /\ Goto(t, "recording")
        /\ \A u \in Slots \ {t} : outcome'[u] = outcome[u]
    BY <1>5 DEF Decide, FileActionEnds, NetActionEnds, NetActionTimesOut, ActionEnds
  <2>2. Owns(t)
    BY <1>5 DEF Decide, FileActionEnds, NetActionEnds, NetActionTimesOut, Links, LinkAt, Owning, Owns
  <2>3. \/ phase[t] \in {"blocking", "awaiting"} /\ outcome'[t] \in Acts
        \/ phase[t] = "deciding" /\ outcome'[t] \notin Acts
    BY <1>5 DEF Decide, FileActionEnds, NetActionEnds, NetActionTimesOut, ActionEnds, Acts
  <2>4. Ends(t)
    BY <2>1, <2>2, <2>3 DEF Ends, Goto
  <2> QED BY <1>2, <2>1, <2>4 DEF Steady, Owns, cacheVars, history
<1>6. ASSUME NEW t \in Slots, RecordProof(t) PROVE Hushed
  <2>1. Owns(t) /\ Rests(t)
    BY <1>6 DEF RecordProof, Goto, Links, LinkAt, Owning, Owns, Rests
  <2> QED BY <1>2, <1>6, <2>1 DEF RecordProof, Steady, Owns, cacheVars, history
<1>7. ASSUME NEW t \in Slots, GateRejects(t) \/ (Drop(t) /\ phase[t] \in Awaits) PROVE Hushed
  <2>1. Leave(t) /\ UNCHANGED history
    BY <1>7 DEF GateRejects, Drop
  <2>2. (UNCHANGED cacheVars /\ pc[t] = "out") \/ Cache!Abandon(t)
    BY <1>7 DEF GateRejects, Drop, Awaits, Links, LinkAt
  <2>3. UNCHANGED sinceGrant /\ \A u \in Slots : Owns(u)' => Owns(u) /\ u # t
    BY <2>2 DEF cacheVars, Cache!Abandon, Cache!Leave, Owns
  <2> QED BY <1>1, <2>1, <2>3 DEF Steady, history
<1>8. ASSUME NEW t \in Slots, AnswerFromCache(t) PROVE Hushed
  <2>1. Leave(t) /\ UNCHANGED history
    BY <1>8 DEF AnswerFromCache
  <2>2. UNCHANGED sinceGrant /\ \A u \in Slots : Owns(u)' => Owns(u) /\ u # t
    BY <1>8 DEF AnswerFromCache, Cache!EntryInFlight, Cache!EntryCached, Cache!FullRemove,
                Cache!Leave, Owns
  <2> QED BY <1>1, <2>1, <2>2 DEF Steady, history
<1>9. ASSUME NEW t \in Slots, Snapshot(t) \/ FindFull(t) PROVE Hushed
  <2>1. UNCHANGED <<phase, req, outcome, acked, relapsed, sinceEffect, sinceGrant>>
    BY <1>9 DEF Snapshot, FindFull, slotVars, history, Cache!CheckLen, Cache!EntryFull, Cache!history
  <2>2. \A u \in Slots : Owns(u)' => Owns(u)
    BY <1>9 DEF Snapshot, FindFull, Cache!CheckLen, Cache!EntryFull, Owns
  <2> QED BY <2>1, <2>2 DEF Hushed, Steady, Rests
<1>10. CASE UNCHANGED vars
  BY <1>10 DEF vars, slotVars, history, cacheVars, Hushed, Steady, Rests, Owns
<1> QED BY <1>3, <1>4, <1>5, <1>6, <1>7, <1>8, <1>9, <1>10
        DEF Next, Handle, HangUp, DeadlineFires, Timed, Awaits

(* While an owner is at work, and until an answer's TTL has passed, both clocks *)
(* run alike.                                                                 *)
LEMMA TickKeepsTelling ==
  ASSUME IInv, RivalInv, IInv', RivalInv', TellInv, Tick
  PROVE  TellInv'
<1>1. ASSUME NEW k \in Keys, sinceGrant'[k] < TTL PROVE sinceGrant[k] < TTL /\ (Begun(k)' <=> Begun(k))
  <2>1. sinceGrant[k] \in 0 .. TTL + 1 /\ sinceEffect[k] \in 0 .. TTL
    BY DEF IInv, TypeOK, Cache!TypeOK, Cache!Age
  <2>2. sinceGrant'[k] = IF sinceGrant[k] > TTL THEN sinceGrant[k] ELSE sinceGrant[k] + 1
    BY DEF Tick, Elapse, Cache!Tick, Cache!Elapse, Cache!Older
  <2>3. sinceEffect'[k] = IF sinceEffect[k] < TTL THEN sinceEffect[k] + 1 ELSE TTL
    BY TickStep
  <2>4. TTL \in Nat
    BY ServiceConstants
  <2> QED BY <1>1, <2>1, <2>2, <2>3, <2>4 DEF Begun
<1>2. UNCHANGED <<pc, req, relapsed, phase, acked, outcome>>
  BY TickStep DEF Tick, Elapse
<1>3. AnswersTellEffects'
  <2> SUFFICES ASSUME NEW k \in Keys, k \notin relapsed', acked'[k] # NoResult, sinceGrant'[k] < TTL
               PROVE  acked'[k] \in Acts <=> Begun(k)'
    BY DEF AnswersTellEffects, Acts, Begun
  <2> QED BY <1>1, <1>2 DEF TellInv, AnswersTellEffects, Acts, Begun
<1>4. OwnersTell'
  <2> SUFFICES ASSUME NEW t \in Slots, Owns(t)', Key(t)' \notin relapsed' PROVE OwnerTells(t)'
    BY DEF OwnersTell
  <2>1. Owns(t) /\ Key(t)' = Key(t) /\ Key(t) \in Keys
    BY <1>2, OwnerHasKey DEF Owns, Key
  <2>2. held'[t] >= sinceGrant'[Key(t)] /\ held'[t] \in 0 .. HoldBound /\ sinceGrant'[Key(t)] \in 0 .. TTL + 1
    BY <2>1 DEF RivalInv, IInv, TypeOK, Cache!TypeOK, Cache!Age
  <2>3. sinceGrant'[Key(t)] < TTL
    BY <2>2, HoldsFit, ServiceConstants
  <2> QED BY <1>1, <1>2, <2>1, <2>3 DEF TellInv, OwnersTell, OwnerTells
<1> QED BY <1>3, <1>4 DEF TellInv

(* A grant begins with nothing done and nothing answered.                     *)
LEMMA WinKeepsTelling ==
  ASSUME IInv, RivalInv, TellInv, NEW t \in Slots, Win(t)
  PROVE  TellInv'
<1> DEFINE k == Key(t)
<1>1. /\ k \in Keys
      /\ phase' = [phase EXCEPT ![t] = "deciding"]
      /\ pc' = [pc EXCEPT ![t] = "owner"]
      /\ sinceGrant' = [sinceGrant EXCEPT ![k] = 0]
      /\ UNCHANGED <<req, sinceEffect, outcome>>
      /\ acked' = [acked EXCEPT ![k] = NoResult]
      /\ \A j \in Keys : j # k => (j \in relapsed' <=> j \in relapsed)
  BY WinStep DEF Win
<1>2. /\ acked'[k] = NoResult
      /\ \A j \in Keys : j # k => acked'[j] = acked[j] /\ sinceGrant'[j] = sinceGrant[j]
  BY <1>1 DEF IInv, TypeOK, Cache!TypeOK
<1>3. \A j \in Keys : j # k => (Begun(j)' <=> Begun(j))
  BY <1>1, <1>2 DEF Begun
<1>4. AnswersTellEffects'
  <2> SUFFICES ASSUME NEW j \in Keys, j \notin relapsed', acked'[j] # NoResult, sinceGrant'[j] < TTL
               PROVE  acked'[j] \in Acts <=> Begun(j)'
    BY DEF AnswersTellEffects, Acts, Begun
  <2> QED BY <1>1, <1>2, <1>3 DEF TellInv, AnswersTellEffects, Acts, Begun
<1>5. ASSUME NEW u \in Slots, Owns(u)', Key(u)' \notin relapsed' PROVE OwnerTells(u)'
  <2>0. Key(u)' = Key(u)
    BY <1>1 DEF Key
  <2>1. CASE u = t
    <3>1. phase'[u] = "deciding"
      BY <1>1, <2>1 DEF IInv, TypeOK
    <3> QED BY <1>2, <2>0, <2>1, <3>1 DEF OwnerTells
  <2>2. CASE u # t
    <3>1. Owns(u) /\ phase'[u] = phase[u]
      BY <1>1, <1>5, <2>2 DEF IInv, TypeOK, Cache!TypeOK, Owns
    <3>2. Key(u) \in Keys
      BY <3>1, OwnerHasKey
    <3>3. Key(u) # k
      BY <1>5, <2>0, <3>1, GrantedKeyIsFree
    <3>4. OwnerTells(u)
      BY <1>1, <1>5, <2>0, <3>1, <3>2, <3>3 DEF TellInv, OwnersTell
    <3>5. acked'[Key(u)] = acked[Key(u)] /\ (Begun(Key(u))' <=> Begun(Key(u)))
      BY <1>1, <1>2, <2>0, <3>2, <3>3 DEF Begun
    <3> QED BY <1>1, <2>0, <3>1, <3>4, <3>5 DEF OwnerTells
  <2> QED BY <2>1, <2>2
<1> QED BY <1>4, <1>5 DEF TellInv, OwnersTell

(* An action starts on a key that has not been answered, and has no other      *)
(* owner.                                                                     *)
LEMMA ReserveKeepsTelling ==
  ASSUME IInv, RivalInv, TellInv, NEW t \in Slots, Reserve(t)
  PROVE  TellInv'
<1> DEFINE k == Key(t)
<1>1. Owns(t) /\ k \in Keys
  BY OwnerHasKey DEF IInv, Links, LinkAt, Owning, Owns, Reserve
<1>2. PICK p \in {"blocking", "awaiting"} : phase' = [phase EXCEPT ![t] = p]
  BY DEF Reserve, Goto
<1>3. /\ sinceEffect' = [sinceEffect EXCEPT ![k] = 0]
      /\ UNCHANGED <<req, outcome, pc, sinceGrant, relapsed, acked>>
  BY DEF Reserve, Key, cacheVars
<1>4. Begun(k)' /\ \A j \in Keys : j # k => (Begun(j)' <=> Begun(j))
  <2>1. sinceEffect'[k] = 0 /\ \A j \in Keys : j # k => sinceEffect'[j] = sinceEffect[j]
    BY <1>1, <1>3 DEF IInv, TypeOK
  <2>2. sinceGrant[k] \in Nat
    BY <1>1, ServiceConstants DEF IInv, TypeOK, Cache!TypeOK, Cache!Age
  <2>3. k' = k
    BY <1>3 DEF Key
  <2> QED BY <1>3, <2>1, <2>2, <2>3 DEF Begun
<1>5. k \notin relapsed => acked[k] = NoResult
  BY <1>1 DEF TellInv, OwnersTell, OwnerTells
<1>6. AnswersTellEffects'
  <2> SUFFICES ASSUME NEW j \in Keys, j \notin relapsed, acked[j] # NoResult, sinceGrant[j] < TTL
               PROVE  acked[j] \in Acts <=> Begun(j)'
    BY <1>3 DEF AnswersTellEffects, Acts, Begun
  <2>1. j # k
    BY <1>5
  <2> QED BY <1>4, <2>1 DEF TellInv, AnswersTellEffects, Acts, Begun
<1>7. ASSUME NEW u \in Slots, Owns(u)', Key(u)' \notin relapsed' PROVE OwnerTells(u)'
  <2>1. Owns(u) /\ Key(u)' = Key(u) /\ Key(u) \in Keys /\ Key(u) \notin relapsed
    BY <1>3, <1>7, OwnerHasKey DEF Owns, Key
  <2>2. CASE u = t
    <3>1. phase'[u] \in {"blocking", "awaiting"}
      BY <1>2, <2>2 DEF IInv, TypeOK
    <3> QED BY <1>3, <1>4, <1>5, <2>1, <2>2, <3>1 DEF OwnerTells
  <2>3. CASE u # t
    <3>1. Key(u) # k
      BY <1>1, <2>1, <2>3 DEF RivalInv
    <3>2. phase'[u] = phase[u]
      BY <1>2, <2>3 DEF IInv, TypeOK
    <3> QED BY <1>3, <1>4, <2>1, <3>1, <3>2 DEF TellInv, OwnersTell, OwnerTells
  <2> QED BY <2>2, <2>3
<1> QED BY <1>6, <1>7 DEF TellInv, OwnersTell

(* The owner's answer is the key's.                                           *)
LEMMA AnswerKeepsTelling ==
  ASSUME IInv, RivalInv, EffectInv, TellInv, NEW t \in Slots, BadJson(t) \/ Commit(t)
  PROVE  TellInv'
<1> DEFINE k == Key(t)
<1>1. PICK r \in Results :
        /\ Cache!Complete(t, r)
        /\ acked' = [acked EXCEPT ![k] = r]
        /\ \/ phase[t] = "deciding" /\ r = "bad request"
           \/ phase[t] = "committing" /\ r = outcome[t]
  BY DEF BadJson, Commit, IInv, Links, LinkAt, Results
<1>2. Owns(t) /\ k \in Keys
  BY <1>1, OwnerHasKey DEF Cache!Complete, Owns
<1>3. Leave(t) /\ UNCHANGED <<sinceEffect, sinceGrant, relapsed>>
  BY <1>1 DEF BadJson, Commit, Cache!Complete
<1>4. acked'[k] = r /\ \A j \in Keys : j # k => acked'[j] = acked[j]
  BY <1>1, <1>2 DEF IInv, TypeOK
<1>5. \A j \in Keys : Begun(j)' <=> Begun(j)
  BY <1>3 DEF Begun
<1>6. k \notin relapsed => (r \in Acts <=> Begun(k))
  <2>1. CASE phase[t] = "deciding" /\ r = "bad request"
    BY <2>1, DecidingHasNotBegun DEF Acts
  <2>2. CASE phase[t] = "committing" /\ r = outcome[t]
    BY <1>2, <2>2 DEF TellInv, OwnersTell, OwnerTells
  <2> QED BY <1>1, <2>1, <2>2
<1>7. AnswersTellEffects'
  <2> SUFFICES ASSUME NEW j \in Keys, j \notin relapsed, acked'[j] # NoResult, sinceGrant[j] < TTL
               PROVE  acked'[j] \in Acts <=> Begun(j)
    BY <1>3, <1>5 DEF AnswersTellEffects, Acts, Begun
  <2>1. CASE j = k
    BY <1>4, <1>6, <2>1
  <2>2. CASE j # k
    BY <1>4, <2>2 DEF TellInv, AnswersTellEffects, Acts, Begun
  <2> QED BY <2>1, <2>2
<1>8. ASSUME NEW u \in Slots, Owns(u)', Key(u)' \notin relapsed' PROVE OwnerTells(u)'
  <2>1. u # t /\ Owns(u) /\ Key(u)' = Key(u) /\ phase'[u] = phase[u] /\ outcome'[u] = outcome[u]
    BY <1>1, <1>3, <1>8
    DEF IInv, TypeOK, Cache!TypeOK, Cache!Complete, Cache!Leave, Leave, Goto, Owns, Key
  <2>2. Key(u) \in Keys /\ Key(u) \notin relapsed /\ Key(u) # k
    BY <1>2, <1>3, <1>8, <2>1, OwnerHasKey DEF RivalInv
  <2> QED BY <1>4, <1>5, <2>1, <2>2 DEF TellInv, OwnersTell, OwnerTells
<1> QED BY <1>7, <1>8 DEF TellInv, OwnersTell

(* What a client is told of its key tells whether an action was started for it, *)
(* for any requests, timing and number of handlers, and so do replays, which  *)
(* are the same answers: a refusal has cost and done nothing.                 *)
THEOREM ServiceTellsEffects == Spec => []AnswersTellEffects
<1>1. IInv /\ RivalInv /\ EffectInv /\ TellInv /\ [Next]_vars /\ IInv' /\ RivalInv' => TellInv'
  BY TellStep, HushedKeepsTelling, TickKeepsTelling, WinKeepsTelling, ReserveKeepsTelling,
     AnswerKeepsTelling
<1>2. TellInv => AnswersTellEffects
  BY DEF TellInv
<1> QED BY <1>1, <1>2, TellInit, EffectInit, EffectNext, RivalsCorrect, IInvCorrect, PTL DEF Spec

(* A handler whose action awaits is cut short by its timer, and one that       *)
(* blocks on a file is assumed to be as short (BlocksAreShort, which nothing  *)
(* in the code ensures): then a running handler has its own entry and its     *)
(* key to itself, unless a Full path interfered.                              *)
THEOREM ServiceOwnersAreAlone == Spec => [](Cache!SoleOwner /\ Cache!OwnerIsProtected)
<1>1. Init => Proved!OwnerInv
  BY SameCache, CacheFits, Proved!OwnerInit DEF Init
<1>2. Proved!HoldsAreShort
  BY HoldsFit DEF Proved!HoldsAreShort
<1>3. IInv /\ Proved!OwnerInv /\ [Next]_vars => Proved!OwnerInv'
  BY <1>2, SameCache, CacheFits, StepsAreTheCaches, Proved!OwnerNext DEF IInv, TypeOK
<1>4. Proved!OwnerInv => Cache!SoleOwner /\ Cache!OwnerIsProtected
  BY DEF Proved!OwnerInv, Proved!SoleOwner, Cache!SoleOwner, Proved!OwnerIsProtected,
         Cache!OwnerIsProtected, Proved!Owners, Cache!Owners
<1> QED BY <1>1, <1>3, <1>4, IInvCorrect, PTL DEF Spec

-----------------------------------------------------------------------------
(* Below the cache's capacity there is no Full path, and what the service     *)
(* promises holds without exceptions.                                        *)

(* At most once, for every key: what EffectsSpaced says of those that were not *)
(* granted again after a Full path.                                          *)
AtMostOnce == [][\A t \in Slots : Reserve(t) => sinceEffect[Key(t)] >= TTL]_vars

(* What the cache has lost, a later grant leads to in relapsed.               *)
Lossless == lost = {}

LEMMA RelapsedNext ==
  ASSUME IInv, relapsed = {}, Lossless, [Next]_vars
  PROVE  relapsed' = {}
<1>1. ASSUME NEW t \in Slots, Win(t) PROVE relapsed' = {}
  BY <1>1 DEF Win, Lossless
<1>2. CASE Tick
  BY <1>2 DEF Tick, Elapse
<1>3. CASE Quiet
  BY <1>3 DEF Quiet
<1> QED BY <1>1, <1>2, <1>3, ServiceStep DEF IInv

(* No key acts twice within the TTL in a behaviour in which no Full path      *)
(* removes an entry: retries, timeouts, dropped futures and expiry included.  *)
THEOREM LosslessActsOnce == Spec /\ []Lossless => AtMostOnce
<1> DEFINE Calmed == relapsed = {}
<1>1. Init => Calmed
  BY DEF Init
<1>2. IInv /\ Calmed /\ Lossless /\ [Next]_vars => Calmed'
  BY RelapsedNext
<1>3. Calmed /\ [\A t \in Slots : Reserve(t) =>
                    sinceEffect[Key(t)] >= TTL \/ Key(t) \in relapsed]_vars
        => [\A t \in Slots : Reserve(t) => sinceEffect[Key(t)] >= TTL]_vars
  OBVIOUS
<1> HIDE DEF Calmed
<1> QED BY <1>1, <1>2, <1>3, IInvCorrect, ServiceActsOnce, PTL DEF Spec, EffectsSpaced, AtMostOnce

(* With fewer keys than entries nothing is ever lost.                         *)
LEMMA ServiceLosesNothing ==
  ASSUME Cardinality(Keys) < MaxEntries PROVE Spec => []Proved!NothingLost
<1>0. Proved!NeverFull
  BY DEF Proved!NeverFull, Proved!Cardinality, Cardinality, Proved!IsFiniteSet, IsFiniteSet
<1>1. Init => Proved!NothingLost
  BY SameCache, CacheFits, Proved!LosesNothingInit DEF Init
<1>2. IInv /\ Proved!NothingLost /\ [Next]_vars => Proved!NothingLost'
  BY <1>0, SameCache, CacheFits, StepsAreTheCaches, Proved!LosesNothingNext DEF IInv, TypeOK
<1> QED BY <1>1, <1>2, IInvCorrect, PTL DEF Spec

(* At most once, below capacity.                                              *)
THEOREM ActsOnceBelowCapacity ==
  ASSUME Cardinality(Keys) < MaxEntries PROVE Spec => AtMostOnce
<1>1. Proved!NothingLost => Lossless
  BY DEF Proved!NothingLost, Lossless
<1> QED BY <1>1, ServiceLosesNothing, LosslessActsOnce, PTL

(* The whole service is a single-flight table to its clients, whatever they    *)
(* send and whenever they hang up, as long as no Full path removes an entry.  *)
THEOREM ServiceIsSingleFlight == Spec /\ []Lossless => Proved!Ledger!Spec
<1>0. Proved!HoldsAreShort
  BY HoldsFit DEF Proved!HoldsAreShort
<1>1. Init => Proved!LosslessInv
  BY SameCache, CacheFits, Proved!LosslessInit DEF Init
<1>2. IInv /\ Proved!LosslessInv /\ Lossless' /\ [Next]_vars => Proved!LosslessInv'
  <2> SUFFICES ASSUME IInv, Proved!LosslessInv, Lossless', [Next]_vars PROVE Proved!LosslessInv'
    OBVIOUS
  <2>1. [Proved!Next]_Proved!vars
    BY SameCache, StepsAreTheCaches DEF IInv, TypeOK
  <2>2. Proved!Lossless'
    BY DEF Lossless, Proved!Lossless
  <2> QED BY <1>0, <2>1, <2>2, CacheFits, Proved!LosslessNext
<1>3. Init => Proved!Ledger!Init
  BY SameCache, CacheFits, Proved!InitSimulates DEF Init
<1>4. IInv /\ Proved!LosslessInv /\ Lossless' /\ [Next]_vars
        => [Proved!Ledger!Next]_(Proved!Ledger!vars)
  <2> SUFFICES ASSUME IInv, Proved!LosslessInv, Lossless', [Next]_vars
               PROVE  [Proved!Ledger!Next]_(Proved!Ledger!vars)
    OBVIOUS
  <2>1. [Proved!Next]_Proved!vars
    BY SameCache, StepsAreTheCaches DEF IInv, TypeOK
  <2>2. Proved!Lossless'
    BY DEF Lossless, Proved!Lossless
  <2> QED BY <1>0, <2>1, <2>2, CacheFits, Proved!StepSimulates
<1> QED BY <1>1, <1>2, <1>3, <1>4, IInvCorrect, PTL DEF Spec, Proved!Ledger!Spec

-----------------------------------------------------------------------------
(* The service charges a budget, as SlimeAuthorizer was shown to implement it. *)
BudgetDomains == {DomainOf[a] : a \in DOMAIN DomainOf}
Charges       == [agent : Agents, domain : BudgetDomains, magnitude : 1 .. 1000]
NoCharge      == CHOOSE c : c \notin Charges

Charge(q) == [agent |-> q.agent, domain |-> DomainOf[q.body.action], magnitude |-> q.body.magnitude]

(* An owner waits for its reservation from the grant of its key on.           *)
Charging(t) == phase[t] = "deciding" /\ FormOf[req[t]] \in Live

Pending == [t \in Slots |-> IF Charging(t) THEN Charge(req[t]) ELSE NoCharge]

Budget == INSTANCE CapacityBudget
  WITH Callers <- Slots, Domains <- BudgetDomains, Magnitudes <- 1 .. 1000,
       NoCall <- NoCharge, pending <- Pending

LEMMA NoChargeIsNone == NoCharge \notin Charges
  BY NoSetContainsEverything DEF NoCharge

(* A live request is a call that policy permits.                              *)
LEMMA LiveIsPermitted ==
  ASSUME NEW q \in Requests, FormOf[q] \in Live
  PROVE  Charge(q) \in Charges /\ Charge(q) # NoCharge /\ Budget!Permitted(Charge(q))
<1>1. q.agent \in Agents
  BY ServiceConstants
<1>2. Accepted(q.agent, q.body)
  BY LiveIsAccepted
<1>3. q.body.magnitude \in 1 .. 1000 /\ DomainOf[q.body.action] \in BudgetDomains
  BY <1>2, Zenon DEF Accepted, BudgetDomains
<1>4. Charge(q) \in Charges
  BY <1>1, <1>3 DEF Charge, Charges
<1>5. ~(q.body.magnitude > Limit[q.agent][DomainOf[q.body.action]])
  BY DEF FormOf, Form, Live
<1>6. Limit[q.agent][DomainOf[q.body.action]] \in Nat
  <2>1. Limit \in [Agents -> [BudgetDomains -> Nat]]
    BY ServiceConstants, Zenon DEF BudgetDomains
  <2> QED BY <1>1, <1>3, <2>1
<1>7. Budget!Permitted(Charge(q))
  <2>1. /\ Charge(q).agent = q.agent /\ Charge(q).domain = DomainOf[q.body.action]
        /\ Charge(q).magnitude = q.body.magnitude
    BY DEF Charge
  <2>2. q.body.magnitude <= Limit[q.agent][DomainOf[q.body.action]]
    <3> DEFINE m == q.body.magnitude
               l == Limit[q.agent][DomainOf[q.body.action]]
    <3>1. m \in 1 .. 1000 /\ l \in Nat /\ ~(m > l)
      BY <1>3, <1>5, <1>6
    <3> HIDE DEF m, l
    <3>2. m <= l
      BY <3>1
    <3> QED BY <3>2 DEF m, l
  <2> QED BY <2>1, <2>2 DEF Budget!Permitted
<1> QED BY <1>4, <1>7, NoChargeIsNone

(* A step that moves no slot into or out of a decision on a charge is none of  *)
(* the budget's.                                                             *)
LEMMA Uncharged ==
  ASSUME used' = used, \A u \in Slots : (Charging(u)' <=> Charging(u)) /\ (Charging(u) => req'[u] = req[u])
  PROVE  UNCHANGED Budget!vars
<1>1. ASSUME NEW u \in Slots
      PROVE  (IF Charging(u)' THEN Charge(req'[u]) ELSE NoCharge) = (IF Charging(u) THEN Charge(req[u]) ELSE NoCharge)
  <2>1. CASE Charging(u)
    BY <2>1
  <2>2. CASE ~Charging(u)
    BY <2>2
  <2> QED BY <2>1, <2>2
<1>2. Pending' = Pending
  BY <1>1 DEF Pending, Charge
<1> QED BY <1>2 DEF Budget!vars

(* A slot that moves alone takes its own place in Pending with it.            *)
LEMMA OneMoves ==
  ASSUME NEW t \in Slots, \A u \in Slots \ {t} : phase'[u] = phase[u] /\ req'[u] = req[u]
  PROVE  Pending' = [Pending EXCEPT ![t] = IF Charging(t)' THEN Charge(req[t])' ELSE NoCharge]
  BY DEF Pending, Charging, Charge

LEMMA BudgetStep ==
  ASSUME IInv, SentInv, [Next]_vars
  PROVE  [Budget!Next]_(Budget!vars)
<1> USE DEF SentInv
<1>0. /\ phase \in [Slots -> Phases] /\ req \in [Slots -> Requests \cup {NoRequest}]
      /\ Links
  BY DEF IInv
(* One slot moves, and neither from nor to a decision on a charge.            *)
<1>a. ASSUME NEW t \in Slots, used' = used, ~Charging(t), ~Charging(t)',
             \A u \in Slots \ {t} : phase'[u] = phase[u] /\ req'[u] = req[u]
      PROVE  UNCHANGED Budget!vars
  BY <1>a, Uncharged DEF Charging
<1>1. CASE UNCHANGED vars \/ Tick
  <2>1. UNCHANGED <<phase, req, used>>
    BY <1>1 DEF vars, slotVars, Tick, Elapse
  <2> QED BY <2>1, Uncharged DEF Charging
<1>2. ASSUME NEW t \in Slots, NEW q \in Requests, Arrive(t, q) PROVE UNCHANGED Budget!vars
  BY <1>0, <1>2, <1>a DEF Arrive, Goto, Charging
<1>3. ASSUME NEW t \in Slots, \/ Admit(t) \/ Check(t) \/ RecordProof(t) \/ FileActionEnds(t)
                              \/ NetActionEnds(t) \/ NetActionTimesOut(t)
      PROVE  UNCHANGED Budget!vars
  <2>1. /\ phase[t] # "deciding" /\ UNCHANGED <<req, used>>
        /\ \E p \in Phases \ {"deciding"} : Goto(t, p)
    BY <1>3 DEF Admit, Check, RecordProof, FileActionEnds, NetActionEnds, NetActionTimesOut,
                ActionEnds, Phases
  <2> QED BY <1>0, <1>a, <2>1 DEF Goto, Charging
<1>4. ASSUME NEW t \in Slots, Leave(t), ~Charging(t), used' = used PROVE UNCHANGED Budget!vars
  BY <1>0, <1>4, <1>a DEF Leave, Goto, Charging
<1>5. ASSUME NEW t \in Slots, HangUp(t) \/ DeadlineFires(t) \/ GateRejects(t) \/ BadJson(t) \/ Commit(t)
      PROVE  UNCHANGED Budget!vars
  BY <1>4, <1>5 DEF HangUp, DeadlineFires, Drop, GateRejects, BadJson, Commit, Charging, Awaits, Timed, Live
<1>6. ASSUME NEW t \in Slots, AnswerFromCache(t) PROVE UNCHANGED Budget!vars
  <2>1. pc[t] # "owner"
    BY <1>6 DEF AnswerFromCache, Cache!EntryInFlight, Cache!EntryCached, Cache!FullRemove
  <2>2. ~Charging(t)
    BY <1>0, <2>1 DEF Links, LinkAt, Owning, Charging
  <2> QED BY <1>4, <1>6, <2>2 DEF AnswerFromCache
<1>7. ASSUME NEW t \in Slots, Snapshot(t) \/ FindFull(t) PROVE UNCHANGED Budget!vars
  BY <1>7, Uncharged DEF Snapshot, FindFull, slotVars, Charging
<1>8. ASSUME NEW t \in Slots, Win(t) PROVE [Budget!Next]_(Budget!vars)
  <2>1. /\ phase[t] = "checking" /\ phase' = [phase EXCEPT ![t] = "deciding"]
        /\ req' = req /\ used' = used /\ req[t] \in Requests
    BY <1>0, <1>8 DEF Win, Goto
  <2>2. CASE FormOf[req[t]] \notin Live
    BY <1>0, <1>a, <2>1, <2>2 DEF Charging
  <2>3. CASE FormOf[req[t]] \in Live
    <3> DEFINE call == Charge(req[t])
    <3>1. call \in Charges /\ Budget!Permitted(call)
      BY <2>1, <2>3, LiveIsPermitted
    <3>2. Pending[t] = NoCharge
      BY <2>1 DEF Pending, Charging
    <3>3. Pending' = [Pending EXCEPT ![t] = call]
      <4>1. Charging(t)' /\ Charge(req[t])' = call
        BY <1>0, <2>1, <2>3 DEF Charging, Charge
      <4> QED BY <1>0, <2>1, <4>1, OneMoves
    <3>4. Budget!Begin(t, call)
      BY <2>1, <3>1, <3>2, <3>3 DEF Budget!Begin
    <3> QED BY <3>1, <3>4 DEF Budget!Next, Budget!Calls, Charges
  <2> QED BY <2>2, <2>3
<1>9. ASSUME NEW t \in Slots, Decide(t) PROVE [Budget!Next]_(Budget!vars)
  <2>1. /\ phase[t] = "deciding" /\ phase' = [phase EXCEPT ![t] = "recording"]
        /\ req' = req /\ used' = used /\ req[t] \in Requests
    BY <1>0, <1>9 DEF Decide, Goto
  <2>2. CASE FormOf[req[t]] \notin Live
    BY <1>0, <1>a, <2>1, <2>2 DEF Charging
  <2>3. CASE FormOf[req[t]] \in Live
    <3> DEFINE call == Charge(req[t])
    <3>1. call # NoCharge /\ ~Fits(req[t])
      BY <1>9, <2>1, <2>3, LiveIsPermitted DEF Decide, Live
    <3>2. Pending[t] = call
      BY <2>1, <2>3 DEF Pending, Charging
    <3>3. ~Budget!Fits(Pending[t])
      BY <3>1, <3>2 DEF Fits, Budget!Fits, Charge
    <3>4. Pending' = [Pending EXCEPT ![t] = NoCharge]
      <4>1. ~Charging(t)'
        BY <1>0, <2>1 DEF Charging
      <4> QED BY <1>0, <2>1, <4>1, OneMoves
    <3>5. Budget!Deny(t)
      BY <2>1, <3>1, <3>2, <3>3, <3>4 DEF Budget!Deny
    <3> QED BY <3>5 DEF Budget!Next
  <2> QED BY <2>2, <2>3
<1>10. ASSUME NEW t \in Slots, Reserve(t) PROVE [Budget!Next]_(Budget!vars)
  <2>1. /\ phase[t] = "deciding" /\ FormOf[req[t]] \in Live /\ Fits(req[t])
        /\ \E p \in {"blocking", "awaiting"} : phase' = [phase EXCEPT ![t] = p]
        /\ req' = req /\ req[t] \in Requests
        /\ used' = [used EXCEPT ![req[t].agent] = @ + req[t].body.magnitude]
    BY <1>0, <1>10 DEF Reserve, Goto
  <2> DEFINE call == Charge(req[t])
  <2>2. call # NoCharge
    BY <2>1, LiveIsPermitted
  <2>3. Pending[t] = call
    BY <2>1 DEF Pending, Charging
  <2>4. Pending' = [Pending EXCEPT ![t] = NoCharge]
    <3>1. ~Charging(t)'
      BY <1>0, <2>1 DEF Charging
    <3> QED BY <1>0, <2>1, <3>1, OneMoves
  <2>5. call.agent = req[t].agent /\ call.magnitude = req[t].body.magnitude
    BY DEF Charge
  <2>6. Budget!Fits(Pending[t])
    BY <2>1, <2>3, <2>5 DEF Fits, Budget!Fits
  <2>7. Budget!Grant(t)
    BY <2>1, <2>2, <2>3, <2>4, <2>5, <2>6 DEF Budget!Grant
  <2> QED BY <2>7 DEF Budget!Next
<1> QED BY <1>1, <1>2, <1>3, <1>5, <1>6, <1>7, <1>8, <1>9, <1>10 DEF Next, Handle

(* Whatever is charged is charged as the authorizer's promise says: each live  *)
(* request that wins its key is one call that policy permits, granted when it *)
(* fits and refused when it does not, once, and nothing else touches a        *)
(* budget, whatever is dropped, retried or expires.                          *)
THEOREM ServiceChargesBudget == Spec => Budget!Spec
<1>1. Init => Budget!Init
  BY DEF Init, Budget!Init, Pending, Charging
<1>2. IInv /\ SentInv /\ [Next]_vars => [Budget!Next]_(Budget!vars)
  BY BudgetStep
<1>3. Spec => []SentInv
  BY SentInit, SentNext, PTL DEF Spec
<1> QED BY <1>1, <1>2, <1>3, IInvCorrect, PTL DEF Spec, Budget!Spec
=============================================================================
