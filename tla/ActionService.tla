---------------------------- MODULE ActionService ----------------------------
(***************************************************************************)
(* POST /ama/action of safa-daemon/src/server.rs, end to end: the bounded   *)
(* admission of build_router, the steps of handle_action on the            *)
(* idempotency cache, and the pipeline of safa-core/src/pipeline.rs up to   *)
(* the answer.  It composes IdempotencyCache, step for step, with the       *)
(* atomic budget of CapacityBudget, which SlimeAuthorizer implements, and   *)
(* RequestValidation, which says what becomes of a request.                 *)
(*                                                                         *)
(* A slot is a request's future.  It can be dropped, by the 30 s timer or   *)
(* by the client hanging up, only where it awaits: in the queue, while the  *)
(* body arrives, and during a shell or HTTP action.  File actions run       *)
(* synchronously inside their tokio timeout and are never interrupted.      *)
(***************************************************************************)
EXTENDS RequestValidation

CONSTANTS
    Slots, Keys, Agents,
    Requests,     \* the requests clients send: key, agent, body
    Garbled,      \* a body that is not the JSON of an ActionRequest
    MaxCapacity,  \* [Agents -> Nat]
    Limit,        \* of each agent and domain: max_magnitude_per_action, 0 if off
    MaxEntries, TTL,
    Permits,      \* concurrency_limit(8)
    Deadline,     \* TimeoutLayer(30 s), in ticks
    ActionLimit,  \* the longest a shell or HTTP action runs (15 s, 17 s)
    MaxBlock,     \* the longest a file action blocks its thread
    NoKey, Absent, NoResult, NoRequest

(* What handle_action and process_action make of a request: a body that is   *)
(* not JSON, one that is not accepted, one that policy refuses, a dry run,   *)
(* and a live action on the file system or over an await.                   *)
Form(q) ==
    CASE q.body = Garbled               -> "garbled"
      [] ~Accepted(q.agent, q.body)     -> "invalid"
      [] q.body.magnitude > Limit[q.agent][DomainOf[q.body.action]] -> "refused"
      [] q.body.dryRun                  -> "dry run"
      [] OTHER -> IF q.body.action \in {"file_write", "file_read"} THEN "file" ELSE "net"
FormOf == [q \in Requests |-> Form(q)]
Live   == {"file", "net"}

(* The answers that complete() stores.                                       *)
Results == {"bad request", "invalid", "impossible", "dry run", "authorized", "failed"}

HoldBound == IF ActionLimit > MaxBlock THEN ActionLimit ELSE MaxBlock

ASSUME ServiceConstants ==
    /\ IsFiniteSet(Slots) /\ Slots # {}
    /\ IsFiniteSet(Keys) /\ NoKey \notin Keys
    /\ \A q \in Requests :
          /\ q.key \in Keys /\ q.agent \in Agents
          /\ q.body # Garbled /\ q.body.args # None => IsList(q.body.args)
    /\ NoRequest \notin Requests
    /\ NoResult \notin Results
    /\ Absent \notin [result : Results \cup {NoResult}, age : 0 .. TTL + 1, inFlight : BOOLEAN]
    /\ MaxCapacity \in [Agents -> Nat]
    /\ Limit \in [Agents -> [{DomainOf[a] : a \in DOMAIN DomainOf} -> Nat]]
    /\ {MaxEntries, TTL, Permits, Deadline, ActionLimit} \subseteq Nat \ {0}
    /\ MaxBlock \in Nat
    /\ ActionLimit < TTL

(* Assumed, for the code does not see to it: the timeout around a file action *)
(* cannot interrupt it, and a file system may block for longer than the TTL. *)
ASSUME BlocksAreShort == MaxBlock < TTL

VARIABLES
    phase,    \* where each slot is
    req,      \* the request it carries
    clock,    \* ticks since the timer was armed
    outcome,  \* result of process_action
    queue,    \* the waiters of the semaphore, first come first served
    used,     \* capacity_used() per agent
    proved    \* the verdict in the proof record of each key's last run

(* The variables of IdempotencyCache.                                        *)
VARIABLES entries, pc, taskKey, atCapacity, held, sinceGrant, lost, contested

VARIABLES
    sinceEffect,  \* history: ticks since an action on a key was started
    relapsed,     \* history: keys granted last after their entry was removed
    acked         \* history: the answer of a key's last run, once sent

Cache == INSTANCE IdempotencyCache WITH Tasks <- Slots, MaxHold <- HoldBound

cacheVars == <<entries, pc, taskKey, atCapacity, held, sinceGrant, lost, contested>>
slotVars  == <<phase, req, clock, outcome, queue>>
history   == <<sinceEffect, relapsed, acked>>
vars      == <<slotVars, used, proved, cacheVars, history>>

Phases    == {"idle", "queued", "reading", "checking", "deciding",
              "blocking", "awaiting", "recording", "committing"}
Running   == {t \in Slots : phase[t] \notin {"idle", "queued"}}
Awaits    == {"queued", "reading", "awaiting"}
Timed     == {"reading", "awaiting"}

TypeOK ==
    /\ Cache!TypeOK
    /\ phase \in [Slots -> Phases]
    /\ req \in [Slots -> Requests \cup {NoRequest}]
    /\ clock \in [Slots -> 0 .. Deadline]
    /\ outcome \in [Slots -> Results \cup {NoResult}]
    /\ queue \in Seq(Slots)
    /\ used \in [Agents -> Nat]
    /\ \A a \in Agents : used[a] <= MaxCapacity[a]
    /\ proved \in [Keys -> {"none", "AUTHORIZED", "IMPOSSIBLE"}]
    /\ sinceEffect \in [Keys -> 0 .. TTL]
    /\ relapsed \subseteq Keys
    /\ acked \in [Keys -> Results \cup {NoResult}]
    /\ \A t \in Slots : phase[t] = "idle" <=> req[t] = NoRequest
    /\ Cardinality(Running) <= Permits

Init ==
    /\ Cache!Init
    /\ phase = [t \in Slots |-> "idle"]
    /\ req = [t \in Slots |-> NoRequest]
    /\ clock = [t \in Slots |-> 0]
    /\ outcome = [t \in Slots |-> NoResult]
    /\ queue = <<>>
    /\ used = [a \in Agents |-> 0]
    /\ proved = [k \in Keys |-> "none"]
    /\ sinceEffect = [k \in Keys |-> TTL]
    /\ relapsed = {}
    /\ acked = [k \in Keys |-> NoResult]

Key(t) == req[t].key

Goto(t, p) == phase' = [phase EXCEPT ![t] = p]

(* The waiters but for one, wherever it stands.                              *)
Without(t) ==
    IF \E i \in DOMAIN queue : queue[i] = t
    THEN LET i == CHOOSE i \in DOMAIN queue : queue[i] = t
         IN  SubSeq(queue, 1, i - 1) \o SubSeq(queue, i + 1, Len(queue))
    ELSE queue

(* The response is sent, or the future is dropped: the slot and its permit   *)
(* are free.                                                                *)
Leave(t) ==
    /\ Goto(t, "idle")
    /\ req' = [req EXCEPT ![t] = NoRequest]
    /\ clock' = [clock EXCEPT ![t] = 0]
    /\ outcome' = [outcome EXCEPT ![t] = NoResult]
    /\ queue' = Without(t)

-----------------------------------------------------------------------------
(* Admission: ConcurrencyLimit's semaphore.  The timer starts with the       *)
(* permit, because TimeoutLayer wraps the limit and is armed in call().     *)
Arrive(t, q) ==
    /\ phase[t] = "idle"
    /\ Goto(t, "queued")
    /\ req' = [req EXCEPT ![t] = q]
    /\ queue' = Append(queue, t)
    /\ UNCHANGED <<clock, outcome, used, proved, cacheVars, history>>

(* Mutant: a free permit goes to any of the waiters.                         *)
AdmitAny(t) ==
    /\ phase[t] = "queued"
    /\ Cardinality(Running) < Permits
    /\ queue' = Without(t)
    /\ Goto(t, "reading")
    /\ UNCHANGED <<req, clock, outcome, used, proved, cacheVars, history>>

Admit(t) ==
    /\ phase[t] = "queued" /\ queue # <<>> /\ Head(queue) = t
    /\ Cardinality(Running) < Permits
    /\ queue' = Tail(queue)
    /\ Goto(t, "reading")
    /\ UNCHANGED <<req, clock, outcome, used, proved, cacheVars, history>>

(* Mutant: a dropped future takes its key out of the cache.                  *)
DropRemovesKey(t) ==
    /\ IF phase[t] = "awaiting" THEN Cache!CompleteRemoves(t, "failed")
                                ELSE UNCHANGED cacheVars
    /\ Leave(t)
    /\ UNCHANGED <<used, proved, history>>

(* The future is dropped at an await.                                        *)
Drop(t) ==
    /\ IF phase[t] = "awaiting" THEN Cache!Abandon(t) ELSE UNCHANGED cacheVars
    /\ Leave(t)
    /\ UNCHANGED <<used, proved, history>>

HangUp(t) == phase[t] \in Awaits /\ Drop(t)

DeadlineFires(t) == phase[t] \in Timed /\ clock[t] = Deadline /\ Drop(t)

-----------------------------------------------------------------------------
(* handle_action up to the cache: unknown agent, identity, rate limit and    *)
(* key header are checked once the body is there, and touch none of this.   *)
GateRejects(t) ==
    /\ phase[t] = "reading"
    /\ Leave(t)
    /\ UNCHANGED <<used, proved, cacheVars, history>>

Check(t) ==
    /\ phase[t] = "reading"
    /\ Cache!CheckPurge(t, Key(t))
    /\ Goto(t, "checking")
    /\ UNCHANGED <<req, clock, outcome, queue, used, proved, history>>

Snapshot(t) ==
    /\ Cache!CheckLen(t)
    /\ UNCHANGED <<slotVars, used, proved, history>>

Win(t) ==
    LET k == Key(t) IN
    /\ phase[t] = "checking"
    /\ Cache!EntryNew(t)
    /\ Goto(t, "deciding")
    /\ relapsed' = IF k \in lost THEN relapsed \cup {k} ELSE relapsed \ {k}
    /\ acked' = [acked EXCEPT ![k] = NoResult]
    /\ proved' = [proved EXCEPT ![k] = "none"]
    /\ UNCHANGED <<req, clock, outcome, queue, used, sinceEffect>>

(* 409 for a key in flight; 200 and the stored body for a key that is done;   *)
(* 503 when the cache is full, once the key has been removed.               *)
AnswerFromCache(t) ==
    /\ Cache!EntryInFlight(t) \/ Cache!EntryCached(t) \/ Cache!FullRemove(t)
    /\ Leave(t)
    /\ UNCHANGED <<used, proved, history>>

FindFull(t) ==
    /\ Cache!EntryFull(t)
    /\ UNCHANGED <<slotVars, used, proved, history>>

-----------------------------------------------------------------------------
(* The owner: no await from here to the answer, but for a "net" action.      *)
Fits(q) == used[q.agent] + q.body.magnitude <= MaxCapacity[q.agent]

(* invalid JSON is committed at once, and leaves no proof record.            *)
BadJson(t) ==
    /\ phase[t] = "deciding" /\ FormOf[req[t]] = "garbled"
    /\ Cache!Complete(t, "bad request")
    /\ acked' = [acked EXCEPT ![Key(t)] = "bad request"]
    /\ Leave(t)
    /\ UNCHANGED <<used, proved, sinceEffect, relapsed>>

(* process_action ends before the actuation.  A dry run asks check_only and  *)
(* takes nothing; try_reserve refuses what does not fit.                    *)
Decide(t) ==
    LET q    == req[t]
        form == FormOf[q] IN
    /\ phase[t] = "deciding" /\ form # "garbled"
    /\ \/ form = "invalid" /\ outcome' = [outcome EXCEPT ![t] = "invalid"]
       \/ /\ form = "refused" \/ (form # "invalid" /\ ~Fits(q))
          /\ outcome' = [outcome EXCEPT ![t] = "impossible"]
       \/ /\ form = "dry run" /\ Fits(q)
          /\ outcome' = [outcome EXCEPT ![t] = "dry run"]
    /\ Goto(t, "recording")
    /\ UNCHANGED <<req, clock, queue, used, proved, cacheVars, history>>

(* try_reserve succeeds, and the action starts.                              *)
Reserve(t) ==
    LET q == req[t] IN
    /\ phase[t] = "deciding" /\ FormOf[q] \in Live /\ Fits(q)
    /\ used' = [used EXCEPT ![q.agent] = @ + q.body.magnitude]
    /\ Goto(t, IF FormOf[q] = "file" THEN "blocking" ELSE "awaiting")
    /\ sinceEffect' = [sinceEffect EXCEPT ![q.key] = 0]
    /\ UNCHANGED <<req, clock, outcome, queue, proved, cacheVars, relapsed, acked>>

ActionEnds(t, result) ==
    /\ outcome' = [outcome EXCEPT ![t] = result]
    /\ Goto(t, "recording")
    /\ UNCHANGED <<req, clock, queue, used, proved, cacheVars, history>>

(* Mutant: an actuation that fails is answered like a refusal.                *)
FileActionRefused(t) ==
    phase[t] = "blocking" /\ \E result \in {"authorized", "impossible"} : ActionEnds(t, result)

FileActionEnds(t) ==
    phase[t] = "blocking" /\ \E result \in {"authorized", "failed"} : ActionEnds(t, result)

NetActionEnds(t) ==
    phase[t] = "awaiting" /\ \E result \in {"authorized", "failed"} : ActionEnds(t, result)

(* The per-action timeout.  A shell action that is killed by it still ends    *)
(* as Ok, with exit code -1; an HTTP request ends as an error.               *)
NetActionTimesOut(t) ==
    /\ phase[t] = "awaiting" /\ held[t] = ActionLimit
    /\ \E result \in {"authorized", "failed"} : ActionEnds(t, result)

(* verdict_str: AUTHORIZED for an Ok result, IMPOSSIBLE for any error.       *)
Verdict(result) == IF result \in {"authorized", "dry run"} THEN "AUTHORIZED" ELSE "IMPOSSIBLE"

(* Mutant: only successes leave a proof record.                              *)
RecordProofOfSuccess(t) ==
    /\ phase[t] = "recording"
    /\ proved' = IF Verdict(outcome[t]) = "AUTHORIZED"
                 THEN [proved EXCEPT ![Key(t)] = "AUTHORIZED"] ELSE proved
    /\ Goto(t, "committing")
    /\ UNCHANGED <<req, clock, outcome, queue, used, cacheVars, history>>

RecordProof(t) ==
    /\ phase[t] = "recording"
    /\ proved' = [proved EXCEPT ![Key(t)] = Verdict(outcome[t])]
    /\ Goto(t, "committing")
    /\ UNCHANGED <<req, clock, outcome, queue, used, cacheVars, history>>

(* Mutant: an error takes the key out of the cache, as in P0.                 *)
CommitOnlySuccess(t) ==
    /\ phase[t] = "committing"
    /\ IF Verdict(outcome[t]) = "AUTHORIZED" THEN Cache!Complete(t, outcome[t])
                                             ELSE Cache!CompleteRemoves(t, outcome[t])
    /\ acked' = [acked EXCEPT ![Key(t)] = outcome[t]]
    /\ Leave(t)
    /\ UNCHANGED <<used, proved, sinceEffect, relapsed>>

Commit(t) ==
    /\ phase[t] = "committing"
    /\ Cache!Complete(t, outcome[t])
    /\ acked' = [acked EXCEPT ![Key(t)] = outcome[t]]
    /\ Leave(t)
    /\ UNCHANGED <<used, proved, sinceEffect, relapsed>>

-----------------------------------------------------------------------------
Elapse ==
    /\ Cache!Tick
    /\ clock' = [t \in Slots |->
                   IF phase[t] \in Timed THEN clock[t] + 1 ELSE clock[t]]
    /\ sinceEffect' = [k \in Keys |->
                         IF sinceEffect[k] < TTL THEN sinceEffect[k] + 1 ELSE TTL]
    /\ UNCHANGED <<phase, req, outcome, queue, used, proved, relapsed, acked>>

(* Mutant: no TimeoutLayer.                                                   *)
TickWithoutDeadline == Elapse

(* Time.  A due timer fires before time goes on, and code between two awaits *)
(* of an owner takes no time, but for a file action: at most MaxBlock.      *)
Tick ==
    /\ \A t \in Slots :
          /\ phase[t] \notin {"deciding", "recording", "committing"}
          /\ phase[t] \in Timed => clock[t] < Deadline
          /\ phase[t] = "awaiting" => held[t] < ActionLimit
          /\ phase[t] = "blocking" => held[t] < MaxBlock
    /\ Elapse

(* The steps a running handler takes by itself, once its body is there.      *)
Handle(t) ==
    \/ Snapshot(t)
    \/ Win(t)
    \/ AnswerFromCache(t)
    \/ FindFull(t)
    \/ BadJson(t)
    \/ Decide(t)
    \/ Reserve(t)
    \/ FileActionEnds(t)
    \/ RecordProof(t)
    \/ Commit(t)

Next ==
    \/ Tick
    \/ \E t \in Slots :
          \/ \E q \in Requests : Arrive(t, q)
          \/ Admit(t)
          \/ HangUp(t)
          \/ DeadlineFires(t)
          \/ GateRejects(t)
          \/ Check(t)
          \/ NetActionEnds(t)
          \/ NetActionTimesOut(t)
          \/ Handle(t)

Spec == Init /\ [][Next]_vars

(* Time passes, timers fire, the semaphore hands its permits on, and the     *)
(* runtime polls a handler that can run.  Nothing is assumed of clients (a  *)
(* body may never arrive, a client may never hang up) nor of the network.   *)
Fairness ==
    /\ WF_vars(Tick)
    /\ \A t \in Slots :
          /\ WF_vars(Admit(t))
          /\ WF_vars(DeadlineFires(t))
          /\ WF_vars(NetActionTimesOut(t))
          /\ WF_vars(Handle(t))
FairSpec == Spec /\ Fairness

-----------------------------------------------------------------------------
(* Properties.                                                               *)

(* At most once: two actions on one key start at least the TTL apart,        *)
(* through retries, timeouts, dropped futures and expiry, unless the key    *)
(* was granted again after a Full path had removed its entry.               *)
EffectsSpaced ==
    [][\A t \in Slots : Reserve(t) =>
          sinceEffect[Key(t)] >= TTL \/ Key(t) \in relapsed]_vars

(* An answer once sent is what a retry gets: the key of a run that was       *)
(* answered is done, with that very body, until its TTL has passed, unless  *)
(* a Full path removed its entry.                                           *)
AckedIsReplayable ==
    \A k \in Keys \ lost :
        acked[k] # NoResult /\ sinceGrant[k] < TTL =>
            Cache!Done(k) /\ entries[k].result = acked[k]

(* Whoever reads a stored answer of the pipeline finds its proof record      *)
(* already there, and of the verdict that the answer tells, unless the key   *)
(* was granted again after a Full path had removed its entry.               *)
ProofPrecedesReplay ==
    \A k \in Keys \ relapsed :
        Cache!Done(k) /\ entries[k].result # "bad request" =>
            proved[k] = Verdict(entries[k].result)

(* An answer tells whether anything was done: within the TTL, a key that was  *)
(* answered "authorized" or with an actuator's error had its action started  *)
(* since its grant, and one that was answered as invalid, refused or dry had *)
(* not, through any retries, unless it was granted again after a Full path   *)
(* had removed its entry.  (A client sees status and body, which may be the   *)
(* same for different answers: that is not modelled.)                        *)
AnswersTellEffects ==
    \A k \in Keys \ relapsed :
        acked[k] # NoResult /\ sinceGrant[k] < TTL =>
            (acked[k] \in {"authorized", "failed"} <=> sinceEffect[k] <= sinceGrant[k])

(* What has been charged and started is what the client sent, whole: no      *)
(* default stands in for a field, no argument is lost between the count that *)
(* validation makes and the command that actuate builds, and no placeholder  *)
(* survives in it.  The code keeps this for intents whose templates are       *)
(* WellFormed, and for no others: neither the loader nor validation looks.   *)
StartedAsSent ==
    \A t \in Slots : phase[t] \in {"blocking", "awaiting"} => RunsAsSent(req[t].body)

(* The service uses the cache as IdempotencyCache describes it, with no      *)
(* owner older than the longest action: what was shown of the cache under   *)
(* that bound holds in the service.                                         *)
UsesCacheAsSpecified == Cache!Spec

(* Every request ends: answered, or dropped by a timer or by its client.     *)
EveryRequestEnds == \A t \in Slots : phase[t] # "idle" ~> phase[t] = "idle"
=============================================================================
