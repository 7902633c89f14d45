------------------------------ MODULE RequestGate ------------------------------
(***************************************************************************)
(* What safa-daemon/src/server.rs remembers of one agent between requests,  *)
(* and for how long: the identity window of identity.rs, the rate limiter   *)
(* (RateLimiter), the idempotency entry of a key, the proof record of its   *)
(* run, and nothing after a restart.  The steps of handle_action are those  *)
(* of ActionService, with the cache's lookup in one piece and what          *)
(* process_action does left open; a gate's refusal that changes nothing is  *)
(* not a step.                                                             *)
(*                                                                         *)
(* A request is a message, JSON, that its client signed once, with its own   *)
(* Idempotency-Key, and may send any number of times.  Identity compares    *)
(* whole seconds of the wall clock, limiter and cache compare Instants: a   *)
(* second is Sub ticks here, and WindowSecs counts ticks.                   *)
(***************************************************************************)
EXTENDS RateLimiter, Integers, FiniteSets

CONSTANTS
    Slots, Requests, Nothing,
    Sub,          \* ticks of a second
    Tolerance,    \* TIMESTAMP_TOLERANCE_SECS
    TTL,          \* of the idempotency cache, in seconds
    Ahead,        \* how far a client's clock may be ahead, in seconds
    MaxRun,       \* the longest process_action runs, in ticks
    MaxRecords,   \* max_entries of the proof store
    MaxRestarts   \* bound of the model

ASSUME GateConstants ==
    /\ IsFiniteSet(Slots) /\ IsFiniteSet(Requests) /\ Nothing \notin Requests
    /\ {Sub, TTL, MaxRecords} \subseteq Nat \ {0}
    /\ {Tolerance, Ahead, MaxRun, MaxRestarts} \subseteq Nat

(* Assumed, not enforced: the timers of shell and HTTP see to it, but nothing *)
(* bounds a write to a file system that blocks.                              *)
ASSUME RunsAreBrief == MaxRun < TTL * Sub

VARIABLES
    step,      \* where each slot is
    carries,   \* the request it carries
    frac,      \* ticks since the wall clock's last whole second
    behind,    \* now_secs - timestamp of each request
    entry,     \* the idempotency entry of each request's key
    records,   \* requests whose latest run has its record in the proof store
    others,    \* all other records there
    inserted,  \* history: records inserted since boot, up to MaxRecords + 1
    runs,      \* history: how often each message was run
    restarts

limiter  == vars
slotVars == <<step, carries>>
wall     == <<frac, behind>>
store    == <<records, others, inserted>>
gateVars == <<limiter, slotVars, entry, store, wall, runs, restarts>>

Steps == {"idle", "identified", "admitted", "running", "recorded"}
NoEntry  == [state |-> "absent", age |-> 0]
MaxAge   == TTL * Sub

GateTypeOK ==
    /\ TypeOK
    /\ step \in [Slots -> Steps]
    /\ carries \in [Slots -> Requests \cup {Nothing}]
    /\ frac \in 0 .. Sub - 1
    /\ behind \in [Requests -> -Ahead .. Tolerance + 1]
    /\ entry \in [Requests -> [state : {"absent", "in flight", "done"}, age : 0 .. MaxAge]]
    /\ records \subseteq Requests /\ others \in 0 .. MaxRecords
    /\ Cardinality(records) + others <= MaxRecords
    /\ inserted \in 0 .. MaxRecords + 1
    /\ runs \in [Requests -> Nat] /\ restarts \in 0 .. MaxRestarts

(* AppState::new: all of it starts empty.                                    *)
EmptySlots   == [s \in Slots |-> "idle"]
EmptyHands   == [s \in Slots |-> Nothing]
EmptyEntries == [r \in Requests |-> NoEntry]

GateInit ==
    /\ Init
    /\ step = EmptySlots /\ carries = EmptyHands /\ entry = EmptyEntries
    /\ records = {} /\ others = 0 /\ inserted = 0
    /\ frac = 0
    /\ behind \in [Requests -> -Ahead .. 0]
    /\ runs = [r \in Requests |-> 0]
    /\ restarts = 0

Move(s, to) == step' = [step EXCEPT ![s] = to] /\ UNCHANGED carries
Leave(s)    == step' = [step EXCEPT ![s] = "idle"] /\ carries' = [carries EXCEPT ![s] = Nothing]

-----------------------------------------------------------------------------
(* verify_identity, for a message whose signature is right.                  *)
Verified(r) == behind[r] \in -Tolerance .. Tolerance

Identify(s, r) ==
    /\ step[s] = "idle" /\ Verified(r)
    /\ step' = [step EXCEPT ![s] = "identified"]
    /\ carries' = [carries EXCEPT ![s] = r]
    /\ UNCHANGED <<limiter, entry, store, wall, runs, restarts>>

RateLimit(s) ==
    /\ step[s] = "identified"
    /\ \/ (NewWindow \/ Admit) /\ Move(s, "admitted")
       \/ Reject /\ Leave(s)
    /\ UNCHANGED <<entry, store, wall, runs, restarts>>

(* No Idempotency-Key, or one that is not a version 4 UUID: 400, counted.    *)
RefuseKey(s) ==
    /\ step[s] = "admitted"
    /\ Leave(s)
    /\ UNCHANGED <<limiter, entry, store, wall, runs, restarts>>

(* The lookup purges first, so that it finds what is younger than the TTL:    *)
(* at the TTL exactly a key is new again.                                    *)
Holds(r) == entry[r].state # "absent" /\ entry[r].age < TTL * Sub

(* 409 or the stored answer.                                                 *)
Replay(s) ==
    /\ step[s] = "admitted" /\ Holds(carries[s])
    /\ Leave(s)
    /\ UNCHANGED <<limiter, entry, store, wall, runs, restarts>>

(* The record of an earlier run goes by another action_id.                   *)
Disown(r) ==
    /\ records' = records \ {r}
    /\ others' = others + Cardinality(records \cap {r})
    /\ UNCHANGED inserted

Run(s) ==
    LET r == carries[s] IN
    /\ step[s] = "admitted" /\ ~Holds(r)
    /\ entry' = [entry EXCEPT ![r] = [state |-> "in flight", age |-> 0]]
    /\ runs' = [runs EXCEPT ![r] = @ + 1]
    /\ Disown(r)
    /\ Move(s, "running")
    /\ UNCHANGED <<limiter, wall, restarts>>

(* Mutant: a handler that is dropped takes its key along.                    *)
DropForgets(s) ==
    /\ step[s] = "running"
    /\ entry' = [entry EXCEPT ![carries[s]] = NoEntry]
    /\ Leave(s)
    /\ UNCHANGED <<limiter, store, wall, runs, restarts>>

(* The future is dropped at an await of the pipeline.                        *)
Drop(s) ==
    /\ step[s] = "running"
    /\ Leave(s)
    /\ UNCHANGED <<limiter, entry, store, wall, runs, restarts>>

(* Mutant: the store is full one record early.                               *)
EvictedEarly ==
    IF Cardinality(records) + others + 1 < MaxRecords THEN {<<records, others>>}
    ELSE {<<records \ {r}, others>> : r \in records}
         \cup {<<records, n>> : n \in {others - 1} \cap Nat}

(* What insert leaves of the store to make room: at capacity, one record of  *)
(* HashMap's choice goes.                                                    *)
Evicted ==
    IF Cardinality(records) + others < MaxRecords THEN {<<records, others>>}
    ELSE {<<records \ {r}, others>> : r \in records}
         \cup {<<records, n>> : n \in {others - 1} \cap Nat}

Insert(mine) ==
    /\ \E left \in Evicted :
          /\ records' = left[1] \cup mine
          /\ others' = IF mine = {} THEN left[2] + 1 ELSE left[2]
    /\ inserted' = IF inserted > MaxRecords THEN inserted ELSE inserted + 1

Record(s) ==
    /\ step[s] = "running"
    /\ Insert({carries[s]})
    /\ Move(s, "recorded")
    /\ UNCHANGED <<limiter, entry, wall, runs, restarts>>

(* Another agent's action is recorded: the store is everyone's.              *)
OthersRecord ==
    /\ Insert({})
    /\ UNCHANGED <<limiter, slotVars, entry, wall, runs, restarts>>

Complete(s) ==
    /\ step[s] = "recorded"
    /\ entry' = [entry EXCEPT ![carries[s]] = [state |-> "done", age |-> @.age]]
    /\ Leave(s)
    /\ UNCHANGED <<limiter, store, wall, runs, restarts>>

Older(e) == [state |-> e.state, age |-> IF e.age < MaxAge THEN e.age + 1 ELSE e.age]

(* Time.  Only a running action takes any: the rest of a handler has no await. *)
GateTick ==
    /\ \A s \in Slots : \/ step[s] = "idle"
                        \/ step[s] = "running" /\ entry[carries[s]].age < MaxRun
    /\ Tick
    /\ frac' = (frac + 1) % Sub
    /\ behind' = [r \in Requests |-> IF frac' = 0 /\ behind[r] <= Tolerance
                                     THEN behind[r] + 1 ELSE behind[r]]
    /\ entry' = [r \in Requests |-> IF entry[r].state = "absent" THEN NoEntry ELSE Older(entry[r])]
    /\ UNCHANGED <<slotVars, store, runs, restarts>>

(* A client whose message has gone stale signs another, with a new key.      *)
Sign(r) ==
    /\ behind[r] > Tolerance /\ \A s \in Slots : carries[s] # r
    /\ \E d \in -Ahead .. 0 : behind' = [behind EXCEPT ![r] = d]
    /\ entry' = [entry EXCEPT ![r] = NoEntry]
    /\ runs' = [runs EXCEPT ![r] = 0]
    /\ Disown(r)
    /\ UNCHANGED <<limiter, slotVars, frac, restarts>>

(* The process ends, in a crash or a shutdown, and starts again.             *)
Restart ==
    /\ restarts < MaxRestarts
    /\ restarts' = restarts + 1
    /\ elapsed' = 0 /\ count' = 0 /\ inWindow' = 0
    /\ step' = EmptySlots /\ carries' = EmptyHands /\ entry' = EmptyEntries
    /\ records' = {} /\ others' = 0 /\ inserted' = 0
    /\ UNCHANGED <<wall, runs, admits>>

(* The steps of a handler that is there.                                     *)
Handle(s) ==
    RateLimit(s) \/ RefuseKey(s) \/ Replay(s) \/ Run(s) \/ Drop(s) \/ Record(s) \/ Complete(s)

GateNext ==
    \/ GateTick \/ OthersRecord \/ Restart
    \/ \E r \in Requests : Sign(r) \/ \E s \in Slots : Identify(s, r)
    \/ \E s \in Slots : Handle(s)

GateSpec == GateInit /\ [][GateNext]_gateVars

(* Time passes (steps of handlers take none, so this must be said), handlers  *)
(* are polled, and the client keeps asking, now and then while its message   *)
(* is valid.                                                                *)
GateFairSpec ==
    /\ GateSpec
    /\ []<><<GateTick>>_gateVars
    /\ \A s \in Slots : WF_gateVars(Handle(s))
    /\ \A r \in Requests : WF_gateVars(Sign(r)) /\ SF_gateVars(\E s \in Slots : Identify(s, r))

-----------------------------------------------------------------------------
(* Properties.                                                               *)

(* A restart forgets the window that it ends: wherever windows open, no      *)
(* window_secs of time see more than twice max_per_window requests admitted, *)
(* and max_per_window once more for each restart.                           *)
RestartBound == LastWindow <= (2 + restarts) * MaxPerWindow

(* A message passes identity for 2 * Tolerance + 1 seconds of the wall       *)
(* clock, and what ran is remembered for the TTL only.  Still no message     *)
(* runs more often than the TTL fits in between, three times with the        *)
(* code's 300 s and 300 s, and once more for each restart, however often it  *)
(* is sent, dropped and retried.                                            *)
MostRuns == 1 + ((2 * Tolerance + 1) * Sub - 1) \div (TTL * Sub)

SignedRunsBounded == \A r \in Requests : runs[r] <= MostRuns + restarts

(* The record named by an answer that retries are given is at                *)
(* /ama/proof/{id}, until more than max_entries actions, of all agents, have *)
(* been recorded: neither a restart nor a second run leaves one without the  *)
(* other.                                                                   *)
AnswerKeepsItsProof ==
    \A r \in Requests :
        entry[r].state = "done" /\ inserted <= MaxRecords => r \in records
=============================================================================
