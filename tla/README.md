# SAFA in TLA+

TLA+ models of SAFA (crates `safa-core` and `safa-daemon`): a local HTTP daemon
that executes an agent's file, shell and HTTP actions after validating them,
charging them to a budget and making them idempotent. The models are written
from the code; the documents under `docs/` are cited only for what they promise.

`PROJECT.json` maps every definition to the lines it models and lists the runs,
the mutants that show each property can fail, the findings, the hazards and the
theorems. The `MC*` modules and `.cfg` files are the instances TLC checks; the
`*Proofs` modules hold theorems checked by TLAPS.

## Inventory

| Component | State | Operations | Where |
|---|---|---|---|
| Idempotency cache | DashMap of key -> (result, created_at, in_flight) | `check_or_insert`, `complete`, `remove`, `purge_expired` | `IdempotencyCache` |
| SLIME authorizer | one `AtomicU64` per agent; policies fixed at boot | `try_reserve`, `check_only` | `SlimeAuthorizer` |
| Rate limiter | window start and count under a mutex, per agent | `check_rate_limit` | `RateLimiter`, run in `RequestGate` |
| Action endpoint and pipeline | the requests in progress, 8 permits, timers | admission, `handle_action`, `process_action` | `ActionService` |
| File actuator | files, temporary files | `file_write`, `file_read`, `cleanup_orphan_temps` | `FileActuator` |
| Shell actuator | a process group, two pipes, a timer | `shell_exec` | `ShellActuator` |
| Proof store | HashMap under a mutex, 10,000 records | `insert` (evicts any), `get` | `RequestGate`; order and verdict in `ActionService` |
| Identity binding | none; a shared secret per agent | `verify_identity`: timestamp window, HMAC | `RequestGate` |
| HTTP actuator | none that outlives a request | `http_request`: DNS, redirects, checks on the reply, body bound | `HttpActuator` |
| Request validation, newtypes | none | exclusivity, paths, arguments, allowlist, bounds | `RequestValidation` |
| Configuration | the files of `config/`; fixed once loaded | `AmaConfig::load`, `load_agent_configs` | `BootConfig` |
| Manifest | none | what it publishes and hashes of an agent | `Manifest` in `BootConfig` |
| Start-up and shutdown | the whole in-memory state | order of start-up, loss of state | `BootConfig`, `RequestGate`, `FileActuator` |
| Status, health, version | none of their own | formatting | not modelled |

How they interact. A request passes the admission of `build_router`
(concurrency limit inside a 30 s `TimeoutLayer`), then `handle_action`: agent,
identity, rate limit and key are checked without touching shared state other
than the limiter; the cache answers or makes the handler the key's owner; the
owner validates, reserves capacity and actuates, writes a proof record, and
commits the answer to the cache. Handlers run on tokio's threads, up to eight at
a time, and share the cache, the counters, the limiters, the proof store and the
workspace. No lock is held across two of these, so every pair of steps
interleaves. A handler's future is dropped at an `await` by the deadline or a
disconnect, and nothing after that `await` runs.

What is hard, and what makes each part correct:

- *Cache.* Three separately locked steps per lookup, expiry, and owners that
  disappear. Correct when one owner runs a key at a time, an owner's entry
  survives it, a key is not granted twice within the TTL, a recorded answer is
  stable, an abandoned key unblocks, and the size is bounded.
- *Authorizer.* A lock-free loop. Correct when the counter is exactly the sum of
  what was authorized, within budget, refusals are final, and calls return.
- *Limiter.* A window reset. Correct when a window admits its rate and no more,
  refuses nobody early and starves nobody.
- *Gate.* Three clocks: whole seconds of the wall clock for a message's validity,
  the limiter's window, the cache's TTL; and a restart, which forgets all but the
  first. Correct when one signed message runs a bounded number of times however
  often it is sent, and an answer that is replayed still has its proof record.
- *Service.* Timers, retries and disconnects across all of the above. Correct
  when effects on a key are a TTL apart, an acknowledged answer is what a retry
  gets, its proof record is already there, and requests end.
- *Files.* System calls of concurrent actions, and crashes. Correct when files
  change atomically, nothing is left behind, and reads tell the truth.
- *Shell.* A program that does what it likes. Correct when the handler ends, no
  process outlives the limit, and lost output is flagged.
- *HTTP.* Names that are looked up twice, redirects, servers that stall. Correct
  when an answer comes from an allowed URL, is whole or flagged, and the request
  ends.
- *Configuration.* Files read one by one, twice over, while an operator edits
  them. Correct when what is served is what the other parts assume, and its hash
  depends on the files alone.

## Modules

**`IdempotencyCache`.** A task is a handler's use of the cache:
`CheckPurge` (`purge_expired`), `CheckLen` (the capacity snapshot), then one of
`EntryNew`, `EntryInFlight`, `EntryCached`, `EntryFull` under the entry lock;
`FullRemove` is what the handler does on `Full`; an owner ends with `Complete`
or, dropped, with `Abandon`. `entries` is the map, `atCapacity` the local.
`sinceGrant`, `lost` and `contested` are history variables: time since a New
answer, keys whose entry a Full path removed, and keys whose running owner lost
its entry that way. Time is an entry's age in ticks, saturating past the TTL.

**`SingleFlight`** is the promise: absent, in flight, done, one runner.
`IdempotencyCacheRefinement` maps the cache to it: an entry past its TTL is
absent.

**`SlimeAuthorizer`.** `ReserveEnter` (policy), `LoadAdmits`/`LoadDenies` (load
and `checked_add`), `CasSucceeds`/`CasFails` (`compare_exchange_weak`, which may
fail spuriously), `CheckOnlyDenies` (a dry run). `granted`, `denied` and `losses`
(how often a call found the counter moved) are history. **`CapacityBudget`** is the
promise, an indivisible reservation.

**`RateLimiter`.** `NewWindow`, `Admit` and `Reject` are the three ways through
`check_rate_limit`. `admits` is history: `admits[d]` counts what was admitted in the
last d ticks and the current one, so that what a sliding window holds is read off
without a sum. `SlidingBound`, twice the rate, is what the limiter alone keeps to.

**`RequestGate`** extends `RateLimiter` with everything else that the daemon
remembers of an agent between requests. A request is a signed message with a key
of its own: `Identify`, `RateLimit`, then `RefuseKey`, `Replay` or `Run`, and after
a run `Record` (the proof store, shared with `OthersRecord`), `Complete`, or `Drop`
at an await. `behind` is `now_secs - timestamp` in whole seconds and `frac` the
ticks into the current one; `entry` is the cache's entry of the message's key,
its lookup in one piece (`IdempotencyCache` has the three). `Restart` empties all
but the wall clock and the history; `Sign` replaces a stale message. `runs`,
`inserted`, `restarts` and the limiter's `admits` are history, kept across restarts:
`RestartBound` counts what a client can get out of them.

**`BootConfig`** is `AmaConfig::load`, one step per file read: `ReadMain`, then
`ListAgents`, `ParseAgent`, `ListAgain`, `HashAgent`, `CrossValidate`, or
`SynthesizeDefault` from the `[slime]` section; `Serve`, `Stop`, and `Edit` of any file
between any two of them. `touched`, `found` and `last` are history: was the boot
disturbed, what did it find, and how did the last undisturbed one come out.

**`HttpActuator`** is one `http_request`: `Resolve` (`validate_dns`), `Redirect`
(reqwest's, external), `Reply` (address and final URL), `ReadBody`, or `Fail`,
`TimerFires`, `Drop`.

**`ActionService`** composes the cache (`INSTANCE`, step for step) with the
budget of `CapacityBudget` (which `SlimeAuthorizer` implements) and the steps of
admission, `handle_action` and `process_action`. `Form` says what becomes of a
request: not JSON, invalid, refused by policy, dry run, file action, or an action
over an await.

**`RequestValidation`** has no state: `Accepted` is steps 1 to 4 of
`process_action` (`FieldsFit` for `validate_field_exclusivity`, `Canonical` for
`canonicalize` with one operator per newtype), and `Argv` the substitution of
arguments into a command that `actuate` makes later. Strings are sequences of
their parts between slashes.

**`FileActuator`.** `BeginWrite`, `CreateTemp`, `FillTemp`, `Rename`,
`WriteSucceeds` or, from anywhere before the rename, `WriteFails`; `Look` and
`Read` for `file_read`; `Crash`, and `Start` for the clean-up. **`AtomicFiles`** is
the promise: a write takes effect in one step or not at all.

**`ShellActuator`.** The handler (`Spawn`, `Capture`, `Captured`, `Finish`,
`TimerFires`, `Kill`, `Reap`, or `Drop`) against a process group (`Write`,
`Fork`, `Exit`) that may ignore signals and block on its pipes. `late` is history:
what was written to a stream after its read.

## Runs

| Run | What it shows | Bounds |
|---|---|---|
| `cache_core` | six safety properties of the cache | 2 tasks, 4 keys, room for 2 entries, TTL 2: both snapshots can pass together, so up to 3 entries (one key fewer than there are) exist, the cache fills, entries expire under a lookup, and a task whose Full path removed an entry can come back for its key |
| `cache_live` | refinement of `SingleFlight` and `KeyUnblocks`, under fairness | 2 tasks, 2 keys, 3 entries: never full, which is the refinement's hypothesis |
| `cache_full_path` | **violation**: the Full path deletes a live entry | 2 tasks, 2 keys, 1 entry |
| `slime` | exactness, finality, bounded losses, termination, linearizability | 2 callers, 2 agents, a two-bit counter: one budget is the counter's maximum, so that `checked_add` overflows before the budget is exceeded |
| `gate` | twice the rate at most and once more for each restart, no early refusal, no starvation; how often a signed message runs; answers keep their proofs | 1 message in 2 handlers, seconds of 2 ticks, actions of up to 1 tick, tolerance and TTL of 1 s (equal, as in the code): a third run fits, which is the most there may be; a store of 2 records, 1 restart, 2 per 3 ticks |
| `service` | effects a TTL apart, replay of acknowledged answers, which tell whether the action was started, proof before replay, cache used as specified | 2 slots, 2 keys, 1 entry; an HTTP request and a write, on a budget that the third action exceeds; deadline and action limit below the TTL, as in the code |
| `service_live` | every request ends; what is started is what was sent, for intents with well-formed templates | 2 slots, 1 permit: one request waits for the other; eleven bodies on one key: each action class, each way to be refused, and one that is not JSON |
| `files` | atomic files, no orphans, faithful reads | 3 actions, 2 targets (one named like a temporary file), contents below, at and above the cap |
| `shell` | the handler ends, and leaves nothing behind after a timeout; an unflagged answer lacks only what was written after the reads, or is the timeout's | pipes as large as the buffers, a program that writes 5 units to pipes of 2 |
| `shell_truncation` | **violation**: output is lost without the flag | as above |
| `boot` | what is served is usable; fingerprints tell what is enforced | 2 agent files of 4 contents or none, 2 sets of main files: duplicate ids, a limit above its capacity, a file that does not parse, two keys of one domain, no table at all, no directory |
| `http` | answers are vetted and whole or flagged; requests end | 3 URLs, two listed and one of these not in its normal form, which is not listed; 1 Location that is not https; a public and a mapped loopback address; 3 redirects, as in the code, of which a fourth is refused; bodies of 0 to 3 units against a cap of 2, one cut inside a character; 3 ticks for the timer |

Symmetry is used on slots, tasks, keys, results and actions, in runs of safety
properties only. `shell`, `shell_truncation` and `http` are one action each
and stop when it has ended, so deadlock is not checked there; everywhere else it is.

### Findings

1. `remove()` after `Full` (`server.rs:399`) can delete another request's live
   entry: purge makes room between the snapshot and the removal, the other
   request is granted the key, and after the removal a third is granted it again.
   `SpacedGrants`, `OwnerIsProtected` and the service's properties hold but for
   the keys this touches, which the history variables single out.
2. `shell_exec` reads each pipe once. Whatever is written afterwards is lost and
   `truncated` stays false. `UnflaggedLoss` says what else is lost without the flag:
   the answer of the timeout (`shell.rs:122-127`) drops everything that was captured,
   after the whole time limit and with an exit code and a stderr that say so.

Also seen, without a run of its own: the limiter is a fixed window where
`CAPACITY_MODEL.md:40` says sliding (`SlidingBound`, twice the rate, is what holds,
and `RestartBound`, once more for each restart);
nothing kills the program of a handler that is dropped by the 30 s deadline or a
disconnect (`Contained` has it as its one exception); redirects are checked at
their end only, and a POST is followed too, where `THREAT_MODEL.md:22` and the
message at `http.rs:126` have each one re-validated and POST's refused; a URL that
is allowed in a form that is not normal is sent, and its answer then refused
unless the normal form is allowed as well; a failed action's error body carries
no action id, so that its proof record is kept but cannot be asked for
(`server.rs:512`); the proof store evicts an arbitrary record where the comment at
`audit.rs:33` speaks of the TTL and the oldest; the manifest's hash does not cover
domains, intents or the allowlist; two keys of a domains table that name one
domain make its policy depend on the boot (`config.rs:233`), and so may `enabled` in
the status (`config.rs:437`); a replayed error has HTTP status 200
(`server.rs:386`); file actions run synchronously inside their timeout, which
can never fire (`pipeline.rs:168`); the queue for a permit is outside the 30 s
timer (`server.rs:120`); the cache can exceed 10,000 entries by the requests in
progress less one (`BoundedSize` is the exact bound); an action that was
authorized, charged and started is recorded as IMPOSSIBLE when its actuation
fails (`server.rs:466`); a read overtaken by a rename is cut to the old length
without the flag, and a cap inside a character is refused as not UTF-8
(`file.rs:135-145`); the clean-up removes user files named like temporary ones
(`file.rs:188`); a template whose placeholders are not numbered 0, 1, ... loses
arguments or keeps placeholders (`pipeline.rs:207`, where `2026-03-13-ama-p0-design.md:341` rules such out;
`OnlyWellFormedIsWhole` proves that every such template does, and nothing checks for one); methods and body limits of
allowlist entries are never looked at (`pipeline.rs:139`).

## Fairness

- Cache: an owner's handler ends, because tokio polls it and the deadline drops
  it; time passes. No request is assumed to arrive.
- Authorizer: a thread in the loop keeps running (weak fairness), and
  `compare_exchange_weak` retried on an unchanged counter succeeds in the end
  (strong fairness on success; spurious failure is all that stands against it).
- Gate: time goes on (a tick happens again and again: handlers' steps take none, so
  weak fairness would not say it), handlers are polled, and a client keeps asking
  while its message is valid and signs another when it is not. Only `NoStarvation`
  uses it; a client that asks between two refusals is the hypothesis of the claim.
- Service: time passes, timers fire, the FIFO semaphore hands its permits on and
  runnable handlers are polled. Nothing is assumed of clients or of the network.
- Shell: the handler is polled and time passes; nothing is assumed of programs.
- HTTP: time passes and the timer fires; nothing is assumed of names and servers.

## Proofs

`IdempotencyCacheProofs`, for any number of tasks, keys and entries and any TTL:

- `GrantsAreSpaced`, by `GrantInv`: an entry is as old as its key's last grant,
  and a key without one was granted a TTL ago or lost its entry to a Full path.
  `SpacedGrants` speaks of steps and history and is not inductive without the
  link between the history and the map.
- `OwnersAreSole`, `OwnersAreProtected`, `DoneAnswersAreStable`, by `OwnerInv`.
  They assume `HoldsAreShort` (a handler is shorter than the TTL): without it an
  owner's entry may expire under it. The two ownership properties need each other:
  an owner's live entry is what keeps others from becoming owners.
- `SizeIsBounded`, by `SizeInv`: entries and tasks about to insert on the
  strength of a snapshot are bounded together. The bound on the entries alone is
  not inductive, a snapshot being a promise of an insert.
- `LosslessGrantsAreUnique`: `NoDuplicateGrant`, the documents' promise that
  `cache_full_path` refutes, holds of every behaviour in which no Full path removes an
  entry (`Lossless`). The finding is therefore the only way to break it.
  `GrantsAreUniqueBelowCapacity` discharges that hypothesis where there are fewer keys
  than entries (`NeverFull`), by `NothingLost`: then no snapshot reports a full cache.
- `LosslessIsSingleFlight` and `SingleFlightBelowCapacity`: every step of the cache is a
  step of `SingleFlight` or none (`StepSimulates`), assuming `HoldsAreShort`. It needs
  `LosslessInv`: an owner has a live entry and no two tasks own a key, for a key that
  someone runs must not look absent. The fairness of `SingleFlight!FairSpec` is left to
  `cache_live`.

`SlimeAuthorizerProofs`, for any callers, budgets and width of the counter: the
invariant `ExchangeIsChecked` (what a caller is about to store was checked with
the value it compares with) gives the type, exactness and finality of refusals,
and shows each step of the loop to be a step of `CapacityBudget` or invisible.
`RetriesAreBounded` is the safe part of `ReserveReturns`, by `LossInv`: what a caller
compares with lies between its losses and the counter, so that a lost exchange leaves
room to count it. Only spurious failures are then left to fairness.

`RequestGateProofs`, first for the limiter it extends, with any window and rate: types,
`WindowBudget`, and `SlidingIsBounded`, by `Slid`: the last d + 1 ticks have admitted no
more than the window's own admissions if d is within its age, and one rate more if they
reach back before it. The bound on the last `WindowSecs` alone says nothing of what is
still in that span at the next tick. Then for the gate, with any messages, handlers, tolerance, TTL, rate, store and
number of restarts:

- `GateTypeCorrect`, with `Hands` (who carries what): the bound of the store is a
  cardinality, and an eviction followed by an insertion keeps it
  (`EvictedFits`, `InsertKeeps`).
- `GateWindowsAreBounded`: a step of the gate is a step of the limiter, none, or a
  fresh start (`LimiterSteps`), so the limiter's lemma carries over.
- `RestartsAreBounded`, by `LimiterInv`: `Slid` again, with one more rate for each
  restart. `RejectsAreEarned`, by `Seen`: what the window admitted is in the history,
  which no restart empties.
- `SignedRunsAreBounded`, by `RunBound`: with n runs that no restart excuses, n - 1
  lives of an entry (a TTL each: the purge removes it at exactly that age), and the age of
  the current one, have passed since the message became valid. The bound on runs
  alone says nothing of when they happened. It rests on `RunsAreBrief`, for a run that outlasts its entry may have a rival. The
  rest is arithmetic on products (`Products`, `Fits`, `Wraps`).
- `AnswersKeepTheirProofs`, by `Owners` (a message that runs has one handler, and an
  entry that is younger than the TTL), `Stored` (as many records as insertions, up to
  max_entries of them) and `Recorded` (a handler that recorded still has its record).
- `GateIsSingleFlight`, by `Owners`: the gate's entries are the table of `SingleFlight`, as
  the cache's are, except that a restart empties it. Looking a key up in one step, as the
  gate does, thus promises its clients what the cache's three steps keep.

`BootConfigProofs`, for any files, contents and edits: types, and
`ServedConfigIsUsable`, by `LoadInv`: agents are fit and apart as they are loaded,
and after the first listing there is one or a file left to make it. `FingerprintsAreTrue`,
by `PrintInv`: the agents of an undisturbed boot are those of the files that are no
longer to be parsed (`AgentsOf`), and its hashes those of the files below all that are
yet to be hashed, each in the place that its name has among them (`HashesOf`, with
`Rank`, a cardinality). Places make an induction over sequences unnecessary: a file
hashed last is above all others and moves none (`HashesGrow`), two lists for one set of
files agree place by place (`HashesOfOneDisk`), and where two sets of files share a list,
each agent of the one is made of the contents of some file of the other (`AgentsTold`).

`FileActuatorProofs`, for any actions, files and contents: types, `NoOrphansAreLeft`,
`ReadsAreFaithful` by `Current` (what metadata said is true until a rename), and
`WritesAreAtomic`: the rename is the step of `AtomicFiles` that takes effect, and
creating and filling the temporary file are invisible.

`ShellActuatorProofs`, for any limits: types, and `GroupIsContained` by `Timed`: until
the group is killed its age is told by the clock of the timer in force.
`LossesAreOfTwoKinds`, by `Told` (a read that does not fill its buffer empties the pipe, so
that what is in the pipe afterwards is what came later) and `Timed`: an unflagged answer
lacks what was written after its reads, or is the timeout's and lacks everything.

`HttpActuatorProofs`, for any URLs, addresses and bodies: types, and `AnswersAreVetted`,
by `Vetted` (what the checks on the head established holds while the body is read) and
`Whole`.

`ActionServiceProofs`, for any slots, requests and configuration:
`AcceptedRunsAsSent` (what validation accepts, the actuators run as it was sent),
by `ArgvIsWhole` (with as many arguments as a well-formed template has
placeholders, substitution is total and loses nothing), and
`ServiceStartsAsSent`, by `SentInv`: a slot that runs an action has a live form,
hence an accepted body. Both have as their hypothesis that the templates are
well-formed: the shipped intents' are, but neither the loader (`config.rs:529-550`) nor
the mapper (`pipeline.rs:112-123`) looks. `OnlyWellFormedIsWhole` shows that no weaker
hypothesis would do: substitution is whole exactly for well-formed templates. Then the composition, with `IdempotencyCacheProofs`
instantiated for the service's cache (`CacheFits` shows that its constants are fit):

- `ServiceTypeCorrect` and `ServiceUsesCache`, by `Links`: a slot's phase says where its
  task of the cache is. Each step of the service is then a step of the cache or none,
  and the cache's lemmas hold in it. `ServiceOwnersAreAlone` is one use: with
  the timers, the cache's hypothesis `HoldsAreShort` comes down to `BlocksAreShort`, that
  a file action blocks for less than the TTL (`HoldsFit`). The code does not bound that,
  and the theorems below that speak of owners rest on it too.
- `ServiceActsOnce`, by `RivalInv` (an owner is no younger than its key's last grant,
  and two owners of a key mean that it was granted again after a removal) and
  `EffectInv` (no action is more recent than the last grant, but the owner's).
- `ServiceProvesFirst` and `ServiceReplays`, by `AnswerInv`: an owner's entry is in
  flight, so that nothing is stored while a record changes; what was answered is what
  the entry has, if there is one. Both need `RivalInv`: `EffectsSpaced` and
  `ProofPrecedesReplay` say nothing of who else owns a key.
- `ServiceTellsEffects`, by `TellInv`: an owner whose key was not granted twice has not
  been answered, has begun its action exactly when it runs or has run one, and is about
  to answer just that. `AnswersTellEffects` alone says nothing of an answer that is yet
  to be given; that an owner which decides has not begun comes from `EffectInv`.
- `LosslessActsOnce` and `ActsOnceBelowCapacity`: without the removals of the Full path,
  and so whenever there are fewer keys than entries, `EffectsSpaced` holds with no
  exception. `ServiceIsSingleFlight`: to its clients the whole service is then the table
  of `SingleFlight`; its hypothesis on owners is again `BlocksAreShort`.
- `ServiceChargesBudget`: the service refines `CapacityBudget`, the owner of a live
  request that is yet to decide being the pending call. With `SlimeAuthorizerProofs`, in
  which the compare-and-swap loop refines the same module, this is what lets
  `ActionService` reserve in one step.

The assumptions are the modules' ASSUMEs, which TLC evaluates in each run:
positive capacities and TTL, magnitudes of at least 1 (`validate_magnitude`),
budgets within the counter's type, timers below the TTL, numbers in a
configuration that are not negative (they parse into unsigned types), tags
distinct from values, a magnitude limit for each agent and domain (0 where it has none).
Three are assumed of the environment and enforced by no code: `BlocksAreShort` (a file
system blocks a handler for less than the TTL of 300 s), `RunsAreBrief` (the same of the
gate's runs), and, in two theorems and by `TemplatesAreWellFormed` in the runs of
`ActionService`, that templates are well-formed.

Every safety property of a passing run is a theorem; `WindowBudget` and the types of
`BootConfig` and `ShellActuator` are theorems that no run repeats. Model-checked only: liveness
(`KeyUnblocks`, `ReserveReturns`, `NoStarvation`, `EveryRequestEnds`, `ActionEnds`,
`RequestEnds`), which needs fairness and ENABLED, out of the provers' reach; and of
`ImplementsSingleFlight` the fairness, its safety being `LosslessIsSingleFlight`.

## Abstractions

- `purge_expired` and `len` visit DashMap's shards one by one; both are one step
  here. A purge that sees an entry later than another still decides by its age.
- `remove` at `server.rs:441` is unreachable (the agent was resolved before) and
  left out. Domain counters are statistics and left out.
- A gate's refusal (unknown agent, identity, rate limit, bad key) is one step of
  `ActionService` that touches nothing else; the gate has a module of its own,
  where a refusal that changes nothing is no step.
- An owner's code between two awaits takes no time, but for file actions, which
  may block up to `MaxBlock`, assumed below the TTL of 300 s (`BlocksAreShort`). If a file system
  blocks longer, a second handler may own the key; the code has no bound.
- A restart is in `RequestGate`, for one agent, and in `FileActuator`; `ActionService`
  has none. Across a restart a key is new, which is what `SignedRunsBounded` counts.
- Gate: the code of a handler takes no time but for the action itself; a key
  belongs to one message, as its client chose it; an HMAC tells what was signed.
  The wall clock does not jump; a client's clock may be ahead of it.
- Files: links, directories, permissions and other users of the workspace are
  left out; a crash is of the process, and what was written stays written.
- Validation: backslashes, `.` segments and links that cannot be resolved are left
  out; links are as they are when the path is checked; a pattern ends at a slash.
- Shell: programs stay in their process group; output is counted, not spelled.
- Configuration: the four main files are one value, read and hashed as one; which
  of their own checks fails is left out; a hash is what was hashed.
- HTTP: a URL is a value with a normal form; a body its length and where it may
  not be cut. reqwest's own 15 s timer is left out: tokio's is armed before it and is
  as long.

## Not modelled

- `/ama/status`, `/health`, `/version`, `/ama/manifest/{agent}`: they format counters
  and configuration that other modules own and change nothing.
- Error classes, wording, JSON, the audit log: output only. That two errors have
  different classes matters to no property here.
- Intents and the allowlist beyond their use in `RequestValidation`: they are copied
  from the files as they are.
- HMAC-SHA256, SHA-256, UUIDs: a signature is right or it is not, a hash is what was
  hashed, an id is fresh.
- Graceful shutdown: what it adds to a crash is that handlers finish, which every
  property that allows a crash covers.
- The example programs, `slime-reference` documents and test helpers.
