# Agentic Wallet Guardian: TLA+ models and proofs

Guardian evaluates every action an AI agent wants its wallet to take and answers
ALLOW, WARN or BLOCK. This directory holds TLA+ models of its core (the decision
engine and the storage under it, the per-agent capabilities, the API's gate, the
transactions it builds, its caches and lists, the attestations, the on-chain
validator), the TLC configurations that check them on small instances, and proofs
that TLAPS checks for every instance. File and line references are to the repository root.

- [Inventory](#inventory): the system's parts, their state, their properties
- [Modules](#modules): which module models which code, and how
- [Runs](#runs): what TLC checks, with which bounds
- [Findings](#findings): where the code and its own documentation disagree, and
  [observations](#observations) beside them
- [Proofs](#proofs): what is proved, and from what
- [Abstractions](#abstractions) and [what is left out](#not-modelled)
- [Plan](#plan)

To check: `tlc -config MCCapabilityDurable.cfg MCCapabilityRegistry`, and
`tlapm CapabilityRegistryProofs.tla`. `PROJECT.json` maps every definition to the
lines it stands for.

## Inventory

The service has three entry points (REST API, MCP server, Python) and they all
end in `DecisionEngine.evaluate`. FastAPI runs the synchronous `/decision` handler
in a thread pool, so evaluations run in parallel in one process; with PostgreSQL
several processes share one history. No lock is held across an evaluation: each
read and each write of the history or of the spend log is a step of its own.

| Component | State | Operations | Interacts through |
|---|---|---|---|
| `decision/engine.py`, `memory/history.py` | the decision history of each agent | `evaluate`: hard rules, reputation, size, signals, capability, policy, fusion, verdict, record | the history (three reads, one write), the analyzers, the capability registry |
| `policy/capabilities.py` | `_grants`, `_daily_spend` or the stored spend log | `grant`, `revoke`, `evaluate_capability`, `_record_and_sum_today` | called inside an evaluation; operators call `grant` and `revoke` at any time |
| `memory/storage.py`, `sqlite_storage.py`, `postgres_storage.py` | rows by key, trimmed to the newest `MAX_ROWS_PER_KEY` | `append`, `get(limit)`, `get_since` | shared by history and spend log |
| `decision/scoring.py`, `reputation/agent.py` | none | `fuse`, `score_for`, `history_size` | pure, over the signals and the history |
| `intelligence/*` analyzers | none | profile to signals | pure, over the answers of providers |
| `policy/engine.py`, `decision/rules.py`, `decision/intent_verification.py` | none | violations | pure |
| `intelligence/goplus_client.py`, `token/decimals.py` | process-wide caches | lookup, insert, evict | shared by worker threads |
| `intelligence/threat/blocklist.py`, `scripts/refresh_ofac_list.py` | the last list that parsed | reload on mtime, rewrite | through a file |
| `api/security.py` | per-identity request times, LRU order | rate limit, agent-bound keys | in front of the API |
| `attestation.py`, `oaa.py` | none (signed tokens) | issue, verify | decision, capability snapshot |
| `onchain/src/GuardianValidator.sol` | `guardianSignerOf`, `consumed` | `onInstall`, `onUninstall`, `validateUserOp` | called by the ERC-4337 EntryPoint or directly; reads what `onchain_attestation.py` signs |
| `simulation/tx_builder.py`, `arc.py` | none | build; evaluate, rebuild, prepare | RPC nodes, the decimals cache |
| `wallet/providers.py` | none | the search for a wallet's first block | an archive node |

What is hard here, and hardly reached by the repository's tests:

- *transactions*: the statements of an append run on several connections, any of
  them may fail, and a connection may be left inside a transaction;
- *interleaving*: two attempts of one agent charge and sum their spend log in any
  order; three reads of the history see three different histories; a timestamp is
  taken before the row that carries it is appended;
- *atomicity*: pruning the in-process list is a read, a filter and an assignment;
- *restarts*: grants live in memory, the spend log and the history may not; an
  evaluation may die after it has charged or recorded;
- *bounds*: databases trim each key; the reputation window drops the oldest
  record whenever a new one arrives; the 24 hour window has two edges;
- *replay*: an attestation may be presented again, by another path, or after the
  module has been removed and installed again; several may be outstanding at once, and
  spending or misusing one must not cost another;
- *partial failure*: an amount the rules rejected stays in the history that later
  evaluations take statistics of; a node that fails once answers the next time, when
  the transaction is built again; a list file is half written when it is read;
- *staleness*: a cached verdict, a snapshot, a policy fingerprint taken after the
  decision it is about.

What makes each part correct: an agent never gets more than its daily limit
approved, and every attempt is charged once (capabilities); a conclusive finding
blocks whatever else is known, and what is returned has been recorded once
(engine); a caller gets its share of requests, and only for agents whose key it
holds (API); an append is one step and what an engine was told is stored stays
readable (storage); a lookup is current and the cache bounded (GoPlus); a deny list
loses nothing on its own (lists); a transaction does what the intent asks and what
is released was allowed and simulated (builder, Arc); a token says what was decided
(attestation); a reputation moves with the outcomes (reputation); an operation passes
only by spending an unexpired ALLOW that the installed signer gave for exactly
that operation (validator). `PROJECT.json` lists the hazards at their lines with
the properties that watch them.

## Modules

**`CapabilityRegistry`** (`policy/capabilities.py` with the storage backends).
`grants` is `_grants`, `spend` the log of an agent in whichever backend is
configured, `clock` is `time.time()`. Every element of `Calls` is one run of
`evaluate_capability`, with a program counter: `Lookup` (line 87), `CheckExpired` or
`CheckStatic` (91-123), `Stamp` (74), then either `StorageAppend` (77, insert and
trim in one transaction) or the three steps of the in-process list, `LocalPrune`,
`LocalAssign`, `LocalAppend` (80-82), and `SumToday` (78 or 83, 124-130). `Threads`
bounds how many calls are in flight. `Grant` and `Revoke` are the operator's,
`Restart` loses grants and calls in flight and keeps a durable log. The history
variable `forgotten` marks agents that lost rows to a trim or a restart: the
claims about sums are made for the others. A rejected attempt is charged too, because none of the
static checks returns early; the model has it the same way.

**`RiskScoring`, `DataProviders`, `SignalAnalyzers`, `PolicyChecks`** are the pure
parts of an evaluation as operators: `fuse`, the reputation and the verdict; what
each wallet, token and contract provider makes of the answer it got, a failed one
included; the decision tables of the five analyzers with their scores, weights and
confidences; the hard rules, policy caps, intent verification and the behavioural
baseline.

**`DecisionEngine`** (`decision/engine.py`, `memory/history.py`) composes them.
One evaluation is `HardBlock` or `Submit`, `ReadReputation`, `ReadSize`, `Collect`
(analyzers, dry run, verification, capability), `Decide` or `Fail`, and `Record`. The
record precedes the return in the code, so `Record` ends in stage `returned`. What
the providers may answer is the set `Worlds`; the outcome of the capability check
is one of its fields, and `CapabilityRegistry` says when it can be which.

**`StorageTransactions`** (`memory/sqlite_storage.py`, `postgres_storage.py`) takes
apart what those two call one step: the statements of `append` and `get` for one key,
on several connections. With SQLite a connection begins a deferred transaction
(`SBegin`), gets the write lock (`SInsert`) or finds the database locked (`SBusy`),
trims, commits or fails; `SGet` reads in whatever transaction the connection is in.
With PostgreSQL the DELETE chooses its rows (`PTrim`) before it waits for their locks
(`PLock`), and a commit may be lost on its way back (`PCommitLost`). `Crash` is the
process. The databases are external, modelled as SQLite's WAL mode under Python's
implicit transactions and PostgreSQL's READ COMMITTED. **`BoundedLog`** is the
abstract store: one step adds one row and drops only rows with `MaxRows` newer ones.
`ImplementsLog` is that refinement, with a `slack` of one row for each other
PostgreSQL connection, whose rows an open transaction does not see.

**`ApiGateway`** (`api/security.py` with the endpoints of `api/main.py`). `order` and
`bucket` are the keys, least recently used first, and the lists of `_counters`.
`dispatch` does not await before it hands a request on, so `Admit`, `Refuse` or
`PassUnlimited` is one step; it includes the endpoint's own check of the key, which
reads the request and the configuration only. `Restart` empties the counters and,
with them, the request log the properties are about: no claim spans a restart.

**`GuardianValidator`** (`onchain/src/GuardianValidator.sol`,
`onchain_attestation.py`). A digest is the record it is the hash of. Signers sign
any decision, with an expiry from a clock up to `Skew` away from the chain's.
`HandleOp` is the validator called by an EntryPoint that checks the account's
nonce and increments it, `ValidateDirectly` is any other caller, `OtherOperation`
moves the nonce. What is presented is a signature that was handed out, with the
operation's own fields or with another decision or expiry put in.

**`AttestedExecution`** is the abstract gate: permits are issued, an operation
passes by spending an issued permit that allows it, once. `GuardianValidator`
implements it (`Implements`), with the signed attestations as the permits and the
successful validations as the spent ones.

**`TransactionBuilder`** (`simulation/tx_builder.py`) has the RPC builder as operators:
each refusal and each transaction, with its calldata as the record it encodes.
`EffectOf` says what executing a transaction does and `Asked` what an intent asks
for; both are written from the contracts' side and know nothing of the builder.

**`ArcPayment`** (`arc.py`, `token/decimals.py`, the build and dry run of
`decision/engine.py:155-172`) composes the builder with the two engines of the API,
each with a decimals cache of its own. A request is `PostDecision` or
`PostArcPrepare`, `BuildForSimulation`, `Simulate`, `VerifyIntent` (for an approval, one
more lookup of the decimals, `engine.py:189-191`), and for Arc `EvaluateAndGoOn`,
`Rebuild`, `CheckChain`, `EstimateGas`; a node may fail at each of them. Of the
evaluation it keeps the hard rules, the policy and the dry run; the outcome is any
that respects them, which `DecisionEngine` refines. `Deploy` puts code at a token's
address; `premature` marks tokens somebody asked for before that.

**`GoPlusCache`** (`goplus_client.py`): the shared `OrderedDict`, one operation of it a
step, as under the interpreter lock; `lookup` holds the local variables of a thread.
`KeyError` is an outcome (`RaiseKeyError`), not an error of the model.

**`AddressLists`** (`threat/blocklist.py`, `scripts/refresh_ofac_list.py`): `list` are the
lists of all processes, `listFile` what a reader of their file finds, `refresher` the
script between its fetch, its read, the truncation and the write. The operator edits,
damages or removes the file at any time but while the script has it open.

**`WalletAgeSearch`** (`wallet/providers.py:119-178`): the binary search round by round,
over an account whose activity need not be monotone, with a node that may fail.

**`OaaAttestation`** (`attestation.py`, `oaa.py`, `snapshot_for`): deciding, issuing and
verifying are separate steps, with grants that change in between and a verifier whose
clock is off by up to `MaxSkew`. A fingerprint is the grant it is the hash of.

**`MCCapabilityRegistry`, `MCDecisionEngine`, `MCStorageTransactions`, `MCApiGateway`,
`MCArcPayment`, `MCGuardianValidator`** give the constants values for TLC.
**`MCComponents`** puts the four small components side by side, which share no state:
`component` names the one that moves in a behaviour. **`MCServices`** adds the payments
of `MCArcPayment` as a fifth, and is what the run checks. The theorems are in
**`CapabilityRegistryProofs`, `DecisionEngineProofs`, `StorageTransactionsProofs`,
`ApiGatewayProofs`, `GuardianValidatorProofs`, `ArcPaymentProofs`** and
**`ComponentsProofs`**, the lemmas they share in **`DataLemmas`**.

Definitions whose comment begins with "Mutant" are variants that no specification
uses. Each is a plausible bug, and each property listed in `PROJECT.json` fails
when its mutant takes the place of the definition.

## Runs

Liveness is checked where the code promises it: a storage call that has begun
ends (`EveryCallEnds`), under weak fairness of `Proceed(c)`, the call's own steps. A
thread that runs is scheduled, sqlite3's busy timeout is finite, and PostgreSQL
grants a row lock when its holder is done. Nothing obliges a caller to begin or the
environment to fail. All other runs are of safety and assume no fairness: elsewhere
the code waits for nothing but its nodes, whose answer or timeout is one step. The
systems may stop (all calls answered, the clock at its bound), so deadlock is not
checked.

| Run | Shows | Bounds, and why they are enough |
|---|---|---|
| `capability_durable` | `DailyLimit`, `ChargedOnce`: two worker threads over a database never approve more than the daily limit in any window, and charge every attempt once, among grants, revocations and restarts; `LogOnlyGrows`: nothing but a trim takes back a charge | 3 calls with amounts 1 and 2 against limits 2 and 3: the limit is reached by one call, by two and exceeded by three; window 2 and clock 3: rows leave the window; the stricter grant expires at 1. There are never more rows than `MaxRows`, so nothing is trimmed here; `DurableLogOnlyGrows` covers every `MaxRows` |
| `capability_local` | `DailyLimit` for the in-process list when evaluations run one at a time | as above, one thread |
| `capability_local_threads` | violation: with two threads the list loses a charge | finding 2 |
| `engine_risk` | `FindingsStopActions`: in every combination of findings and for three reputations, a sanctioned address, a reverting dry run, a honeypot or a known malicious contract blocks, and a dry run that shows an unlimited approval never ends in ALLOW | 1 evaluation, every profile that reaches a distinct row of a table, reputations at 100, 50 and 0 with the real thresholds (80 and 40), deltas and floors; the window of 25 is smaller than the code's 500 (`reputation/agent.py:29`) and long enough to reach both ends of the scale |
| `engine_concurrent` | `UnknownIsNeutral`, `ReturnedOnceRecorded`; `ReputationFollowsOutcome`: a new ALLOW moves the reputation by 0 to 17, a WARN by -7 to 10, a BLOCK by -17 to 0, also when the full window drops a record; `FirstRecordUnderUnknownCap`: first evaluations that run together are all held to the cap of unknown agents, and again after a restart has emptied an in-memory history | 3 evaluations, durable and in-memory, 3 starting histories, window of 2 so that it is full and slides |
| `engine_non_finite` | violation: a NaN amount makes later evaluations fail | finding 1 |
| `storage` | `ImplementsLog`, `SessionGuarantee`: appends are one step of a bounded log whatever fails; what a process was told is stored it reads again, until enough newer rows are there; `EveryCallEnds` | 3 connections, both databases, 4 ids over a log of 1 row: two appends trim the same row while a third waits, an aborted id leaves a gap, a row is trimmed by its successor |
| `storage_stale` | violation: after a locked database a process reads the past | finding 3 |
| `gateway` | `LimitPerWindow`, `RefusedOnlyWhenFull`, `Bounded`: an identity gets no more than its limit through in any window, unless enough others came in between to evict it, and is refused only when it has had its limit; `OnlyOnOwnBehalf`: with authentication on, only the holder of an agent's key or of the master key touches its history | 5 identities over a table of 2, so that identities are evicted and come back; limit 2 in a window of 2, clock 3, 5 requests: refused, admitted again, evicted; three configurations: agent keys only, master key only, neither and no limit; every kind of header (an agent's key, the master key, an empty token, another scheme, none) |
| `services` | cache: `AnswersAreFresh`, `CacheBounded`, `RaisesOnlyUnderPressure`: racing lookups answer for their key, with what came in while they ran or was put into the cache less than the lifetime before they began, in a bounded table, and raise only if entries were pushed out or cleared meanwhile; lists: `ServedWasPublished`, `NoSilentDelisting`: a list enforces a version the file really held and loses nothing by itself; `AgeNeverOverstated`, `AgeIsExact`; `AttestedAsDecided`, `AcceptedInTime`; payments: `BuiltDoesWhatWasAsked`: what the builder makes of an intent does what it asks; `PreparedPaysWhatWasAllowed`: what is handed out for signing pays at most what was allowed, to the address the request names if it names one; `SecondBuildIsTheFirst`: it is what was simulated, if the builder made a transaction for the dry run (not if that failed or the caller gave `metadata.data`); `CacheIsTruth` | cache: 2 threads, 2 keys, 1 entry, lifetime 1 in 2 ticks: hit, expiry, eviction and clearing between any two steps; lists: 2 lists, 2 addresses, 2 edits; age: every activity of chains of up to 10 blocks, cap of 3 rounds, so that the cap bites from block 8 on; tokens: 2 agents, 2 decisions, lifetime 2, skew 1, clock 4; payments: 2 requests with 14 intents (every action type, missing fields, foreign chains, the same address on two chains) and 8 Arc payloads around the cap of 5 USDC, NaN and missing amounts, the caller's own calldata, addresses that are none; 0, 1 and 2 decimals |
| `goplus_raises` | violation: an eviction makes a lookup raise | finding 4; `Clearing` is off, because only tests call `clear_cache` |
| `validator` | `SingleUse`, `OnlyAttested`, `TrustedNow`; `KeptUntilSpent`: of several outstanding attestations each stays good until it is accepted itself, expires or loses its signer, whatever is presented with it or before it; and the validator implements `AttestedExecution` | one account, two signers, two calls, two request ids, two attestations, nonces 0 and 1, clock 0..2 with a skew of 1: replay, reinstallation with the other key, competing attestations for a nonce and the second of the expiry all occur |

`Calls`, `Signers`, `RequestIds`, `CallData`, `Lookups`, `CacheKeys` and `Payments` are symmetric: nothing in the models
tells their elements apart. `DailyLimit` is checked at every start of a window,
before time 0 as well.

The liveness run uses no symmetry. The history variables and fields `by` (who wrote a
row), `accepted`, `forgotten`, `ever`, `seen`, `premature`, `published`, `lastKept`,
`delisted`, `regranted`, `of`, `since`, `began` and `squeezed` exist only for the
properties. No guard of the code's steps reads them, but that SQLite and the ids of
its rows go by `ever`: AUTOINCREMENT never gives an id twice.

## Findings

1. **A rejected amount makes later evaluations fail** (code bug,
   `EveryEvaluationDecides`). `decision/rules.py` blocks a NaN or infinite amount and
   `_finalize` records it. Once an agent has five recorded amounts,
   `AnomalyAnalyzer` takes `statistics.pstdev` of all of them
   (`anomaly/analyzer.py:108`), which raises `AttributeError` on Python 3.11, the
   version of the Dockerfile. Nothing catches it: every later evaluation of that
   agent that has an amount ends without a decision. The REST schema may refuse
   such an amount earlier; the MCP server and Python callers do not.
   `tests/test_mcp_server.py` submits a NaN and looks at the first answer only.
2. **The in-process spend list loses charges** (code bug, `DailyLimit`).
   `history[:] = [...]` (`capabilities.py:81`) assigns a list built from an earlier
   read; a charge appended in between by another thread is gone, and more than
   `max_daily_amount` is approved. Only deployments without a storage backend for
   the registry are affected.
3. **A locked SQLite database leaves a process in the past** (code bug,
   `ReadsAreCurrent`). An INSERT that finds the database locked for longer than the
   busy timeout raises out of `append` (`sqlite_storage.py:63`), and nobody rolls back
   the transaction Python began for it. The engine's only connection stays inside it.
   The next SELECT fixes a snapshot; once another process commits, this one reads an
   outdated history, reputation and spend log, and each of its appends fails at once,
   until it is restarted. The module's docstring (`:6-8`, `:14-15`) offers the file to
   several processes and has SQLite serialize their writes. What the process was told
   before stays readable (`SessionGuarantee`), and the log itself is sound
   (`ImplementsLog`).
4. **A GoPlus lookup raises** (code bug, `NeverRaises`). A lookup finds a fresh entry and
   moves it to the end (`goplus_client.py:82-84`); between the two another worker thread
   can insert into the full cache and pop that entry, the oldest (`:115-116`), and
   `move_to_end` raises `KeyError`. The same happens at `:114` to an expired entry that
   was assigned in its old place. Neither line is inside the `try`, and the evaluation
   fails, although the client "fails SOFT by design" (`:17`) and its "whole contract is
   never raise" (`:107`). It takes a cache at its limit of 10,000 entries;
   `RaisesOnlyUnderPressure` is what holds.

### Observations

Seen while modelling, with no run of their own, because they are documented
limits, matters of one line, or both:

- `storage.py:22-25` forbids `get_since` to undercount an agent with many
  transactions in the window; the databases trim each key to 5000 rows on every
  append, spend rows included.
- `simulation/engine.py:77-82` says an unlimited approval alone forces a risk over the
  threshold of 80. The reputation discount comes after the floor of 82.8: a trusted
  agent (above 68) that acknowledged the approval gets a WARN. It never gets an ALLOW.
- `reputation/agent.py:5-6`: a WARN nudges the score down. A WARN that pushes a BLOCK
  out of the window raises it.
- `engine.py:14` and `220-221` speak of a penalty for unknown agents; their neutral
  score of 50 makes the adjustment zero.
- A request whose metadata has `data`, or whose first decimals lookup failed, is
  decided without a dry run of the transaction that Arc then builds and releases
  (`arc.py:97`); `SecondBuildIsTheFirst` holds for the others.
- The builder never asks whether a transfer's target is an address:
  `tx_builder.py:133` defines a laxer `_looks_like_address` over the imported one and
  `:262` does not use it; `/arc/prepare` asks only for a target that is not empty
  (`api/main.py:158`). `core/validation.py:15-18` means its check to keep such input from
  being ABI-encoded. The recipient of such a transaction is whatever its padding leaves
  (`Garbled`), and Arc hands it out for signing: the exception of
  `PreparedPaysWhatWasAllowed`. A bridge
  deposit is built for any `chain`, although the contracts are on Ethereum.
  `Meaningful` excludes both from `BuiltDoesWhatWasAsked`. A deposit of ETH ignores `l2_token`
  (`tx_builder.py:382-395`), and so does `Asked`.
- A call to an address without code answers no bytes, which `decimals.py:101` reads as
  0 decimals and keeps for good, also after a token is deployed there (`premature`).
- `blocklist.py`: nothing under `src/` calls `reload`; the first load of a torn file is
  an empty list. Solana addresses are kept in their case by the refresh script and
  lower-cased by the list.
- `refresh_ofac_list.py:96` writes in place: a crash leaves the file torn, and every
  later refresh ends at the parse of line 80. An address the operator adds between
  the script's read and its write is lost.
- `oaa.py`: the lifetime counts from the issue, not from the decision; `verify` turns
  only an expired signature into `InvalidOAAToken` and lets other errors of PyJWT
  through; `decision_to_oaa_token` passes its default `None` as "the default lifetime",
  so that a token without expiry cannot be asked for.

## Proofs

`tlapm` checks the eight proof modules to the last leaf, with Z3, Zenon and LS4. The
constants are arbitrary but for the assumptions the modules name, one for each
component (`RegistryAssumption`, `EngineAssumption`, `TransactionAssumption`,
`GatewayAssumption`, `ValidatorAssumption`, `BuilderAssumption`, `PaymentAssumption`,
`CapAssumption`, `UnitAssumption`, `CacheAssumption`, `ListAssumption`, `AgeAssumption`,
`OaaAssumption`); TLC evaluates all of them. Every property of a passing run but one,
the liveness of a storage call, is a theorem.

**`DataLemmas`** has what the other modules need of numbers, finite sets, sums,
sequences and counting. The provers cannot instantiate the library's induction
theorems, which take an operator; the module states induction over a *set* instead
(`NatSetInduction`: a set of naturals with 0 and the successor of each member is
`Nat`), and a property is turned into the set of the elements that have it. From this
follow the existence and uniqueness of the fold behind `SumFunction` (`SumEquation`),
that sums are monotone over injections (`SumAtMost`), and least and greatest elements.

**`CapabilityRegistryProofs`**, for any number of agents, calls and threads, any
row limit, window and clock bound:

| Theorem | Says | Assumes |
|---|---|---|
| `TypeCorrect` | `[]TypeOK` | nothing |
| `EveryAttemptIsChargedOnce` | `[]ChargedOnce` | a storage backend |
| `DailyLimitHolds` | `[]DailyLimit` | a storage backend, or one call in flight at a time |
| `DurableLogOnlyGrows` | `LogOnlyGrows` | a database |

`TypeOK` is not inductive: that an appended row is well formed rests on what the
call read earlier. `ArgumentsHeld` says which arguments a call holds at which stage
and `NeverLocal` that a storage-backed call never stands in the middle of the
in-process list. `ChargedOnce` needs `Unwritten` as well: a call that has not come
to its append has no row in any log, so the row it appends is its first. A trim
either removes nothing or sets `forgotten`, and `RetainedRows` says that it invents
nothing. `DailyLimit` is kept because a call adds up its window only after its own
row is in the log: of the calls approved in a window, the last to add up found the
row of every other (`WindowsFound`), each exactly once, so the sum of the approved
amounts is at most the total it compared with its limit (`ChargedAreCounted`). Over a
storage backend `WindowsFound` follows from `ChargedOnce`, and no order of the
timestamps is needed. The in-process list drops rows, so `ChargedOnce` does not hold of
it; with one call at a time (`OneInFlight`) a row that was dropped has left the window of
every call that can still count (`ChargedOrLeft`). That rests on the clock, which
does not run backwards (`ClockAhead`), on nobody writing the list between the pruning and
the assignment (`KeptIsPruned`), and on what pruning keeps: all the rows of the window,
none of them twice (`PrunedRows`). The run `capability_local_threads` shows what a second
thread does to it. For `DurableLogOnlyGrows` the log must never be
longer than the limit (`Trimmed`), otherwise one append could drop several rows.

**`DecisionEngineProofs`**, for any intents, answers of providers, thresholds of the
policy, window and number of evaluations, with and without a database:

| Theorem | Says |
|---|---|
| `TypesHold` | `[]TypeOK` |
| `FindingsAreHeeded` | `[]FindingsStopActions` |
| `UnknownAgentsAreNeutral` | `[]UnknownIsNeutral` |
| `FirstRecordIsCapped` | `[]FirstRecordUnderUnknownCap` |
| `DecisionsAreRecorded` | `[]ReturnedOnceRecorded` |
| `ReputationMovesWithDecisions` | `ReputationFollowsOutcome` |

Every score, weight and confidence stays in its range through all five analyzers and
the fusion (`SoundSignals`); a conclusive signal has a floor that neither the average
nor the discount of a reputation takes below the threshold, which is the content of
`FindingsAreHeeded`. The interleaving is in three facts: the size is read after the
score, so that an agent whose log is still empty has been scored as unknown
(`SizeReadLast`); whoever is about to write the first record kept to the cap of
unknown agents (`FirstUnderCap`); a call that has not returned has no record
(`NotYetRecorded`). `ReputationMovesWithDecisions` follows how the window shifts
when a record is added (`Shifted`): by the new record's delta and against that of the
one it drops, so by no more than the difference of two deltas (`NudgeSwings`).
`EngineAssumption` has one bound that the code does not check, that a log holds at least
the reputation window: `MAX_ROWS_PER_KEY` is 5000, the window 500.

**`StorageTransactionsProofs`**, for any number of connections, any row limit and both
databases:

| Theorem | Says |
|---|---|
| `EnginesReadWhatTheyWereTold` | `[]SessionGuarantee` |
| `AppendsAreOneStep` | `ImplementsLog`: the statements of every append refine one step of `BoundedLog` |

A row that is gone has `MaxRows` newer ones (`DroppedHaveNewer`), and so have the rows
a transaction is about to delete (`DeletedHaveNewer`). With SQLite that rests on the
write lock: who has inserted is alone, and trims what the table holds at its commit
(`OneWriter`). With PostgreSQL transactions choose from a table that does not show each
other's rows, and the bound on the excess is the harder part (`ExcessIsBounded`): order
the transactions by when they chose; whoever chose later leaves room for at most the
rows of those that had chosen before and are still running, `MaxRows` and one row for
each other connection in all.

**`ApiGatewayProofs`**, for any identities, table size, limit and window:

| Theorem | Says |
|---|---|
| `GatewayTypeCorrect` | `[]TypeOK` |
| `LimitHolds` | `[]LimitPerWindow` |
| `RefusalsAreDue` | `[]RefusedOnlyWhenFull` |
| `TableStaysBounded` | `[]Bounded` |
| `ServiceIsOnOwnBehalf` | `[]OnlyOnOwnBehalf` |

The times in a bucket are those of admitted requests, one for one (`Stands`), and none
is missing that was admitted within the window, unless its identity could have been
evicted since (`Complete`, `NoGap`). That an eviction leaves such a gap needs the table
in the order of last use (`InOrderOfUse`), full when somebody is out of it, and
everybody in it more recent (`ForgottenForOthers`). The requests are then counted by
the positions of their times.

**`GuardianValidatorProofs`**, for any accounts, signers, calls, nonces, clocks and
numbers of attestations:

| Theorem | Says |
|---|---|
| `TypeCorrect` | `[]TypeOK` |
| `AttestationsAreSingleUse` | `[]SingleUse` |
| `OnlyAttestedPasses` | `[]OnlyAttested` |
| `AcceptsForTrustedSigner` | `TrustedNow` |
| `AttestationsKeepUntilSpent` | `KeptUntilSpent` |
| `ValidatorImplementsGate` | `Spec => Gate!Spec` |

The inductive invariant adds one fact to the properties. `AcceptedConsumed`: the
digest of every acceptance is still consumed, whatever was uninstalled since, so
`Validates` refuses it. That an outstanding attestation keeps (`KeptUntilSpent`) is seen
step by step: only an acceptance consumes a digest, and only its own. Refinement follows because an accepted attestation is
in `attestations` and, by `AcceptedConsumed`, not among the spent ones.

**`ArcPaymentProofs`**, for any requests, intents, tokens, routers, bridges, quotes and
clients:

| Theorem | Says |
|---|---|
| `PaymentTypeCorrect` | `[]PaymentTypeOK` |
| `RememberedDecimalsAreTrue` | `[]CacheIsTruth` |
| `TransactionsDoWhatWasAsked` | `[]BuiltDoesWhatWasAsked` |
| `WhatWasSimulatedIsPrepared` | `[]SecondBuildIsTheFirst` |
| `PreparedStaysWithinPolicy` | `[]PreparedPaysWhatWasAllowed` |

A request past its evaluation has an accepted payload (`ArcRequest`), and for such a
payload the cache, once it has the decimals, determines the transaction (`FromCache`).
Caches only grow (`CacheGrows`), so the second build finds what the first has put
there, whatever other requests do in between. What was built was built from the
intent, by the token's own decimals or by those of a token asked too early (`BuiltBy`,
which holds on because tokens are only ever added to `premature`);
`BuildDoesWhatWasAsked` then compares effect and request for each kind of transaction.
For the amount, the policy's hit on an amount over the cap has to reach the decision
(`AmountAllowed`), USDC has to be deployed before anybody asks (`UsdcIsThere`), and the
caps must not be looser for unknown agents (`CapAssumption`, which `ARC_PAYMENT_POLICY`
meets). `BuilderAssumption` says that no two chains share a bridge. `UnitAssumption` says
that a power of ten is a natural number, for the decimals there are: the prover knows
no exponentiation.

**`ComponentsProofs`** has the four small components, one invariant each.

| Theorem | Says |
|---|---|
| `AnswersStayFresh`, `CacheStaysBounded`, `RaisesAreExcused` | `[]AnswersAreFresh`, `[]CacheBounded`, `[]RaisesOnlyUnderPressure` of `GoPlusCache` |
| `ListsServeWhatWasPublished`, `NothingIsDelistedSilently` | `[]ServedWasPublished`, `NoSilentDelisting` of `AddressLists` |
| `SearchTypeCorrect`, `WalletsAreNotAged`, `AgesAreExact` | `[]AgeTypeOK`, `[]AgeNeverOverstated`, `[]AgeIsExact` of `WalletAgeSearch` |
| `TokensSayWhatWasDecided`, `TokensExpire` | `[]AttestedAsDecided`, `[]AcceptedInTime` of `OaaAttestation` |
| `ComponentsTypeCorrect` | `[]TypeOK` of all four |

- *Cache* (`CacheInv`): every entry is the answer about its key, counted from the time
  it was stored (`Stocked`), and so are the local variables of a lookup (`HoldsTruth`); what a
  lookup has seen is there unless it was squeezed out (`SeesItsKey`); and every entry
  over the limit was put there by a lookup that has not yet moved it to the end, or a
  lookup is about to cut it off (`Covered`).
- *Lists* (`ListInv`): a complete file is what it last held (`FileHolds`); nothing has left
  a running list but for the file or the operator (`NothingLost`); the script, once it
  has emptied the file, has in memory all that is not marked as delisted (`WritesBack`).
- *Age* (`AgeInv`): the upper end of the interval is always a block with activity
  (`UpperEndActive`), and the answer is read off it. For accounts that stay active, none
  before the lower end was (`InactiveBelow`), and the rounds that are left can tell the
  blocks of the interval apart (`EnoughRoundsLeft`, with `Reach[n]` for two to the n).
- *Tokens* (`OaaInv`): a grant not changed since a decision is the one it was made under
  (`UntouchedGrants`), and this holds of every token, accepted or not (`TokensTrue`),
  because later changes only mark decisions.

One attempt failed for a good reason: `EffectOf` took any call to a bridge for a
deposit, and `Asked` gave a bridged ETH the token the intent names, which the builder
ignores (`tx_builder.py:382-395`); no instance had such an intent. Both are corrected, and
the instance has one now.

Only model-checked:

- `EveryCallEnds`: liveness under fairness is out of the prover's reach.
- What the four violations show.

## Abstractions

- Floats are exact rationals; a signal's weight is in tenths and its confidence
  in hundredths. The thresholds, floors, deltas and scores are the code's numbers.
  Scores that are not whole (taxes, outliers) are rounded down.
- Sums are `SumFunction` over the positions of a log, the fusion's weighted average is the
  same over a set of signals, and the reputation is a recursive function over the
  window, and so is the comprehension over the in-process list (`PrunedUpTo`): forms that
  say what the loops compute and that the provers can use. A power
  of two in the age search is the function `Reach`.
- An `OrderedDict` is the sequence of its keys, `move_to_end` removes a position and
  appends.
- Amounts are whole units. `NonFinite` stands for NaN and the infinities.
- `Window` stands for 86400 seconds, in a few ticks; `HistoryWindow` (500 in the
  code), `MaxRows` (5000) and, but in `engine_non_finite`, `MinHistory` (5) are smaller,
  so that windows and logs fill up.
- In `CapabilityRegistry` and `DecisionEngine` a storage call is one atomic step:
  `StorageTransactions` shows that an append is one to every fresh reader. A process
  in the state of finding 3 is not among their behaviours.
- `StorageTransactions` has one key; rows of different keys meet only in SQLite's
  write lock. A wait for a lock is a step that is not enabled; deadlocks and timeouts
  of PostgreSQL are `PAbort`.
- `ArcPayment` takes the main engine with the RPC builder. The order of fields in
  calldata, deadlines, gas limits and `extra_data` are left out, amounts are exact
  (the code multiplies floats and truncates), and quotes are one of a small set.
- Addresses in `AddressLists` are in lower case. A file is missing, torn or complete;
  a prefix of a JSON object is not JSON.
- `AgeIsExact` is about accounts that stay active once they are.
- A JWT is its claims; jwt.decode accepts it from its `iat` to before its `exp`.
- Hashes and signatures are injective. The EntryPoint keeps one sequence of nonces
  per account (ERC-4337 allows several, by key).
- Every history record has its action type and chain, as `DecisionHistory.record`
  writes them.
- A provider's answer holds the fields the code reads; what the mock providers draw
  from a hash is any value of its range. The three profiles of an evaluation are
  chosen independently.
- A symbol of `MAJOR_TOKENS` and an address of a local list are flags of the profile:
  the provider is not asked for them.
- An HTTP request of the gateway is its header, endpoint and agent; an endpoint's
  check of the key belongs to the step that admits the request.
- `Fail` is what Python 3.11 does; other versions may return NaN instead.

## Not modelled

- Request schemas and the shapes of answers, and the MCP server: thin layers over
  `evaluate` and `get` without state; what they let through is among the inputs.
- HTTP and RPC clients: external, an answer or a failure.
- Explanation and confidence: wording and a displayed average, no decision depends
  on them. Configuration: read once, its choices are constants. The guardian-check
  skill and `verify_arc_mainnet.py`: one request each, no state.
- `arc_network_status` and the endpoints that only report.

## Plan

1. *Done*: `CapabilityRegistry`, `DecisionEngine` with its operator modules,
   `GuardianValidator` with `AttestedExecution`, `ApiGateway`; proofs of the first and the
   validator.
2. *Done*: `StorageTransactions` implementing `BoundedLog`, with liveness;
   `GoPlusCache`, `AddressLists`, `WalletAgeSearch`, `OaaAttestation`; `TransactionBuilder`
   and `ArcPayment`; proofs of `ArcPayment`, the lists, the search and the tokens.
3. *Done*: every safety and action property of the passing runs as a theorem; the
   refinement of `BoundedLog` proved for both databases; `DataLemmas`.
4. `DecisionEngine` composed with `CapabilityRegistry`: charges that outlive an
   evaluation which ends without a decision, as a refinement or an invariant of the two.
