# PRAMAAN identity trust engine: a TLA+ model

This directory holds the formal model of the system: of the backend under `backend/app`, and of the
offline side under `src/` that fetches data, trains, exports and evaluates the models it serves. It
consists of TLA+ modules translated from the code, TLC configurations that check them on small
instances, and TLAPS proofs of the main safety properties for every value of the constants. Paths
below are relative to `backend/app`, or to `src/` for the offline scripts (`PROJECT.json` writes
them from the root). `PROJECT.json` is the index: which definition stands for which lines, which run
checks which property, which mutated definition each property catches, and where the code is exposed
to which hazard.

    tlc -config engine.cfg MCTrustEngine        # a run: its module is named in PROJECT.json
    tlapm StepUpGate_proofs.tla                 # the proofs of one module

Contents: [1 the system](#1-the-system), [2 modules](#2-the-modules), [3 runs and
bounds](#3-the-runs-and-their-bounds), [4 fairness and external
behaviour](#4-fairness-and-external-behaviour), [5 proofs](#5-what-is-proved), [6
divergences](#6-where-code-and-text-disagree), [7 what is left](#7-what-is-left).

## 1. The system

An identity has a *trust score* (0..1000, 700 at first). Every authentication event gets a risk in
0..1 from a model ensemble and a few rules; the risk moves the score, score and risk select a band,
the band a decision (allow, step up, block) and a challenge. A passed challenge comes back as an
assertion signed by a trusted verifier and restores trust. Everything is written to a hash-chained
audit log. Two front ends use this engine: a synchronous API (`main.py`) and a Kafka pipeline
(`ingress.py` to `scoring_pod.py`). The model it serves comes from scripts that download public data
sets, train and tune detectors on them, measure them and export one to a directory.

| component | state | operations | interacts with |
|---|---|---|---|
| **Trust engine** `risk_engine.py`, `policy.py`, `resilience.py` | none of its own; one record per identity in the state store | `assess`, `apply_verified_step_up` | runs load / compute / compare-and-set on the store; called by API and pods |
| **Risk features** `features.py`, `explain.py`, `schemas.py` | profile counters in the record | `build_features`, `commit_features`, reasons, Shapley values, counterfactual | the engine; replayed by the exporters |
| **Drift detection** `drift.py` | risk window, slow baseline, CUSUM, in the identity's record | `detect`, `update_ewma`, `update_cusum` | called by the engine; an alarm starts a review |
| **State store** `state_store.py` | versioned records, device index, locks; a dictionary or Redis | `lock`, `load`, `commit`, `device_add` | shared by threads (memory) or by pods (Redis) |
| **Device attestation** `attestation.py` | cache of used nonces | `resolve` | a similarity the engine believes |
| **Audit log** `audit.py` | list of chained records | `append`, `verify_chain`, `head_checkpoint`, `verify_against_checkpoint` | appended to by every API handler, in a thread pool |
| **Durable audit store** `stores.py` | table `audit_log` | `append`, `verify_chain` | appended to by every pod |
| **Event pipeline** `ingress.py`, `bus.py`, `scoring_pod.py`, `stores.py` | Kafka partitions and offsets, table of decisions | accept, consume, record, poll | engine, durable audit |
| **Step-up gate** `verifier.py`, `main.py` | nonce cache, two rate buckets, in the process | `step_up_outcome`, `validate`, `seen`, `add`, `_rate_count` | lets outcomes through to the engine |
| **Event ingestion** `main.py` | idempotency cache (LRU) | `ingest_event` | engine, vault, audit log |
| **PII vault** `keystore.py`, `stores.py` | key, ciphertext and tombstone per identity | `put`, `get`, `erase`, `reconsent` | ingestion, erasure endpoints |
| **Start-up** `config.py`, `model_loader.py`, `export_models.py`, `auth.py` | environment, model directory (artifact and card), loaded model | export, refuse or start, load | everything |
| **Data download** `download_data.py` | files of each data set | `get_one` | the training scripts |
| **Cohort release** `dp_export.py` | none: log in, aggregates out | replay, mean, noise, threshold | the feature code |
| **Offline training** `train.py`, `train_rba_full.py`, `seed_sweep.py`, `tune.py`, `evaluate_tuned.py`, `phaseb_extra.py` | none: data frame in, scores out | features, split, sample, fit, score | evaluation |
| **Offline evaluation** `eval_full.py`, `evaluate.py`, `pramaan_eval.py` | none: scored rows in, report out | operating points, metrics, costs, bootstrap | the published numbers |
| other analysis scripts, verifier service, privacy helpers, load and smoke tests, deployment | none that the running system shares | | |

What is hard in each, and what makes it correct:

- *Trust engine, drift.* Truncations and clips at every threshold; two windows of time that are
  read before the lock is taken; a review flag, a sliding window and a CUSUM that have to be set and
  cleared together over long sequences of events. Correct: trust keeps its range; recovery keeps its
  budget; nothing untrusted moves the travel reference; a review lasts until a verified step-up and
  ends with it; a worse event or a worse score never gets a laxer answer; without a model
  high-assurance events fail closed.
- *Risk features.* Three explanations computed apart from the risk they explain. The model's score is
  blended in after them. Correct: what costs trust has a reason, unless the model alone found it suspicious;
  what costs trust by its features alone has a counterfactual too, and it agrees with the reasons.
- *State store.* Overlapping requests, a lock that is a five-second lease, commands and replies lost
  at every point, a retry loop. Correct: no update is lost, none is repeated but after a lost reply,
  contention is absorbed by the retries, every request ends, a shared device is noticed.
- *Device attestation.* Two nonces tested and then used up one by one in a cache that threads share; a
  float that may be no number; a discount that must be given once. Correct: a nonce is good once, a
  similarity is believed for cause, the discount is that of the first contact.
- *Audit.* A read-modify-append without a lock in memory; with a primary key, broken
  connections and a column that keeps numbers of another type in Postgres. Correct: the chain has no
  gap and no fork and verifies as long as each payload is read back as it was hashed, each payload stays
  where it is, a checkpoint tells the log from its prefixes.
- *Event pipeline.* At-least-once messages, offsets committed on a timer, pods that stop, lose a
  partition or are evicted while at work, four writes to three stores of which any may fail. Correct: a
  decision that can be polled is final and audited, order is kept, every accepted event ends.
- *Step-up gate.* Dictionaries shared by threads without a lock, check-then-act on the nonce, a list
  that other threads replace or remove, three readings of the clock, restarts. Correct: only
  verified outcomes are applied, each once, and a customer is turned away only because of her own
  submissions, in the period of the refused request or of one that overlapped it.
- *Ingestion, vault.* A cache that is read before the work and written after it, and evicts in several
  threads at once; a scored event whose vault or audit step fails; a key put and destroyed by steps
  that interleave; everything but trust forgotten at a restart. Correct: no answer is given to another
  payload, what is answered is recorded, an event is scored again and an erasure undone only by the
  overlaps that the code cannot exclude.
- *Start-up, download.* Files written in place and read twice, by processes that end anywhere and know
  nothing of each other; an environment with many ways to be nearly right. Correct: what is served is
  what the pin or card names, a misconfigured process never serves, what is taken for a data set is
  all of it.
- *Cohort release.* One user's logins move the features of the users after her, and with a limit
  decide whose logins are replayed at all. Correct: what one user can change is confined, and where it is
  not, to what is known.
- *Training.* Features over the whole file, splits by quantile, selection before the test. Correct: no
  row held back changes what was learnt or what is seen of the rows before it.
- *Evaluation.* Ties, thinned curves, negatives that stand for many. Correct: the point reported is the
  best of its kind, and the number is that of the population.

## 2. The modules

| module | stands for | state and actions |
|---|---|---|
| `TrustPolicy` | `_update_trust`, the arithmetic of `apply_verified_step_up`, `PolicyOrchestrator`, `ResiliencePolicy` | operators only. Risks are thousandths; `int()` of a non-negative float is `\div` |
| `DriftDetector` | `DriftDetector`, `update_ewma`, `update_cusum` | operators only. The baseline and the CUSUM in millionths; the Kolmogorov-Smirnov test by the exact critical gaps for the half windows that occur |
| `TrustState` | `IdentityState`; what `assess` and `apply_verified_step_up` make of it between load and commit | extends both. `AfterAssess`, `Answer`, `AfterStepUp` are functions of the loaded record |
| `TrustEngine` | the life of one identity | `Assess` (with a clock read up to `MaxLag` ticks before the lock is got), `StepUp`, `Tick` |
| `PolicyCases` | the policy applied to one case, and to the same with another risk or score | `Rescore`, `Retrust`; the properties are relations between two answers |
| `RiskFeatures` | `build_features`, `commit_features`, the rule-based risk and its blend with the model's score, `_explain`, `explain.py` | operators only. Features and scores are thousandths, weights hundredths |
| `CohortExport` | one identity's attempts under the features; the replay and release of `dp_export.py` | `Attempt`, with the model's score as an input; `AddLogin`, `ExportAggregates`. The replay folds over the set of genuine logins, as many as `--limit` lets through, the last in the sort (`SortsBefore`) applied last; what is published is the noisy mean, clipped |
| `StateStore` | both stores under both handlers' retry loop | one action per access: `Acquire`, `Load`, `DeviceAdd`, `DeviceCount`, `Commit` or `Watch` and `Exec`, `Release`, and the failures `AcquireTimeout`, `LockCallLost`, `LeaseExpires`, `LinkBreaks`, `ExecLost`, `ExecReplyLost`, `ReleaseNotOwned` |
| `AtomicUpdates` | what the store promises | `TakeEffect`, `Return`; `StateStore` implements it (in memory) |
| `Evidence` | `resolve` and the cold-start flag, on `StateStore` | `Read`, `List`, `Prune`, `Use`, one per access to the nonce cache; then the store's own actions; `Tick` |
| `AuditChain` | the records and their checks | operators only; a digest is the term that was hashed |
| `AuditLog` | `AuditLog.append` in threads, and one `head_checkpoint` | `ReadHead`, `ReadLength`, `AppendRecord`, `CheckpointHead`, `CheckpointLength` |
| `AppendOnlyLog` | what the log promises | `Add`; `AuditLog` implements it |
| `PostgresAudit` | `PostgresAuditStore.append` in transactions, and what `verify_chain` reads | `Select`, `Insert`, `Commit`, `Abort`, `CommitUnconfirmed`. A row has the hash of the payload that was appended and the payload that JSONB gives back of it (`Jsonb`) |
| `Pipeline` | ingress, consumer group, pods and decision store, on `PostgresAudit` | `Produce`; `AssignOrphan`, `Reassign`, `Evict`, `AutoCommit`, `Fetch`; `HandOut`, `Assess`, `AppendAudit`, `Put`; `Stop`, `Start` |
| `StepUpGate` | `POST /v1/stepup` in threads | one action per access to what they share: `Enter`, `RateGet`, `RateFilter`, `RateAssign`, `RateTest`, `RateCount`, `RateDelete`, `Validate`, `Seen`, `Prune`, `AddNonce`, `Hold`, `AppendTime`, `Apply`, `ApplyRaises`; `Restart`, `Tick` |
| `PiiVault` | `KeyedPiiStore` | operators, one per access to its dictionaries; a ciphertext is the key it was encrypted under |
| `Ingest` | `POST /v1/events` and the erasure endpoint in threads, on `PiiVault` | `Enter`, `Look`, `Touch`, `Assess`, `AssessRaises`, the steps of `put` (`PutTest`, `PutGetKey`, `PutStoreKey`, `PutStoreText`), `Audit`, `StoreAnswer`, `Bump`, `Measure`, `Evict`; `EraseEnter`, `EraseDestroyKey`, `EraseTombstone`, `EraseAudit`; `Restart` |
| `ModelSupply` | `export_models`, `Settings.from_env`, `load_serving_model`, `build_verifier` | `Open`, `Dump`, `Digest`, `OpenCard`, `WriteCard`, `Kill`; `Start`, `Exists`, `ReadCard`, `ReadDigest`, `Load` |
| `Download` | `download_data.get_one` | `Present`, `Request`, `Received`, `Rename`, `FetchKaggle`, `Verify`, `Unpack`, `Unpacked`, `FetchAgain` |
| `Sorting` | the order of a filtered data frame, of distinct values | operators only: `InOrder` of a set of numbers |
| `Training` | features, splits, samples and folds of nineteen scripts | `AddRowOf`, `Fit`; a model is the rows it was fitted on |
| `Evaluation` | `eval_full`, its runners, `evaluate`, `pramaan_eval`, one bootstrap draw | `AddRow`, an action per runner and evaluator, `KeyMetrics`, `Bootstrap`; every number is an exact ratio. A curve is a set of points, and the operators take a table whatever its rows are indexed by, as the population is indexed by a row and the number of its copy |

`MC...` modules give the constants values for TLC, and `MCScoring` and `MCOffline` put machines that
share nothing side by side, one moving while the others rest; `..._proofs` modules hold the theorems, and `Sums`
lemmas that they share.

Composition: `TrustPolicy` and `DriftDetector` make `TrustState`; `TrustEngine` runs its operators in
sequence. `StateStore` treats a record as the list of updates it contains, so what it shows (no
update lost, each applied to the record of the previous one) is what makes the sequential
`TrustEngine` the right view of a concurrent engine. `Evidence` extends `StateStore`: a request
resolves its tokens and then goes through the store's own actions. `Pipeline` extends
`PostgresAudit`: a pod appends by the transaction's own actions. `StepUpGate` ends where `StateStore`
begins: `ApplyRaises` is a request that ends there with an exception, after its write or before it.
`Ingest` extends `PiiVault` and takes the assessment (`TrustEngine`, `StateStore`) and the append
(`AuditLog`) as one step each; `AssessRaises` is an assessment that ends with an exception.
`CohortExport` and the engine's explanations both extend `RiskFeatures`.

Definitions whose comment says *Variant* are no part of the model: each is the definition that
follows it with one plausible slip. A run with the variant put in its place violates the property
that `PROJECT.json` lists with it; this is how each property was seen to say something about the code.

Choices that a reader of the code should know of:

- *The score is an input* of `TrustEngine`. Weights and models change; no property of a life may
  depend on them. `Risks` gives the possible scores and `TrustEngine` adds the travel boost. What the
  weights of today make of an event is `RiskFeatures`; the cold-start flag is kept in `Evidence`.
- *Floats.* The engine multiplies floats and truncates. The model multiplies thousandths and uses
  `\div`. The two agree unless the exact product is an integer that the float product just misses;
  the configurations use no such score. `Evaluation` keeps numerators and denominators apart.
- *Store.* The update of a request is appended to the log of the record it loaded, so losing an
  update and applying one twice are both visible in the record.
- *Digests, MACs and signatures* are injective terms: collisions and forgeries are out of the model. The
  content of a file is what wrote it, or a part of that.
- *Rate buckets.* An entry is the request that made it instead of its time. `_rate_count` may remove a list
  another thread is still working on, so a list is named by the request that made it, and a thread keeps the
  name. What it tests and counts is the list as it is by then, which is not always what it assigned.
- *Nonces.* A nonce cache is a set; `seen` is a listing of what is stale, its deletion, and the
  look-up. Listing and look-up read the clock and the dictionary in one step each.
- *Idempotency cache.* An entry keeps the payload (whose digest the code keeps) and the request that
  computed the answer. The calls are those of one client; the code keys the cache by the client too.
- *Kafka.* A partition is a sequence with an owner and a committed offset. A pod commits between two
  events, as the client library does in the thread that polls; a message is the number of its writing,
  so a retry that was written twice is two messages of one event.
- *Learning.* A fitted model is the sequence of rows and labels it was fitted on, and a score is that
  model with the features of a row. Two scores that are equal here are computed from equal inputs;
  two that differ may still come out equal in the code.
- *Reports.* Scores are multiples of 1/`Top`. Equal scores stand in any order, since the sorts used are
  not stable; weights are ratios.

## 3. The runs and their bounds

| run | module | what it shows |
|---|---|---|
| `engine` | `MCTrustEngine` | four handlers over three hours, two countries or no place named, a score in every band, working and failing model, lag: types, recovery budget, travel, review |
| `engine_drift` | `MCTrustEngine` | ten handlers on two scores 0.1 apart: a steady history is never flagged, a shift of half the window always is |
| `engine_alarm` | `MCTrustEngine` | **violation**, see 6 |
| `scoring` | `MCScoring` | scores and risks around every threshold; three attempts of an identity; three logins of two users released under every noise, with a limit or without: monotone answers, hardening only hardens, what costs trust is explained, one user's share in a release is confined, but for what a model alone finds and for whom a limit lets in |
| `store_redis` | `MCStateStore` | three requests of three pods, two on one identity and one on another of the same device, leases that end, commands and replies lost: no lost update, every write accounted for, contention absorbed, the shared device noticed, every request ends |
| `evidence` | `MCEvidence` | three threads whose tokens share nonces, expire and come early, on the in-memory store: a nonce is good once unless raced, similarities are believed for cause, one discount, and the store implements `AtomicUpdates`, liveness included |
| `audit` | `AuditLog` | three overlapping appends and a checkpoint: implements `AppendOnlyLog`; only an overlap breaks the chain, only an append between its two reads spoils a checkpoint |
| `audit_race` | `AuditLog` | **violation**, see 6 |
| `stepup` | `MCStepUpGate` | three submissions of genuine, replayed, misaddressed and unsigned assertions, a clock, a restart: only verified outcomes, single use, refusals for a cause in the request's own period or an overlapped one's |
| `ingest` | `MCIngest` | three submissions or erasures, retries, conflicting retries, a full cache, a restart: no answer laundered, scored again or erased in vain only by a named race, the vault readable |
| `pipeline` | `MCPipeline` | two events, two pods, a message written twice or not at all, one stop, hand-over or eviction, one failing call, a payload that JSONB changes: the ledger is linked and verifies but for that payload, decisions are audited and final, order is kept, every event ends |
| `offline` | `MCOffline` | exports, starts, downloads, nineteen training scripts, thirteen ways of reporting: served as described and as configured, fetched whole, nothing learnt from what is held back, the best point, the population's number |

Bounds, and why they are enough for the question asked:

- `engine`: `MaxSteps = 4`, `MaxTime = 6`, `Hour = 2`, `MaxLag = 1`. An hour has to have an inside, a
  boundary and an outside; the clock starts after the first window (as an epoch clock does) and then passes
  the end of another, opened late. An event names one of two countries, or none. Four handlers are an alarm,
  a refused event, a step-up and the event after it, or a refill, its boundary and another refill. The
  scores are one that gains (107), one that costs little and arms the CUSUM (551) and one that costs much
  (703). 551 is chosen so that the CUSUM still fires on a next low event while trust comes back to 650: a
  review then begins where the policy would allow, and would lapse if the flag were not sticky. `RecoveryCap
  = 30` lets two low events exhaust the budget.
- `engine_drift`: the window test starts at eight samples, so ten handlers reach the even (4/4, 5/5)
  and the uneven (4/5) halves; the 5/6 and 6/6 halves are not reached.
- `engine_alarm`: the score 523 is stepped up by its band and accumulates to a CUSUM alarm.
- `scoring`: starting scores and risks on both sides of 150, 400, 650 and of 0.45 and 0.65, and both ends,
  for every event type. The attempts are everyday events and each kind of trouble (new payee, recovery
  change, privileged access, a negative amount), by day and by night, from the usual place and another;
  three of them fill a history of `Recent = 3` (200 in the code), of which `Enough = 2` amounts (5) allow a
  comparison. The model fails, finds an event harmless (100) or suspicious (900). Three logins are two users
  who share a device, and what one of them changes for the other; the first two of the sort (`Limits`) leave
  the third out, or let it in when one user is left out; `Threshold = 2` (35) is met by one user with noise,
  and by two without.
- `store_redis`: two requests of one identity are the fewest that lose an update, the third brings the
  second identity to the device; `Retries = 2` (6) is what two requests can use up. `MaxLosers = 2`: an
  interrupted command cannot be followed by another fault of the same request, but two may lose one
  each. Its `RedisSpec` is `FairSpec` without `Commit`, the write to memory, which Redis never takes
  (`evidence` takes it). One at a time in memory, and any number of anything, are proved (section 5).
- `evidence`: of three requests, two share an assertion's nonce and two an attestation's, one carries a
  similarity that is no number and one a token dated a tick ahead; tokens live one tick and
  `MaxTime = 2`, so one can be used, expire, be forgotten, and be looked up again.
- `audit`: two appends race, the third is the one that extends what they left.
- `stepup`: three threads (one that consumes, one that replays, one that prunes or empties a list
  under them), two assertions, one of which is issued later than the other, `Ttl = 0`, `Period = 1`,
  `MaxTime = 1`: an assertion can be consumed, expire and be looked up again, an entry is
  counted at the last instant of its period, and a slow thread puts an entry back that a faster one with a
  later clock has dropped. Limits of 1 (5 acceptances and 20 failures in the code) make the second
  submission the one at the limit. One restart. Requests are symmetric: no definition names one and
  the run checks no liveness.
- `ingest`: three calls (`MaxCalls`), each a submission or an erasure: an event, what evicts it and its
  retry; two overlapping events after a first one; two events around an erasure. A cache of one
  answer (10,000 in the code) is full with the second key; two threads that evict at once then even
  empty it, and a third finds nothing to evict, which in the code takes as many threads as answers.
  One key comes with two payloads, one with one, and one event has no key. All are about one
  identity: nothing relates the vault's entries of two. One restart.
- `pipeline`: two events of one identity, on one partition (the other belongs to the second pod and stays
  empty unless an event loses its key). `MaxMoves = 1`, `MaxErrors = 1`, `MaxCopies = 2`: each fault alone
  and any fault with a stop, hand-over or eviction; `Calls` has as many numbers as deliveries can
  then happen, so it cuts nothing off. One payload is changed by the JSONB column.
- `offline`, exports and starts: two exports, which may overlap and of which one is of an older schema,
  and one process that starts again and again: processes only read the directory, so one stands
  for all. Seven environments: complete ones without and with a pin, demo mode with nothing set, and
  one thing wrong at a time (a key that is malformed or empty, a wildcard origin, empty API keys in demo
  mode).
- `offline`, downloads: pinned or not, zipped or not, from a URL or by the kaggle client; the number of
  runs is not bounded.
- `offline`, training: every file of up to four rows over three times, two labels and three contents (a
  missing value, another device, another user with the same value), which is enough for two rows on each side of a cut
  and an inner cut, for a device to become the most frequent by one row, and for a median to move.
  `Cut`, `InnerCut`, `NegSample` and the repetitions are 1 or 2 so that both sides and the sampling
  are met. `Seeds` are two, since a script that mixes them up needs two.
- `offline`, reports: every table of up to five rows over three scores, in every order of equal scores, up
  to three of which are resampled; scores at both ends and between, two calibration bins; false-positive budgets
  that fall on a point and between two; negatives that stand for one or three; two users on two days.

`CHECK_DEADLOCK FALSE` is in the runs because each system ends: requests are answered, calls are
made, reports written, the bounded clock stops.

## 4. Fairness and external behaviour

- `StateStore!Fairness`, `EvidenceSpec`: every thread that can move moves (the operating system schedules
  it), a request that waits for a lock gets it or times out. Nothing is assumed of the lease or the link:
  leases may never end, faults may never stop. `EveryRequestEnds` then rests on the bounded loop.
- `Pipeline!PipelineFair`: a pod that runs works on, a pod that stopped is started again by its supervisor,
  a partition without an owner gets one. Nothing need be produced, committed, or fail. A pod is not
  assumed fair step by step: one condition covers all it can do next.
- The lock of the redis client (5.0 or later, `requirements.txt`) is external: it raises `LockError`
  when it cannot be had within `blocking_timeout` and `LockNotOwnedError` when it is released after
  the lease ended; it passes on a connection that breaks, whether or not the command took effect.
  `WATCH`/`EXEC` fail when the key was written in between.
- Postgres is external: read committed, a duplicate key waits for an open transaction and fails when
  that one commits; a connection may break after a commit and before its confirmation. A JSONB
  column gives back a payload, the one that was stored or, when that holds a number JSONB cannot
  keep as Python writes it, another.
- Kafka is external: a keyed message goes to the partition of its key, a send may be repeated or given
  up, a group gives a partition to one pod at a time, and takes it from one that is too slow
  without that one noticing before its next poll.
- `scikit-learn`, `pandas` and the kaggle client are external: fitting depends on the rows given and the
  seed only; sorts keep no order among equals; a download may leave the file under another name.
- The web server runs plain `def` handlers in a pool of threads, and a thread may be preempted between
  any two operations on a shared dictionary or list; one such operation is atomic.

## 5. What is proved

All theorems hold for every value of the constants that satisfies the named assumptions of the
module: any number of requests, identities, devices, pods, exports and calls, any limits, any clock.
Where a run checks the same property, it is the one of that name.

| module | theorem | what it says |
|---|---|---|
| `StateStore_proofs` | `TypeCorrect` | ranges; no request tries more than `Retries` times |
| | `UpdatesAreNeverLost` | no write removes an update, on either store, whatever leases and links do |
| | `WritesAccountedFor` | an update is in its record as often as it was confirmed or its confirmation lost |
| | `ContentionAbsorbed` | rivals that lose no command and are no more than the retries are all answered |
| | `SharedDevicesNoticed` | of those that counted a device, one counted them all |
| | `MutualExclusion` | in memory, one request per identity at a time |
| | `MemoryImplementsAtomicUpdates` | the safety part of the refinement |
| | `AssessmentsAreAtomic` | the same of `Evidence`, nonces and discount included |
| | `NoncesUsedOnce` | a nonce is good once, unless two resolved it together or one came after its expiry |
| | `EvidenceBelievedForCause` | similarities are believed and refused for the reasons the property names |
| | `DiscountIsOneShot` | only the first assessment in a record was discounted |
| `TrustEngine_proofs` | `TypeCorrect` | every field keeps its range, trust in 0..1000 |
| | `AnswersMonotone`, `Hardening` | the policy is monotone; review and degradation only harden |
| | `TravelReferenceIsTrusted`, `NoImpossibleTravel` | the travel reference, and the travel rule that rests on it |
| | `RecoveryStaysInBudget` | the recovery of a window keeps the cap, that of a stretch twice the cap |
| | `SteadyIsNotReviewed`, `ShiftsAreReviewed` | a steady history raises no alarm; a shift of half the window passes both tests |
| | `ReviewFreezes`, `VerificationEnds` | a review freezes the profile until a passed step-up, and ends with it |
| | `DegradedIsClosed` | without a model high-assurance events are not allowed |
| `StepUpGate_proofs` | `OutcomesVerified`, `SingleUse` | only verified outcomes move trust, each once, except in the three cases the property names |
| | `RefusalsHaveCause` | a genuine assertion is turned away only for its owner's own submissions, in the period of the request or of one it overlapped |
| `Ingest_proofs` | `AnswersNotLaundered`, `AnswersRecorded` | a retry gets its own answer; answers are recorded |
| | `ScoredOnce` | an event is scored again only by overlap, failure, eviction or restart |
| | `ErasureLasts`, `MaterialReadable` | an erasure lasts unless an event overlapped it; otherwise the vault stays readable |
| `AuditLog_proofs` | `AppendsOnly` | the log implements `AppendOnlyLog`, keyed or not, however appends overlap |
| | `BrokenOnlyByRaces` | the chain verifies exactly if no two appends overlapped |
| | `CheckpointPins` | a checkpoint no append came into matches its prefix and no other |
| `Pipeline_proofs` | `ChainStaysIntact` | after any overlap, failure or lost confirmation the durable chain has no gap and no fork, and verifies exactly if JSONB gave back every payload as it was hashed |
| | `PipelineChainIntact`, `DecisionsAreAudited`, `DecisionsAreFinal` | the same under the pods; what can be polled is audited and final |
| | `ScoredInOrder` | scores step back at most once per stop, unless a pod is evicted at work |
| `Offline_proofs` | `DownloadsWhole` | a pinned download that ends well is all there |
| | `ServedIsDescribed`, `ServesConfigured` | what is served is what was named; whoever serves was configured |
| | `SuspicionExplained` | an event that costs trust is explained, whatever the history and the model's score, unless the model alone finds it suspicious |
| | `ReleasesConfined` | what one user can change in a release, whatever the log, the noise and the limit |
| | `LabelsHeldBack`, `ContentsHeldBack` | no script learns from a row held back, but for the exceptions the properties name |
| | `PointsBest` | what is reported of a table is the best of its kind |
| | `MetricsOfPopulation` | a ratio of a sample is the ratio of the population |

`TravelReferenceIsTrusted`, `DegradedIsClosed`, `VerificationEnds`, `AnswersRecorded`,
`MutualExclusion` and `BrokenOnlyByRaces` have no run of their own: TLC agreed with
the properties they state while the model was built, and the theorems say more than a run would.
Conversely every safety property of a passing run is a theorem.

Assumptions worth a reader's judgement, each named in its module: the requests are finitely many
(`StateStore`, `StepUpGate`), and so are the users of a log, who are numbered as the sort orders them
(`LogAssumption`); the shapes of what a script reads and is set to (`SplitAssumption`: times are integers,
sizes of samples naturals; `EvalAssumption`: scores between 0 and a top, classes 0 and 1, losses naturals,
weights positive ratios); signed tokens that share a nonce expire together (`IssuedAssumption`:
`attestation.py:62` and `:83` draw a nonce for each token), the model's scores lie between 0 and 1 or are
missing (`ModelScoresAssumption`: a probability), a limit is a natural number (`LimitsAssumption`; pandas
takes a negative one for "all but so many", which nothing in the repository uses), a clock is a natural
number that never runs back. No theorem bounds the number of calls, steps or faults; where a bound of a run
appears in a guard, it is a constant like any other.

The inductive invariants:

- *Store, lost updates* (`SnapshotsBehind`): no snapshot is newer than the record, and one of the same
  version is the record, since versions only grow. So a commit that passes the version test appends
  to what is there. For the in-memory refinement: whoever is between load
  and release holds the lock, so its snapshot is the record and its update is not in it.
- *Store, contention* (`TriesBehind`): the tries a request has lost are at most as many as the updates in the
  record (`VersionsCount`), each of a rival that writes once unless it lost a command, so the retries
  outlast the rivals.
- *Store, devices*: whoever is about to count is on the device's list (`Registered`), which only grows.
- *Evidence*: as in the gate, what was used up and has not expired is in the cache, what a pruning thread
  took down was stale when listed (`Remembered`), so a request that finds no nonce either met its other
  user or looked too late (`FoundUnlessRaced`). The discount needs that a request's reading of the record
  is the record while it holds the lock, and that its first contact is the empty record.
- *Engine* (`IInv`): types, the trusted travel reference, the recovery window, and two facts that the
  action properties need: under review nothing was allowed, and after a passed step-up both
  detectors start clean. The travel rule follows from the reference; the end of a review from the
  clean detectors, since a CUSUM from zero cannot pass its threshold in one event that stays within it.
- *Engine, recovery* (`Budgeted`): what was raised at each instant is split into what the current
  window paid and what closed ones did. A window's part keeps the cap and lies within the lag of the window,
  so a stretch shorter than the window by the lag meets two of them. Over a
  whole window it can meet three, which TLC shows from a lag of two on.
- *Engine, drift*: a baseline that starts at the only risk there is stays there, the CUSUM with it, and
  two equal halves have no gap. A shift is the converse: the halves are apart in every
  value, so their gap is the largest possible, and their means are apart by the shift.
- *Audit* (`IInv`): the predecessor a record stores is the head its append read, so a link is broken
  exactly where two appends read the same head; `Pairs` says who met whom, `Snapshot` what a
  checkpoint between its two reads has seen.
- *Postgres* (`IInv`): the committed rows are numbered without gaps from zero, each linked to the one
  before; a row a call has built continues rows that are there for good; two calls that wait for
  their commit have different numbers (the primary key), so a commit adds exactly the next row. Each row has
  the hash of what its call appended and the payload that JSONB gives back, so it verifies exactly if the
  two are the same.
- *Pipeline* (`PInv`): what partitions, positions and deliveries refer to exists; a pod at work carries a
  call that nobody else carries; a pod that is past the append has its row in the ledger, and so
  has whatever is stored as a decision. The invariant of the ledger is kept because a pod only takes
  that ledger's steps.
- *Pipeline, order* (`OInv`): while no pod is evicted at work, only the owner of a partition works on it,
  at the position it committed or later, and the last score of an identity is behind that position except after
  a stop; so each backward step has a stop of its own, which a count of backward steps makes
  inductive.
- *Gate* (`IInv`): whoever is past its validation carries a verified assertion (`Verified`); a thread
  belongs to one life of the process (`Epochs`); threads at work together have met (`Overlap`); what was
  consumed in this life and has not expired is in the cache, and what is being pruned has expired
  (`Remembered`); so a thread that is about to add its nonce has met every other that consumed it, or looked
  too late (`Unseen`), and so have any two that consumed the same (`Once`). `SingleUse` is `Once` for those
  that went on to apply. It needs the two steps of the cache apart: `Unseen` is the state between them, and
  the race is visible exactly there. `RefusalsHaveCause` adds that a list is filled by requests of one
  identity and one outcome only (`Housed`, `Listed`), and that what a thread tests and counts was put there
  by itself or by a thread it met, within the period of that one (`Weighed`), so a full list counts such
  requests.
- *Ingestion* (`IInv`): what is in the cache, or was taken from it, is the recorded answer to that key
  and payload (`CacheHonest`, `TakenHonest`), which no eviction can spoil; calls at work together have
  met (`Together`); an identity is barred
  exactly by an erasure of this life of the process (`Tombstones`), and whoever works on its entry all
  the same met that erasure (`PutsMet`); so a key that is there after an erasure was stored by one
  that met it (`Destroyed`). The state between destroying the key and barring the identity is
  the one the invariant has to cover apart.
- *Ingestion, one score* (`CInv`): the order lists exactly the keys of the cache, each once (`OrderOK`); a
  key that was stored and is there no more was evicted, and an eviction needs more keys
  than the cache holds (`Kept`).
- *Download* (`Checked`): what was verified under a pin is whole from the check on, because nothing else
  writes while this run works.
- *Supply* (`IInv`): exports that keep apart find what they wrote (`KeptApart`); between exports that all
  ended, the card is the artifact's (`CardOfArtifact`); a process that met no export read a card and
  an artifact of one moment (`Read`), and what it loads is therefore what it checked (`Serving`). The
  exceptions of `ServedAsDescribed` are exactly the steps that this argument needs to exclude.
- *Explanations* (`ExplainedInv`): a vector is one of those an event can have (`Possible`); the
  history only matters through the ranges it leaves the hours and amounts in, and through a spread that
  is a number because the mean of squares is no less than the square of the mean (`CauchySchwarz`). The rest is
  arithmetic with the weights of today: with 0.45 in all some Shapley value is above 0.05; the largest one's
  contribution has at most two others before it, as only behaviour and one more feature can be larger and yet
  have the smaller Shapley value (`FewPrecede`). A blend above 0.45 of a score that is not takes features that are
  (`CostComesFrom`), and an impossible journey is a reason by itself.
- *Cohort release* (`ExportInv`): what was published is what the log as it still is gives. The rest is about
  one replay beside the other that leaves a user out, login by login (`Parted`): the device graphs differ by
  that user, on devices of his genuine logins; everybody else has the same profile, count and cohort, and
  the same sums but for the sharing feature of those behind him on such a device. With a limit, leaving the
  user out moves everybody behind him forward in the sort (`AheadOf`), so the logins replayed are the same
  but for some at the end that come in, all of users behind him (`LimitedIs`); a country of none of these
  users has the same members and the same sums (`LaterLogins`). With the range of what is gathered (`Sound`:
  a sum of n vectors is within 0 and 1000 n, and only who has a cohort has vectors) the means differ where
  the property says.
- *Training* (`FittedOnRows`): the rows are a file in order of time, and what was fitted is the outcome of
  exactly these rows. The properties relate it to the outcome of other rows, so each of the nineteen pipelines
  has a lemma that equal inputs make equal models: what is in the training part, its order, its sample
  and its features are shown to be the same of both files, by the order of time (nothing after a row moves what is
  counted before it) or by what the property lets both have in common.
- *Evaluation* (`EvalInv`): the table is ranked, and of a report we know what its operators said of its
  table (`Reported`). The counts only grow as the threshold falls, so the lowest point of the curve within
  the budget catches the most of it; a point dropped lies evenly between its neighbours and can neither
  separate better than both nor, by itself, be closest in error rates; flagging by a threshold is flagging a
  prefix.
- *Evaluation, population* (`StatedInv`): the weight of a report is positive and its table graded. The
  population is a table of copies, so every count is the sample's times the weight of its class
  (`SumOfCopies` for the sums), the points of the population are those of the sample scaled, the same are
  dropped, the same threshold is the lowest within the budget, and the ratios cancel.

`Sums` holds what the recovery, the explanations, the release and the population need of sums over finite sets
(`MapThenSumSet`, to which `FoldSeq` comes down), and what the training and the curve need of sets in order
(`InOrderIs`). The induction over the size of a set is a lemma of that module: the library's
has an operator for a parameter, which no prover instantiates, but the same over a set of parts of a
finite set follows from the minimum of a well-founded relation. Folds that are not sums (the replay of a
log) are unfolded the same way, one last element at a time.

Only model-checked: liveness (`EveryRequestEnds`, `EveryEventEnds`, the liveness part of
`AtomicUpdates`), since fairness and ENABLED are out of the prover's reach; and the two disagreements of
section 6 that a run shows, which are counterexamples.

## 6. Where code and text disagree

Shown by a run:

- `engine_alarm`. `state_store.py:48` calls the review flag "set on drift, cleared by a verified
  step-up". `risk_engine.py:239` sets it only if the policy would have allowed the event, so an alarm
  on an event that is stepped up anyway leaves nothing behind.
- `audit_race`. `audit.py:39` appends without a lock in a pool of threads: two overlapping appends
  store the same predecessor, and `verify_chain` is false from then on although nothing was edited.

Named by a property as its exception, so that the run shows both what holds and where it ends:

- `stores.py:8` "Crypto is identical to the in-memory versions". `append` hashes the payload as Python
  writes it and stores it as JSONB, whose numbers are of another type, and `verify_chain` hashes what comes
  back: `round(x, 4)` of a small negative number (`explain.py:40`, `schemas.py:145`) is hashed as `-0.0` and
  read back as 0.0, and a float like 1e16 comes back as an integer. `verify_chain` is then false from that
  record on, without any race and with nothing edited (`ChainIntact`).
- `main.py:85-89`: a bucket's list is replaced, tested and counted in three steps without a lock. A thread
  that read its clock earlier may put an old entry back between those of another, which then answers 429 to
  an identity with no failure in its own period (`RefusedForCause`).
- `explain.py:3` "every decision must be explainable". The reasons are those of the features, the risk is
  blended with the model's score (`risk_engine.py:218-219`): an event that only the model finds suspicious loses trust
  and is reported as "NORMAL: behaviour consistent with identity baseline" (`risk_engine.py:153-154`).
  `SuspicionIsExplained` calls it `ModelAlone`.
- `stores.py:58`: of two pods that append at once one fails on the primary key; the pod prints the
  exception and goes on (`scoring_pod.py:41`), so its score counts and its decision is in no ledger
  (README.md:182 "every decision → hash-chained ledger"). `EveryEventEnds` calls such an event dropped.
- `bus.py:3` promises the order of an identity's events; a pod that stops or is evicted at work makes
  the next owner score again what it had scored (`InOrderUnlessStopped`).
- `ingress.py:46`: 202 is answered whether or not the message reaches the broker (`EveryEventEnds`).
- `attestation.py:143` "anti-replay on BOTH nonces (single-use)": two resolutions that overlap both pass
  (`NonceOnceUnlessRaced`), and one may end in a `KeyError` (`BelievedForCause`).
- `keystore.py:46`: "erasure must be durable, not just point-in-time". A `put` that is past its test
  when the identity is erased stores the key again: the identity is barred and readable. And
  `main.py:53` keeps the vault in the process, so a restart forgets who was erased.
  `ErasedUnlessRaced` and `ErasureLasts` name both exceptions.
- docs/SECURITY_HARDENING.md:86: a "true replay returns the prior decision, never a fresh score". Not one
  that overlaps the first, follows its failure, an eviction or a restart: `ScoredOnceUnlessEvicted`.
- `audit.py:70`: a checkpoint whose two reads an append separates pins a log that never existed.
- `model_loader.py:114`: the digest is taken of one reading of the artifact and the model loaded from
  another; and with a pin, nothing compares the card with the artifact (`ServedAsDescribed`).
- `download_data.py`: a download ends with "done." and no file if the kaggle client names it otherwise
  (`FetchedWhole`).
- `dp_export.py:11-20` claims a bounded contribution and "a disjoint partition of users". Devices are
  named by type, browser and system, so users share them, and the log is replayed user by user: one
  user changes the sharing feature of the users sorted after her, in any cohort. And `--limit` cuts the sorted
  log (`dp_export.py:71-72`): a user's logins keep others' out, whose country, with one login less or
  more, may change or appear at all (`ContributionConfined`, which names both).
- `train.py:12` "no look-ahead leakage": the norms of CERT are medians over all days, the RBA round-trip
  median is over all rows and its window and cut are placed by all labels, and the 100 devices kept for
  IEEE are counted over all rows (`NoLookAhead`, `TestLabelsUnseen`). `phaseb_extra.py` says "All
  selection uses TRAIN/VALIDATION only"; the feature its leak audit drops is chosen on a sample of the test rows.

Noticed while reading, with no property of their own:

- README.md:156 says "The only path that can **raise** trust is a signed outcome from the verifier";
  below a risk of 0.45 every event raises it, within the recovery cap.
- `risk_engine.py:162` says "rate-limited within a rolling window"; the window restarts at the first
  event after it ran out, so two budgets may meet inside one hour. And the time is read before the lock is
  waited for and kept over the retries (`risk_engine.py:192`), so an event may be charged to a window that
  opened after its time: within one hour up to three budgets. `RecoveryWithinBudget` states what
  holds: twice the cap over any stretch shorter than an hour by that wait.
- A privileged event under review is challenged with `otp_sms`, while `schemas.py:47` reserves
  `manager_approval` "for privileged access", as the policy does.
- `state_store.py:84` says of a lost compare-and-set "caller should reload + retry"; a request that lost
  because its lease ended gets an exception from the release of the lock and does not retry.
- `main.py:177-178`: "garbage submissions can never lock a victim out of their real step-up"; twenty
  failures of an identity within the period answer 429 to its genuine assertions too.
- `schemas.py:64` sets no lower bound for an amount, and `features.py:61` scales it as it is while there are
  few to compare with: a negative one counts against the risk, may be the dominant feature, and the
  counterfactual then names none. `SuspicionIsExplained` leaves such an event out.
- NORMAL is also reported beside the impossible journey or the drift, when no feature contributes more than 0.05
  (`risk_engine.py:227`, `:242`).
- An allowed event that names no place (`schemas.py:62` has no lower length for `geo`) clears the travel reference
  (`risk_engine.py:257`), and the next event may come from anywhere (`:174`).
- `dp_export.py:128` divides the noisy sum by the exact number of members, which the release decision
  of line 118 takes care to see through noise only.
- Three reason codes are never reported: hour, channel and velocity weigh so little that their
  contributions stay below the 0.05 that `_explain` asks for.
- An identity's `hours` and `amounts` grow without bound, though only the last 200 are read.
- The cold-start discount is applied when serving and not in the vectors the served model is trained on.
- `evaluate_tuned.py` says the test set is "read exactly once", and decides on it whether to keep the
  tuned model; `tune.py:171` says the final model is refitted on the full training set, and
  `evaluate_tuned.py` fits on the inner one.
- `evaluate.py:70` names a temporal 70/30 split; the cut is a quantile of the takeovers.
- `pramaan_eval.py` computes `pr_auc` by trapezoids and counts the sampled negatives in its confusion,
  `eval_full.py` the average precision and the population: the two numbers are not comparable.
- `cost_analysis` prices the first rows of the sort: among equal scores it reports a threshold whose cost is
  another, and it does not consider flagging nobody. `roc_curve` drops points of a straight line, so the recall at a
  budget can be that of an earlier point (`PointsAreBest` allows for both).
- In demo mode the edge secret of the settings and the one of `privacy.py` are two different random ones.

## 7. What is left

Every part of the running system is modelled, and of the offline side all that feeds, measures or
exports a model. The next steps, most important first:

1. `TrustState` run on `StateStore`, to show with TLC that overlapping assessments and step-ups refine
   the sequential `TrustEngine`; the argument is made by hand in section 2.
2. An abstract vault (erased means unreadable until consent) that `PiiVault` implements but for the
   named races.

Not modelled, and why:

- `PostgresPiiVault` (`stores.py`) and `reconsent` (`keystore.py`): nothing in the repository constructs
  the one or calls the other, so there are no processes whose interleavings could be checked.
- `auth.py`'s comparison of an API key and its scopes: a test without state, of one request.
- `verifier_service.py`: signs what it is asked and keeps nothing; its assertions are constants of
  `StepUpGate` and `Evidence`.
- `privacy.py`: keyed hashing and random noise. The distribution of the noise, and with it
  differential privacy as a statement about probabilities, is out of TLC's reach.
- Fitting, predicting and the floating-point arithmetic of the learners; confidence intervals and paired
  tests over bootstrap draws; plots, tables and texts.
- `fairness_audit.py`, `explain_shap.py`, `coldstart_metric.py`, `impossible_travel_lift.py`,
  `profile_rba.py`, `scan_rba.py`, `assemble_old_vs_new.py`: one pass each over data or results, to a table.
- The simulator, the smoke and load tests, `check_headline.py`, deployment files and the dashboard.
