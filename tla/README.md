# Verification of ECDAT

ECDAT is a FastAPI service that scans source repositories for cryptographic
assets, stores what it finds and rates the quantum risk of every asset. A scan
is a durable job: a request inserts it, a background task claims it, a worker
subprocess runs it, a supervisor thread stores its result, and several other
actors (cancellations, watchdogs, other replicas, restarts) may intervene at any
point. Around the jobs are the scanner that reads a repository, the correlators
that make findings of what it saw, the scoring, an API with rate limits, sessions,
reviews, streams and reports, and an evaluation against ground truths. This
directory holds TLA+ models of all of these, TLC configurations that
check them on small instances, and TLAPS proofs that hold for every instance: of every
invariant and every safety property that a passing run checks. The code is the reference: `PROJECT.json` (`map`) names, for every
definition that models code, the lines it translates.

## 1. The system

| component | code | state | operations |
|---|---|---|---|
| scan admission | `services/scan_control.py`, `routers/scan.py` | `scan_jobs`, `scan_dispatches` (the outbox row) | `enqueue_scan`, `dispatch_scan` as background task |
| process slot | `scan_control.py` | `_active: Control`, one per process, under `_lock` | `reserve`, `release` |
| lease | `services/scan_lease.py` | `scan_leases`, unique per job | acquire, renew, release, reconcile at startup |
| claim | `scan_control.py` | `state`, `claimed_by`, `claim_expires_at`, `heartbeat_at`, `attempt_count` of the outbox row | `claim_dispatch`, `renew_claim`, `finalize_dispatch` |
| supervision | `scan_control.py: supervise` | local verdict, worker process, heartbeat and cancel files | monitoring loop, retry, termination, epilogue |
| worker | `scan_worker.py` | result and progress files | scan, publish progress, stop when the supervisor is gone |
| persistence | `services/scanner_runner.py` | `crypto_assets`, the job's result fields | `persist_scan_result`, in two transactions |
| cancellation | `routers/scan.py`, `scan_control.py` | `cancellation_requested_at`, `Control.cancel` | `request_cancel` |
| watchdog | `main.py: lifespan` | none | `reconcile_abandoned_scans` every ten seconds |
| event stream | `routers/scan.py: _event_stream` | last event per connection | poll, emit, stop at a terminal status |
| boot and recovery | `main.py: lifespan`, `readiness.py`, `services/stale_job_recovery.py` | tables, columns and revision of the database | create, stamp, recover stale jobs, `/ready` |
| rate limiter | `middleware/rate_limit.py` | `_windows` per process, under `_lock` | `check` |
| sessions and audit | `security.py`, `routers/auth.py`, `routers/audit.py` | signed claims kept by clients, revoked ones and the audit trail in the database | login, role checks, audited writes, purge |
| asset review and reports | `routers/assets.py`, `routers/outputs.py`, `routers/dashboard.py` | `crypto_assets` | PATCH and reassess, lists, pages, CSV, summary, evidence graph |
| scoring | `services/risk_engine.py`, `services/confidence.py`, `services/calibration.py` | none | pure functions of an asset |
| metrics | `services/scan_metrics.py`, `services/prometheus_metrics.py` | ring buffer and counters per process, a lock each | record, scrape |
| settings | `settings.py` | none | `load_settings` of an environment |
| scanner | `scanner/main.py`, `scanner/limits.py` | inventory, failures, budgets of one scan | walk, collect, account for coverage |
| collectors | `scanner/collectors/` | none | what one file contains |
| correlation | `services/correlator.py`, `services/correlator_v3.py` | none | pure functions of the evidence |
| evaluation | `services/evaluation.py`, `services/ground_truth.py` | none | match stored findings with a ground truth |

How they interact. Everything that outlives a process is in the database; the
slot, the cancel event and the supervisor's verdict live in one process and die
with it. Two replicas share nothing but the database. A cancellation reaches a
supervisor in its own process through `Control.cancel` and any supervisor through
`cancellation_requested_at`, which the monitoring loop polls. The watchdog reads
heartbeats only from the database, so it judges supervisors of every replica.

What is hard here. The code does not hold a transaction across a decision: it
reads, decides, and writes in a later transaction (`enqueue_scan`,
`_finish_if_active`, `request_cancel`, `reconcile_abandoned_scans`,
`persist_scan_result`, the PATCH of an asset, stale-job recovery, `create_all` of two
replicas, every report of several statements). Threads can stall anywhere between two of them, processes
can die anywhere, a transaction can fail anywhere, and time (claims, leases,
grace period) goes on. The computing parts are hard in another way: budgets that
run out between files, evidence that arrives in any order and contradicts itself,
an assignment algorithm with potentials and alternating paths. `PROJECT.json` (`hazards`) lists every such place.

## 2. Modules

| module | what it is |
|---|---|
| `ScanControl` | the detailed specification: every step of admission, claim, supervision, cancellation, reconciliation, with crashes, failed transactions and time |
| `OneShotScan` | abstract: a job is given to one runner at most and delivers one result at most |
| `ScanLifecycle` | abstract: the life of a job row as `docs/ARCHITECTURE.md` draws it |
| `SupervisionOutline` | abstract: the course of one supervision, as both detailed specifications below must show it |
| `ScanProperties` | type invariant, invariants, action and liveness properties of `ScanControl`, and its refinement mappings to the three abstract specifications |
| `MCScanControl` | instances for TLC: where threads live, which repository a job belongs to, symmetry of jobs |
| `DataLemmas` | lemmas that every proof about data rests on: induction over numbers, finite sets, orders and sums, in a form that can be cited |
| `ScanSafetyProofs` | the type invariant and the frame lemmas the other proofs cite; proofs about the slot and about cancellation, and that every thread supervises as `SupervisionOutline` says |
| `ScanOnceProofs` | at-most-once execution and the refinement of `OneShotScan`; outbox row, lease and owner agree with the job; a completed job has its result; with prompt supervisors results stay and `ScanLifecycle` is implemented |
| `WorkerSupervision` | detailed specification of one call of `supervise` with the worker processes it starts and the files between them |
| `WorkerProperties` | its properties, and its refinement mapping to `SupervisionOutline` |
| `WorkerProofs` | proofs of all its safety properties and of the refinement |
| `Configuration` | `load_settings`, and `NoValue`, the absent value of all modules below |
| `RateLimit` | requests that read the clock, wait for the lock, and are checked under one or two keys |
| `Scoring`, `RiskEngine` | operators: confidence bands, `score_finding`, `assess_risk` |
| `AssetReview` | reviewers who PATCH in two steps, scans that complete, readers of pages, CSV, summary and graph |
| `Sessions` | login, role checks, audited writes and purges across reconfigurations of the server |
| `EventStream` | the stream of one scan's progress over the life of its row |
| `Startup` | the boot of several replicas on one database, stale-job recovery, `/ready` |
| `Telemetry` | ring buffer, percentiles and request counters, scraped lock by lock |
| `ApiServer`, `MCApiServer` | the six parts above side by side, and their instance for TLC |
| `ServerProofs` | proofs about the rate limiter, the event stream, sessions and audit trail, metrics, and boot and recovery |
| `ReviewProofs` | proofs about reviews, lists, pages, downloads and the evidence graph |
| `Subsequences` | the part of a sequence at given indices, which the four modules below share |
| `Collectors` | operators: what each collector makes of the content of a file |
| `ScanPipeline` | one scan from the inventory to the coverage metrics |
| `Correlation` | operators: the correlators v2 and v3 |
| `ScanReport` | from the collected evidence to the rows and counters of the report |
| `Evaluation` | the evaluation endpoint, with the Hungarian algorithm step by step |
| `Assurance`, `MCAssurance` | scan and evaluation side by side, and their instance for TLC |
| `MatchingProofs` | proof that the Hungarian algorithm finds a best pairing |
| `ReportProofs` | proofs about the scan and its report, from the inventory to the rows |

The two detailed specifications meet in `SupervisionOutline`. `ScanControl` has
the whole protocol around a supervision but sees a worker only as far as
`supervise` does; `WorkerSupervision` has the processes and the files but sees
the database only as a renewal that succeeds or not and a flag that is set.
Each is proved to follow the outline (`FollowsOutline`, `Outline`), so what the
first assumes about a supervisor (at most two starts, "completed" only when a
result was handed in, a verdict that a clean-up may still turn into "failed") is
what the second delivers.

### ScanControl and the code

A *thread* (`Threads`) is a server thread that serves `POST /scan` and then runs
`dispatch_scan`; its program counter `pc` names the control point it is at:

    idle -> insert -> notify -> dispatch -> reserve -> lease -> claim
         -> start -> check <-> tend -> persist -> write -> finish -> finwrite
                       \-> stop ----------------------^
         -> finalize -> release -> unlease -> idle

A *canceller* (`Cancellers`) serves `POST /scans/{id}/cancel`
(`CancelSignal`, `CancelRead`, `CancelWrite`, then a sweep). A process (`Procs`)
has a slot and a watchdog (`SweepRead`, `SweepWrite`). `Home` places threads on
processes.

One action is what happens between two points where another actor can
intervene. A transaction's writes are atomic; a read whose value is used by a
later write is a step of its own, and the value that was read is kept in a
variable (`want`, `seen`, `sweep`) or in the program counter. The claim
transaction is atomic because it re-reads the outbox row under the write lock it
then commits with (a row lock on PostgreSQL, the database lock on SQLite).

Decisions a reader should know:

* **Time.** `hb` and `leaseAge` are the ages of the last heartbeat and of the
  last lease renewal in ticks, saturated just above `TTL`: only their order
  relative to `Grace` and `TTL` matters. The duration of a scan is not counted:
  `TimeOut` may happen on every round of the loop, and is strongly fair. Whether
  an abandoned job is also overdue is a free choice (`late`).
* **Late threads.** By default a thread may stall at any control point for ever.
  `Prompt` names the control points at which it is assumed to act before its
  heartbeat is older than `Grace`; the runs that assume this say so.
* **Leases.** `LeaseFree(j)` is "no row at all". The session does not autoflush
  (`db.py:23`) and SQLAlchemy's unit of work emits an INSERT before a DELETE of the same
  mapper, so `acquire_lease` never replaces an expired row: an unreleased one is
  still found and refused, a released one collides with the UNIQUE constraint.
  Hence a job is leased, and so claimed, at most once in its life.
* **Claims.** The second disjunct of `Claimable` (claimed and expired) is in the
  code and in the model, and the lease keeps it from ever being taken.
* **Failed transactions.** `DbFault` makes the transaction of a thread raise at any
  control point and follows the handler there; in `dispatch_scan` nothing
  catches it once the slot is reserved, and the slot stays taken.
* **Clean-up.** `CleanupFails` is the removal of the workspace that raises, or the
  termination that cannot be confirmed: both turn a verdict into `failed` between
  the loop and the epilogue.
* **Merged steps.** `CancelSignal` is the endpoint's check of the job and the local
  signal; the worker process is visible as far as `supervise` sees it (it leaves
  a result, exits in another way, or runs).

### WorkerSupervision and the code

The supervisor's control points (`spc`) follow the lines of `supervise`:

    begin -> setup -> launch -> poll -> check -> tend -> poll ...
      poll -> exited -> (retry: poll) | persist | clean
      check, tend -> leave -> clean | (worker gone: next launch)
      persist -> clean -> rmdir -> reap -> over          dead (crash)

Each launch `a` has a process with a control point `worker[a]` (`boot`, `scan`,
`publish`, `place`, `placed`, `exited`) and a reason for its exit `code[a]`. Its
watch thread (`Watch`) may end it anywhere once it runs; the progress callback
(`Report`, `Publish`, `PublishFails`) looks at the same signs. The files are
`dir`, `files`, `artifact` (whose result is in `result.json`), `beatAge` (age of
`supervisor.heartbeat`) and `cancelFile`, which lies outside the workspace and
may be there from an earlier database.

* **Time** is `beatAge` only, in ticks longer than the two seconds between
  touches; `Limit` stands for 45 seconds. A supervisor may be as slow as it
  likes; `stalled` remembers that it was too slow once.
* **The end.** The exit of `TemporaryDirectory` comes before the termination of the
  worker, so `Unlink` and `RemoveDir` are two steps between which a live worker
  may create a file; then the removal raises. `Terminate` has the three outcomes
  of `_terminate_process_tree` inside the `finally`: ended; ended but reported as
  unconfirmed; not ended.
* **Crash.** The worker runs in a session of its own and survives the server.
* **Left out.** What a scan computes, the contents of progress and result, the
  size limits (they only add ways to fail, which `WorkerFails`, `PublishFails` and
  `Fault` have), the worker's standard error file.

### The API server and the code

The parts of `ApiServer` share no variables, so any interleaving of two of them is
one of each alone; `part` names the one in motion and nothing is lost by leaving
the others where they start. Within a part everything interleaves.

* **RateLimit.** `time.monotonic()` is read before the lock (line 220): `ReadClock` and
  `Check` are two steps, at most `MaxLag` apart. `check` prunes, refuses at the first
  full key and has by then charged the keys before it. A call is stamped once, so a
  window is a set of calls and the list of timestamps is the bag of their stamps.
* **AssetReview.** `LoadForReview` reads the row, `CommitReview` writes the columns that differ from
  what was loaded, with the audit entry. Two reviewers overlap anywhere; requests
  time out before or after the commit. A report is one step per statement.
* **Sessions.** The server restarts with another environment of `Environments`; a
  claim is a record that carries the key it was signed with. Authentication and
  the audited write are two steps.
* **EventStream.** One step is one turn of the loop: a poll of the row, the payload
  if it differs from the last, and `done` at a terminal status.
* **Startup.** `create_all` looks for tables in one step and creates the missing ones in
  another; the stamp and recovery are steps of their own; a replica may die in
  between. `find_stale_jobs` and the marking are separate, and jobs are claimed,
  supervised and finished meanwhile. A version table without a row counts as absent.
  `aware` says whether `started_at` comes back with a time zone: the column has one when
  the migrations made it on PostgreSQL, and none when `create_all` did or on SQLite; then the
  subtraction raises and nothing is recovered. A database may be fresh, migrated, or made by
  the `create_all` of an older release (`legacy`): `lifespan` stamps the last as it is.
* **AssetReview.** A review loads in one step and commits in another; its answer is kept,
  so that a handler that timed out and commits all the same is told apart. A reader counts
  in one step and reads in the next, page by page. What the evidence graph is asked for
  (`Asked`) is a scan or one asset of it. With the limits of the code (200 assets, 500
  nodes, 500 edges) the edge limit is never the one that binds, since every edge brings a
  node and assets have nodes of their own; the model keeps the three apart.
* **Telemetry.** Counting a response and adding its duration are two critical
  sections; a scrape is three.

### The scan, its report and its evaluation

`ScanPipeline` takes the files in the order of the inventory. What a file reads as
is a content record (`Reads`), chosen when the file is read: source text is what
tokeniser, patterns and parsers see in it, and the control around them (name
resolution and shadowing, brackets that span lines, bundles, packages by name,
failures reported or raised) is the code's. The first look at a file (`OpenPath`)
may find the time or memory budget exhausted; each of its handlers is a step of its
own (`ReadPath`), and may read another content than the one before. `ScanReport`
correlates what was collected, scores it and stores it in the steps of
`scanner_runner.py`; `Evaluation` runs one iteration of `_hungarian_match`'s loops per
step, with `Infinity` an object that is no integer. The correlators sort records by their
JSON text, and by the random `asset_id` only where that is equal. `TextRank` is the place of
a text among all texts, whichever it may be; `Correlation` has the records as a set and each
group in that order (`Sorted`). An `asset_id` is the number of the observation in the walk:
one choice of the random ids, and `FindingsStable` says that any other choice and any other
walk give the same. A list comprehension with a
condition is `Selected`: the elements at the chosen indices, in their order. The two
halves of `Assurance` share no variables (`half`). Confidences are integers in
hundredths.

## 3. Runs

Every run of `ScanControl` has `Grace = 1` and `TTL = 2`: an age can be fresh, beyond the grace
period, at the limit and expired, which are all the cases the code tells apart.
The runs of `WorkerSupervision` have `Launches = 2`, the code's `range(2)`, and
`Limit = 1`: a heartbeat is fresh, at the limit or beyond it.
`CHECK_DEADLOCK FALSE` everywhere: when all jobs are over, all crashes used and
nobody posts, the system stops; a supervision, a stream, a scan and an evaluation
stop when they are over.

| run | instance | shows |
|---|---|---|
| `claim` | 2 processes, a thread each, 1 job, 1 crash, 1 failed transaction, no promptness | `TypeOK`, `SingleSupervisor`, `AtMostOnce`, and that `ScanControl` implements `OneShotScan` and, for each thread, `SupervisionOutline` |
| `cancel` | 1 process, 2 threads, 1 canceller, 1 job, 1 crash, no promptness | `OutboxAgrees`, `CompletedHasResult`, `CancelStopsClaims` |
| `outcome` | 1 process, 2 threads, 2 jobs of a repository, 1 crash, prompt supervisors, symmetric jobs | `OneScanPerProcess`, and that `ScanControl` implements `ScanLifecycle` |
| `progress` | 2 processes, 1 thread, 1 canceller, 1 job, 1 crash, prompt supervisors, fairness | `ResultIsShown`, `RunningTerminates`, `CancelTakesEffect`, `SlotIsFreed` |
| `worker` | one supervision, 2 launches, cancellation, crash, exception and kill at any point, fairness | `TypeOK`, `OneWorker`, `NothingLeftBehind`, `ResultOfLastWorker`, `StopsForCause`, `OrphanStops`, `SupervisionEnds`, and that it implements `SupervisionOutline` |
| `worker_telemetry` | the same | violation: progress that cannot be published fails the scan |
| `api` | each part of the server in turn: 5 requests of 2 limited endpoints; 4 assets of 2 scans, 2 reviewers, a reader with 7 queries; 3 clients, 3 environments; a stream; 2 replicas, a job, 3 databases; 2 labels, a scraper; fairness | `LimitHeld`, `RetryAfterSuffices`; `FieldsFollowAudit`, `RiskFollowsFields`, `ReadersSeeAScan`, `GraphIsHonest`; `TrailAccounted`; `StreamTellsTheEnd`, `StreamsClose`; `RecoverySparesLive`, `ReadyIsComplete`, `BootCompletes`; `ScrapeFitsTogether` |
| `report` | 5 small repositories, every budget, both correlators; all ground truths and reports of up to 3 operations out of 6 kinds, and odd ones | `EveryFileAccounted`, `EvidenceAccounted`, `FindingsStable`, `ConflictsHaveTwoSides`; `MatchingIsBest` |
| `duplicate` | 2 threads, 2 jobs | violation: two requests of one repository both insert a job |
| `stale_result` | a supervisor that stalls between the two transactions of `persist_scan_result` | violation: the result is stored over the watchdog's verdict |
| `lease_expiry` | a crash between lease and claim | violation: the expired lease cannot be taken over |
| `forgotten` | a crash before the claim, fairness | violation: the job stays queued for ever |

Why these bounds are enough to be interesting: every race in the hazard list is
between two actors about one job, or between two jobs about one slot. Two
threads meet on one job because `enqueue_scan` returns the active job of the
repository; a crash frees one of them at any control point; the watchdog of the
surviving process reads and writes in between. `MaxCrashes` and `MaxFaults` bound
crashes and failed transactions, the set `Jobs` bounds how many rows a
repository can have (the guard on `Cardinality` in `EnqueueCheck`). The theorems
below hold without any of these bounds.

In `api`, windows of two and three ticks with thresholds 1 and 2 let a request be
refused by its first and by its second key and let it be overtaken; two reviews of an
asset are what it takes to overwrite one unseen. With pages of 2, scan 1 with its 3
assets takes two pages, between which reviews commit and scan 2 completes; a query without
a scan id then goes on in scan 2. The graph limits of 2 assets, 4 nodes and 3 edges are met in
these ways: asset 1 alone has 3 sources and fits exactly (no reason); scan 1 has an asset
too many, and after asset 1 no node is left for the next (`asset_limit`, `node_limit`, the
graph ends early); asset 4, the whole of scan 2, has 4 sources and is short of nodes and edges at
once (`node_limit`, `edge_limit`); asset 1 is asked for in scan 2 (404). The buffer of 2
samples overflows with 3. The databases are a fresh one and an older one with and without a
revision; one crash and one failed stamp meet every step of a boot.
`MaxClock`, `MaxNow`, `MaxReviews`, `MaxEvents`, `MaxProgress`, `MaxSamples`, `MaxBootCrashes`
and `MaxStampFaults` are the bounds. In `report`, file, byte and evidence limits of
5, 1 and 5 are all reached by the trees; 3 operations against 3 findings are the
smallest assignment in which an alternating path is longer than one exchange, and
0 on either side is included.

Fairness (`FairSpec`). A thread, a started cancellation and a sweep that can go on
do go on (threads of a running process are scheduled, the watchdog loops for
ever and survives exceptions); time passes; a dead process is restarted (the
deployment's restart policy, without which nothing in the code could reconcile
anything); the deadline test is reached on every round of the loop, so a loop
that goes round for ever meets it. Nothing makes a user post or cancel.
In `WorkerSupervision` the same holds of the supervisor's thread and its deadline
(`TimeOut` is strongly fair: every round of the loop reaches it); a process that
was started comes up, its watch thread, a loop with a sleep of one second, looks
again, and time passes. Nothing makes a scan go on: it may hang, and
`SupervisionEnds` and `OrphanStops` hold all the same.
In `ApiServer` an open stream is polled again (the event loop runs and its sleep ends:
weak fairness of `Poll(s) \/ GiveUp(s)`), and the boot of a replica goes on, again
after it died (the deployment restarts it: weak fairness of `BootGoesOn(p)`). Nobody
has to send, review, log in, scrape or upgrade anything.

## 4. What disagrees with the documentation

The five violation runs, each a real disagreement between a sentence of the
repository and the code (`PROJECT.json`, `findings`): the check-then-insert of
`enqueue_scan` admits duplicate queued scans; `persist_scan_result` can store a
result after the watchdog's transition; an expired lease is not recoverable; a
crash can leave a job active for ever; progress that cannot be published, which
the comment calls harmless telemetry, makes the worker exit, and fails the scan
when it happens in both launches.

Beyond those, some behaviours the model makes visible and that no sentence of
the repository denies: a cancellation that read the job as queued can be written
after the job completed and turns it into `cancelled` (`ResultIsShown` allows
exactly this); a cancellation that lands before a renewal is reported as
`failed`, because the renewal no longer finds a claimed row; a failed claim
transaction leaves the process's slot taken until it restarts (`SlotIsFreed` is
checked without failed transactions). In a supervision: the cancel file
may stop the worker before the supervisor sees the flag, which takes it for an
unexpected exit, starts a second worker and, if that one is stopped the same
way, reports `failed`; a worker that is still writing while the workspace is
removed turns `cancelled` or `timed_out` into `failed`; and a worker that exits
between a break of the loop and line 646 is replaced by a second one although
the supervision was already being ended (it is then cut, or finishes the scan).

Sentences of the repository that the modelled code does not keep and for which
there is no run of their own:

* `docs/implementation-improvement-plan-2026-09-12.md:25` wants "a stale or unversioned
  schema" to return 503. A replica with `ECDAT_AUTO_CREATE_TABLES` stamps an unversioned
  database as current, whichever release made its tables (`main.py:226`); `create_all`
  adds no columns to them. A replica without the variable then looks at the revision only and
  calls the database ready with columns missing; this is the exception in
  `ReadyIsComplete`. A replica with the variable looks at the columns and answers 503.
* `docs/IMPLEMENTATION.md:160` wants an audit event for every recovered job;
  `recover_stale_jobs` writes none. The comment in `stale_job_recovery.py:19` takes
  `started_at` to have a time zone; the model's column has none, and on SQLite or
  after `create_all` the subtraction raises and nothing is recovered (`aware`).
* `docs/ARCHITECTURE.md:41`: "A conflict requires incompatible algorithms in the same
  operation and category, not merely multiple algorithms in one file." The operations that
  a version-2 row names as conflicting keep to that (`ConflictsHaveTwoSides`). Its
  `conflict` flag does not: context conflicts set it too, as
  `docs/operation-correlation.md:29` describes, and a key size that is no positive number is one
  by itself, so the row of an Ed25519 certificate, whose key size is stored as 0, is in
  conflict with nothing. Version 3 never flags an operation whose algorithms disagree.
* `evaluation.py:10` speaks of algorithm family aliases in operation matching; the
  matching ignores the algorithm, and aliases are applied to the expected side only.
* `risk_engine.py:18` says a `-P256` suffix is stripped; `_base_algo` leaves it.
* The docstring of the readiness check speaks of columns; they are looked at only
  with `ECDAT_AUTO_CREATE_TABLES`.
* `_normalise_path` says that label cardinality stays low; paths below `/api/` never
  match its patterns.

Behaviours a reviewer may want to know of: two PATCHes of different fields of one
asset leave a risk that belongs to neither combination (the exception in
`RiskFollowsFields`); a retry exactly at `Retry-After` may be refused, one second later
it is not; a refused login has charged its first key; `/assets` sorted by priority can
skip or repeat an asset that is reviewed between two pages, and without a scan id
pages may mix scans (the premises of `ReadersSeeAScan`); a job forgotten in the queue
past the threshold and dispatched between recovery's two steps is marked failed
while it is supervised (`waited` in `RecoverySparesLive`); recovery leaves the outbox row
of the job open; a failure of `record_audit` in `POST /scan` answers with an error over a
job that is durable. A memory error over the repository path itself counts as one
failed and one unscanned file more than the payload lists; progress is not reported
for a last file that the budget skipped. What v3 knows of ambiguity and links is lost
when the rows are stored; fingerprints contain the asset id, so evidence is never
deduplicated across scans; an extended key usage is found by substring, so
`.3.17` counts as server authentication; a stored certificate has no key size where
the evaluation looks for it, so every certificate expectation with one mismatches
(`own_size`). Nobody in production calls `scan_metrics.record`.

## 5. Proofs

Every invariant, every action property and every refinement of the passing runs is a
theorem; what TLC alone answers for is liveness. `tlapm` checks all of it without a step
left out. An invariant that is not inductive is proved from one that is, and TLC has
found the property to hold on the instances of section 3 first.

The theorems about `ScanControl` are about its `Spec`, for every set of processes, threads, cancellers,
jobs and repositories, every `Grace < TTL` and every number of crashes and
failed transactions. They rest on `ThreadsAssumption`, `TimeAssumption`,
`BoundsAssumption` and nothing else.

* `TypeCorrect` (`ScanSafetyProofs`): `TypeOK`. It is inductive. The part with content
  is that a thread behind admission has a job, and that verdicts, wherever they
  travel (`verdict`, `sweep`), are terminal states.
* `ScansOneAtATime` (`ScanSafetyProofs`): `OneScanPerProcess`, inductive together with
  `TypeOK`; `SlotFreed` is the key step: `release` clears the slot only if it is
  its own, and nobody else could hold it.
* `CancelledNeverClaimed` (`ScanSafetyProofs`): `CancelStopsClaims`. The property alone
  is not inductive, because `CancelWrite` writes what follows from a state read
  earlier. `CancelSettled` adds what that read proves: a canceller that saw
  `cancel_requested` acts on a job that is already marked, and a marked job's
  dispatch is neither pending nor claimed.
* `ScannedAtMostOnce`, `SupervisorIsUnique`, `ImplementsOneShot` (`ScanOnceProofs`):
  `AtMostOnce`, `SingleSupervisor` and the refinement `OneShot`, from the inductive
  invariant `OnceInv`: behind `acquire_lease` a job's lease row exists
  (`LeaseGuards`), only one thread is there per job (`OneLeased`), and its program
  counter tells the attempts and results written so far (`AttemptCounted`). All
  steps but three are `Calm` (no lease acquired, no claim, no result) and preserve
  it for one common reason; acquiring, claiming and storing have a lemma each. The
  refinement maps a committed claim to `Give`, the second transaction of
  `persist_scan_result` to `Deliver`, and the end of supervision, also of many
  threads in a crash, to `Leave`.
* `OutboxAlwaysAgrees` (`ScanOnceProofs`): `OutboxAgrees`, from two inductive invariants.
  `OutboxInv` says that what anybody holds on to was there when it was read (`Known`: a
  thread's job has a row, a canceller that saw a job out of the queue and a sweep that
  judged it act on jobs that have left the queue, which no job re-enters), that rows
  without a job are clean, and that `finalize_dispatch` is reached only over a job that is
  over (`FinalizeIsOver`; without it a row could be closed under a running job).
  `OwnerInv` carries the part about owners as long as nothing fails: `OwnersStay` shows
  that an owner stays on its way until it gives back what it has, `OwnersBegin` that
  claims and leases begin with their owner.
* `CompletedKeepsResult` (`ScanOnceProofs`): `CompletedHasResult`, from `ResultInv`: a verdict
  `completed` is held only by a thread whose job has a result stored, sweeps never
  carry it, results are never taken back, and `OnceInv` says there is at most one.
* `ThreadsFollowOutline` (`ScanSafetyProofs`): `FollowsOutline`, one thread at a time: its
  own steps are steps of the outline or stutter, everybody else's leave it alone or, in a
  crash, are the outline's `Leave`. Needed is `Untouched`: a thread still in admission has
  verdict `failed` and no launches, so it enters supervision as the outline starts.
* `ResultStaysShown` (`ScanOnceProofs`): `ResultIsShown`, under the hypothesis of the run that
  checks it, `Prompt = Supervising`: a supervisor renews before its heartbeat is older than
  `Grace`. Without it the property is false (`stale_result`). `OutcomeInv` follows the
  hypothesis through the protocol: a supervised job's heartbeat is young (`Timely`), so a
  sweep that has found a job found one that nobody supervises or will (`SweptIsOver`, with
  `RunningIsClaimed`: it was claimed once already), and a verdict about to be written is
  not written over a result (`FinwriteIsEmpty`).
* `RowsLiveOnce` (`ScanOnceProofs`): `Lifecycle`, the refinement of `ScanLifecycle`, under
  `Prompt = Supervising` and `Cancellers = {}`; a cancellation that read the row as queued may
  write over a completed one, which the documented life cycle does not have. `LifeInv`
  says that a job about to get its result is still running (`PendingRuns`) and an
  unclaimed one is still waiting (`UnclaimedWaits`). One lemma per kind of step shows
  the step of `ScanLifecycle` it is.

The theorems about `WorkerSupervision` (`WorkerProofs`) hold for every number of
launches and every limit, from `LaunchesAssumption` and `LimitAssumption`. Every
step is a step of the supervisor that starts nothing (`SuperStep`), a launch
(`StartStep`), a step of one worker (`WorkerStep`) or of the environment
(`EnvStep`); `Steps` says so, a frame lemma says what each kind leaves alone, and
every invariant is proved along these four cases.

* `WorkerTypes`, `OneWorkerAtATime`: `TypeOK` and `OneWorker`. Inductive is `Core`:
  `TypeOK`, `Fresh` (nothing is launched or created before its control point) and
  `OnlyCurrent` (only the last worker can be alive; at `exited` it is not; at
  `persist` it exited with code 0). `Steps` itself needs it: a retry starts a
  worker only because the one before has exited.
* `NoWorkerLeft`: `NothingLeftBehind`, inductive on top of `Core`.
* `StoredIsOfLastWorker`: `ResultOfLastWorker`, from `OwnArtifact` (when the last
  worker has placed its result, an artifact that is there is its own) and from
  the fact that a result is stored only on the way out (`StoredLast`).
* `WorkerStopsForCause`: `StopsForCause`, from `Signs`: while the loop runs the
  heartbeat file exists and is young or `stalled` is recorded, and a signal file
  means a cancellation. `Setup`, which unlinks an old signal, is what makes it true.
* `WorkersFollowOutline`: the refinement `Outline`, step by step.

The theorems about the server rest on the assumptions of their modules:

* `LimitSpecHeld` (`ServerProofs`, `LimitAssumption`): `LimitHeld`, for any calls, keys and
  waiting times. Inductive with it are `Remembered` (a hit still within its window of
  the present clock is still in the table, since nobody prunes with a clock ahead of
  it) and `Fresh` (a waiting request's stamp is at most `MaxLag` behind): whoever is
  charged has counted every hit that shares a shortened window with it.
* `RetryAfterAlwaysSuffices` (`ServerProofs`): the action property `RetryAfterSuffices`. The wait is
  computed from the oldest hit of the window; when it is over, that hit and all before
  it have left every window of the rule, so one place is free.
* `StreamsAlwaysTellTheEnd` (`ServerProofs`, `StreamAssumption`): `StreamTellsTheEnd`, from
  `StreamInv`: what was sent is the history of the row, in order and without a repetition,
  and a stream that has told the end has told what the row now is, for good.
* `TrailAlwaysAccounted` (`ServerProofs`): `TrailAccounted`, a sum over the entries of the
  trail: every id below the next one is there, or in the count of a purge entry, or
  in the count of one that was itself purged (`lost`). Sums over sets are functions that
  satisfy the recursion (`Recursion`, `SumsSplit`, `SumsAgree` of `DataLemmas`).
* `ScrapesAlwaysFitTogether` (`ServerProofs`, `TelemetryAssumption`): `ScrapeFitsTogether`, from
  `MetricsInv`: counters are the cardinality of what was counted, and a scrape's numbers,
  read one lock after another, are those of three moments in this order.
* `LiveScansAreSpared` (`ServerProofs`, `StaleAssumption`, `SchemaAssumption`): `RecoverySparesLive`. A
  supervised job is younger than `MaxScan < Stale`, so what recovery found was not
  supervised; what it found and others claimed before it marked had waited too long
  in the queue (`FoundIsOld`).
* `ReadyMeansComplete` (`ServerProofs`, also `MigrationAssumption`): `ReadyIsComplete`. The
  invariant `CreatesWhole`: a replica that found no revision works on a database
  without tables or with all columns, what it inspected is still there, and it
  stamps only the latter, unless the database is one that an older release created
  without a revision (`legacy`), which it stamps as it is. That is the case in which a
  replica that looks at no columns is mistaken, and the only one. `MigrationAssumption` says
  that migrations make every column and that nobody but a release's `create_all` makes tables
  without a revision.

The theorems about reviews and reports (`ReviewProofs`) are about `ReviewSpec`, for any
assets, reviewers, readers, payloads, page size and graph limits (`FieldsAssumption`,
`OrderAssumption`, `GraphAssumption`):

* `FieldsAlwaysFollowAudit`, `RiskAlwaysFollowsFields`: inductive together as `ReviewInv`. A commit
  writes the columns that differ from what was loaded, so the property is about the
  order of the commits and not of the loads; `ReviewShape` says that what a reviewer has
  loaded was the row at some time since.
* `ReadersAlwaysSeeAScan`: the pages of a stable order and the rows of a download are the
  assets of the scan, each once. `ReadersInv` keeps what a reader has received as a
  beginning of the order it asked for; that `Ranked` is such an order, with all assets
  in it, is `Places` and `SortedByPlace` of `DataLemmas`.
* `GraphsAreHonest`: the same invariant, and counting: the graph, of a scan or of one asset, has as many nodes and edges
  as it says, within its limits, and gives a reason exactly if something is missing.

The theorems about discovery assurance are about the `Spec` of `Assurance`, for any
repositories, file contents, limits, budgets, ground truths and stored assets. The
assumptions: texts of different observations differ (`TextAssumption`), `os.walk` comes to a file once and a file is not the repository
(`TreesAssumption`), the evidence limit is a number (`EvidenceLimitAssumption`), ground truths
and scans are lists (`EvaluationAssumption`), `float("inf")` is no integer
(`InfinityAssumption`).

* `MatchingsAreBest` (`MatchingProofs`): `MatchingIsBest`, the correctness of the Hungarian
  algorithm of `evaluation.py` for the scores it is used with. `MatchingInv` has the
  potentials feasible for the rows entered (no pair costs less than they allow), the
  assigned columns tight, unmatched columns free, and, while a row is being added, an
  alternating tree: every column reached knows the one before it, at no slack, and ranks
  witness that the way back ends at the new row. At the end no exchange improves on the
  assignment. The usual argument sums costs; here, in no block
  (component, or component and usage) are a row and a column both without a partner of
  their block, since an exchange would cost less than the potentials allow
  (`WorthyPairIsThere`); so the smaller side of every block is matched within it, and no
  pairing has more (`NoneIsBetter`). That the scores leave a gap between "same usage" and
  "same component" is what the argument rests on.
* `FilesAreAccounted` (`ReportProofs`): `EveryFileAccounted`. Inductive is `ScanInv`: while files are
  read, `Accounting` says of every file before the present one that it has a failure code
  or was read by all its handlers, and of every file that was read that it has a code
  exactly if some handler did not return well (`FileAccounted`); files have different paths
  (`FilesApart`), or one code would stand for two. At the end the figures are cardinalities
  of sets of paths (`Measured`), and the code of the repository itself is the one that can
  make `scanned` too small.
* `EvidenceIsAccounted` (`ReportProofs`): from `EvidenceInv`: the evidence is a list of
  observations that `TextRank` ranks, whose elements carry their number, findings are
  `Correlate` of it, and rows are those of the findings. A group is the part of what is kept
  with its key, and its list holds just its records (`FindingsHold`), so a record has one
  finding and a finding no other records (`RowsByRecord`).
* `ConflictsAreTwoSided` (`ReportProofs`): `ConflictsHaveTwoSides`. The code finds conflicts
  over all records, rows show those that are left, grouped. Direct records are never dropped
  (`DirectIsKept`), each is in a row at the file and anchor of its operation
  (`RowsAreAtOperations`), and more than one algorithm is a pair of them that disagrees
  (`OperationsDisagree`).
* `FindingsAreStable` (`ReportProofs`): `FindingsStable`. Two walks over the same
  observations are `Twins`: a bijection of their records keeps all but the id
  (`WalksAreTwins`). Their groups are then twins (`TwinsAreGroupedAlike`), and sorted twins
  say the same at every place (`TwinsSortAlike`): were one ahead at the first place where
  they differ, it would have more records before it than there are (`NoneIsAhead`), whatever
  the ids do among records with equal texts. What a finding shows besides ids depends on
  these texts only (`SameFindingV2`, `SameFindingV3`).

Induction over data. The induction theorems of the library take the formula as an
operator, which the provers cannot instantiate. `DataLemmas` has what these proofs need
without one: the least element of a set of numbers, from the finite subsets being
well-founded, and from it induction over sets, functions defined by recursion, sums,
and orders of finite sets. What remains out of reach is what the recursive operators
of the community modules return (`FoldLeft`, `SelectSeq`): the theorems hold whatever
the collectors yield, and where a model's own property depended on such an operator
the model says the same by indices (`Selected`, `Ranked`).

Only model-checked: liveness under fairness, which is out of the prover's reach
(`RunningTerminates`, `CancelTakesEffect`, `SlotIsFreed`, `OrphanStops`, `SupervisionEnds`, `StreamsClose`,
`BootCompletes`), and what a collector makes of the content of a file.

## 6. Not modelled, and the plan

In `ScanControl`: live progress (best-effort telemetry), audit records, PostgreSQL lock
waits and the deadlock they may cause (claim and cancel take the job and the outbox
row in different orders; PostgreSQL aborts one of the two transactions, which is what
`MaxFaults` allows for), exceptions inside the lifespan. In `Startup`, what `ScanControl` does
to a row is reduced to claiming, supervising and finishing it. In the collectors, the
grammars of source text, manifests and certificates are inputs. In scoring, the
calibration metrics (Brier score, ECE, reliability, versioned parameters) and the
wording of reasons. In the metrics, the counters nothing in the application feeds.

Not modelled at all, with the reason in `PROJECT.json`: the offline calibration and
corpus tools (`calibration_dataset.py`, `holdout_split.py`, `evaluate_corpora.py`,
`corpus/validator.py`: files in, reports out, no state and no concurrency),
`middleware/retry.py` (no caller), logging and the repository guard, developer scripts
such as `a11y_check.py`, and the web dashboard.

Plan:

1. A lock-order module for claim and cancel on PostgreSQL.
2. The ratios and regression gates of the evaluation reports.
3. Weaker hypotheses for `RowsLiveOnce`: a `ScanLifecycle` with the cancellations that the
   code really allows.
