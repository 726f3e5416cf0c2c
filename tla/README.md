# Formal models of the Aegis platform

Aegis runs end-to-end test suites: a client triggers a run over HTTP, a worker
executes its steps on a simulated browser, selectors that have drifted are healed
by a scoring heuristic and, if a key is configured, by an LLM, and subscribers
follow the run live. These TLA+ modules model the parts of it in which processes
interleave and fail, TLC checks them on small instances, and the TLA+ proof system
(tlapm) proves the most important results for every instance.

Paths below are relative to `src/aegis/` of the repository unless they begin with
`docs/`.

## 1. The system

| Part | State it keeps | Operations | Who it talks to |
|---|---|---|---|
| Run executor (`workers/executor.py`) | locals of `execute_run`, an open transaction, `ACTIVE_RUNS` | load, RUNNING, steps, final commit, publish | database, healing engine, pub/sub |
| Dispatch and queue (`workers/dispatch.py`, `arq_worker.py`, `tasks.py`) | arq's queue, or tasks of the API process | enqueue, dequeue, requeue on shutdown or crash | API and executor |
| Run service (`services/run_service.py`, `api/v1/runs.py`) | rows of `test_runs` | create with idempotency key, cancel, reads | database, dispatcher |
| Suite service (`services/suite_service.py`, `api/v1/suites.py`) | rows of `test_suites`, `test_cases` | create, update, add case, delete (cascades to runs), list in pages | database |
| Database (`db/models.py`, `db/session.py`, `repositories/`) | the rows, locks of open transactions | commit, rollback, cascade | PostgreSQL or SQLite |
| Healing (`healing/`) | a circuit breaker per engine | score, propose, combine, record | executor, Anthropic API |
| Resilience (`core/resilience.py`) | breaker state, failure count, time of opening | `call`, `with_timeout` | healing LLM |
| Cache and rate limiter (`cache/redis.py`, `api/deps.py`) | counters with expiry, channels | INCR, EXPIRE, publish, subscribe | Redis, every request |
| Live events (`api/v1/ws.py`) | a subscription per socket | subscribe, forward, unsubscribe | pub/sub |
| Healing review (`services/healing_service.py`) | `HealingEvent.accepted` | list, review | database |
| Authentication (`services/auth_service.py`, `core/security.py`, `api/deps.py`) | users, tokens | register, log in, refresh, check | database |
| Command line (`cli.py`) | - | create-user, seed, serve | `create_all`, authentication, suite service |
| Schema (`create_all`, the lifespan of `main.py`, `migrations/`) | tables, indexes, the stamped revision | create, upgrade | database |
| Configuration, errors, pagination (`core/`) | settings | the production check; statuses; pages | every endpoint |
| Idempotency helpers, logging, tracing, health | none that matters here | - | - |

What is hard here, and a test hardly reaches:

* **Interleaving at awaits.** Every handler reads in one step and writes in a later
  one, without locks or conditional updates: a cancel request, the deletion of a
  suite, a second delivery of the job and the executor itself all write the same row.
* **Early ends.** `execute_run` can be left by an exception in a step, by a database
  error, by `CancelledError` (arq's job timeout, a shutdown), or by the death of the
  process. Each leaves the row, the results, the gauge and the job in another state.
* **Delivery.** arq hands a job out again when a worker dies or stops; inline tasks
  die with the API process.
* **Two stores.** The commit of a run and its enqueue are not atomic; nor are INCR
  and EXPIRE.
* **A lock that is waited for, but not for ever.** SQLite has one writer; an executor
  holds the lock through its step loop, LLM calls included, and who waits 30 s for it
  fails.
* **A listing in pieces.** Each page of `GET /suites` is read anew from a table that has
  changed since the last one, in an order that has ties.
* **Look-up, then insert.** Addresses and slugs are looked up before they are
  inserted; only a unique index decides, and it may come later than its table.
* **A schema made in pieces.** The API, the migration and the commands each create it,
  at the same time if they like, and on SQLite a killed one leaves half of it.
* **A feed without memory.** Events go to those who are subscribed when they are
  published, and a subscriber that nobody writes to waits.

## 2. Modules

| Module | Models | Proofs |
|---|---|---|
| `RunStore` | rows and queue shared by the components, the locks of open transactions | |
| `RunLifecycle` | abstract specification: the status machine of a run | |
| `RunExecution` | `execute_run` on its workers, with the queue and all its early ends | `RunExecution_proofs`, `RunOutcome_proofs` |
| `RunTrigger` | `POST /suites/{id}/runs` | |
| `RunControl` | `POST /runs/{id}/cancel`, `DELETE /suites/{id}` | |
| `RunPlatform` | the three above composed over one store | `RunPlatform_proofs` |
| `CircuitBreaker` | `CircuitBreaker.call` and the provider behind it | `CircuitBreaker_proofs` |
| `RateLimiter` | `allow_request` and the expiry of its key | `RateLimiter_proofs` |
| `HeuristicHealer` | the score of `healing/strategies.py` and the choice of the best element | |
| `HealingEngine` | simulated page, engine, LLM answer, recorded outcome of the steps of a case | `HealingEngine_proofs` |
| `EventStream` | the socket of `api/v1/ws.py` on top of the executor that publishes | `EventStream_proofs` |
| `RecordStore` | users, suites, cases, reviews, schema, settings, the calls of tasks and commands | |
| `Schema` | `create_all`, the lifespan, `alembic upgrade` | |
| `Accounts` | registration, `create-user`, the admin of `seed`, login, refresh, expiry | |
| `SuiteCatalog` | `/suites` and the demo suite of `seed` | |
| `HealingReview` | `POST /healing/events/{id}/review` | |
| `Pagination` | `GET /suites`, read page by page while suites come and go | `Records_proofs` |
| `Records` | `RecordStore` to `HealingReview` composed over one database, with kills | `Records_proofs` |
| `MCRunExecution`, `MCEventStream`, `MCRunPlatform`, `MCHealingEngine`, `MCRecords` | values of the constants for TLC | |

`EventStream` extends `RunExecution`; `RunPlatform` extends it with `RunTrigger` and
`RunControl`. `RecordStore`, `Schema`, `Accounts`, `SuiteCatalog`, `HealingReview`,
`Records` extend one another in this order; `Pagination` stands alone, since a listing
needs more suites than the others and nothing of them but that they come and go. Its
proofs are in `Records_proofs`. The two families meet in the deletion of
a suite: `RunControl` has it against runs and executors, `SuiteCatalog` against updates,
cases and reviews.

### 2.1 RunStore, RunExecution

`status`, `counts`, `finished` are the columns of `test_runs` that matter, `results`
the committed rows of `step_results`, `pending` the rows an executor has flushed and
not committed, `suites` the rows of `test_suites`, and `jobs[r]` the copies of a job
that wait in the queue. A `HealingEvent` is added in the same transaction as its
`StepResult`, exactly when the step is not `passed`, so one row stands for both.

`execute_run` is cut at its awaits. One action per piece: `Take` (queue and
`runs.get`), `LoadSuite`, `MarkOrphan`, `Start` (status RUNNING, the gauge, commit),
`AnnounceStart`, `Step`, `Finish` (counts, verdict, `finished_at`, commit),
`AnnounceFinish`. The early ends are `RejectStep` (the foreign key fails), `Raise`,
`DbFailure`, `Interrupt` (three cases: outside the `try`, inside it, inside a flush)
and the two crashes. The outcome of a step is a free choice; how a step gets it is
`HealingEngine`'s subject.

Decisions that a reader of the code may want to check:

* An `UPDATE` sets only the columns the ORM saw change, and has no condition but
  the primary key. A count assigned the 0 it was loaded with is not written (`Written`).
  An `UPDATE` of a row that is gone raises `StaleDataError`.
* After a failed flush the session wants a rollback, so the commit in the `finally`
  block raises too: the `ERROR` the `except` block set is lost (`RejectStep`,
  `DbFailure`).
* `asyncio.CancelledError` is not an `Exception`: no `except` block runs, but the
  `finally` block does, with the status `RUNNING` (`InterruptInside`). There the
  commit and the publication are one step; everywhere else they are two.
* A step's flush and its publication are one step: nothing reads the one without the
  other, except a failure in between, which loses a message that is best-effort.
* PostgreSQL: an inserted result holds `FOR KEY SHARE` on its run, so the deletion of
  the run waits (`RowFree`); foreign keys are enforced. SQLite: one writer at a time
  from its first flush to its commit (`WriterFree`), foreign keys are not enforced
  because `db/session.py` does not turn them on.
* The wait for SQLite's lock ends after 30 s (`db/session.py:28`). The models have no
  clock; how long an executor has held the lock is told by the rows it has flushed
  since: each after the first is one more step, which waits up to 20 s for the LLM
  (`core/config.py:73`). Beyond `Patience` such rows (`Outlasts`; 2 for those values) a
  waiting flush or commit may fail: in a call of `execute_run` at each of its writes
  (`LockedOut`, within the budget `locked`), in a request at its own (section 2.2). A
  session that only reads does not wait.
* `started_at` and `finished_at` are declared without a time zone and are set to
  `datetime.now(UTC)`. asyncpg refuses such a value for such a column, SQLite takes it
  (`StampsFit`). That refusal is the driver's documented conversion rule; it has not
  been tried on a server here. `Stamps = "naive"` is the declared column: the runs on
  SQLite and `claim_postgres_runs` use it. The other runs on PostgreSQL use
  `Stamps = "aware"`, the column as it has to be for any run to start there: with the
  declared one every run of theirs ends at its first commit, and nothing else could be
  seen of the executor.
* A publication and its loss are one step of `EventStream` (`Published`); in
  `RunExecution` alone `events` is what was handed to the cache.
* arq gives up a job after `max_tries`; the bounds stay below it.

### 2.2 RunTrigger, RunControl, RunPlatform

A trigger request is named by the id of the run it creates if it creates one. Its
steps are `Lookup`, `FindSuite`, `Persist`, `Enqueue`; `Die` ends it in between.
A cancel request is `CancelLoad`, `CancelCommit`; a deletion is `DeleteLoad`,
`DeleteCommit`. On SQLite each of the writes may instead give up waiting for the lock,
which is answered with 500 and changes nothing (`CancelTimeout`, `DeleteTimeout`, and
`Die` of a trigger that has found its suite). `RunPlatform` interleaves them with the executor. Roles and
ownership are abstracted to "any request may be refused".

### 2.3 CircuitBreaker, RateLimiter

The breaker's lock is never held across an await, so admitting a call and booking its
result are one step each, and the call in between is open-ended. `failures` is kept
up to the threshold and the elapsed time up to the timeout, because the code compares
them with those and nothing else. In the platform each `ClaudeHealingLLM` owns a
breaker and is built anew by each run (`workers/executor.py:135`), whose steps heal
one after the other: the deployed breaker has one caller and does not outlive its
run. The class is written for many, and is modelled so.

The rate limiter models one key. INCR and EXPIRE are separate steps; `Lose` ends the
request between them. The counter is kept up to limit + 1.

### 2.4 HeuristicHealer, HealingEngine

A selector is the record of hints it parses to, an element the record of its
attributes: regular expressions and HTML parsing are outside the model. Scores are
whole numbers of 1/12000 (all weights and the Jaccard similarities of up to four
classes are exact), confidences thousandths, as the code rounds them. On the
simulated pages each element has a test-id and none has an id or one of the other
attributes, and an `input` is a void element without text. `max()` keeps the first of
the best elements. The LLM answers with any of a set of proposals or with none: a
refusal, a timeout, an open circuit and an unparsable answer all end in none.

### 2.5 EventStream

A follower is one call of `stream_run`: `Open` (authorization and handshake),
`Subscribe` (a later step: what is published before is missed), `Forward` (the next
message to the client), `HangUp`, `Break`. The subscription is made of the messages
that wait in it (`inbox`); what was sent is `sent`. `Published` couples the executor
with it: a step that publishes hands the event to all subscriptions of the run's
channel, or, when the publication fails, to none (`_publish` swallows the exception;
`lost` remembers it). A client that hangs up is noticed at the next `Forward`.

### 2.6 Records

A caller is a task of the API or a process of the command line; `call` holds where it
is and what it has read. Each operation is one module's pair or triple of actions:
look-up or load, write, and, for creations and updates of suites, the second load of
the endpoint's answer. The flush and the commit of one write are one step, because
a second writer of the same row or unique key waits for the first.

* `Schema`: the statements are those both ways send, in their order. `create_all` skips
  the tables that exist when it begins, with their indexes (`checkfirst`);
  `alembic upgrade` sends everything unless its revision is stamped. On PostgreSQL the
  pass is one transaction (`env.py` runs one, `create_all` runs in `engine.begin()`); on
  SQLite the driver commits each statement of DDL by itself. Indexes that are not
  unique are left out.
* `Accounts`: an address is looked up and stored in lower case. `cli` remembers who
  made the account, for `AdminsComeFromCli`. A token is (user, type) until it expires.
* `SuiteCatalog`: an `UPDATE` has the columns that differ from what was loaded
  (`Changed`), and none means no statement. Of a suite's fields, `name` and
  `description` stand for those that do not and do take NULL.
* `HealingReview`: the same rule makes a review that repeats a stale verdict a no-op.
* `Records`: the settings are those with which a process starts (`Valid`); the database
  is empty, or in service with accounts and a suite. `Die` kills a caller between two
  steps. The class of the last status is kept in the idle slot, because properties tell
  200 from 404.

### 2.7 Pagination

The table is `entry` (a suite is inserted by one step, visible from its commit on, and
may be deleted) and `createdAt`, which the database sets from its clock: on PostgreSQL
the begin of the transaction, on SQLite whole seconds. So suites become visible in
another order than that of `created_at`, and several may share one. `Window` is what
`ORDER BY created_at DESC LIMIT size OFFSET (page - 1) * size` may return: among equals
the database chooses, for each page anew. A client asks for page 1 (`Ask`), gets the rows
of a page (`ReadRows`) and the number of pages (`Count`), which are two statements
without a common snapshot (`repositories/base.py:60-61`), and goes on until it has read
the last one. Sizes outside 1 to 100 and pages below 1 are answered with 422
(`api/deps.py:56-60`) before `PaginationParams` could clamp them: the clamps are never
reached and are not modelled.

`NothingMissed` says what such a walk can be relied on for: new suites push others to
later pages, so they are seen twice but not missed; a deletion pulls a suite to a page
that was read already, and a tie lets two suites change places, so those two cases are
its exceptions.

## 3. Runs

Each run asks the questions that one instance can answer.

| Run | Instance | What it shows |
|---|---|---|
| `exec_restarts` | 2 runs, 2 arq workers, 2 steps; one crash, one shutdown, one raising step | `AtMostOneExecutor`, `QueuedNeverLost`, `GaugeExact`, `StatusMachine` (refines `RunLifecycle`), `TypeOK` |
| `exec_failures` | 1 run, 1 worker slot, 1 follower; one fault of each kind, two duplicate deliveries, one lost publication | `VerdictMatchesResults`, `ResultsAppearAtFinish`, `EventsFollowTheRun`: duplicates that do not overlap are harmless; `FramesTellTheRun`, and `FollowersSeeTheEnd` under fairness |
| `platform_postgres` | trigger requests (one may die), 2 arq workers, crash, shutdown, cancel, deletion | accepted runs stay queued, jobs have runs, no orphans on PostgreSQL, verdicts match results, cancels hold or are stale |
| `platform_sqlite` | two requests with one key, inline tasks, SQLite with one writer, one wait for its lock that is given up | `AcceptedRunsSettle` under fairness: the writers never block each other for ever, and giving up costs one run at most |
| `breaker` | 3 callers, threshold 2, two outages, one cancelled call | the breaker's fields agree, an open breaker sheds, it recovers |
| `limiter` | 3 overlapping requests, limit 3, one lost process | the limit, one opener per window, the window ends |
| `healing` | every case of 1 to 3 steps out of twelve kinds, five LLM answers | accepted heals are right, the LLM only helps, metric, event and status agree |
| `records` | 2 overlapping callers in four workloads (below), or a client of the listing with 3 suites, SQLite locally and PostgreSQL in production | the schema is usable and in production whole; one account per address, one suite per slug; admins come from the command line; only owners and admins change suites; updates merge; cases have suites; answered reviews stand; the pages of a listing show what was there (`NothingMissed`) |
| `claim_redelivery` | a duplicate delivery | violated: section 4 |
| `claim_finished_status` | a job timeout | violated: section 4 |
| `claim_one_run_per_key` | two requests with one key | violated: section 4 |
| `claim_postgres_runs` | PostgreSQL with the declared columns, no fault | violated: section 4 |

**Bounds.** Two runs and two workers are enough for every pair of actors to meet on
one run and for a second run to hold the other worker or the write lock; a third
would only repeat a pair. Two steps give a half-written run and every verdict. Faults
are bounded per kind (`Budget`), so that each can hit each await, and pairs of
different kinds meet in one behaviour; the proofs have no such bound. The breaker's
threshold and timeout of 2 have a state below, at and above each comparison; three
callers let one late success and one late failure cross a third call. The kinds of
step of `MCHealingEngine` are chosen so that signals compete: a test-id contained in
another, shared classes, a tag alone, a text alone, structure alone.

`records` bounds what is called together (`Workloads`): on an empty database the ways
to create the schema with `create-user` and `seed`, then boot, registrations, logins,
refreshes and expiries; on one in service creations, updates and deletions of suites,
then cases, deletions and reviews. Operations of different workloads share no state
that both write, except through the deletion, which is in two of them. Two callers
are every pair of operations; the address that is typed in, in two spellings, is also
the seed's, so each way to make an account can meet each other one. `Typed`, `Roles` and `Patches` bound the requests; the bodies of PATCH set
either field, both, or one to NULL. `MaxLost` bounds the publications that fail. In
`exec_failures` one run and one worker suffice, since a follower has one topic and two
workers are the subject of `exec_restarts`.

`platform_sqlite` has `Patience` 0 and one step: there a holder may be given up on as soon
as it has flushed a row, so that a time-out is within reach of each write of the other
task and of the requests, and the instance stays small enough for liveness.
The deployed value is 2.

The fifth workload of `records` is the listing (`MCRecords` has it beside `RecordsNext`). Three
suites in pages of one and two give walks of up to three pages, with ties on both sides
of a page's edge; three instants order a late commit before, among and after what was
read, and the client may begin anew. The proof has no such bound.

Deadlock is checked in `breaker`, `limiter` and `records`, which never stop. The other
systems stop when all their runs and requests are done.

**Fairness.** `FairPlatform` assumes that each worker slot goes on (the event loop
resumes every call, arq polls its queue) and that a request that has arrived is
handled. Nobody has to send a request, to cancel, or to delete. SQLite's writers wait
with weak fairness only: the write lock is a guard, and it is given back by the very
progress that is assumed. Nobody has to give up waiting, and `AcceptedRunsSettle` counts
a run for each time an executor did. `breaker` assumes that time passes, that each call has a
deadline (`with_timeout`) and that calls keep coming; nothing is assumed of the
provider, and `Recovers` has its return as a hypothesis. `limiter` assumes that time
passes and that a request that has begun is handled to its end. `FairStream` assumes
that the worker slot goes on and that a waiting message is sent on; nobody has to open
a socket, and a handshake need not lead to a subscription.

Each property of a passing run has a mutant in `PROJECT.json`: a plausible bug in a
definition of the code, written next to it, which makes TLC find the property violated.

## 4. What the code does not keep

Each is a run that TLC must find violated, and quotes the text it contradicts.

* **Double execution** (`claim_redelivery`). `docs/architecture.md:414`: a duplicated
  delivery "cannot double-execute". Two workers that both read QUEUED before either
  commits RUNNING both execute the run.
* **run.finished with status running** (`claim_finished_status`). `docs/api.md:246`:
  "status is the terminal RunStatus". A job that arq times out announces `running`.
* **Two runs for one key** (`claim_one_run_per_key`). `core/idempotency.py:4-5`:
  a replay "returns the original run". Look-up and insert are two statements.
* **No run starts on PostgreSQL** (`claim_postgres_runs`). `README.md:24-26` promises
  to scale up to Postgres "by flipping environment variables — no code changes", and
  `docs/runbook.md:219-220` says that "queued runs are picked up by whichever worker
  version is live". The commit of RUNNING carries a `started_at` with a time zone for a
  column without one (`db/models.py:116-117`, `workers/executor.py:54-55, 130`); it
  raises outside the `try`, arq counts the job as done, and the run stays QUEUED without
  a job. `QueuedRunsSurvive` proves that with a column that fits this does not happen.

Other disagreements met while modelling, which follow from the same models but have
no run of their own:

* A database failure leaves the run RUNNING for ever, since `ERROR` is lost with the
  failed commit (`workers/executor.py:217-228`), and one at the commit of RUNNING
  leaves `ACTIVE_RUNS` one too high (`:131-132`); `GaugeExact` is therefore checked
  without database failures.
* A request that dies between commit and enqueue leaves a QUEUED run that retries
  with its key are answered with and nobody executes (`api/v1/runs.py:40-42`);
  `AcceptedStaysQueued` speaks of the requests that were answered.
* A run whose suite is gone becomes ERROR without `run.finished`
  (`workers/executor.py:123-127`); `docs/api.md:235` says that it is "emitted once on
  completion (always, even on error)".
* On SQLite the deletion of a suite leaves what was inserted after it had loaded its
  rows; `NoOrphans` is stated for PostgreSQL.
* A worker writes RUNNING over a cancellation that came after it had read QUEUED, and
  its verdict over one that came later; `CancelBeforePickupHolds` says what is kept.
* A breaker shared by several callers goes from OPEN to CLOSED on the late success of
  a call admitted before it opened (`core/resilience.py:94`). The deployed breaker has
  one caller (section 2.3), and `OneCallerLifecycle` proves that it never sees this.
* A cancel overwrites a verdict that is committed between its load and its commit,
  although `docs/architecture.md:134` says "cancel() only transitions a non-terminal
  run". `OnlyStaleCancelsOverwrite` says that nothing else does.
* `docs/api.md:210` says of the socket's token that it is required in production; the
  code wants it everywhere but in `local` (`api/v1/ws.py:26-34`).
* A follower that subscribes after the end of its run, or follows a run that ends as
  ERROR without an event, waits until its client goes; and a client that goes is
  noticed at the next event only, so its subscription may stay (`api/v1/ws.py:48-64`).
* `db/session.py:26-27` says of the busy timeout: "Let concurrent writers (e.g. the inline
  worker task) wait instead of failing with "database is locked"." They wait 30 s, and an
  executor keeps the lock through as many LLM calls of up to 20 s as its run has steps after
  the first. Another task whose commit of RUNNING gives up leaves its run QUEUED for ever
  (inline tasks have no queue to come back to) and `ACTIVE_RUNS` one too high; one that
  gives up at a flush or at its last commit leaves it RUNNING. `AcceptedRunsSettle` allows
  one such run for each time an executor gave up.
* The writers of section 2.6 (accounts, suites, cases, reviews) can give up in the same
  way; in `Records`, which has no executors, that is a `Die` at the write.
* A client that reads `GET /suites` page by page can miss a suite that was there all the
  time: when another one is deleted meanwhile, or when two share their `created_at`
  (`services/suite_service.py:44`); `NothingMissed` says that there is no third way.
* Of two creations that overlap, the one the unique index turns down is answered with
  500 and not 409 (`services/auth_service.py:29`, `services/suite_service.py:29`).
* On SQLite, a `create_all` that is killed between a table and its unique index leaves
  the table without it for ever: later passes skip the table. `OneAccountPerEmail` and
  `OneSuitePerSlug` speak of tables that have their index.
* A command that creates the schema before `alembic upgrade` makes the upgrade fail
  from then on (the tables exist, the revision is not stamped).
* If the seed's address was registered before as an engineer, `seed` makes the demo
  suite his and no admin. Any engineer may review any event. A refresh token stays valid
  after it was used.
* A process that dies between INCR and EXPIRE leaves a counter that never expires
  (`cache/redis.py:58-60`); `WindowEnds` excludes that case.
* `div > div:nth-child(3)` on a step that renders a `div` is healed by its tag alone
  (`healing/strategies.py:82-84, 115`), although `docs/architecture.md:178-179` says it
  fails; and a drifted selector with classes and no test-id heals with a confidence of
  at most 0.20, although the lines before say "high confidence".

## 5. What is proved

All for every number of runs, workers, steps, callers and requests. Every property that
passing runs check is proved, except for liveness (section 6).

`RunExecution_proofs`:

* `TypeCorrect`: `Spec => []TypeOK`. `ACTIVE_RUNS` is a natural number only because
  each decrement has its increment, so the invariant `TypeInv` adds that a worker has
  a job exactly when it is in a call (`BusyHasJob`) and that its gauge is positive
  while it will still be decremented (`GaugeCovers`).
* `OneExecutor`, for a queue without duplicate deliveries: `Spec => []AtMostOneExecutor`.
  The strengthening `OneCopy` counts the queue and the hands together. What each of
  the twenty-odd actions does to them is one of five moves (`JobMoves`), and each
  move keeps it.
* `ExecutorRefinesLifecycle`, under the same assumption: `RunExecution` implements
  `RunLifecycle` with `life <- status`. `StatusInv` adds that the status of the run in
  a worker's hands fits the worker's place (`HandFits`); without `OneCopy` another
  worker could have changed it.
* `QueuedRunsSurvive`, for arq without timeouts and database failures, and columns that
  take the time stamps (`StampsFit`): `Spec => []QueuedNeverLost`, by `QueueInv`, whatever
  is delivered twice. On SQLite, giving up for the write lock is such a failure
  (`Undisturbed`), here and in the other theorems that exclude them. `EndsDecided` says that the run of a worker about to announce the
  end is no longer queued.
* `ResultsAppear`: `Spec => []ResultsAppearAtFinish`, whatever fails. `PendingHeld`
  says that uncommitted rows belong to the run of a worker in its step loop, so that
  the commit that shows them sets `finished_at`.

`RunOutcome_proofs`, for a queue without duplicate deliveries:

* `VerdictsMatch`: `Spec => []VerdictMatchesResults`. `VerdictInv` says that a run which
  has not ended has no results and no counts (`Untouched`), and that a worker's locals
  are a ledger of the rows it has flushed: as many as its steps, one for each number,
  with the outcomes its tally counts (`Ledger`). Every action of the executor and every
  fault is one of three moves: a final commit, a step, or nothing that concerns the
  books (`ProgressMoves`, `FaultMoves`).
* `EventsFollow`: `Spec => []EventsFollowTheRun`. `FeedInv` adds what has been published
  of the run in a worker's hands at each of its places (`FeedFits`): nothing before
  `run.started`, then an opened feed without an end, and at the publication of the
  verdict the worker's own copy of the status is the committed one.
* `GaugeCounts`: `Spec => []GaugeExact`, when moreover the columns take the time stamps
  and there are no job timeouts and no database failures. These are the ways to leave
  a call between `ACTIVE_RUNS.inc()` and the `try` with the process still alive
  (section 4); `HandFits` excludes the remaining one, a row that is gone.

`RunPlatform_proofs`: the requests among the workers. A step of the platform is one of
the executor, of a trigger, or of a cancellation or deletion (`PlatformMoves`); for the
first the step lemmas of the two modules above are used as they stand.

* `PlatformTypeCorrect`: `PlatformSpec => []PlatformTypeOK`.
* `NothingOutlivesItsSuite`: `NoOrphans` is inductive as it stands.
* `CancelledStaysCancelled`: `CancelBeforePickupHolds`, through all faults and duplicates;
  it needs that a run not yet created has no job and no worker (`FreshRuns`).
* `JobsFollowCommits`: `JobsHaveRuns`. `JobsInv` adds what the request about to enqueue and
  the deletion about to erase have read.
* `AcceptedRunsStayQueued`, for arq without timeouts and database failures and with
  `StampsFit`: `AcceptedStaysQueued`, by `AcceptedInv`.
* `OneExecutorAmongRequests`, `VerdictsAreFinal`, `PlatformVerdictsMatch`, without duplicate
  deliveries: `AtMostOneExecutor`, `OnlyStaleCancelsOverwrite` and `VerdictMatchesResults`.
  `OnceInv` counts hands, queue and the requests that have not enqueued yet (`Unqueued`);
  `DeskInv` says that a run not created has no results, and that a deletion erases
  results with their run.

`EventStream_proofs`: the executor under a subscriber.

* `StreamImplementsExecutor`: `StreamSpec => Spec`. The feed only listens, so the
  theorems above hold under it.
* `StreamTypeCorrect`: `StreamSpec => []StreamTypeOK`.
* `FramesTell`, without duplicate deliveries: `FramesTellTheRun`. `ListenInv` has two parts.
  `CountInv` extends the ledger of `VerdictInv` by what has been told: the events of a run
  are `run.started` and one for each step it has flushed (`Tallied`, `Told`). `Listens`
  says of each socket where its frames stand: none before it streams (`Unopened`); for one
  that listens from the start and misses nothing, what it was sent followed by what waits
  for it is what was published (`InStep`); and nothing after the end (`EndsFeed`).

`HealingEngine_proofs`, for any steps, pages, test-ids, ratios of texts and answers:

* `HealTypeCorrect`: `TypeOK`; no confidence leaves the range from 0 to 1.
* `LLMHelps`: `LLMOnlyHelps`. `MetricIsOutcome`: `MetricMatchesOutcome`.
* `AcceptedIsOwn`, for a threshold above 0.5 (the default is 0.6): `AcceptedHealIsOwn`.
  On the simulated page, ids and attributes never match, so a score above 6000 of 12000
  takes an exact test-id (`ScoreBounds`: text, classes and tag sum up to 2400, a test-id
  that only resembles gives 3600), and rounding does not lift it over (`RoundedBounds`).

`HealInv` says that the log holds, step by step, an entry made from a proposal for that
very step (`Entries`), and that the LLM is asked with the heuristic's own. That `Best` and
`Page` choose something rests on `LeastNumber`: a set of natural numbers has a least
element, since `<` is well-founded (`BestExists`, `RankExists`).

`CircuitBreaker_proofs`: `CountsMatch` (state, count and timer never disagree),
`OpenBreakerSheds`, and `OneCallerLifecycle` (with one caller, `Alone` says that a call
is never under way while the breaker is open).

`RateLimiter_proofs`: `NeverOverLimit`, `WindowHasOneOpener`, `ExpiryFollows`. The
invariant needs `RoomForOpener`: the request that opened the window is counted but not
yet let through.

`Records_proofs`, for any number of callers, accounts, suites, cases and events, any
workloads and settings:

* `RecordsAreTyped`: `RecordsTypeOK`. Its part `call \in [Callers -> Call]` says for each
  operation what it remembers at each of its steps, and is what the other proofs use.
* `AccountsAreUnique`: `AccountsInv` adds that stored addresses are in lower case, so
  that the comparison of the unique index is the one of `UniqueEmails`. The index
  cannot be created over a double, and no insert passes it.
* `AdminsAreAppointed`: `AdminsInv` adds that a registration in flight does not ask for
  an admin unless a command does (`Modest`).
* `SuitesAreUnique`, `CasesFollowSuites`: from the type invariant and the step alone;
  the cascade deletes what was added after the load.
* `UpdatesDoNotUndo`: `UpdatesMerge`, from the type invariant and the step alone: a step
  that changes a suite is the statement of one call, and writes what its body asks for.
* `ReviewsStand`: `AnsweredReviewsStand`, in the same way for the rows of events.
* `OwnersDecide`: `OnlyOwnersChange`. `ActorsInv` says that whoever has loaded a suite and is
  about to write may still do so on the suite as it is now: its owner never changes, and
  no account loses its role.
* `SchemaStaysUsable`: `SchemaIsUsable`. `SchemaInv` adds that every statement a call has
  behind it has been made, or skipped with a table that was there (`SentBy`).
* `ListingMissesNothing`: `ListingSpec => []NothingMissed`, for any finite number of suites
  and any sizes. `ListingInv` says that as long as nothing was deleted, a suite that was
  there from the start, ties with none and was not shown yet has at least as many newer
  ones as rows have been passed (`Passed`). Newer ones are only added, so it is still to
  come; and after the last page so many rows were passed that no suite is left for it.

The assumptions are those of the modules (`StoreAssumption`, `ExecutionAssumption`,
`BreakerAssumption`, `LimiterAssumption`, `RecordAssumption`, `AccountAssumption`,
`CatalogAssumption`, `PopulationAssumption`, `EngineAssumption`, `StepAssumption`,
`RatioAssumption`, `ListingAssumption`), which TLC evaluates in each run, and those a
theorem states.

## 6. What is only model-checked

* Liveness (`AcceptedRunsSettle`, `FollowersSeeTheEnd`, `Recovers`, `WindowEnds`), which the
  prover does not reach.
* What the theorems exclude by a hypothesis and a run includes: `VerdictMatchesResults`,
  `EventsFollowTheRun` and `FramesTellTheRun` survive duplicate deliveries that do not
  overlap (`exec_failures`).

## 7. What is not modelled

* `retrying()` and `core/idempotency.py`, with the lock and get/set helpers of the cache:
  called by nothing.
* Logging, tracing and metrics other than `ACTIVE_RUNS`: written and never read.
* `is_active`: no operation of the code changes it. `downgrade`: drops everything, by an
  operator. Health probes: they read (`readyz` sends `SELECT 1` and does not look at the
  schema).
* Validation of request bodies and the parsing of settings are declarative.
* Password hashing, signatures, HTML parsing and the LLM are libraries or services,
  taken by their results. Of the healer, selectors and pages are taken as parsed.
* Deployment manifests hold no program; the facts the models need of them (which
  dispatcher, which database) are constants.
* The rate limit does not apply to the socket, and `EventStream` has none.

## 8. Plan

1. Proofs: what duplicate deliveries leave of the verdict and of the feed, stated as
   theorems of their own; `RunPlatform` with the subscriber of `EventStream`.
2. The healer on parsed pages: `parse_dom`'s choice of candidates and the branches of
   `to_selector` for elements without a test-id.
