------------------------------ MODULE RunStore ------------------------------
(***************************************************************************)
(* What the components of the platform share about test runs: the rows of  *)
(* test_runs, step_results and test_suites in the database, and the queue  *)
(* of jobs between the API and the workers.                                *)
(*                                                                         *)
(* A transaction writes its rows at its commit, which is one step of the   *)
(* models.  Only the executor keeps a transaction open across awaits: the  *)
(* rows it has flushed and not committed are in "pending".  They are       *)
(* invisible to readers (READ COMMITTED on PostgreSQL, a writer's private  *)
(* pages on SQLite), but they hold locks, which is what the guards RowFree *)
(* and WriterFree say.  A HealingEvent is added with its StepResult, in    *)
(* the same transaction, exactly when the step is not "passed": a row of   *)
(* "results" stands for both.                                              *)
(***************************************************************************)
EXTENDS Naturals, Sequences, FiniteSets

CONSTANTS Runs,       \* ids a row of test_runs can have
          NoRun,      \* the absence of a run id
          Suites,     \* ids a row of test_suites can have
          SuiteOf,    \* TestRun.suite_id, fixed when the row is created
          Workers,    \* arq worker slots, or the task slots of the API process
          MaxSteps,   \* bound: the most steps a suite has
          Database,   \* "postgresql" enforces foreign keys, "sqlite" does not
          Patience,   \* rows the holder of SQLite's write lock can have flushed
                      \* before a waiting writer may give up
          Stamps      \* test_runs.started_at and .finished_at: "naive" as they are
                      \* declared, or "aware" of time zones, as _now() is

ASSUME StoreAssumption ==
    /\ NoRun \notin Runs
    /\ SuiteOf \in [Runs -> Suites]
    /\ MaxSteps \in Nat
    /\ Database \in {"postgresql", "sqlite"}
    /\ Patience \in Nat
    /\ Stamps \in {"naive", "aware"}

VARIABLES status,     \* TestRun.status, or NoRow when the table has no such row
          counts,     \* TestRun.passed_count, .healed_count and .failed_count
          finished,   \* TestRun.finished_at is set
          results,    \* committed rows of step_results (with healing_events)
          pending,    \* rows flushed by an executor whose transaction is open
          suites,     \* rows of test_suites
          jobs        \* copies of "execute this run" waiting in the queue

runRow == <<status, counts, finished>>
store == <<status, counts, finished, results, pending, suites>>

NoRow == "none"
RunStatus == {"queued", "running", "passed", "failed", "error", "cancelled"}
Terminal == {"passed", "failed", "error", "cancelled"}

Outcome == {"passed", "healed", "failed"}
Tally == [Outcome -> Nat]
ZeroTally == [o \in Outcome |-> 0]
StepRow == [run : Runs, by : Workers, step : 1 .. MaxSteps, outcome : Outcome]

RowsOf(r) == {row \in results : row.run = r}
PendingBy(w) == {row \in pending : row.by = w}

EnforcesFK == Database = "postgresql"

\* asyncpg refuses a datetime with a time zone for a column without one; SQLite
\* stores it as text.
StampsFit == Database = "sqlite" \/ Stamps = "aware"

-----------------------------------------------------------------------------
(* Locks held by open transactions.                                        *)

\* Mutant: a worker waits for its own lock, as if each step had its own session.
WriterFreeOfAll(w) == Database = "sqlite" => pending = {}
\* SQLite has one writer at a time: it holds the lock from its first flush to
\* its commit, and the others wait for it (for how long, see Outlasts).
WriterFree(w) == Database = "sqlite" => pending = PendingBy(w)
NoWriter == Database = "sqlite" => pending = {}

\* A writer waits 30 s for that lock, then its statement fails with "database is
\* locked".  One of these workers may hold it for longer: with every row it flushes
\* after its first, it has held it for one more step, and a step waits up to 20 s for
\* the LLM.  (So Patience is 2; where no LLM is asked steps take next to no time, and
\* it is MaxSteps: nobody gives up.)
Outlasts(ws) ==
    /\ Database = "sqlite"
    /\ \E w \in ws : Cardinality(PendingBy(w)) > Patience

\* Mutant: no lock on the run, as if step_results had no foreign key to it.
RowFreeAlways(r) == TRUE
\* On PostgreSQL an inserted step_results row holds a FOR KEY SHARE lock on its
\* run, so the run cannot be deleted before the executor's commit or rollback.
RowFree(r) == EnforcesFK => \A row \in pending : row.run # r

-----------------------------------------------------------------------------
StoreTypeOK ==
    /\ status \in [Runs -> RunStatus \cup {NoRow}]
    /\ counts \in [Runs -> Tally]
    /\ finished \in [Runs -> BOOLEAN]
    /\ results \subseteq StepRow
    /\ pending \subseteq StepRow
    /\ suites \subseteq Suites
    /\ jobs \in [Runs -> Nat]

\* Every suite is there, the runs of queued are committed and each has one job.
StoreInit(queued) ==
    /\ status = [r \in Runs |-> IF r \in queued THEN "queued" ELSE NoRow]
    /\ counts = [r \in Runs |-> ZeroTally]
    /\ finished = [r \in Runs |-> FALSE]
    /\ results = {}
    /\ pending = {}
    /\ suites = Suites
    /\ jobs = [r \in Runs |-> IF r \in queued THEN 1 ELSE 0]
=============================================================================
