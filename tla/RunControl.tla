----------------------------- MODULE RunControl -----------------------------
(***************************************************************************)
(* The requests that change runs from outside while workers execute them:  *)
(* POST /runs/{id}/cancel (RunService.cancel) and DELETE /suites/{id}      *)
(* (SuiteService.delete).  Each reads in one step and writes in a later    *)
(* one what it decided from that reading; nothing is locked in between.    *)
(***************************************************************************)
EXTENDS RunStore

CONSTANTS Cancels,   \* bound: the cancel requests
          Deletes    \* bound: the suites that may be deleted

ASSUME ControlAssumption == Deletes \subseteq Suites

VARIABLES cancelling,   \* run a cancel request found not terminal
          cancelled,    \* cancel requests that are answered
          deletion,     \* phase of the deletion of a suite
          loadedRuns,   \* rows of test_runs the deletion has loaded
          loadedRows    \* rows of step_results the deletion has loaded

controlVars == <<cancelling, cancelled, deletion, loadedRuns, loadedRows>>

ControlTypeOK ==
    /\ cancelling \in [Cancels -> Runs \cup {NoRun}]
    /\ cancelled \subseteq Cancels
    /\ deletion \in [Deletes -> {"new", "loaded", "done"}]
    /\ loadedRuns \in [Deletes -> SUBSET Runs]
    /\ loadedRows \in [Deletes -> SUBSET StepRow]

ControlInit ==
    /\ cancelling = [c \in Cancels |-> NoRun]
    /\ cancelled = {}
    /\ deletion = [s \in Deletes |-> "new"]
    /\ loadedRuns = [s \in Deletes |-> {}]
    /\ loadedRows = [s \in Deletes |-> {}]

RunsOf(s) == {r \in Runs : SuiteOf[r] = s /\ status[r] # NoRow}

\* The rows of these runs are deleted, and these results.
Erase(runs, rows) ==
    /\ status' = [r \in Runs |-> IF r \in runs THEN NoRow ELSE status[r]]
    /\ counts' = [r \in Runs |-> IF r \in runs THEN ZeroTally ELSE counts[r]]
    /\ finished' = [r \in Runs |-> IF r \in runs THEN FALSE ELSE finished[r]]
    /\ results' = results \ rows

-----------------------------------------------------------------------------
\* RunService.get and the is_terminal test: 404 and a terminal run are answered
\* without a change.
CancelLoad(c, r) ==
    /\ c \notin cancelled
    /\ cancelling[c] = NoRun
    /\ IF status[r] \in {NoRow} \cup Terminal
       THEN cancelled' = cancelled \cup {c} /\ UNCHANGED cancelling
       ELSE cancelling' = [cancelling EXCEPT ![c] = r] /\ UNCHANGED cancelled
    /\ UNCHANGED <<store, jobs, deletion, loadedRuns, loadedRows>>

\* flush and commit: UPDATE test_runs SET status = 'cancelled' WHERE id = r, for
\* whatever the status is now.  A row that is gone raises StaleDataError (500).
CancelCommit(c) ==
    /\ cancelling[c] # NoRun
    /\ NoWriter
    /\ status' = [status EXCEPT ![cancelling[c]] =
                    IF @ = NoRow THEN NoRow ELSE "cancelled"]
    /\ cancelling' = [cancelling EXCEPT ![c] = NoRun]
    /\ cancelled' = cancelled \cup {c}
    /\ UNCHANGED <<counts, finished, results, pending, suites, jobs,
                   deletion, loadedRuns, loadedRows>>

\* The UPDATE waited too long for an executor's write lock: 500, nothing changed.
CancelTimeout(c) ==
    /\ cancelling[c] # NoRun
    /\ Outlasts(Workers)
    /\ cancelling' = [cancelling EXCEPT ![c] = NoRun]
    /\ cancelled' = cancelled \cup {c}
    /\ UNCHANGED <<store, jobs, deletion, loadedRuns, loadedRows>>

\* session.delete loads the suite's runs with their results and healing events,
\* for the ORM's cascade.
DeleteLoad(s) ==
    /\ deletion[s] = "new"
    /\ s \in suites
    /\ loadedRuns' = [loadedRuns EXCEPT ![s] = RunsOf(s)]
    /\ loadedRows' = [loadedRows EXCEPT ![s] = {row \in results : row.run \in RunsOf(s)}]
    /\ deletion' = [deletion EXCEPT ![s] = "loaded"]
    /\ UNCHANGED <<store, jobs, cancelling, cancelled>>

\* flush and commit: DELETE of what was loaded, then of the suite.  PostgreSQL
\* waits for the executors that have flushed results of its runs, and ON DELETE
\* CASCADE removes the rows that came after the loading; SQLite leaves them.
DeleteCommit(s) ==
    /\ deletion[s] = "loaded"
    /\ NoWriter
    /\ \A r \in RunsOf(s) : RowFree(r)
    /\ IF EnforcesFK
       THEN Erase(RunsOf(s), {row \in results : row.run \in RunsOf(s)})
       ELSE Erase(loadedRuns[s], loadedRows[s])
    /\ suites' = suites \ {s}
    /\ deletion' = [deletion EXCEPT ![s] = "done"]
    /\ loadedRuns' = [loadedRuns EXCEPT ![s] = {}]
    /\ loadedRows' = [loadedRows EXCEPT ![s] = {}]
    /\ UNCHANGED <<pending, jobs, cancelling, cancelled>>

\* The DELETE waited too long: 500, and the suite can be deleted another time.
DeleteTimeout(s) ==
    /\ deletion[s] = "loaded"
    /\ Outlasts(Workers)
    /\ deletion' = [deletion EXCEPT ![s] = "new"]
    /\ loadedRuns' = [loadedRuns EXCEPT ![s] = {}]
    /\ loadedRows' = [loadedRows EXCEPT ![s] = {}]
    /\ UNCHANGED <<store, jobs, cancelling, cancelled>>

ControlNext ==
    \/ \E c \in Cancels : CancelCommit(c) \/ CancelTimeout(c)
                          \/ \E r \in Runs : CancelLoad(c, r)
    \/ \E s \in Deletes : DeleteLoad(s) \/ DeleteCommit(s) \/ DeleteTimeout(s)
=============================================================================
