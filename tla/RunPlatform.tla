----------------------------- MODULE RunPlatform ----------------------------
(***************************************************************************)
(* The life of runs from the request that triggers them: the trigger       *)
(* requests, the workers, the cancel requests and the deletion of suites,  *)
(* interleaved at every await, over one database and one queue.            *)
(***************************************************************************)
EXTENDS RunTrigger, RunControl, RunExecution

platformVars == <<vars, triggerVars, controlVars>>

PlatformTypeOK == TypeOK /\ TriggerTypeOK /\ ControlTypeOK

PlatformInit ==
    /\ StoreInit({})
    /\ TriggerInit
    /\ ControlInit
    /\ ExecInit

PlatformNext ==
    \/ TriggerNext /\ UNCHANGED <<controlVars, execVars>>
    \/ ControlNext /\ UNCHANGED <<triggerVars, execVars>>
    \/ ExecNext /\ UNCHANGED <<suites, triggerVars, controlVars>>

PlatformSpec == PlatformInit /\ [][PlatformNext]_platformVars

\* Requests that have arrived are handled, workers go on; nobody has to cancel.
WorkerStep(w) == Progress(w) /\ UNCHANGED <<suites, triggerVars, controlVars>>
RequestStep(r) ==
    req[r] # "new" /\ Handle(r) /\ UNCHANGED <<controlVars, execVars>>

FairPlatform ==
    /\ PlatformSpec
    /\ \A w \in Workers : WF_platformVars(WorkerStep(w))
    /\ \A r \in Runs : WF_platformVars(RequestStep(r))

-----------------------------------------------------------------------------
\* A run whose creation was answered with 202 and that has not begun is still
\* owed an execution.
AcceptedStaysQueued ==
    \A r \in Runs : req[r] = "replied" /\ status[r] = "queued" =>
        Accounted(r) \/ answer[r] # r

\* The commit comes before the enqueue: a job whose run is not there is one
\* whose suite was deleted meanwhile.
JobsHaveRuns ==
    \A r \in Runs : status[r] = NoRow /\ Accounted(r) => SuiteOf[r] \notin suites

\* On PostgreSQL nothing outlives the deletion of its suite, whatever executors
\* and requests do meanwhile.
NoOrphans ==
    EnforcesFK =>
        /\ \A r \in Runs : status[r] # NoRow => SuiteOf[r] \in suites
        /\ \A row \in results \cup pending : status[row.run] # NoRow

\* A cancelled run that no worker has picked up stays cancelled, and no worker ever
\* picks it up, although its job is still in the queue.  (A worker that has read
\* QUEUED before still executes the run.)
CancelBeforePickupHolds ==
    [][\A r \in Runs :
         status[r] = "cancelled" /\ (\A w \in Workers : job[w] # r)
           => /\ status'[r] \in {"cancelled", NoRow}
              /\ \A w \in Workers : job'[w] # r]_platformVars

\* A verdict is changed by nothing but a cancel request that had read the run
\* before the verdict, and by the deletion of its suite.
OnlyStaleCancelsOverwrite ==
    [][\A r \in Runs :
         status[r] \in {"passed", "failed", "error"}
         /\ (\A c \in Cancels : cancelling[c] # r)
           => status'[r] \in {status[r], NoRow}]_platformVars

Spent(fault) == Budget[fault] - budget[fault]

\* The runs that are there and have no terminal status, but for those whose request
\* died before the dispatcher had them.
Unsettled == {r \in Runs : req[r] # "failed" /\ status[r] \notin Terminal \cup {NoRow}}

\* Every run that was accepted gets a terminal status in the end, or goes with its
\* suite, unless the process that executes it dies or is stopped; a call that gives
\* up waiting for SQLite's write lock costs its own run, and no other.
AcceptedRunsSettle ==
    <>[](\/ Spent("crash") + Spent("shutdown") > 0
         \/ Cardinality(Unsettled) <= Spent("locked"))

-----------------------------------------------------------------------------
(* What documents and comments say of the platform, and the code does not  *)
(* keep in every behaviour.                                                *)

\* core/idempotency.py: "Replaying the same key returns the original run instead
\* of starting a duplicate".
OneRunPerKey == \A k \in Keys : Cardinality(RunsWithKey(k)) <= 1
=============================================================================
