---------------------------- MODULE RunExecution ----------------------------
(***************************************************************************)
(* The run executor (workers/executor.py) on its workers, with the queue   *)
(* it is fed from (workers/dispatch.py, tasks.py, arq_worker.py).          *)
(*                                                                         *)
(* A worker slot runs one call of execute_run at a time.  The call is cut  *)
(* at its awaits: loading the run, loading the suite, the commit of        *)
(* RUNNING, each step, the final commit, and the publications in between.  *)
(* It can end early in the ways the code and the queue allow: an exception *)
(* inside the step loop, a database error, asyncio's CancelledError (arq's *)
(* job timeout, a worker's shutdown), and the death of the process.        *)
(***************************************************************************)
EXTENDS RunStore

CONSTANTS Dispatcher,   \* "arq" or "inline"
          Budget        \* bound: how many faults of each kind may happen

FaultKind == {"crash",      \* the process dies
              "shutdown",   \* a stopping worker cancels the job
              "timeout",    \* arq's job_timeout cancels the job
              "db",         \* a statement or a commit fails
              "locked",     \* it fails for want of SQLite's write lock
              "raise",      \* a step raises
              "redeliver"}  \* the queue delivers a job once more

ASSUME ExecutionAssumption ==
    /\ Dispatcher \in {"arq", "inline"}
    /\ Budget \in [FaultKind -> Nat]

VARIABLES pc,       \* where the worker's call of execute_run is
          job,      \* its argument run_id
          plan,     \* number of steps of the suite it loaded
          step,     \* steps of its loop that are done
          tally,    \* its locals passed, healed, failed
          mem,      \* run.status of its own TestRun object
          gauge,    \* ACTIVE_RUNS of the process, the worker's share of it
          events,   \* what was published on channel run:{id}, in order
          budget    \* faults that may still happen

locals == <<plan, step, tally, mem>>
worker == <<pc, job, plan, step, tally, mem>>
execVars == <<pc, job, plan, step, tally, mem, gauge, events, budget>>
vars == <<store, jobs, execVars>>

Phase == {"idle",       \* no call
          "loaded",     \* the run was read and is QUEUED
          "orphaned",   \* its suite is missing, ERROR not committed yet
          "ready",      \* suite loaded, RUNNING not committed yet
          "begun",      \* RUNNING committed, run.started not published
          "running",    \* in the step loop
          "closing"}    \* final commit done, run.finished not published

\* The worker is between the two updates of ACTIVE_RUNS.
Executing(w) == pc[w] \in {"begun", "running"}

Started == [event |-> "run.started"]
Completed == [event |-> "step.completed"]
Finished(st) == [event |-> "run.finished", status |-> st]
Event == {Started, Completed} \cup {Finished(st) : st \in RunStatus}

ExecTypeOK ==
    /\ pc \in [Workers -> Phase]
    /\ job \in [Workers -> Runs \cup {NoRun}]
    /\ plan \in [Workers -> 0 .. MaxSteps]
    /\ step \in [Workers -> 0 .. MaxSteps]
    /\ tally \in [Workers -> Tally]
    /\ mem \in [Workers -> RunStatus]
    /\ gauge \in [Workers -> Nat]
    /\ events \in [Runs -> Seq(Event)]
    /\ budget \in [FaultKind -> Nat]

TypeOK == StoreTypeOK /\ ExecTypeOK

ExecInit ==
    /\ pc = [w \in Workers |-> "idle"]
    /\ job = [w \in Workers |-> NoRun]
    /\ plan = [w \in Workers |-> 0]
    /\ step = [w \in Workers |-> 0]
    /\ tally = [w \in Workers |-> ZeroTally]
    /\ mem = [w \in Workers |-> "queued"]
    /\ gauge = [w \in Workers |-> 0]
    /\ events = [r \in Runs |-> << >>]
    /\ budget = Budget

Init == StoreInit(Runs) /\ ExecInit

-----------------------------------------------------------------------------
(* Pieces of the handlers.                                                 *)

Goto(w, phase) == pc' = [pc EXCEPT ![w] = phase]

\* execute_run returns or raises: the slot is free and its locals are gone.
Leave(ws) ==
    /\ pc' = [w \in Workers |-> IF w \in ws THEN "idle" ELSE pc[w]]
    /\ job' = [w \in Workers |-> IF w \in ws THEN NoRun ELSE job[w]]
    /\ plan' = [w \in Workers |-> IF w \in ws THEN 0 ELSE plan[w]]
    /\ step' = [w \in Workers |-> IF w \in ws THEN 0 ELSE step[w]]
    /\ tally' = [w \in Workers |-> IF w \in ws THEN ZeroTally ELSE tally[w]]
    /\ mem' = [w \in Workers |-> IF w \in ws THEN "queued" ELSE mem[w]]

Publish(r, e) == events' = [events EXCEPT ![r] = Append(@, e)]

Spend(fault) ==
    /\ budget[fault] > 0
    /\ budget' = [budget EXCEPT ![fault] = @ - 1]

RowExists(w) == status[job[w]] # NoRow

\* Mutant: any passed step makes the run pass.
VerdictAnyPass(t) == IF t["passed"] > 0 THEN "passed" ELSE "failed"
Verdict(t) == IF t["failed"] = 0 THEN "passed" ELSE "failed"

\* Mutant: the counts are not assigned.
WrittenNothing(old, t) == old
\* A count assigned the 0 it was loaded with is not part of the UPDATE.
Written(old, t) == [o \in Outcome |-> IF t[o] = 0 THEN old[o] ELSE t[o]]

\* ACTIVE_RUNS.inc(), before the commit of RUNNING.
\* Mutant: the increment is missing.
IncGaugeMissing(w) == UNCHANGED gauge
IncGauge(w) == gauge' = [gauge EXCEPT ![w] = @ + 1]

\* ACTIVE_RUNS.dec(), once per call that enters the finally block.
\* Mutant: the decrement is missing.
DecGaugeMissing(w) == UNCHANGED gauge
DecGauge(w) == gauge' = [gauge EXCEPT ![w] = @ - 1]

\* The final commit of a call whose row is still there.  It sets the status
\* (when the call changed it), the counts it assigned, and finished_at, and
\* makes the rows of the steps visible.
CommitRun(w, st, cnt) ==
    /\ status' = [status EXCEPT ![job[w]] = st]
    /\ counts' = [counts EXCEPT ![job[w]] = cnt]
    /\ finished' = [finished EXCEPT ![job[w]] = TRUE]
    /\ results' = results \cup PendingBy(w)
    /\ pending' = pending \ PendingBy(w)

\* Mutant: each step was committed on its own, and outlives the failed call.
RollbackNothing(w) ==
    /\ results' = results \cup PendingBy(w)
    /\ pending' = pending \ PendingBy(w)
    /\ UNCHANGED runRow

\* The transaction is rolled back and the exception leaves execute_run: the
\* status stays what it was, the rows of the steps are lost.
Rollback(w) ==
    /\ pending' = pending \ PendingBy(w)
    /\ UNCHANGED <<runRow, results>>

-----------------------------------------------------------------------------
(* The undisturbed course of a call.                                       *)

\* The test that drops a duplicate: run.status != QUEUED.
\* Mutant: a RUNNING run is resumed, too.
RunnableUnfinished(r) == status[r] \in {"queued", "running"}
\* Mutant: only the existence of the run is tested.
RunnableAny(r) == status[r] # NoRow
\* Mutant: a cancelled run is executed.
RunnableCancelled(r) == status[r] \in {"queued", "cancelled"}
Runnable(r) == status[r] = "queued"

\* The queue hands a copy of the job out.
Dequeue(r) == jobs' = [jobs EXCEPT ![r] = @ - 1]

\* A slot takes a job and reads the run: a duplicate of a run that is no
\* longer QUEUED, or whose row is gone, is dropped.
Take(w, r) ==
    /\ pc[w] = "idle"
    /\ jobs[r] > 0
    /\ Dequeue(r)
    /\ \/ /\ Runnable(r)
          /\ Goto(w, "loaded")
          /\ job' = [job EXCEPT ![w] = r]
       \/ /\ ~Runnable(r)
          /\ UNCHANGED <<pc, job>>
    /\ UNCHANGED <<runRow, results, pending, locals, gauge, events, budget>>

\* The suite and its cases are read once; the loop works on this copy.
LoadSuite(w) ==
    /\ pc[w] = "loaded"
    /\ \/ /\ SuiteOf[job[w]] \in suites
          /\ \E n \in 0 .. MaxSteps : plan' = [plan EXCEPT ![w] = n]
          /\ Goto(w, "ready")
       \/ /\ SuiteOf[job[w]] \notin suites
          /\ Goto(w, "orphaned")
          /\ UNCHANGED plan
    /\ UNCHANGED <<runRow, results, pending, jobs, job, step, tally, mem,
                   gauge, events, budget>>

\* "Suite no longer exists.": ERROR without finished_at and without an event.
\* The commit of a row that is gone too raises StaleDataError.
MarkOrphan(w) ==
    /\ pc[w] = "orphaned"
    /\ WriterFree(w)
    /\ status' = [status EXCEPT ![job[w]] = IF @ = NoRow THEN NoRow ELSE "error"]
    /\ Leave({w})
    /\ UNCHANGED <<counts, finished, results, pending, jobs, gauge, events, budget>>

\* status = RUNNING, started_at = _now(), ACTIVE_RUNS.inc(), commit.  The UPDATE
\* has no condition on the status it replaces; when it matches no row, or the
\* driver refuses started_at, the commit raises and the increment is never taken
\* back.
Start(w) ==
    /\ pc[w] = "ready"
    /\ WriterFree(w)
    /\ IncGauge(w)
    /\ \/ /\ RowExists(w)
          /\ StampsFit
          /\ status' = [status EXCEPT ![job[w]] = "running"]
          /\ mem' = [mem EXCEPT ![w] = "running"]
          /\ Goto(w, "begun")
          /\ UNCHANGED <<job, plan, step, tally>>
       \/ /\ ~(RowExists(w) /\ StampsFit)
          /\ Leave({w})
          /\ UNCHANGED status
    /\ UNCHANGED <<counts, finished, results, pending, jobs, events, budget>>

AnnounceStart(w) ==
    /\ pc[w] = "begun"
    /\ Publish(job[w], Started)
    /\ Goto(w, "running")
    /\ UNCHANGED <<runRow, results, pending, jobs, job, locals, gauge, budget>>

\* One step: count its outcome, add its row, flush, publish.  On PostgreSQL the
\* INSERT needs the run's row (RejectStep is the other case).
Step(w) ==
    /\ pc[w] = "running"
    /\ step[w] < plan[w]
    /\ WriterFree(w)
    /\ EnforcesFK => RowExists(w)
    /\ \E o \in Outcome :
         /\ tally' = [tally EXCEPT ![w][o] = @ + 1]
         /\ pending' = pending \cup
              {[run |-> job[w], by |-> w, step |-> step[w] + 1, outcome |-> o]}
    /\ step' = [step EXCEPT ![w] = @ + 1]
    /\ Publish(job[w], Completed)
    /\ UNCHANGED <<runRow, results, jobs, pc, job, plan, mem, gauge, budget>>

\* The flush fails on the foreign key.  The except block sets ERROR, but the
\* session is waiting for a rollback, so the finally block's commit raises.
RejectStep(w) ==
    /\ pc[w] = "running"
    /\ step[w] < plan[w]
    /\ EnforcesFK
    /\ ~RowExists(w)
    /\ Rollback(w)
    /\ DecGauge(w)
    /\ Leave({w})
    /\ UNCHANGED <<jobs, events, budget>>

\* The end of the try block and the finally block: the counts, the verdict and
\* finished_at in one commit, with the rows of all steps.  StaleDataError when
\* the row is gone.
Close(w, st, cnt) ==
    /\ WriterFree(w)
    /\ DecGauge(w)
    /\ \/ /\ RowExists(w)
          /\ CommitRun(w, st, cnt)
          /\ mem' = [mem EXCEPT ![w] = st]
          /\ Goto(w, "closing")
          /\ UNCHANGED <<job, plan, step, tally>>
       \/ /\ ~RowExists(w)
          /\ Rollback(w)
          /\ Leave({w})

Finish(w) ==
    /\ pc[w] = "running"
    /\ step[w] = plan[w]
    /\ Close(w, Verdict(tally[w]), Written(counts[job[w]], tally[w]))
    /\ UNCHANGED <<jobs, events, budget>>

\* Mutant: the verdict of the counters is published, whatever was committed.
AnnounceTally(w) ==
    /\ pc[w] = "closing"
    /\ Publish(job[w], Finished(Verdict(tally[w])))
    /\ Leave({w})
    /\ UNCHANGED <<runRow, results, pending, jobs, gauge, budget>>

\* Mutant: nothing is published at the end.
AnnounceNothing(w) ==
    /\ pc[w] = "closing"
    /\ Leave({w})
    /\ UNCHANGED <<runRow, results, pending, jobs, gauge, events, budget>>

\* run.finished carries the status of the worker's own object.
AnnounceFinish(w) ==
    /\ pc[w] = "closing"
    /\ Publish(job[w], Finished(mem[w]))
    /\ Leave({w})
    /\ UNCHANGED <<runRow, results, pending, jobs, gauge, budget>>

-----------------------------------------------------------------------------
(* Ways a call ends early.                                                 *)

\* Mutant: the run is set back to QUEUED for another try, which nobody enqueues.
RaiseToQueued(w) ==
    /\ pc[w] = "running"
    /\ step[w] < plan[w]
    /\ Spend("raise")
    /\ Close(w, "queued", counts[job[w]])
    /\ UNCHANGED <<jobs, events>>

\* A step raises (a stored step that no longer validates, a page the healer
\* cannot parse): ERROR, the counts not assigned, the rows so far committed.
Raise(w) ==
    /\ pc[w] = "running"
    /\ step[w] < plan[w]
    /\ Spend("raise")
    /\ Close(w, "error", counts[job[w]])
    /\ UNCHANGED <<jobs, events>>

\* The write lock was not released in time: every flush and every commit of a
\* call may be the one that waited for it.
LockedOut(w) ==
    /\ pc[w] # "loaded"
    /\ Outlasts(Workers \ {w})
    /\ Spend("locked")

\* A statement or a commit fails.  Before the try block the exception leaves
\* execute_run; at the commit of RUNNING the gauge was already incremented; in
\* the step loop and at the final commit the handler's own commit fails too.
DbFailure(w) ==
    /\ pc[w] \in {"loaded", "orphaned", "ready", "running"}
    /\ Spend("db") \/ LockedOut(w)
    /\ \/ /\ pc[w] \in {"loaded", "orphaned"}
          /\ UNCHANGED gauge
       \/ /\ pc[w] = "ready"
          /\ IncGauge(w)
       \/ /\ pc[w] = "running"
          /\ DecGauge(w)
    /\ Rollback(w)
    /\ Leave({w})
    /\ UNCHANGED <<jobs, events>>

\* What becomes of the job of a cancelled call: arq puts it back when its
\* worker stops, but not when the job timed out; a task is gone either way.
Requeue(w, fault) ==
    IF Dispatcher = "arq" /\ fault = "shutdown"
    THEN jobs' = [jobs EXCEPT ![job[w]] = @ + 1]
    ELSE UNCHANGED jobs

\* ACTIVE_RUNS lives as long as its process: a shutdown ends the worker's.
GaugeAfter(w, fault, value) ==
    gauge' = [gauge EXCEPT ![w] = IF fault = "shutdown" THEN 0 ELSE value]

\* Mutant: the cancellation is caught and the call goes on.
InterruptIgnored(w, fault) ==
    /\ pc[w] \in {"loaded", "orphaned", "ready", "begun", "closing"}
    /\ Spend(fault)
    /\ Requeue(w, fault)
    /\ UNCHANGED <<runRow, results, pending, worker, gauge, events>>

\* CancelledError outside the try block: nothing is handled.  At "ready" it
\* interrupts the commit of RUNNING, with the gauge already incremented.
InterruptOutside(w, fault) ==
    /\ pc[w] \in {"loaded", "orphaned", "ready", "begun", "closing"}
    /\ Spend(fault)
    /\ Requeue(w, fault)
    /\ GaugeAfter(w, fault, gauge[w] + (IF pc[w] = "ready" THEN 1 ELSE 0))
    /\ Leave({w})
    /\ UNCHANGED <<runRow, results, pending, events>>

\* CancelledError inside it is not an Exception: no except block runs, the
\* finally block sets finished_at, commits the rows so far with the status still
\* RUNNING, and announces that status.
InterruptInside(w, fault) ==
    /\ pc[w] = "running"
    /\ Spend(fault)
    /\ WriterFree(w)
    /\ RowExists(w)
    /\ CommitRun(w, status[job[w]], counts[job[w]])
    /\ Publish(job[w], Finished(mem[w]))
    /\ Requeue(w, fault)
    /\ GaugeAfter(w, fault, gauge[w] - 1)
    /\ Leave({w})

\* It arrives inside a flush, or the row is gone: the commit fails.
InterruptFlush(w, fault) ==
    /\ pc[w] = "running"
    /\ Spend(fault)
    /\ Rollback(w)
    /\ Requeue(w, fault)
    /\ GaugeAfter(w, fault, gauge[w] - 1)
    /\ Leave({w})
    /\ UNCHANGED events

Interrupt(w) ==
    \E fault \in {"shutdown", "timeout"} :
      /\ fault = "timeout" => Dispatcher = "arq"
      /\ \/ InterruptOutside(w, fault)
         \/ InterruptInside(w, fault)
         \/ InterruptFlush(w, fault)

\* The process dies: its transactions are rolled back, its gauge starts over.
\* arq runs the job again when its in-progress key expires; the tasks of the
\* API process, those that have not begun included, are lost with it.
Crash(ws) ==
    /\ Spend("crash")
    /\ Leave(ws)
    /\ pending' = {row \in pending : row.by \notin ws}
    /\ gauge' = [w \in Workers |-> IF w \in ws THEN 0 ELSE gauge[w]]
    /\ UNCHANGED <<runRow, results, events>>

CrashArqWorker(w) ==
    /\ Dispatcher = "arq"
    /\ pc[w] # "idle"
    /\ jobs' = [jobs EXCEPT ![job[w]] = @ + 1]
    /\ Crash({w})

CrashApi ==
    /\ Dispatcher = "inline"
    /\ jobs' = [r \in Runs |-> 0]
    /\ Crash(Workers)

\* A second delivery of a job (an operator's retry, a lost in-progress key).
Redeliver(r) ==
    /\ Dispatcher = "arq"
    /\ status[r] # NoRow
    /\ Spend("redeliver")
    /\ jobs' = [jobs EXCEPT ![r] = @ + 1]
    /\ UNCHANGED <<runRow, results, pending, worker, gauge, events>>

-----------------------------------------------------------------------------
\* What the scheduler keeps doing for a slot: the asyncio loop resumes every
\* call, and arq's poll hands out the jobs of the queue.
Progress(w) ==
    \/ \E r \in Runs : Take(w, r)
    \/ LoadSuite(w)
    \/ MarkOrphan(w)
    \/ Start(w)
    \/ AnnounceStart(w)
    \/ Step(w)
    \/ RejectStep(w)
    \/ Finish(w)
    \/ AnnounceFinish(w)

Fault ==
    \/ \E w \in Workers : Raise(w) \/ DbFailure(w) \/ Interrupt(w)
                          \/ CrashArqWorker(w)
    \/ CrashApi
    \/ \E r \in Runs : Redeliver(r)

ExecNext == \/ \E w \in Workers : Progress(w)
            \/ Fault

Next == ExecNext /\ UNCHANGED suites

Spec == Init /\ [][Next]_vars

-----------------------------------------------------------------------------
(* Properties.                                                             *)

\* Someone still owes the run an execution: a copy of its job waits in the
\* queue, or a worker holds it.
Accounted(r) == jobs[r] > 0 \/ \E w \in Workers : job[w] = r

\* No two workers are ever in execute_run for the same run: the queue hands a
\* job out once, and gives it back only when the call that had it is over.
AtMostOneExecutor ==
    \A v, w \in Workers : job[v] # NoRun /\ job[v] = job[w] => v = w

\* A run that reports a verdict has one result for each step it executed, its
\* three counts are those results counted by status, it is PASSED exactly when
\* none failed, and finished_at is set.
VerdictMatchesResults ==
    \A r \in Runs : status[r] \in {"passed", "failed"} =>
        /\ finished[r]
        /\ {row.step : row \in RowsOf(r)} = 1 .. Cardinality(RowsOf(r))
        /\ \A o \in Outcome :
              counts[r][o] = Cardinality({row \in RowsOf(r) : row.outcome = o})
        /\ (status[r] = "passed") <=> (counts[r]["failed"] = 0)

\* Results of a run become visible all together with finished_at: nobody reads
\* half of an execution that is still going on.
ResultsAppearAtFinish ==
    \A r \in Runs : RowsOf(r) # {} => finished[r] \/ status[r] = NoRow

\* Crashes and restarts of arq workers never lose a run that has not begun: a
\* QUEUED run stays in the queue or in the hands of a worker.
QueuedNeverLost ==
    \A r \in Runs : status[r] = "queued" => Accounted(r)

\* ACTIVE_RUNS counts exactly the calls between the commit of RUNNING and the
\* finally block, whatever ends them.
GaugeExact ==
    \A w \in Workers : gauge[w] = IF Executing(w) THEN 1 ELSE 0

\* What subscribers are told is what the database says, and they are told
\* nothing twice: events start with one run.started, run.finished is the last,
\* and a verdict is announced only when it is the committed one.
EventsFollowTheRun ==
    \A r \in Runs : \A i \in DOMAIN events[r] :
        /\ (events[r][i] = Started) <=> (i = 1)
        /\ events[r][i].event = "run.finished" =>
              /\ i = Len(events[r])
              /\ finished[r]
              /\ events[r][i].status = status[r]

Life == INSTANCE RunLifecycle WITH life <- status

\* The executor moves a run along the status machine only, through every crash,
\* redelivery and failure: what it has decided is final.
StatusMachine == Life!Spec

-----------------------------------------------------------------------------
(* What documents and comments say of the executor, and the code does not  *)
(* keep in every behaviour.                                                *)

\* docs/architecture.md, Re-delivery safety: "execute_run no-ops unless the run
\* is still QUEUED, so a duplicated queue delivery cannot double-execute."
NoDoubleExecution ==
    \A v, w \in Workers :
        Executing(v) /\ Executing(w) /\ job[v] = job[w] => v = w

\* docs/api.md, run.finished: "status is the terminal RunStatus".
FinishedIsTerminal ==
    \A r \in Runs : \A i \in DOMAIN events[r] :
        events[r][i].event = "run.finished" => events[r][i].status \in Terminal
=============================================================================
