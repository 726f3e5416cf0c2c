----------------------------- MODULE RunTrigger -----------------------------
(***************************************************************************)
(* POST /suites/{id}/runs (api/v1/runs.py, RunService.create): look the    *)
(* idempotency key up, load the suite, insert and commit the run, enqueue  *)
(* it.  Requests are handled concurrently, each in its own session.  A     *)
(* request is named by the id its run has if it creates one; a retry is    *)
(* another request with the same key.                                      *)
(***************************************************************************)
EXTENDS RunStore

CONSTANTS Keys,    \* idempotency keys
          KeyOf,   \* the Idempotency-Key header of a request
          NoKey,   \* the header is missing
          Fragile  \* bound: the requests that may die half-way

ASSUME TriggerAssumption ==
    /\ NoKey \notin Keys
    /\ KeyOf \in [Runs -> Keys \cup {NoKey}]
    /\ Fragile \subseteq Runs

VARIABLES req,     \* where the request is
          answer   \* the run it replied with

triggerVars == <<req, answer>>

ReqPhase == {"new",        \* not received
             "missed",     \* no run has its key
             "found",      \* the suite was loaded and belongs to the caller
             "committed",  \* the run is committed, not enqueued
             "replied",    \* 202 with the run in answer
             "refused",    \* 404 or 403
             "failed"}     \* 500, or the request died

TriggerTypeOK ==
    /\ req \in [Runs -> ReqPhase]
    /\ answer \in [Runs -> Runs \cup {NoRun}]

TriggerInit ==
    /\ req = [r \in Runs |-> "new"]
    /\ answer = [r \in Runs |-> NoRun]

\* SELECT ... WHERE idempotency_key = key: the rows it can return.  The column
\* has an index and no unique constraint.
RunsWithKey(key) ==
    IF key = NoKey THEN {} ELSE {r \in Runs : status[r] # NoRow /\ KeyOf[r] = key}

MoveRequest(r, phase) == req' = [req EXCEPT ![r] = phase]

Reply(r, run) ==
    /\ MoveRequest(r, "replied")
    /\ answer' = [answer EXCEPT ![r] = run]

\* A key that some run has replays that run; it is not enqueued again.
Lookup(r) ==
    /\ req[r] = "new"
    /\ \/ \E existing \in RunsWithKey(KeyOf[r]) : Reply(r, existing)
       \/ /\ RunsWithKey(KeyOf[r]) = {}
          /\ MoveRequest(r, "missed")
          /\ UNCHANGED answer
    /\ UNCHANGED <<store, jobs>>

\* get_with_cases and the ownership check.  Who calls is not modelled: any
\* request may be refused.
FindSuite(r) ==
    /\ req[r] = "missed"
    /\ \/ SuiteOf[r] \in suites /\ MoveRequest(r, "found")
       \/ MoveRequest(r, "refused")
    /\ UNCHANGED <<store, jobs, answer>>

\* INSERT and commit.  The suite may be gone by now: PostgreSQL rejects the
\* row, SQLite takes it.
Persist(r) ==
    /\ req[r] = "found"
    /\ NoWriter
    /\ \/ /\ EnforcesFK => SuiteOf[r] \in suites
          /\ status' = [status EXCEPT ![r] = "queued"]
          /\ MoveRequest(r, "committed")
       \/ /\ EnforcesFK
          /\ SuiteOf[r] \notin suites
          /\ MoveRequest(r, "failed")
          /\ UNCHANGED status
    /\ UNCHANGED <<counts, finished, results, pending, suites, jobs, answer>>

\* Mutant: the run is enqueued before it is committed.
EnqueueEarly(r) ==
    /\ req[r] \in {"found", "committed"}
    /\ jobs' = [jobs EXCEPT ![r] = @ + 1]
    /\ Reply(r, r)
    /\ UNCHANGED store

\* Mutant: the request replies without enqueueing.
EnqueueNothing(r) ==
    /\ req[r] = "committed"
    /\ Reply(r, r)
    /\ UNCHANGED <<store, jobs>>

\* The dispatcher takes the run, after the commit.
Enqueue(r) ==
    /\ req[r] = "committed"
    /\ jobs' = [jobs EXCEPT ![r] = @ + 1]
    /\ Reply(r, r)
    /\ UNCHANGED store

\* A database error, an unreachable queue, or the death of the API process ends
\* the request at whatever it was waiting for; on SQLite the INSERT may have waited
\* too long for an executor's write lock.
Die(r) ==
    /\ req[r] \in {"new", "missed", "found", "committed"}
    /\ r \in Fragile \/ (req[r] = "found" /\ Outlasts(Workers))
    /\ MoveRequest(r, "failed")
    /\ UNCHANGED <<store, jobs, answer>>

Handle(r) == Lookup(r) \/ FindSuite(r) \/ Persist(r) \/ Enqueue(r)

TriggerNext == \E r \in Runs : Handle(r) \/ Die(r)
=============================================================================
