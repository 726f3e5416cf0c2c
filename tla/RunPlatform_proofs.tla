-------------------------- MODULE RunPlatform_proofs -------------------------
(***************************************************************************)
(* Proofs about RunPlatform: the workers among the requests that trigger   *)
(* runs, cancel them and delete their suites, for any number of each, both *)
(* databases and both dispatchers.                                         *)
(*                                                                         *)
(* What is proved of the executor's steps in RunExecution_proofs and       *)
(* RunOutcome_proofs holds here as well where it assumes no more than an   *)
(* invariant and [Next]_vars; the requests add cases of their own.         *)
(***************************************************************************)
EXTENDS RunPlatform, RunOutcome_proofs

WorkerMove == [Next]_vars /\ UNCHANGED <<suites, triggerVars, controlVars>>
TriggerMove == TriggerNext /\ UNCHANGED <<controlVars, execVars>>
ControlMove == ControlNext /\ UNCHANGED <<triggerVars, execVars>>

LEMMA PlatformMoves ==
    [PlatformNext]_platformVars => WorkerMove \/ TriggerMove \/ ControlMove
BY DEF PlatformNext, platformVars, WorkerMove, TriggerMove, ControlMove, Next, vars, store

-----------------------------------------------------------------------------
(* The type invariant.                                                     *)

PlatformTyped == TypeInv /\ TriggerTypeOK /\ ControlTypeOK

LEMMA PlatformTypedInit == PlatformInit => PlatformTyped
<1> SUFFICES ASSUME PlatformInit
             PROVE  PlatformTyped
  OBVIOUS
<1>1. TypeInv
  BY StoreAssumption, ExecutionAssumption
     DEF PlatformInit, StoreInit, ExecInit, TypeInv, TypeOK, StoreTypeOK, ExecTypeOK,
         BusyHasJob, GaugeCovers, Executing, Tally, ZeroTally, RunStatus, Phase, NoRow
<1>2. TriggerTypeOK
  BY DEF PlatformInit, TriggerInit, TriggerTypeOK, ReqPhase
<1>3. ControlTypeOK
  BY DEF PlatformInit, ControlInit, ControlTypeOK
<1> QED
  BY <1>1, <1>2, <1>3 DEF PlatformTyped

\* The requests do not touch the workers.
LEMMA ExecutorRests ==
    ASSUME TypeInv, UNCHANGED execVars, StoreTypeOK'
    PROVE  TypeInv'
BY DEF TypeInv, TypeOK, ExecTypeOK, execVars, BusyHasJob, GaugeCovers, Executing

LEMMA TriggerTyped ==
    ASSUME PlatformTyped, TriggerMove
    PROVE  StoreTypeOK' /\ TriggerTypeOK'
<1>0. /\ StoreTypeOK
      /\ req \in [Runs -> ReqPhase]
      /\ answer \in [Runs -> Runs \cup {NoRun}]
  BY DEF PlatformTyped, TypeInv, TypeOK, TriggerTypeOK
<1>1. PICK r \in Runs : Handle(r) \/ Die(r)
  BY DEF TriggerMove, TriggerNext
<1>2. ASSUME UNCHANGED <<store, jobs>>
      PROVE  StoreTypeOK'
  BY <1>0, <1>2 DEF store, StoreTypeOK
<1>3. ASSUME NEW phase \in ReqPhase, MoveRequest(r, phase), UNCHANGED answer
      PROVE  TriggerTypeOK'
  BY <1>0, <1>3 DEF MoveRequest, TriggerTypeOK
<1>4. ASSUME NEW run \in Runs, Reply(r, run)
      PROVE  TriggerTypeOK'
  BY <1>0, <1>4 DEF Reply, MoveRequest, TriggerTypeOK, ReqPhase
<1>5. CASE Lookup(r)
  <2>1. RunsWithKey(KeyOf[r]) \subseteq Runs
    BY DEF RunsWithKey
  <2> QED
    BY <1>2, <1>3, <1>4, <1>5, <2>1 DEF Lookup, ReqPhase
<1>6. CASE FindSuite(r)
  BY <1>2, <1>3, <1>6 DEF FindSuite, ReqPhase
<1>7. CASE Persist(r)
  <2>1. StoreTypeOK'
    BY <1>0, <1>7 DEF Persist, StoreTypeOK, RunStatus
  <2>2. TriggerTypeOK'
    BY <1>3, <1>7 DEF Persist, ReqPhase
  <2> QED
    BY <2>1, <2>2
<1>8. CASE Enqueue(r)
  <2>1. StoreTypeOK'
    BY <1>0, <1>8 DEF Enqueue, store, StoreTypeOK
  <2> QED
    BY <1>4, <1>8, <2>1 DEF Enqueue
<1>9. CASE Die(r)
  BY <1>2, <1>3, <1>9 DEF Die, ReqPhase
<1> QED
  BY <1>1, <1>5, <1>6, <1>7, <1>8, <1>9 DEF Handle

LEMMA ControlTyped ==
    ASSUME PlatformTyped, ControlMove
    PROVE  StoreTypeOK' /\ ControlTypeOK'
<1>0. StoreTypeOK /\ ControlTypeOK
  BY DEF PlatformTyped, TypeInv, TypeOK
<1>1. ASSUME UNCHANGED <<store, jobs>>
      PROVE  StoreTypeOK'
  BY <1>0, <1>1 DEF store, StoreTypeOK
<1>2. ASSUME NEW c \in Cancels, NEW r \in Runs, CancelLoad(c, r)
      PROVE  StoreTypeOK' /\ ControlTypeOK'
  BY <1>0, <1>1, <1>2 DEF CancelLoad, ControlTypeOK
<1>3. ASSUME NEW c \in Cancels, CancelCommit(c)
      PROVE  StoreTypeOK' /\ ControlTypeOK'
  <2>1. StoreTypeOK'
    BY <1>0, <1>3 DEF CancelCommit, StoreTypeOK, RunStatus, NoRow
  <2>2. ControlTypeOK'
    BY <1>0, <1>3 DEF CancelCommit, ControlTypeOK
  <2> QED
    BY <2>1, <2>2
<1>4. ASSUME NEW s \in Deletes, DeleteLoad(s)
      PROVE  StoreTypeOK' /\ ControlTypeOK'
  <2>1. RunsOf(s) \subseteq Runs /\ {row \in results : row.run \in RunsOf(s)} \subseteq StepRow
    BY <1>0 DEF RunsOf, StoreTypeOK
  <2>2. ControlTypeOK'
    BY <1>0, <1>4, <2>1 DEF DeleteLoad, ControlTypeOK
  <2> QED
    BY <1>1, <1>4, <2>2 DEF DeleteLoad
<1>5. ASSUME NEW s \in Deletes, DeleteCommit(s)
      PROVE  StoreTypeOK' /\ ControlTypeOK'
  <2>1. PICK runs, rows : Erase(runs, rows)
    BY <1>5 DEF DeleteCommit
  <2>2. UNCHANGED <<pending, jobs>> /\ suites' = suites \ {s}
    BY <1>5 DEF DeleteCommit
  <2>3. StoreTypeOK'
    BY <1>0, <2>1, <2>2 DEF Erase, StoreTypeOK, Tally, ZeroTally
  <2>4. ControlTypeOK'
    BY <1>0, <1>5 DEF DeleteCommit, ControlTypeOK
  <2> QED
    BY <2>3, <2>4
<1>6. ASSUME NEW c \in Cancels, CancelTimeout(c)
      PROVE  StoreTypeOK' /\ ControlTypeOK'
  BY <1>0, <1>1, <1>6 DEF CancelTimeout, ControlTypeOK
<1>7. ASSUME NEW s \in Deletes, DeleteTimeout(s)
      PROVE  StoreTypeOK' /\ ControlTypeOK'
  BY <1>0, <1>1, <1>7 DEF DeleteTimeout, ControlTypeOK
<1> QED
  BY <1>2, <1>3, <1>4, <1>5, <1>6, <1>7 DEF ControlMove, ControlNext

LEMMA PlatformTypedStep == PlatformTyped /\ [PlatformNext]_platformVars => PlatformTyped'
<1> SUFFICES ASSUME PlatformTyped, [PlatformNext]_platformVars
             PROVE  PlatformTyped'
  OBVIOUS
<1>1. ASSUME UNCHANGED triggerVars
      PROVE  TriggerTypeOK'
  BY <1>1 DEF PlatformTyped, TriggerTypeOK, triggerVars
<1>2. ASSUME UNCHANGED controlVars
      PROVE  ControlTypeOK'
  BY <1>2 DEF PlatformTyped, ControlTypeOK, controlVars
<1>3. CASE WorkerMove
  BY <1>1, <1>2, <1>3, TypeStep DEF WorkerMove, PlatformTyped
<1>4. CASE TriggerMove
  BY <1>2, <1>4, TriggerTyped, ExecutorRests DEF TriggerMove, PlatformTyped
<1>5. CASE ControlMove
  BY <1>1, <1>5, ControlTyped, ExecutorRests DEF ControlMove, PlatformTyped
<1> QED
  BY <1>3, <1>4, <1>5, PlatformMoves

\* TypeInv and the types of the requests are invariants of the platform.
LEMMA PlatformTypedInvariant == PlatformSpec => []PlatformTyped
BY PlatformTypedInit, PlatformTypedStep, PTL DEF PlatformSpec

\* Every variable of the platform model keeps its type, with requests and workers
\* interleaved in any way.
THEOREM PlatformTypeCorrect == PlatformSpec => []PlatformTypeOK
<1>1. PlatformTyped => PlatformTypeOK
  BY DEF PlatformTyped, PlatformTypeOK, TypeInv
<1> QED
  BY <1>1, PlatformTypedInvariant, PTL

-----------------------------------------------------------------------------
(* Nothing outlives its suite on PostgreSQL.  The invariant is inductive   *)
(* as it stands: an executor adds a row only where its run is, a request   *)
(* inserts a run only where its suite is, and the deletion of a suite      *)
(* waits for the executors that have flushed results of its runs.          *)

\* What an executor has in the tables afterwards was there before, or is of a run
\* that is there.
LEMMA RowMoves ==
    ASSUME TypeInv, [Next]_vars, EnforcesFK, NEW row \in results' \cup pending'
    PROVE  row \in results \cup pending \/ status[row.run] # NoRow
<1> DEFINE Goal == row \in results \cup pending \/ status[row.run] # NoRow
<1>1. ASSUME results' \cup pending' \subseteq results \cup pending
      PROVE  Goal
  BY <1>1
<1>2. ASSUME NEW w \in Workers, NEW st, NEW cnt, CommitRun(w, st, cnt)
      PROVE  Goal
  BY <1>2 DEF CommitRun, PendingBy
<1>3. ASSUME NEW w \in Workers, Rollback(w)
      PROVE  Goal
  BY <1>3 DEF Rollback
<1>4. ASSUME NEW w \in Workers, Step(w)
      PROVE  Goal
  BY <1>4 DEF Step, runRow, RowExists
<1>5. ASSUME NEW w \in Workers, Progress(w)
      PROVE  Goal
  <2>1. CASE Finish(w)
    BY <1>2, <1>3, <2>1 DEF Finish, Close
  <2>2. CASE RejectStep(w)
    BY <1>3, <2>2 DEF RejectStep
  <2>3. ASSUME ~(Finish(w) \/ RejectStep(w) \/ Step(w))
        PROVE  UNCHANGED <<results, pending>>
    BY <1>5, <2>3 DEF Progress, Take, LoadSuite, MarkOrphan, Start, AnnounceStart,
                      AnnounceFinish
  <2> QED
    BY <1>1, <1>4, <2>1, <2>2, <2>3
<1>6. ASSUME Fault
      PROVE  Goal
  <2>1. ASSUME NEW w \in Workers, Raise(w)
        PROVE  Goal
    BY <1>2, <1>3, <2>1 DEF Raise, Close
  <2>2. ASSUME NEW w \in Workers, DbFailure(w)
        PROVE  Goal
    BY <1>3, <2>2 DEF DbFailure
  <2>3. ASSUME NEW w \in Workers, Interrupt(w)
        PROVE  Goal
    BY <1>1, <1>2, <1>3, <2>3 DEF Interrupt, InterruptOutside, InterruptInside,
                                  InterruptFlush
  <2>4. ASSUME NEW ws, Crash(ws)
        PROVE  Goal
    BY <1>1, <2>4 DEF Crash
  <2>5. ASSUME NEW r \in Runs, Redeliver(r)
        PROVE  Goal
    BY <1>1, <2>5 DEF Redeliver
  <2> QED
    BY <1>6, <2>1, <2>2, <2>3, <2>4, <2>5 DEF Fault, CrashArqWorker, CrashApi
<1>7. CASE UNCHANGED vars
  BY <1>1, <1>7 DEF vars, store
<1> QED
  BY <1>5, <1>6, <1>7 DEF Next, ExecNext

LEMMA NoOrphansStep ==
    ASSUME PlatformTyped, NoOrphans, [PlatformNext]_platformVars
    PROVE  NoOrphans'
<1> SUFFICES ASSUME EnforcesFK
             PROVE  /\ \A r \in Runs : status'[r] # NoRow => SuiteOf[r] \in suites'
                    /\ \A row \in results' \cup pending' : status'[row.run] # NoRow
  BY DEF NoOrphans, EnforcesFK
<1>0. /\ \A r \in Runs : status[r] # NoRow => SuiteOf[r] \in suites
      /\ \A row \in results \cup pending : status[row.run] # NoRow /\ row.run \in Runs
      /\ status \in [Runs -> RunStatus \cup {NoRow}]
      /\ results \subseteq StepRow /\ pending \subseteq StepRow
  BY DEF NoOrphans, PlatformTyped, TypeInv, TypeOK, StoreTypeOK, StepRow
<1>1. CASE WorkerMove
  <2>1. \A r \in Runs : status'[r] = NoRow <=> status[r] = NoRow
    BY <1>1, StatusMoves DEF WorkerMove, PlatformTyped
  <2>2. TypeInv' /\ UNCHANGED suites
    BY <1>1, TypeStep DEF WorkerMove, PlatformTyped
  <2>3. ASSUME NEW row \in results' \cup pending'
        PROVE  row.run \in Runs /\ status[row.run] # NoRow
    <3>1. row.run \in Runs
      BY <2>2 DEF TypeInv, TypeOK, StoreTypeOK, StepRow
    <3> QED
      BY <1>0, <1>1, <3>1, RowMoves DEF WorkerMove, PlatformTyped
  <2> QED
    BY <1>0, <2>1, <2>2, <2>3
<1>2. ASSUME UNCHANGED <<status, results, pending, suites>>
      PROVE  /\ \A r \in Runs : status'[r] # NoRow => SuiteOf[r] \in suites'
             /\ \A row \in results' \cup pending' : status'[row.run] # NoRow
  BY <1>0, <1>2
<1>3. CASE TriggerMove
  <2>1. PICK r \in Runs : Handle(r) \/ Die(r)
    BY <1>3 DEF TriggerMove, TriggerNext
  <2>2. CASE Persist(r)
    BY <1>0, <2>2 DEF Persist, NoRow
  <2>3. CASE Lookup(r) \/ FindSuite(r) \/ Enqueue(r) \/ Die(r)
    <3>1. UNCHANGED <<status, results, pending, suites>>
      BY <2>3 DEF Lookup, FindSuite, Enqueue, Die, store
    <3> QED
      BY <1>2, <3>1
  <2> QED
    BY <2>1, <2>2, <2>3 DEF Handle
<1>4. CASE ControlMove
  <2>1. ASSUME NEW c \in Cancels, CancelCommit(c)
        PROVE  /\ \A r \in Runs : status'[r] # NoRow => SuiteOf[r] \in suites'
               /\ \A row \in results' \cup pending' : status'[row.run] # NoRow
    BY <1>0, <2>1 DEF CancelCommit, NoRow
  <2>2. ASSUME NEW s \in Deletes, DeleteCommit(s)
        PROVE  /\ \A r \in Runs : status'[r] # NoRow => SuiteOf[r] \in suites'
               /\ \A row \in results' \cup pending' : status'[row.run] # NoRow
    <3>1. /\ \A r \in RunsOf(s) : RowFree(r)
          /\ Erase(RunsOf(s), {row \in results : row.run \in RunsOf(s)})
          /\ suites' = suites \ {s}
          /\ UNCHANGED pending
      BY <2>2 DEF DeleteCommit
    <3>2. \A row \in pending : row.run \notin RunsOf(s)
      BY <3>1 DEF RowFree
    <3>3. \A r \in Runs : status'[r] = IF r \in RunsOf(s) THEN NoRow ELSE status[r]
      BY <3>1 DEF Erase
    <3>4. \A row \in results' \cup pending' : row \in results \cup pending
                                              /\ row.run \notin RunsOf(s)
      BY <3>1, <3>2 DEF Erase
    <3>5. \A r \in Runs : status'[r] # NoRow => SuiteOf[r] \in suites'
      BY <1>0, <3>1, <3>3 DEF RunsOf
    <3> QED
      BY <1>0, <3>3, <3>4, <3>5
  <2>3. ASSUME \/ \E c \in Cancels : CancelTimeout(c) \/ \E r \in Runs : CancelLoad(c, r)
               \/ \E s \in Deletes : DeleteLoad(s) \/ DeleteTimeout(s)
        PROVE  UNCHANGED <<status, results, pending, suites>>
    BY <2>3 DEF CancelLoad, CancelTimeout, DeleteLoad, DeleteTimeout, store
  <2> QED
    BY <1>2, <1>4, <2>1, <2>2, <2>3 DEF ControlMove, ControlNext
<1> QED
  BY <1>1, <1>3, <1>4, PlatformMoves

\* On PostgreSQL no run, no result and no row of an open transaction outlives the
\* deletion of its suite, whatever executors, crashes and requests do meanwhile.
THEOREM NothingOutlivesItsSuite == PlatformSpec => []NoOrphans
<1>1. PlatformInit => NoOrphans
  BY StoreAssumption DEF PlatformInit, StoreInit, NoOrphans
<1>2. PlatformTyped /\ NoOrphans /\ [PlatformNext]_platformVars => NoOrphans'
  BY NoOrphansStep
<1> QED
  BY <1>1, <1>2, PlatformTypedInvariant, PTL DEF PlatformSpec

-----------------------------------------------------------------------------
(* Runs that are not created yet, and what may wait in the queue.          *)

\* What a step of the executor may put into the queue or into a worker's hands.
LEMMA HandedOut ==
    ASSUME TypeInv, [Next]_vars, NEW r \in Runs, Accounted(r)'
    PROVE  Accounted(r) \/ (budget["redeliver"] > 0 /\ status[r] # NoRow)
<1>0. /\ job \in [Workers -> Runs \cup {NoRun}]
      /\ jobs \in [Runs -> Nat]
      /\ NoRun \notin Runs
  BY StoreAssumption DEF TypeInv, TypeOK, StoreTypeOK, ExecTypeOK
<1>1. CASE UNCHANGED <<job, jobs>>
  BY <1>1 DEF Accounted
<1>2. CASE Drop
  BY <1>0, <1>2 DEF Drop, Accounted
<1>3. CASE GiveBack
  BY <1>0, <1>3 DEF GiveBack, Accounted
<1>4. CASE PickUp
  BY <1>0, <1>4 DEF PickUp, Accounted
<1>5. CASE LoseAll
  BY <1>0, <1>5 DEF LoseAll, Accounted
<1>6. CASE Again
  BY <1>0, <1>6 DEF Again, Accounted
<1> QED
  BY <1>1, <1>2, <1>3, <1>4, <1>5, <1>6, JobMoves

\* A worker gets a run into its hands by reading that it is QUEUED.
LEMMA PickedUp ==
    ASSUME TypeInv, [Next]_vars, NEW w \in Workers
    PROVE  job'[w] \in {job[w], NoRun} \/ status[job'[w]] = "queued"
<1> DEFINE Goal == job'[w] \in {job[w], NoRun} \/ status[job'[w]] = "queued"
<1>1. ASSUME NEW v \in Workers, NEW r \in Runs, Take(v, r)
      PROVE  Goal
  <2>1. job \in [Workers -> Runs \cup {NoRun}]
    BY DEF TypeInv, TypeOK, ExecTypeOK
  <2> QED
    BY <1>1, <2>1 DEF Take, Runnable
<1>2. ASSUME NEW ws, Leave(ws)
      PROVE  Goal
  BY <1>2 DEF Leave
<1>3. ASSUME NEW v \in Workers, Progress(v)
      PROVE  Goal
  BY <1>1, <1>2, <1>3 DEF Progress, LoadSuite, MarkOrphan, Start, AnnounceStart, Step,
                          RejectStep, Finish, Close, AnnounceFinish
<1>4. ASSUME Fault
      PROVE  Goal
  BY <1>2, <1>4 DEF Fault, Raise, Close, DbFailure, Interrupt, InterruptOutside,
                    InterruptInside, InterruptFlush, CrashArqWorker, CrashApi, Crash,
                    Redeliver, worker
<1>5. CASE UNCHANGED vars
  BY <1>5 DEF vars, execVars
<1> QED
  BY <1>3, <1>4, <1>5 DEF Next, ExecNext

\* The run of a request that has not inserted it is nowhere.
NotCreated == {"new", "missed", "found"}
FreshRuns == \A r \in Runs : req[r] \in NotCreated => status[r] = NoRow /\ ~Accounted(r)

\* What a request of one run does to the others, and to its own.
LEMMA RequestMoves ==
    ASSUME PlatformTyped, TriggerMove
    PROVE  \E r \in Runs :
             /\ \A q \in Runs \ {r} : /\ req'[q] = req[q] /\ answer'[q] = answer[q]
                                      /\ status'[q] = status[q]
                                      /\ Accounted(q)' = Accounted(q)
             /\ \/ /\ UNCHANGED <<status, job, jobs, answer>>
                   /\ req[r] \in NotCreated \cup {"committed"}
                   /\ req'[r] \in {"missed", "found", "refused", "failed"}
                   /\ req[r] = "committed" => req'[r] = "failed"
                \/ /\ UNCHANGED <<status, job, jobs>>
                   /\ req[r] = "new" /\ req'[r] = "replied" /\ status[answer'[r]] # NoRow
                \/ /\ UNCHANGED <<job, jobs, answer>>
                   /\ req[r] = "found" /\ req'[r] = "committed" /\ status'[r] = "queued"
                \/ /\ UNCHANGED <<status, job>>
                   /\ req[r] = "committed" /\ req'[r] = "replied"
                   /\ jobs' = [jobs EXCEPT ![r] = @ + 1]
                   /\ Accounted(r)'
<1>0. /\ req \in [Runs -> ReqPhase]
      /\ answer \in [Runs -> Runs \cup {NoRun}]
      /\ jobs \in [Runs -> Nat]
      /\ status \in [Runs -> RunStatus \cup {NoRow}]
  BY DEF PlatformTyped, TypeInv, TypeOK, StoreTypeOK, TriggerTypeOK
<1>1. PICK r \in Runs : Handle(r) \/ Die(r)
  BY DEF TriggerMove, TriggerNext
<1>2. UNCHANGED job
  BY DEF TriggerMove, execVars
<1>3. \A q \in Runs \ {r} : req'[q] = req[q] /\ answer'[q] = answer[q]
                            /\ status'[q] = status[q] /\ jobs'[q] = jobs[q]
  BY <1>0, <1>1 DEF Handle, Lookup, FindSuite, Persist, Enqueue, Die, MoveRequest, Reply, store
<1>4. \A q \in Runs \ {r} : Accounted(q)' = Accounted(q)
  BY <1>2, <1>3 DEF Accounted
<1>5. CASE Lookup(r)
  <2>1. UNCHANGED <<status, jobs>> /\ req[r] = "new"
    BY <1>5 DEF Lookup, store
  <2>2. ASSUME NEW existing \in RunsWithKey(KeyOf[r]), Reply(r, existing)
        PROVE  req'[r] = "replied" /\ status[answer'[r]] # NoRow
    BY <1>0, <2>2 DEF Reply, MoveRequest, RunsWithKey
  <2>3. ASSUME MoveRequest(r, "missed")
        PROVE  req'[r] = "missed"
    BY <1>0, <2>3 DEF MoveRequest
  <2> QED
    BY <1>2, <1>3, <1>4, <1>5, <2>1, <2>2, <2>3 DEF Lookup, NotCreated
<1>6. CASE FindSuite(r)
  BY <1>0, <1>2, <1>3, <1>4, <1>6 DEF FindSuite, MoveRequest, store, NotCreated
<1>7. CASE Persist(r)
  BY <1>0, <1>2, <1>3, <1>4, <1>7 DEF Persist, MoveRequest, NotCreated
<1>8. CASE Enqueue(r)
  <2>1. /\ UNCHANGED status /\ req[r] = "committed" /\ req'[r] = "replied"
        /\ jobs' = [jobs EXCEPT ![r] = @ + 1]
    BY <1>0, <1>8 DEF Enqueue, Reply, MoveRequest, store
  <2>2. Accounted(r)'
    BY <1>0, <2>1 DEF Accounted
  <2> QED
    BY <1>2, <1>3, <1>4, <2>1, <2>2
<1>9. CASE Die(r)
  BY <1>0, <1>2, <1>3, <1>4, <1>9 DEF Die, MoveRequest, store, NotCreated
<1> QED
  BY <1>1, <1>5, <1>6, <1>7, <1>8, <1>9 DEF Handle

\* The requests that change runs from outside neither insert any nor hand any out.
LEMMA ControlMoves ==
    ASSUME PlatformTyped, ControlMove, NEW r \in Runs
    PROVE  /\ UNCHANGED <<job, jobs, req>>
           /\ status'[r] \in {status[r], "cancelled", NoRow}
           /\ status[r] = NoRow => status'[r] = NoRow
<1>0. status \in [Runs -> RunStatus \cup {NoRow}]
  BY DEF PlatformTyped, TypeInv, TypeOK, StoreTypeOK
<1>1. UNCHANGED <<job, req>>
  BY DEF ControlMove, execVars, triggerVars
<1>2. ASSUME NEW c \in Cancels, CancelCommit(c)
      PROVE  UNCHANGED jobs /\ status'[r] \in {status[r], "cancelled", NoRow}
             /\ (status[r] = NoRow => status'[r] = NoRow)
  BY <1>0, <1>2 DEF CancelCommit
<1>3. ASSUME NEW s \in Deletes, DeleteCommit(s)
      PROVE  UNCHANGED jobs /\ status'[r] \in {status[r], "cancelled", NoRow}
             /\ (status[r] = NoRow => status'[r] = NoRow)
  <2>1. UNCHANGED jobs /\ \E runs, rows : Erase(runs, rows)
    BY <1>3 DEF DeleteCommit
  <2> QED
    BY <2>1 DEF Erase
<1>4. ASSUME \/ \E c \in Cancels : CancelTimeout(c) \/ \E q \in Runs : CancelLoad(c, q)
             \/ \E s \in Deletes : DeleteLoad(s) \/ DeleteTimeout(s)
      PROVE  UNCHANGED <<status, jobs>>
  BY <1>4 DEF CancelLoad, CancelTimeout, DeleteLoad, DeleteTimeout, store
<1> QED
  BY <1>1, <1>2, <1>3, <1>4 DEF ControlMove, ControlNext

LEMMA FreshRunsInit == PlatformInit => FreshRuns
BY StoreAssumption DEF PlatformInit, StoreInit, ExecInit, FreshRuns, Accounted

LEMMA FreshRunsStep ==
    ASSUME PlatformTyped, FreshRuns, [PlatformNext]_platformVars
    PROVE  FreshRuns'
<1>1. CASE WorkerMove
  <2>1. UNCHANGED req
    BY <1>1 DEF WorkerMove, triggerVars
  <2>2. \A r \in Runs : status'[r] = NoRow <=> status[r] = NoRow
    BY <1>1, StatusMoves DEF WorkerMove, PlatformTyped
  <2>3. \A r \in Runs : Accounted(r)' => Accounted(r) \/ status[r] # NoRow
    BY <1>1, HandedOut DEF WorkerMove, PlatformTyped
  <2> QED
    BY <2>1, <2>2, <2>3 DEF FreshRuns
<1>2. CASE TriggerMove
  BY <1>2, RequestMoves DEF FreshRuns, NotCreated, Accounted
<1>3. CASE ControlMove
  BY <1>3, ControlMoves DEF FreshRuns, Accounted
<1> QED
  BY <1>1, <1>2, <1>3, PlatformMoves

LEMMA FreshRunsInvariant == PlatformSpec => []FreshRuns
BY FreshRunsInit, FreshRunsStep, PlatformTypedInvariant, PTL DEF PlatformSpec

\* A cancelled run that no worker has in its hands stays cancelled until its suite
\* is deleted, and no worker ever gets it, although its job may still be delivered,
\* again and again.
THEOREM CancelledStaysCancelled == PlatformSpec => CancelBeforePickupHolds
<1> DEFINE Holds ==
      \A r \in Runs :
         status[r] = "cancelled" /\ (\A w \in Workers : job[w] # r)
           => /\ status'[r] \in {"cancelled", NoRow}
              /\ \A w \in Workers : job'[w] # r
<1>1. ASSUME PlatformTyped, FreshRuns, [PlatformNext]_platformVars
      PROVE  Holds
  <2> SUFFICES ASSUME NEW r \in Runs, status[r] = "cancelled", \A w \in Workers : job[w] # r
               PROVE  status'[r] \in {"cancelled", NoRow} /\ \A w \in Workers : job'[w] # r
    OBVIOUS
  <2>1. CASE WorkerMove
    <3>1. status'[r] = status[r]
      BY <1>1, <2>1, StatusMoves DEF WorkerMove, PlatformTyped
    <3>2. \A w \in Workers : job'[w] # r
      BY <1>1, <2>1, PickedUp, StoreAssumption DEF WorkerMove, PlatformTyped
    <3> QED
      BY <3>1, <3>2
  <2>2. CASE TriggerMove
    <3>1. UNCHANGED job
      BY <2>2 DEF TriggerMove, execVars
    <3>2. status'[r] = status[r]
      BY <1>1, <2>2, RequestMoves DEF FreshRuns, NotCreated, NoRow
    <3> QED
      BY <3>1, <3>2
  <2>3. CASE ControlMove
    BY <1>1, <2>3, ControlMoves
  <2> QED
    BY <1>1, <2>1, <2>2, <2>3, PlatformMoves
<1>2. PlatformTyped /\ FreshRuns /\ [PlatformNext]_platformVars => [Holds]_platformVars
  BY <1>1
<1> QED
  BY <1>2, PlatformTypedInvariant, FreshRunsInvariant, PTL
     DEF PlatformSpec, CancelBeforePickupHolds

-----------------------------------------------------------------------------
(* A job whose run is not there is one whose suite is gone.  Two readings  *)
(* that are used later have to be right: the request that is about to      *)
(* enqueue its run, and the deletion that has loaded the runs to erase.    *)

JobsInv ==
    /\ \A r \in Runs : req[r] = "committed" /\ status[r] = NoRow => SuiteOf[r] \notin suites
    /\ \A s \in Deletes : \A r \in loadedRuns[s] : SuiteOf[r] = s
    /\ JobsHaveRuns

LEMMA JobsInvStep ==
    ASSUME PlatformTyped, JobsInv, [PlatformNext]_platformVars
    PROVE  JobsInv'
<1>1. CASE WorkerMove
  <2>1. UNCHANGED <<req, loadedRuns, suites>>
    BY <1>1 DEF WorkerMove, triggerVars, controlVars
  <2>2. \A r \in Runs : status'[r] = NoRow <=> status[r] = NoRow
    BY <1>1, StatusMoves DEF WorkerMove, PlatformTyped
  <2>3. \A r \in Runs : Accounted(r)' => Accounted(r) \/ status[r] # NoRow
    BY <1>1, HandedOut DEF WorkerMove, PlatformTyped
  <2> QED
    BY <2>1, <2>2, <2>3 DEF JobsInv, JobsHaveRuns
<1>2. CASE TriggerMove
  <2>1. UNCHANGED <<loadedRuns, suites>>
    BY <1>2 DEF TriggerMove, controlVars, TriggerNext, Handle, Lookup, FindSuite, Persist,
                Enqueue, Die, store
  <2>2. PICK r \in Runs :
          /\ \A q \in Runs \ {r} : req'[q] = req[q] /\ status'[q] = status[q]
                                   /\ Accounted(q)' = Accounted(q)
          /\ \/ UNCHANGED <<status, job, jobs>> /\ req'[r] # "committed"
             \/ req'[r] = "committed" /\ status'[r] = "queued"
             \/ UNCHANGED status /\ req[r] = "committed" /\ req'[r] = "replied"
    BY <1>2, RequestMoves
  <2>3. ASSUME NEW q \in Runs, q # r
        PROVE  /\ req'[q] = "committed" /\ status'[q] = NoRow => SuiteOf[q] \notin suites'
               /\ status'[q] = NoRow /\ Accounted(q)' => SuiteOf[q] \notin suites'
    BY <2>1, <2>2, <2>3 DEF JobsInv, JobsHaveRuns
  <2>4. /\ req'[r] = "committed" /\ status'[r] = NoRow => SuiteOf[r] \notin suites'
        /\ status'[r] = NoRow /\ Accounted(r)' => SuiteOf[r] \notin suites'
    BY <2>1, <2>2 DEF JobsInv, JobsHaveRuns, Accounted, NoRow
  <2> QED
    BY <2>1, <2>3, <2>4 DEF JobsInv, JobsHaveRuns
<1>3. CASE ControlMove
  <2>0. UNCHANGED <<job, req>>
    BY <1>3 DEF ControlMove, execVars, triggerVars
  <2>1. ASSUME NEW c \in Cancels, CancelCommit(c)
        PROVE  JobsInv'
    <3>1. \A r \in Runs : status'[r] = NoRow => status[r] = NoRow
      BY <2>1 DEF CancelCommit, PlatformTyped, TypeInv, TypeOK, StoreTypeOK, NoRow
    <3> QED
      BY <2>0, <2>1, <3>1 DEF CancelCommit, JobsInv, JobsHaveRuns, Accounted
  <2>2. ASSUME NEW c \in Cancels, CancelTimeout(c) \/ \E r \in Runs : CancelLoad(c, r)
        PROVE  JobsInv'
    BY <2>0, <2>2 DEF CancelLoad, CancelTimeout, store, JobsInv, JobsHaveRuns, Accounted
  <2>3. ASSUME NEW s \in Deletes, DeleteLoad(s)
        PROVE  JobsInv'
    <3>1. UNCHANGED <<status, suites, jobs>> /\ loadedRuns' = [loadedRuns EXCEPT ![s] = RunsOf(s)]
      BY <2>3 DEF DeleteLoad, store
    <3>2. \A d \in Deletes : \A r \in loadedRuns'[d] : SuiteOf[r] = d
      BY <3>1 DEF RunsOf, JobsInv, PlatformTyped, ControlTypeOK
    <3> QED
      BY <2>0, <3>1, <3>2 DEF JobsInv, JobsHaveRuns, Accounted
  <2>4. ASSUME NEW s \in Deletes, DeleteCommit(s)
        PROVE  JobsInv'
    <3>1. /\ UNCHANGED jobs
          /\ suites' = suites \ {s}
          /\ loadedRuns' = [loadedRuns EXCEPT ![s] = {}]
      BY <2>4 DEF DeleteCommit
    <3>2. \A r \in Runs : status'[r] = NoRow => status[r] = NoRow \/ SuiteOf[r] = s
      BY <2>4 DEF DeleteCommit, Erase, RunsOf, JobsInv
    <3>3. \A d \in Deletes : \A r \in loadedRuns'[d] : SuiteOf[r] = d
      BY <3>1 DEF JobsInv, PlatformTyped, ControlTypeOK
    <3> QED
      BY <2>0, <3>1, <3>2, <3>3 DEF JobsInv, JobsHaveRuns, Accounted
  <2>5. ASSUME NEW s \in Deletes, DeleteTimeout(s)
        PROVE  JobsInv'
    <3>1. UNCHANGED <<status, suites, jobs>> /\ loadedRuns' = [loadedRuns EXCEPT ![s] = {}]
      BY <2>5 DEF DeleteTimeout, store
    <3>2. \A d \in Deletes : \A r \in loadedRuns'[d] : SuiteOf[r] = d
      BY <3>1 DEF JobsInv, PlatformTyped, ControlTypeOK
    <3> QED
      BY <2>0, <3>1, <3>2 DEF JobsInv, JobsHaveRuns, Accounted
  <2> QED
    BY <1>3, <2>1, <2>2, <2>3, <2>4, <2>5 DEF ControlMove, ControlNext
<1> QED
  BY <1>1, <1>2, <1>3, PlatformMoves

\* Whenever a job waits or is executed whose run is not there, the suite of the run
\* has been deleted: a request commits its run before it enqueues it, and neither
\* faults nor redeliveries put a job into the queue that never had a run.
THEOREM JobsFollowCommits == PlatformSpec => []JobsHaveRuns
<1>1. PlatformInit => JobsInv
  BY StoreAssumption, ControlAssumption
     DEF PlatformInit, StoreInit, TriggerInit, ControlInit, ExecInit, JobsInv, JobsHaveRuns,
         Accounted
<1>2. PlatformTyped /\ JobsInv /\ [PlatformNext]_platformVars => JobsInv'
  BY JobsInvStep
<1>3. JobsInv => JobsHaveRuns
  BY DEF JobsInv
<1> QED
  BY <1>1, <1>2, <1>3, PlatformTypedInvariant, PTL DEF PlatformSpec

-----------------------------------------------------------------------------
(* Accepted runs stay queued.                                              *)

AcceptedInv ==
    /\ budget["timeout"] = 0 /\ Undisturbed
    /\ EndsDecided
    /\ AcceptedStaysQueued

LEMMA AcceptedStep ==
    ASSUME Dispatcher = "arq", StampsFit, PlatformTyped, FreshRuns, AcceptedInv,
           [PlatformNext]_platformVars
    PROVE  AcceptedInv'
<1>0. \A w \in Workers : pc[w] # "idle" => job[w] \in Runs
  BY BusyJob DEF PlatformTyped
<1>1. CASE WorkerMove
  <2>1. TypeInv /\ [Next]_vars /\ UNCHANGED <<req, answer>>
    BY <1>1 DEF WorkerMove, PlatformTyped, triggerVars
  <2>2. budget'["timeout"] = 0 /\ Undisturbed'
    BY <2>1, BudgetFalls, UndisturbedStep DEF AcceptedInv, FaultKind
  <2>3. EndsDecided'
    BY <2>1, EndsDecidedStep DEF AcceptedInv
  <2>4. ASSUME NEW r \in Runs, req'[r] = "replied", status'[r] = "queued", answer'[r] = r
        PROVE  Accounted(r)'
    <3>1. status[r] = "queued"
      BY <2>1, <2>4, StatusMoves
    <3>2. Accounted(r)
      BY <2>1, <2>4, <3>1 DEF AcceptedInv, AcceptedStaysQueued
    <3> QED
      BY <2>1, <2>4, <3>2, QueuedStays DEF AcceptedInv
  <2> QED
    BY <2>2, <2>3, <2>4 DEF AcceptedInv, AcceptedStaysQueued
<1>2. CASE TriggerMove
  <2>1. UNCHANGED <<pc, job, budget>>
    BY <1>2 DEF TriggerMove, execVars
  <2>2. PICK r \in Runs :
          /\ \A q \in Runs \ {r} : /\ req'[q] = req[q] /\ answer'[q] = answer[q]
                                   /\ status'[q] = status[q]
                                   /\ Accounted(q)' = Accounted(q)
          /\ \/ UNCHANGED status /\ req'[r] # "replied"
             \/ UNCHANGED status /\ req[r] = "new" /\ status[answer'[r]] # NoRow
             \/ req[r] = "found" /\ req'[r] = "committed"
             \/ UNCHANGED status /\ Accounted(r)'
    BY <1>2, RequestMoves
  <2>3. ASSUME NEW w \in Workers, pc'[w] = "closing"
        PROVE  status'[job'[w]] # "queued"
    <3>1. job[w] \in Runs /\ job'[w] = job[w] /\ status[job[w]] # "queued"
      BY <1>0, <2>1, <2>3 DEF AcceptedInv, EndsDecided
    <3>2. req[job[w]] # "found"
      BY <3>1 DEF FreshRuns, NotCreated, Accounted
    <3> QED
      BY <2>2, <3>1, <3>2
  <2>4. AcceptedStaysQueued'
    <3>1. req[r] = "new" => status[r] = NoRow
      BY DEF FreshRuns, NotCreated
    <3> QED
      BY <2>2, <3>1 DEF AcceptedInv, AcceptedStaysQueued
  <2> QED
    BY <2>1, <2>3, <2>4 DEF AcceptedInv, EndsDecided, Undisturbed
<1>3. CASE ControlMove
  <2>1. UNCHANGED budget
    BY <1>3 DEF ControlMove, execVars
  <2>2. UNCHANGED <<pc, job, req, answer>>
    BY <1>3 DEF ControlMove, execVars, triggerVars
  <2>3. \A r \in Runs : UNCHANGED jobs /\ (status'[r] = "queued" => status[r] = "queued")
    BY <1>3, ControlMoves DEF NoRow
  <2>4. EndsDecided'
    BY <1>0, <2>2, <2>3 DEF AcceptedInv, EndsDecided
  <2>5. AcceptedStaysQueued'
    BY <2>2, <2>3 DEF AcceptedInv, AcceptedStaysQueued, Accounted
  <2> QED
    BY <2>1, <2>4, <2>5 DEF AcceptedInv, Undisturbed
<1> QED
  BY <1>1, <1>2, <1>3, PlatformMoves

\* With arq, and timestamps the database takes, no run whose creation was answered
\* with 202 is lost before it has begun: through crashes, shutdowns, raising steps,
\* duplicated deliveries, cancel requests and deletions, its job is in the queue or
\* in a worker's hands.  (On SQLite nobody may give up waiting for the write lock.)
THEOREM AcceptedRunsStayQueued ==
    ASSUME Dispatcher = "arq", StampsFit, Budget["timeout"] = 0, Budget["db"] = 0,
           EnforcesFK \/ Budget["locked"] = 0
    PROVE  PlatformSpec => []AcceptedStaysQueued
<1>1. PlatformInit => AcceptedInv
  BY DEF PlatformInit, TriggerInit, ExecInit, AcceptedInv, Undisturbed, EndsDecided,
         AcceptedStaysQueued
<1>2. PlatformTyped /\ FreshRuns /\ AcceptedInv /\ [PlatformNext]_platformVars => AcceptedInv'
  BY AcceptedStep
<1>3. AcceptedInv => AcceptedStaysQueued
  BY DEF AcceptedInv
<1> QED
  BY <1>1, <1>2, <1>3, PlatformTypedInvariant, FreshRunsInvariant, PTL DEF PlatformSpec

-----------------------------------------------------------------------------
(* One executor, and one verdict.  Without second deliveries a run is in   *)
(* the queue or in one worker's hands at most once, from the request that  *)
(* enqueues it on; so its verdict is written once, and after it only a     *)
(* cancel request that has read the run before can write its status.       *)

\* Until its request enqueues it, a run is not in the queue.
Unqueued == \A r \in Runs : req[r] \in NotCreated \cup {"committed"} => ~Accounted(r)

OnceInv == HandsInv /\ Unqueued

LEMMA OnceInit == Budget["redeliver"] = 0 /\ PlatformInit => OnceInv
<1> SUFFICES ASSUME Budget["redeliver"] = 0, PlatformInit
             PROVE  OnceInv
  OBVIOUS
<1>1. \A r \in Runs : jobs[r] = 0
  BY DEF PlatformInit, StoreInit
<1>2. /\ budget["redeliver"] = 0
      /\ \A w \in Workers : job[w] = NoRun /\ pc[w] = "idle"
  BY DEF PlatformInit, ExecInit
<1>3. TypeInv
  BY PlatformTypedInit DEF PlatformTyped
<1>4. Unqueued
  BY <1>1, <1>2, StoreAssumption DEF Unqueued, Accounted
<1>5. HandsInv
  BY <1>1, <1>2, <1>3 DEF HandsInv, HandsHold, OneCopy, AtMostOneExecutor
<1> QED
  BY <1>4, <1>5 DEF OnceInv

LEMMA OnceStep ==
    ASSUME PlatformTyped, FreshRuns, OnceInv, [PlatformNext]_platformVars
    PROVE  OnceInv'
<1>0. /\ job \in [Workers -> Runs \cup {NoRun}]
      /\ jobs \in [Runs -> Nat]
      /\ NoRun \notin Runs
      /\ \A w \in Workers : pc[w] # "idle" => job[w] \in Runs
  BY StoreAssumption, BusyJob DEF PlatformTyped, TypeInv, TypeOK, StoreTypeOK, ExecTypeOK
<1>1. TypeInv'
  BY PlatformTypedStep DEF PlatformTyped
<1>2. CASE WorkerMove
  <2>1. HandsInv'
    BY <1>2, HandsStep DEF WorkerMove, OnceInv
  <2>2. budget["redeliver"] = 0
    BY DEF OnceInv, HandsInv, OneCopy
  <2>3. \A r \in Runs : Accounted(r)' => Accounted(r)
    BY <1>2, <2>2, HandedOut DEF WorkerMove, PlatformTyped
  <2>4. UNCHANGED req
    BY <1>2 DEF WorkerMove, triggerVars
  <2> QED
    BY <2>1, <2>3, <2>4 DEF OnceInv, Unqueued
<1>3. CASE TriggerMove
  <2>1. UNCHANGED <<pc, job, budget>>
    BY <1>3 DEF TriggerMove, execVars
  <2>2. PICK r \in Runs :
          /\ \A q \in Runs \ {r} : /\ req'[q] = req[q] /\ status'[q] = status[q]
                                   /\ Accounted(q)' = Accounted(q)
          /\ \/ UNCHANGED <<status, jobs>> /\ req[r] \in NotCreated \cup {"committed"}
             \/ UNCHANGED jobs /\ req[r] = "found"
             \/ /\ UNCHANGED status /\ req[r] = "committed" /\ req'[r] = "replied"
                /\ jobs' = [jobs EXCEPT ![r] = @ + 1]
    BY <1>3, RequestMoves DEF NotCreated
  <2>3. ~Accounted(r)
    BY <2>2 DEF OnceInv, Unqueued, NotCreated
  <2>4. jobs[r] = 0 /\ \A w \in Workers : job[w] # r
    BY <1>0, <2>3 DEF Accounted
  <2>5. OneCopy'
    <3>1. CASE UNCHANGED jobs
      BY <1>1, <2>1, <3>1 DEF OnceInv, HandsInv, OneCopy, AtMostOneExecutor
    <3>2. CASE jobs' = [jobs EXCEPT ![r] = @ + 1]
      BY <1>0, <1>1, <2>1, <2>4, <3>2 DEF OnceInv, HandsInv, OneCopy, AtMostOneExecutor
    <3> QED
      BY <2>2, <3>1, <3>2
  <2>6. \A w \in Workers : pc[w] # "idle" => status'[job[w]] = status[job[w]]
    BY <1>0, <2>2, <2>4
  <2>7. \A w \in Workers : HandsHold(w)'
    BY <2>1, <2>6 DEF OnceInv, HandsInv, HandsHold
  <2>8. Unqueued'
    BY <2>1, <2>2, <2>3 DEF OnceInv, Unqueued, NotCreated, Accounted
  <2> QED
    BY <2>5, <2>7, <2>8 DEF OnceInv, HandsInv
<1>4. CASE ControlMove
  <2>1. UNCHANGED <<pc, job, req, budget>>
    BY <1>4 DEF ControlMove, execVars, triggerVars
  <2>2. \A r \in Runs : UNCHANGED jobs /\ status'[r] \in {status[r], "cancelled", NoRow}
    BY <1>4, ControlMoves
  <2>3. OneCopy'
    BY <1>0, <1>1, <2>1, <2>2 DEF OnceInv, HandsInv, OneCopy, AtMostOneExecutor
  <2>4. \A w \in Workers : HandsHold(w)'
    BY <1>0, <2>1, <2>2 DEF OnceInv, HandsInv, HandsHold, NoRow
  <2>5. Unqueued'
    BY <2>1, <2>2 DEF OnceInv, Unqueued, Accounted
  <2> QED
    BY <2>3, <2>4, <2>5 DEF OnceInv, HandsInv
<1> QED
  BY <1>2, <1>3, <1>4, PlatformMoves

LEMMA OnceInvariant ==
    ASSUME Budget["redeliver"] = 0
    PROVE  PlatformSpec => []OnceInv
<1>1. PlatformInit => OnceInv
  BY OnceInit
<1> QED
  BY <1>1, OnceStep, PlatformTypedInvariant, FreshRunsInvariant, PTL DEF PlatformSpec

\* Unless a job is delivered twice, a verdict is final but for a cancel request that
\* had read the run before, and for the deletion of its suite: no worker writes over
\* it, not even one that was interrupted and whose job was handed out again.
THEOREM VerdictsAreFinal ==
    ASSUME Budget["redeliver"] = 0
    PROVE  PlatformSpec => OnlyStaleCancelsOverwrite
<1> DEFINE Holds ==
      \A r \in Runs :
         status[r] \in {"passed", "failed", "error"} /\ (\A c \in Cancels : cancelling[c] # r)
           => status'[r] \in {status[r], NoRow}
<1>1. ASSUME PlatformTyped, FreshRuns, OnceInv, [PlatformNext]_platformVars
      PROVE  Holds
  <2> SUFFICES ASSUME NEW r \in Runs, status[r] \in {"passed", "failed", "error"},
                      \A c \in Cancels : cancelling[c] # r
               PROVE  status'[r] \in {status[r], NoRow}
    OBVIOUS
  <2>1. CASE WorkerMove
    <3>1. ASSUME NEW w \in Workers, job[w] = r
          PROVE  pc[w] \notin {"orphaned", "ready", "running"}
      BY <1>1, <3>1 DEF OnceInv, HandsInv, HandsHold
    <3>2. status'[r] = status[r]
      BY <1>1, <2>1, <3>1, StatusMoves DEF WorkerMove, PlatformTyped
    <3> QED
      BY <3>2
  <2>2. CASE TriggerMove
    <3>1. req[r] # "found"
      BY <1>1 DEF FreshRuns, NotCreated, NoRow
    <3> QED
      BY <1>1, <2>2, <3>1, RequestMoves
  <2>3. CASE ControlMove
    <3>1. ASSUME NEW c \in Cancels, CancelCommit(c)
          PROVE  status'[r] = status[r]
      BY <1>1, <3>1 DEF CancelCommit, PlatformTyped, TypeInv, TypeOK, StoreTypeOK
    <3>2. ASSUME NEW s \in Deletes, DeleteCommit(s)
          PROVE  status'[r] \in {status[r], NoRow}
      BY <3>2 DEF DeleteCommit, Erase
    <3>3. ASSUME \/ \E c \in Cancels : CancelTimeout(c) \/ \E q \in Runs : CancelLoad(c, q)
                 \/ \E s \in Deletes : DeleteLoad(s) \/ DeleteTimeout(s)
          PROVE  UNCHANGED status
      BY <3>3 DEF CancelLoad, CancelTimeout, DeleteLoad, DeleteTimeout, store
    <3> QED
      BY <2>3, <3>1, <3>2, <3>3 DEF ControlMove, ControlNext
  <2> QED
    BY <1>1, <2>1, <2>2, <2>3, PlatformMoves
<1>2. PlatformTyped /\ FreshRuns /\ OnceInv /\ [PlatformNext]_platformVars
        => [Holds]_platformVars
  BY <1>1
<1> QED
  BY <1>2, PlatformTypedInvariant, FreshRunsInvariant, OnceInvariant, PTL
     DEF PlatformSpec, OnlyStaleCancelsOverwrite

\* The requests do not bring a second executor about: a retry gets an id of its own
\* or enqueues nothing, and a deleted run is not created again.
THEOREM OneExecutorAmongRequests ==
    ASSUME Budget["redeliver"] = 0
    PROVE  PlatformSpec => []AtMostOneExecutor
<1>1. OnceInv => AtMostOneExecutor
  BY DEF OnceInv, HandsInv, OneCopy
<1> QED
  BY <1>1, OnceInvariant, PTL

-----------------------------------------------------------------------------
(* The verdict against the results, where runs are created, cancelled and  *)
(* deleted meanwhile.                                                      *)

\* A run that is not created has no results yet (on SQLite, rows can stay behind a
\* deleted run), and a deletion erases results only together with their run.
DeskInv ==
    /\ \A r \in Runs : req[r] \in NotCreated => Untouched(r)
    /\ \A s \in Deletes : \A row \in loadedRows[s] : row.run \in loadedRuns[s]

\* What the executor writes of counts and results is of a run in a worker's hands.
LEMMA UnheldRests ==
    ASSUME VerdictInv, [Next]_vars, NEW r \in Runs, \A w \in Workers : job[w] # r, Untouched(r)
    PROVE  Untouched(r)'
<1>1. CASE Commit
  <2>1. PICK w \in Workers : pc[w] = "running" /\ \E st, cnt : CommitRun(w, st, cnt)
    BY <1>1 DEF Commit
  <2>2. \A row \in PendingBy(w) : row.run = job[w]
    BY DEF VerdictInv, ResultsInv, PendingHeld, PendingBy
  <2>3. RowsOf(r)' = RowsOf(r)
    BY <2>1, <2>2 DEF CommitRun, RowsOf
  <2>4. counts'[r] = counts[r]
    BY <2>1, Shapes DEF CommitRun
  <2> QED
    BY <2>3, <2>4 DEF Untouched
<1>2. CASE Quiet
  BY <1>2 DEF Quiet, Untouched, RowsOf
<1>3. ASSUME NEW w \in Workers, Step(w)
      PROVE  Untouched(r)'
  BY <1>3 DEF Step, runRow, Untouched, RowsOf
<1>4. CASE UNCHANGED vars
  BY <1>4 DEF vars, store, Untouched, RowsOf
<1> QED
  BY <1>1, <1>2, <1>3, <1>4, ProgressMoves, FaultMoves DEF Next, ExecNext

\* A step that leaves the workers and their rows alone.
LEMMA WorkersKept ==
    ASSUME UNCHANGED <<pc, job, step, tally, pending>>
    PROVE  \A w \in Workers : Kept(w)
BY DEF Kept, PendingBy

\* A request inserts a run without counts and results.
LEMMA PersistKeepsBooks ==
    ASSUME VerdictInv, FreshRuns, DeskInv, UNCHANGED execVars,
           NEW r \in Runs, req[r] = "found", Persist(r)
    PROVE  PendingHeld' /\ ResultsAppearAtFinish' /\ Books'
<1>1. /\ UNCHANGED <<counts, finished, results, pending, pc, job, step, tally>>
      /\ \A q \in Runs \ {r} : status'[q] = status[q]
      /\ status'[r] \in {"queued", NoRow}
  BY Shapes DEF Persist, execVars, FreshRuns, NotCreated
<1>2. Untouched(r) /\ \A w \in Workers : job[w] # r
  BY DEF FreshRuns, NotCreated, DeskInv, Accounted
<1>3. PendingHeld' /\ ResultsAppearAtFinish'
  BY <1>1, <1>2 DEF VerdictInv, ResultsInv, PendingHeld, ResultsAppearAtFinish, Untouched, RowsOf
<1>4. \A q \in Runs : Untouched(q)' = Untouched(q)
  BY <1>1 DEF Untouched, RowsOf
<1>5. \A q \in Runs : status'[q] = "queued" => Untouched(q)'
  BY <1>1, <1>2, <1>4 DEF VerdictInv
<1>6. \A w \in Workers : Engaged(w)' => Untouched(job[w])'
  BY <1>1, <1>4, Shapes DEF Engaged, VerdictInv
<1>7. \A w \in Workers : pc'[w] # "closing" => Ledger(w)'
  BY <1>1 DEF VerdictInv, Ledger, PendingBy
<1>8. VerdictMatchesResults'
  BY <1>1 DEF VerdictInv, VerdictMatchesResults, RowsOf, NoRow
<1> QED
  BY <1>3, <1>5, <1>6, <1>7, <1>8 DEF Books

\* A deletion erases whole runs.
LEMMA EraseKeepsBooks ==
    ASSUME VerdictInv, UNCHANGED execVars, UNCHANGED pending, NEW runs, NEW rows,
           Erase(runs, rows), \A row \in rows : row.run \in runs
    PROVE  PendingHeld' /\ ResultsAppearAtFinish' /\ Books'
<1>1. UNCHANGED <<pending, pc, job, step, tally>>
  BY DEF execVars
<1>2. \A q \in Runs \cap runs : status'[q] = NoRow /\ counts'[q] = ZeroTally
  BY DEF Erase
<1>3. \A q \in Runs \ runs : /\ status'[q] = status[q] /\ counts'[q] = counts[q]
                             /\ finished'[q] = finished[q] /\ RowsOf(q)' = RowsOf(q)
  BY DEF Erase, RowsOf
<1>4. \A q \in Runs : Untouched(q) => Untouched(q)'
  <2>1. \A q \in Runs : RowsOf(q)' \subseteq RowsOf(q)
    BY DEF Erase, RowsOf
  <2> QED
    BY <1>2, <1>3, <2>1 DEF Untouched
<1>5. PendingHeld'
  BY <1>1 DEF VerdictInv, ResultsInv, PendingHeld
<1>6. ResultsAppearAtFinish'
  BY <1>2, <1>3 DEF VerdictInv, ResultsInv, ResultsAppearAtFinish
<1>7. \A q \in Runs : status'[q] = "queued" => Untouched(q)'
  BY <1>2, <1>3, <1>4 DEF VerdictInv, NoRow
<1>8. \A w \in Workers : Engaged(w)' => Untouched(job[w])'
  BY <1>1, <1>4, Shapes DEF Engaged, VerdictInv
<1>9. \A w \in Workers : pc'[w] # "closing" => Ledger(w)'
  BY <1>1 DEF VerdictInv, Ledger, PendingBy
<1>10. VerdictMatchesResults'
  BY <1>2, <1>3 DEF VerdictInv, VerdictMatchesResults, NoRow
<1> QED
  BY <1>5, <1>6, <1>7, <1>8, <1>9, <1>10 DEF Books

PlatformVerdictInv == VerdictInv /\ Unqueued /\ DeskInv

LEMMA PlatformVerdictInit == Budget["redeliver"] = 0 /\ PlatformInit => PlatformVerdictInv
<1> SUFFICES ASSUME Budget["redeliver"] = 0, PlatformInit
             PROVE  PlatformVerdictInv
  OBVIOUS
<1>1. HandsInv /\ Unqueued /\ TypeInv
  BY OnceInit DEF OnceInv, HandsInv, OneCopy
<1>2. /\ results = {} /\ pending = {}
      /\ \A r \in Runs : counts[r] = ZeroTally /\ status[r] = NoRow
      /\ \A w \in Workers : pc[w] = "idle" /\ step[w] = 0 /\ tally[w] = ZeroTally
      /\ \A s \in Deletes : loadedRows[s] = {}
  BY DEF PlatformInit, StoreInit, ExecInit, ControlInit
<1>3. ResultsInv
  BY <1>1, <1>2 DEF ResultsInv, PendingHeld, ResultsAppearAtFinish, RowsOf
<1>4. \A w \in Workers : Ledger(w)
  <2>1. \A w \in Workers : PendingBy(w) = {}
    BY <1>2 DEF PendingBy
  <2> QED
    BY <1>2, <2>1, NothingIsBalanced DEF Ledger
<1>5. \A r \in Runs : Untouched(r)
  BY <1>2 DEF Untouched, RowsOf
<1>6. VerdictMatchesResults
  BY <1>2 DEF VerdictMatchesResults, NoRow
<1>7. VerdictInv
  BY <1>1, <1>2, <1>3, <1>4, <1>5, <1>6 DEF VerdictInv, Engaged
<1>8. DeskInv
  BY <1>2, <1>5 DEF DeskInv
<1> QED
  BY <1>1, <1>7, <1>8 DEF PlatformVerdictInv

LEMMA PlatformVerdictStep ==
    ASSUME PlatformTyped, FreshRuns, PlatformVerdictInv, [PlatformNext]_platformVars
    PROVE  PlatformVerdictInv'
<1>1. VerdictInv /\ DeskInv
  BY DEF PlatformVerdictInv
<1>2. HandsInv' /\ Unqueued' /\ TypeInv'
  BY OnceStep, PlatformTypedStep DEF PlatformVerdictInv, VerdictInv, OnceInv, PlatformTyped
<1>3. ASSUME PendingHeld', ResultsAppearAtFinish', Books'
      PROVE  VerdictInv'
  BY <1>2, <1>3 DEF VerdictInv, ResultsInv, Books
<1>4. ASSUME UNCHANGED <<status, counts, finished, results, pending>>, UNCHANGED execVars
      PROVE  VerdictInv'
  <2>1. UNCHANGED <<pc, job, step, tally>>
    BY <1>4 DEF execVars
  <2>2. Quiet
    BY <1>4, <2>1, WorkersKept DEF Quiet
  <2>3. PendingHeld' /\ ResultsAppearAtFinish'
    BY <1>1, <1>4, <2>1 DEF VerdictInv, ResultsInv, PendingHeld, ResultsAppearAtFinish, RowsOf
  <2> QED
    BY <1>1, <1>3, <2>2, <2>3, QuietKeepsBooks
<1>5. CASE WorkerMove
  <2>1. [Next]_vars /\ UNCHANGED <<req, loadedRuns, loadedRows>>
    BY <1>5 DEF WorkerMove, triggerVars, controlVars
  <2>2. VerdictInv'
    BY <1>1, <2>1, VerdictStep
  <2>3. ASSUME NEW r \in Runs, req[r] \in NotCreated
        PROVE  Untouched(r)'
    <3>1. Untouched(r) /\ \A w \in Workers : job[w] # r
      BY <1>1, <2>3 DEF DeskInv, FreshRuns, Accounted
    <3> QED
      BY <1>1, <2>1, <3>1, UnheldRests
  <2> QED
    BY <1>1, <1>2, <2>1, <2>2, <2>3 DEF PlatformVerdictInv, DeskInv
<1>6. CASE TriggerMove
  <2>1. UNCHANGED execVars /\ UNCHANGED <<loadedRuns, loadedRows>>
    BY <1>6 DEF TriggerMove, controlVars
  <2>2. PICK r \in Runs : Handle(r) \/ Die(r)
    BY <1>6 DEF TriggerMove, TriggerNext
  <2>3. UNCHANGED <<counts, finished, results, pending>>
    BY <2>2 DEF Handle, Lookup, FindSuite, Persist, Enqueue, Die, store
  <2>4. VerdictInv'
    <3>1. CASE Persist(r)
      BY <1>1, <1>3, <2>1, <3>1, PersistKeepsBooks DEF Persist
    <3>2. CASE Lookup(r) \/ FindSuite(r) \/ Enqueue(r) \/ Die(r)
      <4>1. UNCHANGED status
        BY <3>2 DEF Lookup, FindSuite, Enqueue, Die, store
      <4> QED
        BY <1>4, <2>1, <2>3, <4>1
    <3> QED
      BY <2>2, <3>1, <3>2 DEF Handle
  <2>5. \A q \in Runs : req'[q] \in NotCreated => req[q] \in NotCreated
    BY <1>6, RequestMoves DEF NotCreated
  <2>6. DeskInv'
    BY <1>1, <2>1, <2>3, <2>5 DEF DeskInv, Untouched, RowsOf
  <2> QED
    BY <1>2, <2>4, <2>6 DEF PlatformVerdictInv
<1>7. CASE ControlMove
  <2>1. UNCHANGED execVars /\ UNCHANGED req
    BY <1>7 DEF ControlMove, triggerVars
  <2>2. ASSUME NEW c \in Cancels, CancelCommit(c)
        PROVE  VerdictInv' /\ DeskInv'
    <3>1. UNCHANGED <<counts, finished, results, pending, loadedRuns, loadedRows>>
      BY <2>2 DEF CancelCommit
    <3>2. \A r \in Runs : status'[r] = status[r] \/ (status[r] # NoRow /\ status'[r] = "cancelled")
      BY <1>1, <2>2, Shapes DEF CancelCommit
    <3>3. UNCHANGED <<pc, job, step, tally>>
      BY <2>1 DEF execVars
    <3>4. Quiet
      BY <3>1, <3>2, <3>3, WorkersKept DEF Quiet, Undecided
    <3>5. PendingHeld' /\ ResultsAppearAtFinish'
      BY <1>1, <3>1, <3>2, <3>3
         DEF VerdictInv, ResultsInv, PendingHeld, ResultsAppearAtFinish, RowsOf
    <3>6. DeskInv'
      BY <1>1, <2>1, <3>1 DEF DeskInv, Untouched, RowsOf
    <3> QED
      BY <1>1, <1>3, <3>4, <3>5, <3>6, QuietKeepsBooks
  <2>3. ASSUME NEW s \in Deletes, DeleteCommit(s)
        PROVE  VerdictInv' /\ DeskInv'
    <3>1. PICK runs, rows : Erase(runs, rows) /\ \A row \in rows : row.run \in runs
      BY <1>1, <2>3 DEF DeleteCommit, DeskInv
    <3>2. /\ UNCHANGED pending
          /\ loadedRuns' = [loadedRuns EXCEPT ![s] = {}]
          /\ loadedRows' = [loadedRows EXCEPT ![s] = {}]
      BY <2>3 DEF DeleteCommit
    <3>3. VerdictInv'
      BY <1>1, <1>3, <2>1, <3>1, <3>2, EraseKeepsBooks
    <3>4. \A r \in Runs : Untouched(r) => Untouched(r)'
      BY <3>1 DEF Erase, Untouched, RowsOf
    <3>5. \A d \in Deletes : \A row \in loadedRows'[d] : row.run \in loadedRuns'[d]
      BY <1>1, <3>2 DEF DeskInv, PlatformTyped, ControlTypeOK
    <3> QED
      BY <1>1, <2>1, <3>3, <3>4, <3>5 DEF DeskInv
  <2>4. ASSUME NEW s \in Deletes, DeleteLoad(s)
        PROVE  VerdictInv' /\ DeskInv'
    <3>1. /\ UNCHANGED <<status, counts, finished, results, pending>>
          /\ loadedRuns' = [loadedRuns EXCEPT ![s] = RunsOf(s)]
          /\ loadedRows' = [loadedRows EXCEPT ![s] = {row \in results : row.run \in RunsOf(s)}]
      BY <2>4 DEF DeleteLoad, store
    <3>2. \A d \in Deletes : \A row \in loadedRows'[d] : row.run \in loadedRuns'[d]
      BY <1>1, <3>1 DEF DeskInv, PlatformTyped, ControlTypeOK
    <3>3. \A r \in Runs : Untouched(r)' = Untouched(r)
      BY <3>1 DEF Untouched, RowsOf
    <3> QED
      BY <1>1, <1>4, <2>1, <3>1, <3>2, <3>3 DEF DeskInv
  <2>5. ASSUME NEW c \in Cancels, CancelTimeout(c) \/ \E r \in Runs : CancelLoad(c, r)
        PROVE  VerdictInv' /\ DeskInv'
    <3>1. UNCHANGED <<status, counts, finished, results, pending, loadedRuns, loadedRows>>
      BY <2>5 DEF CancelLoad, CancelTimeout, store
    <3> QED
      BY <1>1, <1>4, <2>1, <3>1 DEF DeskInv, Untouched, RowsOf
  <2>6. ASSUME NEW s \in Deletes, DeleteTimeout(s)
        PROVE  VerdictInv' /\ DeskInv'
    <3>1. /\ UNCHANGED <<status, counts, finished, results, pending>>
          /\ loadedRuns' = [loadedRuns EXCEPT ![s] = {}]
          /\ loadedRows' = [loadedRows EXCEPT ![s] = {}]
      BY <2>6 DEF DeleteTimeout, store
    <3>2. \A d \in Deletes : \A row \in loadedRows'[d] : row.run \in loadedRuns'[d]
      BY <1>1, <3>1 DEF DeskInv, PlatformTyped, ControlTypeOK
    <3>3. \A r \in Runs : Untouched(r)' = Untouched(r)
      BY <3>1 DEF Untouched, RowsOf
    <3> QED
      BY <1>1, <1>4, <2>1, <3>1, <3>2, <3>3 DEF DeskInv
  <2> QED
    BY <1>2, <1>7, <2>2, <2>3, <2>4, <2>5, <2>6 DEF ControlMove, ControlNext, PlatformVerdictInv
<1> QED
  BY <1>5, <1>6, <1>7, PlatformMoves

\* Unless a job is delivered twice, the report of a run with a verdict is its results,
\* and stays so while requests create runs, cancel them and delete their suites: a
\* cancel request that loses the race against the verdict, or wins it, does not mix
\* the counts of one outcome with the status of another.
THEOREM PlatformVerdictsMatch ==
    ASSUME Budget["redeliver"] = 0
    PROVE  PlatformSpec => []VerdictMatchesResults
<1>1. PlatformInit => PlatformVerdictInv
  BY PlatformVerdictInit
<1>2. PlatformVerdictInv => VerdictMatchesResults
  BY DEF PlatformVerdictInv, VerdictInv
<1> QED
  BY <1>1, <1>2, PlatformVerdictStep, PlatformTypedInvariant, FreshRunsInvariant, PTL
     DEF PlatformSpec
=============================================================================
