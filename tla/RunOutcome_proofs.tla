-------------------------- MODULE RunOutcome_proofs --------------------------
(***************************************************************************)
(* What a run reports: its verdict against its results, its events against *)
(* its row, and the gauge of running runs, for any number of runs, workers *)
(* and steps.                                                              *)
(***************************************************************************)
EXTENDS RunExecution_proofs, FiniteSetTheorems

-----------------------------------------------------------------------------
(* What is in the hands of the workers.  Unlike HandFits, this holds where *)
(* cancel requests and deletions interfere as well.                        *)

\* A worker that may still decide a run has not decided it, and one that has begun
\* it knows that it is not QUEUED any more.
HandsHold(w) ==
    /\ pc[w] \in {"loaded", "orphaned", "ready", "begun", "running"}
          => status[job[w]] \notin {"passed", "failed", "error"}
    /\ pc[w] \in {"begun", "running", "closing"} => status[job[w]] # "queued"

HandsInv == OneCopy /\ \A w \in Workers : HandsHold(w)

\* A step of one worker on its own run leaves the others as they were.
LEMMA OthersHold ==
    ASSUME HandsInv, NEW w \in Workers, HandsHold(w)',
           \A v \in Workers \ {w} : pc'[v] = pc[v] /\ job'[v] = job[v],
           \A r \in Runs : r # job[w] => status'[r] = status[r]
    PROVE  \A v \in Workers : HandsHold(v)'
<1> SUFFICES ASSUME NEW v \in Workers, v # w
             PROVE  HandsHold(v)'
  OBVIOUS
<1>1. HandsHold(v) /\ pc'[v] = pc[v] /\ job'[v] = job[v]
  BY DEF HandsInv
<1>2. CASE pc[v] = "idle"
  BY <1>1, <1>2 DEF HandsHold
<1>3. CASE pc[v] # "idle"
  <2>1. job[v] \in Runs
    BY <1>3, BusyJob DEF HandsInv, OneCopy
  <2>2. job[v] # job[w]
    BY <2>1, StoreAssumption DEF HandsInv, OneCopy, AtMostOneExecutor
  <2> QED
    BY <1>1, <2>1, <2>2 DEF HandsHold
<1> QED
  BY <1>2, <1>3

\* A worker that leaves has nothing to hold.
LEMMA LeaveHolds ==
    ASSUME HandsInv, NEW w \in Workers, Leave({w}),
           \A r \in Runs : r # job[w] => status'[r] = status[r]
    PROVE  \A v \in Workers : HandsHold(v)'
<1>1. HandsHold(w)'
  BY DEF Leave, HandsHold
<1>2. \A v \in Workers \ {w} : pc'[v] = pc[v] /\ job'[v] = job[v]
  BY DEF Leave
<1> QED
  BY <1>1, <1>2, OthersHold

LEMMA CloseHolds ==
    ASSUME HandsInv, NEW w \in Workers, pc[w] = "running",
           NEW st \in {"passed", "failed", "error"}, NEW cnt, Close(w, st, cnt)
    PROVE  \A v \in Workers : HandsHold(v)'
<1>0. /\ pc \in [Workers -> Phase]
      /\ status \in [Runs -> RunStatus \cup {NoRow}]
      /\ job[w] \in Runs
  BY BusyJob DEF HandsInv, OneCopy, TypeInv, TypeOK, StoreTypeOK, ExecTypeOK
<1>1. CASE RowExists(w)
  <2>1. status' = [status EXCEPT ![job[w]] = st] /\ Goto(w, "closing") /\ UNCHANGED job
    BY <1>1 DEF Close, CommitRun
  <2>2. HandsHold(w)'
    BY <1>0, <2>1 DEF Goto, HandsHold
  <2> QED
    BY <1>0, <2>1, <2>2, OthersHold DEF Goto
<1>2. CASE ~RowExists(w)
  BY <1>2, LeaveHolds DEF Close, Rollback, runRow
<1> QED
  BY <1>1, <1>2

LEMMA HandsStep == HandsInv /\ [Next]_vars => HandsInv'
<1> SUFFICES ASSUME HandsInv, [Next]_vars
             PROVE  HandsInv'
  OBVIOUS
<1> DEFINE Goal == \A v \in Workers : HandsHold(v)'
<1>0. /\ pc \in [Workers -> Phase]
      /\ job \in [Workers -> Runs \cup {NoRun}]
      /\ status \in [Runs -> RunStatus \cup {NoRow}]
      /\ \A w \in Workers : pc[w] # "idle" => job[w] \in Runs
  BY BusyJob DEF HandsInv, OneCopy, TypeInv, TypeOK, StoreTypeOK, ExecTypeOK
<1>1. ASSUME NEW w \in Workers, NEW r \in Runs, Take(w, r)
      PROVE  Goal
  <2>1. UNCHANGED status /\ pc[w] = "idle"
    BY <1>1 DEF Take, runRow
  <2>2. HandsHold(w)'
    BY <1>0, <1>1, <2>1 DEF Take, Runnable, Goto, HandsHold
  <2>3. \A v \in Workers \ {w} : pc'[v] = pc[v] /\ job'[v] = job[v]
    BY <1>0, <1>1 DEF Take, Goto
  <2> QED
    BY <2>1, <2>2, <2>3, OthersHold
<1>2. ASSUME NEW w \in Workers, LoadSuite(w) \/ AnnounceStart(w) \/ Step(w)
      PROVE  Goal
  <2>1. UNCHANGED <<status, job>> /\ HandsHold(w)
    BY <1>2 DEF LoadSuite, AnnounceStart, Step, runRow, HandsInv
  <2>2. HandsHold(w)'
    BY <1>0, <1>2, <2>1 DEF LoadSuite, AnnounceStart, Step, Goto, HandsHold
  <2>3. \A v \in Workers \ {w} : pc'[v] = pc[v] /\ job'[v] = job[v]
    BY <1>0, <1>2, <2>1 DEF LoadSuite, AnnounceStart, Step, Goto
  <2> QED
    BY <2>1, <2>2, <2>3, OthersHold
<1>3. ASSUME NEW w \in Workers, MarkOrphan(w)
      PROVE  Goal
  <2>1. Leave({w}) /\ \A r \in Runs : r # job[w] => status'[r] = status[r]
    BY <1>0, <1>3 DEF MarkOrphan
  <2> QED
    BY <2>1, LeaveHolds
<1>4. ASSUME NEW w \in Workers, Start(w)
      PROVE  Goal
  <2>1. CASE Leave({w}) /\ UNCHANGED status
    BY <2>1, LeaveHolds
  <2>2. CASE Goto(w, "begun") /\ UNCHANGED job /\ status' = [status EXCEPT ![job[w]] = "running"]
    <3>1. HandsHold(w)'
      BY <1>0, <1>4, <2>2 DEF Start, Goto, HandsHold
    <3> QED
      BY <1>0, <2>2, <3>1, OthersHold DEF Goto
  <2> QED
    BY <1>4, <2>1, <2>2 DEF Start
<1>5. ASSUME NEW w \in Workers, Finish(w)
      PROVE  Goal
  <2>1. Verdict(tally[w]) \in {"passed", "failed", "error"}
    BY DEF Verdict
  <2> QED
    BY <1>5, <2>1, CloseHolds DEF Finish
<1>6. ASSUME NEW w \in Workers, Raise(w)
      PROVE  Goal
  BY <1>6, CloseHolds DEF Raise
<1>7. ASSUME NEW w \in Workers,
             RejectStep(w) \/ AnnounceFinish(w) \/ DbFailure(w) \/ CrashArqWorker(w)
      PROVE  Goal
  BY <1>7, LeaveHolds DEF RejectStep, AnnounceFinish, DbFailure, CrashArqWorker, Crash,
                          Rollback, runRow
<1>8. ASSUME NEW w \in Workers, Interrupt(w)
      PROVE  Goal
  <2>1. PICK fault \in {"shutdown", "timeout"} :
          \/ InterruptOutside(w, fault)
          \/ InterruptInside(w, fault)
          \/ InterruptFlush(w, fault)
    BY <1>8 DEF Interrupt
  <2>2. Leave({w}) /\ \A r \in Runs : r # job[w] => status'[r] = status[r]
    BY <1>0, <2>1 DEF InterruptOutside, InterruptInside, InterruptFlush, CommitRun,
                      Rollback, runRow
  <2> QED
    BY <2>2, LeaveHolds
<1>9. ASSUME CrashApi
      PROVE  Goal
  BY <1>9 DEF CrashApi, Crash, Leave, HandsHold
<1>10. ASSUME UNCHANGED <<status, pc, job>>
       PROVE  Goal
  BY <1>10 DEF HandsInv, HandsHold
<1>11. ASSUME NEW r \in Runs, Redeliver(r)
       PROVE  Goal
  BY <1>10, <1>11 DEF Redeliver, worker, runRow
<1>12. ASSUME UNCHANGED vars
       PROVE  Goal
  <2>1. UNCHANGED <<status, pc, job>>
    BY <1>12 DEF vars, store, execVars
  <2> QED
    BY <1>10, <2>1
<1>13. Goal
  <2> HIDE DEF Goal
  <2>1. ASSUME NEW w \in Workers, Progress(w)
        PROVE  Goal
    BY <1>1, <1>2, <1>3, <1>4, <1>5, <1>7, <2>1 DEF Progress
  <2>2. ASSUME Fault
        PROVE  Goal
    BY <1>6, <1>7, <1>8, <1>9, <1>11, <2>2 DEF Fault
  <2> QED
    BY <1>12, <2>1, <2>2 DEF Next, ExecNext
<1>14. OneCopy'
  BY OneCopyStep DEF HandsInv
<1> QED
  BY <1>13, <1>14 DEF HandsInv

-----------------------------------------------------------------------------
(* The verdict.  A run that has not ended has no results and no counts,    *)
(* and the locals of the worker that executes it are a ledger of the rows  *)
(* it has flushed; the final commit turns the one into the other.          *)

\* The worker is between its first read of the run and its final commit.
Engaged(w) == pc[w] \notin {"idle", "closing"}

Untouched(r) == RowsOf(r) = {} /\ counts[r] = ZeroTally

\* n rows, of the steps 1 to n, with the outcomes that t counts.
Balanced(rows, n, t) ==
    /\ IsFiniteSet(rows)
    /\ Cardinality(rows) = n
    /\ {row.step : row \in rows} = 1 .. n
    /\ \A o \in Outcome : Cardinality({row \in rows : row.outcome = o}) = t[o]

Ledger(w) == Balanced(PendingBy(w), step[w], tally[w])

VerdictInv ==
    /\ HandsInv
    /\ ResultsInv
    /\ \A r \in Runs : status[r] = "queued" => Untouched(r)
    /\ \A w \in Workers : Engaged(w) => Untouched(job[w])
    /\ \A w \in Workers : pc[w] # "closing" => Ledger(w)
    /\ VerdictMatchesResults

-----------------------------------------------------------------------------
(* What a step does to a worker and to the tables is one of three moves.   *)

Frozen(w) == /\ pc'[w] = pc[w] /\ job'[w] = job[w]
             /\ step'[w] = step[w] /\ tally'[w] = tally[w]

\* The statuses a run without a verdict can get while a worker is in its call.
Undecided == {"running", "error", "cancelled"}

\* The final commit of a call: its verdict, or a status that is none.
Commit ==
    \E w \in Workers :
        /\ pc[w] = "running"
        /\ pc'[w] \in {"closing", "idle"}
        /\ pc'[w] = "idle" => step'[w] = 0 /\ tally'[w] = ZeroTally
        /\ \/ CommitRun(w, Verdict(tally[w]), Written(counts[job[w]], tally[w]))
           \/ \E st \in Undecided, cnt \in Tally : CommitRun(w, st, cnt)
        /\ \A v \in Workers \ {w} : Frozen(v)

\* Nothing becomes visible but a status without a verdict: a worker stays in its
\* call, is out of it with nothing left behind, or has read a queued run.
Kept(w) ==
    /\ job'[w] = job[w] /\ step'[w] = step[w] /\ tally'[w] = tally[w]
    /\ PendingBy(w)' = PendingBy(w)
    /\ pc'[w] = pc[w] \/ (Engaged(w) /\ pc'[w] \notin {"idle", "closing"})
Gone(w) ==
    /\ pc'[w] = "idle" /\ step'[w] = 0 /\ tally'[w] = ZeroTally
    /\ PendingBy(w)' = {}
Taken(w) ==
    /\ pc[w] = "idle" /\ pc'[w] = "loaded"
    /\ job'[w] \in Runs /\ status[job'[w]] = "queued"
    /\ step'[w] = step[w] /\ tally'[w] = tally[w]
    /\ PendingBy(w)' = PendingBy(w)

Quiet ==
    /\ UNCHANGED <<counts, finished, results>>
    /\ \A r \in Runs : status'[r] = status[r] \/ status'[r] \in Undecided \cup {NoRow}
    /\ \A w \in Workers : Kept(w) \/ Gone(w) \/ Taken(w)

\* The shapes that the proofs below take from the type invariant.
LEMMA Shapes ==
    ASSUME VerdictInv
    PROVE  /\ pc \in [Workers -> Phase]
           /\ job \in [Workers -> Runs \cup {NoRun}]
           /\ step \in [Workers -> 0 .. MaxSteps]
           /\ tally \in [Workers -> Tally]
           /\ status \in [Runs -> RunStatus \cup {NoRow}]
           /\ counts \in [Runs -> Tally]
           /\ finished \in [Runs -> BOOLEAN]
           /\ results \subseteq StepRow
           /\ pending \subseteq StepRow
           /\ \A w \in Workers : pc[w] # "idle" => job[w] \in Runs
<1>1. TypeInv
  BY DEF VerdictInv, ResultsInv
<1>2. \A w \in Workers : pc[w] # "idle" => job[w] \in Runs
  BY <1>1, BusyJob
<1> QED
  BY <1>1, <1>2 DEF TypeInv, TypeOK, StoreTypeOK, ExecTypeOK

\* A worker outside its loop has flushed nothing.
LEMMA NoRowsOutside ==
    ASSUME VerdictInv, NEW w \in Workers, pc[w] # "running"
    PROVE  PendingBy(w) = {}
BY DEF VerdictInv, ResultsInv, PendingHeld, PendingBy

\* A call that is left behind is gone; its rows do not concern the others.
LEMMA LeaveIsQuiet ==
    ASSUME VerdictInv, NEW w \in Workers, Leave({w}),
           pending' = pending \ PendingBy(w)
    PROVE  \A v \in Workers : Kept(v) \/ Gone(v)
<1>1. Gone(w)
  BY DEF Leave, Gone, PendingBy
<1>2. ASSUME NEW v \in Workers, v # w
      PROVE  Kept(v)
  <2>1. PendingBy(v)' = PendingBy(v)
    BY <1>2 DEF PendingBy
  <2> QED
    BY <1>2, <2>1 DEF Leave, Kept
<1> QED
  BY <1>1, <1>2

\* So is one that is left outside the loop, where there are no rows to roll back.
LEMMA LeaveOutside ==
    ASSUME VerdictInv, NEW w \in Workers, pc[w] # "running", Leave({w}),
           UNCHANGED pending
    PROVE  \A v \in Workers : Kept(v) \/ Gone(v)
<1>1. pending' = pending \ PendingBy(w)
  BY NoRowsOutside
<1> QED
  BY <1>1, LeaveIsQuiet

\* A worker that goes on in its call, with nothing written.
LEMMA GoesOnQuietly ==
    ASSUME VerdictInv, NEW w \in Workers, Engaged(w), UNCHANGED <<job, step, tally, pending>>,
           NEW phase \in Phase \ {"idle", "closing"}, Goto(w, phase)
    PROVE  \A v \in Workers : Kept(v)
<1>1. \A v \in Workers : PendingBy(v)' = PendingBy(v)
  BY DEF PendingBy
<1>2. pc \in [Workers -> Phase]
  BY Shapes
<1> QED
  BY <1>1, <1>2 DEF Kept, Goto

LEMMA CloseMoves ==
    ASSUME VerdictInv, NEW w \in Workers, pc[w] = "running", NEW st, NEW cnt,
           Close(w, st, cnt),
           \/ st = Verdict(tally[w]) /\ cnt = Written(counts[job[w]], tally[w])
           \/ st = "error" /\ cnt \in Tally
    PROVE  Commit \/ Quiet
<1>1. CASE RowExists(w)
  <2>1. CommitRun(w, st, cnt) /\ Goto(w, "closing") /\ UNCHANGED <<job, step, tally>>
    BY <1>1 DEF Close
  <2>2. pc'[w] = "closing" /\ \A v \in Workers \ {w} : Frozen(v)
    BY <2>1, Shapes DEF Goto, Frozen
  <2>3. \/ CommitRun(w, Verdict(tally[w]), Written(counts[job[w]], tally[w]))
        \/ \E s \in Undecided, c \in Tally : CommitRun(w, s, c)
    BY <2>1 DEF Undecided
  <2> QED
    BY <2>2, <2>3 DEF Commit
<1>2. CASE ~RowExists(w)
  <2>1. Leave({w}) /\ pending' = pending \ PendingBy(w)
        /\ UNCHANGED <<status, counts, finished, results>>
    BY <1>2 DEF Close, Rollback, runRow
  <2> QED
    BY <2>1, LeaveIsQuiet DEF Quiet
<1> QED
  BY <1>1, <1>2

LEMMA ProgressMoves ==
    ASSUME VerdictInv, NEW w \in Workers, Progress(w)
    PROVE  Commit \/ Step(w) \/ Quiet
<1>1. ASSUME NEW r \in Runs, Take(w, r)
      PROVE  Quiet
  <2>1. UNCHANGED <<status, counts, finished, results, pending, step, tally>>
    BY <1>1 DEF Take, runRow, locals
  <2>2. \A v \in Workers : PendingBy(v)' = PendingBy(v)
    BY <2>1 DEF PendingBy
  <2>3. pc[w] = "idle"
    BY <1>1 DEF Take
  <2>4. \A v \in Workers \ {w} : Kept(v)
    BY <1>1, <2>1, <2>2, Shapes DEF Take, Goto, Kept
  <2>5. Kept(w) \/ Taken(w)
    BY <1>1, <2>1, <2>2, <2>3, Shapes DEF Take, Goto, Runnable, Kept, Taken
  <2> QED
    BY <2>1, <2>4, <2>5 DEF Quiet
<1>2. CASE LoadSuite(w)
  <2>1. UNCHANGED <<status, counts, finished, results, pending, job, step, tally>>
        /\ Engaged(w) /\ (Goto(w, "ready") \/ Goto(w, "orphaned"))
    BY <1>2 DEF LoadSuite, runRow, Engaged
  <2>2. \A v \in Workers : Kept(v)
    BY <2>1, GoesOnQuietly DEF Phase
  <2> QED
    BY <2>1, <2>2 DEF Quiet
<1>3. CASE MarkOrphan(w)
  <2>1. pc[w] # "running" /\ Leave({w}) /\ UNCHANGED <<counts, finished, results, pending>>
    BY <1>3 DEF MarkOrphan
  <2>2. \A r \in Runs : status'[r] = status[r] \/ status'[r] \in {"error", NoRow}
    BY <1>3, Shapes DEF MarkOrphan
  <2> QED
    BY <2>1, <2>2, LeaveOutside DEF Quiet, Undecided
<1>4. CASE Start(w)
  <2>1. UNCHANGED <<counts, finished, results, pending>> /\ pc[w] = "ready"
    BY <1>4 DEF Start
  <2>2. \A r \in Runs : status'[r] = status[r] \/ status'[r] = "running"
    BY <1>4, Shapes DEF Start
  <2>3. \A v \in Workers : Kept(v) \/ Gone(v)
    <3>1. CASE Goto(w, "begun") /\ UNCHANGED <<job, step, tally>>
      <4>1. Engaged(w)
        BY <2>1 DEF Engaged
      <4> QED
        BY <2>1, <3>1, <4>1, GoesOnQuietly DEF Phase
    <3>2. CASE Leave({w})
      BY <2>1, <3>2, LeaveOutside
    <3> QED
      BY <1>4, <3>1, <3>2 DEF Start
  <2> QED
    BY <2>1, <2>2, <2>3 DEF Quiet, Undecided
<1>5. CASE AnnounceStart(w)
  <2>1. UNCHANGED <<status, counts, finished, results, pending, job, step, tally>>
        /\ Engaged(w) /\ Goto(w, "running")
    BY <1>5 DEF AnnounceStart, runRow, locals, Engaged
  <2>2. \A v \in Workers : Kept(v)
    BY <2>1, GoesOnQuietly DEF Phase
  <2> QED
    BY <2>1, <2>2 DEF Quiet
<1>6. CASE RejectStep(w)
  <2>1. Leave({w}) /\ pending' = pending \ PendingBy(w)
        /\ UNCHANGED <<status, counts, finished, results>>
    BY <1>6 DEF RejectStep, Rollback, runRow
  <2> QED
    BY <2>1, LeaveIsQuiet DEF Quiet
<1>7. CASE Finish(w)
  BY <1>7, CloseMoves DEF Finish
<1>8. CASE AnnounceFinish(w)
  <2>1. pc[w] # "running" /\ Leave({w})
        /\ UNCHANGED <<status, counts, finished, results, pending>>
    BY <1>8 DEF AnnounceFinish, runRow
  <2> QED
    BY <2>1, LeaveOutside DEF Quiet
<1> QED
  BY <1>1, <1>2, <1>3, <1>4, <1>5, <1>6, <1>7, <1>8 DEF Progress

LEMMA FaultMoves ==
    ASSUME VerdictInv, Fault
    PROVE  Commit \/ Quiet
<1>1. ASSUME NEW w \in Workers, Raise(w)
      PROVE  Commit \/ Quiet
  <2>1. counts[job[w]] \in Tally
    BY <1>1, Shapes DEF Raise
  <2> QED
    BY <1>1, <2>1, CloseMoves DEF Raise
<1>2. ASSUME NEW w \in Workers, DbFailure(w)
      PROVE  Quiet
  <2>1. Leave({w}) /\ pending' = pending \ PendingBy(w)
        /\ UNCHANGED <<status, counts, finished, results>>
    BY <1>2 DEF DbFailure, Rollback, runRow
  <2> QED
    BY <2>1, LeaveIsQuiet DEF Quiet
<1>3. ASSUME NEW w \in Workers, NEW fault, InterruptOutside(w, fault)
      PROVE  Quiet
  <2>1. pc[w] # "running" /\ Leave({w})
        /\ UNCHANGED <<status, counts, finished, results, pending>>
    BY <1>3 DEF InterruptOutside, runRow
  <2> QED
    BY <2>1, LeaveOutside DEF Quiet
<1>4. ASSUME NEW w \in Workers, NEW fault, InterruptInside(w, fault)
      PROVE  Commit
  <2>1. pc[w] = "running" /\ Leave({w}) /\ CommitRun(w, status[job[w]], counts[job[w]])
    BY <1>4 DEF InterruptInside
  <2>2. status[job[w]] \in Undecided /\ counts[job[w]] \in Tally
    <3>1. status[job[w]] \notin {"passed", "failed", "error", "queued", NoRow}
      BY <1>4, <2>1 DEF InterruptInside, RowExists, VerdictInv, HandsInv, HandsHold
    <3> QED
      BY <2>1, <3>1, Shapes DEF RunStatus, Undecided
  <2>3. /\ pc'[w] = "idle" /\ step'[w] = 0 /\ tally'[w] = ZeroTally
        /\ \A v \in Workers \ {w} : Frozen(v)
    BY <2>1 DEF Leave, Frozen
  <2> QED
    BY <2>1, <2>2, <2>3 DEF Commit
<1>5. ASSUME NEW w \in Workers, NEW fault, InterruptFlush(w, fault)
      PROVE  Quiet
  <2>1. Leave({w}) /\ pending' = pending \ PendingBy(w)
        /\ UNCHANGED <<status, counts, finished, results>>
    BY <1>5 DEF InterruptFlush, Rollback, runRow
  <2> QED
    BY <2>1, LeaveIsQuiet DEF Quiet
<1>6. ASSUME NEW w \in Workers, Interrupt(w)
      PROVE  Commit \/ Quiet
  BY <1>3, <1>4, <1>5, <1>6 DEF Interrupt
<1>7. ASSUME NEW ws \in SUBSET Workers, Crash(ws)
      PROVE  Quiet
  <2>1. UNCHANGED <<status, counts, finished, results>>
    BY <1>7 DEF Crash, runRow
  <2>2. ASSUME NEW v \in ws
        PROVE  Gone(v)
    BY <1>7, <2>2 DEF Crash, Leave, Gone, PendingBy
  <2>3. ASSUME NEW v \in Workers \ ws
        PROVE  Kept(v)
    <3>1. PendingBy(v)' = PendingBy(v)
      BY <1>7, <2>3 DEF Crash, PendingBy
    <3> QED
      BY <1>7, <2>3, <3>1 DEF Crash, Leave, Kept
  <2> QED
    BY <1>7, <2>1, <2>2, <2>3 DEF Quiet
<1>8. ASSUME NEW r \in Runs, Redeliver(r)
      PROVE  Quiet
  <2>1. UNCHANGED <<status, counts, finished, results, pending, pc, job, step, tally>>
    BY <1>8 DEF Redeliver, runRow, worker
  <2>2. \A v \in Workers : Kept(v)
    BY <2>1 DEF Kept, PendingBy
  <2> QED
    BY <2>1, <2>2 DEF Quiet
<1>9. ASSUME NEW w \in Workers, CrashArqWorker(w)
      PROVE  Quiet
  BY <1>7, <1>9 DEF CrashArqWorker
<1>10. ASSUME CrashApi
       PROVE  Quiet
  BY <1>7, <1>10 DEF CrashApi
<1> QED
  BY <1>1, <1>2, <1>6, <1>8, <1>9, <1>10 DEF Fault

-----------------------------------------------------------------------------
\* The part of the invariant that the moves have to keep.
Books ==
    /\ \A r \in Runs : status[r] = "queued" => Untouched(r)
    /\ \A w \in Workers : Engaged(w) => Untouched(job[w])
    /\ \A w \in Workers : pc[w] # "closing" => Ledger(w)
    /\ VerdictMatchesResults

\* Nothing has been flushed.
LEMMA NothingIsBalanced == Balanced({}, 0, ZeroTally)
<1>1. IsFiniteSet({}) /\ Cardinality({}) = 0
  BY FS_EmptySet
<1>2. \A o \in Outcome : {row \in {} : row.outcome = o} = {}
  OBVIOUS
<1>3. {row.step : row \in {}} = {} /\ 1 .. 0 = {}
  OBVIOUS
<1>4. \A o \in Outcome : ZeroTally[o] = 0
  BY DEF ZeroTally
<1> QED
  BY <1>1, <1>2, <1>3, <1>4 DEF Balanced

\* One more step is flushed and counted.
LEMMA StepIsBalanced ==
    ASSUME NEW rows, NEW n \in Nat, NEW t \in Tally, Balanced(rows, n, t),
           NEW o \in Outcome, NEW new, new.step = n + 1, new.outcome = o
    PROVE  Balanced(rows \cup {new}, n + 1, [t EXCEPT ![o] = @ + 1])
<1> DEFINE all == rows \cup {new}
           Of(set, p) == {row \in set : row.outcome = p}
<1>1. new \notin rows
  <2>1. n + 1 \notin {row.step : row \in rows}
    BY DEF Balanced
  <2> QED
    BY <2>1
<1>2. IsFiniteSet(all) /\ Cardinality(all) = n + 1
  BY <1>1, FS_AddElement DEF Balanced
<1>3. {row.step : row \in all} = 1 .. n + 1
  <2>1. {row.step : row \in all} = {row.step : row \in rows} \cup {n + 1}
    OBVIOUS
  <2>2. (1 .. n) \cup {n + 1} = 1 .. n + 1
    OBVIOUS
  <2> QED
    BY <2>1, <2>2 DEF Balanced
<1>4. ASSUME NEW p \in Outcome
      PROVE  Cardinality(Of(all, p)) = [t EXCEPT ![o] = @ + 1][p]
  <2>1. IsFiniteSet(Of(rows, p)) /\ Cardinality(Of(rows, p)) = t[p]
    BY FS_Subset DEF Balanced
  <2>2. CASE p = o
    <3>1. Of(all, p) = Of(rows, p) \cup {new} /\ new \notin Of(rows, p)
      BY <1>1, <2>2
    <3>2. \A set : IsFiniteSet(set) /\ new \notin set
                   => Cardinality(set \cup {new}) = Cardinality(set) + 1
      BY FS_AddElement
    <3> HIDE DEF all, Of
    <3>3. Cardinality(Of(all, p)) = Cardinality(Of(rows, p)) + 1
      BY <2>1, <3>1, <3>2
    <3>4. Cardinality(Of(all, p)) = t[p] + 1
      BY <2>1, <3>3
    <3> QED
      BY <2>2, <3>4 DEF Tally
  <2>3. CASE p # o
    <3>1. Of(all, p) = Of(rows, p)
      BY <2>3
    <3> QED
      BY <2>1, <2>3, <3>1 DEF Tally
  <2> QED
    BY <2>2, <2>3
<1> QED
  BY <1>2, <1>3, <1>4 DEF Balanced

LEMMA QuietKeepsBooks ==
    ASSUME VerdictInv, Quiet
    PROVE  Books'
<1>1. \A r \in Runs : Untouched(r) => Untouched(r)'
  BY DEF Quiet, Untouched, RowsOf
<1>2. ASSUME NEW r \in Runs, status'[r] = "queued"
      PROVE  Untouched(r)'
  BY <1>1, <1>2 DEF Quiet, Undecided, VerdictInv, NoRow
<1>3. ASSUME NEW w \in Workers, Engaged(w)'
      PROVE  Untouched(job[w])'
  <2>1. ~Gone(w)
    BY <1>3 DEF Gone, Engaged
  <2>2. CASE Kept(w)
    <3>1. Engaged(w) /\ job'[w] = job[w]
      BY <1>3, <2>2 DEF Kept, Engaged
    <3>2. job[w] \in Runs /\ Untouched(job[w])
      BY <3>1, Shapes DEF VerdictInv, Engaged
    <3> QED
      BY <1>1, <3>1, <3>2
  <2>3. CASE Taken(w)
    <3>1. job'[w] \in Runs /\ Untouched(job'[w])
      BY <2>3 DEF Taken, VerdictInv
    <3> QED
      BY <3>1 DEF Quiet, Untouched, RowsOf
  <2> QED
    BY <2>1, <2>2, <2>3 DEF Quiet
<1>4. ASSUME NEW w \in Workers, pc'[w] # "closing"
      PROVE  Ledger(w)'
  <2>1. CASE Kept(w) \/ Taken(w)
    <3>1. pc[w] # "closing"
      BY <1>4, <2>1 DEF Kept, Taken, Engaged
    <3>2. Ledger(w)
      BY <3>1 DEF VerdictInv
    <3>3. PendingBy(w)' = PendingBy(w) /\ step'[w] = step[w] /\ tally'[w] = tally[w]
      BY <2>1 DEF Kept, Taken
    <3> QED
      BY <3>2, <3>3 DEF Ledger
  <2>2. CASE Gone(w)
    BY <2>2, NothingIsBalanced DEF Gone, Ledger
  <2> QED
    BY <2>1, <2>2 DEF Quiet
<1>5. VerdictMatchesResults'
  <2> SUFFICES ASSUME NEW r \in Runs, status'[r] \in {"passed", "failed"}
               PROVE  /\ finished'[r]
                      /\ {row.step : row \in RowsOf(r)'} = 1 .. Cardinality(RowsOf(r)')
                      /\ \A o \in Outcome : counts'[r][o] =
                            Cardinality({row \in RowsOf(r)' : row.outcome = o})
                      /\ (status'[r] = "passed") <=> (counts'[r]["failed"] = 0)
    BY DEF VerdictMatchesResults
  <2>1. status'[r] = status[r] /\ RowsOf(r)' = RowsOf(r)
    BY DEF Quiet, Undecided, RowsOf, NoRow
  <2> QED
    BY <2>1 DEF Quiet, VerdictInv, VerdictMatchesResults
<1> QED
  BY <1>2, <1>3, <1>4, <1>5 DEF Books

\* A step adds a row that is the worker's own, of its run.
LEMMA StepKeepsBooks ==
    ASSUME VerdictInv, NEW w \in Workers, Step(w)
    PROVE  Books'
<1>1. UNCHANGED <<status, counts, finished, results, pc, job>> /\ pc[w] = "running"
  BY DEF Step, runRow
<1>2. PICK o \in Outcome :
        /\ tally' = [tally EXCEPT ![w][o] = @ + 1]
        /\ pending' = pending \cup
             {[run |-> job[w], by |-> w, step |-> step[w] + 1, outcome |-> o]}
  BY DEF Step
<1>3. step' = [step EXCEPT ![w] = @ + 1]
  BY DEF Step
<1>4. Ledger(w)'
  <2> DEFINE new == [run |-> job[w], by |-> w, step |-> step[w] + 1, outcome |-> o]
  <2>1. PendingBy(w)' = PendingBy(w) \cup {new}
    BY <1>2 DEF PendingBy
  <2>2. step[w] \in Nat /\ tally[w] \in Tally /\ step'[w] = step[w] + 1
        /\ tally'[w] = [tally[w] EXCEPT ![o] = @ + 1]
    BY <1>2, <1>3, Shapes
  <2>3. Balanced(PendingBy(w), step[w], tally[w])
    BY <1>1 DEF VerdictInv, Ledger
  <2>4. new.step = step[w] + 1 /\ new.outcome = o
    OBVIOUS
  <2>5. Balanced(PendingBy(w) \cup {new}, step[w] + 1, [tally[w] EXCEPT ![o] = @ + 1])
    BY <2>2, <2>3, <2>4, StepIsBalanced
  <2> QED
    BY <2>1, <2>2, <2>5 DEF Ledger
<1>5. ASSUME NEW v \in Workers, v # w, pc[v] # "closing"
      PROVE  Ledger(v)'
  <2>1. PendingBy(v)' = PendingBy(v)
    BY <1>2, <1>5 DEF PendingBy
  <2>2. step'[v] = step[v] /\ tally'[v] = tally[v]
    BY <1>2, <1>3, <1>5, Shapes
  <2> QED
    BY <1>5, <2>1, <2>2 DEF VerdictInv, Ledger
<1>6. \A r \in Runs : status'[r] = "queued" => Untouched(r)'
  BY <1>1 DEF VerdictInv, Untouched, RowsOf
<1>7. \A v \in Workers : Engaged(v)' => Untouched(job[v])'
  BY <1>1 DEF VerdictInv, Untouched, RowsOf, Engaged
<1>8. VerdictMatchesResults'
  BY <1>1 DEF VerdictInv, VerdictMatchesResults, RowsOf
<1> QED
  BY <1>1, <1>4, <1>5, <1>6, <1>7, <1>8 DEF Books

\* The final commit turns the ledger of the worker into the results of the run,
\* which had none, and touches no other run.
LEMMA CommitKeepsBooks ==
    ASSUME VerdictInv, Commit
    PROVE  Books'
<1>1. PICK w \in Workers :
        /\ pc[w] = "running"
        /\ pc'[w] \in {"closing", "idle"}
        /\ pc'[w] = "idle" => step'[w] = 0 /\ tally'[w] = ZeroTally
        /\ \/ CommitRun(w, Verdict(tally[w]), Written(counts[job[w]], tally[w]))
           \/ \E st \in Undecided, cnt \in Tally : CommitRun(w, st, cnt)
        /\ \A v \in Workers \ {w} : Frozen(v)
  BY DEF Commit
<1>2. PICK q \in Runs : q = job[w] /\ Untouched(q) /\ Ledger(w) /\ tally[w] \in Tally
  BY <1>1, Shapes DEF VerdictInv, Engaged
<1>3. /\ results' = results \cup PendingBy(w)
      /\ pending' = pending \ PendingBy(w)
      /\ finished' = [finished EXCEPT ![q] = TRUE]
      /\ \A r \in Runs \ {q} : status'[r] = status[r] /\ counts'[r] = counts[r]
  BY <1>1, <1>2, Shapes DEF CommitRun
<1>4. status'[q] # "queued"
  BY <1>1, <1>2, Shapes DEF CommitRun, Verdict, Undecided
<1>5. \A row \in PendingBy(w) : row.run = q
  BY <1>2 DEF VerdictInv, ResultsInv, PendingHeld, PendingBy
<1>6. RowsOf(q)' = PendingBy(w)
  BY <1>2, <1>3, <1>5 DEF RowsOf, Untouched
<1>7. \A r \in Runs \ {q} : RowsOf(r)' = RowsOf(r)
  BY <1>3, <1>5 DEF RowsOf
<1>8. ASSUME NEW r \in Runs, status'[r] = "queued"
      PROVE  Untouched(r)'
  <2>1. r # q
    BY <1>4, <1>8
  <2>2. Untouched(r)
    BY <1>3, <1>8, <2>1 DEF VerdictInv
  <2> QED
    BY <1>3, <1>7, <2>1, <2>2 DEF Untouched
<1>9. ASSUME NEW v \in Workers, Engaged(v)'
      PROVE  Untouched(job[v])'
  <2>1. v # w
    BY <1>1, <1>9 DEF Engaged
  <2>2. Engaged(v) /\ job'[v] = job[v]
    BY <1>1, <1>9, <2>1 DEF Frozen, Engaged
  <2>3. job[v] \in Runs /\ Untouched(job[v])
    BY <2>2, Shapes DEF VerdictInv, Engaged
  <2>4. job[v] # q
    BY <1>2, <2>1, <2>3, StoreAssumption DEF VerdictInv, HandsInv, OneCopy, AtMostOneExecutor
  <2> QED
    BY <1>3, <1>7, <2>2, <2>3, <2>4 DEF Untouched
<1>10. ASSUME NEW v \in Workers, pc'[v] # "closing"
       PROVE  Ledger(v)'
  <2>1. CASE v = w
    <3>1. PendingBy(w)' = {} /\ step'[w] = 0 /\ tally'[w] = ZeroTally
      BY <1>1, <1>3, <1>10, <2>1 DEF PendingBy
    <3> QED
      BY <2>1, <3>1, NothingIsBalanced DEF Ledger
  <2>2. CASE v # w
    <3>1. PendingBy(v)' = PendingBy(v)
      BY <1>3, <2>2 DEF PendingBy
    <3>2. pc[v] # "closing" /\ step'[v] = step[v] /\ tally'[v] = tally[v]
      BY <1>1, <1>10, <2>2 DEF Frozen
    <3> QED
      BY <3>1, <3>2 DEF VerdictInv, Ledger
  <2> QED
    BY <2>1, <2>2
<1>11. ASSUME NEW r \in Runs, status'[r] \in {"passed", "failed"}
       PROVE  /\ finished'[r]
              /\ {row.step : row \in RowsOf(r)'} = 1 .. Cardinality(RowsOf(r)')
              /\ \A o \in Outcome : counts'[r][o] =
                    Cardinality({row \in RowsOf(r)' : row.outcome = o})
              /\ (status'[r] = "passed") <=> (counts'[r]["failed"] = 0)
  <2>1. CASE r # q
    <3>1. status'[r] = status[r] /\ counts'[r] = counts[r] /\ finished'[r] = finished[r]
          /\ RowsOf(r)' = RowsOf(r)
      BY <1>3, <1>7, <2>1
    <3> QED
      BY <1>11, <3>1 DEF VerdictInv, VerdictMatchesResults
  <2>2. CASE r = q
    <3>1. CommitRun(w, Verdict(tally[w]), Written(counts[q], tally[w]))
      BY <1>1, <1>2, <1>11, <2>2, Shapes DEF CommitRun, Undecided
    <3>2. Written(counts[q], tally[w]) = tally[w]
      BY <1>2 DEF Untouched, Written, ZeroTally, Tally
    <3>3. counts'[r] = tally[w] /\ status'[r] = Verdict(tally[w]) /\ finished'[r]
      BY <1>2, <2>2, <3>1, <3>2, Shapes DEF CommitRun
    <3>4. Balanced(RowsOf(r)', step[w], tally[w])
      BY <1>2, <1>6, <2>2 DEF Ledger
    <3> QED
      BY <3>3, <3>4 DEF Balanced, Verdict
  <2> QED
    BY <2>1, <2>2
<1>12. VerdictMatchesResults'
  BY <1>11 DEF VerdictMatchesResults
<1> QED
  BY <1>8, <1>9, <1>10, <1>12 DEF Books

LEMMA VerdictStep == VerdictInv /\ [Next]_vars => VerdictInv'
<1> SUFFICES ASSUME VerdictInv, [Next]_vars
             PROVE  VerdictInv'
  OBVIOUS
<1>1. HandsInv' /\ ResultsInv'
  BY HandsStep, TypeStep, ResultsStep DEF VerdictInv, ResultsInv
<1>2. CASE UNCHANGED vars
  <2>1. Quiet
    BY <1>2 DEF vars, store, execVars, Quiet, Kept, PendingBy
  <2> QED
    BY <1>1, <2>1, QuietKeepsBooks DEF VerdictInv, Books
<1>3. CASE Next
  <2>1. Commit \/ Quiet \/ \E w \in Workers : Step(w)
    BY <1>3, ProgressMoves, FaultMoves DEF Next, ExecNext
  <2>2. Books'
    BY <2>1, CommitKeepsBooks, QuietKeepsBooks, StepKeepsBooks
  <2> QED
    BY <1>1, <2>2 DEF VerdictInv, Books
<1> QED
  BY <1>2, <1>3

LEMMA VerdictInit == Budget["redeliver"] = 0 /\ Init => VerdictInv
<1> SUFFICES ASSUME Budget["redeliver"] = 0, Init
             PROVE  VerdictInv
  OBVIOUS
<1>1. OneCopy /\ TypeInv
  BY OneCopyInit, TypeInit
<1>2. /\ results = {} /\ pending = {}
      /\ \A r \in Runs : counts[r] = ZeroTally /\ status[r] = "queued"
      /\ \A w \in Workers : pc[w] = "idle" /\ step[w] = 0 /\ tally[w] = ZeroTally
  BY DEF Init, StoreInit, ExecInit
<1>3. ResultsInv
  BY <1>1, <1>2 DEF ResultsInv, PendingHeld, ResultsAppearAtFinish, RowsOf
<1>4. \A w \in Workers : Ledger(w)
  <2>1. \A w \in Workers : PendingBy(w) = {}
    BY <1>2 DEF PendingBy
  <2> QED
    BY <1>2, <2>1, NothingIsBalanced DEF Ledger
<1>5. \A r \in Runs : Untouched(r)
  BY <1>2 DEF Untouched, RowsOf
<1>6. VerdictMatchesResults
  BY <1>2 DEF VerdictMatchesResults
<1>7. HandsInv
  BY <1>1, <1>2 DEF HandsInv, HandsHold
<1> QED
  BY <1>2, <1>3, <1>4, <1>5, <1>6, <1>7 DEF VerdictInv, Engaged

\* Unless a job is delivered twice, a run that reports a verdict has one result for
\* each step, counts that count them, finished_at, and is PASSED exactly when none
\* failed: through all crashes, shutdowns, timeouts, failures and raising steps,
\* and for suites of any length, the empty one included.
THEOREM VerdictsMatch ==
    ASSUME Budget["redeliver"] = 0
    PROVE  Spec => []VerdictMatchesResults
<1>1. Init => VerdictInv
  BY VerdictInit
<1>2. VerdictInv => VerdictMatchesResults
  BY DEF VerdictInv
<1> QED
  BY <1>1, <1>2, VerdictStep, PTL DEF Spec

-----------------------------------------------------------------------------
(* The events.  While a worker holds a run nobody else publishes for it:   *)
(* nothing before RUNNING, then run.started and the steps, and the verdict *)
(* once it is committed and nobody will change it any more.                *)

\* Begun and not ended.
Opened(s) ==
    s # << >> /\ \A i \in DOMAIN s : s[i] = IF i = 1 THEN Started ELSE Completed

\* EventsFollowTheRun of one run, whose row has that status and finished_at.
Follows(s, st, fin) ==
    \A i \in DOMAIN s :
        /\ (s[i] = Started) <=> (i = 1)
        /\ s[i].event = "run.finished" => i = Len(s) /\ fin /\ s[i].status = st

FeedFits(w) ==
    /\ pc[w] \in {"loaded", "orphaned", "ready", "begun"} => events[job[w]] = << >>
    /\ pc[w] \in {"running", "closing"} => Opened(events[job[w]])
    /\ Executing(w) => mem[w] = "running"
    /\ pc[w] = "closing" => mem[w] = status[job[w]] /\ finished[job[w]]

FeedInv ==
    /\ StatusInv
    /\ \A w \in Workers : FeedFits(w)
    /\ \A r \in Runs : status[r] = "queued" => events[r] = << >>
    /\ \A r \in Runs : Follows(events[r], status[r], finished[r])

LEMMA EventKinds ==
    /\ Started.event = "run.started" /\ Completed.event = "step.completed"
    /\ Started # Completed
    /\ \A st : /\ Finished(st).event = "run.finished" /\ Finished(st).status = st
               /\ Finished(st) # Started
<1>1. Started.event = "run.started" /\ Completed.event = "step.completed"
  BY DEF Started, Completed
<1>2. \A st : Finished(st).event = "run.finished" /\ Finished(st).status = st
  BY DEF Finished
<1> QED
  BY <1>1, <1>2

LEMMA NoEventsFollow == ASSUME NEW st, NEW fin PROVE Follows(<< >>, st, fin)
BY DEF Follows

LEMMA OpenedFollow ==
    ASSUME NEW s \in Seq(Event), Opened(s), NEW st, NEW fin
    PROVE  Follows(s, st, fin)
BY EventKinds DEF Opened, Follows

LEMMA StartOpens == Opened(Append(<< >>, Started))
BY DEF Opened

LEMMA StepKeepsOpen ==
    ASSUME NEW s \in Seq(Event), Opened(s)
    PROVE  Opened(Append(s, Completed))
<1>1. Len(s) \in Nat /\ Len(s) >= 1 /\ DOMAIN s = 1 .. Len(s)
  BY DEF Opened
<1>2. \A i \in 1 .. Len(s) : Append(s, Completed)[i] = s[i]
  OBVIOUS
<1>3. Append(s, Completed)[Len(s) + 1] = Completed
      /\ DOMAIN Append(s, Completed) = 1 .. Len(s) + 1
  BY EventType
<1> QED
  BY <1>1, <1>2, <1>3 DEF Opened

LEMMA VerdictFollows ==
    ASSUME NEW s \in Seq(Event), Opened(s), NEW st \in RunStatus
    PROVE  Follows(Append(s, Finished(st)), st, TRUE)
<1>1. Len(s) \in Nat /\ Len(s) >= 1 /\ DOMAIN s = 1 .. Len(s)
  BY DEF Opened
<1>2. \A i \in 1 .. Len(s) : Append(s, Finished(st))[i] = s[i]
  OBVIOUS
<1>3. /\ Append(s, Finished(st))[Len(s) + 1] = Finished(st)
      /\ DOMAIN Append(s, Finished(st)) = 1 .. Len(s) + 1
      /\ Len(Append(s, Finished(st))) = Len(s) + 1
  BY EventType
<1> QED
  BY <1>1, <1>2, <1>3, EventKinds DEF Opened, Follows

LEMMA FeedShapes ==
    ASSUME FeedInv
    PROVE  /\ TypeInv
           /\ pc \in [Workers -> Phase]
           /\ job \in [Workers -> Runs \cup {NoRun}]
           /\ mem \in [Workers -> RunStatus]
           /\ status \in [Runs -> RunStatus \cup {NoRow}]
           /\ finished \in [Runs -> BOOLEAN]
           /\ events \in [Runs -> Seq(Event)]
           /\ \A w \in Workers : pc[w] # "idle" => job[w] \in Runs
<1>1. TypeInv
  BY DEF FeedInv, StatusInv, OneCopy
<1> QED
  BY <1>1, BusyJob DEF TypeInv, TypeOK, StoreTypeOK, ExecTypeOK

\* What the moves have to keep.
FeedKept ==
    /\ \A w \in Workers : FeedFits(w)
    /\ \A r \in Runs : status[r] = "queued" => events[r] = << >>
    /\ \A r \in Runs : Follows(events[r], status[r], finished[r])

Rests(w) == pc'[w] = pc[w] /\ job'[w] = job[w] /\ mem'[w] = mem[w]

\* A step that publishes and writes nothing, of workers that rest or still fit.
LEMMA SilentStep ==
    ASSUME FeedInv, UNCHANGED <<status, finished, events>>,
           \A w \in Workers : Rests(w) \/ FeedFits(w)'
    PROVE  FeedKept'
<1>1. ASSUME NEW w \in Workers, Rests(w)
      PROVE  FeedFits(w)'
  BY <1>1 DEF FeedInv, FeedFits, Rests, Executing
<1> QED
  BY <1>1 DEF FeedInv, FeedKept

\* A worker that leaves its call has nothing to fit.
LEMMA SilentLeave ==
    ASSUME FeedInv, NEW ws \in SUBSET Workers, Leave(ws), UNCHANGED <<status, finished, events>>
    PROVE  FeedKept'
<1>1. ASSUME NEW w \in Workers
      PROVE  Rests(w) \/ FeedFits(w)'
  BY DEF Leave, Rests, FeedFits, Executing
<1> QED
  BY <1>1, SilentStep

\* A step of one worker that concerns the run it holds and no other.
LEMMA OwnStep ==
    ASSUME FeedInv, NEW w \in Workers, NEW q \in Runs, q = job[w],
           \A v \in Workers \ {w} : Rests(v),
           \A r \in Runs \ {q} : /\ status'[r] = status[r] /\ finished'[r] = finished[r]
                                 /\ events'[r] = events[r],
           FeedFits(w)', status'[q] # "queued",
           Follows(events'[q], status'[q], finished'[q])
    PROVE  FeedKept'
<1>1. ASSUME NEW v \in Workers \ {w}
      PROVE  FeedFits(v)'
  <2>1. FeedFits(v) /\ Rests(v)
    BY DEF FeedInv
  <2>2. CASE pc[v] = "idle"
    BY <2>1, <2>2 DEF FeedFits, Rests, Executing
  <2>3. CASE pc[v] # "idle"
    <3>1. job[v] \in Runs \ {q}
      BY <2>3, FeedShapes, StoreAssumption DEF FeedInv, StatusInv, OneCopy, AtMostOneExecutor
    <3> QED
      BY <2>1, <3>1 DEF FeedFits, Rests, Executing
  <2> QED
    BY <2>2, <2>3
<1>2. \A r \in Runs : status'[r] = "queued" => events'[r] = << >>
  BY DEF FeedInv
<1>3. \A r \in Runs : Follows(events'[r], status'[r], finished'[r])
  BY DEF FeedInv
<1> QED
  BY <1>1, <1>2, <1>3 DEF FeedKept

\* What a worker's place says of the run in its hands.
LEMMA InHand ==
    ASSUME FeedInv, NEW w \in Workers, pc[w] # "idle"
    PROVE  \E q \in Runs :
             /\ q = job[w] /\ events[q] \in Seq(Event) /\ mem[w] \in RunStatus
             /\ pc[w] \in {"loaded", "orphaned", "ready"} => status[q] = "queued"
             /\ Executing(w) => status[q] = "running"
             /\ pc[w] = "closing" => status[q] \in Terminal
BY FeedShapes DEF FeedInv, StatusInv, HandFits

LEMMA CloseFeeds ==
    ASSUME FeedInv, NEW w \in Workers, pc[w] = "running", UNCHANGED events,
           NEW st \in {"passed", "failed", "error"}, NEW cnt, Close(w, st, cnt)
    PROVE  FeedKept'
<1>1. PICK q \in Runs : q = job[w] /\ events[q] \in Seq(Event) /\ status[q] = "running"
  BY InHand DEF Executing
<1>2. CommitRun(w, st, cnt) /\ mem' = [mem EXCEPT ![w] = st] /\ Goto(w, "closing")
      /\ UNCHANGED job
  BY <1>1 DEF Close, RowExists, NoRow
<1>3. /\ status'[q] = st /\ finished'[q] = TRUE
      /\ \A r \in Runs \ {q} : status'[r] = status[r] /\ finished'[r] = finished[r]
  BY <1>1, <1>2, FeedShapes DEF CommitRun
<1>4. Opened(events[q])
  BY <1>1 DEF FeedInv, FeedFits
<1>5. Follows(events'[q], status'[q], finished'[q])
  BY <1>1, <1>4, OpenedFollow
<1>6. FeedFits(w)'
  BY <1>1, <1>2, <1>3, <1>4, FeedShapes DEF FeedFits, Goto, Executing
<1>7. \A v \in Workers \ {w} : Rests(v)
  BY <1>2, FeedShapes DEF Rests, Goto
<1> QED
  BY <1>1, <1>3, <1>5, <1>6, <1>7, OwnStep

LEMMA ProgressFeeds ==
    ASSUME FeedInv, NEW w \in Workers, Progress(w)
    PROVE  FeedKept'
<1>1. ASSUME NEW r \in Runs, Take(w, r)
      PROVE  FeedKept'
  <2>1. UNCHANGED <<status, finished, events, mem>> /\ pc[w] = "idle"
    BY <1>1 DEF Take, runRow, locals
  <2>2. \A v \in Workers \ {w} : Rests(v)
    BY <1>1, <2>1, FeedShapes DEF Take, Goto, Rests
  <2>3. Rests(w) \/ FeedFits(w)'
    BY <1>1, <2>1, FeedShapes DEF Take, Runnable, Goto, Rests, FeedFits, FeedInv, Executing
  <2> QED
    BY <2>1, <2>2, <2>3, SilentStep
<1>2. CASE LoadSuite(w)
  <2>1. UNCHANGED <<status, finished, events, mem, job>> /\ pc[w] = "loaded"
        /\ (Goto(w, "ready") \/ Goto(w, "orphaned"))
    BY <1>2 DEF LoadSuite, runRow
  <2>2. FeedFits(w)' /\ \A v \in Workers \ {w} : Rests(v)
    BY <2>1, FeedShapes DEF FeedInv, FeedFits, Goto, Rests, Executing
  <2> QED
    BY <2>1, <2>2, SilentStep
<1>3. CASE MarkOrphan(w)
  <2>1. PICK q \in Runs : q = job[w] /\ status[q] = "queued" /\ events[q] = << >>
    BY <1>3, InHand DEF MarkOrphan, FeedInv
  <2>2. status' = [status EXCEPT ![q] = "error"] /\ Leave({w}) /\ UNCHANGED <<finished, events>>
    BY <1>3, <2>1 DEF MarkOrphan, NoRow
  <2>3. FeedFits(w)' /\ \A v \in Workers \ {w} : Rests(v)
    BY <2>2 DEF Leave, FeedFits, Rests, Executing
  <2>4. Follows(events'[q], status'[q], finished'[q])
    BY <2>1, <2>2, NoEventsFollow
  <2> QED
    BY <2>1, <2>2, <2>3, <2>4, FeedShapes, OwnStep
<1>4. CASE Start(w)
  <2>1. PICK q \in Runs : q = job[w] /\ status[q] = "queued" /\ events[q] = << >>
    BY <1>4, InHand DEF Start, FeedInv
  <2>2. CASE Goto(w, "begun") /\ status' = [status EXCEPT ![q] = "running"]
             /\ mem' = [mem EXCEPT ![w] = "running"] /\ UNCHANGED <<job, finished, events>>
    <3>1. FeedFits(w)' /\ \A v \in Workers \ {w} : Rests(v)
      BY <2>1, <2>2, FeedShapes DEF Goto, FeedFits, Rests, Executing
    <3>2. Follows(events'[q], status'[q], finished'[q])
      BY <2>1, <2>2, NoEventsFollow
    <3> QED
      BY <2>1, <2>2, <3>1, <3>2, FeedShapes, OwnStep
  <2>3. CASE Leave({w}) /\ UNCHANGED <<status, finished, events>>
    BY <2>3, SilentLeave
  <2> QED
    BY <1>4, <2>1, <2>2, <2>3 DEF Start
<1>5. CASE AnnounceStart(w)
  <2>1. PICK q \in Runs : q = job[w] /\ status[q] = "running" /\ events[q] = << >>
    BY <1>5, InHand DEF AnnounceStart, Executing, FeedInv, FeedFits
  <2>2. /\ events' = [events EXCEPT ![q] = Append(@, Started)] /\ Goto(w, "running")
        /\ UNCHANGED <<status, finished, job, mem>>
    BY <1>5, <2>1 DEF AnnounceStart, Publish, runRow, locals
  <2>3. events'[q] = Append(<< >>, Started) /\ events'[q] \in Seq(Event)
    BY <2>1, <2>2, FeedShapes, EventType
  <2>4. Opened(events'[q])
    BY <2>3, StartOpens
  <2>5. Follows(events'[q], status'[q], finished'[q])
    BY <2>3, <2>4, OpenedFollow
  <2>6. mem[w] = "running"
    BY <1>5 DEF AnnounceStart, FeedInv, FeedFits, Executing
  <2>7. FeedFits(w)' /\ \A v \in Workers \ {w} : Rests(v)
    BY <2>1, <2>2, <2>4, <2>6, FeedShapes DEF Goto, FeedFits, Rests, Executing
  <2> QED
    BY <2>1, <2>2, <2>5, <2>7, FeedShapes, OwnStep
<1>6. CASE Step(w)
  <2>1. PICK q \in Runs : /\ q = job[w] /\ status[q] = "running"
                          /\ events[q] \in Seq(Event) /\ Opened(events[q])
    BY <1>6, InHand DEF Step, Executing, FeedInv, FeedFits
  <2>2. /\ events' = [events EXCEPT ![q] = Append(@, Completed)] /\ pc[w] = "running"
        /\ UNCHANGED <<status, finished, pc, job, mem>>
    BY <1>6, <2>1 DEF Step, Publish, runRow
  <2>3. events'[q] = Append(events[q], Completed) /\ events'[q] \in Seq(Event)
    BY <2>1, <2>2, FeedShapes, EventType
  <2>4. Opened(events'[q])
    BY <2>1, <2>3, StepKeepsOpen
  <2>5. Follows(events'[q], status'[q], finished'[q])
    BY <2>3, <2>4, OpenedFollow
  <2>6. FeedFits(w)' /\ \A v \in Workers \ {w} : Rests(v)
    BY <2>1, <2>2, <2>4 DEF FeedInv, FeedFits, Rests, Executing
  <2> QED
    BY <2>1, <2>2, <2>5, <2>6, FeedShapes, OwnStep
<1>7. CASE RejectStep(w)
  BY <1>7, SilentLeave DEF RejectStep, Rollback, runRow
<1>8. CASE Finish(w)
  <2>1. Verdict(tally[w]) \in {"passed", "failed", "error"}
    BY DEF Verdict
  <2> QED
    BY <1>8, <2>1, CloseFeeds DEF Finish
<1>9. CASE AnnounceFinish(w)
  <2>1. PICK q \in Runs : /\ q = job[w] /\ status[q] \in Terminal
                          /\ events[q] \in Seq(Event) /\ Opened(events[q])
                          /\ mem[w] \in RunStatus /\ mem[w] = status[q] /\ finished[q]
    BY <1>9, InHand DEF AnnounceFinish, FeedInv, FeedFits
  <2>2. /\ events' = [events EXCEPT ![q] = Append(@, Finished(mem[w]))] /\ Leave({w})
        /\ UNCHANGED <<status, finished>>
    BY <1>9, <2>1 DEF AnnounceFinish, Publish, runRow
  <2>3. events'[q] = Append(events[q], Finished(mem[w]))
    BY <2>1, <2>2, FeedShapes
  <2>4. Follows(events'[q], mem[w], TRUE)
    BY <2>1, <2>3, VerdictFollows
  <2>5. Follows(events'[q], status'[q], finished'[q])
    BY <2>1, <2>2, <2>4, FeedShapes
  <2>6. FeedFits(w)' /\ \A v \in Workers \ {w} : Rests(v)
    BY <2>2 DEF Leave, FeedFits, Rests, Executing
  <2> QED
    BY <2>1, <2>2, <2>5, <2>6, FeedShapes, OwnStep DEF Terminal
<1> QED
  BY <1>1, <1>2, <1>3, <1>4, <1>5, <1>6, <1>7, <1>8, <1>9 DEF Progress

LEMMA FaultFeeds ==
    ASSUME FeedInv, Fault
    PROVE  FeedKept'
<1>1. ASSUME NEW w \in Workers, Raise(w)
      PROVE  FeedKept'
  BY <1>1, CloseFeeds DEF Raise
<1>2. ASSUME NEW w \in Workers, DbFailure(w)
      PROVE  FeedKept'
  BY <1>2, SilentLeave DEF DbFailure, Rollback, runRow
<1>3. ASSUME NEW w \in Workers, NEW fault, InterruptOutside(w, fault) \/ InterruptFlush(w, fault)
      PROVE  FeedKept'
  BY <1>3, SilentLeave DEF InterruptOutside, InterruptFlush, Rollback, runRow
<1>4. ASSUME NEW w \in Workers, NEW fault, InterruptInside(w, fault)
      PROVE  FeedKept'
  <2>1. PICK q \in Runs : /\ q = job[w] /\ status[q] = "running" /\ mem[w] = "running"
                          /\ events[q] \in Seq(Event) /\ Opened(events[q])
    BY <1>4, InHand DEF InterruptInside, Executing, FeedInv, FeedFits
  <2>2. /\ events' = [events EXCEPT ![q] = Append(@, Finished("running"))] /\ Leave({w})
        /\ status' = [status EXCEPT ![q] = "running"]
        /\ finished' = [finished EXCEPT ![q] = TRUE]
    BY <1>4, <2>1 DEF InterruptInside, Publish, CommitRun
  <2>3. events'[q] = Append(events[q], Finished("running"))
    BY <2>1, <2>2, FeedShapes
  <2>4. Follows(events'[q], "running", TRUE)
    BY <2>1, <2>3, VerdictFollows DEF RunStatus
  <2>5. Follows(events'[q], status'[q], finished'[q])
    BY <2>1, <2>2, <2>4, FeedShapes
  <2>6. FeedFits(w)' /\ \A v \in Workers \ {w} : Rests(v)
    BY <2>2 DEF Leave, FeedFits, Rests, Executing
  <2> QED
    BY <2>1, <2>2, <2>5, <2>6, FeedShapes, OwnStep
<1>5. ASSUME NEW w \in Workers, Interrupt(w)
      PROVE  FeedKept'
  BY <1>3, <1>4, <1>5 DEF Interrupt
<1>6. ASSUME NEW ws \in SUBSET Workers, Crash(ws)
      PROVE  FeedKept'
  BY <1>6, SilentLeave DEF Crash, runRow
<1>7. ASSUME NEW w \in Workers, CrashArqWorker(w)
      PROVE  FeedKept'
  BY <1>6, <1>7 DEF CrashArqWorker
<1>8. ASSUME CrashApi
      PROVE  FeedKept'
  BY <1>6, <1>8 DEF CrashApi
<1>9. ASSUME NEW r \in Runs, Redeliver(r)
      PROVE  FeedKept'
  BY <1>9, SilentStep DEF Redeliver, runRow, worker, Rests
<1> QED
  BY <1>1, <1>2, <1>5, <1>7, <1>8, <1>9 DEF Fault

LEMMA FeedInit == Budget["redeliver"] = 0 /\ Init => FeedInv
<1> SUFFICES ASSUME Budget["redeliver"] = 0, Init
             PROVE  FeedInv
  OBVIOUS
<1>1. \A r \in Runs : events[r] = << >>
  BY DEF Init, ExecInit
<1>2. \A w \in Workers : pc[w] = "idle"
  BY DEF Init, ExecInit
<1>3. \A r \in Runs : Follows(events[r], status[r], finished[r])
  BY <1>1, NoEventsFollow
<1> QED
  BY <1>1, <1>2, <1>3, StatusInit DEF FeedInv, FeedFits, Executing

LEMMA FeedStep == FeedInv /\ [Next]_vars => FeedInv'
<1> SUFFICES ASSUME FeedInv, [Next]_vars
             PROVE  FeedInv'
  OBVIOUS
<1>1. StatusInv'
  BY StatusStep DEF FeedInv
<1>2. ASSUME UNCHANGED vars
      PROVE  FeedKept'
  BY <1>2, SilentStep DEF vars, store, execVars, Rests
<1>3. ASSUME Next
      PROVE  FeedKept'
  BY <1>3, ProgressFeeds, FaultFeeds DEF Next, ExecNext
<1> QED
  BY <1>1, <1>2, <1>3 DEF FeedInv, FeedKept

\* Unless a job is delivered twice, what is published of a run is what its row says:
\* run.started first and once, run.finished last, after its commit and with the
\* status that was committed, and that status stays.
THEOREM EventsFollow ==
    ASSUME Budget["redeliver"] = 0
    PROVE  Spec => []EventsFollowTheRun
<1>1. Init => FeedInv
  BY FeedInit
<1>2. FeedInv /\ [Next]_vars => FeedInv'
  BY FeedStep
<1>3. FeedInv => EventsFollowTheRun
  BY DEF FeedInv, Follows, EventsFollowTheRun
<1> QED
  BY <1>1, <1>2, <1>3, PTL DEF Spec

-----------------------------------------------------------------------------
(* The gauge of running runs.  It is exact when nothing can end a call     *)
(* between ACTIVE_RUNS.inc() and the try block with the process still up:  *)
(* no job timeout, no failed commit, no wait for SQLite's write lock that  *)
(* is given up, no row that is gone.                                       *)

GaugeInv ==
    /\ StatusInv
    /\ budget["timeout"] = 0 /\ Undisturbed
    /\ GaugeExact

\* A step that leaves the place and the share of every worker alone.
LEMMA GaugeRests ==
    ASSUME GaugeExact, UNCHANGED gauge,
           \A v \in Workers : pc'[v] = pc[v] \/ ~(Executing(v) \/ Executing(v)')
    PROVE  GaugeExact'
BY DEF GaugeExact, Executing

\* The finally block takes back what its own call has added.
LEMMA CloseGauges ==
    ASSUME GaugeInv, NEW w \in Workers, pc[w] = "running", NEW st, NEW cnt,
           Close(w, st, cnt)
    PROVE  GaugeExact'
<1>1. pc \in [Workers -> Phase] /\ gauge \in [Workers -> Nat]
  BY DEF GaugeInv, StatusInv, OneCopy, TypeInv, TypeOK, ExecTypeOK
<1>2. \A v \in Workers : pc'[v] = IF v = w THEN pc'[w] ELSE pc[v]
  BY <1>1 DEF Close, Goto, Leave
<1>3. pc'[w] \in {"closing", "idle"}
  BY <1>1 DEF Close, Goto, Leave
<1> QED
  BY <1>1, <1>2, <1>3 DEF Close, DecGauge, GaugeInv, GaugeExact, Executing

LEMMA ProgressGauges ==
    ASSUME GaugeInv, StampsFit, NEW w \in Workers, Progress(w)
    PROVE  GaugeExact'
<1>0. pc \in [Workers -> Phase] /\ gauge \in [Workers -> Nat]
  BY DEF GaugeInv, StatusInv, OneCopy, TypeInv, TypeOK, ExecTypeOK
<1>1. ASSUME NEW r \in Runs, Take(w, r)
      PROVE  GaugeExact'
  BY <1>0, <1>1, GaugeRests DEF Take, Goto, GaugeInv, Executing
<1>2. CASE LoadSuite(w)
  BY <1>0, <1>2, GaugeRests DEF LoadSuite, Goto, GaugeInv, Executing
<1>3. CASE MarkOrphan(w)
  BY <1>0, <1>3, GaugeRests DEF MarkOrphan, Leave, GaugeInv, Executing
<1>4. CASE Start(w)
  <2>1. RowExists(w)
    BY <1>4 DEF Start, RowExists, NoRow, GaugeInv, StatusInv, HandFits
  <2>2. Goto(w, "begun") /\ IncGauge(w) /\ pc[w] = "ready"
    BY <1>4, <2>1 DEF Start
  <2> QED
    BY <1>0, <2>2 DEF IncGauge, Goto, GaugeInv, GaugeExact, Executing
<1>5. CASE AnnounceStart(w)
  BY <1>0, <1>5 DEF AnnounceStart, Goto, GaugeInv, GaugeExact, Executing
<1>6. CASE Step(w)
  BY <1>6, GaugeRests DEF Step, GaugeInv
<1>7. CASE RejectStep(w)
  BY <1>0, <1>7 DEF RejectStep, DecGauge, Leave, GaugeInv, GaugeExact, Executing
<1>8. CASE Finish(w)
  BY <1>8, CloseGauges DEF Finish
<1>9. CASE AnnounceFinish(w)
  BY <1>0, <1>9, GaugeRests DEF AnnounceFinish, Leave, GaugeInv, Executing
<1> QED
  BY <1>1, <1>2, <1>3, <1>4, <1>5, <1>6, <1>7, <1>8, <1>9 DEF Progress

LEMMA FaultGauges ==
    ASSUME GaugeInv, Fault
    PROVE  GaugeExact'
<1>0. pc \in [Workers -> Phase] /\ gauge \in [Workers -> Nat]
  BY DEF GaugeInv, StatusInv, OneCopy, TypeInv, TypeOK, ExecTypeOK
<1>1. ASSUME NEW w \in Workers, Raise(w)
      PROVE  GaugeExact'
  BY <1>1, CloseGauges DEF Raise
<1>2. ASSUME NEW w \in Workers, DbFailure(w)
      PROVE  GaugeExact'
  BY <1>2, NoDbFailure DEF GaugeInv
<1>3. ASSUME NEW w \in Workers, Interrupt(w)
      PROVE  GaugeExact'
  <2>1. PICK fault \in {"shutdown", "timeout"} :
          /\ Spend(fault) /\ Leave({w})
          /\ \E value : GaugeAfter(w, fault, value)
    BY <1>3 DEF Interrupt, InterruptOutside, InterruptInside, InterruptFlush
  <2>2. fault = "shutdown"
    BY <2>1 DEF Spend, GaugeInv
  <2> QED
    BY <1>0, <2>1, <2>2 DEF GaugeAfter, Leave, GaugeInv, GaugeExact, Executing
<1>4. ASSUME NEW ws \in SUBSET Workers, Crash(ws)
      PROVE  GaugeExact'
  BY <1>0, <1>4 DEF Crash, Leave, GaugeInv, GaugeExact, Executing
<1>5. ASSUME NEW w \in Workers, CrashArqWorker(w)
      PROVE  GaugeExact'
  BY <1>4, <1>5 DEF CrashArqWorker
<1>6. ASSUME CrashApi
      PROVE  GaugeExact'
  BY <1>4, <1>6 DEF CrashApi
<1>7. ASSUME NEW r \in Runs, Redeliver(r)
      PROVE  GaugeExact'
  BY <1>7, GaugeRests DEF Redeliver, worker, GaugeInv
<1> QED
  BY <1>1, <1>2, <1>3, <1>5, <1>6, <1>7 DEF Fault

\* With time stamps the database takes and without duplicates, job timeouts and
\* database failures (on SQLite: with nobody giving up for the write lock),
\* ACTIVE_RUNS is the number of running calls of the process, through all
\* exceptions, shutdowns and crashes.
THEOREM GaugeCounts ==
    ASSUME StampsFit, Budget["redeliver"] = 0, Budget["timeout"] = 0, Budget["db"] = 0,
           EnforcesFK \/ Budget["locked"] = 0
    PROVE  Spec => []GaugeExact
<1>1. Init => GaugeInv
  BY StatusInit DEF Init, ExecInit, GaugeInv, GaugeExact, Executing, Undisturbed
<1>2. GaugeInv /\ [Next]_vars => GaugeInv'
  <2> SUFFICES ASSUME GaugeInv, [Next]_vars
               PROVE  GaugeInv'
    OBVIOUS
  <2>1. StatusInv'
    BY StatusStep DEF GaugeInv
  <2>2. budget'["timeout"] = 0 /\ Undisturbed'
    BY BudgetFalls, UndisturbedStep DEF GaugeInv, StatusInv, OneCopy, FaultKind
  <2>3. ASSUME UNCHANGED vars
        PROVE  GaugeExact'
    BY <2>3, GaugeRests DEF vars, execVars, GaugeInv
  <2>4. ASSUME Next
        PROVE  GaugeExact'
    BY <2>4, ProgressGauges, FaultGauges DEF Next, ExecNext
  <2> QED
    BY <2>1, <2>2, <2>3, <2>4 DEF GaugeInv
<1>3. GaugeInv => GaugeExact
  BY DEF GaugeInv
<1> QED
  BY <1>1, <1>2, <1>3, PTL DEF Spec
=============================================================================
