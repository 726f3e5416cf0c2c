------------------------- MODULE RunExecution_proofs ------------------------
(***************************************************************************)
(* Proofs about RunExecution, for all sets of runs, workers and suites,    *)
(* both databases and both dispatchers, and any number of faults.          *)
(***************************************************************************)
EXTENDS RunExecution, TLAPS

-----------------------------------------------------------------------------
(* The type invariant.  Two facts make it inductive: the call of a busy    *)
(* slot has a run, so that the database is only ever indexed by runs, and  *)
(* the gauge was incremented before it is decremented.                     *)

BusyHasJob == \A w \in Workers : (pc[w] = "idle") <=> (job[w] = NoRun)

GaugeCovers == \A w \in Workers : Executing(w) => gauge[w] > 0

TypeInv == TypeOK /\ BusyHasJob /\ GaugeCovers

LEMMA TypeInit == Init => TypeInv
BY StoreAssumption, ExecutionAssumption
   DEF Init, StoreInit, ExecInit, TypeInv, TypeOK, StoreTypeOK, ExecTypeOK,
       BusyHasJob, GaugeCovers, Executing, Tally, ZeroTally, RunStatus, Phase, NoRow

\* A slot that leaves its call has the initial locals; the others keep theirs.
LEMMA LeaveType ==
    ASSUME TypeInv, NEW ws \in SUBSET Workers, Leave(ws)
    PROVE  /\ pc' \in [Workers -> Phase]
           /\ job' \in [Workers -> Runs \cup {NoRun}]
           /\ plan' \in [Workers -> 0 .. MaxSteps]
           /\ step' \in [Workers -> 0 .. MaxSteps]
           /\ tally' \in [Workers -> Tally]
           /\ mem' \in [Workers -> RunStatus]
           /\ BusyHasJob'
<1>1. pc' \in [Workers -> Phase] /\ job' \in [Workers -> Runs \cup {NoRun}]
  BY DEF TypeInv, TypeOK, ExecTypeOK, Leave, Phase
<1>2. plan' \in [Workers -> 0 .. MaxSteps] /\ step' \in [Workers -> 0 .. MaxSteps]
  BY StoreAssumption DEF TypeInv, TypeOK, ExecTypeOK, Leave
<1>3. tally' \in [Workers -> Tally]
  BY DEF TypeInv, TypeOK, ExecTypeOK, Leave, Tally, ZeroTally
<1>4. mem' \in [Workers -> RunStatus]
  BY DEF TypeInv, TypeOK, ExecTypeOK, Leave, RunStatus
<1>5. BusyHasJob'
  BY DEF TypeInv, BusyHasJob, Leave
<1> QED
  BY <1>1, <1>2, <1>3, <1>4, <1>5

\* The rows a commit or a rollback leaves are rows.
LEMMA CommitType ==
    ASSUME TypeInv, NEW w \in Workers, job[w] \in Runs, NEW st \in RunStatus,
           NEW cnt \in Tally, CommitRun(w, st, cnt), UNCHANGED suites,
           jobs' \in [Runs -> Nat]
    PROVE  StoreTypeOK'
BY DEF TypeInv, TypeOK, StoreTypeOK, CommitRun, PendingBy

LEMMA RollbackType ==
    ASSUME TypeInv, NEW w \in Workers, Rollback(w), UNCHANGED suites,
           jobs' \in [Runs -> Nat]
    PROVE  StoreTypeOK'
BY DEF TypeInv, TypeOK, StoreTypeOK, Rollback, PendingBy, runRow

LEMMA PublishType ==
    ASSUME TypeInv, NEW r \in Runs, NEW e \in Event, Publish(r, e)
    PROVE  events' \in [Runs -> Seq(Event)]
BY DEF TypeInv, TypeOK, ExecTypeOK, Publish

LEMMA EventType ==
    /\ Started \in Event
    /\ Completed \in Event
    /\ \A st \in RunStatus : Finished(st) \in Event
BY DEF Event

LEMMA SpendType ==
    ASSUME TypeInv, NEW fault \in FaultKind, Spend(fault)
    PROVE  budget' \in [FaultKind -> Nat]
BY DEF TypeInv, TypeOK, ExecTypeOK, Spend

\* The call of a busy slot has a run, whose row the store is indexed by.
LEMMA BusyJob ==
    ASSUME TypeInv, NEW w \in Workers, pc[w] # "idle"
    PROVE  job[w] \in Runs
BY DEF TypeInv, TypeOK, ExecTypeOK, BusyHasJob

\* The try block is left through the finally block, whatever is written there.
LEMMA CloseType ==
    ASSUME TypeInv, NEW w \in Workers, pc[w] = "running", NEW st \in RunStatus,
           NEW cnt \in Tally, Close(w, st, cnt), UNCHANGED <<suites, jobs, events>>,
           budget' \in [FaultKind -> Nat]
    PROVE  TypeInv'
<1>1. job[w] \in Runs
  BY BusyJob
<1>2. jobs' \in [Runs -> Nat] /\ events' \in [Runs -> Seq(Event)]
  BY DEF TypeInv, TypeOK, StoreTypeOK, ExecTypeOK
<1>3. gauge' \in [Workers -> Nat]
  BY DEF Close, DecGauge, TypeInv, TypeOK, ExecTypeOK, GaugeCovers, Executing
<1>4. CASE RowExists(w)
  <2>1. StoreTypeOK'
    BY <1>1, <1>2, <1>4, CommitType DEF Close
  <2>2. ExecTypeOK'
    BY <1>2, <1>3, <1>4 DEF Close, Goto, TypeInv, TypeOK, ExecTypeOK, Phase
  <2>3. BusyHasJob'
    BY <1>4 DEF Close, Goto, TypeInv, TypeOK, ExecTypeOK, BusyHasJob
  <2>4. GaugeCovers'
    BY <1>4 DEF Close, Goto, DecGauge, TypeInv, TypeOK, ExecTypeOK, GaugeCovers,
                Executing
  <2> QED
    BY <2>1, <2>2, <2>3, <2>4 DEF TypeInv, TypeOK
<1>5. CASE ~RowExists(w)
  <2>1. Rollback(w) /\ Leave({w})
    BY <1>5 DEF Close
  <2>2. StoreTypeOK'
    BY <1>2, <2>1, RollbackType
  <2>3. ExecTypeOK' /\ BusyHasJob'
    BY <1>2, <1>3, <2>1, LeaveType DEF ExecTypeOK
  <2>4. GaugeCovers'
    BY <1>5 DEF Close, Leave, DecGauge, TypeInv, TypeOK, ExecTypeOK, GaugeCovers,
                Executing
  <2> QED
    BY <2>2, <2>3, <2>4 DEF TypeInv, TypeOK
<1> QED
  BY <1>4, <1>5

\* CancelledError, wherever it arrives.
LEMMA InterruptType ==
    ASSUME TypeInv, NEW w \in Workers, Interrupt(w), UNCHANGED suites
    PROVE  TypeInv'
<1>1. PICK fault \in {"shutdown", "timeout"} :
        \/ InterruptOutside(w, fault)
        \/ InterruptInside(w, fault)
        \/ InterruptFlush(w, fault)
  BY DEF Interrupt
<1>2. pc[w] # "idle" /\ Leave({w}) /\ Requeue(w, fault) /\ Spend(fault)
  BY <1>1 DEF InterruptOutside, InterruptInside, InterruptFlush
<1>3. job[w] \in Runs /\ mem[w] \in RunStatus
  BY <1>2, BusyJob DEF TypeInv, TypeOK, ExecTypeOK
<1>4. jobs' \in [Runs -> Nat]
  BY <1>2, <1>3 DEF Requeue, TypeInv, TypeOK, StoreTypeOK
<1>5. budget' \in [FaultKind -> Nat]
  BY <1>2, SpendType DEF FaultKind
<1>6. gauge' \in [Workers -> Nat]
  BY <1>1 DEF InterruptOutside, InterruptInside, InterruptFlush, GaugeAfter, TypeInv,
              TypeOK, ExecTypeOK, GaugeCovers, Executing
<1>7. GaugeCovers'
  BY <1>1 DEF InterruptOutside, InterruptInside, InterruptFlush, GaugeAfter, Leave,
              TypeInv, TypeOK, ExecTypeOK, GaugeCovers, Executing
<1>8. StoreTypeOK' /\ events' \in [Runs -> Seq(Event)]
  <2>1. CASE InterruptOutside(w, fault)
    BY <1>4, <2>1 DEF InterruptOutside, runRow, TypeInv, TypeOK, StoreTypeOK, ExecTypeOK
  <2>2. CASE InterruptInside(w, fault)
    <3>1. status[job[w]] \in RunStatus /\ counts[job[w]] \in Tally
      BY <1>3, <2>2 DEF InterruptInside, RowExists, TypeInv, TypeOK, StoreTypeOK
    <3>2. StoreTypeOK'
      BY <1>3, <1>4, <2>2, <3>1, CommitType DEF InterruptInside
    <3>3. events' \in [Runs -> Seq(Event)]
      BY <1>3, <2>2, PublishType, EventType DEF InterruptInside
    <3> QED
      BY <3>2, <3>3
  <2>3. CASE InterruptFlush(w, fault)
    BY <1>4, <2>3, RollbackType DEF InterruptFlush, TypeInv, TypeOK, ExecTypeOK
  <2> QED
    BY <1>1, <2>1, <2>2, <2>3
<1>9. ExecTypeOK' /\ BusyHasJob'
  BY <1>2, <1>5, <1>6, <1>8, LeaveType DEF ExecTypeOK
<1> QED
  BY <1>7, <1>8, <1>9 DEF TypeInv, TypeOK

\* The death of a process, with one worker slot or with all of them.
LEMMA CrashType ==
    ASSUME TypeInv, NEW ws \in SUBSET Workers, Crash(ws), UNCHANGED suites,
           jobs' \in [Runs -> Nat]
    PROVE  TypeInv'
<1>1. StoreTypeOK'
  BY DEF Crash, runRow, TypeInv, TypeOK, StoreTypeOK
<1>2. gauge' \in [Workers -> Nat]
  BY DEF Crash, TypeInv, TypeOK, ExecTypeOK
<1>3. budget' \in [FaultKind -> Nat]
  BY SpendType DEF Crash, FaultKind
<1>4. events' \in [Runs -> Seq(Event)] /\ Leave(ws)
  BY DEF Crash, TypeInv, TypeOK, ExecTypeOK
<1>5. ExecTypeOK' /\ BusyHasJob'
  BY <1>2, <1>3, <1>4, LeaveType DEF ExecTypeOK
<1>6. GaugeCovers'
  BY DEF Crash, Leave, TypeInv, TypeOK, ExecTypeOK, GaugeCovers, Executing
<1> QED
  BY <1>1, <1>5, <1>6 DEF TypeInv, TypeOK

LEMMA TypeStep == TypeInv /\ [Next]_vars => TypeInv'
<1> SUFFICES ASSUME TypeInv, [Next]_vars
             PROVE  TypeInv'
  OBVIOUS
<1>0. UNCHANGED suites
  BY DEF Next, vars, store
<1>1. ASSUME NEW w \in Workers, NEW r \in Runs, Take(w, r)
      PROVE  TypeInv'
  <2>1. StoreTypeOK'
    BY <1>0, <1>1 DEF Take, Dequeue, runRow, TypeInv, TypeOK, StoreTypeOK
  <2>2. ExecTypeOK'
    BY <1>1 DEF Take, Goto, locals, TypeInv, TypeOK, ExecTypeOK, Phase
  <2>3. BusyHasJob'
    BY <1>1, StoreAssumption DEF Take, Goto, TypeInv, TypeOK, ExecTypeOK, BusyHasJob
  <2>4. GaugeCovers'
    BY <1>1 DEF Take, Goto, TypeInv, TypeOK, ExecTypeOK, GaugeCovers, Executing
  <2> QED
    BY <2>1, <2>2, <2>3, <2>4 DEF TypeInv, TypeOK
<1>2. ASSUME NEW w \in Workers, LoadSuite(w)
      PROVE  TypeInv'
  <2>1. StoreTypeOK'
    BY <1>0, <1>2 DEF LoadSuite, runRow, TypeInv, TypeOK, StoreTypeOK
  <2>2. ExecTypeOK'
    BY <1>2 DEF LoadSuite, Goto, TypeInv, TypeOK, ExecTypeOK, Phase
  <2>3. BusyHasJob'
    BY <1>2 DEF LoadSuite, Goto, TypeInv, TypeOK, ExecTypeOK, BusyHasJob
  <2>4. GaugeCovers'
    BY <1>2 DEF LoadSuite, Goto, TypeInv, TypeOK, ExecTypeOK, GaugeCovers, Executing
  <2> QED
    BY <2>1, <2>2, <2>3, <2>4 DEF TypeInv, TypeOK
<1>3. ASSUME NEW w \in Workers, MarkOrphan(w)
      PROVE  TypeInv'
  <2>1. StoreTypeOK'
    BY <1>0, <1>3 DEF MarkOrphan, TypeInv, TypeOK, StoreTypeOK, RunStatus, NoRow
  <2>2. gauge' \in [Workers -> Nat] /\ events' \in [Runs -> Seq(Event)]
        /\ budget' \in [FaultKind -> Nat] /\ Leave({w})
    BY <1>3 DEF MarkOrphan, TypeInv, TypeOK, ExecTypeOK
  <2>3. ExecTypeOK' /\ BusyHasJob'
    BY <2>2, LeaveType DEF ExecTypeOK
  <2>4. GaugeCovers'
    BY <1>3 DEF MarkOrphan, Leave, TypeInv, TypeOK, ExecTypeOK, GaugeCovers, Executing
  <2> QED
    BY <2>1, <2>3, <2>4 DEF TypeInv, TypeOK
<1>4. ASSUME NEW w \in Workers, Start(w)
      PROVE  TypeInv'
  <2>1. StoreTypeOK'
    BY <1>0, <1>4 DEF Start, TypeInv, TypeOK, StoreTypeOK, RunStatus
  <2>2. gauge' \in [Workers -> Nat] /\ events' \in [Runs -> Seq(Event)]
        /\ budget' \in [FaultKind -> Nat]
    BY <1>4 DEF Start, IncGauge, TypeInv, TypeOK, ExecTypeOK
  <2>3. CASE RowExists(w) /\ StampsFit
    <3>1. ExecTypeOK'
      BY <1>4, <2>2, <2>3 DEF Start, Goto, TypeInv, TypeOK, ExecTypeOK, Phase, RunStatus
    <3>2. BusyHasJob'
      BY <1>4, <2>3 DEF Start, Goto, TypeInv, TypeOK, ExecTypeOK, BusyHasJob
    <3>3. GaugeCovers'
      BY <1>4, <2>3 DEF Start, IncGauge, Goto,
                        TypeInv, TypeOK, ExecTypeOK, GaugeCovers, Executing
    <3> QED
      BY <2>1, <3>1, <3>2, <3>3 DEF TypeInv, TypeOK
  <2>4. CASE ~(RowExists(w) /\ StampsFit)
    <3>1. ExecTypeOK' /\ BusyHasJob'
      BY <1>4, <2>2, <2>4, LeaveType DEF Start, ExecTypeOK
    <3>2. GaugeCovers'
      BY <1>4, <2>4 DEF Start, IncGauge, Leave,
                        TypeInv, TypeOK, ExecTypeOK, GaugeCovers, Executing
    <3> QED
      BY <2>1, <3>1, <3>2 DEF TypeInv, TypeOK
  <2> QED
    BY <2>3, <2>4
<1>5. ASSUME NEW w \in Workers, AnnounceStart(w)
      PROVE  TypeInv'
  <2>1. StoreTypeOK'
    BY <1>0, <1>5 DEF AnnounceStart, runRow, TypeInv, TypeOK, StoreTypeOK
  <2>2. events' \in [Runs -> Seq(Event)]
    BY <1>5, BusyJob, PublishType, EventType DEF AnnounceStart
  <2>3. ExecTypeOK'
    BY <1>5, <2>2 DEF AnnounceStart, Goto, locals, TypeInv, TypeOK, ExecTypeOK, Phase
  <2>4. BusyHasJob'
    BY <1>5 DEF AnnounceStart, Goto, TypeInv, TypeOK, ExecTypeOK, BusyHasJob
  <2>5. GaugeCovers'
    BY <1>5 DEF AnnounceStart, Goto, TypeInv, TypeOK, ExecTypeOK, GaugeCovers, Executing
  <2> QED
    BY <2>1, <2>3, <2>4, <2>5 DEF TypeInv, TypeOK
<1>6. ASSUME NEW w \in Workers, Step(w)
      PROVE  TypeInv'
  <2>1. job[w] \in Runs
    BY <1>6, BusyJob DEF Step
  <2>2. step[w] + 1 \in 1 .. MaxSteps
    <3>1. step[w] \in 0 .. MaxSteps /\ plan[w] \in 0 .. MaxSteps
      BY DEF TypeInv, TypeOK, ExecTypeOK
    <3> QED
      BY <1>6, <3>1, StoreAssumption DEF Step
  <2>3. pending' \subseteq StepRow
    BY <1>6, <2>1, <2>2 DEF Step, StepRow, TypeInv, TypeOK, StoreTypeOK
  <2>4. StoreTypeOK'
    BY <1>0, <1>6, <2>3 DEF Step, runRow, TypeInv, TypeOK, StoreTypeOK
  <2>5. tally' \in [Workers -> Tally]
    BY <1>6 DEF Step, TypeInv, TypeOK, ExecTypeOK, Tally
  <2>6. step' \in [Workers -> 0 .. MaxSteps]
    BY <1>6, <2>2 DEF Step, TypeInv, TypeOK, ExecTypeOK
  <2>7. events' \in [Runs -> Seq(Event)]
    BY <1>6, <2>1, PublishType, EventType DEF Step
  <2>8. ExecTypeOK'
    BY <1>6, <2>5, <2>6, <2>7 DEF Step, TypeInv, TypeOK, ExecTypeOK
  <2>9. BusyHasJob' /\ GaugeCovers'
    BY <1>6 DEF Step, TypeInv, BusyHasJob, GaugeCovers, Executing
  <2> QED
    BY <2>4, <2>8, <2>9 DEF TypeInv, TypeOK
<1>7. ASSUME NEW w \in Workers, RejectStep(w)
      PROVE  TypeInv'
  <2>1. jobs' \in [Runs -> Nat] /\ events' \in [Runs -> Seq(Event)]
        /\ budget' \in [FaultKind -> Nat] /\ Leave({w}) /\ Rollback(w)
    BY <1>7 DEF RejectStep, TypeInv, TypeOK, StoreTypeOK, ExecTypeOK
  <2>2. StoreTypeOK'
    BY <1>0, <2>1, RollbackType
  <2>3. gauge' \in [Workers -> Nat]
    BY <1>7 DEF RejectStep, DecGauge, TypeInv, TypeOK, ExecTypeOK, GaugeCovers, Executing
  <2>4. ExecTypeOK' /\ BusyHasJob'
    BY <2>1, <2>3, LeaveType DEF ExecTypeOK
  <2>5. GaugeCovers'
    BY <1>7 DEF RejectStep, Leave, DecGauge, TypeInv, TypeOK, ExecTypeOK, GaugeCovers,
                Executing
  <2> QED
    BY <2>2, <2>4, <2>5 DEF TypeInv, TypeOK
<1>8. ASSUME NEW w \in Workers, Finish(w)
      PROVE  TypeInv'
  <2>1. job[w] \in Runs
    BY <1>8, BusyJob DEF Finish
  <2>2. Written(counts[job[w]], tally[w]) \in Tally
    BY <2>1 DEF Written, Tally, TypeInv, TypeOK, StoreTypeOK, ExecTypeOK
  <2>3. Verdict(tally[w]) \in RunStatus
    BY DEF Verdict, RunStatus
  <2>4. budget' \in [FaultKind -> Nat]
    BY <1>8 DEF Finish, TypeInv, TypeOK, ExecTypeOK
  <2> QED
    BY <1>0, <1>8, <2>2, <2>3, <2>4, CloseType DEF Finish
<1>9. ASSUME NEW w \in Workers, AnnounceFinish(w)
      PROVE  TypeInv'
  <2>1. StoreTypeOK'
    BY <1>0, <1>9 DEF AnnounceFinish, runRow, TypeInv, TypeOK, StoreTypeOK
  <2>2. mem[w] \in RunStatus
    BY DEF TypeInv, TypeOK, ExecTypeOK
  <2>3. events' \in [Runs -> Seq(Event)]
    BY <1>9, <2>2, BusyJob, PublishType, EventType DEF AnnounceFinish
  <2>4. gauge' \in [Workers -> Nat] /\ budget' \in [FaultKind -> Nat] /\ Leave({w})
    BY <1>9 DEF AnnounceFinish, TypeInv, TypeOK, ExecTypeOK
  <2>5. ExecTypeOK' /\ BusyHasJob'
    BY <2>3, <2>4, LeaveType DEF ExecTypeOK
  <2>6. GaugeCovers'
    BY <1>9 DEF AnnounceFinish, Leave, TypeInv, TypeOK, ExecTypeOK, GaugeCovers, Executing
  <2> QED
    BY <2>1, <2>5, <2>6 DEF TypeInv, TypeOK
<1>10. ASSUME NEW w \in Workers, Raise(w)
       PROVE  TypeInv'
  <2>1. job[w] \in Runs
    BY <1>10, BusyJob DEF Raise
  <2>2. counts[job[w]] \in Tally
    BY <2>1 DEF TypeInv, TypeOK, StoreTypeOK
  <2>3. budget' \in [FaultKind -> Nat]
    BY <1>10, SpendType DEF Raise, FaultKind
  <2>4. "error" \in RunStatus
    BY DEF RunStatus
  <2> QED
    BY <1>0, <1>10, <2>2, <2>3, <2>4, CloseType DEF Raise
<1>11. ASSUME NEW w \in Workers, DbFailure(w)
       PROVE  TypeInv'
  <2>1. jobs' \in [Runs -> Nat] /\ events' \in [Runs -> Seq(Event)]
        /\ Leave({w}) /\ Rollback(w)
    BY <1>11 DEF DbFailure, TypeInv, TypeOK, StoreTypeOK, ExecTypeOK
  <2>2. budget' \in [FaultKind -> Nat]
    BY <1>11, SpendType DEF DbFailure, LockedOut, FaultKind
  <2>3. StoreTypeOK'
    BY <1>0, <2>1, RollbackType
  <2>4. gauge' \in [Workers -> Nat]
    <3>1. gauge \in [Workers -> Nat] /\ (pc[w] = "running" => gauge[w] > 0)
      BY DEF TypeInv, TypeOK, ExecTypeOK, GaugeCovers, Executing
    <3>2. \/ gauge' = gauge
          \/ gauge' = [gauge EXCEPT ![w] = @ + 1]
          \/ pc[w] = "running" /\ gauge' = [gauge EXCEPT ![w] = @ - 1]
      BY <1>11 DEF DbFailure, IncGauge, DecGauge
    <3> QED
      BY <3>1, <3>2
  <2>5. ExecTypeOK' /\ BusyHasJob'
    BY <2>1, <2>2, <2>4, LeaveType DEF ExecTypeOK
  <2>6. GaugeCovers'
    BY <1>11 DEF DbFailure, Leave, IncGauge, DecGauge, TypeInv, TypeOK, ExecTypeOK,
                 GaugeCovers, Executing
  <2> QED
    BY <2>3, <2>5, <2>6 DEF TypeInv, TypeOK
<1>12. ASSUME NEW w \in Workers, Interrupt(w)
       PROVE  TypeInv'
  BY <1>0, <1>12, InterruptType
<1>13. ASSUME NEW w \in Workers, CrashArqWorker(w)
       PROVE  TypeInv'
  <2>1. jobs' \in [Runs -> Nat]
    BY <1>13, BusyJob DEF CrashArqWorker, TypeInv, TypeOK, StoreTypeOK
  <2> QED
    BY <1>0, <1>13, <2>1, CrashType DEF CrashArqWorker
<1>14. ASSUME CrashApi
       PROVE  TypeInv'
  <2>1. jobs' \in [Runs -> Nat]
    BY <1>14 DEF CrashApi
  <2> QED
    BY <1>0, <1>14, <2>1, CrashType DEF CrashApi
<1>15. ASSUME NEW r \in Runs, Redeliver(r)
       PROVE  TypeInv'
  <2>1. StoreTypeOK'
    BY <1>0, <1>15 DEF Redeliver, runRow, TypeInv, TypeOK, StoreTypeOK
  <2>2. budget' \in [FaultKind -> Nat]
    BY <1>15, SpendType DEF Redeliver, FaultKind
  <2>3. ExecTypeOK' /\ BusyHasJob' /\ GaugeCovers'
    BY <1>15, <2>2 DEF Redeliver, worker, TypeInv, TypeOK, ExecTypeOK, BusyHasJob,
                       GaugeCovers, Executing
  <2> QED
    BY <2>1, <2>3 DEF TypeInv, TypeOK
<1>16. CASE UNCHANGED vars
  <2>1. StoreTypeOK'
    BY <1>16 DEF vars, store, TypeInv, TypeOK, StoreTypeOK
  <2>2. ExecTypeOK' /\ BusyHasJob' /\ GaugeCovers'
    BY <1>16 DEF vars, execVars, TypeInv, TypeOK, ExecTypeOK, BusyHasJob, GaugeCovers,
                 Executing
  <2> QED
    BY <2>1, <2>2 DEF TypeInv, TypeOK
<1> QED
  BY <1>1, <1>2, <1>3, <1>4, <1>5, <1>6, <1>7, <1>8, <1>9, <1>10, <1>11, <1>12,
     <1>13, <1>14, <1>15, <1>16
     DEF Next, ExecNext, Progress, Fault

\* TypeInv is an invariant; the proofs below start from it.
LEMMA TypeInvariant == Spec => []TypeInv
BY TypeInit, TypeStep, PTL DEF Spec

\* Every variable of the executor model keeps its type, for all parameters.
THEOREM TypeCorrect == Spec => []TypeOK
<1>1. TypeInv => TypeOK
  BY DEF TypeInv
<1> QED
  BY <1>1, TypeInvariant, PTL

-----------------------------------------------------------------------------
(* The status of a run, whoever else writes it.  These facts about a step  *)
(* of the executor do not assume that the statuses follow the machine, so  *)
(* they hold as well where cancel requests and deletions interfere.        *)

\* The executor neither inserts a run nor deletes one nor makes one QUEUED, and
\* it writes a status from three places only, of the run in the writer's hands.
LEMMA StatusMoves ==
    ASSUME TypeInv, [Next]_vars
    PROVE  /\ \A r \in Runs : status'[r] = NoRow <=> status[r] = NoRow
           /\ \A r \in Runs : status'[r] = "queued" => status[r] = "queued"
           /\ \A r \in Runs : status'[r] # status[r] =>
                 \E w \in Workers : job[w] = r /\ pc[w] \in {"orphaned", "ready", "running"}
<1> DEFINE Keeps == UNCHANGED status
           Sets == \E w \in Workers : \E st \in RunStatus \ {"queued"} :
                     /\ pc[w] \in {"orphaned", "ready", "running"}
                     /\ RowExists(w)
                     /\ status' = [status EXCEPT ![job[w]] = st]
<1>0. /\ status \in [Runs -> RunStatus \cup {NoRow}]
      /\ \A w \in Workers : pc[w] # "idle" => job[w] \in Runs
  BY BusyJob DEF TypeInv, TypeOK, StoreTypeOK
<1>1. ASSUME NEW w \in Workers, pc[w] = "running", NEW st \in RunStatus \ {"queued"}, NEW cnt,
             Close(w, st, cnt)
      PROVE  Keeps \/ Sets
  <2>1. CASE RowExists(w)
    BY <1>1, <2>1 DEF Close, CommitRun
  <2>2. CASE ~RowExists(w)
    BY <1>1, <2>2 DEF Close, Rollback, runRow
  <2> QED
    BY <2>1, <2>2
<1>2. ASSUME NEW w \in Workers, Progress(w)
      PROVE  Keeps \/ Sets
  <2>1. CASE MarkOrphan(w)
    <3>1. status' = [status EXCEPT ![job[w]] = IF @ = NoRow THEN NoRow ELSE "error"]
          /\ pc[w] = "orphaned" /\ job[w] \in Runs
      BY <1>0, <2>1 DEF MarkOrphan
    <3>2. CASE RowExists(w)
      BY <3>1, <3>2 DEF RowExists, RunStatus
    <3>3. CASE ~RowExists(w)
      BY <1>0, <3>1, <3>3 DEF RowExists
    <3> QED
      BY <3>2, <3>3
  <2>2. CASE Start(w)
    BY <2>2 DEF Start, RunStatus
  <2>3. CASE Finish(w)
    <3>1. Verdict(tally[w]) \in RunStatus \ {"queued"} /\ pc[w] = "running"
      BY <2>3 DEF Finish, Verdict, RunStatus
    <3> QED
      BY <1>1, <2>3, <3>1 DEF Finish
  <2>4. ASSUME ~(MarkOrphan(w) \/ Start(w) \/ Finish(w))
        PROVE  Keeps
    BY <1>2, <2>4 DEF Progress, Take, LoadSuite, AnnounceStart, Step, RejectStep,
                      AnnounceFinish, Rollback, runRow
  <2> QED
    BY <2>1, <2>2, <2>3, <2>4
<1>3. ASSUME Fault
      PROVE  Keeps \/ Sets
  <2>1. ASSUME NEW w \in Workers, Raise(w)
        PROVE  Keeps \/ Sets
    BY <1>1, <2>1 DEF Raise, RunStatus
  <2>2. ASSUME NEW w \in Workers, NEW fault, InterruptInside(w, fault)
        PROVE  Keeps
    BY <1>0, <2>2 DEF InterruptInside, CommitRun
  <2>3. ASSUME NEW w \in Workers, Interrupt(w)
        PROVE  Keeps
    BY <2>2, <2>3 DEF Interrupt, InterruptOutside, InterruptFlush, Rollback, runRow
  <2>4. ASSUME NEW w \in Workers, DbFailure(w) \/ CrashArqWorker(w)
        PROVE  Keeps
    BY <2>4 DEF DbFailure, Rollback, CrashArqWorker, Crash, runRow
  <2>5. ASSUME CrashApi
        PROVE  Keeps
    BY <2>5 DEF CrashApi, Crash, runRow
  <2>6. ASSUME NEW r \in Runs, Redeliver(r)
        PROVE  Keeps
    BY <2>6 DEF Redeliver, runRow
  <2> QED
    BY <1>3, <2>1, <2>3, <2>4, <2>5, <2>6 DEF Fault
<1>4. CASE UNCHANGED vars
  BY <1>4 DEF vars, store
<1>5. Keeps \/ Sets
  <2> HIDE DEF Keeps, Sets
  <2> QED
    BY <1>2, <1>3, <1>4 DEF Next, ExecNext, Keeps, vars, store
<1>6. CASE Keeps
  BY <1>6
<1>7. CASE Sets
  BY <1>0, <1>7 DEF RowExists, RunStatus, NoRow
<1> QED
  BY <1>5, <1>6, <1>7

-----------------------------------------------------------------------------
(* One executor per run.  What a step does to the queue and to the hands   *)
(* of the workers is one of a few moves; each but a second delivery keeps  *)
(* "at most one copy of a job, in the queue or in one worker's hands".     *)

\* A worker drops its job for good.
Drop == \E w \in Workers : job' = [job EXCEPT ![w] = NoRun] /\ UNCHANGED jobs

\* A worker's job goes back to the queue.
GiveBack ==
    \E w \in Workers : /\ job[w] \in Runs
                       /\ job' = [job EXCEPT ![w] = NoRun]
                       /\ jobs' = [jobs EXCEPT ![job[w]] = @ + 1]

\* A copy leaves the queue; an idle worker keeps it or finds it superfluous.
PickUp ==
    \E w \in Workers, r \in Runs :
        /\ jobs[r] > 0
        /\ job[w] = NoRun
        /\ jobs' = [jobs EXCEPT ![r] = @ - 1]
        /\ \/ UNCHANGED job
           \/ job' = [job EXCEPT ![w] = r]

\* A copy is added to the queue, of a run that is there.
Again ==
    /\ budget["redeliver"] > 0
    /\ UNCHANGED job
    /\ \E r \in Runs : status[r] # NoRow /\ jobs' = [jobs EXCEPT ![r] = @ + 1]

\* The API process dies with all its tasks.
LoseAll == job' = [w \in Workers |-> NoRun] /\ jobs' = [r \in Runs |-> 0]

LEMMA LeaveDropsJob ==
    ASSUME TypeInv, NEW w \in Workers, Leave({w})
    PROVE  job' = [job EXCEPT ![w] = NoRun]
BY DEF TypeInv, TypeOK, ExecTypeOK, Leave

LEMMA JobMoves ==
    ASSUME TypeInv, [Next]_vars
    PROVE  UNCHANGED <<job, jobs>> \/ Drop \/ GiveBack \/ PickUp \/ LoseAll \/ Again
<1> DEFINE Goal ==
      UNCHANGED <<job, jobs>> \/ Drop \/ GiveBack \/ PickUp \/ LoseAll \/ Again
<1>1. ASSUME NEW w \in Workers, NEW r \in Runs, Take(w, r)
      PROVE  Goal
  <2>1. job[w] = NoRun
    BY <1>1 DEF Take, TypeInv, BusyHasJob
  <2> QED
    BY <1>1, <2>1 DEF Take, Dequeue, PickUp
<1>2. ASSUME NEW w \in Workers,
             LoadSuite(w) \/ AnnounceStart(w) \/ Step(w)
      PROVE  Goal
  BY <1>2 DEF LoadSuite, AnnounceStart, Step
<1>3. ASSUME NEW w \in Workers,
             MarkOrphan(w) \/ RejectStep(w) \/ AnnounceFinish(w) \/ DbFailure(w)
      PROVE  Goal
  <2>1. Leave({w}) /\ UNCHANGED jobs
    BY <1>3 DEF MarkOrphan, RejectStep, AnnounceFinish, DbFailure
  <2> QED
    BY <2>1, LeaveDropsJob DEF Drop
<1>4. ASSUME NEW w \in Workers, Start(w) \/ Finish(w) \/ Raise(w)
      PROVE  Goal
  <2>1. UNCHANGED jobs /\ (UNCHANGED job \/ Leave({w}))
    BY <1>4 DEF Start, Finish, Raise, Close
  <2> QED
    BY <2>1, LeaveDropsJob DEF Drop
<1>5. ASSUME NEW w \in Workers, Interrupt(w)
      PROVE  Goal
  <2>1. PICK fault \in {"shutdown", "timeout"} :
          pc[w] # "idle" /\ Leave({w}) /\ Requeue(w, fault)
    BY <1>5 DEF Interrupt, InterruptOutside, InterruptInside, InterruptFlush
  <2>2. job[w] \in Runs
    BY <2>1, BusyJob
  <2> QED
    BY <2>1, <2>2, LeaveDropsJob DEF Requeue, Drop, GiveBack
<1>6. ASSUME NEW w \in Workers, CrashArqWorker(w)
      PROVE  Goal
  <2>1. job[w] \in Runs /\ Leave({w})
    BY <1>6, BusyJob DEF CrashArqWorker, Crash
  <2> QED
    BY <1>6, <2>1, LeaveDropsJob DEF CrashArqWorker, GiveBack
<1>7. CASE CrashApi
  <2>1. job' = [w \in Workers |-> NoRun]
    BY <1>7 DEF CrashApi, Crash, Leave
  <2> QED
    BY <1>7, <2>1 DEF CrashApi, LoseAll
<1>8. ASSUME NEW r \in Runs, Redeliver(r)
      PROVE  Goal
  BY <1>8 DEF Redeliver, Spend, worker, Again
<1>9. CASE UNCHANGED vars
  BY <1>9 DEF vars, execVars
<1> QED
  BY <1>1, <1>2, <1>3, <1>4, <1>5, <1>6, <1>7, <1>8, <1>9
     DEF Next, ExecNext, Progress, Fault

\* No step raises a bound on faults.
LEMMA BudgetFalls ==
    ASSUME TypeInv, NEW kind \in FaultKind, budget[kind] = 0, [Next]_vars
    PROVE  budget'[kind] = 0
<1>1. ASSUME NEW w \in Workers, Progress(w)
      PROVE  UNCHANGED budget
  BY <1>1 DEF Progress, Take, LoadSuite, MarkOrphan, Start, AnnounceStart, Step,
              RejectStep, Finish, AnnounceFinish
<1>2. ASSUME NEW fault \in FaultKind, Spend(fault)
      PROVE  budget'[kind] = 0
  BY <1>2 DEF Spend, TypeInv, TypeOK, ExecTypeOK
<1>3. ASSUME Fault
      PROVE  \E fault \in FaultKind : Spend(fault)
  BY <1>3 DEF Fault, Raise, DbFailure, LockedOut, Interrupt, InterruptOutside,
              InterruptInside, InterruptFlush, CrashArqWorker, CrashApi, Crash, Redeliver,
              FaultKind
<1>4. CASE UNCHANGED vars
  BY <1>4 DEF vars, execVars
<1> QED
  BY <1>1, <1>2, <1>3, <1>4 DEF Next, ExecNext

\* The strengthening: counting the queue and the hands together.
OneCopy ==
    /\ TypeInv
    /\ budget["redeliver"] = 0
    /\ \A r \in Runs : jobs[r] <= 1
    /\ \A w \in Workers : job[w] # NoRun => jobs[job[w]] = 0
    /\ AtMostOneExecutor

LEMMA OneCopyInit == Budget["redeliver"] = 0 /\ Init => OneCopy
<1> SUFFICES ASSUME Budget["redeliver"] = 0, Init
             PROVE  OneCopy
  OBVIOUS
<1>1. \A r \in Runs : jobs[r] <= 1
  BY DEF Init, StoreInit
<1>2. \A w \in Workers : job[w] = NoRun
  BY DEF Init, ExecInit
<1> QED
  BY <1>1, <1>2, TypeInit DEF Init, ExecInit, OneCopy, AtMostOneExecutor

LEMMA OneCopyStep == OneCopy /\ [Next]_vars => OneCopy'
<1> SUFFICES ASSUME OneCopy, [Next]_vars
             PROVE  OneCopy'
  OBVIOUS
<1>1. TypeInv' /\ budget'["redeliver"] = 0
  BY TypeStep, BudgetFalls DEF OneCopy, FaultKind
<1>2. /\ job \in [Workers -> Runs \cup {NoRun}]
      /\ jobs \in [Runs -> Nat]
      /\ NoRun \notin Runs
  BY StoreAssumption DEF OneCopy, TypeInv, TypeOK, StoreTypeOK, ExecTypeOK
<1>3. CASE UNCHANGED <<job, jobs>>
  BY <1>1, <1>3 DEF OneCopy, AtMostOneExecutor
<1>4. CASE Drop
  BY <1>1, <1>2, <1>4 DEF Drop, OneCopy, AtMostOneExecutor
<1>5. CASE GiveBack
  BY <1>1, <1>2, <1>5 DEF GiveBack, OneCopy, AtMostOneExecutor
<1>6. CASE PickUp
  BY <1>1, <1>2, <1>6 DEF PickUp, OneCopy, AtMostOneExecutor
<1>7. CASE LoseAll
  BY <1>1, <1>7 DEF LoseAll, OneCopy, AtMostOneExecutor
<1>8. ~Again
  BY DEF Again, OneCopy
<1> QED
  BY <1>3, <1>4, <1>5, <1>6, <1>7, <1>8, JobMoves DEF OneCopy

\* Unless a job is delivered twice, no two workers ever execute the same run,
\* through any number of crashes, shutdowns, timeouts and database failures.
THEOREM OneExecutor ==
    ASSUME Budget["redeliver"] = 0
    PROVE  Spec => []AtMostOneExecutor
<1>1. Init => OneCopy
  BY OneCopyInit
<1>2. OneCopy => AtMostOneExecutor
  BY DEF OneCopy
<1> QED
  BY <1>1, <1>2, OneCopyStep, PTL DEF Spec

-----------------------------------------------------------------------------
(* The status machine.  With one executor per run, the status of a run is  *)
(* what its executor last made it, and every write of the executor is an   *)
(* edge of the machine.                                                    *)

HandFits(w) ==
    /\ pc[w] \in {"loaded", "orphaned", "ready"} => status[job[w]] = "queued"
    /\ Executing(w) => status[job[w]] = "running"
    /\ pc[w] = "closing" => status[job[w]] \in Terminal

StatusInv == OneCopy /\ \A w \in Workers : HandFits(w)

\* A step of one worker on its own run leaves the others as they were.
LEMMA OthersFit ==
    ASSUME StatusInv, NEW w \in Workers, HandFits(w)',
           \A v \in Workers \ {w} : pc'[v] = pc[v] /\ job'[v] = job[v],
           \A r \in Runs : r # job[w] => status'[r] = status[r]
    PROVE  \A v \in Workers : HandFits(v)'
<1> SUFFICES ASSUME NEW v \in Workers, v # w
             PROVE  HandFits(v)'
  OBVIOUS
<1>1. HandFits(v) /\ pc'[v] = pc[v] /\ job'[v] = job[v]
  BY DEF StatusInv
<1>2. CASE pc[v] = "idle"
  BY <1>1, <1>2 DEF HandFits, Executing
<1>3. CASE pc[v] # "idle"
  <2>1. job[v] \in Runs
    BY <1>3, BusyJob DEF StatusInv, OneCopy
  <2>2. job[v] # job[w]
    BY <2>1, StoreAssumption DEF StatusInv, OneCopy, AtMostOneExecutor
  <2> QED
    BY <1>1, <2>1, <2>2 DEF HandFits, Executing
<1> QED
  BY <1>2, <1>3

\* A worker that leaves without writing the status of any run.
LEMMA LeaveFits ==
    ASSUME StatusInv, NEW w \in Workers, Leave({w}),
           \A r \in Runs : r # job[w] => status'[r] = status[r]
    PROVE  \A v \in Workers : HandFits(v)'
<1>1. HandFits(w)'
  BY DEF Leave, HandFits, Executing
<1>2. \A v \in Workers \ {w} : pc'[v] = pc[v] /\ job'[v] = job[v]
  BY DEF Leave
<1> QED
  BY <1>1, <1>2, OthersFit

\* Close writes a status only over RUNNING.
LEMMA CloseFits ==
    ASSUME StatusInv, NEW w \in Workers, pc[w] = "running",
           NEW st \in {"passed", "failed", "error"}, NEW cnt, Close(w, st, cnt)
    PROVE  /\ \A v \in Workers : HandFits(v)'
           /\ Life!Next
<1>1. job[w] \in Runs /\ status[job[w]] = "running"
  BY BusyJob DEF StatusInv, OneCopy, HandFits, Executing
<1>2. CommitRun(w, st, cnt) /\ Goto(w, "closing") /\ UNCHANGED job
  BY <1>1 DEF Close, RowExists, NoRow
<1>3. pc \in [Workers -> Phase] /\ status \in [Runs -> RunStatus \cup {NoRow}]
  BY DEF StatusInv, OneCopy, TypeInv, TypeOK, StoreTypeOK, ExecTypeOK
<1>4. status' = [status EXCEPT ![job[w]] = st]
  BY <1>2 DEF CommitRun
<1>5. HandFits(w)'
  BY <1>1, <1>2, <1>3, <1>4 DEF Goto, HandFits, Executing, Terminal
<1>6. \A v \in Workers : HandFits(v)'
  BY <1>2, <1>3, <1>4, <1>5, OthersFit DEF Goto
<1>7. Life!Next
  BY <1>1, <1>3, <1>4 DEF Life!Next, Life!After, Life!NoRow
<1> QED
  BY <1>6, <1>7

\* Every step keeps the invariant, and moves the statuses along the machine.
LEMMA StatusStep ==
    ASSUME StatusInv, [Next]_vars
    PROVE  StatusInv' /\ [Life!Next]_status
<1> DEFINE Goal == (\A v \in Workers : HandFits(v)') /\ [Life!Next]_status
<1>0. /\ pc \in [Workers -> Phase]
      /\ job \in [Workers -> Runs \cup {NoRun}]
      /\ status \in [Runs -> RunStatus \cup {NoRow}]
  BY DEF StatusInv, OneCopy, TypeInv, TypeOK, StoreTypeOK, ExecTypeOK
<1>1. ASSUME NEW w \in Workers, NEW r \in Runs, Take(w, r)
      PROVE  Goal
  <2>1. UNCHANGED status
    BY <1>1 DEF Take, runRow
  <2>2. HandFits(w)'
    BY <1>0, <1>1, <2>1 DEF Take, Runnable, Goto, HandFits, Executing
  <2>3. \A v \in Workers \ {w} : pc'[v] = pc[v] /\ job'[v] = job[v]
    BY <1>0, <1>1 DEF Take, Goto
  <2> QED
    BY <2>1, <2>2, <2>3, OthersFit
<1>2. ASSUME NEW w \in Workers, LoadSuite(w) \/ AnnounceStart(w) \/ Step(w)
      PROVE  Goal
  <2>1. UNCHANGED <<status, job>>
    BY <1>2 DEF LoadSuite, AnnounceStart, Step, runRow
  <2>2. HandFits(w)
    BY DEF StatusInv
  <2>3. HandFits(w)'
    BY <1>0, <1>2, <2>1, <2>2 DEF LoadSuite, AnnounceStart, Step, Goto, HandFits, Executing
  <2>4. \A v \in Workers \ {w} : pc'[v] = pc[v] /\ job'[v] = job[v]
    BY <1>0, <1>2, <2>1 DEF LoadSuite, AnnounceStart, Step, Goto
  <2> QED
    BY <2>1, <2>3, <2>4, OthersFit
<1>3. ASSUME NEW w \in Workers, MarkOrphan(w)
      PROVE  Goal
  <2>1. job[w] \in Runs /\ status[job[w]] = "queued" /\ Leave({w})
    BY <1>3, BusyJob DEF MarkOrphan, StatusInv, OneCopy, HandFits
  <2>2. status' = [status EXCEPT ![job[w]] = "error"]
    BY <1>3, <2>1 DEF MarkOrphan, NoRow
  <2>3. \A v \in Workers : HandFits(v)'
    BY <1>0, <2>1, <2>2, LeaveFits
  <2>4. Life!Next
    BY <1>0, <2>1, <2>2 DEF Life!Next, Life!After, Life!NoRow
  <2> QED
    BY <2>3, <2>4
<1>4. ASSUME NEW w \in Workers, Start(w)
      PROVE  Goal
  <2>1. job[w] \in Runs /\ status[job[w]] = "queued"
    BY <1>4, BusyJob DEF Start, StatusInv, OneCopy, HandFits
  <2>2. CASE StampsFit
    <3>1. status' = [status EXCEPT ![job[w]] = "running"] /\ Goto(w, "begun")
          /\ UNCHANGED job
      BY <1>4, <2>1, <2>2 DEF Start, RowExists, NoRow
    <3>2. HandFits(w)'
      BY <1>0, <2>1, <3>1 DEF Goto, HandFits, Executing
    <3>3. \A v \in Workers : HandFits(v)'
      BY <1>0, <3>1, <3>2, OthersFit DEF Goto
    <3>4. Life!Next
      BY <1>0, <2>1, <3>1 DEF Life!Next, Life!After, Life!NoRow
    <3> QED
      BY <3>3, <3>4
  <2>3. CASE ~StampsFit
    <3>1. Leave({w}) /\ UNCHANGED status
      BY <1>4, <2>3 DEF Start
    <3> QED
      BY <3>1, LeaveFits
  <2> QED
    BY <2>2, <2>3
<1>5. ASSUME NEW w \in Workers, Finish(w)
      PROVE  Goal
  <2>1. Verdict(tally[w]) \in {"passed", "failed", "error"}
    BY DEF Verdict
  <2> QED
    BY <1>5, <2>1, CloseFits DEF Finish
<1>6. ASSUME NEW w \in Workers, Raise(w)
      PROVE  Goal
  BY <1>6, CloseFits DEF Raise
<1>7. ASSUME NEW w \in Workers, RejectStep(w) \/ AnnounceFinish(w) \/ DbFailure(w)
      PROVE  Goal
  <2>1. Leave({w}) /\ UNCHANGED status
    BY <1>7 DEF RejectStep, AnnounceFinish, DbFailure, Rollback, runRow
  <2> QED
    BY <2>1, LeaveFits
<1>8. ASSUME NEW w \in Workers, Interrupt(w)
      PROVE  Goal
  <2>1. PICK fault \in {"shutdown", "timeout"} :
          \/ InterruptOutside(w, fault)
          \/ InterruptInside(w, fault)
          \/ InterruptFlush(w, fault)
    BY <1>8 DEF Interrupt
  <2>2. Leave({w})
    BY <2>1 DEF InterruptOutside, InterruptInside, InterruptFlush
  <2>3. UNCHANGED status
    BY <1>0, <2>1 DEF InterruptOutside, InterruptInside, InterruptFlush, CommitRun,
                      Rollback, runRow
  <2> QED
    BY <2>2, <2>3, LeaveFits
<1>9. ASSUME NEW w \in Workers, CrashArqWorker(w)
      PROVE  Goal
  <2>1. Leave({w}) /\ UNCHANGED status
    BY <1>9 DEF CrashArqWorker, Crash, runRow
  <2> QED
    BY <2>1, LeaveFits
<1>10. ASSUME CrashApi
       PROVE  Goal
  <2>1. UNCHANGED status /\ pc' = [w \in Workers |-> "idle"]
    BY <1>10 DEF CrashApi, Crash, Leave, runRow
  <2>2. ASSUME NEW v \in Workers
        PROVE  HandFits(v)'
    <3>1. pc'[v] = "idle"
      BY <2>1
    <3> QED
      BY <3>1 DEF HandFits, Executing
  <2> QED
    BY <2>1, <2>2
<1>11. ASSUME UNCHANGED <<status, pc, job>>
       PROVE  Goal
  BY <1>11 DEF StatusInv, HandFits, Executing
<1>12. Goal
  <2>1. ASSUME NEW r \in Runs, Redeliver(r)
        PROVE  UNCHANGED <<status, pc, job>>
    BY <2>1 DEF Redeliver, worker, runRow
  <2>2. CASE UNCHANGED vars
    <3>1. UNCHANGED <<status, pc, job>>
      BY <2>2 DEF vars, store, execVars
    <3> QED
      BY <1>11, <3>1
  <2>3. ASSUME NEW w \in Workers, Progress(w)
        PROVE  Goal
    <3> HIDE DEF Goal
    <3> QED
      BY <1>1, <1>2, <1>3, <1>4, <1>5, <1>7, <2>3 DEF Progress
  <2>4. CASE Fault
    <3> HIDE DEF Goal
    <3> QED
      BY <1>6, <1>7, <1>8, <1>9, <1>10, <1>11, <2>1, <2>4 DEF Fault
  <2> QED
    BY <2>2, <2>3, <2>4 DEF Next, ExecNext
<1>13. OneCopy'
  BY OneCopyStep DEF StatusInv
<1> QED
  BY <1>12, <1>13 DEF StatusInv

LEMMA StatusInit == Budget["redeliver"] = 0 /\ Init => StatusInv
<1> SUFFICES ASSUME Budget["redeliver"] = 0, Init
             PROVE  StatusInv
  OBVIOUS
<1>1. \A w \in Workers : pc[w] = "idle"
  BY DEF Init, ExecInit
<1> QED
  BY <1>1, OneCopyInit DEF StatusInv, HandFits, Executing

\* The executor implements the status machine: every step of any worker, and
\* every fault, is an edge of it or changes no status.
THEOREM ExecutorRefinesLifecycle ==
    ASSUME Budget["redeliver"] = 0
    PROVE  Spec => StatusMachine
<1>1. Init => Life!Init
  BY DEF Init, StoreInit, Life!Init, Life!NoRow
<1>2. Init => StatusInv
  BY StatusInit
<1>3. StatusInv /\ [Next]_vars => StatusInv' /\ [Life!Next]_status
  BY StatusStep
<1> QED
  BY <1>1, <1>2, <1>3, PTL DEF Spec, StatusMachine, Life!Spec

-----------------------------------------------------------------------------
(* Queued runs are never lost.  With arq, a worker that gives up a run     *)
(* before it has begun puts its job back; only a job timeout and a         *)
(* database error discard it.  A worker that is about to announce the end  *)
(* of a run drops the job, too, but its run is not QUEUED any more.        *)

EndsDecided == \A w \in Workers : pc[w] = "closing" => status[job[w]] # "queued"

LEMMA EndsDecidedStep ==
    ASSUME TypeInv, EndsDecided, [Next]_vars
    PROVE  EndsDecided'
<1> DEFINE Decides(w) == job'[w] = job[w] /\ status'[job[w]] # "queued"
           Goal == \A w \in Workers : pc'[w] = "closing" =>
                     (pc[w] = "closing" /\ job'[w] = job[w]) \/ Decides(w)
<1>0. /\ pc \in [Workers -> Phase]
      /\ status \in [Runs -> RunStatus \cup {NoRow}]
      /\ \A w \in Workers : pc[w] # "idle" => job[w] \in Runs
  BY BusyJob DEF TypeInv, TypeOK, StoreTypeOK, ExecTypeOK
<1>1. ASSUME NEW w \in Workers, pc[w] = "running", NEW st \in {"passed", "failed", "error"},
             NEW cnt, Close(w, st, cnt)
      PROVE  Goal
  <2>1. CASE RowExists(w)
    <3>1. Goto(w, "closing") /\ UNCHANGED job /\ status' = [status EXCEPT ![job[w]] = st]
      BY <1>1, <2>1 DEF Close, CommitRun
    <3>2. Decides(w)
      BY <1>0, <1>1, <3>1
    <3>3. \A v \in Workers \ {w} : pc'[v] = pc[v] /\ job'[v] = job[v]
      BY <1>0, <3>1 DEF Goto
    <3> QED
      BY <3>2, <3>3
  <2>2. CASE ~RowExists(w)
    BY <1>1, <2>2 DEF Close, Leave
  <2> QED
    BY <2>1, <2>2
<1>2. ASSUME NEW ws \in SUBSET Workers, Leave(ws)
      PROVE  Goal
  BY <1>2 DEF Leave
<1>3. ASSUME NEW w \in Workers, NEW phase \in Phase \ {"closing"}, Goto(w, phase),
             \A v \in Workers \ {w} : job'[v] = job[v]
      PROVE  Goal
  BY <1>0, <1>3 DEF Goto
<1>4. ASSUME UNCHANGED <<pc, job>>
      PROVE  Goal
  BY <1>4
<1>5. ASSUME NEW w \in Workers, Progress(w)
      PROVE  Goal
  <2> HIDE DEF Goal
  <2>1. ASSUME NEW r \in Runs, Take(w, r)
        PROVE  Goal
    <3>1. \A v \in Workers \ {w} : job'[v] = job[v]
      BY <2>1 DEF Take, TypeInv, TypeOK, ExecTypeOK
    <3> QED
      BY <1>3, <1>4, <2>1, <3>1 DEF Take, Phase
  <2>2. CASE LoadSuite(w) \/ AnnounceStart(w)
    BY <1>3, <2>2 DEF LoadSuite, AnnounceStart, Phase
  <2>3. CASE Step(w)
    BY <1>4, <2>3 DEF Step
  <2>4. CASE Start(w)
    BY <1>2, <1>3, <2>4 DEF Start, Phase
  <2>5. CASE Finish(w)
    BY <1>1, <2>5 DEF Finish, Verdict
  <2>6. CASE MarkOrphan(w) \/ RejectStep(w) \/ AnnounceFinish(w)
    BY <1>2, <2>6 DEF MarkOrphan, RejectStep, AnnounceFinish
  <2> QED
    BY <1>5, <2>1, <2>2, <2>3, <2>4, <2>5, <2>6 DEF Progress
<1>6. ASSUME Fault
      PROVE  Goal
  <2> HIDE DEF Goal
  <2>1. ASSUME NEW w \in Workers, Raise(w)
        PROVE  Goal
    BY <1>1, <2>1 DEF Raise
  <2>2. ASSUME NEW w \in Workers, DbFailure(w) \/ Interrupt(w) \/ CrashArqWorker(w)
        PROVE  Goal
    BY <1>2, <2>2 DEF DbFailure, Interrupt, InterruptOutside, InterruptInside,
                      InterruptFlush, CrashArqWorker, Crash
  <2>3. ASSUME CrashApi
        PROVE  Goal
    BY <1>2, <2>3 DEF CrashApi, Crash
  <2>4. ASSUME NEW r \in Runs, Redeliver(r)
        PROVE  Goal
    BY <1>4, <2>4 DEF Redeliver, worker
  <2> QED
    BY <1>6, <2>1, <2>2, <2>3, <2>4 DEF Fault
<1>7. ASSUME UNCHANGED vars
      PROVE  Goal
  BY <1>4, <1>7 DEF vars, execVars
<1>8. Goal
  <2> HIDE DEF Goal
  <2> QED
    BY <1>5, <1>6, <1>7 DEF Next, ExecNext
<1>9. ASSUME NEW w \in Workers, pc'[w] = "closing"
      PROVE  status'[job'[w]] # "queued"
  <2>1. CASE pc[w] = "closing" /\ job'[w] = job[w]
    <3>1. job[w] \in Runs /\ status[job[w]] # "queued"
      BY <1>0, <2>1 DEF EndsDecided
    <3> QED
      BY <2>1, <3>1, StatusMoves
  <2>2. CASE Decides(w)
    BY <2>2
  <2> QED
    BY <1>8, <1>9, <2>1, <2>2
<1> QED
  BY <1>9 DEF EndsDecided

\* No statement and no commit fails, for want of a lock or otherwise.
Undisturbed == budget["db"] = 0 /\ (EnforcesFK \/ budget["locked"] = 0)

LEMMA NoDbFailure == Undisturbed => \A w \in Workers : ~DbFailure(w)
BY DEF Undisturbed, DbFailure, LockedOut, Outlasts, EnforcesFK, Spend

LEMMA UndisturbedStep ==
    ASSUME TypeInv, Undisturbed, [Next]_vars
    PROVE  Undisturbed'
BY BudgetFalls DEF Undisturbed, FaultKind

\* A QUEUED run that is accounted for stays so.
LEMMA QueuedStays ==
    ASSUME Dispatcher = "arq", StampsFit, TypeInv, budget["timeout"] = 0, Undisturbed,
           EndsDecided, [Next]_vars, NEW r \in Runs, status'[r] = "queued", Accounted(r)
    PROVE  Accounted(r)'
<1>0. /\ status[r] = "queued"
      /\ pc \in [Workers -> Phase]
      /\ job \in [Workers -> Runs \cup {NoRun}]
      /\ jobs \in [Runs -> Nat]
      /\ status \in [Runs -> RunStatus \cup {NoRow}]
      /\ \A w \in Workers : pc[w] # "idle" => job[w] \in Runs
  BY StatusMoves, BusyJob DEF TypeInv, TypeOK, StoreTypeOK, ExecTypeOK
<1>1. ASSUME NEW w \in Workers, Leave({w}), UNCHANGED jobs, job[w] # r
      PROVE  Accounted(r)'
  <2>1. job' = [job EXCEPT ![w] = NoRun]
    BY <1>1, LeaveDropsJob
  <2> QED
    BY <1>0, <1>1, <2>1 DEF Accounted
<1>2. ASSUME UNCHANGED <<job, jobs>>
      PROVE  Accounted(r)'
  BY <1>2 DEF Accounted
<1>3. ASSUME NEW w \in Workers, pc[w] # "idle", Leave({w}),
             jobs' = [jobs EXCEPT ![job[w]] = @ + 1]
      PROVE  Accounted(r)'
  <2>1. job' = [job EXCEPT ![w] = NoRun] /\ job[w] \in Runs
    BY <1>0, <1>3, LeaveDropsJob
  <2>2. CASE r = job[w]
    BY <1>0, <1>3, <2>1, <2>2 DEF Accounted
  <2>3. CASE r # job[w]
    BY <1>0, <1>3, <2>1, <2>3 DEF Accounted
  <2> QED
    BY <2>2, <2>3
<1>4. ASSUME NEW w \in Workers, NEW st, NEW cnt, Close(w, st, cnt), UNCHANGED jobs
      PROVE  Accounted(r)'
  <2>1. CASE RowExists(w)
    BY <1>2, <1>4, <2>1 DEF Close
  <2>2. CASE ~RowExists(w)
    BY <1>0, <1>1, <1>4, <2>2 DEF Close, RowExists, NoRow
  <2> QED
    BY <2>1, <2>2
<1>5. ASSUME NEW w \in Workers, NEW q \in Runs, Take(w, q)
      PROVE  Accounted(r)'
  <2>1. job[w] = NoRun
    BY <1>5 DEF Take, TypeInv, BusyHasJob
  <2>2. CASE q = r
    BY <1>0, <1>5, <2>2 DEF Take, Runnable, Accounted
  <2>3. CASE q # r
    <3>1. jobs'[r] = jobs[r]
      BY <1>0, <1>5, <2>3 DEF Take, Dequeue
    <3>2. \A v \in Workers : job[v] = r => job'[v] = r
      BY <1>0, <1>5, <2>1, StoreAssumption DEF Take
    <3> QED
      BY <3>1, <3>2 DEF Accounted
  <2> QED
    BY <2>2, <2>3
<1>6. ASSUME NEW w \in Workers, Progress(w)
      PROVE  Accounted(r)'
  <2>1. CASE LoadSuite(w) \/ AnnounceStart(w) \/ Step(w)
    BY <1>2, <2>1 DEF LoadSuite, AnnounceStart, Step
  <2>2. CASE MarkOrphan(w)
    BY <1>0, <1>1, <2>2 DEF MarkOrphan, NoRow
  <2>3. CASE Start(w)
    BY <1>0, <1>1, <1>2, <2>3 DEF Start, RowExists, NoRow
  <2>4. CASE RejectStep(w)
    BY <1>0, <1>1, <2>4 DEF RejectStep, RowExists, NoRow
  <2>5. CASE Finish(w)
    BY <1>4, <2>5 DEF Finish
  <2>6. CASE AnnounceFinish(w)
    BY <1>0, <1>1, <2>6 DEF AnnounceFinish, EndsDecided
  <2> QED
    BY <1>5, <1>6, <2>1, <2>2, <2>3, <2>4, <2>5, <2>6 DEF Progress
<1>7. ASSUME Fault
      PROVE  Accounted(r)'
  <2>1. ASSUME NEW w \in Workers, Raise(w)
        PROVE  Accounted(r)'
    BY <1>4, <2>1 DEF Raise
  <2>2. ASSUME NEW w \in Workers
        PROVE  ~DbFailure(w)
    BY NoDbFailure
  <2>3. ASSUME NEW w \in Workers, Interrupt(w)
        PROVE  Accounted(r)'
    <3>1. PICK fault \in {"shutdown", "timeout"} :
            Spend(fault) /\ pc[w] # "idle" /\ Leave({w}) /\ Requeue(w, fault)
      BY <2>3 DEF Interrupt, InterruptOutside, InterruptInside, InterruptFlush
    <3>2. fault = "shutdown"
      BY <3>1 DEF Spend
    <3> QED
      BY <1>3, <3>1, <3>2 DEF Requeue
  <2>4. ASSUME NEW w \in Workers, CrashArqWorker(w)
        PROVE  Accounted(r)'
    BY <1>3, <2>4 DEF CrashArqWorker, Crash
  <2>5. ~CrashApi
    BY DEF CrashApi
  <2>6. ASSUME NEW q \in Runs, Redeliver(q)
        PROVE  Accounted(r)'
    <3>1. UNCHANGED job /\ jobs' = [jobs EXCEPT ![q] = @ + 1]
      BY <2>6 DEF Redeliver, worker
    <3> QED
      BY <1>0, <3>1 DEF Accounted
  <2> QED
    BY <1>7, <2>1, <2>2, <2>3, <2>4, <2>5, <2>6 DEF Fault
<1>8. ASSUME UNCHANGED vars
      PROVE  Accounted(r)'
  BY <1>2, <1>8 DEF vars, execVars
<1> QED
  BY <1>6, <1>7, <1>8 DEF Next, ExecNext

QueueInv ==
    /\ TypeInv
    /\ budget["timeout"] = 0 /\ Undisturbed
    /\ EndsDecided
    /\ QueuedNeverLost

\* With arq, and timestamps the database takes, no number of worker crashes,
\* shutdowns, raising steps and duplicated deliveries loses a run that is QUEUED:
\* its job is in the queue, or a worker has it.  (On SQLite nobody may give up waiting
\* for the write lock.)
THEOREM QueuedRunsSurvive ==
    ASSUME Dispatcher = "arq", StampsFit, Budget["timeout"] = 0, Budget["db"] = 0,
           EnforcesFK \/ Budget["locked"] = 0
    PROVE  Spec => []QueuedNeverLost
<1>1. Init => QueueInv
  <2> SUFFICES ASSUME Init
               PROVE  QueueInv
    OBVIOUS
  <2>1. budget["timeout"] = 0 /\ Undisturbed /\ EndsDecided
    BY DEF Init, ExecInit, Undisturbed, EndsDecided
  <2>2. QueuedNeverLost
    BY DEF Init, StoreInit, QueuedNeverLost, Accounted
  <2> QED
    BY <2>1, <2>2, TypeInit DEF QueueInv
<1>2. QueueInv /\ [Next]_vars => QueueInv'
  <2> SUFFICES ASSUME QueueInv, [Next]_vars
               PROVE  QueueInv'
    OBVIOUS
  <2>1. TypeInv' /\ EndsDecided'
    BY TypeStep, EndsDecidedStep DEF QueueInv
  <2>2. budget'["timeout"] = 0 /\ Undisturbed'
    BY BudgetFalls, UndisturbedStep DEF QueueInv, FaultKind
  <2>3. ASSUME NEW r \in Runs, status'[r] = "queued"
        PROVE  Accounted(r)'
    <3>1. status[r] = "queued"
      BY <2>3, StatusMoves DEF QueueInv
    <3>2. Accounted(r)
      BY <3>1 DEF QueueInv, QueuedNeverLost
    <3> QED
      BY <2>3, <3>2, QueuedStays DEF QueueInv
  <2> QED
    BY <2>1, <2>2, <2>3 DEF QueueInv, QueuedNeverLost
<1>3. QueueInv => QueuedNeverLost
  BY DEF QueueInv
<1> QED
  BY <1>1, <1>2, <1>3, PTL DEF Spec

-----------------------------------------------------------------------------
(* Results appear at the finish.  Uncommitted rows belong to the run of    *)
(* the worker that is in its step loop, so the commit that makes them      *)
(* visible is the one that sets finished_at.                               *)

PendingHeld ==
    \A row \in pending : pc[row.by] = "running" /\ job[row.by] = row.run

ResultsInv == TypeInv /\ PendingHeld /\ ResultsAppearAtFinish

\* A call that is over, or not in the loop, takes its rows along.
LEMMA LeavePending ==
    ASSUME ResultsInv, NEW w \in Workers, Leave({w}),
           pending' = pending \ PendingBy(w)
    PROVE  PendingHeld'
<1> SUFFICES ASSUME NEW row \in pending'
             PROVE  pc'[row.by] = "running" /\ job'[row.by] = row.run
  BY DEF PendingHeld
<1>1. row \in pending /\ row.by # w
  BY DEF PendingBy
<1>2. row.by \in Workers
  BY <1>1 DEF ResultsInv, TypeInv, TypeOK, StoreTypeOK, StepRow
<1> QED
  BY <1>1, <1>2 DEF Leave, ResultsInv, PendingHeld

\* No rows wait for a worker outside its loop.
LEMMA NothingPending ==
    ASSUME ResultsInv, NEW w \in Workers, pc[w] # "running"
    PROVE  pending = pending \ PendingBy(w)
BY DEF ResultsInv, PendingHeld, PendingBy

\* The commit makes rows visible for the run whose finished_at it sets.
LEMMA CommitAppears ==
    ASSUME ResultsInv, NEW w \in Workers, job[w] \in Runs, NEW st, NEW cnt,
           CommitRun(w, st, cnt), st # NoRow
    PROVE  ResultsAppearAtFinish'
<1> SUFFICES ASSUME NEW r \in Runs, NEW row \in results', row.run = r
             PROVE  finished'[r] \/ status'[r] = NoRow
  BY DEF ResultsAppearAtFinish, RowsOf
<1>0. finished \in [Runs -> BOOLEAN] /\ status \in [Runs -> RunStatus \cup {NoRow}]
  BY DEF ResultsInv, TypeInv, TypeOK, StoreTypeOK
<1>1. CASE r = job[w]
  BY <1>0, <1>1 DEF CommitRun
<1>2. CASE r # job[w]
  <2>1. row \in results
    BY <1>2 DEF CommitRun, PendingBy, ResultsInv, PendingHeld
  <2>2. finished[r] \/ status[r] = NoRow
    BY <2>1 DEF ResultsInv, ResultsAppearAtFinish, RowsOf
  <2> QED
    BY <1>0, <1>2, <2>2 DEF CommitRun
<1> QED
  BY <1>1, <1>2

\* Steps that make no row visible and bring no run back.
LEMMA NothingAppears ==
    ASSUME ResultsInv, UNCHANGED <<finished, results>>,
           \A r \in Runs : status[r] = NoRow => status'[r] = NoRow
    PROVE  ResultsAppearAtFinish'
BY DEF ResultsInv, ResultsAppearAtFinish, RowsOf

LEMMA CloseAppears ==
    ASSUME ResultsInv, NEW w \in Workers, pc[w] = "running", NEW st, NEW cnt,
           Close(w, st, cnt), st # NoRow
    PROVE  PendingHeld' /\ ResultsAppearAtFinish'
<1>0. job[w] \in Runs
  BY BusyJob DEF ResultsInv
<1>1. CASE RowExists(w)
  <2>1. CommitRun(w, st, cnt) /\ Goto(w, "closing") /\ UNCHANGED job
    BY <1>1 DEF Close
  <2>2. PendingHeld'
    <3> SUFFICES ASSUME NEW row \in pending'
                 PROVE  pc'[row.by] = "running" /\ job'[row.by] = row.run
      BY DEF PendingHeld
    <3>1. row \in pending /\ row.by # w
      BY <2>1 DEF CommitRun, PendingBy
    <3>2. row.by \in Workers /\ pc \in [Workers -> Phase]
      BY <3>1 DEF ResultsInv, TypeInv, TypeOK, StoreTypeOK, ExecTypeOK, StepRow
    <3> QED
      BY <2>1, <3>1, <3>2 DEF Goto, ResultsInv, PendingHeld
  <2> QED
    BY <1>0, <2>1, <2>2, CommitAppears
<1>2. CASE ~RowExists(w)
  <2>1. Leave({w}) /\ Rollback(w)
    BY <1>2 DEF Close
  <2>2. pending' = pending \ PendingBy(w) /\ UNCHANGED <<finished, results, status>>
    BY <2>1 DEF Rollback, runRow
  <2> QED
    BY <2>1, <2>2, LeavePending, NothingAppears
<1> QED
  BY <1>1, <1>2

LEMMA ResultsStep ==
    ASSUME ResultsInv, [Next]_vars
    PROVE  PendingHeld' /\ ResultsAppearAtFinish'
<1> DEFINE Goal == PendingHeld' /\ ResultsAppearAtFinish'
<1>0. /\ pc \in [Workers -> Phase]
      /\ job \in [Workers -> Runs \cup {NoRun}]
      /\ status \in [Runs -> RunStatus \cup {NoRow}]
      /\ \A row \in pending : row.by \in Workers /\ row.run \in Runs
  BY DEF ResultsInv, TypeInv, TypeOK, StoreTypeOK, ExecTypeOK, StepRow
<1>1. ASSUME NEW w \in Workers, pc[w] # "running", UNCHANGED <<pending, finished, results>>,
             \A v \in Workers \ {w} : pc'[v] = pc[v] /\ job'[v] = job[v],
             \A r \in Runs : status[r] = NoRow => status'[r] = NoRow
      PROVE  Goal
  <2>1. PendingHeld'
    BY <1>0, <1>1 DEF ResultsInv, PendingHeld
  <2> QED
    BY <1>1, <2>1, NothingAppears
<1>2. ASSUME NEW w \in Workers, Progress(w)
      PROVE  Goal
  <2>1. ASSUME NEW r \in Runs, Take(w, r)
        PROVE  Goal
    <3>1. UNCHANGED <<status, pending, finished, results>> /\ pc[w] # "running"
      BY <2>1 DEF Take, runRow
    <3>2. \A v \in Workers \ {w} : pc'[v] = pc[v] /\ job'[v] = job[v]
      BY <1>0, <2>1 DEF Take, Goto
    <3> QED
      BY <1>1, <3>1, <3>2
  <2>2. CASE LoadSuite(w) \/ AnnounceStart(w)
    <3>1. UNCHANGED <<status, pending, finished, results>> /\ pc[w] # "running"
      BY <2>2 DEF LoadSuite, AnnounceStart, runRow
    <3>2. \A v \in Workers \ {w} : pc'[v] = pc[v] /\ job'[v] = job[v]
      BY <1>0, <2>2 DEF LoadSuite, AnnounceStart, Goto
    <3> QED
      BY <1>1, <3>1, <3>2
  <2>3. CASE MarkOrphan(w)
    <3>1. UNCHANGED <<pending, finished, results>> /\ pc[w] # "running"
      BY <2>3 DEF MarkOrphan
    <3>2. \A v \in Workers \ {w} : pc'[v] = pc[v] /\ job'[v] = job[v]
      BY <2>3 DEF MarkOrphan, Leave
    <3>3. \A r \in Runs : status[r] = NoRow => status'[r] = NoRow
      BY <1>0, <2>3 DEF MarkOrphan
    <3> QED
      BY <1>1, <3>1, <3>2, <3>3
  <2>4. CASE Start(w)
    <3>1. UNCHANGED <<pending, finished, results>> /\ pc[w] # "running"
      BY <2>4 DEF Start
    <3>2. \A v \in Workers \ {w} : pc'[v] = pc[v] /\ job'[v] = job[v]
      BY <1>0, <2>4 DEF Start, Leave, Goto
    <3>3. \A r \in Runs : status[r] = NoRow => status'[r] = NoRow
      BY <1>0, <2>4 DEF Start, RowExists
    <3> QED
      BY <1>1, <3>1, <3>2, <3>3
  <2>5. CASE Step(w)
    <3>1. UNCHANGED <<status, finished, results, pc, job>> /\ pc[w] = "running"
      BY <2>5 DEF Step, runRow
    <3>2. ASSUME NEW row \in pending'
          PROVE  row \in pending \/ (row.by = w /\ row.run = job[w])
      BY <2>5 DEF Step
    <3>3. PendingHeld'
      BY <3>1, <3>2 DEF ResultsInv, PendingHeld
    <3> QED
      BY <3>1, <3>3, NothingAppears
  <2>6. CASE RejectStep(w)
    <3>1. Leave({w}) /\ pending' = pending \ PendingBy(w)
          /\ UNCHANGED <<status, finished, results>>
      BY <2>6 DEF RejectStep, Rollback, runRow
    <3> QED
      BY <3>1, LeavePending, NothingAppears
  <2>7. CASE Finish(w)
    <3>1. Verdict(tally[w]) # NoRow
      BY DEF Verdict, NoRow
    <3> QED
      BY <2>7, <3>1, CloseAppears DEF Finish
  <2>8. CASE AnnounceFinish(w)
    <3>1. UNCHANGED <<status, pending, finished, results>> /\ pc[w] # "running"
      BY <2>8 DEF AnnounceFinish, runRow
    <3>2. \A v \in Workers \ {w} : pc'[v] = pc[v] /\ job'[v] = job[v]
      BY <2>8 DEF AnnounceFinish, Leave
    <3> QED
      BY <1>1, <3>1, <3>2
  <2> HIDE DEF Goal
  <2> QED
    BY <1>2, <2>1, <2>2, <2>3, <2>4, <2>5, <2>6, <2>7, <2>8 DEF Progress
<1>3. ASSUME NEW w \in Workers, Raise(w)
      PROVE  Goal
  BY <1>3, CloseAppears DEF Raise, NoRow
<1>4. ASSUME NEW w \in Workers, DbFailure(w)
      PROVE  Goal
  <2>1. Leave({w}) /\ pending' = pending \ PendingBy(w)
        /\ UNCHANGED <<status, finished, results>>
    BY <1>4 DEF DbFailure, Rollback, runRow
  <2> QED
    BY <2>1, LeavePending, NothingAppears
<1>5. ASSUME NEW w \in Workers, NEW fault, InterruptOutside(w, fault)
      PROVE  Goal
  <2>1. UNCHANGED <<status, pending, finished, results>> /\ pc[w] # "running"
    BY <1>5 DEF InterruptOutside, runRow
  <2>2. \A v \in Workers \ {w} : pc'[v] = pc[v] /\ job'[v] = job[v]
    BY <1>5 DEF InterruptOutside, Leave
  <2> QED
    BY <1>1, <2>1, <2>2
<1>6. ASSUME NEW w \in Workers, NEW fault, InterruptInside(w, fault)
      PROVE  Goal
  <2>1. job[w] \in Runs
    BY <1>6, BusyJob DEF InterruptInside, ResultsInv
  <2>2. CommitRun(w, status[job[w]], counts[job[w]]) /\ status[job[w]] # NoRow
        /\ Leave({w})
    BY <1>6 DEF InterruptInside, RowExists
  <2>3. pending' = pending \ PendingBy(w)
    BY <2>2 DEF CommitRun
  <2> QED
    BY <2>1, <2>2, <2>3, CommitAppears, LeavePending
<1>7. ASSUME NEW w \in Workers, NEW fault, InterruptFlush(w, fault)
      PROVE  Goal
  <2>1. Leave({w}) /\ pending' = pending \ PendingBy(w)
        /\ UNCHANGED <<status, finished, results>>
    BY <1>7 DEF InterruptFlush, Rollback, runRow
  <2> QED
    BY <2>1, LeavePending, NothingAppears
<1>8. ASSUME NEW ws \in SUBSET Workers, Crash(ws)
      PROVE  Goal
  <2>1. UNCHANGED <<status, finished, results>>
    BY <1>8 DEF Crash, runRow
  <2>2. \A row \in pending' : row \in pending /\ row.by \notin ws
    BY <1>8 DEF Crash
  <2>3. PendingHeld'
    BY <1>0, <1>8, <2>2 DEF Crash, Leave, ResultsInv, PendingHeld
  <2> QED
    BY <2>1, <2>3, NothingAppears
<1>9. ASSUME UNCHANGED <<status, finished, results, pending, pc, job>>
      PROVE  Goal
  <2>1. PendingHeld'
    BY <1>9 DEF ResultsInv, PendingHeld
  <2> QED
    BY <1>9, <2>1, NothingAppears
<1>10. ASSUME NEW r \in Runs, Redeliver(r)
       PROVE  Goal
  BY <1>9, <1>10 DEF Redeliver, worker, runRow
<1>11. CASE UNCHANGED vars
  BY <1>9, <1>11 DEF vars, store, execVars
<1>12. ASSUME Fault
       PROVE  Goal
  <2>1. ASSUME NEW w \in Workers, Interrupt(w)
        PROVE  Goal
    BY <1>5, <1>6, <1>7, <2>1 DEF Interrupt
  <2>2. ASSUME NEW w \in Workers, CrashArqWorker(w)
        PROVE  Goal
    BY <1>8, <2>2 DEF CrashArqWorker
  <2>3. ASSUME CrashApi
        PROVE  Goal
    BY <1>8, <2>3 DEF CrashApi
  <2> HIDE DEF Goal
  <2> QED
    BY <1>3, <1>4, <1>10, <1>12, <2>1, <2>2, <2>3 DEF Fault
<1> QED
  BY <1>2, <1>11, <1>12 DEF Next, ExecNext

\* Nobody ever reads the results of a run that is still going on: they become
\* visible together, in the commit that sets finished_at, whatever faults occur
\* and however often jobs are delivered.
THEOREM ResultsAppear == Spec => []ResultsAppearAtFinish
<1>1. Init => ResultsInv
  BY TypeInit DEF Init, StoreInit, ResultsInv, PendingHeld, ResultsAppearAtFinish, RowsOf
<1>2. ResultsInv /\ [Next]_vars => ResultsInv'
  BY TypeStep, ResultsStep DEF ResultsInv
<1>3. ResultsInv => ResultsAppearAtFinish
  BY DEF ResultsInv
<1> QED
  BY <1>1, <1>2, <1>3, PTL DEF Spec
=============================================================================
