-------------------------- MODULE EventStream_proofs --------------------------
(***************************************************************************)
(* What a follower of a run is told, for any number of runs, workers,      *)
(* steps and followers: by no other words than the run's own events, and   *)
(* when it was there from the start, by all of them.                       *)
(***************************************************************************)
EXTENDS EventStream, RunOutcome_proofs

-----------------------------------------------------------------------------
(* The feed leaves the executor alone.                                     *)

LEMMA StreamStep ==
    ASSUME [StreamNext]_allVars
    PROVE  [Next]_vars
<1>1. CASE Published(ExecNext)
  BY <1>1 DEF Published, Next
<1>2. ASSUME NEW f \in Followers, Feed(f)
      PROVE  UNCHANGED vars
  BY <1>2 DEF Feed, Open, Subscribe, Forward, HangUp, Break
<1>3. CASE UNCHANGED allVars
  BY <1>3 DEF allVars
<1> QED
  BY <1>1, <1>2, <1>3 DEF StreamNext

\* Followers, and what they lose, have no influence on the executor: whatever holds
\* of every behaviour of the executor holds of it with its followers.
THEOREM StreamImplementsExecutor == StreamSpec => Spec
<1>1. StreamInit => Init
  BY DEF StreamInit
<1>2. [StreamNext]_allVars => [Next]_vars
  BY StreamStep
<1> QED
  BY <1>1, <1>2, PTL DEF StreamSpec, Spec

-----------------------------------------------------------------------------
(* Events are only added, one in a step.                                   *)

Grows(r) ==
    \/ events'[r] = events[r]
    \/ \E e \in Event : events'[r] = Append(events[r], e)

LEMMA PublishGrows ==
    ASSUME TypeInv, NEW q \in Runs, NEW e \in Event, Publish(q, e), NEW r \in Runs
    PROVE  Grows(r)
BY DEF TypeInv, TypeOK, ExecTypeOK, Publish, Grows

LEMMA EventsGrow ==
    ASSUME TypeInv, [Next]_vars, NEW r \in Runs
    PROVE  Grows(r)
<1>1. ASSUME UNCHANGED events
      PROVE  Grows(r)
  BY <1>1 DEF Grows
<1>2. ASSUME NEW w \in Workers, pc[w] # "idle", NEW e \in Event, Publish(job[w], e)
      PROVE  Grows(r)
  BY <1>2, BusyJob, PublishGrows
<1>3. \A w \in Workers : mem[w] \in RunStatus
  BY DEF TypeInv, TypeOK, ExecTypeOK
<1>4. ASSUME NEW w \in Workers, Progress(w)
      PROVE  Grows(r)
  <2>1. CASE AnnounceStart(w)
    BY <1>2, <2>1, EventType DEF AnnounceStart
  <2>2. CASE Step(w)
    BY <1>2, <2>2, EventType DEF Step
  <2>3. CASE AnnounceFinish(w)
    <3>1. Finished(mem[w]) \in Event
      BY <1>3, EventType
    <3> QED
      BY <1>2, <2>3, <3>1 DEF AnnounceFinish
  <2>4. CASE ~(AnnounceStart(w) \/ Step(w) \/ AnnounceFinish(w))
    <3>1. UNCHANGED events
      BY <1>4, <2>4 DEF Progress, Take, LoadSuite, MarkOrphan, Start, RejectStep, Finish
    <3> QED
      BY <1>1, <3>1
  <2> QED
    BY <2>1, <2>2, <2>3, <2>4
<1>5. ASSUME NEW w \in Workers, Interrupt(w)
      PROVE  Grows(r)
  <2>1. PICK fault \in {"shutdown", "timeout"} :
          InterruptOutside(w, fault) \/ InterruptInside(w, fault) \/ InterruptFlush(w, fault)
    BY <1>5 DEF Interrupt
  <2>2. CASE InterruptInside(w, fault)
    <3>1. Finished(mem[w]) \in Event
      BY <1>3, EventType
    <3> QED
      BY <1>2, <2>2, <3>1 DEF InterruptInside
  <2>3. CASE InterruptOutside(w, fault) \/ InterruptFlush(w, fault)
    BY <1>1, <2>3 DEF InterruptOutside, InterruptFlush
  <2> QED
    BY <2>1, <2>2, <2>3
<1>6. ASSUME Fault
      PROVE  Grows(r)
  <2>1. CASE \E w \in Workers : Interrupt(w)
    BY <1>5, <2>1
  <2>2. CASE ~\E w \in Workers : Interrupt(w)
    <3>1. UNCHANGED events
      BY <1>6, <2>2 DEF Fault, Raise, DbFailure, CrashArqWorker, CrashApi, Crash, Redeliver
    <3> QED
      BY <1>1, <3>1
  <2> QED
    BY <2>1, <2>2
<1>7. CASE UNCHANGED vars
  BY <1>1, <1>7 DEF vars, execVars
<1> QED
  BY <1>4, <1>6, <1>7 DEF Next, ExecNext

LEMMA AppendFacts ==
    ASSUME NEW S, NEW s \in Seq(S), NEW e \in S
    PROVE  /\ Append(s, e) \in Seq(S) /\ Append(s, e) # s
           /\ Len(Append(s, e)) = Len(s) + 1
           /\ Append(s, e)[Len(s) + 1] = e
           /\ \A i \in 1 .. Len(s) : Append(s, e)[i] = s[i]
OBVIOUS

-----------------------------------------------------------------------------
(* The types of the feed.                                                  *)

StreamTypeInv == TypeInv /\ StreamTypeOK

\* What a step of the executor publishes is the last event of its run.
LEMMA LatestType ==
    ASSUME TypeInv, [Next]_vars, NEW r \in Runs, events'[r] # events[r]
    PROVE  \E e \in Event :
             /\ events'[r] = Append(events[r], e)
             /\ events'[r][Len(events'[r])] = e
             /\ Len(events'[r]) \in Nat /\ Len(events'[r]) = Len(events[r]) + 1
<1>1. PICK e \in Event : events'[r] = Append(events[r], e)
  BY EventsGrow DEF Grows
<1>2. events[r] \in Seq(Event)
  BY DEF TypeInv, TypeOK, ExecTypeOK
<1> QED
  BY <1>1, <1>2, AppendFacts

LEMMA DeliverType ==
    ASSUME StreamTypeInv, Published(ExecNext)
    PROVE  inbox' \in [Followers -> Seq(Event)] /\ lost' \subseteq Runs \X Nat
<1>0. [Next]_vars
  BY DEF Published, Next
<1>1. \A r \in Runs : events'[r] # events[r] =>
         events'[r][Len(events'[r])] \in Event /\ Len(events'[r]) \in Nat
  BY <1>0, LatestType DEF StreamTypeInv
<1>2. topic \in [Followers -> Runs] /\ inbox \in [Followers -> Seq(Event)]
      /\ lost \subseteq Runs \X Nat
  BY DEF StreamTypeInv, StreamTypeOK
<1>3. CASE /\ inbox' = [f \in Followers |->
                 IF sock[f] = "streaming" /\ topic[f] \in {r \in Runs : events'[r] # events[r]}
                 THEN Append(inbox[f], events'[topic[f]][Len(events'[topic[f]])])
                 ELSE inbox[f]]
           /\ UNCHANGED lost
  <2>1. ASSUME NEW f \in Followers
        PROVE  inbox'[f] \in Seq(Event)
    <3>1. CASE events'[topic[f]] # events[topic[f]] /\ sock[f] = "streaming"
      <4>1. events'[topic[f]][Len(events'[topic[f]])] \in Event
        BY <1>1, <1>2, <3>1
      <4> QED
        BY <1>2, <1>3, <3>1, <4>1, AppendFacts
    <3>2. CASE ~(events'[topic[f]] # events[topic[f]] /\ sock[f] = "streaming")
      BY <1>2, <1>3, <3>2
    <3> QED
      BY <3>1, <3>2
  <2> QED
    BY <1>2, <1>3, <2>1
<1>4. CASE /\ lost' = lost \cup {<<r, Len(events'[r])>> :
                                   r \in {q \in Runs : events'[q] # events[q]}}
           /\ UNCHANGED inbox
  BY <1>1, <1>2, <1>4
<1> QED
  BY <1>3, <1>4 DEF Published, Deliver

LEMMA StreamTypeStep == StreamTypeInv /\ [StreamNext]_allVars => StreamTypeInv'
<1> SUFFICES ASSUME StreamTypeInv, [StreamNext]_allVars
             PROVE  StreamTypeInv'
  OBVIOUS
<1>0. /\ sock \in [Followers -> SockState] /\ topic \in [Followers -> Runs]
      /\ since \in [Followers -> Nat] /\ inbox \in [Followers -> Seq(Event)]
      /\ sent \in [Followers -> Seq(Event)] /\ here \in [Followers -> BOOLEAN]
      /\ lost \subseteq Runs \X Nat /\ events \in [Runs -> Seq(Event)]
  BY DEF StreamTypeInv, StreamTypeOK, TypeOK, ExecTypeOK
<1>1. TypeInv' /\ TypeOK'
  BY StreamStep, TypeStep DEF StreamTypeInv, TypeInv
<1>2. CASE Published(ExecNext)
  <2>1. UNCHANGED <<sock, topic, since, sent, here>>
    BY <1>2 DEF Published
  <2> QED
    BY <1>0, <1>1, <1>2, <2>1, DeliverType DEF StreamTypeInv, StreamTypeOK
<1>3. ASSUME NEW f \in Followers, Open(f)
      PROVE  StreamTypeInv'
  BY <1>0, <1>1, <1>3 DEF Open, SockState, StreamTypeInv, StreamTypeOK
<1>4. ASSUME NEW f \in Followers, Subscribe(f)
      PROVE  StreamTypeInv'
  BY <1>0, <1>1, <1>4 DEF Subscribe, SockState, StreamTypeInv, StreamTypeOK
<1>5. ASSUME NEW f \in Followers, Forward(f)
      PROVE  StreamTypeInv'
  <2>1. Head(inbox[f]) \in Event /\ Tail(inbox[f]) \in Seq(Event)
    BY <1>0, <1>5 DEF Forward
  <2>2. inbox' \in [Followers -> Seq(Event)] /\ UNCHANGED <<topic, since, here, lost>>
    BY <1>0, <1>5, <2>1 DEF Forward
  <2>3. sent' \in [Followers -> Seq(Event)] /\ sock' \in [Followers -> SockState]
    <3>1. CASE sent' = [sent EXCEPT ![f] = Append(@, Head(inbox[f]))] /\ UNCHANGED sock
      BY <1>0, <2>1, <3>1, AppendFacts
    <3>2. CASE sock' = [sock EXCEPT ![f] = "closed"] /\ UNCHANGED sent
      BY <1>0, <3>2 DEF SockState
    <3> QED
      BY <1>5, <3>1, <3>2 DEF Forward
  <2> QED
    BY <1>0, <1>1, <2>2, <2>3 DEF StreamTypeInv, StreamTypeOK
<1>6. ASSUME NEW f \in Followers, HangUp(f)
      PROVE  StreamTypeInv'
  BY <1>0, <1>1, <1>6 DEF HangUp, StreamTypeInv, StreamTypeOK
<1>7. ASSUME NEW f \in Followers, Break(f)
      PROVE  StreamTypeInv'
  BY <1>0, <1>1, <1>7 DEF Break, SockState, StreamTypeInv, StreamTypeOK
<1>8. CASE UNCHANGED allVars
  BY <1>0, <1>1, <1>8 DEF allVars, streamVars, feeds, StreamTypeInv, StreamTypeOK
<1> QED
  BY <1>2, <1>3, <1>4, <1>5, <1>6, <1>7, <1>8 DEF StreamNext, Feed

LEMMA StreamTypeInit == StreamInit => StreamTypeInv
<1> SUFFICES ASSUME StreamInit
             PROVE  StreamTypeInv
  OBVIOUS
<1>1. TypeInv
  BY TypeInit DEF StreamInit
<1> QED
  BY <1>1 DEF StreamInit, StreamTypeInv, StreamTypeOK, SockState, TypeInv

\* Every variable of the executor and of the feed keeps its type.
THEOREM StreamTypeCorrect == StreamSpec => []StreamTypeOK
<1>1. StreamTypeInv => StreamTypeOK
  BY DEF StreamTypeInv
<1> QED
  BY <1>1, StreamTypeInit, StreamTypeStep, PTL DEF StreamSpec

-----------------------------------------------------------------------------
(* The number of events.  The loop publishes once for each row it flushes, *)
(* so that a run with a verdict has run.started, one step.completed for    *)
(* each of its results and run.finished.                                   *)

Decided == {"passed", "failed"}

Tallied(w) ==
    /\ pc[w] \notin {"running", "closing"} => step[w] = 0
    /\ pc[w] = "running" => Len(events[job[w]]) = step[w] + 1
    /\ pc[w] = "closing" /\ status[job[w]] \in Decided
          => Cardinality(RowsOf(job[w])) = Len(events[job[w]]) - 1

Told(r) ==
    status[r] \in Decided =>
        \A i \in DOMAIN events[r] :
            events[r][i].event = "run.finished" =>
                /\ Cardinality(RowsOf(r)) = i - 2
                /\ \A k \in 2 .. i - 1 : events[r][k] = Completed

Counted == (\A w \in Workers : Tallied(w)) /\ (\A r \in Runs : Told(r))

CountInv == VerdictInv /\ FeedInv /\ Counted

CountRests(w) == pc'[w] = pc[w] /\ job'[w] = job[w] /\ step'[w] = step[w]

LEMMA CountShapes ==
    ASSUME CountInv
    PROVE  /\ TypeInv
           /\ pc \in [Workers -> Phase]
           /\ job \in [Workers -> Runs \cup {NoRun}]
           /\ step \in [Workers -> 0 .. MaxSteps]
           /\ status \in [Runs -> RunStatus \cup {NoRow}]
           /\ events \in [Runs -> Seq(Event)]
           /\ MaxSteps \in Nat
           /\ \A w \in Workers : pc[w] # "idle" => job[w] \in Runs
BY Shapes, FeedShapes, StoreAssumption DEF CountInv

\* A step that publishes nothing, makes no row visible and decides nothing.
LEMMA SilentCount ==
    ASSUME CountInv, UNCHANGED <<events, results>>,
           \A r \in Runs : status'[r] = status[r] \/ status'[r] \notin Decided,
           \A w \in Workers : CountRests(w) \/ Tallied(w)'
    PROVE  Counted'
<1>0. \A r \in Runs : RowsOf(r)' = RowsOf(r)
  BY DEF RowsOf
<1>1. ASSUME NEW w \in Workers, CountRests(w)
      PROVE  Tallied(w)'
  <2>1. Tallied(w)
    BY DEF CountInv, Counted
  <2>2. CASE pc[w] = "idle"
    BY <1>1, <2>1, <2>2 DEF Tallied, CountRests
  <2>3. CASE pc[w] # "idle"
    <3>1. job[w] \in Runs
      BY <2>3, CountShapes
    <3> QED
      BY <1>0, <1>1, <2>1, <3>1 DEF Tallied, CountRests
  <2> QED
    BY <2>2, <2>3
<1>2. ASSUME NEW r \in Runs
      PROVE  Told(r)'
  <2>1. Told(r) /\ events'[r] = events[r]
    BY DEF CountInv, Counted
  <2> QED
    BY <1>0, <2>1 DEF Told
<1> QED
  BY <1>1, <1>2 DEF Counted

\* Nothing is counted for a worker that leaves its call.
LEMMA LeaveCounts ==
    ASSUME CountInv, NEW ws \in SUBSET Workers, Leave(ws), UNCHANGED <<events, results>>,
           \A r \in Runs : status'[r] = status[r] \/ status'[r] \notin Decided
    PROVE  Counted'
<1>1. \A w \in Workers : CountRests(w) \/ Tallied(w)'
  BY DEF Leave, CountRests, Tallied
<1> QED
  BY <1>1, SilentCount

\* A step of one worker that concerns the run it holds and no other.
LEMMA OwnCount ==
    ASSUME CountInv, NEW w \in Workers, NEW q \in Runs, q = job[w], pc[w] # "idle",
           \A v \in Workers \ {w} : CountRests(v),
           \A r \in Runs \ {q} : /\ status'[r] = status[r] /\ events'[r] = events[r]
                                 /\ RowsOf(r)' = RowsOf(r),
           Tallied(w)', Told(q)'
    PROVE  Counted'
<1>1. ASSUME NEW v \in Workers \ {w}
      PROVE  Tallied(v)'
  <2>1. Tallied(v) /\ CountRests(v)
    BY DEF CountInv, Counted
  <2>2. CASE pc[v] = "idle"
    BY <2>1, <2>2 DEF Tallied, CountRests
  <2>3. CASE pc[v] # "idle"
    <3>1. job[v] \in Runs \ {q}
      BY <2>3, CountShapes, StoreAssumption
         DEF CountInv, FeedInv, StatusInv, OneCopy, AtMostOneExecutor
    <3> QED
      BY <2>1, <3>1 DEF Tallied, CountRests
  <2> QED
    BY <2>2, <2>3
<1>2. ASSUME NEW r \in Runs \ {q}
      PROVE  Told(r)'
  <2>1. Told(r)
    BY DEF CountInv, Counted
  <2> QED
    BY <2>1 DEF Told
<1> QED
  BY <1>1, <1>2 DEF Counted

\* The final commit makes visible as many rows as the loop has done steps.
LEMMA CommitRows ==
    ASSUME CountInv, NEW w \in Workers, pc[w] = "running", NEW q \in Runs, q = job[w],
           NEW st, NEW cnt, CommitRun(w, st, cnt)
    PROVE  /\ Cardinality(RowsOf(q)') = step[w]
           /\ \A r \in Runs \ {q} : RowsOf(r)' = RowsOf(r)
<1>1. Untouched(q) /\ Ledger(w)
  BY DEF CountInv, VerdictInv, Engaged
<1>2. \A row \in PendingBy(w) : row.run = q
  BY DEF CountInv, VerdictInv, ResultsInv, PendingHeld, PendingBy
<1>3. results' = results \cup PendingBy(w)
  BY DEF CommitRun
<1>4. RowsOf(q)' = PendingBy(w)
  BY <1>1, <1>2, <1>3 DEF RowsOf, Untouched
<1>5. \A r \in Runs \ {q} : RowsOf(r)' = RowsOf(r)
  BY <1>2, <1>3 DEF RowsOf
<1> QED
  BY <1>1, <1>4, <1>5 DEF Ledger, Balanced

\* No end has been announced of a run that is open.
LEMMA OpenedToldNothing ==
    ASSUME NEW s, Opened(s), NEW i \in DOMAIN s
    PROVE  s[i].event # "run.finished"
BY EventKinds DEF Opened

LEMMA CloseCounts ==
    ASSUME CountInv, NEW w \in Workers, pc[w] = "running", UNCHANGED events,
           NEW st \in {"passed", "failed", "error"}, NEW cnt, Close(w, st, cnt)
    PROVE  Counted'
<1>1. PICK q \in Runs : q = job[w] /\ status[q] = "running"
  BY InHand DEF CountInv, Executing
<1>2. CommitRun(w, st, cnt) /\ Goto(w, "closing") /\ UNCHANGED <<job, step>>
  BY <1>1 DEF Close, RowExists, NoRow
<1>3. /\ Cardinality(RowsOf(q)') = step[w]
      /\ \A r \in Runs \ {q} : RowsOf(r)' = RowsOf(r)
  BY <1>1, <1>2, CommitRows
<1>4. \A r \in Runs \ {q} : status'[r] = status[r]
  BY <1>1, <1>2, CountShapes DEF CommitRun
<1>5. \A v \in Workers \ {w} : CountRests(v)
  BY <1>2, CountShapes DEF Goto, CountRests
<1>6. Tallied(w)'
  <2>1. Len(events[q]) = step[w] + 1
    BY <1>1 DEF CountInv, Counted, Tallied
  <2>2. pc'[w] = "closing" /\ job'[w] = q
    BY <1>1, <1>2, CountShapes DEF Goto
  <2>3. step[w] \in Nat /\ (step[w] + 1) - 1 = step[w]
    BY CountShapes
  <2> QED
    BY <1>3, <2>1, <2>2, <2>3 DEF Tallied
<1>7. Told(q)'
  <2>1. Opened(events[q])
    BY <1>1 DEF CountInv, FeedInv, FeedFits
  <2> QED
    BY <2>1, OpenedToldNothing DEF Told
<1> QED
  BY <1>1, <1>3, <1>4, <1>5, <1>6, <1>7, OwnCount

\* A step of a worker that publishes on the channel of its run.
LEMMA PublishCounts ==
    ASSUME CountInv, NEW w \in Workers, NEW q \in Runs, q = job[w], pc[w] # "idle",
           NEW e \in Event, Publish(q, e), UNCHANGED <<status, results>>,
           \A v \in Workers \ {w} : CountRests(v), Tallied(w)', Told(q)'
    PROVE  Counted'
<1>1. \A r \in Runs \ {q} : status'[r] = status[r] /\ events'[r] = events[r]
  BY CountShapes DEF Publish
<1>2. \A r \in Runs \ {q} : RowsOf(r)' = RowsOf(r)
  BY DEF RowsOf
<1> QED
  BY <1>1, <1>2, OwnCount

LEMMA ProgressCounts ==
    ASSUME CountInv, NEW w \in Workers, Progress(w)
    PROVE  Counted'
<1>1. ASSUME NEW r \in Runs, Take(w, r)
      PROVE  Counted'
  <2>1. UNCHANGED <<status, events, results, step>> /\ pc[w] = "idle"
    BY <1>1 DEF Take, runRow, locals
  <2>2. \A v \in Workers \ {w} : CountRests(v)
    BY <1>1, <2>1, CountShapes DEF Take, Goto, CountRests
  <2>3. CountRests(w) \/ Tallied(w)'
    BY <1>1, <2>1, CountShapes DEF Take, Goto, CountRests, Tallied, CountInv, Counted
  <2> QED
    BY <2>1, <2>2, <2>3, SilentCount
<1>2. CASE LoadSuite(w)
  <2>1. UNCHANGED <<status, events, results, step, job>> /\ pc[w] = "loaded"
        /\ (Goto(w, "ready") \/ Goto(w, "orphaned"))
    BY <1>2 DEF LoadSuite, runRow
  <2>2. Tallied(w)' /\ \A v \in Workers \ {w} : CountRests(v)
    BY <2>1, CountShapes DEF CountInv, Counted, Tallied, Goto, CountRests
  <2> QED
    BY <2>1, <2>2, SilentCount
<1>3. CASE MarkOrphan(w)
  <2>1. \A r \in Runs : status'[r] = status[r] \/ status'[r] \notin Decided
    BY <1>3, CountShapes DEF MarkOrphan, NoRow, Decided
  <2>2. Leave({w}) /\ UNCHANGED <<events, results>>
    BY <1>3 DEF MarkOrphan
  <2> QED
    BY <2>1, <2>2, LeaveCounts
<1>4. CASE Start(w)
  <2>1. UNCHANGED <<events, results>> /\ pc[w] = "ready"
    BY <1>4 DEF Start
  <2>2. \A r \in Runs : status'[r] = status[r] \/ status'[r] \notin Decided
    BY <1>4, CountShapes DEF Start, Decided
  <2>3. CASE Leave({w})
    BY <2>1, <2>2, <2>3, LeaveCounts
  <2>4. CASE Goto(w, "begun") /\ UNCHANGED <<job, step>>
    <3>1. Tallied(w)' /\ \A v \in Workers \ {w} : CountRests(v)
      BY <2>1, <2>4, CountShapes DEF CountInv, Counted, Tallied, Goto, CountRests
    <3> QED
      BY <2>1, <2>2, <3>1, SilentCount
  <2> QED
    BY <1>4, <2>3, <2>4 DEF Start
<1>5. CASE AnnounceStart(w)
  <2>1. PICK q \in Runs : q = job[w] /\ status[q] = "running" /\ events[q] = << >>
    BY <1>5, InHand DEF AnnounceStart, Executing, CountInv, FeedInv, FeedFits
  <2>2. /\ Publish(q, Started) /\ Goto(w, "running") /\ pc[w] = "begun"
        /\ UNCHANGED <<status, results, job, step>>
    BY <1>5, <2>1 DEF AnnounceStart, runRow, locals
  <2>3. events'[q] = Append(<< >>, Started)
    BY <2>1, <2>2, CountShapes DEF Publish
  <2>4. step[w] = 0
    BY <2>2 DEF CountInv, Counted, Tallied
  <2>5. Tallied(w)' /\ \A v \in Workers \ {w} : CountRests(v)
    BY <2>1, <2>2, <2>3, <2>4, CountShapes DEF Tallied, Goto, CountRests
  <2>6. Told(q)'
    BY <2>1, <2>2 DEF Told, Decided
  <2> QED
    BY <2>1, <2>2, <2>5, <2>6, EventType, PublishCounts
<1>6. CASE Step(w)
  <2>1. PICK q \in Runs : q = job[w] /\ status[q] = "running" /\ events[q] \in Seq(Event)
    BY <1>6, InHand DEF Step, Executing, CountInv
  <2>2. /\ Publish(q, Completed) /\ step' = [step EXCEPT ![w] = @ + 1] /\ pc[w] = "running"
        /\ UNCHANGED <<status, results, pc, job>>
    BY <1>6, <2>1 DEF Step, runRow
  <2>3. Len(events'[q]) = Len(events[q]) + 1
    BY <2>1, <2>2, CountShapes, EventType DEF Publish
  <2>4. Len(events[q]) = step[w] + 1
    BY <2>1, <2>2 DEF CountInv, Counted, Tallied
  <2>5. Tallied(w)'
    BY <2>1, <2>2, <2>3, <2>4, CountShapes DEF Tallied
  <2>6. \A v \in Workers \ {w} : CountRests(v)
    BY <2>2, CountShapes DEF CountRests
  <2>7. Told(q)'
    BY <2>1, <2>2 DEF Told, Decided
  <2> QED
    BY <2>1, <2>2, <2>5, <2>6, <2>7, EventType, PublishCounts
<1>7. CASE RejectStep(w)
  BY <1>7, LeaveCounts DEF RejectStep, Rollback, runRow
<1>8. CASE Finish(w)
  <2>1. Verdict(tally[w]) \in {"passed", "failed", "error"}
    BY DEF Verdict
  <2> QED
    BY <1>8, <2>1, CloseCounts DEF Finish
<1>9. CASE AnnounceFinish(w)
  <2>1. PICK q \in Runs : /\ q = job[w] /\ events[q] \in Seq(Event) /\ Opened(events[q])
                          /\ mem[w] \in RunStatus
    BY <1>9, InHand DEF AnnounceFinish, CountInv, FeedInv, FeedFits
  <2>2. /\ Publish(q, Finished(mem[w])) /\ Leave({w}) /\ pc[w] = "closing"
        /\ UNCHANGED <<status, results>>
    BY <1>9, <2>1 DEF AnnounceFinish, runRow
  <2>3. Tallied(w)' /\ \A v \in Workers \ {w} : CountRests(v)
    BY <2>2 DEF Leave, Tallied, CountRests
  <2>4. events'[q] = Append(events[q], Finished(mem[w])) /\ Finished(mem[w]) \in Event
    BY <2>1, <2>2, CountShapes, EventType DEF Publish
  <2>5. Told(q)'
    <3> SUFFICES ASSUME status[q] \in Decided,
                        NEW i \in DOMAIN events'[q], events'[q][i].event = "run.finished"
                 PROVE  /\ Cardinality(RowsOf(q)) = i - 2
                        /\ \A k \in 2 .. i - 1 : events'[q][k] = Completed
      BY <2>2 DEF Told, RowsOf
    <3>1. Cardinality(RowsOf(q)) = Len(events[q]) - 1
      BY <2>1, <2>2 DEF CountInv, Counted, Tallied
    <3>2. /\ Len(events[q]) \in Nat /\ DOMAIN events'[q] = 1 .. Len(events[q]) + 1
          /\ DOMAIN events[q] = 1 .. Len(events[q])
          /\ \A k \in 1 .. Len(events[q]) : events'[q][k] = events[q][k]
      BY <2>1, <2>4
    <3>3. i = Len(events[q]) + 1
      BY <2>1, <3>2, OpenedToldNothing
    <3>4. \A k \in 2 .. Len(events[q]) : events[q][k] = Completed
      BY <2>1, <3>2 DEF Opened
    <3> QED
      BY <3>1, <3>2, <3>3, <3>4
  <2> QED
    BY <2>1, <2>2, <2>3, <2>4, <2>5, PublishCounts
<1> QED
  BY <1>1, <1>2, <1>3, <1>4, <1>5, <1>6, <1>7, <1>8, <1>9 DEF Progress

LEMMA FaultCounts ==
    ASSUME CountInv, Fault
    PROVE  Counted'
<1>1. ASSUME NEW w \in Workers, Raise(w)
      PROVE  Counted'
  BY <1>1, CloseCounts DEF Raise
<1>2. ASSUME NEW w \in Workers, DbFailure(w)
      PROVE  Counted'
  BY <1>2, LeaveCounts DEF DbFailure, Rollback, runRow
<1>3. ASSUME NEW w \in Workers, NEW fault, InterruptOutside(w, fault) \/ InterruptFlush(w, fault)
      PROVE  Counted'
  BY <1>3, LeaveCounts DEF InterruptOutside, InterruptFlush, Rollback, runRow
<1>4. ASSUME NEW w \in Workers, NEW fault, InterruptInside(w, fault)
      PROVE  Counted'
  <2>1. PICK q \in Runs : q = job[w] /\ status[q] = "running" /\ mem[w] \in RunStatus
    BY <1>4, InHand DEF InterruptInside, Executing, CountInv
  <2>2. /\ Publish(q, Finished(mem[w])) /\ Leave({w}) /\ pc[w] = "running"
        /\ CommitRun(w, status[q], counts[q])
    BY <1>4, <2>1 DEF InterruptInside
  <2>3. Tallied(w)' /\ \A v \in Workers \ {w} : CountRests(v)
    BY <2>2 DEF Leave, Tallied, CountRests
  <2>4. /\ UNCHANGED status
        /\ \A r \in Runs \ {q} : events'[r] = events[r] /\ RowsOf(r)' = RowsOf(r)
    BY <2>1, <2>2, CommitRows, CountShapes DEF CommitRun, Publish
  <2>5. Told(q)'
    BY <2>1, <2>4 DEF Told, Decided
  <2> QED
    BY <2>1, <2>2, <2>3, <2>4, <2>5, OwnCount
<1>5. ASSUME NEW w \in Workers, Interrupt(w)
      PROVE  Counted'
  BY <1>3, <1>4, <1>5 DEF Interrupt
<1>6. ASSUME NEW ws \in SUBSET Workers, Crash(ws)
      PROVE  Counted'
  BY <1>6, LeaveCounts DEF Crash, runRow
<1>7. ASSUME NEW w \in Workers, CrashArqWorker(w)
      PROVE  Counted'
  BY <1>6, <1>7 DEF CrashArqWorker
<1>8. ASSUME CrashApi
      PROVE  Counted'
  BY <1>6, <1>8 DEF CrashApi
<1>9. ASSUME NEW r \in Runs, Redeliver(r)
      PROVE  Counted'
  BY <1>9, SilentCount DEF Redeliver, runRow, worker, CountRests
<1> QED
  BY <1>1, <1>2, <1>5, <1>7, <1>8, <1>9 DEF Fault

LEMMA CountInit == Budget["redeliver"] = 0 /\ Init => CountInv
<1> SUFFICES ASSUME Budget["redeliver"] = 0, Init
             PROVE  CountInv
  OBVIOUS
<1>1. \A w \in Workers : pc[w] = "idle" /\ step[w] = 0
  BY DEF Init, ExecInit
<1>2. \A r \in Runs : status[r] = "queued"
  BY DEF Init, StoreInit
<1> QED
  BY <1>1, <1>2, VerdictInit, FeedInit DEF CountInv, Counted, Tallied, Told, Decided

LEMMA CountStep == CountInv /\ [Next]_vars => CountInv'
<1> SUFFICES ASSUME CountInv, [Next]_vars
             PROVE  CountInv'
  OBVIOUS
<1>1. VerdictInv' /\ FeedInv'
  BY VerdictStep, FeedStep DEF CountInv
<1>2. CASE UNCHANGED vars
  <2>1. UNCHANGED <<events, results, status, pc, job, step>>
    BY <1>2 DEF vars, store, execVars
  <2> QED
    BY <1>1, <2>1, SilentCount DEF CountInv, CountRests
<1>3. CASE Next
  BY <1>1, <1>3, ProgressCounts, FaultCounts DEF CountInv, Next, ExecNext
<1> QED
  BY <1>2, <1>3

-----------------------------------------------------------------------------
(* What a follower has been sent and will be sent, against the events.     *)

IsEnd(e) == e.event = "run.finished"

\* The last event of its run.
LastOf(f) == events[topic[f]][Len(events[topic[f]])]

\* It was there from the start, and no publication of its run has failed.
Whole(f) == since[f] = 0 /\ \A p \in lost : p[1] # topic[f]

Unopened(f) ==
    sock[f] \in {"new", "accepted", "refused"} => sent[f] = << >> /\ inbox[f] = << >>

\* run.finished is the last frame it gets, and the last event of the run.
EndsFeed(f) ==
    /\ \A i \in DOMAIN sent[f] : IsEnd(sent[f][i]) =>
          /\ i = Len(sent[f])
          /\ events[topic[f]] # << >> /\ sent[f][i] = LastOf(f)
          /\ sock[f] = "streaming" => inbox[f] = << >>
    /\ sock[f] = "streaming" =>
          \A i \in DOMAIN inbox[f] : IsEnd(inbox[f][i]) =>
             /\ i = Len(inbox[f])
             /\ events[topic[f]] # << >> /\ inbox[f][i] = LastOf(f)

\* What it was sent and what waits for it are the events of the run, in order.
Prefixes(said, all) ==
    /\ Len(said) <= Len(all)
    /\ \A i \in 1 .. Len(said) : said[i] = all[i]

Joins(said, waits, all) ==
    /\ Len(said) + Len(waits) = Len(all)
    /\ \A i \in 1 .. Len(said) : said[i] = all[i]
    /\ \A j \in 1 .. Len(waits) : waits[j] = all[Len(said) + j]

InStep(f) ==
    Whole(f) =>
        /\ sock[f] = "streaming" => Joins(sent[f], inbox[f], events[topic[f]])
        /\ sock[f] = "closed" => Prefixes(sent[f], events[topic[f]])

Listens(f) == Unopened(f) /\ EndsFeed(f) /\ InStep(f)

ListenInv == CountInv /\ StreamTypeInv /\ \A f \in Followers : Listens(f)

LEMMA PrefixGrows ==
    ASSUME NEW S, NEW said \in Seq(S), NEW all \in Seq(S), NEW e \in S, Prefixes(said, all)
    PROVE  Prefixes(said, Append(all, e))
BY DEF Prefixes

LEMMA JoinGrows ==
    ASSUME NEW S, NEW said \in Seq(S), NEW waits \in Seq(S), NEW all \in Seq(S), NEW e \in S,
           Joins(said, waits, all)
    PROVE  Joins(said, Append(waits, e), Append(all, e))
<1>1. Len(said) + Len(Append(waits, e)) = Len(Append(all, e))
  BY DEF Joins
<1>2. \A i \in 1 .. Len(said) : said[i] = Append(all, e)[i]
  BY DEF Joins
<1>3. ASSUME NEW j \in 1 .. Len(waits) + 1
      PROVE  Append(waits, e)[j] = Append(all, e)[Len(said) + j]
  BY DEF Joins
<1>4. 1 .. Len(Append(waits, e)) = 1 .. Len(waits) + 1
  OBVIOUS
<1> QED
  BY <1>1, <1>2, <1>3, <1>4 DEF Joins

\* One message is sent on.
LEMMA JoinMoves ==
    ASSUME NEW S, NEW said \in Seq(S), NEW waits \in Seq(S), NEW all \in Seq(S),
           Joins(said, waits, all), waits # << >>
    PROVE  Joins(Append(said, Head(waits)), Tail(waits), all)
<1>0. Head(waits) \in S /\ Tail(waits) \in Seq(S) /\ Len(waits) >= 1
      /\ Len(Tail(waits)) = Len(waits) - 1
  OBVIOUS
<1>1. Len(Append(said, Head(waits))) + Len(Tail(waits)) = Len(all)
  BY <1>0 DEF Joins
<1>2. ASSUME NEW i \in 1 .. Len(said) + 1
      PROVE  Append(said, Head(waits))[i] = all[i]
  BY <1>0 DEF Joins
<1>3. ASSUME NEW j \in 1 .. Len(waits) - 1
      PROVE  Tail(waits)[j] = all[Len(said) + 1 + j]
  BY <1>0 DEF Joins
<1> QED
  BY <1>0, <1>1, <1>2, <1>3 DEF Joins

LEMMA NothingLeft == ASSUME NEW S, NEW s \in Seq(S), Len(s) = 0 PROVE s = << >>
OBVIOUS

LEMMA JoinPrefixes ==
    ASSUME NEW S, NEW said \in Seq(S), NEW waits \in Seq(S), NEW all \in Seq(S),
           Joins(said, waits, all)
    PROVE  Prefixes(said, all)
BY DEF Joins, Prefixes

LEMMA ListenShapes ==
    ASSUME ListenInv
    PROVE  /\ sock \in [Followers -> SockState] /\ topic \in [Followers -> Runs]
           /\ since \in [Followers -> Nat] /\ inbox \in [Followers -> Seq(Event)]
           /\ sent \in [Followers -> Seq(Event)]
           /\ events \in [Runs -> Seq(Event)]
BY DEF ListenInv, StreamTypeInv, StreamTypeOK, TypeOK, ExecTypeOK

\* A follower for whom nothing has changed.
LEMMA ListensOn ==
    ASSUME ListenInv, NEW f \in Followers, UNCHANGED <<vars, lost>>,
           sock'[f] = sock[f], topic'[f] = topic[f], since'[f] = since[f],
           inbox'[f] = inbox[f], sent'[f] = sent[f]
    PROVE  Listens(f)'
<1>1. Unopened(f) /\ EndsFeed(f) /\ InStep(f)
  BY DEF ListenInv, Listens
<1>2. UNCHANGED events
  BY DEF vars, execVars
<1>3. Unopened(f)'
  BY <1>1 DEF Unopened
<1>4. EndsFeed(f)'
  BY <1>1, <1>2 DEF EndsFeed, LastOf
<1>5. InStep(f)'
  BY <1>1, <1>2 DEF InStep, Whole
<1> QED
  BY <1>3, <1>4, <1>5 DEF Listens

\* After run.finished nothing is published, so that a run whose events grow has not
\* announced its end to anybody.
LEMMA GrowingIsOpen ==
    ASSUME ListenInv, FeedInv', NEW r \in Runs, NEW e \in Event,
           events'[r] = Append(events[r], e)
    PROVE  \A i \in DOMAIN events[r] : ~IsEnd(events[r][i])
<1>1. events[r] \in Seq(Event)
  BY ListenShapes
<1>2. SUFFICES ASSUME NEW i \in DOMAIN events[r], IsEnd(events[r][i])
               PROVE  FALSE
  OBVIOUS
<1>3. /\ i \in 1 .. Len(events[r]) /\ Len(events[r]) \in Nat
      /\ Len(events'[r]) = Len(events[r]) + 1
      /\ i \in DOMAIN events'[r] /\ events'[r][i] = events[r][i]
  BY <1>1, <1>2
<1>4. Follows(events'[r], status'[r], finished'[r])
  BY DEF FeedInv
<1>5. i = Len(events'[r])
  BY <1>2, <1>3, <1>4 DEF Follows, IsEnd
<1> QED
  BY <1>3, <1>5

LEMMA PublishedListens ==
    ASSUME ListenInv, FeedInv', Published(ExecNext), NEW f \in Followers
    PROVE  Listens(f)'
<1> DEFINE r == topic[f]
<1>0. /\ r \in Runs /\ events[r] \in Seq(Event) /\ sent[f] \in Seq(Event)
      /\ inbox[f] \in Seq(Event)
      /\ Unopened(f) /\ EndsFeed(f) /\ InStep(f)
  BY ListenShapes DEF ListenInv, Listens
<1>1. UNCHANGED <<sock, topic, since, sent>> /\ Deliver /\ [Next]_vars
  BY DEF Published, Next
<1>2. lost \subseteq lost'
  BY <1>1 DEF Deliver
<1>3. Whole(f)' => Whole(f)
  BY <1>1, <1>2 DEF Whole
<1>4. CASE events'[r] = events[r]
  <2>1. inbox'[f] = inbox[f]
    BY <1>0, <1>1, <1>4 DEF Deliver
  <2>2. Unopened(f)'
    BY <1>0, <1>1, <2>1 DEF Unopened
  <2>3. EndsFeed(f)'
    BY <1>0, <1>1, <1>4, <2>1 DEF EndsFeed, LastOf
  <2>4. InStep(f)'
    BY <1>0, <1>1, <1>3, <1>4, <2>1 DEF InStep
  <2> QED
    BY <2>2, <2>3, <2>4 DEF Listens
<1>5. CASE events'[r] # events[r]
  <2>1. PICK e \in Event :
          /\ events'[r] = Append(events[r], e)
          /\ events'[r][Len(events'[r])] = e
          /\ Len(events'[r]) \in Nat /\ Len(events'[r]) = Len(events[r]) + 1
    BY <1>0, <1>1, <1>5, LatestType DEF ListenInv, StreamTypeInv
  <2>2. \A i \in DOMAIN events[r] : ~IsEnd(events[r][i])
    BY <1>0, <2>1, GrowingIsOpen
  <2>3. /\ \A i \in 1 .. Len(events[r]) : events'[r][i] = events[r][i]
        /\ Len(events[r]) \in Nat /\ DOMAIN events[r] = 1 .. Len(events[r])
        /\ events'[r] # << >>
    <3>1. /\ \A i \in 1 .. Len(events[r]) : events'[r][i] = events[r][i]
          /\ Len(events[r]) \in Nat /\ DOMAIN events[r] = 1 .. Len(events[r])
      BY <1>0, <2>1
    <3>2. events'[r] # << >>
      BY <1>0, <2>1
    <3> QED
      BY <3>1, <3>2
  <2>4. events[r] # << >> => LastOf(f) = events[r][Len(events[r])] /\ ~IsEnd(LastOf(f))
    BY <1>0, <2>2, <2>3 DEF LastOf
  <2>5. /\ \A i \in DOMAIN sent[f] : ~IsEnd(sent[f][i])
        /\ sock[f] = "streaming" => \A i \in DOMAIN inbox[f] : ~IsEnd(inbox[f][i])
    BY <1>0, <2>4 DEF EndsFeed
  <2>6. LastOf(f)' = e
    BY <1>1, <2>1 DEF LastOf
  <2>7. CASE inbox'[f] = Append(inbox[f], e) /\ sock[f] = "streaming" /\ UNCHANGED lost
    <3>1. /\ Len(inbox[f]) \in Nat /\ Len(inbox'[f]) = Len(inbox[f]) + 1
          /\ DOMAIN inbox[f] = 1 .. Len(inbox[f])
          /\ DOMAIN inbox'[f] = 1 .. Len(inbox[f]) + 1
          /\ inbox'[f][Len(inbox[f]) + 1] = e
          /\ \A i \in 1 .. Len(inbox[f]) : inbox'[f][i] = inbox[f][i]
      BY <1>0, <2>7, AppendFacts
    <3>2. Unopened(f)'
      BY <1>1, <2>7 DEF Unopened
    <3>3. EndsFeed(f)'
      <4>1. \A i \in DOMAIN inbox'[f] : IsEnd(inbox'[f][i]) => i = Len(inbox'[f])
        BY <2>5, <2>7, <3>1
      <4>2. inbox'[f][Len(inbox'[f])] = LastOf(f)'
        BY <2>6, <3>1
      <4> QED
        BY <1>1, <2>3, <2>5, <4>1, <4>2 DEF EndsFeed
    <3>4. InStep(f)'
      <4>1. ASSUME Whole(f)
            PROVE  Joins(sent[f], inbox'[f], events'[r])
        BY <1>0, <2>1, <2>7, <4>1, JoinGrows DEF InStep
      <4> QED
        BY <1>1, <1>3, <2>7, <4>1 DEF InStep
    <3> QED
      BY <3>2, <3>3, <3>4 DEF Listens
  <2>8. CASE inbox'[f] = inbox[f] /\ (sock[f] = "streaming" => ~Whole(f)')
    <3>1. Unopened(f)'
      BY <1>0, <1>1, <2>8 DEF Unopened
    <3>2. EndsFeed(f)'
      BY <1>1, <2>5, <2>8 DEF EndsFeed
    <3>3. InStep(f)'
      <4>1. ASSUME Whole(f), sock[f] = "closed"
            PROVE  Prefixes(sent[f], events'[r])
        BY <1>0, <2>1, <4>1, PrefixGrows DEF InStep
      <4> QED
        BY <1>1, <1>3, <2>8, <4>1 DEF InStep
    <3> QED
      BY <3>1, <3>2, <3>3 DEF Listens
  <2>9. CASE inbox' = [g \in Followers |->
               IF sock[g] = "streaming" /\ topic[g] \in {q \in Runs : events'[q] # events[q]}
               THEN Append(inbox[g], events'[topic[g]][Len(events'[topic[g]])])
               ELSE inbox[g]] /\ UNCHANGED lost
    <3>1. CASE sock[f] = "streaming"
      <4>1. inbox'[f] = Append(inbox[f], e)
        BY <1>0, <1>5, <2>1, <2>9, <3>1
      <4> QED
        BY <2>7, <2>9, <3>1, <4>1
    <3>2. CASE sock[f] # "streaming"
      BY <2>8, <2>9, <3>2
    <3> QED
      BY <3>1, <3>2
  <2>10. CASE /\ lost' = lost \cup {<<q, Len(events'[q])>> :
                                      q \in {p \in Runs : events'[p] # events[p]}}
              /\ UNCHANGED inbox
    <3>1. <<r, Len(events'[r])>> \in lost'
      BY <1>0, <1>5, <2>10
    <3>2. ~Whole(f)'
      BY <1>1, <3>1 DEF Whole
    <3> QED
      BY <2>8, <2>10, <3>2
  <2> QED
    BY <1>1, <2>9, <2>10 DEF Deliver
<1> QED
  BY <1>4, <1>5

LEMMA OpenListens ==
    ASSUME ListenInv, NEW f \in Followers, Open(f)
    PROVE  Listens(f)'
<1>1. Unopened(f) /\ sock[f] = "new" /\ sock \in [Followers -> SockState]
  BY ListenShapes DEF Open, ListenInv, Listens
<1>2. /\ sock'[f] \in {"accepted", "refused"} /\ sent[f] = << >> /\ inbox[f] = << >>
      /\ UNCHANGED <<sent, inbox>>
  BY <1>1 DEF Open, Unopened
<1> QED
  BY <1>2 DEF Listens, Unopened, EndsFeed, InStep

\* A subscription starts with nothing: it joins the events from the start when there
\* are none yet.
LEMMA SubscribeListens ==
    ASSUME ListenInv, NEW f \in Followers, Subscribe(f)
    PROVE  Listens(f)'
<1>1. /\ Unopened(f) /\ sock[f] = "accepted" /\ sock \in [Followers -> SockState]
      /\ since \in [Followers -> Nat]
  BY ListenShapes DEF Subscribe, ListenInv, Listens
<1>2. /\ sock'[f] = "streaming" /\ sent[f] = << >> /\ inbox[f] = << >>
      /\ UNCHANGED <<sent, inbox, events, topic>> /\ since'[f] = Len(events[topic[f]])
  BY <1>1 DEF Subscribe, Unopened, vars, execVars
<1>3. Whole(f)' => Joins(<< >>, << >>, events[topic[f]])
  BY <1>2 DEF Whole, Joins
<1> QED
  BY <1>2, <1>3 DEF Listens, Unopened, EndsFeed, InStep

LEMMA ForwardListens ==
    ASSUME ListenInv, NEW f \in Followers, Forward(f)
    PROVE  Listens(f)'
<1>0. /\ sent[f] \in Seq(Event) /\ inbox[f] \in Seq(Event)
      /\ events[topic[f]] \in Seq(Event)
      /\ Unopened(f) /\ EndsFeed(f) /\ InStep(f)
      /\ sock[f] = "streaming" /\ inbox[f] # << >>
  BY ListenShapes DEF Forward, ListenInv, Listens
<1>1. /\ UNCHANGED <<events, topic, since, lost>>
      /\ inbox'[f] = Tail(inbox[f])
      /\ \/ sent'[f] = Append(sent[f], Head(inbox[f])) /\ sock'[f] = "streaming"
         \/ sent'[f] = sent[f] /\ sock'[f] = "closed"
  BY <1>0, ListenShapes DEF Forward, vars, execVars
<1>2. \A i \in DOMAIN sent[f] : ~IsEnd(sent[f][i])
  BY <1>0 DEF EndsFeed
<1>3. /\ Head(inbox[f]) \in Event /\ Head(inbox[f]) = inbox[f][1]
      /\ Len(inbox[f]) \in Nat /\ Len(inbox[f]) >= 1
      /\ Len(Tail(inbox[f])) = Len(inbox[f]) - 1 /\ Tail(inbox[f]) \in Seq(Event)
      /\ \A i \in 1 .. Len(inbox[f]) - 1 : Tail(inbox[f])[i] = inbox[f][i + 1]
      /\ DOMAIN inbox[f] = 1 .. Len(inbox[f])
      /\ DOMAIN Tail(inbox[f]) = 1 .. Len(inbox[f]) - 1
  BY <1>0
<1>4. LastOf(f)' = LastOf(f)
  BY <1>1 DEF LastOf
<1>5. \A i \in DOMAIN inbox[f] : IsEnd(inbox[f][i]) =>
         i = Len(inbox[f]) /\ events[topic[f]] # << >> /\ inbox[f][i] = LastOf(f)
  BY <1>0 DEF EndsFeed
<1>6. CASE sent'[f] = Append(sent[f], Head(inbox[f])) /\ sock'[f] = "streaming"
  <2>1. Unopened(f)'
    BY <1>6 DEF Unopened
  <2>2. /\ Len(sent[f]) \in Nat /\ DOMAIN sent'[f] = 1 .. Len(sent[f]) + 1
        /\ DOMAIN sent[f] = 1 .. Len(sent[f]) /\ Len(sent'[f]) = Len(sent[f]) + 1
        /\ sent'[f][Len(sent[f]) + 1] = inbox[f][1]
        /\ \A i \in 1 .. Len(sent[f]) : sent'[f][i] = sent[f][i]
    BY <1>0, <1>3, <1>6, AppendFacts
  <2>3. ASSUME NEW i \in DOMAIN sent'[f], IsEnd(sent'[f][i])
        PROVE  /\ i = Len(sent'[f]) /\ events[topic[f]] # << >>
               /\ sent'[f][i] = LastOf(f) /\ inbox'[f] = << >>
    <3>1. i = Len(sent[f]) + 1
      BY <1>2, <2>2, <2>3
    <3>2. IsEnd(inbox[f][1]) /\ 1 \in DOMAIN inbox[f] /\ sent'[f][i] = inbox[f][1]
      BY <1>3, <2>2, <2>3, <3>1
    <3>3. Len(inbox[f]) = 1 /\ events[topic[f]] # << >> /\ inbox[f][1] = LastOf(f)
      BY <1>5, <3>2
    <3>4. inbox'[f] = << >>
      BY <1>1, <1>3, <3>3, NothingLeft
    <3> QED
      BY <2>2, <3>1, <3>2, <3>3, <3>4
  <2>4. ASSUME NEW i \in DOMAIN inbox'[f], IsEnd(inbox'[f][i])
        PROVE  /\ i = Len(inbox'[f]) /\ events[topic[f]] # << >>
               /\ inbox'[f][i] = LastOf(f)
    <3>1. i \in 1 .. Len(inbox[f]) - 1 /\ inbox'[f][i] = inbox[f][i + 1]
          /\ Len(inbox'[f]) = Len(inbox[f]) - 1
      BY <1>1, <1>3, <2>4
    <3>2. i + 1 \in DOMAIN inbox[f] /\ IsEnd(inbox[f][i + 1])
      BY <1>3, <2>4, <3>1
    <3>3. i + 1 = Len(inbox[f]) /\ events[topic[f]] # << >> /\ inbox[f][i + 1] = LastOf(f)
      BY <1>5, <3>2
    <3> QED
      BY <1>3, <3>1, <3>3
  <2>5. EndsFeed(f)'
    BY <1>1, <1>4, <2>3, <2>4 DEF EndsFeed
  <2>6. InStep(f)'
    <3>1. ASSUME Whole(f)
          PROVE  Joins(sent'[f], inbox'[f], events[topic[f]])
      BY <1>0, <1>1, <1>6, <3>1, JoinMoves DEF InStep
    <3> QED
      BY <1>1, <1>6, <3>1 DEF InStep, Whole
  <2> QED
    BY <2>1, <2>5, <2>6 DEF Listens
<1>7. CASE sent'[f] = sent[f] /\ sock'[f] = "closed"
  <2>1. Unopened(f)' /\ EndsFeed(f)'
    BY <1>2, <1>7 DEF Unopened, EndsFeed
  <2>2. InStep(f)'
    <3>1. ASSUME Whole(f)
          PROVE  Prefixes(sent[f], events[topic[f]])
      BY <1>0, <3>1, JoinPrefixes DEF InStep
    <3> QED
      BY <1>1, <1>7, <3>1 DEF InStep, Whole
  <2> QED
    BY <2>1, <2>2 DEF Listens
<1> QED
  BY <1>1, <1>6, <1>7

LEMMA BreakListens ==
    ASSUME ListenInv, NEW f \in Followers, Break(f)
    PROVE  Listens(f)'
<1>0. /\ sent[f] \in Seq(Event) /\ inbox[f] \in Seq(Event)
      /\ events[topic[f]] \in Seq(Event)
      /\ EndsFeed(f) /\ InStep(f) /\ sock[f] = "streaming"
  BY ListenShapes DEF Break, ListenInv, Listens
<1>1. UNCHANGED <<events, topic, since, lost, sent>> /\ sock'[f] = "closed"
  BY <1>0, ListenShapes DEF Break, vars, execVars
<1>2. Unopened(f)' /\ EndsFeed(f)'
  BY <1>0, <1>1 DEF Unopened, EndsFeed, LastOf
<1>3. InStep(f)'
  <2>1. ASSUME Whole(f)
        PROVE  Prefixes(sent[f], events[topic[f]])
    BY <1>0, <2>1, JoinPrefixes DEF InStep
  <2> QED
    BY <1>1, <2>1 DEF InStep, Whole
<1> QED
  BY <1>2, <1>3 DEF Listens

LEMMA ListenStep == ListenInv /\ [StreamNext]_allVars => ListenInv'
<1> SUFFICES ASSUME ListenInv, [StreamNext]_allVars
             PROVE  ListenInv'
  OBVIOUS
<1>1. CountInv' /\ StreamTypeInv'
  BY StreamStep, CountStep, StreamTypeStep DEF ListenInv
<1>2. FeedInv'
  BY <1>1 DEF CountInv
<1>3. CASE Published(ExecNext)
  BY <1>1, <1>2, <1>3, PublishedListens DEF ListenInv
<1>4. ASSUME NEW f \in Followers, Feed(f)
      PROVE  \A g \in Followers : Listens(g)'
  <2>1. UNCHANGED <<vars, topic, lost>>
    BY <1>4 DEF Feed, Open, Subscribe, Forward, HangUp, Break
  <2>2. ASSUME NEW g \in Followers, g # f
        PROVE  Listens(g)'
    <3>1. /\ sock'[g] = sock[g] /\ since'[g] = since[g]
          /\ inbox'[g] = inbox[g] /\ sent'[g] = sent[g]
      BY <1>4, <2>2, ListenShapes DEF Feed, Open, Subscribe, Forward, HangUp, Break
    <3> QED
      BY <2>1, <3>1, ListensOn
  <2>3. CASE HangUp(f)
    BY <2>1, <2>3, ListensOn DEF HangUp
  <2>4. Listens(f)'
    BY <1>4, <2>3, OpenListens, SubscribeListens, ForwardListens, BreakListens DEF Feed
  <2> QED
    BY <2>2, <2>4
<1>5. CASE UNCHANGED allVars
  <2>1. \A f \in Followers : Listens(f)'
    BY <1>5, ListensOn DEF allVars, streamVars, feeds
  <2> QED
    BY <1>1, <2>1 DEF ListenInv
<1> QED
  BY <1>1, <1>3, <1>4, <1>5 DEF ListenInv, StreamNext

LEMMA ListenInit == Budget["redeliver"] = 0 /\ StreamInit => ListenInv
<1> SUFFICES ASSUME Budget["redeliver"] = 0, StreamInit
             PROVE  ListenInv
  OBVIOUS
<1>1. CountInv /\ StreamTypeInv
  BY CountInit, StreamTypeInit DEF StreamInit
<1>2. \A f \in Followers : sock[f] = "new" /\ sent[f] = << >> /\ inbox[f] = << >>
  BY DEF StreamInit
<1> QED
  BY <1>1, <1>2 DEF ListenInv, Listens, Unopened, EndsFeed, InStep

\* The indices from 2 up to the one before the end.
LEMMA StepsBetween == ASSUME NEW i \in Nat, i >= 2 PROVE Cardinality(2 .. i - 1) = i - 2
BY FS_Interval

LEMMA FramesAreTrue == ListenInv => FramesTellTheRun
<1> SUFFICES ASSUME ListenInv, NEW f \in Followers, NEW i \in DOMAIN sent[f],
                    sent[f][i] \in {Finished("passed"), Finished("failed")}
             PROVE  /\ i = Len(sent[f])
                    /\ finished[topic[f]] /\ sent[f][i].status = status[topic[f]]
                    /\ since[f] = 0 /\ (\A p \in lost : p[1] # topic[f]) =>
                         /\ sent[f][1] = Started
                         /\ Cardinality({k \in 1 .. i : sent[f][k] = Completed})
                              = Cardinality(RowsOf(topic[f]))
  BY DEF FramesTellTheRun
<1> DEFINE r == topic[f]
           n == Len(events[r])
<1>0. /\ r \in Runs /\ events[r] \in Seq(Event) /\ sent[f] \in Seq(Event)
      /\ inbox[f] \in Seq(Event) /\ sock[f] \in SockState
      /\ Unopened(f) /\ EndsFeed(f) /\ InStep(f)
  BY ListenShapes DEF ListenInv, Listens
<1>1. IsEnd(sent[f][i])
  BY EventKinds DEF IsEnd
<1>2. i = Len(sent[f]) /\ events[r] # << >> /\ sent[f][i] = events[r][n]
  BY <1>0, <1>1 DEF EndsFeed, LastOf
<1>3. n \in Nat /\ n >= 1 /\ n \in DOMAIN events[r] /\ DOMAIN events[r] = 1 .. n
  BY <1>0, <1>2
<1>4. Follows(events[r], status[r], finished[r])
  BY <1>0 DEF ListenInv, CountInv, FeedInv
<1>5. finished[r] /\ sent[f][i].status = status[r]
  BY <1>1, <1>2, <1>3, <1>4 DEF Follows, IsEnd
<1>6. status[r] \in Decided
  BY <1>5, EventKinds DEF Decided
<1>7. ASSUME Whole(f)
      PROVE  /\ sent[f][1] = Started
             /\ Cardinality({k \in 1 .. i : sent[f][k] = Completed}) = Cardinality(RowsOf(r))
  <2>1. sock[f] \in {"streaming", "closed"}
    BY <1>0, <1>2, <1>3 DEF Unopened, SockState
  <2>2. Prefixes(sent[f], events[r])
    BY <1>0, <1>7, <2>1, JoinPrefixes DEF InStep
  <2>3. i \in Nat /\ i >= 1 /\ i <= n /\ \A k \in 1 .. i : sent[f][k] = events[r][k]
    BY <1>0, <1>2, <2>2 DEF Prefixes
  <2>4. i = n
    BY <1>1, <1>3, <1>4, <2>3 DEF Follows, IsEnd
  <2>5. Cardinality(RowsOf(r)) = n - 2 /\ \A k \in 2 .. n - 1 : events[r][k] = Completed
    BY <1>0, <1>1, <1>2, <1>3, <1>6 DEF ListenInv, CountInv, Counted, Told, IsEnd
  <2>6. events[r][1] = Started
    BY <1>3, <1>4 DEF Follows
  <2>7. events[r][n] # Started /\ events[r][n] # Completed
    BY <1>1, <1>2, EventKinds DEF IsEnd
  <2>8. n >= 2
    BY <1>3, <2>6, <2>7
  <2>9. {k \in 1 .. i : sent[f][k] = Completed} = 2 .. n - 1
    BY <2>3, <2>4, <2>5, <2>6, <2>7, <2>8, EventKinds
  <2>10. Cardinality(2 .. n - 1) = n - 2
    BY <1>3, <2>8, StepsBetween
  <2>11. sent[f][1] = Started
    BY <2>3, <2>6
  <2> QED
    BY <2>5, <2>9, <2>10, <2>11
<1> QED
  BY <1>2, <1>5, <1>7 DEF Whole

\* Unless a job is delivered twice, a follower whose last frame is a verdict is told
\* what the database says, and one that was there from the start, with no publication
\* of its run lost, has been sent run.started, a step.completed for each result, and
\* the verdict: through all crashes, failures and hang-ups, for suites of any length.
THEOREM FramesTell ==
    ASSUME Budget["redeliver"] = 0
    PROVE  StreamSpec => []FramesTellTheRun
<1>1. StreamInit => ListenInv
  BY ListenInit
<1> QED
  BY <1>1, ListenStep, FramesAreTrue, PTL DEF StreamSpec
=============================================================================
