------------------------ MODULE CircuitBreaker_proofs -----------------------
(***************************************************************************)
(* The circuit breaker for any number of callers, any threshold and any    *)
(* timeout.                                                                *)
(***************************************************************************)
EXTENDS CircuitBreaker, TLAPS

LEMMA ThresholdFacts == Threshold \in Nat /\ 0 < Threshold /\ ResetTimeout \in Nat
BY BreakerAssumption

\* What a call of the event loop can do to the shared state, without the caller:
\* nothing, a half-opening, a reset, or one more failure.
Booked ==
    \/ UNCHANGED breaker
    \/ state' = MaybeHalfOpen /\ UNCHANGED <<failures, timer, elapsed>>
    \/ state' = "closed" /\ failures' = 0 /\ timer' = "unset" /\ elapsed' = 0
    \/ /\ failures' = IF failures < Threshold THEN failures + 1 ELSE failures
       /\ \/ Trip /\ state' = "open" /\ timer' = "running" /\ elapsed' = 0
          \/ ~Trip /\ UNCHANGED <<state, timer, elapsed>>
    \/ /\ timer = "running"
       /\ elapsed < ResetTimeout
       /\ elapsed' = elapsed + 1
       /\ UNCHANGED <<state, failures, timer>>

\* Every step of the system is one of these for the breaker.
LEMMA StepBooks ==
  ASSUME [Next]_vars
  PROVE  Booked
<1>1. ASSUME NEW c \in Callers, Progress(c) \/ Refuse(c) \/ Cancel(c)
      PROVE  Booked
  <2>1. CASE Admit(c)
    BY <2>1 DEF Admit, Booked
  <2>2. CASE Answer(c)
    BY <2>2 DEF Answer, Booked, breaker
  <2>3. CASE OnSuccess(c)
    BY <2>3 DEF OnSuccess, Booked
  <2>4. CASE OnFailure(c)
    BY <2>4 DEF OnFailure, Booked
  <2>5. CASE Refuse(c)
    BY <2>5 DEF Refuse, Booked
  <2>6. CASE Cancel(c)
    BY <2>6 DEF Cancel, Booked
  <2> QED
    BY <1>1, <2>1, <2>2, <2>3, <2>4, <2>5, <2>6 DEF Progress
<1>2. CASE GoDown
  BY <1>2 DEF GoDown, Booked
<1>3. CASE ComeBack
  BY <1>3 DEF ComeBack, Booked
<1>4. CASE Tick
  BY <1>4 DEF Tick, Booked
<1>5. CASE UNCHANGED vars
  BY <1>5 DEF vars, Booked, breaker
<1> QED
  BY <1>1, <1>2, <1>3, <1>4, <1>5 DEF Next

BreakerTypeOK ==
    /\ state \in State
    /\ failures \in 0 .. Threshold
    /\ timer \in {"unset", "running"}
    /\ elapsed \in 0 .. ResetTimeout

\* The state of the breaker is what the count says, inductively.
CountInv == BreakerTypeOK /\ StateMatchesCount

LEMMA CountInit == Init => CountInv
BY ThresholdFacts DEF Init, CountInv, BreakerTypeOK, StateMatchesCount, State

LEMMA CountStep ==
  ASSUME CountInv, Booked
  PROVE  CountInv'
<1> USE ThresholdFacts DEF CountInv, BreakerTypeOK, StateMatchesCount, State
<1>1. CASE UNCHANGED breaker
  BY <1>1 DEF breaker
<1>2. CASE state' = MaybeHalfOpen /\ UNCHANGED <<failures, timer, elapsed>>
  BY <1>2 DEF MaybeHalfOpen
<1>3. CASE state' = "closed" /\ failures' = 0 /\ timer' = "unset" /\ elapsed' = 0
  BY <1>3
<1>4. CASE /\ failures' = IF failures < Threshold THEN failures + 1 ELSE failures
           /\ \/ Trip /\ state' = "open" /\ timer' = "running" /\ elapsed' = 0
              \/ ~Trip /\ UNCHANGED <<state, timer, elapsed>>
  BY <1>4 DEF Trip
<1>5. CASE /\ timer = "running"
           /\ elapsed < ResetTimeout
           /\ elapsed' = elapsed + 1
           /\ UNCHANGED <<state, failures, timer>>
  BY <1>5
<1> QED
  BY <1>1, <1>2, <1>3, <1>4, <1>5 DEF Booked

LEMMA CountAlways == Spec => []CountInv
<1>1. Init => CountInv
  BY CountInit
<1>2. CountInv /\ [Next]_vars => CountInv'
  BY StepBooks, CountStep
<1> QED
  BY <1>1, <1>2, PTL DEF Spec

\* core/resilience.py, _on_success and _on_failure: for any number of concurrent
\* callers the breaker is closed exactly while the failures since the last success
\* are fewer than the threshold.
THEOREM CountsMatch == Spec => []StateMatchesCount
<1>1. CountInv => StateMatchesCount
  BY DEF CountInv
<1> QED
  BY <1>1, CountAlways, PTL

-----------------------------------------------------------------------------
\* core/resilience.py, call: whatever threshold and timeout, no call goes out
\* through an open breaker before the timeout.
THEOREM OpenBreakerSheds == Spec => OpenSheds
<1> DEFINE Sheds ==
      state = "open" /\ elapsed < ResetTimeout =>
        \A c \in Callers : phase'[c] = "sent" => phase[c] = "sent"
<1> DEFINE Phases == phase \in [Callers -> Phase] /\ elapsed \in Nat
<1>1. Init => Phases
  BY DEF Init, Phase
<1>2. Phases /\ [Next]_vars => Phases'
  <2> SUFFICES ASSUME Phases, [Next]_vars PROVE Phases'
    OBVIOUS
  <2>1. phase' \in [Callers -> Phase]
    BY DEF Next, Progress, Admit, Answer, OnSuccess, OnFailure, Refuse, Cancel, Tick,
           GoDown, ComeBack, Move, End, Phase, vars
  <2>2. elapsed' \in Nat
    BY StepBooks DEF Booked, breaker
  <2> QED
    BY <2>1, <2>2
<1>3. Phases /\ [Next]_vars => [Sheds]_vars
  <2> SUFFICES ASSUME Phases, Next, state = "open", elapsed < ResetTimeout,
                      NEW d \in Callers, phase'[d] = "sent"
               PROVE  phase[d] = "sent"
    OBVIOUS
  <2>1. ASSUME NEW c \in Callers, Admit(c)
        PROVE  FALSE
    BY <2>1, ThresholdFacts DEF Admit, MaybeHalfOpen
  <2>2. ASSUME NEW c \in Callers,
               Answer(c) \/ OnSuccess(c) \/ OnFailure(c) \/ Refuse(c) \/ Cancel(c)
        PROVE  phase[d] = "sent"
    BY <2>2 DEF Answer, OnSuccess, OnFailure, Refuse, Cancel, Move, End
  <2>3. CASE GoDown \/ ComeBack \/ Tick
    BY <2>3 DEF GoDown, ComeBack, Tick
  <2> QED
    BY <2>1, <2>2, <2>3 DEF Next, Progress
<1> QED
  BY <1>1, <1>2, <1>3, PTL DEF Spec, OpenSheds

-----------------------------------------------------------------------------
\* With one caller no call is in flight while the breaker is open.
Alone ==
    /\ phase \in [Callers -> Phase]
    /\ \A c \in Callers : phase[c] # "idle" => state # "open"

\* healing/llm.py: a run has an engine and a breaker of its own and heals one step
\* at a time; then an open breaker can close through a probe only.
THEOREM OneCallerLifecycle ==
  ASSUME \A c, d \in Callers : c = d
  PROVE  Spec => StandardLifecycle
<1> DEFINE Lifecycle ==
      /\ state = "closed" => state' \in {"closed", "open"}
      /\ state = "open" => state' \in {"open", "half_open"}
<1>1. Init => Alone
  BY DEF Init, Alone, Phase
<1>2. Alone /\ [Next]_vars => Alone' /\ [Lifecycle]_vars
  <2> SUFFICES ASSUME Alone, [Next]_vars PROVE Alone' /\ Lifecycle
    OBVIOUS
  <2> USE DEF Alone, Phase, Move, End
  <2>1. ASSUME NEW c \in Callers, Admit(c) PROVE Alone' /\ Lifecycle
    BY <2>1 DEF Admit, MaybeHalfOpen
  <2>2. ASSUME NEW c \in Callers, OnSuccess(c) PROVE Alone' /\ Lifecycle
    BY <2>2 DEF OnSuccess
  <2>3. ASSUME NEW c \in Callers, OnFailure(c) PROVE Alone' /\ Lifecycle
    BY <2>3 DEF OnFailure
  <2>4. ASSUME NEW c \in Callers, Answer(c) \/ Refuse(c) \/ Cancel(c)
        PROVE  Alone' /\ Lifecycle
    BY <2>4 DEF Answer, Refuse, Cancel, breaker
  <2>5. CASE GoDown \/ ComeBack \/ Tick \/ UNCHANGED vars
    BY <2>5 DEF GoDown, ComeBack, Tick, breaker, vars
  <2> QED
    BY <2>1, <2>2, <2>3, <2>4, <2>5 DEF Next, Progress
<1> QED
  BY <1>1, <1>2, PTL DEF Spec, StandardLifecycle
=============================================================================
