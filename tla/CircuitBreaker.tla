--------------------------- MODULE CircuitBreaker ---------------------------
(***************************************************************************)
(* CircuitBreaker.call (core/resilience.py) around a provider that can go  *)
(* down, as the healing LLM is called (healing/llm.py).                    *)
(*                                                                         *)
(* The lock of the breaker is never held across an await, so admitting a   *)
(* call and booking its result are one step each; the call itself runs     *)
(* outside the lock, and its answer may be booked long after it was given. *)
(* Two numbers are kept up to the value the code compares them with:       *)
(* failures to the threshold, the time since the opening to the timeout.   *)
(***************************************************************************)
EXTENDS Naturals

CONSTANTS Callers,       \* tasks that share the breaker
          Threshold,     \* failure_threshold
          ResetTimeout,  \* reset_timeout, in ticks of the clock
          Outages,       \* bound: how often the provider goes down
          Cancels        \* bound: how often a task is cancelled in its call

ASSUME BreakerAssumption ==
    /\ Threshold \in Nat \ {0}
    /\ ResetTimeout \in Nat
    /\ Outages \in Nat
    /\ Cancels \in Nat

VARIABLES state,     \* _state
          failures,  \* _failures, at most Threshold
          timer,     \* _opened_monotonic: "unset" while it is None
          elapsed,   \* the time since then, at most ResetTimeout
          phase,     \* where the caller's call is
          outcome,   \* how its last call ended
          up,        \* the provider answers
          outages,   \* outages that may still come
          cancels    \* cancellations that may still come

breaker == <<state, failures, timer, elapsed>>
provider == <<up, outages>>
world == <<provider, cancels>>
vars == <<breaker, phase, outcome, world>>

State == {"closed", "open", "half_open"}
Phase == {"idle",  \* no call
          "sent",  \* func() is awaited
          "good",  \* the provider answered, the task has not resumed
          "bad"}   \* func() raised or timed out, the task has not resumed

TypeOK ==
    /\ state \in State
    /\ failures \in 0 .. Threshold
    /\ timer \in {"unset", "running"}
    /\ elapsed \in 0 .. ResetTimeout
    /\ phase \in [Callers -> Phase]
    /\ outcome \in [Callers -> {"none", "result", "error", "circuit_open"}]
    /\ up \in BOOLEAN
    /\ outages \in 0 .. Outages
    /\ cancels \in 0 .. Cancels

Init ==
    /\ state = "closed"
    /\ failures = 0
    /\ timer = "unset"
    /\ elapsed = 0
    /\ phase = [c \in Callers |-> "idle"]
    /\ outcome = [c \in Callers |-> "none"]
    /\ up = TRUE
    /\ outages = Outages
    /\ cancels = Cancels

-----------------------------------------------------------------------------
Move(c, to) == phase' = [phase EXCEPT ![c] = to]
End(c, how) == Move(c, "idle") /\ outcome' = [outcome EXCEPT ![c] = how]

\* Mutant: the timeout is not waited for.
HalfOpenAtOnce == IF state = "open" /\ timer = "running" THEN "half_open" ELSE state
\* _maybe_half_open, at the start of each call.
MaybeHalfOpen ==
    IF state = "open" /\ timer = "running" /\ elapsed >= ResetTimeout
    THEN "half_open" ELSE state

Admit(c) ==
    /\ phase[c] = "idle"
    /\ MaybeHalfOpen # "open"
    /\ state' = MaybeHalfOpen
    /\ Move(c, "sent")
    /\ UNCHANGED <<failures, timer, elapsed, outcome, world>>

\* ServiceUnavailableError, code circuit_open.
Refuse(c) ==
    /\ phase[c] = "idle"
    /\ MaybeHalfOpen = "open"
    /\ End(c, "circuit_open")
    /\ UNCHANGED <<breaker, world>>

\* Mutant: the failures are not counted anew.
OnSuccessKeepsCount(c) ==
    /\ phase[c] = "good"
    /\ state' = "closed"
    /\ timer' = "unset"
    /\ elapsed' = 0
    /\ End(c, "result")
    /\ UNCHANGED <<failures, world>>

OnSuccess(c) ==
    /\ phase[c] = "good"
    /\ state' = "closed"
    /\ failures' = 0
    /\ timer' = "unset"
    /\ elapsed' = 0
    /\ End(c, "result")
    /\ UNCHANGED world

Trip == failures + 1 >= Threshold

\* Mutant: the time of the opening is not noted.
OnFailureUntimed(c) ==
    /\ phase[c] = "bad"
    /\ failures' = IF failures < Threshold THEN failures + 1 ELSE failures
    /\ state' = IF Trip THEN "open" ELSE state
    /\ End(c, "error")
    /\ UNCHANGED <<timer, elapsed, world>>

\* Each failure at or above the threshold opens the breaker (again), and starts
\* the timeout anew.
OnFailure(c) ==
    /\ phase[c] = "bad"
    /\ failures' = IF failures < Threshold THEN failures + 1 ELSE failures
    /\ \/ /\ Trip
          /\ state' = "open"
          /\ timer' = "running"
          /\ elapsed' = 0
       \/ /\ ~Trip
          /\ UNCHANGED <<state, timer, elapsed>>
    /\ End(c, "error")
    /\ UNCHANGED world

\* CancelledError is not an Exception: the breaker books nothing.
Cancel(c) ==
    /\ phase[c] # "idle"
    /\ cancels > 0
    /\ cancels' = cancels - 1
    /\ End(c, "error")
    /\ UNCHANGED <<breaker, provider>>

\* What the provider does.  with_timeout turns an answer that does not come
\* into a failure.
Answer(c) ==
    /\ phase[c] = "sent"
    /\ Move(c, IF up THEN "good" ELSE "bad")
    /\ UNCHANGED <<breaker, outcome, world>>

GoDown ==
    /\ up
    /\ outages > 0
    /\ up' = FALSE
    /\ outages' = outages - 1
    /\ UNCHANGED <<breaker, phase, outcome, cancels>>

ComeBack ==
    /\ ~up
    /\ up' = TRUE
    /\ UNCHANGED <<breaker, phase, outcome, outages, cancels>>

Tick ==
    /\ timer = "running"
    /\ elapsed < ResetTimeout
    /\ elapsed' = elapsed + 1
    /\ UNCHANGED <<state, failures, timer, phase, outcome, world>>

\* What the event loop and the deadline keep going for a caller.
Progress(c) == Admit(c) \/ Answer(c) \/ OnSuccess(c) \/ OnFailure(c)

Next ==
    \/ \E c \in Callers : Progress(c) \/ Refuse(c) \/ Cancel(c)
    \/ GoDown
    \/ ComeBack
    \/ Tick

Spec == Init /\ [][Next]_vars

\* Time passes, answers and timeouts arrive (each call has a deadline), and calls
\* keep coming: drifted steps of the runs that share the breaker.
FairSpec == Spec /\ WF_vars(Tick) /\ \A c \in Callers : WF_vars(Progress(c))

-----------------------------------------------------------------------------
(* Properties.                                                             *)

\* The breaker is closed exactly while fewer than Threshold failures came since
\* the last success, and the timeout runs exactly while it is not closed: however
\* late results are booked, no state is half reset.
StateMatchesCount ==
    /\ (state = "closed") <=> (failures < Threshold)
    /\ (timer = "unset") <=> (state = "closed")

\* An open breaker protects the provider: no call goes out before the timeout has
\* elapsed since the last failure.
OpenSheds ==
    [][state = "open" /\ elapsed < ResetTimeout =>
         \A c \in Callers : phase'[c] = "sent" => phase[c] = "sent"]_vars

\* core/resilience.py: "the standard CLOSED -> OPEN -> HALF_OPEN lifecycle": an
\* open breaker closes through a probe only.  So it is when its calls come one
\* after the other, as in the steps of a run; with more callers a late success
\* closes an open breaker.
StandardLifecycle ==
    [][/\ state = "closed" => state' \in {"closed", "open"}
       /\ state = "open" => state' \in {"open", "half_open"}]_vars

\* docs/runbook.md: "recovers automatically when the provider returns": once the
\* provider is up for good the breaker closes for good.
Recovers == <>[]up => <>[](state = "closed")
=============================================================================
