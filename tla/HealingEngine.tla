--------------------------- MODULE HealingEngine ----------------------------
(***************************************************************************)
(* The steps of one case, from the selector to the recorded outcome: the   *)
(* simulated page and step (workers/executor.py), the self-healing engine  *)
(* (healing/engine.py) over the heuristic healer and the LLM               *)
(* (healing/llm.py), and what the executor makes of the proposal.          *)
(*                                                                         *)
(* A step is [target, tag, hint, text]: whether it has a selector and acts *)
(* on an element, the tag its action renders, the hints its selector       *)
(* parses to, and its expected text or value.                              *)
(***************************************************************************)
EXTENDS HeuristicHealer

CONSTANTS Steps,          \* the steps a case can have
          MaxCase,        \* bound: steps of a case
          AutoId,         \* the test-ids tid-0, tid-1, ... of the page
          MinConfidence,  \* healing_min_confidence, in thousandths
          Answers         \* what the LLM may propose: <<selector, confidence>>

ASSUME EngineAssumption ==
    /\ MaxCase \in Nat
    /\ \A i \in 1 .. MaxCase : AutoId[i] # None
    /\ MinConfidence \in 0 .. Full
    /\ \A a \in Answers : a[2] \in 0 .. Full   \* clamped by ClaudeHealingLLM

\* The hints of a selector have all fields, and finitely many classes.
ASSUME StepAssumption ==
    \A s \in Steps :
        /\ DOMAIN s.hint = {"tag", "id", "testid", "classes", "attrs", "text"}
        /\ IsFiniteSet(s.hint.classes)

\* The texts that are compared.
Words == ({s.text : s \in Steps} \cup {s.hint.text : s \in Steps}) \ {None}

ASSUME RatioAssumption == Ratio \in [Words \X Words -> 0 .. 100]

VARIABLES case,      \* the steps
          index,     \* the current step
          asked,     \* the heuristic's proposal, while the LLM is asked
          log        \* the step results and healing events so far

vars == <<case, index, asked, log>>

Init ==
    /\ case \in UNION {[1 .. n -> Steps] : n \in 1 .. MaxCase}
    /\ index = 1
    /\ asked = << >>
    /\ log = << >>

-----------------------------------------------------------------------------
(* The simulated browser.                                                  *)

\* The element a step renders.  An input is a void element: the text written
\* after it is not its text.
Element(i) ==
    [tag |-> case[i].tag,
     id |-> None,
     testid |-> IF case[i].hint.testid # None THEN case[i].hint.testid ELSE AutoId[i],
     classes |-> case[i].hint.classes,
     attrs |-> {},
     text |-> IF case[i].tag = "input" THEN None ELSE case[i].text]

\* build_page: the elements of the steps that act on one, in order.
Targets == {i \in DOMAIN case : case[i].target}
Page == [k \in 1 .. Cardinality(Targets) |->
            Element(CHOOSE i \in Targets : Cardinality({j \in Targets : j <= i}) = k)]

Stable(h) == h.id = None /\ (h.testid # None \/ h.classes # {} \/ h.attrs # {})

Drifted(s) == s.target /\ ~Stable(s.hint)

-----------------------------------------------------------------------------
(* The engine.                                                             *)

Confident(p) == p.confidence >= MinConfidence

\* Mutant: min(1.0, ...) is missing.
BoostedUncapped(c) == c + 100
Boosted(c) == IF c + 100 > Full THEN Full ELSE c + 100
Larger(a, b) == IF a >= b THEN a ELSE b

\* Mutant: the LLM's proposal is preferred whenever there is one.
CombinePrefersLLM(heuristic, llm) == IF llm.selector = None THEN heuristic ELSE llm
Combine(heuristic, llm) ==
    IF llm.selector = None THEN heuristic
    ELSE IF heuristic.selector = None THEN llm
    ELSE IF heuristic.selector = llm.selector
         THEN Proposal(llm.selector, "hybrid",
                       Boosted(Larger(heuristic.confidence, llm.confidence)))
    ELSE IF llm.confidence >= heuristic.confidence THEN llm ELSE heuristic

\* _record: the label of aegis_healing_attempts_total.
Outcome(p) ==
    IF p.selector = None THEN "no_match"
    ELSE IF Confident(p) THEN "success" ELSE "low_confidence"

-----------------------------------------------------------------------------
(* The executor's step.                                                    *)

\* A step that needs no healing.
Clean == [status |-> "passed", event |-> << >>]

\* Mutant: each heal is accepted.
HealedAccepted(p) ==
    [status |-> IF p.selector # None THEN "healed" ELSE "failed",
     event |-> <<[selector |-> p.selector,
                  strategy |-> p.strategy,
                  confidence |-> p.confidence,
                  accepted |-> p.selector # None,
                  metric |-> Outcome(p)]>>]
\* The StepResult and the HealingEvent of a proposal.  What is not accepted is
\* left to a reviewer (accepted = None in the code, FALSE here).
Healed(p) ==
    [status |-> IF p.selector # None THEN "healed" ELSE "failed",
     event |-> <<[selector |-> p.selector,
                  strategy |-> p.strategy,
                  confidence |-> p.confidence,
                  accepted |-> p.selector # None /\ Confident(p),
                  metric |-> Outcome(p)]>>]

Book(entry) ==
    /\ log' = Append(log, entry)
    /\ index' = index + 1
    /\ asked' = << >>
    /\ UNCHANGED case

Current == case[index]
Heuristic == Propose(Current.hint, Page, Current.text)

RunStable ==
    /\ index <= Len(case)
    /\ ~Drifted(Current)
    /\ Book(Clean)

HealAlone ==
    /\ index <= Len(case)
    /\ asked = << >>
    /\ Drifted(Current)
    /\ Confident(Heuristic)
    /\ Book(Healed(Heuristic))

AskLLM ==
    /\ index <= Len(case)
    /\ asked = << >>
    /\ Drifted(Current)
    /\ ~Confident(Heuristic)
    /\ asked' = <<Heuristic>>
    /\ UNCHANGED <<case, index, log>>

\* The LLM answers, or does not: no key, a refusal, a timeout, an open circuit or
\* an answer that cannot be parsed all end in no proposal.
LLMAnswers ==
    /\ asked # << >>
    /\ \/ Book(Healed(asked[1]))
       \/ \E a \in Answers :
             Book(Healed(Combine(asked[1], Proposal(a[1], "llm", a[2]))))

Next == RunStable \/ HealAlone \/ AskLLM \/ LLMAnswers

Spec == Init /\ [][Next]_vars

-----------------------------------------------------------------------------
(* Properties.                                                             *)

\* The healing event of step i.
Event(i) == log[i].event[1]
Events == {i \in DOMAIN log : log[i].event # << >>}

\* The steps are booked one by one, and each confidence is one that HealingProposal
\* accepts (0 to 1): another one would raise and end the run as ERROR.
TypeOK ==
    /\ case \in Seq(Steps)
    /\ index = Len(log) + 1
    /\ Len(asked) <= 1
    /\ \A i \in DOMAIN log :
          /\ log[i].status \in {"passed", "healed", "failed"}
          /\ log[i].event = << >> <=> log[i].status = "passed"
    /\ \A i \in Events : Event(i).confidence \in 0 .. Full

\* Without an LLM a heal that no human will look at goes to the element of the
\* very step that drifted, and never to another one of the page.
AcceptedHealIsOwn ==
    \A i \in Events :
        Event(i).accepted /\ Event(i).strategy = "heuristic"
          => Event(i).selector = Element(i).testid

\* Asking the LLM never loses a heal and never lowers its confidence.
LLMOnlyHelps ==
    \A i \in Events :
        LET alone == Propose(case[i].hint, Page, case[i].text)
        IN  /\ alone.selector # None => log[i].status = "healed"
            /\ Event(i).confidence >= alone.confidence

\* What is counted as a success is what is applied without a human, and a step
\* fails exactly when nothing matched.
MetricMatchesOutcome ==
    \A i \in Events :
        /\ (Event(i).metric = "success") <=> Event(i).accepted
        /\ (Event(i).metric = "no_match") <=> (log[i].status = "failed")
=============================================================================
