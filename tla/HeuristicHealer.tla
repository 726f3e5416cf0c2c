-------------------------- MODULE HeuristicHealer ---------------------------
(***************************************************************************)
(* The deterministic healer (healing/strategies.py): each element of the   *)
(* page is scored by the signals it shares with the broken selector, and   *)
(* the best one is proposed.                                               *)
(*                                                                         *)
(* Scores are counted in 1/12000: the weights are whole numbers of it, and *)
(* so are the Jaccard similarities of sets of up to four classes.          *)
(* Confidences are in thousandths, as the code rounds them.                *)
(***************************************************************************)
EXTENDS Integers, Sequences, FiniteSets

CONSTANTS None,     \* an absent tag, id, test-id, text or selector
          Inside,   \* pairs <<a, b>>: the test-id a is a substring of b
          Ratio     \* SequenceMatcher ratio of two names, in hundredths

\* A broken selector's hints and an element of the page have the same fields:
\* tag, id, testid, classes, attrs (the other identifying attributes) and text.

Unit == 12
Full == 1000
W_TESTID == 600 * Unit
W_ID == 180 * Unit
W_TEXT == 100 * Unit
W_CLASS == 70 * Unit
W_TAG == 30 * Unit
W_ATTR == 20 * Unit
OtherAttrs == 5   \* name, aria-label, placeholder, role, type

Both(a, b) == a # None /\ b # None
Similarity(a, b) == IF a = b THEN 100 ELSE Ratio[<<a, b>>]

\* Mutant: a partial match counts as an exact one.
TestIdGreedy(h, e) ==
    IF Both(h.testid, e.testid)
       /\ (h.testid = e.testid
           \/ {<<h.testid, e.testid>>, <<e.testid, h.testid>>} \cap Inside # {})
    THEN W_TESTID ELSE 0
TestIdScore(h, e) ==
    IF ~Both(h.testid, e.testid) THEN 0
    ELSE IF h.testid = e.testid THEN W_TESTID
    ELSE IF {<<h.testid, e.testid>>, <<e.testid, h.testid>>} \cap Inside # {}
         THEN W_TESTID \div 2
    ELSE 0

IdScore(h, e) ==
    IF ~Both(h.id, e.id) THEN 0
    ELSE IF h.id = e.id THEN W_ID
    ELSE IF Similarity(h.id, e.id) > 60 THEN W_ID \div 2
    ELSE 0

TextScore(h, e) ==
    IF Both(h.text, e.text) /\ Similarity(h.text, e.text) > 50
    THEN (W_TEXT * Similarity(h.text, e.text)) \div 100 ELSE 0

\* W_CLASS times the Jaccard similarity.
ClassScore(h, e) ==
    IF h.classes \cap e.classes = {} THEN 0
    ELSE (W_CLASS * Cardinality(h.classes \cap e.classes))
            \div Cardinality(h.classes \cup e.classes)

TagScore(h, e) == IF h.tag # None /\ h.tag = e.tag THEN W_TAG ELSE 0

AttrScore(h, e) == (W_ATTR * Cardinality(h.attrs \cap e.attrs)) \div OtherAttrs

Capped(s) == IF s > Full * Unit THEN Full * Unit ELSE s

Score(h, e) ==
    Capped(TestIdScore(h, e) + IdScore(h, e) + TextScore(h, e)
           + ClassScore(h, e) + TagScore(h, e) + AttrScore(h, e))

Rounded(s) == (s + Unit \div 2) \div Unit

-----------------------------------------------------------------------------
Proposal(selector, strategy, confidence) ==
    [selector |-> selector, strategy |-> strategy, confidence |-> confidence]

NoMatch == Proposal(None, "heuristic", 0)

\* The text the step is about stands in for a text of the selector.
WithContext(h, context) == IF h.text = None THEN [h EXCEPT !.text = context] ELSE h

\* Every element of the page carries a test-id, which is what to_selector emits.
Selector(e) == e.testid

\* max() keeps the first of the best elements, in document order.
Best(h, page) ==
    CHOOSE i \in DOMAIN page :
        /\ \A j \in DOMAIN page : Score(h, page[j]) <= Score(h, page[i])
        /\ \A j \in DOMAIN page : j < i => Score(h, page[j]) < Score(h, page[i])

Propose(hints, page, context) ==
    LET h == WithContext(hints, context)
        best == page[Best(h, page)]
    IN  IF page = << >> \/ Score(h, best) = 0
        THEN NoMatch
        ELSE Proposal(Selector(best), "heuristic", Rounded(Score(h, best)))
=============================================================================
