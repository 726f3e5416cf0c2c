------------------------- MODULE HealingEngine_proofs -------------------------
(***************************************************************************)
(* What a heal may do, for any steps and pages, any ratios of their texts  *)
(* and any answers of the LLM.                                             *)
(***************************************************************************)
EXTENDS HealingEngine, FiniteSetTheorems, TLAPS

-----------------------------------------------------------------------------
(* The least element of a set of natural numbers, on which the proofs rest *)
(* that max() finds an element and that a page has no gaps.                *)

Below == {pair \in Nat \X Nat : pair[1] < pair[2]}

LEMMA LeastNumber ==
    ASSUME NEW T \in SUBSET Nat, T # {}
    PROVE  \E x \in T : \A y \in T : x <= y
<1>1. IsWellFoundedOn(Below, Nat)
  BY NatLessThanWellFounded DEF OpToRel, Below
<1>2. \E x \in T : \A y \in T : ~(<<y, x>> \in Below)
  BY <1>1, WFMin
<1>3. \A x, y \in Nat : ~(<<y, x>> \in Below) => x <= y
  BY DEF Below
<1> QED
  BY <1>2, <1>3

-----------------------------------------------------------------------------
(* The best element.                                                       *)

Highest == Full * Unit

LEMMA FullValue == Full = 1000
BY DEF Full

LEMMA HighestType == Highest \in Nat
BY DEF Full, Unit, Highest

LEMMA HighestValue == Highest = 12 * 1000
BY DEF Full, Unit, Highest

\* max() over the scores of a page that has elements.
LEMMA BestExists ==
    ASSUME NEW h, NEW page, NEW n \in Nat \ {0}, DOMAIN page = 1 .. n,
           \A i \in 1 .. n : Score(h, page[i]) \in 0 .. Highest
    PROVE  Best(h, page) \in DOMAIN page
<1> DEFINE Top == Highest
           T == {Top - Score(h, page[i]) : i \in 1 .. n}
<1>1. Top \in Nat
  BY HighestType
<1> HIDE DEF Top
<1>2. \A i \in 1 .. n : Score(h, page[i]) \in 0 .. Top
  BY DEF Top
<1>3. PICK i \in 1 .. n : \A j \in 1 .. n : Score(h, page[j]) <= Score(h, page[i])
  <2>1. T \in SUBSET Nat /\ T # {}
    BY <1>1, <1>2
  <2>2. PICK x \in T : \A y \in T : x <= y
    BY <2>1, LeastNumber
  <2>3. PICK i \in 1 .. n : x = Top - Score(h, page[i])
    BY <2>2
  <2>4. ASSUME NEW j \in 1 .. n
        PROVE  Score(h, page[j]) <= Score(h, page[i])
    <3>1. Top - Score(h, page[j]) \in T
      OBVIOUS
    <3>2. Top - Score(h, page[i]) <= Top - Score(h, page[j])
      BY <2>2, <2>3, <3>1
    <3> QED
      BY <1>1, <1>2, <3>2
  <2> QED
    BY <2>4
<1> DEFINE F == {k \in 1 .. n : Score(h, page[k]) = Score(h, page[i])}
<1>4. PICK k \in F : \A m \in F : k <= m
  <2>1. F \in SUBSET Nat /\ F # {}
    OBVIOUS
  <2> QED
    BY <2>1, LeastNumber
<1>5. /\ k \in DOMAIN page
      /\ \A j \in DOMAIN page : Score(h, page[j]) <= Score(h, page[k])
  BY <1>3, <1>4
<1>6. ASSUME NEW j \in DOMAIN page, j < k
      PROVE  Score(h, page[j]) < Score(h, page[k])
  <2>1. j \notin F
    BY <1>4, <1>6
  <2>2. Score(h, page[j]) # Score(h, page[i]) /\ Score(h, page[k]) = Score(h, page[i])
    BY <1>4, <2>1
  <2> QED
    BY <1>2, <1>3, <1>4, <2>2
<1> QED
  BY <1>5, <1>6 DEF Best

-----------------------------------------------------------------------------
(* The page.                                                               *)

Prefix(T, i) == {j \in T : j <= i}

\* In a finite set of positions there is one of each rank.
LEMMA RankExists ==
    ASSUME NEW n \in Nat, NEW T, T \subseteq 1 .. n,
           NEW k \in Nat, 1 <= k, k <= Cardinality(T)
    PROVE  \E i \in T : Cardinality(Prefix(T, i)) = k
<1> DEFINE Upto(i) == {j \in T : j <= i}
           D == {i \in Nat : k <= Cardinality(Upto(i))}
<1>0. \A j \in T : j \in Nat /\ 1 <= j /\ j <= n
  OBVIOUS
<1>1. IsFiniteSet(T)
  <2>1. IsFiniteSet(1 .. n)
    BY FS_Interval
  <2> QED
    BY <2>1, FS_Subset
<1>2. ASSUME NEW i \in Nat
      PROVE  IsFiniteSet(Upto(i)) /\ Cardinality(Upto(i)) \in Nat
  <2>1. Upto(i) \subseteq T
    OBVIOUS
  <2> HIDE DEF Upto
  <2>2. IsFiniteSet(Upto(i))
    BY <1>1, <2>1, FS_Subset
  <2> QED
    BY <2>2, FS_CardinalityType
<1>3. PICK i \in D : \A m \in D : i <= m
  <2>1. Upto(n) = T
    BY <1>0
  <2>2. n \in D
    BY <2>1
  <2>3. D \in SUBSET Nat /\ D # {}
    BY <2>2
  <2> HIDE DEF D
  <2> QED
    BY <2>3, LeastNumber
<1>4. i \in Nat /\ k <= Cardinality(Upto(i)) /\ \A m \in Nat : m < i => ~(k <= Cardinality(Upto(m)))
  <2>1. i \in Nat /\ k <= Cardinality(Upto(i))
    BY <1>3
  <2>2. ASSUME NEW m \in Nat, m < i
        PROVE  ~(k <= Cardinality(Upto(m)))
    <3>1. m \notin D
      <4> HIDE DEF D
      <4> QED
        BY <1>3, <2>1, <2>2
    <3> QED
      BY <3>1
  <2> QED
    BY <2>1, <2>2
<1>5. i # 0
  <2>1. Upto(0) = {}
    <3>1. \A j \in T : ~(j <= 0)
      BY <1>0
    <3> QED
      BY <3>1
  <2>2. Cardinality(Upto(0)) = 0
    BY <2>1, FS_EmptySet
  <2> QED
    BY <1>4, <2>2
<1>6. i - 1 \in Nat /\ Cardinality(Upto(i - 1)) < k
  <2>1. i - 1 \in Nat /\ i - 1 < i
    BY <1>4, <1>5
  <2>2. Cardinality(Upto(i - 1)) \in Nat /\ ~(k <= Cardinality(Upto(i - 1)))
    BY <1>2, <1>4, <2>1
  <2> HIDE DEF Upto
  <2> QED
    BY <2>1, <2>2
<1>7. \A j \in T : j <= i <=> (j <= i - 1 \/ j = i)
  BY <1>0, <1>4
<1>8. i \in T
  <2>1. i \notin T => Upto(i) = Upto(i - 1)
    BY <1>7
  <2>2. Cardinality(Upto(i)) \in Nat /\ Cardinality(Upto(i - 1)) \in Nat
    BY <1>2, <1>4, <1>6
  <2> HIDE DEF Upto
  <2> QED
    BY <1>4, <1>6, <2>1, <2>2
<1>9. Cardinality(Upto(i)) = Cardinality(Upto(i - 1)) + 1
  <2>1. i \notin Upto(i - 1)
    BY <1>4
  <2>2. Upto(i) = Upto(i - 1) \cup {i}
    BY <1>7, <1>8
  <2>3. IsFiniteSet(Upto(i - 1))
    BY <1>2, <1>6
  <2> HIDE DEF Upto
  <2> QED
    BY <2>1, <2>2, <2>3, FS_AddElement
<1>10. Cardinality(Upto(i)) = k
  <2>1. Cardinality(Upto(i - 1)) \in Nat
    BY <1>2, <1>6
  <2> HIDE DEF Upto
  <2> QED
    BY <1>4, <1>6, <1>9, <2>1
<1> QED
  BY <1>8, <1>10 DEF Prefix

\* Each element of the page is the one a step of the case renders.
LEMMA PageElements ==
    ASSUME case \in Seq(Steps)
    PROVE  /\ Cardinality(Targets) \in Nat
           /\ DOMAIN Page = 1 .. Cardinality(Targets)
           /\ \A k \in DOMAIN Page : \E j \in DOMAIN case : Page[k] = Element(j)
<1>1. Targets \subseteq 1 .. Len(case) /\ Len(case) \in Nat
  BY DEF Targets
<1>2. Cardinality(Targets) \in Nat
  <2>1. IsFiniteSet(1 .. Len(case))
    BY <1>1, FS_Interval
  <2> QED
    BY <1>1, <2>1, FS_Subset, FS_CardinalityType
<1>3. ASSUME NEW k \in 1 .. Cardinality(Targets)
      PROVE  \E j \in DOMAIN case : Page[k] = Element(j)
  <2> DEFINE j == CHOOSE i \in Targets : Cardinality({m \in Targets : m <= i}) = k
  <2>0. k \in Nat /\ 1 <= k /\ k <= Cardinality(Targets)
    BY <1>2
  <2>1. \E i \in Targets : Cardinality({m \in Targets : m <= i}) = k
    <3>1. \E i \in Targets : Cardinality(Prefix(Targets, i)) = k
      BY <1>1, <2>0, RankExists
    <3>2. ASSUME NEW i
          PROVE  Prefix(Targets, i) = {m \in Targets : m <= i}
      BY DEF Prefix
    <3> QED
      BY <3>1, <3>2
  <2>2. j \in DOMAIN case
    BY <2>1 DEF Targets
  <2>3. Page[k] = Element(j)
    BY DEF Page
  <2> QED
    BY <2>2, <2>3
<1>4. DOMAIN Page = 1 .. Cardinality(Targets)
  BY DEF Page
<1> QED
  BY <1>2, <1>3, <1>4

\* What a hint and an element of a page are made of, as far as the score goes.
Scored(h) == h.text \in Words \cup {None} /\ IsFiniteSet(h.classes)
Rendered(e) == Scored(e) /\ e.id = None /\ e.testid # None /\ e.attrs = {}

LEMMA ElementRendered ==
    ASSUME case \in Seq(Steps), Len(case) <= MaxCase, NEW j \in DOMAIN case
    PROVE  Rendered(Element(j))
<1>1. case[j] \in Steps /\ j \in 1 .. MaxCase
  BY EngineAssumption
<1>2. AutoId[j] # None /\ IsFiniteSet(case[j].hint.classes)
  BY <1>1, EngineAssumption, StepAssumption
<1>3. case[j].text \in Words \cup {None}
  BY <1>1 DEF Words
<1> QED
  BY <1>2, <1>3 DEF Element, Rendered, Scored

\* The text of the step stands in for the text of its selector.
LEMMA ContextScored ==
    ASSUME NEW s \in Steps
    PROVE  /\ Scored(WithContext(s.hint, s.text))
           /\ WithContext(s.hint, s.text).testid = s.hint.testid
<1>1. s.text \in Words \cup {None} /\ s.hint.text \in Words \cup {None}
  BY DEF Words
<1>2. DOMAIN s.hint = {"tag", "id", "testid", "classes", "attrs", "text"}
      /\ IsFiniteSet(s.hint.classes)
  BY StepAssumption
<1> QED
  BY <1>1, <1>2 DEF WithContext, Scored

-----------------------------------------------------------------------------
(* The score: without the test-id it is at most 200, and with a test-id    *)
(* that only resembles another at most 500 thousandths.                    *)

LEMMA JaccardBounds ==
    ASSUME NEW a \in Nat, NEW b \in Nat, 0 < b, a <= b
    PROVE  (840 * a) \div b \in 0 .. 840
OBVIOUS

LEMMA ClassBounds ==
    ASSUME NEW h, NEW e, IsFiniteSet(h.classes), IsFiniteSet(e.classes)
    PROVE  ClassScore(h, e) \in 0 .. 840
<1> DEFINE Shared == h.classes \cap e.classes
           All == h.classes \cup e.classes
           Similar == (840 * Cardinality(Shared)) \div Cardinality(All)
<1>1. W_CLASS = 840
  BY DEF W_CLASS, Unit
<1>2. CASE Shared = {}
  BY <1>2 DEF ClassScore
<1>3. CASE Shared # {}
  <2>1. IsFiniteSet(All) /\ Shared \subseteq All
    BY FS_Union
  <2>2. IsFiniteSet(Shared) /\ Cardinality(Shared) <= Cardinality(All)
    BY <2>1, FS_Subset
  <2>3. Cardinality(Shared) \in Nat /\ Cardinality(All) \in Nat
    BY <2>1, <2>2, FS_CardinalityType
  <2>4. Cardinality(Shared) # 0
    BY <1>3, <2>2, FS_EmptySet
  <2>5. Similar \in 0 .. 840
    <3>1. PICK a \in Nat : a = Cardinality(Shared)
      BY <2>3
    <3>2. PICK b \in Nat : b = Cardinality(All)
      BY <2>3
    <3>3. 0 < b /\ a <= b
      BY <2>2, <2>4, <3>1, <3>2
    <3>4. (840 * a) \div b \in 0 .. 840
      BY <3>3, JaccardBounds
    <3>5. Similar = (840 * a) \div b
      BY <3>1, <3>2
    <3> HIDE DEF Similar
    <3> QED
      BY <3>4, <3>5
  <2>6. ClassScore(h, e) = Similar
    BY <1>1, <1>3 DEF ClassScore
  <2> HIDE DEF Similar
  <2> QED
    BY <2>5, <2>6
<1> QED
  BY <1>2, <1>3

LEMMA TextBounds ==
    ASSUME NEW h, NEW e, h.text \in Words \cup {None}, e.text \in Words \cup {None}
    PROVE  TextScore(h, e) \in 0 .. 1200
<1>1. W_TEXT = 1200
  BY DEF W_TEXT, Unit
<1>2. ASSUME Both(h.text, e.text)
      PROVE  Similarity(h.text, e.text) \in 0 .. 100
  <2>1. h.text \in Words /\ e.text \in Words
    BY <1>2 DEF Both
  <2>2. Ratio[<<h.text, e.text>>] \in 0 .. 100
    BY <2>1, RatioAssumption
  <2> QED
    BY <2>2 DEF Similarity
<1>3. ASSUME NEW x \in 0 .. 100
      PROVE  (1200 * x) \div 100 \in 0 .. 1200
  OBVIOUS
<1>4. CASE Both(h.text, e.text) /\ Similarity(h.text, e.text) > 50
  <2>1. PICK x \in 0 .. 100 : x = Similarity(h.text, e.text)
    BY <1>2, <1>4
  <2>2. TextScore(h, e) = (1200 * x) \div 100
    BY <1>1, <1>4, <2>1 DEF TextScore
  <2> QED
    BY <1>3, <2>2
<1>5. CASE ~(Both(h.text, e.text) /\ Similarity(h.text, e.text) > 50)
  <2>1. TextScore(h, e) = 0
    BY <1>5, Zenon DEF TextScore
  <2> QED
    BY <2>1
<1> QED
  BY <1>4, <1>5

LEMMA ScoreBounds ==
    ASSUME NEW h, NEW e, Scored(h), Rendered(e)
    PROVE  /\ Score(h, e) \in 0 .. Highest
           /\ Score(h, e) > 6000 => h.testid = e.testid
<1>1. ClassScore(h, e) \in 0 .. 840 /\ TextScore(h, e) \in 0 .. 1200
  BY ClassBounds, TextBounds DEF Scored, Rendered
<1>2. IdScore(h, e) = 0
  <2>1. ~Both(h.id, e.id)
    BY DEF Both, Rendered
  <2> QED
    BY <2>1 DEF IdScore
<1>3. TagScore(h, e) \in 0 .. 360
  BY DEF TagScore, W_TAG, Unit
<1>4. AttrScore(h, e) = 0
  <2>1. h.attrs \cap e.attrs = {}
    BY DEF Rendered
  <2>2. Cardinality(h.attrs \cap e.attrs) = 0
    BY <2>1, FS_EmptySet
  <2>3. (240 * 0) \div 5 = 0
    OBVIOUS
  <2> QED
    BY <2>2, <2>3 DEF AttrScore, W_ATTR, Unit, OtherAttrs
<1>5. TestIdScore(h, e) \in {0, 3600, 7200} /\ (TestIdScore(h, e) = 7200 => h.testid = e.testid)
  BY DEF TestIdScore, W_TESTID, Unit
<1>6. Score(h, e) = Capped(TestIdScore(h, e) + 0 + TextScore(h, e) + ClassScore(h, e)
                           + TagScore(h, e) + 0)
  BY <1>2, <1>4 DEF Score
<1>7. /\ Score(h, e) \in 0 .. Highest
      /\ Score(h, e) > 6000 => TestIdScore(h, e) = 7200
  <2> DEFINE t == TestIdScore(h, e)
             x == TextScore(h, e)
             c == ClassScore(h, e)
             g == TagScore(h, e)
             s == Score(h, e)
  <2>1. t \in Int /\ (t = 0 \/ t = 3600 \/ t = 7200)
    <3> HIDE DEF t
    <3>1. t \in {0, 3600, 7200}
      BY <1>5 DEF t
    <3> QED
      BY <3>1
  <2>2. /\ x \in Int /\ 0 <= x /\ x <= 1200
        /\ c \in Int /\ 0 <= c /\ c <= 840
        /\ g \in Int /\ 0 <= g /\ g <= 360
    <3> HIDE DEF x, c, g
    <3>1. x \in 0 .. 1200 /\ c \in 0 .. 840 /\ g \in 0 .. 360
      BY <1>1, <1>3 DEF x, c, g
    <3> QED
      BY <3>1
  <2>3. s = Capped(t + 0 + x + c + g + 0)
    BY <1>6
  <2> HIDE DEF t, x, c, g, s
  <2>4. s \in Int /\ 0 <= s /\ s <= 12 * 1000 /\ (s > 6000 => t = 7200)
    BY <2>1, <2>2, <2>3 DEF Capped, Full, Unit
  <2>5. s \in 0 .. Highest /\ (s > 6000 => t = 7200)
    BY <2>4, HighestValue
  <2> QED
    BY <2>5 DEF s, t
<1> QED
  BY <1>5, <1>7

LEMMA RoundedBounds ==
    ASSUME NEW s \in 0 .. Highest
    PROVE  Rounded(s) \in 0 .. 1000 /\ (Rounded(s) > 500 => s > 6000)
BY HighestValue DEF Rounded, Unit

-----------------------------------------------------------------------------
(* The proposals for a step: the heuristic's alone, and combined with an    *)
(* answer of the LLM.                                                      *)

Alone(i) == Propose(case[i].hint, Page, case[i].text)

FromLLM(a) == Proposal(a[1], "llm", a[2])

Proposals(i) == {Alone(i)} \cup {Combine(Alone(i), FromLLM(a)) : a \in Answers}

GoodCase == case \in Seq(Steps) /\ Len(case) <= MaxCase

\* A confident proposal of the heuristic is the element of the step itself.
LEMMA AloneFacts ==
    ASSUME GoodCase, NEW i \in DOMAIN case
    PROVE  /\ Alone(i).strategy = "heuristic"
           /\ Alone(i).confidence \in 0 .. 1000
           /\ Alone(i).selector = None => Alone(i).confidence = 0
           /\ Alone(i).confidence > 500 => Alone(i).selector = Element(i).testid
<1> DEFINE h == WithContext(case[i].hint, case[i].text)
           n == Cardinality(Targets)
           b == Best(h, Page)
           best == Page[b]
           s == Score(h, best)
<1>1. /\ n \in Nat /\ DOMAIN Page = 1 .. n
      /\ \A k \in DOMAIN Page : \E j \in DOMAIN case : Page[k] = Element(j)
  BY PageElements DEF GoodCase
<1>2. \A k \in DOMAIN Page : Rendered(Page[k])
  BY <1>1, ElementRendered DEF GoodCase
<1>3. Scored(h) /\ h.testid = case[i].hint.testid
  BY ContextScored DEF GoodCase
<1>4. CASE Page = << >> \/ s = 0
  <2>1. Alone(i) = NoMatch
    BY <1>4 DEF Alone, Propose
  <2> QED
    BY <2>1 DEF NoMatch, Proposal
<1>5. CASE Page # << >> /\ s # 0
  <2>1. n # 0
    <3>1. n = 0 => Page = << >>
      BY DEF Page
    <3> QED
      BY <1>5, <3>1
  <2>2. \A k \in 1 .. n : Score(h, Page[k]) \in 0 .. Highest
    <3> HIDE DEF h, n
    <3>1. ASSUME NEW k \in 1 .. n PROVE Score(h, Page[k]) \in 0 .. Highest
      <4>1. Rendered(Page[k])
        BY <1>1, <1>2
      <4> QED
        BY <1>3, <4>1, ScoreBounds
    <3> QED
      BY <3>1
  <2>3. b \in DOMAIN Page
    <3> HIDE DEF h, n
    <3>1. n \in Nat \ {0}
      BY <1>1, <2>1
    <3> QED
      BY <1>1, <2>2, <3>1, BestExists
  <2>4. Rendered(best)
    BY <1>2, <2>3
  <2>5. s \in 0 .. Highest /\ (s > 6000 => h.testid = best.testid)
    <3> HIDE DEF h, best
    <3> QED
      BY <1>3, <2>4, ScoreBounds DEF s
  <2>6. Alone(i) = Proposal(best.testid, "heuristic", Rounded(s))
    BY <1>5 DEF Alone, Propose, Selector
  <2>7. Rounded(s) \in 0 .. 1000 /\ (Rounded(s) > 500 => s > 6000)
    <3> HIDE DEF s
    <3> QED
      BY <2>5, RoundedBounds
  <2>8. best.testid # None
    BY <2>4 DEF Rendered
  <2>9. h.testid = best.testid => Element(i).testid = best.testid
    BY <1>3, <2>8 DEF Element
  <2> HIDE DEF h, best, s
  <2> QED
    BY <2>5, <2>6, <2>7, <2>8, <2>9 DEF Proposal
<1> QED
  BY <1>4, <1>5

\* The LLM can only add to what the heuristic found.
LEMMA CombineFacts ==
    ASSUME NEW p, NEW a \in Answers,
           p.confidence \in 0 .. 1000,
           p.selector = None => p.confidence = 0,
           NEW both, both = Combine(p, FromLLM(a))
    PROVE  /\ both.confidence \in 0 .. 1000
           /\ both.confidence >= p.confidence
           /\ p.selector # None => both.selector # None
           /\ both = p \/ both.strategy # "heuristic"
<1> DEFINE q == FromLLM(a)
<1>1. q.confidence \in 0 .. 1000 /\ q.strategy = "llm"
  BY EngineAssumption, FullValue DEF FromLLM, Proposal
<1>2. CASE q.selector = None
  BY <1>2 DEF Combine
<1>3. CASE q.selector # None /\ p.selector = None
  <2>1. both = q
    BY <1>3 DEF Combine
  <2>2. p.confidence = 0
    BY <1>3
  <2> QED
    <3> HIDE DEF q
    <3>1. both.confidence \in 0 .. 1000
      BY <1>1, <2>1
    <3>2. both.confidence >= p.confidence
      BY <2>2, <3>1
    <3>3. both.selector # None /\ both.strategy # "heuristic"
      BY <1>1, <1>3, <2>1
    <3> QED
      BY <3>1, <3>2, <3>3, Zenon
<1>4. CASE q.selector # None /\ p.selector # None /\ p.selector = q.selector
  <2> DEFINE c == Boosted(Larger(p.confidence, q.confidence))
  <2>1. both = Proposal(q.selector, "hybrid", c)
    BY <1>4 DEF Combine
  <2> HIDE DEF q
  <2>2. c \in 0 .. 1000 /\ c >= p.confidence
    <3>1. PICK x \in 0 .. 1000 : x = p.confidence
      OBVIOUS
    <3>2. PICK y \in 0 .. 1000 : y = q.confidence
      BY <1>1
    <3>3. c = Boosted(Larger(x, y))
      BY <3>1, <3>2
    <3>4. Boosted(Larger(x, y)) \in 0 .. 1000 /\ Boosted(Larger(x, y)) >= x
      <4> HIDE DEF c, q
      <4> QED
        BY FullValue DEF Boosted, Larger
    <3> HIDE DEF c
    <3> QED
      BY <3>1, <3>3, <3>4
  <2> HIDE DEF c, q
  <2> QED
    BY <1>4, <2>1, <2>2 DEF Proposal
<1>5. CASE q.selector # None /\ p.selector # None /\ p.selector # q.selector
  <2>1. both = IF q.confidence >= p.confidence THEN q ELSE p
    BY <1>5 DEF Combine
  <2> HIDE DEF q
  <2> QED
    BY <1>1, <1>5, <2>1
<1> HIDE DEF q
<1> QED
  BY <1>2, <1>3, <1>4, <1>5, Zenon

LEMMA ProposalFacts ==
    ASSUME GoodCase, NEW i \in DOMAIN case, NEW p \in Proposals(i)
    PROVE  /\ p.confidence \in 0 .. 1000
           /\ p.confidence >= Alone(i).confidence
           /\ Alone(i).selector # None => p.selector # None
           /\ p = Alone(i) \/ p.strategy # "heuristic"
<1>1. /\ Alone(i).confidence \in 0 .. 1000
      /\ Alone(i).selector = None => Alone(i).confidence = 0
  BY AloneFacts
<1>2. CASE p = Alone(i)
  BY <1>1, <1>2
<1>3. CASE \E a \in Answers : p = Combine(Alone(i), FromLLM(a))
  <2>1. PICK a \in Answers : p = Combine(Alone(i), FromLLM(a))
    BY <1>3
  <2> QED
    BY <1>1, <2>1, CombineFacts
<1> QED
  BY <1>2, <1>3 DEF Proposals

-----------------------------------------------------------------------------
(* The inductive invariant: the log holds, for each step so far, an entry   *)
(* made from one of the proposals for that very step.                      *)

Entries(i) == {Clean} \cup {Healed(p) : p \in Proposals(i)}

HealInv ==
    /\ GoodCase
    /\ log \in Seq(UNION {Entries(i) : i \in DOMAIN case})
    /\ Len(log) <= Len(case)
    /\ index = Len(log) + 1
    /\ \A i \in DOMAIN log : log[i] \in Entries(i)
    /\ asked = << >> \/ (index <= Len(case) /\ asked = <<Alone(index)>>)

LEMMA HealInit == Init => HealInv
<1> SUFFICES ASSUME Init PROVE HealInv
  OBVIOUS
<1>1. GoodCase
  <2>1. PICK n \in 1 .. MaxCase : case \in [1 .. n -> Steps]
    BY DEF Init
  <2>2. case \in Seq(Steps) /\ Len(case) = n
    BY <2>1, EngineAssumption
  <2> QED
    BY <2>1, <2>2, EngineAssumption DEF GoodCase
<1>2. log = << >> /\ index = 1 /\ asked = << >>
  BY DEF Init
<1>3. Len(case) \in Nat
  BY <1>1 DEF GoodCase
<1> QED
  BY <1>1, <1>2, <1>3 DEF HealInv

\* The proposals depend on the case alone.
LEMMA SameCase ==
    ASSUME case' = case
    PROVE  /\ GoodCase <=> GoodCase'
           /\ \A i : Alone(i)' = Alone(i) /\ Entries(i)' = Entries(i)
<1>1. Page' = Page
  BY DEF Page, Targets, Element
<1>2. ASSUME NEW i PROVE Alone(i)' = Alone(i)
  BY <1>1 DEF Alone
<1>3. ASSUME NEW i PROVE Entries(i)' = Entries(i)
  BY <1>2 DEF Entries, Proposals
<1> QED
  BY <1>2, <1>3 DEF GoodCase

\* An entry made from a proposal for the current step keeps the invariant.
LEMMA BookKeeps ==
    ASSUME HealInv, index <= Len(case), NEW entry \in Entries(index), Book(entry)
    PROVE  HealInv'
<1> DEFINE S == UNION {Entries(i) : i \in DOMAIN case}
<1>1. case' = case /\ index' = index + 1 /\ asked' = << >> /\ log' = Append(log, entry)
  BY DEF Book
<1>2. GoodCase' /\ \A i : Entries(i)' = Entries(i)
  BY <1>1, SameCase DEF HealInv
<1>3. Len(case) \in Nat /\ DOMAIN case = 1 .. Len(case)
  BY DEF HealInv, GoodCase
<1>4. /\ log \in Seq(S) /\ Len(log) \in Nat /\ DOMAIN log = 1 .. Len(log)
      /\ index = Len(log) + 1 /\ \A i \in DOMAIN log : log[i] \in Entries(i)
  BY DEF HealInv
<1>5. entry \in S
  BY <1>3, <1>4
<1> HIDE DEF S
<1>6. /\ log' \in Seq(S) /\ Len(log') = Len(log) + 1 /\ DOMAIN log' = 1 .. Len(log) + 1
      /\ \A i \in 1 .. Len(log) : log'[i] = log[i]
      /\ log'[Len(log) + 1] = entry
  BY <1>1, <1>4, <1>5
<1>7. ASSUME NEW i \in DOMAIN log' PROVE log'[i] \in Entries(i)'
  <2>1. CASE i \in 1 .. Len(log)
    BY <1>2, <1>4, <1>6, <2>1
  <2>2. CASE i = Len(log) + 1
    BY <1>2, <1>4, <1>6, <2>2
  <2> QED
    BY <1>4, <1>6, <2>1, <2>2
<1>8. S' = S
  BY <1>1, <1>2 DEF S
<1>9. Len(log') <= Len(case') /\ index' = Len(log') + 1
  BY <1>1, <1>3, <1>4, <1>6
<1>10. log' \in Seq(UNION {Entries(i)' : i \in DOMAIN case'})
  BY <1>6, <1>8 DEF S
<1> QED
  BY <1>1, <1>2, <1>7, <1>9, <1>10 DEF HealInv

LEMMA HealStep == HealInv /\ [Next]_vars => HealInv'
<1> SUFFICES ASSUME HealInv, [Next]_vars PROVE HealInv'
  OBVIOUS
<1>1. ASSUME index <= Len(case), NEW p \in Proposals(index), Book(Healed(p))
      PROVE  HealInv'
  <2>1. Healed(p) \in Entries(index)
    BY DEF Entries
  <2> QED
    BY <1>1, <2>1, BookKeeps
<1>2. CASE RunStable
  <2>1. Clean \in Entries(index)
    BY DEF Entries
  <2> QED
    BY <1>2, <2>1, BookKeeps DEF RunStable
<1>3. CASE HealAlone
  <2>1. Heuristic = Alone(index) /\ Alone(index) \in Proposals(index)
    BY DEF Heuristic, Current, Alone, Proposals
  <2> QED
    BY <1>1, <1>3, <2>1 DEF HealAlone
<1>4. CASE AskLLM
  <2>1. case' = case /\ index' = index /\ log' = log /\ index <= Len(case)
        /\ asked' = <<Alone(index)>>
    BY <1>4 DEF AskLLM, Heuristic, Current, Alone
  <2>2. GoodCase' /\ \A i : Alone(i)' = Alone(i) /\ Entries(i)' = Entries(i)
    BY <2>1, SameCase DEF HealInv
  <2>3. Alone(index)' = Alone(index)
    BY <2>1, SameCase DEF Alone
  <2> QED
    BY <2>1, <2>2, <2>3 DEF HealInv
<1>5. CASE LLMAnswers
  <2>1. index <= Len(case) /\ asked[1] = Alone(index)
    BY <1>5 DEF HealInv, LLMAnswers
  <2>2. CASE Book(Healed(asked[1]))
    BY <1>1, <2>1, <2>2 DEF Proposals
  <2>3. ASSUME NEW a \in Answers, Book(Healed(Combine(asked[1], Proposal(a[1], "llm", a[2]))))
        PROVE  HealInv'
    <3>1. Combine(Alone(index), FromLLM(a)) \in Proposals(index)
      BY DEF Proposals
    <3> QED
      BY <1>1, <2>1, <2>3, <3>1 DEF FromLLM
  <2> QED
    BY <1>5, <2>2, <2>3 DEF LLMAnswers
<1>6. CASE UNCHANGED vars
  <2>1. case' = case /\ index' = index /\ log' = log /\ asked' = asked
    BY <1>6 DEF vars
  <2>2. GoodCase' /\ \A i : Alone(i)' = Alone(i) /\ Entries(i)' = Entries(i)
    BY <2>1, SameCase DEF HealInv
  <2>3. Alone(index)' = Alone(index)
    BY <2>1, <1>6, SameCase DEF Alone
  <2> QED
    BY <2>1, <2>2, <2>3 DEF HealInv
<1> QED
  BY <1>2, <1>3, <1>4, <1>5, <1>6 DEF Next

LEMMA HealInvariant == Spec => []HealInv
BY HealInit, HealStep, PTL DEF Spec

-----------------------------------------------------------------------------
(* The theorems.                                                           *)

\* An entry of the log is a clean step or the heal of one of the proposals.
LEMMA LogEntry ==
    ASSUME HealInv, NEW i \in DOMAIN log
    PROVE  /\ i \in DOMAIN case
           /\ \/ log[i] = Clean
              \/ \E p \in Proposals(i) : log[i] = Healed(p)
<1>1. i \in DOMAIN case
  BY DEF HealInv, GoodCase
<1> QED
  BY <1>1 DEF HealInv, Entries

\* Each healing event reports a proposal for its own step.
LEMMA EventOf ==
    ASSUME HealInv, NEW i \in Events
    PROVE  /\ i \in DOMAIN case /\ i \in DOMAIN log
           /\ \E p \in Proposals(i) : log[i] = Healed(p) /\ Event(i) = Healed(p).event[1]
<1>1. i \in DOMAIN log /\ log[i].event # << >>
  BY DEF Events
<1>2. i \in DOMAIN case /\ (log[i] = Clean \/ \E p \in Proposals(i) : log[i] = Healed(p))
  BY <1>1, LogEntry
<1>3. log[i] # Clean
  BY <1>1 DEF Clean
<1> QED
  BY <1>1, <1>2, <1>3 DEF Event

\* The steps of a case are booked one by one, and no confidence leaves the range
\* that HealingProposal accepts.
THEOREM HealTypeCorrect == Spec => []TypeOK
<1>1. ASSUME HealInv PROVE TypeOK
  <2>1. case \in Seq(Steps) /\ index = Len(log) + 1 /\ Len(asked) <= 1
    <3>1. asked = << >> \/ \E x : asked = <<x>>
      BY <1>1 DEF HealInv
    <3>2. Len(<< >>) <= 1 /\ \A x : Len(<<x>>) <= 1
      OBVIOUS
    <3>3. Len(asked) <= 1
      BY <3>1, <3>2
    <3> QED
      BY <1>1, <3>3 DEF HealInv, GoodCase
  <2>2. ASSUME NEW i \in DOMAIN log
        PROVE  /\ log[i].status \in {"passed", "healed", "failed"}
               /\ log[i].event = << >> <=> log[i].status = "passed"
    <3>1. CASE log[i] = Clean
      BY <3>1 DEF Clean
    <3>2. ASSUME NEW p, log[i] = Healed(p)
          PROVE  /\ log[i].status \in {"healed", "failed"}
                 /\ log[i].event # << >>
      BY <3>2 DEF Healed
    <3> QED
      BY <1>1, <3>1, <3>2, LogEntry
  <2>3. ASSUME NEW i \in Events
        PROVE  Event(i).confidence \in 0 .. Full
    <3>1. PICK p \in Proposals(i) : Event(i) = Healed(p).event[1]
      BY <1>1, EventOf
    <3>2. p.confidence \in 0 .. 1000
      BY <1>1, EventOf, ProposalFacts DEF HealInv
    <3>3. Event(i).confidence = p.confidence
      BY <3>1 DEF Healed
    <3> QED
      BY <3>2, <3>3, FullValue
  <2> QED
    BY <2>1, <2>2, <2>3 DEF TypeOK
<1> QED
  BY <1>1, HealInvariant, PTL

\* What is counted as a success is what is applied without a human, whatever the
\* threshold and the answers.
THEOREM MetricIsOutcome == Spec => []MetricMatchesOutcome
<1>1. ASSUME HealInv PROVE MetricMatchesOutcome
  <2>1. ASSUME NEW i \in Events
        PROVE  /\ (Event(i).metric = "success") <=> Event(i).accepted
               /\ (Event(i).metric = "no_match") <=> (log[i].status = "failed")
    <3>1. PICK p \in Proposals(i) : log[i] = Healed(p) /\ Event(i) = Healed(p).event[1]
      BY <1>1, EventOf
    <3>2. /\ Event(i).metric = Outcome(p)
          /\ Event(i).accepted = (p.selector # None /\ Confident(p))
          /\ log[i].status = IF p.selector # None THEN "healed" ELSE "failed"
      BY <3>1 DEF Healed
    <3> QED
      BY <3>2 DEF Outcome
  <2> QED
    BY <2>1 DEF MetricMatchesOutcome
<1> QED
  BY <1>1, HealInvariant, PTL

\* Asking the LLM loses no heal and lowers no confidence.
THEOREM LLMHelps == Spec => []LLMOnlyHelps
<1>1. ASSUME HealInv PROVE LLMOnlyHelps
  <2>1. ASSUME NEW i \in Events
        PROVE  /\ Alone(i).selector # None => log[i].status = "healed"
               /\ Event(i).confidence >= Alone(i).confidence
    <3>1. PICK p \in Proposals(i) : log[i] = Healed(p) /\ Event(i) = Healed(p).event[1]
      BY <1>1, EventOf
    <3>2. /\ p.confidence >= Alone(i).confidence
          /\ Alone(i).selector # None => p.selector # None
      BY <1>1, EventOf, ProposalFacts DEF HealInv
    <3>3. /\ Event(i).confidence = p.confidence
          /\ log[i].status = IF p.selector # None THEN "healed" ELSE "failed"
      BY <3>1 DEF Healed
    <3> QED
      BY <3>2, <3>3
  <2> QED
    BY <2>1 DEF LLMOnlyHelps, Alone
<1> QED
  BY <1>1, HealInvariant, PTL

\* With a threshold above 0.5, as the default 0.6 is, what the heuristic heals on
\* its own is the element of the very step that drifted: the other signals sum up to
\* at most 0.2, and a test-id that only resembles another adds 0.3.
THEOREM AcceptedIsOwn ==
    ASSUME MinConfidence > 500
    PROVE  Spec => []AcceptedHealIsOwn
<1>1. ASSUME HealInv PROVE AcceptedHealIsOwn
  <2>1. ASSUME NEW i \in Events, Event(i).accepted, Event(i).strategy = "heuristic"
        PROVE  Event(i).selector = Element(i).testid
    <3>1. PICK p \in Proposals(i) : Event(i) = Healed(p).event[1]
      BY <1>1, EventOf
    <3>2. /\ Event(i).selector = p.selector
          /\ Event(i).strategy = p.strategy
          /\ Event(i).accepted = (p.selector # None /\ Confident(p))
      BY <3>1 DEF Healed
    <3>3. i \in DOMAIN case /\ GoodCase
      BY <1>1, EventOf DEF HealInv
    <3>4. p = Alone(i)
      BY <2>1, <3>2, <3>3, ProposalFacts
    <3>5. Alone(i).confidence \in 0 .. 1000 /\ MinConfidence \in Int /\ MinConfidence > 500
      BY <3>3, AloneFacts, EngineAssumption, FullValue
    <3>6. Alone(i).confidence > 500
      <4>1. Alone(i).confidence >= MinConfidence
        BY <2>1, <3>2, <3>4 DEF Confident
      <4> QED
        BY <3>5, <4>1
    <3> QED
      BY <3>2, <3>3, <3>4, <3>6, AloneFacts
  <2> QED
    BY <2>1 DEF AcceptedHealIsOwn
<1> QED
  BY <1>1, HealInvariant, PTL

=============================================================================
