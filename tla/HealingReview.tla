---------------------------- MODULE HealingReview ----------------------------
(***************************************************************************)
(* Review of healing events (services/healing_service.py,                  *)
(* api/v1/healing.py): load the event, set accepted, commit.  Any engineer *)
(* may review any event, as often as he likes.                             *)
(***************************************************************************)
EXTENDS SuiteCatalog

ReviewEvent(c) ==
    /\ MayCall(c, "review")
    /\ \E u \in Engineers, e \in Events, want \in {"accepted", "rejected"} :
         Begin(c, "review", IF reviews[e] = "gone" THEN Idle(404)
                            ELSE [op |-> "review", at |-> "loaded", event |-> e,
                                  seen |-> reviews[e], want |-> want])
    /\ UNCHANGED <<setting, workload, schema, rows, tokens>>

\* Mutant: an event counts as reviewed once.
WriteReviewOnce(c) ==
    /\ HasOp(c, "review", "loaded")
    /\ LET e == call[c].event
       IN reviews' = [reviews EXCEPT ![e] = IF @ = "unset" THEN call[c].want ELSE @]
    /\ Answer(c, 200)
    /\ UNCHANGED <<setting, workload, schema, users, suites, cases, tokens>>

\* The UPDATE is sent only when the verdict differs from the one that was loaded:
\* a review that repeats a stale verdict writes nothing and is answered with it.
WriteReview(c) ==
    /\ HasOp(c, "review", "loaded")
    /\ LET e == call[c].event
           same == call[c].want = call[c].seen
       IN  \/ /\ same
              /\ Answer(c, 200)
              /\ UNCHANGED reviews
           \/ /\ ~same
              /\ reviews[e] # "gone"
              /\ reviews' = [reviews EXCEPT ![e] = call[c].want]
              /\ Answer(c, 200)
           \/ /\ ~same
              /\ reviews[e] = "gone"
              /\ Answer(c, 500)
              /\ UNCHANGED reviews
    /\ UNCHANGED <<setting, workload, schema, users, suites, cases, tokens>>

ReviewNext == \E c \in Callers : ReviewEvent(c) \/ WriteReview(c)

-----------------------------------------------------------------------------
\* A review that is answered 200 is what the event says from then on, unless it
\* repeats a verdict that another review has overwritten since it was loaded, or
\* the event went with its suite.  And what an event says somebody has asked for.
AnsweredReviewsStand ==
    [][/\ \A c \in Callers :
            HasOp(c, "review", "loaded") /\ call'[c] = Idle(200) =>
              LET e == call[c].event
              IN  reviews'[e] = call[c].want
                  \/ (call[c].want = call[c].seen /\ reviews[e] # call[c].seen)
       /\ \A e \in Events : reviews'[e] # reviews[e] =>
            \/ reviews'[e] = "gone" /\ ~Present(suites'[SuiteOf[e]])
            \/ \E c \in Callers : /\ HasOp(c, "review", "loaded")
                                  /\ call[c].event = e
                                  /\ call[c].want = reviews'[e]]_recordVars
=============================================================================
