---------------------------- MODULE MCEventStream ----------------------------
(* Instances of EventStream for TLC: all runs are of one suite.            *)
EXTENDS EventStream

OneSuite == [r \in Runs |-> CHOOSE s \in Suites : TRUE]
AllFaults == [k \in FaultKind |-> IF k = "redeliver" THEN 2 ELSE 1]
=============================================================================
