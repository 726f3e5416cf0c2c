--------------------------- MODULE MCRunExecution ---------------------------
(* Instances of RunExecution for TLC: all runs are of one suite.           *)
EXTENDS RunExecution

OneSuite == [r \in Runs |-> CHOOSE s \in Suites : TRUE]

Faults(kinds) == [k \in FaultKind |-> IF k \in kinds THEN 1 ELSE 0]
NoFaults == Faults({})
TimeoutFault == Faults({"timeout"})
RedeliverFault == Faults({"redeliver"})
RestartFaults == Faults({"crash", "shutdown", "raise"})
=============================================================================
