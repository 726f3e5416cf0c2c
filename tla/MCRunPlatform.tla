---------------------------- MODULE MCRunPlatform ---------------------------
(* Instances of RunPlatform for TLC: all runs are of one suite, and the     *)
(* requests carry the same key or none.                                     *)
EXTENDS RunPlatform

OneSuite == [r \in Runs |-> CHOOSE s \in Suites : TRUE]

NoKeys == [r \in Runs |-> NoKey]
SameKey == [r \in Runs |-> CHOOSE k \in Keys : TRUE]

Faults(kinds) == [k \in FaultKind |-> IF k \in kinds THEN 1 ELSE 0]
NoFaults == Faults({})
RestartFaults == Faults({"crash", "shutdown"})
SqliteFaults == Faults({"crash", "shutdown", "locked"})
=============================================================================
