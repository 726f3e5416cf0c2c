\* The declared columns on PostgreSQL, without any fault.
CONSTANTS
    Runs = {r1, r2}
    NoRun = NoRun
    Suites = {s1}
    Workers = {w1}
    MaxSteps = 2
    Database = "postgresql"
    Patience = 2
    Stamps = "naive"
    Dispatcher = "arq"
    SuiteOf <- OneSuite
    Budget <- NoFaults
SPECIFICATION Spec
INVARIANTS
    QueuedNeverLost
CHECK_DEADLOCK FALSE
