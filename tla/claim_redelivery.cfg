\* A duplicated delivery.
CONSTANTS
    Runs = {r1, r2}
    NoRun = NoRun
    Suites = {s1}
    Workers = {w1, w2}
    MaxSteps = 1
    Database = "postgresql"
    Patience = 2
    Stamps = "aware"
    Dispatcher = "arq"
    SuiteOf <- OneSuite
    Budget <- RedeliverFault
SPECIFICATION Spec
INVARIANTS
    NoDoubleExecution
CHECK_DEADLOCK FALSE
