\* A job timeout.
CONSTANTS
    Runs = {r1, r2}
    NoRun = NoRun
    Suites = {s1}
    Workers = {w1, w2}
    MaxSteps = 1
    Database = "postgresql"
    Patience = 2
    Stamps = "aware"
    Dispatcher = "arq"
    SuiteOf <- OneSuite
    Budget <- TimeoutFault
SPECIFICATION Spec
INVARIANTS
    FinishedIsTerminal
CHECK_DEADLOCK FALSE
