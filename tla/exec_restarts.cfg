\* arq on PostgreSQL: worker crashes, shutdowns and raising steps.
CONSTANTS
    Runs = {r1, r2}
    NoRun = NoRun
    Suites = {s1}
    Workers = {w1, w2}
    MaxSteps = 2
    Database = "postgresql"
    Patience = 2
    Stamps = "aware"
    Dispatcher = "arq"
    SuiteOf <- OneSuite
    Budget <- RestartFaults
SPECIFICATION Spec
INVARIANTS
    TypeOK
    AtMostOneExecutor
    QueuedNeverLost
    GaugeExact
PROPERTIES
    StatusMachine
CHECK_DEADLOCK FALSE
