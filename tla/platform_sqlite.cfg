\* One process on SQLite: task slots for workers, one writer, which others do not wait
\* for for ever, no foreign keys; the process may be stopped or die.
CONSTANTS
    Runs = {r1, r2}
    NoRun = NoRun
    Suites = {s1}
    Workers = {w1, w2}
    MaxSteps = 1
    Database = "sqlite"
    Patience = 0
    Stamps = "naive"
    Dispatcher = "inline"
    Keys = {k1}
    NoKey = NoKey
    Cancels = {c1}
    Deletes = {s1}
    Fragile = {}
    SuiteOf <- OneSuite
    KeyOf <- SameKey
    Budget <- SqliteFaults
SPECIFICATION FairPlatform
PROPERTIES
    AcceptedRunsSettle
CHECK_DEADLOCK FALSE
