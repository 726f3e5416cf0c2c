\* Two concurrent requests with the same key.
CONSTANTS
    Runs = {r1, r2}
    NoRun = NoRun
    Suites = {s1}
    Workers = {w1, w2}
    MaxSteps = 1
    Database = "postgresql"
    Patience = 2
    Stamps = "aware"
    Dispatcher = "arq"
    Keys = {k1}
    NoKey = NoKey
    Cancels = {}
    Deletes = {}
    Fragile = {}
    SuiteOf <- OneSuite
    KeyOf <- SameKey
    Budget <- NoFaults
SPECIFICATION PlatformSpec
INVARIANTS
    OneRunPerKey
CHECK_DEADLOCK FALSE
