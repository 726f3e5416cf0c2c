\* The production deployment: PostgreSQL, arq, two workers with restarts, a cancel
\* request and the deletion of the suite.
CONSTANTS
    Runs = {r1, r2}
    NoRun = NoRun
    Suites = {s1}
    Workers = {w1, w2}
    MaxSteps = 1
    Database = "postgresql"
    Patience = 2
    Stamps = "aware"
    Dispatcher = "arq"
    Keys = {k1}
    NoKey = NoKey
    Cancels = {c1}
    Deletes = {s1}
    Fragile = {r2}
    SuiteOf <- OneSuite
    KeyOf <- NoKeys
    Budget <- RestartFaults
SPECIFICATION PlatformSpec
INVARIANTS
    PlatformTypeOK
    VerdictMatchesResults
    AcceptedStaysQueued
    JobsHaveRuns
    NoOrphans
PROPERTIES
    CancelBeforePickupHolds
    OnlyStaleCancelsOverwrite
CHECK_DEADLOCK FALSE
