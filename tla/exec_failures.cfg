\* One arq worker slot on PostgreSQL and one follower of its run: every kind of
\* fault, jobs delivered up to three times, one failed publication.
CONSTANTS
    Runs = {r1}
    NoRun = NoRun
    Suites = {s1}
    Workers = {w1}
    MaxSteps = 2
    Database = "postgresql"
    Patience = 2
    Stamps = "aware"
    Dispatcher = "arq"
    Followers = {f1}
    Environment = "local"
    MaxLost = 1
    SuiteOf <- OneSuite
    Budget <- AllFaults
SPECIFICATION FairStream
INVARIANTS
    StreamTypeOK
    VerdictMatchesResults
    ResultsAppearAtFinish
    EventsFollowTheRun
    FramesTellTheRun
PROPERTIES
    FollowersSeeTheEnd
CHECK_DEADLOCK FALSE
