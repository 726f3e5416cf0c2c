\* Two tasks of the API or commands, on an empty database and on one in service,
\* on SQLite and on PostgreSQL; or a client of the listing, with three suites at three
\* instants, in pages of one and of two.
CONSTANTS
    Callers = {c1, c2}
    Settings <- ThreeSettings
    Workloads <- AllWorkloads
    Bootstraps <- EmptyWorkloads
    Population <- InUse
    Users = {"u1", "u2", "u3", "u4"}
    Emails = {"e1", "E1", "e2", "e3", "e4"}
    Typed = {"e1", "E1"}
    Roles = {"admin", "engineer"}
    AdminEmail = "e1"
    Lower <- LowerCase
    Suites = {"x1", "x2"}
    Slugs = {"demo"}
    DemoSlug = "demo"
    Cases = {"k1"}
    Events = {"h1"}
    SuiteOf <- FirstSuite
    Patches <- Bodies
    Entries = {i1, i2, i3}
    Sizes = {1, 2}
    MaxClock = 2
SPECIFICATION RecordsAndListing
INVARIANTS
    RecordsTypeOK
    SchemaIsUsable
    OneAccountPerEmail
    AdminsComeFromCli
    OneSuitePerSlug
    CasesHaveSuites
    NothingMissed
PROPERTIES
    UpdatesMerge
    OnlyOwnersChange
    AnsweredReviewsStand
