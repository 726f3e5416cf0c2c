\* Three tasks share the breaker, as the class allows.
CONSTANTS
    Callers = {c1, c2, c3}
    Threshold = 2
    ResetTimeout = 2
    Outages = 2
    Cancels = 1
SPECIFICATION FairSpec
INVARIANTS
    StateMatchesCount
PROPERTIES
    OpenSheds
    Recovers
