\* Overlapping requests of one client; a process dies once.
CONSTANTS
    Handlers = {h1, h2, h3}
    Limit = 3
    Window = 3
    Losses = 1
SPECIFICATION FairSpec
INVARIANTS
    AtMostLimit
    OneOpener
    ExpiryIsComing
PROPERTIES
    WindowEnds
