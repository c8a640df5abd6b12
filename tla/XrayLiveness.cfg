SPECIFICATION FairSpec
CONSTANTS
    Handlers = {h1}
    Cores = {c1}
    None = None
    MaxEdits = 2
    MaxPings = 1
    MaxFailures = 1
PROPERTIES
    EventuallyCurrent
    ShutdownEnds
CHECK_DEADLOCK FALSE
