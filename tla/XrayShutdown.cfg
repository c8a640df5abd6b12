SPECIFICATION Spec
CONSTANTS
    Handlers = {h1}
    Cores = {c1}
    None = None
    MaxEdits = 1
    MaxPings = 1
    MaxFailures = 1
INVARIANT
    NothingRunsAtExit
CHECK_DEADLOCK FALSE
