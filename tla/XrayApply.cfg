SPECIFICATION Spec
CONSTANTS
    Handlers = {h1, h2}
    Cores = {c1, c2}
    None = None
    MaxEdits = 2
    MaxPings = 1
    MaxFailures = 1
SYMMETRY Symmetry
INVARIANTS
    TypeOK
    NoInstanceForgotten
    SuccessIsServed
    StopIsComplete
PROPERTY
    NeverOlder
CHECK_DEADLOCK FALSE
