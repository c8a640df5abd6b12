\* Can the broadcaster stop?
SPECIFICATION Spec
CONSTANTS
    Conns = {c1}
    Shown = 2
    MaxAlerts = 3
    MaxRaised = 2
INVARIANT
    BroadcasterSurvives
CHECK_DEADLOCK FALSE
