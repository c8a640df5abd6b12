\* Two connections that come, get stuck and go, next to the broadcaster and to
\* new alerts.  A panic ends the process, so there are states without a step.
SPECIFICATION FairSpec
CONSTANTS
    Conns = {c1, c2}
    Shown = 2
    MaxAlerts = 3
    MaxRaised = 4
INVARIANTS
    TypeOK
    MapHasTheOpen
    NewestSurvive
    ShowsNewest
    PanicNeedsShortList
PROPERTIES
    RoundsEnd
    Registered
    ConnectionsEnd
CHECK_DEADLOCK FALSE
