\* Checks of one server, which may be in the list twice, with everything that
\* can happen to it during a check.
SPECIFICATION Spec
CONSTANTS
    i1 = i1
    a1 = a1
    a2 = a2
    Ids = {i1}
    Addrs = {a1}
    Home <- MCHome
    Documents <- MCDoubles
    Edits = {}
    StaleSaves = TRUE
    Modes = {TRUE, FALSE}
    Networks <- MCNetworks
    Slow = {FALSE}
    Watched = {}
    MaxServers = 2
    MaxFails = 2
INVARIANTS
    TypeOK
    OfflineIsEarned
    GhostsExplained
PROPERTIES
    VerdictsAreHeeded
