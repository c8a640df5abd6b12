\* The same server in real mode, where goroutines run and timers fire.
SPECIFICATION FairSpec
CONSTANTS
    i1 = i1
    a1 = a1
    a2 = a2
    Ids = {i1}
    Addrs = {a1, a2}
    Home <- MCHome
    Documents <- MCDocuments
    Edits <- MCEdits
    StaleSaves = FALSE
    Modes = {FALSE}
    Networks <- MCNetworks
    Slow = {TRUE, FALSE}
    Watched = {"offline"}
    MaxServers = 1
    MaxFails = 2
PROPERTIES
    OfflineIsAnnounced
    StatusSettles
    ZeroIntervalIsFatal
    ShutdownEnds
