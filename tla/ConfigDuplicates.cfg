\* One handler with an old copy next to the calls on the server list.
SPECIFICATION Spec
CONSTANTS
    s1 = s1
    s2 = s2
    s3 = s3
    r1 = r1
    r2 = r2
    v1 = v1
    v2 = v2
    x = x
    y = y
    ServerIds = {s1, s2}
    RuleIds = {r1}
    Bodies = {v1}
    Settings = {x}
    Handlers = {h1}
    RMWOps = {"set"}
    Arrays = {a1, a2, a3, a4, a5, a6, a7, a8}
    Capacities <- MCCapacities
    Blank = Blank
    NoFile = NoFile
    Default <- MCDefault
    Backups <- ServerBackups
    MaxServers = 3
    MaxRules = 1
    MaxUnsaved = 0
INVARIANT
    UniqueServerIds
VIEW SharingView
