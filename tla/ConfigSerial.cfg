\* One request at a time: every request, every store call, failing writes.
SPECIFICATION SerialSpec
CONSTANTS
    s1 = s1
    s2 = s2
    s3 = s3
    r1 = r1
    r2 = r2
    v1 = v1
    v2 = v2
    x = x
    y = y
    ServerIds = {s1, s2}
    RuleIds = {r1}
    Bodies = {v1, v2}
    Settings = {x, y}
    Handlers = {h1}
    RMWOps = {"set", "addRule", "putRule", "deleteRule"}
    Arrays = {a1, a2, a3, a4, a5, a6, a7, a8}
    Capacities <- MCCapacities
    Blank = Blank
    NoFile = NoFile
    Default <- MCDefault
    Backups <- ServerBackups
    MaxServers = 2
    MaxRules = 2
    MaxUnsaved = 1
INVARIANT
    UniqueServerIds
PROPERTY
    ImplementsAtomic
VIEW SharingView
