\* Two handlers that add, replace and delete routing rules at the same time.
SPECIFICATION Spec
CONSTANTS
    s1 = s1
    s2 = s2
    s3 = s3
    r1 = r1
    r2 = r2
    v1 = v1
    v2 = v2
    x = x
    y = y
    ServerIds = {}
    RuleIds = {r1, r2}
    Bodies = {v1}
    Settings = {x}
    Handlers = {h1, h2}
    RMWOps = {"addRule", "putRule", "deleteRule"}
    Arrays = {a1, a2, a3, a4, a5, a6, a7, a8}
    Capacities <- MCCapacities
    Blank = Blank
    NoFile = NoFile
    Default <- MCDefault
    Backups <- RuleBackups
    MaxServers = 1
    MaxRules = 2
    MaxUnsaved = 0
INVARIANTS
    TypeOK
    DiskFollowsMemory
SYMMETRY HandlerSymmetry
VIEW SharingView
