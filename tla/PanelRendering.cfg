\* Everything a user can do to three servers and rules, two of a kind at most.
SPECIFICATION Spec
CONSTANTS
    LinkTexts <- MCLinkTexts
    Link <- MCLink
    Hash <- MCHash
    Algorithms = {"latency", "weighted"}
    Weights = {3}
    NewRules <- MCRules
    NewMetrics <- MCMetrics
    Listens <- MCListens
    MaxServers = 2
    MaxRules = 2
    MaxItems = 3
    Slots = 6
INVARIANTS
    TypeOK
    DefectsExplained
    LaterRulesWin
    TargetsThatResolve
    PingDecidesWeight
    LinkReachesOutbound
    PickIsUsable
    PicksAreShared
    UserWeightsUnused
