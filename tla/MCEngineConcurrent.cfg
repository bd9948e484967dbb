CONSTANTS
    a1 = a1
    w1 = w1
    base = base
    arc = arc
    tron = tron
    Unknown = Unknown
    NonFinite = NonFinite
    NearMax = 1000
    Agents = {a1}
    Calls = {k1, k2, k3}
    Intents <- UnsupportedToo
    Worlds <- FewWorlds
    PastHistories <- FewHistories
    HistoryWindow = 2
    MaxRows = 6
    Deployments = {TRUE, FALSE}
    MinHistory = 2
    Policy <- MCPolicy
    SupportedChains <- MCSupportedChains
SPECIFICATION Spec
CHECK_DEADLOCK FALSE
SYMMETRY Symmetry
INVARIANTS UnknownIsNeutral FirstRecordUnderUnknownCap ReturnedOnceRecorded
PROPERTIES ReputationFollowsOutcome
