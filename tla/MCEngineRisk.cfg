CONSTANTS
    a1 = a1
    w1 = w1
    base = base
    arc = arc
    tron = tron
    Unknown = Unknown
    NonFinite = NonFinite
    NearMax = 1000
    Agents = {a1}
    Calls = {k1}
    Intents <- RiskIntents
    Worlds <- AllWorlds
    PastHistories <- AllReputations
    HistoryWindow = 25
    MaxRows = 30
    Deployments = {TRUE}
    MinHistory = 2
    Policy <- MCPolicy
    SupportedChains <- MCSupportedChains
SPECIFICATION Spec
CHECK_DEADLOCK FALSE
INVARIANTS TypeOK FindingsStopActions
