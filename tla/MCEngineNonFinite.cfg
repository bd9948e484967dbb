CONSTANTS
    a1 = a1
    w1 = w1
    base = base
    arc = arc
    tron = tron
    Unknown = Unknown
    NonFinite = NonFinite
    NearMax = 1000
    Agents = {a1}
    Calls = {k1, k2}
    Intents <- NonFiniteTried
    Worlds <- CleanOnly
    PastHistories <- FourAllowed
    HistoryWindow = 25
    MaxRows = 30
    Deployments = {TRUE}
    MinHistory = 5
    Policy <- MCPolicy
    SupportedChains <- MCSupportedChains
SPECIFICATION Spec
CHECK_DEADLOCK FALSE
INVARIANTS EveryEvaluationDecides
