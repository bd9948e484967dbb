CONSTANTS
    a1 = a1
    transfer = transfer
    approve = approve
    base = base
    None = None
    Agents = {a1}
    Calls = {k1, k2, k3}
    Capabilities <- OneCapability
    Intents <- MCIntents
    Backend = "local"
    MaxRows = 4
    Threads = 2
    Window = 2
    MaxTime = 3
SPECIFICATION Spec
SYMMETRY Symmetry
CHECK_DEADLOCK FALSE
INVARIANTS DailyLimit
