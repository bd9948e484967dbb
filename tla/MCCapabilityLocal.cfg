CONSTANTS
    a1 = a1
    transfer = transfer
    approve = approve
    base = base
    None = None
    Agents = {a1}
    Calls = {k1, k2, k3}
    Capabilities <- MCCapabilities
    Intents <- MCIntents
    Backend = "local"
    MaxRows = 4
    Threads = 1
    Window = 2
    MaxTime = 3
SPECIFICATION Spec
SYMMETRY Symmetry
CHECK_DEADLOCK FALSE
INVARIANTS DailyLimit
