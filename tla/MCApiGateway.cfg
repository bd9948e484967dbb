CONSTANTS
    admin = admin
    keyA = keyA
    a = a
    b = b
    demo = demo
    arc = arc
    hA = hA
    hAdmin = hAdmin
    hEmpty = hEmpty
    hBasic = hBasic
    host = host
    None = None
    EmptyToken = EmptyToken
    ArcDemoAgent = arc
    DemoAgents = {demo}
    TokenOf <- MCTokenOf
    Requests <- MCRequests
    Configs <- MCConfigs
    MaxTracked = 2
    Window = 2
    MaxTime = 3
    MaxRequests = 5
SPECIFICATION Spec
CHECK_DEADLOCK FALSE
INVARIANTS TypeOK LimitPerWindow RefusedOnlyWhenFull Bounded OnlyOnOwnBehalf
