CONSTANTS
    Connections = {c1, c2, c3}
    Backends = {"sqlite", "postgres"}
    MaxRows = 1
    MaxId = 4
    None = None
SPECIFICATION Spec
CHECK_DEADLOCK FALSE
INVARIANTS SessionGuarantee
PROPERTIES ImplementsLog EveryCallEnds
