CONSTANTS
    Connections = {c1, c2}
    Backends = {"sqlite"}
    MaxRows = 2
    MaxId = 3
    None = None
SPECIFICATION Spec
INVARIANTS ReadsAreCurrent
