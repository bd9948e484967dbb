CONSTANTS
    ZeroAddress = ZeroAddress
    Accounts = {acc}
    CallData = {c1, c2}
    Signers = {s1, s2}
    RequestIds = {r1, r2}
    Ttl = 1
    Skew = 1
    MaxNonce = 1
    MaxTime = 2
    MaxAttestations = 2
SPECIFICATION Spec
SYMMETRY Symmetry
CHECK_DEADLOCK FALSE
INVARIANTS TypeOK SingleUse OnlyAttested
PROPERTIES TrustedNow KeptUntilSpent Implements
