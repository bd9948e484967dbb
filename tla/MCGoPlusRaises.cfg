CONSTANTS
    CacheKeys = {k1, k2}
    Lookups = {t1, t2}
    CacheTTL = 1
    MaxCacheEntries = 1
    Clearing = FALSE
    CacheMaxTime = 2
    NoData = NoData
    Addresses = {x1, x2}
    Lists = {l1, l2}
    MaxEdits = 2
    SearchCap = 3
    MaxBlock = 9
    Timestamp <- MCTimestamp
    Day = 2
    NoAge = NoAge
    Subjects = {s1, s2}
    Decided = {i1, i2}
    Snapshots = {g1}
    NoGrant = NoGrant
    TokenTTL = 2
    MaxSkew = 1
    OaaMaxTime = 4
    MaxTokens = 1
SPECIFICATION Spec
\* The bounded clocks, edits and tokens run out.
CHECK_DEADLOCK FALSE
INVARIANT
    NeverRaises
