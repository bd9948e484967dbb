CONSTANTS
    CacheKeys = {k1, k2}
    Lookups = {t1, t2}
    CacheTTL = 1
    MaxCacheEntries = 1
    Clearing = TRUE
    CacheMaxTime = 2
    NoData = NoData
    Addresses = {x1, x2}
    Lists = {l1, l2}
    MaxEdits = 2
    SearchCap = 3
    MaxBlock = 9
    Timestamp <- MCTimestamp
    Day = 2
    NoAge = NoAge
    Subjects = {s1, s2}
    Decided = {i1, i2}
    Snapshots = {g1}
    NoGrant = NoGrant
    TokenTTL = 2
    MaxSkew = 1
    OaaMaxTime = 4
    MaxTokens = 1
    agent = agent
    wallet = wallet
    payee = payee
    junk = junk
    usdc = usdc
    dai = dai
    router = router
    bridge = bridge
    ethereum = ethereum
    base = base
    arc = arc
    Unknown = Unknown
    NonFinite = NonFinite
    Garbled = Garbled
    NearMax = 1000
    MinHistory = 5
    SupportedChains <- MCSupportedChains
    Policy <- MCPolicy
    WellFormed <- MCWellFormed
    Routers <- MCRouters
    Bridges <- MCBridges
    L1Chain = ethereum
    AmountUnit = 10
    NativeDecimals = 3
    Payments = {p1, p2}
    ArcPayloads <- MCArcPayloads
    MainIntents <- MCMainIntents
    ArcChain = arc
    ArcUSDC = usdc
    Tokens <- MCTokens
    TrueDecimals <- MCTrueDecimals
    ClientChains <- MCSupportedChains
    Quotes = {7}
SPECIFICATION ServicesSpec
SYMMETRY ServicesSymmetry
\* The bounded clocks, edits and tokens run out, and every payment ends.
CHECK_DEADLOCK FALSE
INVARIANTS
    TypeOK
    AnswersAreFresh
    CacheBounded
    RaisesOnlyUnderPressure
    ServedWasPublished
    AgeNeverOverstated
    AgeIsExact
    AttestedAsDecided
    AcceptedInTime
    PaymentTypeOK
    CacheIsTruth
    BuiltDoesWhatWasAsked
    
    SecondBuildIsTheFirst
PROPERTIES
    NoSilentDelisting
