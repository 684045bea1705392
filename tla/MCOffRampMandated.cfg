SPECIFICATION MCSpec
CONSTANTS
    m1 = m1
    m2 = m2
    m3 = m3
    v1 = v1
    v2 = v2
    v3 = v3
    eth = eth
    ramp = ramp
    None = None
    Global = Global
    Messages = {m1, m2, m3}
    Chains = {eth}
    SourceOf <- OneSource
    OnRamps = {ramp}
    OnRampOf <- OneRamp
    Misaddressed = {}
    WithToken = {m1, m2, m3}
    LostTokens = {m3}
    WithCall = {m1}
    Ccvs = {v1, v2, v3}
    CcvLists <- ShortLists
    PoolCcvs <- SomePoolCcvs
    PoolDefaults = {m2}
    Attestable <- SomeAttest
    LaneConfigs <- SomeLanes
    k1 = k1
    k2 = k2
    k3 = k3
    k4 = k4
    k5 = k5
    Transmitters = {x}
    Keys = {k1, k2, k3, k4, k5}
    Faulty = {k1, k5}
    Reports <- SomeReports
    Genuine <- GenuineReports
    ConfigIds = {"c1", "c2"}
    OracleConfigs <- SomeOracles
    MaxOracles = 4
    MaxAttempts = 4
INVARIANT AllMandatedVerified
CHECK_DEADLOCK FALSE
