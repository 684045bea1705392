SPECIFICATION MCSpec
CONSTANTS
    NumGroups = 4
    MaxSigners = 4
    Addresses = {1, 2, 3, 4}
    MaxQuorum = 2
    Configs <- TwoConfigs
    Signatures <- SomeSignatures
    r1 = r1
    r2 = r2
    Roots = {r1, r2}
    MetaOf <- TwoMetas
    OpsOf <- TwoOps
    ZeroRoot = ZeroRoot
    None = None
    Expiries = {2, 3}
    U40 = 4
    MaxValidity = 3
    Threshold = 1
    Bump = 2
    Margin = 0
    SplLow = 1
    SplHigh = 2
    SplDefault = 2
    FreshTTL = 1
    Pace = 1
    MaxTime = 4
INVARIANTS
    NonceOnce
    NoReplay
    ClearRevokes
    CountAgrees
    NeverLocked
CHECK_DEADLOCK FALSE
