SPECIFICATION MCSpec
CONSTANTS
    MaxU128 = 4
    MaxTime = 4
    Amounts = {0, 1, 2, 3, 4}
    Configs <- MCConfigs
    a = a
    b = b
    b1 = b1
    b2 = b2
    Chains = {a, b}
    Boxes = {b1, b2}
    Kinds = {"lock_release", "burn_mint", "siloed"}
    PoolConfigs <- MCPoolConfigs
    Limited = {a}
    Finalities <- MCFinalities
    Supply = 2
    Decimals = 1
    RemoteDecimals <- MCRemoteDecimals
    Radix = 2
    MaxDiff = 2
    MaxI128 = 15
    MaxPoolTime = 1
SYMMETRY BoxSymmetry
CHECK_DEADLOCK FALSE
INVARIANTS
    WindowBound
    NoStarvation
    ListedConsistent
    NoInflation
    Solvent
PROPERTIES
    AlwaysCharged
