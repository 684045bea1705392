SPECIFICATION MCSpec
CONSTANTS
    d = d
    e = e
    v1 = v1
    v2 = v2
    o1 = o1
    o2 = o2
    Chains = {d, e}
    Dests = {d}
    Ccvs = {v1, v2}
    Ramps = {o1, o2}
    MaxBatch = 2
    People = {p1, p2}
    Tokens = {t1, t2}
    Pools = {tp}
    PageSizes = {1, 2}
    MaxU32 = 2
    Rmns = {r1, r2}
    Subjects = {d, everything}
    Global = everything
    Admins = {guard}
    Messages <- MCMessages
    LaneConfigs <- MCLaneConfigs
    Hooks <- MCHooks
    Quotes <- MCQuotes
    Unit = 2
    GasCents = 0
    TokenCents = 1
    PoolCents = 1
    CcvCents = 1
    Premium = 100
    MaxSent = 2
SYMMETRY RampSymmetry
CHECK_DEADLOCK FALSE
INVARIANTS
    Numbered
    PlanExact
    ReceiptsCovered
    QuoteHonoured
    ListsExact
PROPERTIES
    SuccessorsNamed
