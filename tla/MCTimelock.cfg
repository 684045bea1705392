CONSTANTS
    o1 = o1
    o2 = o2
    s1 = s1
    NoPredecessor = NoPredecessor
    Accounts = {"a1"}
    Ops = {o1, o2}
    Pred <- Chain
    Selectors = {s1}
    SelectorsOf <- FirstCalls
    U64Max = 3
SPECIFICATION Spec
CHECK_DEADLOCK FALSE
INVARIANTS DoneMeansRan WaitedOut PredecessorsFirst
PROPERTY NoAdminFrozen
