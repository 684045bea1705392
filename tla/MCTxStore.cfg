CONSTANTS
    h1 = h1
    h2 = h2
    h3 = h3
    Hashes = {h1, h2, h3}
    InitialSeqNum = 1
    MaxSeqNum = 3
SPECIFICATION Spec
SYMMETRY HashSymmetry
CHECK_DEADLOCK FALSE
INVARIANTS
    NoGap
    StoreConsistent
    HeldUsable
