CONSTANTS
    t1 = t1
    t2 = t2
    t3 = t3
    Txs = {t1, t2}
    IdOf <- DistinctIds
    BroadcastChanSize = 1
    MaxSubmitRetryAttempts = 1
    MaxTxRetryAttempts = 2
    MaxGetClientRetryAttempts = 1
    LedgerBoundsOffset = 1
    SyncPrune = TRUE
    Faults = {"exhaust", "revert", "clock"}
    MaxLedger = 1
SPECIFICATION FairSpec
CHECK_DEADLOCK FALSE
INVARIANTS
    FinalizedExecuted
    NeverLost
    BoundedBroadcasts
PROPERTIES
    NoBroadcastAfterDone
    EventuallyDone
