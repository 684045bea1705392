CONSTANTS
    t1 = t1
    t2 = t2
    t3 = t3
    Txs = {t1, t2}
    IdOf <- DistinctIds
    BroadcastChanSize = 2
    MaxSubmitRetryAttempts = 2
    MaxTxRetryAttempts = 2
    MaxGetClientRetryAttempts = 1
    LedgerBoundsOffset = 1
    SyncPrune = TRUE
    Faults = {"rpc", "lost", "ahead", "foreign", "reject"}
    MaxLedger = 2
SPECIFICATION Spec
CHECK_DEADLOCK FALSE
PROPERTY DrivesStore
