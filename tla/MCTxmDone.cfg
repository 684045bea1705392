CONSTANTS
    t1 = t1
    t2 = t2
    t3 = t3
    Txs = {t1, t2}
    IdOf <- DistinctIds
    BroadcastChanSize = 2
    MaxSubmitRetryAttempts = 1
    MaxTxRetryAttempts = 2
    MaxGetClientRetryAttempts = 1
    LedgerBoundsOffset = 1
    SyncPrune = TRUE
    Faults = {}
    MaxLedger = 2
SPECIFICATION Spec
CHECK_DEADLOCK FALSE
INVARIANT DoneIsTerminal
