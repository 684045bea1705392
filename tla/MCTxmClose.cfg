CONSTANTS
    t1 = t1
    t2 = t2
    t3 = t3
    Txs = {t1, t2}
    IdOf <- SharedId
    BroadcastChanSize = 1
    MaxSubmitRetryAttempts = 2
    MaxTxRetryAttempts = 1
    MaxGetClientRetryAttempts = 2
    LedgerBoundsOffset = 1
    SyncPrune = FALSE
    Faults = {"close", "archived", "again", "client", "senderr"}
    MaxLedger = 2
SPECIFICATION FairSpec
CHECK_DEADLOCK FALSE
INVARIANTS
    OneLivePerId
    BoundedRestores
PROPERTY CloseTerminates
