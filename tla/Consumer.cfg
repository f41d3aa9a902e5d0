SPECIFICATION FairSpec
CONSTANTS
    t1 = t1
    t2 = t2
    Goroutines = {g1, g2}
    Txs = {t1, t2}
    Heights = {1, 2}
    BlockOf <- MCBlockOf
    Contents <- MCContents
    SaveStatuses = {"pending", "confirmed"}
    MaxOpenConns = 3
    MaxOps = 2
    Rules <- MCRules
    Backends = {"database", "elasticsearch", "redis"}
INVARIANTS
    CTypeOK
    OneHandlerPerEvent
    FinalizedWasConfirmed
PROPERTIES
    ImplementsWeakStore
    ReadersConverge
    OperationsReturn
CHECK_DEADLOCK FALSE
