SPECIFICATION WaitSpec
CONSTANTS
    t1 = t1
    t2 = t2
    t3 = t3
    t4 = t4
    NoThread = NoThread
    Threads = {t1, t2, t3, t4}
    MaxCount = 2
    InitialCount = 1
    SyncAddr <- MCSyncAddr
    Deadlines = {1, 2}
    MaxGives = 4
INVARIANTS
    TypeOK
    NoTokenWhileWaiting
    TokensConserved
    ListInArrivalOrder
CHECK_DEADLOCK FALSE
