SPECIFICATION Spec
CONSTANTS
    t1 = t1
    t2 = t2
    t3 = t3
    t4 = t4
    m1 = m1
    m2 = m2
    Threads = {t1, t2, t3, t4}
    Messages = {m1, m2}
    NoMessage = NoMessage
    N = 2
    SyncAddr <- MCSyncAddr
    Deadlines = {1, 2}
INVARIANTS
    TypeOK
    NoLostWakeup
PROPERTIES
    RefinesFifo
