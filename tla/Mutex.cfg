SPECIFICATION MutexSpec
CONSTANTS
    c1 = c1
    c2 = c2
    r1 = r1
    r2 = r2
    Mutexes = {m1, m2}
    NoOwner = NoOwner
    CfsThreads = {c1}
    RtThreads = {r1, r2}
    Idle = Idle
    CfsTimer = CfsTimer
    WaitTimer = WaitTimer
    NoTimer = NoTimer
    TimerAddr <- MCTimerAddr
    ThreadAddr <- MCThreadAddr
    Priority <- MCPriority
    Period <- MCPeriod
    Deadline <- MCDeadline
    Budget <- MCBudget
    CfsPeriod = 4
    CfsExec = 2
    ReloadMax = 1
    Never = 100
    PendSVLowest = FALSE
    SleepTicks = {4}
    StartTimes = {}
    MaxNow = 5
    MaxVruntime = 4
    m1 = m1
    m2 = m2
SYMMETRY MutexSymmetry
INVARIANTS
    MutexInv
    WaitersHaveOwner
PROPERTIES
    HandOffToEarliest
    OwnerInheritsDeadline
