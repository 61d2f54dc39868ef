SPECIFICATION EndlessSpec
CONSTANTS
    c1 = c1
    c2 = c2
    CfsThreads = {c1, c2}
    RtThreads = {}
    Idle = Idle
    CfsTimer = CfsTimer
    WaitTimer = WaitTimer
    NoTimer = NoTimer
    TimerAddr <- MCTimerAddr
    ThreadAddr <- MCThreadAddr
    Priority <- MCPriority
    Period <- MCTiming
    Deadline <- MCTiming
    Budget <- MCTiming
    CfsPeriod = 4
    CfsExec = 2
    ReloadMax = 3
    Never = 100
    PendSVLowest = FALSE
    SleepTicks = {2}
    StartTimes = {}
    MaxNow = 8
    MaxVruntime = 6
PROPERTY
    NoCfsStarvation
