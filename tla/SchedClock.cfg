SPECIFICATION ClockSpec
CONSTANTS
    c1 = c1
    c2 = c2
    CfsThreads = {c1, c2}
    RtThreads = {}
    Idle = Idle
    CfsTimer = CfsTimer
    WaitTimer = WaitTimer
    NoTimer = NoTimer
    TimerAddr <- MCTimerAddr
    ThreadAddr <- MCThreadAddr
    Priority <- MCPriority
    Period <- MCTiming
    Deadline <- MCTiming
    Budget <- MCTiming
    CfsPeriod = 4
    CfsExec = 2
    ReloadMax = 3
    Never = 100
    PendSVLowest = FALSE
    SleepTicks = {3}
    StartTimes = {}
    MaxNow = 12
    MaxVruntime = 10
PROPERTY
    SleepNotShort
