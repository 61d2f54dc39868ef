SPECIFICATION Spec
CONSTANTS
    c1 = c1
    c2 = c2
    r1 = r1
    r2 = r2
    CfsThreads = {c1}
    RtThreads = {r1, r2}
    Idle = Idle
    CfsTimer = CfsTimer
    WaitTimer = WaitTimer
    NoTimer = NoTimer
    TimerAddr <- MCTimerAddr
    ThreadAddr <- MCThreadAddr
    Priority <- MCPriority
    Period <- MCPeriod
    Deadline <- MCDeadline
    Budget <- MCBudget
    CfsPeriod = 4
    CfsExec = 2
    ReloadMax = 3
    Never = 100
    PendSVLowest = FALSE
    SleepTicks = {2}
    StartTimes = {2}
    MaxNow = 7
    MaxVruntime = 6
PROPERTIES
    PreemptionCharged
