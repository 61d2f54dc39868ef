------------------------------ MODULE RtSched ------------------------------
(***************************************************************************)
(* The scheduler of rtsched: src/sched.rs over the CFS run queue           *)
(* (src/runq.rs), the wait queue (src/waitq.rs), the thread operations     *)
(* yieldyi and msleepyi (src/thread.rs) and the block/wake helpers that    *)
(* all synchronization objects share (src/sync.rs).                        *)
(*                                                                         *)
(* Three contexts run on the one core.  A thread call is one critical      *)
(* section and so one action.  SysTick (handle_sched_tick) runs without a  *)
(* critical section: it is a sequence of steps, one per expired timer and  *)
(* one per woken sleeper.  PendSV (schedule) is one action.  An interrupt  *)
(* handler or the running thread may wake any suspended thread at any time *)
(* the exception priorities allow; which waiter an object picks is left to *)
(* the modules of the objects.                                             *)
(***************************************************************************)
EXTENDS KTimer, FiniteSetsExt

CONSTANTS
    CfsThreads,     \* the CFS threads
    Idle,           \* the registered idle thread
    ThreadAddr,     \* storage address of each thread: the tie-breaker of cmp
    Priority,       \* SchedEntity.priority of each CFS thread
    PendSVLowest,   \* TRUE: the board gives PendSV a lower priority than
                    \* SysTick and device interrupts; FALSE: all are equal
    SleepTicks,     \* lengths a thread may sleep
    StartTimes,     \* values a thread may pass to set_rt_thread_start_time
    MaxNow,         \* bound: the clock at which the environment stops
    MaxVruntime     \* bound: the vruntime at which it stops

Threads == CfsThreads \cup RtThreads

ASSUME ThreadsDistinct ==
    /\ CfsThreads \cap RtThreads = {}
    /\ Idle \notin Threads

ASSUME ThreadAddrAssumption ==
    /\ ThreadAddr \in [Threads -> Nat]
    /\ \A a, b \in Threads : ThreadAddr[a] = ThreadAddr[b] => a = b

\* spawn_thread rejects priority zero.
ASSUME PriorityAssumption == Priority \in [CfsThreads -> Nat \ {0}]

\* Every thread has its own static storage.
ASSUME FiniteAssumption == IsFiniteSet(CfsThreads)

ASSUME BoundAssumption ==
    /\ PendSVLowest \in BOOLEAN
    /\ SleepTicks \subseteq Nat
    /\ StartTimes \subseteq Nat
    /\ MaxNow \in Nat
    /\ MaxVruntime \in Nat

VARIABLES
    kq,             \* KTIMER_QUEUE, NEXT_KTIMER and the RT job accounting
    state,          \* ThreadCtx.state; "Unspawned" before forkyi
    runq,           \* the entities linked in CFS_RUN_QUEUE
    prioritySum,    \* CFS_RUN_QUEUE.priority_sum
    vruntime,       \* SchedEntity.vruntime
    waitTree,       \* the threads linked in WAIT_QUEUE's timeout tree
    suspended,      \* the threads linked in WAIT_QUEUE's list of indefinite
                    \* waiters; its order reaches only the diagnostics
    wakeAt,         \* WaitEntity.wake_at
    current,        \* CURRENT_THREAD_CTX
    currentIsCfs,   \* CURRENT_THREAD_IS_CFS
    started,        \* SCHEDULER_STARTED
    reload,         \* the SysTick reload register
    pendsv,         \* PendSV is pending
    tick,           \* where handle_sched_tick is: "off", "dispatch", "wake"
    elapsed,        \* the ticks handle_sched_tick accounts for, until PendSV
    assertFailed    \* a debug_assert! of the scheduler has failed

queueVars == <<runq, prioritySum, vruntime>>
waitVars  == <<waitTree, suspended, wakeAt>>
cpuVars   == <<current, currentIsCfs, started>>
tickVars  == <<tick, elapsed>>
vars == <<kq, state, queueVars, waitVars, cpuVars, reload, pendsv, tickVars,
          assertFailed>>

ThreadStates == {"Unspawned", "Ready", "Running", "Waiting", "Suspended"}

TypeOK ==
    /\ kq \in KTimerQueues
    /\ state \in [Threads \cup {Idle} -> ThreadStates]
    /\ runq \subseteq CfsThreads
    /\ prioritySum \in Nat
    /\ vruntime \in [CfsThreads -> Nat]
    /\ waitTree \subseteq Threads
    /\ suspended \subseteq Threads
    /\ wakeAt \in [Threads -> Nat]
    /\ current \in Threads \cup {Idle}
    /\ currentIsCfs \in BOOLEAN
    /\ started \in BOOLEAN
    /\ reload \in ReloadMin .. ReloadMax
    /\ pendsv \in BOOLEAN
    /\ tick \in {"off", "dispatch", "wake"}
    /\ elapsed \in Nat
    /\ assertFailed \in BOOLEAN

-----------------------------------------------------------------------------
(* Helpers.                                                                *)

\* ThreadState::is_blocked
Blocked(s) == s \in {"Waiting", "Suspended"}

\* thread_scheduler_ktimer
TimerOf(t) == IF t \in CfsThreads THEN CfsTimer ELSE t

\* The deadline of the wait timer: wake_at of the first entity of the tree.
EarliestWake(tree, wake) ==
    IF tree = {} THEN Never ELSE wake[Leftmost(tree, wake, ThreadAddr)]

\* update_from_leftmost, on the entity of t
VruntimeFromLeftmost(t) ==
    IF runq = {} THEN vruntime
                 ELSE [vruntime EXCEPT ![t] =
                          vruntime[Leftmost(runq, vruntime, ThreadAddr)]]

\* No panic has stopped the system.
Alive == ~assertFailed /\ ~kq.missPanic

\* Thread code runs: no handler is active and no context switch is pending.
ThreadMode == started /\ Alive /\ tick = "off" /\ ~pendsv

\* A SysTick or device interrupt may be taken.  PendSV has the lower
\* exception number, so at equal priority a pending PendSV goes first.
InterruptTaken == started /\ Alive /\ tick = "off" /\ (PendSVLowest \/ ~pendsv)

\* An object may be told to wake a thread: by the running thread, by an
\* interrupt handler, and again by the same handler, or inside the same outer
\* critical section, before the context switch it has requested takes place
\* (the application's SysTick handler may do so after handle_sched_tick).  A
\* thread that has blocked wakes nobody before it runs again: blocking calls
\* are made outside any critical section of the caller (message.rs).
WakeTaken ==
    \/ InterruptTaken
    \/ started /\ Alive /\ tick = "off" /\ ~Blocked(state[current])

\* The horizon of the model: the environment acts only within the bounds.
Bounded ==
    /\ kq.now < MaxNow
    /\ \A t \in CfsThreads : vruntime[t] < MaxVruntime

-----------------------------------------------------------------------------
(* Start-up: the board initialises, spawns and starts.                     *)

Init ==
    /\ kq = EmptyQueue
    /\ state = [t \in Threads \cup {Idle} |-> "Unspawned"]
    /\ runq = {}
    /\ prioritySum = 0
    /\ vruntime = [t \in CfsThreads |-> 0]
    /\ waitTree = {}
    /\ suspended = {}
    /\ wakeAt = [t \in Threads |-> 0]
    /\ current = Idle
    /\ currentIsCfs = FALSE
    /\ started = FALSE
    /\ reload = ReloadMin
    /\ pendsv = FALSE
    /\ tick = "off"
    /\ elapsed = 0
    /\ assertFailed = FALSE

\* init_cfs: an empty run queue, and the CFS timer armed for one slice.
InitCfs ==
    /\ ~started /\ Alive
    /\ ~Queued(kq, CfsTimer)
    /\ kq' = ReinsertKTimer(SetExpireAt(kq, CfsTimer, CfsExec), CfsTimer)
    /\ runq' = {}
    /\ prioritySum' = 0
    /\ UNCHANGED <<state, vruntime, waitVars, cpuVars, reload, pendsv,
                   tickVars, assertFailed>>

\* CfsThread::init, which ends in enqueue_thread
SpawnCfs(t) ==
    /\ ~started /\ Alive
    /\ Queued(kq, CfsTimer)
    /\ state[t] = "Unspawned"
    /\ state' = [state EXCEPT ![t] = "Ready"]
    /\ vruntime' = VruntimeFromLeftmost(t)
    /\ runq' = runq \cup {t}
    /\ prioritySum' = prioritySum + Priority[t]
    /\ UNCHANGED <<kq, waitVars, cpuVars, reload, pendsv, tickVars, assertFailed>>

\* RtThread::init, which ends in enqueue_ktimer
SpawnRt(t) ==
    /\ ~started /\ Alive
    /\ state[t] = "Unspawned"
    /\ state' = [state EXCEPT ![t] = "Ready"]
    /\ kq' = ReinsertKTimer(kq, t)
    /\ UNCHANGED <<queueVars, waitVars, cpuVars, reload, pendsv, tickVars,
                   assertFailed>>

\* The board programs SysTick from next_ktimer_reload; spawn_main_thread
\* registers the idle thread and SVCall makes it the running thread.
StartScheduler ==
    /\ ~started /\ Alive
    /\ started' = TRUE
    /\ state' = [state EXCEPT ![Idle] = "Running"]
    /\ current' = Idle
    /\ currentIsCfs' = FALSE
    /\ reload' = ReloadFor(kq, First(kq))
    /\ UNCHANGED <<kq, queueVars, waitVars, pendsv, tickVars, assertFailed>>

-----------------------------------------------------------------------------
(* Calls of the running thread.                                            *)

\* yieldyi.  The idle thread's call returns at once.
Yieldyi ==
    /\ ThreadMode /\ Bounded
    /\ current # Idle
    /\ \E ran \in 0 .. reload :
          LET q == YieldKTimer(kq, TimerOf(current), ran, TRUE)
          IN  kq' = [q EXCEPT !.next = FirstActive(q)]
    /\ pendsv' = TRUE
    /\ UNCHANGED <<state, queueVars, waitVars, cpuVars, reload, tickVars,
                   assertFailed>>

\* insert_wait_thread: a wake_at of never suspends the thread.
InsertWaitThread(t, wake) ==
    /\ wakeAt' = [wakeAt EXCEPT ![t] = wake]
    /\ waitTree' = IF wake = Never THEN waitTree ELSE waitTree \cup {t}
    /\ suspended' = IF wake = Never THEN suspended \cup {t} ELSE suspended
    /\ state' = [state EXCEPT ![t] = IF wake = Never THEN "Suspended" ELSE "Waiting"]

\* Mutant: a CFS thread that blocks stays in priority_sum.
DequeueRunqToWaitqSumKept(q, wake) ==
    /\ InsertWaitThread(current, wake)
    /\ kq' = ProgramWaitKTimer(q, EarliestWake(waitTree', wakeAt'))
    /\ UNCHANGED prioritySum

\* dequeue_runq_to_waitq, of the running thread: it is in no run queue.
DequeueRunqToWaitq(q, wake) ==
    /\ InsertWaitThread(current, wake)
    /\ prioritySum' = SatSub(prioritySum, Priority[current])
    /\ kq' = ProgramWaitKTimer(q, EarliestWake(waitTree', wakeAt'))

\* dequeue_ktimerq_to_waitq
DequeueKTimerqToWaitq(q, wake) ==
    /\ InsertWaitThread(current, wake)
    /\ kq' = ProgramWaitKTimer(RemoveKTimer(q, current),
                               EarliestWake(waitTree', wakeAt'))
    /\ UNCHANGED prioritySum

\* The running thread leaves for the wait queue.  q is the timer queue after
\* yield_ktimer, wake the thread's new wake_at.
MoveToWaitQueue(q, wake) ==
    IF current \in CfsThreads THEN DequeueRunqToWaitq(q, wake)
                              ELSE DequeueKTimerqToWaitq(q, wake)

\* msleepyi
Msleepyi(ticks) ==
    /\ ThreadMode /\ Bounded
    /\ current # Idle
    /\ \E ran \in 0 .. reload :
          LET q == YieldKTimer(kq, TimerOf(current), ran, FALSE)
          IN  MoveToWaitQueue(q, SatAdd(q.now, ticks))
    /\ pendsv' = TRUE
    /\ UNCHANGED <<runq, vruntime, cpuVars, reload, tickVars, assertFailed>>

\* block_current_thread, as every blocking call on an object uses it
BlockCurrentThread ==
    /\ ThreadMode /\ Bounded
    /\ current # Idle
    /\ \E ran \in 0 .. reload :
          MoveToWaitQueue(YieldKTimer(kq, TimerOf(current), ran, FALSE), Never)
    /\ pendsv' = TRUE
    /\ UNCHANGED <<runq, vruntime, cpuVars, reload, tickVars, assertFailed>>

\* set_rt_thread_start_time
SetRtThreadStartTime(ticks) ==
    /\ ThreadMode /\ Bounded
    /\ current \in RtThreads
    /\ kq' = [kq EXCEPT !.runtime[current] = ticks]
    /\ UNCHANGED <<state, queueVars, waitVars, cpuVars, reload, pendsv,
                   tickVars, assertFailed>>

\* enqueue_runq_from_waitq.  Re-sorting the queued entities keeps their order.
EnqueueRunqFromWaitq(t) ==
    /\ prioritySum' = prioritySum + Priority[t]
    /\ vruntime' = VruntimeFromLeftmost(t)
    /\ runq' = runq \cup {t}
    /\ assertFailed' = (t \in runq)

\* wake_waiter, over the timer queue q, and the request_context_switch that
\* follows it everywhere: a suspended thread goes back to the scheduler.
HandBack(q, t) ==
    /\ suspended' = suspended \ {t}
    /\ state' = [state EXCEPT ![t] = "Ready"]
    /\ pendsv' = TRUE
    /\ LET back == IF t \in RtThreads THEN ReinsertKTimer(q, t) ELSE q
       IN  kq' = ProgramWaitKTimer(back, EarliestWake(waitTree, wakeAt))
    /\ IF t \in CfsThreads
         THEN EnqueueRunqFromWaitq(t)
         ELSE UNCHANGED <<queueVars, assertFailed>>
    /\ UNCHANGED <<waitTree, wakeAt, cpuVars, reload, tickVars>>

\* An object wakes one of its waiters.
WakeWaiter(t) ==
    /\ WakeTaken /\ Bounded
    /\ t \in suspended
    /\ HandBack(kq, t)

-----------------------------------------------------------------------------
(* SysTick: handle_sched_tick.                                             *)

\* elapsed_ticks_since_last_interrupt, then advance_ktimers
SysTick ==
    /\ InterruptTaken /\ Bounded
    /\ tick' = "dispatch"
    /\ elapsed' = reload + 1
    /\ kq' = [kq EXCEPT !.now = SatAdd(@, reload + 1)]
    /\ UNCHANGED <<state, queueVars, waitVars, cpuVars, reload, pendsv,
                   assertFailed>>

\* The loop of dispatch_expired looks at the first timer of both trees.
Dispatching(tm) ==
    /\ tick = "dispatch" /\ Alive
    /\ tm = First(kq)
    /\ IsExpired(kq, tm)

DispatchCfs ==
    /\ Dispatching(CfsTimer)
    /\ kq' = DispatchCfsTimer(kq, elapsed)
    /\ UNCHANGED <<state, queueVars, waitVars, cpuVars, reload, pendsv,
                   tickVars, assertFailed>>

DispatchRt(t) ==
    /\ Dispatching(t)
    /\ kq' = DispatchRtTimer(kq, t)
    /\ UNCHANGED <<state, queueVars, waitVars, cpuVars, reload, pendsv,
                   tickVars, assertFailed>>

\* The wait timer leaves its tree while wake_wait_thread runs.
DispatchWait ==
    /\ Dispatching(WaitTimer)
    /\ kq' = Remove(kq, WaitTimer)
    /\ tick' = "wake"
    /\ UNCHANGED <<state, queueVars, waitVars, cpuVars, reload, pendsv,
                   elapsed, assertFailed>>

\* One turn of wake_wait_thread: pop_expired_wait_thread, then back to the
\* run queue or to the timer queue.
WakeSleeper(t) ==
    /\ tick = "wake" /\ Alive
    /\ t \in waitTree
    /\ t = Leftmost(waitTree, wakeAt, ThreadAddr)
    /\ wakeAt[t] <= kq.now
    /\ waitTree' = waitTree \ {t}
    /\ state' = [state EXCEPT ![t] = "Ready"]
    /\ IF t \in CfsThreads
         THEN /\ EnqueueRunqFromWaitq(t)
              /\ UNCHANGED kq
         ELSE /\ kq' = WakeRtTimer(kq, t, elapsed)
              /\ UNCHANGED <<queueVars, assertFailed>>
    /\ UNCHANGED <<suspended, wakeAt, cpuVars, reload, pendsv, tickVars>>

\* No sleeper is due: update_wait_ktimer_deadline, enqueue_inactive.
WakeDone ==
    /\ tick = "wake" /\ Alive
    /\ waitTree = {} \/ EarliestWake(waitTree, wakeAt) > kq.now
    /\ kq' = EnqueueInactive(
                 SetExpireAt(kq, WaitTimer, EarliestWake(waitTree, wakeAt)),
                 WaitTimer)
    /\ tick' = "dispatch"
    /\ UNCHANGED <<state, queueVars, waitVars, cpuVars, reload, pendsv,
                   elapsed, assertFailed>>

\* Mutant: the loop ends when no active timer is due.
DispatchDoneActiveOnly ==
    /\ tick = "dispatch" /\ Alive
    /\ \A tm \in kq.active : ~IsExpired(kq, tm)
    /\ kq' = [kq EXCEPT !.next = FirstActive(kq)]
    /\ tick' = "off"
    /\ pendsv' = TRUE
    /\ UNCHANGED <<state, queueVars, waitVars, cpuVars, reload, elapsed,
                   assertFailed>>

\* Nothing is due: update_next_ktimer, request_context_switch.
DispatchDone ==
    /\ tick = "dispatch" /\ Alive
    /\ ~IsExpired(kq, First(kq))
    /\ kq' = [kq EXCEPT !.next = FirstActive(kq)]
    /\ tick' = "off"
    /\ pendsv' = TRUE
    /\ UNCHANGED <<state, queueVars, waitVars, cpuVars, reload, elapsed,
                   assertFailed>>

-----------------------------------------------------------------------------
(* PendSV: schedule.                                                       *)

\* The running CFS thread pays for the whole programmed interval.
ChargedVruntime ==
    IF currentIsCfs /\ state[current] = "Running" /\ prioritySum # 0
      THEN [vruntime EXCEPT ![current] =
               @ + ((reload + 1) * Priority[current]) \div prioritySum]
      ELSE vruntime

\* Mutant: a blocked outgoing CFS thread is requeued too.
CurrentStaysRunnableBlocked == currentIsCfs

\* The outgoing thread is a CFS thread that can still run.
CurrentStaysRunnable == currentIsCfs /\ ~Blocked(state[current])

\* Mutant: the outgoing thread is left Running.
SwitchToOutgoingRuns(t, rest) ==
    /\ state' = [state EXCEPT ![t] = "Running"]
    /\ runq' = IF CurrentStaysRunnable THEN rest \cup {current} ELSE rest
    /\ current' = t
    /\ currentIsCfs' = (t \in CfsThreads)
    /\ assertFailed' = Blocked(state[t])

\* The outgoing thread, if it is not blocked, becomes Ready; a CFS thread
\* goes back to the run queue; then t runs.  rest is the run queue without t.
SwitchTo(t, rest) ==
    /\ state' = [[state EXCEPT ![current] = IF Blocked(@) THEN @ ELSE "Ready"]
                    EXCEPT ![t] = "Running"]
    /\ runq' = IF CurrentStaysRunnable THEN rest \cup {current} ELSE rest
    /\ current' = t
    /\ currentIsCfs' = (t \in CfsThreads)
    /\ assertFailed' = \/ CurrentStaysRunnable /\ current \in runq
                       \/ Blocked(state[t])

\* No timer is selected, or the CFS timer is and no CFS thread can run.
ScheduleIdle ==
    /\ \/ kq.next = NoTimer
       \/ kq.next = CfsTimer /\ (CfsTimer \notin kq.active \/ runq = {})
    /\ SwitchTo(Idle, runq)

\* Mutant: the running CFS thread is never preempted by another one.
ScheduleCfsNoPreemption ==
    /\ kq.next = CfsTimer
    /\ CfsTimer \in kq.active
    /\ runq # {}
    /\ LET t == Leftmost(runq, ChargedVruntime, ThreadAddr)
       IN  IF CurrentStaysRunnable
             THEN UNCHANGED <<state, runq, current, currentIsCfs, assertFailed>>
             ELSE SwitchTo(t, runq \ {t})

\* The CFS timer is selected: the leftmost thread of the run queue runs,
\* unless the running CFS thread is not behind it.
ScheduleCfs ==
    /\ kq.next = CfsTimer
    /\ CfsTimer \in kq.active
    /\ runq # {}
    /\ LET t == Leftmost(runq, ChargedVruntime, ThreadAddr)
       IN  IF CurrentStaysRunnable /\ ChargedVruntime[current] <= ChargedVruntime[t]
             THEN /\ assertFailed' = (t = current)
                  /\ UNCHANGED <<state, runq, current, currentIsCfs>>
             ELSE SwitchTo(t, runq \ {t})

\* Mutant: the CFS thread an RT thread preempts is not requeued.
ScheduleRtNoRequeue ==
    /\ kq.next \in RtThreads
    /\ state' = [[state EXCEPT ![current] = IF Blocked(@) THEN @ ELSE "Ready"]
                    EXCEPT ![kq.next] = "Running"]
    /\ current' = kq.next
    /\ currentIsCfs' = FALSE
    /\ UNCHANGED <<runq, assertFailed>>

\* An RT timer is selected: its thread runs.
ScheduleRt ==
    /\ kq.next \in RtThreads
    /\ SwitchTo(kq.next, runq)

\* schedule ends in program_next_scheduler_timer.
Schedule ==
    /\ pendsv /\ started /\ Alive /\ tick = "off"
    /\ vruntime' = ChargedVruntime
    /\ ScheduleIdle \/ ScheduleCfs \/ ScheduleRt
    /\ reload' = ReloadFor(kq, First(kq))
    /\ pendsv' = FALSE
    /\ elapsed' = 0
    /\ UNCHANGED <<kq, prioritySum, waitVars, started, tick>>

-----------------------------------------------------------------------------

\* A panic handler loops for ever, and the environment acts within the bounds.
Stop ==
    /\ ~Alive \/ (ThreadMode /\ ~Bounded)
    /\ UNCHANGED vars

Boot ==
    \/ InitCfs
    \/ \E t \in CfsThreads : SpawnCfs(t)
    \/ \E t \in RtThreads : SpawnRt(t)
    \/ StartScheduler

ThreadCall ==
    \/ Yieldyi
    \/ \E ticks \in SleepTicks : Msleepyi(ticks)
    \/ BlockCurrentThread
    \/ \E ticks \in StartTimes : SetRtThreadStartTime(ticks)

TickHandler ==
    \/ SysTick
    \/ DispatchCfs
    \/ \E t \in RtThreads : DispatchRt(t)
    \/ DispatchWait
    \/ \E t \in Threads : WakeSleeper(t)
    \/ WakeDone
    \/ DispatchDone

Next ==
    \/ Boot
    \/ ThreadCall
    \/ \E t \in Threads : WakeWaiter(t)
    \/ TickHandler
    \/ Schedule
    \/ Stop

Spec == Init /\ [][Next]_vars

\* A handler that has been entered keeps executing.
FairSpec == Spec /\ WF_vars(tick # "off" /\ TickHandler)

-----------------------------------------------------------------------------
(* Correctness.                                                            *)

\* Every thread is where its state says, and nowhere else: the run queue
\* holds the Ready CFS threads, the timeout tree the Waiting ones, the
\* suspended list the Suspended ones, and an RT timer is queued exactly while
\* its thread is not blocked.  The intrusive links of sched.rs, waitq.rs and
\* ktimer.rs allow a node in one container only; every block, wake and
\* switch moves a thread between two of them.
PlacementConsistent ==
    /\ runq = {t \in CfsThreads : state[t] = "Ready"}
    /\ waitTree = {t \in Threads : state[t] = "Waiting"}
    /\ suspended = {t \in Threads : state[t] = "Suspended"}
    /\ ~kq.missPanic =>
          {t \in RtThreads : Queued(kq, t)} =
              {t \in RtThreads : state[t] \in {"Ready", "Running"}}

\* At most the current thread is Running; it stops being Running only by
\* blocking, and then a context switch is pending (sched.rs, sync.rs).
OnlyCurrentRuns ==
    /\ \A t \in Threads \cup {Idle} : state[t] = "Running" => t = current
    /\ started /\ ~pendsv => state[current] = "Running"
    /\ started => state[current] # "Ready"
    /\ currentIsCfs <=> current \in CfsThreads

\* Outside the tick handler NEXT_KTIMER is the earliest active timer: every
\* path that queues, removes or re-arms a timer refreshes it (ktimer.rs).
NextIsFirstActive ==
    tick = "off" /\ ~kq.missPanic => kq.next = FirstActive(kq)

\* The wait timer is armed for the earliest sleeper, and stays in the
\* inactive tree except while sleepers are being woken.
WaitTimerArmed ==
    tick # "wake" /\ ~kq.missPanic =>
        /\ kq.expireAt[WaitTimer] = EarliestWake(waitTree, wakeAt)
        /\ WaitTimer \in kq.inactive

PriorityOf(S) == MapThenSumSet(LAMBDA t : Priority[t], S)

Runnable == {t \in CfsThreads : state[t] \in {"Ready", "Running"}}

\* The divisor of the vruntime charge: priority_sum is the sum of the
\* priorities of the CFS threads that are not blocked, which every block,
\* wake and spawn of a CFS thread adjusts by one priority (runq.rs).
PrioritySumExact == prioritySum = PriorityOf(Runnable)

\* No debug_assert! of the scheduler fails: no thread is queued twice,
\* popped while it runs, or run while it is blocked.
NoAssertionFails == ~assertFailed

\* When handle_sched_tick returns, every due sleeper has been woken and no
\* queued timer is left expired.
NothingLeftExpired ==
    [][tick = "dispatch" /\ tick' = "off" =>
          /\ \A t \in waitTree : wakeAt[t] > kq.now
          /\ \A tm \in kq.active \cup kq.inactive : kq.expireAt[tm] > kq.now]_vars

\* schedule picks by deadline between the classes and by vruntime within
\* CFS: an RT thread it runs has the earliest active timer, and a CFS thread
\* it runs has the least vruntime of all runnable CFS threads.
DispatchOrder ==
    [][pendsv /\ ~pendsv' /\ ~assertFailed' =>
          /\ current' \in RtThreads =>
                \A tm \in kq.active : kq.expireAt[current'] <= kq.expireAt[tm]
          /\ current' \in CfsThreads =>
                \A t \in runq' : vruntime'[current'] <= vruntime'[t]]_vars

\* The SysTick interval schedule programs never jumps over a deadline, except
\* that the hardware cannot count less than two ticks.
TickNotLate ==
    [][pendsv /\ ~pendsv' =>
          \A tm \in kq.active \cup kq.inactive :
              kq.now + reload' + 1 <= kq.expireAt[tm]
                  \/ kq.expireAt[tm] < kq.now + ReloadMin + 1]_vars

\* What keeps the loops of handle_sched_tick going.
DueTimers == {tm \in kq.active \cup kq.inactive : IsExpired(kq, tm)}

DueSleepers == {t \in waitTree : wakeAt[t] <= kq.now}

Shrinks(before, after) == after \subseteq before /\ after # before

\* A due sleeper is woken, or one timer less is due, or the CFS timer is
\* parked (due again at once when the tick was longer than the CFS period), or
\* the loop ends.
NearerToEnd ==
    \/ Shrinks(DueSleepers, DueSleepers')
    \/ /\ DueSleepers' = DueSleepers
       /\ \/ Shrinks(DueTimers, DueTimers')
          \/ /\ DueTimers' = DueTimers
             /\ \/ Shrinks(DueTimers \cap kq.active, DueTimers' \cap kq'.active)
                \/ /\ kq'.active = kq.active
                   /\ <<tick, tick'>> \in {<<"wake", "dispatch">>,
                                          <<"dispatch", "off">>}

\* Every turn of the loops of handle_sched_tick brings them nearer to their
\* end, until the clock saturates: a woken RT thread may bring a timer that is
\* already due, but nothing brings a due sleeper, and no timer comes back due
\* a second time (ktimer.rs, dispatch_expired, wake_wait_thread).
TickProgress ==
    [][tick # "off" /\ Alive' /\ kq.now < Never => NearerToEnd]_vars

\* handle_sched_tick returns: its loops re-arm every expired timer past the
\* clock they have just advanced, however late the tick was, so they end
\* unless a deadline miss panics (ktimer.rs, dispatch_expired).
TickReturns == tick # "off" ~> tick = "off" \/ ~Alive

\* The conjunction of the invariants above with the facts their induction
\* needs: nothing runs before the start, the idle thread never blocks, the
\* tick handler starts with no context switch pending and so interrupts a
\* Running thread, no timer is in both trees, the wait timer is never active,
\* and CFS threads are spawned after init_cfs (sched.rs, ktimer.rs).
IInv ==
    /\ TypeOK
    /\ PlacementConsistent
    /\ OnlyCurrentRuns
    /\ NextIsFirstActive
    /\ WaitTimerArmed
    /\ NoAssertionFails
    /\ ~started => current = Idle
    /\ started => state[current] # "Unspawned"
    /\ ~Blocked(state[Idle])
    /\ tick # "off" => started /\ ~pendsv
    /\ kq.active \cap kq.inactive = {}
    /\ WaitTimer \notin kq.active
    /\ ~started /\ ~kq.missPanic /\ ~Queued(kq, CfsTimer) => runq = {}

-----------------------------------------------------------------------------
(* What comments and documents of the repository say, and the code does not *)
(* do.                                                                     *)

\* thread.rs:400 on RtThread.runtime: "The counter is charged when the RT
\* thread yields or is preempted".  The thread ran through the interval that
\* the tick has just accounted for, its job is not finished and not a new
\* one, and schedule takes the core away from it.
PreemptionCharged ==
    [][/\ pendsv /\ ~pendsv' /\ elapsed > 0
       /\ current \in RtThreads /\ current' # current
       /\ state[current] = "Running"
       /\ current \in kq.active
       /\ kq.expireAt[current] # kq.now + Deadline[current]
       => kq.runtime[current] > 0]_vars

\* docs/sched.md:31 on the idle thread: "The scheduler selects it only when
\* no normal scheduler work is runnable."  Work is runnable when its timer is
\* active: an RT thread by its own timer, queued CFS threads by the CFS timer.
IdleOnlyWithoutWork ==
    [][pendsv /\ ~pendsv' /\ current' = Idle =>
          /\ \A t \in RtThreads : t \notin kq.active
          /\ CfsTimer \in kq.active => runq = {}]_vars

=============================================================================
