------------------------------- MODULE KTimer -------------------------------
(***************************************************************************)
(* The kernel-timer framework of src/ktimer.rs, as operators on the        *)
(* KTIMER_QUEUE.                                                           *)
(*                                                                         *)
(* One timer belongs to each RT thread (RtKTimer), one to the whole CFS    *)
(* class (CFS_KTIMER) and one to all finite sleeps (WAIT_KTIMER).  A       *)
(* queue is a record: the clock now_ticks, the members of the active and   *)
(* of the inactive tree, every timer's absolute expire_at, and NEXT_KTIMER.*)
(* The job accounting that the timer code reads and writes travels in the  *)
(* same record: RtThread.runtime, the timers whose miss_cnt is not zero,   *)
(* and whether record_rt_deadline_miss has panicked.                       *)
(*                                                                         *)
(* The scheduler's handlers run several of these calls in a row inside one *)
(* critical section, so each call is a function from queue to queue and a  *)
(* handler composes them.                                                  *)
(***************************************************************************)
EXTENDS OrderedTree, FiniteSets

CONSTANTS
    RtThreads,      \* the RT threads; each one also names its RtKTimer
    CfsTimer,       \* CFS_KTIMER
    WaitTimer,      \* WAIT_KTIMER
    NoTimer,        \* the null pointer
    TimerAddr,      \* storage address of each timer: the tie-breaker of cmp
    Period,         \* RtTiming.period_ticks of each RT timer
    Deadline,       \* RtTiming.relative_deadline_ticks
    Budget,         \* RtTiming.budget_ticks
    CfsPeriod,      \* init_cfs(period_ticks, _)
    CfsExec,        \* init_cfs(_, exec_ticks)
    ReloadMax,      \* SCHEDULER_TIMER_RELOAD_MAX, 2^24 - 1 on the hardware
    Never           \* KTIMER_EXPIRE_NEVER, u64::MAX

Timers == RtThreads \cup {CfsTimer, WaitTimer}

\* SCHEDULER_TIMER_RELOAD_MIN: SysTick does not count with reload 0.
ReloadMin == 1

ASSUME TimersDistinct ==
    /\ CfsTimer \notin RtThreads
    /\ WaitTimer \notin RtThreads
    /\ CfsTimer # WaitTimer
    /\ NoTimer \notin Timers

ASSUME AddrAssumption ==
    /\ TimerAddr \in [Timers -> Nat]
    /\ \A a, b \in Timers : TimerAddr[a] = TimerAddr[b] => a = b

\* A zero relative deadline would make dispatch_expired re-arm the timer for
\* now and loop for ever; the code leaves that to the board's configuration.
ASSUME TimingAssumption ==
    /\ Period \in [RtThreads -> Nat]
    /\ Deadline \in [RtThreads -> Nat \ {0}]
    /\ Budget \in [RtThreads -> Nat]
    /\ CfsPeriod \in Nat \ {0}
    /\ CfsExec \in Nat \ {0}
    /\ ReloadMax \in Nat /\ ReloadMin <= ReloadMax
    /\ Never \in Nat

KTimerQueues ==
    [now       : Nat,
     active    : SUBSET Timers,
     inactive  : SUBSET Timers,
     expireAt  : [Timers -> Nat],
     next      : Timers \cup {NoTimer},
     runtime   : [RtThreads -> Nat],
     missed    : SUBSET RtThreads,
     missPanic : BOOLEAN]

-----------------------------------------------------------------------------
(* saturating_sub and saturating_add of u64.                               *)

SatSub(a, b) == IF b <= a THEN a - b ELSE 0

SatAdd(a, b) == IF a + b <= Never THEN a + b ELSE Never

-----------------------------------------------------------------------------
(* The two ordered trees.                                                  *)

FirstOf(expireAt, S) ==
    IF S = {} THEN NoTimer ELSE Leftmost(S, expireAt, TimerAddr)

FirstActive(q) == FirstOf(q.expireAt, q.active)

\* first(): the earlier of the minima of the two trees.
First(q) == FirstOf(q.expireAt, q.active \cup q.inactive)

Queued(q, tm) == tm \in q.active \cup q.inactive

Remove(q, tm) ==
    [q EXCEPT !.active = @ \ {tm}, !.inactive = @ \ {tm}]

EnqueueActive(q, tm) ==
    [q EXCEPT !.active = @ \cup {tm}, !.inactive = @ \ {tm}]

EnqueueInactive(q, tm) ==
    [q EXCEPT !.active = @ \ {tm}, !.inactive = @ \cup {tm}]

SetExpireAt(q, tm, at) == [q EXCEPT !.expireAt[tm] = at]

IsExpired(q, tm) == q.expireAt[tm] <= q.now

-----------------------------------------------------------------------------
(* NEXT_KTIMER and job accounting.                                         *)

\* is_real_rt_deadline_miss
IsRealDeadlineMiss(q, t) == q.runtime[t] > Deadline[t]

\* record_rt_deadline_miss: counts the miss, prints, and panics; the timer
\* has left its tree by then.
RecordDeadlineMiss(q, t) ==
    [Remove(q, t) EXCEPT !.missed = @ \cup {t}, !.missPanic = TRUE]

\* runtime += ticks, then record_rt_budget_overrun.
ChargeRuntime(q, t, ticks) ==
    [q EXCEPT !.runtime[t] = @ + ticks,
              !.missed = IF q.runtime[t] + ticks > Budget[t]
                           THEN @ \cup {t} ELSE @]

\* Start the timer's next active window at the current clock.
Rearm(q, tm) ==
    IF tm = CfsTimer
      THEN SetExpireAt(q, tm, SatAdd(q.now, CfsPeriod))
      ELSE [q EXCEPT !.runtime[tm] = 0,
                     !.expireAt[tm] = SatAdd(q.now, Deadline[tm])]

\* refresh_next_ktimer: if the first active timer is already due, re-arm that
\* one timer, then select the first active timer.
RefreshNext(q) ==
    LET e == FirstActive(q)
    IN  IF e = NoTimer
          THEN [q EXCEPT !.next = NoTimer]
          ELSE IF ~IsExpired(q, e)
          THEN [q EXCEPT !.next = e]
          ELSE IF e \in RtThreads /\ IsRealDeadlineMiss(q, e)
          THEN RecordDeadlineMiss(q, e)
          ELSE [Rearm(q, e) EXCEPT !.next = FirstActive(Rearm(q, e))]

\* enqueue_ktimer and reinsert_ktimer
ReinsertKTimer(q, tm) == RefreshNext(EnqueueActive(q, tm))

\* remove_ktimer
RemoveKTimer(q, tm) ==
    IF q.next = tm THEN RefreshNext(Remove(q, tm)) ELSE Remove(q, tm)

\* yield_ktimer: the timer of the running thread goes to sleep until its next
\* release, and the clock takes in the ticks run since the last reload.
YieldKTimer(q, tm, elapsed, resetRuntime) ==
    LET base    == SatAdd(q.now, elapsed)
        charged == IF tm = CfsTimer THEN q ELSE ChargeRuntime(q, tm, elapsed)
        pause   == IF tm = CfsTimer THEN SatSub(CfsPeriod, elapsed)
                   ELSE SatSub(Period[tm], charged.runtime[tm])
        parked  == EnqueueInactive(SetExpireAt(charged, tm, SatAdd(base, pause)), tm)
        timed   == [parked EXCEPT !.now = base]
    IN  IF tm # CfsTimer /\ resetRuntime
          THEN [timed EXCEPT !.runtime[tm] = 0]
          ELSE timed

\* Mutant: the wait timer keeps the deadline of an earlier sleeper.
ProgramWaitKTimerNotArmed(q, wakeup) == RefreshNext(q)

\* Mutant: an unchanged wait deadline also skips the refresh.
ProgramWaitKTimerLazy(q, wakeup) ==
    IF q.expireAt[WaitTimer] = wakeup
      THEN q
      ELSE RefreshNext(
               EnqueueInactive(SetExpireAt(q, WaitTimer, wakeup), WaitTimer))

\* program_wait_ktimer: wakeup is the earliest wake_at of the wait tree.
ProgramWaitKTimer(q, wakeup) ==
    RefreshNext(IF q.expireAt[WaitTimer] = wakeup
                  THEN q
                  ELSE EnqueueInactive(SetExpireAt(q, WaitTimer, wakeup), WaitTimer))

\* earliest_queued_scheduler_expire_at: the wait timer is passed over.
EarliestSchedulerExpiry(q) ==
    LET S == (q.active \cup q.inactive) \ {WaitTimer}
    IN  IF S = {} THEN Never ELSE q.expireAt[FirstOf(q.expireAt, S)]

\* Mutant: the timer moves in its tree and NEXT_KTIMER is left alone.
SetSchedulerExpireAtNoRefresh(q, tm, at) == SetExpireAt(q, tm, at)

\* set_thread_scheduler_expire_at: a queued timer leaves its tree, gets the
\* new expiration and goes back to the same tree.
SetSchedulerExpireAt(q, tm, at) ==
    LET moved == SetExpireAt(q, tm, at)
    IN  IF Queued(q, tm) \/ q.next = tm THEN RefreshNext(moved) ELSE moved

-----------------------------------------------------------------------------
(* The steps of dispatch_expired, one per kind of expired timer.           *)

\* wake_wait_thread, RT branch
WakeRtTimer(q, t, elapsed) ==
    LET charged == ChargeRuntime(q, t, elapsed)
    IN  EnqueueActive(
            SetExpireAt(charged, t,
                SatAdd(q.now, SatSub(Deadline[t], charged.runtime[t]))), t)

\* Mutant: the next CFS slice begins without a new expire_at.
DispatchCfsTimerNotRearmed(q, elapsed) ==
    IF CfsTimer \in q.active
      THEN EnqueueInactive(
               SetExpireAt(q, CfsTimer,
                   SatAdd(q.now, SatSub(CfsPeriod, elapsed))), CfsTimer)
      ELSE EnqueueActive(q, CfsTimer)

\* The expired CFS timer: the end of the slice, or the next one.
DispatchCfsTimer(q, elapsed) ==
    IF CfsTimer \in q.active
      THEN EnqueueInactive(
               SetExpireAt(q, CfsTimer,
                   SatAdd(q.now, SatSub(CfsPeriod, elapsed))), CfsTimer)
      ELSE EnqueueActive(Rearm(q, CfsTimer), CfsTimer)

\* Mutant: the RT timer is released without a new expire_at.
DispatchRtTimerNotRearmed(q, t) ==
    IF t \in q.active /\ IsRealDeadlineMiss(q, t)
      THEN RecordDeadlineMiss(q, t)
      ELSE EnqueueActive(q, t)

\* The expired RT timer: a missed deadline, a late one, or the next release.
DispatchRtTimer(q, t) ==
    IF t \in q.active /\ IsRealDeadlineMiss(q, t)
      THEN RecordDeadlineMiss(q, t)
      ELSE EnqueueActive(Rearm(q, t), t)

-----------------------------------------------------------------------------
(* SysTick programming.                                                    *)

Clamp(x, lo, hi) == IF x < lo THEN lo ELSE IF x > hi THEN hi ELSE x

\* Mutant: an interval of N ticks is programmed as reload N.
ReloadForOffByOne(q, tm) ==
    Clamp(SatSub(q.expireAt[tm], q.now), ReloadMin, ReloadMax)

\* Mutant: reload 0 is not raised to the least value SysTick can count.
ReloadForUnclamped(q, tm) ==
    Clamp(SatSub(SatSub(q.expireAt[tm], q.now), 1), 0, ReloadMax)

\* scheduler_timer_reload_for_entity: a reload of R fires after R + 1 ticks.
\* CFS slices its time by exec_ticks, the other timers aim at expire_at.
ReloadFor(q, tm) ==
    LET left  == SatSub(q.expireAt[tm], q.now)
        slice == Clamp(left, 0, IF CfsExec < ReloadMax THEN CfsExec ELSE ReloadMax)
        ticks == IF tm = CfsTimer THEN slice ELSE left
    IN  Clamp(SatSub(ticks, 1), ReloadMin, ReloadMax)

\* init_ktimer_queue
EmptyQueue ==
    [now       |-> 0,
     active    |-> {},
     inactive  |-> {WaitTimer},
     expireAt  |-> [tm \in Timers |->
                       CASE tm = WaitTimer -> Never
                         [] tm = CfsTimer  -> CfsExec
                         [] OTHER          -> Deadline[tm]],
     next      |-> NoTimer,
     runtime   |-> [t \in RtThreads |-> 0],
     missed    |-> {},
     missPanic |-> FALSE]

=============================================================================
