---------------------------- MODULE SchedClock ----------------------------
(***************************************************************************)
(* The scheduler over the SysTick counter that keeps its time: the clock   *)
(* now_ticks against the ticks that really pass.                           *)
(*                                                                         *)
(* SysTick counts down from the reload value; on reaching zero it sets its *)
(* pending bit, and one tick later starts over.  schedule writes the       *)
(* reload and the counter (program_reload) and cannot take back a pending  *)
(* bit.  RtSched leaves open when SysTick fires and how far a thread got   *)
(* in its interval; here the counter decides both.                         *)
(***************************************************************************)
EXTENDS RtSched

VARIABLES
    counter,        \* the SysTick current-value register
    systick,        \* SysTick is pending
    asked,          \* the ticks each thread last asked msleepyi for
    slept           \* the ticks it has really slept, counted up to asked

clockVars == <<counter, systick, asked, slept>>
allVars   == <<vars, clockVars>>

ClockInit ==
    /\ counter = 0
    /\ systick = FALSE
    /\ asked = [t \in Threads |-> 0]
    /\ slept = [t \in Threads |-> 0]

\* One tick passes for the threads that are asleep.
Aged == [t \in Threads |->
            IF t \in waitTree /\ slept[t] < asked[t] THEN slept[t] + 1 ELSE slept[t]]

-----------------------------------------------------------------------------

\* A tick passes, in thread mode as in a handler or a critical section.
\* Nothing masks SysTick so long that it fires a second time unserved.
Count ==
    /\ started /\ Alive /\ Bounded
    /\ ~(systick /\ counter = 1)
    /\ counter' = IF counter = 0 THEN reload ELSE counter - 1
    /\ systick' = (systick \/ counter = 1)
    /\ slept' = Aged
    /\ UNCHANGED <<vars, asked>>

\* elapsed_ticks_since_current_reload
ElapsedSinceReload == SatSub(reload, counter)

\* A thread call takes the ticks of the running interval into the clock.
CallsWithElapsed ==
    /\ \/ Yieldyi /\ UNCHANGED <<asked, slept>>
       \/ BlockCurrentThread /\ UNCHANGED <<asked, slept>>
       \/ \E ticks \in SleepTicks :
             /\ Msleepyi(ticks)
             /\ asked' = [asked EXCEPT ![current] = ticks]
             /\ slept' = [slept EXCEPT ![current] = 0]
    /\ kq'.now = SatAdd(kq.now, ElapsedSinceReload)
    /\ UNCHANGED <<counter, systick>>

\* The SysTick exception is taken.
TakeSysTick ==
    /\ systick
    /\ SysTick
    /\ systick' = FALSE
    /\ UNCHANGED <<counter, asked, slept>>

\* program_reload: the write clears the counter, and the next tick loads it.
ScheduleAndProgram ==
    /\ Schedule
    /\ counter' = reload'
    /\ slept' = Aged
    /\ UNCHANGED <<systick, asked>>

\* The board configures SysTick before the scheduler starts.
Start ==
    /\ StartScheduler
    /\ counter' = reload'
    /\ UNCHANGED <<systick, asked, slept>>

\* The remaining steps neither read nor write the counter.
OtherStep ==
    /\ \/ InitCfs
       \/ \E t \in CfsThreads : SpawnCfs(t)
       \/ \E t \in RtThreads : SpawnRt(t)
       \/ \E t \in Threads : WakeWaiter(t) \/ WakeSleeper(t)
       \/ DispatchCfs
       \/ \E t \in RtThreads : DispatchRt(t)
       \/ DispatchWait
       \/ WakeDone
       \/ DispatchDone
       \/ Stop
    /\ UNCHANGED clockVars

ClockNext ==
    \/ Start
    \/ Count
    \/ CallsWithElapsed
    \/ TakeSysTick
    \/ ScheduleAndProgram
    \/ OtherStep

ClockSpec == Init /\ ClockInit /\ [][ClockNext]_allVars

-----------------------------------------------------------------------------

\* docs/waitq.md:5: "msleepyi() blocks a thread until its sleep deadline".
\* A sleeper leaves the wait queue after the ticks it asked for, or later.
SleepNotShort ==
    [][\A t \in waitTree \ waitTree' : slept[t] >= asked[t]]_allVars

=============================================================================
