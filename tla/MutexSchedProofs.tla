-------------------------- MODULE MutexSchedProofs --------------------------
(***************************************************************************)
(* Theorems about the mutexes over the scheduler, for every set of         *)
(* threads, mutexes, timings and bounds, when PendSV is not below the      *)
(* other interrupts.                                                       *)
(*                                                                         *)
(* A step of MutexNext is a step of the scheduler that wakes no waiter of  *)
(* a mutex, or a mutex call.  The first keep the scheduler's invariant by  *)
(* RtSchedProofs; for the calls it is enough that writing the expiration   *)
(* of one thread's timer keeps what InvBlocked and InvHandBack ask of the  *)
(* timer queue.                                                            *)
(*                                                                         *)
(* The last part shows that CFS_RUN_QUEUE.priority_sum is the sum of the   *)
(* priorities of the CFS threads that are not blocked, for every finite    *)
(* set of CFS threads.  The sum is a fold over a set, that is a recursive  *)
(* function: it is shown to exist and to be unique by minimal              *)
(* counterexamples on the size of the set, and then not to depend on the   *)
(* order of the fold.                                                      *)
(***************************************************************************)
EXTENDS MutexSched, RtSchedProofs, FiniteSetTheorems

-----------------------------------------------------------------------------
(* The timer queue under loans and their return.                           *)

\* The owner's timer is written, or the owner is the idle thread, which has
\* none.
LEMMA SetThreadExpireAtEffect ==
    ASSUME NEW q \in KTimerQueues, WaitTimer \notin q.active,
           NEW t \in Threads \cup {Idle}, NEW at \in Nat
    PROVE  SameTimers(SetThreadExpireAt(q, t, at), q)
<1>1. CASE t = Idle
    BY <1>1 DEF SetThreadExpireAt, SameTimers
<1>2. CASE t # Idle
    <2>1. TimerOf(t) \in RtThreads \cup {CfsTimer}
        BY <1>2, TimerOfType
    <2>2. SameTimers(SetSchedulerExpireAt(q, TimerOf(t), at), q)
        BY <2>1, SetSchedulerExpireAtEffect
    <2>3. QED
        BY <1>2, <2>2 DEF SetThreadExpireAt
<1>3. QED
    BY <1>1, <1>2

LEMMA SchedulerExpireAtType ==
    ASSUME NEW q \in KTimerQueues, NEW t \in Threads \cup {Idle}
    PROVE  SchedulerExpireAt(q, t) \in Nat
<1>1. CASE t = Idle
    BY <1>1, TimingAssumption DEF SchedulerExpireAt
<1>2. CASE t # Idle
    <2>1. TimerOf(t) \in Timers
        BY <1>2, TimerOfType DEF Timers
    <2>2. QED
        BY <1>2, <2>1, QueueFields DEF SchedulerExpireAt
<1>3. QED
    BY <1>1, <1>2

\* boost_owner_deadline, called with the deadline just noted for t.
LEMMA BoostEffect ==
    ASSUME MutexTypeOK, NEW q \in KTimerQueues, WaitTimer \notin q.active,
           NEW m \in Mutexes, owner[m] # NoOwner, NEW t \in Threads,
           deadlineAt'[t] \in Nat, BoostOwnerDeadline(q, m, t)
    PROVE  /\ SameTimers(kq', q)
           /\ boosted' \in [Mutexes -> BOOLEAN]
           /\ original' \in [Mutexes -> Nat]
           /\ \A n \in Mutexes \ {m} : boosted'[n] = boosted[n]
<1> DEFINE e     == EarliestSchedulerExpiry(q)
           boost == IF deadlineAt'[t] < e THEN deadlineAt'[t] ELSE e
           own   == SchedulerExpireAt(q, owner[m])
<1>1. owner[m] \in Threads \cup {Idle}
    BY DEF MutexTypeOK
<1>2. e \in Nat /\ boost \in Nat /\ own \in Nat
    <2>1. e \in Nat
        BY EarliestSchedulerExpiryEffect
    <2>2. own \in Nat
        BY <1>1, SchedulerExpireAtType
    <2>3. QED
        BY <2>1, <2>2
<1>3. \/ /\ kq' = q
         /\ UNCHANGED <<boosted, original>>
      \/ /\ kq' = SetThreadExpireAt(q, owner[m], boost)
         /\ boosted' = [boosted EXCEPT ![m] = TRUE]
         /\ original' = [original EXCEPT ![m] = IF boosted[m] THEN @ ELSE own]
    BY DEF BoostOwnerDeadline
<1> HIDE DEF e, boost, own
<1>4. CASE /\ kq' = q
           /\ UNCHANGED <<boosted, original>>
    BY <1>4 DEF SameTimers, MutexTypeOK
<1>5. CASE /\ kq' = SetThreadExpireAt(q, owner[m], boost)
           /\ boosted' = [boosted EXCEPT ![m] = TRUE]
           /\ original' = [original EXCEPT ![m] = IF boosted[m] THEN @ ELSE own]
    <2>1. SameTimers(kq', q)
        BY <1>1, <1>2, <1>5, SetThreadExpireAtEffect
    <2>2. original' \in [Mutexes -> Nat]
        BY <1>2, <1>5 DEF MutexTypeOK
    <2>3. boosted' \in [Mutexes -> BOOLEAN] /\ \A n \in Mutexes \ {m} : boosted'[n] = boosted[n]
        BY <1>5 DEF MutexTypeOK
    <2>4. QED
        BY <2>1, <2>2, <2>3
<1>6. QED
    BY <1>3, <1>4, <1>5

\* restore_owner_deadline leaves a queue that HandBack may start from.
LEMMA QueueRestoredEffect ==
    ASSUME IInv, MutexTypeOK, NEW m \in Mutexes, owner[m] # NoOwner
    PROVE  SameTimers(QueueRestored(m), kq)
<1>1. kq \in KTimerQueues /\ WaitTimer \notin kq.active
    BY DEF IInv, TypeOK
<1>2. owner[m] \in Threads \cup {Idle} /\ original[m] \in Nat
    BY DEF MutexTypeOK
<1>3. SameTimers(SetThreadExpireAt(kq, owner[m], original[m]), kq)
    BY <1>1, <1>2, SetThreadExpireAtEffect
<1>4. SameTimers(kq, kq)
    BY <1>1 DEF SameTimers
<1>5. QED
    BY <1>3, <1>4 DEF QueueRestored

\* lock of an owned mutex: block_current_thread_on parks the caller's timer, then
\* boost_owner_deadline works on that queue with the deadline just noted.
LEMMA LockOwnedBoost ==
    ASSUME MutexInv, NEW m \in Mutexes, LockOwned(m)
    PROVE  /\ current \in Threads /\ deadlineAt'[current] \in Nat
           /\ \E q \in KTimerQueues :
                 /\ IsParked(q, kq, current, EarliestWake(waitTree, wakeAt))
                 /\ WaitTimer \notin q.active
                 /\ BoostOwnerDeadline(q, m, current)
<1> DEFINE e == EarliestWake(waitTree, wakeAt)
<1>1. PICK ran \in 0 .. reload : BoostOwnerDeadline(Parked(kq, current, ran, e), m, current)
    BY DEF LockOwned, Parked
<1> DEFINE q == Parked(kq, current, ran, e)
<1>2. /\ kq \in KTimerQueues /\ WaitTimer \notin kq.active
      /\ current \in Threads /\ ran \in Nat
    BY TimingAssumption DEF LockOwned, MutexInv, IInv, TypeOK, ReloadMin
<1>3. e \in Nat
    <2>1. waitTree \in SUBSET Threads /\ wakeAt \in [Threads -> Nat]
        BY DEF MutexInv, IInv, TypeOK
    <2>2. QED
        BY <2>1, EarliestWakeEffect
<1> HIDE DEF e
<1>4. IsParked(q, kq, current, e)
    BY <1>2, <1>3, ParkedEffect
<1> HIDE DEF q
<1>5. q \in KTimerQueues /\ WaitTimer \notin q.active
    BY <1>2, <1>4 DEF IsParked
<1>6. BoostOwnerDeadline(q, m, current)
    BY <1>1 DEF q
<1>7. deadlineAt'[current] \in Nat
    <2>1. TimerOf(current) \in Timers
        BY <1>2, TimerOfType DEF Timers
    <2>2. kq.expireAt[TimerOf(current)] \in Nat
        BY <1>2, <2>1, QueueFields
    <2>3. QED
        BY <1>2, <2>2 DEF LockOwned, MutexInv, MutexTypeOK
<1>8. QED
    BY <1>2, <1>4, <1>5, <1>6, <1>7 DEF e

\* The loan moves no timer between the trees, so the caller's stays parked.  The
\* caller is in no tree of sleepers, so its new wake_at does not matter there.
LEMMA LockOwnedKq ==
    ASSUME MutexInv, NEW m \in Mutexes, LockOwned(m)
    PROVE  /\ IsParked(kq', kq, current, EarliestWake(waitTree', wakeAt'))
           /\ boosted' \in [Mutexes -> BOOLEAN]
           /\ original' \in [Mutexes -> Nat]
           /\ \A n \in Mutexes \ {m} : boosted'[n] = boosted[n]
<1> DEFINE e == EarliestWake(waitTree, wakeAt)
<1>1. PICK q \in KTimerQueues : /\ IsParked(q, kq, current, e)
                                /\ WaitTimer \notin q.active
                                /\ BoostOwnerDeadline(q, m, current)
    BY LockOwnedBoost
<1>2. waitTree \in SUBSET Threads /\ wakeAt \in [Threads -> Nat]
    BY DEF MutexInv, IInv, TypeOK
<1>3. EarliestWake(waitTree', wakeAt') = e
    <2>1. waitTree' = waitTree /\ wakeAt' = [wakeAt EXCEPT ![current] = Never]
        BY DEF LockOwned, InsertWaitThread
    <2>2. current \notin waitTree
        <3>1. state[current] = "Running"
            BY DEF LockOwned, MutexInv, IInv, OnlyCurrentRuns, ThreadMode
        <3>2. QED
            BY <3>1 DEF MutexInv, IInv, PlacementConsistent
    <2>3. \A a \in waitTree : wakeAt'[a] = wakeAt[a]
        BY <1>2, <2>1, <2>2
    <2>4. CASE waitTree = {}
        BY <2>1, <2>4 DEF EarliestWake
    <2>5. CASE waitTree # {}
        <3>1. \A a \in waitTree :
                  wakeAt[a] \in Nat /\ ThreadAddr[a] \in Nat /\ wakeAt'[a] = wakeAt[a]
            BY <1>2, <2>3, ThreadAddrAssumption
        <3>2. \A a, b \in waitTree : ThreadAddr[a] = ThreadAddr[b] => a = b
            BY <1>2, ThreadAddrAssumption
        <3>3. Leftmost(waitTree, wakeAt', ThreadAddr) = Leftmost(waitTree, wakeAt, ThreadAddr)
            BY <2>5, <3>1, <3>2, LeftmostAgrees
        <3>4. Leftmost(waitTree, wakeAt, ThreadAddr) \in waitTree
            BY <2>5, <3>1, <3>2, LeftmostExists
        <3>5. QED
            BY <2>1, <2>3, <2>5, <3>3, <3>4 DEF EarliestWake
    <2>6. QED
        BY <2>4, <2>5
<1> HIDE DEF e
<1>4. /\ SameTimers(kq', q)
      /\ boosted' \in [Mutexes -> BOOLEAN]
      /\ original' \in [Mutexes -> Nat]
      /\ \A n \in Mutexes \ {m} : boosted'[n] = boosted[n]
    <2>1. owner[m] # NoOwner
        BY DEF LockOwned
    <2>2. QED
        BY <1>1, <2>1, LockOwnedBoost, BoostEffect DEF MutexInv
<1>5. IsParked(kq', kq, current, e)
    BY <1>1, <1>4 DEF IsParked, SameTimers
<1>6. QED
    BY <1>3, <1>4, <1>5

LEMMA InvLockOwned ==
    ASSUME MutexInv, NEW m \in Mutexes, LockOwned(m) PROVE MutexInv'
<1>1. /\ IsParked(kq', kq, current, EarliestWake(waitTree', wakeAt'))
      /\ boosted' \in [Mutexes -> BOOLEAN]
      /\ original' \in [Mutexes -> Nat]
      /\ \A n \in Mutexes \ {m} : boosted'[n] = boosted[n]
    BY LockOwnedKq
<1>2. /\ ThreadMode /\ current \in Threads /\ IInv /\ MutexTypeOK /\ WaitersHaveOwner
      /\ kq \in KTimerQueues /\ owner[m] # NoOwner /\ owner[m] # current
    BY DEF LockOwned, MutexInv, IInv, TypeOK
<1>3. /\ wakeAt' = [wakeAt EXCEPT ![current] = Never] /\ waitTree' = waitTree
      /\ suspended' = suspended \cup {current}
      /\ state' = [state EXCEPT ![current] = "Suspended"]
    BY DEF LockOwned, InsertWaitThread
<1>4. current \notin suspended
    <2>1. state[current] = "Running"
        BY <1>2 DEF IInv, OnlyCurrentRuns, ThreadMode
    <2>2. QED
        BY <2>1, <1>2 DEF IInv, PlacementConsistent
<1>5. IInv'
    <2>1. TypeOK'
        <3>1. prioritySum' \in Nat
            <4>1. CASE current \in CfsThreads
                <5>1. prioritySum' = SatSub(prioritySum, Priority[current])
                    BY <4>1 DEF LockOwned
                <5>2. QED
                    BY <1>2, <4>1, <5>1, SatNat, PriorityAssumption DEF IInv, TypeOK
            <4>2. CASE current \notin CfsThreads
                BY <1>2, <4>2 DEF LockOwned, IInv, TypeOK
            <4>3. QED
                BY <4>1, <4>2
        <3>2. kq' \in KTimerQueues
            BY <1>1 DEF IsParked
        <3>3. /\ wakeAt' \in [Threads -> Nat]
              /\ waitTree' \subseteq Threads /\ suspended' \subseteq Threads
              /\ state' \in [Threads \cup {Idle} -> ThreadStates]
            BY <1>2, <1>3, TimingAssumption DEF IInv, TypeOK, ThreadStates
        <3>4. pendsv' \in BOOLEAN
            BY DEF LockOwned
        <3>5. QED
            BY <1>2, <3>1, <3>2, <3>3, <3>4 DEF LockOwned, IInv, TypeOK, cpuVars, tickVars
    <2>2. pendsv' = TRUE /\ UNCHANGED <<runq, cpuVars, tickVars, assertFailed>>
        BY DEF LockOwned
    <2>3. QED
        BY <1>1, <1>2, <1>3, <2>1, <2>2, InvBlocked
<1>6. MutexTypeOK'
    <2>1. kq.expireAt[TimerOf(current)] \in Nat
        <3>1. TimerOf(current) \in Timers
            BY <1>2, TimerOfType DEF Timers
        <3>2. QED
            BY <1>2, <3>1, QueueFields
    <2>2. QED
        BY <1>1, <1>2, <2>1 DEF LockOwned, MutexTypeOK
<1>7. WaitersHaveOwner'
    <2>1. /\ owner' = owner
          /\ waiters' = [waiters EXCEPT ![m] = @ \cup {current}]
        BY DEF LockOwned
    <2>2. \A n \in Mutexes : current \notin waiters[n]
        BY <1>2, <1>4 DEF WaitersHaveOwner
    <2>3. waiters'[m] = waiters[m] \cup {current} /\ \A n \in Mutexes \ {m} : waiters'[n] = waiters[n]
        BY <1>2, <2>1 DEF MutexTypeOK
    <2>4. QED
        BY <1>1, <1>2, <1>3, <2>1, <2>2, <2>3 DEF WaitersHaveOwner
<1>8. QED
    BY <1>5, <1>6, <1>7 DEF MutexInv

LEMMA InvLockFree ==
    ASSUME MutexInv, NEW m \in Mutexes, LockFree(m) PROVE MutexInv'
<1>1. IInv'
    BY InvStutter DEF MutexInv, LockFree
<1>2. current \in Threads \cup {Idle} /\ current \notin waiters[m] /\ current # NoOwner
    <2>1. waiters[m] = {}
        BY DEF MutexInv, WaitersHaveOwner, LockFree
    <2>2. QED
        BY <2>1, NoOwnerAssumption DEF MutexInv, IInv, TypeOK
<1>3. MutexTypeOK'
    BY <1>2 DEF MutexInv, MutexTypeOK, LockFree
<1>4. WaitersHaveOwner'
    BY <1>2 DEF MutexInv, MutexTypeOK, WaitersHaveOwner, LockFree, vars, waitVars
<1>5. QED
    BY <1>1, <1>3, <1>4 DEF MutexInv

\* pop_waiting_thread returns a waiter, and none waits with an earlier deadline.
LEMMA FirstWaiterEffect ==
    ASSUME MutexTypeOK, NEW m \in Mutexes, waiters[m] # {}
    PROVE  /\ FirstWaiter(m) \in waiters[m]
           /\ \A w \in waiters[m] : deadlineAt[FirstWaiter(m)] <= deadlineAt[w]
<1> DEFINE W == waiters[m]
<1>1. W \subseteq Threads /\ deadlineAt \in [Threads -> Nat]
    BY DEF MutexTypeOK
<1>2. \A a \in W : deadlineAt[a] \in Nat /\ ThreadAddr[a] \in Nat
    BY <1>1, ThreadAddrAssumption
<1>3. \A a, b \in W : ThreadAddr[a] = ThreadAddr[b] => a = b
    BY <1>1, ThreadAddrAssumption
<1>4. W # {}
    OBVIOUS
<1> HIDE DEF W
<1>5. /\ Leftmost(W, deadlineAt, ThreadAddr) \in W
      /\ \A w \in W : deadlineAt[Leftmost(W, deadlineAt, ThreadAddr)] <= deadlineAt[w]
    BY <1>2, <1>3, <1>4, LeftmostExists
<1>6. QED
    BY <1>5 DEF FirstWaiter, W

\* Nothing is on loan when nobody waits, so unlock then leaves the scheduler
\* alone.
LEMMA InvUnlockLast ==
    ASSUME MutexInv, NEW m \in Mutexes, Unlock(m), waiters[m] = {} PROVE MutexInv'
<1>1. ~boosted[m]
    BY DEF MutexInv, WaitersHaveOwner
<1>2. UNCHANGED vars
    <2>1. kq' = kq
        BY <1>1 DEF Unlock, QueueRestored
    <2>2. QED
        BY <2>1 DEF Unlock, vars
<1>3. IInv'
    BY <1>2, InvStutter DEF MutexInv
<1>4. /\ owner' = [owner EXCEPT ![m] = NoOwner]
      /\ boosted' = [boosted EXCEPT ![m] = FALSE]
      /\ original' = [original EXCEPT ![m] = IF boosted[m] THEN 0 ELSE @]
      /\ UNCHANGED <<waiters, deadlineAt>>
    BY DEF Unlock, NextOwner, RestoreOwnerDeadline
<1>5. MutexTypeOK'
    BY <1>4 DEF MutexInv, MutexTypeOK
<1>6. WaitersHaveOwner'
    BY <1>2, <1>4 DEF MutexInv, MutexTypeOK, WaitersHaveOwner, vars, waitVars
<1>7. QED
    BY <1>3, <1>5, <1>6 DEF MutexInv

\* With waiters, the loan is returned and the first waiter goes back to the
\* scheduler.  It was suspended, so it waits for no other mutex.
LEMMA InvUnlockHandOff ==
    ASSUME MutexInv, NEW m \in Mutexes, Unlock(m), waiters[m] # {} PROVE MutexInv'
<1> DEFINE t == FirstWaiter(m)
           q == QueueRestored(m)
<1>1. IInv /\ MutexTypeOK /\ WaitersHaveOwner /\ ThreadMode /\ kq \in KTimerQueues
    BY DEF MutexInv, IInv, TypeOK, Unlock
<1>2. t \in waiters[m]
    BY <1>1, FirstWaiterEffect
<1>3. /\ HandBack(q, t)
      /\ owner' = [owner EXCEPT ![m] = t]
      /\ waiters' = [waiters EXCEPT ![m] = @ \ {t}]
      /\ boosted' = [boosted EXCEPT ![m] = FALSE]
      /\ original' = [original EXCEPT ![m] = IF boosted[m] THEN 0 ELSE @]
      /\ UNCHANGED deadlineAt
    BY DEF Unlock, NextOwner, RestoreOwnerDeadline
<1>4. SameTimers(q, kq)
    <2>1. owner[m] # NoOwner
        BY <1>1 DEF WaitersHaveOwner
    <2>2. QED
        BY <1>1, <2>1, QueueRestoredEffect
<1> HIDE DEF t, q
<1>5. t \in suspended /\ t \in Threads /\ t # NoOwner
    BY <1>1, <1>2, NoOwnerAssumption DEF WaitersHaveOwner, MutexTypeOK
<1>6. IInv'
    <2>1. WaitTimer \notin kq.active /\ kq.active \cap kq.inactive = {} /\ WaitTimer \in kq.inactive
        BY <1>1 DEF IInv, WaitTimerArmed, ThreadMode, Alive
    <2>2. /\ q \in KTimerQueues /\ WaitTimer \notin q.active
          /\ q.active \cap q.inactive = {}
          /\ ~q.missPanic => /\ WaitTimer \in q.inactive
                             /\ q.active \cup q.inactive = kq.active \cup kq.inactive
        BY <1>4, <2>1 DEF SameTimers
    <2>3. started /\ Alive /\ tick = "off" /\ ~Blocked(state[current])
        BY <1>1 DEF ThreadMode, IInv, OnlyCurrentRuns, Blocked
    <2>4. QED
        BY <1>1, <1>3, <1>5, <2>2, <2>3, InvHandBack
<1>7. MutexTypeOK'
    BY <1>1, <1>3, <1>5 DEF MutexTypeOK
<1>8. WaitersHaveOwner'
    <2>1. suspended' = suspended \ {t}
        BY <1>3 DEF HandBack
    <2>2. /\ owner'[m] = t /\ waiters'[m] = waiters[m] \ {t} /\ boosted'[m] = FALSE
          /\ \A n \in Mutexes \ {m} : /\ owner'[n] = owner[n]
                                      /\ waiters'[n] = waiters[n]
                                      /\ boosted'[n] = boosted[n]
        BY <1>1, <1>3 DEF MutexTypeOK
    <2>3. \A n \in Mutexes \ {m} : t \notin waiters[n]
        BY <1>1, <1>2 DEF WaitersHaveOwner
    <2>4. QED
        BY <1>1, <1>5, <2>1, <2>2, <2>3 DEF WaitersHaveOwner
<1>9. QED
    BY <1>6, <1>7, <1>8 DEF MutexInv

\* A scheduler step resumes no thread that waits for a mutex.
LEMMA SchedulerStepKeepsWaiters ==
    ASSUME SchedulerStep, NEW m \in Mutexes, waiters[m] \subseteq suspended
    PROVE  waiters[m] \subseteq suspended'
<1>1. CASE \E t \in suspended \ UNION {waiters[n] : n \in Mutexes} : WakeWaiter(t)
    BY <1>1 DEF WakeWaiter, HandBack
<1>2. CASE Boot \/ ThreadCall \/ TickHandler \/ Schedule \/ Stop
    <2>1. suspended \subseteq suspended'
        BY <1>2 DEF Boot, InitCfs, SpawnCfs, SpawnRt, StartScheduler, ThreadCall,
            Yieldyi, Msleepyi, BlockCurrentThread, SetRtThreadStartTime,
            MoveToWaitQueue, DequeueRunqToWaitq, DequeueKTimerqToWaitq, InsertWaitThread,
            TickHandler, SysTick, DispatchCfs, DispatchRt, DispatchWait, WakeSleeper,
            WakeDone, DispatchDone, Schedule, Stop, vars, waitVars
    <2>2. QED
        BY <2>1
<1>3. QED
    BY <1>1, <1>2 DEF SchedulerStep

LEMMA InvSchedulerStep ==
    ASSUME PendSVLowest = FALSE, MutexInv, SchedulerStep PROVE MutexInv'
<1>1. Next
    <2>1. suspended \subseteq Threads
        BY DEF MutexInv, IInv, TypeOK
    <2>2. QED
        BY <2>1 DEF SchedulerStep, Next
<1>2. IInv'
    BY <1>1, InvNext DEF MutexInv
<1>3. UNCHANGED mutexVars
    BY DEF SchedulerStep
<1>4. \A m \in Mutexes : waiters[m] \subseteq suspended'
    BY SchedulerStepKeepsWaiters DEF MutexInv, WaitersHaveOwner
<1>5. QED
    BY <1>2, <1>3, <1>4 DEF MutexInv, MutexTypeOK, WaitersHaveOwner, mutexVars

-----------------------------------------------------------------------------
(* The theorems.                                                           *)

LEMMA MutexInvInit == Init /\ MutexInit => MutexInv
<1> SUFFICES ASSUME Init, MutexInit PROVE MutexInv
    OBVIOUS
<1>1. IInv
    BY InvInit
<1>2. MutexTypeOK /\ WaitersHaveOwner
    BY DEF MutexInit, MutexTypeOK, WaitersHaveOwner
<1>3. QED
    BY <1>1, <1>2 DEF MutexInv

LEMMA MutexInvNext ==
    ASSUME PendSVLowest = FALSE, MutexInv, [MutexNext]_allVars PROVE MutexInv'
<1>1. CASE UNCHANGED allVars
    <2>1. UNCHANGED vars /\ UNCHANGED mutexVars
        BY <1>1 DEF allVars
    <2>2. IInv'
        BY <2>1, InvStutter DEF MutexInv
    <2>3. suspended' = suspended
        BY <2>1 DEF vars, waitVars
    <2>4. QED
        BY <2>1, <2>2, <2>3 DEF MutexInv, MutexTypeOK, WaitersHaveOwner, mutexVars
<1>2. CASE SchedulerStep
    BY <1>2, InvSchedulerStep
<1>3. ASSUME NEW m \in Mutexes, LockFree(m) \/ LockOwned(m) \/ Unlock(m)
      PROVE  MutexInv'
    BY <1>3, InvLockFree, InvLockOwned, InvUnlockLast, InvUnlockHandOff
<1>4. QED
    BY <1>1, <1>2, <1>3 DEF MutexNext

\* The scheduler's inductive invariant and the mutexes' own hold together
\* (sync.rs, sched.rs, ktimer.rs): no loan of a deadline, no return of one and
\* no hand-off of a mutex breaks what the scheduler relies on.
THEOREM MutexInvariance ==
    ASSUME PendSVLowest = FALSE PROVE MutexSpec => []MutexInv
<1>1. MutexInv /\ [MutexNext]_allVars => MutexInv'
    BY MutexInvNext
<1>2. QED
    BY <1>1, MutexInvInit, PTL DEF MutexSpec

\* A mutex with waiters has an owner, its waiters sleep and wait for it alone,
\* and a deadline is on loan only while somebody waits (sync.rs, unlock_guard).
THEOREM WaitersCorrect ==
    ASSUME PendSVLowest = FALSE PROVE MutexSpec => []WaitersHaveOwner
<1>1. MutexInv => WaitersHaveOwner
    BY DEF MutexInv
<1>2. QED
    BY <1>1, MutexInvariance, PTL

\* A step that is not the scheduler's is a mutex call: it runs outside the tick
\* handler, with no context switch pending.
LEMMA CallOrNext ==
    ASSUME MutexInv, MutexNext PROVE Next \/ ThreadMode
<1>1. suspended \subseteq Threads
    BY DEF MutexInv, IInv, TypeOK
<1>2. QED
    BY <1>1 DEF MutexNext, SchedulerStep, Next, LockFree, LockOwned, Unlock

\* With mutexes too, handle_sched_tick returns with nothing left expired.
THEOREM MutexTickServesAll ==
    ASSUME PendSVLowest = FALSE PROVE MutexSpec => NothingLeftExpired
<1> DEFINE A == tick = "dispatch" /\ tick' = "off" =>
                  /\ \A t \in waitTree : wakeAt[t] > kq.now
                  /\ \A tm \in kq.active \cup kq.inactive : kq.expireAt[tm] > kq.now
<1>1. MutexInv /\ [MutexNext]_allVars => [A]_vars
    <2> SUFFICES ASSUME MutexInv, [MutexNext]_allVars PROVE [A]_vars
        OBVIOUS
    <2>1. CASE UNCHANGED allVars
        BY <2>1 DEF allVars
    <2>2. CASE MutexNext
        BY <2>2, CallOrNext, ServedStep DEF MutexInv, ThreadMode
    <2>3. QED
        BY <2>1, <2>2
<1>2. QED
    BY <1>1, MutexInvariance, PTL DEF MutexSpec, NothingLeftExpired

\* With mutexes too, the SysTick interval jumps over no deadline, lent or not.
THEOREM MutexTickInTime ==
    ASSUME PendSVLowest = FALSE PROVE MutexSpec => TickNotLate
<1> DEFINE A == pendsv /\ ~pendsv' =>
                  \A tm \in kq.active \cup kq.inactive :
                      kq.now + reload' + 1 <= kq.expireAt[tm]
                          \/ kq.expireAt[tm] < kq.now + ReloadMin + 1
<1>1. MutexInv /\ [MutexNext]_allVars => [A]_vars
    <2> SUFFICES ASSUME MutexInv, [MutexNext]_allVars PROVE [A]_vars
        OBVIOUS
    <2>1. CASE UNCHANGED allVars
        BY <2>1 DEF allVars
    <2>2. CASE MutexNext
        BY <2>2, CallOrNext, InTimeStep DEF MutexInv, ThreadMode
    <2>3. QED
        BY <2>1, <2>2
<1>2. QED
    BY <1>1, MutexInvariance, PTL DEF MutexSpec, TickNotLate

\* With mutexes too, schedule runs the thread with the earliest deadline, a lent
\* one included, or with the least vruntime.
THEOREM MutexDispatchOrder ==
    ASSUME PendSVLowest = FALSE PROVE MutexSpec => DispatchOrder
<1> DEFINE A == pendsv /\ ~pendsv' /\ ~assertFailed' =>
                  /\ current' \in RtThreads =>
                        \A tm \in kq.active : kq.expireAt[current'] <= kq.expireAt[tm]
                  /\ current' \in CfsThreads =>
                        \A t \in runq' : vruntime'[current'] <= vruntime'[t]
<1>1. MutexInv /\ [MutexNext]_allVars => [A]_vars
    <2> SUFFICES ASSUME MutexInv, [MutexNext]_allVars PROVE [A]_vars
        OBVIOUS
    <2>1. CASE UNCHANGED allVars
        BY <2>1 DEF allVars
    <2>2. CASE MutexNext
        BY <2>2, CallOrNext, OrderStep DEF MutexInv, ThreadMode
    <2>3. QED
        BY <2>1, <2>2
<1>2. QED
    BY <1>1, MutexInvariance, PTL DEF MutexSpec, DispatchOrder

\* With mutexes too, every turn of handle_sched_tick brings it nearer to its
\* end, whatever deadlines were lent or written back before the tick.
THEOREM MutexTickProgress ==
    ASSUME PendSVLowest = FALSE PROVE MutexSpec => TickProgress
<1> DEFINE A == tick # "off" /\ Alive' /\ kq.now < Never => NearerToEnd
<1>1. MutexInv /\ [MutexNext]_allVars => [A]_vars
    <2> SUFFICES ASSUME MutexInv, [MutexNext]_allVars PROVE [A]_vars
        OBVIOUS
    <2>1. CASE UNCHANGED allVars
        BY <2>1 DEF allVars
    <2>2. CASE MutexNext
        BY <2>2, CallOrNext, ProgressStep DEF MutexInv, ThreadMode
    <2>3. QED
        BY <2>1, <2>2
<1>2. QED
    BY <1>1, MutexInvariance, PTL DEF MutexSpec, TickProgress

\* What a step may do to the owner and to the waiters of a mutex.
LEMMA HandOffStep ==
    ASSUME MutexInv, MutexNext, NEW m \in Mutexes
    PROVE  /\ owner'[m] # owner[m] /\ waiters[m] # {} =>
                 /\ owner'[m] \in waiters[m]
                 /\ \A w \in waiters[m] : deadlineAt[owner'[m]] <= deadlineAt[w]
           /\ \A w \in waiters[m] \ waiters'[m] : owner'[m] = w
<1>1. MutexTypeOK /\ WaitersHaveOwner
    BY DEF MutexInv
<1>2. CASE SchedulerStep
    BY <1>2 DEF SchedulerStep, mutexVars
<1>3. ASSUME NEW n \in Mutexes, LockFree(n) PROVE owner'[m] = owner[m] \/ waiters[m] = {}
    BY <1>1, <1>3 DEF LockFree, WaitersHaveOwner, MutexTypeOK
<1>4. ASSUME NEW n \in Mutexes, LockOwned(n)
      PROVE  owner'[m] = owner[m] /\ waiters[m] \subseteq waiters'[m]
    BY <1>1, <1>4 DEF LockOwned, MutexTypeOK
<1>5. ASSUME NEW n \in Mutexes, Unlock(n), n # m
      PROVE  owner'[m] = owner[m] /\ waiters'[m] = waiters[m]
    BY <1>1, <1>5 DEF Unlock, MutexTypeOK
<1>6. CASE Unlock(m)
    <2>1. CASE waiters[m] = {}
        BY <2>1
    <2>2. CASE waiters[m] # {}
        <3>1. /\ FirstWaiter(m) \in waiters[m]
              /\ \A w \in waiters[m] : deadlineAt[FirstWaiter(m)] <= deadlineAt[w]
            BY <1>1, <2>2, FirstWaiterEffect
        <3>2. owner'[m] = FirstWaiter(m) /\ waiters'[m] = waiters[m] \ {FirstWaiter(m)}
            BY <1>1, <1>6, <2>2 DEF Unlock, NextOwner, MutexTypeOK
        <3>3. QED
            BY <3>1, <3>2
    <2>3. QED
        BY <2>1, <2>2
<1>7. ASSUME NEW n \in Mutexes, LockFree(n) PROVE waiters' = waiters
    BY <1>7 DEF LockFree
<1>8. QED
    BY <1>2, <1>3, <1>4, <1>5, <1>6, <1>7 DEF MutexNext

\* unlock hands a mutex with waiters to the waiter with the earliest deadline,
\* and no waiter resumes except as the owner (sync.rs, unlock_guard).
THEOREM HandOffCorrect ==
    ASSUME PendSVLowest = FALSE PROVE MutexSpec => HandOffToEarliest
<1> DEFINE A == \A m \in Mutexes :
                  /\ owner'[m] # owner[m] /\ waiters[m] # {} =>
                        /\ owner'[m] \in waiters[m]
                        /\ \A w \in waiters[m] : deadlineAt[owner'[m]] <= deadlineAt[w]
                  /\ \A w \in waiters[m] \ waiters'[m] : owner'[m] = w
<1>1. MutexInv /\ [MutexNext]_allVars => [A]_allVars
    BY HandOffStep
<1>2. QED
    BY <1>1, MutexInvariance, PTL DEF MutexSpec, HandOffToEarliest

\* Only lock of an owned mutex adds a waiter, and that is the caller.
LEMMA OnlyLockOwned ==
    ASSUME MutexInv, MutexNext, NEW m \in Mutexes, NEW t \in waiters'[m] \ waiters[m]
    PROVE  LockOwned(m) /\ t = current
<1>1. MutexTypeOK
    BY DEF MutexInv
<1>2. CASE SchedulerStep
    BY <1>2 DEF SchedulerStep, mutexVars
<1>3. ASSUME NEW n \in Mutexes, LockFree(n) PROVE FALSE
    BY <1>3 DEF LockFree
<1>4. ASSUME NEW n \in Mutexes, Unlock(n) PROVE FALSE
    BY <1>1, <1>4 DEF Unlock, MutexTypeOK
<1>5. ASSUME NEW n \in Mutexes, LockOwned(n) PROVE LockOwned(m) /\ t = current
    BY <1>1, <1>5 DEF LockOwned, MutexTypeOK
<1>6. QED
    BY <1>2, <1>3, <1>4, <1>5 DEF MutexNext

\* boost_owner_deadline with an owner that has a timer.  The boost is lost only
\* if refresh_next_ktimer finds the owner's timer the first one due and begins
\* a new window; then the lent deadline, or the queued timer it was taken from,
\* is overdue too and has not moved.
LEMMA BoostLends ==
    ASSUME MutexTypeOK, NEW q \in KTimerQueues, WaitTimer \notin q.active,
           NEW m \in Mutexes, owner[m] \in Threads, NEW t \in Threads,
           deadlineAt'[t] \in Nat, BoostOwnerDeadline(q, m, t),
           ~({owner[m], t} \subseteq CfsThreads), ~kq'.missPanic
    PROVE  \/ kq'.expireAt[TimerOf(owner[m])] <= deadlineAt'[t]
           \/ /\ LoanOverdue(kq', TimerOf(owner[m]), deadlineAt'[t])
              /\ WindowBegins(kq', TimerOf(owner[m]))
<1> DEFINE tm    == TimerOf(owner[m])
           e     == EarliestSchedulerExpiry(q)
           d     == deadlineAt'[t]
           boost == IF d < e THEN d ELSE e
           own   == q.expireAt[tm]
           S     == (q.active \cup q.inactive) \ {WaitTimer}
<1>1. tm \in RtThreads \cup {CfsTimer} /\ tm \in Timers /\ tm # WaitTimer
    BY TimerOfType, TimersDistinct DEF Timers
<1>2. /\ q.expireAt \in [Timers -> Nat] /\ q.now \in Nat
      /\ q.active \in SUBSET Timers /\ q.inactive \in SUBSET Timers
    BY QueueFields
<1>3. e \in Nat /\ (S # {} => \E a \in S : e = q.expireAt[a])
    BY EarliestSchedulerExpiryEffect
<1>4. own \in Nat
    BY <1>1, <1>2
<1>5. owner[m] # Idle
    BY ThreadsDistinct
<1>6. \/ boost >= own /\ kq' = q
      \/ ~(boost >= own) /\ kq' = SetSchedulerExpireAt(q, tm, boost)
    BY <1>5 DEF BoostOwnerDeadline, SchedulerExpireAt, SetThreadExpireAt
<1> HIDE DEF tm, e, S
<1>7. d \in Nat /\ boost \in Nat /\ boost <= d /\ (boost = d \/ boost = e)
    BY <1>3
<1> HIDE DEF d, boost, own
<1>8. CASE boost >= own /\ kq' = q
    <2>1. own <= d
        BY <1>4, <1>7, <1>8
    <2>2. QED
        BY <1>8, <2>1 DEF own, tm, d
<1>9. CASE ~(boost >= own) /\ kq' = SetSchedulerExpireAt(q, tm, boost)
    <2> DEFINE r == SetExpireAt(q, tm, boost)
    <2>1. SameTimers(kq', q) /\ OnlyDueMoved(kq', r)
        BY <1>1, <1>7, <1>9, SetSchedulerExpireAtEffect
    <2>2. /\ r.active = q.active /\ r.now = q.now
          /\ r.expireAt = [q.expireAt EXCEPT ![tm] = boost]
        BY <1>1, <1>7, SetExpireAtEffect
    <2> HIDE DEF r
    <2>3. r.expireAt[tm] = boost /\ \A a \in Timers \ {tm} : r.expireAt[a] = q.expireAt[a]
        BY <1>1, <1>2, <2>2
    <2>4. kq'.now = q.now /\ kq'.active = q.active /\ kq'.inactive = q.inactive
        BY <2>1 DEF SameTimers
    <2>5. CASE kq'.expireAt[tm] = boost
        BY <1>7, <2>5 DEF d, tm
    <2>6. CASE kq'.expireAt[tm] # boost
        <3>1. /\ tm \in q.active /\ boost <= q.now
              /\ kq'.expireAt[tm] =
                     SatAdd(q.now, IF tm = CfsTimer THEN CfsPeriod ELSE Deadline[tm])
              /\ \A a \in Timers \ {tm} : kq'.expireAt[a] = q.expireAt[a]
            BY <1>1, <2>1, <2>2, <2>3, <2>6 DEF OnlyDueMoved
        <3>2. WindowBegins(kq', tm)
            BY <2>4, <3>1 DEF WindowBegins
        <3>3. CASE boost = d
            BY <2>4, <3>1, <3>2, <3>3 DEF LoanOverdue, d, tm
        <3>4. CASE boost = e
            <4>1. PICK a \in S : e = q.expireAt[a]
                BY <1>1, <1>3, <3>1 DEF S
            <4>2. a # tm
                BY <1>4, <1>7, <1>9, <3>4, <4>1 DEF own
            <4>3. a \in Timers \ {tm}
                BY <1>2, <4>2 DEF S
            <4>4. IsExpired(kq', a)
                BY <2>4, <3>1, <3>4, <4>1, <4>3 DEF IsExpired
            <4>5. a \in (kq'.active \cup kq'.inactive) \ {WaitTimer, tm}
                BY <2>4, <4>2 DEF S
            <4>6. LoanOverdue(kq', tm, d)
                BY <4>4, <4>5 DEF LoanOverdue
            <4>7. QED
                BY <3>2, <4>6 DEF tm, d
        <3>5. QED
            BY <1>7, <3>3, <3>4
    <2>7. QED
        BY <2>5, <2>6
<1>10. QED
    BY <1>6, <1>8, <1>9

\* A thread that blocks on a mutex lends the owner its deadline, and nothing in
\* the same critical section takes it back, except that an overdue loan turns
\* into a new window of the owner (sync.rs, boost_owner_deadline).
THEOREM InheritanceCorrect ==
    ASSUME PendSVLowest = FALSE PROVE MutexSpec => OwnerInheritsDeadline
<1> DEFINE A == \A m \in Mutexes, t \in Threads :
                  /\ t \in waiters'[m] \ waiters[m]
                  /\ ~kq'.missPanic
                  /\ owner[m] # Idle
                  /\ ~({owner[m], t} \subseteq CfsThreads)
                  => \/ kq'.expireAt[TimerOf(owner[m])] <= deadlineAt'[t]
                     \/ /\ LoanOverdue(kq', TimerOf(owner[m]), deadlineAt'[t])
                        /\ WindowBegins(kq', TimerOf(owner[m]))
<1>1. MutexInv /\ [MutexNext]_allVars => [A]_allVars
    <2> SUFFICES ASSUME MutexInv, MutexNext,
                        NEW m \in Mutexes, NEW t \in waiters'[m] \ waiters[m],
                        ~kq'.missPanic, owner[m] # Idle,
                        ~({owner[m], t} \subseteq CfsThreads)
                 PROVE  \/ kq'.expireAt[TimerOf(owner[m])] <= deadlineAt'[t]
                        \/ /\ LoanOverdue(kq', TimerOf(owner[m]), deadlineAt'[t])
                           /\ WindowBegins(kq', TimerOf(owner[m]))
        OBVIOUS
    <2>1. LockOwned(m) /\ t = current
        BY OnlyLockOwned
    <2>2. owner[m] \in Threads /\ MutexTypeOK
        BY <2>1 DEF LockOwned, MutexInv, MutexTypeOK
    <2>3. t \in Threads /\ deadlineAt'[t] \in Nat
        BY <2>1, LockOwnedBoost
    <2>4. PICK q \in KTimerQueues : WaitTimer \notin q.active /\ BoostOwnerDeadline(q, m, t)
        BY <2>1, LockOwnedBoost
    <2>5. QED
        BY <2>2, <2>3, <2>4, BoostLends
<1>2. QED
    BY <1>1, MutexInvariance, PTL DEF MutexSpec, OwnerInheritsDeadline

-----------------------------------------------------------------------------
(* The sum of the priorities.                                              *)

\* The element the fold takes first
Pick(s) == CHOOSE x \in s : TRUE

\* g sums up all sets of at most n threads in the order of Pick.
SumsUpTo(n, g) ==
    \A s \in SUBSET CfsThreads : Cardinality(s) <= n =>
        g[s] = IF s = {} THEN 0 ELSE Priority[Pick(s)] + g[s \ {Pick(s)}]

SumExists(n) == \E g \in [SUBSET CfsThreads -> Nat] : SumsUpTo(n, g)

-----------------------------------------------------------------------------
(* The fold.                                                               *)

LEMMA SubsetCard ==
    ASSUME NEW s \in SUBSET CfsThreads
    PROVE  /\ Cardinality(s) \in Nat
           /\ s = {} <=> Cardinality(s) = 0
           /\ \A x \in s : Cardinality(s \ {x}) = Cardinality(s) - 1
           /\ Cardinality(s) <= Cardinality(CfsThreads)
<1>1. IsFiniteSet(s) /\ Cardinality(s) <= Cardinality(CfsThreads)
    BY FiniteAssumption, FS_Subset
<1>2. Cardinality(s) \in Nat
    BY <1>1, FS_CardinalityType
<1>3. s = {} <=> Cardinality(s) = 0
    BY <1>1, FS_EmptySet
<1>4. \A x \in s : Cardinality(s \ {x}) = Cardinality(s) - 1
    BY <1>1, FS_RemoveElement
<1>5. QED
    BY <1>1, <1>2, <1>3, <1>4

LEMMA PickEffect ==
    ASSUME NEW s \in SUBSET CfsThreads, s # {}
    PROVE  /\ Pick(s) \in s
           /\ Priority[Pick(s)] \in Nat
           /\ s \ {Pick(s)} \in SUBSET CfsThreads
           /\ Cardinality(s \ {Pick(s)}) = Cardinality(s) - 1
<1>1. Pick(s) \in s
    BY DEF Pick
<1>2. QED
    BY <1>1, PriorityAssumption, SubsetCard

LEMMA SumExistsZero == SumExists(0)
<1> DEFINE g == [s \in SUBSET CfsThreads |-> 0]
<1>1. g \in [SUBSET CfsThreads -> Nat]
    OBVIOUS
<1>2. SumsUpTo(0, g)
    BY SubsetCard DEF SumsUpTo
<1>3. QED
    BY <1>1, <1>2 DEF SumExists

LEMMA SumExistsStep ==
    ASSUME NEW n \in Nat, SumExists(n) PROVE SumExists(n + 1)
<1>1. PICK g \in [SUBSET CfsThreads -> Nat] : SumsUpTo(n, g)
    BY DEF SumExists
<1> DEFINE More(s) == IF s # {} /\ Cardinality(s) = n + 1
                        THEN Priority[Pick(s)] + g[s \ {Pick(s)}] ELSE g[s]
           h == [s \in SUBSET CfsThreads |-> More(s)]
<1>2. h \in [SUBSET CfsThreads -> Nat]
    <2>1. ASSUME NEW s \in SUBSET CfsThreads PROVE More(s) \in Nat
        <3>1. CASE s = {}
            BY <3>1
        <3>2. CASE s # {}
            <4>1. Priority[Pick(s)] \in Nat /\ g[s \ {Pick(s)}] \in Nat /\ g[s] \in Nat
                BY <3>2, PickEffect
            <4>2. QED
                BY <4>1
        <3>3. QED
            BY <3>1, <3>2
    <2>2. QED
        BY <2>1
<1>3. ASSUME NEW s \in SUBSET CfsThreads, Cardinality(s) <= n + 1
      PROVE  h[s] = IF s = {} THEN 0 ELSE Priority[Pick(s)] + h[s \ {Pick(s)}]
    <2>1. Cardinality(s) \in Nat
        BY SubsetCard
    <2>2. CASE s = {}
        <3>1. Cardinality(s) = 0 /\ h[s] = g[s]
            BY <2>2, SubsetCard
        <3>2. QED
            BY <1>1, <2>2, <3>1 DEF SumsUpTo
    <2>3. CASE s # {}
        <3> DEFINE r == s \ {Pick(s)}
        <3>1. r \in SUBSET CfsThreads /\ Cardinality(r) = Cardinality(s) - 1
            BY <2>3, PickEffect
        <3>2. Cardinality(r) # n + 1
            BY <1>3, <2>1, <3>1
        <3>3. h[r] = g[r]
            BY <3>1, <3>2
        <3>4. CASE Cardinality(s) = n + 1
            BY <2>3, <3>3, <3>4
        <3>5. CASE Cardinality(s) <= n
            <4>1. h[s] = g[s]
                BY <2>1, <3>5
            <4>2. QED
                BY <1>1, <2>3, <3>3, <3>5, <4>1 DEF SumsUpTo
        <3>6. QED
            BY <1>3, <2>1, <3>4, <3>5
    <2>4. QED
        BY <2>2, <2>3
<1>4. SumsUpTo(n + 1, h)
    BY <1>3 DEF SumsUpTo
<1>5. QED
    BY <1>2, <1>4 DEF SumExists

\* There is a function that sums up every set of CFS threads.
LEMMA SumForAll == SumExists(Cardinality(CfsThreads))
<1>1. {n \in Nat : ~SumExists(n)} = {}
    <2> DEFINE K == {n \in Nat : ~SumExists(n)}
    <2>1. ASSUME K # {} PROVE FALSE
        <3>1. PICK m \in K : \A k \in K : m <= k
            BY <2>1, NatMin
        <3>2. m - 1 \in Nat /\ SumExists(m - 1)
            BY <3>1, SumExistsZero
        <3>3. SumExists((m - 1) + 1)
            BY <3>2, SumExistsStep
        <3>4. QED
            BY <3>1, <3>3
    <2>2. QED
        BY <2>1
<1>2. Cardinality(CfsThreads) \in Nat
    BY SubsetCard
<1>3. QED
    BY <1>1, <1>2

\* The function of MapThenSumSet over S agrees with any such function.
LEMMA PriorityOfIs ==
    ASSUME NEW g \in [SUBSET CfsThreads -> Nat], SumsUpTo(Cardinality(CfsThreads), g),
           NEW S \in SUBSET CfsThreads
    PROVE  PriorityOf(S) = g[S]
<1> DEFINE Fold(h) == [s \in SUBSET S |->
                          IF s = {} THEN 0 ELSE Priority[Pick(s)] + h[s \ {Pick(s)}]]
           f == CHOOSE h : h = Fold(h)
<1>1. PriorityOf(S) = f[S]
    BY DEF PriorityOf, MapThenSumSet, MapThenFoldSet, Pick
<1>2. \A s \in SUBSET CfsThreads :
          g[s] = IF s = {} THEN 0 ELSE Priority[Pick(s)] + g[s \ {Pick(s)}]
    BY SubsetCard DEF SumsUpTo
<1>3. f = Fold(f)
    <2> DEFINE h == [s \in SUBSET S |-> g[s]]
    <2>1. ASSUME NEW s \in SUBSET S
          PROVE  h[s] = IF s = {} THEN 0 ELSE Priority[Pick(s)] + h[s \ {Pick(s)}]
        BY <1>2
    <2>2. h = Fold(h)
        BY <2>1
    <2> HIDE DEF Fold, h
    <2>3. QED
        BY <2>2
<1> HIDE DEF f
<1>4. \A s \in SUBSET S :
          f[s] = IF s = {} THEN 0 ELSE Priority[Pick(s)] + f[s \ {Pick(s)}]
    BY <1>3
<1> HIDE DEF Fold
<1> DEFINE B == {s \in SUBSET S : f[s] # g[s]}
           K == {Cardinality(s) : s \in B}
<1>5. B = {}
    <2>1. SUFFICES ASSUME B # {} PROVE FALSE
        OBVIOUS
    <2>2. K \in SUBSET Nat /\ K # {}
        BY <2>1, SubsetCard
    <2>3. PICK k \in K : \A n \in K : k <= n
        BY <2>2, NatMin
    <2>4. PICK s \in B : Cardinality(s) = k
        OBVIOUS
    <2>5. s # {}
        BY <1>2, <1>4
    <2> DEFINE r == s \ {Pick(s)}
    <2>6. Cardinality(r) = k - 1 /\ k \in Nat
        BY <2>2, <2>4, <2>5, PickEffect
    <2>7. r \in SUBSET S /\ r \notin B
        <3>1. ASSUME r \in B PROVE FALSE
            <4>1. Cardinality(r) \in K
                BY <3>1
            <4>2. k <= k - 1
                BY <2>3, <2>6, <4>1
            <4>3. QED
                BY <2>6, <4>2
        <3>2. QED
            BY <3>1
    <2>8. QED
        BY <1>2, <1>4, <2>5, <2>7
<1>6. QED
    BY <1>1, <1>5

-----------------------------------------------------------------------------
(* The sum does not depend on the order.                                   *)

LEMMA PriorityOfUnfold ==
    ASSUME NEW S \in SUBSET CfsThreads
    PROVE  /\ PriorityOf(S) \in Nat
           /\ S = {} => PriorityOf(S) = 0
           /\ S # {} => PriorityOf(S) = Priority[Pick(S)] + PriorityOf(S \ {Pick(S)})
<1>1. PICK g \in [SUBSET CfsThreads -> Nat] : SumsUpTo(Cardinality(CfsThreads), g)
    BY SumForAll DEF SumExists
<1>2. PriorityOf(S) = g[S] /\ g[S] \in Nat
    BY <1>1, PriorityOfIs
<1>3. PriorityOf(S \ {Pick(S)}) = g[S \ {Pick(S)}]
    BY <1>1, PriorityOfIs
<1>4. g[S] = IF S = {} THEN 0 ELSE Priority[Pick(S)] + g[S \ {Pick(S)}]
    BY <1>1, SubsetCard DEF SumsUpTo
<1>5. QED
    BY <1>2, <1>3, <1>4

\* Any element can be taken out of the sum first.
Separates(S, x) == PriorityOf(S) = Priority[x] + PriorityOf(S \ {x})

LEMMA SumRemove ==
    ASSUME NEW S \in SUBSET CfsThreads, NEW x \in S
    PROVE  Separates(S, x)
<1> DEFINE B == {s \in SUBSET CfsThreads : \E y \in s : ~Separates(s, y)}
           K == {Cardinality(s) : s \in B}
<1>1. ASSUME B # {} PROVE FALSE
    <2>1. K \in SUBSET Nat /\ K # {}
        BY <1>1, SubsetCard
    <2>2. PICK k \in K : \A n \in K : k <= n
        BY <2>1, NatMin
    <2>3. PICK s \in B : Cardinality(s) = k
        OBVIOUS
    <2>4. PICK z \in s : ~Separates(s, z)
        OBVIOUS
    <2>5. ASSUME NEW y \in s PROVE s \ {y} \in SUBSET CfsThreads /\ s \ {y} \notin B
        <3>1. Cardinality(s \ {y}) = k - 1 /\ k \in Nat
            BY <2>1, <2>3, SubsetCard
        <3>2. ASSUME s \ {y} \in B PROVE FALSE
            <4>1. Cardinality(s \ {y}) \in K
                BY <3>2
            <4>2. k <= k - 1
                BY <2>2, <3>1, <4>1
            <4>3. QED
                BY <3>1, <4>2
        <3>3. QED
            BY <3>2
    <2> DEFINE p == Pick(s)
    <2>6. p \in s /\ Separates(s, p)
        BY PickEffect, PriorityOfUnfold DEF Separates
    <2>7. p # z
        BY <2>4, <2>6
    <2>8. Separates(s \ {p}, z)
        BY <2>5, <2>6, <2>7
    <2>9. Separates(s \ {z}, p)
        BY <2>5, <2>6, <2>7
    <2>10. (s \ {p}) \ {z} = (s \ {z}) \ {p}
        OBVIOUS
    <2>11. /\ Priority[p] \in Nat /\ Priority[z] \in Nat
           /\ PriorityOf((s \ {p}) \ {z}) \in Nat
        BY <2>6, PriorityAssumption, PriorityOfUnfold
    <2> HIDE DEF p
    <2>12. Separates(s, z)
        BY <2>6, <2>8, <2>9, <2>10, <2>11 DEF Separates
    <2>13. QED
        BY <2>4, <2>12
<1>2. QED
    BY <1>1

-----------------------------------------------------------------------------
(* What a step may do to priority_sum and to the runnable CFS threads.     *)

LEMMA SumKept ==
    ASSUME PrioritySumExact, prioritySum' = prioritySum, Runnable' = Runnable
    PROVE  PrioritySumExact'
    BY DEF PrioritySumExact

\* enqueue_thread, enqueue_runq_from_waitq
LEMMA SumJoins ==
    ASSUME PrioritySumExact, NEW t \in CfsThreads \ Runnable,
           prioritySum' = prioritySum + Priority[t], Runnable' = Runnable \cup {t}
    PROVE  PrioritySumExact'
<1>1. Runnable' \in SUBSET CfsThreads /\ Runnable \in SUBSET CfsThreads
    BY DEF Runnable
<1>2. Separates(Runnable', t)
    BY <1>1, SumRemove
<1>3. Runnable' \ {t} = Runnable
    OBVIOUS
<1>4. PriorityOf(Runnable) \in Nat /\ Priority[t] \in Nat
    BY <1>1, PriorityOfUnfold, PriorityAssumption
<1>5. PriorityOf(Runnable') = Priority[t] + PriorityOf(Runnable)
    BY <1>2, <1>3 DEF Separates
<1>6. QED
    BY <1>4, <1>5 DEF PrioritySumExact

\* dequeue_runq_to_waitq: the saturating subtraction never saturates.
LEMMA SumLeaves ==
    ASSUME PrioritySumExact, NEW t \in Runnable,
           prioritySum' = SatSub(prioritySum, Priority[t]), Runnable' = Runnable \ {t}
    PROVE  PrioritySumExact'
<1>1. Runnable' \in SUBSET CfsThreads /\ Runnable \in SUBSET CfsThreads
    BY DEF Runnable
<1>2. Separates(Runnable, t)
    BY <1>1, SumRemove
<1>3. PriorityOf(Runnable') \in Nat /\ Priority[t] \in Nat
    BY <1>1, PriorityOfUnfold, PriorityAssumption
<1>4. PriorityOf(Runnable) = Priority[t] + PriorityOf(Runnable')
    BY <1>2 DEF Separates
<1>5. QED
    BY <1>3, <1>4 DEF PrioritySumExact, SatSub

-----------------------------------------------------------------------------
(* The steps.                                                              *)

\* A call that blocks the running thread, a CFS thread or not.
LEMMA SumBlocked ==
    ASSUME IInv, PrioritySumExact, ThreadMode, current \in Threads,
           NEW wake, InsertWaitThread(current, wake),
           prioritySum' = IF current \in CfsThreads
                            THEN SatSub(prioritySum, Priority[current])
                            ELSE prioritySum
    PROVE  PrioritySumExact'
<1>1. state[current] = "Running" /\ state \in [Threads \cup {Idle} -> ThreadStates]
    BY DEF IInv, TypeOK, OnlyCurrentRuns, ThreadMode
<1>2. PICK b \in {"Waiting", "Suspended"} : state' = [state EXCEPT ![current] = b]
    BY DEF InsertWaitThread
<1>3. Runnable' = Runnable \ {current}
    BY <1>1, <1>2 DEF Runnable, Threads
<1>4. CASE current \in CfsThreads
    <2>1. current \in Runnable
        BY <1>1, <1>4 DEF Runnable
    <2>2. QED
        BY <1>3, <1>4, <2>1, SumLeaves
<1>5. CASE current \notin CfsThreads
    <2>1. Runnable' = Runnable
        BY <1>3, <1>5 DEF Runnable
    <2>2. QED
        BY <1>5, <2>1, SumKept
<1>6. QED
    BY <1>4, <1>5

\* A thread that was blocked or not spawned becomes Ready.
LEMMA SumReady ==
    ASSUME IInv, PrioritySumExact, NEW t \in Threads,
           state[t] \in {"Unspawned", "Waiting", "Suspended"},
           state' = [state EXCEPT ![t] = "Ready"],
           prioritySum' = IF t \in CfsThreads THEN prioritySum + Priority[t]
                                              ELSE prioritySum
    PROVE  PrioritySumExact'
<1>1. state \in [Threads \cup {Idle} -> ThreadStates]
    BY DEF IInv, TypeOK
<1>2. CASE t \in CfsThreads
    <2>1. t \in CfsThreads \ Runnable /\ Runnable' = Runnable \cup {t}
        BY <1>1, <1>2 DEF Runnable, Threads
    <2>2. QED
        BY <1>2, <2>1, SumJoins
<1>3. CASE t \notin CfsThreads
    <2>1. Runnable' = Runnable
        BY <1>1, <1>3 DEF Runnable, Threads
    <2>2. QED
        BY <1>3, <2>1, SumKept
<1>4. QED
    BY <1>2, <1>3

LEMMA SumHandBack ==
    ASSUME IInv, PrioritySumExact, NEW q, NEW t \in suspended, HandBack(q, t)
    PROVE  PrioritySumExact'
<1>1. t \in Threads /\ state[t] = "Suspended"
    BY DEF IInv, TypeOK, PlacementConsistent
<1>2. /\ state' = [state EXCEPT ![t] = "Ready"]
      /\ prioritySum' = IF t \in CfsThreads THEN prioritySum + Priority[t]
                                            ELSE prioritySum
    BY DEF HandBack, EnqueueRunqFromWaitq, queueVars
<1>3. QED
    BY <1>1, <1>2, SumReady

LEMMA SumBoot ==
    ASSUME IInv, PrioritySumExact, Boot PROVE PrioritySumExact'
<1>1. CASE InitCfs
    <2>1. runq = {} /\ current = Idle
        BY <1>1 DEF InitCfs, Alive, IInv
    <2>2. Runnable = {} /\ Runnable' = {}
        BY <1>1, <2>1, ThreadsDistinct
        DEF InitCfs, Runnable, IInv, PlacementConsistent, OnlyCurrentRuns, Threads
    <2>3. PriorityOf({}) = 0
        BY PriorityOfUnfold
    <2>4. QED
        BY <1>1, <2>2, <2>3 DEF InitCfs, PrioritySumExact
<1>2. ASSUME NEW t \in CfsThreads, SpawnCfs(t) PROVE PrioritySumExact'
    BY <1>2, SumReady DEF SpawnCfs, Threads
<1>3. ASSUME NEW t \in RtThreads, SpawnRt(t) PROVE PrioritySumExact'
    BY <1>3, SumReady, ThreadsDistinct DEF SpawnRt, Threads, queueVars
<1>4. CASE StartScheduler
    <2>1. Runnable' = Runnable /\ prioritySum' = prioritySum
        BY <1>4, ThreadsDistinct
        DEF StartScheduler, Runnable, Threads, IInv, TypeOK, queueVars
    <2>2. QED
        BY <2>1, SumKept
<1>5. QED
    BY <1>1, <1>2, <1>3, <1>4 DEF Boot

LEMMA SumThreadCall ==
    ASSUME IInv, PrioritySumExact, ThreadCall PROVE PrioritySumExact'
<1>1. ASSUME ThreadMode, current # Idle, NEW q, NEW wake, MoveToWaitQueue(q, wake)
      PROVE  PrioritySumExact'
    <2>1. current \in Threads
        BY <1>1 DEF IInv, TypeOK
    <2>2. /\ InsertWaitThread(current, wake)
          /\ prioritySum' = IF current \in CfsThreads
                              THEN SatSub(prioritySum, Priority[current])
                              ELSE prioritySum
        BY <1>1 DEF MoveToWaitQueue, DequeueRunqToWaitq, DequeueKTimerqToWaitq
    <2>3. QED
        BY <1>1, <2>1, <2>2, SumBlocked
<1>2. ASSUME NEW ticks \in SleepTicks, Msleepyi(ticks) PROVE PrioritySumExact'
    BY <1>1, <1>2 DEF Msleepyi
<1>3. CASE BlockCurrentThread
    BY <1>1, <1>3 DEF BlockCurrentThread
<1>4. ASSUME Yieldyi \/ \E ticks \in StartTimes : SetRtThreadStartTime(ticks)
      PROVE  PrioritySumExact'
    BY <1>4 DEF Yieldyi, SetRtThreadStartTime, queueVars, PrioritySumExact, Runnable
<1>5. QED
    BY <1>2, <1>3, <1>4 DEF ThreadCall

LEMMA SumTickHandler ==
    ASSUME IInv, PrioritySumExact, TickHandler PROVE PrioritySumExact'
<1>1. ASSUME NEW t \in Threads, WakeSleeper(t) PROVE PrioritySumExact'
    <2>1. state[t] = "Waiting"
        BY <1>1 DEF WakeSleeper, IInv, PlacementConsistent
    <2>2. /\ state' = [state EXCEPT ![t] = "Ready"]
          /\ prioritySum' = IF t \in CfsThreads THEN prioritySum + Priority[t]
                                                ELSE prioritySum
        BY <1>1 DEF WakeSleeper, EnqueueRunqFromWaitq, queueVars
    <2>3. QED
        BY <2>1, <2>2, SumReady
<1>2. CASE \/ SysTick \/ DispatchCfs \/ DispatchWait \/ WakeDone \/ DispatchDone
           \/ \E t \in RtThreads : DispatchRt(t)
    BY <1>2 DEF SysTick, DispatchCfs, DispatchWait, WakeDone, DispatchDone,
                DispatchRt, queueVars, PrioritySumExact, Runnable
<1>3. QED
    BY <1>1, <1>2 DEF TickHandler

\* The thread that loses the core and is not blocked stays runnable, and the
\* one that gets it already was.
LEMMA SumSchedule ==
    ASSUME IInv, PrioritySumExact, Schedule PROVE PrioritySumExact'
<1>1. /\ state \in [Threads \cup {Idle} -> ThreadStates]
      /\ current \in Threads \cup {Idle} /\ runq \in SUBSET CfsThreads
      /\ Idle \notin CfsThreads
      /\ state[current] \in {"Running", "Waiting", "Suspended"}
      /\ \A t \in runq : state[t] = "Ready"
    BY ThreadsDistinct
    DEF IInv, TypeOK, Schedule, OnlyCurrentRuns, PlacementConsistent, Threads, ThreadStates
<1>2. ASSUME NEW t \in Threads \cup {Idle}, NEW rest, SwitchTo(t, rest),
             t \in CfsThreads => t \in runq
      PROVE  Runnable' = Runnable
    <2>1. state' = [[state EXCEPT ![current] = IF Blocked(@) THEN @ ELSE "Ready"]
                        EXCEPT ![t] = "Running"]
        BY <1>2 DEF SwitchTo
    <2>2. ASSUME NEW u \in CfsThreads
          PROVE  state'[u] \in {"Ready", "Running"} <=> state[u] \in {"Ready", "Running"}
        BY <1>1, <1>2, <2>1 DEF Blocked, Threads
    <2>3. QED
        BY <2>2 DEF Runnable
<1>3. ASSUME ScheduleIdle PROVE Runnable' = Runnable
    BY <1>1, <1>2, <1>3 DEF ScheduleIdle
<1>4. ASSUME ScheduleRt PROVE Runnable' = Runnable
    BY <1>2, <1>4, ThreadsDistinct DEF ScheduleRt, Threads
<1>5. ASSUME ScheduleCfs PROVE Runnable' = Runnable
    <2> DEFINE t == Leftmost(runq, ChargedVruntime, ThreadAddr)
    <2>1. t \in runq
        <3>1. ChargedVruntime \in [CfsThreads -> Nat]
            BY ChargedVruntimeType DEF IInv, OnlyCurrentRuns
        <3>2. QED
            BY <1>1, <1>5, <3>1, LeftmostCfs DEF ScheduleCfs
    <2>2. state' = state \/ SwitchTo(t, runq \ {t})
        BY <1>5 DEF ScheduleCfs
    <2> HIDE DEF t
    <2>3. QED
        BY <1>1, <1>2, <2>1, <2>2 DEF Runnable, Threads
<1>6. Runnable' = Runnable /\ prioritySum' = prioritySum
    BY <1>3, <1>4, <1>5 DEF Schedule
<1>7. QED
    BY <1>6, SumKept

-----------------------------------------------------------------------------
(* The theorems.                                                           *)

LEMMA SumInit == Init => PrioritySumExact
<1> SUFFICES ASSUME Init PROVE PrioritySumExact
    OBVIOUS
<1>1. Runnable = {} /\ prioritySum = 0
    BY DEF Init, Runnable, Threads
<1>2. PriorityOf({}) = 0
    BY PriorityOfUnfold
<1>3. QED
    BY <1>1, <1>2 DEF PrioritySumExact

LEMMA SumStutter ==
    ASSUME PrioritySumExact, UNCHANGED vars PROVE PrioritySumExact'
    BY DEF vars, queueVars, PrioritySumExact, Runnable

LEMMA SumNext ==
    ASSUME IInv, PrioritySumExact, [Next]_vars PROVE PrioritySumExact'
<1>1. CASE UNCHANGED vars
    BY <1>1, SumStutter
<1>2. CASE Stop
    BY <1>2, SumStutter DEF Stop
<1>3. ASSUME NEW t \in Threads, WakeWaiter(t) PROVE PrioritySumExact'
    BY <1>3, SumHandBack DEF WakeWaiter
<1>4. QED
    BY <1>1, <1>2, <1>3, SumBoot, SumThreadCall, SumTickHandler, SumSchedule DEF Next

\* priority_sum, the divisor of every vruntime charge, is the sum of the
\* priorities of the CFS threads that are not blocked, whatever their number
\* and their priorities (runq.rs, sched.rs).
THEOREM PrioritySumCorrect ==
    ASSUME PendSVLowest = FALSE PROVE Spec => []PrioritySumExact
<1>1. IInv /\ PrioritySumExact /\ [Next]_vars => PrioritySumExact'
    BY SumNext
<1>2. QED
    BY <1>1, SumInit, Invariance, PTL DEF Spec

LEMMA SumLockOwned ==
    ASSUME IInv, PrioritySumExact, NEW m \in Mutexes, LockOwned(m)
    PROVE  PrioritySumExact'
<1>1. current \in Threads
    BY DEF LockOwned, IInv, TypeOK
<1>2. QED
    BY <1>1, SumBlocked DEF LockOwned

LEMMA SumUnlock ==
    ASSUME MutexInv, PrioritySumExact, NEW m \in Mutexes, Unlock(m)
    PROVE  PrioritySumExact'
<1>1. CASE waiters[m] = {}
    BY <1>1 DEF Unlock, queueVars, PrioritySumExact, Runnable
<1>2. CASE waiters[m] # {}
    <2>1. FirstWaiter(m) \in suspended
        BY <1>2, FirstWaiterEffect DEF MutexInv, WaitersHaveOwner
    <2>2. QED
        BY <1>2, <2>1, SumHandBack DEF Unlock, MutexInv
<1>3. QED
    BY <1>1, <1>2

LEMMA SumMutexNext ==
    ASSUME MutexInv, PrioritySumExact, [MutexNext]_allVars PROVE PrioritySumExact'
<1>1. IInv /\ suspended \in SUBSET Threads
    BY DEF MutexInv, IInv, TypeOK
<1>2. CASE UNCHANGED allVars
    BY <1>2, SumStutter DEF allVars
<1>3. CASE SchedulerStep
    <2>1. Next
        BY <1>1, <1>3 DEF SchedulerStep, Next
    <2>2. QED
        BY <1>1, <2>1, SumNext
<1>4. ASSUME NEW m \in Mutexes, LockFree(m) PROVE PrioritySumExact'
    BY <1>4, SumStutter DEF LockFree
<1>5. QED
    BY <1>1, <1>2, <1>3, <1>4, SumLockOwned, SumUnlock DEF MutexNext

\* With mutexes too: a thread that blocks on one leaves the sum, and the one
\* that unlock wakes comes back to it (sync.rs, runq.rs).
THEOREM MutexPrioritySum ==
    ASSUME PendSVLowest = FALSE PROVE MutexSpec => []PrioritySumExact
<1>1. MutexInv /\ PrioritySumExact /\ [MutexNext]_allVars => PrioritySumExact'
    BY SumMutexNext
<1>2. QED
    BY <1>1, SumInit, MutexInvariance, PTL DEF MutexSpec

=============================================================================
