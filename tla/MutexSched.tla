---------------------------- MODULE MutexSched ----------------------------
(***************************************************************************)
(* The mutexes of src/sync.rs over the scheduler.  A thread that waits for *)
(* a mutex lends its deadline to the owner: lock and unlock write the      *)
(* expiration of the owner's kernel timer, so a mutex means something only *)
(* together with RtSched.                                                  *)
(*                                                                         *)
(* The mutex calls are critical sections of the running thread.  Threads   *)
(* still yield, sleep and block on other objects while they own mutexes.   *)
(***************************************************************************)
EXTENDS RtSched

CONSTANTS
    Mutexes,        \* the mutexes
    NoOwner         \* owner token 0

ASSUME NoOwnerAssumption == NoOwner \notin Threads \cup {Idle}

VARIABLES
    owner,          \* MutexState.owner
    waiters,        \* MutexState.waiters, a tree by deadline_at and address
    boosted,        \* MutexState.owner_boosted
    original,       \* MutexState.owner_original_deadline_at
    deadlineAt      \* SyncEntity.deadline_at of each thread

mutexVars == <<owner, waiters, boosted, original, deadlineAt>>
allVars   == <<vars, mutexVars>>

MutexInit ==
    /\ owner = [m \in Mutexes |-> NoOwner]
    /\ waiters = [m \in Mutexes |-> {}]
    /\ boosted = [m \in Mutexes |-> FALSE]
    /\ original = [m \in Mutexes |-> 0]
    /\ deadlineAt = [t \in Threads |-> 0]

-----------------------------------------------------------------------------

\* thread_scheduler_expire_at: the idle thread has no timer.
SchedulerExpireAt(q, t) == IF t = Idle THEN Never ELSE q.expireAt[TimerOf(t)]

\* set_thread_scheduler_expire_at, of a thread
SetThreadExpireAt(q, t, at) ==
    IF t = Idle THEN q ELSE SetSchedulerExpireAt(q, TimerOf(t), at)

\* Mutant: only the first waiter lends its deadline.
BoostOwnerDeadlineOnce(q, m, t) ==
    LET e     == EarliestSchedulerExpiry(q)
        boost == IF deadlineAt'[t] < e THEN deadlineAt'[t] ELSE e
        own   == SchedulerExpireAt(q, owner[m])
    IN  IF {owner[m], t} \subseteq CfsThreads \/ boost >= own \/ boosted[m]
          THEN /\ kq' = q
               /\ UNCHANGED <<boosted, original>>
          ELSE /\ kq' = SetThreadExpireAt(q, owner[m], boost)
               /\ boosted' = [boosted EXCEPT ![m] = TRUE]
               /\ original' = [original EXCEPT ![m] = own]

\* boost_owner_deadline lends the owner the earliest of the waiter's deadline
\* and of the queued timers, unless it is no gain or both threads are CFS.
BoostOwnerDeadline(q, m, t) ==
    LET e     == EarliestSchedulerExpiry(q)
        boost == IF deadlineAt'[t] < e THEN deadlineAt'[t] ELSE e
        own   == SchedulerExpireAt(q, owner[m])
    IN  IF {owner[m], t} \subseteq CfsThreads \/ boost >= own
          THEN /\ kq' = q
               /\ UNCHANGED <<boosted, original>>
          ELSE /\ kq' = SetThreadExpireAt(q, owner[m], boost)
               /\ boosted' = [boosted EXCEPT ![m] = TRUE]
               /\ original' = [original EXCEPT ![m] = IF boosted[m] THEN @ ELSE own]

\* restore_owner_deadline: what it makes of the timer queue
QueueRestored(m) ==
    IF boosted[m] THEN SetThreadExpireAt(kq, owner[m], original[m]) ELSE kq

\* Mutant: the mutex stays marked as one whose owner is boosted.
RestoreOwnerDeadlineKept(m) == UNCHANGED <<boosted, original>>

\* restore_owner_deadline: what it makes of the mutex
RestoreOwnerDeadline(m) ==
    /\ boosted' = [boosted EXCEPT ![m] = FALSE]
    /\ original' = [original EXCEPT ![m] = IF boosted[m] THEN 0 ELSE @]

\* Mutant: the waiters are a list in the order of their addresses.
FirstWaiterByAddress(m) ==
    Leftmost(waiters[m], [t \in Threads |-> 0], ThreadAddr)

\* pop_waiting_thread takes the waiter with the earliest deadline.
FirstWaiter(m) == Leftmost(waiters[m], deadlineAt, ThreadAddr)

\* The first waiter owns the mutex before it runs.
NextOwner(m) == IF waiters[m] = {} THEN NoOwner ELSE FirstWaiter(m)

\* try_lock, and lock, of a free mutex.  On a mutex the caller owns both
\* fail, and on one that another thread owns try_lock fails: no step.
LockFree(m) ==
    /\ ThreadMode /\ Bounded
    /\ owner[m] = NoOwner
    /\ owner' = [owner EXCEPT ![m] = current]
    /\ UNCHANGED <<vars, waiters, boosted, original, deadlineAt>>

\* lock, of a mutex another thread owns: block_current_thread_on, which
\* notes the caller's deadline before yield_ktimer moves it, then the boost.
\* The idle thread cannot block and gets an error.
LockOwned(m) ==
    /\ ThreadMode /\ Bounded
    /\ current # Idle
    /\ owner[m] \notin {NoOwner, current}
    /\ deadlineAt' = [deadlineAt EXCEPT ![current] = kq.expireAt[TimerOf(current)]]
    /\ waiters' = [waiters EXCEPT ![m] = @ \cup {current}]
    /\ InsertWaitThread(current, Never)
    /\ prioritySum' = IF current \in CfsThreads
                        THEN SatSub(prioritySum, Priority[current]) ELSE prioritySum
    /\ \E ran \in 0 .. reload :
          LET q    == YieldKTimer(kq, TimerOf(current), ran, FALSE)
              left == IF current \in RtThreads THEN RemoveKTimer(q, current) ELSE q
          IN  BoostOwnerDeadline(
                  ProgramWaitKTimer(left, EarliestWake(waitTree, wakeAt)), m, current)
    /\ pendsv' = TRUE
    /\ UNCHANGED <<owner, runq, vruntime, cpuVars, reload, tickVars, assertFailed>>

\* unlock_guard: the owner drops its guard and wakes the first waiter.
Unlock(m) ==
    /\ ThreadMode /\ Bounded
    /\ owner[m] = current
    /\ RestoreOwnerDeadline(m)
    /\ owner' = [owner EXCEPT ![m] = NextOwner(m)]
    /\ IF waiters[m] = {}
         THEN /\ kq' = QueueRestored(m)
              /\ UNCHANGED <<waiters, state, queueVars, waitVars, cpuVars, reload,
                             pendsv, tickVars, assertFailed>>
         ELSE /\ waiters' = [waiters EXCEPT ![m] = @ \ {FirstWaiter(m)}]
              /\ HandBack(QueueRestored(m), FirstWaiter(m))
    /\ UNCHANGED deadlineAt

-----------------------------------------------------------------------------

\* The scheduler's own steps.  Other objects wake the threads that wait for
\* them, and none that waits for a mutex.
SchedulerStep ==
    /\ \/ Boot
       \/ ThreadCall
       \/ \E t \in suspended \ UNION {waiters[m] : m \in Mutexes} : WakeWaiter(t)
       \/ TickHandler
       \/ Schedule
       \/ Stop
    /\ UNCHANGED mutexVars

MutexNext ==
    \/ SchedulerStep
    \/ \E m \in Mutexes : LockFree(m) \/ LockOwned(m) \/ Unlock(m)

MutexSpec == Init /\ MutexInit /\ [][MutexNext]_allVars

-----------------------------------------------------------------------------
(* Correctness.                                                            *)

\* A mutex with waiters has an owner, who is not one of them; its waiters are
\* suspended, and each thread waits for one mutex at most, through its one
\* SyncEntity; a deadline is on loan only while somebody waits.  Otherwise a
\* waiter would sleep for ever, or the next owner would be given the deadline
\* of the previous one (sync.rs, lock and unlock_guard).
WaitersHaveOwner ==
    \A m \in Mutexes :
        /\ waiters[m] # {} => owner[m] # NoOwner
        /\ owner[m] \notin waiters[m]
        /\ waiters[m] \subseteq suspended
        /\ boosted[m] => waiters[m] # {}
        /\ \A n \in Mutexes \ {m} : waiters[m] \cap waiters[n] = {}

MutexTypeOK ==
    /\ owner \in [Mutexes -> Threads \cup {Idle, NoOwner}]
    /\ waiters \in [Mutexes -> SUBSET Threads]
    /\ boosted \in [Mutexes -> BOOLEAN]
    /\ original \in [Mutexes -> Nat]
    /\ deadlineAt \in [Threads -> Nat]

\* The scheduler's inductive invariant survives the loans of deadlines: the
\* mutex code writes expirations and wakes threads behind the scheduler's back,
\* and still leaves the trees, NEXT_KTIMER, the wait timer and every thread's
\* place as the scheduler needs them; and the mutexes keep their waiters
\* (sync.rs, set_thread_scheduler_expire_at, unlock_guard).
MutexInv ==
    /\ IInv
    /\ MutexTypeOK
    /\ WaitersHaveOwner

\* A mutex with waiters passes to the waiter with the earliest deadline and
\* to no thread that did not wait, and a waiter leaves only as the new owner:
\* its lock call returns a guard without looking at the mutex again, so it
\* is the owner that makes the guards exclusive (sync.rs, MutexGuard).
HandOffToEarliest ==
    [][\A m \in Mutexes :
          /\ owner'[m] # owner[m] /\ waiters[m] # {} =>
                /\ owner'[m] \in waiters[m]
                /\ \A w \in waiters[m] : deadlineAt[owner'[m]] <= deadlineAt[w]
          /\ \A w \in waiters[m] \ waiters'[m] : owner'[m] = w]_allVars

\* The lent deadline at, or a queued timer it may have been taken from, is
\* overdue; tm is the timer of the borrower.
LoanOverdue(q, tm, at) ==
    \/ at <= q.now
    \/ \E a \in (q.active \cup q.inactive) \ {WaitTimer, tm} : IsExpired(q, a)

\* The timer is at the beginning of an active window.
WindowBegins(q, tm) ==
    /\ tm \in q.active
    /\ q.expireAt[tm] =
           SatAdd(q.now, IF tm = CfsTimer THEN CfsPeriod ELSE Deadline[tm])

\* After a thread has blocked on a mutex, the timer of the owner is due no
\* later than the deadline it lent, unless both threads are CFS: the owner is
\* not kept from the core by work less urgent than its waiter.  The loan is
\* lost in one way only: it was overdue when it was made, and
\* refresh_next_ktimer has begun a new window of the owner in its place
\* (sync.rs, boost_owner_deadline).
OwnerInheritsDeadline ==
    [][\A m \in Mutexes, t \in Threads :
          /\ t \in waiters'[m] \ waiters[m]
          /\ ~kq'.missPanic
          /\ owner[m] # Idle
          /\ ~({owner[m], t} \subseteq CfsThreads)
          => \/ kq'.expireAt[TimerOf(owner[m])] <= deadlineAt'[t]
             \/ /\ LoanOverdue(kq', TimerOf(owner[m]), deadlineAt'[t])
                /\ WindowBegins(kq', TimerOf(owner[m]))]_allVars

=============================================================================
