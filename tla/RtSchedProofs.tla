---------------------------- MODULE RtSchedProofs ----------------------------
(***************************************************************************)
(* Theorems about the scheduler, for every set of threads, every timing    *)
(* and every bound.                                                        *)
(*                                                                         *)
(* The first part is about the timer-queue operations of KTimer: the first *)
(* entity of a non-empty tree exists, every operation maps queues to       *)
(* queues, and each one moves exactly the timers it names.  In the second, *)
(* types come first, without an assumption on exception priorities; the    *)
(* invariants hold when PendSV is not below the other interrupts.          *)
(***************************************************************************)
EXTENDS RtSched, OrderedTreeProofs

-----------------------------------------------------------------------------
(* Types of the helpers.                                                   *)

LEMMA SatNat ==
    ASSUME NEW a \in Nat, NEW b \in Nat
    PROVE  SatSub(a, b) \in Nat /\ SatAdd(a, b) \in Nat
BY TimingAssumption DEF SatSub, SatAdd

\* The first timer of a tree is a member of it, and null only if it is empty.
LEMMA FirstOfMember ==
    ASSUME NEW e \in [Timers -> Nat], NEW S \in SUBSET Timers
    PROVE  /\ S = {} => FirstOf(e, S) = NoTimer
           /\ S # {} => /\ FirstOf(e, S) \in S
                        /\ \A b \in S : e[FirstOf(e, S)] <= e[b]
<1>1. CASE S = {}
    BY <1>1 DEF FirstOf
<1>2. CASE S # {}
    <2>1. \A a \in S : e[a] \in Nat /\ TimerAddr[a] \in Nat
        BY AddrAssumption
    <2>2. \A a, b \in S : TimerAddr[a] = TimerAddr[b] => a = b
        BY AddrAssumption
    <2>3. /\ Leftmost(S, e, TimerAddr) \in S
          /\ \A b \in S : e[Leftmost(S, e, TimerAddr)] <= e[b]
        BY <1>2, <2>1, <2>2, LeftmostExists
    <2>4. QED
        BY <1>2, <2>3 DEF FirstOf
<1>3. QED
    BY <1>1, <1>2

LEMMA QueueFields ==
    ASSUME NEW q \in KTimerQueues
    PROVE  /\ q.now \in Nat
           /\ q.active \in SUBSET Timers
           /\ q.inactive \in SUBSET Timers
           /\ q.expireAt \in [Timers -> Nat]
           /\ q.next \in Timers \cup {NoTimer}
           /\ q.runtime \in [RtThreads -> Nat]
           /\ q.missed \in SUBSET RtThreads
           /\ q.missPanic \in BOOLEAN
BY DEF KTimerQueues

LEMMA RemoveEffect ==
    ASSUME NEW q \in KTimerQueues, NEW tm \in Timers
    PROVE  /\ Remove(q, tm) \in KTimerQueues
           /\ Remove(q, tm).now = q.now
           /\ Remove(q, tm).active = q.active \ {tm}
           /\ Remove(q, tm).inactive = q.inactive \ {tm}
           /\ Remove(q, tm).expireAt = q.expireAt
           /\ Remove(q, tm).next = q.next
           /\ Remove(q, tm).missPanic = q.missPanic
BY DEF Remove, KTimerQueues

LEMMA EnqueueActiveEffect ==
    ASSUME NEW q \in KTimerQueues, NEW tm \in Timers
    PROVE  /\ EnqueueActive(q, tm) \in KTimerQueues
           /\ EnqueueActive(q, tm).now = q.now
           /\ EnqueueActive(q, tm).active = q.active \cup {tm}
           /\ EnqueueActive(q, tm).inactive = q.inactive \ {tm}
           /\ EnqueueActive(q, tm).expireAt = q.expireAt
           /\ EnqueueActive(q, tm).missPanic = q.missPanic
BY DEF EnqueueActive, KTimerQueues

LEMMA EnqueueInactiveEffect ==
    ASSUME NEW q \in KTimerQueues, NEW tm \in Timers
    PROVE  /\ EnqueueInactive(q, tm) \in KTimerQueues
           /\ EnqueueInactive(q, tm).now = q.now
           /\ EnqueueInactive(q, tm).active = q.active \ {tm}
           /\ EnqueueInactive(q, tm).inactive = q.inactive \cup {tm}
           /\ EnqueueInactive(q, tm).expireAt = q.expireAt
           /\ EnqueueInactive(q, tm).next = q.next
           /\ EnqueueInactive(q, tm).missPanic = q.missPanic
BY DEF EnqueueInactive, KTimerQueues

LEMMA SetExpireAtEffect ==
    ASSUME NEW q \in KTimerQueues, NEW tm \in Timers, NEW at \in Nat
    PROVE  /\ SetExpireAt(q, tm, at) \in KTimerQueues
           /\ SetExpireAt(q, tm, at).now = q.now
           /\ SetExpireAt(q, tm, at).active = q.active
           /\ SetExpireAt(q, tm, at).inactive = q.inactive
           /\ SetExpireAt(q, tm, at).expireAt = [q.expireAt EXCEPT ![tm] = at]
           /\ SetExpireAt(q, tm, at).next = q.next
           /\ SetExpireAt(q, tm, at).runtime = q.runtime
           /\ SetExpireAt(q, tm, at).missPanic = q.missPanic
BY DEF SetExpireAt, KTimerQueues

LEMMA ChargeRuntimeEffect ==
    ASSUME NEW q \in KTimerQueues, NEW t \in RtThreads, NEW ticks \in Nat
    PROVE  /\ ChargeRuntime(q, t, ticks) \in KTimerQueues
           /\ ChargeRuntime(q, t, ticks).now = q.now
           /\ ChargeRuntime(q, t, ticks).active = q.active
           /\ ChargeRuntime(q, t, ticks).inactive = q.inactive
           /\ ChargeRuntime(q, t, ticks).expireAt = q.expireAt
           /\ ChargeRuntime(q, t, ticks).next = q.next
           /\ ChargeRuntime(q, t, ticks).missPanic = q.missPanic
<1> DEFINE rt == [q.runtime EXCEPT ![t] = q.runtime[t] + ticks]
           ms == IF q.runtime[t] + ticks > Budget[t] THEN q.missed \cup {t} ELSE q.missed
<1>1. rt \in [RtThreads -> Nat] /\ ms \in SUBSET RtThreads
    <2>1. q.runtime \in [RtThreads -> Nat] /\ q.missed \in SUBSET RtThreads
        BY QueueFields
    <2>2. q.runtime[t] + ticks \in Nat
        BY <2>1
    <2>3. QED
        BY <2>1, <2>2
<1>2. ChargeRuntime(q, t, ticks) = [q EXCEPT !.runtime = rt, !.missed = ms]
    BY DEF ChargeRuntime
<1> HIDE DEF rt, ms
<1>3. QED
    BY <1>1, <1>2 DEF KTimerQueues

LEMMA RearmEffect ==
    ASSUME NEW q \in KTimerQueues, NEW tm \in RtThreads \cup {CfsTimer}
    PROVE  /\ Rearm(q, tm) \in KTimerQueues
           /\ Rearm(q, tm).now = q.now
           /\ Rearm(q, tm).active = q.active
           /\ Rearm(q, tm).inactive = q.inactive
           /\ Rearm(q, tm).expireAt[WaitTimer] = q.expireAt[WaitTimer]
           /\ Rearm(q, tm).missPanic = q.missPanic
<1>1. CASE tm = CfsTimer
    <2>1. SatAdd(q.now, CfsPeriod) \in Nat
        BY SatNat, QueueFields, TimingAssumption
    <2> DEFINE at == SatAdd(q.now, CfsPeriod)
               r  == SetExpireAt(q, CfsTimer, at)
    <2>2. Rearm(q, tm) = r
        BY <1>1 DEF Rearm
    <2> HIDE DEF at
    <2>3. q.expireAt \in [Timers -> Nat] /\ CfsTimer \in Timers
        BY QueueFields DEF Timers
    <2>4. WaitTimer \in Timers /\ WaitTimer # CfsTimer
        BY TimersDistinct DEF Timers
    <2>5. /\ r \in KTimerQueues
          /\ r.now = q.now
          /\ r.active = q.active
          /\ r.inactive = q.inactive
          /\ r.expireAt = [q.expireAt EXCEPT ![CfsTimer] = at]
          /\ r.missPanic = q.missPanic
        BY <2>1, <2>3, SetExpireAtEffect DEF at
    <2>6. r.expireAt[WaitTimer] = q.expireAt[WaitTimer]
        BY <2>3, <2>4, <2>5
    <2> HIDE DEF r
    <2>7. QED
        BY <2>2, <2>5, <2>6
<1>2. CASE tm \in RtThreads
    <2>1. SatAdd(q.now, Deadline[tm]) \in Nat
        BY <1>2, SatNat, QueueFields, TimingAssumption
    <2> DEFINE rt == [q.runtime EXCEPT ![tm] = 0]
               ex == [q.expireAt EXCEPT ![tm] = SatAdd(q.now, Deadline[tm])]
    <2>2. /\ rt \in [RtThreads -> Nat]
          /\ ex \in [Timers -> Nat]
          /\ ex[WaitTimer] = q.expireAt[WaitTimer]
        BY <1>2, <2>1, QueueFields, TimersDistinct DEF Timers
    <2>3. Rearm(q, tm) = [q EXCEPT !.runtime = rt, !.expireAt = ex]
        BY <1>2, TimersDistinct DEF Rearm
    <2> HIDE DEF rt, ex
    <2>4. QED
        BY <2>2, <2>3 DEF KTimerQueues
<1>3. QED
    BY <1>1, <1>2

\* Starting the next window of one timer leaves the others alone.
LEMMA RearmOthers ==
    ASSUME NEW q \in KTimerQueues, NEW e \in RtThreads \cup {CfsTimer},
           NEW tm \in Timers \ {e}
    PROVE  Rearm(q, e).expireAt[tm] = q.expireAt[tm]
<1>1. q.expireAt \in [Timers -> Nat]
    BY QueueFields
<1>2. CASE e = CfsTimer
    <2> DEFINE at == SatAdd(q.now, CfsPeriod)
    <2>1. Rearm(q, e) = [q EXCEPT !.expireAt = [q.expireAt EXCEPT ![e] = at]]
        BY <1>2 DEF Rearm, SetExpireAt
    <2> HIDE DEF at
    <2>2. QED
        BY <1>1, <2>1 DEF KTimerQueues
<1>3. CASE e # CfsTimer
    <2> DEFINE at == SatAdd(q.now, Deadline[e])
               rt == [q.runtime EXCEPT ![e] = 0]
    <2>1. Rearm(q, e) = [q EXCEPT !.runtime = rt,
                                  !.expireAt = [q.expireAt EXCEPT ![e] = at]]
        BY <1>3 DEF Rearm
    <2> HIDE DEF at, rt
    <2>2. QED
        BY <1>1, <2>1 DEF KTimerQueues
<1>4. QED
    BY <1>2, <1>3

LEMMA RecordDeadlineMissEffect ==
    ASSUME NEW q \in KTimerQueues, NEW t \in RtThreads
    PROVE  /\ RecordDeadlineMiss(q, t) \in KTimerQueues
           /\ RecordDeadlineMiss(q, t).now = q.now
           /\ RecordDeadlineMiss(q, t).active = q.active \ {t}
           /\ RecordDeadlineMiss(q, t).inactive = q.inactive \ {t}
           /\ RecordDeadlineMiss(q, t).expireAt = q.expireAt
           /\ RecordDeadlineMiss(q, t).missPanic
BY RemoveEffect DEF RecordDeadlineMiss, KTimerQueues, Timers

-----------------------------------------------------------------------------
(* What the calls of the scheduler do to the queue.                        *)

\* refresh_next_ktimer keeps the trees, the clock and the wait deadline, and
\* leaves NEXT_KTIMER at the first active timer, unless it panics.  The wait
\* timer is never in the active tree, so re-arming cannot meet it.
LEMMA RefreshEffect ==
    ASSUME NEW q \in KTimerQueues, WaitTimer \notin q.active
    PROVE  /\ RefreshNext(q) \in KTimerQueues
           /\ RefreshNext(q).now = q.now
           /\ RefreshNext(q).active \subseteq q.active
           /\ RefreshNext(q).inactive \subseteq q.inactive
           /\ RefreshNext(q).expireAt[WaitTimer] = q.expireAt[WaitTimer]
           /\ q.missPanic => RefreshNext(q).missPanic
           /\ ~RefreshNext(q).missPanic =>
                 /\ RefreshNext(q).active = q.active
                 /\ RefreshNext(q).inactive = q.inactive
                 /\ RefreshNext(q).next = FirstActive(RefreshNext(q))
<1> DEFINE e == FirstActive(q)
           r == Rearm(q, e)
<1>1. q.active \in SUBSET Timers /\ q.expireAt \in [Timers -> Nat]
    BY QueueFields
<1>2. e = NoTimer \/ e \in q.active
    BY <1>1, FirstOfMember DEF FirstActive
<1>3. CASE e = NoTimer
    <2>1. RefreshNext(q) = [q EXCEPT !.next = NoTimer]
        BY <1>3 DEF RefreshNext
    <2>2. FirstActive(RefreshNext(q)) = NoTimer
        <3>1. RefreshNext(q).active = q.active /\ RefreshNext(q).expireAt = q.expireAt
            BY <2>1 DEF KTimerQueues
        <3>2. QED
            BY <1>3, <3>1 DEF FirstActive
    <2> HIDE DEF e
    <2>3. QED
        BY <2>1, <2>2 DEF KTimerQueues
<1>4. CASE e # NoTimer
    <2>1. e \in RtThreads \cup {CfsTimer}
        BY <1>1, <1>2, <1>4 DEF Timers
    <2>2. CASE ~IsExpired(q, e)
        <3>1. RefreshNext(q) = [q EXCEPT !.next = e]
            BY <1>4, <2>2 DEF RefreshNext
        <3> HIDE DEF e
        <3>2. FirstActive(RefreshNext(q)) = e
            <4>1. RefreshNext(q).active = q.active /\ RefreshNext(q).expireAt = q.expireAt
                BY <3>1 DEF KTimerQueues
            <4>2. QED
                BY <4>1 DEF FirstActive, e
        <3>3. e \in Timers
            BY <2>1 DEF Timers
        <3>4. QED
            BY <3>1, <3>2, <3>3 DEF KTimerQueues
    <2>3. CASE IsExpired(q, e) /\ e \in RtThreads /\ IsRealDeadlineMiss(q, e)
        <3>1. RefreshNext(q) = RecordDeadlineMiss(q, e)
            BY <1>4, <2>3 DEF RefreshNext
        <3> HIDE DEF e
        <3>2. QED
            BY <2>3, <3>1, RecordDeadlineMissEffect
    <2>4. CASE IsExpired(q, e) /\ ~(e \in RtThreads /\ IsRealDeadlineMiss(q, e))
        <3>1. RefreshNext(q) = [r EXCEPT !.next = FirstActive(r)]
            BY <1>4, <2>4 DEF RefreshNext
        <3> HIDE DEF e
        <3>2. /\ r \in KTimerQueues
              /\ r.now = q.now
              /\ r.active = q.active
              /\ r.inactive = q.inactive
              /\ r.expireAt[WaitTimer] = q.expireAt[WaitTimer]
              /\ r.missPanic = q.missPanic
            BY <2>1, RearmEffect
        <3> HIDE DEF r
        <3>3. FirstActive(r) \in Timers \cup {NoTimer}
            <4>1. r.active \in SUBSET Timers /\ r.expireAt \in [Timers -> Nat]
                BY <3>2, QueueFields
            <4>2. QED
                BY <4>1, FirstOfMember DEF FirstActive
        <3>4. FirstActive(RefreshNext(q)) = FirstActive(r)
            <4>1. RefreshNext(q).active = r.active /\ RefreshNext(q).expireAt = r.expireAt
                BY <3>1, <3>2 DEF KTimerQueues
            <4>2. QED
                BY <4>1 DEF FirstActive
        <3>5. QED
            BY <3>1, <3>2, <3>3, <3>4 DEF KTimerQueues
    <2>5. QED
        BY <2>2, <2>3, <2>4
<1>5. QED
    BY <1>3, <1>4

\* From q to p at most one expiration has moved: an active timer that was due
\* has begun a new window.
OnlyDueMoved(p, q) ==
    \/ p.expireAt = q.expireAt
    \/ \E e \in q.active :
          /\ q.expireAt[e] <= q.now
          /\ p.expireAt[e] = SatAdd(q.now, IF e = CfsTimer THEN CfsPeriod ELSE Deadline[e])
          /\ \A tm \in Timers \ {e} : p.expireAt[tm] = q.expireAt[tm]

\* refresh_next_ktimer re-arms one timer at most.
LEMMA RefreshExpireAt ==
    ASSUME NEW q \in KTimerQueues, WaitTimer \notin q.active
    PROVE  OnlyDueMoved(RefreshNext(q), q)
<1> DEFINE e == FirstActive(q)
<1>1. q.active \in SUBSET Timers /\ q.expireAt \in [Timers -> Nat]
    BY QueueFields
<1>2. e = NoTimer \/ e \in q.active
    BY <1>1, FirstOfMember DEF FirstActive
<1>3. CASE e = NoTimer
    BY <1>3 DEF RefreshNext, KTimerQueues, OnlyDueMoved
<1>4. CASE e # NoTimer
    <2>1. e \in RtThreads \cup {CfsTimer} /\ e \in q.active
        BY <1>1, <1>2, <1>4 DEF Timers
    <2>2. CASE ~IsExpired(q, e)
        <3>1. RefreshNext(q) = [q EXCEPT !.next = e]
            BY <1>4, <2>2 DEF RefreshNext
        <3> HIDE DEF e
        <3>2. QED
            BY <3>1 DEF KTimerQueues, OnlyDueMoved
    <2>3. CASE IsExpired(q, e) /\ e \in RtThreads /\ IsRealDeadlineMiss(q, e)
        <3>1. RefreshNext(q) = RecordDeadlineMiss(q, e)
            BY <1>4, <2>3 DEF RefreshNext
        <3> HIDE DEF e
        <3>2. QED
            BY <2>3, <3>1, RecordDeadlineMissEffect DEF OnlyDueMoved
    <2>4. CASE IsExpired(q, e) /\ ~(e \in RtThreads /\ IsRealDeadlineMiss(q, e))
        <3> DEFINE r == Rearm(q, e)
        <3>1. RefreshNext(q) = [r EXCEPT !.next = FirstActive(r)]
            BY <1>4, <2>4 DEF RefreshNext
        <3>2. q.expireAt[e] <= q.now
            BY <2>4 DEF IsExpired
        <3> HIDE DEF e
        <3>3. /\ r \in KTimerQueues
              /\ \A tm \in Timers \ {e} : r.expireAt[tm] = q.expireAt[tm]
            BY <2>1, RearmEffect, RearmOthers
        <3>4. r.expireAt[e] = SatAdd(q.now, IF e = CfsTimer THEN CfsPeriod ELSE Deadline[e])
            BY <1>1, <2>1 DEF Rearm, SetExpireAt, KTimerQueues
        <3> HIDE DEF r
        <3>5. RefreshNext(q).expireAt = r.expireAt
            BY <3>1, <3>3 DEF KTimerQueues
        <3>6. QED
            BY <2>1, <3>2, <3>3, <3>4, <3>5 DEF OnlyDueMoved
    <2>5. QED
        BY <2>2, <2>3, <2>4
<1>5. QED
    BY <1>3, <1>4

\* p has the clock, the trees and the wait deadline of q, and NEXT_KTIMER at the
\* first active timer if q had: what is left of q after a call that moves the
\* expiration of one thread's timer.
SameTimers(p, q) ==
    /\ p \in KTimerQueues
    /\ p.now = q.now
    /\ p.active \subseteq q.active
    /\ p.inactive \subseteq q.inactive
    /\ p.expireAt[WaitTimer] = q.expireAt[WaitTimer]
    /\ q.missPanic => p.missPanic
    /\ ~p.missPanic => /\ p.active = q.active
                       /\ p.inactive = q.inactive
                       /\ q.next = FirstActive(q) => p.next = FirstActive(p)

\* set_thread_scheduler_expire_at.  A timer that is not queued is not active, so
\* its new expiration does not change which timer is the first active one.
LEMMA SetSchedulerExpireAtEffect ==
    ASSUME NEW q \in KTimerQueues, WaitTimer \notin q.active,
           NEW tm \in RtThreads \cup {CfsTimer}, NEW at \in Nat
    PROVE  /\ SameTimers(SetSchedulerExpireAt(q, tm, at), q)
           /\ OnlyDueMoved(SetSchedulerExpireAt(q, tm, at), SetExpireAt(q, tm, at))
<1> DEFINE m == SetExpireAt(q, tm, at)
           p == SetSchedulerExpireAt(q, tm, at)
<1>1. tm \in Timers /\ tm # WaitTimer /\ WaitTimer \in Timers
    BY TimersDistinct DEF Timers
<1>2. q.expireAt \in [Timers -> Nat] /\ q.active \in SUBSET Timers
    BY QueueFields
<1>3. /\ m \in KTimerQueues
      /\ m.now = q.now
      /\ m.active = q.active
      /\ m.inactive = q.inactive
      /\ m.expireAt = [q.expireAt EXCEPT ![tm] = at]
      /\ m.next = q.next
      /\ m.missPanic = q.missPanic
    BY <1>1, SetExpireAtEffect
<1>4. p = m \/ p = RefreshNext(m)
    BY DEF SetSchedulerExpireAt
<1>5. p = m => tm \notin q.active \/ p = RefreshNext(m)
    BY DEF SetSchedulerExpireAt, Queued
<1> HIDE DEF m
<1>6. /\ m.expireAt[tm] = at
      /\ \A a \in Timers \ {tm} : m.expireAt[a] = q.expireAt[a]
    BY <1>1, <1>2, <1>3
<1>7. CASE p = RefreshNext(m)
    <2> DEFINE r == RefreshNext(m)
    <2>1. SameTimers(r, q)
        <3>1. WaitTimer \notin m.active /\ m.expireAt[WaitTimer] = q.expireAt[WaitTimer]
            BY <1>1, <1>3, <1>6
        <3>2. /\ r \in KTimerQueues
              /\ r.now = m.now
              /\ r.active \subseteq m.active
              /\ r.inactive \subseteq m.inactive
              /\ r.expireAt[WaitTimer] = m.expireAt[WaitTimer]
              /\ m.missPanic => r.missPanic
              /\ ~r.missPanic => /\ r.active = m.active
                                 /\ r.inactive = m.inactive
                                 /\ r.next = FirstActive(r)
            BY <1>3, <3>1, RefreshEffect
        <3> HIDE DEF r
        <3>3. QED
            BY <1>3, <3>1, <3>2 DEF SameTimers
    <2>2. OnlyDueMoved(r, m)
        <3>1. m \in KTimerQueues /\ WaitTimer \notin m.active
            BY <1>3
        <3>2. QED
            BY <3>1, RefreshExpireAt
    <2>3. p = r
        BY <1>7
    <2> HIDE DEF p, r
    <2>4. QED
        BY <2>1, <2>2, <2>3 DEF p, m
<1>8. CASE p = m /\ tm \notin q.active
    <2>1. FirstActive(m) = FirstActive(q)
        <3>1. CASE q.active = {}
            BY <1>3, <3>1 DEF FirstActive, FirstOf
        <3>2. CASE q.active # {}
            <4>1. \A a \in q.active : /\ q.expireAt[a] \in Nat /\ TimerAddr[a] \in Nat
                                       /\ m.expireAt[a] = q.expireAt[a]
                BY <1>2, <1>6, <1>8, AddrAssumption
            <4>2. \A a, b \in q.active : TimerAddr[a] = TimerAddr[b] => a = b
                BY <1>2, AddrAssumption
            <4>3. Leftmost(q.active, m.expireAt, TimerAddr)
                      = Leftmost(q.active, q.expireAt, TimerAddr)
                BY <3>2, <4>1, <4>2, LeftmostAgrees
            <4>4. QED
                BY <1>3, <3>2, <4>3 DEF FirstActive, FirstOf
        <3>3. QED
            BY <3>1, <3>2
    <2>2. SameTimers(m, q)
        BY <1>1, <1>3, <1>6, <2>1 DEF SameTimers
    <2>3. OnlyDueMoved(m, m)
        BY DEF OnlyDueMoved
    <2>4. QED
        BY <1>8, <2>2, <2>3 DEF p, m
<1>9. QED
    BY <1>4, <1>5, <1>7, <1>8

\* earliest_queued_scheduler_expire_at
LEMMA EarliestSchedulerExpiryEffect ==
    ASSUME NEW q \in KTimerQueues
    PROVE  LET S == (q.active \cup q.inactive) \ {WaitTimer}
           IN  /\ EarliestSchedulerExpiry(q) \in Nat
               /\ S # {} => \E a \in S : EarliestSchedulerExpiry(q) = q.expireAt[a]
<1> DEFINE S == (q.active \cup q.inactive) \ {WaitTimer}
<1>1. S \in SUBSET Timers /\ q.expireAt \in [Timers -> Nat]
    BY QueueFields
<1>2. EarliestSchedulerExpiry(q) =
          IF S = {} THEN Never ELSE q.expireAt[FirstOf(q.expireAt, S)]
    BY DEF EarliestSchedulerExpiry
<1> HIDE DEF S
<1>3. S # {} => FirstOf(q.expireAt, S) \in S
    BY <1>1, FirstOfMember
<1>4. /\ EarliestSchedulerExpiry(q) \in Nat
      /\ S # {} => \E a \in S : EarliestSchedulerExpiry(q) = q.expireAt[a]
    BY <1>1, <1>2, <1>3, TimingAssumption
<1>5. QED
    BY <1>4 DEF S

\* enqueue_ktimer and reinsert_ktimer
LEMMA ReinsertEffect ==
    ASSUME NEW q \in KTimerQueues, WaitTimer \notin q.active,
           NEW tm \in RtThreads \cup {CfsTimer}
    PROVE  LET p == ReinsertKTimer(q, tm)
           IN  /\ p \in KTimerQueues
               /\ p.now = q.now
               /\ p.active \subseteq q.active \cup {tm}
               /\ p.inactive \subseteq q.inactive \ {tm}
               /\ p.expireAt[WaitTimer] = q.expireAt[WaitTimer]
               /\ q.missPanic => p.missPanic
               /\ ~p.missPanic => /\ p.active = q.active \cup {tm}
                                  /\ p.inactive = q.inactive \ {tm}
                                  /\ p.next = FirstActive(p)
<1> DEFINE e == EnqueueActive(q, tm)
<1>1. tm \in Timers /\ tm # WaitTimer
    BY TimersDistinct DEF Timers
<1>2. /\ e \in KTimerQueues
      /\ e.now = q.now
      /\ e.active = q.active \cup {tm}
      /\ e.inactive = q.inactive \ {tm}
      /\ e.expireAt = q.expireAt
      /\ e.missPanic = q.missPanic
    BY <1>1, EnqueueActiveEffect
<1> HIDE DEF e
<1>3. QED
    BY <1>1, <1>2, RefreshEffect DEF ReinsertKTimer, e

\* remove_ktimer: if the removed timer was selected, another one is.
LEMMA RemoveKTimerEffect ==
    ASSUME NEW q \in KTimerQueues, WaitTimer \notin q.active, NEW t \in RtThreads
    PROVE  LET p == RemoveKTimer(q, t)
           IN  /\ p \in KTimerQueues
               /\ p.now = q.now
               /\ p.active \subseteq q.active \ {t}
               /\ p.inactive \subseteq q.inactive \ {t}
               /\ p.expireAt[WaitTimer] = q.expireAt[WaitTimer]
               /\ q.missPanic => p.missPanic
               /\ ~p.missPanic => /\ p.active = q.active \ {t}
                                  /\ p.inactive = q.inactive \ {t}
<1> DEFINE e == Remove(q, t)
<1>1. t \in Timers
    BY DEF Timers
<1>2. /\ e \in KTimerQueues
      /\ e.now = q.now
      /\ e.active = q.active \ {t}
      /\ e.inactive = q.inactive \ {t}
      /\ e.expireAt = q.expireAt
      /\ e.missPanic = q.missPanic
    BY <1>1, RemoveEffect
<1> HIDE DEF e
<1>3. RemoveKTimer(q, t) = e \/ RemoveKTimer(q, t) = RefreshNext(e)
    BY DEF RemoveKTimer, e
<1>4. QED
    BY <1>2, <1>3, RefreshEffect

\* program_wait_ktimer arms the wait timer for wakeup and selects the first
\* active timer.
LEMMA ProgramWaitEffect ==
    ASSUME NEW q \in KTimerQueues, WaitTimer \notin q.active,
           NEW wakeup \in Nat
    PROVE  LET p == ProgramWaitKTimer(q, wakeup)
           IN  /\ p \in KTimerQueues
               /\ p.now = q.now
               /\ p.active \subseteq q.active
               /\ p.inactive \subseteq q.inactive \cup {WaitTimer}
               /\ p.expireAt[WaitTimer] = wakeup
               /\ q.missPanic => p.missPanic
               /\ ~p.missPanic => /\ p.active = q.active
                                  /\ p.next = FirstActive(p)
               /\ ~p.missPanic /\ WaitTimer \in q.inactive =>
                                     p.inactive = q.inactive
<1> DEFINE s == SetExpireAt(q, WaitTimer, wakeup)
           e == EnqueueInactive(s, WaitTimer)
<1>1. WaitTimer \in Timers /\ q.expireAt \in [Timers -> Nat]
    BY QueueFields DEF Timers
<1>2. CASE q.expireAt[WaitTimer] = wakeup
    <2>1. ProgramWaitKTimer(q, wakeup) = RefreshNext(q)
        BY <1>2 DEF ProgramWaitKTimer
    <2>2. QED
        BY <1>2, <2>1, RefreshEffect
<1>3. CASE q.expireAt[WaitTimer] # wakeup
    <2>1. ProgramWaitKTimer(q, wakeup) = RefreshNext(e)
        BY <1>3 DEF ProgramWaitKTimer
    <2>2. /\ s \in KTimerQueues
          /\ s.now = q.now
          /\ s.active = q.active
          /\ s.inactive = q.inactive
          /\ s.expireAt[WaitTimer] = wakeup
          /\ s.missPanic = q.missPanic
        <3>1. /\ s \in KTimerQueues
              /\ s.now = q.now
              /\ s.active = q.active
              /\ s.inactive = q.inactive
              /\ s.expireAt = [q.expireAt EXCEPT ![WaitTimer] = wakeup]
              /\ s.missPanic = q.missPanic
            BY <1>1, SetExpireAtEffect
        <3> HIDE DEF s
        <3>2. QED
            BY <1>1, <3>1
    <2> HIDE DEF s
    <2>3. /\ e \in KTimerQueues
          /\ e.now = q.now
          /\ e.active = q.active
          /\ e.inactive = q.inactive \cup {WaitTimer}
          /\ e.expireAt[WaitTimer] = wakeup
          /\ e.missPanic = q.missPanic
        <3>1. /\ e \in KTimerQueues
              /\ e.now = s.now
              /\ e.active = s.active \ {WaitTimer}
              /\ e.inactive = s.inactive \cup {WaitTimer}
              /\ e.expireAt = s.expireAt
              /\ e.missPanic = s.missPanic
            BY <1>1, <2>2, EnqueueInactiveEffect
        <3> HIDE DEF e
        <3>2. QED
            BY <2>2, <3>1
    <2> HIDE DEF e
    <2>4. WaitTimer \in q.inactive => e.inactive = q.inactive
        BY <2>3
    <2> DEFINE p == RefreshNext(e)
    <2>5. /\ p \in KTimerQueues
          /\ p.now = e.now
          /\ p.active \subseteq e.active
          /\ p.inactive \subseteq e.inactive
          /\ p.expireAt[WaitTimer] = e.expireAt[WaitTimer]
          /\ e.missPanic => p.missPanic
          /\ ~p.missPanic => /\ p.active = e.active
                             /\ p.inactive = e.inactive
                             /\ p.next = FirstActive(p)
        BY <2>3, RefreshEffect
    <2> HIDE DEF p
    <2>6. QED
        BY <2>1, <2>3, <2>4, <2>5 DEF p
<1>4. QED
    BY <1>2, <1>3

\* yield_ktimer parks the running thread's timer in the inactive tree.
LEMMA YieldEffect ==
    ASSUME NEW q \in KTimerQueues, NEW tm \in RtThreads \cup {CfsTimer},
           NEW ran \in Nat, NEW reset \in BOOLEAN
    PROVE  LET p == YieldKTimer(q, tm, ran, reset)
           IN  /\ p \in KTimerQueues
               /\ p.active = q.active \ {tm}
               /\ p.inactive = q.inactive \cup {tm}
               /\ p.expireAt[WaitTimer] = q.expireAt[WaitTimer]
               /\ p.missPanic = q.missPanic
<1> DEFINE base    == SatAdd(q.now, ran)
           charged == IF tm = CfsTimer THEN q ELSE ChargeRuntime(q, tm, ran)
           pause   == IF tm = CfsTimer THEN SatSub(CfsPeriod, ran)
                      ELSE SatSub(Period[tm], charged.runtime[tm])
           at      == SatAdd(base, pause)
           armed   == SetExpireAt(charged, tm, at)
           parked  == EnqueueInactive(armed, tm)
           timed   == [parked EXCEPT !.now = base]
<1>1. tm \in Timers /\ tm # WaitTimer /\ WaitTimer \in Timers
    BY TimersDistinct DEF Timers
<1>2. q.expireAt \in [Timers -> Nat] /\ q.now \in Nat
    BY QueueFields
<1>3. base \in Nat
    BY <1>2, SatNat
<1>4. /\ charged \in KTimerQueues
      /\ charged.active = q.active
      /\ charged.inactive = q.inactive
      /\ charged.expireAt = q.expireAt
      /\ charged.missPanic = q.missPanic
    <2>1. CASE tm = CfsTimer
        BY <2>1
    <2>2. CASE tm \in RtThreads
        <3>1. charged = ChargeRuntime(q, tm, ran)
            BY <2>2, TimersDistinct
        <3> HIDE DEF charged
        <3>2. QED
            BY <2>2, <3>1, ChargeRuntimeEffect
    <2>3. QED
        BY <2>1, <2>2
<1>5. YieldKTimer(q, tm, ran, reset) =
          IF tm # CfsTimer /\ reset THEN [timed EXCEPT !.runtime[tm] = 0] ELSE timed
    BY DEF YieldKTimer
<1>6. pause \in Nat
    <2>1. CASE tm = CfsTimer
        BY <2>1, SatNat, TimingAssumption
    <2>2. CASE tm \in RtThreads
        <3> HIDE DEF charged
        <3>1. charged.runtime[tm] \in Nat /\ Period[tm] \in Nat
            BY <1>4, <2>2, QueueFields, TimingAssumption
        <3>2. pause = SatSub(Period[tm], charged.runtime[tm])
            BY <2>2, TimersDistinct
        <3>3. QED
            BY <3>1, <3>2, SatNat
    <2>3. QED
        BY <2>1, <2>2
<1> HIDE DEF charged, pause, base
<1>7. at \in Nat
    BY <1>3, <1>6, SatNat
<1> HIDE DEF at
<1>8. /\ armed \in KTimerQueues
      /\ armed.active = q.active
      /\ armed.inactive = q.inactive
      /\ armed.expireAt[WaitTimer] = q.expireAt[WaitTimer]
      /\ armed.missPanic = q.missPanic
    <2>1. /\ armed \in KTimerQueues
          /\ armed.active = charged.active
          /\ armed.inactive = charged.inactive
          /\ armed.expireAt = [charged.expireAt EXCEPT ![tm] = at]
          /\ armed.missPanic = charged.missPanic
        BY <1>1, <1>4, <1>7, SetExpireAtEffect
    <2> HIDE DEF armed
    <2>2. QED
        BY <1>1, <1>2, <1>4, <2>1
<1> HIDE DEF armed
<1>9. /\ parked \in KTimerQueues
      /\ parked.active = q.active \ {tm}
      /\ parked.inactive = q.inactive \cup {tm}
      /\ parked.expireAt[WaitTimer] = q.expireAt[WaitTimer]
      /\ parked.missPanic = q.missPanic
    BY <1>1, <1>8, EnqueueInactiveEffect
<1> HIDE DEF parked
<1>10. /\ timed \in KTimerQueues
       /\ timed.active = q.active \ {tm}
       /\ timed.inactive = q.inactive \cup {tm}
       /\ timed.expireAt[WaitTimer] = q.expireAt[WaitTimer]
       /\ timed.missPanic = q.missPanic
    BY <1>3, <1>9 DEF KTimerQueues
<1> HIDE DEF timed
<1>11. CASE ~(tm # CfsTimer /\ reset)
    BY <1>5, <1>10, <1>11
<1>12. CASE tm # CfsTimer /\ reset
    <2> DEFINE rt == [timed.runtime EXCEPT ![tm] = 0]
    <2>1. rt \in [RtThreads -> Nat]
        BY <1>10, QueueFields
    <2>2. YieldKTimer(q, tm, ran, reset) = [timed EXCEPT !.runtime = rt]
        BY <1>5, <1>12
    <2> HIDE DEF rt
    <2>3. QED
        BY <1>10, <2>1, <2>2 DEF KTimerQueues
<1>13. QED
    BY <1>11, <1>12

\* A sleeping RT thread's timer becomes active again.
LEMMA WakeRtEffect ==
    ASSUME NEW q \in KTimerQueues, NEW t \in RtThreads, NEW ran \in Nat
    PROVE  LET p == WakeRtTimer(q, t, ran)
           IN  /\ p \in KTimerQueues
               /\ p.active = q.active \cup {t}
               /\ p.inactive = q.inactive \ {t}
               /\ p.missPanic = q.missPanic
<1> DEFINE charged == ChargeRuntime(q, t, ran)
           at      == SatAdd(q.now, SatSub(Deadline[t], charged.runtime[t]))
           armed   == SetExpireAt(charged, t, at)
<1>1. t \in Timers
    BY DEF Timers
<1>2. WakeRtTimer(q, t, ran) = EnqueueActive(armed, t)
    BY DEF WakeRtTimer
<1>3. /\ charged \in KTimerQueues
      /\ charged.active = q.active
      /\ charged.inactive = q.inactive
      /\ charged.missPanic = q.missPanic
    BY ChargeRuntimeEffect
<1> HIDE DEF charged
<1>4. at \in Nat
    <2>1. charged.runtime[t] \in Nat /\ Deadline[t] \in Nat /\ q.now \in Nat
        BY <1>3, QueueFields, TimingAssumption
    <2>2. SatSub(Deadline[t], charged.runtime[t]) \in Nat
        BY <2>1, SatNat
    <2>3. QED
        BY <2>1, <2>2, SatNat
<1> HIDE DEF at
<1>5. /\ armed \in KTimerQueues
      /\ armed.active = q.active
      /\ armed.inactive = q.inactive
      /\ armed.missPanic = q.missPanic
    BY <1>1, <1>3, <1>4, SetExpireAtEffect
<1> HIDE DEF armed
<1>6. QED
    BY <1>1, <1>2, <1>5, EnqueueActiveEffect

\* An expired CFS timer changes sides; the other timers stay.
LEMMA DispatchCfsEffect ==
    ASSUME NEW q \in KTimerQueues, NEW ran \in Nat
    PROVE  LET p == DispatchCfsTimer(q, ran)
           IN  /\ p \in KTimerQueues
               /\ p.active \ {CfsTimer} = q.active \ {CfsTimer}
               /\ p.inactive \ {CfsTimer} = q.inactive \ {CfsTimer}
               /\ CfsTimer \in p.active <=> CfsTimer \notin p.inactive
               /\ p.expireAt[WaitTimer] = q.expireAt[WaitTimer]
               /\ p.missPanic = q.missPanic
<1>1. /\ CfsTimer \in Timers /\ CfsTimer # WaitTimer /\ WaitTimer \in Timers
      /\ CfsTimer \in RtThreads \cup {CfsTimer}
    BY TimersDistinct DEF Timers
<1>2. CASE CfsTimer \in q.active
    <2> DEFINE at    == SatAdd(q.now, SatSub(CfsPeriod, ran))
               armed == SetExpireAt(q, CfsTimer, at)
    <2>1. DispatchCfsTimer(q, ran) = EnqueueInactive(armed, CfsTimer)
        BY <1>2 DEF DispatchCfsTimer
    <2>2. at \in Nat
        <3>1. SatSub(CfsPeriod, ran) \in Nat /\ q.now \in Nat
            BY SatNat, QueueFields, TimingAssumption
        <3>2. QED
            BY <3>1, SatNat
    <2> HIDE DEF at
    <2>3. /\ armed \in KTimerQueues
          /\ armed.active = q.active
          /\ armed.inactive = q.inactive
          /\ armed.expireAt = [q.expireAt EXCEPT ![CfsTimer] = at]
          /\ armed.missPanic = q.missPanic
        BY <1>1, <2>2, SetExpireAtEffect
    <2> HIDE DEF armed
    <2>4. armed.expireAt[WaitTimer] = q.expireAt[WaitTimer]
        BY <1>1, <2>3, QueueFields
    <2> DEFINE p == EnqueueInactive(armed, CfsTimer)
    <2>5. /\ p \in KTimerQueues
          /\ p.active = q.active \ {CfsTimer}
          /\ p.inactive = q.inactive \cup {CfsTimer}
          /\ p.expireAt[WaitTimer] = q.expireAt[WaitTimer]
          /\ p.missPanic = q.missPanic
        <3>1. armed \in KTimerQueues
            BY <2>3
        <3>2. /\ p \in KTimerQueues
              /\ p.active = armed.active \ {CfsTimer}
              /\ p.inactive = armed.inactive \cup {CfsTimer}
              /\ p.expireAt = armed.expireAt
              /\ p.missPanic = armed.missPanic
            BY <1>1, <3>1, EnqueueInactiveEffect
        <3> HIDE DEF p
        <3>3. QED
            BY <2>3, <2>4, <3>2
    <2> HIDE DEF p
    <2>6. QED
        BY <2>1, <2>5 DEF p
<1>3. CASE CfsTimer \notin q.active
    <2> DEFINE r == Rearm(q, CfsTimer)
    <2>1. DispatchCfsTimer(q, ran) = EnqueueActive(r, CfsTimer)
        BY <1>3 DEF DispatchCfsTimer
    <2>2. /\ r \in KTimerQueues
          /\ r.active = q.active
          /\ r.inactive = q.inactive
          /\ r.expireAt[WaitTimer] = q.expireAt[WaitTimer]
          /\ r.missPanic = q.missPanic
        BY <1>1, RearmEffect
    <2> HIDE DEF r
    <2>3. QED
        BY <1>1, <2>1, <2>2, EnqueueActiveEffect
<1>4. QED
    BY <1>2, <1>3

\* An expired RT timer starts its next job, or its deadline miss panics.
LEMMA DispatchRtEffect ==
    ASSUME NEW q \in KTimerQueues, NEW t \in RtThreads
    PROVE  LET p == DispatchRtTimer(q, t)
           IN  /\ p \in KTimerQueues
               /\ p.active \ {t} = q.active \ {t}
               /\ p.inactive = q.inactive \ {t}
               /\ p.expireAt[WaitTimer] = q.expireAt[WaitTimer]
               /\ q.missPanic => p.missPanic
               /\ ~p.missPanic => t \in p.active
<1>1. t \in Timers /\ t \in RtThreads \cup {CfsTimer}
    BY DEF Timers
<1>2. CASE t \in q.active /\ IsRealDeadlineMiss(q, t)
    <2>1. DispatchRtTimer(q, t) = RecordDeadlineMiss(q, t)
        BY <1>2 DEF DispatchRtTimer
    <2>2. QED
        BY <2>1, RecordDeadlineMissEffect
<1>3. CASE ~(t \in q.active /\ IsRealDeadlineMiss(q, t))
    <2> DEFINE r == Rearm(q, t)
    <2>1. DispatchRtTimer(q, t) = EnqueueActive(r, t)
        BY <1>3 DEF DispatchRtTimer
    <2>2. /\ r \in KTimerQueues
          /\ r.active = q.active
          /\ r.inactive = q.inactive
          /\ r.expireAt[WaitTimer] = q.expireAt[WaitTimer]
          /\ r.missPanic = q.missPanic
        BY <1>1, RearmEffect
    <2> HIDE DEF r
    <2>3. QED
        BY <1>1, <2>1, <2>2, EnqueueActiveEffect
<1>4. QED
    BY <1>2, <1>3

\* The SysTick reload is one the hardware can count.  A reload of R fires
\* after R + 1 ticks: not later than the timer's deadline, unless it is the
\* shortest interval.
LEMMA ReloadForEffect ==
    ASSUME NEW q \in KTimerQueues, NEW tm \in Timers
    PROVE  /\ ReloadFor(q, tm) \in ReloadMin .. ReloadMax
           /\ \/ q.now + ReloadFor(q, tm) + 1 <= q.expireAt[tm]
              \/ ReloadFor(q, tm) = ReloadMin
<1> DEFINE left  == SatSub(q.expireAt[tm], q.now)
           most  == IF CfsExec < ReloadMax THEN CfsExec ELSE ReloadMax
           ticks == IF tm = CfsTimer THEN Clamp(left, 0, most) ELSE left
<1>1. q.expireAt[tm] \in Nat /\ q.now \in Nat
    BY QueueFields
<1>2. /\ left \in Nat
      /\ left > 0 => q.now + left = q.expireAt[tm]
      /\ left = 0 => q.expireAt[tm] <= q.now
    BY <1>1 DEF SatSub
<1>3. ReloadFor(q, tm) = Clamp(SatSub(ticks, 1), ReloadMin, ReloadMax)
    BY DEF ReloadFor
<1> HIDE DEF left
<1>4. ticks \in Nat /\ ticks <= left
    BY <1>2, TimingAssumption DEF Clamp, ReloadMin
<1> HIDE DEF ticks
<1>5. /\ ReloadFor(q, tm) \in ReloadMin .. ReloadMax
      /\ ReloadFor(q, tm) + 1 <= left \/ ReloadFor(q, tm) = ReloadMin
    BY <1>2, <1>3, <1>4, TimingAssumption DEF Clamp, SatSub, ReloadMin
<1> HIDE DEF ReloadMin
<1>6. QED
    <2>1. ReloadFor(q, tm) \in Nat
        BY <1>5, TimingAssumption DEF ReloadMin
    <2>2. QED
        BY <1>1, <1>2, <1>5, <2>1 DEF ReloadMin

-----------------------------------------------------------------------------
(* What a step of dispatch_expired leaves due.                             *)

\* Only the timer tm may have another place or another expiration in p.
OnlyChanged(p, q, tm) ==
    /\ p.now = q.now
    /\ p.active \ {tm} = q.active \ {tm}
    /\ p.inactive \ {tm} = q.inactive \ {tm}
    /\ \A a \in Timers \ {tm} : p.expireAt[a] = q.expireAt[a]

LEMMA RearmLater ==
    ASSUME NEW q \in KTimerQueues, q.now < Never, NEW tm \in RtThreads \cup {CfsTimer}
    PROVE  Rearm(q, tm).expireAt[tm] > q.now
<1>1. q.expireAt \in [Timers -> Nat] /\ q.now \in Nat /\ tm \in Timers
    BY QueueFields DEF Timers
<1>2. ASSUME NEW d \in Nat \ {0} PROVE SatAdd(q.now, d) > q.now
    BY <1>1, TimingAssumption DEF SatAdd
<1>3. CASE tm = CfsTimer
    <2> DEFINE at == SatAdd(q.now, CfsPeriod)
    <2>1. at > q.now
        BY <1>2, TimingAssumption
    <2>2. Rearm(q, tm) = [q EXCEPT !.expireAt = [q.expireAt EXCEPT ![tm] = at]]
        BY <1>3 DEF Rearm, SetExpireAt
    <2> HIDE DEF at
    <2>3. QED
        BY <1>1, <2>1, <2>2 DEF KTimerQueues
<1>4. CASE tm # CfsTimer
    <2> DEFINE at == SatAdd(q.now, Deadline[tm])
               rt == [q.runtime EXCEPT ![tm] = 0]
    <2>1. at > q.now
        BY <1>2, <1>4, TimingAssumption
    <2>2. Rearm(q, tm) = [q EXCEPT !.runtime = rt,
                                   !.expireAt = [q.expireAt EXCEPT ![tm] = at]]
        BY <1>4 DEF Rearm
    <2> HIDE DEF at, rt
    <2>3. QED
        BY <1>1, <2>1, <2>2 DEF KTimerQueues
<1>5. QED
    BY <1>3, <1>4

\* A timer that is queued as active after Rearm.
LEMMA RearmQueued ==
    ASSUME NEW q \in KTimerQueues, q.now < Never, NEW tm \in RtThreads \cup {CfsTimer}
    PROVE  LET p == EnqueueActive(Rearm(q, tm), tm)
           IN  OnlyChanged(p, q, tm) /\ p.expireAt[tm] > p.now
<1> DEFINE r == Rearm(q, tm)
           p == EnqueueActive(r, tm)
<1>1. /\ r \in KTimerQueues /\ r.now = q.now
      /\ r.active = q.active /\ r.inactive = q.inactive
    BY RearmEffect
<1>2. r.expireAt[tm] > q.now /\ \A a \in Timers \ {tm} : r.expireAt[a] = q.expireAt[a]
    BY RearmLater, RearmOthers
<1> HIDE DEF r
<1>3. /\ p.now = r.now /\ p.expireAt = r.expireAt
      /\ p.active = r.active \cup {tm} /\ p.inactive = r.inactive \ {tm}
    BY <1>1, EnqueueActiveEffect DEF Timers
<1> HIDE DEF p
<1>4. OnlyChanged(p, q, tm) /\ p.expireAt[tm] > p.now
    BY <1>1, <1>2, <1>3 DEF OnlyChanged
<1>5. QED
    BY <1>4 DEF p, r

LEMMA WakeRtClock ==
    ASSUME NEW q \in KTimerQueues, NEW t \in RtThreads, NEW ran \in Nat
    PROVE  WakeRtTimer(q, t, ran).now = q.now
<1> DEFINE charged == ChargeRuntime(q, t, ran)
           at      == SatAdd(q.now, SatSub(Deadline[t], charged.runtime[t]))
           armed   == SetExpireAt(charged, t, at)
<1>1. charged \in KTimerQueues /\ charged.now = q.now /\ t \in Timers
    BY ChargeRuntimeEffect DEF Timers
<1> HIDE DEF charged
<1>2. at \in Nat
    <2>1. charged.runtime[t] \in Nat /\ Deadline[t] \in Nat /\ q.now \in Nat
        BY <1>1, QueueFields, TimingAssumption
    <2>2. SatSub(Deadline[t], charged.runtime[t]) \in Nat
        BY <2>1, SatNat
    <2>3. QED
        BY <2>1, <2>2, SatNat
<1> HIDE DEF at
<1>3. armed \in KTimerQueues /\ armed.now = q.now
    BY <1>1, <1>2, SetExpireAtEffect
<1>4. WakeRtTimer(q, t, ran) = EnqueueActive(armed, t)
    BY DEF WakeRtTimer, at, charged
<1> HIDE DEF armed
<1>5. QED
    BY <1>1, <1>3, <1>4, EnqueueActiveEffect

\* The end of a CFS slice parks the timer, which may still be due; the next
\* slice begins with a deadline ahead.
LEMMA DispatchCfsDue ==
    ASSUME NEW q \in KTimerQueues, q.now < Never, NEW ran \in Nat
    PROVE  LET p == DispatchCfsTimer(q, ran)
           IN  /\ OnlyChanged(p, q, CfsTimer)
               /\ CfsTimer \in q.active => CfsTimer \notin p.active
               /\ CfsTimer \notin q.active => p.expireAt[CfsTimer] > p.now
<1>1. CfsTimer \in Timers /\ q.expireAt \in [Timers -> Nat]
    BY QueueFields DEF Timers
<1>2. CASE CfsTimer \in q.active
    <2> DEFINE at == SatAdd(q.now, SatSub(CfsPeriod, ran))
               s  == SetExpireAt(q, CfsTimer, at)
               p  == EnqueueInactive(s, CfsTimer)
    <2>1. DispatchCfsTimer(q, ran) = p
        BY <1>2 DEF DispatchCfsTimer
    <2>2. at \in Nat
        <3>1. SatSub(CfsPeriod, ran) \in Nat /\ q.now \in Nat
            BY SatNat, QueueFields, TimingAssumption
        <3>2. QED
            BY <3>1, SatNat
    <2> HIDE DEF at
    <2>3. /\ s \in KTimerQueues /\ s.now = q.now
          /\ s.active = q.active /\ s.inactive = q.inactive
          /\ s.expireAt = [q.expireAt EXCEPT ![CfsTimer] = at]
        BY <1>1, <2>2, SetExpireAtEffect
    <2> HIDE DEF s
    <2>4. /\ p.now = s.now /\ p.expireAt = s.expireAt
          /\ p.active = s.active \ {CfsTimer} /\ p.inactive = s.inactive \cup {CfsTimer}
        BY <1>1, <2>3, EnqueueInactiveEffect
    <2> HIDE DEF p
    <2>5. OnlyChanged(p, q, CfsTimer) /\ CfsTimer \notin p.active
        BY <1>1, <2>3, <2>4 DEF OnlyChanged
    <2>6. QED
        BY <1>2, <2>1, <2>5
<1>3. CASE CfsTimer \notin q.active
    BY <1>3, RearmQueued DEF DispatchCfsTimer
<1>4. QED
    BY <1>2, <1>3

\* An expired RT timer gets a deadline ahead, or its miss panics.
LEMMA DispatchRtDue ==
    ASSUME NEW q \in KTimerQueues, q.now < Never, NEW t \in RtThreads,
           ~DispatchRtTimer(q, t).missPanic
    PROVE  LET p == DispatchRtTimer(q, t)
           IN  OnlyChanged(p, q, t) /\ p.expireAt[t] > p.now
<1>1. DispatchRtTimer(q, t) = EnqueueActive(Rearm(q, t), t)
    BY RecordDeadlineMissEffect DEF DispatchRtTimer
<1>2. QED
    BY <1>1, RearmQueued

-----------------------------------------------------------------------------
(* The scheduler.                                                          *)

\* TypeOK with what its induction needs: re-arming never meets the wait timer,
\* SysTick is programmed from a queued timer and fires only after the start,
\* and CURRENT_THREAD_IS_CFS is true of CFS threads only.
TypeInv ==
    /\ TypeOK
    /\ WaitTimer \notin kq.active
    /\ tick # "wake" /\ ~kq.missPanic => WaitTimer \in kq.inactive
    /\ currentIsCfs => current \in CfsThreads
    /\ tick # "off" => started

-----------------------------------------------------------------------------
(* Types of the helpers.                                                   *)

LEMMA DivNat ==
    ASSUME NEW a \in Nat, NEW b \in Nat, NEW d \in Nat \ {0}
    PROVE  (a * b) \div d \in Nat
<1>1. a * b \in Nat
    OBVIOUS
<1>2. \A n \in Nat : n \div d \in Nat
    OBVIOUS
<1>3. QED
    BY <1>1, <1>2

\* The wait deadline is never later than the wake-up of any sleeper.
LEMMA EarliestWakeEffect ==
    ASSUME NEW tree \in SUBSET Threads, NEW wake \in [Threads -> Nat]
    PROVE  /\ EarliestWake(tree, wake) \in Nat
           /\ \A t \in tree : EarliestWake(tree, wake) <= wake[t]
<1>1. CASE tree = {}
    BY <1>1, TimingAssumption DEF EarliestWake
<1>2. CASE tree # {}
    <2>1. \A a \in tree : wake[a] \in Nat /\ ThreadAddr[a] \in Nat
        BY ThreadAddrAssumption
    <2>2. \A a, b \in tree : ThreadAddr[a] = ThreadAddr[b] => a = b
        BY ThreadAddrAssumption
    <2>3. /\ Leftmost(tree, wake, ThreadAddr) \in tree
          /\ \A b \in tree : wake[Leftmost(tree, wake, ThreadAddr)] <= wake[b]
        BY <1>2, <2>1, <2>2, LeftmostExists
    <2>4. QED
        BY <1>2, <2>1, <2>3 DEF EarliestWake
<1>3. QED
    BY <1>1, <1>2

\* The leftmost entity of a run queue has the least vruntime.
LEMMA LeftmostCfs ==
    ASSUME NEW Q \in SUBSET CfsThreads, Q # {}, NEW v \in [CfsThreads -> Nat]
    PROVE  /\ Leftmost(Q, v, ThreadAddr) \in Q
           /\ \A b \in Q : v[Leftmost(Q, v, ThreadAddr)] <= v[b]
<1>1. \A a \in Q : v[a] \in Nat /\ ThreadAddr[a] \in Nat
    BY ThreadAddrAssumption DEF Threads
<1>2. \A a, b \in Q : ThreadAddr[a] = ThreadAddr[b] => a = b
    BY ThreadAddrAssumption DEF Threads
<1>3. QED
    BY <1>1, <1>2, LeftmostExists

LEMMA VruntimeFromLeftmostType ==
    ASSUME TypeOK, NEW t \in CfsThreads
    PROVE  VruntimeFromLeftmost(t) \in [CfsThreads -> Nat]
<1>1. runq \in SUBSET CfsThreads /\ vruntime \in [CfsThreads -> Nat]
    BY DEF TypeOK
<1>2. CASE runq = {}
    BY <1>1, <1>2 DEF VruntimeFromLeftmost
<1>3. CASE runq # {}
    <2>1. Leftmost(runq, vruntime, ThreadAddr) \in CfsThreads
        BY <1>1, <1>3, LeftmostCfs
    <2>2. QED
        BY <1>1, <1>3, <2>1 DEF VruntimeFromLeftmost
<1>4. QED
    BY <1>2, <1>3

LEMMA ChargedVruntimeType ==
    ASSUME TypeOK, currentIsCfs => current \in CfsThreads
    PROVE  ChargedVruntime \in [CfsThreads -> Nat]
<1>1. /\ vruntime \in [CfsThreads -> Nat] /\ prioritySum \in Nat
      /\ reload \in ReloadMin .. ReloadMax
    BY DEF TypeOK
<1>2. CASE currentIsCfs /\ state[current] = "Running" /\ prioritySum # 0
    <2>1. reload + 1 \in Nat
        BY <1>1, TimingAssumption DEF ReloadMin
    <2>2. Priority[current] \in Nat /\ prioritySum \in Nat \ {0}
        BY <1>1, <1>2, PriorityAssumption
    <2>3. ((reload + 1) * Priority[current]) \div prioritySum \in Nat
        BY <2>1, <2>2, DivNat
    <2>4. QED
        BY <1>1, <1>2, <2>3 DEF ChargedVruntime
<1>3. CASE ~(currentIsCfs /\ state[current] = "Running" /\ prioritySum # 0)
    BY <1>1, <1>3 DEF ChargedVruntime
<1>4. QED
    BY <1>2, <1>3

\* Some timer is always queued once the wait timer is.
LEMMA FirstEffect ==
    ASSUME NEW q \in KTimerQueues, WaitTimer \in q.inactive
    PROVE  /\ First(q) \in q.active \cup q.inactive
           /\ First(q) \in Timers
           /\ \A tm \in q.active \cup q.inactive :
                 q.expireAt[First(q)] <= q.expireAt[tm]
<1> DEFINE S == q.active \cup q.inactive
<1>1. S \in SUBSET Timers /\ S # {} /\ q.expireAt \in [Timers -> Nat]
    BY QueueFields
<1> HIDE DEF S
<1>2. First(q) \in S /\ \A tm \in S : q.expireAt[First(q)] <= q.expireAt[tm]
    BY <1>1, FirstOfMember DEF First, S
<1>3. QED
    BY <1>1, <1>2 DEF S

\* Selecting the first active timer changes nothing else.
LEMMA SelectEffect ==
    ASSUME NEW q \in KTimerQueues
    PROVE  LET p == [q EXCEPT !.next = FirstActive(q)]
           IN  /\ p \in KTimerQueues
               /\ p.active = q.active
               /\ p.inactive = q.inactive
               /\ p.expireAt = q.expireAt
               /\ p.missPanic = q.missPanic
               /\ p.next = FirstActive(p)
<1> DEFINE p == [q EXCEPT !.next = FirstActive(q)]
<1>1. FirstActive(q) \in Timers \cup {NoTimer}
    <2>1. q.active \in SUBSET Timers /\ q.expireAt \in [Timers -> Nat]
        BY QueueFields
    <2>2. QED
        BY <2>1, FirstOfMember DEF FirstActive
<1>2. /\ p \in KTimerQueues
      /\ p.active = q.active
      /\ p.inactive = q.inactive
      /\ p.expireAt = q.expireAt
      /\ p.missPanic = q.missPanic
      /\ p.next = FirstActive(q)
    BY <1>1 DEF KTimerQueues
<1> HIDE DEF p
<1>3. FirstActive(p) = FirstActive(q)
    BY <1>2 DEF FirstActive
<1>4. QED
    BY <1>2, <1>3 DEF p

LEMMA TimerOfType ==
    ASSUME NEW t \in Threads
    PROVE  TimerOf(t) \in RtThreads \cup {CfsTimer}
BY DEF TimerOf, Threads

-----------------------------------------------------------------------------
(* What each call leaves in the timer queue.                               *)

LEMMA YieldyiKq ==
    ASSUME TypeInv, Yieldyi
    PROVE  /\ kq' \in KTimerQueues
           /\ kq'.active = kq.active \ {TimerOf(current)}
           /\ kq'.inactive = kq.inactive \cup {TimerOf(current)}
           /\ kq'.expireAt[WaitTimer] = kq.expireAt[WaitTimer]
           /\ kq'.missPanic = kq.missPanic
           /\ kq'.next = FirstActive(kq')
<1>1. PICK ran \in 0 .. reload :
          kq' = [YieldKTimer(kq, TimerOf(current), ran, TRUE) EXCEPT !.next =
                    FirstActive(YieldKTimer(kq, TimerOf(current), ran, TRUE))]
    BY DEF Yieldyi
<1> DEFINE q == YieldKTimer(kq, TimerOf(current), ran, TRUE)
<1>2. kq \in KTimerQueues /\ ran \in Nat
    BY TimingAssumption DEF TypeInv, TypeOK, ReloadMin
<1>3. TimerOf(current) \in RtThreads \cup {CfsTimer}
    BY TimerOfType DEF Yieldyi, TypeInv, TypeOK
<1>4. /\ q \in KTimerQueues
      /\ q.active = kq.active \ {TimerOf(current)}
      /\ q.inactive = kq.inactive \cup {TimerOf(current)}
      /\ q.expireAt[WaitTimer] = kq.expireAt[WaitTimer]
      /\ q.missPanic = kq.missPanic
    <2>1. \A reset \in BOOLEAN :
             LET y == YieldKTimer(kq, TimerOf(current), ran, reset)
             IN  /\ y \in KTimerQueues
                 /\ y.active = kq.active \ {TimerOf(current)}
                 /\ y.inactive = kq.inactive \cup {TimerOf(current)}
                 /\ y.expireAt[WaitTimer] = kq.expireAt[WaitTimer]
                 /\ y.missPanic = kq.missPanic
        BY <1>2, <1>3, YieldEffect
    <2>2. QED
        BY <2>1, Zenon
<1>5. kq' = [q EXCEPT !.next = FirstActive(q)]
    BY <1>1
<1> HIDE DEF q
<1>6. QED
    BY <1>4, <1>5, SelectEffect

\* What a blocking call of t makes of the timer queue: yield_ktimer, then an RT
\* timer leaves the trees, then program_wait_ktimer.
Parked(q0, t, ran, wakeup) ==
    LET q == YieldKTimer(q0, TimerOf(t), ran, FALSE)
    IN  ProgramWaitKTimer(IF t \in RtThreads THEN RemoveKTimer(q, t) ELSE q, wakeup)

\* p is q0 with an RT thread's timer out of both trees, or the CFS timer parked,
\* and the wait timer armed for wakeup.
IsParked(p, q0, t, wakeup) ==
    /\ p \in KTimerQueues
    /\ p.active \subseteq q0.active \ {TimerOf(t)}
    /\ p.inactive \subseteq q0.inactive \cup {TimerOf(t), WaitTimer}
    /\ p.expireAt[WaitTimer] = wakeup
    /\ ~p.missPanic => /\ p.active = q0.active \ {TimerOf(t)}
                       /\ p.next = FirstActive(p)
    /\ ~p.missPanic /\ WaitTimer \in q0.inactive =>
          p.inactive = IF t \in RtThreads THEN q0.inactive \ {t}
                       ELSE q0.inactive \cup {CfsTimer}

LEMMA ParkedEffect ==
    ASSUME NEW q0 \in KTimerQueues, WaitTimer \notin q0.active, NEW t \in Threads,
           NEW ran \in Nat, NEW wakeup \in Nat
    PROVE  IsParked(Parked(q0, t, ran, wakeup), q0, t, wakeup)
<1> DEFINE q  == YieldKTimer(q0, TimerOf(t), ran, FALSE)
           q1 == IF t \in RtThreads THEN RemoveKTimer(q, t) ELSE q
<1>1. /\ TimerOf(t) \in RtThreads \cup {CfsTimer}
      /\ t \in RtThreads => TimerOf(t) = t
      /\ t \notin RtThreads => TimerOf(t) = CfsTimer
    BY ThreadsDistinct DEF TimerOf, Threads
<1>2. /\ q \in KTimerQueues
      /\ q.active = q0.active \ {TimerOf(t)}
      /\ q.inactive = q0.inactive \cup {TimerOf(t)}
    <2>1. \A reset \in BOOLEAN :
             LET y == YieldKTimer(q0, TimerOf(t), ran, reset)
             IN  /\ y \in KTimerQueues
                 /\ y.active = q0.active \ {TimerOf(t)}
                 /\ y.inactive = q0.inactive \cup {TimerOf(t)}
                 /\ y.expireAt[WaitTimer] = q0.expireAt[WaitTimer]
                 /\ y.missPanic = q0.missPanic
        BY <1>1, YieldEffect
    <2>2. QED
        BY <2>1, Zenon
<1> HIDE DEF q
<1>3. /\ q1 \in KTimerQueues
      /\ q1.active \subseteq q0.active \ {TimerOf(t)}
      /\ q1.inactive \subseteq q0.inactive \cup {TimerOf(t)}
      /\ ~q1.missPanic =>
            /\ q1.active = q0.active \ {TimerOf(t)}
            /\ q1.inactive = IF t \in RtThreads THEN q0.inactive \ {t}
                             ELSE q0.inactive \cup {CfsTimer}
    <2>1. CASE t \in RtThreads
        <3> DEFINE r == RemoveKTimer(q, t)
        <3>1. WaitTimer \notin q.active
            BY <1>2
        <3>2. /\ r \in KTimerQueues
              /\ r.active \subseteq q.active \ {t}
              /\ r.inactive \subseteq q.inactive \ {t}
              /\ ~r.missPanic => /\ r.active = q.active \ {t}
                                 /\ r.inactive = q.inactive \ {t}
            BY <1>2, <2>1, <3>1, RemoveKTimerEffect
        <3>3. q1 = r
            BY <2>1
        <3> HIDE DEF r, q1
        <3>4. QED
            BY <1>1, <1>2, <2>1, <3>2, <3>3
    <2>2. CASE t \notin RtThreads
        BY <1>1, <1>2, <2>2
    <2>3. QED
        BY <2>1, <2>2
<1> HIDE DEF q1
<1> DEFINE p == ProgramWaitKTimer(q1, wakeup)
<1>4. /\ p \in KTimerQueues
      /\ p.active \subseteq q1.active
      /\ p.inactive \subseteq q1.inactive \cup {WaitTimer}
      /\ p.expireAt[WaitTimer] = wakeup
      /\ q1.missPanic => p.missPanic
      /\ ~p.missPanic => p.active = q1.active /\ p.next = FirstActive(p)
      /\ ~p.missPanic /\ WaitTimer \in q1.inactive => p.inactive = q1.inactive
    <2>1. WaitTimer \notin q1.active
        BY <1>3
    <2>2. QED
        BY <1>3, <2>1, ProgramWaitEffect
<1> HIDE DEF p
<1>5. ~q1.missPanic /\ WaitTimer \in q0.inactive => WaitTimer \in q1.inactive
    BY <1>3, TimersDistinct
<1>6. IsParked(p, q0, t, wakeup)
    BY <1>3, <1>4, <1>5 DEF IsParked
<1>7. Parked(q0, t, ran, wakeup) = p
    BY DEF Parked, p, q1, q
<1>8. QED
    BY <1>6, <1>7

\* A thread that blocks, in any of the calls that block: the wait timer stands
\* for the sleepers as they are after the step.
LEMMA MoveToWaitQueueKq ==
    ASSUME TypeInv, current \in Threads, NEW ran \in Nat, NEW wake \in Nat,
           MoveToWaitQueue(YieldKTimer(kq, TimerOf(current), ran, FALSE), wake)
    PROVE  IsParked(kq', kq, current, EarliestWake(waitTree', wakeAt'))
<1> DEFINE e == EarliestWake(waitTree', wakeAt')
<1>1. kq' = Parked(kq, current, ran, e)
    <2>1. CASE current \in CfsThreads
        <3>1. current \notin RtThreads
            BY <2>1, ThreadsDistinct
        <3>2. kq' = ProgramWaitKTimer(YieldKTimer(kq, TimerOf(current), ran, FALSE), e)
            BY <2>1 DEF MoveToWaitQueue, DequeueRunqToWaitq
        <3> HIDE DEF e
        <3>3. QED
            BY <3>1, <3>2 DEF Parked
    <2>2. CASE current \notin CfsThreads
        <3>1. current \in RtThreads
            BY <2>2 DEF Threads
        <3>2. kq' = ProgramWaitKTimer(
                        RemoveKTimer(YieldKTimer(kq, TimerOf(current), ran, FALSE), current), e)
            BY <2>2 DEF MoveToWaitQueue, DequeueKTimerqToWaitq
        <3> HIDE DEF e
        <3>3. QED
            BY <3>1, <3>2 DEF Parked
    <2>3. QED
        BY <2>1, <2>2
<1>2. kq \in KTimerQueues /\ WaitTimer \notin kq.active
    BY DEF TypeInv, TypeOK
<1>3. e \in Nat
    <2>1. wakeAt' \in [Threads -> Nat] /\ waitTree' \in SUBSET Threads
        BY DEF MoveToWaitQueue, DequeueRunqToWaitq,
            DequeueKTimerqToWaitq, InsertWaitThread, TypeInv, TypeOK
    <2>2. QED
        BY <2>1, EarliestWakeEffect
<1> HIDE DEF e
<1>4. IsParked(kq', kq, current, e)
    BY <1>1, <1>2, <1>3, ParkedEffect
<1>5. QED
    BY <1>4 DEF e

\* A thread that is handed back over the timer queue q.
LEMMA HandBackKq ==
    ASSUME TypeInv, NEW q0 \in KTimerQueues, WaitTimer \notin q0.active,
           ~q0.missPanic => WaitTimer \in q0.inactive,
           NEW t \in Threads, HandBack(q0, t)
    PROVE  /\ kq' \in KTimerQueues
           /\ WaitTimer \notin kq'.active
           /\ kq'.expireAt[WaitTimer] = EarliestWake(waitTree', wakeAt')
           /\ kq'.active \cap kq'.inactive \subseteq q0.active \cap q0.inactive
           /\ q0.missPanic => kq'.missPanic
           /\ ~kq'.missPanic =>
                 /\ WaitTimer \in kq'.inactive
                 /\ kq'.next = FirstActive(kq')
                 /\ kq'.active \cup kq'.inactive = q0.active \cup q0.inactive \cup
                        (IF t \in RtThreads THEN {t} ELSE {})
<1> DEFINE q == IF t \in RtThreads THEN ReinsertKTimer(q0, t) ELSE q0
           e == EarliestWake(waitTree, wakeAt)
           p == ProgramWaitKTimer(q, e)
<1>1. kq' = p /\ EarliestWake(waitTree', wakeAt') = e
    BY DEF HandBack, EnqueueRunqFromWaitq
<1>2. e \in Nat
    BY EarliestWakeEffect DEF TypeInv, TypeOK
<1> HIDE DEF e
<1>3. /\ q \in KTimerQueues
      /\ WaitTimer \notin q.active
      /\ q.active \cap q.inactive \subseteq q0.active \cap q0.inactive
      /\ q0.missPanic => q.missPanic
      /\ ~q.missPanic =>
            /\ q.active \cup q.inactive = q0.active \cup q0.inactive \cup
                   (IF t \in RtThreads THEN {t} ELSE {})
            /\ WaitTimer \in q.inactive
    <2>1. CASE t \in RtThreads
        <3> DEFINE r == ReinsertKTimer(q0, t)
        <3>1. /\ r \in KTimerQueues
              /\ r.active \subseteq q0.active \cup {t}
              /\ r.inactive \subseteq q0.inactive \ {t}
              /\ q0.missPanic => r.missPanic
              /\ ~r.missPanic => /\ r.active = q0.active \cup {t}
                                 /\ r.inactive = q0.inactive \ {t}
            BY <2>1, ReinsertEffect
        <3>2. q = r
            BY <2>1
        <3> HIDE DEF r, q
        <3>3. QED
            BY <2>1, <3>1, <3>2, TimersDistinct
    <2>2. CASE t \notin RtThreads
        BY <2>2
    <2>3. QED
        BY <2>1, <2>2
<1> HIDE DEF q
<1>4. /\ p \in KTimerQueues
      /\ p.active \subseteq q.active
      /\ p.inactive \subseteq q.inactive \cup {WaitTimer}
      /\ p.expireAt[WaitTimer] = e
      /\ q.missPanic => p.missPanic
      /\ ~p.missPanic => p.active = q.active /\ p.next = FirstActive(p)
      /\ ~p.missPanic /\ WaitTimer \in q.inactive => p.inactive = q.inactive
    BY <1>2, <1>3, ProgramWaitEffect
<1> HIDE DEF p
<1>5. QED
    BY <1>1, <1>3, <1>4

-----------------------------------------------------------------------------
(* Types.                                                                  *)

LEMMA TypeInit == Init => TypeInv
<1> SUFFICES ASSUME Init PROVE TypeInv
    OBVIOUS
<1>1. EmptyQueue.expireAt \in [Timers -> Nat]
    BY TimingAssumption DEF EmptyQueue, Timers
<1>2. EmptyQueue \in KTimerQueues
    BY <1>1 DEF EmptyQueue, KTimerQueues, Timers
<1>3. WaitTimer \notin EmptyQueue.active /\ WaitTimer \in EmptyQueue.inactive
    BY DEF EmptyQueue
<1>4. ReloadMin \in ReloadMin .. ReloadMax
    BY TimingAssumption DEF ReloadMin
<1> HIDE DEF ReloadMin
<1>5. QED
    BY <1>2, <1>3, <1>4, TimersDistinct DEF Init, TypeInv, TypeOK, ThreadStates

LEMMA TypeBoot == TypeInv /\ Boot => TypeInv'
<1> SUFFICES ASSUME TypeInv, Boot PROVE TypeInv'
    OBVIOUS
<1> USE DEF TypeInv
<1>1. kq \in KTimerQueues /\ WaitTimer \notin kq.active
    BY DEF TypeOK
<1>2. CASE InitCfs
    <2> DEFINE s == SetExpireAt(kq, CfsTimer, CfsExec)
    <2>1. s \in KTimerQueues /\ s.active = kq.active /\ s.inactive = kq.inactive
        <3>1. CfsTimer \in Timers /\ CfsExec \in Nat
            BY TimingAssumption DEF Timers
        <3>2. QED
            BY <1>1, <3>1, SetExpireAtEffect
    <2>2. kq' = ReinsertKTimer(s, CfsTimer)
        BY <1>2 DEF InitCfs
    <2> HIDE DEF s
    <2>3. /\ kq' \in KTimerQueues
          /\ kq'.active \subseteq kq.active \cup {CfsTimer}
          /\ ~kq'.missPanic => kq'.inactive = kq.inactive \ {CfsTimer}
        BY <1>1, <2>1, <2>2, ReinsertEffect
    <2>4. QED
        BY <1>2, <2>3, TimersDistinct
        DEF InitCfs, Alive, TypeOK, waitVars, cpuVars, tickVars
<1>3. ASSUME NEW t \in CfsThreads, SpawnCfs(t) PROVE TypeInv'
    <2>1. vruntime' \in [CfsThreads -> Nat]
        BY <1>3, VruntimeFromLeftmostType DEF SpawnCfs
    <2>2. prioritySum' \in Nat
        BY <1>3, PriorityAssumption DEF SpawnCfs, TypeOK
    <2>3. QED
        BY <1>3, <2>1, <2>2
        DEF SpawnCfs, TypeOK, ThreadStates, waitVars, cpuVars, tickVars
<1>4. ASSUME NEW t \in RtThreads, SpawnRt(t) PROVE TypeInv'
    <2>1. /\ kq' \in KTimerQueues
          /\ kq'.active \subseteq kq.active \cup {t}
          /\ ~kq'.missPanic => kq'.inactive = kq.inactive \ {t}
        BY <1>1, <1>4, ReinsertEffect DEF SpawnRt
    <2>2. QED
        BY <1>4, <2>1, TimersDistinct
        DEF SpawnRt, Alive, TypeOK, ThreadStates, queueVars, waitVars, cpuVars, tickVars
<1>5. CASE StartScheduler
    <2>1. reload' \in ReloadMin .. ReloadMax
        BY <1>1, <1>5, FirstEffect, ReloadForEffect DEF StartScheduler, Alive
    <2>2. QED
        BY <1>5, <2>1
        DEF StartScheduler, TypeOK, ThreadStates, queueVars, waitVars, tickVars
<1>6. QED
    BY <1>2, <1>3, <1>4, <1>5 DEF Boot

LEMMA TypeThreadCall == TypeInv /\ ThreadCall => TypeInv'
<1> SUFFICES ASSUME TypeInv, ThreadCall PROVE TypeInv'
    OBVIOUS
<1> USE DEF TypeInv
<1>1. kq \in KTimerQueues /\ WaitTimer \notin kq.active
    BY DEF TypeOK
<1>2. CASE Yieldyi
    <2>1. current \in Threads
        BY <1>2 DEF Yieldyi, TypeOK
    <2>2. TimerOf(current) # WaitTimer
        BY <2>1, TimerOfType, TimersDistinct
    <2>3. kq' \in KTimerQueues /\ WaitTimer \notin kq'.active
        BY <1>1, <1>2, YieldyiKq
    <2>4. kq.inactive \subseteq kq'.inactive /\ kq'.missPanic = kq.missPanic
        BY <1>2, YieldyiKq
    <2>5. QED
        BY <1>2, <2>3, <2>4
        DEF Yieldyi, ThreadMode, TypeOK, queueVars, waitVars, cpuVars, tickVars
<1>3. ASSUME NEW wake \in Nat, NEW ran \in Nat,
             ThreadMode, current # Idle,
             MoveToWaitQueue(YieldKTimer(kq, TimerOf(current), ran, FALSE), wake),
             pendsv' = TRUE,
             UNCHANGED <<runq, vruntime, cpuVars, reload, tickVars, assertFailed>>
      PROVE  TypeInv'
    <2>1. current \in Threads
        BY <1>3 DEF TypeOK
    <2>2. WaitTimer \in kq.inactive
        BY <1>3 DEF ThreadMode, Alive
    <2>3. /\ kq' \in KTimerQueues
          /\ WaitTimer \notin kq'.active
          /\ ~kq'.missPanic => WaitTimer \in kq'.inactive
        <3>1. IsParked(kq', kq, current, EarliestWake(waitTree', wakeAt'))
            BY <1>3, <2>1, MoveToWaitQueueKq
        <3>2. QED
            BY <1>1, <2>2, <3>1, TimersDistinct DEF IsParked
    <2>4. prioritySum' \in Nat
        <3>1. CASE current \in CfsThreads
            <4>1. prioritySum' = SatSub(prioritySum, Priority[current])
                BY <1>3, <3>1 DEF MoveToWaitQueue, DequeueRunqToWaitq
            <4>2. QED
                BY <3>1, <4>1, SatNat, PriorityAssumption DEF TypeOK
        <3>2. CASE current \notin CfsThreads
            BY <1>3, <3>2 DEF MoveToWaitQueue, DequeueKTimerqToWaitq, TypeOK
        <3>3. QED
            BY <3>1, <3>2
    <2>5. /\ wakeAt' \in [Threads -> Nat]
          /\ waitTree' \subseteq Threads /\ suspended' \subseteq Threads
          /\ state' \in [Threads \cup {Idle} -> ThreadStates]
        BY <1>3, <2>1, ZenonT(30) DEF MoveToWaitQueue, DequeueRunqToWaitq,
            DequeueKTimerqToWaitq, InsertWaitThread, TypeOK, ThreadStates
    <2>6. QED
        BY <1>3, <2>3, <2>4, <2>5 DEF TypeOK, cpuVars, tickVars
<1>4. ASSUME NEW ticks \in SleepTicks, Msleepyi(ticks) PROVE TypeInv'
    <2>1. PICK ran \in 0 .. reload :
              LET q == YieldKTimer(kq, TimerOf(current), ran, FALSE)
              IN  MoveToWaitQueue(q, SatAdd(q.now, ticks))
        BY <1>4 DEF Msleepyi
    <2> DEFINE q == YieldKTimer(kq, TimerOf(current), ran, FALSE)
    <2>2. ran \in Nat
        BY TimingAssumption DEF TypeOK, ReloadMin
    <2>3. q \in KTimerQueues
        <3>1. TimerOf(current) \in RtThreads \cup {CfsTimer}
            BY <1>4, TimerOfType DEF Msleepyi, TypeOK
        <3>2. \A reset \in BOOLEAN :
                 YieldKTimer(kq, TimerOf(current), ran, reset) \in KTimerQueues
            BY <1>1, <2>2, <3>1, YieldEffect
        <3>3. QED
            BY <3>2, Zenon
    <2> HIDE DEF q
    <2>4. SatAdd(q.now, ticks) \in Nat
        BY <2>3, QueueFields, SatNat, BoundAssumption
    <2>5. QED
        BY <1>3, <1>4, <2>1, <2>2, <2>4 DEF Msleepyi, q
<1>5. CASE BlockCurrentThread
    <2>1. PICK ran \in 0 .. reload :
              MoveToWaitQueue(YieldKTimer(kq, TimerOf(current), ran, FALSE), Never)
        BY <1>5 DEF BlockCurrentThread
    <2>2. ran \in Nat
        BY TimingAssumption DEF TypeOK, ReloadMin
    <2>3. QED
        BY <1>3, <1>5, <2>1, <2>2, TimingAssumption DEF BlockCurrentThread
<1>6. ASSUME NEW ticks \in StartTimes, SetRtThreadStartTime(ticks) PROVE TypeInv'
    <2> DEFINE rt == [kq.runtime EXCEPT ![current] = ticks]
    <2>1. rt \in [RtThreads -> Nat]
        BY <1>1, <1>6, QueueFields, BoundAssumption DEF SetRtThreadStartTime
    <2>2. kq' = [kq EXCEPT !.runtime = rt]
        BY <1>6 DEF SetRtThreadStartTime
    <2> HIDE DEF rt
    <2>3. /\ kq' \in KTimerQueues
          /\ kq'.active = kq.active
          /\ kq'.inactive = kq.inactive
          /\ kq'.missPanic = kq.missPanic
        BY <1>1, <2>1, <2>2 DEF KTimerQueues
    <2>4. QED
        BY <1>6, <2>3
        DEF SetRtThreadStartTime, TypeOK, queueVars, waitVars, cpuVars, tickVars
<1>7. QED
    BY <1>2, <1>4, <1>5, <1>6 DEF ThreadCall

LEMMA TypeHandBack ==
    ASSUME TypeInv, NEW q0 \in KTimerQueues, WaitTimer \notin q0.active,
           ~q0.missPanic => WaitTimer \in q0.inactive,
           NEW t \in Threads, HandBack(q0, t)
    PROVE  TypeInv'
<1> USE DEF TypeInv
<1>1. /\ kq' \in KTimerQueues
      /\ WaitTimer \notin kq'.active
      /\ ~kq'.missPanic => WaitTimer \in kq'.inactive
    BY HandBackKq
<1>2. CASE t \in CfsThreads
    <2>1. vruntime' \in [CfsThreads -> Nat]
        BY <1>2, VruntimeFromLeftmostType DEF HandBack, EnqueueRunqFromWaitq
    <2>2. prioritySum' \in Nat
        BY <1>2, PriorityAssumption DEF HandBack, EnqueueRunqFromWaitq, TypeOK
    <2>3. QED
        BY <1>1, <1>2, <2>1, <2>2
        DEF HandBack, EnqueueRunqFromWaitq, TypeOK, ThreadStates, cpuVars, tickVars
<1>3. CASE t \notin CfsThreads
    BY <1>1, <1>3 DEF HandBack, TypeOK, ThreadStates, queueVars, cpuVars, tickVars
<1>4. QED
    BY <1>2, <1>3

LEMMA TypeWakeWaiter ==
    ASSUME TypeInv, NEW t \in Threads, WakeWaiter(t) PROVE TypeInv'
<1>1. /\ kq \in KTimerQueues /\ WaitTimer \notin kq.active
      /\ WaitTimer \in kq.inactive /\ HandBack(kq, t)
    BY DEF TypeInv, TypeOK, WakeWaiter, WakeTaken, InterruptTaken, Alive
<1>2. QED
    BY <1>1, TypeHandBack

LEMMA SysTickKq ==
    ASSUME kq \in KTimerQueues, reload \in ReloadMin .. ReloadMax, SysTick
    PROVE  /\ kq' \in KTimerQueues
           /\ kq'.active = kq.active
           /\ kq'.inactive = kq.inactive
           /\ kq'.expireAt = kq.expireAt
           /\ kq'.missPanic = kq.missPanic
           /\ elapsed' \in Nat
<1>1. reload + 1 \in Nat
    BY TimingAssumption DEF ReloadMin
<1>2. SatAdd(kq.now, reload + 1) \in Nat
    BY <1>1, QueueFields, SatNat
<1>3. kq' = [kq EXCEPT !.now = SatAdd(kq.now, reload + 1)] /\ elapsed' = reload + 1
    BY DEF SysTick
<1>4. QED
    BY <1>1, <1>2, <1>3 DEF KTimerQueues

\* A sleeper that is woken: an RT thread's timer becomes active.
LEMMA WakeSleeperKq ==
    ASSUME kq \in KTimerQueues, elapsed \in Nat, NEW t \in Threads, WakeSleeper(t)
    PROVE  /\ kq' \in KTimerQueues
           /\ t \in RtThreads => /\ kq'.active = kq.active \cup {t}
                                 /\ kq'.inactive = kq.inactive \ {t}
           /\ t \in CfsThreads => kq' = kq
           /\ kq'.missPanic = kq.missPanic
<1>1. CASE t \in CfsThreads
    BY <1>1, ThreadsDistinct DEF WakeSleeper, EnqueueRunqFromWaitq
<1>2. CASE t \notin CfsThreads
    <2>1. t \in RtThreads /\ kq' = WakeRtTimer(kq, t, elapsed)
        BY <1>2 DEF WakeSleeper, EnqueueRunqFromWaitq, Threads
    <2>2. QED
        BY <1>2, <2>1, WakeRtEffect
<1>3. QED
    BY <1>1, <1>2

LEMMA WakeDoneKq ==
    ASSUME TypeOK, WakeDone
    PROVE  /\ kq' \in KTimerQueues
           /\ kq'.active = kq.active \ {WaitTimer}
           /\ kq'.inactive = kq.inactive \cup {WaitTimer}
           /\ kq'.expireAt[WaitTimer] = EarliestWake(waitTree, wakeAt)
           /\ kq'.missPanic = kq.missPanic
<1> DEFINE e == EarliestWake(waitTree, wakeAt)
           s == SetExpireAt(kq, WaitTimer, e)
<1>1. e \in Nat /\ kq \in KTimerQueues
    BY EarliestWakeEffect DEF TypeOK
<1>2. WaitTimer \in Timers /\ kq.expireAt \in [Timers -> Nat]
    BY <1>1, QueueFields DEF Timers
<1>3. kq' = EnqueueInactive(s, WaitTimer)
    BY DEF WakeDone
<1> HIDE DEF e
<1>4. /\ s \in KTimerQueues
      /\ s.active = kq.active
      /\ s.inactive = kq.inactive
      /\ s.expireAt = [kq.expireAt EXCEPT ![WaitTimer] = e]
      /\ s.missPanic = kq.missPanic
    BY <1>1, <1>2, SetExpireAtEffect
<1> HIDE DEF s
<1>5. s.expireAt[WaitTimer] = e
    BY <1>2, <1>4
<1>6. /\ kq' \in KTimerQueues
      /\ kq'.active = s.active \ {WaitTimer}
      /\ kq'.inactive = s.inactive \cup {WaitTimer}
      /\ kq'.expireAt = s.expireAt
      /\ kq'.missPanic = s.missPanic
    <2>1. s \in KTimerQueues
        BY <1>4
    <2>2. QED
        BY <1>2, <1>3, <2>1, EnqueueInactiveEffect
<1>7. QED
    BY <1>4, <1>5, <1>6 DEF e

LEMMA TypeTickHandler == TypeInv /\ TickHandler => TypeInv'
<1> SUFFICES ASSUME TypeInv, TickHandler PROVE TypeInv'
    OBVIOUS
<1> USE DEF TypeInv
<1>1. kq \in KTimerQueues /\ WaitTimer \notin kq.active /\ elapsed \in Nat
    BY DEF TypeOK
<1>2. CASE SysTick
    <2>1. reload \in ReloadMin .. ReloadMax
        BY DEF TypeOK
    <2>2. QED
        BY <1>1, <1>2, <2>1, SysTickKq
        DEF SysTick, InterruptTaken, TypeOK, queueVars, waitVars, cpuVars
<1>3. CASE DispatchCfs
    <2>1. /\ kq' \in KTimerQueues
          /\ kq'.active \ {CfsTimer} = kq.active \ {CfsTimer}
          /\ kq'.inactive \ {CfsTimer} = kq.inactive \ {CfsTimer}
          /\ kq'.missPanic = kq.missPanic
        BY <1>1, <1>3, DispatchCfsEffect DEF DispatchCfs
    <2>2. WaitTimer \notin kq'.active
        BY <1>1, <2>1, TimersDistinct
    <2>3. WaitTimer \in kq.inactive => WaitTimer \in kq'.inactive
        BY <2>1, TimersDistinct
    <2>4. QED
        BY <1>3, <2>1, <2>2, <2>3
        DEF DispatchCfs, TypeOK, queueVars, waitVars, cpuVars, tickVars
<1>4. ASSUME NEW t \in RtThreads, DispatchRt(t) PROVE TypeInv'
    <2>1. /\ kq' \in KTimerQueues
          /\ kq'.active \ {t} = kq.active \ {t}
          /\ kq'.inactive = kq.inactive \ {t}
          /\ kq.missPanic => kq'.missPanic
        BY <1>1, <1>4, DispatchRtEffect DEF DispatchRt
    <2>2. WaitTimer \notin kq'.active
        BY <1>1, <2>1, TimersDistinct
    <2>3. WaitTimer \in kq.inactive => WaitTimer \in kq'.inactive
        BY <2>1, TimersDistinct
    <2>4. QED
        BY <1>4, <2>1, <2>2, <2>3
        DEF DispatchRt, TypeOK, queueVars, waitVars, cpuVars, tickVars
<1>5. CASE DispatchWait
    <2>1. kq' \in KTimerQueues /\ kq'.active = kq.active \ {WaitTimer}
        <3>1. WaitTimer \in Timers
            BY DEF Timers
        <3>2. QED
            BY <1>1, <1>5, <3>1, RemoveEffect DEF DispatchWait
    <2>2. QED
        BY <1>5, <2>1
        DEF DispatchWait, Dispatching, TypeOK, queueVars, waitVars, cpuVars
<1>6. ASSUME NEW t \in Threads, WakeSleeper(t) PROVE TypeInv'
    <2>1. kq' \in KTimerQueues /\ WaitTimer \notin kq'.active
        BY <1>1, <1>6, WakeSleeperKq, TimersDistinct DEF Threads
    <2>2. CASE t \in CfsThreads
        <3>1. vruntime' \in [CfsThreads -> Nat]
            BY <1>6, <2>2, VruntimeFromLeftmostType DEF WakeSleeper, EnqueueRunqFromWaitq
        <3>2. prioritySum' \in Nat
            BY <1>6, <2>2, PriorityAssumption DEF WakeSleeper, EnqueueRunqFromWaitq, TypeOK
        <3>3. QED
            BY <1>6, <2>1, <2>2, <3>1, <3>2
            DEF WakeSleeper, EnqueueRunqFromWaitq, TypeOK, ThreadStates, cpuVars, tickVars
    <2>3. CASE t \notin CfsThreads
        BY <1>6, <2>1, <2>3
        DEF WakeSleeper, EnqueueRunqFromWaitq, TypeOK, ThreadStates, queueVars, cpuVars, tickVars
    <2>4. QED
        BY <2>2, <2>3
<1>7. CASE WakeDone
    <2>1. /\ kq' \in KTimerQueues
          /\ WaitTimer \notin kq'.active
          /\ WaitTimer \in kq'.inactive
        BY <1>7, WakeDoneKq
    <2>2. QED
        BY <1>7, <2>1 DEF WakeDone, TypeOK, queueVars, waitVars, cpuVars
<1>8. CASE DispatchDone
    <2>1. /\ kq' \in KTimerQueues
          /\ kq'.active = kq.active
          /\ kq'.inactive = kq.inactive
          /\ kq'.missPanic = kq.missPanic
        BY <1>1, <1>8, SelectEffect DEF DispatchDone
    <2>2. QED
        BY <1>1, <1>8, <2>1 DEF DispatchDone, TypeOK, queueVars, waitVars, cpuVars
<1>9. QED
    BY <1>2, <1>3, <1>4, <1>5, <1>6, <1>7, <1>8 DEF TickHandler

LEMMA TypeSchedule == TypeInv /\ Schedule => TypeInv'
<1> SUFFICES ASSUME TypeInv, Schedule PROVE TypeInv'
    OBVIOUS
<1> USE DEF TypeInv
<1>1. vruntime' \in [CfsThreads -> Nat] /\ ChargedVruntime \in [CfsThreads -> Nat]
    BY ChargedVruntimeType DEF Schedule
<1>2. reload' \in ReloadMin .. ReloadMax
    BY FirstEffect, ReloadForEffect DEF Schedule, Alive, TypeOK
<1>3. ASSUME NEW t \in Threads \cup {Idle}, NEW rest \in SUBSET CfsThreads,
             SwitchTo(t, rest)
      PROVE  TypeInv'
    <2>1. state' \in [Threads \cup {Idle} -> ThreadStates]
        BY <1>3 DEF SwitchTo, TypeOK, ThreadStates
    <2>2. runq' \subseteq CfsThreads
        BY <1>3 DEF SwitchTo, TypeOK, CurrentStaysRunnable
    <2>3. current' \in Threads \cup {Idle}
        BY <1>3 DEF SwitchTo
    <2>4. currentIsCfs' \in BOOLEAN /\ assertFailed' \in BOOLEAN
        <3>1. currentIsCfs' = (t \in CfsThreads)
            BY <1>3, Zenon DEF SwitchTo
        <3>2. assertFailed' = \/ CurrentStaysRunnable /\ current \in runq
                              \/ Blocked(state[t])
            BY <1>3, Zenon DEF SwitchTo
        <3>3. currentIsCfs' \in BOOLEAN
            <4>1. CASE t \in CfsThreads
                BY <3>1, <4>1
            <4>2. CASE t \notin CfsThreads
                BY <3>1, <4>2
            <4>3. QED
                BY <4>1, <4>2
        <3>4. assertFailed' \in BOOLEAN
            <4> DEFINE P == \/ CurrentStaysRunnable /\ current \in runq
                            \/ Blocked(state[t])
            <4>1. assertFailed' = P
                BY <3>2
            <4>2. CASE P
                BY <4>1, <4>2
            <4>3. CASE ~P
                BY <4>1, <4>3
            <4>4. QED
                BY <4>2, <4>3
        <3>5. QED
            BY <3>3, <3>4
    <2>5. currentIsCfs' => current' \in CfsThreads
        BY <1>3 DEF SwitchTo
    <2>6. QED
        BY <1>1, <1>2, <2>1, <2>2, <2>3, <2>4, <2>5 DEF Schedule, TypeOK, waitVars
<1>4. CASE ScheduleIdle
    <2>1. runq \in SUBSET CfsThreads /\ SwitchTo(Idle, runq)
        BY <1>4 DEF ScheduleIdle, TypeOK
    <2>2. QED
        BY <1>3, <2>1
<1>5. CASE ScheduleCfs
    <2> DEFINE t == Leftmost(runq, ChargedVruntime, ThreadAddr)
    <2>1. t \in runq /\ runq \in SUBSET CfsThreads
        BY <1>1, <1>5, LeftmostCfs DEF ScheduleCfs, TypeOK
    <2>2. \/ /\ assertFailed' = (t = current)
             /\ UNCHANGED <<state, runq, current, currentIsCfs>>
          \/ SwitchTo(t, runq \ {t})
        BY <1>5 DEF ScheduleCfs
    <2> HIDE DEF t
    <2>3. t \in Threads \cup {Idle} /\ runq \ {t} \in SUBSET CfsThreads
        BY <2>1 DEF Threads
    <2>4. CASE /\ assertFailed' = (t = current)
               /\ UNCHANGED <<state, runq, current, currentIsCfs>>
        <3>1. assertFailed' \in BOOLEAN
            BY <2>4, Zenon
        <3>2. QED
            BY <1>1, <1>2, <2>4, <3>1 DEF Schedule, TypeOK, waitVars
    <2>5. CASE SwitchTo(t, runq \ {t})
        BY <1>3, <2>3, <2>5
    <2>6. QED
        BY <2>2, <2>4, <2>5
<1>6. CASE ScheduleRt
    <2>1. /\ runq \in SUBSET CfsThreads /\ kq.next \in Threads \cup {Idle}
          /\ SwitchTo(kq.next, runq)
        BY <1>6 DEF ScheduleRt, TypeOK, Threads
    <2>2. QED
        BY <1>3, <2>1
<1>7. QED
    BY <1>4, <1>5, <1>6 DEF Schedule

\* Every field of the scheduler keeps its type: in particular every SysTick
\* reload is one the hardware can count, and CFS_RUN_QUEUE holds only CFS
\* threads (sched.rs, ktimer.rs).
THEOREM TypeCorrect == Spec => []TypeOK
<1>1. TypeInv /\ [Next]_vars => TypeInv'
    <2>1. TypeInv /\ Next => TypeInv'
        <3> SUFFICES ASSUME TypeInv, Next PROVE TypeInv'
            OBVIOUS
        <3>1. CASE Stop
            BY <3>1 DEF Stop, TypeInv, TypeOK, vars, queueVars, waitVars,
                        cpuVars, tickVars
        <3>2. QED
            BY <3>1, TypeBoot, TypeThreadCall, TypeWakeWaiter, TypeTickHandler,
               TypeSchedule DEF Next
    <2>2. TypeInv /\ UNCHANGED vars => TypeInv'
        BY DEF TypeInv, TypeOK, vars, queueVars, waitVars, cpuVars, tickVars
    <2>3. QED
        BY <2>1, <2>2
<1>2. TypeInv => TypeOK
    BY DEF TypeInv
<1>3. QED
    BY <1>1, <1>2, TypeInit, PTL DEF Spec

-----------------------------------------------------------------------------
(* The inductive invariant.  The exception priorities matter: a wake-up     *)
(* must not come between a thread's block and its context switch.          *)

LEMMA IInvTyped == IInv => TypeInv
BY DEF IInv, TypeInv, WaitTimerArmed, OnlyCurrentRuns

LEMMA TypeNext == TypeInv /\ Next => TypeOK'
<1> SUFFICES ASSUME TypeInv, Next PROVE TypeOK'
    OBVIOUS
<1>1. CASE Stop
    BY <1>1 DEF Stop, TypeInv, TypeOK, vars, queueVars, waitVars, cpuVars, tickVars
<1>2. CASE ~Stop
    <2>1. TypeInv'
        BY <1>2, TypeBoot, TypeThreadCall, TypeWakeWaiter, TypeTickHandler,
           TypeSchedule DEF Next
    <2>2. QED
        BY <2>1 DEF TypeInv
<1>3. QED
    BY <1>1, <1>2

LEMMA InvInit == Init => IInv
<1> SUFFICES ASSUME Init PROVE IInv
    OBVIOUS
<1>1. TypeOK
    BY TypeInit DEF TypeInv
<1>2. /\ kq.active = {} /\ kq.inactive = {WaitTimer} /\ kq.next = NoTimer
      /\ kq.expireAt[WaitTimer] = Never /\ ~kq.missPanic
    <2>1. WaitTimer \in Timers
        BY DEF Timers
    <2>2. EmptyQueue.expireAt[WaitTimer] = Never
        BY <2>1, TimersDistinct DEF EmptyQueue
    <2>3. /\ EmptyQueue.active = {} /\ EmptyQueue.inactive = {WaitTimer}
          /\ EmptyQueue.next = NoTimer
        BY DEF EmptyQueue
    <2>4. ~EmptyQueue.missPanic
        BY DEF EmptyQueue
    <2>5. QED
        BY <2>2, <2>3, <2>4 DEF Init
<1>3. FirstActive(kq) = NoTimer
    BY <1>2 DEF FirstActive, FirstOf
<1>4. PlacementConsistent
    BY <1>2, TimersDistinct DEF PlacementConsistent, Init, Threads, Queued
<1>5. OnlyCurrentRuns
    BY ThreadsDistinct DEF OnlyCurrentRuns, Init, Threads
<1>6. WaitTimerArmed
    BY <1>2 DEF WaitTimerArmed, EarliestWake, Init
<1>7. QED
    BY <1>1, <1>2, <1>3, <1>4, <1>5, <1>6
    DEF IInv, NextIsFirstActive, NoAssertionFails, Init, Blocked

LEMMA InvBoot == IInv /\ Boot => IInv'
<1> SUFFICES ASSUME IInv, Boot PROVE IInv'
    OBVIOUS
<1>1. TypeInv /\ TypeOK'
    BY IInvTyped, TypeBoot DEF TypeInv
<1>2. /\ kq \in KTimerQueues /\ WaitTimer \notin kq.active
      /\ kq.active \cap kq.inactive = {}
    BY DEF IInv, TypeOK
<1>3. ~started /\ ~kq.missPanic /\ tick = "off" /\ WaitTimer \in kq.inactive
    BY DEF Boot, InitCfs, SpawnCfs, SpawnRt, StartScheduler, Alive, IInv,
           WaitTimerArmed
<1>4. current = Idle /\ Idle \notin Threads
    BY <1>3, ThreadsDistinct DEF IInv
<1>5. CASE InitCfs
    <2> DEFINE s == SetExpireAt(kq, CfsTimer, CfsExec)
    <2>1. CfsTimer \in Timers /\ CfsExec \in Nat
        BY TimingAssumption DEF Timers
    <2>2. /\ s \in KTimerQueues /\ s.active = kq.active /\ s.inactive = kq.inactive
          /\ s.expireAt = [kq.expireAt EXCEPT ![CfsTimer] = CfsExec]
        BY <1>2, <2>1, SetExpireAtEffect
    <2>3. kq' = ReinsertKTimer(s, CfsTimer)
        BY <1>5 DEF InitCfs
    <2> HIDE DEF s
    <2>4. s.expireAt[WaitTimer] = kq.expireAt[WaitTimer]
        BY <1>2, <2>2, QueueFields, TimersDistinct DEF Timers
    <2>5. /\ kq'.active \subseteq s.active \cup {CfsTimer}
          /\ kq'.inactive \subseteq s.inactive \ {CfsTimer}
          /\ kq'.expireAt[WaitTimer] = s.expireAt[WaitTimer]
          /\ ~kq'.missPanic => /\ kq'.active = s.active \cup {CfsTimer}
                               /\ kq'.inactive = s.inactive \ {CfsTimer}
                               /\ kq'.next = FirstActive(kq')
        BY <1>2, <2>2, <2>3, ReinsertEffect
    <2>6. runq' = runq
        BY <1>3, <1>5 DEF IInv, InitCfs
    <2>7. PlacementConsistent'
        BY <1>3, <1>5, <2>2, <2>5, <2>6, TimersDistinct
        DEF IInv, PlacementConsistent, InitCfs, Queued, waitVars
    <2>8. WaitTimerArmed'
        BY <1>3, <1>5, <2>2, <2>4, <2>5, TimersDistinct
        DEF IInv, WaitTimerArmed, InitCfs, waitVars, tickVars
    <2>9. QED
        BY <1>1, <1>2, <1>3, <1>5, <2>2, <2>5, <2>7, <2>8, TimersDistinct
        DEF IInv, OnlyCurrentRuns, NextIsFirstActive, NoAssertionFails, Queued,
            InitCfs, cpuVars, tickVars
<1>6. ASSUME NEW t \in CfsThreads, SpawnCfs(t) PROVE IInv'
    <2>1. t # Idle /\ t \in Threads
        BY <1>4 DEF Threads
    <2>2. PlacementConsistent'
        BY <1>6, <2>1, ThreadsDistinct
        DEF IInv, TypeOK, PlacementConsistent, SpawnCfs, Threads, waitVars
    <2>3. OnlyCurrentRuns' /\ ~Blocked(state'[Idle])
        BY <1>3, <1>4, <1>6, <2>1
        DEF IInv, TypeOK, OnlyCurrentRuns, Blocked, SpawnCfs, cpuVars
    <2>4. QED
        BY <1>1, <1>3, <1>6, <2>2, <2>3
        DEF IInv, NextIsFirstActive, WaitTimerArmed, NoAssertionFails, SpawnCfs,
            waitVars, cpuVars, tickVars
<1>7. ASSUME NEW t \in RtThreads, SpawnRt(t) PROVE IInv'
    <2>1. t # Idle /\ t \in Threads /\ t \notin CfsThreads
        BY <1>4, ThreadsDistinct DEF Threads
    <2>2. /\ kq'.active \subseteq kq.active \cup {t}
          /\ kq'.inactive \subseteq kq.inactive \ {t}
          /\ kq'.expireAt[WaitTimer] = kq.expireAt[WaitTimer]
          /\ ~kq'.missPanic => /\ kq'.active = kq.active \cup {t}
                               /\ kq'.inactive = kq.inactive \ {t}
                               /\ kq'.next = FirstActive(kq')
        BY <1>2, <1>7, ReinsertEffect DEF SpawnRt
    <2>3. PlacementConsistent'
        <3>1. ~kq'.missPanic =>
                 {u \in RtThreads : Queued(kq', u)} =
                     {u \in RtThreads : state'[u] \in {"Ready", "Running"}}
            BY <1>3, <1>7, <2>1, <2>2
            DEF IInv, TypeOK, PlacementConsistent, SpawnRt, Queued
        <3>2. QED
            BY <1>7, <2>1, <3>1
            DEF IInv, TypeOK, PlacementConsistent, SpawnRt, Threads, queueVars, waitVars
    <2>4. OnlyCurrentRuns' /\ ~Blocked(state'[Idle])
        BY <1>3, <1>4, <1>7, <2>1
        DEF IInv, TypeOK, OnlyCurrentRuns, Blocked, SpawnRt, cpuVars
    <2>5. WaitTimerArmed'
        BY <1>3, <1>7, <2>2, TimersDistinct
        DEF IInv, WaitTimerArmed, SpawnRt, waitVars, tickVars
    <2>6. WaitTimer \notin kq'.active /\ kq'.active \cap kq'.inactive = {}
        BY <1>2, <2>2, TimersDistinct
    <2>7. ~kq'.missPanic /\ ~Queued(kq', CfsTimer) => runq' = {}
        BY <1>3, <1>7, <2>2, TimersDistinct DEF IInv, Queued, SpawnRt, queueVars
    <2>8. QED
        BY <1>1, <1>3, <1>7, <2>2, <2>3, <2>4, <2>5, <2>6, <2>7
        DEF IInv, NextIsFirstActive, NoAssertionFails, SpawnRt, cpuVars, tickVars
<1>8. CASE StartScheduler
    <2>1. PlacementConsistent'
        BY <1>4, <1>8
        DEF IInv, TypeOK, PlacementConsistent, StartScheduler, Threads,
            queueVars, waitVars
    <2>2. OnlyCurrentRuns' /\ ~Blocked(state'[Idle]) /\ state'[current'] # "Unspawned"
        BY <1>3, <1>4, <1>8
        DEF IInv, TypeOK, OnlyCurrentRuns, Blocked, StartScheduler, Threads
    <2>3. QED
        BY <1>1, <1>8, <2>1, <2>2
        DEF IInv, NextIsFirstActive, WaitTimerArmed, NoAssertionFails,
            StartScheduler, queueVars, waitVars, tickVars
<1>9. QED
    BY <1>5, <1>6, <1>7, <1>8 DEF Boot

\* The running thread has gone to the wait queue, whatever the call: what the
\* call does to the timer queue matters only through its trees, NEXT_KTIMER
\* and the wait deadline.
LEMMA InvBlocked ==
    ASSUME IInv, TypeOK', ThreadMode, current \in Threads,
           IsParked(kq', kq, current, EarliestWake(waitTree', wakeAt')),
           \/ /\ state' = [state EXCEPT ![current] = "Suspended"]
              /\ suspended' = suspended \cup {current} /\ waitTree' = waitTree
           \/ /\ state' = [state EXCEPT ![current] = "Waiting"]
              /\ suspended' = suspended /\ waitTree' = waitTree \cup {current},
           pendsv' = TRUE, UNCHANGED <<runq, cpuVars, tickVars, assertFailed>>
    PROVE  IInv'
<1>1. /\ kq \in KTimerQueues /\ WaitTimer \notin kq.active
      /\ kq.active \cap kq.inactive = {}
    BY DEF IInv, TypeOK
<1>2. started /\ ~kq.missPanic /\ tick = "off" /\ ~pendsv /\ WaitTimer \in kq.inactive
    BY DEF ThreadMode, Alive, IInv, WaitTimerArmed
<1>3. state[current] = "Running" /\ Idle \notin Threads
    BY <1>2, ThreadsDistinct DEF IInv, OnlyCurrentRuns
<1> DEFINE tm == TimerOf(current)
<1>4. /\ tm # WaitTimer
      /\ current \in RtThreads => tm = current
      /\ current \notin RtThreads => tm = CfsTimer
    BY TimersDistinct, ThreadsDistinct DEF TimerOf, Threads
<1>5. /\ kq'.active \subseteq kq.active \ {tm}
      /\ kq'.inactive \subseteq kq.inactive \cup {tm, WaitTimer}
      /\ kq'.expireAt[WaitTimer] = EarliestWake(waitTree', wakeAt')
      /\ ~kq'.missPanic =>
            /\ kq'.active = kq.active \ {tm}
            /\ kq'.next = FirstActive(kq')
            /\ kq'.inactive = IF current \in RtThreads
                                THEN kq.inactive \ {current}
                                ELSE kq.inactive \cup {CfsTimer}
    BY <1>2 DEF IsParked
<1> HIDE DEF tm
<1>6. PlacementConsistent'
    <2>1. /\ runq' = {t \in CfsThreads : state'[t] = "Ready"}
          /\ waitTree' = {t \in Threads : state'[t] = "Waiting"}
          /\ suspended' = {t \in Threads : state'[t] = "Suspended"}
        BY <1>3 DEF IInv, TypeOK, PlacementConsistent, Threads
    <2>2. ASSUME ~kq'.missPanic, NEW t \in RtThreads
          PROVE  Queued(kq', t) <=> state'[t] \in {"Ready", "Running"}
        <3>1. Queued(kq, t) <=> state[t] \in {"Ready", "Running"}
            BY <1>2 DEF IInv, PlacementConsistent
        <3>2. t = current => state'[t] \notin {"Ready", "Running"}
            BY DEF IInv, TypeOK
        <3>3. t # current => state'[t] = state[t]
            BY <2>2 DEF IInv, TypeOK, Threads
        <3>4. Queued(kq', t) <=> Queued(kq, t) /\ t # current
            BY <1>4, <1>5, <2>2, TimersDistinct DEF Queued
        <3>5. QED
            BY <3>1, <3>2, <3>3, <3>4
    <2>3. QED
        BY <2>1, <2>2 DEF PlacementConsistent
<1>7. WaitTimerArmed'
    BY <1>2, <1>4, <1>5, TimersDistinct DEF WaitTimerArmed
<1>8. OnlyCurrentRuns' /\ NextIsFirstActive'
    <2>1. \A t \in Threads \cup {Idle} : state'[t] # "Running"
        BY DEF IInv, TypeOK, OnlyCurrentRuns
    <2>2. state'[current] # "Ready"
        BY DEF IInv, TypeOK
    <2>3. QED
        BY <1>5, <2>1, <2>2 DEF IInv, OnlyCurrentRuns, NextIsFirstActive, cpuVars
<1>9. kq'.active \cap kq'.inactive = {} /\ WaitTimer \notin kq'.active
    BY <1>1, <1>5
<1>10. ~Blocked(state'[Idle]) /\ state'[current] # "Unspawned"
    BY <1>3 DEF IInv, TypeOK, Blocked
<1>11. QED
    BY <1>2, <1>6, <1>7, <1>8, <1>9, <1>10
    DEF IInv, NoAssertionFails, cpuVars, tickVars

LEMMA InvThreadCall == IInv /\ ThreadCall => IInv'
<1> SUFFICES ASSUME IInv, ThreadCall PROVE IInv'
    OBVIOUS
<1>1. TypeInv /\ TypeOK'
    BY IInvTyped, TypeThreadCall DEF TypeInv
<1>2. /\ kq \in KTimerQueues /\ WaitTimer \notin kq.active
      /\ kq.active \cap kq.inactive = {}
    BY DEF IInv, TypeOK
<1>3. started /\ ~kq.missPanic /\ tick = "off" /\ ~pendsv /\ WaitTimer \in kq.inactive
    BY DEF ThreadCall, Yieldyi, Msleepyi, BlockCurrentThread,
           SetRtThreadStartTime, ThreadMode, Alive, IInv, WaitTimerArmed
<1>4. state[current] = "Running" /\ Idle \notin Threads
    BY <1>3, ThreadsDistinct DEF IInv, OnlyCurrentRuns
<1>5. current \in RtThreads => current \in kq.active \cup kq.inactive
    BY <1>3, <1>4 DEF IInv, PlacementConsistent, Queued
<1>6. CASE Yieldyi
    <2>1. current \in Threads
        BY <1>6 DEF Yieldyi, IInv, TypeOK
    <2> DEFINE tm == TimerOf(current)
    <2>2. /\ tm # WaitTimer
          /\ tm \in RtThreads => tm = current
        BY <2>1, TimersDistinct DEF TimerOf, Threads
    <2> HIDE DEF tm
    <2>3. /\ kq'.active = kq.active \ {tm}
          /\ kq'.inactive = kq.inactive \cup {tm}
          /\ kq'.expireAt[WaitTimer] = kq.expireAt[WaitTimer]
          /\ kq'.missPanic = kq.missPanic
          /\ kq'.next = FirstActive(kq')
        BY <1>1, <1>6, YieldyiKq DEF tm
    <2>4. PlacementConsistent'
        <3>1. \A t \in RtThreads : Queued(kq', t) <=> Queued(kq, t)
            BY <1>5, <2>2, <2>3 DEF Queued
        <3>2. QED
            BY <1>3, <1>6, <2>3, <3>1
            DEF IInv, PlacementConsistent, Yieldyi, queueVars, waitVars
    <2>5. WaitTimerArmed'
        BY <1>3, <1>6, <2>3 DEF IInv, WaitTimerArmed, Yieldyi, waitVars, tickVars
    <2>6. OnlyCurrentRuns' /\ NextIsFirstActive'
        BY <1>3, <1>6, <2>3
        DEF IInv, OnlyCurrentRuns, NextIsFirstActive, Yieldyi, cpuVars
    <2>7. kq'.active \cap kq'.inactive = {} /\ WaitTimer \notin kq'.active
        BY <1>2, <2>3
    <2>8. QED
        BY <1>1, <1>3, <1>6, <2>4, <2>5, <2>6, <2>7
        DEF IInv, NoAssertionFails, Yieldyi, cpuVars, tickVars
<1>7. ASSUME NEW wake \in Nat, NEW ran \in Nat, current # Idle,
             MoveToWaitQueue(YieldKTimer(kq, TimerOf(current), ran, FALSE), wake),
             pendsv' = TRUE,
             UNCHANGED <<runq, vruntime, cpuVars, reload, tickVars, assertFailed>>
      PROVE  IInv'
    <2>1. current \in Threads
        BY <1>7 DEF IInv, TypeOK
    <2>2. IsParked(kq', kq, current, EarliestWake(waitTree', wakeAt'))
        BY <1>1, <1>7, <2>1, MoveToWaitQueueKq
    <2>3. \/ /\ state' = [state EXCEPT ![current] = "Suspended"]
             /\ suspended' = suspended \cup {current} /\ waitTree' = waitTree
          \/ /\ state' = [state EXCEPT ![current] = "Waiting"]
             /\ suspended' = suspended /\ waitTree' = waitTree \cup {current}
        BY <1>7 DEF MoveToWaitQueue, DequeueRunqToWaitq,
            DequeueKTimerqToWaitq, InsertWaitThread
    <2>4. ThreadMode
        BY <1>3 DEF IInv, NoAssertionFails, ThreadMode, Alive
    <2>5. QED
        BY <1>1, <1>7, <2>1, <2>2, <2>3, <2>4, InvBlocked
<1>8. ASSUME NEW ticks \in SleepTicks, Msleepyi(ticks) PROVE IInv'
    <2>1. PICK ran \in 0 .. reload :
              LET q == YieldKTimer(kq, TimerOf(current), ran, FALSE)
              IN  MoveToWaitQueue(q, SatAdd(q.now, ticks))
        BY <1>8 DEF Msleepyi
    <2> DEFINE q == YieldKTimer(kq, TimerOf(current), ran, FALSE)
    <2>2. ran \in Nat
        BY TimingAssumption DEF IInv, TypeOK, ReloadMin
    <2>3. q \in KTimerQueues
        <3>1. TimerOf(current) \in RtThreads \cup {CfsTimer}
            BY <1>8, TimerOfType DEF Msleepyi, IInv, TypeOK
        <3>2. \A reset \in BOOLEAN :
                 YieldKTimer(kq, TimerOf(current), ran, reset) \in KTimerQueues
            BY <1>2, <2>2, <3>1, YieldEffect
        <3>3. QED
            BY <3>2, Zenon
    <2> HIDE DEF q
    <2>4. SatAdd(q.now, ticks) \in Nat
        BY <2>3, QueueFields, SatNat, BoundAssumption
    <2>5. QED
        BY <1>7, <1>8, <2>1, <2>2, <2>4 DEF Msleepyi, q
<1>9. CASE BlockCurrentThread
    <2>1. PICK ran \in 0 .. reload :
              MoveToWaitQueue(YieldKTimer(kq, TimerOf(current), ran, FALSE), Never)
        BY <1>9 DEF BlockCurrentThread
    <2>2. ran \in Nat
        BY TimingAssumption DEF IInv, TypeOK, ReloadMin
    <2>3. QED
        BY <1>7, <1>9, <2>1, <2>2, TimingAssumption DEF BlockCurrentThread
<1>10. ASSUME NEW ticks \in StartTimes, SetRtThreadStartTime(ticks) PROVE IInv'
    <2> DEFINE rt == [kq.runtime EXCEPT ![current] = ticks]
    <2>1. kq' = [kq EXCEPT !.runtime = rt]
        BY <1>10 DEF SetRtThreadStartTime
    <2> HIDE DEF rt
    <2>2. /\ kq'.active = kq.active
          /\ kq'.inactive = kq.inactive
          /\ kq'.expireAt = kq.expireAt
          /\ kq'.next = kq.next
          /\ kq'.missPanic = kq.missPanic
        BY <1>2, <2>1 DEF KTimerQueues
    <2>3. FirstActive(kq') = FirstActive(kq)
        BY <2>2 DEF FirstActive
    <2>4. \A t : Queued(kq', t) <=> Queued(kq, t)
        BY <2>2 DEF Queued
    <2>5. QED
        BY <1>1, <1>10, <2>2, <2>3, <2>4
        DEF IInv, PlacementConsistent, OnlyCurrentRuns, NextIsFirstActive,
            WaitTimerArmed, NoAssertionFails, SetRtThreadStartTime, queueVars,
            waitVars, cpuVars, tickVars
<1>11. QED
    BY <1>6, <1>8, <1>9, <1>10 DEF ThreadCall

\* A thread is handed back over the timer queue q, which has the timers of kq.
\* It is not the current one: that one has not blocked.
LEMMA InvHandBack ==
    ASSUME IInv, started, Alive, tick = "off", ~Blocked(state[current]), NEW q0 \in KTimerQueues, WaitTimer \notin q0.active,
           q0.active \cap q0.inactive = {},
           ~q0.missPanic => /\ WaitTimer \in q0.inactive
                            /\ q0.active \cup q0.inactive = kq.active \cup kq.inactive,
           NEW t \in suspended, HandBack(q0, t)
    PROVE  IInv'
<1>1. t \in Threads /\ TypeInv
    BY IInvTyped DEF IInv, TypeOK
<1>2. TypeOK'
    BY <1>1, TypeHandBack DEF TypeInv
<1>3. started /\ ~kq.missPanic /\ tick = "off"
    BY DEF Alive
<1>4. state[t] = "Suspended" /\ t # Idle /\ t # current
    BY <1>1, ThreadsDistinct DEF IInv, PlacementConsistent, Blocked
<1>5. state' = [state EXCEPT ![t] = "Ready"] /\ state \in [Threads \cup {Idle} -> ThreadStates]
    BY DEF HandBack, IInv, TypeOK
<1>6. /\ WaitTimer \notin kq'.active
      /\ kq'.expireAt[WaitTimer] = EarliestWake(waitTree', wakeAt')
      /\ kq'.active \cap kq'.inactive = {}
      /\ ~kq'.missPanic =>
            /\ WaitTimer \in kq'.inactive
            /\ kq'.next = FirstActive(kq')
            /\ kq'.active \cup kq'.inactive = kq.active \cup kq.inactive \cup
                   (IF t \in RtThreads THEN {t} ELSE {})
    <2>1. /\ WaitTimer \notin kq'.active
          /\ kq'.expireAt[WaitTimer] = EarliestWake(waitTree', wakeAt')
          /\ kq'.active \cap kq'.inactive \subseteq q0.active \cap q0.inactive
          /\ q0.missPanic => kq'.missPanic
          /\ ~kq'.missPanic =>
                /\ WaitTimer \in kq'.inactive
                /\ kq'.next = FirstActive(kq')
                /\ kq'.active \cup kq'.inactive = q0.active \cup q0.inactive \cup
                       (IF t \in RtThreads THEN {t} ELSE {})
        BY <1>1, HandBackKq
    <2>2. QED
        BY <2>1
<1>7. PlacementConsistent'
    <2>1. runq' = {u \in CfsThreads : state'[u] = "Ready"}
        <3>1. runq' = IF t \in CfsThreads THEN runq \cup {t} ELSE runq
            BY DEF HandBack, EnqueueRunqFromWaitq, queueVars
        <3>2. QED
            BY <1>4, <1>5, <3>1 DEF IInv, PlacementConsistent, Threads
    <2>2. /\ waitTree' = {u \in Threads : state'[u] = "Waiting"}
          /\ suspended' = {u \in Threads : state'[u] = "Suspended"}
        BY <1>4, <1>5 DEF IInv, PlacementConsistent, Threads, HandBack
    <2>3. ASSUME ~kq'.missPanic, NEW u \in RtThreads
          PROVE  Queued(kq', u) <=> state'[u] \in {"Ready", "Running"}
        <3>1. Queued(kq, u) <=> state[u] \in {"Ready", "Running"}
            BY <1>3 DEF IInv, PlacementConsistent
        <3>2. Queued(kq', u) <=> Queued(kq, u) \/ u = t
            BY <1>6, <2>3 DEF Queued
        <3>3. QED
            BY <1>5, <3>1, <3>2 DEF Threads
    <2>4. QED
        BY <2>1, <2>2, <2>3 DEF PlacementConsistent
<1>8. OnlyCurrentRuns'
    BY <1>3, <1>4, <1>5 DEF IInv, OnlyCurrentRuns, HandBack, cpuVars, TypeOK
<1>9. NoAssertionFails'
    BY <1>4 DEF IInv, NoAssertionFails, HandBack, EnqueueRunqFromWaitq, PlacementConsistent
<1>10. ~Blocked(state'[Idle]) /\ state'[current'] # "Unspawned"
    BY <1>3, <1>4, <1>5 DEF IInv, HandBack, cpuVars, Blocked, TypeOK
<1>11. QED
    BY <1>2, <1>3, <1>6, <1>7, <1>8, <1>9, <1>10
    DEF IInv, NextIsFirstActive, WaitTimerArmed, HandBack, cpuVars, tickVars

LEMMA InvWakeWaiter ==
    ASSUME PendSVLowest = FALSE, IInv, NEW t \in Threads, WakeWaiter(t)
    PROVE  IInv'
<1>1. started /\ Alive /\ tick = "off" /\ t \in suspended /\ HandBack(kq, t)
    BY DEF WakeWaiter, WakeTaken, InterruptTaken
<1>2. ~Blocked(state[current])
    BY <1>1 DEF WakeWaiter, WakeTaken, InterruptTaken, Blocked, IInv, OnlyCurrentRuns
<1>3. /\ kq \in KTimerQueues /\ WaitTimer \notin kq.active
      /\ kq.active \cap kq.inactive = {}
      /\ WaitTimer \in kq.inactive
    BY <1>1 DEF IInv, TypeOK, WaitTimerArmed, Alive
<1>4. QED
    BY <1>1, <1>2, <1>3, InvHandBack

\* The tick handler interrupts a Running thread and leaves it Running; the
\* threads it wakes are others.
LEMMA InvTickHandler ==
    ASSUME PendSVLowest = FALSE, IInv, TickHandler PROVE IInv'
<1>1. TypeInv /\ TypeOK'
    BY IInvTyped, TypeTickHandler DEF TypeInv
<1>2. /\ kq \in KTimerQueues /\ WaitTimer \notin kq.active
      /\ kq.active \cap kq.inactive = {}
    BY DEF IInv, TypeOK
<1>3. started /\ ~kq.missPanic /\ ~pendsv
    BY DEF TickHandler, SysTick, DispatchCfs, DispatchRt, DispatchWait, Dispatching,
           WakeSleeper, EnqueueRunqFromWaitq, WakeDone, DispatchDone, InterruptTaken, Alive, IInv
<1>4. state[current] = "Running"
    BY <1>3 DEF IInv, OnlyCurrentRuns
<1>5. CASE SysTick
    <2>1. /\ kq'.active = kq.active
          /\ kq'.inactive = kq.inactive
          /\ kq'.expireAt = kq.expireAt
          /\ kq'.missPanic = kq.missPanic
        BY <1>2, <1>5, SysTickKq DEF IInv, TypeOK
    <2>2. \A t : Queued(kq', t) <=> Queued(kq, t)
        BY <2>1 DEF Queued
    <2>3. QED
        BY <1>1, <1>3, <1>5, <2>1, <2>2
        DEF IInv, PlacementConsistent, OnlyCurrentRuns, NextIsFirstActive,
            WaitTimerArmed, NoAssertionFails, SysTick, InterruptTaken, queueVars,
            waitVars, cpuVars
<1>6. CASE DispatchCfs
    <2>1. tick = "dispatch" /\ tick' = "dispatch"
        BY <1>6 DEF DispatchCfs, Dispatching, tickVars
    <2>2. /\ kq'.active \ {CfsTimer} = kq.active \ {CfsTimer}
          /\ kq'.inactive \ {CfsTimer} = kq.inactive \ {CfsTimer}
          /\ CfsTimer \in kq'.active <=> CfsTimer \notin kq'.inactive
          /\ kq'.expireAt[WaitTimer] = kq.expireAt[WaitTimer]
          /\ kq'.missPanic = kq.missPanic
        BY <1>2, <1>6, DispatchCfsEffect DEF DispatchCfs, IInv, TypeOK
    <2>3. \A t \in RtThreads : Queued(kq', t) <=> Queued(kq, t)
        BY <2>2, TimersDistinct DEF Queued
    <2>4. /\ kq'.active \cap kq'.inactive = {}
          /\ WaitTimer \notin kq'.active
          /\ WaitTimer \in kq'.inactive
        BY <1>2, <1>3, <2>1, <2>2, TimersDistinct DEF IInv, WaitTimerArmed
    <2>5. PlacementConsistent' /\ WaitTimerArmed'
        BY <1>3, <1>6, <2>1, <2>2, <2>3, <2>4
        DEF IInv, PlacementConsistent, WaitTimerArmed, DispatchCfs, queueVars, waitVars
    <2>6. QED
        BY <1>1, <1>3, <1>6, <2>1, <2>4, <2>5
        DEF IInv, OnlyCurrentRuns, NextIsFirstActive, NoAssertionFails, DispatchCfs,
            cpuVars
<1>7. ASSUME NEW t \in RtThreads, DispatchRt(t) PROVE IInv'
    <2>1. tick = "dispatch" /\ tick' = "dispatch" /\ t = First(kq)
        BY <1>7 DEF DispatchRt, Dispatching, tickVars
    <2>2. WaitTimer \in kq.inactive
        BY <1>3, <2>1 DEF IInv, WaitTimerArmed
    <2>3. Queued(kq, t)
        BY <1>2, <2>1, <2>2, FirstEffect DEF Queued
    <2>4. /\ kq'.active \ {t} = kq.active \ {t}
          /\ kq'.inactive = kq.inactive \ {t}
          /\ kq'.expireAt[WaitTimer] = kq.expireAt[WaitTimer]
          /\ ~kq'.missPanic => t \in kq'.active
        BY <1>2, <1>7, DispatchRtEffect DEF DispatchRt
    <2>5. ASSUME ~kq'.missPanic, NEW u \in RtThreads
          PROVE  Queued(kq', u) <=> Queued(kq, u)
        BY <2>3, <2>4, <2>5 DEF Queued
    <2>6. /\ kq'.active \cap kq'.inactive = {}
          /\ WaitTimer \notin kq'.active
          /\ WaitTimer \in kq'.inactive
        BY <1>2, <1>7, <2>2, <2>4, TimersDistinct
    <2>7. PlacementConsistent' /\ WaitTimerArmed'
        BY <1>3, <1>7, <2>1, <2>4, <2>5, <2>6
        DEF IInv, PlacementConsistent, WaitTimerArmed, DispatchRt, queueVars, waitVars
    <2>8. QED
        BY <1>1, <1>3, <1>7, <2>1, <2>6, <2>7
        DEF IInv, OnlyCurrentRuns, NextIsFirstActive, NoAssertionFails, DispatchRt,
            cpuVars
<1>8. CASE DispatchWait
    <2>1. tick' = "wake"
        BY <1>8 DEF DispatchWait
    <2>2. /\ kq'.active = kq.active \ {WaitTimer}
          /\ kq'.inactive = kq.inactive \ {WaitTimer}
          /\ kq'.missPanic = kq.missPanic
        <3>1. WaitTimer \in Timers
            BY DEF Timers
        <3>2. QED
            BY <1>2, <1>8, <3>1, RemoveEffect DEF DispatchWait
    <2>3. \A t \in RtThreads : Queued(kq', t) <=> Queued(kq, t)
        BY <2>2, TimersDistinct DEF Queued
    <2>4. kq'.active \cap kq'.inactive = {} /\ WaitTimer \notin kq'.active
        BY <1>2, <2>2
    <2>5. PlacementConsistent' /\ WaitTimerArmed'
        BY <1>3, <1>8, <2>1, <2>2, <2>3
        DEF IInv, PlacementConsistent, WaitTimerArmed, DispatchWait, queueVars, waitVars
    <2>6. QED
        BY <1>1, <1>3, <1>8, <2>1, <2>4, <2>5
        DEF IInv, OnlyCurrentRuns, NextIsFirstActive, NoAssertionFails, DispatchWait,
            cpuVars
<1>9. ASSUME NEW t \in Threads, WakeSleeper(t) PROVE IInv'
    <2>1. tick = "wake" /\ tick' = "wake" /\ t \in waitTree
        BY <1>9 DEF WakeSleeper, EnqueueRunqFromWaitq, tickVars
    <2>2. state[t] = "Waiting" /\ t # Idle /\ t # current
        BY <1>4, <2>1, ThreadsDistinct DEF IInv, PlacementConsistent
    <2>3. /\ state' = [state EXCEPT ![t] = "Ready"]
          /\ state \in [Threads \cup {Idle} -> ThreadStates]
        BY <1>9 DEF WakeSleeper, EnqueueRunqFromWaitq, IInv, TypeOK
    <2>4. /\ t \in RtThreads => /\ kq'.active = kq.active \cup {t}
                                /\ kq'.inactive = kq.inactive \ {t}
          /\ t \in CfsThreads => kq' = kq
          /\ kq'.missPanic = kq.missPanic
        BY <1>2, <1>9, WakeSleeperKq DEF IInv, TypeOK
    <2>5. PlacementConsistent'
        <3>1. runq' = {u \in CfsThreads : state'[u] = "Ready"}
            <4>1. runq' = IF t \in CfsThreads THEN runq \cup {t} ELSE runq
                BY <1>9 DEF WakeSleeper, EnqueueRunqFromWaitq, queueVars
            <4>2. QED
                BY <2>2, <2>3, <4>1 DEF IInv, PlacementConsistent, Threads
        <3>2. /\ waitTree' = {u \in Threads : state'[u] = "Waiting"}
              /\ suspended' = {u \in Threads : state'[u] = "Suspended"}
            BY <1>9, <2>2, <2>3 DEF IInv, PlacementConsistent, Threads, WakeSleeper, EnqueueRunqFromWaitq
        <3>3. ASSUME NEW u \in RtThreads
              PROVE  Queued(kq', u) <=> state'[u] \in {"Ready", "Running"}
            <4>1. Queued(kq, u) <=> state[u] \in {"Ready", "Running"}
                BY <1>3 DEF IInv, PlacementConsistent
            <4>2. Queued(kq', u) <=> Queued(kq, u) \/ u = t
                BY <2>4, ThreadsDistinct DEF Queued, Threads
            <4>3. QED
                BY <2>3, <4>1, <4>2 DEF Threads
        <3>4. QED
            BY <3>1, <3>2, <3>3 DEF PlacementConsistent
    <2>6. OnlyCurrentRuns'
        BY <1>3, <1>4, <1>9, <2>2, <2>3
        DEF IInv, OnlyCurrentRuns, WakeSleeper, EnqueueRunqFromWaitq, cpuVars, TypeOK
    <2>7. NoAssertionFails'
        BY <1>9, <2>2 DEF IInv, NoAssertionFails, WakeSleeper, EnqueueRunqFromWaitq, PlacementConsistent
    <2>8. ~Blocked(state'[Idle]) /\ state'[current'] # "Unspawned"
        BY <1>4, <1>9, <2>2, <2>3 DEF IInv, WakeSleeper, EnqueueRunqFromWaitq, cpuVars, Blocked, TypeOK
    <2>9. kq'.active \cap kq'.inactive = {} /\ WaitTimer \notin kq'.active
        BY <1>2, <2>4, TimersDistinct DEF Threads
    <2>10. QED
        BY <1>1, <1>3, <1>9, <2>1, <2>5, <2>6, <2>7, <2>8, <2>9
        DEF IInv, NextIsFirstActive, WaitTimerArmed, WakeSleeper, EnqueueRunqFromWaitq, cpuVars, tickVars
<1>10. CASE WakeDone
    <2>1. tick' = "dispatch"
        BY <1>10 DEF WakeDone
    <2>2. /\ kq'.active = kq.active \ {WaitTimer}
          /\ kq'.inactive = kq.inactive \cup {WaitTimer}
          /\ kq'.expireAt[WaitTimer] = EarliestWake(waitTree, wakeAt)
          /\ kq'.missPanic = kq.missPanic
        BY <1>10, WakeDoneKq DEF IInv
    <2>3. \A t \in RtThreads : Queued(kq', t) <=> Queued(kq, t)
        BY <2>2, TimersDistinct DEF Queued
    <2>4. kq'.active \cap kq'.inactive = {} /\ WaitTimer \notin kq'.active
        BY <1>2, <2>2
    <2>5. PlacementConsistent' /\ WaitTimerArmed'
        BY <1>3, <1>10, <2>1, <2>2, <2>3
        DEF IInv, PlacementConsistent, WaitTimerArmed, WakeDone, queueVars, waitVars
    <2>6. QED
        BY <1>1, <1>3, <1>10, <2>1, <2>4, <2>5
        DEF IInv, OnlyCurrentRuns, NextIsFirstActive, NoAssertionFails, WakeDone,
            cpuVars
<1>11. CASE DispatchDone
    <2>1. /\ kq'.active = kq.active
          /\ kq'.inactive = kq.inactive
          /\ kq'.expireAt = kq.expireAt
          /\ kq'.missPanic = kq.missPanic
          /\ kq'.next = FirstActive(kq')
        BY <1>2, <1>11, SelectEffect DEF DispatchDone
    <2>2. \A t : Queued(kq', t) <=> Queued(kq, t)
        BY <2>1 DEF Queued
    <2>3. tick = "dispatch" /\ tick' = "off"
        BY <1>11 DEF DispatchDone
    <2>4. PlacementConsistent' /\ WaitTimerArmed'
        BY <1>3, <1>11, <2>1, <2>2, <2>3
        DEF IInv, PlacementConsistent, WaitTimerArmed, DispatchDone, queueVars, waitVars
    <2>5. QED
        BY <1>1, <1>2, <1>3, <1>4, <1>11, <2>1, <2>3, <2>4
        DEF IInv, OnlyCurrentRuns, NextIsFirstActive, NoAssertionFails, DispatchDone,
            cpuVars
<1>12. QED
    BY <1>5, <1>6, <1>7, <1>8, <1>9, <1>10, <1>11 DEF TickHandler

\* The three ways a context switch picks its thread, and why none of them
\* fails an assertion.
LEMMA InvSchedule == IInv /\ Schedule => IInv'
<1> SUFFICES ASSUME IInv, Schedule PROVE IInv'
    OBVIOUS
<1>1. TypeInv /\ TypeOK'
    BY IInvTyped, TypeSchedule DEF TypeInv
<1>2. /\ kq \in KTimerQueues /\ kq' = kq
      /\ state \in [Threads \cup {Idle} -> ThreadStates]
      /\ current \in Threads \cup {Idle}
      /\ Idle \notin Threads /\ Idle \notin CfsThreads
    BY ThreadsDistinct DEF IInv, TypeOK, Schedule, Threads
<1>3. /\ started /\ started' /\ tick = "off" /\ tick' = "off" /\ ~pendsv'
      /\ ~kq.missPanic
    BY DEF Schedule, Alive
<1>4. UNCHANGED <<waitTree, suspended, wakeAt>>
    BY DEF Schedule, waitVars
<1>5. state[current] \in {"Running", "Waiting", "Suspended"}
    BY <1>2, <1>3 DEF IInv, OnlyCurrentRuns, ThreadStates
<1>6. runq \in SUBSET CfsThreads
    BY DEF IInv, TypeOK
<1>7. ASSUME NEW t \in Threads \cup {Idle}, SwitchTo(t, runq \ {t}),
             t # current => state[t] \notin {"Waiting", "Suspended", "Unspawned"} \/ t = Idle,
             t = current => state[t] = "Running" /\ t \notin CfsThreads
      PROVE  IInv'
    <2>1. /\ state' = [[state EXCEPT ![current] = IF Blocked(@) THEN @ ELSE "Ready"]
                           EXCEPT ![t] = "Running"]
          /\ runq' = IF CurrentStaysRunnable THEN (runq \ {t}) \cup {current} ELSE runq \ {t}
          /\ current' = t
          /\ currentIsCfs' = (t \in CfsThreads)
        BY <1>7 DEF SwitchTo
    <2>2. ~Blocked(state[t])
        BY <1>5, <1>7 DEF Blocked, IInv
    <2>3. CurrentStaysRunnable => current \notin runq
        BY <1>5 DEF CurrentStaysRunnable, IInv, PlacementConsistent
    <2>4. ~assertFailed'
        BY <1>7, <2>2, <2>3 DEF SwitchTo
    <2>5. /\ state'[t] = "Running"
          /\ t # current => state'[current] = IF Blocked(state[current])
                                                 THEN state[current] ELSE "Ready"
          /\ \A u \in Threads \cup {Idle} : u # t /\ u # current => state'[u] = state[u]
        BY <1>2, <2>1
    <2>6. \A u \in Threads \cup {Idle} : state'[u] = "Running" => u = t
        BY <2>5, <1>5 DEF IInv, OnlyCurrentRuns, Blocked
    <2>7. runq' = {u \in CfsThreads : state'[u] = "Ready"}
        <3>1. currentIsCfs <=> current \in CfsThreads
            BY DEF IInv, OnlyCurrentRuns
        <3>2. runq = {u \in CfsThreads : state[u] = "Ready"}
            BY DEF IInv, PlacementConsistent
        <3>3. CurrentStaysRunnable <=> current \in CfsThreads /\ state[current] = "Running"
            BY <1>5, <3>1 DEF CurrentStaysRunnable, Blocked
        <3>4. ASSUME NEW u \in CfsThreads
              PROVE  u \in runq' <=> state'[u] = "Ready"
            <4>1. u \in Threads \cup {Idle}
                BY DEF Threads
            <4>2. CASE u = t
                BY <1>7, <2>1, <2>5, <3>3, <4>2
            <4>3. CASE u # t /\ u = current
                <5>1. u \notin runq
                    BY <1>5, <3>2, <4>3
                <5>2. u \in runq' <=> CurrentStaysRunnable
                    BY <2>1, <4>3, <5>1
                <5>3. state'[u] = "Ready" <=> state[u] = "Running"
                    BY <1>5, <2>5, <4>3 DEF Blocked
                <5>4. QED
                    BY <3>3, <4>3, <5>2, <5>3
            <4>4. CASE u # t /\ u # current
                BY <2>1, <2>5, <3>2, <4>1, <4>4
            <4>5. QED
                BY <4>2, <4>3, <4>4
        <3>5. runq' \subseteq CfsThreads
            BY <1>1 DEF TypeOK
        <3>6. QED
            BY <3>4, <3>5
    <2>8. PlacementConsistent'
        <3>1. /\ waitTree' = {u \in Threads : state'[u] = "Waiting"}
              /\ suspended' = {u \in Threads : state'[u] = "Suspended"}
            BY <1>4, <1>5, <2>2, <2>5 DEF IInv, PlacementConsistent, Blocked
        <3>2. \A u \in RtThreads :
                 state'[u] \in {"Ready", "Running"} <=> state[u] \in {"Ready", "Running"}
            BY <1>2, <1>5, <1>7, <2>5 DEF Blocked, Threads, ThreadStates
        <3>3. QED
            BY <1>2, <1>3, <2>7, <3>1, <3>2 DEF IInv, PlacementConsistent
    <2>9. OnlyCurrentRuns'
        BY <1>3, <2>1, <2>5, <2>6 DEF OnlyCurrentRuns
    <2>10. ~Blocked(state'[Idle])
        BY <1>2, <2>5 DEF IInv, Blocked
    <2>11. QED
        BY <1>1, <1>2, <1>3, <1>4, <2>1, <2>4, <2>5, <2>8, <2>9, <2>10
        DEF IInv, NextIsFirstActive, WaitTimerArmed, NoAssertionFails
<1>8. CASE ScheduleIdle
    <2>1. SwitchTo(Idle, runq) /\ runq \ {Idle} = runq
        BY <1>2, <1>6, <1>8 DEF ScheduleIdle
    <2>2. current = Idle => state[Idle] = "Running"
        BY <1>5 DEF IInv, Blocked
    <2>3. QED
        BY <1>2, <1>7, <2>1, <2>2
<1>9. CASE ScheduleCfs
    <2> DEFINE t == Leftmost(runq, ChargedVruntime, ThreadAddr)
    <2>1. ChargedVruntime \in [CfsThreads -> Nat]
        BY <1>1, ChargedVruntimeType DEF TypeInv
    <2>2. t \in runq
        BY <1>6, <1>9, <2>1, LeftmostCfs DEF ScheduleCfs
    <2>3. \/ /\ assertFailed' = (t = current)
             /\ CurrentStaysRunnable
             /\ UNCHANGED <<state, runq, current, currentIsCfs>>
          \/ SwitchTo(t, runq \ {t})
        BY <1>9 DEF ScheduleCfs
    <2> HIDE DEF t
    <2>4. t \in Threads /\ state[t] = "Ready" /\ t # current
        BY <1>5, <1>6, <2>2 DEF IInv, PlacementConsistent, Threads
    <2>5. CASE /\ assertFailed' = (t = current)
               /\ CurrentStaysRunnable
               /\ UNCHANGED <<state, runq, current, currentIsCfs>>
        <3>1. ~assertFailed'
            BY <2>4, <2>5
        <3>2. state[current] = "Running"
            BY <1>5, <2>5 DEF CurrentStaysRunnable, Blocked
        <3>3. PlacementConsistent' /\ OnlyCurrentRuns'
            BY <1>2, <1>3, <1>4, <2>5, <3>2 DEF IInv, PlacementConsistent, OnlyCurrentRuns
        <3>4. QED
            BY <1>1, <1>2, <1>3, <1>4, <2>5, <3>1, <3>2, <3>3
            DEF IInv, NextIsFirstActive, WaitTimerArmed, NoAssertionFails
    <2>6. CASE SwitchTo(t, runq \ {t})
        BY <1>7, <2>4, <2>6
    <2>7. QED
        BY <2>3, <2>5, <2>6
<1>10. CASE ScheduleRt
    <2> DEFINE t == kq.next
    <2>1. t \in RtThreads /\ SwitchTo(t, runq)
        BY <1>10 DEF ScheduleRt
    <2>2. t = FirstActive(kq)
        BY <1>3 DEF IInv, NextIsFirstActive
    <2>3. t \in kq.active
        <3>1. kq.active \in SUBSET Timers /\ kq.expireAt \in [Timers -> Nat]
            BY <1>2, QueueFields
        <3>2. t # NoTimer
            BY <2>1, TimersDistinct DEF Timers
        <3> HIDE DEF t
        <3>3. QED
            BY <2>2, <3>1, <3>2, FirstOfMember DEF FirstActive
    <2> HIDE DEF t
    <2>4. state[t] \in {"Ready", "Running"}
        BY <1>3, <2>1, <2>3 DEF IInv, PlacementConsistent, Queued
    <2>5. runq \ {t} = runq /\ t \in Threads
        BY <1>6, <2>1, ThreadsDistinct DEF Threads
    <2>6. t = current => state[t] = "Running" /\ t \notin CfsThreads
        BY <1>5, <2>1, <2>4, ThreadsDistinct
    <2>7. QED
        BY <1>7, <2>1, <2>4, <2>5, <2>6
<1>11. QED
    BY <1>8, <1>9, <1>10 DEF Schedule

-----------------------------------------------------------------------------
(* The theorems.                                                           *)

LEMMA InvStutter == IInv /\ UNCHANGED vars => IInv'
BY DEF IInv, TypeOK, PlacementConsistent, OnlyCurrentRuns, NextIsFirstActive,
    WaitTimerArmed, NoAssertionFails, vars, queueVars, waitVars, cpuVars, tickVars

LEMMA InvNext ==
    ASSUME PendSVLowest = FALSE, IInv, [Next]_vars PROVE IInv'
<1>1. CASE Stop
    BY <1>1, InvStutter DEF Stop
<1>2. QED
    BY <1>1, InvStutter, InvBoot, InvThreadCall, InvWakeWaiter, InvTickHandler,
       InvSchedule DEF Next

\* With PendSV not below the other interrupts, IInv is inductive (sched.rs,
\* ktimer.rs, waitq.rs): it holds at reset and every handler keeps it.
THEOREM Invariance ==
    ASSUME PendSVLowest = FALSE PROVE Spec => []IInv
<1>1. IInv /\ [Next]_vars => IInv'
    BY InvNext
<1>2. QED
    BY <1>1, InvInit, PTL DEF Spec

\* Each thread is in exactly the container its state names, after any
\* interleaving of calls, interrupts and context switches.
THEOREM PlacementCorrect ==
    ASSUME PendSVLowest = FALSE PROVE Spec => []PlacementConsistent
<1>1. IInv => PlacementConsistent
    BY DEF IInv
<1>2. QED
    BY <1>1, Invariance, PTL

\* No thread but the current one is Running, and with no context switch
\* pending the current one is.
THEOREM RunningCorrect ==
    ASSUME PendSVLowest = FALSE PROVE Spec => []OnlyCurrentRuns
<1>1. IInv => OnlyCurrentRuns
    BY DEF IInv
<1>2. QED
    BY <1>1, Invariance, PTL

\* NEXT_KTIMER, which schedule trusts, is never stale outside the tick handler.
THEOREM SelectionCorrect ==
    ASSUME PendSVLowest = FALSE PROVE Spec => []NextIsFirstActive
<1>1. IInv => NextIsFirstActive
    BY DEF IInv
<1>2. QED
    BY <1>1, Invariance, PTL

\* The single wait timer always stands for the earliest of all sleepers.
THEOREM WaitTimerCorrect ==
    ASSUME PendSVLowest = FALSE PROVE Spec => []WaitTimerArmed
<1>1. IInv => WaitTimerArmed
    BY DEF IInv
<1>2. QED
    BY <1>1, Invariance, PTL

\* No debug_assert! of the scheduler can fail.
THEOREM AssertionsHold ==
    ASSUME PendSVLowest = FALSE PROVE Spec => []NoAssertionFails
<1>1. IInv => NoAssertionFails
    BY DEF IInv
<1>2. QED
    BY <1>1, Invariance, PTL

\* Only the last step of the tick handler ends it.
LEMMA OnlyDispatchDone ==
    ASSUME Next, tick = "dispatch", tick' = "off" PROVE DispatchDone
BY DEF Next, Boot, InitCfs, SpawnCfs, SpawnRt, StartScheduler, ThreadCall,
    Yieldyi, Msleepyi, BlockCurrentThread, SetRtThreadStartTime, ThreadMode,
    WakeWaiter, HandBack, EnqueueRunqFromWaitq, WakeTaken, InterruptTaken, TickHandler,
    SysTick, DispatchCfs, DispatchRt, DispatchWait, Dispatching, WakeSleeper,
    WakeDone, Schedule, Stop, tickVars, vars

\* The wait timer is queued and bounds every sleeper's wake_at, so the first
\* timer of the two trees bounds them all.
LEMMA ServedStep ==
    ASSUME IInv, Next, tick = "dispatch", tick' = "off"
    PROVE  /\ \A t \in waitTree : wakeAt[t] > kq.now
           /\ \A tm \in kq.active \cup kq.inactive : kq.expireAt[tm] > kq.now
<1>1. DispatchDone
    BY OnlyDispatchDone
<1>2. /\ kq \in KTimerQueues /\ WaitTimer \in kq.inactive
      /\ kq.expireAt[WaitTimer] = EarliestWake(waitTree, wakeAt)
    BY <1>1 DEF IInv, TypeOK, WaitTimerArmed, DispatchDone, Alive
<1>3. /\ First(kq) \in Timers
      /\ \A tm \in kq.active \cup kq.inactive :
            kq.expireAt[First(kq)] <= kq.expireAt[tm]
    BY <1>2, FirstEffect
<1>4. /\ kq.expireAt \in [Timers -> Nat] /\ kq.now \in Nat
      /\ kq.active \cup kq.inactive \subseteq Timers
    BY <1>2, QueueFields
<1>5. kq.expireAt[First(kq)] > kq.now
    BY <1>1, <1>3, <1>4 DEF DispatchDone, IsExpired
<1>6. \A tm \in kq.active \cup kq.inactive : kq.expireAt[tm] > kq.now
    BY <1>3, <1>4, <1>5
<1>7. /\ EarliestWake(waitTree, wakeAt) \in Nat
      /\ \A t \in waitTree : EarliestWake(waitTree, wakeAt) <= wakeAt[t]
    BY EarliestWakeEffect DEF IInv, TypeOK
<1>8. \A t \in waitTree : wakeAt[t] \in Nat
    BY DEF IInv, TypeOK
<1>9. EarliestWake(waitTree, wakeAt) > kq.now
    BY <1>2, <1>6
<1>10. QED
    BY <1>4, <1>6, <1>7, <1>8, <1>9

\* handle_sched_tick returns only when no timer and no sleeper is due.
THEOREM TickServesAll ==
    ASSUME PendSVLowest = FALSE PROVE Spec => NothingLeftExpired
<1> DEFINE A == tick = "dispatch" /\ tick' = "off" =>
                  /\ \A t \in waitTree : wakeAt[t] > kq.now
                  /\ \A tm \in kq.active \cup kq.inactive : kq.expireAt[tm] > kq.now
<1>1. IInv /\ [Next]_vars => [A]_vars
    BY ServedStep
<1>2. QED
    BY <1>1, Invariance, PTL DEF Spec, NothingLeftExpired

\* Only schedule clears PendSV.
LEMMA OnlySchedule ==
    ASSUME Next, pendsv, ~pendsv' PROVE Schedule
BY DEF Next, Boot, InitCfs, SpawnCfs, SpawnRt, StartScheduler, ThreadCall,
    Yieldyi, Msleepyi, BlockCurrentThread, SetRtThreadStartTime, ThreadMode,
    WakeWaiter, HandBack, EnqueueRunqFromWaitq, TickHandler, SysTick, DispatchCfs,
    DispatchRt, DispatchWait, WakeSleeper, WakeDone, DispatchDone, Stop, vars

\* The interval schedule programs ends by the first deadline of the two trees.
LEMMA InTimeStep ==
    ASSUME IInv, Next, pendsv, ~pendsv', NEW tm \in kq.active \cup kq.inactive
    PROVE  \/ kq.now + reload' + 1 <= kq.expireAt[tm]
           \/ kq.expireAt[tm] < kq.now + ReloadMin + 1
<1>1. Schedule
    BY OnlySchedule
<1>2. kq \in KTimerQueues /\ WaitTimer \in kq.inactive
    BY <1>1 DEF IInv, TypeOK, WaitTimerArmed, Schedule, Alive
<1> DEFINE f == First(kq)
<1>3. f \in Timers /\ kq.expireAt[f] <= kq.expireAt[tm]
    BY <1>2, FirstEffect
<1>4. reload' = ReloadFor(kq, f)
    BY <1>1 DEF Schedule
<1> HIDE DEF f
<1>5. /\ reload' \in ReloadMin .. ReloadMax
      /\ \/ kq.now + reload' + 1 <= kq.expireAt[f]
         \/ reload' = ReloadMin
    BY <1>2, <1>3, <1>4, ReloadForEffect
<1>6. kq.expireAt[f] \in Nat /\ kq.expireAt[tm] \in Nat /\ kq.now \in Nat
    BY <1>2, <1>3, QueueFields
<1>7. QED
    BY <1>3, <1>5, <1>6, TimingAssumption DEF ReloadMin

\* SysTick fires no later than the first deadline of the two trees, up to the
\* shortest interval the hardware can count.
THEOREM TickInTime ==
    ASSUME PendSVLowest = FALSE PROVE Spec => TickNotLate
<1> DEFINE A == pendsv /\ ~pendsv' =>
                  \A tm \in kq.active \cup kq.inactive :
                      kq.now + reload' + 1 <= kq.expireAt[tm]
                          \/ kq.expireAt[tm] < kq.now + ReloadMin + 1
<1>1. IInv /\ [Next]_vars => [A]_vars
    BY InTimeStep
<1>2. QED
    BY <1>1, Invariance, PTL DEF Spec, TickNotLate

\* The thread schedule leaves running has the earliest active timer, or the
\* least vruntime of its class.
LEMMA OrderStep ==
    ASSUME IInv, Next, pendsv, ~pendsv'
    PROVE  /\ current' \in RtThreads =>
                 \A tm \in kq.active : kq.expireAt[current'] <= kq.expireAt[tm]
           /\ current' \in CfsThreads =>
                 \A t \in runq' : vruntime'[current'] <= vruntime'[t]
<1>1. Schedule
    BY OnlySchedule
<1>2. /\ kq \in KTimerQueues /\ kq.next = FirstActive(kq)
      /\ runq \in SUBSET CfsThreads
    BY <1>1 DEF IInv, TypeOK, NextIsFirstActive, Schedule, Alive
<1>3. vruntime' = ChargedVruntime /\ ChargedVruntime \in [CfsThreads -> Nat]
    BY <1>1, IInvTyped, ChargedVruntimeType DEF Schedule, TypeInv
<1>4. Idle \notin RtThreads /\ Idle \notin CfsThreads /\ CfsThreads \cap RtThreads = {}
    BY ThreadsDistinct DEF Threads
<1>5. CASE ScheduleIdle
    BY <1>4, <1>5 DEF ScheduleIdle, SwitchTo
<1>6. CASE ScheduleCfs
    <2> DEFINE t == Leftmost(runq, ChargedVruntime, ThreadAddr)
    <2>1. t \in runq /\ \A u \in runq : ChargedVruntime[t] <= ChargedVruntime[u]
        BY <1>2, <1>3, <1>6, LeftmostCfs DEF ScheduleCfs
    <2>2. \/ /\ ChargedVruntime[current] <= ChargedVruntime[t]
             /\ CurrentStaysRunnable
             /\ runq' = runq /\ current' = current
          \/ /\ ~(CurrentStaysRunnable /\ ChargedVruntime[current] <= ChargedVruntime[t])
             /\ SwitchTo(t, runq \ {t})
        BY <1>6 DEF ScheduleCfs
    <2> HIDE DEF t
    <2>3. t \in CfsThreads /\ ChargedVruntime[t] \in Nat
        BY <1>2, <1>3, <2>1
    <2>4. \A u \in runq : ChargedVruntime[u] \in Nat
        BY <1>2, <1>3
    <2>5. CurrentStaysRunnable => current \in CfsThreads /\ ChargedVruntime[current] \in Nat
        BY <1>3 DEF CurrentStaysRunnable, IInv, OnlyCurrentRuns
    <2>6. CASE /\ ChargedVruntime[current] <= ChargedVruntime[t]
               /\ CurrentStaysRunnable
               /\ runq' = runq /\ current' = current
        <3>1. \A u \in runq : ChargedVruntime[current] <= ChargedVruntime[u]
            BY <2>1, <2>3, <2>4, <2>5, <2>6
        <3>2. QED
            BY <1>3, <1>4, <2>5, <2>6, <3>1
    <2>7. CASE /\ ~(CurrentStaysRunnable /\ ChargedVruntime[current] <= ChargedVruntime[t])
               /\ SwitchTo(t, runq \ {t})
        <3>1. /\ current' = t
              /\ runq' = IF CurrentStaysRunnable
                           THEN (runq \ {t}) \cup {current} ELSE runq \ {t}
            BY <2>7 DEF SwitchTo
        <3>2. \A u \in runq' : ChargedVruntime[t] <= ChargedVruntime[u]
            BY <2>1, <2>3, <2>5, <2>7, <3>1
        <3>3. QED
            BY <1>3, <1>4, <2>3, <3>1, <3>2
    <2>8. QED
        BY <2>2, <2>6, <2>7
<1>7. CASE ScheduleRt
    <2> DEFINE t == kq.next
    <2>1. t \in RtThreads /\ current' = t
        BY <1>7 DEF ScheduleRt, SwitchTo
    <2>2. t # NoTimer
        BY <2>1, TimersDistinct DEF Timers
    <2>3. kq.active \in SUBSET Timers /\ kq.expireAt \in [Timers -> Nat]
        BY <1>2, QueueFields
    <2>4. t = FirstOf(kq.expireAt, kq.active)
        BY <1>2 DEF FirstActive
    <2> HIDE DEF t
    <2>5. \A tm \in kq.active : kq.expireAt[t] <= kq.expireAt[tm]
        BY <2>2, <2>3, <2>4, FirstOfMember
    <2>6. QED
        BY <1>4, <2>1, <2>5
<1>8. QED
    BY <1>1, <1>5, <1>6, <1>7 DEF Schedule

\* schedule serves the earliest active deadline between the classes and the
\* least vruntime within CFS, after charging the outgoing thread.
THEOREM DispatchOrderCorrect ==
    ASSUME PendSVLowest = FALSE PROVE Spec => DispatchOrder
<1> DEFINE A == pendsv /\ ~pendsv' /\ ~assertFailed' =>
                  /\ current' \in RtThreads =>
                        \A tm \in kq.active : kq.expireAt[current'] <= kq.expireAt[tm]
                  /\ current' \in CfsThreads =>
                        \A t \in runq' : vruntime'[current'] <= vruntime'[t]
<1>1. IInv /\ [Next]_vars => [A]_vars
    BY OrderStep
<1>2. QED
    BY <1>1, Invariance, PTL DEF Spec, DispatchOrder

-----------------------------------------------------------------------------
(* The loops of handle_sched_tick come to an end.                          *)

LEMMA OnlyTickHandler ==
    ASSUME IInv, Next, tick # "off", Alive'
    PROVE  /\ Alive
           /\ \/ DispatchCfs
              \/ \E t \in RtThreads : DispatchRt(t)
              \/ DispatchWait
              \/ \E t \in Threads : WakeSleeper(t)
              \/ WakeDone
              \/ DispatchDone
<1>1. started
    BY DEF IInv
<1>2. ~Stop
    BY DEF Stop, ThreadMode, Alive, vars
<1>3. ~Boot /\ ~ThreadCall /\ ~SysTick /\ ~Schedule /\ \A t \in Threads : ~WakeWaiter(t)
    BY <1>1 DEF Boot, InitCfs, SpawnCfs, SpawnRt, StartScheduler, ThreadCall,
        Yieldyi, Msleepyi, BlockCurrentThread, SetRtThreadStartTime, ThreadMode,
        WakeWaiter, WakeTaken, InterruptTaken, SysTick, Schedule
<1>4. TickHandler
    BY <1>2, <1>3 DEF Next
<1>5. QED
    BY <1>3, <1>4 DEF TickHandler, DispatchCfs, DispatchRt, DispatchWait,
        Dispatching, WakeSleeper, WakeDone, DispatchDone

\* A due timer that gets a deadline ahead.
LEMMA OneLessDue ==
    ASSUME kq \in KTimerQueues, kq' \in KTimerQueues, NEW tm \in DueTimers,
           OnlyChanged(kq', kq, tm), kq'.expireAt[tm] > kq'.now
    PROVE  Shrinks(DueTimers, DueTimers')
<1>1. /\ kq.active \in SUBSET Timers /\ kq.inactive \in SUBSET Timers
      /\ kq'.active \in SUBSET Timers /\ kq'.inactive \in SUBSET Timers
      /\ kq'.expireAt[tm] \in Nat /\ kq'.now \in Nat
    BY QueueFields DEF DueTimers
<1>2. tm \notin DueTimers'
    BY <1>1 DEF DueTimers, IsExpired
<1>3. \A a \in Timers \ {tm} : a \in DueTimers' <=> a \in DueTimers
    BY <1>1 DEF DueTimers, IsExpired, OnlyChanged
<1>4. DueTimers' \subseteq Timers
    BY <1>1 DEF DueTimers
<1>5. QED
    BY <1>2, <1>3, <1>4 DEF Shrinks

\* The first timer of dispatch_expired is queued and due.
LEMMA DispatchingDue ==
    ASSUME IInv, NEW tm, Dispatching(tm)
    PROVE  tm \in DueTimers /\ kq \in KTimerQueues /\ kq.now \in Nat
<1>1. kq \in KTimerQueues /\ WaitTimer \in kq.inactive
    BY DEF IInv, TypeOK, WaitTimerArmed, Dispatching, Alive
<1>2. QED
    BY <1>1, FirstEffect, QueueFields DEF Dispatching, DueTimers

LEMMA ProgressCfs ==
    ASSUME IInv, kq' \in KTimerQueues, DispatchCfs, kq.now < Never PROVE NearerToEnd
<1>1. /\ CfsTimer \in DueTimers /\ kq \in KTimerQueues /\ elapsed \in Nat
      /\ kq' = DispatchCfsTimer(kq, elapsed)
    BY DispatchingDue DEF DispatchCfs, IInv, TypeOK
<1>2. /\ OnlyChanged(kq', kq, CfsTimer)
      /\ CfsTimer \in kq.active => CfsTimer \notin kq'.active
      /\ CfsTimer \notin kq.active => kq'.expireAt[CfsTimer] > kq'.now
    BY <1>1, DispatchCfsDue
<1>3. DueSleepers' = DueSleepers
    BY <1>2 DEF DueSleepers, DispatchCfs, waitVars, OnlyChanged
<1>4. CASE kq'.expireAt[CfsTimer] > kq'.now
    BY <1>1, <1>2, <1>3, <1>4, OneLessDue DEF NearerToEnd
<1>5. CASE ~(kq'.expireAt[CfsTimer] > kq'.now)
    <2>1. CfsTimer \in kq.active /\ CfsTimer \notin kq'.active
        BY <1>2, <1>5
    <2>2. \A a \in Timers \ {CfsTimer} : a \in DueTimers' <=> a \in DueTimers
        BY <1>1, <1>2, QueueFields DEF DueTimers, IsExpired, OnlyChanged
    <2>3. DueTimers' \subseteq DueTimers
        BY <1>1, <2>2, QueueFields DEF DueTimers
    <2>4. DueTimers' \cap kq'.active \subseteq (DueTimers \cap kq.active) \ {CfsTimer}
        BY <1>2, <2>1, <2>3 DEF OnlyChanged
    <2>5. Shrinks(DueTimers \cap kq.active, DueTimers' \cap kq'.active)
        BY <1>1, <2>1, <2>4 DEF Shrinks
    <2>6. QED
        BY <1>3, <2>3, <2>5 DEF NearerToEnd, Shrinks
<1>6. QED
    BY <1>4, <1>5

LEMMA ProgressRt ==
    ASSUME IInv, kq' \in KTimerQueues, ~kq'.missPanic, NEW t \in RtThreads,
           DispatchRt(t), kq.now < Never
    PROVE  NearerToEnd
<1>1. /\ t \in DueTimers /\ kq \in KTimerQueues
      /\ kq' = DispatchRtTimer(kq, t)
    BY DispatchingDue DEF DispatchRt
<1>2. OnlyChanged(kq', kq, t) /\ kq'.expireAt[t] > kq'.now
    BY <1>1, DispatchRtDue
<1>3. DueSleepers' = DueSleepers
    BY <1>2 DEF DueSleepers, DispatchRt, waitVars, OnlyChanged
<1>4. QED
    BY <1>1, <1>2, <1>3, OneLessDue DEF NearerToEnd

LEMMA ProgressWait ==
    ASSUME IInv, DispatchWait PROVE NearerToEnd
<1>1. /\ WaitTimer \in DueTimers /\ kq \in KTimerQueues /\ WaitTimer \in Timers
      /\ kq' = Remove(kq, WaitTimer)
    BY DispatchingDue DEF DispatchWait, Timers
<1>2. /\ kq'.now = kq.now /\ kq'.expireAt = kq.expireAt
      /\ kq'.active = kq.active \ {WaitTimer} /\ kq'.inactive = kq.inactive \ {WaitTimer}
    BY <1>1, RemoveEffect
<1>3. DueTimers' = DueTimers \ {WaitTimer}
    BY <1>2 DEF DueTimers, IsExpired
<1>4. DueSleepers' = DueSleepers
    BY <1>2 DEF DueSleepers, DispatchWait, waitVars
<1>5. QED
    BY <1>1, <1>3, <1>4 DEF NearerToEnd, Shrinks

LEMMA ProgressSleeper ==
    ASSUME IInv, NEW t \in Threads, WakeSleeper(t) PROVE NearerToEnd
<1>1. kq'.now = kq.now
    <2>1. kq \in KTimerQueues /\ elapsed \in Nat
        BY DEF IInv, TypeOK
    <2>2. CASE t \in CfsThreads
        BY <2>2 DEF WakeSleeper
    <2>3. CASE t \notin CfsThreads
        BY <2>1, <2>3, WakeRtClock DEF WakeSleeper, Threads
    <2>4. QED
        BY <2>2, <2>3
<1>2. t \in DueSleepers /\ DueSleepers' = DueSleepers \ {t}
    BY <1>1 DEF DueSleepers, WakeSleeper
<1>3. QED
    BY <1>2 DEF NearerToEnd, Shrinks

LEMMA ProgressWakeDone ==
    ASSUME IInv, WakeDone, kq.now < Never PROVE NearerToEnd
<1> DEFINE e == EarliestWake(waitTree, wakeAt)
           s == SetExpireAt(kq, WaitTimer, e)
<1>1. /\ kq \in KTimerQueues /\ e \in Nat /\ e > kq.now /\ kq.now \in Nat
      /\ WaitTimer \in Timers /\ kq' = EnqueueInactive(s, WaitTimer)
      /\ WaitTimer \notin kq.active
    <2>1. e \in Nat
        BY EarliestWakeEffect DEF IInv, TypeOK
    <2>2. kq \in KTimerQueues /\ WaitTimer \notin kq.active
        BY DEF IInv, TypeOK
    <2>3. e > kq.now
        BY DEF WakeDone, EarliestWake
    <2>4. QED
        BY <2>1, <2>2, <2>3, QueueFields DEF WakeDone, Timers
<1> HIDE DEF e
<1>2. /\ s \in KTimerQueues /\ s.now = kq.now
      /\ s.active = kq.active /\ s.inactive = kq.inactive
      /\ s.expireAt = [kq.expireAt EXCEPT ![WaitTimer] = e]
    BY <1>1, SetExpireAtEffect
<1> HIDE DEF s
<1>3. /\ kq'.now = kq.now /\ kq'.expireAt = s.expireAt
      /\ kq'.active = kq.active /\ kq'.inactive = kq.inactive \cup {WaitTimer}
    <2>1. s \in KTimerQueues /\ WaitTimer \in Timers
        BY <1>1, <1>2
    <2>2. /\ kq'.now = s.now /\ kq'.expireAt = s.expireAt
          /\ kq'.active = s.active \ {WaitTimer}
          /\ kq'.inactive = s.inactive \cup {WaitTimer}
        BY <1>1, <2>1, EnqueueInactiveEffect
    <2>3. QED
        BY <1>1, <1>2, <2>2
<1>4. /\ kq.expireAt \in [Timers -> Nat]
      /\ kq.active \in SUBSET Timers /\ kq.inactive \in SUBSET Timers
    BY <1>1, QueueFields
<1>5. WaitTimer \notin DueTimers'
    BY <1>1, <1>2, <1>3, <1>4 DEF DueTimers, IsExpired
<1>6. \A a \in Timers \ {WaitTimer} : a \in DueTimers' <=> a \in DueTimers
    BY <1>2, <1>3, <1>4 DEF DueTimers, IsExpired
<1>7. DueTimers' \subseteq Timers /\ DueTimers \subseteq Timers
    BY <1>1, <1>3, <1>4 DEF DueTimers
<1>8. DueTimers' = DueTimers \/ Shrinks(DueTimers, DueTimers')
    BY <1>5, <1>6, <1>7 DEF Shrinks
<1>9. DueSleepers' = DueSleepers
    BY <1>3 DEF DueSleepers, WakeDone, waitVars
<1>10. tick = "wake" /\ tick' = "dispatch"
    BY DEF WakeDone
<1>11. QED
    BY <1>3, <1>8, <1>9, <1>10 DEF NearerToEnd

LEMMA ProgressDone ==
    ASSUME IInv, DispatchDone PROVE NearerToEnd
<1>1. kq \in KTimerQueues /\ kq' = [kq EXCEPT !.next = FirstActive(kq)]
    BY DEF DispatchDone, IInv, TypeOK
<1>2. /\ kq'.now = kq.now /\ kq'.expireAt = kq.expireAt
      /\ kq'.active = kq.active /\ kq'.inactive = kq.inactive
    BY <1>1 DEF KTimerQueues
<1>3. DueTimers' = DueTimers /\ DueSleepers' = DueSleepers
    BY <1>2 DEF DueTimers, DueSleepers, IsExpired, DispatchDone, waitVars
<1>4. QED
    BY <1>2, <1>3 DEF NearerToEnd, DispatchDone

LEMMA ProgressStep ==
    ASSUME IInv, Next, tick # "off", Alive', kq.now < Never PROVE NearerToEnd
<1>1. kq' \in KTimerQueues /\ ~kq'.missPanic
    BY IInvTyped, TypeNext DEF TypeOK, Alive
<1>2. QED
    BY <1>1, OnlyTickHandler, ProgressCfs, ProgressRt, ProgressWait,
       ProgressSleeper, ProgressWakeDone, ProgressDone

\* Every turn of handle_sched_tick brings its loops nearer to their end, for
\* any number of timers and sleepers, however late the tick was (ktimer.rs,
\* dispatch_expired).  With finitely many threads that excludes an endless tick.
THEOREM TickProgressCorrect ==
    ASSUME PendSVLowest = FALSE PROVE Spec => TickProgress
<1> DEFINE A == tick # "off" /\ Alive' /\ kq.now < Never => NearerToEnd
<1>1. IInv /\ [Next]_vars => [A]_vars
    BY ProgressStep
<1>2. QED
    BY <1>1, Invariance, PTL DEF Spec, TickProgress

=============================================================================
