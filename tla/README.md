# rtsched: TLA+ specification, model checking and proofs

rtsched is a small Rust kernel library for a single Cortex-M core: real-time
threads scheduled by deadline, a CFS class scheduled by virtual runtime, an idle
thread, finite and indefinite waits, semaphores, a mutex and message queues. This
directory specifies its scheduler, its timer framework and its blocking objects
in TLA+, checks them with TLC on small instances, and proves the main
properties with TLAPS for every instance. `PROJECT.json` lists the runs, the
theorems, the hazards and, for each definition, the source lines it models.

## 1. Inventory

| component | source | state | operations |
|---|---|---|---|
| scheduler core | `sched.rs` | `CURRENT_THREAD_CTX`, `CURRENT_THREAD_IS_CFS`, `SCHEDULER_STARTED`, idle thread | `init_cfs`, `schedule` (PendSV), `handle_sched_tick` (SysTick) |
| kernel timers | `ktimer.rs` | `KTIMER_QUEUE` (clock, active and inactive tree), `NEXT_KTIMER`, each timer's `expire_at`, RT runtime and miss counters | enqueue, remove, yield, dispatch of expired timers, wait-timer programming, SysTick reload |
| CFS run queue | `runq.rs` | tree by vruntime, `priority_sum` | enqueue, move to and from the wait queue |
| wait queue | `waitq.rs` | timeout tree by `wake_at`, list of suspended threads | insert, remove, pop expired |
| threads | `thread.rs` | state and kind of each thread | spawn, `yieldyi`, `msleepyi`, `set_rt_thread_start_time` |
| semaphores | `sync.rs` | count, waiter tree by deadline | `try_take`, `take`, `give` |
| mutex | `sync.rs` | owner, waiters, saved deadline | `try_lock`, `lock`, unlock with deadline inheritance |
| message queue | `message.rs` | ring, senders, receivers | `try_send`, `try_receive`, `send`, `receive` |
| red-black tree | `rbtree.rs` | intrusive nodes: parent, children, colour | insert, remove, first, next, `upper_bound` |
| Cortex-M port | `arch/cm` | PendSV and SysTick pending, SysTick counter and reload | critical section, context switch, start-up |
| diagnostics, trace, printing, host port | `diagnostics`, `print.rs`, `arch/host`, `test_support.rs` | buffers and test doubles | output only |

**Interaction.** A thread call is a critical section that moves the caller and
its timer between containers and sets PendSV pending. SysTick advances the clock,
serves every expired timer (one RT timer per RT thread, one timer for the CFS
class, one for all sleepers), wakes sleepers, and sets PendSV pending. PendSV
reads `NEXT_KTIMER` and picks a thread, then programs SysTick for the
first deadline of both trees. The objects block the running thread through
`block_current_thread` and wake one through `wake_waiter`.

**What is hard.** There is no interrupt nesting in a critical section, but
`handle_sched_tick` and `schedule` run outside one; a thread stays current
between its block and PendSV; `NEXT_KTIMER`, the wait timer's deadline and
`priority_sum` are cached values that every path has to maintain; a woken
thread has nothing reserved and must retry; `take` tests the count before its
critical section; reloads are clamped at both ends; a mutex writes deadlines into
timers that others move; two trees share one set of intrusive nodes; SysTick
may be pending while it is reprogrammed. The list with source lines is under
"hazards" in `PROJECT.json`.

**What makes each part correct.** Every thread in exactly the container of its
state; one Running thread; cached values never stale when used; a tick leaves
nothing due and ends; the dispatch order; for the queue, FIFO delivery without
lost wakeups; for semaphores, conservation of tokens and no sleeper
beside a stored token; for the mutex, exclusive ownership, hand-off to the most
urgent waiter and inheritance of its deadline; for the trees, order, balance
and links that agree with each other.

## 2. Modules

| module | models |
|---|---|
| `OrderedTree` | the red-black tree as a set with a least element by (key, address) |
| `RbTree` | `rbtree.rs` link by link, as operators from tree to tree |
| `IntrusiveTree` | one such tree and its callers |
| `TimerQueue` | the abstract promise of `KTimerQueue`: two sets and their earliest members |
| `KTimerQueue` | the two trees over shared nodes, with the cached minima |
| `KTimer` | `ktimer.rs` as operators from queue to queue; handlers compose them |
| `RtSched` | the state machine: scheduler, run queue, wait queue, thread calls, SysTick, PendSV |
| `BoundedFifo` | the abstract promise of a message queue |
| `MessageQueue` | `message.rs`: ring, waiter trees and retry loops |
| `Semaphore` | `CountingSemaphore`; with `MaxCount = 1`, `BinarySemaphore` |
| `SuspendedList`, `SemaphoreWait` | the linked list of suspended threads, and a semaphore that drives it |
| `MutexSched` | the mutexes with deadline inheritance, composed with `RtSched` |
| `CfsFairness` | `RtSched` without an end of time, for starvation |
| `SchedClock` | `RtSched` over the SysTick counter, for the clock against real time |
| `MC*` | instances for TLC |
| `*Proofs` | the TLAPS proofs |

### RtSched

`kq` is the timer queue with the job accounting the timer code writes; `state`,
`runq`, `waitTree`, `suspended` say where each thread is; `pendsv` and `reload` are the two
hardware registers that matter; `tick` and `elapsed` hold the position of the
tick handler and its local variable.

* A thread call (`Yieldyi`, `Msleepyi`, `BlockCurrentThread`,
  `SetRtThreadStartTime`) is one action: one critical section. The ticks the
  thread has run since the last reload are a free choice in `0 .. reload`.
* SysTick is `SysTick`, then one step per expired timer (`DispatchCfs`,
  `DispatchRt`, `DispatchWait`) and one per woken sleeper (`WakeSleeper`,
  `WakeDone`), then `DispatchDone`, which requests the context switch.
* `Schedule` is PendSV. `ScheduleIdle`, `ScheduleCfs`, `ScheduleRt` are the
  branches of `schedule`; each ends in programming SysTick.
* `WakeWaiter` is a wake by an object, from thread code or from an interrupt
  handler. Which waiter an object picks is decided in the object modules. One
  handler, or one critical section of the caller around several gives, may wake
  several threads before PendSV runs, and so may an application's SysTick handler
  after `handle_sched_tick` has returned (`WakeTaken`). The thread that has just
  blocked wakes nobody: `message.rs` wants blocking calls outside any
  critical section of the caller. The other thread calls are not modelled inside one.
* `PendSVLowest` says how the board sets exception priorities. At equal
  priority, the reset state and what the example boards use, a pending PendSV
  precedes SysTick and device interrupts because its exception number is lower.
  With a lower PendSV priority they may run first.
* A failed `debug_assert!` sets `assertFailed`, a recorded deadline miss sets
  `kq.missPanic`; both stop the system, as the panic handlers do.

Abstractions: `miss_cnt` is reduced to zero or not; the tick statistics and the
order of the suspended list are left out since only diagnostics read them; so is
the saturation of the 32-bit runtime counter; `schedule` is one step because
no handler that touches its data interrupts it at equal priority; calls
that fail or return at once are not steps. The tree is rebuilt from the set at
each use, so re-sorting queued entities is the identity.

### MessageQueue and Semaphore

A thread in a waiter tree takes no step. `sending` and `receiving` record the
calls that have not returned, so a woken thread is one with an unfinished call
that is in no tree. A send or receive that finds the queue full or empty registers the
thread in the same critical section, with any scheduler deadline. In
`Semaphore`, `slowPath` holds the threads between the first attempt of `take`
and its critical section; `given` and `taken` count for the conservation law.
`SemaphoreWait` adds `WAIT_QUEUE.suspended` with its links; `arrivals` is the
history the list is compared with.

### MutexSched

`lock` and `unlock_guard` write the expiration of the owner's timer, which the
scheduler moves at the same time, so the mutexes are composed with all of
`RtSched` and not specified alone. `LockFree` is `try_lock` or `lock` of a free mutex;
`LockOwned` blocks the caller, registers it with the deadline it had before
the block and boosts the owner; `Unlock` restores the owner's deadline, makes the first
waiter the owner and hands it back to the scheduler. A guard is not a separate
variable: a thread holds a guard of `m` that it can use when `owner[m]` is the
thread and it runs, and a thread whose `lock` was blocked returns a guard without
testing the owner again, which is why the hand-off property matters. A CFS
owner's boost changes the one timer of the class, as in the code, and the idle
thread may own a mutex but can neither wait nor be boosted.

### The trees

A tree of `RbTree` is a record of root, length and the links of all entities, in
the tree or not, so that a link left behind is visible. The left and right versions
of each case of the code are one definition with the side as a parameter.
`KTimerQueue` keeps one record of links for both trees, because each timer
embeds one node, and the cached pointers beside them. `RefinesTimerQueue` is
the link to the rest: `KTimer` computes with exactly the two sets and the
earliest members that `TimerQueue` promises.

A `while` loop of the code is `Loop(body, s)`: the body, which leaves the loop
variables alone once the condition is false, applied as often as there are
entities. That no loop needs more iterations than that is not assumed; it is
proved for each of them (section 4), and a loop cut short would show in the runs.
`Traverse` is the walk of the diagnostics over both trees in the same form.

### SchedClock and CfsFairness

`RtSched` leaves open when SysTick fires and how many ticks a thread has used;
`SchedClock` lets the counter decide both. `Count` is one tick of real time, and
`slept` counts the real ticks of each sleeper. `CfsFairness` removes the bounds on time: when
one is reached, `Rebase` shifts the clock, all expirations and all vruntimes.
The code only compares and subtracts these numbers, so the shifted
state behaves as the unshifted one, except that a thread that is blocked with a vruntime
behind all runnable ones loses that lead, which it would lose anyway when it wakes
and takes the leftmost vruntime.

## 3. Runs

| run | instance | shows |
|---|---|---|
| `RtSchedCfs` | 2 CFS threads (weights 1 and 3), 1 RT thread, sleeps of 0 and 3 | placement, one Running thread, exact `priority_sum`, no failed assertion, dispatch order; under `FairSpec`, the tick handler returns |
| `RtSchedTimers` | `MutexSched` with 1 CFS thread, 1 RT thread, 1 mutex, 10 ticks | selected timer and wait timer never stale, every turn of a tick nearer to its end, nothing left expired there, SysTick never late |
| `MessageQueue` | 4 threads, 2 messages, capacity 2, 2 deadlines | no lost wakeup, implements `BoundedFifo` |
| `Semaphore` | 4 threads, maximum 2, 4 gives | no token beside a sleeper, tokens conserved, the suspended list intact and in order |
| `Mutex` | 1 CFS and 2 RT threads, 2 mutexes | `MutexInv`, the inductive invariant of scheduler and mutexes together, with `IInv` as a conjunct; waiters have an owner, hand-off to the earliest, the deadline is inherited |
| `IntrusiveTree` | 12 entities, keys in pairs | balance, contents and links, walk in order, `contains`, `upper_bound` |
| `KTimerQueue` | 6 timers, two of them with two expirations | node in one tree, walk over both trees, implements `TimerQueue` |
| `RtSchedPendSVLowest` | PendSV below the other interrupts | violation: finding 1 |
| `RtSchedPreemption` | 2 RT threads | violation: finding 2 |
| `RtSchedIdle` | 1 CFS, 1 RT | violation: finding 3 |
| `CfsFairness` | 2 CFS threads of equal weight, endless time | violation: finding 4 |
| `SchedClock` | 2 CFS threads, sleeps of 3 | violation: finding 5 |

**Bounds.** `MaxNow` and `MaxVruntime` stop the environment, never a handler
that has begun. Periods and deadlines are 2 to 4 ticks and the longest reload
3 (interval 4), so a horizon of 7 to 10 ticks covers several slices, a full RT period, a sleep
that ends during another thread's slice, ties between timers (addresses
interleave the classes), a deadline miss, and both ends of the reload clamp.
`Never` is beyond every reachable time. Two slots with four threads let
senders and receivers wait in turn, with two threads on one side and a
competitor; the ring wraps at once. `Semaphore` is run without
deadlock checking because with `MaxGives` gives used up all threads may sleep;
in the program others may give later; four threads put a removal in the middle of
the suspended list. Twelve entities are enough for every case of both fixups, on
both sides, with recolouring that climbs two levels; six timers give both
trees several levels and ties across them. `Mutex` uses shorter
reloads, a horizon of 5 ticks and no `set_rt_thread_start_time`, which is covered
by the scheduler's own runs, so that three threads and two mutexes fit: two
waiters of one mutex, an owner that is boosted through both mutexes, and one that
sleeps or is re-armed while boosted all occur. `RtSchedTimers` has the longer horizon instead: there a
boosted owner misses its deadline, and unlock writes back a deadline that has already
passed. The two mutexes are
symmetric, as no address orders them; elsewhere no symmetry is used, since
addresses order threads and timers.

**Fairness.** `FairSpec` assumes weak fairness of the steps of a tick
handler that has been entered. The core executes a handler until it returns
and nothing of lower priority runs meanwhile; nothing is assumed about threads,
device interrupts or when SysTick fires. `EndlessSpec` of `CfsFairness` adds what a
running core gives: SysTick keeps firing, a pending PendSV is served, and time has no end
(`Rebase`). It assumes nothing of the threads, so that the starving thread is not
starved by an unfair scheduler of the model.

**Findings.** (1) If the board lowers PendSV below its interrupts, an interrupt
can wake a thread that has just blocked; it is then both current and in the run
queue and `schedule` queues it again, against the assertion in `sched.rs`.
`message.rs` allows wakes from any ordinary maskable handler and nothing
states the condition on priorities. With equal priorities it holds, and is proved. (2) `thread.rs`
says the runtime of an RT thread is charged when it is preempted; it is not.
(3) `docs/sched.md` says idle is selected only when no other work is runnable;
an active CFS timer with an empty run queue makes `schedule` select idle
although an RT thread is ready. The same document also lists that case, so its
two statements disagree. (4) `docs/runq.md` says that CFS does not starve threads;
a thread that blocks before each tick is charged nothing, takes the leftmost
vruntime when it wakes and, with the lower address, wins the tie each time.
(5) `docs/waitq.md` says that `msleepyi` blocks until the deadline; when SysTick
is already pending while `schedule` reprograms it, the handler adds the new interval to
the clock and the sleeper returns early.

## 4. Proofs

All theorems hold for every value of the constants that satisfies the named
`ASSUME`s: distinct identities, injective addresses, nonzero relative deadlines
and CFS times, nonzero priorities, finitely many CFS threads, a capacity and a
maximum count of at least one. TLC evaluates the same assumptions in the runs.

| module | about |
|---|---|
| `OrderedTreeProofs` | `Leftmost` exists, is a least element and is the same for keys that agree |
| `RbTreeProofs` | a lemma per operation of `RbTree`: what it does to every red-black tree, and that its loop ends |
| `IntrusiveTreeProofs` | one tree and its callers |
| `KTimerQueueProofs` | the two timer trees over shared nodes, and their refinement of `TimerQueue` |
| `RtSchedProofs` | a lemma per timer operator (types, membership, selection, which expirations it moves and what it leaves due), then the scheduler |
| `MutexSchedProofs` | the scheduler with mutexes, and `priority_sum` with and without them |
| `SemaphoreProofs` | the semaphore and the list of suspended threads |
| `MessageQueueProofs` | the message queue and its refinement |

**Red-black tree.** `IsRedBlack(t, M, key, S, H)` says that `t` is a red-black tree
of exactly the entities in `M`. It carries two witnesses so that no definition has to
recur over the shape of the tree: `S[n]`, the entities of the subtree at `n`, and
`H[n]`, the number of black entities on every way down from `n`; each is tied to the
values at the children. Only links of entities in `M` are mentioned, which is what lets two trees
share nodes; and `InsertEffect` and `DeleteEffect` include `OthersKept`: they write no entity outside
the tree.
`LoopEnds` gives every loop its result: a set the body stays in, and a measure that
decreases until the body changes nothing and that starts at no more than the number of
entities. For the searches and the insertion descent the measure is the size of the
subtree still ahead, for `next` and the two fixups, which climb, the number of entities outside the
subtree climbed from, for `contains` and the walk over both trees the entities not yet passed.

* Insertion. `Inserting` is the loop invariant of `insert_fixup`: a red-black tree but for
  one place, the loop variable and its parent, where red may meet red. One step either
  recolours and climbs or rotates and ends (`InsertFixupStepEffect`).
* Removal. `OneShort(.., p, e)` is a red-black tree in which the ways down on side `e`
  of `p` are one black entity short; `Removing` says so of the loop variables of
  `remove_fixup`. The cases of the code are lemmas about it: `RedSibling`, `BlackNephews`, `RedNearNephew`,
  `RedFarNephew`. The null sibling, against which the code guards, cannot occur
  (`SiteExists`). Taking the entity out is a splice (it has at most one child), or a splice of the
  successor followed by a substitution of the successor for the entity, in which subtrees,
  heights and colours are renamed (`SplicedCut`, `SubstitutedCut`).
* Rotation is used in five cases and proved once for links, order and subtrees (`RotateTree`, `RotateSite`)
  and once for heights and colours (`Turn`).
* Reading. `FirstInEffect`, `NextInEffect`, `UpperBoundEffect` and `ContainsInEffect` say
  what `first`, `next`, `upper_bound` and `contains` return; `RedBlackReads` that the tree is balanced and
  well linked in the sense of the runs and that `Below` is `M`.

The inductive invariant of `IntrusiveTree` is `Sound`: a red-black tree of `members`,
counted, and no link in any other entity. The four properties of the run follow from it, for
any number of entities and any order of calls.

**Timer queue.** `Queue` says that each of the two records `Tree(k)` is such a tree of its members,
with the right length and cached minimum, that the active flag of a member names its tree, and that a timer in neither
tree has no links. None of it is inductive alone: that an insertion into one tree
leaves the other intact needs that they share no entity, this needs the flags,
and a removal reads the flag to choose the tree. `TreeChange` is the lemma
that makes the two trees independent: a change of one within a set of entities disjoint
from the other's members leaves the other a tree of the same members. `EnqueueChange`,
`DetachChange` (remove, dequeue, `pop_first`) and `SetExpireAtChange` are one lemma per operation;
the last needs that a key changes only while its timer is in neither tree.
`TimersTraversedInOrder` adds that the earlier of the successor in the own tree and the upper bound in the other is the
successor in both. `TimerQueueRefined` maps the members, the cached minima and
the lengths to the variables of `TimerQueue` and shows that each operation is the abstract one of
the same name: this is what entitles `KTimer`, and the scheduler's proofs with it, to compute with sets.

**Scheduler.** `TypeCorrect` needs nothing else. The other theorems assume
`PendSVLowest = FALSE`: finding 1 shows that they are false without it.
The single invariants are not inductive: that a wake does not queue a thread
twice follows from placement; that placement is kept by `schedule` needs that
the current thread is not Ready; that in turn needs that no wake falls between the block of
the current thread and PendSV, and that the tick handler is entered with no switch pending. `IInv`
joins them with these facts, and with the disjointness of the two timer trees,
which the dispatch of an expired timer needs. `Invariance` proves
it, one lemma per action; the invariants follow. What all blocking calls share is
`InvBlocked`, and what all wakes share is `InvHandBack`; both speak of the timer queue only through
its trees, `NEXT_KTIMER` and the wait deadline, so that the mutex calls, which
also move expirations, use the same two lemmas. `TickServesAll`
uses that the wait timer is queued and is a lower bound of all `wake_at`,
so the first timer bounds everything; `TickInTime` and `DispatchOrderCorrect` use that
`Leftmost` is a minimum and that `NEXT_KTIMER` is the first active timer.

**The end of a tick.** `TickProgress` is the part of `TickReturns` that needs no
fairness: each turn of the loops decreases, lexicographically, the due sleepers,
the due timers, and the due timers that are active. The order of the three
matters. A woken RT thread may bring a timer that is due at once, because its remaining deadline
saturates at zero, and an active CFS timer that is parked after a tick longer than the
CFS period is due again; it leaves the active tree and gets a deadline ahead the next time.
The premise `kq.now < Never` is needed: at the end of the 64-bit clock every
deadline saturates and the loop would not end. That a decreasing finite measure ends
the loop, and that the handler keeps executing, is liveness and stays with TLC.
A step that changes nothing satisfies any action property; that no turn is
such a step is in the lemma `ProgressStep`, whose conclusion is irreflexive.

**Mutexes.** `MutexInv` joins `IInv` with the types of the mutexes and
`WaitersHaveOwner`. Neither half is inductive alone: `unlock` may hand
a thread back to the scheduler only because waiters are suspended, and waiters stay suspended only
because the scheduler moves no suspended thread except by a wake, and other objects
wake none that waits for a mutex. That the writes to expirations do not disturb `IInv` rests
on `SetSchedulerExpireAtEffect`: the trees stay, `NEXT_KTIMER` is refreshed, the
wait timer is not touched. Unlock with and without a waiter, and lock of
a free and of an owned mutex, are one lemma each. `HandOffCorrect`
follows from `Leftmost` being a minimum. `InheritanceCorrect` is about one critical section in
which the owner's timer may move twice: the boost writes it and `refresh_next_ktimer` may re-arm it.
`OnlyDueMoved` says that the refresh moves at most one timer, an active one that is due, to the
end of a new window. With nothing overdue that is never the boosted one; when the loan itself, or the queued
timer it was taken from, is overdue, the boost may be lost, and then the owner is at the beginning of
a new window and the overdue timer has stayed. The property says both.
`MutexTickServesAll`, `MutexTickInTime`, `MutexDispatchOrder` and `MutexTickProgress` carry the
scheduler's action properties over: a mutex call runs outside the tick and
with no switch pending, so each step lemma of the scheduler applies.

**Priority sum.** The sum over a set is a fold, that is a recursive function, and its
step needs that the order of the fold does not matter. No induction principle is
available with the installed provers, so the induction is done by minimal
counterexamples: a function that sums up all sets of at most `n` threads exists for
each `n` (`SumForAll`), the fold agrees with it (`PriorityOfIs`), and any
element may be taken out of the sum first (`SumRemove`). Then each block, wake and
spawn changes the sum by one priority; that the code's saturating subtraction never
saturates is part of it. `PrioritySumExact` is inductive relative to `IInv`.

**Message queue.** `MqInv` strengthens `NoLostWakeup` with typing and with the link between
waiter trees and unfinished calls; the step lemmas count the woken threads.
`FifoCorrect` maps the ring to the sequence `Contents` and shows that each
operation is a put, a get or a stutter of `BoundedFifo`. `RingInRange` is its typing.

**Semaphore.** `SemInv` is typing with the two properties. For the list of suspended
threads, `WaitInv` adds that `arrivals` lists each waiter once and that the
links of the list are those of `arrivals` in both directions, the list
head and tail being the links of a position before the first and after the last; `ListCorrect` shows that
appending and unlinking anywhere keep it. `ListKeepsSemaphore` shows that
the semaphore with the list implements the one without it.

**Only model-checked.** `TickReturns`, which is liveness under fairness; its safety half is
`TickProgress`. The violations are refutations on one instance and need no proof. `Sound` and `Queue`
quantify over the witnesses and are not evaluated by TLC; the properties they imply are.

## 5. Not modelled, and plan

Not modelled: printing, trace counters and timing samples, which nothing in the
scheduler reads; the host port and test
support; register saving and barriers, which are below the steps of this model;
thread ids, stacks and storage validation. The value that `restore_owner_deadline` writes back
may be stale when several mutexes boost one owner or the timer was re-armed in between; the model
has it as the code does, and no property claims that it is right.

Order of the remaining work:

1. A composition of the message queue or the semaphore with the scheduler, as done for the mutexes,
   so that the set of wakes is the one the objects produce.
2. What a boosted owner keeps between the boost and unlock: the timer may be re-armed or yield in
   between, and a statement that survives both is still to be found.
3. The step from `TimerQueue` to `KTimer`, whose operators use the two sets by definition, as an
   explicit composition.
