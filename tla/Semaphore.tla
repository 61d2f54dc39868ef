----------------------------- MODULE Semaphore -----------------------------
(***************************************************************************)
(* CountingSemaphore of src/sync.rs.  BinarySemaphore is the same code     *)
(* with a maximum of one token, so MaxCount = 1 is the binary semaphore.   *)
(*                                                                         *)
(* try_take is one atomic update and runs outside any critical section.    *)
(* take first tries that, and only then enters its critical section, so    *)
(* other threads and interrupt handlers may act in between.  give is one   *)
(* critical section.  A thread is Suspended while it is in the waiter      *)
(* tree; when give removes it, its take returns without looking at the     *)
(* count again.  Threads and interrupt handlers give freely: a semaphore   *)
(* has no owner.  The failing calls (WouldBlock, Full, NoCurrentThread)    *)
(* change nothing.                                                         *)
(***************************************************************************)
EXTENDS OrderedTree

CONSTANTS
    Threads,        \* the threads that use the semaphore
    MaxCount,       \* max_count
    InitialCount,   \* initial_count
    SyncAddr,       \* address of each thread's SyncEntity
    Deadlines,      \* scheduler deadlines a thread may have when it blocks
    MaxGives        \* bound: the number of tokens given

\* The assertions of CountingSemaphore::new.
ASSUME SemaphoreAssumption ==
    /\ MaxCount \in Nat \ {0}
    /\ InitialCount \in 0 .. MaxCount
    /\ Deadlines \subseteq Nat
    /\ MaxGives \in Nat
    /\ SyncAddr \in [Threads -> Nat]
    /\ \A a, b \in Threads : SyncAddr[a] = SyncAddr[b] => a = b

VARIABLES
    count,          \* CountingSemaphoreState.count
    waiters,        \* the threads linked in CountingSemaphoreState.waiters
    deadlineAt,     \* SyncEntity.deadline_at
    slowPath,       \* the threads whose take found no token at first
    given,          \* how many gives have succeeded
    taken           \* how many takes have obtained a token

vars == <<count, waiters, deadlineAt, slowPath, given, taken>>

TypeOK ==
    /\ count \in 0 .. MaxCount
    /\ waiters \subseteq Threads
    /\ deadlineAt \in [Threads -> Nat]
    /\ slowPath \subseteq Threads
    /\ given \in Nat
    /\ taken \in Nat

Init ==
    /\ count = InitialCount
    /\ waiters = {}
    /\ deadlineAt = [t \in Threads |-> 0]
    /\ slowPath = {}
    /\ given = 0
    /\ taken = 0

\* decrement_word_if_positive succeeds
TakeToken ==
    /\ count > 0
    /\ count' = count - 1
    /\ taken' = taken + 1

\* t executes its own code: it neither sleeps in take nor is half-way in it.
Runs(t) == t \notin waiters /\ t \notin slowPath

\* try_take, by a thread or an interrupt handler; also the first attempt of
\* a take that finds a token.
TryTake ==
    /\ TakeToken
    /\ UNCHANGED <<waiters, deadlineAt, slowPath, given>>

\* The first attempt of take finds no token.
TakeFastFails(t) ==
    /\ Runs(t)
    /\ count = 0
    /\ slowPath' = slowPath \cup {t}
    /\ UNCHANGED <<count, waiters, deadlineAt, given, taken>>

\* Mutant: the critical section of take does not look at the count again.
TakeSlowNoRecheck(t) ==
    /\ t \in slowPath
    /\ slowPath' = slowPath \ {t}
    /\ waiters' = waiters \cup {t}
    /\ \E d \in Deadlines : deadlineAt' = [deadlineAt EXCEPT ![t] = d]
    /\ UNCHANGED <<count, given, taken>>

\* The critical section of take: a second attempt, then block.
TakeSlow(t) ==
    /\ t \in slowPath
    /\ slowPath' = slowPath \ {t}
    /\ \/ /\ TakeToken
          /\ UNCHANGED <<waiters, deadlineAt>>
       \/ /\ count = 0
          /\ waiters' = waiters \cup {t}
          /\ \E d \in Deadlines : deadlineAt' = [deadlineAt EXCEPT ![t] = d]
          /\ UNCHANGED <<count, taken>>
    /\ UNCHANGED given

\* Mutant: give does not respect max_count.
GiveUnbounded ==
    /\ given < MaxGives
    /\ given' = given + 1
    /\ \/ /\ waiters # {}
          /\ waiters' = waiters \ {Leftmost(waiters, deadlineAt, SyncAddr)}
          /\ taken' = taken + 1
          /\ UNCHANGED count
       \/ /\ waiters = {}
          /\ count' = count + 1
          /\ UNCHANGED <<waiters, taken>>
    /\ UNCHANGED <<deadlineAt, slowPath>>

\* Mutant: give stores the token although it also wakes a waiter.
GiveTwice ==
    /\ given < MaxGives
    /\ given' = given + 1
    /\ waiters' = IF waiters = {} THEN {}
                  ELSE waiters \ {Leftmost(waiters, deadlineAt, SyncAddr)}
    /\ taken' = IF waiters = {} THEN taken ELSE taken + 1
    /\ count < MaxCount
    /\ count' = count + 1
    /\ UNCHANGED <<deadlineAt, slowPath>>

\* give: the earliest captured deadline receives the token, or it is stored.
Give ==
    /\ given < MaxGives
    /\ given' = given + 1
    /\ \/ /\ waiters # {}
          /\ waiters' = waiters \ {Leftmost(waiters, deadlineAt, SyncAddr)}
          /\ taken' = taken + 1
          /\ UNCHANGED count
       \/ /\ waiters = {}
          /\ count < MaxCount
          /\ count' = count + 1
          /\ UNCHANGED <<waiters, taken>>
    /\ UNCHANGED <<deadlineAt, slowPath>>

Next ==
    \/ TryTake
    \/ \E t \in Threads : TakeFastFails(t) \/ TakeSlow(t)
    \/ Give

Spec == Init /\ [][Next]_vars

-----------------------------------------------------------------------------
(* Correctness.                                                            *)

\* No thread sleeps in take while a token is available: a give that falls
\* between the first attempt of take and its critical section is not lost
\* (sync.rs, take and give).
NoTokenWhileWaiting == waiters # {} => count = 0

\* Tokens are neither lost nor duplicated between the stored count and the
\* direct hand-off of give: every token created is stored or was obtained by
\* exactly one take (sync.rs).
TokensConserved == count + taken = InitialCount + given

=============================================================================
