--------------------------- MODULE SemaphoreWait ---------------------------
(***************************************************************************)
(* The semaphore together with the global list of suspended threads.  A    *)
(* thread that blocks in take joins the semaphore's waiter tree, which is  *)
(* ordered by deadline, and the list, which keeps the order of arrival.    *)
(* give picks from the tree, and so unlinks from anywhere in the list.     *)
(***************************************************************************)
EXTENDS Semaphore, Sequences, SequencesExt

CONSTANT NoThread   \* the null pointer

ASSUME NoThreadAssumption == NoThread \notin Threads

L == INSTANCE SuspendedList WITH Entities <- Threads, NoEntity <- NoThread

VARIABLES
    list,       \* WAIT_QUEUE.suspended
    arrivals    \* the suspended threads in the order of their arrival

allVars == <<vars, list, arrivals>>

WaitInit ==
    /\ Init
    /\ list = L!EmptyList
    /\ arrivals = <<>>

\* insert_wait_thread and remove_wait_thread, for the one thread that the
\* step adds to the waiters or removes from them
ListFollows ==
    \/ \E t \in waiters' \ waiters :
          /\ list' = L!PushBack(list, t)
          /\ arrivals' = Append(arrivals, t)
    \/ \E t \in waiters \ waiters', i \in DOMAIN arrivals :
          /\ arrivals[i] = t
          /\ list' = L!Unlink(list, t)
          /\ arrivals' = RemoveAt(arrivals, i)
    \/ waiters' = waiters /\ UNCHANGED <<list, arrivals>>

WaitNext ==
    /\ \/ TryTake
       \/ \E t \in Threads : TakeFastFails(t) \/ TakeSlow(t)
       \/ Give
    /\ ListFollows

WaitSpec == WaitInit /\ [][WaitNext]_allVars

\* arrivals[i], or the null pointer beyond either end
At(i) == IF i \in DOMAIN arrivals THEN arrivals[i] ELSE NoThread

\* Following next from the head visits the suspended threads in the order of
\* their arrival, each once, prev leads back, and a thread that is not
\* suspended has no links left, so that it can be pushed again
\* (waitq.rs, SuspendedWaitList; diagnostics/waitq.rs, traverse_wait_queue).
ListInArrivalOrder ==
    /\ \A i \in 0 .. Len(arrivals) : L!NextSuspended(list, At(i)) = At(i + 1)
    /\ \A i \in 1 .. Len(arrivals) : list.prev[At(i)] = At(i - 1)
    /\ list.tail = At(Len(arrivals))
    /\ \A t \in Threads \ waiters : L!Detached(list, t)

=============================================================================
