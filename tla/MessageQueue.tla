---------------------------- MODULE MessageQueue ----------------------------
(***************************************************************************)
(* The bounded message queue of src/message.rs.                            *)
(*                                                                         *)
(* Every operation is one critical section and so one action.  Between the *)
(* actions any other thread may run, and an interrupt handler may use the  *)
(* nonblocking operations.  A blocking call that finds the queue full or   *)
(* empty registers its thread in the same critical section; the thread is  *)
(* Suspended while it is in a waiter tree, and retries once it has been    *)
(* removed.  Nothing is reserved for it meanwhile.                         *)
(*                                                                         *)
(* Calls that fail (Full, Empty, InvalidContext, NoCurrentThread) change   *)
(* nothing and are not modelled as steps.                                  *)
(***************************************************************************)
EXTENDS OrderedTree, FiniteSets, Sequences

CONSTANTS
    Threads,        \* the CFS and RT threads that use the queue
    Messages,       \* the payloads
    NoMessage,      \* no payload: an uninitialised slot, no pending send
    N,              \* the capacity
    SyncAddr,       \* address of each thread's SyncEntity
    Deadlines       \* scheduler deadlines a thread may have when it blocks

ASSUME QueueAssumption ==
    /\ IsFiniteSet(Threads)
    /\ NoMessage \notin Messages
    /\ N \in Nat \ {0}
    /\ Deadlines \subseteq Nat
    /\ SyncAddr \in [Threads -> Nat]
    /\ \A a, b \in Threads : SyncAddr[a] = SyncAddr[b] => a = b

VARIABLES
    slots,          \* QueueState.slots; a read slot keeps its old bits
    head,           \* QueueState.head
    len,            \* QueueState.len
    senders,        \* the threads linked in QueueState.senders
    receivers,      \* the threads linked in QueueState.receivers
    deadlineAt,     \* SyncEntity.deadline_at
    sending,        \* the message of a thread's unfinished send
    receiving,      \* the threads with an unfinished receive
    delivered       \* the message the last successful receive returned

ring == <<slots, head, len>>
calls == <<deadlineAt, sending, receiving>>
vars == <<ring, senders, receivers, calls, delivered>>

TypeOK ==
    /\ slots \in [0 .. N - 1 -> Messages \cup {NoMessage}]
    /\ head \in 0 .. N - 1
    /\ len \in 0 .. N
    /\ senders \subseteq Threads
    /\ receivers \subseteq Threads
    /\ deadlineAt \in [Threads -> Nat]
    /\ sending \in [Threads -> Messages \cup {NoMessage}]
    /\ receiving \subseteq Threads
    /\ delivered \in Messages \cup {NoMessage}

Init ==
    /\ slots = [i \in 0 .. N - 1 |-> NoMessage]
    /\ head = 0
    /\ len = 0
    /\ senders = {}
    /\ receivers = {}
    /\ deadlineAt = [t \in Threads |-> 0]
    /\ sending = [t \in Threads |-> NoMessage]
    /\ receiving = {}
    /\ delivered = NoMessage

-----------------------------------------------------------------------------
(* The ring.                                                               *)

\* Mutant: the wrapped tail is one slot too far.
RingTailOffByOne ==
    IF len < N - head THEN head + len ELSE (len - (N - head) + 1) % N

\* The slot after the len occupied ones, without computing head + len.
RingTail == IF len < N - head THEN head + len ELSE len - (N - head)

\* pop_waiting_thread and wake: the earliest captured deadline leaves.
PopWaitingThread(waiters) ==
    IF waiters = {} THEN {}
    ELSE waiters \ {Leftmost(waiters, deadlineAt, SyncAddr)}

\* The successful part of try_send.
Put(m) ==
    /\ len < N
    /\ slots' = [slots EXCEPT ![RingTail] = m]
    /\ len' = len + 1
    /\ receivers' = PopWaitingThread(receivers)
    /\ UNCHANGED <<head, senders, delivered>>

\* Mutant: head runs past the last slot.
GetNoWrap ==
    /\ len > 0
    /\ delivered' = slots[head]
    /\ head' = head + 1
    /\ len' = len - 1
    /\ senders' = PopWaitingThread(senders)
    /\ UNCHANGED <<slots, receivers>>

\* Mutant: a sender is woken only when the queue was full.
GetWakesOnFull ==
    /\ len > 0
    /\ delivered' = slots[head]
    /\ head' = IF head = N - 1 THEN 0 ELSE head + 1
    /\ len' = len - 1
    /\ senders' = IF len = N THEN PopWaitingThread(senders) ELSE senders
    /\ UNCHANGED <<slots, receivers>>

\* The successful part of try_receive.
Get ==
    /\ len > 0
    /\ delivered' = slots[head]
    /\ head' = IF head = N - 1 THEN 0 ELSE head + 1
    /\ len' = len - 1
    /\ senders' = PopWaitingThread(senders)
    /\ UNCHANGED <<slots, receivers>>

-----------------------------------------------------------------------------
(* Operations.                                                             *)

TrySend(m) == Put(m) /\ UNCHANGED calls

TryReceive == Get /\ UNCHANGED calls

\* A suspended thread makes no step; neither does one inside another call.
CanSend(t, m) ==
    /\ t \notin senders /\ t \notin receiving
    /\ sending[t] \in {NoMessage, m}

CanReceive(t) ==
    /\ t \notin receivers
    /\ sending[t] = NoMessage

\* One turn of the loop of send_with_wait.
Send(t, m) ==
    /\ CanSend(t, m)
    /\ \/ /\ Put(m)
          /\ sending' = [sending EXCEPT ![t] = NoMessage]
          /\ UNCHANGED <<deadlineAt, receiving>>
       \/ /\ len = N
          /\ senders' = senders \cup {t}
          /\ sending' = [sending EXCEPT ![t] = m]
          /\ \E d \in Deadlines : deadlineAt' = [deadlineAt EXCEPT ![t] = d]
          /\ UNCHANGED <<ring, receivers, receiving, delivered>>

\* One turn of the loop of receive_with_wait.
Receive(t) ==
    /\ CanReceive(t)
    /\ \/ /\ Get
          /\ receiving' = receiving \ {t}
          /\ UNCHANGED <<deadlineAt, sending>>
       \/ /\ len = 0
          /\ receivers' = receivers \cup {t}
          /\ receiving' = receiving \cup {t}
          /\ \E d \in Deadlines : deadlineAt' = [deadlineAt EXCEPT ![t] = d]
          /\ UNCHANGED <<ring, senders, sending, delivered>>

Next ==
    \/ \E m \in Messages : TrySend(m)
    \/ TryReceive
    \/ \E t \in Threads, m \in Messages : Send(t, m)
    \/ \E t \in Threads : Receive(t)

Spec == Init /\ [][Next]_vars

-----------------------------------------------------------------------------
(* Correctness.                                                            *)

WokenSenders == {t \in Threads : sending[t] # NoMessage} \ senders

WokenReceivers == receiving \ receivers

\* No wakeup is lost although nothing is reserved for a woken thread: while
\* a receiver sleeps, every queued message is matched by a woken receiver
\* that has not retried yet; while a sender sleeps, every free slot is
\* matched by a woken sender.  In particular a sender and a receiver never
\* sleep with no one left to wake them (message.rs: each operation wakes at
\* most one waiter, and a competing try_ operation may take what it was
\* woken for).
NoLostWakeup ==
    /\ receivers # {} => len <= Cardinality(WokenReceivers)
    /\ senders # {} => N - len <= Cardinality(WokenSenders)

\* The messages in the order they will be handed out.
Contents ==
    [i \in 1 .. len |-> slots[IF head + i - 1 < N THEN head + i - 1
                                                 ELSE head + i - 1 - N]]

Fifo == INSTANCE BoundedFifo WITH queue <- Contents, Capacity <- N

\* The ring is a bounded FIFO: every operation of message.rs, a retry after
\* any number of wakeups included, is one put or one get of the abstract
\* queue or leaves it alone, and a get hands out the oldest message.
RefinesFifo == Fifo!Spec

=============================================================================
