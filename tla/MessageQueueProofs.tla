------------------------- MODULE MessageQueueProofs -------------------------
(***************************************************************************)
(* The message queue loses no wakeup and is a bounded FIFO, for every      *)
(* capacity, every finite set of threads and every set of messages.        *)
(***************************************************************************)
EXTENDS MessageQueue, OrderedTreeProofs, FiniteSetTheorems, SequenceTheorems

\* The inductive invariant: a thread in a waiter tree has an unfinished call
\* of that kind, so that removing it makes it a woken one.
MqInv ==
    /\ TypeOK
    /\ receivers \subseteq receiving
    /\ \A t \in senders : sending[t] # NoMessage
    /\ NoLostWakeup

LEMMA ThreadsFinite ==
    ASSUME NEW S \in SUBSET Threads
    PROVE  IsFiniteSet(S) /\ Cardinality(S) \in Nat
BY QueueAssumption, FS_Subset, FS_CardinalityType

LEMMA CardAdd ==
    ASSUME NEW S \in SUBSET Threads, NEW t, t \notin S
    PROVE  Cardinality(S \cup {t}) = Cardinality(S) + 1
BY ThreadsFinite, FS_AddElement

LEMMA CardRemove ==
    ASSUME NEW S \in SUBSET Threads, NEW t
    PROVE  Cardinality(S) <= Cardinality(S \ {t}) + 1
BY ThreadsFinite, FS_RemoveElement

\* Popping takes one member out of a non-empty tree.
LEMMA PopEffect ==
    ASSUME NEW W \in SUBSET Threads, deadlineAt \in [Threads -> Nat]
    PROVE  /\ W = {} => PopWaitingThread(W) = {}
           /\ W # {} => \E w \in W : PopWaitingThread(W) = W \ {w}
<1>1. CASE W = {}
    BY <1>1 DEF PopWaitingThread
<1>2. CASE W # {}
    <2>1. \A a \in W : deadlineAt[a] \in Nat /\ SyncAddr[a] \in Nat
        BY QueueAssumption
    <2>2. \A a, b \in W : SyncAddr[a] = SyncAddr[b] => a = b
        BY QueueAssumption
    <2>3. Leftmost(W, deadlineAt, SyncAddr) \in W
        BY <1>2, <2>1, <2>2, LeftmostExists
    <2>4. QED
        BY <1>2, <2>3 DEF PopWaitingThread
<1>3. QED
    BY <1>1, <1>2

LEMMA RingTailType == TypeOK /\ len < N => RingTail \in 0 .. N - 1
BY QueueAssumption DEF TypeOK, RingTail

-----------------------------------------------------------------------------
(* The effect of a successful send and receive on the waiters.             *)

LEMMA PutEffect ==
    ASSUME MqInv, NEW m \in Messages, Put(m)
    PROVE  /\ slots' \in [0 .. N - 1 -> Messages \cup {NoMessage}]
           /\ len' \in 0 .. N /\ len' = len + 1
           /\ head' = head /\ senders' = senders /\ delivered' = delivered
           /\ receivers' \subseteq receivers
           /\ receivers' # {} =>
                 len' <= Cardinality(receiving \ receivers')
<1> USE DEF MqInv
<1>1. /\ slots' \in [0 .. N - 1 -> Messages \cup {NoMessage}]
      /\ len' \in 0 .. N /\ len' = len + 1
      /\ head' = head /\ senders' = senders /\ delivered' = delivered
    <2>1. slots' = [slots EXCEPT ![RingTail] = m]
        BY DEF Put
    <2>2. slots' \in [0 .. N - 1 -> Messages \cup {NoMessage}]
        BY <2>1 DEF TypeOK
    <2>3. QED
        BY <2>2, QueueAssumption DEF Put, TypeOK
<1>2. receivers' = PopWaitingThread(receivers)
    BY DEF Put
<1>3. CASE receivers = {}
    BY <1>1, <1>2, <1>3, PopEffect DEF TypeOK
<1>4. CASE receivers # {}
    <2>1. PICK w \in receivers : receivers' = receivers \ {w}
        BY <1>2, <1>4, PopEffect DEF TypeOK
    <2>2. receiving \ receivers' = (receiving \ receivers) \cup {w}
        BY <2>1
    <2>3. Cardinality(receiving \ receivers') = Cardinality(receiving \ receivers) + 1
        BY <2>1, <2>2, CardAdd DEF TypeOK
    <2>4. len <= Cardinality(receiving \ receivers)
        BY <1>4 DEF NoLostWakeup, WokenReceivers
    <2>5. Cardinality(receiving \ receivers) \in Nat
        BY ThreadsFinite DEF TypeOK
    <2>6. QED
        BY <1>1, <2>1, <2>3, <2>4, <2>5 DEF TypeOK
<1>5. QED
    BY <1>3, <1>4

LEMMA GetEffect ==
    ASSUME MqInv, Get
    PROVE  /\ slots' = slots /\ receivers' = receivers
           /\ head' \in 0 .. N - 1
           /\ len' \in 0 .. N /\ len' = len - 1
           /\ delivered' \in Messages \cup {NoMessage}
           /\ senders' \subseteq senders
           /\ senders' # {} =>
                 N - len' <= Cardinality({t \in Threads : sending[t] # NoMessage} \ senders')
<1> USE DEF MqInv
<1> DEFINE S == {t \in Threads : sending[t] # NoMessage}
<1>1. /\ slots' = slots /\ receivers' = receivers
      /\ head' \in 0 .. N - 1
      /\ len' \in 0 .. N /\ len' = len - 1
      /\ delivered' \in Messages \cup {NoMessage}
    BY QueueAssumption DEF Get, TypeOK
<1>2. senders' = PopWaitingThread(senders)
    BY DEF Get
<1>3. CASE senders = {}
    BY <1>1, <1>2, <1>3, PopEffect DEF TypeOK
<1>4. CASE senders # {}
    <2>1. PICK w \in senders : senders' = senders \ {w}
        BY <1>2, <1>4, PopEffect DEF TypeOK
    <2>2. S \in SUBSET Threads /\ senders \subseteq S
        BY DEF TypeOK
    <2>3. N - len <= Cardinality(S \ senders)
        BY <1>4 DEF NoLostWakeup, WokenSenders
    <2> HIDE DEF S
    <2>4. S \ senders' = (S \ senders) \cup {w}
        BY <2>1, <2>2
    <2>5. Cardinality(S \ senders') = Cardinality(S \ senders) + 1
        BY <2>1, <2>2, <2>4, CardAdd
    <2>6. Cardinality(S \ senders) \in Nat
        BY <2>2, ThreadsFinite
    <2>7. senders' \subseteq senders /\ N - len' <= Cardinality(S \ senders')
        BY <1>1, <2>1, <2>3, <2>5, <2>6, QueueAssumption DEF TypeOK
    <2>8. QED
        BY <1>1, <2>7 DEF S
<1>5. QED
    BY <1>3, <1>4

-----------------------------------------------------------------------------
(* The invariant.                                                          *)

LEMMA MqInit == Init => MqInv
<1> SUFFICES ASSUME Init PROVE MqInv
    OBVIOUS
<1>1. TypeOK
    BY QueueAssumption DEF Init, TypeOK
<1>2. QED
    BY <1>1 DEF Init, MqInv, NoLostWakeup

\* A put by a context that has no unfinished send.
LEMMA TrySendStep == MqInv /\ (\E m \in Messages : TrySend(m)) => MqInv'
<1> SUFFICES ASSUME MqInv, NEW m \in Messages, TrySend(m) PROVE MqInv'
    OBVIOUS
<1> USE DEF MqInv
<1>1. Put(m) /\ deadlineAt' = deadlineAt /\ sending' = sending /\ receiving' = receiving
    BY DEF TrySend, calls
<1>2. TypeOK'
    BY <1>1, PutEffect DEF TypeOK
<1>3. senders' # {} => N - len' <= Cardinality(WokenSenders')
    <2>1. WokenSenders' = WokenSenders /\ senders' = senders
        BY <1>1, PutEffect DEF WokenSenders
    <2>2. Cardinality(WokenSenders) \in Nat
        BY ThreadsFinite DEF WokenSenders
    <2>3. QED
        BY <1>1, <2>1, <2>2, PutEffect, QueueAssumption DEF NoLostWakeup, TypeOK
<1>4. receivers' # {} => len' <= Cardinality(WokenReceivers')
    BY <1>1, PutEffect DEF WokenReceivers
<1>5. receivers' \subseteq receiving' /\ (\A t \in senders' : sending'[t] # NoMessage)
    BY <1>1, PutEffect
<1>6. QED
    BY <1>2, <1>3, <1>4, <1>5 DEF NoLostWakeup

LEMMA TryReceiveStep == MqInv /\ TryReceive => MqInv'
<1> SUFFICES ASSUME MqInv, TryReceive PROVE MqInv'
    OBVIOUS
<1> USE DEF MqInv
<1>1. Get /\ deadlineAt' = deadlineAt /\ sending' = sending /\ receiving' = receiving
    BY DEF TryReceive, calls
<1>2. TypeOK'
    BY <1>1, GetEffect DEF TypeOK
<1>3. senders' # {} => N - len' <= Cardinality(WokenSenders')
    BY <1>1, GetEffect DEF WokenSenders
<1>4. receivers' # {} => len' <= Cardinality(WokenReceivers')
    <2>1. WokenReceivers' = WokenReceivers /\ receivers' = receivers
        BY <1>1, GetEffect DEF WokenReceivers
    <2>2. Cardinality(WokenReceivers) \in Nat
        BY ThreadsFinite DEF WokenReceivers, TypeOK
    <2>3. QED
        BY <1>1, <2>1, <2>2, GetEffect DEF NoLostWakeup, TypeOK
<1>5. receivers' \subseteq receiving' /\ (\A t \in senders' : sending'[t] # NoMessage)
    BY <1>1, GetEffect
<1>6. QED
    BY <1>2, <1>3, <1>4, <1>5 DEF NoLostWakeup

\* The message a sending thread puts uses up one free slot and one woken
\* sender at most; a thread that finds the queue full sleeps with no free
\* slot to wait for.
LEMMA SendStep == MqInv /\ (\E t \in Threads, m \in Messages : Send(t, m)) => MqInv'
<1> SUFFICES ASSUME MqInv, NEW t \in Threads, NEW m \in Messages, Send(t, m)
             PROVE  MqInv'
    OBVIOUS
<1> USE DEF MqInv
<1>0. m # NoMessage /\ t \notin senders /\ t \notin receiving
    BY QueueAssumption DEF Send, CanSend
<1>1. CASE /\ Put(m)
           /\ sending' = [sending EXCEPT ![t] = NoMessage]
           /\ UNCHANGED <<deadlineAt, receiving>>
    <2>1. TypeOK'
        BY <1>1, PutEffect DEF TypeOK
    <2>2. senders' # {} => N - len' <= Cardinality(WokenSenders')
        <3>1. WokenSenders' = WokenSenders \ {t}
            BY <1>0, <1>1, PutEffect DEF WokenSenders, TypeOK
        <3>2. WokenSenders \in SUBSET Threads
            BY DEF WokenSenders
        <3>3. /\ Cardinality(WokenSenders) <= Cardinality(WokenSenders \ {t}) + 1
              /\ Cardinality(WokenSenders) \in Nat
              /\ Cardinality(WokenSenders \ {t}) \in Nat
            BY <3>2, CardRemove, ThreadsFinite
        <3>4. QED
            BY <1>1, <3>1, <3>3, PutEffect, QueueAssumption DEF NoLostWakeup, TypeOK
    <2>3. receivers' # {} => len' <= Cardinality(WokenReceivers')
        BY <1>1, PutEffect DEF WokenReceivers
    <2>4. receivers' \subseteq receiving' /\ (\A u \in senders' : sending'[u] # NoMessage)
        BY <1>0, <1>1, PutEffect DEF TypeOK
    <2>5. QED
        BY <2>1, <2>2, <2>3, <2>4 DEF NoLostWakeup
<1>2. CASE /\ len = N
           /\ senders' = senders \cup {t}
           /\ sending' = [sending EXCEPT ![t] = m]
           /\ \E d \in Deadlines : deadlineAt' = [deadlineAt EXCEPT ![t] = d]
           /\ UNCHANGED <<ring, receivers, receiving, delivered>>
    <2>1. TypeOK'
        BY <1>2, QueueAssumption DEF TypeOK, ring
    <2>2. N - len' <= Cardinality(WokenSenders')
        <3>1. WokenSenders' \in SUBSET Threads
            BY DEF WokenSenders
        <3>2. Cardinality(WokenSenders') \in Nat
            BY <3>1, ThreadsFinite
        <3>3. QED
            BY <1>2, <3>2, QueueAssumption DEF ring
    <2>3. receivers' # {} => len' <= Cardinality(WokenReceivers')
        BY <1>2 DEF NoLostWakeup, WokenReceivers, ring
    <2>4. receivers' \subseteq receiving' /\ (\A u \in senders' : sending'[u] # NoMessage)
        BY <1>0, <1>2 DEF TypeOK
    <2>5. QED
        BY <2>1, <2>2, <2>3, <2>4 DEF NoLostWakeup
<1>3. QED
    BY <1>1, <1>2 DEF Send

LEMMA ReceiveStep == MqInv /\ (\E t \in Threads : Receive(t)) => MqInv'
<1> SUFFICES ASSUME MqInv, NEW t \in Threads, Receive(t) PROVE MqInv'
    OBVIOUS
<1> USE DEF MqInv
<1>0. t \notin receivers /\ sending[t] = NoMessage
    BY DEF Receive, CanReceive
<1>1. CASE /\ Get
           /\ receiving' = receiving \ {t}
           /\ UNCHANGED <<deadlineAt, sending>>
    <2>1. TypeOK'
        BY <1>1, GetEffect DEF TypeOK
    <2>2. senders' # {} => N - len' <= Cardinality(WokenSenders')
        BY <1>1, GetEffect DEF WokenSenders
    <2>3. receivers' # {} => len' <= Cardinality(WokenReceivers')
        <3>1. WokenReceivers' = WokenReceivers \ {t} /\ receivers' = receivers
            BY <1>1, GetEffect DEF WokenReceivers
        <3>2. WokenReceivers \in SUBSET Threads
            BY DEF WokenReceivers, TypeOK
        <3>3. /\ Cardinality(WokenReceivers) <= Cardinality(WokenReceivers \ {t}) + 1
              /\ Cardinality(WokenReceivers) \in Nat
              /\ Cardinality(WokenReceivers \ {t}) \in Nat
            BY <3>2, CardRemove, ThreadsFinite
        <3>4. QED
            BY <1>1, <3>1, <3>3, GetEffect DEF NoLostWakeup, TypeOK
    <2>4. receivers' \subseteq receiving' /\ (\A u \in senders' : sending'[u] # NoMessage)
        BY <1>0, <1>1, GetEffect
    <2>5. QED
        BY <2>1, <2>2, <2>3, <2>4 DEF NoLostWakeup
<1>2. CASE /\ len = 0
           /\ receivers' = receivers \cup {t}
           /\ receiving' = receiving \cup {t}
           /\ \E d \in Deadlines : deadlineAt' = [deadlineAt EXCEPT ![t] = d]
           /\ UNCHANGED <<ring, senders, sending, delivered>>
    <2>1. TypeOK'
        BY <1>2, QueueAssumption DEF TypeOK, ring
    <2>2. senders' # {} => N - len' <= Cardinality(WokenSenders')
        BY <1>2 DEF NoLostWakeup, WokenSenders, ring
    <2>3. len' <= Cardinality(WokenReceivers')
        <3>1. WokenReceivers' \in SUBSET Threads
            BY <2>1 DEF WokenReceivers, TypeOK
        <3>2. Cardinality(WokenReceivers') \in Nat
            BY <3>1, ThreadsFinite
        <3>3. QED
            BY <1>2, <3>2 DEF ring
    <2>4. receivers' \subseteq receiving' /\ (\A u \in senders' : sending'[u] # NoMessage)
        BY <1>2
    <2>5. QED
        BY <2>1, <2>2, <2>3, <2>4 DEF NoLostWakeup
<1>3. QED
    BY <1>1, <1>2 DEF Receive

LEMMA MqStep == MqInv /\ [Next]_vars => MqInv'
<1> SUFFICES ASSUME MqInv, [Next]_vars PROVE MqInv'
    OBVIOUS
<1>1. CASE UNCHANGED vars
    BY <1>1 DEF vars, ring, calls, MqInv, TypeOK, NoLostWakeup, WokenSenders, WokenReceivers
<1>2. QED
    BY <1>1, TrySendStep, TryReceiveStep, SendStep, ReceiveStep DEF Next

\* No wakeup of a sleeping sender or receiver is lost, however the calls of
\* threads and interrupt handlers interleave.
THEOREM WakeupsKept == Spec => []NoLostWakeup
<1>1. MqInv => NoLostWakeup
    BY DEF MqInv
<1>2. QED
    BY <1>1, MqInit, MqStep, PTL DEF Spec

\* No index of the ring leaves its array and the count of messages stays within
\* the capacity, whatever sends and receives interleave (message.rs).
THEOREM RingInRange == Spec => []TypeOK
<1>1. MqInv => TypeOK
    BY DEF MqInv
<1>2. QED
    BY <1>1, MqInit, MqStep, PTL DEF Spec

-----------------------------------------------------------------------------
(* The ring implements the abstract queue.                                 *)

\* The slot of the i-th message counted from the oldest.
Slot(i) == IF head + i - 1 < N THEN head + i - 1 ELSE head + i - 1 - N

\* A sequence is the function it is on its indices.
LEMMA SeqAsFunction ==
    ASSUME NEW S, NEW s \in Seq(S), NEW n, Len(s) = n
    PROVE  s = [i \in 1 .. n |-> s[i]]
OBVIOUS

LEMMA ContentsSeq ==
    ASSUME TypeOK
    PROVE  /\ Contents \in Seq(Messages \cup {NoMessage})
           /\ Len(Contents) = len
           /\ \A i \in 1 .. len : Contents[i] = slots[Slot(i)]
<1>1. \A i \in 1 .. len : Slot(i) \in 0 .. N - 1
    BY QueueAssumption DEF TypeOK, Slot
<1>2. Contents = [i \in 1 .. len |-> slots[Slot(i)]]
    BY DEF Contents, Slot
<1>3. \A i \in 1 .. len : slots[Slot(i)] \in Messages \cup {NoMessage}
    BY <1>1 DEF TypeOK
<1>4. len \in Nat
    BY DEF TypeOK
<1>5. QED
    BY <1>2, <1>3, <1>4

LEMMA PutAppends ==
    ASSUME MqInv, NEW m \in Messages, Put(m)
    PROVE  Contents' = Append(Contents, m) /\ Len(Contents) < N
<1> USE DEF MqInv
<1>1. TypeOK /\ len < N /\ len' = len + 1 /\ head' = head
      /\ slots' = [slots EXCEPT ![RingTail] = m]
    BY DEF Put
<1>2. RingTail = Slot(len + 1) /\ RingTail \in 0 .. N - 1
    BY <1>1, QueueAssumption DEF TypeOK, RingTail, Slot
<1>3. \A i \in 1 .. len : Slot(i) # RingTail /\ Slot(i) \in 0 .. N - 1
    BY <1>1, QueueAssumption DEF TypeOK, RingTail, Slot
<1>4. Contents' = [i \in 1 .. len + 1 |-> slots'[Slot(i)]]
    BY <1>1 DEF Contents, Slot
<1>5. /\ slots'[Slot(len + 1)] = m
      /\ \A i \in 1 .. len : slots'[Slot(i)] = slots[Slot(i)]
    BY <1>1, <1>2, <1>3 DEF TypeOK
<1>6. /\ Contents \in Seq(Messages \cup {NoMessage})
      /\ Len(Contents) = len
      /\ \A i \in 1 .. len : Contents[i] = slots[Slot(i)]
    BY <1>1, ContentsSeq
<1>7. len \in Nat
    BY DEF TypeOK
<1>8. Contents' = Append(Contents, m)
    <2>1. \A i \in 1 .. len + 1 : slots'[Slot(i)] = Append(Contents, m)[i]
        BY <1>5, <1>6, <1>7, AppendProperties
    <2>2. /\ Append(Contents, m) \in Seq(Messages \cup {NoMessage})
          /\ Len(Append(Contents, m)) = len + 1
        BY <1>6, AppendProperties
    <2>3. Append(Contents, m) = [i \in 1 .. len + 1 |-> Append(Contents, m)[i]]
        BY <2>2, SeqAsFunction
    <2>4. QED
        BY <1>4, <2>1, <2>3, Zenon
<1>9. QED
    BY <1>1, <1>6, <1>8

LEMMA GetTakesOldest ==
    ASSUME MqInv, Get
    PROVE  Contents # <<>> /\ delivered' = Head(Contents) /\ Contents' = Tail(Contents)
<1> USE DEF MqInv
<1> DEFINE Next1(i) == IF head' + i - 1 < N THEN head' + i - 1 ELSE head' + i - 1 - N
<1>1. TypeOK /\ len > 0 /\ len' = len - 1 /\ slots' = slots
      /\ head' = (IF head = N - 1 THEN 0 ELSE head + 1)
      /\ delivered' = slots[head]
    BY DEF Get
<1>2. /\ Contents \in Seq(Messages \cup {NoMessage})
      /\ Len(Contents) = len
      /\ \A i \in 1 .. len : Contents[i] = slots[Slot(i)]
    BY <1>1, ContentsSeq
<1>3. len \in Nat /\ len - 1 \in Nat
    BY <1>1 DEF TypeOK
<1>4. Slot(1) = head
    BY <1>1, QueueAssumption DEF TypeOK, Slot
<1>5. \A i \in 1 .. len - 1 : Next1(i) = Slot(i + 1)
    BY <1>1, QueueAssumption DEF TypeOK, Slot
<1>6. Contents' = [i \in 1 .. len - 1 |-> slots[Next1(i)]]
    BY <1>1 DEF Contents
<1> HIDE DEF Next1
<1>7. /\ Tail(Contents) \in Seq(Messages \cup {NoMessage})
      /\ Len(Tail(Contents)) = len - 1
      /\ \A i \in 1 .. len - 1 : Tail(Contents)[i] = Contents[i + 1]
    BY <1>1, <1>2, <1>3, HeadTailProperties
<1>8. \A i \in 1 .. len - 1 : Contents[i + 1] = slots[Next1(i)]
    BY <1>2, <1>3, <1>5
<1>9. Contents' = Tail(Contents)
    <2>1. Tail(Contents) = [i \in 1 .. len - 1 |-> Tail(Contents)[i]]
        BY <1>7, SeqAsFunction
    <2>2. \A i \in 1 .. len - 1 : slots[Next1(i)] = Tail(Contents)[i]
        BY <1>7, <1>8
    <2>3. QED
        BY <1>6, <2>1, <2>2, Zenon
<1>10. Head(Contents) = slots[head]
    BY <1>1, <1>2, <1>3, <1>4
<1>11. QED
    BY <1>1, <1>2, <1>9, <1>10

LEMMA FifoInit == Init => Fifo!Init
<1> SUFFICES ASSUME Init PROVE Fifo!Init
    OBVIOUS
<1>1. TypeOK /\ len = 0 /\ delivered = NoMessage
    BY QueueAssumption DEF Init, TypeOK
<1>2. Contents = <<>>
    BY <1>1, ContentsSeq
<1>3. QED
    BY <1>1, <1>2 DEF Fifo!Init

LEMMA FifoStep == MqInv /\ [Next]_vars => [Fifo!Next]_(Fifo!fifoVars)
<1> SUFFICES ASSUME MqInv, [Next]_vars PROVE [Fifo!Next]_(Fifo!fifoVars)
    OBVIOUS
<1>1. ASSUME NEW m \in Messages, Put(m) PROVE Fifo!Next
    BY <1>1, PutAppends DEF Put, Fifo!Next, Fifo!Put
<1>2. CASE Get
    BY <1>2, GetTakesOldest DEF Fifo!Next, Fifo!Get
<1>3. CASE UNCHANGED <<ring, delivered>>
    BY <1>3 DEF ring, Contents, Fifo!fifoVars
<1>4. QED
    BY <1>1, <1>2, <1>3 DEF Next, TrySend, TryReceive, Send, Receive, vars

\* Every operation of the queue is a put, a get or a stutter of a bounded
\* FIFO: wrapping indices lose, duplicate and reorder no message.
THEOREM FifoCorrect == Spec => RefinesFifo
<1>1. QED
    BY MqInit, MqStep, FifoInit, FifoStep, PTL DEF Spec, RefinesFifo, Fifo!Spec

=============================================================================
