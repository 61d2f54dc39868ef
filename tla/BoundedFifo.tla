---------------------------- MODULE BoundedFifo ----------------------------
(***************************************************************************)
(* What a message queue promises (docs/message_queue.md): a FIFO of at     *)
(* most Capacity messages.  A put appends, a get hands out the oldest      *)
(* message; neither happens when there is no room or nothing to get.       *)
(***************************************************************************)
EXTENDS Integers, Sequences

CONSTANTS Messages, NoMessage, Capacity

VARIABLES
    queue,          \* the messages put and not yet handed out
    delivered       \* the message handed out last

fifoVars == <<queue, delivered>>

Init ==
    /\ queue = <<>>
    /\ delivered = NoMessage

Put(m) ==
    /\ Len(queue) < Capacity
    /\ queue' = Append(queue, m)
    /\ UNCHANGED delivered

Get ==
    /\ queue # <<>>
    /\ delivered' = Head(queue)
    /\ queue' = Tail(queue)

Next == (\E m \in Messages : Put(m)) \/ Get

Spec == Init /\ [][Next]_fifoVars

=============================================================================
