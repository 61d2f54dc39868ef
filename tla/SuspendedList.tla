--------------------------- MODULE SuspendedList ---------------------------
(***************************************************************************)
(* SuspendedWaitList of src/waitq.rs: the doubly linked list of all        *)
(* threads that wait without a timeout, linked through their WaitEntity.   *)
(* A list is a record of its two ends and of every entity's two links.     *)
(***************************************************************************)

CONSTANTS
    Entities,   \* the wait entities, one per thread
    NoEntity    \* the null pointer

EmptyList ==
    [head |-> NoEntity, tail |-> NoEntity,
     prev |-> [e \in Entities |-> NoEntity],
     next |-> [e \in Entities |-> NoEntity]]

\* The debug_assert!s of push_back: e is not linked.
Detached(l, e) ==
    /\ e \notin {l.head, l.tail}
    /\ l.prev[e] = NoEntity
    /\ l.next[e] = NoEntity

\* push_back
PushBack(l, e) ==
    IF l.tail = NoEntity
      THEN [l EXCEPT !.head = e, !.tail = e]
      ELSE [l EXCEPT !.next[l.tail] = e, !.prev[e] = l.tail, !.tail = e]

\* Mutant: the entity after the removed one keeps its old prev.
UnlinkOneWay(l, e) ==
    LET p == l.prev[e]
        n == l.next[e]
    IN  [head |-> IF p = NoEntity THEN n ELSE l.head,
         tail |-> IF n = NoEntity THEN p ELSE l.tail,
         prev |-> [l.prev EXCEPT ![e] = NoEntity],
         next |-> [x \in Entities |->
                      IF x = e THEN NoEntity ELSE IF x = p THEN n ELSE l.next[x]]]

\* remove, from either end or from the middle
Unlink(l, e) ==
    LET p == l.prev[e]
        n == l.next[e]
    IN  [head |-> IF p = NoEntity THEN n ELSE l.head,
         tail |-> IF n = NoEntity THEN p ELSE l.tail,
         prev |-> [x \in Entities |->
                      IF x = e THEN NoEntity ELSE IF x = n THEN p ELSE l.prev[x]],
         next |-> [x \in Entities |->
                      IF x = e THEN NoEntity ELSE IF x = p THEN n ELSE l.next[x]]]

\* next_wait_entity, among the suspended threads: the list from its head
NextSuspended(l, cursor) == IF cursor = NoEntity THEN l.head ELSE l.next[cursor]

=============================================================================
