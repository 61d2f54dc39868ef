---------------------------- MODULE KTimerQueue ----------------------------
(***************************************************************************)
(* KTimerQueue of src/ktimer.rs as it is stored: two red-black trees whose *)
(* nodes are embedded in the timer entities, so one set of links serves    *)
(* both, and a cached pointer to the earliest timer of each tree.  An      *)
(* entity's active flag says in which tree it is, or was last.             *)
(***************************************************************************)
EXTENDS RbTree

CONSTANT Expiries       \* the expirations each timer may be given

ASSUME ExpiriesAssumption ==
    \A tm \in Nodes : Expiries[tm] \subseteq Nat /\ Expiries[tm] # {}

VARIABLES
    links,      \* RbNode of every timer
    root, len,  \* RBTree.root and RBTree.len of both trees
    first,      \* first_active and first_inactive
    active,     \* KTimerEntity.active
    expireAt    \* KTimerEntity.expire_at

vars == <<links, root, len, first, active, expireAt>>

Kinds == {"active", "inactive"}

KindOf(tm) == IF active[tm] THEN "active" ELSE "inactive"

\* One of the two trees, over the links they share
Tree(k) ==
    [root |-> root[k], len |-> len[k], parent |-> links.parent,
     child |-> links.child, color |-> links.color]

Members(k) == Below(Tree(k), root[k])

Contains(tm) == tm \in Members("active") \cup Members("inactive")

-----------------------------------------------------------------------------
(* Reading the queue.                                                      *)

EarlierOf(a, b) ==
    IF a = Null THEN b
    ELSE IF b = Null \/ Before(expireAt, a, b) THEN a ELSE b

First == EarlierOf(first["active"], first["inactive"])

\* Mutant: the other tree is searched only when the own tree is exhausted.
NextTimerOwnTreeFirst(tm) ==
    LET own == NextIn(Tree(KindOf(tm)), tm)
    IN  IF own # Null THEN own
        ELSE UpperBound(Tree(IF active[tm] THEN "inactive" ELSE "active"), expireAt, tm)

\* next: the successor in the timer's own tree or in the other one
NextTimer(tm) ==
    EarlierOf(
        NextIn(Tree(KindOf(tm)), tm),
        UpperBound(Tree(IF active[tm] THEN "inactive" ELSE "active"), expireAt, tm))

\* traverse_ktimer_queue: from first along next, with the timers passed so far
Traverse ==
    Loop([s \in [at : Pointers, seen : SUBSET Nodes] |->
             IF s.at = Null
               THEN s ELSE [at |-> NextTimer(s.at), seen |-> s.seen \cup {s.at}]],
         [at |-> First, seen |-> {}])

-----------------------------------------------------------------------------
(* Changing the queue.                                                     *)

\* Tree k becomes t, with the links of every entity.
SetTree(k, t) ==
    /\ root' = [root EXCEPT ![k] = t.root]
    /\ len' = [len EXCEPT ![k] = t.len]
    /\ links' = [parent |-> t.parent, child |-> t.child, color |-> t.color]

Init ==
    /\ links = [parent |-> EmptyTree.parent, child |-> EmptyTree.child,
                color |-> EmptyTree.color]
    /\ root = [k \in Kinds |-> Null]
    /\ len = [k \in Kinds |-> 0]
    /\ first = [k \in Kinds |-> Null]
    /\ active = [tm \in Nodes |-> TRUE]
    /\ expireAt = [tm \in Nodes |-> CHOOSE at \in Expiries[tm] : TRUE]

\* set_expire_at, set_expire_after: callers detach the timer first.
SetExpireAt(tm) ==
    /\ ~Contains(tm)
    /\ \E at \in Expiries[tm] : expireAt' = [expireAt EXCEPT ![tm] = at]
    /\ UNCHANGED <<links, root, len, first, active>>

\* Mutant: a timer that ties with the cached one replaces it.
EnqueueTieReplaces(tm, k) ==
    /\ ~Contains(tm)
    /\ SetTree(k, Insert(Tree(k), expireAt, tm))
    /\ active' = [active EXCEPT ![tm] = (k = "active")]
    /\ first' = [first EXCEPT ![k] =
                    IF @ = Null \/ expireAt[tm] <= expireAt[@] THEN tm ELSE @]
    /\ UNCHANGED expireAt

\* enqueue_active, enqueue_inactive and insert
Enqueue(tm, k) ==
    /\ ~Contains(tm)
    /\ SetTree(k, Insert(Tree(k), expireAt, tm))
    /\ active' = [active EXCEPT ![tm] = (k = "active")]
    /\ first' = [first EXCEPT ![k] =
                    IF @ = Null \/ Before(expireAt, tm, @) THEN tm ELSE @]
    /\ UNCHANGED expireAt

\* remove, and the tree's successor of a removed minimum becomes the minimum
Detach(tm) ==
    LET k == KindOf(tm)
        t == Tree(k)
    IN  /\ SetTree(k, Delete(t, tm))
        /\ first' = [first EXCEPT ![k] = IF tm = @ THEN NextIn(t, tm) ELSE @]
        /\ UNCHANGED expireAt

\* remove keeps the active flag for the caller.
Remove(tm) ==
    /\ Contains(tm)
    /\ Detach(tm)
    /\ UNCHANGED active

\* Mutant: dequeue clears the flag before remove has read it.
DequeueFlagFirst(tm) ==
    /\ Contains(tm)
    /\ SetTree("inactive", Delete(Tree("inactive"), tm))
    /\ first' = [first EXCEPT !["inactive"] =
                    IF tm = @ THEN NextIn(Tree("inactive"), tm) ELSE @]
    /\ active' = [active EXCEPT ![tm] = FALSE]
    /\ UNCHANGED expireAt

\* dequeue clears it.
Dequeue(tm) ==
    /\ Contains(tm)
    /\ Detach(tm)
    /\ active' = [active EXCEPT ![tm] = FALSE]

\* pop_first
PopFirst ==
    /\ First # Null
    /\ Remove(First)

Next ==
    \/ \E tm \in Nodes : SetExpireAt(tm) \/ Remove(tm) \/ Dequeue(tm)
    \/ \E tm \in Nodes, k \in Kinds : Enqueue(tm, k)
    \/ PopFirst

Spec == Init /\ [][Next]_vars

-----------------------------------------------------------------------------
(* Correctness.                                                            *)

\* The one embedded node of a timer is in the tree its active flag names and
\* in no other, parent pointers mirror child pointers, and a detached timer
\* has no links left (rbtree.rs, docs/ktimer.md).
OneTreePerNode ==
    /\ \A k \in Kinds : WellLinked(Tree(k))
    /\ \A tm \in Nodes : tm \in Members("active") => active[tm]
    /\ \A tm \in Members("inactive") : ~active[tm]
    /\ \A tm \in Nodes : ~Contains(tm) =>
          links.parent[tm] = Null /\ \A side \in Sides : links.child[side][tm] = Null

\* first is the earliest queued timer and next the one that follows, by
\* expiration and address and over both trees, and the walk of the diagnostics
\* ends and passes every queued timer (ktimer.rs, next, traverse_ktimer_queue;
\* earliest_queued_scheduler_expire_at walks the same way).
TraversalInOrder ==
    LET queued == Members("active") \cup Members("inactive")
    IN  /\ IsLeast(expireAt, queued, First)
        /\ \A tm \in queued :
              IsLeast(expireAt, {other \in queued : Before(expireAt, tm, other)},
                      NextTimer(tm))
        /\ Traverse = [at |-> Null, seen |-> queued]

\* The trees with their cached minima implement the two sets with their
\* earliest members that KTimer is written with.
TQ == INSTANCE TimerQueue WITH
    Timers         <- Nodes,
    NoTimer        <- Null,
    TimerAddr      <- Addr,
    active         <- Members("active"),
    inactive       <- Members("inactive"),
    earliest       <- First,
    earliestActive <- first["active"],
    size           <- len["active"] + len["inactive"]

RefinesTimerQueue == TQ!Spec

=============================================================================
