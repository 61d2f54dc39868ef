--------------------------- MODULE IntrusiveTree ---------------------------
(***************************************************************************)
(* One RBTree and its callers, who insert detached entities, remove linked *)
(* ones and pop the first: the run queue, the timeout tree of the wait     *)
(* queue and the waiter trees of the synchronization objects all use the   *)
(* tree this way.  A key changes only while its entity is detached, so a   *)
(* constant key is enough.                                                 *)
(***************************************************************************)
EXTENDS RbTree

CONSTANT Key        \* the ordering key of each entity

ASSUME KeyAssumption == Key \in [Nodes -> Nat]

VARIABLES
    tree,           \* the RBTree, with the links of all entities
    members         \* the entities the callers have inserted and not removed

vars == <<tree, members>>

Init == tree = EmptyTree /\ members = {}

InsertEntity(n) ==
    /\ n \notin members
    /\ tree' = Insert(tree, Key, n)
    /\ members' = members \cup {n}

RemoveEntity(n) ==
    /\ n \in members
    /\ tree' = Delete(tree, n)
    /\ members' = members \ {n}

\* pop_first; the callers then own the entity they asked for, the least one.
PopFirst ==
    /\ tree.root # Null
    /\ tree' = Delete(tree, FirstIn(tree))
    /\ members' = members \ {CHOOSE n \in members :
                                \A m \in members \ {n} : Before(Key, n, m)}

Next ==
    \/ \E n \in Nodes : InsertEntity(n) \/ RemoveEntity(n)
    \/ PopFirst

Spec == Init /\ [][Next]_vars

-----------------------------------------------------------------------------
(* Correctness.                                                            *)

\* No red entity has a red child and every path down has the same number of
\* black ones, after any sequence of insertions and removals: this bounds the
\* time every queue operation spends with interrupts off (insert_fixup,
\* remove_fixup).
RedBlack == Balanced(tree)

\* The tree holds the entities its callers put there and no other, counts
\* them, mirrors child pointers by parent pointers, and leaves no link in a
\* detached entity, which may then be linked into another tree.
HoldsExactly ==
    /\ Below(tree, tree.root) = members
    /\ tree.len = Cardinality(members)
    /\ WellLinked(tree)
    /\ \A n \in Nodes \ members :
          tree.parent[n] = Null /\ \A side \in Sides : tree.child[side][n] = Null

\* first is the least member and next of a member the least one after it, so
\* that the two visit the members in order, and contains, which walks this way,
\* finds the members and nothing else: the run queue's choice of thread and
\* every traversal rest on it (first, next, contains).
WalkInOrder ==
    /\ IsLeast(Key, members, FirstIn(tree))
    /\ \A n \in members :
          IsLeast(Key, {m \in members : Before(Key, n, m)}, NextIn(tree, n))
    /\ \A n \in Nodes : ContainsIn(tree, n) <=> n \in members

\* upper_bound returns the least member after the given entity, whether that
\* entity is in the tree, in another one or in none.
UpperBoundIsNext ==
    \A n \in Nodes :
        IsLeast(Key, {m \in members : Before(Key, n, m)}, UpperBound(tree, Key, n))

=============================================================================
