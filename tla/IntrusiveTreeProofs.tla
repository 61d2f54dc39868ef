------------------------- MODULE IntrusiveTreeProofs -------------------------
(***************************************************************************)
(* The tree stays a red-black search tree of exactly the entities its      *)
(* callers have inserted, whatever they insert and remove in which order,  *)
(* and is read in order.                                                   *)
(***************************************************************************)
EXTENDS IntrusiveTree, RbTreeProofs

\* The members form a red-black tree, are counted, and no other entity is linked.
Sound ==
    /\ \E S, H : IsRedBlack(tree, members, Key, S, H)
    /\ tree.len = Cardinality(members)
    /\ \A n \in Nodes \ members :
          tree.parent[n] = Null /\ \A side \in Sides : tree.child[side][n] = Null

LEMMA SoundInit == Init => Sound
<1>1. SUFFICES ASSUME Init PROVE Sound
    OBVIOUS
<1>2. tree = EmptyTree /\ members = {}
    BY <1>1 DEF Init
<1>3. Cardinality({}) = 0
    BY FS_EmptySet
<1>4. QED
    BY <1>2, <1>3, KeyAssumption, EmptyIsRedBlack DEF Sound

LEMMA MembersFinite ==
    ASSUME Sound
    PROVE  members \subseteq Nodes /\ IsFiniteSet(members) /\ Cardinality(members) \in Nat
<1>1. members \subseteq Nodes
    BY DEF Sound, IsRedBlack, IsTree, Linked
<1>2. QED
    BY <1>1, FiniteAssumption, FS_Subset, FS_CardinalityType

LEMMA SoundInsert ==
    ASSUME Sound, NEW n \in Nodes, InsertEntity(n)
    PROVE  Sound'
<1>1. /\ n \in Nodes \ members /\ tree' = Insert(tree, Key, n) /\ members' = members \cup {n}
    BY DEF InsertEntity
<1>2. PICK S, H : IsRedBlack(tree, members, Key, S, H)
    BY DEF Sound
<1>3. /\ \E T, K : IsRedBlack(tree', members \cup {n}, Key, T, K)
      /\ tree'.len = tree.len + 1
      /\ OthersKept(tree, members \cup {n}, tree')
    BY <1>1, <1>2, InsertEffect
<1>4. Cardinality(members \cup {n}) = Cardinality(members) + 1
    BY <1>1, MembersFinite, FS_AddElement
<1>5. ASSUME NEW m \in Nodes \ members'
      PROVE  tree'.parent[m] = Null /\ \A side \in Sides : tree'.child[side][m] = Null
    BY <1>1, <1>3 DEF OthersKept, Sound
<1>6. QED
    BY <1>1, <1>3, <1>4, <1>5 DEF Sound

LEMMA SoundDelete ==
    ASSUME Sound, NEW n \in members, tree' = Delete(tree, n), members' = members \ {n}
    PROVE  Sound'
<1>1. PICK S, H : IsRedBlack(tree, members, Key, S, H)
    BY DEF Sound
<1>2. tree.len > 0
    BY MembersFinite, FS_EmptySet DEF Sound
<1>3. /\ \E T, K : IsRedBlack(tree', members \ {n}, Key, T, K)
      /\ tree'.len = tree.len - 1
      /\ OthersKept(tree, members, tree')
      /\ tree'.parent[n] = Null
      /\ \A d \in Sides : tree'.child[d][n] = Null
    BY <1>1, <1>2, DeleteEffect
<1>4. Cardinality(members \ {n}) = Cardinality(members) - 1
    BY MembersFinite, FS_RemoveElement
<1>5. ASSUME NEW m \in Nodes \ members'
      PROVE  tree'.parent[m] = Null /\ \A side \in Sides : tree'.child[side][m] = Null
    BY <1>3 DEF OthersKept, Sound
<1>6. QED
    BY <1>3, <1>4, <1>5 DEF Sound

\* The callers' least entity is the one the tree finds first.
LEMMA FirstIsLeast ==
    ASSUME Sound, tree.root # Null
    PROVE  /\ FirstIn(tree) \in members
           /\ FirstIn(tree) = CHOOSE n \in members : \A m \in members \ {n} : Before(Key, n, m)
<1> DEFINE f == FirstIn(tree)
           Least(n) == \A m \in members \ {n} : Before(Key, n, m)
           c == CHOOSE n \in members : Least(n)
<1>1. PICK S, H : IsRedBlack(tree, members, Key, S, H)
    BY DEF Sound
<1>2. IsTree(tree, members, Key, S)
    BY <1>1 DEF IsRedBlack
<1>3. IsLeast(Key, members, f) /\ members # {}
    BY <1>2, FirstInEffect
<1> HIDE DEF f
<1>4. f \in members /\ Least(f)
    BY <1>3 DEF IsLeast
<1>5. c \in members /\ Least(c)
    BY <1>4
<1>6. f = c
    <2>1. SUFFICES ASSUME f # c PROVE FALSE
        OBVIOUS
    <2>2. Before(Key, f, c) /\ Before(Key, c, f)
        BY <1>4, <1>5, <2>1
    <2>3. OnSide(Key, "left", f, c) /\ OnSide(Key, "left", c, f)
        BY <2>2 DEF OnSide
    <2>4. f \in Nodes /\ c \in Nodes /\ "left" \in Sides
        BY <1>4, <1>5, MembersFinite DEF Sides
    <2>5. QED
        BY <2>3, <2>4, KeyAssumption, OnSideAsymmetric
<1>7. QED
    BY <1>4, <1>6 DEF f

LEMMA SoundPopFirst ==
    ASSUME Sound, PopFirst
    PROVE  Sound'
<1> DEFINE f == FirstIn(tree)
<1>1. /\ f \in members
      /\ f = CHOOSE n \in members : \A m \in members \ {n} : Before(Key, n, m)
    BY FirstIsLeast DEF PopFirst
<1>2. tree' = Delete(tree, f) /\ members' = members \ {f}
    BY <1>1 DEF PopFirst
<1> HIDE DEF f
<1>3. QED
    BY <1>1, <1>2, SoundDelete

\* The invariant is inductive.
LEMMA SoundNext == Sound /\ [Next]_vars => Sound'
<1>1. SUFFICES ASSUME Sound, [Next]_vars PROVE Sound'
    OBVIOUS
<1>2. CASE \E n \in Nodes : InsertEntity(n)
    BY <1>1, <1>2, SoundInsert
<1>3. CASE \E n \in Nodes : RemoveEntity(n)
    <2>1. PICK n \in Nodes : RemoveEntity(n)
        BY <1>3
    <2>2. n \in members /\ tree' = Delete(tree, n) /\ members' = members \ {n}
        BY <2>1 DEF RemoveEntity
    <2>3. QED
        BY <1>1, <2>2, SoundDelete
<1>4. CASE PopFirst
    BY <1>1, <1>4, SoundPopFirst
<1>5. CASE UNCHANGED vars
    BY <1>1, <1>5 DEF Sound, vars
<1>6. QED
    BY <1>1, <1>2, <1>3, <1>4, <1>5 DEF Next

LEMMA AlwaysSound == Spec => []Sound
BY SoundInit, SoundNext, PTL DEF Spec

\* What the invariant says of the four properties
LEMMA SoundImplies ==
    ASSUME Sound
    PROVE  RedBlack /\ HoldsExactly /\ WalkInOrder /\ UpperBoundIsNext
<1>1. PICK S, H : IsRedBlack(tree, members, Key, S, H)
    BY DEF Sound
<1>2. IsTree(tree, members, Key, S)
    BY <1>1 DEF IsRedBlack
<1>3. Balanced(tree) /\ WellLinked(tree) /\ Below(tree, tree.root) = members
    BY <1>1, RedBlackReads
<1>4. HoldsExactly
    BY <1>3 DEF Sound, HoldsExactly
<1>5. IsLeast(Key, members, FirstIn(tree))
    BY <1>2, FirstInEffect
<1>6. ASSUME NEW n \in members
      PROVE  IsLeast(Key, {m \in members : Before(Key, n, m)}, NextIn(tree, n))
    BY <1>2, NextInEffect DEF Later
<1>7. ASSUME NEW n \in Nodes PROVE ContainsIn(tree, n) <=> n \in members
    BY <1>2, ContainsInEffect
<1>8. WalkInOrder
    BY <1>5, <1>6, <1>7 DEF WalkInOrder
<1>9. ASSUME NEW n \in Nodes
      PROVE  IsLeast(Key, {m \in members : Before(Key, n, m)}, UpperBound(tree, Key, n))
    BY <1>2, UpperBoundEffect DEF Later
<1>10. QED
    BY <1>3, <1>4, <1>8, <1>9 DEF RedBlack, UpperBoundIsNext

\* However many entities there are and in whatever order they are inserted and
\* removed, no red entity has a red child and every way down holds as many black
\* ones (insert_fixup, remove_fixup).
THEOREM TreeStaysRedBlack == Spec => []RedBlack
BY AlwaysSound, SoundImplies, PTL

\* The tree holds exactly the entities inserted and not removed, counts them,
\* mirrors its pointers and leaves no link in a detached entity (insert, remove,
\* reset_links).
THEOREM TreeHoldsExactly == Spec => []HoldsExactly
BY AlwaysSound, SoundImplies, PTL

\* first and next visit the entities in order, and contains finds exactly them.
THEOREM TreeWalksInOrder == Spec => []WalkInOrder
BY AlwaysSound, SoundImplies, PTL

\* upper_bound finds the least entity after any given one.
THEOREM TreeUpperBoundIsNext == Spec => []UpperBoundIsNext
BY AlwaysSound, SoundImplies, PTL

=============================================================================
