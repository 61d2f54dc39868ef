------------------------------- MODULE RbTree -------------------------------
(***************************************************************************)
(* The intrusive red-black tree of src/rbtree.rs, link by link.            *)
(*                                                                         *)
(* A tree is a record: root and len of RBTree, and the links of the RbNode *)
(* embedded in every entity, in this tree or not.  The code has a left and *)
(* a right version of every case; here the side is a parameter.            *)
(***************************************************************************)
EXTENDS Integers, FiniteSets

CONSTANTS
    Nodes,      \* the entities
    Null,       \* the null pointer
    Addr        \* storage address of each entity: the tie-breaker of cmp

ASSUME NullAssumption == Null \notin Nodes

ASSUME FiniteAssumption == IsFiniteSet(Nodes)

ASSUME NodeAddrAssumption ==
    /\ Addr \in [Nodes -> Nat]
    /\ \A a, b \in Nodes : Addr[a] = Addr[b] => a = b

Sides == {"left", "right"}

Opposite(side) == IF side = "left" THEN "right" ELSE "left"

Pointers == Nodes \cup {Null}

Trees ==
    [root   : Pointers,
     len    : Nat,
     parent : [Nodes -> Pointers],
     child  : [Sides -> [Nodes -> Pointers]],
     color  : [Nodes -> {"red", "black"}]]

\* RBTree::new over entities whose RbNode::new has just run
EmptyTree ==
    [root   |-> Null,
     len    |-> 0,
     parent |-> [n \in Nodes |-> Null],
     child  |-> [side \in Sides |-> [n \in Nodes |-> Null]],
     color  |-> [n \in Nodes |-> "red"]]

\* RbNode::reset_links
ResetLinks(t, n) ==
    [t EXCEPT !.parent[n] = Null,
              !.child["left"][n] = Null,
              !.child["right"][n] = Null,
              !.color[n] = "red"]

\* cmp: a key first, then the storage address
Before(key, a, b) ==
    \/ key[a] < key[b]
    \/ key[a] = key[b] /\ Addr[a] < Addr[b]

ParentOf(t, n) == IF n = Null THEN Null ELSE t.parent[n]

ChildOf(t, n, side) == IF n = Null THEN Null ELSE t.child[side][n]

\* color_of: a null pointer is black
ColorOf(t, n) == IF n = Null THEN "black" ELSE t.color[n]

Paint(t, n, color) == IF n = Null THEN t ELSE [t EXCEPT !.color[n] = color]

\* The side of p on which n hangs
SideOf(t, p, n) == IF n = t.child["left"][p] THEN "left" ELSE "right"

\* A while loop over the loop variables s.  body leaves them alone once the
\* loop's condition is false, and is applied as often as there are entities;
\* RbTreeProofs shows that every loop below has ended by then.
Loop(body, s) ==
    LET after[k \in Nat] == IF k = 0 THEN s ELSE body[after[k - 1]]
    IN  after[Cardinality(Nodes)]

-----------------------------------------------------------------------------
(* Reading.                                                                *)

\* minimum and maximum
Outermost(t, n, side) ==
    Loop([at \in Pointers |-> IF ChildOf(t, at, side) = Null
                                THEN at ELSE t.child[side][at]], n)

FirstIn(t) == Outermost(t, t.root, "left")

ClimbFromRight(t, n) ==
    LET p == t.parent
    IN  p[Loop([at \in Nodes |-> IF at = ChildOf(t, p[at], "right")
                                   THEN p[at] ELSE at], n)]

\* Mutant: the successor is the right child, not the least one below it.
NextInNoDescent(t, n) ==
    IF t.child["right"][n] # Null THEN t.child["right"][n] ELSE ClimbFromRight(t, n)

\* next, of an entity of this tree
NextIn(t, n) ==
    IF t.child["right"][n] # Null
      THEN Outermost(t, t.child["right"][n], "left")
      ELSE ClimbFromRight(t, n)

\* contains walks from first along next.
ContainsIn(t, n) ==
    n = Loop([at \in Pointers |-> IF at \in {Null, n} THEN at ELSE NextIn(t, at)],
             FirstIn(t))

\* Mutant: the search takes entities with the same key for later ones.
UpperBoundStepNotStrict(t, key, n, s) ==
    IF s.at = Null
      THEN s
      ELSE IF key[n] <= key[s.at]
      THEN [at |-> t.child["left"][s.at], candidate |-> s.at]
      ELSE [s EXCEPT !.at = t.child["right"][s.at]]

UpperBoundStep(t, key, n, s) ==
    IF s.at = Null
      THEN s
      ELSE IF Before(key, n, s.at)
      THEN [at |-> t.child["left"][s.at], candidate |-> s.at]
      ELSE [s EXCEPT !.at = t.child["right"][s.at]]

\* upper_bound: the first entity after n, which need not be in this tree
UpperBound(t, key, n) ==
    Loop([s \in [at : Pointers, candidate : Pointers] |-> UpperBoundStep(t, key, n, s)],
         [at |-> t.root, candidate |-> Null]).candidate

-----------------------------------------------------------------------------
(* Changing the links.                                                     *)

SetChild(t, side, n, c) == [t EXCEPT !.child[side][n] = c]

SetParent(t, n, p) == IF n = Null THEN t ELSE [t EXCEPT !.parent[n] = p]

\* Whatever points down at u points at v instead.
Relink(t, u, v) ==
    LET p == t.parent[u]
    IN  IF p = Null THEN [t EXCEPT !.root = v]
                    ELSE SetChild(t, SideOf(t, p, u), p, v)

Transplant(t, u, v) == SetParent(Relink(t, u, v), v, t.parent[u])

\* Mutant: the subtree that changes sides keeps its old parent.
RotateInnerOrphan(t, x, side) ==
    LET y     == t.child[Opposite(side)][x]
        inner == t.child[side][y]
        up    == SetParent(Relink(t, x, y), y, t.parent[x])
    IN  SetParent(SetChild(SetChild(up, Opposite(side), x, inner), side, y, x), x, y)

\* left_rotate and right_rotate: x sinks to the given side.
Rotate(t, x, side) ==
    LET y     == t.child[Opposite(side)][x]
        inner == t.child[side][y]
        up    == SetParent(SetParent(Relink(t, x, y), inner, x), y, t.parent[x])
    IN  SetParent(SetChild(SetChild(up, Opposite(side), x, inner), side, y, x), x, y)

\* Mutant: the red uncle is left red.
InsertFixupStepUncleRed(t, z) ==
    LET p     == t.parent[z]
        g     == t.parent[p]
        side  == SideOf(t, g, p)
        uncle == t.child[Opposite(side)][g]
        inner == z = t.child[Opposite(side)][p]
        low   == IF inner THEN p ELSE z
        s     == IF inner THEN Rotate(t, p, side) ELSE t
        mid   == s.parent[low]
    IN  IF ColorOf(t, p) = "black"
          THEN [tree |-> t, z |-> z]
          ELSE IF ColorOf(t, uncle) = "red"
          THEN [tree |-> Paint(Paint(t, p, "black"), g, "red"), z |-> g]
          ELSE [tree |-> Rotate(Paint(Paint(s, mid, "black"), g, "red"),
                                g, Opposite(side)),
                z    |-> low]

\* One iteration of insert_fixup
InsertFixupStep(t, z) ==
    LET p     == t.parent[z]
        g     == t.parent[p]
        side  == SideOf(t, g, p)
        uncle == t.child[Opposite(side)][g]
        inner == z = t.child[Opposite(side)][p]
        low   == IF inner THEN p ELSE z
        s     == IF inner THEN Rotate(t, p, side) ELSE t
        mid   == s.parent[low]
    IN  IF ColorOf(t, p) = "black"
          THEN [tree |-> t, z |-> z]
          ELSE IF ColorOf(t, uncle) = "red"
          THEN [tree |-> Paint(Paint(Paint(t, p, "black"), uncle, "black"), g, "red"),
                z    |-> g]
          ELSE [tree |-> Rotate(Paint(Paint(s, mid, "black"), g, "red"),
                                g, Opposite(side)),
                z    |-> low]

InsertFixup(t, z) ==
    LET done == Loop([s \in [tree : Trees, z : Nodes] |-> InsertFixupStep(s.tree, s.z)],
                     [tree |-> t, z |-> z]).tree
    IN  Paint(done, done.root, "black")

\* The side of entity at on which n belongs
SideFor(key, n, at) == IF Before(key, n, at) THEN "left" ELSE "right"

\* The entity below which n will hang
LeafFor(t, key, n) ==
    Loop([at \in Nodes |->
             LET c == t.child[SideFor(key, n, at)][at] IN IF c = Null THEN at ELSE c],
         t.root)

\* insert, of a detached entity
Insert(t, key, n) ==
    LET clean == ResetLinks(t, n)
        p     == LeafFor(clean, key, n)
        hung  == IF t.root = Null
                   THEN [clean EXCEPT !.root = n]
                   ELSE SetParent(SetChild(clean, SideFor(key, n, p), p, n), n, p)
    IN  [InsertFixup(hung, n) EXCEPT !.len = @ + 1]

\* remove_fixup: a red sibling makes way for one of its black children.
BlackSibling(t, p, side) ==
    LET w == t.child[Opposite(side)][p]
    IN  IF ColorOf(t, w) = "red"
          THEN Rotate(Paint(Paint(t, w, "black"), p, "red"), p, side)
          ELSE t

\* remove_fixup: the red child of the sibling is brought to its far side.
FarNephew(t, p, side) ==
    LET far == Opposite(side)
        w   == t.child[far][p]
    IN  IF ColorOf(t, ChildOf(t, w, far)) = "black"
          THEN Rotate(Paint(Paint(t, ChildOf(t, w, side), "black"), w, "red"), w, far)
          ELSE t

\* remove_fixup: the sibling takes p's place and p makes up for the lost entity.
LiftSibling(t, p, side) ==
    LET far == Opposite(side)
        w   == t.child[far][p]
    IN  Rotate(Paint(Paint(Paint(t, w, t.color[p]), p, "black"),
                     ChildOf(t, w, far), "black"), p, side)

\* One iteration of remove_fixup
RemoveFixupStep(t, x, p) ==
    LET side == SideOf(t, p, x)
        s    == BlackSibling(t, p, side)
        w    == s.child[Opposite(side)][p]
        d    == LiftSibling(FarNephew(s, p, side), p, side)
    IN  IF x = t.root \/ ColorOf(t, x) = "red"
          THEN [tree |-> t, x |-> x, p |-> p]
          ELSE IF \A e \in Sides : ColorOf(s, ChildOf(s, w, e)) = "black"
          THEN [tree |-> Paint(s, w, "red"), x |-> p, p |-> s.parent[p]]
          ELSE [tree |-> d, x |-> d.root, p |-> Null]

RemoveFixup(t, x, p) ==
    LET done == Loop([s \in [tree : Trees, x : Pointers, p : Pointers] |->
                         RemoveFixupStep(s.tree, s.x, s.p)],
                     [tree |-> t, x |-> x, p |-> p])
    IN  Paint(done.tree, done.x, "black")

\* remove, of an entity with two children: its successor y takes its place.
\* tree is the result, x and p the arguments of remove_fixup.
ReplaceBySuccessor(t, n) ==
    LET y     == Outermost(t, t.child["right"][n], "left")
        x     == t.child["right"][y]
        right == t.child["right"][n]
        below == t.parent[y] = n
        out   == IF below
                   THEN SetParent(t, x, y)
                   ELSE SetParent(SetChild(Transplant(t, y, x), "right", y, right), right, y)
        left  == t.child["left"][n]
        put   == SetParent(SetChild(Transplant(out, n, y), "left", y, left), left, y)
    IN  [tree  |-> Paint(put, y, t.color[n]),
         x     |-> x,
         p     |-> IF below THEN y ELSE t.parent[y],
         color |-> t.color[y]]

\* remove, of an entity with at most one child, which takes its place
ReplaceByChild(t, n) ==
    LET x == t.child[IF t.child["left"][n] = Null THEN "right" ELSE "left"][n]
    IN  [tree |-> Transplant(t, n, x), x |-> x, p |-> t.parent[n], color |-> t.color[n]]

\* remove
Delete(t, n) ==
    LET cut  == IF \A side \in Sides : t.child[side][n] # Null
                  THEN ReplaceBySuccessor(t, n)
                  ELSE ReplaceByChild(t, n)
        done == IF cut.color = "black" THEN RemoveFixup(cut.tree, cut.x, cut.p)
                                       ELSE cut.tree
    IN  [ResetLinks(done, n) EXCEPT !.len = @ - 1]

-----------------------------------------------------------------------------
(* What a tree is.                                                         *)

\* The entities reached from n over child pointers
Below(t, n) ==
    Loop([set \in SUBSET Nodes |->
             set \cup ({t.child[side][m] : side \in Sides, m \in set} \ {Null})],
         {n} \ {Null})

HeightOf(h, n) == IF n = Null THEN 0 ELSE h[n]

\* The black entities on the way down from each entity, counted along left
\* children; in a balanced tree every way down has as many.
BlackHeights(t) ==
    Loop([h \in [Nodes -> Nat] |->
             [n \in Nodes |-> HeightOf(h, t.child["left"][n])
                               + IF t.color[n] = "black" THEN 1 ELSE 0]],
         [n \in Nodes |-> 0])

Balanced(t) ==
    LET h == BlackHeights(t)
    IN  /\ ColorOf(t, t.root) = "black"
        /\ \A n \in Below(t, t.root) :
              /\ HeightOf(h, t.child["left"][n]) = HeightOf(h, t.child["right"][n])
              /\ \A side \in Sides :
                    t.color[n] = "red" => ColorOf(t, t.child[side][n]) = "black"

WellLinked(t) ==
    /\ ParentOf(t, t.root) = Null
    /\ \A n \in Below(t, t.root), side \in Sides :
          t.child[side][n] # Null => t.parent[t.child[side][n]] = n

\* n is the least of the given entities, Null if there are none.
IsLeast(key, set, n) ==
    IF set = {} THEN n = Null
                ELSE n \in set /\ \A m \in set \ {n} : Before(key, n, m)

=============================================================================
