---------------------------- MODULE RbTreeProofs ----------------------------
(***************************************************************************)
(* What the operations of RbTree do to every red-black tree, of any size.  *)
(***************************************************************************)
EXTENDS RbTree, OrderedTreeProofs, FiniteSetTheorems

-----------------------------------------------------------------------------
(* Loops.                                                                  *)

\* g runs the loop from s for the first n iterations.
RunsFor(S, F, s, n, g) ==
    /\ g \in [Nat -> S]
    /\ g[0] = s
    /\ \A k \in Nat : k < n => g[k + 1] = F[g[k]]

\* g runs the loop from s to its result and beyond.
IsRun(S, F, s, g) ==
    /\ g \in [Nat -> S]
    /\ g[0] = s
    /\ \A k \in Nat : g[k + 1] = F[g[k]]
    /\ Loop(F, s) = g[Cardinality(Nodes)]

LEMMA RunExists ==
    ASSUME NEW S, NEW F, NEW s \in S, \A r \in S : F[r] \in S
    PROVE  \A n \in Nat : \E g : RunsFor(S, F, s, n, g)
<1> DEFINE K == {n \in Nat : ~\E g : RunsFor(S, F, s, n, g)}
<1>1. ASSUME NEW n \in Nat, n = 0 \/ n - 1 \notin K PROVE n \notin K
    <2>1. CASE n = 0
        <3>1. RunsFor(S, F, s, n, [k \in Nat |-> s])
            BY <2>1 DEF RunsFor
        <3>2. QED
            BY <3>1
    <2>2. CASE n # 0
        <3>1. PICK g : RunsFor(S, F, s, n - 1, g)
            BY <1>1, <2>2
        <3> DEFINE h == [k \in Nat |-> IF k = n THEN F[g[n - 1]] ELSE g[k]]
        <3>2. g \in [Nat -> S] /\ n - 1 \in Nat
            BY <2>2, <3>1 DEF RunsFor
        <3>3. g[n - 1] \in S
            BY <3>2
        <3>4. h \in [Nat -> S]
            BY <3>2, <3>3
        <3>5. h[0] = s
            BY <2>2, <3>1 DEF RunsFor
        <3>6. \A k \in Nat : k < n => h[k + 1] = F[h[k]]
            BY <2>2, <3>1 DEF RunsFor
        <3>7. RunsFor(S, F, s, n, h)
            BY <3>4, <3>5, <3>6 DEF RunsFor
        <3>8. QED
            BY <3>7
    <2>3. QED
        BY <2>1, <2>2
<1>2. K = {}
    <2>1. SUFFICES ASSUME K # {} PROVE FALSE
        OBVIOUS
    <2>2. PICK m \in K : \A n \in K : m <= n
        BY <2>1, NatMin
    <2>3. m = 0 \/ m - 1 \notin K
        BY <2>2
    <2>4. QED
        BY <1>1, <2>2, <2>3
<1>3. QED
    BY <1>2

\* Two runs agree as long as both run.
LEMMA RunUnique ==
    ASSUME NEW S, NEW F, NEW s, NEW n \in Nat, NEW g, NEW h,
           RunsFor(S, F, s, n, g), RunsFor(S, F, s, n, h)
    PROVE  \A k \in Nat : k <= n => g[k] = h[k]
<1> DEFINE K == {k \in Nat : k <= n /\ g[k] # h[k]}
<1>1. SUFFICES ASSUME K # {} PROVE FALSE
    OBVIOUS
<1>2. PICK m \in K : \A k \in K : m <= k
    BY <1>1, NatMin
<1>3. m # 0
    BY DEF RunsFor
<1>4. m - 1 \in Nat /\ m - 1 \notin K
    BY <1>2, <1>3
<1>5. g[m - 1] = h[m - 1]
    BY <1>4
<1>6. g[(m - 1) + 1] = F[g[m - 1]] /\ h[(m - 1) + 1] = F[h[m - 1]]
    BY <1>4 DEF RunsFor
<1>7. QED
    BY <1>4, <1>5, <1>6

\* A loop whose body stays within S runs within S.
LEMMA LoopRun ==
    ASSUME NEW S, NEW F, NEW s \in S, \A r \in S : F[r] \in S
    PROVE  \E g : IsRun(S, F, s, g)
<1> DEFINE G(n) == CHOOSE g : RunsFor(S, F, s, n, g)
           u == [n \in Nat |-> G(n)[n]]
<1>1. ASSUME NEW n \in Nat PROVE RunsFor(S, F, s, n, G(n))
    BY RunExists
<1> HIDE DEF G
<1>2. u \in [Nat -> S]
    BY <1>1 DEF RunsFor
<1>3. u[0] = s
    BY <1>1 DEF RunsFor
<1>4. ASSUME NEW n \in Nat PROVE u[n + 1] = F[u[n]]
    <2>1. RunsFor(S, F, s, n + 1, G(n + 1)) /\ RunsFor(S, F, s, n, G(n))
        BY <1>1
    <2>2. RunsFor(S, F, s, n, G(n + 1))
        BY <2>1 DEF RunsFor
    <2>3. G(n + 1)[n] = G(n)[n]
        BY <2>1, <2>2, RunUnique
    <2>4. G(n + 1)[n + 1] = F[G(n + 1)[n]]
        BY <2>1 DEF RunsFor
    <2>5. QED
        BY <2>3, <2>4
<1> DEFINE Body(f) == [k \in Nat |-> IF k = 0 THEN s ELSE F[f[k - 1]]]
           a == CHOOSE f : f = Body(f)
<1> HIDE DEF u
<1>5. u = Body(u)
    <2>1. ASSUME NEW k \in Nat PROVE u[k] = Body(u)[k]
        <3>1. CASE k = 0
            BY <1>3, <3>1
        <3>2. CASE k # 0
            <4>1. k - 1 \in Nat /\ (k - 1) + 1 = k
                BY <3>2
            <4>2. u[k] = F[u[k - 1]]
                BY <1>4, <4>1
            <4>3. QED
                BY <3>2, <4>2
        <3>3. QED
            BY <3>1, <3>2
    <2>2. QED
        BY <1>2, <2>1
<1>6. a = Body(a)
    BY <1>5
<1> HIDE DEF a
<1>7. a[0] = s /\ \A k \in Nat : a[k + 1] = F[a[k]]
    <2>1. \A k \in Nat : a[k] = IF k = 0 THEN s ELSE F[a[k - 1]]
        BY <1>6
    <2> HIDE DEF Body
    <2>2. ASSUME NEW k \in Nat PROVE a[k + 1] = F[a[k]]
        <3>1. k + 1 \in Nat /\ k + 1 # 0 /\ (k + 1) - 1 = k
            OBVIOUS
        <3>2. QED
            BY <2>1, <3>1
    <2>3. QED
        BY <2>1, <2>2
<1>8. \A k \in Nat : a[k] = u[k]
    <2> DEFINE K == {k \in Nat : a[k] # u[k]}
    <2>1. SUFFICES ASSUME K # {} PROVE FALSE
        OBVIOUS
    <2>2. PICK m \in K : \A k \in K : m <= k
        BY <2>1, NatMin
    <2>3. m # 0
        BY <1>3, <1>7
    <2>4. m - 1 \in Nat /\ m - 1 \notin K /\ (m - 1) + 1 = m
        BY <2>2, <2>3
    <2>5. QED
        BY <1>4, <1>7, <2>4
<1>9. Loop(F, s) = a[Cardinality(Nodes)]
    BY DEF Loop, a
<1>10. Cardinality(Nodes) \in Nat
    BY FiniteAssumption, FS_CardinalityType
<1>11. IsRun(S, F, s, u)
    BY <1>2, <1>3, <1>4, <1>8, <1>9, <1>10 DEF IsRun
<1>12. QED
    BY <1>11

\* A loop with a measure of at most the number of entities has ended.
LEMMA LoopEnds ==
    ASSUME NEW S, NEW F, NEW s \in S, \A r \in S : F[r] \in S,
           NEW m \in [S -> Nat], m[s] <= Cardinality(Nodes),
           \A r \in S : F[r] = r \/ m[F[r]] < m[r]
    PROVE  Loop(F, s) \in S /\ F[Loop(F, s)] = Loop(F, s)
<1>0. PICK g : IsRun(S, F, s, g)
    BY LoopRun
<1>1. /\ g \in [Nat -> S]
      /\ g[0] = s
      /\ \A k \in Nat : g[k + 1] = F[g[k]]
      /\ Loop(F, s) = g[Cardinality(Nodes)]
    BY <1>0 DEF IsRun
<1> DEFINE c == Cardinality(Nodes)
           Ended(k) == F[g[k]] = g[k] \/ m[g[k]] + k <= c
           K == {k \in Nat : ~Ended(k)}
<1>2. c \in Nat
    BY FiniteAssumption, FS_CardinalityType
<1> HIDE DEF c
<1>3. K = {}
    <2>1. SUFFICES ASSUME K # {} PROVE FALSE
        OBVIOUS
    <2>2. PICK n \in K : \A k \in K : n <= k
        BY <2>1, NatMin
    <2>3. n # 0
        BY <1>1 DEF c
    <2>4. n - 1 \in Nat /\ n - 1 \notin K /\ (n - 1) + 1 = n
        BY <2>2, <2>3
    <2>5. Ended(n - 1)
        BY <2>4
    <2>6. g[n] = F[g[n - 1]] /\ g[n] \in S /\ g[n - 1] \in S
        BY <1>1, <2>4
    <2>7. CASE F[g[n - 1]] = g[n - 1]
        BY <2>6, <2>7
    <2>8. CASE F[g[n - 1]] # g[n - 1]
        <3>1. m[g[n - 1]] + (n - 1) <= c
            BY <2>5, <2>8
        <3>2. m[g[n]] < m[g[n - 1]] /\ m[g[n]] \in Nat /\ m[g[n - 1]] \in Nat
            BY <2>6, <2>8
        <3>3. m[g[n]] + n <= c
            BY <1>2, <3>1, <3>2
        <3>4. QED
            BY <3>3
    <2>9. QED
        BY <2>7, <2>8
<1>4. Ended(c)
    BY <1>2, <1>3
<1>5. g[c] \in S /\ Loop(F, s) = g[c]
    BY <1>1, <1>2 DEF c
<1>6. CASE F[g[c]] = g[c]
    BY <1>5, <1>6
<1>7. CASE m[g[c]] + c <= c
    <2>1. m[g[c]] \in Nat /\ F[g[c]] \in S
        BY <1>5
    <2>2. m[g[c]] = 0
        BY <1>2, <1>7, <2>1
    <2>3. m[F[g[c]]] \in Nat
        BY <2>1
    <2>4. QED
        BY <1>5, <2>2, <2>3
<1>8. QED
    BY <1>4, <1>6, <1>7

-----------------------------------------------------------------------------
(* The order of the entities, seen from either side.                       *)

\* a belongs on the given side of b.
OnSide(key, side, a, b) ==
    IF side = "left" THEN Before(key, a, b) ELSE Before(key, b, a)

LEMMA SidesAre ==
    ASSUME NEW side \in Sides
    PROVE  /\ Opposite(side) \in Sides
           /\ Opposite(side) # side
           /\ Opposite(Opposite(side)) = side
           /\ \A d \in Sides : d = side \/ d = Opposite(side)
BY DEF Sides, Opposite

LEMMA OnSideIrreflexive ==
    ASSUME NEW key \in [Nodes -> Nat], NEW side \in Sides, NEW a \in Nodes
    PROVE  ~OnSide(key, side, a, a)
BY NodeAddrAssumption DEF OnSide, Before

LEMMA OnSideOpposite ==
    ASSUME NEW key, NEW side \in Sides, NEW a \in Nodes, NEW b \in Nodes
    PROVE  OnSide(key, Opposite(side), b, a) <=> OnSide(key, side, a, b)
BY DEF OnSide, Sides, Opposite

LEMMA OnSideTransitive ==
    ASSUME NEW key \in [Nodes -> Nat], NEW side \in Sides,
           NEW a \in Nodes, NEW b \in Nodes, NEW c \in Nodes,
           OnSide(key, side, a, b), OnSide(key, side, b, c)
    PROVE  OnSide(key, side, a, c)
<1>1. /\ key[a] \in Nat /\ key[b] \in Nat /\ key[c] \in Nat
      /\ Addr[a] \in Nat /\ Addr[b] \in Nat /\ Addr[c] \in Nat
    BY NodeAddrAssumption
<1>2. QED
    BY <1>1 DEF OnSide, Before

LEMMA OnSideTotal ==
    ASSUME NEW key \in [Nodes -> Nat], NEW side \in Sides,
           NEW a \in Nodes, NEW b \in Nodes, a # b
    PROVE  OnSide(key, side, a, b) \/ OnSide(key, side, b, a)
<1>1. /\ key[a] \in Nat /\ key[b] \in Nat /\ Addr[a] \in Nat /\ Addr[b] \in Nat
      /\ Addr[a] # Addr[b]
    BY NodeAddrAssumption
<1>2. QED
    BY <1>1 DEF OnSide, Before

LEMMA OnSideAsymmetric ==
    ASSUME NEW key \in [Nodes -> Nat], NEW side \in Sides,
           NEW a \in Nodes, NEW b \in Nodes, OnSide(key, side, a, b)
    PROVE  ~OnSide(key, side, b, a) /\ ~OnSide(key, Opposite(side), a, b) /\ a # b
<1>1. ~OnSide(key, side, b, a)
    BY OnSideTransitive, OnSideIrreflexive
<1>2. QED
    BY <1>1, OnSideOpposite, OnSideIrreflexive

-----------------------------------------------------------------------------
(* What the operations on single links do.                                 *)

Colors == {"red", "black"}

LEMMA TreeFields ==
    ASSUME NEW t \in Trees
    PROVE  /\ t.root \in Pointers
           /\ t.len \in Nat
           /\ t.parent \in [Nodes -> Pointers]
           /\ t.child \in [Sides -> [Nodes -> Pointers]]
           /\ t.color \in [Nodes -> Colors]
           /\ \A n \in Nodes : t.parent[n] \in Pointers /\ t.color[n] \in Colors
           /\ \A n \in Nodes, d \in Sides : t.child[d][n] \in Pointers
           /\ \A n \in Pointers : n = Null \/ n \in Nodes
BY DEF Trees, Colors, Pointers

\* r is t but for the colour of n, the parent of n, the child of n on side d,
\* and the pointer down at u.
Painted(t, n, c, r) ==
    /\ r \in Trees
    /\ r.root = t.root /\ r.len = t.len /\ r.parent = t.parent /\ r.child = t.child
    /\ \A m \in Nodes : r.color[m] = IF m = n THEN c ELSE t.color[m]

ParentSet(t, n, p, r) ==
    /\ r \in Trees
    /\ r.root = t.root /\ r.len = t.len /\ r.child = t.child /\ r.color = t.color
    /\ \A m \in Nodes : r.parent[m] = IF m = n THEN p ELSE t.parent[m]

ChildSet(t, d, n, c, r) ==
    /\ r \in Trees
    /\ r.root = t.root /\ r.len = t.len /\ r.parent = t.parent /\ r.color = t.color
    /\ \A e \in Sides, m \in Nodes :
          r.child[e][m] = IF e = d /\ m = n THEN c ELSE t.child[e][m]

Relinked(t, u, v, r) ==
    /\ r \in Trees
    /\ r.root = IF t.parent[u] = Null THEN v ELSE t.root
    /\ r.len = t.len /\ r.parent = t.parent /\ r.color = t.color
    /\ \A d \in Sides, m \in Nodes : r.child[d][m] =
          IF m = t.parent[u] /\ d = SideOf(t, m, u) THEN v ELSE t.child[d][m]

LEMMA PaintEffect ==
    ASSUME NEW t \in Trees, NEW n \in Pointers, NEW c \in Colors
    PROVE  Painted(t, n, c, Paint(t, n, c))
BY NullAssumption DEF Painted, Paint, Trees, Colors, Pointers

LEMMA SetParentEffect ==
    ASSUME NEW t \in Trees, NEW n \in Pointers, NEW p \in Pointers
    PROVE  ParentSet(t, n, p, SetParent(t, n, p))
BY NullAssumption DEF ParentSet, SetParent, Trees, Pointers

LEMMA SetChildEffect ==
    ASSUME NEW t \in Trees, NEW d \in Sides, NEW n \in Nodes, NEW c \in Pointers
    PROVE  ChildSet(t, d, n, c, SetChild(t, d, n, c))
BY DEF ChildSet, SetChild, Trees, Pointers

LEMMA RelinkEffect ==
    ASSUME NEW t \in Trees, NEW u \in Nodes, NEW v \in Pointers
    PROVE  Relinked(t, u, v, Relink(t, u, v))
<1> DEFINE p == t.parent[u]
<1>1. CASE p = Null
    BY <1>1, NullAssumption DEF Relinked, Relink, Trees, Pointers
<1>2. CASE p # Null
    <2>1. p \in Nodes /\ SideOf(t, p, u) \in Sides
        BY <1>2 DEF Trees, Pointers, SideOf, Sides
    <2>2. Relink(t, u, v) = SetChild(t, SideOf(t, p, u), p, v)
        BY <1>2 DEF Relink
    <2>3. ChildSet(t, SideOf(t, p, u), p, v, Relink(t, u, v))
        BY <2>1, <2>2, SetChildEffect
    <2>4. QED
        BY <1>2, <2>1, <2>3 DEF ChildSet, Relinked
<1>3. QED
    BY <1>1, <1>2

\* r is t after a rotation that brings y up and x down to the given side.
Rotated(t, x, side, y, r) ==
    /\ r \in Trees
    /\ r.root = IF t.parent[x] = Null THEN y ELSE t.root
    /\ r.len = t.len /\ r.color = t.color
    /\ \A n \in Nodes : r.parent[n] =
          IF n = x THEN y
          ELSE IF n = y THEN t.parent[x]
          ELSE IF n = t.child[side][y] THEN x
          ELSE t.parent[n]
    /\ \A d \in Sides, n \in Nodes : r.child[d][n] =
          IF n = x /\ d = Opposite(side) THEN t.child[side][y]
          ELSE IF n = y /\ d = side THEN x
          ELSE IF n = t.parent[x] /\ d = SideOf(t, n, x) THEN y
          ELSE t.child[d][n]

LEMMA RotateEffect ==
    ASSUME NEW t \in Trees, NEW side \in Sides, NEW x \in Nodes, NEW y \in Nodes,
           y = t.child[Opposite(side)][x], x # y,
           t.child[side][y] \notin {x, y}, t.parent[x] \notin {x, y}
    PROVE  Rotated(t, x, side, y, Rotate(t, x, side))
<1> DEFINE inner == t.child[side][y]
           p     == t.parent[x]
           a     == Relink(t, x, y)
           b     == SetParent(a, inner, x)
           up    == SetParent(b, y, p)
           c     == SetChild(up, Opposite(side), x, inner)
           e     == SetChild(c, side, y, x)
           r     == SetParent(e, x, y)
<1>1. /\ inner \in Pointers /\ p \in Pointers /\ y \in Pointers /\ x \in Pointers
      /\ Opposite(side) \in Sides /\ Opposite(side) # side
    BY TreeFields, SidesAre DEF Pointers
<1>2. Rotate(t, x, side) = r
    BY DEF Rotate
<1>3. Relinked(t, x, y, a)
    BY <1>1, RelinkEffect
<1>4. a \in Trees
    BY <1>3 DEF Relinked
<1> HIDE DEF inner, p, a
<1>5. ParentSet(a, inner, x, b)
    BY <1>1, <1>4, SetParentEffect
<1>6. b \in Trees
    BY <1>5 DEF ParentSet
<1> HIDE DEF b
<1>7. ParentSet(b, y, p, up)
    BY <1>1, <1>6, SetParentEffect
<1>8. up \in Trees
    BY <1>7 DEF ParentSet
<1> HIDE DEF up
<1>9. ChildSet(up, Opposite(side), x, inner, c)
    BY <1>1, <1>8, SetChildEffect
<1>10. c \in Trees
    BY <1>9 DEF ChildSet
<1> HIDE DEF c
<1>11. ChildSet(c, side, y, x, e)
    BY <1>1, <1>10, SetChildEffect
<1>12. e \in Trees
    BY <1>11 DEF ChildSet
<1> HIDE DEF e
<1>13. ParentSet(e, x, y, r)
    BY <1>1, <1>12, SetParentEffect
<1> HIDE DEF r
<1>14. \A n \in Nodes : r.parent[n] = IF n = x THEN y ELSE IF n = y THEN p
                                      ELSE IF n = inner THEN x ELSE t.parent[n]
    BY <1>3, <1>5, <1>7, <1>9, <1>11, <1>13 DEF Relinked, ParentSet, ChildSet
<1>15. \A d \in Sides, n \in Nodes : r.child[d][n] =
          IF n = x /\ d = Opposite(side) THEN inner
          ELSE IF n = y /\ d = side THEN x
          ELSE IF n = p /\ d = SideOf(t, n, x) THEN y
          ELSE t.child[d][n]
    <2>1. \A d \in Sides, n \in Nodes : a.child[d][n] =
              IF n = p /\ d = SideOf(t, n, x) THEN y ELSE t.child[d][n]
        BY <1>3 DEF Relinked, p
    <2>2. up.child = a.child /\ r.child = e.child
        BY <1>5, <1>7, <1>13 DEF ParentSet
    <2>3. \A d \in Sides, n \in Nodes :
              c.child[d][n] = IF d = Opposite(side) /\ n = x THEN inner ELSE up.child[d][n]
        BY <1>9 DEF ChildSet
    <2>4. \A d \in Sides, n \in Nodes :
              e.child[d][n] = IF d = side /\ n = y THEN x ELSE c.child[d][n]
        BY <1>11 DEF ChildSet
    <2>5. QED
        BY <2>1, <2>2, <2>3, <2>4
<1>16. /\ r \in Trees /\ r.len = t.len /\ r.color = t.color
       /\ r.root = IF p = Null THEN y ELSE t.root
    BY <1>3, <1>5, <1>7, <1>9, <1>11, <1>13 DEF Relinked, ParentSet, ChildSet, p
<1>17. QED
    BY <1>2, <1>14, <1>15, <1>16 DEF Rotated, inner, p

-----------------------------------------------------------------------------
(* Search trees.                                                           *)

SubtreeOf(S, n) == IF n = Null THEN {} ELSE S[n]

\* Parent pointers mirror child pointers throughout M.
Linked(t, M) ==
    /\ M \subseteq Nodes
    /\ t.root # Null => t.root \in M /\ t.parent[t.root] = Null
    /\ \A n \in M, d \in Sides : t.child[d][n] # Null =>
          t.child[d][n] \in M /\ t.parent[t.child[d][n]] = n
    /\ \A n \in M : n # t.root =>
          t.parent[n] \in M /\ \E d \in Sides : t.child[d][t.parent[n]] = n

\* S[n] are the entities of the subtree at n, left ones before n, right ones
\* after n.
Ordered(t, M, key, S) ==
    /\ S \in [Nodes -> SUBSET Nodes]
    /\ SubtreeOf(S, t.root) = M
    /\ \A n \in M : S[n] = {n} \cup SubtreeOf(S, t.child["left"][n])
                              \cup SubtreeOf(S, t.child["right"][n])
    /\ \A n \in M, d \in Sides :
          \A m \in SubtreeOf(S, t.child[d][n]) : OnSide(key, d, m, n)

\* t is a search tree of the entities in M; only their links matter.
IsTree(t, M, key, S) ==
    /\ t \in Trees
    /\ key \in [Nodes -> Nat]
    /\ Linked(t, M)
    /\ Ordered(t, M, key, S)

\* The subtree at n, split at n
LEMMA SubtreeSplit ==
    ASSUME NEW t, NEW M, NEW key, NEW S, IsTree(t, M, key, S),
           NEW n \in M, NEW side \in Sides
    PROVE  S[n] = {n} \cup SubtreeOf(S, t.child[side][n])
                      \cup SubtreeOf(S, t.child[Opposite(side)][n])
BY DEF IsTree, Ordered, Sides, Opposite

LEMMA SubtreeTyped ==
    ASSUME NEW t, NEW M, NEW key, NEW S, IsTree(t, M, key, S), NEW n \in Pointers
    PROVE  SubtreeOf(S, n) \subseteq Nodes /\ IsFiniteSet(SubtreeOf(S, n))
<1>1. SubtreeOf(S, n) \subseteq Nodes
    BY DEF IsTree, Ordered, SubtreeOf, Pointers
<1>2. QED
    BY <1>1, FiniteAssumption, FS_Subset

\* A child's subtree is a smaller part of its parent's.
LEMMA ChildSubtree ==
    ASSUME NEW t, NEW M, NEW key, NEW S, IsTree(t, M, key, S),
           NEW n \in M, NEW d \in Sides, t.child[d][n] # Null
    PROVE  /\ t.child[d][n] \in M
           /\ t.parent[t.child[d][n]] = n
           /\ t.child[d][n] \in S[t.child[d][n]]
           /\ S[t.child[d][n]] \subseteq S[n]
           /\ n \in S[n]
           /\ n \notin S[t.child[d][n]]
           /\ Cardinality(S[t.child[d][n]]) \in Nat
           /\ Cardinality(S[n]) \in Nat
           /\ Cardinality(S[t.child[d][n]]) < Cardinality(S[n])
<1> DEFINE c == t.child[d][n]
<1>1. c \in M /\ t.parent[c] = n /\ M \subseteq Nodes
    BY DEF IsTree, Linked
<1>2. SubtreeOf(S, c) = S[c] /\ c \in S[c] /\ n \in S[n]
    BY <1>1 DEF IsTree, Ordered, SubtreeOf
<1>3. S[c] \subseteq S[n]
    BY <1>2, SubtreeSplit
<1>4. n \notin S[c]
    <2>1. \A m \in S[c] : OnSide(key, d, m, n)
        BY <1>2 DEF IsTree, Ordered
    <2>2. QED
        BY <1>1, <2>1, OnSideIrreflexive DEF IsTree
<1>5. IsFiniteSet(S[n]) /\ IsFiniteSet(S[c])
    <2>1. S[n] \subseteq Nodes /\ S[c] \subseteq Nodes
        BY <1>1 DEF IsTree, Ordered
    <2>2. QED
        BY <2>1, FiniteAssumption, FS_Subset
<1>6. Cardinality(S[c]) \in Nat /\ Cardinality(S[n]) \in Nat
    BY <1>5, FS_CardinalityType
<1>7. Cardinality(S[c]) <= Cardinality(S[n]) /\ (Cardinality(S[c]) = Cardinality(S[n]) => S[c] = S[n])
    BY <1>3, <1>5, FS_Subset
<1>8. Cardinality(S[c]) < Cardinality(S[n])
    BY <1>2, <1>4, <1>6, <1>7
<1>9. QED
    BY <1>1, <1>2, <1>3, <1>4, <1>6, <1>8

\* Induction from the root down
LEMMA DownwardInduction ==
    ASSUME NEW t, NEW M, NEW key, NEW S, IsTree(t, M, key, S), NEW C,
           t.root # Null => t.root \in C,
           \A n \in M \cap C, d \in Sides : t.child[d][n] # Null => t.child[d][n] \in C
    PROVE  M \subseteq C
<1>1. SUFFICES ASSUME NEW m \in M, m \notin C PROVE FALSE
    OBVIOUS
<1> DEFINE A == {n \in M \cap C : m \in S[n]}
           K == {Cardinality(S[n]) : n \in A}
<1>2. t.root \in A
    BY DEF IsTree, Linked, Ordered, SubtreeOf
<1>3. \A n \in A : Cardinality(S[n]) \in Nat
    <2>1. ASSUME NEW n \in A PROVE Cardinality(S[n]) \in Nat
        <3>1. n \in Nodes /\ S[n] \subseteq Nodes
            BY DEF IsTree, Linked, Ordered
        <3>2. QED
            BY <3>1, FiniteAssumption, FS_Subset, FS_CardinalityType
    <2>2. QED
        BY <2>1
<1>4. PICK k \in K : \A j \in K : k <= j
    <2>1. K \in SUBSET Nat /\ K # {}
        BY <1>2, <1>3
    <2>2. QED
        BY <2>1, NatMin
<1>5. PICK n \in A : k = Cardinality(S[n])
    OBVIOUS
<1>6. PICK d \in Sides : m \in SubtreeOf(S, t.child[d][n])
    BY <1>1, <1>5 DEF IsTree, Ordered, Sides
<1>7. t.child[d][n] # Null /\ m \in S[t.child[d][n]]
    BY <1>6 DEF SubtreeOf
<1>8. t.child[d][n] \in A
    BY <1>5, <1>7, ChildSubtree
<1>9. Cardinality(S[t.child[d][n]]) < Cardinality(S[n])
    BY <1>5, <1>7, ChildSubtree
<1>10. QED
    BY <1>3, <1>4, <1>5, <1>6, <1>7, <1>8, <1>9

\* Induction from the leaves up
LEMMA UpwardInduction ==
    ASSUME NEW t, NEW M, NEW key, NEW S, IsTree(t, M, key, S), NEW C,
           \A n \in M : (\A d \in Sides : t.child[d][n] \in C \cup {Null}) => n \in C
    PROVE  M \subseteq C
<1>1. SUFFICES ASSUME M \ C # {} PROVE FALSE
    OBVIOUS
<1> DEFINE K == {Cardinality(S[n]) : n \in M \ C}
<1>2. \A n \in M : Cardinality(S[n]) \in Nat
    <2>1. ASSUME NEW n \in M PROVE Cardinality(S[n]) \in Nat
        <3>1. n \in Nodes /\ S[n] \subseteq Nodes
            BY DEF IsTree, Linked, Ordered
        <3>2. QED
            BY <3>1, FiniteAssumption, FS_Subset, FS_CardinalityType
    <2>2. QED
        BY <2>1
<1>3. PICK k \in K : \A j \in K : k <= j
    <2>1. K \in SUBSET Nat /\ K # {}
        BY <1>1, <1>2
    <2>2. QED
        BY <2>1, NatMin
<1>4. PICK n \in M \ C : k = Cardinality(S[n])
    OBVIOUS
<1>5. PICK d \in Sides : t.child[d][n] \notin C \cup {Null}
    BY <1>4
<1>6. t.child[d][n] \in M \ C /\ Cardinality(S[t.child[d][n]]) < Cardinality(S[n])
    BY <1>4, <1>5, ChildSubtree
<1>7. QED
    BY <1>2, <1>3, <1>4, <1>6

\* No subtree reaches beyond the tree.
LEMMA SubtreeWithin ==
    ASSUME NEW t, NEW M, NEW key, NEW S, IsTree(t, M, key, S)
    PROVE  \A n \in M : S[n] \subseteq M /\ n \in S[n]
<1> DEFINE C == {n \in M : S[n] \subseteq M}
<1>1. t.root # Null => t.root \in C
    BY DEF IsTree, Linked, Ordered, SubtreeOf
<1>2. \A n \in M \cap C, d \in Sides : t.child[d][n] # Null => t.child[d][n] \in C
    BY ChildSubtree
<1>3. M \subseteq C
    BY <1>1, <1>2, DownwardInduction
<1>4. QED
    BY <1>3 DEF IsTree, Ordered

\* The two children of an entity differ, and SideOf tells them apart.
LEMMA ChildrenDiffer ==
    ASSUME NEW t, NEW M, NEW key, NEW S, IsTree(t, M, key, S),
           NEW n \in M, NEW d \in Sides, t.child[d][n] # Null
    PROVE  /\ t.child[d][n] # t.child[Opposite(d)][n]
           /\ SideOf(t, n, t.child[d][n]) = d
<1> DEFINE c == t.child[d][n]
<1>1. c \in M /\ c \in S[c] /\ c \in Nodes /\ n \in Nodes
    BY ChildSubtree DEF IsTree, Linked
<1>2. OnSide(key, d, c, n)
    BY <1>1 DEF IsTree, Ordered, SubtreeOf
<1>3. c # t.child[Opposite(d)][n]
    <2>1. SUFFICES ASSUME c = t.child[Opposite(d)][n] PROVE FALSE
        OBVIOUS
    <2>2. OnSide(key, Opposite(d), c, n)
        BY <1>1, <2>1, SidesAre DEF IsTree, Ordered, SubtreeOf
    <2>3. QED
        BY <1>1, <1>2, <2>2, OnSideAsymmetric DEF IsTree
<1>4. QED
    BY <1>3 DEF SideOf, Sides, Opposite

\* An entity hangs at the pointer its parent has on side SideOf.
LEMMA ParentSide ==
    ASSUME NEW t, NEW M, NEW key, NEW S, IsTree(t, M, key, S),
           NEW n \in M, n # t.root
    PROVE  /\ t.parent[n] \in M
           /\ t.parent[n] # n
           /\ SideOf(t, t.parent[n], n) \in Sides
           /\ t.child[SideOf(t, t.parent[n], n)][t.parent[n]] = n
           /\ n \in S[t.parent[n]]
           /\ S[n] \subseteq S[t.parent[n]]
           /\ t.parent[n] \notin S[n]
<1>1. PICK d \in Sides : t.child[d][t.parent[n]] = n
    BY DEF IsTree, Linked
<1>2. t.parent[n] \in M /\ n # Null
    BY NullAssumption DEF IsTree, Linked
<1>3. SideOf(t, t.parent[n], n) = d
    BY <1>1, <1>2, ChildrenDiffer
<1>4. QED
    BY <1>1, <1>2, <1>3, ChildSubtree

LEMMA RootHasNoParent ==
    ASSUME NEW t, NEW M, NEW key, NEW S, IsTree(t, M, key, S), NEW n \in M
    PROVE  t.parent[n] = Null <=> n = t.root
BY NullAssumption DEF IsTree, Linked

\* The subtrees after a rotation
RotatedSubtrees(t, S, x, side, y) ==
    [S EXCEPT ![y] = S[x],
              ![x] = {x} \cup SubtreeOf(S, t.child[side][x])
                         \cup SubtreeOf(S, t.child[side][y])]

\* Where a rotation happens
LEMMA RotateSite ==
    ASSUME NEW t, NEW M, NEW key, NEW S, IsTree(t, M, key, S),
           NEW side \in Sides, NEW x \in M, NEW y, y = t.child[Opposite(side)][x], y # Null
    PROVE  /\ x \in Nodes /\ y \in Nodes /\ y \in M /\ x # y
           /\ t.parent[y] = x
           /\ t.child[side][y] \notin {x, y}
           /\ t.parent[x] \notin {x, y}
           /\ Rotated(t, x, side, y, Rotate(t, x, side))
<1>1. Opposite(side) \in Sides
    BY SidesAre
<1>2. /\ y \in M /\ t.parent[y] = x /\ y \in S[y] /\ x \notin S[y]
      /\ x \in Nodes /\ y \in Nodes /\ t \in Trees
    BY <1>1, ChildSubtree DEF IsTree, Linked
<1>3. x # y
    BY <1>2
<1>4. t.child[side][y] \notin {x, y}
    <2>1. CASE t.child[side][y] = Null
        BY <1>2, <2>1, NullAssumption
    <2>2. CASE t.child[side][y] # Null
        BY <1>2, <2>2, ChildSubtree
    <2>3. QED
        BY <2>1, <2>2
<1>5. t.parent[x] \notin {x, y}
    <2>1. CASE x = t.root
        BY <1>2, <2>1, NullAssumption, RootHasNoParent
    <2>2. CASE x # t.root
        BY <1>2, <2>2, ParentSide
    <2>3. QED
        BY <2>1, <2>2
<1>6. QED
    BY <1>2, <1>3, <1>4, <1>5, RotateEffect

\* A rotation keeps parent and child pointers mirrored.
LEMMA RotateLinked ==
    ASSUME NEW t, NEW M, NEW key, NEW S, IsTree(t, M, key, S),
           NEW side \in Sides, NEW x \in M, NEW y, y = t.child[Opposite(side)][x], y # Null
    PROVE  Linked(Rotate(t, x, side), M)
<1> DEFINE r == Rotate(t, x, side)
           inner == t.child[side][y]
           p == t.parent[x]
           opp == Opposite(side)
<1>1. /\ x \in Nodes /\ y \in Nodes /\ y \in M /\ x # y /\ t.parent[y] = x
      /\ inner \notin {x, y} /\ p \notin {x, y} /\ Rotated(t, x, side, y, r)
    BY RotateSite
<1>2. /\ opp \in Sides /\ opp # side /\ \A d \in Sides : d = side \/ d = opp
    BY SidesAre
<1>3. /\ M \subseteq Nodes /\ Null \notin Nodes
      /\ t.root # Null => t.root \in M /\ t.parent[t.root] = Null
      /\ \A n \in M, d \in Sides : t.child[d][n] # Null =>
            t.child[d][n] \in M /\ t.parent[t.child[d][n]] = n
      /\ \A n \in M : n # t.root =>
            t.parent[n] \in M /\ t.child[SideOf(t, t.parent[n], n)][t.parent[n]] = n
                              /\ SideOf(t, t.parent[n], n) \in Sides
      /\ p = Null <=> x = t.root
    BY NullAssumption, ParentSide, RootHasNoParent DEF IsTree, Linked
<1>4. \A n \in M, d \in Sides : t.child[d][n] # Null => SideOf(t, n, t.child[d][n]) = d
    BY ChildrenDiffer
<1>5. /\ \A n \in Nodes : r.parent[n] = IF n = x THEN y ELSE IF n = y THEN p
                             ELSE IF n = inner THEN x ELSE t.parent[n]
      /\ \A d \in Sides, n \in Nodes : r.child[d][n] =
            IF n = x /\ d = opp THEN inner ELSE IF n = y /\ d = side THEN x
            ELSE IF n = p /\ d = SideOf(t, n, x) THEN y ELSE t.child[d][n]
      /\ r.root = IF p = Null THEN y ELSE t.root
    BY <1>1 DEF Rotated
<1> HIDE DEF r, p, opp, inner
<1>6. inner # Null => inner \in M /\ t.parent[inner] = y
    BY <1>1, <1>3 DEF inner
<1>7. y = t.child[opp][x] /\ p = t.parent[x] /\ inner = t.child[side][y]
    BY DEF opp, p, inner
<1>8. r.root # Null => r.root \in M /\ r.parent[r.root] = Null
    BY <1>1, <1>3, <1>5, <1>6, <1>7
<1>9. ASSUME NEW n \in M, NEW d \in Sides, r.child[d][n] # Null
      PROVE  r.child[d][n] \in M /\ r.parent[r.child[d][n]] = n
    <2>1. CASE n = x /\ d = opp
        BY <1>1, <1>3, <1>5, <1>6, <1>9, <2>1
    <2>2. CASE n = y /\ d = side
        BY <1>1, <1>2, <1>5, <2>2
    <2>3. CASE n = p /\ d = SideOf(t, n, x)
        BY <1>1, <1>2, <1>3, <1>5, <1>7, <2>3
    <2>4. CASE ~(n = x /\ d = opp) /\ ~(n = y /\ d = side) /\ ~(n = p /\ d = SideOf(t, n, x))
        <3> DEFINE c == t.child[d][n]
        <3>1. r.child[d][n] = c /\ c \in M /\ t.parent[c] = n /\ c # Null
            BY <1>3, <1>5, <1>9, <2>4
        <3>2. c # x
            BY <1>3, <1>4, <1>7, <2>4, <3>1
        <3>3. c # y
            <4>1. SUFFICES ASSUME c = y PROVE FALSE
                OBVIOUS
            <4>2. n = x
                BY <1>1, <3>1, <4>1
            <4>3. d = opp
                BY <1>2, <1>4, <1>7, <3>1, <4>1, <4>2
            <4>4. QED
                BY <2>4, <4>2, <4>3
        <3>4. c # inner
            <4>1. SUFFICES ASSUME c = inner PROVE FALSE
                OBVIOUS
            <4>2. n = y
                BY <1>6, <3>1, <4>1
            <4>3. d = side
                BY <1>1, <1>2, <1>4, <1>7, <3>1, <4>1, <4>2
            <4>4. QED
                BY <2>4, <4>2, <4>3
        <3>5. QED
            BY <1>3, <1>5, <3>1, <3>2, <3>3, <3>4
    <2>5. QED
        BY <2>1, <2>2, <2>3, <2>4
<1>10. ASSUME NEW n \in M, n # r.root
       PROVE  r.parent[n] \in M /\ \E d \in Sides : r.child[d][r.parent[n]] = n
    <2>1. CASE n = x
        BY <1>1, <1>2, <1>5, <2>1
    <2>2. CASE n = y
        <3>1. p # Null /\ p \in M /\ SideOf(t, p, x) \in Sides
            BY <1>3, <1>5, <1>7, <1>10, <2>2
        <3>2. r.parent[n] = p /\ r.child[SideOf(t, p, x)][p] = y
            BY <1>1, <1>3, <1>5, <2>2, <3>1
        <3>3. QED
            BY <2>2, <3>1, <3>2
    <2>3. CASE n = inner
        BY <1>1, <1>2, <1>3, <1>5, <2>3
    <2>4. CASE n \notin {x, y, inner}
        <3>1. n # t.root
            BY <1>3, <1>5, <1>10, <2>4
        <3> DEFINE q == t.parent[n]
                   e == SideOf(t, q, n)
        <3>2. q \in M /\ e \in Sides /\ t.child[e][q] = n
            BY <1>3, <3>1
        <3>3. r.parent[n] = q
            BY <1>3, <1>5, <2>4
        <3>4. ~(q = x /\ e = opp) /\ ~(q = y /\ e = side)
            BY <1>7, <2>4, <3>2
        <3>5. ~(q = p /\ e = SideOf(t, q, x))
            <4>1. SUFFICES ASSUME q = p, e = SideOf(t, q, x) PROVE FALSE
                OBVIOUS
            <4>2. p # Null
                BY <1>3, <3>2, <4>1
            <4>3. x # t.root
                BY <1>3, <4>2
            <4>4. t.child[SideOf(t, p, x)][p] = x
                BY <1>3, <1>7, <4>3
            <4>5. QED
                BY <2>4, <3>2, <4>1, <4>4
        <3>6. r.child[e][q] = n
            <4> HIDE DEF e, q
            <4>1. q \in Nodes
                BY <1>3, <3>2
            <4>2. QED
                BY <1>5, <3>2, <3>4, <3>5, <4>1
        <3>7. QED
            BY <3>2, <3>3, <3>6
    <2>5. QED
        BY <2>1, <2>2, <2>3, <2>4
<1>11. QED
    BY <1>3, <1>8, <1>9, <1>10 DEF Linked, r

\* A rotation keeps the order; only the subtrees at x and y change.
LEMMA RotateOrdered ==
    ASSUME NEW t, NEW M, NEW key, NEW S, IsTree(t, M, key, S),
           NEW side \in Sides, NEW x \in M, NEW y, y = t.child[Opposite(side)][x], y # Null
    PROVE  Ordered(Rotate(t, x, side), M, key, RotatedSubtrees(t, S, x, side, y))
<1> DEFINE r == Rotate(t, x, side)
           T == RotatedSubtrees(t, S, x, side, y)
           opp == Opposite(side)
           inner == t.child[side][y]
           outer == t.child[opp][y]
           low == t.child[side][x]
           p == t.parent[x]
<1>1. /\ x \in Nodes /\ y \in Nodes /\ y \in M /\ x # y /\ t.parent[y] = x
      /\ inner \notin {x, y} /\ p \notin {x, y} /\ Rotated(t, x, side, y, r)
    BY RotateSite
<1>2. /\ opp \in Sides /\ opp # side /\ \A d \in Sides : d = side \/ d = opp
      /\ Opposite(opp) = side
    BY SidesAre
<1>3. /\ M \subseteq Nodes /\ Null \notin Nodes /\ key \in [Nodes -> Nat] /\ t \in Trees
      /\ S \in [Nodes -> SUBSET Nodes]
      /\ \A n \in M, d \in Sides : t.child[d][n] \in Pointers
    BY NullAssumption, TreeFields DEF IsTree, Linked, Ordered
<1>4. /\ S[x] = {x} \cup SubtreeOf(S, low) \cup SubtreeOf(S, y)
      /\ S[y] = {y} \cup SubtreeOf(S, inner) \cup SubtreeOf(S, outer)
      /\ SubtreeOf(S, y) = S[y]
    BY <1>1, SubtreeSplit DEF SubtreeOf
<1>5. /\ \A d \in Sides, n \in Nodes : r.child[d][n] =
            IF n = x /\ d = opp THEN inner ELSE IF n = y /\ d = side THEN x
            ELSE IF n = p /\ d = SideOf(t, n, x) THEN y ELSE t.child[d][n]
      /\ r.root = IF p = Null THEN y ELSE t.root
    BY <1>1 DEF Rotated
<1>6. low # y /\ low # x /\ outer # x /\ outer # y
    <2>1. low # y
        BY <1>2, ChildrenDiffer
    <2>2. low # x
        BY <1>1, <1>3, ChildSubtree
    <2>3. outer # x /\ outer # y
        <3>1. CASE outer = Null
            BY <1>1, <1>3, <3>1
        <3>2. CASE outer # Null
            BY <1>1, <1>2, <3>2, ChildSubtree
        <3>3. QED
            BY <3>1, <3>2
    <2>4. QED
        BY <2>1, <2>2, <2>3
<1>7. /\ SubtreeOf(S, low) \subseteq Nodes /\ SubtreeOf(S, inner) \subseteq Nodes
      /\ SubtreeOf(S, outer) \subseteq Nodes
    BY <1>1, <1>2, <1>3, SubtreeTyped
<1>8. /\ T \in [Nodes -> SUBSET Nodes]
      /\ T[y] = S[x]
      /\ T[x] = {x} \cup SubtreeOf(S, low) \cup SubtreeOf(S, inner)
      /\ \A n \in Nodes : n \notin {x, y} => T[n] = S[n]
    BY <1>1, <1>3, <1>7 DEF RotatedSubtrees
<1> HIDE DEF T
<1>9. \A n \in Pointers : n \notin {x, y} => SubtreeOf(T, n) = SubtreeOf(S, n)
    BY <1>8 DEF SubtreeOf, Pointers
<1>10. /\ SubtreeOf(T, low) = SubtreeOf(S, low)
       /\ SubtreeOf(T, inner) = SubtreeOf(S, inner)
       /\ SubtreeOf(T, outer) = SubtreeOf(S, outer)
       /\ SubtreeOf(T, x) = T[x] /\ SubtreeOf(T, y) = T[y] /\ SubtreeOf(S, x) = S[x]
    <2>1. low \in Pointers /\ inner \in Pointers /\ outer \in Pointers
        BY <1>1, <1>2, <1>3
    <2>2. QED
        BY <1>1, <1>3, <1>6, <1>9, <2>1 DEF SubtreeOf
<1>11. p = Null <=> x = t.root
    BY RootHasNoParent
<1>12. SubtreeOf(T, r.root) = M
    <2>1. CASE p = Null
        BY <1>5, <1>8, <1>10, <1>11, <2>1 DEF IsTree, Ordered, SubtreeOf
    <2>2. CASE p # Null
        <3>1. t.root \notin {x, y} /\ t.root \in Pointers
            BY <1>1, <1>3, <1>11, <2>2, RootHasNoParent, TreeFields
        <3>2. QED
            BY <1>5, <1>9, <2>2, <3>1 DEF IsTree, Ordered
    <2>3. QED
        BY <2>1, <2>2
\* Elsewhere the children have the subtrees they had.
<1>13. ASSUME NEW n \in M, n \notin {x, y}, NEW d \in Sides
       PROVE  SubtreeOf(T, r.child[d][n]) = SubtreeOf(S, t.child[d][n])
    <2>1. CASE n = p /\ d = SideOf(t, n, x)
        <3>1. x # t.root
            BY <1>3, <1>11, <2>1
        <3>2. t.child[d][n] = x
            BY <2>1, <3>1, ParentSide
        <3>3. r.child[d][n] = y
            BY <1>3, <1>5, <1>13, <2>1
        <3>4. QED
            BY <1>8, <1>10, <3>2, <3>3
    <2>2. CASE ~(n = p /\ d = SideOf(t, n, x))
        <3>1. r.child[d][n] = t.child[d][n]
            BY <1>3, <1>5, <1>13, <2>2
        <3>2. t.child[d][n] # y
            BY <1>1, <1>3, <1>13, ChildSubtree
        <3>3. t.child[d][n] # x
            <4>1. SUFFICES ASSUME t.child[d][n] = x PROVE FALSE
                OBVIOUS
            <4>2. p = n
                BY <1>1, <1>3, <4>1, ChildSubtree
            <4>3. SideOf(t, n, x) = d
                BY <1>1, <1>3, <4>1, ChildrenDiffer
            <4>4. QED
                BY <2>2, <4>2, <4>3
        <3>4. QED
            BY <1>3, <1>9, <3>1, <3>2, <3>3
    <2>3. QED
        BY <2>1, <2>2
<1>14. /\ r.child[opp][x] = inner /\ r.child[side][x] = low
       /\ r.child[side][y] = x /\ r.child[opp][y] = outer
    BY <1>1, <1>2, <1>5
<1>15. ASSUME NEW n \in M
       PROVE  T[n] = {n} \cup SubtreeOf(T, r.child[side][n]) \cup SubtreeOf(T, r.child[opp][n])
    <2>1. CASE n = x
        BY <1>8, <1>10, <1>14, <2>1
    <2>2. CASE n = y
        <3> DEFINE A == SubtreeOf(S, low)
                   B == SubtreeOf(S, inner)
                   C == SubtreeOf(S, outer)
        <3>1. T[n] = {x} \cup A \cup ({y} \cup B \cup C)
            BY <1>4, <1>8, <2>2
        <3>2. /\ SubtreeOf(T, r.child[side][n]) = {x} \cup A \cup B
              /\ SubtreeOf(T, r.child[opp][n]) = C
            BY <1>8, <1>10, <1>14, <2>2
        <3> HIDE DEF A, B, C
        <3>3. QED
            BY <2>2, <3>1, <3>2
    <2>3. CASE n \notin {x, y}
        BY <1>2, <1>3, <1>8, <1>13, <2>3, SubtreeSplit
    <2>4. QED
        BY <2>1, <2>2, <2>3
<1>16. \A n \in M : T[n] = {n} \cup SubtreeOf(T, r.child["left"][n])
                               \cup SubtreeOf(T, r.child["right"][n])
    BY <1>15 DEF Sides, Opposite
<1>17. \A n \in M, d \in Sides :
           \A m \in SubtreeOf(S, t.child[d][n]) : OnSide(key, d, m, n)
    BY DEF IsTree, Ordered
<1>18. ASSUME NEW n \in M, NEW d \in Sides, NEW m \in SubtreeOf(T, r.child[d][n])
       PROVE  OnSide(key, d, m, n)
    <2>1. CASE n = x /\ d = side
        BY <1>10, <1>14, <1>17, <1>18, <2>1
    <2>2. CASE n = x /\ d = opp
        BY <1>2, <1>4, <1>10, <1>14, <1>17, <1>18, <2>2, SMTT(30)
    <2>3. CASE n = y /\ d = opp
        BY <1>10, <1>14, <1>17, <1>18, <2>3
    <2>4. CASE n = y /\ d = side
        <3>1. OnSide(key, opp, y, x)
            BY <1>2, <1>4, <1>17
        <3>2. OnSide(key, side, x, y)
            BY <1>1, <1>2, <3>1, OnSideOpposite
        <3>3. m \in T[x]
            BY <1>10, <1>14, <1>18, <2>4
        <3>4. CASE m = x
            BY <2>4, <3>2, <3>4
        <3>5. CASE m \in SubtreeOf(S, inner)
            BY <1>1, <1>17, <2>4, <3>5
        <3>6. CASE m \in SubtreeOf(S, low)
            <4>1. OnSide(key, side, m, x) /\ m \in Nodes
                BY <1>7, <1>17, <3>6
            <4>2. OnSide(key, side, m, y)
                BY <1>1, <1>3, <3>2, <4>1, OnSideTransitive
            <4>3. QED
                BY <2>4, <4>2
        <3>7. QED
            BY <1>8, <3>3, <3>4, <3>5, <3>6
    <2>5. CASE n \notin {x, y}
        BY <1>13, <1>17, <1>18, <2>5
    <2>6. QED
        BY <1>2, <2>1, <2>2, <2>3, <2>4, <2>5
<1>19. Ordered(r, M, key, T)
    BY <1>8, <1>12, <1>16, <1>18 DEF Ordered
<1>20. QED
    BY <1>19 DEF T

\* A rotation turns a search tree into a search tree of the same entities.
LEMMA RotateTree ==
    ASSUME NEW t, NEW M, NEW key, NEW S, IsTree(t, M, key, S),
           NEW side \in Sides, NEW x \in M, NEW y, y = t.child[Opposite(side)][x], y # Null
    PROVE  IsTree(Rotate(t, x, side), M, key, RotatedSubtrees(t, S, x, side, y))
<1>1. Rotate(t, x, side) \in Trees
    BY RotateSite DEF Rotated
<1>2. QED
    BY <1>1, RotateLinked, RotateOrdered DEF IsTree

\* The children after a rotation, at x and y and elsewhere
LEMMA RotateChildren ==
    ASSUME NEW t, NEW M, NEW key, NEW S, IsTree(t, M, key, S),
           NEW side \in Sides, NEW x \in M, NEW y, y = t.child[Opposite(side)][x], y # Null
    PROVE  /\ Rotate(t, x, side).child[Opposite(side)][x] = t.child[side][y]
           /\ Rotate(t, x, side).child[side][x] = t.child[side][x]
           /\ Rotate(t, x, side).child[side][y] = x
           /\ Rotate(t, x, side).child[Opposite(side)][y] = t.child[Opposite(side)][y]
           /\ \A n \in M \ {x, y}, d \in Sides :
                 \/ /\ Rotate(t, x, side).child[d][n] = t.child[d][n]
                    /\ t.child[d][n] \notin {x, y}
                 \/ /\ Rotate(t, x, side).child[d][n] = y
                    /\ t.child[d][n] = x
<1> DEFINE r == Rotate(t, x, side)
           opp == Opposite(side)
           p == t.parent[x]
<1>1. /\ x \in Nodes /\ y \in Nodes /\ y \in M /\ x # y /\ t.parent[y] = x
      /\ p \notin {x, y} /\ Rotated(t, x, side, y, r)
    BY RotateSite
<1>2. opp \in Sides /\ opp # side
    BY SidesAre
<1>3. \A d \in Sides, n \in Nodes : r.child[d][n] =
          IF n = x /\ d = opp THEN t.child[side][y] ELSE IF n = y /\ d = side THEN x
          ELSE IF n = p /\ d = SideOf(t, n, x) THEN y ELSE t.child[d][n]
    BY <1>1 DEF Rotated
<1>4. M \subseteq Nodes /\ Null \notin Nodes
    BY NullAssumption DEF IsTree, Linked
<1>5. /\ r.child[opp][x] = t.child[side][y] /\ r.child[side][x] = t.child[side][x]
      /\ r.child[side][y] = x /\ r.child[opp][y] = t.child[opp][y]
    BY <1>1, <1>2, <1>3
<1>6. ASSUME NEW n \in M \ {x, y}, NEW d \in Sides
      PROVE  \/ r.child[d][n] = t.child[d][n] /\ t.child[d][n] \notin {x, y}
             \/ r.child[d][n] = y /\ t.child[d][n] = x
    <2>1. CASE n = p /\ d = SideOf(t, n, x)
        <3>1. x # t.root
            BY <1>4, <2>1, RootHasNoParent
        <3>2. t.child[d][n] = x
            BY <2>1, <3>1, ParentSide
        <3>3. QED
            BY <1>3, <1>4, <1>6, <2>1, <3>2
    <2>2. CASE ~(n = p /\ d = SideOf(t, n, x))
        <3>1. r.child[d][n] = t.child[d][n]
            BY <1>3, <1>4, <1>6, <2>2
        <3>2. t.child[d][n] # y
            BY <1>1, <1>4, <1>6, ChildSubtree
        <3>3. t.child[d][n] # x
            <4>1. SUFFICES ASSUME t.child[d][n] = x PROVE FALSE
                OBVIOUS
            <4>2. p = n
                BY <1>1, <1>4, <4>1, ChildSubtree
            <4>3. SideOf(t, n, x) = d
                BY <1>1, <1>4, <4>1, ChildrenDiffer
            <4>4. QED
                BY <2>2, <4>2, <4>3
        <3>4. QED
            BY <3>1, <3>2, <3>3
    <2>3. QED
        BY <2>1, <2>2
<1>7. QED
    BY <1>5, <1>6

\* r and t have the same links outside M, and the same length.
SameOutside(t, M, r) ==
    /\ r.len = t.len
    /\ \A n \in Nodes \ M :
          /\ r.parent[n] = t.parent[n]
          /\ r.color[n] = t.color[n]
          /\ \A d \in Sides : r.child[d][n] = t.child[d][n]

LEMMA SameOutsideTransitive ==
    ASSUME NEW t, NEW M, NEW s, NEW r, SameOutside(t, M, s), SameOutside(s, M, r)
    PROVE  SameOutside(t, M, r)
BY DEF SameOutside

LEMMA RotateOutside ==
    ASSUME NEW t, NEW M, NEW key, NEW S, IsTree(t, M, key, S),
           NEW side \in Sides, NEW x \in M, NEW y, y = t.child[Opposite(side)][x], y # Null
    PROVE  SameOutside(t, M, Rotate(t, x, side))
<1>1. /\ y \in M /\ Rotated(t, x, side, y, Rotate(t, x, side))
      /\ Null \notin Nodes /\ M \subseteq Nodes
    BY RotateSite, NullAssumption DEF IsTree, Linked
<1>2. t.child[side][y] # Null => t.child[side][y] \in M
    BY <1>1 DEF IsTree, Linked
<1>3. t.parent[x] # Null => t.parent[x] \in M
    BY RootHasNoParent DEF IsTree, Linked
<1>4. QED
    BY <1>1, <1>2, <1>3 DEF SameOutside, Rotated

\* Paint changes no link.
LEMMA PaintTree ==
    ASSUME NEW t, NEW M, NEW key, NEW S, IsTree(t, M, key, S),
           NEW n \in Pointers, NEW c \in Colors
    PROVE  /\ IsTree(Paint(t, n, c), M, key, S)
           /\ Painted(t, n, c, Paint(t, n, c))
           /\ n \in M \cup {Null} => SameOutside(t, M, Paint(t, n, c))
<1> DEFINE r == Paint(t, n, c)
<1>1. Painted(t, n, c, r)
    BY PaintEffect DEF IsTree
<1> HIDE DEF r
<1>2. r \in Trees /\ r.root = t.root /\ r.parent = t.parent /\ r.child = t.child
    BY <1>1 DEF Painted
<1>3. Linked(r, M)
    BY <1>2 DEF IsTree, Linked
<1>4. Ordered(r, M, key, S)
    BY <1>2 DEF IsTree, Ordered
<1>5. n \in M \cup {Null} => SameOutside(t, M, r)
    BY <1>1, NullAssumption DEF Painted, SameOutside
<1>6. QED
    BY <1>1, <1>2, <1>3, <1>4, <1>5 DEF IsTree, r

\* The subtrees of a tree are determined by its links.
LEMMA SubtreesUnique ==
    ASSUME NEW t, NEW M, NEW key, NEW S, IsTree(t, M, key, S), NEW T, IsTree(t, M, key, T)
    PROVE  \A n \in M : S[n] = T[n]
<1> DEFINE C == {n \in M : S[n] = T[n]}
<1>1. ASSUME NEW n \in M, \A d \in Sides : t.child[d][n] \in C \cup {Null}
      PROVE  n \in C
    <2>1. \A d \in Sides : SubtreeOf(S, t.child[d][n]) = SubtreeOf(T, t.child[d][n])
        BY <1>1 DEF SubtreeOf
    <2>2. QED
        BY <2>1 DEF IsTree, Ordered, Sides
<1>2. M \subseteq C
    BY <1>1, UpwardInduction
<1>3. QED
    BY <1>2

-----------------------------------------------------------------------------
(* Colours.                                                                *)

BlackCount(t, n) == IF t.color[n] = "black" THEN 1 ELSE 0

\* H[n] is the number of black entities on every way down from n.
Heights(t, M, H) ==
    /\ H \in [Nodes -> Nat]
    /\ \A n \in M, d \in Sides : H[n] = HeightOf(H, t.child[d][n]) + BlackCount(t, n)

\* A red entity with a red child is a, or the child is c.
RedOnlyAt(t, M, a, c) ==
    \A n \in M, d \in Sides :
        t.color[n] = "red" /\ ColorOf(t, t.child[d][n]) = "red"
            => n = a \/ t.child[d][n] = c

\* The loop invariant of insert_fixup, with its subtrees and heights: z and its
\* parent may both be red, and z may be a red root.
Inserting(t, M, key, S, H, z) ==
    /\ IsTree(t, M, key, S)
    /\ Heights(t, M, H)
    /\ RedOnlyAt(t, M, Null, z)
    /\ z \in M
    /\ t.color[z] = "red"
    /\ ColorOf(t, t.root) = "red" => t.root = z

\* Two red entities in a row at z: p its parent, g the black entity above.
RedRed(t, M, z, p, g, side) ==
    /\ p \in M /\ g \in M /\ side \in Sides
    /\ z # p /\ p # g /\ z # g
    /\ t.parent[z] = p /\ t.parent[p] = g
    /\ z # t.root /\ p # t.root
    /\ t.child[side][g] = p
    /\ SideOf(t, g, p) = side
    /\ t.color[p] = "red" /\ t.color[g] = "black"

LEMMA RedRedSite ==
    ASSUME NEW t, NEW M, NEW key, NEW S, NEW H, NEW z, Inserting(t, M, key, S, H, z),
           ColorOf(t, t.parent[z]) # "black"
    PROVE  RedRed(t, M, z, t.parent[z], t.parent[t.parent[z]],
                  SideOf(t, t.parent[t.parent[z]], t.parent[z]))
<1> DEFINE p == t.parent[z]
           g == t.parent[p]
           side == SideOf(t, g, p)
<1>1. z \in M /\ M \subseteq Nodes /\ Null \notin Nodes /\ t \in Trees /\ IsTree(t, M, key, S)
    BY NullAssumption DEF Inserting, IsTree, Linked
<1>2. p # Null
    BY DEF ColorOf
<1>3. z # t.root
    BY <1>1, <1>2, RootHasNoParent
<1>4. p \in M /\ p # z
    BY <1>1, <1>3, ParentSide
<1>5. t.color[p] = "red"
    BY <1>1, <1>2, <1>4, TreeFields DEF ColorOf, Colors
<1>6. p # t.root
    BY <1>2, <1>4, <1>5 DEF Inserting, ColorOf
<1>7. g \in M /\ g # p /\ side \in Sides /\ t.child[side][g] = p /\ g \notin S[p] /\ z \in S[p]
    BY <1>1, <1>3, <1>4, <1>6, ParentSide
<1>8. t.color[g] = "black"
    <2>1. SUFFICES ASSUME t.color[g] = "red" PROVE FALSE
        BY <1>1, <1>7, TreeFields DEF Colors
    <2>2. ColorOf(t, t.child[side][g]) = "red"
        BY <1>2, <1>5, <1>7 DEF ColorOf
    <2>3. g = Null \/ p = z
        BY <1>7, <2>1, <2>2 DEF Inserting, RedOnlyAt
    <2>4. QED
        BY <1>1, <1>4, <1>7, <2>3
<1>9. z # g
    BY <1>7
<1>10. QED
    BY <1>3, <1>4, <1>5, <1>6, <1>7, <1>8, <1>9 DEF RedRed

\* The uncle is red: it turns black with p, and g turns red.
LEMMA RecolorStep ==
    ASSUME NEW t, NEW M, NEW key, NEW S, NEW H, NEW z, Inserting(t, M, key, S, H, z),
           NEW p, NEW g, NEW side, RedRed(t, M, z, p, g, side),
           NEW u, u = t.child[Opposite(side)][g], ColorOf(t, u) = "red",
           NEW r, r = Paint(Paint(Paint(t, p, "black"), u, "black"), g, "red")
    PROVE  /\ IsTree(r, M, key, S)
           /\ SameOutside(t, M, r)
           /\ \E K : Inserting(r, M, key, S, K, g)
<1>1. /\ IsTree(t, M, key, S) /\ M \subseteq Nodes /\ Null \notin Nodes /\ t \in Trees
      /\ p \in M /\ g \in M /\ side \in Sides /\ z \in M
      /\ Opposite(side) \in Sides /\ Opposite(side) # side
      /\ \A d \in Sides : d = side \/ d = Opposite(side)
    BY NullAssumption, SidesAre DEF Inserting, IsTree, Linked, RedRed
<1>2. u # Null
    BY DEF ColorOf
<1>3. u \in M /\ t.parent[u] = g /\ u # g
    BY <1>1, <1>2, ChildSubtree
<1>4. u # p
    BY <1>1, <1>2, ChildrenDiffer DEF RedRed
<1>5. t.color[u] = "red" /\ t.color[p] = "red" /\ t.color[g] = "black"
    BY <1>2 DEF ColorOf, RedRed
<1> DEFINE a == Paint(t, p, "black")
           b == Paint(a, u, "black")
<1>6. /\ p \in Pointers /\ u \in Pointers /\ g \in Pointers
      /\ "black" \in Colors /\ "red" \in Colors
    BY <1>1, <1>3 DEF Pointers, Colors
<1>7. IsTree(a, M, key, S) /\ Painted(t, p, "black", a) /\ SameOutside(t, M, a)
    BY <1>1, <1>6, PaintTree
<1> HIDE DEF a
<1>8. IsTree(b, M, key, S) /\ Painted(a, u, "black", b) /\ SameOutside(a, M, b)
    BY <1>3, <1>6, <1>7, PaintTree
<1>9. r = Paint(b, g, "red")
    BY DEF a
<1> HIDE DEF b
<1>10. IsTree(r, M, key, S) /\ Painted(b, g, "red", r) /\ SameOutside(b, M, r)
    BY <1>1, <1>6, <1>8, <1>9, PaintTree
<1>11. SameOutside(t, M, r)
    BY <1>7, <1>8, <1>10, SameOutsideTransitive
<1>12. /\ r.child = t.child /\ r.root = t.root /\ r.parent = t.parent
       /\ \A n \in Nodes : r.color[n] = IF n = g THEN "red"
                                        ELSE IF n \in {p, u} THEN "black" ELSE t.color[n]
    BY <1>7, <1>8, <1>10 DEF Painted
<1> DEFINE K == [n \in Nodes |-> IF n \in {p, u} THEN H[n] + 1 ELSE H[n]]
<1>13. Heights(t, M, H)
    BY DEF Inserting
<1>14. H \in [Nodes -> Nat] /\ K \in [Nodes -> Nat]
    BY <1>13 DEF Heights
<1>15. ASSUME NEW n \in M, NEW d \in Sides
       PROVE  K[n] = HeightOf(K, t.child[d][n]) + BlackCount(r, n)
    <2> DEFINE c == t.child[d][n]
    <2>1. H[n] = HeightOf(H, c) + BlackCount(t, n) /\ n \in Nodes
        BY <1>1, <1>13 DEF Heights
    <2>2. c \in Pointers /\ (c # Null => t.parent[c] = n)
        BY <1>1, <2>1, TreeFields, ChildSubtree
    <2>3. CASE n = g
        <3>1. c \in {p, u} /\ c \in Nodes
            BY <1>1, <1>3, <2>3 DEF RedRed
        <3>2. HeightOf(K, c) = HeightOf(H, c) + 1 /\ HeightOf(H, c) \in Nat
            BY <1>1, <1>14, <3>1 DEF HeightOf
        <3>3. BlackCount(t, n) = 1 /\ BlackCount(r, n) = 0 /\ K[n] = H[n]
            BY <1>3, <1>5, <1>12, <2>1, <2>3 DEF BlackCount, RedRed
        <3> HIDE DEF K
        <3>4. QED
            BY <2>1, <3>2, <3>3
    <2>4. CASE n # g
        <3>1. c \notin {p, u}
            BY <1>1, <1>3, <2>2, <2>4 DEF RedRed
        <3>2. HeightOf(K, c) = HeightOf(H, c) /\ HeightOf(H, c) \in Nat
            BY <1>14, <2>2, <3>1 DEF HeightOf, Pointers
        <3>3. CASE n \in {p, u}
            <4>1. BlackCount(t, n) = 0 /\ BlackCount(r, n) = 1 /\ K[n] = H[n] + 1
                BY <1>5, <1>12, <2>1, <2>4, <3>3 DEF BlackCount
            <4> HIDE DEF K
            <4>2. QED
                BY <2>1, <3>2, <4>1
        <3>4. CASE n \notin {p, u}
            <4>1. BlackCount(t, n) = BlackCount(r, n) /\ K[n] = H[n]
                BY <1>12, <2>1, <2>4, <3>4 DEF BlackCount
            <4> HIDE DEF K
            <4>2. QED
                BY <2>1, <3>2, <4>1
        <3>5. QED
            BY <3>3, <3>4
    <2>5. QED
        BY <2>3, <2>4
<1> HIDE DEF K
<1>16. Heights(r, M, K)
    BY <1>12, <1>14, <1>15 DEF Heights
<1>17. RedOnlyAt(r, M, Null, g)
    <2>1. SUFFICES ASSUME NEW n \in M, NEW d \in Sides,
                          r.color[n] = "red", ColorOf(r, r.child[d][n]) = "red",
                          r.child[d][n] # g
                   PROVE  FALSE
        BY DEF RedOnlyAt
    <2> DEFINE c == t.child[d][n]
    <2>2. c # Null /\ c = r.child[d][n] /\ r.color[c] = "red"
        BY <1>12, <2>1 DEF ColorOf
    <2>3. c \in M /\ t.parent[c] = n
        BY <1>1, <2>2, ChildSubtree
    <2>4. c \notin {p, u} /\ t.color[c] = "red"
        BY <1>1, <1>3, <1>12, <2>1, <2>2, <2>3 DEF RedRed
    <2>5. n # g
        BY <1>1, <2>4 DEF RedRed
    <2>6. n \notin {p, u} /\ t.color[n] = "red"
        BY <1>1, <1>12, <2>1, <2>5
    <2>7. n = Null \/ c = z
        BY <2>2, <2>4, <2>6 DEF Inserting, RedOnlyAt, ColorOf
    <2>8. QED
        BY <1>1, <2>3, <2>6, <2>7 DEF RedRed
<1>18. r.color[g] = "red"
    BY <1>1, <1>12
<1>19. ColorOf(r, r.root) = "red" => r.root = g
    <2>1. SUFFICES ASSUME ColorOf(r, t.root) = "red", t.root # g PROVE FALSE
        BY <1>12
    <2>2. t.root # Null
        BY <2>1 DEF ColorOf
    <2>3. t.root \in M
        BY <1>1, <2>2 DEF IsTree, Linked
    <2>4. r.color[t.root] = "red"
        BY <2>1, <2>2 DEF ColorOf
    <2>5. t.color[t.root] = "red"
        BY <1>1, <1>5, <1>12, <2>1, <2>3, <2>4
    <2>6. t.root = z
        BY <2>2, <2>5 DEF Inserting, ColorOf
    <2>7. QED
        BY <2>6 DEF RedRed
<1>20. Inserting(r, M, key, S, K, g)
    BY <1>1, <1>10, <1>16, <1>17, <1>18, <1>19 DEF Inserting
<1>21. QED
    BY <1>10, <1>11, <1>20

\* z hangs on the inside of p: a rotation brings it to the outside, where p
\* takes the place of z.
LEMMA InnerStep ==
    ASSUME NEW t, NEW M, NEW key, NEW S, NEW H, NEW z, Inserting(t, M, key, S, H, z),
           NEW p, NEW g, NEW side, RedRed(t, M, z, p, g, side),
           z = t.child[Opposite(side)][p],
           NEW r, r = Rotate(t, p, side)
    PROVE  /\ SameOutside(t, M, r)
           /\ \E T : Inserting(r, M, key, T, H, p)
           /\ RedRed(r, M, p, z, g, side)
           /\ r.child[side][z] = p
           /\ r.child[Opposite(side)][g] = t.child[Opposite(side)][g]
           /\ r.color = t.color
<1> DEFINE opp == Opposite(side)
           T == RotatedSubtrees(t, S, p, side, z)
<1>1. /\ IsTree(t, M, key, S) /\ M \subseteq Nodes /\ Null \notin Nodes /\ t \in Trees
      /\ p \in M /\ g \in M /\ side \in Sides /\ z \in M
      /\ opp \in Sides /\ opp # side
      /\ \A d \in Sides : d = side \/ d = opp
      /\ z # Null /\ p # Null /\ g # Null
    BY NullAssumption, SidesAre DEF Inserting, IsTree, Linked, RedRed
<1>2. IsTree(r, M, key, T) /\ SameOutside(t, M, r)
    BY <1>1, RotateTree, RotateOutside
<1>3. Rotated(t, p, side, z, r)
    BY <1>1, RotateSite
<1>4. /\ r.child[opp][p] = t.child[side][z] /\ r.child[side][p] = t.child[side][p]
      /\ r.child[side][z] = p /\ r.child[opp][z] = t.child[opp][z]
      /\ \A n \in M \ {p, z}, d \in Sides :
            \/ r.child[d][n] = t.child[d][n] /\ t.child[d][n] \notin {p, z}
            \/ r.child[d][n] = z /\ t.child[d][n] = p
    BY <1>1, RotateChildren
<1>5. /\ r.color = t.color
      /\ r.root = t.root
      /\ r.parent[p] = z /\ r.parent[z] = g
    BY <1>1, <1>3 DEF Rotated, RedRed
<1>6. t.color[p] = "red" /\ t.color[z] = "red" /\ t.color[g] = "black" /\ z # p /\ z # g /\ p # g
    BY DEF RedRed, Inserting
<1>7. /\ H \in [Nodes -> Nat]
      /\ \A n \in M, d \in Sides : H[n] = HeightOf(H, t.child[d][n]) + BlackCount(t, n)
      /\ \A n \in M, d \in Sides : HeightOf(H, t.child[d][n]) \in Nat
    <2>1. Heights(t, M, H)
        BY DEF Inserting
    <2>2. \A n \in Pointers : HeightOf(H, n) \in Nat
        BY <2>1 DEF Heights, HeightOf, Pointers
    <2>3. QED
        BY <1>1, <2>1, <2>2, TreeFields DEF Heights
<1>8. \A n \in M : BlackCount(r, n) = BlackCount(t, n)
    BY <1>5 DEF BlackCount
<1>9. BlackCount(t, p) = 0 /\ BlackCount(t, z) = 0
    BY <1>6 DEF BlackCount
<1>10. H[p] = H[z]
    <2>1. H[p] = HeightOf(H, z) + 0
        BY <1>1, <1>7, <1>9
    <2>2. HeightOf(H, z) = H[z] /\ H[z] \in Nat
        BY <1>1, <1>7 DEF HeightOf
    <2>3. QED
        BY <2>1, <2>2
<1>11. ASSUME NEW n \in M, NEW d \in Sides
       PROVE  H[n] = HeightOf(H, r.child[d][n]) + BlackCount(r, n)
    <2>1. CASE n = p /\ d = opp
        <3>1. H[z] = HeightOf(H, t.child[side][z]) + 0
            BY <1>1, <1>7, <1>9
        <3>2. QED
            BY <1>4, <1>8, <1>9, <1>10, <2>1, <3>1
    <2>2. CASE n = p /\ d = side
        BY <1>4, <1>7, <1>8, <2>2
    <2>3. CASE n = z /\ d = side
        <3>1. HeightOf(H, p) = H[p] /\ H[p] \in Nat
            BY <1>1, <1>7 DEF HeightOf
        <3>2. QED
            BY <1>4, <1>8, <1>9, <1>10, <2>3, <3>1
    <2>4. CASE n = z /\ d = opp
        BY <1>4, <1>7, <1>8, <2>4
    <2>5. CASE n \notin {p, z}
        <3>1. CASE r.child[d][n] = t.child[d][n]
            BY <1>7, <1>8, <3>1
        <3>2. CASE r.child[d][n] = z /\ t.child[d][n] = p
            <4>1. HeightOf(H, z) = HeightOf(H, p)
                BY <1>1, <1>10 DEF HeightOf
            <4>2. QED
                BY <1>7, <1>8, <3>2, <4>1
        <3>3. QED
            BY <1>4, <2>5, <3>1, <3>2
    <2>6. QED
        BY <1>1, <2>1, <2>2, <2>3, <2>4, <2>5
<1>12. Heights(r, M, H)
    BY <1>7, <1>11 DEF Heights
<1>13. \A n \in M, d \in Sides : t.color[n] = "red" /\ ColorOf(t, t.child[d][n]) = "red"
                                    => t.child[d][n] = z
    BY <1>1 DEF Inserting, RedOnlyAt
<1>14. RedOnlyAt(r, M, Null, p)
    <2>1. SUFFICES ASSUME NEW n \in M, NEW d \in Sides,
                          r.color[n] = "red", ColorOf(r, r.child[d][n]) = "red",
                          r.child[d][n] # p
                   PROVE  FALSE
        BY DEF RedOnlyAt
    <2>2. t.color[n] = "red" /\ ColorOf(t, r.child[d][n]) = "red" /\ r.child[d][n] # Null
        BY <1>5, <2>1 DEF ColorOf
    <2>3. CASE n = p /\ d = opp
        <3>1. t.child[side][z] = z
            BY <1>1, <1>4, <1>6, <1>13, <2>2, <2>3
        <3>2. QED
            BY <1>1, <3>1, ChildSubtree
    <2>4. CASE n = p /\ d = side
        <3>1. t.child[side][p] = z
            BY <1>1, <1>4, <1>13, <2>2, <2>4
        <3>2. QED
            BY <1>1, <3>1, ChildrenDiffer
    <2>5. CASE n = z /\ d = opp
        <3>1. t.child[opp][z] = z
            BY <1>1, <1>4, <1>6, <1>13, <2>2, <2>5
        <3>2. QED
            BY <1>1, <3>1, ChildSubtree
    <2>6. CASE n \notin {p, z}
        <3>1. CASE r.child[d][n] = t.child[d][n] /\ t.child[d][n] \notin {p, z}
            BY <1>13, <2>2, <3>1
        <3>2. CASE t.child[d][n] = p
            <4>1. n = g
                BY <1>1, <3>2, ChildSubtree DEF RedRed
            <4>2. QED
                BY <1>6, <2>2, <4>1
        <3>3. QED
            BY <1>4, <2>6, <3>1, <3>2
    <2>7. QED
        BY <1>1, <1>4, <2>1, <2>3, <2>4, <2>5, <2>6
<1>15. ColorOf(r, r.root) = "red" => r.root = p
    <2>1. SUFFICES ASSUME ColorOf(r, t.root) = "red" PROVE FALSE
        BY <1>5
    <2>2. ColorOf(t, t.root) = "red"
        BY <1>5, <2>1 DEF ColorOf
    <2>3. QED
        BY <2>2 DEF Inserting, RedRed
<1>16. Inserting(r, M, key, T, H, p)
    BY <1>1, <1>2, <1>5, <1>6, <1>12, <1>14, <1>15 DEF Inserting
<1>17. r.child[side][g] = z /\ r.child[opp][g] = t.child[opp][g]
    <2>1. t.child[side][g] = p /\ g \in M \ {p, z}
        BY <1>1, <1>6 DEF RedRed
    <2>2. t.child[opp][g] # p
        BY <1>1, <2>1, ChildrenDiffer
    <2>3. QED
        BY <1>1, <1>4, <2>1, <2>2
<1>18. SideOf(r, g, z) = side
    BY <1>1, <1>2, <1>17, ChildrenDiffer
<1>19. RedRed(r, M, p, z, g, side)
    <2>1. z # t.root /\ p # t.root
        BY DEF RedRed
    <2>2. QED
        BY <1>1, <1>5, <1>6, <1>17, <1>18, <2>1 DEF RedRed
<1>20. QED
    BY <1>2, <1>4, <1>5, <1>16, <1>17, <1>19

\* z hangs on the outside of p and the uncle is black: p turns black, g red,
\* and a rotation brings p up.  That ends the loop.
LEMMA OuterStep ==
    ASSUME NEW t, NEW M, NEW key, NEW S, NEW H, NEW z, Inserting(t, M, key, S, H, z),
           NEW p, NEW g, NEW side, RedRed(t, M, z, p, g, side),
           z = t.child[side][p],
           ColorOf(t, t.child[Opposite(side)][g]) = "black",
           NEW r, r = Rotate(Paint(Paint(t, p, "black"), g, "red"), g, Opposite(side))
    PROVE  /\ SameOutside(t, M, r)
           /\ \E T, K : Inserting(r, M, key, T, K, z)
           /\ r.parent[z] = p
           /\ r.color[p] = "black"
<1> DEFINE opp == Opposite(side)
           u == t.child[opp][g]
           a == Paint(t, p, "black")
           b == Paint(a, g, "red")
           T == RotatedSubtrees(b, S, g, opp, p)
<1>1. /\ IsTree(t, M, key, S) /\ M \subseteq Nodes /\ Null \notin Nodes /\ t \in Trees
      /\ p \in M /\ g \in M /\ side \in Sides /\ z \in M
      /\ opp \in Sides /\ opp # side /\ Opposite(opp) = side
      /\ \A d \in Sides : d = side \/ d = opp
      /\ z # Null /\ p # Null /\ g # Null
    BY NullAssumption, SidesAre DEF Inserting, IsTree, Linked, RedRed
<1>2. p \in Pointers /\ g \in Pointers /\ "black" \in Colors /\ "red" \in Colors
    BY <1>1 DEF Pointers, Colors
<1>3. IsTree(a, M, key, S) /\ Painted(t, p, "black", a) /\ SameOutside(t, M, a)
    BY <1>1, <1>2, PaintTree
<1> HIDE DEF a
<1>4. IsTree(b, M, key, S) /\ Painted(a, g, "red", b) /\ SameOutside(a, M, b)
    BY <1>1, <1>2, <1>3, PaintTree
<1>5. r = Rotate(b, g, opp)
    BY DEF a
<1> HIDE DEF b
<1>6. /\ b.child = t.child /\ b.root = t.root /\ b.parent = t.parent
      /\ \A n \in Nodes : b.color[n] = IF n = g THEN "red"
                                       ELSE IF n = p THEN "black" ELSE t.color[n]
    BY <1>3, <1>4 DEF Painted
<1>7. /\ t.color[p] = "red" /\ t.color[z] = "red" /\ t.color[g] = "black"
      /\ z # p /\ z # g /\ p # g /\ z # t.root /\ p # t.root
      /\ t.child[side][g] = p /\ t.parent[z] = p /\ t.parent[p] = g
    BY DEF RedRed, Inserting
<1>8. p = b.child[Opposite(opp)][g]
    BY <1>1, <1>6, <1>7
<1>9. IsTree(r, M, key, T) /\ SameOutside(b, M, r) /\ Rotated(b, g, opp, p, r)
    BY <1>1, <1>4, <1>5, <1>8, RotateTree, RotateOutside, RotateSite, SMTT(30)
<1>10. SameOutside(t, M, r)
    BY <1>3, <1>4, <1>9, SameOutsideTransitive
<1>11. /\ r.child[side][g] = t.child[opp][p] /\ r.child[opp][g] = u
       /\ r.child[opp][p] = g /\ r.child[side][p] = z
       /\ \A n \in M \ {g, p}, d \in Sides :
             \/ r.child[d][n] = t.child[d][n] /\ t.child[d][n] \notin {g, p}
             \/ r.child[d][n] = p /\ t.child[d][n] = g
    BY <1>1, <1>4, <1>5, <1>6, <1>8, RotateChildren, SMTT(30)
<1>12. z # t.child[opp][p]
    BY <1>1, ChildrenDiffer
<1>13. /\ r.parent[z] = p /\ r.color = b.color
       /\ r.root = IF t.parent[g] = Null THEN p ELSE t.root
    BY <1>1, <1>6, <1>7, <1>9, <1>12 DEF Rotated
<1>14. /\ H \in [Nodes -> Nat]
       /\ \A n \in M, d \in Sides : H[n] = HeightOf(H, t.child[d][n]) + BlackCount(t, n)
       /\ \A n \in M, d \in Sides : HeightOf(H, t.child[d][n]) \in Nat
    <2>1. Heights(t, M, H)
        BY DEF Inserting
    <2>2. \A n \in Pointers : HeightOf(H, n) \in Nat
        BY <2>1 DEF Heights, HeightOf, Pointers
    <2>3. QED
        BY <1>1, <2>1, <2>2, TreeFields DEF Heights
<1> DEFINE h == HeightOf(H, u)
           K == [n \in Nodes |-> IF n = g THEN h ELSE IF n = p THEN h + 1 ELSE H[n]]
<1>15. h \in Nat /\ H[g] = h + 1 /\ H[p] = h /\ H[z] = h /\ HeightOf(H, t.child[opp][p]) = h
    <2>1. BlackCount(t, g) = 1 /\ BlackCount(t, p) = 0 /\ BlackCount(t, z) = 0
        BY <1>7 DEF BlackCount
    <2>2. h \in Nat /\ H[g] = h + 1
        BY <1>1, <1>14, <2>1
    <2>3. H[g] = HeightOf(H, p) + 1 /\ HeightOf(H, p) = H[p] /\ H[p] \in Nat
        BY <1>1, <1>7, <1>14, <2>1 DEF HeightOf
    <2>4. H[p] = HeightOf(H, z) + 0 /\ HeightOf(H, z) = H[z] /\ H[z] \in Nat
        BY <1>1, <1>14, <2>1 DEF HeightOf
    <2>5. H[p] = HeightOf(H, t.child[opp][p]) + 0 /\ HeightOf(H, t.child[opp][p]) \in Nat
        BY <1>1, <1>14, <2>1
    <2> HIDE DEF h
    <2>6. QED
        BY <2>2, <2>3, <2>4, <2>5
<1>16. K \in [Nodes -> Nat]
    BY <1>14, <1>15
<1>17. \A c \in Pointers \ {g, p} : HeightOf(K, c) = HeightOf(H, c)
    BY DEF HeightOf, Pointers
<1>18. u \notin {g, p} /\ t.child[opp][p] \notin {g, p}
    <2>1. u # p /\ u # g
        BY <1>1, <1>7, ChildrenDiffer, ChildSubtree
    <2>2. t.child[opp][p] # p
        BY <1>1, ChildSubtree
    <2>3. t.child[opp][p] # g
        BY <1>1, <1>7, ParentSide, ChildSubtree
    <2>4. QED
        BY <2>1, <2>2, <2>3
<1>19. \A n \in M, d \in Sides : t.child[d][n] \in Pointers
    BY <1>1, TreeFields
<1>20. BlackCount(r, g) = 0 /\ BlackCount(r, p) = 1
    BY <1>1, <1>6, <1>7, <1>13 DEF BlackCount
<1>21. HeightOf(K, g) = h /\ HeightOf(K, z) = h /\ HeightOf(K, p) = h + 1
    BY <1>1, <1>7, <1>15 DEF HeightOf
<1>22. ASSUME NEW n \in M, NEW d \in Sides
       PROVE  K[n] = HeightOf(K, r.child[d][n]) + BlackCount(r, n)
    <2>1. CASE n = g
        <3>1. K[n] = h
            BY <1>1, <2>1
        <3>2. HeightOf(K, r.child[d][n]) = h
            BY <1>1, <1>11, <1>15, <1>17, <1>18, <1>19, <2>1
        <3>3. QED
            BY <1>15, <1>20, <2>1, <3>1, <3>2
    <2>2. CASE n = p
        <3>1. K[n] = h + 1
            BY <1>1, <1>7, <2>2
        <3>2. HeightOf(K, r.child[d][n]) = h
            BY <1>1, <1>11, <1>21, <2>2
        <3>3. QED
            BY <1>15, <1>20, <2>2, <3>1, <3>2
    <2>3. CASE n \notin {g, p}
        <3>1. K[n] = H[n] /\ BlackCount(r, n) = BlackCount(t, n)
            BY <1>1, <1>6, <1>13, <2>3 DEF BlackCount
        <3>2. CASE r.child[d][n] = t.child[d][n] /\ t.child[d][n] \notin {g, p}
            BY <1>14, <1>17, <1>19, <3>1, <3>2
        <3>3. CASE r.child[d][n] = p /\ t.child[d][n] = g
            <4>1. HeightOf(H, g) = h + 1
                BY <1>1, <1>15 DEF HeightOf
            <4>2. QED
                BY <1>14, <1>21, <3>1, <3>3, <4>1
        <3>4. QED
            BY <1>11, <2>3, <3>2, <3>3
    <2>4. QED
        BY <2>1, <2>2, <2>3
<1>23. Heights(r, M, K)
    BY <1>16, <1>22 DEF Heights
<1> HIDE DEF K
<1>24. \A n \in M, d \in Sides : t.color[n] = "red" /\ ColorOf(t, t.child[d][n]) = "red"
                                    => t.child[d][n] = z
    BY <1>1 DEF Inserting, RedOnlyAt
<1>25. \A c \in Pointers : c \notin {g, p} => ColorOf(r, c) = ColorOf(t, c)
    BY <1>6, <1>13 DEF ColorOf, Pointers
<1>26. RedOnlyAt(r, M, Null, z)
    <2>1. SUFFICES ASSUME NEW n \in M, NEW d \in Sides,
                          r.color[n] = "red", ColorOf(r, r.child[d][n]) = "red"
                   PROVE  r.child[d][n] = z
        BY DEF RedOnlyAt
    <2>2. n # p
        BY <1>1, <1>6, <1>7, <1>13, <2>1
    <2>3. CASE n = g
        <3>1. CASE d = opp
            <4>1. ColorOf(r, u) = ColorOf(t, u)
                BY <1>1, <1>18, <1>19, <1>25
            <4>2. QED
                BY <1>11, <2>1, <2>3, <3>1, <4>1
        <3>2. CASE d = side
            <4>1. ColorOf(t, t.child[opp][p]) = "red"
                BY <1>1, <1>11, <1>18, <1>19, <1>25, <2>1, <2>3, <3>2
            <4>2. QED
                BY <1>1, <1>7, <1>12, <1>24, <4>1
        <3>3. QED
            BY <1>1, <3>1, <3>2
    <2>4. CASE n # g
        <3>1. t.color[n] = "red"
            BY <1>1, <1>6, <1>13, <2>1, <2>2, <2>4
        <3>2. CASE r.child[d][n] = t.child[d][n] /\ t.child[d][n] \notin {g, p}
            BY <1>19, <1>24, <1>25, <2>1, <3>1, <3>2
        <3>3. CASE r.child[d][n] = p
            BY <1>1, <1>6, <1>7, <1>13, <2>1, <3>3 DEF ColorOf
        <3>4. QED
            BY <1>11, <2>2, <2>4, <3>2, <3>3
    <2>5. QED
        BY <2>3, <2>4
<1>27. r.color[z] = "red" /\ r.color[p] = "black"
    BY <1>1, <1>6, <1>7, <1>13
<1>28. ColorOf(r, r.root) = "red" => r.root = z
    <2>1. CASE t.parent[g] = Null
        BY <1>1, <1>13, <1>27, <2>1 DEF ColorOf
    <2>2. CASE t.parent[g] # Null
        <3>1. t.root # g /\ t.root \in Pointers
            BY <1>1, <2>2, RootHasNoParent, TreeFields
        <3>2. QED
            BY <1>7, <1>13, <1>25, <2>2, <3>1 DEF Inserting
    <2>3. QED
        BY <2>1, <2>2
<1>29. Inserting(r, M, key, T, K, z)
    BY <1>1, <1>9, <1>23, <1>26, <1>27, <1>28 DEF Inserting
<1>30. QED
    BY <1>10, <1>13, <1>27, <1>29

\* One iteration of insert_fixup keeps the loop invariant, and either ends the
\* loop or climbs to an entity with a larger subtree.
LEMMA InsertFixupStepEffect ==
    ASSUME NEW t, NEW M, NEW key, NEW S, NEW H, NEW z, Inserting(t, M, key, S, H, z),
           ColorOf(t, t.parent[z]) # "black",
           NEW s, s = InsertFixupStep(t, z)
    PROVE  /\ s = [tree |-> s.tree, z |-> s.z]
           /\ SameOutside(t, M, s.tree)
           /\ \E T, K : Inserting(s.tree, M, key, T, K, s.z)
           /\ \/ /\ IsTree(s.tree, M, key, S)
                 /\ Cardinality(S[z]) < Cardinality(S[s.z])
              \/ ColorOf(s.tree, s.tree.parent[s.z]) = "black"
<1> DEFINE p     == t.parent[z]
           g     == t.parent[p]
           side  == SideOf(t, g, p)
           opp   == Opposite(side)
           uncle == t.child[opp][g]
           inner == z = t.child[opp][p]
           low   == IF inner THEN p ELSE z
           u     == IF inner THEN Rotate(t, p, side) ELSE t
           mid   == u.parent[low]
<1>1. RedRed(t, M, z, p, g, side)
    BY RedRedSite
<1>2. s = IF ColorOf(t, uncle) = "red"
            THEN [tree |-> Paint(Paint(Paint(t, p, "black"), uncle, "black"), g, "red"),
                  z    |-> g]
            ELSE [tree |-> Rotate(Paint(Paint(u, mid, "black"), g, "red"), g, opp),
                  z    |-> low]
    BY DEF InsertFixupStep
<1>3. /\ IsTree(t, M, key, S) /\ M \subseteq Nodes /\ Null \notin Nodes /\ t \in Trees
      /\ p \in M /\ g \in M /\ side \in Sides /\ z \in M /\ z # t.root
      /\ opp \in Sides /\ z # Null /\ p # Null
      /\ \A d \in Sides : d = side \/ d = opp
    BY <1>1, NullAssumption, SidesAre DEF Inserting, IsTree, Linked, RedRed
<1> HIDE DEF p, g, side, opp, uncle, inner, low, u, mid
<1>4. CASE ColorOf(t, uncle) = "red"
    <2>1. s.tree = Paint(Paint(Paint(t, p, "black"), uncle, "black"), g, "red") /\ s.z = g
          /\ s = [tree |-> s.tree, z |-> s.z]
        BY <1>2, <1>4
    <2>2. /\ IsTree(s.tree, M, key, S) /\ SameOutside(t, M, s.tree)
          /\ \E K : Inserting(s.tree, M, key, S, K, g)
        BY <1>1, <1>4, <2>1, RecolorStep DEF uncle, opp
    <2>3. Cardinality(S[z]) < Cardinality(S[g])
        <3>1. /\ t.child[SideOf(t, p, z)][p] = z /\ SideOf(t, p, z) \in Sides
              /\ t.child[side][g] = p
            BY <1>1, <1>3, ParentSide DEF RedRed
        <3>2. /\ Cardinality(S[z]) < Cardinality(S[p])
              /\ Cardinality(S[z]) \in Nat /\ Cardinality(S[p]) \in Nat
            BY <1>3, <3>1, ChildSubtree
        <3>3. Cardinality(S[p]) < Cardinality(S[g]) /\ Cardinality(S[g]) \in Nat
            BY <1>3, <3>1, ChildSubtree
        <3>4. QED
            BY <3>2, <3>3
    <2>4. QED
        BY <2>1, <2>2, <2>3
<1>5. CASE ColorOf(t, uncle) # "red"
    <2>1. /\ s.tree = Rotate(Paint(Paint(u, mid, "black"), g, "red"), g, opp) /\ s.z = low
          /\ s = [tree |-> s.tree, z |-> s.z]
        BY <1>2, <1>5
    <2>2. ColorOf(t, uncle) = "black"
        <3>1. uncle \in Pointers
            BY <1>3, TreeFields DEF uncle
        <3>2. QED
            BY <1>3, <1>5, <3>1, TreeFields DEF ColorOf, Colors
    <2>3. /\ SameOutside(t, M, u)
          /\ \E T : Inserting(u, M, key, T, H, low)
          /\ RedRed(u, M, low, mid, g, side)
          /\ u.child[side][mid] = low
          /\ u.child[opp][g] = uncle
          /\ u.color = t.color
        <3>1. CASE inner
            <4>1. u = Rotate(t, p, side) /\ low = p /\ z = t.child[opp][p]
                BY <3>1 DEF u, low, inner
            <4>2. /\ SameOutside(t, M, u)
                  /\ \E T : Inserting(u, M, key, T, H, p)
                  /\ RedRed(u, M, p, z, g, side)
                  /\ u.child[side][z] = p
                  /\ u.child[opp][g] = t.child[opp][g]
                  /\ u.color = t.color
                BY <1>1, <4>1, InnerStep DEF opp
            <4>3. mid = z
                BY <4>1, <4>2 DEF mid, RedRed
            <4>4. QED
                BY <4>1, <4>2, <4>3 DEF uncle
        <3>2. CASE ~inner
            <4>1. u = t /\ low = z /\ mid = p
                BY <3>2 DEF u, low, mid, p
            <4>2. t.child[SideOf(t, p, z)][p] = z /\ SideOf(t, p, z) \in Sides
                BY <1>3, ParentSide DEF p
            <4>3. t.child[side][p] = z
                BY <1>3, <3>2, <4>2 DEF inner
            <4>4. SameOutside(t, M, t)
                BY DEF SameOutside
            <4>5. QED
                BY <1>1, <4>1, <4>3, <4>4 DEF uncle
        <3>3. QED
            BY <3>1, <3>2
    <2>4. PICK T : Inserting(u, M, key, T, H, low)
        BY <2>3
    <2>5. ColorOf(u, u.child[opp][g]) = "black"
        BY <2>2, <2>3 DEF ColorOf
    <2>6. /\ SameOutside(u, M, s.tree)
          /\ \E V, K : Inserting(s.tree, M, key, V, K, low)
          /\ s.tree.parent[low] = mid
          /\ s.tree.color[mid] = "black"
        BY <2>1, <2>3, <2>4, <2>5, OuterStep DEF opp
    <2>7. SameOutside(t, M, s.tree)
        BY <2>3, <2>6, SameOutsideTransitive
    <2>8. ColorOf(s.tree, s.tree.parent[s.z]) = "black"
        BY <2>1, <2>6 DEF ColorOf
    <2>9. QED
        BY <2>1, <2>6, <2>7, <2>8
<1>6. QED
    BY <1>4, <1>5

\* The subtrees of a tree
SubtreesOf(t, M, key) == CHOOSE S : IsTree(t, M, key, S)

InsertStates(t, M, key) ==
    {s \in [tree : Trees, z : Nodes] :
        /\ SameOutside(t, M, s.tree)
        /\ \E S, H : Inserting(s.tree, M, key, S, H, s.z)}

\* What is left to climb
InsertMeasure(s, M, key) ==
    IF ColorOf(s.tree, s.tree.parent[s.z]) = "black"
      THEN 0 ELSE Cardinality(Nodes) + 1 - Cardinality(SubtreesOf(s.tree, M, key)[s.z])

LEMMA SubtreeSize ==
    ASSUME NEW t, NEW M, NEW key, NEW S, IsTree(t, M, key, S), NEW n \in M
    PROVE  /\ Cardinality(SubtreesOf(t, M, key)[n]) = Cardinality(S[n])
           /\ Cardinality(S[n]) \in 1 .. Cardinality(Nodes)
           /\ Cardinality(Nodes) \in Nat
<1>1. IsTree(t, M, key, SubtreesOf(t, M, key))
    BY DEF SubtreesOf
<1>2. SubtreesOf(t, M, key)[n] = S[n]
    BY <1>1, SubtreesUnique
<1>3. S[n] \subseteq Nodes /\ n \in S[n]
    BY SubtreeWithin DEF IsTree, Linked
<1>4. IsFiniteSet(S[n]) /\ Cardinality(S[n]) <= Cardinality(Nodes)
    BY <1>3, FiniteAssumption, FS_Subset
<1>5. Cardinality(S[n]) \in Nat /\ Cardinality(Nodes) \in Nat /\ Cardinality(S[n]) # 0
    BY <1>3, <1>4, FiniteAssumption, FS_CardinalityType, FS_EmptySet
<1>6. QED
    BY <1>2, <1>4, <1>5

\* insert_fixup ends, with a tree in which no red entity has a red child but
\* for the root, which it paints black.
LEMMA InsertFixupEffect ==
    ASSUME NEW t, NEW M, NEW key, NEW S, NEW H, NEW z, Inserting(t, M, key, S, H, z),
           NEW r, r = InsertFixup(t, z)
    PROVE  /\ SameOutside(t, M, r)
           /\ \E T, K : /\ IsTree(r, M, key, T)
                        /\ Heights(r, M, K)
                        /\ RedOnlyAt(r, M, Null, Null)
                        /\ ColorOf(r, r.root) = "black"
<1> DEFINE A == InsertStates(t, M, key)
           F == [s \in [tree : Trees, z : Nodes] |-> InsertFixupStep(s.tree, s.z)]
           m == [s \in A |-> InsertMeasure(s, M, key)]
           s0 == [tree |-> t, z |-> z]
<1>1. s0 \in A
    <2>1. t \in Trees /\ z \in Nodes
        BY DEF Inserting, IsTree, Linked
    <2>2. SameOutside(t, M, t)
        BY DEF SameOutside
    <2>3. QED
        BY <2>1, <2>2 DEF InsertStates
<1>2. ASSUME NEW s \in A
      PROVE  /\ F[s] \in A
             /\ m[s] \in Nat
             /\ m[s] <= Cardinality(Nodes)
             /\ ColorOf(s.tree, s.tree.parent[s.z]) = "black" => F[s] = s
             /\ F[s] = s \/ InsertMeasure(F[s], M, key) < m[s]
             /\ F[s] = s => ColorOf(s.tree, s.tree.parent[s.z]) = "black"
    <2> DEFINE q == InsertFixupStep(s.tree, s.z)
    <2>1. /\ s \in [tree : Trees, z : Nodes] /\ F[s] = q /\ SameOutside(t, M, s.tree)
          /\ m[s] = InsertMeasure(s, M, key)
        BY DEF InsertStates
    <2>2. PICK T, K : Inserting(s.tree, M, key, T, K, s.z)
        BY DEF InsertStates
    <2>3. IsTree(s.tree, M, key, T) /\ s.z \in M /\ M \subseteq Nodes
        BY <2>2 DEF Inserting, IsTree, Linked
    <2>4. /\ Cardinality(SubtreesOf(s.tree, M, key)[s.z]) = Cardinality(T[s.z])
          /\ Cardinality(T[s.z]) \in 1 .. Cardinality(Nodes)
          /\ Cardinality(Nodes) \in Nat
        BY <2>3, SubtreeSize
    <2>5. CASE ColorOf(s.tree, s.tree.parent[s.z]) = "black"
        <3>1. q = s
            BY <2>1, <2>5 DEF InsertFixupStep
        <3>2. m[s] = 0
            BY <2>1, <2>5 DEF InsertMeasure
        <3>3. QED
            BY <2>1, <2>4, <2>5, <3>1, <3>2
    <2>6. CASE ColorOf(s.tree, s.tree.parent[s.z]) # "black"
        <3>1. /\ q = [tree |-> q.tree, z |-> q.z]
              /\ SameOutside(s.tree, M, q.tree)
              /\ \E V, L : Inserting(q.tree, M, key, V, L, q.z)
              /\ \/ /\ IsTree(q.tree, M, key, T)
                    /\ Cardinality(T[s.z]) < Cardinality(T[q.z])
                 \/ ColorOf(q.tree, q.tree.parent[q.z]) = "black"
            BY <2>2, <2>6, InsertFixupStepEffect
        <3> HIDE DEF q
        <3>2. PICK V, L : Inserting(q.tree, M, key, V, L, q.z)
            BY <3>1
        <3>3. q.tree \in Trees /\ q.z \in M
            BY <3>2 DEF Inserting, IsTree
        <3>4. q \in [tree : Trees, z : Nodes]
            BY <2>3, <3>1, <3>3
        <3>5. q \in A
            BY <2>1, <3>1, <3>4, SameOutsideTransitive DEF InsertStates
        <3>6. m[s] = Cardinality(Nodes) + 1 - Cardinality(T[s.z])
            BY <2>1, <2>4, <2>6 DEF InsertMeasure
        <3>7. m[s] \in Nat /\ m[s] <= Cardinality(Nodes) /\ m[s] > 0
            BY <2>4, <3>6
        <3>8. InsertMeasure(q, M, key) < m[s]
            <4>1. CASE ColorOf(q.tree, q.tree.parent[q.z]) = "black"
                BY <3>7, <4>1 DEF InsertMeasure
            <4>2. CASE /\ ColorOf(q.tree, q.tree.parent[q.z]) # "black"
                       /\ IsTree(q.tree, M, key, T)
                       /\ Cardinality(T[s.z]) < Cardinality(T[q.z])
                <5>1. /\ Cardinality(SubtreesOf(q.tree, M, key)[q.z]) = Cardinality(T[q.z])
                      /\ Cardinality(T[q.z]) \in 1 .. Cardinality(Nodes)
                    BY <3>3, <4>2, SubtreeSize
                <5>2. InsertMeasure(q, M, key) = Cardinality(Nodes) + 1 - Cardinality(T[q.z])
                    BY <4>2, <5>1 DEF InsertMeasure
                <5>3. QED
                    BY <2>4, <3>6, <4>2, <5>1, <5>2
            <4>3. QED
                BY <3>1, <4>1, <4>2
        <3>9. F[s] # s
            <4>1. SUFFICES ASSUME q = s PROVE FALSE
                BY <2>1
            <4>2. InsertMeasure(q, M, key) = m[s]
                BY <2>1, <4>1
            <4>3. QED
                BY <3>7, <3>8, <4>2
        <3>10. QED
            BY <2>1, <2>6, <3>5, <3>7, <3>8, <3>9
    <2>7. QED
        BY <2>5, <2>6
<1> HIDE DEF F, A
<1>3. m \in [A -> Nat]
    BY <1>2
<1>4. \A s \in A : F[s] \in A /\ (F[s] = s \/ m[F[s]] < m[s])
    BY <1>2
<1>5. m[s0] <= Cardinality(Nodes)
    BY <1>1, <1>2
<1> DEFINE e == Loop(F, s0)
<1>6. e \in A /\ F[e] = e
    <2> HIDE DEF m, s0
    <2>1. QED
        BY <1>1, <1>3, <1>4, <1>5, LoopEnds
<1>7. r = Paint(e.tree, e.tree.root, "black")
    BY DEF InsertFixup, F
<1> HIDE DEF e
<1>8. ColorOf(e.tree, e.tree.parent[e.z]) = "black" /\ SameOutside(t, M, e.tree)
    BY <1>2, <1>6 DEF A, InsertStates
<1>9. PICK T, K : Inserting(e.tree, M, key, T, K, e.z)
    BY <1>6 DEF A, InsertStates
<1> DEFINE f == e.tree
           k == f.root
<1>10. /\ IsTree(f, M, key, T) /\ f \in Trees /\ M \subseteq Nodes /\ k \in M \cup {Null}
       /\ k \in Pointers /\ "black" \in Colors /\ Null \notin Nodes
    BY <1>9, NullAssumption DEF Inserting, IsTree, Linked, Pointers, Colors
<1>11. IsTree(r, M, key, T) /\ Painted(f, k, "black", r) /\ SameOutside(f, M, r)
    BY <1>7, <1>10, PaintTree
<1>12. SameOutside(t, M, r)
    BY <1>8, <1>11, SameOutsideTransitive
<1>13. /\ r.child = f.child /\ r.root = k
       /\ \A n \in Nodes : r.color[n] = IF n = k THEN "black" ELSE f.color[n]
    BY <1>11 DEF Painted
<1>14. ColorOf(r, r.root) = "black"
    BY <1>10, <1>13 DEF ColorOf
\* No red entity had a red child any more: it could only be z.
<1>15. RedOnlyAt(r, M, Null, Null)
    <2>1. SUFFICES ASSUME NEW n \in M, NEW d \in Sides,
                          r.color[n] = "red", ColorOf(r, r.child[d][n]) = "red"
                   PROVE  FALSE
        BY DEF RedOnlyAt
    <2> DEFINE c == f.child[d][n]
    <2>2. c # Null /\ c \in M /\ f.parent[c] = n
        BY <1>10, <1>13, <2>1, ChildSubtree DEF ColorOf
    <2>3. f.color[n] = "red" /\ ColorOf(f, c) = "red"
        BY <1>10, <1>13, <2>1, <2>2 DEF ColorOf
    <2>4. c = e.z
        BY <1>9, <1>10, <2>3 DEF Inserting, RedOnlyAt
    <2>5. QED
        BY <1>8, <1>10, <2>2, <2>3, <2>4 DEF ColorOf
<1>16. \E L : Heights(r, M, L)
    <2>1. Heights(f, M, K)
        BY <1>9 DEF Inserting
    <2> DEFINE L == [n \in Nodes |-> IF n = k /\ f.color[n] # "black" THEN K[n] + 1 ELSE K[n]]
    <2>2. K \in [Nodes -> Nat] /\ L \in [Nodes -> Nat]
        BY <2>1 DEF Heights
    <2>3. ASSUME NEW n \in M, NEW d \in Sides
          PROVE  L[n] = HeightOf(L, r.child[d][n]) + BlackCount(r, n)
        <3> DEFINE c == f.child[d][n]
        <3>1. (c \in Pointers /\ c # k) \/ c = Null
            <4>1. c \in Pointers
                BY <1>10, TreeFields
            <4>2. CASE c = Null
                BY <4>2
            <4>3. CASE c # Null
                BY <1>10, <4>1, <4>3, ChildSubtree, RootHasNoParent
            <4>4. QED
                BY <4>2, <4>3
        <3>2. HeightOf(L, c) = HeightOf(K, c)
            BY <3>1 DEF HeightOf, Pointers
        <3>3. K[n] = HeightOf(K, c) + BlackCount(f, n) /\ HeightOf(K, c) \in Nat
            BY <2>1, <2>2, <3>1 DEF Heights, HeightOf, Pointers
        <3>4. CASE n = k /\ f.color[n] # "black"
            <4>1. BlackCount(f, n) = 0 /\ BlackCount(r, n) = 1 /\ L[n] = K[n] + 1
                BY <1>10, <1>13, <3>4 DEF BlackCount
            <4> HIDE DEF L
            <4>2. QED
                BY <1>13, <3>2, <3>3, <4>1
        <3>5. CASE ~(n = k /\ f.color[n] # "black")
            <4>1. BlackCount(f, n) = BlackCount(r, n) /\ L[n] = K[n]
                BY <1>10, <1>13, <3>5 DEF BlackCount
            <4> HIDE DEF L
            <4>2. QED
                BY <1>13, <3>2, <3>3, <4>1
        <3>6. QED
            BY <3>4, <3>5
    <2>4. Heights(r, M, L)
        BY <2>2, <2>3 DEF Heights
    <2>5. QED
        BY <2>4
<1>17. QED
    BY <1>11, <1>12, <1>14, <1>15, <1>16

-----------------------------------------------------------------------------
(* Insertion.                                                              *)

\* An entity below another brings its subtree along.
LEMMA SubtreeNested ==
    ASSUME NEW t, NEW M, NEW key, NEW S, IsTree(t, M, key, S)
    PROVE  \A n \in M : \A a \in S[n] : S[a] \subseteq S[n]
<1> DEFINE C == {n \in M : \A a \in S[n] : S[a] \subseteq S[n]}
<1>1. ASSUME NEW n \in M, \A d \in Sides : t.child[d][n] \in C \cup {Null}
      PROVE  n \in C
    <2>1. SUFFICES ASSUME NEW a \in S[n], a # n
                   PROVE  S[a] \subseteq S[n]
        OBVIOUS
    <2>2. PICK d \in Sides : a \in SubtreeOf(S, t.child[d][n])
        BY <2>1 DEF IsTree, Ordered, Sides
    <2> DEFINE c == t.child[d][n]
    <2>3. c # Null /\ c \in C /\ SubtreeOf(S, c) = S[c]
        BY <1>1, <2>2 DEF SubtreeOf
    <2>4. S[c] \subseteq S[n]
        BY <2>3, ChildSubtree
    <2>5. QED
        BY <2>2, <2>3, <2>4
<1>2. M \subseteq C
    <2> HIDE DEF C
    <2>1. QED
        BY <1>1, UpwardInduction
<1>3. QED
    BY <1>2

\* A proper ancestor is not below.
LEMMA NoAncestorBelow ==
    ASSUME NEW t, NEW M, NEW key, NEW S, IsTree(t, M, key, S),
           NEW m \in M, NEW d \in Sides, NEW p \in M,
           p \in SubtreeOf(S, t.child[d][m])
    PROVE  m \notin S[p]
<1> DEFINE c == t.child[d][m]
<1>1. c # Null /\ SubtreeOf(S, c) = S[c]
    BY DEF SubtreeOf
<1>2. c \in M /\ m \notin S[c]
    BY <1>1, ChildSubtree
<1>3. S[p] \subseteq S[c]
    BY <1>1, <1>2, SubtreeNested
<1>4. QED
    BY <1>2, <1>3

\* The entities outside the subtree at a are all on one side of it, and n is
\* on their other side as well: n belongs where the subtree at a is.
Gap(M, key, S, n, a) ==
    \A m \in M \ S[a] : \E d \in Sides :
        OnSide(key, d, n, m) /\ \A b \in S[a] : OnSide(key, d, b, m)

\* n belongs on the side SideFor says.
LEMMA SideForSide ==
    ASSUME NEW key \in [Nodes -> Nat], NEW n \in Nodes, NEW a \in Nodes, n # a
    PROVE  /\ SideFor(key, n, a) \in Sides
           /\ OnSide(key, SideFor(key, n, a), n, a)
<1>1. "left" \in Sides /\ "right" \in Sides
    BY DEF Sides
<1>2. OnSide(key, "left", n, a) \/ OnSide(key, "left", a, n)
    BY <1>1, OnSideTotal
<1>3. QED
    BY <1>1, <1>2 DEF SideFor, OnSide

\* A step down keeps n in the gap.
LEMMA GapDown ==
    ASSUME NEW t, NEW M, NEW key, NEW S, IsTree(t, M, key, S),
           NEW n \in Nodes, NEW a \in M, Gap(M, key, S, n, a),
           NEW d \in Sides, OnSide(key, d, n, a), t.child[d][a] # Null
    PROVE  Gap(M, key, S, n, t.child[d][a])
<1> DEFINE c == t.child[d][a]
           o == SubtreeOf(S, t.child[Opposite(d)][a])
<1>1. c \in M /\ S[c] \subseteq S[a] /\ SubtreeOf(S, c) = S[c] /\ M \subseteq Nodes
    BY ChildSubtree DEF SubtreeOf, IsTree, Linked
<1>2. S[a] = {a} \cup S[c] \cup o
    BY <1>1, SubtreeSplit
<1>3. S[c] \subseteq Nodes /\ o \subseteq Nodes /\ key \in [Nodes -> Nat]
    BY <1>1, SubtreeWithin, SubtreeTyped, SidesAre, TreeFields DEF IsTree
<1>4. \A b \in S[c] : OnSide(key, d, b, a)
    BY <1>1 DEF IsTree, Ordered
<1>5. \A m \in o : OnSide(key, Opposite(d), m, a)
    BY SidesAre DEF IsTree, Ordered
<1> HIDE DEF c, o
<1>6. SUFFICES ASSUME NEW m \in M \ S[c]
               PROVE  \E e \in Sides : OnSide(key, e, n, m) /\ \A b \in S[c] : OnSide(key, e, b, m)
    BY DEF Gap, c
<1>7. CASE m \notin S[a]
    BY <1>1, <1>7 DEF Gap
<1>8. CASE m = a
    BY <1>4, <1>8
<1>9. CASE m \in o
    <2>1. OnSide(key, d, a, m)
        BY <1>1, <1>3, <1>5, <1>9, OnSideOpposite
    <2>2. OnSide(key, d, n, m)
        BY <1>1, <1>3, <2>1, OnSideTransitive
    <2>3. \A b \in S[c] : OnSide(key, d, b, m)
        BY <1>1, <1>3, <1>4, <2>1, OnSideTransitive
    <2>4. QED
        BY <2>2, <2>3
<1>10. QED
    BY <1>2, <1>7, <1>8, <1>9

\* insert's descent ends at an entity with room on the side where n belongs.
LEMMA LeafForEffect ==
    ASSUME NEW t, NEW M, NEW key, NEW S, IsTree(t, M, key, S), t.root # Null,
           NEW n \in Nodes \ M, NEW p, p = LeafFor(t, key, n)
    PROVE  /\ p \in M
           /\ Gap(M, key, S, n, p)
           /\ t.child[SideFor(key, n, p)][p] = Null
<1> DEFINE A == {a \in M : Gap(M, key, S, n, a)}
           F == [at \in Nodes |->
                    LET c == t.child[SideFor(key, n, at)][at] IN IF c = Null THEN at ELSE c]
           m == [a \in A |-> Cardinality(S[a])]
<1>1. M \subseteq Nodes /\ t.root \in M /\ S[t.root] = M /\ key \in [Nodes -> Nat]
    BY DEF IsTree, Linked, Ordered, SubtreeOf
<1>2. t.root \in A
    BY <1>1 DEF Gap
<1>3. ASSUME NEW a \in A
      PROVE  /\ F[a] \in A
             /\ m[a] \in Nat
             /\ m[a] <= Cardinality(Nodes)
             /\ F[a] = a \/ Cardinality(S[F[a]]) < m[a]
             /\ F[a] = a => t.child[SideFor(key, n, a)][a] = Null
    <2> DEFINE d == SideFor(key, n, a)
    <2>1. a \in M /\ a \in Nodes /\ Gap(M, key, S, n, a) /\ m[a] = Cardinality(S[a]) /\ n # a
        BY <1>1
    <2>2. d \in Sides /\ OnSide(key, d, n, a)
        BY <1>1, <2>1, SideForSide
    <2>3. m[a] \in Nat /\ m[a] <= Cardinality(Nodes)
        BY <2>1, SubtreeSize
    <2>4. F[a] = IF t.child[d][a] = Null THEN a ELSE t.child[d][a]
        BY <2>1
    <2> HIDE DEF d, F
    <2>5. CASE t.child[d][a] = Null
        BY <2>3, <2>4, <2>5 DEF d
    <2>6. CASE t.child[d][a] # Null
        <3>1. /\ t.child[d][a] \in M
              /\ Cardinality(S[t.child[d][a]]) < Cardinality(S[a])
              /\ S[t.child[d][a]] # S[a]
            BY <2>1, <2>2, <2>6, ChildSubtree
        <3>2. Gap(M, key, S, n, t.child[d][a])
            BY <2>1, <2>2, <2>6, GapDown
        <3>3. QED
            BY <2>1, <2>3, <2>4, <2>6, <3>1, <3>2
    <2>7. QED
        BY <2>5, <2>6
<1> HIDE DEF F, A
<1>4. m \in [A -> Nat] /\ \A a \in A : F[a] \in A /\ (F[a] = a \/ m[F[a]] < m[a])
    BY <1>3
<1>5. m[t.root] <= Cardinality(Nodes)
    BY <1>2, <1>3
<1>6. p = Loop(F, t.root)
    BY DEF LeafFor, F
<1>7. p \in A /\ F[p] = p
    <2> HIDE DEF m
    <2>1. QED
        BY <1>2, <1>4, <1>5, <1>6, LoopEnds
<1>8. QED
    BY <1>3, <1>7 DEF A

\* r and t have the same root, and the same links within M.
SameWithin(t, M, r) ==
    /\ r.root = t.root
    /\ \A n \in M :
          /\ r.parent[n] = t.parent[n]
          /\ r.color[n] = t.color[n]
          /\ \A d \in Sides : r.child[d][n] = t.child[d][n]

\* A red-black tree of the entities in M, with its subtrees and heights
IsRedBlack(t, M, key, S, H) ==
    /\ IsTree(t, M, key, S)
    /\ Heights(t, M, H)
    /\ RedOnlyAt(t, M, Null, Null)
    /\ ColorOf(t, t.root) = "black"

\* The links of other entities do not matter to a tree.
LEMMA TreeAgrees ==
    ASSUME NEW t, NEW M, NEW key, NEW S, NEW H, IsRedBlack(t, M, key, S, H),
           NEW r \in Trees, SameWithin(t, M, r)
    PROVE  IsRedBlack(r, M, key, S, H)
<1>1. M \subseteq Nodes /\ (t.root # Null => t.root \in M) /\ t \in Trees /\ Null \notin M
    BY NullAssumption DEF IsRedBlack, IsTree, Linked
<1>2. Linked(r, M)
    BY <1>1 DEF IsRedBlack, IsTree, Linked, SameWithin
<1>3. Ordered(r, M, key, S)
    <2>1. "left" \in Sides /\ "right" \in Sides
        BY DEF Sides
    <2>2. QED
        BY <1>1, <2>1 DEF IsRedBlack, IsTree, Ordered, SameWithin
<1>4. Heights(r, M, H)
    BY <1>1 DEF IsRedBlack, Heights, SameWithin, BlackCount
<1>5. RedOnlyAt(r, M, Null, Null)
    <2>1. SUFFICES ASSUME NEW n \in M, NEW d \in Sides,
                          r.color[n] = "red", ColorOf(r, r.child[d][n]) = "red"
                   PROVE  FALSE
        BY DEF RedOnlyAt
    <2>2. r.child[d][n] = t.child[d][n] /\ t.color[n] = "red"
        BY <2>1 DEF SameWithin
    <2>3. t.child[d][n] # Null
        BY <2>1, <2>2 DEF ColorOf
    <2>4. t.child[d][n] \in M
        BY <2>3 DEF IsRedBlack, IsTree, Linked
    <2>5. ColorOf(t, t.child[d][n]) = "red"
        BY <2>1, <2>2, <2>3, <2>4 DEF ColorOf, SameWithin
    <2>6. QED
        BY <1>1, <2>2, <2>3, <2>5 DEF IsRedBlack, RedOnlyAt
<1>6. ColorOf(r, r.root) = "black"
    BY <1>1 DEF IsRedBlack, ColorOf, SameWithin
<1>7. QED
    BY <1>2, <1>3, <1>4, <1>5, <1>6 DEF IsRedBlack, IsTree

\* r is t with the links of n reset.
Cleared(t, n, r) ==
    /\ r \in Trees
    /\ r.root = t.root /\ r.len = t.len
    /\ \A m \in Nodes :
          /\ r.parent[m] = IF m = n THEN Null ELSE t.parent[m]
          /\ r.color[m] = IF m = n THEN "red" ELSE t.color[m]
          /\ \A d \in Sides : r.child[d][m] = IF m = n THEN Null ELSE t.child[d][m]

LEMMA ResetLinksEffect ==
    ASSUME NEW t \in Trees, NEW n \in Nodes
    PROVE  Cleared(t, n, ResetLinks(t, n))
<1> DEFINE a == SetParent(t, n, Null)
           b == SetChild(a, "left", n, Null)
           c == SetChild(b, "right", n, Null)
           r == Paint(c, n, "red")
<1>1. ResetLinks(t, n) = r
    <2>1. n # Null
        BY NullAssumption
    <2>2. QED
        BY <2>1 DEF ResetLinks, SetParent, SetChild, Paint
<1>2. n \in Pointers /\ Null \in Pointers /\ "left" \in Sides /\ "right" \in Sides /\ "red" \in Colors
    BY DEF Pointers, Sides, Colors
<1>3. ParentSet(t, n, Null, a)
    BY <1>2, SetParentEffect
<1> HIDE DEF a
<1>4. ChildSet(a, "left", n, Null, b)
    BY <1>2, <1>3, SetChildEffect DEF ParentSet
<1> HIDE DEF b
<1>5. ChildSet(b, "right", n, Null, c)
    BY <1>2, <1>4, SetChildEffect DEF ChildSet
<1> HIDE DEF c
<1>6. Painted(c, n, "red", r)
    BY <1>2, <1>5, PaintEffect DEF ChildSet
<1> HIDE DEF r
<1>7. \A m \in Nodes, d \in Sides : r.child[d][m] = IF m = n THEN Null ELSE t.child[d][m]
    BY <1>3, <1>4, <1>5, <1>6 DEF ParentSet, ChildSet, Painted, Sides
<1>8. Cleared(t, n, r)
    BY <1>3, <1>4, <1>5, <1>6, <1>7 DEF ParentSet, ChildSet, Painted, Cleared
<1>9. QED
    BY <1>1, <1>8

\* r is t with the red entity n, which has no children, below p on side d.
Hung(t, n, p, d, r) ==
    /\ r \in Trees
    /\ r.len = t.len /\ r.root = t.root
    /\ \A m \in Nodes :
          /\ r.parent[m] = IF m = n THEN p ELSE t.parent[m]
          /\ r.color[m] = IF m = n THEN "red" ELSE t.color[m]
          /\ \A e \in Sides : r.child[e][m] = IF m = n THEN Null
                                  ELSE IF m = p /\ e = d THEN n ELSE t.child[e][m]

\* The subtrees with n below p
HungSubtrees(M, S, n, p) ==
    [m \in Nodes |-> IF m = n THEN {n}
                     ELSE IF m \in M /\ p \in S[m] THEN S[m] \cup {n} ELSE S[m]]

LEMMA HungLinked ==
    ASSUME NEW t, NEW M, NEW key, NEW S, IsTree(t, M, key, S),
           NEW n \in Nodes \ M, NEW p \in M, NEW d \in Sides, t.child[d][p] = Null,
           NEW r, Hung(t, n, p, d, r)
    PROVE  Linked(r, M \cup {n})
<1>1. M \subseteq Nodes /\ Null \notin Nodes /\ n \in Nodes /\ n \notin M /\ p \in Nodes
    BY NullAssumption DEF IsTree, Linked
<1>2. t.root \in M
    BY DEF IsTree, Ordered, SubtreeOf, Linked
<1>3. r.root \in M /\ r.parent[r.root] = Null
    BY <1>1, <1>2 DEF Hung, IsTree, Linked
<1>4. ASSUME NEW m \in M \cup {n}, NEW e \in Sides, r.child[e][m] # Null
      PROVE  r.child[e][m] \in M \cup {n} /\ r.parent[r.child[e][m]] = m
    <2>1. m \in M /\ m \in Nodes /\ m # n
        BY <1>1, <1>4 DEF Hung
    <2>2. CASE m = p /\ e = d
        BY <1>1, <2>1, <2>2 DEF Hung
    <2>3. CASE ~(m = p /\ e = d)
        <3>1. r.child[e][m] = t.child[e][m]
            BY <2>1, <2>3 DEF Hung
        <3>2. t.child[e][m] \in M /\ t.parent[t.child[e][m]] = m
            BY <1>4, <2>1, <3>1 DEF IsTree, Linked
        <3>3. QED
            BY <1>1, <3>1, <3>2 DEF Hung
    <2>4. QED
        BY <2>2, <2>3
<1>5. ASSUME NEW m \in M \cup {n}, m # r.root
      PROVE  r.parent[m] \in M \cup {n} /\ \E e \in Sides : r.child[e][r.parent[m]] = m
    <2>1. CASE m = n
        BY <1>1, <2>1 DEF Hung
    <2>2. CASE m # n
        <3>1. m \in M /\ m # t.root /\ r.parent[m] = t.parent[m]
            BY <1>1, <1>5, <2>2 DEF Hung
        <3>2. t.parent[m] \in M /\ \E e \in Sides : t.child[e][t.parent[m]] = m
            BY <3>1 DEF IsTree, Linked
        <3>3. PICK e \in Sides : t.child[e][t.parent[m]] = m
            BY <3>2
        <3>4. r.child[e][t.parent[m]] = m
            BY <1>1, <3>1, <3>2, <3>3 DEF Hung
        <3>5. QED
            BY <3>1, <3>2, <3>4
    <2>3. QED
        BY <2>1, <2>2
<1>6. QED
    BY <1>1, <1>3, <1>4, <1>5 DEF Linked

LEMMA HungOrdered ==
    ASSUME NEW t, NEW M, NEW key, NEW S, IsTree(t, M, key, S),
           NEW n \in Nodes \ M, NEW p \in M, NEW d \in Sides, t.child[d][p] = Null,
           OnSide(key, d, n, p), Gap(M, key, S, n, p),
           NEW r, Hung(t, n, p, d, r)
    PROVE  Ordered(r, M \cup {n}, key, HungSubtrees(M, S, n, p))
<1> DEFINE T == HungSubtrees(M, S, n, p)
<1>1. M \subseteq Nodes /\ Null \notin Nodes /\ n \in Nodes /\ n \notin M /\ p \in Nodes
    BY NullAssumption DEF IsTree, Linked
<1>2. t.root \in M /\ S[t.root] = M /\ S \in [Nodes -> SUBSET Nodes] /\ key \in [Nodes -> Nat]
    BY DEF IsTree, Ordered, SubtreeOf, Linked
<1>3. \A m \in M : S[m] \subseteq M /\ m \in S[m]
    BY SubtreeWithin
<1>4. /\ T \in [Nodes -> SUBSET Nodes]
      /\ T[n] = {n}
      /\ \A m \in M : T[m] = IF p \in S[m] THEN S[m] \cup {n} ELSE S[m]
    BY <1>1, <1>2 DEF HungSubtrees
<1> HIDE DEF T
<1>5. SubtreeOf(T, r.root) = M \cup {n}
    BY <1>1, <1>2, <1>4 DEF SubtreeOf, Hung
\* What hangs on side e of an entity of the old tree
<1>6. ASSUME NEW m \in M, NEW e \in Sides
      PROVE  /\ SubtreeOf(T, r.child[e][m]) =
                   IF m = p /\ e = d THEN {n}
                   ELSE SubtreeOf(S, t.child[e][m]) \cup
                           (IF p \in SubtreeOf(S, t.child[e][m]) THEN {n} ELSE {})
             /\ m = p /\ e = d => SubtreeOf(S, t.child[e][m]) = {}
             /\ m = p => p \notin SubtreeOf(S, t.child[e][m])
    <2> DEFINE c == t.child[e][m]
    <2>1. m = p => p \notin SubtreeOf(S, c)
        BY ChildSubtree DEF SubtreeOf
    <2>2. CASE m = p /\ e = d
        BY <1>1, <1>4, <2>1, <2>2 DEF Hung, SubtreeOf
    <2>3. CASE ~(m = p /\ e = d)
        <3>1. r.child[e][m] = c
            BY <1>1, <2>3 DEF Hung
        <3>2. c # Null => c \in M
            BY DEF IsTree, Linked
        <3>3. QED
            BY <1>1, <1>4, <2>1, <2>3, <3>1, <3>2 DEF SubtreeOf
    <2>4. QED
        BY <2>2, <2>3
<1>7. ASSUME NEW m \in M \cup {n}
      PROVE  T[m] = {m} \cup SubtreeOf(T, r.child["left"][m])
                        \cup SubtreeOf(T, r.child["right"][m])
    <2>1. "left" \in Sides /\ "right" \in Sides
        BY DEF Sides
    <2>2. CASE m = n
        BY <1>1, <1>4, <2>1, <2>2 DEF Hung, SubtreeOf
    <2>3. CASE m \in M
        <3> DEFINE L == SubtreeOf(S, t.child["left"][m])
                   R == SubtreeOf(S, t.child["right"][m])
        <3>1. S[m] = {m} \cup L \cup R
            BY <2>3 DEF IsTree, Ordered
        <3>2. T[m] = IF p \in S[m] THEN S[m] \cup {n} ELSE S[m]
            BY <1>4, <2>3
        <3>3. /\ SubtreeOf(T, r.child["left"][m]) =
                    IF m = p /\ "left" = d THEN {n} ELSE L \cup (IF p \in L THEN {n} ELSE {})
              /\ m = p /\ "left" = d => L = {}
              /\ m = p => p \notin L
            BY <1>6, <2>1, <2>3
        <3>4. /\ SubtreeOf(T, r.child["right"][m]) =
                    IF m = p /\ "right" = d THEN {n} ELSE R \cup (IF p \in R THEN {n} ELSE {})
              /\ m = p /\ "right" = d => R = {}
              /\ m = p => p \notin R
            BY <1>6, <2>1, <2>3
        <3>5. d = "left" \/ d = "right"
            BY DEF Sides
        <3> HIDE DEF L, R
        <3>6. QED
            BY <3>1, <3>2, <3>3, <3>4, <3>5
    <2>4. QED
        BY <2>2, <2>3
<1>8. ASSUME NEW m \in M \cup {n}, NEW e \in Sides, NEW a \in SubtreeOf(T, r.child[e][m])
      PROVE  OnSide(key, e, a, m)
    <2>1. m \in M
        BY <1>1, <1>8 DEF Hung, SubtreeOf
    <2>2. CASE m = p /\ e = d
        BY <1>6, <2>1, <2>2
    <2>3. CASE ~(m = p /\ e = d) /\ a \in SubtreeOf(S, t.child[e][m])
        BY <2>1, <2>3 DEF IsTree, Ordered
    <2>4. CASE a = n /\ p \in SubtreeOf(S, t.child[e][m])
        <3>1. m \notin S[p]
            BY <2>1, <2>4, NoAncestorBelow
        <3>2. PICK f \in Sides : OnSide(key, f, n, m) /\ \A b \in S[p] : OnSide(key, f, b, m)
            BY <2>1, <3>1 DEF Gap
        <3>3. OnSide(key, f, p, m) /\ OnSide(key, e, p, m)
            BY <1>3, <2>1, <2>4, <3>2 DEF IsTree, Ordered
        <3>4. f = e
            BY <1>1, <1>2, <2>1, <3>3, OnSideAsymmetric, SidesAre
        <3>5. QED
            BY <2>4, <3>2, <3>4
    <2>5. QED
        BY <1>6, <1>8, <2>1, <2>2, <2>3, <2>4
<1>9. QED
    BY <1>4, <1>5, <1>7, <1>8 DEF Ordered, T

\* The new red leaf is all that may be wrong.
LEMMA HungInserting ==
    ASSUME NEW t, NEW M, NEW key, NEW S, NEW H, IsRedBlack(t, M, key, S, H),
           NEW n \in Nodes \ M, NEW p \in M, NEW d \in Sides, t.child[d][p] = Null,
           OnSide(key, d, n, p), Gap(M, key, S, n, p),
           NEW r, Hung(t, n, p, d, r)
    PROVE  \E T, K : Inserting(r, M \cup {n}, key, T, K, n)
<1> DEFINE T == HungSubtrees(M, S, n, p)
           K == [H EXCEPT ![n] = 0]
           N == M \cup {n}
<1>1. /\ M \subseteq Nodes /\ Null \notin Nodes /\ n \in Nodes /\ n \notin M /\ p \in Nodes
      /\ IsTree(t, M, key, S) /\ key \in [Nodes -> Nat] /\ H \in [Nodes -> Nat]
    BY NullAssumption DEF IsRedBlack, IsTree, Linked, Heights
<1>2. IsTree(r, N, key, T)
    BY <1>1, HungLinked, HungOrdered DEF IsTree, Hung
<1>3. \A m \in M, e \in Sides : t.child[e][m] # Null => t.child[e][m] \in M /\ t.child[e][m] # n
    BY <1>1 DEF IsTree, Linked
<1>4. \A m \in M, e \in Sides : r.child[e][m] = IF m = p /\ e = d THEN n ELSE t.child[e][m]
    BY <1>1 DEF Hung
<1>5. \A m \in M : r.color[m] = t.color[m]
    BY <1>1 DEF Hung
<1>6. r.color[n] = "red" /\ r.root = t.root /\ \A e \in Sides : r.child[e][n] = Null
    BY <1>1 DEF Hung
<1>7. Heights(r, N, K)
    <2>1. K \in [Nodes -> Nat] /\ K[n] = 0 /\ \A m \in M : K[m] = H[m]
        BY <1>1
    <2>2. SUFFICES ASSUME NEW m \in N, NEW e \in Sides
                   PROVE  K[m] = HeightOf(K, r.child[e][m]) + BlackCount(r, m)
        BY <2>1 DEF Heights
    <2>3. CASE m = n
        BY <1>6, <2>1, <2>3 DEF HeightOf, BlackCount
    <2>4. CASE m \in M
        <3>1. HeightOf(K, r.child[e][m]) = HeightOf(H, t.child[e][m])
            BY <1>1, <1>3, <1>4, <2>1, <2>4 DEF HeightOf
        <3>2. BlackCount(r, m) = BlackCount(t, m)
            BY <1>5, <2>4 DEF BlackCount
        <3>3. QED
            BY <2>1, <2>4, <3>1, <3>2 DEF IsRedBlack, Heights
    <2>5. QED
        BY <2>3, <2>4
<1>8. RedOnlyAt(r, N, Null, n)
    <2>1. SUFFICES ASSUME NEW m \in N, NEW e \in Sides, r.color[m] = "red",
                          ColorOf(r, r.child[e][m]) = "red", r.child[e][m] # n
                   PROVE  FALSE
        BY DEF RedOnlyAt
    <2>2. m \in M /\ r.child[e][m] = t.child[e][m] /\ t.color[m] = "red"
        BY <1>4, <1>5, <1>6, <2>1 DEF ColorOf
    <2>3. t.child[e][m] # Null /\ ColorOf(t, t.child[e][m]) = "red"
        BY <1>3, <1>5, <2>1, <2>2 DEF ColorOf
    <2>4. QED
        BY <1>1, <2>2, <2>3 DEF IsRedBlack, RedOnlyAt
<1>9. ColorOf(r, r.root) = "black"
    BY <1>1, <1>5, <1>6 DEF IsRedBlack, ColorOf, IsTree, Linked
<1>10. Inserting(r, N, key, T, K, n)
    BY <1>2, <1>6, <1>7, <1>8, <1>9 DEF Inserting
<1>11. QED
    BY <1>10

\* The first entity of an empty tree
LEMMA FirstInserting ==
    ASSUME NEW t, NEW M, NEW key, NEW S, NEW H, IsRedBlack(t, M, key, S, H),
           t.root = Null, NEW n \in Nodes, NEW s, Cleared(t, n, s),
           NEW r, r = [s EXCEPT !.root = n]
    PROVE  M = {} /\ \E T, K : Inserting(r, M \cup {n}, key, T, K, n)
<1> DEFINE T == [m \in Nodes |-> {n}]
           K == [m \in Nodes |-> 0]
<1>1. M = {} /\ Null \notin Nodes /\ key \in [Nodes -> Nat]
    BY NullAssumption DEF IsRedBlack, IsTree, Ordered, SubtreeOf
<1>2. /\ r \in Trees /\ r.root = n
      /\ r.parent = s.parent /\ r.child = s.child /\ r.color = s.color
    BY DEF Cleared, Trees, Pointers
<1>3. r.parent[n] = Null /\ r.color[n] = "red" /\ \A d \in Sides : r.child[d][n] = Null
    BY <1>2 DEF Cleared
<1>4. "left" \in Sides /\ "right" \in Sides
    BY DEF Sides
<1>5. Linked(r, {n})
    BY <1>1, <1>2, <1>3 DEF Linked
<1>6. Ordered(r, {n}, key, T)
    BY <1>1, <1>2, <1>3, <1>4 DEF Ordered, SubtreeOf
<1>7. Heights(r, {n}, K)
    BY <1>3 DEF Heights, HeightOf, BlackCount
<1>8. RedOnlyAt(r, {n}, Null, n)
    BY <1>3 DEF RedOnlyAt, ColorOf
<1>9. Inserting(r, {n}, key, T, K, n)
    BY <1>1, <1>2, <1>3, <1>5, <1>6, <1>7, <1>8 DEF Inserting, IsTree
<1>10. QED
    BY <1>1, <1>9

\* Other trees than the one of the entities in M keep their links.
OthersKept(t, M, r) ==
    \A n \in Nodes \ M :
        /\ r.parent[n] = t.parent[n]
        /\ r.color[n] = t.color[n]
        /\ \A d \in Sides : r.child[d][n] = t.child[d][n]

\* insert adds the entity to a red-black tree and touches no entity outside it.
LEMMA InsertEffect ==
    ASSUME NEW t, NEW M, NEW key, NEW S, NEW H, IsRedBlack(t, M, key, S, H),
           NEW n \in Nodes \ M, NEW r, r = Insert(t, key, n)
    PROVE  /\ \E T, K : IsRedBlack(r, M \cup {n}, key, T, K)
           /\ r.len = t.len + 1
           /\ OthersKept(t, M \cup {n}, r)
<1> DEFINE clean == ResetLinks(t, n)
           p     == LeafFor(clean, key, n)
           d     == SideFor(key, n, p)
           made  == SetChild(clean, d, p, n)
           below == SetParent(made, n, p)
           first == [clean EXCEPT !.root = n]
           hung  == IF t.root = Null THEN first ELSE below
           fixed == InsertFixup(hung, n)
<1>1. r = [fixed EXCEPT !.len = @ + 1]
    BY DEF Insert
<1>2. /\ t \in Trees /\ M \subseteq Nodes /\ Null \notin Nodes /\ n \in Nodes /\ n \notin M
      /\ key \in [Nodes -> Nat] /\ IsTree(t, M, key, S)
    BY NullAssumption DEF IsRedBlack, IsTree, Linked
<1>3. Cleared(t, n, clean)
    BY <1>2, ResetLinksEffect
<1> HIDE DEF clean
<1>4. SameWithin(t, M, clean)
    BY <1>2, <1>3 DEF Cleared, SameWithin
<1>5. IsRedBlack(clean, M, key, S, H) /\ IsTree(clean, M, key, S) /\ clean \in Trees
    <2>1. clean \in Trees
        BY <1>3 DEF Cleared
    <2>2. IsRedBlack(clean, M, key, S, H)
        BY <1>4, <2>1, TreeAgrees
    <2>3. QED
        BY <2>1, <2>2 DEF IsRedBlack
<1>6. /\ \E T, K : Inserting(hung, M \cup {n}, key, T, K, n)
      /\ hung.len = t.len
      /\ OthersKept(t, M \cup {n}, hung)
    <2>1. CASE t.root = Null
        <3>1. hung = first /\ \E T, K : Inserting(first, M \cup {n}, key, T, K, n)
            BY <1>2, <1>3, <2>1, FirstInserting
        <3>2. /\ first.len = clean.len /\ first.parent = clean.parent
              /\ first.child = clean.child /\ first.color = clean.color
            BY <1>5 DEF Trees
        <3> HIDE DEF first
        <3>3. QED
            BY <1>3, <3>1, <3>2 DEF Cleared, OthersKept
    <2>2. CASE t.root # Null
        <3>1. clean.root # Null
            BY <1>3, <2>2 DEF Cleared
        <3>2. /\ p \in M /\ Gap(M, key, S, n, p)
              /\ clean.child[SideFor(key, n, p)][p] = Null
            BY <1>5, <3>1, LeafForEffect
        <3>3. p \in Nodes /\ p \in Pointers /\ n \in Pointers /\ p # n
            BY <1>2, <3>2 DEF Pointers
        <3> HIDE DEF p
        <3>4. d \in Sides /\ OnSide(key, d, n, p) /\ clean.child[d][p] = Null
            BY <1>2, <3>2, <3>3, SideForSide
        <3> HIDE DEF d
        <3>5. ChildSet(clean, d, p, n, made)
            BY <1>5, <3>3, <3>4, SetChildEffect
        <3>6. ParentSet(made, n, p, below)
            <4>1. made \in Trees
                BY <3>5 DEF ChildSet
            <4> HIDE DEF made
            <4>2. QED
                BY <3>3, <4>1, SetParentEffect
        <3> HIDE DEF made, below
        <3>7. Hung(clean, n, p, d, below)
            <4>1. \A m \in Nodes, e \in Sides :
                     below.child[e][m] = IF m = n THEN Null
                                         ELSE IF m = p /\ e = d THEN n ELSE clean.child[e][m]
                BY <1>3, <3>3, <3>5, <3>6 DEF ChildSet, ParentSet, Cleared
            <4>2. \A m \in Nodes :
                     /\ below.parent[m] = IF m = n THEN p ELSE clean.parent[m]
                     /\ below.color[m] = IF m = n THEN "red" ELSE clean.color[m]
                BY <1>3, <3>5, <3>6 DEF ChildSet, ParentSet, Cleared
            <4>3. below \in Trees /\ below.len = clean.len /\ below.root = clean.root
                BY <3>5, <3>6 DEF ChildSet, ParentSet
            <4>4. QED
                BY <4>1, <4>2, <4>3 DEF Hung
        <3>8. \E T, K : Inserting(below, M \cup {n}, key, T, K, n)
            BY <1>5, <3>2, <3>4, <3>7, HungInserting
        <3>9. below.len = t.len /\ OthersKept(t, M \cup {n}, below)
            BY <1>3, <3>2, <3>7 DEF Hung, Cleared, OthersKept
        <3>10. QED
            BY <2>2, <3>8, <3>9
    <2>3. QED
        BY <2>1, <2>2
<1> HIDE DEF hung
<1>7. /\ SameOutside(hung, M \cup {n}, fixed)
      /\ \E T, K : /\ IsTree(fixed, M \cup {n}, key, T)
                   /\ Heights(fixed, M \cup {n}, K)
                   /\ RedOnlyAt(fixed, M \cup {n}, Null, Null)
                   /\ ColorOf(fixed, fixed.root) = "black"
    BY <1>6, InsertFixupEffect
<1> HIDE DEF fixed
<1>8. PICK T, K : IsRedBlack(fixed, M \cup {n}, key, T, K)
    BY <1>7 DEF IsRedBlack
<1>9. fixed \in Trees
    BY <1>8 DEF IsRedBlack, IsTree
<1>10. /\ r \in Trees /\ r.len = fixed.len + 1 /\ r.root = fixed.root
       /\ r.parent = fixed.parent /\ r.child = fixed.child /\ r.color = fixed.color
    BY <1>1, <1>9 DEF Trees
<1>11. SameWithin(fixed, M \cup {n}, r)
    BY <1>10 DEF SameWithin
<1>12. IsRedBlack(r, M \cup {n}, key, T, K)
    BY <1>8, <1>10, <1>11, TreeAgrees
<1>13. OthersKept(t, M \cup {n}, r)
    BY <1>6, <1>7, <1>10 DEF OthersKept, SameOutside
<1>14. r.len = t.len + 1
    BY <1>6, <1>7, <1>10 DEF SameOutside
<1>15. QED
    BY <1>12, <1>13, <1>14

-----------------------------------------------------------------------------
(* Reading.                                                                *)

\* The entities reached from the root are those of the tree.
LEMMA BelowRoot ==
    ASSUME NEW t, NEW M, NEW key, NEW S, IsTree(t, M, key, S)
    PROVE  Below(t, t.root) = M
<1> DEFINE A == {X \in SUBSET M : {t.root} \ {Null} \subseteq X}
           F == [set \in SUBSET Nodes |->
                   set \cup ({t.child[side][m] : side \in Sides, m \in set} \ {Null})]
           m == [X \in A |-> Cardinality(M \ X)]
           s == {t.root} \ {Null}
<1>1. M \subseteq Nodes /\ (t.root # Null => t.root \in M) /\ IsFiniteSet(M)
    BY FiniteAssumption, FS_Subset DEF IsTree, Linked
<1>2. s \in A
    BY <1>1
<1>3. ASSUME NEW X \in A
      PROVE  /\ F[X] \in A
             /\ m[X] \in Nat
             /\ m[X] <= Cardinality(Nodes)
             /\ F[X] = X \/ Cardinality(M \ F[X]) < m[X]
             /\ F[X] = X => \A n \in X, d \in Sides : t.child[d][n] # Null => t.child[d][n] \in X
    <2>1. X \in SUBSET Nodes /\ X \subseteq M /\ s \subseteq X
        BY <1>1
    <2> DEFINE D == {t.child[side][n] : side \in Sides, n \in X} \ {Null}
    <2>2. F[X] = X \cup D
        BY <2>1
    <2>3. D \subseteq M
        BY <2>1 DEF IsTree, Linked
    <2>4. \A n \in X, d \in Sides : t.child[d][n] # Null => t.child[d][n] \in D
        OBVIOUS
    <2> HIDE DEF D, F
    <2>5. F[X] \in A
        BY <2>1, <2>2, <2>3
    <2>6. IsFiniteSet(M \ X) /\ IsFiniteSet(M \ F[X])
        BY <1>1, FS_Subset
    <2>7. m[X] = Cardinality(M \ X) /\ m[X] \in Nat /\ m[X] <= Cardinality(Nodes)
        BY <1>1, <2>6, FiniteAssumption, FS_Subset, FS_CardinalityType
    <2>8. F[X] = X \/ Cardinality(M \ F[X]) < m[X]
        <3>1. SUFFICES ASSUME F[X] # X PROVE Cardinality(M \ F[X]) < Cardinality(M \ X)
            BY <2>7
        <3>2. PICK n \in D : n \notin X
            BY <2>2, <3>1
        <3>3. M \ F[X] \subseteq M \ X /\ n \in M \ X /\ n \notin M \ F[X]
            BY <2>2, <2>3, <3>2
        <3>4. M \ F[X] # M \ X
            BY <3>3
        <3>5. QED
            BY <2>6, <3>3, <3>4, FS_Subset, FS_CardinalityType, SMTT(30)
    <2>9. QED
        BY <2>2, <2>4, <2>5, <2>7, <2>8
<1> HIDE DEF F, A
<1>4. m \in [A -> Nat] /\ \A X \in A : F[X] \in A /\ (F[X] = X \/ m[F[X]] < m[X])
    BY <1>3
<1>5. m[s] <= Cardinality(Nodes)
    BY <1>2, <1>3
<1> DEFINE e == Loop(F, s)
<1>6. Below(t, t.root) = e
    BY DEF Below, F
<1>7. e \in A /\ F[e] = e
    <2> HIDE DEF m, s
    <2>1. QED
        BY <1>2, <1>4, <1>5, LoopEnds
<1> HIDE DEF e
<1>8. e \subseteq M /\ (t.root # Null => t.root \in e)
    BY <1>7 DEF A
<1>9. \A n \in e, d \in Sides : t.child[d][n] # Null => t.child[d][n] \in e
    BY <1>3, <1>7
<1>10. M \subseteq e
    BY <1>8, <1>9, DownwardInduction
<1>11. QED
    BY <1>6, <1>8, <1>10

\* The black heights counted along left children are those of every way down.
LEMMA BlackHeightsAre ==
    ASSUME NEW t, NEW M, NEW key, NEW S, NEW H, IsTree(t, M, key, S), Heights(t, M, H)
    PROVE  \A n \in M : BlackHeights(t)[n] = H[n]
<1> DEFINE Z == [Nodes -> Nat]
           F == [h \in [Nodes -> Nat] |->
                    [n \in Nodes |-> HeightOf(h, t.child["left"][n])
                                      + IF t.color[n] = "black" THEN 1 ELSE 0]]
           s == [n \in Nodes |-> 0]
<1>1. "left" \in Sides /\ t \in Trees /\ M \subseteq Nodes
    BY DEF Sides, IsTree, Linked
<1>2. s \in Z
    OBVIOUS
<1>3. ASSUME NEW h \in Z
      PROVE  F[h] \in Z
    <2>1. \A n \in Nodes : HeightOf(h, t.child["left"][n]) \in Nat
        BY <1>1, TreeFields DEF HeightOf
    <2>2. \A n \in Nodes : HeightOf(h, t.child["left"][n])
                             + (IF t.color[n] = "black" THEN 1 ELSE 0) \in Nat
        BY <2>1
    <2>3. QED
        BY <2>2
<1>4. \A h \in Z, n \in Nodes :
         F[h][n] = HeightOf(h, t.child["left"][n]) + BlackCount(t, n)
    BY DEF BlackCount
<1>5. BlackHeights(t) = Loop(F, s)
    BY DEF BlackHeights
<1> HIDE DEF F, s
<1>6. PICK g : IsRun(Z, F, s, g)
    <2> HIDE DEF Z
    <2>1. QED
        BY <1>2, <1>3, LoopRun
<1>7. /\ \A k \in Nat : g[k] \in Z /\ g[k + 1] = F[g[k]]
      /\ Loop(F, s) = g[Cardinality(Nodes)]
    BY <1>6 DEF IsRun
<1> DEFINE C == {n \in M : \A k \in Nat : Cardinality(S[n]) <= k => g[k][n] = H[n]}
<1>8. ASSUME NEW n \in M, \A d \in Sides : t.child[d][n] \in C \cup {Null}
      PROVE  n \in C
    <2>1. SUFFICES ASSUME NEW k \in Nat, Cardinality(S[n]) <= k
                   PROVE  g[k][n] = H[n]
        OBVIOUS
    <2>2. Cardinality(S[n]) \in 1 .. Cardinality(Nodes) /\ Cardinality(Nodes) \in Nat /\ n \in Nodes
        BY <1>1, SubtreeSize
    <2>3. k - 1 \in Nat /\ k = (k - 1) + 1
        BY <2>1, <2>2
    <2>4. g[k][n] = HeightOf(g[k - 1], t.child["left"][n]) + BlackCount(t, n)
        BY <1>4, <1>7, <2>2, <2>3
    <2>5. HeightOf(g[k - 1], t.child["left"][n]) = HeightOf(H, t.child["left"][n])
        <3> DEFINE c == t.child["left"][n]
        <3>1. CASE c = Null
            BY <3>1 DEF HeightOf
        <3>2. CASE c # Null
            <4>1. c \in C
                BY <1>1, <1>8, <3>2
            <4>2. Cardinality(S[c]) \in Nat /\ Cardinality(S[c]) < Cardinality(S[n])
                BY <1>1, <3>2, ChildSubtree
            <4> HIDE DEF c
            <4>3. Cardinality(S[c]) <= k - 1
                BY <2>1, <2>2, <4>2
            <4>4. g[k - 1][c] = H[c]
                BY <2>3, <4>1, <4>3
            <4>5. QED
                BY <3>2, <4>4 DEF HeightOf, c
        <3>3. QED
            BY <3>1, <3>2
    <2>6. QED
        BY <1>1, <2>4, <2>5 DEF Heights
<1>9. M \subseteq C
    <2> HIDE DEF C
    <2>1. QED
        BY <1>8, UpwardInduction
<1>10. SUFFICES ASSUME NEW n \in M PROVE g[Cardinality(Nodes)][n] = H[n]
    BY <1>5, <1>7
<1>11. Cardinality(S[n]) <= Cardinality(Nodes) /\ Cardinality(Nodes) \in Nat
    BY SubtreeSize
<1>12. QED
    BY <1>9, <1>11

\* A red-black tree is what the specification calls balanced and well linked.
LEMMA RedBlackReads ==
    ASSUME NEW t, NEW M, NEW key, NEW S, NEW H, IsRedBlack(t, M, key, S, H)
    PROVE  Balanced(t) /\ WellLinked(t) /\ Below(t, t.root) = M
<1>1. IsTree(t, M, key, S) /\ Heights(t, M, H) /\ Linked(t, M) /\ Null \notin Nodes /\ M \subseteq Nodes
    BY NullAssumption DEF IsRedBlack, IsTree, Linked
<1>2. Below(t, t.root) = M
    BY <1>1, BelowRoot
<1>3. \A n \in M : BlackHeights(t)[n] = H[n]
    BY <1>1, BlackHeightsAre
<1>4. "left" \in Sides /\ "right" \in Sides
    BY DEF Sides
<1> DEFINE h == BlackHeights(t)
<1>5. ASSUME NEW n \in M
      PROVE  HeightOf(h, t.child["left"][n]) = HeightOf(h, t.child["right"][n])
    <2>1. \A d \in Sides : HeightOf(h, t.child[d][n]) = HeightOf(H, t.child[d][n])
        BY <1>1, <1>3 DEF HeightOf, Linked
    <2>2. \A d \in Sides : HeightOf(H, t.child[d][n]) \in Nat
        BY <1>1 DEF HeightOf, Linked, Heights
    <2>3. /\ H[n] = HeightOf(H, t.child["left"][n]) + BlackCount(t, n)
          /\ H[n] = HeightOf(H, t.child["right"][n]) + BlackCount(t, n)
        BY <1>1, <1>4 DEF Heights
    <2>4. BlackCount(t, n) \in Nat
        BY DEF BlackCount
    <2>5. HeightOf(H, t.child["left"][n]) = HeightOf(H, t.child["right"][n])
        BY <1>4, <2>2, <2>3, <2>4
    <2>6. QED
        BY <1>4, <2>1, <2>5
<1>6. ASSUME NEW n \in M, NEW side \in Sides, t.color[n] = "red"
      PROVE  ColorOf(t, t.child[side][n]) = "black"
    <2>1. ColorOf(t, t.child[side][n]) \in {"red", "black"}
        BY <1>1 DEF ColorOf, Linked, IsTree, Trees
    <2>2. ColorOf(t, t.child[side][n]) = "red" => t.child[side][n] # Null
        BY DEF ColorOf
    <2>3. QED
        BY <1>1, <1>6, <2>1, <2>2 DEF IsRedBlack, RedOnlyAt
<1> HIDE DEF h
<1>7. Balanced(t)
    BY <1>2, <1>5, <1>6 DEF Balanced, IsRedBlack, h
<1>8. WellLinked(t)
    BY <1>1, <1>2 DEF WellLinked, Linked, ParentOf
<1>9. QED
    BY <1>2, <1>7, <1>8

\* minimum and maximum: the outermost entity of a subtree is its extreme.
LEMMA OutermostEffect ==
    ASSUME NEW t, NEW M, NEW key, NEW S, IsTree(t, M, key, S),
           NEW n \in M, NEW side \in Sides, NEW y, y = Outermost(t, n, side)
    PROVE  /\ y \in M /\ y \in S[n]
           /\ t.child[side][y] = Null
           /\ \A b \in S[n] \ {y} : OnSide(key, side, y, b)
<1> DEFINE Ahead(a) == \A b \in S[n] \ S[a], c \in S[a] : OnSide(key, side, c, b)
           A == {a \in M : a \in S[n] /\ Ahead(a)}
           F == [at \in Pointers |-> IF ChildOf(t, at, side) = Null
                                       THEN at ELSE t.child[side][at]]
           m == [a \in A |-> Cardinality(S[a])]
<1>1. /\ M \subseteq Nodes /\ Null \notin Nodes /\ key \in [Nodes -> Nat]
      /\ \A a \in M : S[a] \subseteq M /\ a \in S[a]
    BY NullAssumption, SubtreeWithin DEF IsTree, Linked
<1>2. n \in A
    BY <1>1
<1>3. ASSUME NEW a \in A
      PROVE  /\ F[a] \in A
             /\ m[a] \in Nat
             /\ m[a] <= Cardinality(Nodes)
             /\ F[a] = a \/ Cardinality(S[F[a]]) < m[a]
             /\ F[a] = a => t.child[side][a] = Null
    <2> DEFINE c == t.child[side][a]
    <2>1. a \in M /\ a \in Nodes /\ a \in S[n] /\ Ahead(a) /\ m[a] = Cardinality(S[a])
        BY <1>1
    <2>2. F[a] = IF c = Null THEN a ELSE c
        BY <1>1, <2>1 DEF Pointers, ChildOf
    <2>3. m[a] \in Nat /\ m[a] <= Cardinality(Nodes)
        BY <2>1, SubtreeSize
    <2>4. CASE c = Null
        BY <2>1, <2>2, <2>3, <2>4
    <2>5. CASE c # Null
        <3>1. c \in M /\ S[c] \subseteq S[a] /\ c \in S[c] /\ Cardinality(S[c]) < Cardinality(S[a])
            BY <2>1, <2>5, ChildSubtree
        <3>2. S[a] \subseteq S[n]
            BY <2>1, SubtreeNested
        <3> DEFINE o == SubtreeOf(S, t.child[Opposite(side)][a])
        <3>3. S[a] = {a} \cup S[c] \cup o
            BY <2>1, <2>5, SubtreeSplit DEF SubtreeOf
        <3>4. \A b \in S[c] : OnSide(key, side, b, a)
            BY <2>1, <2>5 DEF SubtreeOf, IsTree, Ordered
        <3>5. \A b \in o : OnSide(key, side, a, b)
            <4>1. \A b \in o : OnSide(key, Opposite(side), b, a) /\ b \in Nodes
                BY <1>1, <2>1, <3>3, SidesAre DEF IsTree, Ordered
            <4> HIDE DEF o
            <4>2. QED
                BY <2>1, <4>1, OnSideOpposite
        <3> HIDE DEF o, c, F
        <3>6. Ahead(c)
            <4>1. SUFFICES ASSUME NEW b \in S[n] \ S[c], NEW e \in S[c]
                           PROVE  OnSide(key, side, e, b)
                OBVIOUS
            <4>2. b \in Nodes /\ e \in Nodes /\ e \in S[a]
                BY <1>1, <3>1
            <4>3. CASE b \notin S[a]
                BY <2>1, <4>2, <4>3
            <4>4. CASE b = a
                BY <3>4, <4>4
            <4>5. CASE b \in o
                BY <1>1, <2>1, <3>4, <3>5, <4>2, <4>5, OnSideTransitive
            <4>6. QED
                BY <3>3, <4>3, <4>4, <4>5
        <3>7. F[a] = c /\ c \in A
            BY <2>2, <2>5, <3>1, <3>2, <3>6
        <3>8. c # a
            BY <2>3, <2>1, <3>1
        <3>9. QED
            BY <2>1, <2>3, <3>1, <3>7, <3>8
    <2>6. QED
        BY <2>4, <2>5
<1> HIDE DEF F, A
<1>4. m \in [A -> Nat] /\ \A a \in A : F[a] \in A /\ (F[a] = a \/ m[F[a]] < m[a])
    BY <1>3
<1>5. m[n] <= Cardinality(Nodes)
    BY <1>2, <1>3
<1>6. y = Loop(F, n)
    BY DEF Outermost, F
<1>7. y \in A /\ F[y] = y
    <2> HIDE DEF m
    <2>1. QED
        BY <1>2, <1>4, <1>5, <1>6, LoopEnds
<1>8. y \in M /\ y \in S[n] /\ Ahead(y) /\ t.child[side][y] = Null
    BY <1>3, <1>7 DEF A
<1>9. ASSUME NEW b \in S[n] \ {y}
      PROVE  OnSide(key, side, y, b)
    <2>1. CASE b \notin S[y]
        BY <1>1, <1>8, <2>1
    <2>2. CASE b \in S[y]
        <3>1. b \in SubtreeOf(S, t.child[Opposite(side)][y])
            BY <1>8, <1>9, <2>2, SubtreeSplit DEF SubtreeOf
        <3>2. OnSide(key, Opposite(side), b, y)
            BY <1>8, <3>1, SidesAre DEF IsTree, Ordered
        <3>3. QED
            BY <1>1, <1>8, <1>9, <3>2, OnSideOpposite
    <2>3. QED
        BY <2>1, <2>2
<1>10. QED
    BY <1>8, <1>9

LEMMA OutermostOfNone ==
    ASSUME NEW t, NEW side
    PROVE  Outermost(t, Null, side) = Null
<1> DEFINE F == [at \in Pointers |-> IF ChildOf(t, at, side) = Null
                                       THEN at ELSE t.child[side][at]]
           m == [a \in {Null} |-> 0]
<1>1. F[Null] = Null
    BY DEF ChildOf, Pointers
<1>2. Outermost(t, Null, side) = Loop(F, Null)
    BY DEF Outermost
<1> HIDE DEF F
<1>3. \A r \in {Null} : F[r] \in {Null} /\ F[r] = r
    BY <1>1
<1>4. m \in [{Null} -> Nat] /\ m[Null] <= Cardinality(Nodes)
    BY FiniteAssumption, FS_CardinalityType
<1> HIDE DEF m
<1>5. Loop(F, Null) \in {Null}
    BY <1>3, <1>4, LoopEnds
<1>6. QED
    BY <1>2, <1>5

\* first: the least entity, if there is one
LEMMA FirstInEffect ==
    ASSUME NEW t, NEW M, NEW key, NEW S, IsTree(t, M, key, S)
    PROVE  /\ IsLeast(key, M, FirstIn(t))
           /\ t.root = Null <=> M = {}
<1>1. "left" \in Sides
    BY DEF Sides
<1>2. CASE t.root = Null
    <2>1. M = {}
        BY <1>2 DEF IsTree, Ordered, SubtreeOf
    <2>2. FirstIn(t) = Null
        BY <1>2, OutermostOfNone DEF FirstIn
    <2>3. QED
        BY <1>2, <2>1, <2>2 DEF IsLeast
<1>3. CASE t.root # Null
    <2>1. t.root \in M /\ S[t.root] = M
        BY <1>3 DEF IsTree, Ordered, SubtreeOf, Linked
    <2> DEFINE y == FirstIn(t)
    <2>2. y \in M /\ \A b \in M \ {y} : OnSide(key, "left", y, b)
        BY <1>1, <2>1, OutermostEffect DEF FirstIn
    <2> HIDE DEF y
    <2>3. IsLeast(key, M, y)
        BY <2>1, <2>2 DEF IsLeast, OnSide
    <2>4. QED
        BY <1>3, <2>1, <2>3 DEF y
<1>4. QED
    BY <1>2, <1>3

\* The entities outside a subtree are on one side of all of it.
LEMMA SubtreeInterval ==
    ASSUME NEW t, NEW M, NEW key, NEW S, IsTree(t, M, key, S)
    PROVE  \A a \in M : \A b \in M \ S[a] :
              \E d \in Sides : \A c \in S[a] : OnSide(key, d, c, b)
<1> DEFINE C == {a \in M : Gap(M, key, S, a, a)}
<1>1. /\ M \subseteq Nodes /\ Null \notin Nodes /\ key \in [Nodes -> Nat]
      /\ \A a \in M : S[a] \subseteq M /\ a \in S[a]
    BY NullAssumption, SubtreeWithin DEF IsTree, Linked
<1>2. t.root # Null => t.root \in C
    BY DEF Gap, IsTree, Ordered, SubtreeOf, Linked
<1>3. ASSUME NEW n \in M \cap C, NEW d \in Sides, t.child[d][n] # Null
      PROVE  t.child[d][n] \in C
    <2> DEFINE c == t.child[d][n]
    <2>1. c \in M /\ c \in S[c] /\ S[c] \subseteq S[n]
        BY <1>3, ChildSubtree
    <2>2. OnSide(key, d, c, n)
        BY <1>3, <2>1 DEF IsTree, Ordered, SubtreeOf
    <2>3. Gap(M, key, S, c, n)
        BY <2>1 DEF Gap
    <2>4. c \in Nodes
        BY <1>1, <2>1
    <2>5. Gap(M, key, S, c, c)
        BY <1>3, <2>2, <2>3, <2>4, GapDown
    <2>6. QED
        BY <2>1, <2>5
<1>4. M \subseteq C
    <2> HIDE DEF C
    <2>1. QED
        BY <1>2, <1>3, DownwardInduction
<1>5. QED
    BY <1>4 DEF Gap

\* The entities of the tree that come after n
Later(M, key, n) == {m \in M : Before(key, n, m)}

LEMMA BeforeTransitive ==
    ASSUME NEW key \in [Nodes -> Nat], NEW a \in Nodes, NEW b \in Nodes, NEW c \in Nodes,
           Before(key, a, b), Before(key, b, c)
    PROVE  Before(key, a, c)
BY OnSideTransitive DEF OnSide, Sides

LEMMA BeforeTotal ==
    ASSUME NEW key \in [Nodes -> Nat], NEW a \in Nodes, NEW b \in Nodes
    PROVE  /\ a = b \/ Before(key, a, b) \/ Before(key, b, a)
           /\ Before(key, a, b) => ~Before(key, b, a) /\ a # b
<1>1. "left" \in Sides
    BY DEF Sides
<1>2. a = b \/ OnSide(key, "left", a, b) \/ OnSide(key, "left", b, a)
    BY <1>1, OnSideTotal
<1>3. OnSide(key, "left", a, b) => ~OnSide(key, "left", b, a) /\ a # b
    BY <1>1, OnSideAsymmetric
<1>4. QED
    BY <1>2, <1>3 DEF OnSide

\* What is left and right of an entity, in terms of the order
LEMMA LeftAndRight ==
    ASSUME NEW t, NEW M, NEW key, NEW S, IsTree(t, M, key, S), NEW n \in M
    PROVE  /\ S[n] = {n} \cup SubtreeOf(S, t.child["left"][n])
                         \cup SubtreeOf(S, t.child["right"][n])
           /\ \A m \in SubtreeOf(S, t.child["left"][n]) : m \in M /\ Before(key, m, n)
           /\ \A m \in SubtreeOf(S, t.child["right"][n]) : m \in M /\ Before(key, n, m)
<1>1. "left" \in Sides /\ "right" \in Sides
    BY DEF Sides
<1>2. S[n] \subseteq M
    BY SubtreeWithin
<1>3. S[n] = {n} \cup SubtreeOf(S, t.child["left"][n]) \cup SubtreeOf(S, t.child["right"][n])
    BY DEF IsTree, Ordered
<1>4. /\ \A m \in SubtreeOf(S, t.child["left"][n]) : OnSide(key, "left", m, n)
      /\ \A m \in SubtreeOf(S, t.child["right"][n]) : OnSide(key, "right", m, n)
    BY <1>1 DEF IsTree, Ordered
<1>5. QED
    BY <1>2, <1>3, <1>4 DEF OnSide

\* An entity after one of the subtree and outside is after the whole of it.
LEMMA AfterSubtree ==
    ASSUME NEW t, NEW M, NEW key, NEW S, IsTree(t, M, key, S), NEW a \in M,
           NEW n \in S[a], NEW m \in M \ S[a], Before(key, n, m)
    PROVE  \A b \in S[a] : Before(key, b, m)
<1>1. PICK d \in Sides : \A c \in S[a] : OnSide(key, d, c, m)
    BY SubtreeInterval
<1>2. M \subseteq Nodes /\ S[a] \subseteq M /\ key \in [Nodes -> Nat]
    BY SubtreeWithin DEF IsTree, Linked
<1>3. d = "left"
    <2>1. SUFFICES ASSUME d = "right" PROVE FALSE
        BY DEF Sides
    <2>2. Before(key, m, n)
        BY <1>1, <2>1 DEF OnSide
    <2>3. QED
        BY <1>2, <2>2, BeforeTotal
<1>4. QED
    BY <1>1, <1>3 DEF OnSide

\* Climbing from an entity without right child: the first ancestor to the
\* right of it is the next one.
LEMMA ClimbEffect ==
    ASSUME NEW t, NEW M, NEW key, NEW S, IsTree(t, M, key, S),
           NEW n \in M, t.child["right"][n] = Null
    PROVE  IsLeast(key, Later(M, key, n), ClimbFromRight(t, n))
<1> DEFINE p == t.parent
           Last(a) == \A b \in S[a] \ {n} : Before(key, b, n)
           A == {a \in M : n \in S[a] /\ Last(a)}
           F == [at \in Nodes |-> IF at = ChildOf(t, p[at], "right") THEN p[at] ELSE at]
           N == Cardinality(Nodes)
           m == [a \in A |-> N + 1 - Cardinality(S[a])]
<1>1. /\ M \subseteq Nodes /\ Null \notin Nodes /\ key \in [Nodes -> Nat]
      /\ \A a \in M : S[a] \subseteq M /\ a \in S[a]
    BY NullAssumption, SubtreeWithin DEF IsTree, Linked
<1>2. n \in A
    BY <1>1, LeftAndRight DEF SubtreeOf
<1>3. "left" \in Sides /\ "right" \in Sides
    BY DEF Sides
<1>4. ASSUME NEW a \in A
      PROVE  /\ F[a] \in A
             /\ m[a] \in Nat
             /\ m[a] <= N
             /\ F[a] = a \/ N + 1 - Cardinality(S[F[a]]) < m[a]
             /\ F[a] = a => a # ChildOf(t, p[a], "right")
    <2>1. a \in M /\ a \in Nodes /\ n \in S[a] /\ Last(a) /\ m[a] = N + 1 - Cardinality(S[a])
        BY <1>1
    <2>2. Cardinality(S[a]) \in 1 .. N /\ N \in Nat
        BY <2>1, SubtreeSize
    <2>3. m[a] \in Nat /\ m[a] <= N
        BY <2>1, <2>2
    <2>4. F[a] = IF a = ChildOf(t, p[a], "right") THEN p[a] ELSE a
        BY <2>1
    <2> HIDE DEF F
    <2>5. CASE a # ChildOf(t, p[a], "right")
        BY <2>3, <2>4, <2>5
    <2>6. CASE a = ChildOf(t, p[a], "right")
        <3> DEFINE q == p[a]
        <3>1. q # Null /\ a # Null /\ a = t.child["right"][q]
            BY <1>1, <2>1, <2>6 DEF ChildOf
        <3>2. a # t.root
            BY <2>1, <3>1, RootHasNoParent
        <3>3. q \in M /\ q # a
            BY <2>1, <3>2, ParentSide
        <3>4. Cardinality(S[a]) < Cardinality(S[q]) /\ S[a] \subseteq S[q]
            BY <1>3, <3>1, <3>3, ChildSubtree
        <3>5. Cardinality(S[q]) \in 1 .. N
            BY <3>3, SubtreeSize
        <3>6. Last(q)
            <4> DEFINE L == SubtreeOf(S, t.child["left"][q])
            <4>1. /\ S[q] = {q} \cup L \cup S[a]
                  /\ \A b \in L : b \in M /\ Before(key, b, q)
                  /\ \A b \in S[a] : Before(key, q, b)
                BY <3>1, <3>3, LeftAndRight DEF SubtreeOf
            <4>2. SUFFICES ASSUME NEW b \in S[q] \ {n} PROVE Before(key, b, n)
                OBVIOUS
            <4>3. q \in Nodes /\ n \in Nodes /\ b \in Nodes
                BY <1>1, <3>3
            <4> HIDE DEF L, q
            <4>4. CASE b \in S[a]
                BY <2>1, <4>4
            <4>5. CASE b = q
                BY <2>1, <4>1, <4>5
            <4>6. CASE b \in L
                BY <1>1, <2>1, <4>1, <4>3, <4>6, BeforeTransitive
            <4>7. QED
                BY <4>1, <4>4, <4>5, <4>6
        <3>7. q \in A
            BY <2>1, <3>3, <3>4, <3>6
        <3> HIDE DEF q
        <3>8. F[a] = q
            BY <2>4, <2>6 DEF q
        <3>9. QED
            BY <2>1, <2>2, <2>3, <3>3, <3>4, <3>5, <3>7, <3>8
    <2>7. QED
        BY <2>5, <2>6
<1>5. ClimbFromRight(t, n) = p[Loop(F, n)]
    BY DEF ClimbFromRight
<1> HIDE DEF F, A
<1>6. m \in [A -> Nat] /\ \A a \in A : F[a] \in A /\ (F[a] = a \/ m[F[a]] < m[a])
    BY <1>4
<1>7. m[n] <= N
    BY <1>2, <1>4
<1> DEFINE e == Loop(F, n)
<1>8. e \in A /\ F[e] = e
    <2> HIDE DEF m
    <2>1. QED
        BY <1>2, <1>6, <1>7, LoopEnds
<1>9. e \in M /\ n \in S[e] /\ Last(e) /\ e # ChildOf(t, p[e], "right")
    BY <1>4, <1>8 DEF A
<1> HIDE DEF e
<1>10. \A b \in Later(M, key, n) : b \in M /\ b \notin S[e] /\ Before(key, n, b) /\ b # n
    <2>1. SUFFICES ASSUME NEW b \in M, Before(key, n, b) PROVE b \notin S[e] /\ b # n
        BY DEF Later
    <2>2. b \in Nodes /\ n \in Nodes
        BY <1>1
    <2>3. ~Before(key, b, n) /\ b # n
        BY <1>1, <2>1, <2>2, BeforeTotal
    <2>4. QED
        BY <1>9, <2>3
<1>11. CASE e = t.root
    <2>1. S[e] = M /\ p[e] = Null
        BY <1>1, <1>9, <1>11 DEF IsTree, Ordered, Linked, SubtreeOf
    <2>2. Later(M, key, n) = {}
        BY <1>10, <2>1
    <2>3. QED
        BY <1>5, <2>1, <2>2 DEF IsLeast, e
<1>12. CASE e # t.root
    <2> DEFINE q == p[e]
    <2>1. q \in M /\ SideOf(t, q, e) \in Sides /\ t.child[SideOf(t, q, e)][q] = e
        BY <1>9, <1>12, ParentSide
    <2>2. SideOf(t, q, e) = "left"
        BY <1>1, <1>9, <2>1 DEF ChildOf, Sides
    <2>3. t.child["left"][q] = e /\ e # Null
        BY <1>1, <1>9, <2>1, <2>2
    <2> DEFINE R == SubtreeOf(S, t.child["right"][q])
    <2>4. /\ S[q] = {q} \cup S[e] \cup R
          /\ \A b \in S[e] : Before(key, b, q)
          /\ \A b \in R : Before(key, q, b)
        BY <2>1, <2>3, LeftAndRight DEF SubtreeOf
    <2> HIDE DEF q, R
    <2>5. q \in Later(M, key, n)
        BY <1>9, <2>1, <2>4 DEF Later
    <2>6. ASSUME NEW b \in Later(M, key, n) \ {q}
          PROVE  Before(key, q, b)
        <3>1. b \in M /\ b \notin S[e] /\ Before(key, n, b)
            BY <1>10
        <3>2. CASE b \in S[q]
            BY <2>4, <2>6, <3>1, <3>2
        <3>3. CASE b \notin S[q]
            BY <1>1, <1>9, <2>1, <2>4, <3>1, <3>3, AfterSubtree
        <3>4. QED
            BY <3>2, <3>3
    <2>7. IsLeast(key, Later(M, key, n), q)
        BY <2>5, <2>6 DEF IsLeast
    <2>8. QED
        BY <1>5, <2>7 DEF e, q
<1>13. QED
    BY <1>11, <1>12

\* next: the least entity after n
LEMMA NextInEffect ==
    ASSUME NEW t, NEW M, NEW key, NEW S, IsTree(t, M, key, S), NEW n \in M
    PROVE  IsLeast(key, Later(M, key, n), NextIn(t, n))
<1>1. CASE t.child["right"][n] = Null
    BY <1>1, ClimbEffect DEF NextIn
<1>2. CASE t.child["right"][n] # Null
    <2> DEFINE c == t.child["right"][n]
               y == Outermost(t, c, "left")
               L == SubtreeOf(S, t.child["left"][n])
    <2>1. "left" \in Sides /\ "right" \in Sides
        BY DEF Sides
    <2>2. c \in M /\ c \in S[c]
        BY <1>2, <2>1, ChildSubtree
    <2>3. y \in M /\ y \in S[c] /\ \A b \in S[c] \ {y} : OnSide(key, "left", y, b)
        BY <2>1, <2>2, OutermostEffect
    <2>4. /\ S[n] = {n} \cup L \cup S[c]
          /\ \A m \in L : m \in M /\ Before(key, m, n)
          /\ \A m \in S[c] : m \in M /\ Before(key, n, m)
        BY <1>2, LeftAndRight DEF SubtreeOf
    <2>5. NextIn(t, n) = y
        BY <1>2 DEF NextIn
    <2>6. M \subseteq Nodes /\ key \in [Nodes -> Nat]
        BY DEF IsTree, Linked
    <2> HIDE DEF c, y, L
    <2>7. y \in Later(M, key, n)
        BY <2>3, <2>4 DEF Later
    <2>8. ASSUME NEW b \in Later(M, key, n) \ {y}
          PROVE  Before(key, y, b)
        <3>1. b \in M /\ Before(key, n, b)
            BY DEF Later
        <3>2. ~Before(key, b, n) /\ b # n
            BY <2>6, <3>1, BeforeTotal
        <3>3. CASE b \in S[c]
            BY <2>3, <2>8, <3>3 DEF OnSide
        <3>4. CASE b \notin S[c]
            <4>1. b \notin S[n] /\ n \in S[n] /\ y \in S[n]
                BY <2>3, <2>4, <3>2, <3>4
            <4>2. QED
                BY <3>1, <4>1, AfterSubtree
        <3>5. QED
            BY <3>3, <3>4
    <2>9. QED
        BY <2>5, <2>7, <2>8 DEF IsLeast
<1>3. QED
    BY <1>1, <1>2

\* The search of upper_bound has not missed the entity after n.
Searching(M, key, S, n, s) ==
    /\ s.candidate # Null => s.candidate \in Later(M, key, n)
    /\ s.candidate # Null => \A m \in SubtreeOf(S, s.at) : Before(key, m, s.candidate)
    /\ \A m \in Later(M, key, n) :
          \/ m \in SubtreeOf(S, s.at)
          \/ s.candidate # Null /\ (m = s.candidate \/ Before(key, s.candidate, m))

LEMMA UpperBoundStepEffect ==
    ASSUME NEW t, NEW M, NEW key, NEW S, IsTree(t, M, key, S), NEW n \in Nodes,
           NEW a \in M, NEW c \in M \cup {Null},
           Searching(M, key, S, n, [at |-> a, candidate |-> c]),
           NEW r, r = UpperBoundStep(t, key, n, [at |-> a, candidate |-> c])
    PROVE  /\ r = [at |-> r.at, candidate |-> r.candidate]
           /\ r.at \in M \cup {Null} /\ r.candidate \in M \cup {Null}
           /\ Cardinality(SubtreeOf(S, r.at)) < Cardinality(S[a])
           /\ Searching(M, key, S, n, r)
<1> DEFINE L == SubtreeOf(S, t.child["left"][a])
           R == SubtreeOf(S, t.child["right"][a])
           U == Later(M, key, n)
<1>1. M \subseteq Nodes /\ Null \notin Nodes /\ key \in [Nodes -> Nat] /\ a \in Nodes /\ a # Null
    BY NullAssumption DEF IsTree, Linked
<1>2. /\ S[a] = {a} \cup L \cup R
      /\ \A m \in L : m \in M /\ Before(key, m, a)
      /\ \A m \in R : m \in M /\ Before(key, a, m)
    BY LeftAndRight
<1>3. SubtreeOf(S, a) = S[a]
    BY <1>1 DEF SubtreeOf
<1>4. "left" \in Sides /\ "right" \in Sides
    BY DEF Sides
<1>5. \A d \in Sides : t.child[d][a] \in M \cup {Null}
    BY DEF IsTree, Linked
<1>6. \A d \in Sides : Cardinality(SubtreeOf(S, t.child[d][a])) < Cardinality(S[a])
    <2>1. SUFFICES ASSUME NEW d \in Sides
                   PROVE  Cardinality(SubtreeOf(S, t.child[d][a])) < Cardinality(S[a])
        OBVIOUS
    <2>2. CASE t.child[d][a] # Null
        BY <2>2, ChildSubtree DEF SubtreeOf
    <2>3. CASE t.child[d][a] = Null
        <3>1. Cardinality(SubtreeOf(S, t.child[d][a])) = 0
            BY <2>3, FS_EmptySet DEF SubtreeOf
        <3>2. QED
            BY <3>1, SubtreeSize
    <2>4. QED
        BY <2>2, <2>3
<1>7. \A m \in U : m \in M /\ m \in Nodes /\ Before(key, n, m)
    BY <1>1 DEF Later
<1>8. /\ c # Null => c \in U /\ c \in Nodes
      /\ c # Null => \A m \in S[a] : Before(key, m, c)
      /\ \A m \in U : m \in S[a] \/ (c # Null /\ (m = c \/ Before(key, c, m)))
    BY <1>3, <1>7 DEF Searching
<1>9. CASE Before(key, n, a)
    <2>1. r = [at |-> t.child["left"][a], candidate |-> a]
        BY <1>1, <1>9 DEF UpperBoundStep
    <2>2. a \in U
        BY <1>9 DEF Later
    <2>3. ASSUME NEW m \in U PROVE m \in L \/ m = a \/ Before(key, a, m)
        <3>1. CASE m \in S[a]
            BY <1>2, <3>1
        <3>2. CASE m \notin S[a]
            <4>1. c # Null /\ (m = c \/ Before(key, c, m)) /\ Before(key, a, c)
                BY <1>2, <1>8, <3>2
            <4>2. QED
                BY <1>1, <1>7, <1>8, <4>1, BeforeTransitive
        <3>3. QED
            BY <3>1, <3>2
    <2>4. Searching(M, key, S, n, r)
        BY <1>1, <1>2, <2>1, <2>2, <2>3 DEF Searching
    <2>5. QED
        BY <1>4, <1>5, <1>6, <2>1, <2>4
<1>10. CASE ~Before(key, n, a)
    <2>1. r = [at |-> t.child["right"][a], candidate |-> c]
        BY <1>1, <1>10 DEF UpperBoundStep
    <2>2. ASSUME NEW m \in U PROVE m \in R \/ (c # Null /\ (m = c \/ Before(key, c, m)))
        <3>1. CASE m \in L
            <4>1. Before(key, n, a)
                BY <1>1, <1>2, <1>7, <3>1, BeforeTransitive
            <4>2. QED
                BY <1>10, <4>1
        <3>2. CASE m = a
            BY <1>7, <1>10, <3>2
        <3>3. QED
            BY <1>2, <1>8, <3>1, <3>2
    <2>3. c # Null => \A m \in R : Before(key, m, c)
        BY <1>2, <1>8
    <2>4. Searching(M, key, S, n, r)
        BY <1>8, <2>1, <2>2, <2>3 DEF Searching
    <2>5. QED
        BY <1>4, <1>5, <1>6, <2>1, <2>4
<1>11. QED
    BY <1>9, <1>10

\* upper_bound: the least entity after n, which need not be in this tree
LEMMA UpperBoundEffect ==
    ASSUME NEW t, NEW M, NEW key, NEW S, IsTree(t, M, key, S), NEW n \in Nodes
    PROVE  IsLeast(key, Later(M, key, n), UpperBound(t, key, n))
<1> DEFINE Z == [at : M \cup {Null}, candidate : M \cup {Null}]
           A == {s \in Z : Searching(M, key, S, n, s)}
           F == [s \in [at : Pointers, candidate : Pointers] |-> UpperBoundStep(t, key, n, s)]
           N == Cardinality(Nodes)
           m == [s \in A |-> Cardinality(SubtreeOf(S, s.at))]
           s0 == [at |-> t.root, candidate |-> Null]
           U == Later(M, key, n)
<1>1. M \subseteq Nodes /\ Null \notin Nodes /\ key \in [Nodes -> Nat] /\ N \in Nat
    BY NullAssumption, FiniteAssumption, FS_CardinalityType DEF IsTree, Linked
<1>2. t.root \in M \cup {Null} /\ SubtreeOf(S, t.root) = M
    BY DEF IsTree, Linked, Ordered
<1>3. s0 \in A
    BY <1>1, <1>2 DEF Searching, Later
<1>4. ASSUME NEW s \in A
      PROVE  /\ F[s] \in A
             /\ m[s] \in Nat
             /\ m[s] <= N
             /\ F[s] = s \/ Cardinality(SubtreeOf(S, F[s].at)) < m[s]
             /\ F[s] = s => s.at = Null
    <2>1. /\ s.at \in M \cup {Null} /\ s.candidate \in M \cup {Null}
          /\ s = [at |-> s.at, candidate |-> s.candidate]
          /\ Searching(M, key, S, n, s)
        OBVIOUS
    <2>2. F[s] = UpperBoundStep(t, key, n, s)
        BY <1>1, <2>1 DEF Pointers
    <2>3. m[s] = Cardinality(SubtreeOf(S, s.at))
        OBVIOUS
    <2>4. CASE s.at = Null
        <3>1. F[s] = s
            BY <2>2, <2>4 DEF UpperBoundStep
        <3>2. m[s] = 0
            BY <2>3, <2>4, FS_EmptySet DEF SubtreeOf
        <3>3. QED
            BY <1>1, <2>4, <3>1, <3>2
    <2>5. CASE s.at # Null
        <3> HIDE DEF F
        <3>1. s.at \in M /\ SubtreeOf(S, s.at) = S[s.at]
            BY <2>1, <2>5 DEF SubtreeOf
        <3>2. /\ F[s] = [at |-> F[s].at, candidate |-> F[s].candidate]
              /\ F[s].at \in M \cup {Null} /\ F[s].candidate \in M \cup {Null}
              /\ Cardinality(SubtreeOf(S, F[s].at)) < Cardinality(S[s.at])
              /\ Searching(M, key, S, n, F[s])
            BY <2>1, <2>2, <3>1, UpperBoundStepEffect
        <3>3. Cardinality(S[s.at]) \in 1 .. N
            BY <3>1, SubtreeSize
        <3>4. F[s] \in Z
            BY <3>2
        <3>5. F[s] # s
            BY <3>1, <3>2, <3>3
        <3>6. QED
            BY <1>1, <2>3, <3>1, <3>2, <3>3, <3>4, <3>5
    <2>6. QED
        BY <2>4, <2>5
<1>5. UpperBound(t, key, n) = Loop(F, s0).candidate
    BY DEF UpperBound
<1> HIDE DEF F, A
<1>6. m \in [A -> Nat] /\ \A s \in A : F[s] \in A /\ (F[s] = s \/ m[F[s]] < m[s])
    BY <1>4
<1>7. m[s0] <= N
    BY <1>3, <1>4
<1> DEFINE e == Loop(F, s0)
<1>8. e \in A /\ F[e] = e
    <2> HIDE DEF m, s0
    <2>1. QED
        BY <1>3, <1>6, <1>7, LoopEnds
<1>9. e.at = Null /\ Searching(M, key, S, n, e)
    BY <1>4, <1>8 DEF A
<1> HIDE DEF e
<1> DEFINE c == e.candidate
<1>10. /\ c # Null => c \in U
       /\ \A b \in U : c # Null /\ (b = c \/ Before(key, c, b))
    BY <1>9 DEF Searching, SubtreeOf
<1> HIDE DEF c, U
<1>11. IsLeast(key, U, c)
    BY <1>10 DEF IsLeast
<1>12. QED
    BY <1>5, <1>11 DEF U, c, e

\* contains: the walk from first along next finds n if and only if it is there.
LEMMA ContainsInEffect ==
    ASSUME NEW t, NEW M, NEW key, NEW S, IsTree(t, M, key, S), NEW n \in Nodes
    PROVE  ContainsIn(t, n) <=> n \in M
<1> DEFINE A == {a \in M \cup {Null} : n \in M => a \in M /\ ~Before(key, n, a)}
           F == [at \in Pointers |-> IF at \in {Null, n} THEN at ELSE NextIn(t, at)]
           N == Cardinality(Nodes)
           m == [a \in A |-> IF a = Null THEN 0 ELSE Cardinality({a} \cup Later(M, key, a))]
           f == FirstIn(t)
<1>1. /\ M \subseteq Nodes /\ Null \notin Nodes /\ key \in [Nodes -> Nat] /\ N \in Nat
      /\ Null \notin M
    BY NullAssumption, FiniteAssumption, FS_CardinalityType DEF IsTree, Linked
<1>2. IsLeast(key, M, f)
    BY FirstInEffect
<1>3. f \in A
    <2>1. CASE M = {}
        BY <1>2, <2>1 DEF IsLeast
    <2>2. CASE M # {}
        <3>1. f \in M /\ \A b \in M \ {f} : Before(key, f, b)
            BY <1>2, <2>2 DEF IsLeast
        <3> HIDE DEF f
        <3>2. n \in M => ~Before(key, n, f)
            BY <1>1, <3>1, BeforeTotal
        <3>3. QED
            BY <3>1, <3>2
    <2>3. QED
        BY <2>1, <2>2
<1> HIDE DEF f
<1>4. ASSUME NEW a \in A
      PROVE  /\ F[a] \in A
             /\ m[a] \in Nat
             /\ m[a] <= N
             /\ F[a] = a \/ (IF F[a] = Null THEN 0
                             ELSE Cardinality({F[a]} \cup Later(M, key, F[a]))) < m[a]
             /\ F[a] = a => a \in {Null, n}
    <2>1. a \in M \cup {Null} /\ (n \in M => a \in M /\ ~Before(key, n, a))
        OBVIOUS
    <2>2. F[a] = IF a \in {Null, n} THEN a ELSE NextIn(t, a)
        BY <1>1, <2>1 DEF Pointers
    <2>3. m[a] = IF a = Null THEN 0 ELSE Cardinality({a} \cup Later(M, key, a))
        OBVIOUS
    <2> HIDE DEF F
    <2>4. \A b \in M : /\ IsFiniteSet({b} \cup Later(M, key, b))
                       /\ Cardinality({b} \cup Later(M, key, b)) \in Nat
                       /\ Cardinality({b} \cup Later(M, key, b)) <= N
        <3>1. SUFFICES ASSUME NEW b \in M
                       PROVE  /\ IsFiniteSet({b} \cup Later(M, key, b))
                              /\ Cardinality({b} \cup Later(M, key, b)) \in Nat
                              /\ Cardinality({b} \cup Later(M, key, b)) <= N
            OBVIOUS
        <3>2. {b} \cup Later(M, key, b) \subseteq Nodes
            BY <1>1 DEF Later
        <3>3. QED
            BY <3>2, FiniteAssumption, FS_Subset, FS_CardinalityType
    <2>5. m[a] \in Nat /\ m[a] <= N
        BY <1>1, <2>1, <2>3, <2>4
    <2>6. CASE a \in {Null, n}
        BY <2>2, <2>5, <2>6
    <2>7. CASE a \notin {Null, n}
        <3> DEFINE b == NextIn(t, a)
        <3>1. a \in M /\ F[a] = b /\ m[a] = Cardinality({a} \cup Later(M, key, a))
            BY <2>1, <2>2, <2>3, <2>7
        <3>2. IsLeast(key, Later(M, key, a), b)
            BY <3>1, NextInEffect
        <3> HIDE DEF b
        <3>3. n \in M => n \in Later(M, key, a)
            BY <1>1, <2>1, <2>7, BeforeTotal DEF Later
        <3>4. CASE Later(M, key, a) = {}
            <4>1. b = Null /\ n \notin M
                BY <3>2, <3>3, <3>4 DEF IsLeast
            <4>2. Cardinality({a} \cup Later(M, key, a)) # 0
                BY <2>4, <3>1, FS_EmptySet
            <4>3. b # a /\ m[a] > 0
                BY <2>4, <2>7, <3>1, <4>1, <4>2
            <4>4. QED
                BY <2>5, <3>1, <4>1, <4>3
        <3>5. CASE Later(M, key, a) # {}
            <4>1. /\ b \in M /\ Before(key, a, b) /\ b # Null
                  /\ \A c \in Later(M, key, a) \ {b} : Before(key, b, c)
                BY <1>1, <3>2, <3>5 DEF IsLeast, Later
            <4>2. b # a
                BY <1>1, <3>1, <4>1, BeforeTotal
            <4>3. n \in M => ~Before(key, n, b)
                BY <1>1, <3>3, <4>1, BeforeTotal
            <4>4. {b} \cup Later(M, key, b) \subseteq {a} \cup Later(M, key, a)
                BY <1>1, <3>1, <4>1, BeforeTransitive DEF Later
            <4>5. a \notin {b} \cup Later(M, key, b)
                BY <1>1, <3>1, <4>1, <4>2, BeforeTotal DEF Later
            <4>6. {b} \cup Later(M, key, b) # {a} \cup Later(M, key, a)
                BY <4>5
            <4>7. Cardinality({b} \cup Later(M, key, b)) < Cardinality({a} \cup Later(M, key, a))
                BY <2>4, <3>1, <4>1, <4>4, <4>6, FS_Subset
            <4>8. QED
                BY <2>5, <3>1, <4>1, <4>2, <4>3, <4>7
        <3>6. QED
            BY <3>4, <3>5
    <2>8. QED
        BY <2>6, <2>7
<1>5. ContainsIn(t, n) <=> n = Loop(F, f)
    BY DEF ContainsIn, f
<1> HIDE DEF F, A
<1>6. m \in [A -> Nat] /\ \A a \in A : F[a] \in A /\ (F[a] = a \/ m[F[a]] < m[a])
    BY <1>4
<1>7. m[f] <= N
    BY <1>3, <1>4
<1> DEFINE e == Loop(F, f)
<1>8. e \in A /\ F[e] = e
    <2> HIDE DEF m
    <2>1. QED
        BY <1>3, <1>6, <1>7, LoopEnds
<1> HIDE DEF e
<1>9. e \in {Null, n} /\ (n \in M => e \in M) /\ (e \in M \cup {Null})
    BY <1>4, <1>8 DEF A
<1>10. QED
    BY <1>1, <1>5, <1>9 DEF e

-----------------------------------------------------------------------------
(* Removal.                                                                *)

\* One if the ways down on side d of n are a black entity short.
Short(p, e, n, d) == IF n = p /\ d = e THEN 1 ELSE 0

\* H[n] is the number of black entities on every way down from n, those below p
\* on side e counted one more than they have.
ShortHeights(t, M, H, p, e) ==
    /\ H \in [Nodes -> Nat]
    /\ \A n \in M, d \in Sides :
          H[n] = HeightOf(H, t.child[d][n]) + BlackCount(t, n) + Short(p, e, n, d)

\* A red-black tree, but for the black entity missing below p on side e
OneShort(t, M, key, S, H, p, e) ==
    /\ IsTree(t, M, key, S)
    /\ ShortHeights(t, M, H, p, e)
    /\ RedOnlyAt(t, M, Null, Null)
    /\ ColorOf(t, t.root) = "black"

\* With p null nothing is missing.
LEMMA NoneShort ==
    ASSUME NEW t, NEW M, NEW key, NEW S, NEW H, NEW e
    PROVE  /\ t \in Trees /\ M \subseteq Nodes =>
                 (ShortHeights(t, M, H, Null, e) <=> Heights(t, M, H))
           /\ OneShort(t, M, key, S, H, Null, e) <=> IsRedBlack(t, M, key, S, H)
<1>1. ASSUME t \in Trees, M \subseteq Nodes
      PROVE  ShortHeights(t, M, H, Null, e) <=> Heights(t, M, H)
    <2>1. \A n \in M, d \in Sides : Short(Null, e, n, d) = 0
        BY <1>1, NullAssumption DEF Short
    <2>2. \A n \in M : BlackCount(t, n) \in {0, 1}
        BY DEF BlackCount
    <2>3. ASSUME ShortHeights(t, M, H, Null, e)
          PROVE  Heights(t, M, H)
        <3>1. SUFFICES ASSUME NEW n \in M, NEW d \in Sides
                       PROVE  H[n] = HeightOf(H, t.child[d][n]) + BlackCount(t, n)
            BY <2>3 DEF Heights, ShortHeights
        <3>2. H[n] = HeightOf(H, t.child[d][n]) + BlackCount(t, n) + 0
            BY <2>1, <2>3 DEF ShortHeights
        <3>3. HeightOf(H, t.child[d][n]) \in Nat
            BY <1>1, <2>3, TreeFields DEF HeightOf, ShortHeights
        <3>4. QED
            BY <2>2, <3>2, <3>3
    <2>4. ASSUME Heights(t, M, H)
          PROVE  ShortHeights(t, M, H, Null, e)
        <3>1. SUFFICES ASSUME NEW n \in M, NEW d \in Sides
                       PROVE  H[n] = HeightOf(H, t.child[d][n]) + BlackCount(t, n) + 0
            BY <2>1, <2>4 DEF Heights, ShortHeights
        <3>2. H[n] = HeightOf(H, t.child[d][n]) + BlackCount(t, n) /\ H[n] \in Nat
            BY <1>1, <2>4 DEF Heights
        <3>3. QED
            BY <3>2
    <2>5. QED
        BY <2>3, <2>4
<1>2. QED
    BY <1>1 DEF OneShort, IsRedBlack, IsTree, Linked

\* b is t but for colours within M.
Repainted(t, M, b) ==
    /\ b \in Trees
    /\ b.root = t.root /\ b.len = t.len /\ b.parent = t.parent /\ b.child = t.child
    /\ \A n \in Nodes \ M : b.color[n] = t.color[n]

LEMMA RepaintedTree ==
    ASSUME NEW t, NEW M, NEW key, NEW S, IsTree(t, M, key, S), NEW b, Repainted(t, M, b)
    PROVE  IsTree(b, M, key, S) /\ SameOutside(t, M, b)
<1>1. b.root = t.root /\ b.parent = t.parent /\ b.child = t.child /\ b \in Trees
    BY DEF Repainted
<1>2. Linked(b, M)
    BY <1>1 DEF IsTree, Linked
<1>3. Ordered(b, M, key, S)
    BY <1>1 DEF IsTree, Ordered
<1>4. QED
    BY <1>1, <1>2, <1>3 DEF IsTree, SameOutside, Repainted

\* The recoloured entities and heights of a rotation that brings y up above a:
\* f is the child y keeps.
TurnHeights(t, M, H, b, K, a, side, y, f, p, e, q, g) ==
    /\ K \in [Nodes -> Nat]
    /\ \A n \in M \ {a, y, f} : K[n] = H[n]
    /\ K[y] = H[a]
    /\ f # Null => K[f] + BlackCount(t, f) = H[f] + BlackCount(b, f)
    /\ K[a] = HeightOf(K, t.child[side][a]) + BlackCount(b, a) + Short(q, g, a, side)
    /\ K[a] = HeightOf(K, t.child[side][y]) + BlackCount(b, a) + Short(q, g, a, Opposite(side))
    /\ K[y] = K[a] + BlackCount(b, y) + Short(q, g, y, side)
    /\ K[y] = HeightOf(K, f) + BlackCount(b, y) + Short(q, g, y, Opposite(side))
    /\ \A n \in M \ {a, y}, d \in Sides : Short(q, g, n, d) = Short(p, e, n, d)
    /\ p # f

TurnColors(t, M, b, a, side, y, f) ==
    /\ \A n \in M \ {a, y, f} : b.color[n] = t.color[n]
    /\ b.color[a] = "red" => /\ ColorOf(t, t.child[side][a]) = "black"
                             /\ ColorOf(t, t.child[side][y]) = "black"
    /\ b.color[y] = "red" => /\ b.color[a] = "black"
                             /\ ColorOf(b, f) = "black"
                             /\ t.color[a] = "red"
    /\ f # Null /\ b.color[f] = "red" => t.color[f] = "red"

\* Where everything hangs after the rotation
LEMMA TurnSite ==
    ASSUME NEW t, NEW M, NEW key, NEW S, IsTree(t, M, key, S),
           NEW b, Repainted(t, M, b),
           NEW side \in Sides, NEW a \in M, NEW y, y = t.child[Opposite(side)][a], y # Null,
           NEW f, f = t.child[Opposite(side)][y],
           NEW r, r = Rotate(b, a, side)
    PROVE  /\ IsTree(r, M, key, RotatedSubtrees(b, S, a, side, y))
           /\ SameOutside(t, M, r)
           /\ r.color = b.color
           /\ r.root = IF a = t.root THEN y ELSE t.root
           /\ r.child[side][a] = t.child[side][a]
           /\ r.child[Opposite(side)][a] = t.child[side][y]
           /\ r.child[side][y] = a
           /\ r.child[Opposite(side)][y] = f
           /\ \A n \in M \ {a, y}, d \in Sides :
                 \/ r.child[d][n] = t.child[d][n] /\ t.child[d][n] \notin {a, y}
                 \/ r.child[d][n] = y /\ t.child[d][n] = a
           /\ y \in M /\ y # a /\ y # t.root /\ f # t.root
           /\ t.child[side][a] \notin {a, y}
           /\ t.child[side][y] \notin {a, y}
           /\ f \notin {a, y}
           /\ f # Null => /\ f \in M
                          /\ t.child[side][a] # f
                          /\ t.child[side][y] # f
                          /\ \A n \in M \ {y}, d \in Sides : t.child[d][n] # f
           /\ \A d \in Sides : f # Null => t.child[d][f] \notin {a, y, f}
           /\ r.parent[a] = y
<1> DEFINE opp == Opposite(side)
<1>1. /\ IsTree(b, M, key, S) /\ SameOutside(t, M, b)
      /\ b.child = t.child /\ b.parent = t.parent /\ b.root = t.root
    BY RepaintedTree DEF Repainted
<1>2. opp \in Sides /\ opp # side /\ \A d \in Sides : d = side \/ d = opp
    BY SidesAre
<1>3. M \subseteq Nodes /\ Null \notin Nodes
    BY NullAssumption DEF IsTree, Linked
<1>4. y = b.child[opp][a]
    BY <1>1
<1>5. /\ IsTree(r, M, key, RotatedSubtrees(b, S, a, side, y))
      /\ SameOutside(b, M, r)
      /\ Rotated(b, a, side, y, r)
    BY <1>1, <1>4, RotateTree, RotateOutside, RotateSite
<1>6. /\ r.child[opp][a] = t.child[side][y] /\ r.child[side][a] = t.child[side][a]
      /\ r.child[side][y] = a /\ r.child[opp][y] = f
      /\ \A n \in M \ {a, y}, d \in Sides :
            \/ r.child[d][n] = t.child[d][n] /\ t.child[d][n] \notin {a, y}
            \/ r.child[d][n] = y /\ t.child[d][n] = a
    BY <1>1, <1>4, RotateChildren
<1>7. SameOutside(t, M, r)
    BY <1>1, <1>5, SameOutsideTransitive
<1>8. /\ y \in M /\ y # a /\ t.parent[y] = a
      /\ t.child[side][y] \notin {a, y} /\ t.parent[a] \notin {a, y}
    BY RotateSite
<1>9. y # t.root
    BY <1>3, <1>8, RootHasNoParent
<1>10. r.root = IF a = t.root THEN y ELSE t.root
    BY <1>1, <1>5, RootHasNoParent DEF Rotated
<1>11. r.color = b.color /\ r.parent[a] = y
    BY <1>3, <1>5 DEF Rotated
<1>12. t.child[side][a] \notin {a, y}
    <2>1. CASE t.child[side][a] = Null
        BY <1>3, <2>1
    <2>2. CASE t.child[side][a] # Null
        <3>1. t.child[side][a] # y
            BY <2>2, ChildrenDiffer
        <3>2. t.child[side][a] # a
            BY <2>2, ChildSubtree
        <3>3. QED
            BY <3>1, <3>2
    <2>3. QED
        BY <2>1, <2>2
<1>13. f # Null => f \in M /\ t.parent[f] = y
    BY <1>2, <1>8, ChildSubtree
<1>14. f \notin {a, y}
    BY <1>2, <1>3, <1>8, <1>13, ChildSubtree
<1>15. f # t.root
    <2>1. t.root # Null
        BY <1>1, <1>3 DEF IsTree, Ordered, SubtreeOf
    <2>2. QED
        BY <1>3, <1>8, <1>13, <2>1, RootHasNoParent
<1>16. f # Null => \A n \in M \ {y}, d \in Sides : t.child[d][n] # f
    BY <1>13, ChildSubtree
<1>17. f # Null => t.child[side][a] # f /\ t.child[side][y] # f
    BY <1>2, <1>8, <1>16, ChildrenDiffer
<1>18. ASSUME f # Null, NEW d \in Sides PROVE t.child[d][f] \notin {a, y, f}
    <2>1. f \in M /\ t.parent[f] = y
        BY <1>13, <1>18
    <2>2. t.child[d][f] # Null => t.parent[t.child[d][f]] = f
        BY <2>1, ChildSubtree, SMTT(30)
    <2>3. t.child[d][f] # f /\ t.child[d][f] # y
        BY <1>3, <1>8, <1>14, <2>1, <2>2
    <2>4. t.child[d][f] # a
        <3>1. SUFFICES ASSUME t.child[d][f] = a PROVE FALSE
            OBVIOUS
        <3>2. S[a] \subseteq S[f] /\ S[f] \subseteq S[y] /\ S[y] \subseteq S[a]
            BY <1>2, <1>3, <1>8, <2>1, <3>1, <1>18, ChildSubtree, SMTT(30)
        <3>3. a \notin S[y] /\ a \in S[a]
            BY <1>2, ChildSubtree
        <3>4. QED
            BY <3>2, <3>3
    <2>5. QED
        BY <2>3, <2>4
<1>19. QED
    BY <1>5, <1>6, <1>7, <1>8, <1>9, <1>10, <1>11, <1>12, <1>13, <1>14, <1>15, <1>16, <1>17, <1>18

\* A rotation of a tree that is one short, with the right colours, leaves it one
\* short, at the same place or at another.
LEMMA Turn ==
    ASSUME NEW t, NEW M, NEW key, NEW S, NEW H, NEW p, NEW e,
           OneShort(t, M, key, S, H, p, e),
           NEW b, Repainted(t, M, b),
           NEW side \in Sides, NEW a \in M, NEW y, y = t.child[Opposite(side)][a], y # Null,
           NEW f, f = t.child[Opposite(side)][y],
           NEW K, NEW q, NEW g,
           TurnHeights(t, M, H, b, K, a, side, y, f, p, e, q, g),
           TurnColors(t, M, b, a, side, y, f),
           NEW r, r = Rotate(b, a, side)
    PROVE  \E T : OneShort(r, M, key, T, K, q, g)
<1> DEFINE opp == Opposite(side)
           T == RotatedSubtrees(b, S, a, side, y)
<1>1. IsTree(t, M, key, S) /\ M \subseteq Nodes /\ Null \notin Nodes /\ t \in Trees
    BY NullAssumption DEF OneShort, IsTree, Linked
<1>2. opp \in Sides /\ opp # side /\ \A d \in Sides : d = side \/ d = opp
    BY SidesAre
<1>3. IsTree(r, M, key, T)
    BY <1>1, TurnSite
<1>4. /\ r.color = b.color
      /\ r.root = IF a = t.root THEN y ELSE t.root
      /\ y \in M /\ y # a /\ y # t.root /\ f # t.root
    BY <1>1, TurnSite
<1>5. /\ r.child[side][a] = t.child[side][a]
      /\ r.child[opp][a] = t.child[side][y]
      /\ r.child[side][y] = a
      /\ r.child[opp][y] = f
      /\ \A n \in M \ {a, y}, d \in Sides :
            \/ r.child[d][n] = t.child[d][n] /\ t.child[d][n] \notin {a, y}
            \/ r.child[d][n] = y /\ t.child[d][n] = a
    BY <1>1, TurnSite
<1>6. /\ t.child[side][a] \notin {a, y}
      /\ t.child[side][y] \notin {a, y}
      /\ f \notin {a, y}
      /\ f # Null => /\ f \in M
                     /\ t.child[side][a] # f
                     /\ t.child[side][y] # f
                     /\ \A n \in M \ {y}, d \in Sides : t.child[d][n] # f
      /\ \A d \in Sides : f # Null => t.child[d][f] \notin {a, y, f}
    BY <1>1, TurnSite, SMTT(30)
<1>7. \A n \in M, d \in Sides : t.child[d][n] \in M \cup {Null}
    BY <1>1 DEF IsTree, Linked
<1>8. /\ H \in [Nodes -> Nat]
      /\ \A n \in M, d \in Sides :
            H[n] = HeightOf(H, t.child[d][n]) + BlackCount(t, n) + Short(p, e, n, d)
    BY DEF OneShort, ShortHeights
<1>9. /\ K \in [Nodes -> Nat]
      /\ \A n \in M \ {a, y, f} : K[n] = H[n]
      /\ K[y] = H[a]
      /\ f # Null => K[f] + BlackCount(t, f) = H[f] + BlackCount(b, f)
      /\ K[a] = HeightOf(K, t.child[side][a]) + BlackCount(b, a) + Short(q, g, a, side)
      /\ K[a] = HeightOf(K, t.child[side][y]) + BlackCount(b, a) + Short(q, g, a, opp)
      /\ K[y] = K[a] + BlackCount(b, y) + Short(q, g, y, side)
      /\ K[y] = HeightOf(K, f) + BlackCount(b, y) + Short(q, g, y, opp)
      /\ \A n \in M \ {a, y}, d \in Sides : Short(q, g, n, d) = Short(p, e, n, d)
      /\ p # f
    BY DEF TurnHeights
<1>10. /\ \A n \in M \ {a, y, f} : b.color[n] = t.color[n]
       /\ b.color[a] = "red" => /\ ColorOf(t, t.child[side][a]) = "black"
                                /\ ColorOf(t, t.child[side][y]) = "black"
       /\ b.color[y] = "red" => /\ b.color[a] = "black"
                                /\ ColorOf(b, f) = "black"
                                /\ t.color[a] = "red"
       /\ f # Null /\ b.color[f] = "red" => t.color[f] = "red"
    BY DEF TurnColors
<1> HIDE DEF T, opp
<1>11. \A n \in M : BlackCount(r, n) = BlackCount(b, n) /\ BlackCount(b, n) \in {0, 1} /\ BlackCount(t, n) \in {0, 1}
    BY <1>4 DEF BlackCount
<1>12. \A c \in M \cup {Null} : c \notin {a, y, f} \/ c = Null =>
          HeightOf(K, c) = HeightOf(H, c) /\ HeightOf(H, c) \in Nat /\ ColorOf(r, c) = ColorOf(t, c)
    <2>1. SUFFICES ASSUME NEW c \in M \cup {Null}, c \notin {a, y, f} \/ c = Null
                   PROVE  /\ HeightOf(K, c) = HeightOf(H, c) /\ HeightOf(H, c) \in Nat
                          /\ ColorOf(r, c) = ColorOf(t, c)
        OBVIOUS
    <2>2. CASE c = Null
        BY <2>2 DEF HeightOf, ColorOf
    <2>3. CASE c # Null
        <3>1. c \in M \ {a, y, f} /\ c \in Nodes
            BY <1>1, <2>1, <2>3
        <3>2. K[c] = H[c] /\ H[c] \in Nat
            BY <1>8, <1>9, <3>1
        <3>3. r.color[c] = t.color[c]
            BY <1>4, <1>10, <3>1
        <3>4. QED
            BY <2>3, <3>2, <3>3 DEF HeightOf, ColorOf
    <2>4. QED
        BY <2>2, <2>3
<1>13. ASSUME NEW n \in M, NEW d \in Sides
       PROVE  K[n] = HeightOf(K, r.child[d][n]) + BlackCount(r, n) + Short(q, g, n, d)
    <2>1. CASE n = a
        BY <1>2, <1>5, <1>9, <1>11, <2>1
    <2>2. CASE n = y
        <3>1. HeightOf(K, a) = K[a]
            BY <1>1 DEF HeightOf
        <3>2. QED
            BY <1>2, <1>5, <1>9, <1>11, <2>2, <3>1, SMTT(30)
    <2>3. CASE n \notin {a, y} /\ n = f
        <3>1. f # Null /\ f \in M
            BY <1>1, <2>3
        <3>2. t.child[d][f] \notin {a, y, f} /\ t.child[d][f] \in M \cup {Null}
            BY <1>6, <1>7, <3>1
        <3>3. r.child[d][f] = t.child[d][f]
            BY <1>5, <2>3, <3>2
        <3>4. HeightOf(K, t.child[d][f]) = HeightOf(H, t.child[d][f]) /\ HeightOf(H, t.child[d][f]) \in Nat
            BY <1>12, <3>2
        <3>5. Short(q, g, f, d) = 0 /\ Short(p, e, f, d) = 0
            BY <1>9, <2>3 DEF Short
        <3>6. H[f] = HeightOf(H, t.child[d][f]) + BlackCount(t, f) + 0
            BY <1>8, <3>1, <3>5
        <3>7. K[f] + BlackCount(t, f) = H[f] + BlackCount(b, f) /\ K[f] \in Nat /\ H[f] \in Nat
            BY <1>1, <1>8, <1>9, <3>1
        <3>8. BlackCount(b, f) \in {0, 1} /\ BlackCount(t, f) \in {0, 1}
            BY <1>11, <3>1
        <3>9. K[f] = HeightOf(H, t.child[d][f]) + BlackCount(b, f) + 0
            BY <3>4, <3>6, <3>7, <3>8, SMTT(30)
        <3>10. QED
            BY <1>11, <2>3, <3>3, <3>4, <3>5, <3>9
    <2>4. CASE n \notin {a, y, f}
        <3>1. K[n] = H[n] /\ BlackCount(r, n) = BlackCount(t, n) /\ Short(q, g, n, d) = Short(p, e, n, d)
            <4>1. n \in M \ {a, y, f}
                BY <2>4
            <4>2. K[n] = H[n] /\ Short(q, g, n, d) = Short(p, e, n, d)
                BY <1>9, <4>1, Zenon
            <4>3. r.color[n] = t.color[n]
                BY <1>4, <1>10, <4>1, Zenon
            <4>4. QED
                BY <4>2, <4>3 DEF BlackCount
        <3>2. HeightOf(K, r.child[d][n]) = HeightOf(H, t.child[d][n])
            <4>1. CASE r.child[d][n] = t.child[d][n] /\ t.child[d][n] \notin {a, y}
                BY <1>6, <1>7, <1>12, <2>4, <4>1
            <4>2. CASE r.child[d][n] = y /\ t.child[d][n] = a
                BY <1>1, <1>4, <1>9, <4>2 DEF HeightOf
            <4>3. QED
                BY <1>5, <2>4, <4>1, <4>2
        <3>3. QED
            BY <1>8, <3>1, <3>2
    <2>5. QED
        BY <2>1, <2>2, <2>3, <2>4
<1>14. ShortHeights(r, M, K, q, g)
    BY <1>9, <1>13 DEF ShortHeights
<1>15. \A n \in M, d \in Sides : t.color[n] = "red" => ColorOf(t, t.child[d][n]) # "red"
    BY <1>1 DEF OneShort, RedOnlyAt, ColorOf
<1>16. RedOnlyAt(r, M, Null, Null)
    <2>1. SUFFICES ASSUME NEW n \in M, NEW d \in Sides,
                          r.color[n] = "red", ColorOf(r, r.child[d][n]) = "red"
                   PROVE  FALSE
        BY DEF RedOnlyAt
    <2>2. CASE n = a
        <3> DEFINE c == r.child[d][a]
        <3>1. b.color[a] = "red" /\ ColorOf(r, c) = "red"
            BY <1>4, <2>1, <2>2
        <3>2. c = t.child[side][a] \/ c = t.child[side][y]
            BY <1>2, <1>5
        <3>3. c \in M \cup {Null}
            BY <1>4, <1>7, <3>2
        <3>4. c \notin {a, y, f} \/ c = Null
            BY <1>6, <3>2
        <3>5. ColorOf(t, c) = "black"
            BY <1>10, <3>1, <3>2
        <3> HIDE DEF c
        <3>6. QED
            BY <1>12, <3>1, <3>3, <3>4, <3>5
    <2>3. CASE n = y
        <3>1. ColorOf(b, a) = "black" /\ ColorOf(b, f) = "black"
            BY <1>1, <1>4, <1>10, <2>1, <2>3 DEF ColorOf
        <3>2. QED
            BY <1>2, <1>4, <1>5, <2>1, <2>3, <3>1 DEF ColorOf
    <2>4. CASE n \notin {a, y}
        <3>1. t.color[n] = "red"
            BY <1>1, <1>4, <1>10, <2>1, <2>4
        <3>2. CASE r.child[d][n] = t.child[d][n] /\ t.child[d][n] \notin {a, y}
            <4>1. t.child[d][n] # f \/ t.child[d][n] = Null
                BY <1>6, <2>4
            <4>2. QED
                BY <1>7, <1>12, <1>15, <2>1, <3>1, <3>2, <4>1
        <3>3. CASE r.child[d][n] = y /\ t.child[d][n] = a
            <4>1. t.color[a] = "red"
                BY <1>1, <1>4, <1>10, <2>1, <3>3 DEF ColorOf
            <4>2. QED
                BY <1>1, <1>15, <3>1, <3>3, <4>1 DEF ColorOf
        <3>4. QED
            BY <1>5, <2>4, <3>2, <3>3
    <2>5. QED
        BY <2>2, <2>3, <2>4
<1>17. ColorOf(r, r.root) = "black"
    <2>1. t.root \in M /\ ColorOf(t, t.root) = "black" /\ t.color[t.root] = "black"
        BY <1>1 DEF OneShort, IsTree, Linked, Ordered, SubtreeOf, ColorOf
    <2>2. CASE a = t.root
        <3>1. b.color[y] # "red" /\ b.color[y] \in Colors
            <4>1. b.color[y] \in Colors
                BY <1>1, <1>4, TreeFields DEF Repainted
            <4>2. QED
                BY <1>10, <2>1, <2>2, <4>1
        <3>2. QED
            BY <1>1, <1>4, <2>2, <3>1 DEF ColorOf, Colors
    <2>3. CASE a # t.root
        BY <1>4, <1>12, <2>1, <2>3
    <2>4. QED
        BY <2>2, <2>3
<1>18. OneShort(r, M, key, T, K, q, g)
    BY <1>3, <1>14, <1>16, <1>17 DEF OneShort
<1>19. QED
    BY <1>18

\* b is t with u painted c and then v painted d.
PaintedTwice(t, u, c, v, d, b) ==
    /\ b \in Trees
    /\ b.root = t.root /\ b.len = t.len /\ b.parent = t.parent /\ b.child = t.child
    /\ \A n \in Nodes : b.color[n] = IF n = v THEN d ELSE IF n = u THEN c ELSE t.color[n]

LEMMA PaintTwice ==
    ASSUME NEW t \in Trees, NEW u \in Pointers, NEW v \in Pointers,
           NEW c \in Colors, NEW d \in Colors
    PROVE  PaintedTwice(t, u, c, v, d, Paint(Paint(t, u, c), v, d))
<1> DEFINE a == Paint(t, u, c)
           b == Paint(a, v, d)
<1>1. Painted(t, u, c, a)
    BY PaintEffect
<1> HIDE DEF a
<1>2. a \in Trees
    BY <1>1 DEF Painted
<1>3. Painted(a, v, d, b)
    BY <1>2, PaintEffect
<1> HIDE DEF b
<1>4. PaintedTwice(t, u, c, v, d, b)
    BY <1>1, <1>3 DEF Painted, PaintedTwice
<1>5. QED
    BY <1>4 DEF a, b

\* What is known where a black entity is missing: w is the sibling of x.
Site(t, M, H, x, p, e, w) ==
    /\ p \in M /\ w \in M /\ e \in Sides
    /\ w # p /\ w # x /\ x # p
    /\ x \in M \cup {Null}
    /\ t.child[e][p] = x
    /\ t.child[Opposite(e)][p] = w
    /\ SideOf(t, p, x) = e
    /\ HeightOf(H, x) \in Nat
    /\ H[w] = HeightOf(H, x) + 1
    /\ H[p] = HeightOf(H, x) + 1 + BlackCount(t, p)
    /\ \A d \in Sides : /\ t.child[d][w] \in M \cup {Null}
                        /\ HeightOf(H, t.child[d][w]) \in Nat
                        /\ H[w] = HeightOf(H, t.child[d][w]) + BlackCount(t, w)

\* The side with the missing entity has a sibling on the other.
LEMMA SiteExists ==
    ASSUME NEW t, NEW M, NEW key, NEW S, NEW H, NEW p \in M, NEW e \in Sides,
           OneShort(t, M, key, S, H, p, e)
    PROVE  Site(t, M, H, t.child[e][p], p, e, t.child[Opposite(e)][p])
<1> DEFINE x == t.child[e][p]
           far == Opposite(e)
           w == t.child[far][p]
<1>1. IsTree(t, M, key, S) /\ M \subseteq Nodes /\ Null \notin Nodes /\ t \in Trees
    BY NullAssumption DEF OneShort, IsTree, Linked
<1>2. far \in Sides /\ far # e /\ \A d \in Sides : d = e \/ d = far
    BY SidesAre
<1>3. \A n \in M, d \in Sides : t.child[d][n] \in M \cup {Null}
    BY <1>1 DEF IsTree, Linked
<1>4. /\ H \in [Nodes -> Nat]
      /\ \A n \in M, d \in Sides :
            H[n] = HeightOf(H, t.child[d][n]) + BlackCount(t, n) + Short(p, e, n, d)
    BY DEF OneShort, ShortHeights
<1>5. \A n \in M, d \in Sides : HeightOf(H, t.child[d][n]) \in Nat
    BY <1>1, <1>3, <1>4 DEF HeightOf
<1>6. \A n \in M : BlackCount(t, n) \in {0, 1}
    BY DEF BlackCount
<1>7. H[p] = HeightOf(H, x) + BlackCount(t, p) + 1
    BY <1>4 DEF Short
<1>8. H[p] = HeightOf(H, w) + BlackCount(t, p) + 0
    BY <1>2, <1>4 DEF Short
<1>9. HeightOf(H, x) \in Nat /\ HeightOf(H, w) \in Nat /\ H[p] \in Nat /\ BlackCount(t, p) \in {0, 1}
    BY <1>1, <1>2, <1>4, <1>5, <1>6
<1> HIDE DEF x, w
<1>10. HeightOf(H, w) = HeightOf(H, x) + 1 /\ H[p] = HeightOf(H, x) + 1 + BlackCount(t, p)
    BY <1>7, <1>8, <1>9
<1>11. w # Null /\ w \in M /\ H[w] = HeightOf(H, w)
    BY <1>2, <1>3, <1>9, <1>10 DEF HeightOf, w
<1>12. w # p /\ w # x
    BY <1>1, <1>2, <1>11, ChildSubtree, ChildrenDiffer, SidesAre DEF w, x
<1>13. x # p /\ x \in M \cup {Null}
    <2>1. x \in M \cup {Null}
        BY <1>3 DEF x
    <2>2. CASE x = Null
        BY <1>1, <2>1, <2>2
    <2>3. CASE x # Null
        BY <1>1, <2>1, <2>3, ChildSubtree DEF x
    <2>4. QED
        BY <2>1, <2>2, <2>3
<1>14. SideOf(t, p, x) = e
    BY <1>2, <1>12 DEF SideOf, Sides, x, w
<1>15. \A d \in Sides : Short(p, e, w, d) = 0
    BY <1>12 DEF Short
<1>16. \A d \in Sides : H[w] = HeightOf(H, t.child[d][w]) + BlackCount(t, w)
    <2>1. SUFFICES ASSUME NEW d \in Sides
                   PROVE  H[w] = HeightOf(H, t.child[d][w]) + BlackCount(t, w)
        OBVIOUS
    <2>2. H[w] = HeightOf(H, t.child[d][w]) + BlackCount(t, w) + 0
        BY <1>4, <1>11, <1>15
    <2>3. HeightOf(H, t.child[d][w]) \in Nat /\ BlackCount(t, w) \in {0, 1}
        BY <1>5, <1>6, <1>11
    <2>4. QED
        BY <2>2, <2>3
<1>17. Site(t, M, H, x, p, e, w)
    BY <1>3, <1>5, <1>9, <1>10, <1>11, <1>12, <1>13, <1>14, <1>16 DEF Site, x, w
<1>18. QED
    BY <1>17 DEF x, w

\* The sibling is red: a rotation gives x a black one.
LEMMA RedSibling ==
    ASSUME NEW t, NEW M, NEW key, NEW S, NEW H, NEW p, NEW e,
           OneShort(t, M, key, S, H, p, e), NEW x, NEW w, Site(t, M, H, x, p, e, w),
           ColorOf(t, x) = "black", t.color[w] = "red",
           NEW s, s = Rotate(Paint(Paint(t, w, "black"), p, "red"), p, e)
    PROVE  /\ \E T, K : OneShort(s, M, key, T, K, p, e)
           /\ s.child[e][p] = x
           /\ ColorOf(s, x) = "black"
           /\ s.color[p] = "red"
           /\ ColorOf(s, s.child[Opposite(e)][p]) = "black"
           /\ SameOutside(t, M, s)
<1> DEFINE b == Paint(Paint(t, w, "black"), p, "red")
           far == Opposite(e)
           near == t.child[e][w]
           f == t.child[far][w]
           h == HeightOf(H, x)
           K == [n \in Nodes |-> IF n = p THEN h + 1 ELSE IF n = w THEN h + 2 ELSE H[n]]
<1>1. /\ IsTree(t, M, key, S) /\ M \subseteq Nodes /\ Null \notin Nodes /\ t \in Trees
      /\ "red" \in Colors /\ "black" \in Colors
    BY NullAssumption DEF OneShort, IsTree, Linked, Colors
<1>2. /\ p \in M /\ w \in M /\ e \in Sides /\ w # p /\ w # x /\ x # p /\ x \in M \cup {Null}
      /\ t.child[e][p] = x /\ t.child[far][p] = w /\ h \in Nat
      /\ H[w] = h + 1 /\ H[p] = h + 1 + BlackCount(t, p)
      /\ \A d \in Sides : /\ t.child[d][w] \in M \cup {Null}
                          /\ HeightOf(H, t.child[d][w]) \in Nat
                          /\ H[w] = HeightOf(H, t.child[d][w]) + BlackCount(t, w)
    BY DEF Site
<1>3. far \in Sides /\ far # e /\ \A d \in Sides : d = e \/ d = far
    BY <1>2, SidesAre
<1>4. \A n \in M, d \in Sides : t.color[n] = "red" => ColorOf(t, t.child[d][n]) # "red"
    BY <1>1 DEF OneShort, RedOnlyAt, ColorOf
<1>5. t.color[p] = "black" /\ p # Null /\ w # Null
    BY <1>1, <1>2, <1>3, <1>4, TreeFields DEF ColorOf, Colors
<1>6. /\ Repainted(t, M, b)
      /\ \A n \in Nodes : b.color[n] = IF n = p THEN "red" ELSE IF n = w THEN "black" ELSE t.color[n]
    <2>1. w \in Pointers /\ p \in Pointers /\ w \in Nodes /\ p \in Nodes
        BY <1>1, <1>2 DEF Pointers
    <2>2. PaintedTwice(t, w, "black", p, "red", b)
        BY <1>1, <2>1, PaintTwice
    <2> HIDE DEF b
    <2>3. QED
        BY <1>2, <2>2 DEF PaintedTwice, Repainted
<1>7. s = Rotate(b, p, e)
    OBVIOUS
<1> HIDE DEF b
<1>8. /\ s.color = b.color
      /\ s.child[e][p] = t.child[e][p]
      /\ s.child[far][p] = near
      /\ near \notin {p, w}
      /\ f \notin {p, w}
      /\ SameOutside(t, M, s)
    <2>1. w = t.child[Opposite(e)][p] /\ f = t.child[Opposite(e)][w] /\ w # Null
        BY <1>2, <1>5
    <2> HIDE DEF f
    <2>2. /\ s.color = b.color
          /\ s.child[e][p] = t.child[e][p]
          /\ s.child[Opposite(e)][p] = t.child[e][w]
          /\ t.child[e][w] \notin {p, w}
          /\ f \notin {p, w}
          /\ SameOutside(t, M, s)
        BY <1>1, <1>2, <1>6, <1>7, <2>1, TurnSite
    <2>3. QED
        BY <2>2
<1>9. BlackCount(t, w) = 0 /\ BlackCount(t, p) = 1 /\ BlackCount(b, p) = 0 /\ BlackCount(b, w) = 1
    BY <1>1, <1>2, <1>5, <1>6 DEF BlackCount
<1>10. HeightOf(H, near) = h + 1 /\ HeightOf(H, f) = h + 1 /\ H[p] = h + 2
    <2>1. /\ HeightOf(H, near) \in Nat /\ H[w] = HeightOf(H, near) + 0
          /\ HeightOf(H, f) \in Nat /\ H[w] = HeightOf(H, f) + 0
          /\ H[p] = h + 1 + 1
        BY <1>2, <1>3, <1>9
    <2> HIDE DEF h, near, f
    <2>2. QED
        BY <1>2, <2>1
<1>11. H \in [Nodes -> Nat]
    BY DEF OneShort, ShortHeights
<1>12. near \in M /\ f \in M \cup {Null}
    <2>1. near # Null
        BY <1>2, <1>10 DEF HeightOf
    <2>2. QED
        BY <1>2, <1>3, <2>1
<1>13. /\ K \in [Nodes -> Nat] /\ K[p] = h + 1 /\ K[w] = h + 2
       /\ \A n \in M \ {p, w} : K[n] = H[n]
    BY <1>1, <1>2, <1>11
<1> HIDE DEF K
<1>14. HeightOf(K, x) = h /\ HeightOf(K, near) = h + 1 /\ HeightOf(K, f) = h + 1
    <2>1. \A c \in M \cup {Null} : c \notin {p, w} => HeightOf(K, c) = HeightOf(H, c)
        BY <1>13 DEF HeightOf
    <2>2. QED
        BY <1>2, <1>8, <1>10, <1>12, <2>1
<1>15. TurnHeights(t, M, H, b, K, p, e, w, f, p, e, p, e)
    <2>1. Short(p, e, p, e) = 1 /\ Short(p, e, p, far) = 0 /\ \A d \in Sides : Short(p, e, w, d) = 0
        BY <1>2, <1>3 DEF Short
    <2>2. f # Null => K[f] = H[f] /\ BlackCount(b, f) = BlackCount(t, f)
        BY <1>1, <1>6, <1>8, <1>12, <1>13 DEF BlackCount
    <2>3. \A n \in M \ {p, w, f} : K[n] = H[n]
        BY <1>13
    <2> HIDE DEF f, near, h, far
    <2>4. K[w] = H[p]
        BY <1>10, <1>13
    <2>5. K[p] = HeightOf(K, x) + BlackCount(b, p) + Short(p, e, p, e)
        BY <1>2, <1>9, <1>13, <1>14, <2>1
    <2>6. K[p] = HeightOf(K, near) + BlackCount(b, p) + Short(p, e, p, far)
        BY <1>2, <1>9, <1>13, <1>14, <2>1
    <2>7. K[w] = K[p] + BlackCount(b, w) + Short(p, e, w, e)
        BY <1>2, <1>9, <1>13, <2>1
    <2>8. K[w] = HeightOf(K, f) + BlackCount(b, w) + Short(p, e, w, far)
        BY <1>2, <1>3, <1>9, <1>13, <1>14, <2>1
    <2>9. QED
        BY <1>2, <1>8, <1>13, <2>2, <2>3, <2>4, <2>5, <2>6, <2>7, <2>8 DEF TurnHeights, near, far
<1>16. ColorOf(t, near) = "black"
    BY <1>1, <1>2, <1>4, <1>12, TreeFields DEF ColorOf, Colors
<1>17. TurnColors(t, M, b, p, e, w, f)
    <2>1. \A n \in M \ {p, w, f} : b.color[n] = t.color[n]
        BY <1>1, <1>6
    <2>2. b.color[w] = "black"
        BY <1>1, <1>2, <1>6
    <2>3. f # Null => b.color[f] = t.color[f]
        BY <1>1, <1>6, <1>8, <1>12
    <2>4. QED
        BY <1>2, <1>16, <2>1, <2>2, <2>3 DEF TurnColors
<1>18. \E T : OneShort(s, M, key, T, K, p, e)
    <2>1. w = t.child[Opposite(e)][p] /\ f = t.child[Opposite(e)][w] /\ w # Null
        BY <1>2, <1>5
    <2> HIDE DEF f, far, near, h
    <2>2. QED
        BY <1>2, <1>6, <1>7, <1>15, <1>17, <2>1, Turn
<1>19. ColorOf(s, x) = "black" /\ s.color[p] = "red" /\ ColorOf(s, near) = "black"
    BY <1>1, <1>2, <1>6, <1>8, <1>12, <1>16 DEF ColorOf
<1>20. QED
    BY <1>2, <1>8, <1>18, <1>19

\* The sibling and its children are black: it turns red, and what was missing
\* below p is now missing above.
LEMMA BlackNephews ==
    ASSUME NEW t, NEW M, NEW key, NEW S, NEW H, NEW p, NEW e,
           OneShort(t, M, key, S, H, p, e), NEW x, NEW w, Site(t, M, H, x, p, e, w),
           t.color[w] = "black",
           \A d \in Sides : ColorOf(t, t.child[d][w]) = "black",
           NEW r, r = Paint(t, w, "red")
    PROVE  /\ IsTree(r, M, key, S)
           /\ \E K : ShortHeights(r, M, K, t.parent[p],
                                  IF p = t.root THEN "left" ELSE SideOf(t, t.parent[p], p))
           /\ RedOnlyAt(r, M, p, p)
           /\ ColorOf(r, r.root) = "black"
           /\ r.color[p] = t.color[p]
           /\ Repainted(t, M, r)
           /\ SameOutside(t, M, r)
<1> DEFINE h == HeightOf(H, x)
           q == t.parent[p]
           g == IF p = t.root THEN "left" ELSE SideOf(t, q, p)
           K == [n \in Nodes |-> IF n = p THEN h + BlackCount(t, p) ELSE IF n = w THEN h ELSE H[n]]
<1>1. /\ IsTree(t, M, key, S) /\ M \subseteq Nodes /\ Null \notin Nodes /\ t \in Trees
      /\ "red" \in Colors /\ "black" \in Colors
    BY NullAssumption DEF OneShort, IsTree, Linked, Colors
<1>2. /\ p \in M /\ w \in M /\ e \in Sides /\ w # p /\ w # x /\ x # p /\ x \in M \cup {Null}
      /\ t.child[e][p] = x /\ t.child[Opposite(e)][p] = w /\ h \in Nat
      /\ H[w] = h + 1 /\ H[p] = h + 1 + BlackCount(t, p)
      /\ \A d \in Sides : /\ t.child[d][w] \in M \cup {Null}
                          /\ HeightOf(H, t.child[d][w]) \in Nat
                          /\ H[w] = HeightOf(H, t.child[d][w]) + BlackCount(t, w)
    BY DEF Site
<1>3. Opposite(e) \in Sides /\ Opposite(e) # e /\ \A d \in Sides : d = e \/ d = Opposite(e)
    BY <1>2, SidesAre
<1>4. w \in Pointers /\ p # Null /\ w # Null
    BY <1>1, <1>2 DEF Pointers
<1>5. IsTree(r, M, key, S) /\ Painted(t, w, "red", r) /\ SameOutside(t, M, r)
    BY <1>1, <1>2, <1>4, PaintTree
<1>6. /\ r.child = t.child /\ r.root = t.root /\ r.parent = t.parent /\ r.len = t.len /\ r \in Trees
      /\ \A n \in Nodes : r.color[n] = IF n = w THEN "red" ELSE t.color[n]
    BY <1>5 DEF Painted
<1>7. /\ H \in [Nodes -> Nat]
      /\ \A n \in M, d \in Sides :
            H[n] = HeightOf(H, t.child[d][n]) + BlackCount(t, n) + Short(p, e, n, d)
    BY DEF OneShort, ShortHeights
<1>8. \A n \in M : BlackCount(t, n) \in {0, 1} /\ (n # w => BlackCount(r, n) = BlackCount(t, n))
    BY <1>1, <1>6 DEF BlackCount
<1>9. BlackCount(t, w) = 1 /\ BlackCount(r, w) = 0
    BY <1>1, <1>2, <1>6 DEF BlackCount
<1>10. \A n \in M, d \in Sides : t.child[d][n] \in M \cup {Null}
    BY <1>1 DEF IsTree, Linked
<1>11. \A n \in M, d \in Sides : HeightOf(H, t.child[d][n]) \in Nat
    BY <1>1, <1>7, <1>10 DEF HeightOf
<1>12. K \in [Nodes -> Nat] /\ K[p] = h + BlackCount(t, p) /\ K[w] = h
       /\ \A n \in M \ {p, w} : K[n] = H[n]
    BY <1>1, <1>2, <1>7, <1>8
<1> HIDE DEF K, h
<1>13. \A c \in M \cup {Null} : c \notin {p, w} => HeightOf(K, c) = HeightOf(H, c)
    BY <1>12 DEF HeightOf
\* Above p
<1>14. /\ p # t.root => q \in M /\ g \in Sides /\ t.child[g][q] = p /\ q # p /\ q # w
       /\ p = t.root => q = Null
    <2>1. CASE p = t.root
        BY <1>1, <1>2, <2>1, RootHasNoParent
    <2>2. CASE p # t.root
        <3>1. q \in M /\ g \in Sides /\ t.child[g][q] = p /\ q # p
            BY <1>1, <1>2, <2>2, ParentSide
        <3>2. q # w
            <4>1. w \in S[w] /\ S[w] \subseteq S[p] /\ p \notin S[w]
                BY <1>1, <1>2, <1>3, <1>4, ChildSubtree
            <4>2. S[p] \subseteq S[q] /\ p \in S[p]
                BY <1>1, <1>2, <1>4, <3>1, ChildSubtree
            <4>3. QED
                BY <4>1, <4>2
        <3>3. QED
            BY <2>2, <3>1, <3>2
    <2>3. QED
        BY <2>1, <2>2
<1>15. \A n \in M, d \in Sides : t.child[d][n] = p => n = q /\ d = g /\ p # t.root
    <2>1. SUFFICES ASSUME NEW n \in M, NEW d \in Sides, t.child[d][n] = p
                   PROVE  n = q /\ d = g /\ p # t.root
        OBVIOUS
    <2>2. n = q /\ SideOf(t, n, p) = d
        BY <1>1, <1>4, <2>1, ChildSubtree, ChildrenDiffer
    <2>3. p # t.root
        BY <1>1, <1>2, <2>2, RootHasNoParent
    <2>4. QED
        BY <2>2, <2>3
<1>16. \A n \in M, d \in Sides : t.child[d][n] = w => n = p
    BY <1>1, <1>2, <1>3, <1>4, ChildSubtree
<1>17. ASSUME NEW n \in M, NEW d \in Sides
       PROVE  K[n] = HeightOf(K, r.child[d][n]) + BlackCount(r, n) + Short(q, g, n, d)
    <2>1. CASE n = p
        <3>1. Short(q, g, n, d) = 0
            BY <1>1, <1>14, <2>1 DEF Short
        <3>2. HeightOf(K, t.child[d][n]) = h
            <4>1. CASE d = e
                BY <1>2, <1>13, <2>1, <4>1 DEF h
            <4>2. CASE d = Opposite(e)
                BY <1>2, <1>4, <1>12, <2>1, <4>2 DEF HeightOf
            <4>3. QED
                BY <1>3, <4>1, <4>2
        <3>3. BlackCount(r, n) = BlackCount(t, p) /\ BlackCount(t, p) \in {0, 1}
            BY <1>2, <1>8, <2>1
        <3>4. QED
            BY <1>2, <1>6, <1>12, <2>1, <3>1, <3>2, <3>3
    <2>2. CASE n = w
        <3>1. Short(q, g, n, d) = 0
            BY <1>1, <1>14, <2>2 DEF Short
        <3>2. t.child[d][w] \notin {p, w}
            <4>1. t.child[d][w] # p
                BY <1>2, <1>14, <1>15
            <4>2. t.child[d][w] # w
                BY <1>2, <1>16
            <4>3. QED
                BY <4>1, <4>2
        <3>3. HeightOf(K, t.child[d][w]) = HeightOf(H, t.child[d][w])
            BY <1>2, <1>13, <3>2
        <3>4. HeightOf(H, t.child[d][w]) = h
            BY <1>2, <1>9
        <3>5. QED
            BY <1>2, <1>6, <1>9, <1>12, <2>2, <3>1, <3>3, <3>4
    <2>3. CASE n \notin {p, w}
        <3>1. /\ K[n] = H[n] /\ BlackCount(r, n) = BlackCount(t, n)
              /\ BlackCount(t, n) \in {0, 1} /\ H[n] \in Nat
            BY <1>1, <1>7, <1>8, <1>12, <2>3
        <3>2. H[n] = HeightOf(H, t.child[d][n]) + BlackCount(t, n) + 0
            BY <1>7, <2>3 DEF Short
        <3>3. t.child[d][n] # w
            BY <1>16, <2>3
        <3>4. CASE t.child[d][n] = p
            <4>1. Short(q, g, n, d) = 1
                BY <1>15, <3>4 DEF Short
            <4>2. HeightOf(H, p) = h + 1 + BlackCount(t, p) /\ HeightOf(K, p) = h + BlackCount(t, p)
                BY <1>2, <1>4, <1>12 DEF HeightOf
            <4>3. BlackCount(t, p) \in {0, 1}
                BY <1>2, <1>8
            <4>4. QED
                BY <1>2, <1>6, <3>1, <3>2, <3>4, <4>1, <4>2, <4>3
        <3>5. CASE t.child[d][n] # p
            <4>1. Short(q, g, n, d) = 0
                BY <1>1, <1>14, <3>5 DEF Short
            <4>2. HeightOf(K, t.child[d][n]) = HeightOf(H, t.child[d][n])
                BY <1>10, <1>13, <3>3, <3>5
            <4>3. QED
                BY <1>6, <3>1, <3>2, <4>1, <4>2
        <3>6. QED
            BY <3>4, <3>5
    <2>4. QED
        BY <2>1, <2>2, <2>3
<1>18. ShortHeights(r, M, K, q, g)
    BY <1>12, <1>17 DEF ShortHeights
<1>19. RedOnlyAt(r, M, p, p)
    <2>1. SUFFICES ASSUME NEW n \in M, NEW d \in Sides, r.color[n] = "red",
                          ColorOf(r, t.child[d][n]) = "red", n # p
                   PROVE  FALSE
        BY <1>6 DEF RedOnlyAt
    <2>2. t.child[d][n] # w /\ t.child[d][n] # Null /\ t.child[d][n] \in M
        BY <1>10, <1>16, <2>1 DEF ColorOf
    <2>3. ColorOf(t, t.child[d][n]) = "red"
        BY <1>1, <1>6, <2>1, <2>2 DEF ColorOf
    <2>4. CASE n = w
        BY <2>3, <2>4
    <2>5. CASE n # w
        <3>1. t.color[n] = "red"
            BY <1>1, <1>6, <2>1, <2>5
        <3>2. QED
            BY <1>1, <2>2, <2>3, <3>1 DEF OneShort, RedOnlyAt
    <2>6. QED
        BY <2>4, <2>5
<1>20. ColorOf(r, r.root) = "black"
    <2>1. w # t.root
        <3>1. t.parent[w] = p
            BY <1>1, <1>2, <1>3, <1>4, ChildSubtree
        <3>2. QED
            BY <1>1, <1>2, <1>4, <3>1, RootHasNoParent
    <2>2. t.root \in M
        BY <1>1, <1>2 DEF IsTree, Linked, Ordered, SubtreeOf
    <2>3. QED
        BY <1>1, <1>6, <2>1, <2>2 DEF ColorOf, OneShort
<1>21. r.color[p] = t.color[p] /\ Repainted(t, M, r)
    BY <1>1, <1>2, <1>6 DEF Repainted
<1>22. QED
    BY <1>5, <1>18, <1>19, <1>20, <1>21

\* The sibling is black and has a red child on the side of x only: a rotation
\* brings the red child to the far side.
LEMMA RedNearNephew ==
    ASSUME NEW t, NEW M, NEW key, NEW S, NEW H, NEW p, NEW e,
           OneShort(t, M, key, S, H, p, e), NEW x, NEW w, Site(t, M, H, x, p, e, w),
           t.color[w] = "black",
           NEW near, near = t.child[e][w], ColorOf(t, near) = "red",
           ColorOf(t, t.child[Opposite(e)][w]) = "black",
           NEW r, r = Rotate(Paint(Paint(t, near, "black"), w, "red"), w, Opposite(e))
    PROVE  /\ \E T, K : OneShort(r, M, key, T, K, p, e)
           /\ r.child[e][p] = x
           /\ r.child[Opposite(e)][p] = near
           /\ r.child[Opposite(e)][near] = w
           /\ near \in M
           /\ ColorOf(r, x) = ColorOf(t, x)
           /\ r.color[near] = "black" /\ r.color[w] = "red"
           /\ SameOutside(t, M, r)
<1> DEFINE b == Paint(Paint(t, near, "black"), w, "red")
           far == Opposite(e)
           f == t.child[e][near]
           h == HeightOf(H, x)
           K == [n \in Nodes |-> IF n = w THEN h ELSE IF n = near THEN h + 1 ELSE H[n]]
<1>1. /\ IsTree(t, M, key, S) /\ M \subseteq Nodes /\ Null \notin Nodes /\ t \in Trees
      /\ "red" \in Colors /\ "black" \in Colors
    BY NullAssumption DEF OneShort, IsTree, Linked, Colors
<1>2. /\ p \in M /\ w \in M /\ e \in Sides /\ w # p /\ w # x /\ x # p /\ x \in M \cup {Null}
      /\ t.child[e][p] = x /\ t.child[far][p] = w /\ h \in Nat
      /\ H[w] = h + 1
      /\ \A d \in Sides : /\ t.child[d][w] \in M \cup {Null}
                          /\ HeightOf(H, t.child[d][w]) \in Nat
                          /\ H[w] = HeightOf(H, t.child[d][w]) + BlackCount(t, w)
    BY DEF Site
<1>3. far \in Sides /\ far # e /\ Opposite(far) = e /\ \A d \in Sides : d = e \/ d = far
    BY <1>2, SidesAre
<1>4. near \in M /\ near # Null /\ near \in Nodes /\ w \in Nodes /\ t.color[near] = "red"
    BY <1>1, <1>2 DEF ColorOf
<1>5. /\ Repainted(t, M, b)
      /\ \A n \in Nodes : b.color[n] = IF n = w THEN "red" ELSE IF n = near THEN "black" ELSE t.color[n]
    <2>1. w \in Pointers /\ near \in Pointers
        BY <1>4 DEF Pointers
    <2>2. PaintedTwice(t, near, "black", w, "red", b)
        BY <1>1, <2>1, PaintTwice
    <2> HIDE DEF b
    <2>3. QED
        BY <1>2, <1>4, <2>2 DEF PaintedTwice, Repainted
<1>6. r = Rotate(b, w, far)
    OBVIOUS
<1> HIDE DEF b
<1>7. near = t.child[Opposite(far)][w] /\ f = t.child[Opposite(far)][near]
    BY <1>3
<1> HIDE DEF f, far, K
<1>8. /\ r.color = b.color
      /\ r.child[far][near] = w
      /\ \A n \in M \ {w, near}, d \in Sides :
            \/ r.child[d][n] = t.child[d][n] /\ t.child[d][n] \notin {w, near}
            \/ r.child[d][n] = near /\ t.child[d][n] = w
      /\ near # w
      /\ t.child[far][w] \notin {w, near}
      /\ t.child[far][near] \notin {w, near}
      /\ f \notin {w, near}
      /\ f # Null => f \in M
      /\ \A d \in Sides : f # Null => t.child[d][f] \notin {w, near, f}
      /\ SameOutside(t, M, r)
    <2>1. IsTree(t, M, key, S) /\ Repainted(t, M, b)
        BY <1>1, <1>5
    <2>2. far \in Sides /\ w \in M /\ near # Null
        BY <1>2, <1>3, <1>4
    <2>3. QED
        BY <2>1, <2>2, <1>6, <1>7, TurnSite, SMTT(30)
<1>9. near # p /\ f # p
    BY <1>1, <1>2, <1>3, <1>8
<1>10. near # x
    BY <1>1, <1>2, <1>4, ChildSubtree
<1>11. r.child[e][p] = x /\ r.child[far][p] = near
    BY <1>2, <1>3, <1>8, <1>9
<1>12. BlackCount(t, w) = 1 /\ BlackCount(t, near) = 0 /\ BlackCount(b, w) = 0 /\ BlackCount(b, near) = 1
    BY <1>4, <1>5, <1>8 DEF BlackCount
<1>13. /\ H \in [Nodes -> Nat]
       /\ \A n \in M, d \in Sides :
             H[n] = HeightOf(H, t.child[d][n]) + BlackCount(t, n) + Short(p, e, n, d)
    BY DEF OneShort, ShortHeights
<1>14. \A n \in M, d \in Sides : t.child[d][n] \in M \cup {Null} /\ HeightOf(H, t.child[d][n]) \in Nat
    BY <1>1, <1>13 DEF HeightOf, IsTree, Linked
<1>15. HeightOf(H, t.child[far][w]) = h /\ H[near] = h
    <2>1. /\ H[w] = HeightOf(H, t.child[far][w]) + 1 /\ HeightOf(H, t.child[far][w]) \in Nat
          /\ H[w] = HeightOf(H, near) + 1 /\ HeightOf(H, near) \in Nat
          /\ HeightOf(H, near) = H[near]
        BY <1>2, <1>3, <1>4, <1>12 DEF HeightOf
    <2> HIDE DEF h
    <2>2. QED
        BY <1>2, <2>1
<1>16. HeightOf(H, t.child[far][near]) = h /\ HeightOf(H, f) = h
    <2>1. \A d \in Sides : Short(p, e, near, d) = 0
        BY <1>9 DEF Short
    <2>2. /\ H[near] = HeightOf(H, t.child[far][near]) + 0 + 0
          /\ H[near] = HeightOf(H, f) + 0 + 0
          /\ HeightOf(H, t.child[far][near]) \in Nat /\ HeightOf(H, f) \in Nat
        BY <1>2, <1>3, <1>4, <1>12, <1>13, <1>14, <2>1 DEF f
    <2> HIDE DEF h
    <2>3. QED
        BY <1>2, <1>15, <2>2
<1>17. /\ K \in [Nodes -> Nat] /\ K[w] = h /\ K[near] = h + 1
       /\ \A n \in M \ {w, near} : K[n] = H[n]
    BY <1>1, <1>2, <1>4, <1>8, <1>13, SMTT(30) DEF K
<1> HIDE DEF h
<1>18. /\ HeightOf(K, t.child[far][w]) = h /\ HeightOf(K, t.child[far][near]) = h
       /\ HeightOf(K, f) = h
    <2>1. \A c \in M \cup {Null} : c \notin {w, near} => HeightOf(K, c) = HeightOf(H, c)
        BY <1>17 DEF HeightOf
    <2>2. QED
        BY <1>2, <1>3, <1>4, <1>8, <1>14, <1>15, <1>16, <2>1, SMTT(30)
<1>19. TurnHeights(t, M, H, b, K, w, far, near, f, p, e, p, e)
    <2>1. \A d \in Sides : Short(p, e, w, d) = 0 /\ Short(p, e, near, d) = 0
        BY <1>2, <1>9 DEF Short
    <2>2. f # Null => K[f] = H[f] /\ BlackCount(b, f) = BlackCount(t, f)
        BY <1>1, <1>5, <1>8, <1>17 DEF BlackCount
    <2>3. \A n \in M \ {w, near, f} : K[n] = H[n]
        BY <1>17
    <2>4. K[near] = H[w]
        BY <1>2, <1>17
    <2>5. K[w] = HeightOf(K, t.child[far][w]) + BlackCount(b, w) + Short(p, e, w, far)
        BY <1>2, <1>3, <1>12, <1>17, <1>18, <2>1
    <2>6. K[w] = HeightOf(K, t.child[far][near]) + BlackCount(b, w) + Short(p, e, w, e)
        BY <1>2, <1>3, <1>12, <1>17, <1>18, <2>1
    <2>7. K[near] = K[w] + BlackCount(b, near) + Short(p, e, near, far)
        BY <1>2, <1>3, <1>12, <1>17, <2>1
    <2>8. K[near] = HeightOf(K, f) + BlackCount(b, near) + Short(p, e, near, e)
        BY <1>2, <1>3, <1>12, <1>17, <1>18, <2>1
    <2>9. QED
        BY <1>3, <1>9, <1>17, <2>2, <2>3, <2>4, <2>5, <2>6, <2>7, <2>8 DEF TurnHeights
<1>20. ColorOf(t, t.child[far][near]) = "black"
    <2>1. ColorOf(t, t.child[far][near]) # "red"
        BY <1>1, <1>3, <1>4 DEF OneShort, RedOnlyAt, ColorOf
    <2>2. QED
        BY <1>1, <1>3, <1>4, <1>14, <2>1, TreeFields DEF ColorOf, Colors
<1>21. TurnColors(t, M, b, w, far, near, f)
    <2>1. \A n \in M \ {w, near, f} : b.color[n] = t.color[n]
        BY <1>1, <1>5
    <2>2. b.color[near] = "black"
        BY <1>4, <1>5, <1>8
    <2>3. f # Null => b.color[f] = t.color[f]
        BY <1>1, <1>5, <1>8
    <2>4. QED
        BY <1>20, <2>1, <2>2, <2>3 DEF TurnColors, far
<1>22. \E T : OneShort(r, M, key, T, K, p, e)
    BY <1>2, <1>3, <1>4, <1>5, <1>6, <1>7, <1>19, <1>21, Turn
<1>23. ColorOf(r, x) = ColorOf(t, x) /\ r.color[near] = "black" /\ r.color[w] = "red"
    BY <1>1, <1>2, <1>4, <1>5, <1>8, <1>10 DEF ColorOf
<1>24. QED
    BY <1>4, <1>8, <1>11, <1>22, <1>23 DEF far

\* The sibling is black and its far child red: a rotation at p makes up for
\* the missing entity.
LEMMA RedFarNephew ==
    ASSUME NEW t, NEW M, NEW key, NEW S, NEW H, NEW p, NEW e,
           OneShort(t, M, key, S, H, p, e), NEW x, NEW w, Site(t, M, H, x, p, e, w),
           t.color[w] = "black",
           NEW f, f = t.child[Opposite(e)][w], ColorOf(t, f) = "red",
           NEW r, r = Rotate(Paint(Paint(Paint(t, w, t.color[p]), p, "black"), f, "black"), p, e)
    PROVE  /\ \E T, K : IsRedBlack(r, M, key, T, K)
           /\ SameOutside(t, M, r)
<1> DEFINE a == Paint(Paint(t, w, t.color[p]), p, "black")
           b == Paint(a, f, "black")
           far == Opposite(e)
           near == t.child[e][w]
           h == HeightOf(H, x)
           k == BlackCount(t, p)
           K == [n \in Nodes |-> IF n = p THEN h + 1 ELSE IF n = f THEN h + 1
                                 ELSE IF n = w THEN h + 1 + k ELSE H[n]]
<1>1. /\ IsTree(t, M, key, S) /\ M \subseteq Nodes /\ Null \notin Nodes /\ t \in Trees
      /\ "red" \in Colors /\ "black" \in Colors
    BY NullAssumption DEF OneShort, IsTree, Linked, Colors
<1>2. /\ p \in M /\ w \in M /\ e \in Sides /\ w # p /\ w # x /\ x # p /\ x \in M \cup {Null}
      /\ t.child[e][p] = x /\ t.child[far][p] = w /\ h \in Nat
      /\ H[w] = h + 1 /\ H[p] = h + 1 + k
      /\ \A d \in Sides : /\ t.child[d][w] \in M \cup {Null}
                          /\ HeightOf(H, t.child[d][w]) \in Nat
                          /\ H[w] = HeightOf(H, t.child[d][w]) + BlackCount(t, w)
    BY DEF Site
<1>3. far \in Sides /\ far # e /\ \A d \in Sides : d = e \/ d = far
    BY <1>2, SidesAre
<1>4. /\ f \in M /\ f # Null /\ f \in Nodes /\ t.color[f] = "red"
      /\ w \in Nodes /\ p \in Nodes /\ w # Null /\ t.color[p] \in Colors /\ k \in {0, 1}
    BY <1>1, <1>2, <1>3, TreeFields DEF ColorOf, BlackCount
<1>5. /\ Repainted(t, M, b)
      /\ \A n \in Nodes : b.color[n] = IF n = f \/ n = p THEN "black"
                                       ELSE IF n = w THEN t.color[p] ELSE t.color[n]
    <2>1. w \in Pointers /\ p \in Pointers /\ f \in Pointers
        BY <1>4 DEF Pointers
    <2>2. PaintedTwice(t, w, t.color[p], p, "black", a)
        BY <1>1, <1>4, <2>1, PaintTwice
    <2> HIDE DEF a
    <2>3. a \in Trees
        BY <2>2 DEF PaintedTwice
    <2>4. Painted(a, f, "black", b)
        BY <1>1, <2>1, <2>3, PaintEffect
    <2> HIDE DEF b
    <2>5. QED
        BY <1>2, <1>4, <2>2, <2>4 DEF PaintedTwice, Painted, Repainted
<1>6. r = Rotate(b, p, e)
    OBVIOUS
<1> HIDE DEF a, b
<1>7. w = t.child[Opposite(e)][p] /\ f = t.child[Opposite(e)][w]
    BY <1>2
<1> HIDE DEF far, K
<1>8. /\ f \notin {p, w}
      /\ x # f
      /\ t.child[e][w] \notin {p, w} /\ t.child[e][w] # f
      /\ SameOutside(t, M, r)
    BY <1>1, <1>2, <1>4, <1>5, <1>6, <1>7, TurnSite, SMTT(30)
<1>9. /\ BlackCount(t, w) = 1 /\ BlackCount(t, f) = 0 /\ BlackCount(b, p) = 1
      /\ BlackCount(b, f) = 1 /\ BlackCount(b, w) = k
    BY <1>2, <1>4, <1>5, <1>8 DEF BlackCount
<1>10. H \in [Nodes -> Nat]
    BY DEF OneShort, ShortHeights
<1> HIDE DEF k
<1>11. HeightOf(H, near) = h /\ H[f] = h
    <2>1. /\ H[w] = HeightOf(H, near) + 1 /\ HeightOf(H, near) \in Nat
          /\ H[w] = HeightOf(H, f) + 1 /\ HeightOf(H, f) \in Nat
          /\ HeightOf(H, f) = H[f]
        BY <1>2, <1>3, <1>4, <1>9 DEF HeightOf, far
    <2> HIDE DEF h
    <2>2. QED
        BY <1>2, <2>1
<1>12. /\ K \in [Nodes -> Nat] /\ K[p] = h + 1 /\ K[f] = h + 1 /\ K[w] = h + 1 + k
       /\ \A n \in M \ {p, w, f} : K[n] = H[n]
    BY <1>1, <1>2, <1>4, <1>8, <1>10 DEF K
<1> HIDE DEF h
<1>13. HeightOf(K, x) = h /\ HeightOf(K, near) = h /\ HeightOf(K, f) = h + 1
    <2>1. \A c \in M \cup {Null} : c \notin {p, w, f} => HeightOf(K, c) = HeightOf(H, c)
        BY <1>12 DEF HeightOf
    <2>2. near \in M \cup {Null} /\ near \notin {p, w, f} /\ x \notin {p, w, f}
        BY <1>2, <1>8
    <2>3. HeightOf(K, x) = h /\ HeightOf(K, near) = h
        BY <1>2, <1>11, <2>1, <2>2 DEF h
    <2>4. QED
        BY <1>4, <1>12, <2>3 DEF HeightOf
<1> HIDE DEF near
<1>14. TurnHeights(t, M, H, b, K, p, e, w, f, p, e, Null, e)
    <2>1. \A n \in M, d \in Sides : Short(Null, e, n, d) = 0
        BY <1>1 DEF Short
    <2>2. \A n \in M \ {p, w}, d \in Sides : Short(p, e, n, d) = 0
        BY DEF Short
    <2>3. K[f] + BlackCount(t, f) = H[f] + BlackCount(b, f)
        BY <1>2, <1>9, <1>11, <1>12
    <2>4. K[p] = HeightOf(K, x) + BlackCount(b, p) + Short(Null, e, p, e)
        BY <1>2, <1>9, <1>12, <1>13, <2>1
    <2>5. K[p] = HeightOf(K, near) + BlackCount(b, p) + Short(Null, e, p, far)
        BY <1>2, <1>3, <1>9, <1>12, <1>13, <2>1
    <2>6. K[w] = K[p] + BlackCount(b, w) + Short(Null, e, w, e)
        BY <1>2, <1>4, <1>9, <1>12, <2>1
    <2>7. K[w] = HeightOf(K, f) + BlackCount(b, w) + Short(Null, e, w, far)
        BY <1>2, <1>3, <1>4, <1>9, <1>12, <1>13, <2>1
    <2>8. K[w] = H[p]
        BY <1>2, <1>12
    <2>9. QED
        BY <1>2, <1>8, <1>12, <2>1, <2>2, <2>3, <2>4, <2>5, <2>6, <2>7, <2>8
        DEF TurnHeights, near, far
<1>15. TurnColors(t, M, b, p, e, w, f)
    <2>1. \A n \in M \ {p, w, f} : b.color[n] = t.color[n]
        BY <1>1, <1>5
    <2>2. b.color[p] = "black" /\ b.color[f] = "black" /\ b.color[w] = t.color[p]
        BY <1>2, <1>4, <1>5, <1>8
    <2>3. QED
        BY <1>4, <2>1, <2>2 DEF TurnColors, ColorOf
<1>16. \E T : OneShort(r, M, key, T, K, Null, e)
    BY <1>2, <1>4, <1>5, <1>6, <1>7, <1>14, <1>15, Turn, SMTT(30)
<1>17. QED
    BY <1>8, <1>16, NoneShort

\* w is a black sibling, and its child on the given side is red.
RedChild(t, M, H, p, e, w, d) ==
    /\ Site(t, M, H, t.child[e][p], p, e, w)
    /\ t.color[w] = "black"
    /\ ColorOf(t, t.child[d][w]) = "red"

LEMMA LiftSiblingEffect ==
    ASSUME NEW t, NEW M, NEW key, NEW S, NEW H, NEW p, NEW e, NEW w,
           OneShort(t, M, key, S, H, p, e), RedChild(t, M, H, p, e, w, Opposite(e))
    PROVE  /\ \E T, K : IsRedBlack(LiftSibling(t, p, e), M, key, T, K)
           /\ SameOutside(t, M, LiftSibling(t, p, e))
<1> DEFINE f == t.child[Opposite(e)][w]
           r == Rotate(Paint(Paint(Paint(t, w, t.color[p]), p, "black"), f, "black"), p, e)
           x == t.child[e][p]
<1>1. /\ f = t.child[Opposite(e)][w] /\ ColorOf(t, f) = "red" /\ t.color[w] = "black"
      /\ Site(t, M, H, x, p, e, w)
    BY DEF RedChild
<1>2. w = t.child[Opposite(e)][p] /\ ChildOf(t, w, Opposite(e)) = f
    BY <1>1, NullAssumption DEF Site, ChildOf, OneShort, IsTree, Linked
<1>3. r = LiftSibling(t, p, e)
    BY <1>2 DEF LiftSibling
<1>4. r = Rotate(Paint(Paint(Paint(t, w, t.color[p]), p, "black"), f, "black"), p, e)
    OBVIOUS
<1> HIDE DEF f, r, x
<1>5. /\ \E T, K : IsRedBlack(r, M, key, T, K)
      /\ SameOutside(t, M, r)
    BY <1>1, <1>4, RedFarNephew
<1>6. QED
    BY <1>3, <1>5

LEMMA FarNephewEffect ==
    ASSUME NEW t, NEW M, NEW key, NEW S, NEW H, NEW p, NEW e, NEW w,
           OneShort(t, M, key, S, H, p, e), RedChild(t, M, H, p, e, w, e),
           ColorOf(t, t.child[Opposite(e)][w]) = "black"
    PROVE  /\ \E T, K, v : /\ OneShort(FarNephew(t, p, e), M, key, T, K, p, e)
                           /\ RedChild(FarNephew(t, p, e), M, K, p, e, v, Opposite(e))
           /\ SameOutside(t, M, FarNephew(t, p, e))
<1> DEFINE near == t.child[e][w]
           r == Rotate(Paint(Paint(t, near, "black"), w, "red"), w, Opposite(e))
           x == t.child[e][p]
<1>1. /\ near = t.child[e][w] /\ ColorOf(t, near) = "red" /\ t.color[w] = "black"
      /\ Site(t, M, H, x, p, e, w)
    BY DEF RedChild
<1>2. w = t.child[Opposite(e)][p] /\ \A d \in Sides : ChildOf(t, w, d) = t.child[d][w]
    BY <1>1, NullAssumption DEF Site, ChildOf, OneShort, IsTree, Linked
<1>3. Opposite(e) \in Sides /\ e \in Sides
    BY <1>1, SidesAre DEF Site
<1>4. r = FarNephew(t, p, e)
    BY <1>2, <1>3 DEF FarNephew
<1>5. r = Rotate(Paint(Paint(t, near, "black"), w, "red"), w, Opposite(e))
    OBVIOUS
<1> HIDE DEF near, r, x
<1>6. /\ \E T, K : OneShort(r, M, key, T, K, p, e)
      /\ r.child[e][p] = x
      /\ r.child[Opposite(e)][p] = near
      /\ r.child[Opposite(e)][near] = w
      /\ r.color[near] = "black" /\ r.color[w] = "red"
      /\ SameOutside(t, M, r)
    BY <1>1, <1>5, RedNearNephew
<1>7. PICK T, K : OneShort(r, M, key, T, K, p, e)
    BY <1>6
<1>8. p \in M /\ e \in Sides /\ w \in M /\ w # Null
    BY <1>1, NullAssumption DEF Site, OneShort, IsTree, Linked
<1>9. Site(r, M, K, r.child[e][p], p, e, near)
    BY <1>6, <1>7, <1>8, SiteExists
<1>10. RedChild(r, M, K, p, e, near, Opposite(e))
    BY <1>6, <1>8, <1>9 DEF RedChild, ColorOf
<1>11. QED
    BY <1>4, <1>6, <1>7, <1>10

\* With a black sibling that has a red child the loop ends with a red-black tree.
LEMMA RedNephew ==
    ASSUME NEW s, NEW M, NEW key, NEW S, NEW H, NEW p \in M, NEW e \in Sides,
           OneShort(s, M, key, S, H, p, e),
           NEW w, w = s.child[Opposite(e)][p], ColorOf(s, w) = "black",
           ~\A d \in Sides : ColorOf(s, ChildOf(s, w, d)) = "black",
           NEW d, d = LiftSibling(FarNephew(s, p, e), p, e)
    PROVE  /\ \E T, K : IsRedBlack(d, M, key, T, K)
           /\ SameOutside(s, M, d)
<1> DEFINE far == Opposite(e)
           r == FarNephew(s, p, e)
<1>1. Site(s, M, H, s.child[e][p], p, e, w)
    BY SiteExists
<1>2. /\ M \subseteq Nodes /\ Null \notin Nodes /\ s \in Trees
      /\ w \in M /\ w # Null /\ s.color[w] = "black"
    BY <1>1, NullAssumption DEF OneShort, IsTree, Linked, Site, ColorOf
<1>3. far \in Sides /\ far # e /\ \A c \in Sides : c = e \/ c = far
    BY SidesAre
<1>4. \A c \in Sides : ChildOf(s, w, c) = s.child[c][w] /\ s.child[c][w] \in M \cup {Null}
    BY <1>1, <1>2 DEF ChildOf, Site
<1>5. \A c \in Sides : ColorOf(s, s.child[c][w]) \in {"red", "black"}
    BY <1>2, <1>4, TreeFields DEF ColorOf, Colors
<1>6. /\ \E T, K, v : OneShort(r, M, key, T, K, p, e) /\ RedChild(r, M, K, p, e, v, far)
      /\ SameOutside(s, M, r)
    <2>1. CASE ColorOf(s, s.child[far][w]) = "black"
        <3>1. ColorOf(s, s.child[e][w]) = "red"
            BY <1>3, <1>4, <1>5, <2>1
        <3>2. RedChild(s, M, H, p, e, w, e)
            BY <1>1, <1>2, <3>1 DEF RedChild
        <3>3. QED
            BY <2>1, <3>2, FarNephewEffect
    <2>2. CASE ColorOf(s, s.child[far][w]) # "black"
        <3>1. RedChild(s, M, H, p, e, w, far)
            BY <1>1, <1>2, <1>3, <1>5, <2>2 DEF RedChild
        <3>2. r = s
            BY <1>3, <1>4, <2>2 DEF FarNephew
        <3>3. SameOutside(s, M, s)
            BY DEF SameOutside
        <3> HIDE DEF r
        <3>4. QED
            BY <3>1, <3>2, <3>3
    <2>3. QED
        BY <2>1, <2>2
<1>7. d = LiftSibling(r, p, e)
    OBVIOUS
<1> HIDE DEF r
<1>8. PICK T, K, v : OneShort(r, M, key, T, K, p, e) /\ RedChild(r, M, K, p, e, v, far)
    BY <1>6
<1>9. /\ \E V, L : IsRedBlack(LiftSibling(r, p, e), M, key, V, L)
      /\ SameOutside(r, M, LiftSibling(r, p, e))
    BY <1>8, LiftSiblingEffect
<1>10. SameOutside(s, M, d)
    BY <1>6, <1>7, <1>9, SameOutsideTransitive
<1>11. QED
    BY <1>7, <1>9, <1>10

\* The loop invariant of remove_fixup: the ways down to x, below p on side e,
\* are a black entity short, and x may be red where it should not be.
Removing(t, M, key, S, H, x, p, e) ==
    /\ IsTree(t, M, key, S)
    /\ e \in Sides
    /\ ShortHeights(t, M, H, p, e)
    /\ RedOnlyAt(t, M, x, x)
    /\ x \in M \cup {Null}
    /\ p = Null => x = t.root
    /\ p # Null => p \in M /\ t.child[e][p] = x
    /\ ColorOf(t, t.root) = "red" => t.root = x

\* The loop goes on below an entity.
LEMMA RemovingSite ==
    ASSUME NEW t, NEW M, NEW key, NEW S, NEW H, NEW x, NEW p, NEW e,
           Removing(t, M, key, S, H, x, p, e), x # t.root, ColorOf(t, x) # "red"
    PROVE  /\ p \in M /\ e \in Sides /\ t.child[e][p] = x
           /\ ColorOf(t, x) = "black"
           /\ OneShort(t, M, key, S, H, p, e)
<1>1. p \in M /\ e \in Sides /\ t.child[e][p] = x /\ t \in Trees /\ x \in M \cup {Null} /\ M \subseteq Nodes
    BY DEF Removing, IsTree, Linked
<1>2. t.root \in M
    BY <1>1 DEF Removing, IsTree, Linked, Ordered, SubtreeOf
<1>3. Null \notin M
    BY <1>1, NullAssumption
<1>4. ColorOf(t, x) = "black"
    BY <1>1, TreeFields DEF ColorOf, Colors
<1>5. ColorOf(t, t.root) = "black"
    <2>1. ColorOf(t, t.root) \in {"red", "black"}
        BY <1>1, <1>2, TreeFields DEF ColorOf, Colors
    <2>2. QED
        BY <2>1 DEF Removing
<1>6. RedOnlyAt(t, M, Null, Null)
    <2>1. SUFFICES ASSUME NEW n \in M, NEW d \in Sides,
                          t.color[n] = "red", ColorOf(t, t.child[d][n]) = "red"
                   PROVE  FALSE
        BY DEF RedOnlyAt
    <2>2. n = x \/ t.child[d][n] = x
        BY <2>1 DEF Removing, RedOnlyAt
    <2>3. n # x
        BY <1>3, <1>4, <2>1 DEF ColorOf
    <2>4. QED
        BY <1>4, <2>1, <2>2, <2>3
<1>7. QED
    BY <1>1, <1>4, <1>5, <1>6 DEF Removing, OneShort

\* One iteration keeps the loop invariant, and either ends the loop or climbs.
LEMMA RemoveFixupStepEffect ==
    ASSUME NEW t, NEW M, NEW key, NEW S, NEW H, NEW x, NEW p, NEW e,
           Removing(t, M, key, S, H, x, p, e), x # t.root, ColorOf(t, x) # "red",
           NEW z, z = RemoveFixupStep(t, x, p)
    PROVE  /\ z = [tree |-> z.tree, x |-> z.x, p |-> z.p]
           /\ SameOutside(t, M, z.tree)
           /\ \E T, K, g : Removing(z.tree, M, key, T, K, z.x, z.p, g)
           /\ \/ z.x = z.tree.root
              \/ ColorOf(z.tree, z.x) = "red"
              \/ /\ IsTree(z.tree, M, key, S)
                 /\ p \in M /\ z.p \in M
                 /\ Cardinality(S[p]) < Cardinality(S[z.p])
<1> DEFINE far == Opposite(e)
           w0 == t.child[far][p]
           s == BlackSibling(t, p, e)
           w == s.child[far][p]
           d == LiftSibling(FarNephew(s, p, e), p, e)
           black == \A c \in Sides : ColorOf(s, ChildOf(s, w, c)) = "black"
           red == Paint(s, w, "red")
<1>1. /\ p \in M /\ e \in Sides /\ t.child[e][p] = x /\ ColorOf(t, x) = "black"
      /\ OneShort(t, M, key, S, H, p, e)
    BY RemovingSite
<1>2. Site(t, M, H, x, p, e, w0)
    BY <1>1, SiteExists
<1>3. SideOf(t, p, x) = e
    BY <1>2 DEF Site
<1>4. z = IF black THEN [tree |-> red, x |-> p, p |-> s.parent[p]]
                   ELSE [tree |-> d, x |-> d.root, p |-> Null]
    BY <1>3 DEF RemoveFixupStep
<1>5. /\ \E T, K : OneShort(s, M, key, T, K, p, e)
      /\ s.child[e][p] = x
      /\ ColorOf(s, s.child[Opposite(e)][p]) = "black"
      /\ SameOutside(t, M, s)
      /\ s = t \/ s.color[p] = "red"
    <2>1. CASE ColorOf(t, w0) = "red"
        <3>1. s = Rotate(Paint(Paint(t, w0, "black"), p, "red"), p, e)
            BY <2>1 DEF BlackSibling
        <3>2. t.color[w0] = "red"
            BY <2>1 DEF ColorOf
        <3> HIDE DEF s, w0
        <3>3. QED
            BY <1>1, <1>2, <3>1, <3>2, RedSibling
    <2>2. CASE ColorOf(t, w0) # "red"
        <3>1. s = t
            BY <2>2 DEF BlackSibling
        <3>2. SameOutside(t, M, t)
            BY DEF SameOutside
        <3>3. w0 \in Nodes /\ t \in Trees
            BY <1>1, <1>2 DEF Site, OneShort, IsTree, Linked
        <3>4. ColorOf(t, w0) = "black"
            BY <2>2, <3>3, TreeFields DEF ColorOf, Colors
        <3> HIDE DEF s
        <3>5. QED
            BY <1>1, <3>1, <3>2, <3>4
    <2>3. QED
        BY <2>1, <2>2
<1> HIDE DEF s
<1>6. PICK T, K : OneShort(s, M, key, T, K, p, e)
    BY <1>5
<1>7. w = s.child[Opposite(e)][p] /\ far = Opposite(e)
    OBVIOUS
<1>8. Site(s, M, K, x, p, e, w)
    BY <1>1, <1>5, <1>6, SiteExists
<1>9. CASE black
    <2>1. z = [tree |-> red, x |-> p, p |-> s.parent[p]]
        BY <1>4, <1>9
    <2>2. w \in M /\ w # Null /\ IsTree(s, M, key, T) /\ M \subseteq Nodes /\ Null \notin Nodes /\ s \in Trees
        BY <1>6, <1>8, NullAssumption DEF Site, OneShort, IsTree, Linked
    <2>3. s.color[w] = "black" /\ red = Paint(s, w, "red")
        BY <1>5, <2>2 DEF ColorOf
    <2>4. \A c \in Sides : ColorOf(s, s.child[c][w]) = "black"
        BY <1>9, <2>2 DEF ChildOf
    <2> DEFINE q == s.parent[p]
               g == IF p = s.root THEN "left" ELSE SideOf(s, s.parent[p], p)
    <2> HIDE DEF red, w
    <2>5. /\ IsTree(red, M, key, T)
          /\ \E L : ShortHeights(red, M, L, s.parent[p],
                                 IF p = s.root THEN "left" ELSE SideOf(s, s.parent[p], p))
          /\ RedOnlyAt(red, M, p, p)
          /\ ColorOf(red, red.root) = "black"
          /\ red.color[p] = s.color[p]
          /\ Repainted(s, M, red)
          /\ SameOutside(s, M, red)
        BY <1>6, <1>8, <2>3, <2>4, BlackNephews
    <2>6. PICK L : ShortHeights(red, M, L, q, g)
        BY <2>5
    <2>7. SameOutside(t, M, red)
        BY <1>5, <2>5, SameOutsideTransitive
    <2>8. red.root = s.root /\ red.child = s.child
        BY <2>5 DEF Repainted
    <2>9. /\ p = s.root => q = Null
          /\ p # s.root => q \in M /\ g \in Sides /\ s.child[g][q] = p /\ q # Null
          /\ g \in Sides
        <3>1. CASE p = s.root
            BY <1>1, <2>2, <3>1, RootHasNoParent DEF Sides
        <3>2. CASE p # s.root
            <4>1. q \in M /\ SideOf(s, q, p) \in Sides /\ s.child[SideOf(s, q, p)][q] = p
                BY <1>1, <2>2, <3>2, ParentSide
            <4>2. QED
                BY <2>2, <3>2, <4>1
        <3>3. QED
            BY <3>1, <3>2
    <2> HIDE DEF q, g
    <2>10. Removing(red, M, key, T, L, p, q, g)
        BY <1>1, <2>2, <2>5, <2>6, <2>8, <2>9 DEF Removing
    <2>11. \/ p = red.root
           \/ ColorOf(red, p) = "red"
           \/ /\ IsTree(red, M, key, S) /\ p \in M /\ q \in M
              /\ Cardinality(S[p]) < Cardinality(S[q])
        <3>1. CASE p = s.root
            BY <2>8, <3>1
        <3>2. CASE s.color[p] = "red"
            BY <1>1, <2>2, <2>5, <3>2 DEF ColorOf
        <3>3. CASE p # s.root /\ s = t
            <4>1. IsTree(s, M, key, S)
                BY <1>1, <3>3 DEF OneShort
            <4>2. IsTree(red, M, key, S)
                BY <2>5, <4>1, RepaintedTree
            <4>3. Cardinality(S[p]) < Cardinality(S[q])
                <5>1. s.child[g][q] # Null
                    BY <1>1, <2>2, <2>9, <3>3
                <5>2. QED
                    BY <2>9, <3>3, <4>1, <5>1, ChildSubtree
            <4>4. QED
                BY <1>1, <2>9, <3>3, <4>2, <4>3
        <3>4. QED
            BY <1>5, <3>1, <3>2, <3>3
    <2>12. z = [tree |-> red, x |-> p, p |-> q]
        BY <2>1 DEF q
    <2>13. z = [tree |-> z.tree, x |-> z.x, p |-> z.p] /\ z.tree = red /\ z.x = p /\ z.p = q
        BY <2>12
    <2>14. QED
        BY <2>7, <2>10, <2>11, <2>13
<1>10. CASE ~black
    <2>1. z = [tree |-> d, x |-> d.root, p |-> Null]
        BY <1>4, <1>10
    <2>2. ~\A c \in Sides : ColorOf(s, ChildOf(s, w, c)) = "black"
        BY <1>10
    <2>3. /\ d = LiftSibling(FarNephew(s, p, e), p, e)
          /\ w = s.child[Opposite(e)][p] /\ ColorOf(s, w) = "black"
        BY <1>5
    <2> HIDE DEF d, w, far
    <2>5. /\ \E V, L : IsRedBlack(d, M, key, V, L)
          /\ SameOutside(s, M, d)
        BY <1>1, <1>6, <2>2, <2>3, RedNephew
    <2>6. PICK V, L : IsRedBlack(d, M, key, V, L)
        BY <2>5
    <2>7. ShortHeights(d, M, L, Null, e)
        <3>1. OneShort(d, M, key, V, L, Null, e)
            BY <2>6, NoneShort
        <3>2. QED
            BY <3>1 DEF OneShort
    <2>8. RedOnlyAt(d, M, d.root, d.root)
        <3>1. SUFFICES ASSUME NEW n \in M, NEW c \in Sides,
                              d.color[n] = "red", ColorOf(d, d.child[c][n]) = "red"
                       PROVE  FALSE
            BY DEF RedOnlyAt
        <3>2. n # Null /\ d.child[c][n] # Null
            BY <2>6, <3>1, NullAssumption DEF ColorOf, IsRedBlack, IsTree, Linked
        <3>3. QED
            BY <2>6, <3>1, <3>2 DEF IsRedBlack, RedOnlyAt
    <2>9. Removing(d, M, key, V, L, d.root, Null, e)
        BY <1>1, <2>6, <2>7, <2>8 DEF Removing, IsRedBlack, IsTree, Linked
    <2>10. SameOutside(t, M, d)
        BY <1>5, <2>5, SameOutsideTransitive
    <2>11. z = [tree |-> z.tree, x |-> z.x, p |-> z.p] /\ z.tree = d /\ z.x = d.root /\ z.p = Null
        BY <2>1
    <2>12. QED
        BY <2>9, <2>10, <2>11
<1>11. QED
    BY <1>9, <1>10

RemoveStates(t, M, key) ==
    {s \in [tree : Trees, x : Pointers, p : Pointers] :
        /\ SameOutside(t, M, s.tree)
        /\ \E S, H, e : Removing(s.tree, M, key, S, H, s.x, s.p, e)}

\* The condition of remove_fixup's loop is false.
RemoveEnded(s) == s.x = s.tree.root \/ ColorOf(s.tree, s.x) = "red"

\* What is left to climb
RemoveMeasure(s, M, key) ==
    IF RemoveEnded(s)
      THEN 0 ELSE Cardinality(Nodes) + 1 - Cardinality(SubtreesOf(s.tree, M, key)[s.p])

\* remove_fixup's loop ends, still with the black entity missing below p.
LEMMA RemoveLoopEffect ==
    ASSUME NEW t, NEW M, NEW key, NEW S, NEW H, NEW x, NEW p, NEW e,
           Removing(t, M, key, S, H, x, p, e),
           NEW z, z = Loop([s \in [tree : Trees, x : Pointers, p : Pointers] |->
                               RemoveFixupStep(s.tree, s.x, s.p)],
                           [tree |-> t, x |-> x, p |-> p])
    PROVE  z \in RemoveStates(t, M, key) /\ RemoveEnded(z)
<1> DEFINE A == RemoveStates(t, M, key)
           F == [s \in [tree : Trees, x : Pointers, p : Pointers] |->
                    RemoveFixupStep(s.tree, s.x, s.p)]
           m == [s \in A |-> RemoveMeasure(s, M, key)]
           s0 == [tree |-> t, x |-> x, p |-> p]
<1>1. s0 \in A
    <2>1. t \in Trees /\ x \in Pointers /\ p \in Pointers
        BY DEF Removing, IsTree, Linked, Pointers
    <2>2. SameOutside(t, M, t)
        BY DEF SameOutside
    <2>3. s0 \in [tree : Trees, x : Pointers, p : Pointers] /\ s0.tree = t /\ s0.x = x /\ s0.p = p
        BY <2>1
    <2> HIDE DEF s0
    <2>4. QED
        BY <2>2, <2>3 DEF RemoveStates
<1>2. ASSUME NEW s \in A
      PROVE  /\ F[s] \in A
             /\ m[s] \in Nat
             /\ m[s] <= Cardinality(Nodes)
             /\ F[s] = s \/ RemoveMeasure(F[s], M, key) < m[s]
             /\ F[s] = s => RemoveEnded(s)
    <2> DEFINE q == RemoveFixupStep(s.tree, s.x, s.p)
    <2>1. /\ s \in [tree : Trees, x : Pointers, p : Pointers] /\ F[s] = q
          /\ SameOutside(t, M, s.tree)
          /\ m[s] = RemoveMeasure(s, M, key)
        BY DEF RemoveStates
    <2>2. PICK T, K, g : Removing(s.tree, M, key, T, K, s.x, s.p, g)
        BY DEF RemoveStates
    <2>3. Cardinality(Nodes) \in Nat
        BY FiniteAssumption, FS_CardinalityType
    <2>4. IsTree(s.tree, M, key, T) /\ M \subseteq Nodes
        BY <2>2 DEF Removing, IsTree, Linked
    <2>5. CASE RemoveEnded(s)
        <3>1. q = s
            BY <2>1, <2>5 DEF RemoveFixupStep, RemoveEnded
        <3>2. m[s] = 0
            BY <2>1, <2>5 DEF RemoveMeasure
        <3> HIDE DEF q, F, m
        <3>3. QED
            BY <2>1, <2>3, <2>5, <3>1, <3>2
    <2>6. CASE ~RemoveEnded(s)
        <3>1. s.x # s.tree.root /\ ColorOf(s.tree, s.x) # "red"
            BY <2>6 DEF RemoveEnded
        <3>2. /\ q = [tree |-> q.tree, x |-> q.x, p |-> q.p]
              /\ SameOutside(s.tree, M, q.tree)
              /\ \E V, L, f : Removing(q.tree, M, key, V, L, q.x, q.p, f)
              /\ \/ q.x = q.tree.root
                 \/ ColorOf(q.tree, q.x) = "red"
                 \/ /\ IsTree(q.tree, M, key, T)
                    /\ s.p \in M /\ q.p \in M
                    /\ Cardinality(T[s.p]) < Cardinality(T[q.p])
            BY <2>2, <3>1, RemoveFixupStepEffect
        <3>3. s.p \in M
            BY <2>2, <3>1, RemovingSite
        <3> HIDE DEF q
        <3>4. PICK V, L, f : Removing(q.tree, M, key, V, L, q.x, q.p, f)
            BY <3>2
        <3>5. q.tree \in Trees /\ q.x \in Pointers /\ q.p \in Pointers
            BY <3>4 DEF Removing, IsTree, Linked, Pointers
        <3>6. q \in [tree : Trees, x : Pointers, p : Pointers]
            BY <3>2, <3>5
        <3>7. q \in A
            BY <2>1, <3>2, <3>6, SameOutsideTransitive DEF RemoveStates
        <3>8. /\ Cardinality(SubtreesOf(s.tree, M, key)[s.p]) = Cardinality(T[s.p])
              /\ Cardinality(T[s.p]) \in 1 .. Cardinality(Nodes)
            BY <2>4, <3>3, SubtreeSize
        <3>9. m[s] = Cardinality(Nodes) + 1 - Cardinality(T[s.p])
            BY <2>1, <2>6, <3>8 DEF RemoveMeasure
        <3>10. m[s] \in Nat /\ m[s] <= Cardinality(Nodes) /\ m[s] > 0
            BY <2>3, <3>8, <3>9
        <3>11. RemoveMeasure(q, M, key) < m[s]
            <4>1. CASE RemoveEnded(q)
                BY <3>10, <4>1 DEF RemoveMeasure
            <4>2. CASE ~RemoveEnded(q)
                <5>1. /\ IsTree(q.tree, M, key, T) /\ q.p \in M
                      /\ Cardinality(T[s.p]) < Cardinality(T[q.p])
                    BY <3>2, <4>2 DEF RemoveEnded
                <5>2. /\ Cardinality(SubtreesOf(q.tree, M, key)[q.p]) = Cardinality(T[q.p])
                      /\ Cardinality(T[q.p]) \in 1 .. Cardinality(Nodes)
                    BY <5>1, SubtreeSize
                <5>3. RemoveMeasure(q, M, key) = Cardinality(Nodes) + 1 - Cardinality(T[q.p])
                    BY <4>2, <5>2 DEF RemoveMeasure
                <5>4. QED
                    BY <2>3, <3>8, <3>9, <5>1, <5>2, <5>3
            <4>3. QED
                BY <4>1, <4>2
        <3>12. F[s] # s
            <4>1. SUFFICES ASSUME q = s PROVE FALSE
                BY <2>1
            <4>2. RemoveMeasure(q, M, key) = m[s]
                BY <2>1, <4>1
            <4>3. QED
                BY <3>10, <3>11, <4>2
        <3> HIDE DEF F, m
        <3>13. QED
            BY <2>1, <3>7, <3>10, <3>11, <3>12
    <2>7. QED
        BY <2>5, <2>6
<1>3. z = Loop(F, s0)
    OBVIOUS
<1> HIDE DEF F, A
<1>4. m \in [A -> Nat]
    BY <1>2
<1>5. \A s \in A : F[s] \in A /\ (F[s] = s \/ m[F[s]] < m[s])
    BY <1>2
<1>6. m[s0] <= Cardinality(Nodes)
    BY <1>1, <1>2
<1>7. z \in A /\ F[z] = z
    <2> HIDE DEF m, s0
    <2>1. QED
        BY <1>1, <1>3, <1>4, <1>5, <1>6, LoopEnds
<1>8. QED
    BY <1>2, <1>7 DEF A

\* remove_fixup ends with a red-black tree.
LEMMA RemoveFixupEffect ==
    ASSUME NEW t, NEW M, NEW key, NEW S, NEW H, NEW x, NEW p, NEW e,
           Removing(t, M, key, S, H, x, p, e),
           NEW r, r = RemoveFixup(t, x, p)
    PROVE  /\ \E T, K : IsRedBlack(r, M, key, T, K)
           /\ SameOutside(t, M, r)
<1> DEFINE z == Loop([s \in [tree : Trees, x : Pointers, p : Pointers] |->
                         RemoveFixupStep(s.tree, s.x, s.p)],
                     [tree |-> t, x |-> x, p |-> p])
<1>1. z \in RemoveStates(t, M, key) /\ RemoveEnded(z)
    <2>1. z = Loop([s \in [tree : Trees, x : Pointers, p : Pointers] |->
                        RemoveFixupStep(s.tree, s.x, s.p)],
                   [tree |-> t, x |-> x, p |-> p])
        OBVIOUS
    <2> HIDE DEF z
    <2>2. QED
        BY <2>1, RemoveLoopEffect
<1>2. r = Paint(z.tree, z.x, "black")
    BY DEF RemoveFixup
<1> HIDE DEF z
<1> DEFINE f == z.tree
           y == z.x
           q == z.p
<1>3. PICK T, K, g : Removing(f, M, key, T, K, y, q, g)
    BY <1>1 DEF RemoveStates
<1>4. SameOutside(t, M, f) /\ (y = f.root \/ ColorOf(f, y) = "red")
    BY <1>1 DEF RemoveStates, RemoveEnded
<1> HIDE DEF f, y, q
<1>5. /\ IsTree(f, M, key, T) /\ f \in Trees /\ M \subseteq Nodes /\ y \in M \cup {Null}
      /\ y \in Pointers /\ "black" \in Colors /\ Null \notin Nodes
      /\ g \in Sides
      /\ K \in [Nodes -> Nat]
    BY <1>3, NullAssumption DEF Removing, ShortHeights, IsTree, Linked, Pointers, Colors
<1>6. IsTree(r, M, key, T) /\ Painted(f, y, "black", r) /\ SameOutside(f, M, r)
    BY <1>2, <1>5, PaintTree DEF f, y
<1>7. SameOutside(t, M, r)
    BY <1>4, <1>6, SameOutsideTransitive
<1>8. /\ r.child = f.child /\ r.root = f.root
      /\ \A n \in Nodes : r.color[n] = IF n = y THEN "black" ELSE f.color[n]
    BY <1>6 DEF Painted
<1>9. ColorOf(r, r.root) = "black"
    <2>1. f.root \in Pointers
        BY <1>5, TreeFields
    <2>2. ColorOf(f, f.root) = "red" => f.root = y
        BY <1>3 DEF Removing
    <2>3. f.root # Null => f.root \in Nodes /\ f.color[f.root] \in {"red", "black"}
        BY <1>5, <2>1, TreeFields DEF Colors
    <2>4. QED
        BY <1>8, <2>2, <2>3 DEF ColorOf
<1>10. RedOnlyAt(r, M, Null, Null)
    <2>1. SUFFICES ASSUME NEW n \in M, NEW d \in Sides,
                          r.color[n] = "red", ColorOf(r, r.child[d][n]) = "red"
                   PROVE  FALSE
        BY DEF RedOnlyAt
    <2> DEFINE c == f.child[d][n]
    <2>2. c # Null /\ c \in Nodes /\ n \in Nodes
        BY <1>5, <1>8, <2>1, TreeFields DEF ColorOf
    <2>3. n # y /\ c # y
        BY <1>8, <2>1, <2>2 DEF ColorOf
    <2>4. f.color[n] = "red" /\ ColorOf(f, c) = "red"
        BY <1>8, <2>1, <2>2, <2>3 DEF ColorOf
    <2>5. QED
        BY <1>3, <2>3, <2>4 DEF Removing, RedOnlyAt
<1>11. \E L : Heights(r, M, L)
    <2> DEFINE B(n) == IF n = y /\ f.color[n] # "black" THEN 1 ELSE 0
               L == [n \in Nodes |-> K[n] + B(n)]
    <2>1. L \in [Nodes -> Nat]
        BY <1>5
    <2>2. ASSUME NEW n \in M, NEW d \in Sides
          PROVE  L[n] = HeightOf(L, r.child[d][n]) + BlackCount(r, n)
        <3> DEFINE c == f.child[d][n]
        <3>1. c \in Pointers /\ n \in Nodes /\ HeightOf(K, c) \in Nat
            BY <1>5, TreeFields DEF HeightOf
        <3>2. K[n] = HeightOf(K, c) + BlackCount(f, n) + Short(q, g, n, d)
            BY <1>3 DEF Removing, ShortHeights
        <3>3. BlackCount(r, n) = BlackCount(f, n) + B(n) /\ B(n) \in {0, 1} /\ BlackCount(f, n) \in {0, 1}
            BY <1>8, <3>1 DEF BlackCount
        <3>4. HeightOf(L, c) = HeightOf(K, c) + Short(q, g, n, d)
            <4>1. CASE n = q /\ d = g
                <5>1. c = y
                    BY <1>3, <1>5, <4>1 DEF Removing
                <5>2. y # f.root
                    <6>1. CASE y = Null
                        BY <1>5, <6>1 DEF IsTree, Ordered, SubtreeOf
                    <6>2. CASE y # Null
                        BY <1>5, <5>1, <6>2, ChildSubtree, RootHasNoParent
                    <6>3. QED
                        BY <6>1, <6>2
                <5>3. y # Null /\ f.color[y] = "red" /\ y \in Nodes
                    BY <1>4, <1>5, <5>2 DEF ColorOf
                <5>4. HeightOf(L, c) = K[y] + 1 /\ HeightOf(K, c) = K[y]
                    BY <5>1, <5>3 DEF HeightOf
                <5>5. QED
                    BY <4>1, <5>4 DEF Short
            <4>2. CASE ~(n = q /\ d = g)
                <5>1. ASSUME c # Null PROVE c # y
                    <6>1. SUFFICES ASSUME c = y PROVE FALSE
                        OBVIOUS
                    <6>2. f.parent[y] = n /\ y # f.root
                        BY <1>5, <5>1, <6>1, ChildSubtree, RootHasNoParent
                    <6>3. q # Null
                        BY <1>3, <6>2 DEF Removing
                    <6>4. q \in M /\ f.child[g][q] = y
                        BY <1>3, <6>3 DEF Removing
                    <6>5. f.parent[y] = q
                        BY <1>5, <5>1, <6>1, <6>4, ChildSubtree
                    <6>6. n = q /\ d # g
                        BY <4>2, <6>2, <6>5
                    <6>7. d = Opposite(g)
                        BY <1>5, <6>6, SidesAre
                    <6>8. f.child[g][n] # f.child[Opposite(g)][n]
                        BY <1>5, <5>1, <6>1, <6>4, <6>6, ChildrenDiffer
                    <6>9. QED
                        BY <6>1, <6>4, <6>6, <6>7, <6>8
                <5>2. HeightOf(L, c) = HeightOf(K, c)
                    BY <1>5, <3>1, <5>1 DEF HeightOf, Pointers
                <5>3. QED
                    BY <3>1, <4>2, <5>2 DEF Short
            <4>3. QED
                BY <4>1, <4>2
        <3>5. L[n] = K[n] + B(n) /\ r.child[d][n] = c
            BY <1>8, <3>1
        <3>6. Short(q, g, n, d) \in {0, 1}
            BY DEF Short
        <3> HIDE DEF L, B, c
        <3>7. QED
            BY <3>1, <3>2, <3>3, <3>4, <3>5, <3>6
    <2>3. QED
        BY <2>1, <2>2 DEF Heights
<1>12. QED
    BY <1>6, <1>7, <1>9, <1>10, <1>11 DEF IsRedBlack

\* r is t after v has taken u's place below u's parent.
Transplanted(t, u, v, r) ==
    /\ r \in Trees
    /\ r.root = IF t.parent[u] = Null THEN v ELSE t.root
    /\ r.len = t.len /\ r.color = t.color
    /\ \A m \in Nodes : r.parent[m] = IF m = v THEN t.parent[u] ELSE t.parent[m]
    /\ \A d \in Sides, m \in Nodes : r.child[d][m] =
          IF m = t.parent[u] /\ d = SideOf(t, m, u) THEN v ELSE t.child[d][m]

LEMMA TransplantEffect ==
    ASSUME NEW t \in Trees, NEW u \in Nodes, NEW v \in Pointers
    PROVE  Transplanted(t, u, v, Transplant(t, u, v))
<1> DEFINE a == Relink(t, u, v)
           p == t.parent[u]
           r == SetParent(a, v, p)
<1>1. r = Transplant(t, u, v)
    BY DEF Transplant
<1>2. p \in Pointers
    BY TreeFields
<1>3. Relinked(t, u, v, a) /\ a \in Trees
    BY RelinkEffect DEF Relinked
<1> HIDE DEF a
<1>4. ParentSet(a, v, p, r)
    BY <1>2, <1>3, SetParentEffect
<1> HIDE DEF r
<1>5. QED
    BY <1>1, <1>3, <1>4 DEF Relinked, ParentSet, Transplanted

\* a instead of n
Swap(n, a, c) == IF c = n THEN a ELSE c

\* An entity of the tree is the child of its parent only, and on one side.
LEMMA OnlyChild ==
    ASSUME NEW t, NEW M, NEW key, NEW S, IsTree(t, M, key, S), NEW n \in M
    PROVE  /\ t.root = n <=> t.parent[n] = Null
           /\ \A m \in M, d \in Sides :
                 t.child[d][m] = n <=> m = t.parent[n] /\ d = SideOf(t, m, n)
<1>1. n # Null /\ Null \notin M
    BY NullAssumption DEF IsTree, Linked
<1>2. ASSUME NEW m \in M, NEW d \in Sides, t.child[d][m] = n
      PROVE  m = t.parent[n] /\ d = SideOf(t, m, n)
    BY <1>1, <1>2, ChildSubtree, ChildrenDiffer
<1>3. ASSUME NEW m \in M, NEW d \in Sides, m = t.parent[n], d = SideOf(t, m, n)
      PROVE  t.child[d][m] = n
    <2>1. n # t.root
        BY <1>1, <1>3, RootHasNoParent
    <2>2. QED
        BY <1>3, <2>1, ParentSide
<1>4. QED
    BY <1>2, <1>3, RootHasNoParent

\* u is t with n, which has at most the child x, taken out.
Spliced(t, M, n, x, u) ==
    /\ u \in Trees /\ u.len = t.len /\ u.color = t.color
    /\ u.root = Swap(n, x, t.root)
    /\ \A m \in M \ {n} :
          /\ u.parent[m] = Swap(n, t.parent[n], t.parent[m])
          /\ \A d \in Sides : u.child[d][m] = Swap(n, x, t.child[d][m])

\* n has no child on side d, and x on the other.
HalfEmpty(t, n, d, x) ==
    d \in Sides /\ t.child[d][n] = Null /\ t.child[Opposite(d)][n] = x

LEMMA SpliceEffect ==
    ASSUME NEW t, NEW M, NEW key, NEW S, IsTree(t, M, key, S), NEW n \in M,
           NEW d, NEW x, HalfEmpty(t, n, d, x), NEW u, Transplanted(t, n, x, u)
    PROVE  /\ Spliced(t, M, n, x, u)
           /\ OthersKept(t, M, u)
<1>1. M \subseteq Nodes /\ Null \notin Nodes /\ n # Null /\ t \in Trees /\ d \in Sides
    BY NullAssumption DEF IsTree, Linked, HalfEmpty
<1>2. /\ t.root = n <=> t.parent[n] = Null
      /\ \A m \in M, e \in Sides :
            t.child[e][m] = n <=> m = t.parent[n] /\ e = SideOf(t, m, n)
    BY OnlyChild
<1>3. u.root = Swap(n, x, t.root)
    BY <1>2 DEF Transplanted, Swap
<1>4. ASSUME NEW m \in M \ {n}
      PROVE  u.parent[m] = Swap(n, t.parent[n], t.parent[m])
    <2>1. t.parent[m] = n <=> m = x
        <3>1. CASE t.parent[m] = n
            <4>1. m # t.root
                BY <1>1, <3>1, RootHasNoParent
            <4>2. SideOf(t, n, m) \in Sides /\ t.child[SideOf(t, n, m)][n] = m
                BY <3>1, <4>1, ParentSide
            <4>3. m # Null
                BY <1>1
            <4>4. SideOf(t, n, m) = Opposite(d)
                BY <1>1, <4>2, <4>3, SidesAre DEF HalfEmpty
            <4>5. QED
                BY <3>1, <4>2, <4>4 DEF HalfEmpty
        <3>2. CASE m = x
            <4>1. Opposite(d) \in Sides /\ t.child[Opposite(d)][n] = m /\ m # Null
                BY <1>1, <3>2, SidesAre DEF HalfEmpty
            <4>2. QED
                BY <3>2, <4>1, ChildSubtree
        <3>3. QED
            BY <3>1, <3>2
    <2>2. QED
        BY <1>1, <2>1 DEF Transplanted, Swap
<1>5. ASSUME NEW m \in M \ {n}, NEW e \in Sides
      PROVE  u.child[e][m] = Swap(n, x, t.child[e][m])
    BY <1>1, <1>2 DEF Transplanted, Swap
<1>6. OthersKept(t, M, u)
    <2>1. x = Null \/ x \in M
        BY <1>1, SidesAre, ChildSubtree DEF HalfEmpty
    <2>2. t.parent[n] = Null \/ t.parent[n] \in M
        BY <1>2, ParentSide
    <2>3. QED
        BY <1>1, <2>1, <2>2 DEF OthersKept, Transplanted
<1>7. QED
    BY <1>3, <1>4, <1>5, <1>6 DEF Spliced, Transplanted

LEMMA SplicedLinked ==
    ASSUME NEW t, NEW M, NEW key, NEW S, IsTree(t, M, key, S), NEW n \in M,
           NEW d, NEW x, HalfEmpty(t, n, d, x), NEW u, Spliced(t, M, n, x, u)
    PROVE  Linked(u, M \ {n})
<1>1. M \subseteq Nodes /\ Null \notin Nodes /\ n # Null /\ t \in Trees /\ d \in Sides
    BY NullAssumption DEF IsTree, Linked, HalfEmpty
<1>2. x # Null => x \in M \ {n} /\ t.parent[x] = n /\ u.parent[x] = t.parent[n]
    <2>1. x # Null => x \in M /\ t.parent[x] = n /\ x # n
        BY <1>1, SidesAre, ChildSubtree DEF HalfEmpty
    <2>2. QED
        BY <2>1 DEF Spliced, Swap
<1>3. t.root # Null /\ t.root \in M /\ t.parent[t.root] = Null
    BY DEF IsTree, Linked, Ordered, SubtreeOf
<1>4. u.root # Null => u.root \in M \ {n} /\ u.parent[u.root] = Null
    <2>1. CASE t.root = n
        BY <1>2, <1>3, <2>1 DEF Spliced, Swap
    <2>2. CASE t.root # n
        BY <1>1, <1>3, <2>2 DEF Spliced, Swap
    <2>3. QED
        BY <2>1, <2>2
<1>5. ASSUME NEW m \in M \ {n}, NEW e \in Sides, u.child[e][m] # Null
      PROVE  u.child[e][m] \in M \ {n} /\ u.parent[u.child[e][m]] = m
    <2> DEFINE c == t.child[e][m]
    <2>1. u.child[e][m] = Swap(n, x, c)
        BY DEF Spliced
    <2>2. CASE c = n
        <3>1. t.parent[n] = m
            BY <1>1, <2>2, ChildSubtree
        <3>2. QED
            BY <1>2, <1>5, <2>1, <2>2, <3>1 DEF Swap
    <2>3. CASE c # n
        <3>1. u.child[e][m] = c /\ c # Null
            BY <1>5, <2>1, <2>3 DEF Swap
        <3>2. c \in M \ {n} /\ t.parent[c] = m
            BY <2>3, <3>1, ChildSubtree
        <3>3. u.parent[c] = m
            BY <3>2 DEF Spliced, Swap
        <3>4. QED
            BY <3>1, <3>2, <3>3
    <2>4. QED
        BY <2>2, <2>3
<1>6. ASSUME NEW m \in M \ {n}, m # u.root
      PROVE  u.parent[m] \in M \ {n} /\ \E e \in Sides : u.child[e][u.parent[m]] = m
    <2> DEFINE q == t.parent[m]
               f == SideOf(t, q, m)
    <2>1. m # t.root
        BY <1>6 DEF Spliced, Swap
    <2>2. q \in M /\ f \in Sides /\ t.child[f][q] = m /\ m # Null
        BY <1>1, <2>1, ParentSide
    <2>3. CASE q = n
        <3>1. m = x
            BY <1>1, <2>2, <2>3, SidesAre DEF HalfEmpty
        <3>2. n # t.root
            BY <1>6, <3>1 DEF Spliced, Swap
        <3> DEFINE p == t.parent[n]
                   e == SideOf(t, p, n)
        <3>3. p \in M /\ p # n /\ e \in Sides /\ t.child[e][p] = n
            BY <3>2, ParentSide
        <3> HIDE DEF e
        <3>4. u.parent[m] = p /\ u.child[e][p] = m
            BY <2>3, <3>1, <3>3 DEF Spliced, Swap
        <3>5. QED
            BY <3>3, <3>4
    <2>4. CASE q # n
        <3> HIDE DEF f
        <3>1. u.parent[m] = q /\ u.child[f][q] = m
            BY <2>2, <2>4 DEF Spliced, Swap
        <3>2. QED
            BY <2>2, <2>4, <3>1
    <2>5. QED
        BY <2>3, <2>4
<1>7. QED
    BY <1>1, <1>4, <1>5, <1>6 DEF Linked

SplicedSubtrees(S, n) == [m \in Nodes |-> S[m] \ {n}]

LEMMA SplicedOrdered ==
    ASSUME NEW t, NEW M, NEW key, NEW S, IsTree(t, M, key, S), NEW n \in M,
           NEW d, NEW x, HalfEmpty(t, n, d, x), NEW u, Spliced(t, M, n, x, u)
    PROVE  Ordered(u, M \ {n}, key, SplicedSubtrees(S, n))
<1> DEFINE T == SplicedSubtrees(S, n)
<1>1. M \subseteq Nodes /\ Null \notin Nodes /\ n # Null /\ t \in Trees /\ d \in Sides
    BY NullAssumption DEF IsTree, Linked, HalfEmpty
<1>2. S \in [Nodes -> SUBSET Nodes] /\ SubtreeOf(S, t.root) = M /\ t.root \in M
    BY DEF IsTree, Linked, Ordered, SubtreeOf
<1>3. T \in [Nodes -> SUBSET Nodes] /\ \A m \in Nodes : T[m] = S[m] \ {n}
    BY <1>2 DEF SplicedSubtrees
<1>4. x \in M \cup {Null}
    BY <1>1, SidesAre, ChildSubtree DEF HalfEmpty
<1>5. S[n] = {n} \cup SubtreeOf(S, x)
    <2>1. SubtreeOf(S, Null) = {}
        BY DEF SubtreeOf
    <2>2. QED
        BY <1>1, <2>1, SubtreeSplit DEF HalfEmpty
<1> HIDE DEF T
<1>6. ASSUME NEW c \in M \cup {Null}
      PROVE  SubtreeOf(T, Swap(n, x, c)) = SubtreeOf(S, c) \ {n}
    <2>1. \A b \in M \cup {Null} : SubtreeOf(T, b) = SubtreeOf(S, b) \ {n}
        BY <1>1, <1>3 DEF SubtreeOf
    <2>2. CASE c = n
        BY <1>1, <1>4, <1>5, <2>1, <2>2 DEF Swap, SubtreeOf
    <2>3. CASE c # n
        BY <2>1, <2>3 DEF Swap
    <2>4. QED
        BY <2>2, <2>3
<1>7. SubtreeOf(T, u.root) = M \ {n}
    BY <1>2, <1>6 DEF Spliced
<1>8. ASSUME NEW m \in M \ {n}, NEW e \in Sides
      PROVE  SubtreeOf(T, u.child[e][m]) = SubtreeOf(S, t.child[e][m]) \ {n}
    <2>1. t.child[e][m] \in M \cup {Null}
        BY ChildSubtree
    <2>2. QED
        BY <1>6, <2>1 DEF Spliced
<1>9. ASSUME NEW m \in M \ {n}
      PROVE  T[m] = {m} \cup SubtreeOf(T, u.child["left"][m])
                        \cup SubtreeOf(T, u.child["right"][m])
    <2>1. S[m] = {m} \cup SubtreeOf(S, t.child["left"][m]) \cup SubtreeOf(S, t.child["right"][m])
        BY DEF IsTree, Ordered
    <2>2. /\ SubtreeOf(T, u.child["left"][m]) = SubtreeOf(S, t.child["left"][m]) \ {n}
          /\ SubtreeOf(T, u.child["right"][m]) = SubtreeOf(S, t.child["right"][m]) \ {n}
        BY <1>8 DEF Sides
    <2>3. T[m] = S[m] \ {n}
        BY <1>1, <1>3
    <2>4. QED
        BY <2>1, <2>2, <2>3
<1>10. ASSUME NEW m \in M \ {n}, NEW e \in Sides, NEW k \in SubtreeOf(T, u.child[e][m])
       PROVE  OnSide(key, e, k, m)
    BY <1>8 DEF IsTree, Ordered
<1>11. QED
    BY <1>3, <1>7, <1>9, <1>10 DEF Ordered, T

\* What is left of a red-black tree when an entity of the given colour has gone:
\* x, below p on side e, took its place.
AfterCut(t, M, key, S, H, color, x, p, e) ==
    IF color = "black" THEN Removing(t, M, key, S, H, x, p, e)
                       ELSE IsRedBlack(t, M, key, S, H)

\* The side of its parent on which n hangs; any side for the root
CutSide(t, n) == IF n = t.root THEN "left" ELSE SideOf(t, t.parent[n], n)

LEMMA SplicedCut ==
    ASSUME NEW t, NEW M, NEW key, NEW S, NEW H, IsRedBlack(t, M, key, S, H), NEW n \in M,
           NEW d, NEW x, HalfEmpty(t, n, d, x), NEW u, Spliced(t, M, n, x, u)
    PROVE  /\ AfterCut(u, M \ {n}, key, SplicedSubtrees(S, n), H, t.color[n],
                       x, t.parent[n], CutSide(t, n))
           /\ t.parent[n] # Null =>
                 t.parent[n] \in M \ {n} /\ u.child[CutSide(t, n)][t.parent[n]] = x
           /\ CutSide(t, n) \in Sides
<1> DEFINE p == t.parent[n]
           e == CutSide(t, n)
           T == SplicedSubtrees(S, n)
           N == M \ {n}
<1>1. IsTree(t, M, key, S) /\ Heights(t, M, H) /\ RedOnlyAt(t, M, Null, Null)
      /\ ColorOf(t, t.root) = "black"
    BY DEF IsRedBlack
<1>2. M \subseteq Nodes /\ Null \notin Nodes /\ n # Null /\ t \in Trees /\ d \in Sides /\ n \in Nodes
    BY <1>1, NullAssumption DEF IsTree, Linked, HalfEmpty
<1>3. IsTree(u, N, key, T)
    BY <1>1, SplicedLinked, SplicedOrdered DEF IsTree, Spliced
<1> HIDE DEF T
<1>4. H \in [Nodes -> Nat] /\ \A m \in M, f \in Sides : H[m] = HeightOf(H, t.child[f][m]) + BlackCount(t, m)
    BY <1>1 DEF Heights
<1>5. x \in M \cup {Null} /\ x # n
    BY <1>1, <1>2, SidesAre, ChildSubtree DEF HalfEmpty
<1>6. H[n] = HeightOf(H, x) + BlackCount(t, n)
    BY <1>2, <1>4, SidesAre DEF HalfEmpty
<1>7. HeightOf(H, x) \in Nat
    BY <1>2, <1>4, <1>5 DEF HeightOf
<1>8. /\ n = t.root <=> p = Null
      /\ n # t.root => p \in N /\ e \in Sides /\ t.child[e][p] = n
      /\ e \in Sides
      /\ \A m \in M, f \in Sides : t.child[f][m] = n <=> n # t.root /\ m = p /\ f = e
    <2>1. /\ t.root = n <=> t.parent[n] = Null
          /\ \A m \in M, f \in Sides :
                t.child[f][m] = n <=> m = t.parent[n] /\ f = SideOf(t, m, n)
        BY <1>1, OnlyChild
    <2>2. n # t.root => t.parent[n] \in M /\ t.parent[n] # n /\ SideOf(t, t.parent[n], n) \in Sides
        BY <1>1, ParentSide
    <2>3. "left" \in Sides
        BY DEF Sides
    <2>4. QED
        BY <1>2, <2>1, <2>2, <2>3 DEF CutSide
<1>9. /\ p = Null => x = u.root
      /\ p # Null => p \in N /\ u.child[e][p] = x
    BY <1>8 DEF Spliced, Swap
<1>10. ASSUME NEW m \in N, NEW f \in Sides
       PROVE  /\ u.child[f][m] = Swap(n, x, t.child[f][m]) /\ u.color[m] = t.color[m]
              /\ BlackCount(u, m) = BlackCount(t, m)
              /\ H[m] = HeightOf(H, t.child[f][m]) + BlackCount(t, m)
              /\ HeightOf(H, t.child[f][m]) \in Nat
              /\ BlackCount(t, m) \in Nat
              /\ t.child[f][m] \in Pointers
    <2>1. u.child[f][m] = Swap(n, x, t.child[f][m]) /\ u.color = t.color
        BY DEF Spliced
    <2>2. t.child[f][m] \in Pointers
        BY <1>2, TreeFields
    <2>3. QED
        BY <1>4, <2>1, <2>2 DEF BlackCount, HeightOf, Pointers
<1>11. CASE t.color[n] = "black"
    <2>1. ShortHeights(u, N, H, p, e)
        <3>1. SUFFICES ASSUME NEW m \in N, NEW f \in Sides
                       PROVE  H[m] = HeightOf(H, u.child[f][m]) + BlackCount(u, m) + Short(p, e, m, f)
            BY <1>4 DEF ShortHeights
        <3> DEFINE c == t.child[f][m]
        <3>2. CASE c = n
            <4>1. m = p /\ f = e
                BY <1>8, <3>2
            <4>2. u.child[f][m] = x
                BY <1>10, <3>2 DEF Swap
            <4>3. HeightOf(H, c) = HeightOf(H, x) + 1
                BY <1>2, <1>6, <1>11, <3>2 DEF HeightOf, BlackCount
            <4>4. QED
                BY <1>7, <1>10, <4>1, <4>2, <4>3 DEF Short
        <3>3. CASE c # n
            <4>1. ~(m = p /\ f = e)
                <5>1. SUFFICES ASSUME m = p, f = e PROVE FALSE
                    OBVIOUS
                <5>2. n # t.root
                    BY <1>2, <1>8, <5>1
                <5>3. QED
                    BY <1>8, <3>3, <5>1, <5>2
            <4>2. u.child[f][m] = c
                BY <1>10, <3>3 DEF Swap
            <4>3. Short(p, e, m, f) = 0
                BY <4>1 DEF Short
            <4>4. QED
                BY <1>10, <4>2, <4>3
        <3>4. QED
            BY <3>2, <3>3
    <2>2. RedOnlyAt(u, N, x, x)
        <3>1. SUFFICES ASSUME NEW m \in N, NEW f \in Sides, u.color[m] = "red",
                              ColorOf(u, u.child[f][m]) = "red", u.child[f][m] # x
                       PROVE  FALSE
            BY DEF RedOnlyAt
        <3>2. u.child[f][m] = t.child[f][m] /\ t.child[f][m] \in Pointers
            BY <1>10, <3>1 DEF Swap
        <3>3. t.color[m] = "red" /\ ColorOf(t, t.child[f][m]) = "red" /\ t.child[f][m] # Null
            BY <1>10, <3>1, <3>2 DEF Spliced, ColorOf
        <3>4. QED
            BY <1>1, <1>2, <3>3 DEF RedOnlyAt
    <2>3. ColorOf(u, u.root) = "red" => u.root = x
        <3>1. SUFFICES ASSUME u.root # x PROVE ColorOf(u, u.root) # "red"
            OBVIOUS
        <3>2. u.root = t.root /\ u.color = t.color
            BY <3>1 DEF Spliced, Swap
        <3>3. QED
            BY <1>1, <3>2 DEF ColorOf
    <2>4. x \in N \cup {Null}
        BY <1>5
    <2>5. Removing(u, N, key, T, H, x, p, e)
        BY <1>3, <1>8, <1>9, <2>1, <2>2, <2>3, <2>4 DEF Removing
    <2>6. QED
        BY <1>8, <1>9, <1>11, <2>5 DEF AfterCut, T
<1>12. CASE t.color[n] # "black"
    <2>1. t.color[n] = "red"
        BY <1>2, <1>12, TreeFields DEF Colors
    <2>2. n # t.root
        BY <1>1, <1>2, <1>12 DEF ColorOf
    <2>3. Heights(u, N, H)
        <3>1. SUFFICES ASSUME NEW m \in N, NEW f \in Sides
                       PROVE  H[m] = HeightOf(H, u.child[f][m]) + BlackCount(u, m)
            BY <1>4 DEF Heights
        <3> DEFINE c == t.child[f][m]
        <3>2. HeightOf(H, u.child[f][m]) = HeightOf(H, c)
            <4>1. CASE c = n
                <5>1. u.child[f][m] = x
                    BY <1>10, <4>1 DEF Swap
                <5>2. HeightOf(H, c) = HeightOf(H, x) + 0
                    BY <1>2, <1>6, <1>12, <4>1 DEF HeightOf, BlackCount
                <5>3. QED
                    BY <1>7, <5>1, <5>2
            <4>2. CASE c # n
                BY <1>10, <4>2 DEF Swap
            <4>3. QED
                BY <4>1, <4>2
        <3>3. QED
            BY <1>10, <3>2
    <2>4. ColorOf(t, x) = "black"
        <3>1. Opposite(d) \in Sides /\ t.child[Opposite(d)][n] = x
            BY <1>2, SidesAre DEF HalfEmpty
        <3>2. ASSUME x # Null PROVE ColorOf(t, x) \in {"red", "black"}
            BY <1>2, <1>5, <3>2, TreeFields DEF ColorOf, Colors
        <3>3. CASE x = Null
            BY <3>3 DEF ColorOf
        <3>4. CASE x # Null
            BY <1>1, <1>2, <2>1, <3>1, <3>2, <3>4 DEF RedOnlyAt
        <3>5. QED
            BY <3>3, <3>4
    <2>5. RedOnlyAt(u, N, Null, Null)
        <3>1. SUFFICES ASSUME NEW m \in N, NEW f \in Sides, u.color[m] = "red",
                              ColorOf(u, u.child[f][m]) = "red"
                       PROVE  FALSE
            BY DEF RedOnlyAt
        <3>2. u.color = t.color
            BY DEF Spliced
        <3>3. u.child[f][m] # x
            BY <2>4, <3>1, <3>2 DEF ColorOf
        <3>4. u.child[f][m] = t.child[f][m]
            BY <1>10, <3>3 DEF Swap
        <3>5. t.color[m] = "red" /\ ColorOf(t, t.child[f][m]) = "red" /\ t.child[f][m] # Null
            BY <3>1, <3>2, <3>4 DEF ColorOf
        <3>6. QED
            BY <1>1, <1>2, <3>5 DEF RedOnlyAt
    <2>6. ColorOf(u, u.root) = "black"
        <3>1. u.root = t.root /\ u.color = t.color
            BY <2>2 DEF Spliced, Swap
        <3>2. QED
            BY <1>1, <3>1 DEF ColorOf
    <2>7. QED
        BY <1>3, <1>8, <1>9, <1>12, <2>3, <2>5, <2>6 DEF AfterCut, IsRedBlack, T
<1>13. QED
    BY <1>11, <1>12

-----------------------------------------------------------------------------
\* r is t with y, which is not in the tree, in the place of n.
Substituted(t, M, n, y, r) ==
    /\ r \in Trees
    /\ r.root = Swap(n, y, t.root)
    /\ \A m \in M \ {n} :
          /\ r.parent[m] = Swap(n, y, t.parent[m])
          /\ r.color[m] = t.color[m]
          /\ \A d \in Sides : r.child[d][m] = Swap(n, y, t.child[d][m])
    /\ r.parent[y] = t.parent[n]
    /\ r.color[y] = t.color[n]
    /\ \A d \in Sides : r.child[d][y] = t.child[d][n]

\* y lies where n does in the order of the entities in M.
SameRank(M, key, n, y) ==
    \A k \in M \ {n}, d \in Sides : OnSide(key, d, k, n) => OnSide(key, d, k, y)

Renamed(A, n, y) == IF n \in A THEN (A \ {n}) \cup {y} ELSE A

RenamedSubtrees(S, n, y) ==
    [m \in Nodes |-> Renamed(IF m = y THEN S[n] ELSE S[m], n, y)]

RenamedHeights(H, n, y) == [m \in Nodes |-> IF m = y THEN H[n] ELSE H[m]]

\* Every link of r, by the entity of t it comes from
LEMMA SubstitutedLinks ==
    ASSUME NEW t, NEW M, NEW key, NEW S, IsTree(t, M, key, S), NEW n \in M,
           NEW y \in Nodes \ M, NEW r, Substituted(t, M, n, y, r)
    PROVE  /\ \A m \in M : /\ r.parent[Swap(n, y, m)] = Swap(n, y, t.parent[m])
                           /\ r.color[Swap(n, y, m)] = t.color[m]
                           /\ \A d \in Sides : r.child[d][Swap(n, y, m)] = Swap(n, y, t.child[d][m])
           /\ \A k \in (M \ {n}) \cup {y} : \E m \in M : k = Swap(n, y, m)
           /\ \A m \in M : Swap(n, y, m) \in (M \ {n}) \cup {y}
           /\ \A a, b \in M \cup {Null} : Swap(n, y, a) = Swap(n, y, b) => a = b
           /\ \A a \in M \cup {Null} : Swap(n, y, a) = Null <=> a = Null
<1>1. M \subseteq Nodes /\ Null \notin Nodes /\ n # Null /\ y # Null /\ y \notin M
    BY NullAssumption DEF IsTree, Linked
<1>2. t.parent[n] # n
    <2>1. CASE n = t.root
        BY <1>1, <2>1, RootHasNoParent
    <2>2. CASE n # t.root
        BY <2>2, ParentSide
    <2>3. QED
        BY <2>1, <2>2
<1>3. \A d \in Sides : t.child[d][n] # n
    BY <1>1, ChildSubtree
<1>4. \A m \in M : /\ r.parent[Swap(n, y, m)] = Swap(n, y, t.parent[m])
                   /\ r.color[Swap(n, y, m)] = t.color[m]
                   /\ \A d \in Sides : r.child[d][Swap(n, y, m)] = Swap(n, y, t.child[d][m])
    BY <1>1, <1>2, <1>3 DEF Substituted, Swap
<1>5. /\ \A k \in (M \ {n}) \cup {y} : \E m \in M : k = Swap(n, y, m)
      /\ \A m \in M : Swap(n, y, m) \in (M \ {n}) \cup {y}
      /\ \A a, b \in M \cup {Null} : Swap(n, y, a) = Swap(n, y, b) => a = b
      /\ \A a \in M \cup {Null} : Swap(n, y, a) = Null <=> a = Null
    BY <1>1 DEF Swap
<1>6. QED
    BY <1>4, <1>5

LEMMA SubstitutedLinked ==
    ASSUME NEW t, NEW M, NEW key, NEW S, IsTree(t, M, key, S), NEW n \in M,
           NEW y \in Nodes \ M, NEW r, Substituted(t, M, n, y, r)
    PROVE  Linked(r, (M \ {n}) \cup {y})
<1> DEFINE N == (M \ {n}) \cup {y}
           W(a) == Swap(n, y, a)
<1>1. /\ \A m \in M : /\ r.parent[W(m)] = W(t.parent[m])
                      /\ \A d \in Sides : r.child[d][W(m)] = W(t.child[d][m])
      /\ \A k \in N : \E m \in M : k = W(m)
      /\ \A m \in M : W(m) \in N
      /\ \A a, b \in M \cup {Null} : W(a) = W(b) => a = b
      /\ \A a \in M \cup {Null} : W(a) = Null <=> a = Null
    BY SubstitutedLinks
<1>2. M \subseteq Nodes /\ Null \notin Nodes /\ t.root \in M /\ r.root = W(t.root)
    BY NullAssumption DEF IsTree, Linked, Ordered, SubtreeOf, Substituted
<1>3. /\ t.parent[t.root] = Null
      /\ \A m \in M, d \in Sides : /\ t.child[d][m] \in M \cup {Null}
                                   /\ t.child[d][m] # Null => t.parent[t.child[d][m]] = m
      /\ \A m \in M : m # t.root =>
            t.parent[m] \in M /\ \E d \in Sides : t.child[d][t.parent[m]] = m
    BY <1>2 DEF IsTree, Linked
<1>4. N \subseteq Nodes
    BY <1>2
<1> HIDE DEF W, N
<1>5. r.root \in N /\ r.parent[r.root] = Null
    BY <1>1, <1>2, <1>3
<1>6. ASSUME NEW k \in N, NEW d \in Sides, r.child[d][k] # Null
      PROVE  r.child[d][k] \in N /\ r.parent[r.child[d][k]] = k
    <2>1. PICK m \in M : k = W(m)
        BY <1>1
    <2>2. r.child[d][k] = W(t.child[d][m]) /\ t.child[d][m] \in M \cup {Null}
        BY <1>1, <1>3, <2>1
    <2>3. t.child[d][m] \in M /\ t.parent[t.child[d][m]] = m
        BY <1>1, <1>3, <1>6, <2>2
    <2>4. QED
        BY <1>1, <2>1, <2>2, <2>3
<1>7. ASSUME NEW k \in N, k # r.root
      PROVE  r.parent[k] \in N /\ \E d \in Sides : r.child[d][r.parent[k]] = k
    <2>1. PICK m \in M : k = W(m)
        BY <1>1
    <2>2. m # t.root
        BY <1>2, <1>7, <2>1
    <2>3. t.parent[m] \in M /\ r.parent[k] = W(t.parent[m])
        BY <1>1, <1>3, <2>1, <2>2
    <2>4. PICK d \in Sides : t.child[d][t.parent[m]] = m
        BY <1>3, <2>2
    <2>5. r.child[d][W(t.parent[m])] = W(m)
        BY <1>1, <2>3, <2>4
    <2>6. QED
        BY <1>1, <2>1, <2>3, <2>5
<1>8. QED
    BY <1>4, <1>5, <1>6, <1>7 DEF Linked, N

LEMMA SubstitutedOrdered ==
    ASSUME NEW t, NEW M, NEW key, NEW S, IsTree(t, M, key, S), NEW n \in M,
           NEW y \in Nodes \ M, SameRank(M, key, n, y),
           NEW r, Substituted(t, M, n, y, r)
    PROVE  Ordered(r, (M \ {n}) \cup {y}, key, RenamedSubtrees(S, n, y))
<1> DEFINE N == (M \ {n}) \cup {y}
           T == RenamedSubtrees(S, n, y)
           W(a) == Swap(n, y, a)
           R(A) == Renamed(A, n, y)
<1>1. /\ \A m \in M : \A d \in Sides : r.child[d][W(m)] = W(t.child[d][m])
      /\ \A k \in N : \E m \in M : k = W(m)
    BY SubstitutedLinks
<1>2. /\ M \subseteq Nodes /\ Null \notin Nodes /\ y \notin M /\ y \in Nodes
      /\ t.root \in M /\ r.root = W(t.root) /\ n \in Nodes
      /\ key \in [Nodes -> Nat]
    BY NullAssumption DEF IsTree, Linked, Ordered, SubtreeOf, Substituted
<1>3. /\ S \in [Nodes -> SUBSET Nodes] /\ SubtreeOf(S, t.root) = M
      /\ \A m \in M : S[m] = {m} \cup SubtreeOf(S, t.child["left"][m])
                                 \cup SubtreeOf(S, t.child["right"][m])
      /\ \A m \in M, d \in Sides :
            \A k \in SubtreeOf(S, t.child[d][m]) : OnSide(key, d, k, m)
    BY DEF IsTree, Ordered
<1>4. \A m \in M, d \in Sides : t.child[d][m] \in M \cup {Null}
    BY ChildSubtree
<1>5. \A c \in M \cup {Null} : SubtreeOf(S, c) \subseteq M
    BY SubtreeWithin DEF SubtreeOf
<1>6. \A A \in SUBSET M : R(A) \in SUBSET Nodes
    BY <1>2 DEF Renamed
<1>7. /\ T \in [Nodes -> SUBSET Nodes]
      /\ \A m \in M : T[W(m)] = R(S[m])
    <2>1. \A A \in SUBSET Nodes : R(A) \in SUBSET Nodes
        BY <1>2 DEF Renamed
    <2>2. QED
        BY <1>2, <1>3, <2>1 DEF RenamedSubtrees, Swap
<1> HIDE DEF T
<1>8. ASSUME NEW c \in M \cup {Null}
      PROVE  SubtreeOf(T, W(c)) = R(SubtreeOf(S, c))
    <2>1. CASE c = Null
        BY <1>2, <2>1 DEF SubtreeOf, Swap, Renamed
    <2>2. CASE c # Null
        <3>1. c \in M /\ W(c) # Null
            BY <1>2, <2>2 DEF Swap
        <3>2. QED
            BY <1>7, <2>2, <3>1 DEF SubtreeOf
    <2>3. QED
        BY <2>1, <2>2
<1>9. SubtreeOf(T, r.root) = N
    <2>1. SubtreeOf(T, r.root) = R(M)
        BY <1>2, <1>3, <1>8
    <2>2. QED
        BY <2>1 DEF Renamed
<1>10. ASSUME NEW m \in M, NEW d \in Sides
       PROVE  SubtreeOf(T, r.child[d][W(m)]) = R(SubtreeOf(S, t.child[d][m]))
    BY <1>1, <1>4, <1>8
<1>11. ASSUME NEW k \in N
       PROVE  T[k] = {k} \cup SubtreeOf(T, r.child["left"][k])
                         \cup SubtreeOf(T, r.child["right"][k])
    <2>1. PICK m \in M : k = W(m)
        BY <1>1
    <2> DEFINE A == SubtreeOf(S, t.child["left"][m])
               B == SubtreeOf(S, t.child["right"][m])
    <2>2. T[k] = R({m} \cup A \cup B)
        BY <1>3, <1>7, <2>1
    <2>3. SubtreeOf(T, r.child["left"][k]) = R(A) /\ SubtreeOf(T, r.child["right"][k]) = R(B)
        BY <1>10, <2>1 DEF Sides
    <2> HIDE DEF A, B
    <2>4. R({m} \cup A \cup B) = {W(m)} \cup R(A) \cup R(B)
        BY DEF Renamed, Swap
    <2>5. QED
        BY <2>1, <2>2, <2>3, <2>4
<1>12. ASSUME NEW k \in N, NEW d \in Sides, NEW b \in SubtreeOf(T, r.child[d][k])
       PROVE  OnSide(key, d, b, k)
    <2>1. PICK m \in M : k = W(m)
        BY <1>1
    <2> DEFINE A == SubtreeOf(S, t.child[d][m])
    <2>2. b \in R(A)
        BY <1>10, <1>12, <2>1
    <2>3. A \subseteq M /\ \A a \in A : OnSide(key, d, a, m)
        BY <1>3, <1>4, <1>5
    <2> HIDE DEF A
    <2>4. CASE b = y /\ n \in A
        <3>1. OnSide(key, d, n, m) /\ m # n /\ m \in Nodes
            BY <1>2, <2>3, <2>4, OnSideIrreflexive
        <3>2. OnSide(key, Opposite(d), m, n) /\ Opposite(d) \in Sides
            BY <1>2, <3>1, OnSideOpposite, SidesAre
        <3>3. OnSide(key, Opposite(d), m, y)
            BY <3>1, <3>2 DEF SameRank
        <3>4. OnSide(key, d, y, m)
            BY <1>2, <3>1, <3>3, OnSideOpposite
        <3>5. QED
            BY <2>1, <2>4, <3>1, <3>4 DEF Swap
    <2>5. CASE b \in A /\ b # n
        <3>1. OnSide(key, d, b, m) /\ b \in M
            BY <2>3, <2>5
        <3>2. QED
            BY <2>1, <2>5, <3>1 DEF SameRank, Swap
    <2>6. QED
        BY <2>2, <2>4, <2>5 DEF Renamed
<1>13. QED
    BY <1>7, <1>9, <1>11, <1>12 DEF Ordered, T, N

LEMMA SubstitutedHeights ==
    ASSUME NEW t, NEW M, NEW key, NEW S, IsTree(t, M, key, S), NEW n \in M,
           NEW y \in Nodes \ M, NEW r, Substituted(t, M, n, y, r),
           NEW H, NEW p \in M \cup {Null}, NEW e, ShortHeights(t, M, H, p, e)
    PROVE  ShortHeights(r, (M \ {n}) \cup {y}, RenamedHeights(H, n, y), Swap(n, y, p), e)
<1> DEFINE N == (M \ {n}) \cup {y}
           K == RenamedHeights(H, n, y)
           W(a) == Swap(n, y, a)
<1>1. /\ \A m \in M : /\ r.color[W(m)] = t.color[m]
                      /\ \A d \in Sides : r.child[d][W(m)] = W(t.child[d][m])
      /\ \A k \in N : \E m \in M : k = W(m)
      /\ \A a, b \in M \cup {Null} : W(a) = W(b) => a = b
      /\ \A a \in M \cup {Null} : W(a) = Null <=> a = Null
    BY SubstitutedLinks
<1>2. M \subseteq Nodes /\ Null \notin Nodes /\ y \notin M /\ y \in Nodes /\ n \in Nodes
    BY NullAssumption DEF IsTree, Linked
<1>3. /\ H \in [Nodes -> Nat]
      /\ \A m \in M, d \in Sides :
            H[m] = HeightOf(H, t.child[d][m]) + BlackCount(t, m) + Short(p, e, m, d)
    BY DEF ShortHeights
<1>4. K \in [Nodes -> Nat] /\ \A m \in M : K[W(m)] = H[m]
    BY <1>2, <1>3 DEF RenamedHeights, Swap
<1>5. \A m \in M, d \in Sides : t.child[d][m] \in M \cup {Null}
    BY ChildSubtree
<1> HIDE DEF K, W
<1>6. \A c \in M \cup {Null} : HeightOf(K, W(c)) = HeightOf(H, c)
    BY <1>1, <1>4 DEF HeightOf
<1>7. ASSUME NEW k \in N, NEW d \in Sides
      PROVE  K[k] = HeightOf(K, r.child[d][k]) + BlackCount(r, k) + Short(W(p), e, k, d)
    <2>1. PICK m \in M : k = W(m)
        BY <1>1
    <2>2. HeightOf(K, r.child[d][k]) = HeightOf(H, t.child[d][m])
        BY <1>1, <1>5, <1>6, <2>1
    <2>3. BlackCount(r, k) = BlackCount(t, m)
        BY <1>1, <2>1 DEF BlackCount
    <2>4. Short(W(p), e, k, d) = Short(p, e, m, d)
        BY <1>1, <2>1 DEF Short
    <2>5. QED
        BY <1>3, <1>4, <2>1, <2>2, <2>3, <2>4
<1>8. QED
    BY <1>4, <1>7 DEF ShortHeights, K, W

LEMMA SubstitutedColors ==
    ASSUME NEW t, NEW M, NEW key, NEW S, IsTree(t, M, key, S), NEW n \in M,
           NEW y \in Nodes \ M, NEW r, Substituted(t, M, n, y, r)
    PROVE  /\ \A a \in M \cup {Null} : ColorOf(r, Swap(n, y, a)) = ColorOf(t, a)
           /\ \A a \in (M \ {n}) \cup {Null} :
                 RedOnlyAt(t, M, a, a) => RedOnlyAt(r, (M \ {n}) \cup {y}, a, a)
<1> DEFINE N == (M \ {n}) \cup {y}
           W(a) == Swap(n, y, a)
<1>1. /\ \A m \in M : /\ r.color[W(m)] = t.color[m]
                      /\ \A d \in Sides : r.child[d][W(m)] = W(t.child[d][m])
      /\ \A k \in N : \E m \in M : k = W(m)
      /\ \A a \in M \cup {Null} : W(a) = Null <=> a = Null
    BY SubstitutedLinks
<1>2. n # Null /\ y # Null /\ Null \notin M
    BY NullAssumption DEF IsTree, Linked
<1>3. \A a \in (M \ {n}) \cup {Null} : W(a) = a
    BY <1>2 DEF Swap
<1>4. \A m \in M, d \in Sides : t.child[d][m] \in M \cup {Null}
    BY ChildSubtree
<1> HIDE DEF W, N
<1>5. \A a \in M \cup {Null} : ColorOf(r, W(a)) = ColorOf(t, a)
    BY <1>1, <1>2 DEF ColorOf
<1>6. ASSUME NEW a \in (M \ {n}) \cup {Null}, RedOnlyAt(t, M, a, a)
      PROVE  RedOnlyAt(r, N, a, a)
    <2>1. SUFFICES ASSUME NEW k \in N, NEW d \in Sides, r.color[k] = "red",
                          ColorOf(r, r.child[d][k]) = "red"
                   PROVE  k = a \/ r.child[d][k] = a
        BY DEF RedOnlyAt
    <2>2. PICK m \in M : k = W(m)
        BY <1>1
    <2>3. t.color[m] = "red" /\ r.child[d][k] = W(t.child[d][m])
        BY <1>1, <2>1, <2>2
    <2>4. ColorOf(t, t.child[d][m]) = "red"
        BY <1>4, <1>5, <2>1, <2>3
    <2>5. m = a \/ t.child[d][m] = a
        BY <1>6, <2>3, <2>4 DEF RedOnlyAt
    <2>6. QED
        BY <1>3, <2>2, <2>3, <2>5
<1>7. QED
    BY <1>5, <1>6 DEF W, N

\* The other entity is in the same position.
LEMMA SubstitutedCut ==
    ASSUME NEW t, NEW M, NEW key, NEW S, NEW H, NEW color, NEW x, NEW p, NEW e,
           AfterCut(t, M, key, S, H, color, x, p, e), NEW n \in M, x # n,
           p # Null, p \in M, e \in Sides, t.child[e][p] = x,
           NEW y \in Nodes \ M, SameRank(M, key, n, y),
           NEW r, Substituted(t, M, n, y, r)
    PROVE  AfterCut(r, (M \ {n}) \cup {y}, key, RenamedSubtrees(S, n, y),
                    RenamedHeights(H, n, y), color, x, Swap(n, y, p), e)
<1> DEFINE N == (M \ {n}) \cup {y}
           K == RenamedHeights(H, n, y)
           T == RenamedSubtrees(S, n, y)
           W(a) == Swap(n, y, a)
<1>1. IsTree(t, M, key, S)
    BY DEF AfterCut, Removing, IsRedBlack
<1>2. IsTree(r, N, key, T)
    BY <1>1, SubstitutedLinked, SubstitutedOrdered, SMTT(30) DEF IsTree, Substituted
<1>3. /\ \A a \in M \cup {Null} : ColorOf(r, W(a)) = ColorOf(t, a)
      /\ \A a \in (M \ {n}) \cup {Null} : RedOnlyAt(t, M, a, a) => RedOnlyAt(r, N, a, a)
    BY <1>1, SubstitutedColors
<1>4. /\ M \subseteq Nodes /\ Null \notin Nodes /\ n # Null /\ y # Null /\ y \notin M
      /\ t.root \in M \cup {Null} /\ r.root = W(t.root) /\ r \in Trees /\ t \in Trees
    BY <1>1, NullAssumption DEF IsTree, Linked, Substituted
<1>5. x \in M \cup {Null} /\ W(x) = x /\ x \in (M \ {n}) \cup {Null}
    BY <1>1, ChildSubtree DEF Swap
<1>6. /\ \A m \in M : \A d \in Sides : r.child[d][W(m)] = W(t.child[d][m])
      /\ \A m \in M : W(m) \in N
    BY <1>1, SubstitutedLinks
<1> HIDE DEF K, T, W
<1>7. CASE color = "black"
    <2>1. Removing(t, M, key, S, H, x, p, e)
        BY <1>7 DEF AfterCut
    <2>2. ShortHeights(r, N, K, W(p), e)
        BY <1>1, <2>1, SubstitutedHeights DEF Removing, K, W
    <2>3. RedOnlyAt(r, N, x, x)
        BY <1>3, <1>5, <2>1 DEF Removing
    <2>4. ColorOf(r, r.root) = "red" => r.root = x
        BY <1>3, <1>4, <1>5, <2>1 DEF Removing
    <2>5. W(p) \in N /\ W(p) # Null /\ r.child[e][W(p)] = x
        BY <1>4, <1>5, <1>6
    <2>6. Removing(r, N, key, T, K, x, W(p), e)
        BY <1>2, <1>5, <2>2, <2>3, <2>4, <2>5 DEF Removing
    <2>7. QED
        BY <1>7, <2>6 DEF AfterCut, T, K, W
<1>8. CASE color # "black"
    <2>1. IsRedBlack(t, M, key, S, H)
        BY <1>8 DEF AfterCut
    <2>2. Heights(t, M, H) /\ RedOnlyAt(t, M, Null, Null) /\ ColorOf(t, t.root) = "black"
        BY <2>1 DEF IsRedBlack
    <2>3. ShortHeights(t, M, H, Null, e)
        BY <1>4, <2>2, NoneShort
    <2>4. W(Null) = Null
        BY <1>4 DEF Swap, W
    <2>5. ShortHeights(r, N, K, Null, e)
        <3>1. ShortHeights(r, N, K, W(Null), e)
            BY <1>1, <2>3, SubstitutedHeights DEF K, W
        <3>2. QED
            BY <2>4, <3>1
    <2>6. N \subseteq Nodes
        BY <1>4
    <2>7. Heights(r, N, K)
        BY <1>4, <2>5, <2>6, NoneShort
    <2>8. RedOnlyAt(r, N, Null, Null)
        BY <1>3, <2>2
    <2>9. ColorOf(r, r.root) = "black"
        BY <1>3, <1>4, <2>2
    <2>10. QED
        BY <1>2, <1>8, <2>7, <2>8, <2>9 DEF AfterCut, IsRedBlack, T, K, W
<1>9. QED
    BY <1>7, <1>8

\* y, with its right child x and its parent p, is the successor of n, which has
\* two children.
SuccessorSite(t, M, n, left, right, y, x, p) ==
    /\ n \in M /\ left \in M /\ right \in M /\ y \in M /\ p \in M
    /\ x \in M \cup {Null}
    /\ left = t.child["left"][n] /\ right = t.child["right"][n]
    /\ t.child["left"][y] = Null /\ t.child["right"][y] = x
    /\ p = t.parent[y]
    /\ y # n /\ y # left /\ x # n /\ x # y /\ x # left /\ x # right /\ left # right
    /\ n # left /\ n # right /\ p # y
    /\ p = n <=> y = right
    /\ x # Null => t.parent[x] = y
    /\ t.parent[n] # y /\ t.parent[n] # p /\ t.parent[n] # n
    /\ t.parent[left] = n /\ t.parent[right] = n
    /\ \A m \in M : t.parent[m] = n => m \in {left, right}
    /\ p = n => SideOf(t, p, y) = "right"
    /\ SideOf(t, p, y) \in Sides

LEMMA SuccessorIs ==
    ASSUME NEW t, NEW M, NEW key, NEW S, IsTree(t, M, key, S), NEW n \in M,
           \A side \in Sides : t.child[side][n] # Null,
           NEW y, y = Outermost(t, t.child["right"][n], "left")
    PROVE  /\ SuccessorSite(t, M, n, t.child["left"][n], t.child["right"][n],
                            y, t.child["right"][y], t.parent[y])
           /\ SameRank(M \ {y}, key, n, y)
<1> DEFINE left == t.child["left"][n]
           right == t.child["right"][n]
           x == t.child["right"][y]
           p == t.parent[y]
<1>1. /\ M \subseteq Nodes /\ Null \notin Nodes /\ Null \notin M /\ key \in [Nodes -> Nat]
      /\ "left" \in Sides /\ "right" \in Sides /\ Opposite("left") = "right"
    BY NullAssumption DEF IsTree, Linked, Sides, Opposite
<1>2. left \in M /\ right \in M /\ left # Null /\ right # Null
      /\ t.parent[left] = n /\ t.parent[right] = n /\ n # left /\ n # right
      /\ S[right] \subseteq S[n] /\ left \in S[left] /\ n \in S[n]
    <2>1. \A d \in Sides : LET c == t.child[d][n]
                           IN  c \in M /\ c # Null /\ t.parent[c] = n /\ S[c] \subseteq S[n]
                               /\ c \in S[c] /\ n \in S[n] /\ n \notin S[c]
        BY ChildSubtree
    <2>2. QED
        BY <1>1, <2>1
<1>3. y \in M /\ y \in S[right] /\ t.child["left"][y] = Null
    BY <1>1, <1>2, OutermostEffect
<1>4. \A m \in S[right] : Before(key, n, m)
    BY <1>2, LeftAndRight DEF SubtreeOf
<1>5. \A m \in S[left] : Before(key, m, n)
    BY <1>2, LeftAndRight DEF SubtreeOf
<1>6. n \notin S[y]
    BY <1>1, <1>2, <1>3, NoAncestorBelow DEF SubtreeOf
<1>7. y # n /\ y # left
    <2>1. y # n
        BY <1>3, <1>6, SubtreeWithin
    <2>2. y # left
        <3>1. SUFFICES ASSUME y = left PROVE FALSE
            OBVIOUS
        <3>2. Before(key, n, y) /\ Before(key, y, n)
            BY <1>2, <1>3, <1>4, <1>5, <3>1
        <3>3. OnSide(key, "left", n, y) /\ OnSide(key, "left", y, n)
            BY <3>2 DEF OnSide
        <3>4. QED
            BY <1>1, <1>3, <3>3, OnSideAsymmetric
    <2>3. QED
        BY <2>1, <2>2
<1>8. /\ x \in M \cup {Null} /\ x # n /\ x # y
      /\ x # Null => t.parent[x] = y
    <2>1. x # Null => x \in M /\ t.parent[x] = y /\ x \in S[x] /\ S[x] \subseteq S[y] /\ y \notin S[x]
        BY <1>1, <1>3, ChildSubtree
    <2>2. QED
        BY <1>1, <1>3, <1>6, <2>1
<1>9. x # left /\ x # right
    BY <1>2, <1>7, <1>8
<1>10. left # right
    BY <1>1, <1>2, ChildrenDiffer
<1>11. y # t.root
    <2>1. SUFFICES ASSUME y = t.root PROVE FALSE
        OBVIOUS
    <2>2. S[y] = M
        BY <1>1, <1>3, <2>1 DEF IsTree, Ordered, SubtreeOf
    <2>3. QED
        BY <1>6, <2>2
<1>12. p \in M /\ p # y /\ SideOf(t, p, y) \in Sides /\ t.child[SideOf(t, p, y)][p] = y
    BY <1>3, <1>11, ParentSide
<1>13. /\ p = n <=> y = right
       /\ p = n => SideOf(t, p, y) = "right"
    <2>1. ASSUME p = n PROVE y = right /\ SideOf(t, p, y) = "right"
        BY <1>7, <1>12, <2>1 DEF Sides
    <2>2. QED
        BY <1>2, <2>1
<1>14. ASSUME n # t.root
       PROVE  t.parent[n] # y /\ t.parent[n] # p /\ t.parent[n] # n
    <2> DEFINE q == t.parent[n]
               d == SideOf(t, q, n)
    <2>1. q \in M /\ q # n /\ q \notin S[n] /\ d \in Sides /\ t.child[d][q] = n
        BY <1>14, ParentSide
    <2>2. q # y
        BY <1>2, <1>3, <2>1
    <2>3. q # p
        <3>1. SUFFICES ASSUME q = p PROVE FALSE
            OBVIOUS
        <3> DEFINE e == SideOf(t, p, y)
        <3>2. e # d
            BY <1>7, <1>12, <2>1, <3>1
        <3> HIDE DEF d, e
        <3>3. OnSide(key, d, y, q)
            BY <1>1, <1>2, <1>3, <2>1 DEF IsTree, Ordered, SubtreeOf
        <3>4. OnSide(key, e, y, q) /\ e \in Sides
            <4>1. y \in SubtreeOf(S, y)
                BY <1>1, <1>3, SubtreeWithin DEF SubtreeOf
            <4>2. QED
                BY <1>12, <3>1, <4>1 DEF IsTree, Ordered, e
        <3>5. e = Opposite(d)
            BY <2>1, <3>2, <3>4, SidesAre
        <3>6. y \in Nodes /\ q \in Nodes
            BY <1>1, <1>3, <2>1
        <3>7. QED
            BY <1>1, <2>1, <3>3, <3>4, <3>5, <3>6, OnSideAsymmetric
    <2>4. QED
        BY <2>1, <2>2, <2>3
<1>15. t.parent[n] # y /\ t.parent[n] # p /\ t.parent[n] # n
    <2>1. CASE n = t.root
        <3>1. t.parent[n] = Null
            BY <2>1, RootHasNoParent
        <3>2. QED
            BY <1>1, <1>3, <1>12, <3>1
    <2>2. QED
        BY <1>14, <2>1
<1>16. ASSUME NEW m \in M, t.parent[m] = n PROVE m \in {left, right}
    <2>1. m # t.root
        BY <1>1, <1>16, RootHasNoParent
    <2>2. QED
        BY <1>16, <2>1, ParentSide DEF Sides
<1>17. SuccessorSite(t, M, n, left, right, y, x, p)
    BY <1>2, <1>3, <1>7, <1>8, <1>9, <1>10, <1>12, <1>13, <1>15, <1>16 DEF SuccessorSite
<1>18. SameRank(M \ {y}, key, n, y)
    <2>1. NextIn(t, n) = y
        BY <1>2 DEF NextIn
    <2>2. IsLeast(key, Later(M, key, n), y)
        BY <2>1, NextInEffect
    <2>3. y \in Later(M, key, n)
        BY <1>3, <1>4 DEF Later
    <2>4. \A m \in Later(M, key, n) \ {y} : Before(key, y, m)
        BY <2>2, <2>3 DEF IsLeast
    <2>5. SUFFICES ASSUME NEW k \in (M \ {y}) \ {n}, NEW d \in Sides, OnSide(key, d, k, n)
                   PROVE  OnSide(key, d, k, y)
        BY DEF SameRank
    <2>6. CASE d = "left"
        <3>1. OnSide(key, "left", k, n) /\ OnSide(key, "left", n, y)
            BY <1>3, <1>4, <2>5, <2>6 DEF OnSide
        <3>2. QED
            BY <1>1, <1>3, <2>6, <3>1, OnSideTransitive
    <2>7. CASE d = "right"
        <3>1. Before(key, n, k)
            BY <2>5, <2>7 DEF OnSide
        <3>2. Before(key, y, k)
            BY <2>4, <3>1 DEF Later
        <3>3. QED
            BY <2>7, <3>2 DEF OnSide
    <2>8. QED
        BY <2>6, <2>7 DEF Sides
<1>19. QED
    BY <1>17, <1>18

\* y has left its place and taken over the right child of n; nothing happens
\* when it is that child.
Withdrawn(t, n, right, y, x, p, out) ==
    /\ out \in Trees
    /\ out.root = t.root /\ out.len = t.len /\ out.color = t.color
    /\ \A m \in Nodes : out.parent[m] =
          IF p = n THEN t.parent[m]
          ELSE IF m = right THEN y
          ELSE IF m = x THEN p ELSE t.parent[m]
    /\ \A d \in Sides, m \in Nodes : out.child[d][m] =
          IF p = n THEN t.child[d][m]
          ELSE IF m = y /\ d = "right" THEN right
          ELSE IF m = p /\ d = SideOf(t, m, y) THEN x ELSE t.child[d][m]

LEMMA WithdrawEffect ==
    ASSUME NEW t \in Trees, NEW M, M \subseteq Nodes, NEW n, NEW left, NEW right, NEW y, NEW x, NEW p,
           SuccessorSite(t, M, n, left, right, y, x, p),
           NEW out, out = IF t.parent[y] = n
                            THEN SetParent(t, x, y)
                            ELSE SetParent(SetChild(Transplant(t, y, x), "right", y, right), right, y)
    PROVE  Withdrawn(t, n, right, y, x, p, out)
<1>1. /\ x \in Pointers /\ y \in Pointers /\ y \in Nodes /\ right \in Pointers /\ right \in Nodes
      /\ "right" \in Sides /\ p = t.parent[y] /\ Null \notin Nodes /\ p \in Nodes
    BY NullAssumption DEF SuccessorSite, Pointers, Sides
<1>2. CASE p = n
    <2>1. out = SetParent(t, x, y)
        BY <1>1, <1>2
    <2>2. ParentSet(t, x, y, out)
        BY <1>1, <2>1, SetParentEffect
    <2>3. x # Null => t.parent[x] = y
        BY DEF SuccessorSite
    <2>4. \A m \in Nodes : out.parent[m] = t.parent[m]
        BY <1>1, <2>2, <2>3 DEF ParentSet
    <2>5. QED
        BY <1>2, <2>2, <2>4 DEF ParentSet, Withdrawn
<1>3. CASE p # n
    <2> DEFINE a == Transplant(t, y, x)
               b == SetChild(a, "right", y, right)
    <2>1. out = SetParent(b, right, y)
        BY <1>1, <1>3
    <2>2. Transplanted(t, y, x, a) /\ a \in Trees
        <3>1. Transplanted(t, y, x, a)
            BY <1>1, TransplantEffect
        <3>2. QED
            BY <3>1 DEF Transplanted
    <2> HIDE DEF a
    <2>3. ChildSet(a, "right", y, right, b) /\ b \in Trees
        BY <1>1, <2>2, SetChildEffect DEF ChildSet
    <2> HIDE DEF b
    <2>4. ParentSet(b, right, y, out) /\ out \in Trees
        <3>1. ParentSet(b, right, y, SetParent(b, right, y))
            BY <1>1, <2>3, SetParentEffect
        <3>2. QED
            BY <2>1, <3>1 DEF ParentSet
    <2>5. out.root = t.root /\ out.len = t.len /\ out.color = t.color
        BY <1>1, <2>2, <2>3, <2>4 DEF Transplanted, ChildSet, ParentSet
    <2>6. \A m \in Nodes : out.parent[m] = IF m = right THEN y ELSE IF m = x THEN p ELSE t.parent[m]
        BY <1>1, <2>2, <2>3, <2>4 DEF Transplanted, ChildSet, ParentSet
    <2>7. \A d \in Sides, m \in Nodes : out.child[d][m] =
              IF m = y /\ d = "right" THEN right
              ELSE IF m = p /\ d = SideOf(t, m, y) THEN x ELSE t.child[d][m]
        <3>1. \A d \in Sides, m \in Nodes : a.child[d][m] =
                 IF m = p /\ d = SideOf(t, m, y) THEN x ELSE t.child[d][m]
            BY <1>1, <2>2 DEF Transplanted
        <3>2. \A d \in Sides, m \in Nodes : b.child[d][m] =
                 IF d = "right" /\ m = y THEN right ELSE a.child[d][m]
            BY <2>3 DEF ChildSet
        <3>3. out.child = b.child
            BY <2>4 DEF ParentSet
        <3>4. QED
            BY <3>1, <3>2, <3>3
    <2>8. QED
        BY <1>3, <2>4, <2>5, <2>6, <2>7 DEF Withdrawn
<1>4. QED
    BY <1>2, <1>3

\* f is out with y in the place, and of the colour, of n, and left as its left child.
Installed(out, n, left, y, c, f) ==
    /\ f \in Trees
    /\ f.root = IF out.parent[n] = Null THEN y ELSE out.root
    /\ f.len = out.len
    /\ \A m \in Nodes : f.color[m] = IF m = y THEN c ELSE out.color[m]
    /\ \A m \in Nodes : f.parent[m] =
          IF m = left THEN y ELSE IF m = y THEN out.parent[n] ELSE out.parent[m]
    /\ \A d \in Sides, m \in Nodes : f.child[d][m] =
          IF m = y /\ d = "left" THEN left
          ELSE IF m = out.parent[n] /\ d = SideOf(out, m, n) THEN y ELSE out.child[d][m]

LEMMA InstallEffect ==
    ASSUME NEW out \in Trees, NEW n \in Nodes, NEW y \in Nodes, NEW left \in Nodes, NEW c \in Colors,
           NEW f, f = Paint(SetParent(SetChild(Transplant(out, n, y), "left", y, left), left, y), y, c)
    PROVE  Installed(out, n, left, y, c, f)
<1> DEFINE a == Transplant(out, n, y)
           b == SetChild(a, "left", y, left)
           g == SetParent(b, left, y)
<1>1. y \in Pointers /\ left \in Pointers /\ "left" \in Sides
    BY DEF Pointers, Sides
<1>2. Transplanted(out, n, y, a) /\ a \in Trees
    <2>1. Transplanted(out, n, y, a)
        BY <1>1, TransplantEffect
    <2>2. QED
        BY <2>1 DEF Transplanted
<1>3. f = Paint(g, y, c)
    OBVIOUS
<1> HIDE DEF a
<1>4. ChildSet(a, "left", y, left, b) /\ b \in Trees
    BY <1>1, <1>2, SetChildEffect DEF ChildSet
<1> HIDE DEF b
<1>5. ParentSet(b, left, y, g) /\ g \in Trees
    BY <1>1, <1>4, SetParentEffect DEF ParentSet
<1> HIDE DEF g
<1>6. Painted(g, y, c, f) /\ f \in Trees
    BY <1>1, <1>3, <1>5, PaintEffect DEF Painted
<1>7. /\ f.root = IF out.parent[n] = Null THEN y ELSE out.root
      /\ f.len = out.len
    BY <1>2, <1>4, <1>5, <1>6 DEF Transplanted, ChildSet, ParentSet, Painted
<1>8. \A m \in Nodes : f.color[m] = IF m = y THEN c ELSE out.color[m]
    BY <1>2, <1>4, <1>5, <1>6 DEF Transplanted, ChildSet, ParentSet, Painted
<1>9. \A m \in Nodes : f.parent[m] =
          IF m = left THEN y ELSE IF m = y THEN out.parent[n] ELSE out.parent[m]
    BY <1>2, <1>4, <1>5, <1>6 DEF Transplanted, ChildSet, ParentSet, Painted
<1>10. \A d \in Sides, m \in Nodes : f.child[d][m] =
          IF m = y /\ d = "left" THEN left
          ELSE IF m = out.parent[n] /\ d = SideOf(out, m, n) THEN y ELSE out.child[d][m]
    <2>1. \A d \in Sides, m \in Nodes : a.child[d][m] =
             IF m = out.parent[n] /\ d = SideOf(out, m, n) THEN y ELSE out.child[d][m]
        BY <1>2 DEF Transplanted
    <2>2. \A d \in Sides, m \in Nodes : b.child[d][m] =
             IF d = "left" /\ m = y THEN left ELSE a.child[d][m]
        BY <1>4 DEF ChildSet
    <2>3. f.child = b.child
        BY <1>5, <1>6 DEF ParentSet, Painted
    <2>4. QED
        BY <2>1, <2>2, <2>3
<1>11. QED
    BY <1>6, <1>7, <1>8, <1>9, <1>10 DEF Installed

\* The links the code has changed are those of y in n's place once y is out.
LEMMA SuccessorSubstituted ==
    ASSUME NEW t, NEW M, NEW key, NEW S, IsTree(t, M, key, S),
           NEW n, NEW left, NEW right, NEW y, NEW x, NEW p,
           SuccessorSite(t, M, n, left, right, y, x, p),
           NEW u, Transplanted(t, y, x, u),
           NEW out, Withdrawn(t, n, right, y, x, p, out),
           NEW f, Installed(out, n, left, y, t.color[n], f)
    PROVE  /\ Substituted(u, M \ {y}, n, y, f)
           /\ OthersKept(t, M, f)
           /\ f.len = t.len
<1>1. /\ M \subseteq Nodes /\ Null \notin Nodes /\ Null \notin M /\ t \in Trees
      /\ n \in M /\ left \in M /\ right \in M /\ y \in M /\ p \in M /\ n \in Nodes /\ y \in Nodes
      /\ y # n /\ p = t.parent[y] /\ p # Null /\ x # n
    BY NullAssumption DEF SuccessorSite, IsTree, Linked
<1>2. out.parent[n] = t.parent[n] /\ u.parent[n] = t.parent[n]
    BY <1>1 DEF Withdrawn, SuccessorSite, Transplanted
<1>3. /\ t.root = n <=> t.parent[n] = Null
      /\ \A m \in M, d \in Sides :
            t.child[d][m] = n <=> m = t.parent[n] /\ d = SideOf(t, m, n)
    BY <1>1, OnlyChild
<1>4. f.root = Swap(n, y, u.root)
    <2>1. u.root = t.root /\ out.root = t.root
        BY <1>1 DEF Transplanted, Withdrawn
    <2>2. QED
        BY <1>2, <1>3, <2>1 DEF Installed, Swap
<1>5. ASSUME NEW m \in M \ {y, n}
      PROVE  f.parent[m] = Swap(n, y, u.parent[m])
    <2>1. u.parent[m] = IF m = x THEN p ELSE t.parent[m]
        BY <1>1 DEF Transplanted
    <2>2. f.parent[m] = IF m = left THEN y ELSE out.parent[m]
        BY <1>1 DEF Installed
    <2>3. out.parent[m] = IF p = n THEN t.parent[m]
                          ELSE IF m = right THEN y
                          ELSE IF m = x THEN p ELSE t.parent[m]
        BY <1>1 DEF Withdrawn
    <2>4. t.parent[m] = n <=> m \in {left, right}
        BY DEF SuccessorSite
    <2>5. /\ x # left /\ x # right /\ (p = n <=> y = right)
          /\ m = x => t.parent[m] = y
        BY <1>1 DEF SuccessorSite
    <2>6. QED
        BY <1>1, <2>1, <2>2, <2>3, <2>4, <2>5 DEF Swap
<1>6. \A m \in M \ {y, n} : f.color[m] = u.color[m]
    BY <1>1 DEF Installed, Withdrawn, Transplanted
<1>7. ASSUME NEW m \in M \ {y}, NEW d \in Sides
      PROVE  u.child[d][m] = IF m = p /\ d = SideOf(t, m, y) THEN x ELSE t.child[d][m]
    BY <1>1 DEF Transplanted
<1>8. ASSUME NEW m \in M, m = t.parent[n]
      PROVE  SideOf(out, m, n) = SideOf(t, m, n)
    <2>1. m # y /\ m # p /\ "left" \in Sides /\ m \in Nodes
        BY <1>1, <1>8 DEF SuccessorSite, Sides
    <2>2. out.child["left"][m] = t.child["left"][m]
        BY <2>1 DEF Withdrawn
    <2>3. QED
        BY <2>2 DEF SideOf
<1>9. ASSUME NEW m \in M \ {y, n}, NEW d \in Sides
      PROVE  f.child[d][m] = Swap(n, y, u.child[d][m])
    <2>1. f.child[d][m] = IF m = t.parent[n] /\ d = SideOf(out, m, n) THEN y ELSE out.child[d][m]
        BY <1>1, <1>2 DEF Installed
    <2>2. f.child[d][m] = IF t.child[d][m] = n THEN y ELSE out.child[d][m]
        BY <1>3, <1>8, <2>1
    <2>3. out.child[d][m] = IF p # n /\ m = p /\ d = SideOf(t, m, y) THEN x ELSE t.child[d][m]
        BY <1>1 DEF Withdrawn
    <2>4. u.child[d][m] = IF m = p /\ d = SideOf(t, m, y) THEN x ELSE t.child[d][m]
        BY <1>7
    <2>5. m = p => t.child[d][m] # n
        BY <1>3 DEF SuccessorSite
    <2>6. QED
        BY <1>1, <2>2, <2>3, <2>4, <2>5 DEF Swap
<1>10. f.parent[y] = u.parent[n] /\ f.color[y] = u.color[n]
    <2>1. y # left
        BY DEF SuccessorSite
    <2>2. QED
        BY <1>1, <1>2, <2>1 DEF Installed, Transplanted
<1>11. ASSUME NEW d \in Sides
       PROVE  f.child[d][y] = u.child[d][n]
    <2>1. y # t.parent[n]
        BY DEF SuccessorSite
    <2>2. f.child[d][y] = IF d = "left" THEN left ELSE out.child[d][y]
        BY <1>1, <1>2, <2>1 DEF Installed
    <2>3. u.child[d][n] = IF n = p /\ d = SideOf(t, n, y) THEN x ELSE t.child[d][n]
        BY <1>1, <1>7
    <2>4. /\ left = t.child["left"][n] /\ right = t.child["right"][n] /\ x = t.child["right"][y]
          /\ p = n => SideOf(t, n, y) = "right"
        BY DEF SuccessorSite
    <2>5. CASE d = "left"
        BY <2>2, <2>3, <2>4, <2>5
    <2>6. CASE d = "right"
        <3>1. out.child[d][y] = IF p = n THEN x ELSE right
            BY <1>1, <2>4, <2>6 DEF Withdrawn
        <3>2. QED
            BY <2>2, <2>3, <2>4, <2>6, <3>1
    <2>7. QED
        BY <2>5, <2>6 DEF Sides
<1>12. Substituted(u, M \ {y}, n, y, f)
    BY <1>4, <1>5, <1>6, <1>9, <1>10, <1>11 DEF Substituted, Installed
<1>13. ASSUME NEW m \in Nodes \ M
       PROVE  /\ f.parent[m] = t.parent[m]
              /\ f.color[m] = t.color[m]
              /\ \A d \in Sides : f.child[d][m] = t.child[d][m]
    <2>1. m \notin {n, left, right, y, p, x} /\ m \in Nodes
        BY <1>1 DEF SuccessorSite
    <2>2. m # t.parent[n]
        <3>1. t.parent[n] = Null \/ t.parent[n] \in M
            BY <1>1, <1>3, ParentSide
        <3>2. QED
            BY <1>1, <3>1
    <2>3. QED
        BY <1>2, <2>1, <2>2 DEF Installed, Withdrawn
<1>14. f.len = t.len
    BY DEF Installed, Withdrawn
<1>15. QED
    BY <1>12, <1>13, <1>14 DEF OthersKept

\* Either way of taking n out leaves what remove_fixup starts from.
LEMMA ReplaceBySuccessorEffect ==
    ASSUME NEW t, NEW M, NEW key, NEW S, NEW H, IsRedBlack(t, M, key, S, H), NEW n \in M,
           \A side \in Sides : t.child[side][n] # Null,
           NEW c, c = ReplaceBySuccessor(t, n)
    PROVE  /\ \E T, K, e : AfterCut(c.tree, M \ {n}, key, T, K, c.color, c.x, c.p, e)
           /\ OthersKept(t, M, c.tree)
           /\ c.tree.len = t.len
<1> DEFINE y == Outermost(t, t.child["right"][n], "left")
           x == t.child["right"][y]
           p == t.parent[y]
           left == t.child["left"][n]
           right == t.child["right"][n]
           out == IF t.parent[y] = n
                    THEN SetParent(t, x, y)
                    ELSE SetParent(SetChild(Transplant(t, y, x), "right", y, right), right, y)
           f == Paint(SetParent(SetChild(Transplant(out, n, y), "left", y, left), left, y), y, t.color[n])
           u == Transplant(t, y, x)
           e == CutSide(t, y)
           N == M \ {y}
<1>1. c = [tree |-> f, x |-> x, p |-> IF p = n THEN y ELSE p, color |-> t.color[y]]
    BY DEF ReplaceBySuccessor
<1>2. IsTree(t, M, key, S) /\ M \subseteq Nodes /\ t \in Trees /\ Null \notin Nodes
    BY NullAssumption DEF IsRedBlack, IsTree, Linked
<1>3. /\ SuccessorSite(t, M, n, left, right, y, x, p)
      /\ SameRank(N, key, n, y)
    BY <1>2, SuccessorIs
<1>4. out = IF t.parent[y] = n
              THEN SetParent(t, x, y)
              ELSE SetParent(SetChild(Transplant(t, y, x), "right", y, right), right, y)
    OBVIOUS
<1>5. f = Paint(SetParent(SetChild(Transplant(out, n, y), "left", y, left), left, y), y, t.color[n])
    OBVIOUS
<1>6. p = t.parent[y] /\ u = Transplant(t, y, x) /\ e = CutSide(t, y)
    OBVIOUS
<1>7. HalfEmpty(t, y, "left", x)
    <2>1. t.child["left"][y] = Null /\ t.child["right"][y] = x
        BY <1>3 DEF SuccessorSite
    <2>2. QED
        BY <2>1 DEF HalfEmpty, Sides, Opposite
<1> HIDE DEF y, x, p, left, right, out, f, u, e
<1>8. /\ y \in M /\ y \in Nodes /\ left \in Nodes /\ n \in Nodes /\ x \in Pointers /\ p \in M
      /\ x # n /\ y # n /\ p # Null /\ p # y
    BY <1>2, <1>3 DEF SuccessorSite, Pointers
<1>9. Withdrawn(t, n, right, y, x, p, out)
    BY <1>2, <1>3, <1>4, WithdrawEffect
<1>10. out \in Trees /\ t.color[n] \in Colors
    BY <1>2, <1>8, <1>9, TreeFields DEF Withdrawn
<1>11. Installed(out, n, left, y, t.color[n], f)
    BY <1>5, <1>8, <1>10, InstallEffect
<1>12. Transplanted(t, y, x, u)
    BY <1>2, <1>6, <1>8, TransplantEffect
<1>13. /\ Substituted(u, N, n, y, f)
       /\ OthersKept(t, M, f)
       /\ f.len = t.len
    BY <1>2, <1>3, <1>9, <1>11, <1>12, SuccessorSubstituted
<1>14. Spliced(t, M, y, x, u)
    BY <1>2, <1>7, <1>8, <1>12, SpliceEffect
<1> DEFINE T == SplicedSubtrees(S, y)
<1>15. /\ AfterCut(u, N, key, T, H, t.color[y], x, p, e)
       /\ p \in N /\ u.child[e][p] = x /\ e \in Sides
    <2>1. /\ AfterCut(u, M \ {y}, key, SplicedSubtrees(S, y), H, t.color[y], x, p, e)
          /\ p # Null => p \in M \ {y} /\ u.child[e][p] = x
          /\ e \in Sides
        <3>1. y \in M
            BY <1>8
        <3>2. /\ AfterCut(u, M \ {y}, key, SplicedSubtrees(S, y), H, t.color[y],
                          x, t.parent[y], CutSide(t, y))
              /\ t.parent[y] # Null =>
                    t.parent[y] \in M \ {y} /\ u.child[CutSide(t, y)][t.parent[y]] = x
              /\ CutSide(t, y) \in Sides
            BY <1>7, <1>14, <3>1, SplicedCut
        <3>3. QED
            BY <1>6, <3>2
    <2>2. QED
        BY <1>8, <2>1
<1> HIDE DEF T
<1>16. n \in N /\ y \in Nodes \ N
    BY <1>8
<1>17. AfterCut(f, (N \ {n}) \cup {y}, key, RenamedSubtrees(T, n, y),
                RenamedHeights(H, n, y), t.color[y], x, Swap(n, y, p), e)
    BY <1>3, <1>8, <1>13, <1>15, <1>16, SubstitutedCut
<1>18. (N \ {n}) \cup {y} = M \ {n}
    BY <1>8
<1>19. c.tree = f /\ c.x = x /\ c.p = Swap(n, y, p) /\ c.color = t.color[y]
    BY <1>1 DEF Swap
<1>20. QED
    BY <1>13, <1>17, <1>18, <1>19

LEMMA ReplaceByChildEffect ==
    ASSUME NEW t, NEW M, NEW key, NEW S, NEW H, IsRedBlack(t, M, key, S, H), NEW n \in M,
           ~\A side \in Sides : t.child[side][n] # Null,
           NEW c, c = ReplaceByChild(t, n)
    PROVE  /\ \E T, K, e : AfterCut(c.tree, M \ {n}, key, T, K, c.color, c.x, c.p, e)
           /\ OthersKept(t, M, c.tree)
           /\ c.tree.len = t.len
<1> DEFINE d == IF t.child["left"][n] = Null THEN "left" ELSE "right"
           x == t.child[Opposite(d)][n]
           p == t.parent[n]
           u == Transplant(t, n, x)
           e == CutSide(t, n)
<1>1. c = [tree |-> u, x |-> x, p |-> p, color |-> t.color[n]]
    BY DEF ReplaceByChild, Opposite
<1>2. IsTree(t, M, key, S) /\ M \subseteq Nodes /\ t \in Trees /\ n \in Nodes
    BY DEF IsRedBlack, IsTree, Linked
<1>3. HalfEmpty(t, n, d, x)
    BY DEF HalfEmpty, Sides
<1>4. p = t.parent[n] /\ u = Transplant(t, n, x) /\ e = CutSide(t, n)
    OBVIOUS
<1>5. x \in Pointers
    <2>1. d \in Sides
        BY DEF Sides
    <2> HIDE DEF d
    <2>2. QED
        BY <1>2, <2>1, SidesAre, TreeFields
<1> HIDE DEF d, x, p, u, e
<1>6. Transplanted(t, n, x, u)
    BY <1>2, <1>4, <1>5, TransplantEffect
<1>7. Spliced(t, M, n, x, u) /\ OthersKept(t, M, u)
    BY <1>2, <1>3, <1>6, SpliceEffect
<1> DEFINE T == SplicedSubtrees(S, n)
<1>8. AfterCut(u, M \ {n}, key, T, H, t.color[n], x, p, e)
    BY <1>3, <1>4, <1>7, SplicedCut
<1> HIDE DEF T
<1>9. c.tree = u /\ c.x = x /\ c.p = p /\ c.color = t.color[n] /\ u.len = t.len
    BY <1>1, <1>6 DEF Transplanted
<1>10. QED
    BY <1>7, <1>8, <1>9

\* remove takes the entity out of a red-black tree, resets its links and touches
\* no entity outside the tree.
LEMMA DeleteEffect ==
    ASSUME NEW t, NEW M, NEW key, NEW S, NEW H, IsRedBlack(t, M, key, S, H), NEW n \in M,
           t.len > 0, NEW r, r = Delete(t, n)
    PROVE  /\ \E T, K : IsRedBlack(r, M \ {n}, key, T, K)
           /\ r.len = t.len - 1
           /\ OthersKept(t, M, r)
           /\ r.parent[n] = Null
           /\ \A d \in Sides : r.child[d][n] = Null
<1> DEFINE c == IF \A side \in Sides : t.child[side][n] # Null
                  THEN ReplaceBySuccessor(t, n) ELSE ReplaceByChild(t, n)
           done == IF c.color = "black" THEN RemoveFixup(c.tree, c.x, c.p) ELSE c.tree
           z == ResetLinks(done, n)
           N == M \ {n}
<1>1. r = [z EXCEPT !.len = @ - 1]
    BY DEF Delete
<1>2. M \subseteq Nodes /\ n \in Nodes /\ t \in Trees
    BY DEF IsRedBlack, IsTree, Linked
<1>3. /\ \E T, K, e : AfterCut(c.tree, N, key, T, K, c.color, c.x, c.p, e)
      /\ OthersKept(t, M, c.tree)
      /\ c.tree.len = t.len
    <2>1. CASE \A side \in Sides : t.child[side][n] # Null
        <3>1. c = ReplaceBySuccessor(t, n)
            BY <2>1
        <3> HIDE DEF c
        <3>2. QED
            BY <2>1, <3>1, ReplaceBySuccessorEffect
    <2>2. CASE ~\A side \in Sides : t.child[side][n] # Null
        <3>1. c = ReplaceByChild(t, n)
            BY <2>2
        <3> HIDE DEF c
        <3>2. QED
            BY <2>2, <3>1, ReplaceByChildEffect, SMTT(30)
    <2>3. QED
        BY <2>1, <2>2
<1> HIDE DEF c
<1>4. PICK T, K, e : AfterCut(c.tree, N, key, T, K, c.color, c.x, c.p, e)
    BY <1>3
<1>5. /\ \E V, L : IsRedBlack(done, N, key, V, L)
      /\ SameOutside(c.tree, N, done)
    <2>1. CASE c.color = "black"
        <3>1. Removing(c.tree, N, key, T, K, c.x, c.p, e)
            BY <1>4, <2>1 DEF AfterCut
        <3>2. done = RemoveFixup(c.tree, c.x, c.p)
            BY <2>1
        <3> HIDE DEF done
        <3>3. QED
            BY <3>1, <3>2, RemoveFixupEffect
    <2>2. CASE c.color # "black"
        <3>1. IsRedBlack(c.tree, N, key, T, K) /\ done = c.tree
            BY <1>4, <2>2 DEF AfterCut
        <3> HIDE DEF done
        <3>2. QED
            BY <3>1 DEF SameOutside
    <2>3. QED
        BY <2>1, <2>2
<1> HIDE DEF done
<1>6. PICK V, L : IsRedBlack(done, N, key, V, L)
    BY <1>5
<1>7. done \in Trees /\ done.len = t.len
    BY <1>3, <1>5, <1>6 DEF IsRedBlack, IsTree, SameOutside
<1>8. Cleared(done, n, z)
    BY <1>2, <1>7, ResetLinksEffect
<1> HIDE DEF z
<1>9. /\ z \in Trees /\ z.root = done.root /\ z.len = t.len
      /\ \A m \in Nodes :
            /\ z.parent[m] = IF m = n THEN Null ELSE done.parent[m]
            /\ z.color[m] = IF m = n THEN "red" ELSE done.color[m]
            /\ \A d \in Sides : z.child[d][m] = IF m = n THEN Null ELSE done.child[d][m]
    BY <1>7, <1>8 DEF Cleared
<1>10. t.len \in Nat /\ t.len - 1 \in Nat
    BY <1>2, TreeFields
<1>11. /\ r \in Trees /\ r.root = z.root /\ r.len = t.len - 1
       /\ r.parent = z.parent /\ r.color = z.color /\ r.child = z.child
    BY <1>1, <1>9, <1>10 DEF Trees
<1>12. SameWithin(done, N, r)
    BY <1>2, <1>9, <1>11 DEF SameWithin
<1>13. IsRedBlack(r, N, key, V, L)
    BY <1>6, <1>11, <1>12, TreeAgrees
<1>14. OthersKept(t, M, r)
    <2>1. OthersKept(t, M, done)
        BY <1>3, <1>5 DEF OthersKept, SameOutside
    <2>2. QED
        BY <1>2, <1>9, <1>11, <2>1 DEF OthersKept
<1>15. r.parent[n] = Null /\ \A d \in Sides : r.child[d][n] = Null
    BY <1>2, <1>9, <1>11
<1>16. QED
    BY <1>11, <1>13, <1>14, <1>15

\* RBTree::new is a red-black tree of no entities.
LEMMA EmptyIsRedBlack ==
    ASSUME NEW key \in [Nodes -> Nat]
    PROVE  /\ IsRedBlack(EmptyTree, {}, key, [n \in Nodes |-> {}], [n \in Nodes |-> 0])
           /\ EmptyTree.len = 0
           /\ \A n \in Nodes : /\ EmptyTree.parent[n] = Null
                               /\ \A side \in Sides : EmptyTree.child[side][n] = Null
<1>1. EmptyTree \in Trees /\ EmptyTree.root = Null /\ EmptyTree.len = 0
    BY DEF EmptyTree, Trees, Pointers
<1>2. Linked(EmptyTree, {})
    BY <1>1 DEF Linked
<1>3. Ordered(EmptyTree, {}, key, [n \in Nodes |-> {}])
    BY <1>1 DEF Ordered, SubtreeOf
<1>4. Heights(EmptyTree, {}, [n \in Nodes |-> 0])
    BY DEF Heights
<1>5. RedOnlyAt(EmptyTree, {}, Null, Null) /\ ColorOf(EmptyTree, EmptyTree.root) = "black"
    BY <1>1 DEF RedOnlyAt, ColorOf
<1>6. \A n \in Nodes : /\ EmptyTree.parent[n] = Null
                       /\ \A side \in Sides : EmptyTree.child[side][n] = Null
    BY DEF EmptyTree
<1>7. QED
    BY <1>1, <1>2, <1>3, <1>4, <1>5, <1>6 DEF IsRedBlack, IsTree

=============================================================================
