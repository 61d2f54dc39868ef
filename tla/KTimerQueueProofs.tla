-------------------------- MODULE KTimerQueueProofs --------------------------
(***************************************************************************)
(* The two trees of the timer queue never share an entity, their cached    *)
(* minima are right, the two are traversed as one ordered queue, and the   *)
(* whole implements the two sets KTimer is written with.                   *)
(***************************************************************************)
EXTENDS KTimerQueue, RbTreeProofs

-----------------------------------------------------------------------------
(* The order.                                                              *)

LEMMA BeforeAsymmetric ==
    ASSUME NEW key \in [Nodes -> Nat], NEW a \in Nodes, NEW b \in Nodes, Before(key, a, b)
    PROVE  ~Before(key, b, a) /\ a # b
BY NodeAddrAssumption DEF Before

\* There is one least entity of a set.
LEMMA LeastIsLeftmost ==
    ASSUME NEW key \in [Nodes -> Nat], NEW A \in SUBSET Nodes, NEW a, IsLeast(key, A, a)
    PROVE  a = IF A = {} THEN Null ELSE Leftmost(A, key, Addr)
<1>1. CASE A = {}
    BY <1>1 DEF IsLeast
<1>2. CASE A # {}
    <2> DEFINE f == Leftmost(A, key, Addr)
    <2>1. \A b \in A : key[b] \in Nat /\ Addr[b] \in Nat
        BY NodeAddrAssumption
    <2>2. \A b, c \in A : Addr[b] = Addr[c] => b = c
        BY NodeAddrAssumption
    <2>3. f \in A /\ \A b \in A \ {f} : Before(key, f, b)
        BY <1>2, <2>1, <2>2, LeftmostFirst DEF Before
    <2> HIDE DEF f
    <2>4. a \in A /\ \A b \in A \ {a} : Before(key, a, b)
        BY <1>2 DEF IsLeast
    <2>5. a = f
        BY <2>3, <2>4, BeforeAsymmetric
    <2>6. QED
        BY <1>2, <2>5 DEF f
<1>3. QED
    BY <1>1, <1>2

\* The keys of other entities do not matter.
LEMMA LeastAgrees ==
    ASSUME NEW key, NEW other, NEW A, NEW a, IsLeast(key, A, a), \A b \in A : other[b] = key[b]
    PROVE  IsLeast(other, A, a)
BY DEF IsLeast, Before

LEMMA LeastOfAdded ==
    ASSUME NEW key \in [Nodes -> Nat], NEW A \in SUBSET Nodes, NEW a, IsLeast(key, A, a),
           NEW n \in Nodes \ A
    PROVE  IsLeast(key, A \cup {n}, IF a = Null \/ Before(key, n, a) THEN n ELSE a)
<1>1. Null \notin Nodes
    BY NullAssumption
<1>2. CASE A = {}
    BY <1>2 DEF IsLeast
<1>3. CASE A # {}
    <2>1. a \in A /\ a # Null /\ \A b \in A \ {a} : Before(key, a, b)
        BY <1>1, <1>3 DEF IsLeast
    <2>2. CASE Before(key, n, a)
        <3>1. \A b \in A : Before(key, n, b)
            BY <2>1, <2>2, BeforeTransitive
        <3>2. QED
            BY <2>2, <3>1 DEF IsLeast
    <2>3. CASE ~Before(key, n, a)
        <3>1. Before(key, a, n)
            BY <2>1, <2>3, BeforeTotal
        <3>2. QED
            BY <2>1, <2>3, <3>1 DEF IsLeast
    <2>4. QED
        BY <2>2, <2>3
<1>4. QED
    BY <1>2, <1>3

LEMMA LeastOfRemaining ==
    ASSUME NEW key \in [Nodes -> Nat], NEW A \in SUBSET Nodes, NEW a, IsLeast(key, A, a),
           NEW n \in A, NEW b, IsLeast(key, Later(A, key, n), b)
    PROVE  IsLeast(key, A \ {n}, IF n = a THEN b ELSE a)
<1>1. a \in A /\ \A c \in A \ {a} : Before(key, a, c)
    BY DEF IsLeast
<1>2. CASE n = a
    <2>1. ~Before(key, n, n)
        BY BeforeAsymmetric
    <2>2. Later(A, key, n) = A \ {n}
        BY <1>1, <1>2, <2>1 DEF Later
    <2>3. QED
        BY <1>2, <2>2
<1>3. CASE n # a
    BY <1>1, <1>3 DEF IsLeast
<1>4. QED
    BY <1>2, <1>3

\* first: the earlier of the two minima is the minimum of both trees.
LEMMA EarlierIsLeast ==
    ASSUME expireAt \in [Nodes -> Nat], NEW A \in SUBSET Nodes, NEW B \in SUBSET Nodes,
           NEW a, NEW b, IsLeast(expireAt, A, a), IsLeast(expireAt, B, b), A \cap B = {}
    PROVE  IsLeast(expireAt, A \cup B, EarlierOf(a, b))
<1>1. Null \notin Nodes
    BY NullAssumption
<1>2. CASE A = {}
    <2>1. a = Null
        BY <1>2 DEF IsLeast
    <2>2. QED
        BY <1>2, <2>1 DEF EarlierOf
<1>3. CASE B = {} /\ A # {}
    <2>1. b = Null /\ a # Null
        BY <1>1, <1>3 DEF IsLeast
    <2>2. QED
        BY <1>3, <2>1 DEF EarlierOf
<1>4. CASE A # {} /\ B # {}
    <2>1. /\ a \in A /\ a # Null /\ \A c \in A \ {a} : Before(expireAt, a, c)
          /\ b \in B /\ b # Null /\ \A c \in B \ {b} : Before(expireAt, b, c)
        BY <1>1, <1>4 DEF IsLeast
    <2>2. CASE Before(expireAt, a, b)
        <3>1. \A c \in B : Before(expireAt, a, c)
            BY <2>1, <2>2, BeforeTransitive
        <3>2. EarlierOf(a, b) = a
            BY <2>1, <2>2 DEF EarlierOf
        <3>3. QED
            BY <2>1, <3>1, <3>2 DEF IsLeast
    <2>3. CASE ~Before(expireAt, a, b)
        <3>1. a # b
            BY <2>1
        <3>2. Before(expireAt, b, a)
            BY <2>1, <2>3, <3>1, BeforeTotal
        <3>3. \A c \in A : Before(expireAt, b, c)
            BY <2>1, <3>2, BeforeTransitive
        <3>4. EarlierOf(a, b) = b
            BY <2>1, <2>3 DEF EarlierOf
        <3>5. QED
            BY <2>1, <3>3, <3>4 DEF IsLeast
    <2>4. QED
        BY <2>2, <2>3
<1>5. QED
    BY <1>2, <1>3, <1>4

\* The keys of entities outside the tree do not matter.
LEMMA TreeKeysAgree ==
    ASSUME NEW t, NEW M, NEW key, NEW S, NEW H, IsRedBlack(t, M, key, S, H),
           NEW other \in [Nodes -> Nat], \A n \in M : other[n] = key[n]
    PROVE  IsRedBlack(t, M, other, S, H)
<1>1. IsTree(t, M, key, S)
    BY DEF IsRedBlack
<1>2. \A n \in M, d \in Sides : t.child[d][n] \in M \cup {Null}
    BY <1>1, ChildSubtree
<1>3. \A n \in M, d \in Sides : SubtreeOf(S, t.child[d][n]) \subseteq M
    BY <1>1, <1>2, SubtreeWithin DEF SubtreeOf
<1>4. ASSUME NEW n \in M, NEW d \in Sides, NEW m \in SubtreeOf(S, t.child[d][n])
      PROVE  OnSide(other, d, m, n)
    <2>1. OnSide(key, d, m, n) /\ m \in M
        BY <1>1, <1>3 DEF IsTree, Ordered
    <2>2. other[m] = key[m] /\ other[n] = key[n]
        BY <2>1
    <2>3. QED
        BY <2>1, <2>2 DEF OnSide, Before
<1>5. Ordered(t, M, other, S)
    BY <1>1, <1>4 DEF IsTree, Ordered
<1>6. QED
    BY <1>1, <1>5 DEF IsTree, IsRedBlack

-----------------------------------------------------------------------------
(* The inductive invariant.                                                *)

Other(k) == IF k = "active" THEN "inactive" ELSE "active"

\* Tree t is a red-black tree of the timers in M, counts them and has the
\* earliest of them, f, cached.
Holds(t, M, key, f) ==
    /\ \E S, H : IsRedBlack(t, M, key, S, H)
    /\ t.len = Cardinality(M)
    /\ IsLeast(key, M, f)

QueueType ==
    /\ root \in [Kinds -> Pointers]
    /\ len \in [Kinds -> Nat]
    /\ first \in [Kinds -> Pointers]
    /\ active \in [Nodes -> BOOLEAN]
    /\ expireAt \in [Nodes -> Nat]

Queue ==
    /\ QueueType
    /\ \A k \in Kinds : Holds(Tree(k), Members(k), expireAt, first[k])
    /\ \A k \in Kinds : \A tm \in Members(k) : KindOf(tm) = k
    /\ \A tm \in Nodes : ~Contains(tm) =>
          links.parent[tm] = Null /\ \A side \in Sides : links.child[side][tm] = Null

LEMMA KindsApart ==
    ASSUME Queue
    PROVE  /\ \A k \in Kinds : Members(k) \subseteq Nodes /\ Members(k) \cap Members(Other(k)) = {}
           /\ \A k \in Kinds : Other(k) \in Kinds /\ Other(k) # k /\ Other(Other(k)) = k
           /\ \A k \in Kinds : Members("active") \cup Members("inactive")
                                 = Members(k) \cup Members(Other(k))
<1>1. \A k \in Kinds : Other(k) \in Kinds /\ Other(k) # k /\ Other(Other(k)) = k
    BY DEF Kinds, Other
<1>2. ASSUME NEW k \in Kinds
      PROVE  Members(k) \subseteq Nodes /\ Members(k) \cap Members(Other(k)) = {}
    <2>1. Members(k) \subseteq Nodes
        BY DEF Queue, Holds, IsRedBlack, IsTree, Linked
    <2>2. QED
        BY <1>1, <2>1 DEF Queue
<1>3. \A k \in Kinds : Members("active") \cup Members("inactive")
                         = Members(k) \cup Members(Other(k))
    BY DEF Kinds, Other
<1>4. QED
    BY <1>1, <1>2, <1>3

\* A change of one tree that touches no timer of the other.
LEMMA TreeChange ==
    ASSUME Queue, NEW k \in Kinds, NEW t, NEW M, NEW N,
           \E S, H : IsRedBlack(t, M, expireAt, S, H),
           OthersKept(Tree(k), N, t), N \cap Members(Other(k)) = {}, SetTree(k, t)
    PROVE  /\ Tree(k)' = t
           /\ Members(k)' = M
           /\ Members(Other(k))' = Members(Other(k))
           /\ \E S, H : IsRedBlack(Tree(Other(k))', Members(Other(k)), expireAt, S, H)
           /\ root' \in [Kinds -> Pointers] /\ len' \in [Kinds -> Nat]
           /\ len'[k] = t.len /\ len'[Other(k)] = len[Other(k)]
<1> DEFINE j == Other(k)
           u == Tree(j)
           v == Tree(j)'
<1>1. j \in Kinds /\ j # k
    BY KindsApart
<1>2. PICK S, H : IsRedBlack(t, M, expireAt, S, H)
    OBVIOUS
<1>3. t \in Trees
    BY <1>2 DEF IsRedBlack, IsTree
<1>4. root \in [Kinds -> Pointers] /\ len \in [Kinds -> Nat]
    BY DEF Queue, QueueType
<1>5. /\ root' = [root EXCEPT ![k] = t.root]
      /\ len' = [len EXCEPT ![k] = t.len]
      /\ links' = [parent |-> t.parent, child |-> t.child, color |-> t.color]
    BY DEF SetTree
<1>6. /\ root'[k] = t.root /\ root'[j] = root[j]
      /\ len'[k] = t.len /\ len'[j] = len[j]
      /\ root' \in [Kinds -> Pointers] /\ len' \in [Kinds -> Nat]
    BY <1>1, <1>3, <1>4, <1>5 DEF Trees
<1>7. Tree(k)' = [root |-> t.root, len |-> t.len, parent |-> t.parent,
                  child |-> t.child, color |-> t.color]
    BY <1>5, <1>6 DEF Tree
<1>8. Tree(k)' = t
    BY <1>3, <1>7 DEF Trees
<1>9. Members(k)' = M
    <2>1. Members(k)' = Below(t, t.root)
        BY <1>6, <1>8 DEF Members
    <2>2. QED
        BY <1>2, <2>1, RedBlackReads
<1>10. v = [root |-> root[j], len |-> len[j], parent |-> t.parent,
            child |-> t.child, color |-> t.color]
    BY <1>5, <1>6 DEF Tree
<1>11. v \in Trees
    BY <1>1, <1>3, <1>4, <1>10 DEF Trees
<1>12. Members(j) \subseteq Nodes \ N
    BY <1>1, KindsApart
<1>13. SameWithin(u, Members(j), v)
    <2>1. u.root = root[j] /\ u.parent = links.parent /\ u.child = links.child /\ u.color = links.color
        BY DEF Tree
    <2>2. /\ Tree(k).parent = links.parent /\ Tree(k).child = links.child
          /\ Tree(k).color = links.color
        BY DEF Tree
    <2>3. v.root = root[j] /\ v.parent = t.parent /\ v.child = t.child /\ v.color = t.color
        BY <1>10
    <2> HIDE DEF u, v
    <2>4. QED
        BY <1>12, <2>1, <2>2, <2>3 DEF SameWithin, OthersKept
<1>14. PICK T, K : IsRedBlack(u, Members(j), expireAt, T, K)
    BY <1>1 DEF Queue, Holds
<1>15. IsRedBlack(v, Members(j), expireAt, T, K)
    <2> HIDE DEF u, v
    <2>1. QED
        BY <1>11, <1>13, <1>14, TreeAgrees
<1>16. Members(j)' = Members(j)
    <2>1. v.root = root'[j]
        BY <1>6, <1>10
    <2>2. Members(j)' = Below(v, v.root)
        BY <2>1 DEF Members
    <2> HIDE DEF v
    <2>3. QED
        BY <1>15, <2>2, RedBlackReads
<1>17. QED
    BY <1>6, <1>8, <1>9, <1>15, <1>16

\* Tree k becomes t, a tree of the timers in M whose earliest is f, and outside N,
\* where the timers that left it have no links, nothing changes.
TreeBecomes(k, t, M, N, f) ==
    /\ \E S, H : IsRedBlack(t, M, expireAt, S, H)
    /\ OthersKept(Tree(k), N, t)
    /\ N \cap Members(Other(k)) = {}
    /\ Members(k) \subseteq N
    /\ \A tm \in N \ M : t.parent[tm] = Null /\ \A side \in Sides : t.child[side][tm] = Null
    /\ t.len = Cardinality(M)
    /\ IsLeast(expireAt, M, f)
    /\ SetTree(k, t)
    /\ first' = [first EXCEPT ![k] = f]
    /\ expireAt' = expireAt
    /\ active' \in [Nodes -> BOOLEAN]
    /\ \A tm \in M : active'[tm] = (k = "active")
    /\ \A tm \in Members(Other(k)) : active'[tm] = active[tm]

LEMMA QueueChange ==
    ASSUME Queue, NEW k \in Kinds, NEW t, NEW M, NEW N, NEW f, TreeBecomes(k, t, M, N, f)
    PROVE  /\ Queue'
           /\ Members(k)' = M
           /\ Members(Other(k))' = Members(Other(k))
           /\ len'[k] = Cardinality(M) /\ len'[Other(k)] = len[Other(k)]
<1>0. /\ \E S, H : IsRedBlack(t, M, expireAt, S, H)
      /\ OthersKept(Tree(k), N, t)
      /\ N \cap Members(Other(k)) = {}
      /\ Members(k) \subseteq N
      /\ \A tm \in N \ M : t.parent[tm] = Null /\ \A side \in Sides : t.child[side][tm] = Null
      /\ t.len = Cardinality(M)
      /\ IsLeast(expireAt, M, f)
      /\ SetTree(k, t)
      /\ first' = [first EXCEPT ![k] = f]
      /\ expireAt' = expireAt
      /\ active' \in [Nodes -> BOOLEAN]
      /\ \A tm \in M : active'[tm] = (k = "active")
      /\ \A tm \in Members(Other(k)) : active'[tm] = active[tm]
    BY DEF TreeBecomes
<1> DEFINE j == Other(k)
<1>1. /\ Tree(k)' = t
      /\ Members(k)' = M
      /\ Members(j)' = Members(j)
      /\ \E S, H : IsRedBlack(Tree(j)', Members(j), expireAt, S, H)
      /\ root' \in [Kinds -> Pointers] /\ len' \in [Kinds -> Nat]
      /\ len'[k] = t.len /\ len'[j] = len[j]
    BY <1>0, TreeChange
<1>2. j \in Kinds /\ j # k /\ Kinds = {k, j} /\ Members(j) \subseteq Nodes
    BY KindsApart DEF Kinds, Other
<1>3. M \subseteq Nodes /\ f \in Pointers
    <2>1. M \subseteq Nodes
        BY <1>0 DEF IsRedBlack, IsTree, Linked
    <2>2. QED
        BY <1>0, <2>1 DEF IsLeast, Pointers
<1>4. first' \in [Kinds -> Pointers] /\ first'[k] = f /\ first'[j] = first[j]
    BY <1>0, <1>2, <1>3 DEF Queue, QueueType
<1>5. QueueType'
    BY <1>0, <1>1, <1>4 DEF Queue, QueueType
<1>6. Holds(Tree(k)', Members(k)', expireAt', first'[k])
    BY <1>0, <1>1, <1>4 DEF Holds
<1>7. Holds(Tree(j)', Members(j)', expireAt', first'[j])
    <2>1. Tree(j)'.len = len[j] /\ Tree(j).len = len[j]
        BY <1>1 DEF Tree
    <2>2. len[j] = Cardinality(Members(j)) /\ IsLeast(expireAt, Members(j), first[j])
        BY <1>2, <2>1 DEF Queue, Holds
    <2>3. QED
        BY <1>0, <1>1, <1>4, <2>1, <2>2 DEF Holds
<1>8. \A i \in Kinds : Holds(Tree(i)', Members(i)', expireAt', first'[i])
    BY <1>2, <1>6, <1>7
<1>9. \A tm \in Members(j) : KindOf(tm)' = j
    <2>1. \A tm \in Members(j) : KindOf(tm) = j
        BY <1>2 DEF Queue
    <2>2. QED
        BY <1>0, <2>1 DEF KindOf
<1>10. \A i \in Kinds : \A tm \in Members(i)' : KindOf(tm)' = i
    <2>1. \A tm \in M : KindOf(tm)' = k
        BY <1>0 DEF KindOf, Kinds
    <2>2. QED
        BY <1>1, <1>2, <1>9, <2>1
<1>11. ASSUME NEW tm \in Nodes, ~Contains(tm)'
       PROVE  links'.parent[tm] = Null /\ \A side \in Sides : links'.child[side][tm] = Null
    <2>1. tm \notin M /\ tm \notin Members(j)
        BY <1>1, <1>2, <1>11 DEF Contains, Kinds, Other
    <2>2. links'.parent = t.parent /\ links'.child = t.child
        BY <1>0 DEF SetTree
    <2>3. CASE tm \in N
        BY <1>0, <2>1, <2>2, <2>3
    <2>4. CASE tm \notin N
        <3>1. ~Contains(tm)
            BY <1>0, <2>1, <2>4, KindsApart DEF Contains
        <3>2. links.parent[tm] = Null /\ \A side \in Sides : links.child[side][tm] = Null
            BY <3>1 DEF Queue
        <3>3. Tree(k).parent = links.parent /\ Tree(k).child = links.child
            BY DEF Tree
        <3>4. t.parent[tm] = links.parent[tm] /\ \A side \in Sides : t.child[side][tm] = links.child[side][tm]
            BY <1>0, <2>4, <3>3 DEF OthersKept
        <3>5. QED
            BY <2>2, <3>2, <3>4
    <2>5. QED
        BY <2>3, <2>4
<1>12. Queue'
    BY <1>5, <1>8, <1>10, <1>11 DEF Queue
<1>13. QED
    BY <1>0, <1>1, <1>12

\* What Enqueue does to the two sets
LEMMA EnqueueChange ==
    ASSUME Queue, NEW tm \in Nodes, NEW k \in Kinds, Enqueue(tm, k)
    PROVE  /\ Queue'
           /\ Members(k)' = Members(k) \cup {tm}
           /\ Members(Other(k))' = Members(Other(k))
           /\ tm \notin Members("active") \cup Members("inactive")
           /\ len'[k] = len[k] + 1 /\ len'[Other(k)] = len[Other(k)]
           /\ expireAt' = expireAt
<1> DEFINE j == Other(k)
           t == Tree(k)
           M == Members(k)
           N == M \cup {tm}
           r == Insert(t, expireAt, tm)
           f == IF first[k] = Null \/ Before(expireAt, tm, first[k]) THEN tm ELSE first[k]
<1>1. /\ tm \notin Members("active") \cup Members("inactive")
      /\ SetTree(k, r)
      /\ active' = [active EXCEPT ![tm] = (k = "active")]
      /\ first' = [first EXCEPT ![k] = f]
      /\ expireAt' = expireAt
    BY DEF Enqueue, Contains
<1>2. tm \notin M /\ tm \notin Members(j) /\ M \subseteq Nodes /\ M \cap Members(j) = {}
    BY <1>1, KindsApart
<1>3. PICK S, H : IsRedBlack(t, M, expireAt, S, H)
    BY DEF Queue, Holds
<1>4. t.len = Cardinality(M) /\ IsLeast(expireAt, M, first[k]) /\ t.len = len[k]
    BY DEF Queue, Holds, Tree
<1>5. expireAt \in [Nodes -> Nat] /\ active \in [Nodes -> BOOLEAN]
    BY DEF Queue, QueueType
<1> HIDE DEF t, M, r
<1>6. /\ \E T, K : IsRedBlack(r, N, expireAt, T, K)
      /\ r.len = t.len + 1
      /\ OthersKept(t, N, r)
    <2>1. tm \in Nodes \ M /\ r = Insert(t, expireAt, tm)
        BY <1>2 DEF r
    <2>2. QED
        BY <1>3, <2>1, InsertEffect
<1>7. Cardinality(N) = Cardinality(M) + 1
    BY <1>2, FiniteAssumption, FS_Subset, FS_AddElement
<1>8. IsLeast(expireAt, N, f)
    BY <1>2, <1>4, <1>5, LeastOfAdded
<1>9. active' \in [Nodes -> BOOLEAN]
    BY <1>1, <1>5
<1>10. \A other \in N : active'[other] = (k = "active")
    <2>1. \A other \in M : KindOf(other) = k
        BY DEF M, Queue
    <2>2. QED
        BY <1>1, <1>2, <1>5, <2>1 DEF KindOf, Kinds
<1>11. \A other \in Members(j) : active'[other] = active[other]
    BY <1>1, <1>2, <1>5, KindsApart
<1>12. N \cap Members(j) = {} /\ M \subseteq N /\ N \ N = {}
    BY <1>2
<1> HIDE DEF f, N, j
<1>13. /\ Queue' /\ Members(k)' = N /\ Members(j)' = Members(j)
       /\ len'[k] = Cardinality(N) /\ len'[j] = len[j]
    <2>1. r.len = Cardinality(N)
        BY <1>4, <1>6, <1>7
    <2>2. OthersKept(Tree(k), N, r)
        BY <1>6 DEF t
    <2>3. N \cap Members(Other(k)) = {} /\ Members(k) \subseteq N
        BY <1>12 DEF M, j
    <2>4. \A other \in Members(Other(k)) : active'[other] = active[other]
        BY <1>11 DEF j
    <2>5. \A other \in N \ N :
             r.parent[other] = Null /\ \A side \in Sides : r.child[side][other] = Null
        BY <1>12
    <2>6. TreeBecomes(k, r, N, N, f)
        BY <1>1, <1>6, <1>8, <1>9, <1>10, <2>1, <2>2, <2>3, <2>4, <2>5 DEF TreeBecomes
    <2>7. /\ Queue' /\ Members(k)' = N /\ Members(Other(k))' = Members(Other(k))
          /\ len'[k] = Cardinality(N) /\ len'[Other(k)] = len[Other(k)]
        BY <2>6, QueueChange
    <2>8. QED
        BY <2>7 DEF j
<1>14. QED
    BY <1>1, <1>4, <1>7, <1>13 DEF N, M, j

\* What remove does to the two sets
LEMMA DetachChange ==
    ASSUME Queue, NEW tm \in Nodes, NEW k, k = KindOf(tm), Contains(tm), Detach(tm),
           \/ active' = active
           \/ active' = [active EXCEPT ![tm] = FALSE]
    PROVE  /\ Queue'
           /\ k \in Kinds
           /\ tm \in Members(k)
           /\ Members(k)' = Members(k) \ {tm}
           /\ Members(Other(k))' = Members(Other(k))
           /\ len'[k] = len[k] - 1 /\ len'[Other(k)] = len[Other(k)]
           /\ expireAt' = expireAt
<1> DEFINE j == Other(k)
           t == Tree(k)
           M == Members(k)
           N == M \ {tm}
           r == Delete(t, tm)
           f == IF tm = first[k] THEN NextIn(t, tm) ELSE first[k]
<1>1. /\ SetTree(k, r)
      /\ first' = [first EXCEPT ![k] = f]
      /\ expireAt' = expireAt
    BY DEF Detach
<1>2. k \in Kinds /\ tm \in M
    BY DEF Contains, KindOf, Kinds, Queue
<1>3. M \subseteq Nodes /\ M \cap Members(j) = {} /\ tm \notin Members(j)
    BY <1>2, KindsApart
<1>4. PICK S, H : IsRedBlack(t, M, expireAt, S, H)
    BY <1>2 DEF Queue, Holds
<1>5. t.len = Cardinality(M) /\ IsLeast(expireAt, M, first[k]) /\ t.len = len[k]
    BY <1>2 DEF Queue, Holds, Tree
<1>6. expireAt \in [Nodes -> Nat] /\ active \in [Nodes -> BOOLEAN]
    BY DEF Queue, QueueType
<1>7. \A other \in M : active[other] = (k = "active")
    BY <1>2, <1>3, <1>6 DEF Queue, KindOf, Kinds
<1> HIDE DEF t, M, r
<1>8. Cardinality(M) \in Nat /\ Cardinality(M) # 0 /\ Cardinality(N) = Cardinality(M) - 1
    BY <1>2, <1>3, FiniteAssumption, FS_Subset, FS_EmptySet, FS_CardinalityType, FS_RemoveElement
<1>9. /\ \E T, K : IsRedBlack(r, N, expireAt, T, K)
      /\ r.len = t.len - 1
      /\ OthersKept(t, M, r)
      /\ r.parent[tm] = Null
      /\ \A d \in Sides : r.child[d][tm] = Null
    <2>1. t.len > 0 /\ r = Delete(t, tm)
        BY <1>5, <1>8 DEF r
    <2>2. QED
        BY <1>2, <1>4, <2>1, DeleteEffect
<1>10. IsLeast(expireAt, Later(M, expireAt, tm), NextIn(t, tm))
    BY <1>2, <1>4, NextInEffect DEF IsRedBlack
<1>11. IsLeast(expireAt, N, f)
    BY <1>2, <1>3, <1>5, <1>6, <1>10, LeastOfRemaining
<1>12. active' \in [Nodes -> BOOLEAN]
    BY <1>6
<1>13. \A other \in N : active'[other] = (k = "active")
    BY <1>3, <1>6, <1>7
<1>14. \A other \in Members(Other(k)) : active'[other] = active[other]
    BY <1>2, <1>3, <1>6, KindsApart
<1>15. r.len = Cardinality(N)
    BY <1>5, <1>8, <1>9
<1>16. OthersKept(Tree(k), M, r) /\ M \cap Members(Other(k)) = {} /\ Members(k) \subseteq M
    BY <1>3, <1>9 DEF t, M
<1>17. \A other \in M \ N :
          r.parent[other] = Null /\ \A side \in Sides : r.child[side][other] = Null
    BY <1>9
<1> HIDE DEF f, N, j
<1>18. TreeBecomes(k, r, N, M, f)
    BY <1>1, <1>9, <1>11, <1>12, <1>13, <1>14, <1>15, <1>16, <1>17 DEF TreeBecomes
<1>19. /\ Queue' /\ Members(k)' = N /\ Members(Other(k))' = Members(Other(k))
       /\ len'[k] = Cardinality(N) /\ len'[Other(k)] = len[Other(k)]
    BY <1>2, <1>18, QueueChange
<1>20. QED
    BY <1>1, <1>2, <1>5, <1>8, <1>19 DEF N, M, j

\* An expiration changes only while its timer is in neither tree.
LEMMA SetExpireAtChange ==
    ASSUME Queue, NEW tm \in Nodes, SetExpireAt(tm)
    PROVE  /\ Queue'
           /\ \A k \in Kinds : Members(k)' = Members(k)
           /\ tm \notin Members("active") \cup Members("inactive")
<1>1. /\ ~Contains(tm) /\ tm \notin Members("active") \cup Members("inactive")
      /\ UNCHANGED <<links, root, len, first, active>>
    BY DEF SetExpireAt, Contains
<1>2. PICK at \in Expiries[tm] : expireAt' = [expireAt EXCEPT ![tm] = at]
    BY DEF SetExpireAt
<1>3. at \in Nat /\ expireAt \in [Nodes -> Nat]
    BY ExpiriesAssumption DEF Queue, QueueType
<1>4. expireAt' \in [Nodes -> Nat] /\ \A n \in Nodes \ {tm} : expireAt'[n] = expireAt[n]
    BY <1>2, <1>3
<1>5. ASSUME NEW k \in Kinds
      PROVE  Tree(k)' = Tree(k) /\ Members(k)' = Members(k) /\ first'[k] = first[k]
    BY <1>1 DEF Tree, Members
<1>6. ASSUME NEW k \in Kinds
      PROVE  Holds(Tree(k), Members(k), expireAt', first[k])
    <2> DEFINE M == Members(k)
               t == Tree(k)
               key == expireAt'
    <2>1. tm \notin M /\ M \subseteq Nodes
        BY <1>1, KindsApart DEF Kinds
    <2>2. PICK S, H : IsRedBlack(t, M, expireAt, S, H)
        BY DEF Queue, Holds
    <2>3. t.len = Cardinality(M) /\ IsLeast(expireAt, M, first[k])
        BY DEF Queue, Holds
    <2>4. key \in [Nodes -> Nat] /\ \A n \in M : key[n] = expireAt[n]
        BY <1>4, <2>1
    <2> HIDE DEF M, t, key
    <2>5. IsRedBlack(t, M, key, S, H)
        BY <2>2, <2>4, TreeKeysAgree
    <2>6. IsLeast(key, M, first[k])
        BY <2>3, <2>4, LeastAgrees
    <2>7. Holds(t, M, key, first[k])
        BY <2>3, <2>5, <2>6 DEF Holds
    <2>8. QED
        BY <2>7 DEF M, t, key
<1>7. \A k \in Kinds : Holds(Tree(k)', Members(k)', expireAt', first'[k])
    BY <1>5, <1>6
<1>8. QueueType'
    BY <1>1, <1>4 DEF Queue, QueueType
<1>9. \A k \in Kinds : \A n \in Members(k)' : KindOf(n)' = k
    BY <1>1, <1>5 DEF Queue, KindOf
<1>10. \A n \in Nodes : Contains(n)' = Contains(n)
    BY <1>5 DEF Contains, Kinds
<1>11. \A n \in Nodes : ~Contains(n)' =>
          links'.parent[n] = Null /\ \A side \in Sides : links'.child[side][n] = Null
    BY <1>1, <1>10 DEF Queue
<1>12. Queue'
    BY <1>7, <1>8, <1>9, <1>11 DEF Queue
<1>13. QED
    BY <1>1, <1>5, <1>12

\* first() is the earliest timer of both trees.
LEMMA FirstIsEarliest ==
    ASSUME Queue
    PROVE  IsLeast(expireAt, Members("active") \cup Members("inactive"), First)
<1>1. "active" \in Kinds /\ "inactive" \in Kinds /\ Other("active") = "inactive"
    BY DEF Kinds, Other
<1>2. /\ Members("active") \subseteq Nodes /\ Members("inactive") \subseteq Nodes
      /\ Members("active") \cap Members("inactive") = {}
    BY <1>1, KindsApart
<1>3. /\ IsLeast(expireAt, Members("active"), first["active"])
      /\ IsLeast(expireAt, Members("inactive"), first["inactive"])
    BY <1>1 DEF Queue, Holds
<1>4. expireAt \in [Nodes -> Nat]
    BY DEF Queue, QueueType
<1>5. QED
    BY <1>2, <1>3, <1>4, EarlierIsLeast DEF First

LEMMA QueueInit == Init => Queue
<1>1. SUFFICES ASSUME Init PROVE Queue
    OBVIOUS
<1>2. expireAt \in [Nodes -> Nat]
    BY <1>1, ExpiriesAssumption DEF Init
<1>3. EmptyTree = [root |-> Null, len |-> 0, parent |-> EmptyTree.parent,
                   child |-> EmptyTree.child, color |-> EmptyTree.color]
    BY DEF EmptyTree
<1>4. /\ links.parent = EmptyTree.parent /\ links.child = EmptyTree.child
      /\ links.color = EmptyTree.color
      /\ \A k \in Kinds : root[k] = Null /\ len[k] = 0 /\ first[k] = Null
    BY <1>1 DEF Init
<1>5. ASSUME NEW k \in Kinds PROVE Tree(k) = EmptyTree
    BY <1>3, <1>4 DEF Tree
<1>6. \E S, H : IsRedBlack(EmptyTree, {}, expireAt, S, H)
    BY <1>2, EmptyIsRedBlack
<1>7. Below(EmptyTree, EmptyTree.root) = {} /\ EmptyTree.root = Null /\ EmptyTree.len = 0
    BY <1>3, <1>6, RedBlackReads
<1>8. ASSUME NEW k \in Kinds PROVE Members(k) = {}
    BY <1>4, <1>5, <1>7 DEF Members
<1>9. ASSUME NEW k \in Kinds PROVE Holds(Tree(k), Members(k), expireAt, first[k])
    <2>1. IsLeast(expireAt, {}, Null) /\ Cardinality({}) = 0
        BY FS_EmptySet DEF IsLeast
    <2>2. QED
        BY <1>4, <1>5, <1>6, <1>7, <1>8, <2>1 DEF Holds
<1>10. QueueType
    BY <1>1, <1>2 DEF QueueType, Init, Pointers
<1>11. \A tm \in Nodes : links.parent[tm] = Null /\ \A side \in Sides : links.child[side][tm] = Null
    BY <1>4 DEF EmptyTree
<1>12. QED
    BY <1>8, <1>9, <1>10, <1>11 DEF Queue

LEMMA PopFirstRemoves ==
    ASSUME Queue, PopFirst
    PROVE  First \in Nodes /\ Remove(First)
<1>1. First # Null /\ Remove(First)
    BY DEF PopFirst
<1>2. First \in Members("active") \cup Members("inactive")
    BY <1>1, FirstIsEarliest DEF IsLeast
<1>3. QED
    BY <1>1, <1>2, KindsApart DEF Kinds

\* Remove, dequeue and pop_first all detach a queued timer.
Detached(tm) ==
    /\ Contains(tm)
    /\ Detach(tm)
    /\ active' = active \/ active' = [active EXCEPT ![tm] = FALSE]

\* A step in terms of what it does to the two sets
LEMMA Steps ==
    ASSUME Queue, Next
    PROVE  \E tm \in Nodes : \/ SetExpireAt(tm)
                             \/ \E k \in Kinds : Enqueue(tm, k)
                             \/ Detached(tm)
<1>1. CASE \E tm \in Nodes : SetExpireAt(tm)
    BY <1>1
<1>2. CASE \E tm \in Nodes : Remove(tm) \/ Dequeue(tm)
    BY <1>2 DEF Remove, Dequeue, Detached
<1>3. CASE \E tm \in Nodes, k \in Kinds : Enqueue(tm, k)
    BY <1>3
<1>4. CASE PopFirst
    BY <1>4, PopFirstRemoves DEF Remove, Detached
<1>5. QED
    BY <1>1, <1>2, <1>3, <1>4 DEF Next

\* The invariant is inductive.
LEMMA QueueNext == Queue /\ [Next]_vars => Queue'
<1>1. SUFFICES ASSUME Queue, [Next]_vars PROVE Queue'
    OBVIOUS
<1>2. CASE Next
    <2>1. PICK tm \in Nodes : \/ SetExpireAt(tm)
                              \/ \E k \in Kinds : Enqueue(tm, k)
                              \/ Detached(tm)
        BY <1>1, <1>2, Steps
    <2>2. CASE SetExpireAt(tm)
        BY <1>1, <2>2, SetExpireAtChange
    <2>3. CASE \E k \in Kinds : Enqueue(tm, k)
        BY <1>1, <2>3, EnqueueChange
    <2>4. CASE Detached(tm)
        BY <1>1, <2>4, DetachChange DEF Detached
    <2>5. QED
        BY <2>1, <2>2, <2>3, <2>4
<1>3. CASE UNCHANGED vars
    BY <1>1, <1>3 DEF Queue, QueueType, Holds, Tree, Members, KindOf, Contains, vars
<1>4. QED
    BY <1>1, <1>2, <1>3

LEMMA AlwaysQueue == Spec => []Queue
BY QueueInit, QueueNext, PTL DEF Spec

-----------------------------------------------------------------------------
(* The theorems.                                                           *)

LEMMA QueueOneTree == Queue => OneTreePerNode
<1>1. SUFFICES ASSUME Queue PROVE OneTreePerNode
    OBVIOUS
<1>2. "active" \in Kinds /\ "inactive" \in Kinds
    BY DEF Kinds
<1>3. ASSUME NEW k \in Kinds PROVE WellLinked(Tree(k))
    BY <1>1, RedBlackReads DEF Queue, Holds
<1>4. \A tm \in Members("active") : active[tm]
    BY <1>1, <1>2 DEF Queue, KindOf
<1>5. \A tm \in Members("inactive") : ~active[tm]
    BY <1>1, <1>2 DEF Queue, KindOf
<1>6. \A tm \in Nodes : ~Contains(tm) =>
          links.parent[tm] = Null /\ \A side \in Sides : links.child[side][tm] = Null
    BY <1>1 DEF Queue
<1>7. QED
    BY <1>3, <1>4, <1>5, <1>6 DEF OneTreePerNode

\* next() of a queued timer is the earliest of those after it in both trees.
LEMMA NextIsEarliest ==
    ASSUME Queue, NEW tm \in Members("active") \cup Members("inactive")
    PROVE  IsLeast(expireAt,
                   {other \in Members("active") \cup Members("inactive") :
                       Before(expireAt, tm, other)},
                   NextTimer(tm))
<1> DEFINE k == KindOf(tm)
           j == Other(k)
           A == Later(Members(k), expireAt, tm)
           B == Later(Members(j), expireAt, tm)
           a == NextIn(Tree(k), tm)
           b == UpperBound(Tree(j), expireAt, tm)
<1>1. k \in Kinds /\ j \in Kinds /\ tm \in Members(k) /\ tm \in Nodes
    BY KindsApart DEF KindOf, Kinds, Queue
<1>2. /\ Members(k) \subseteq Nodes /\ Members(j) \subseteq Nodes
      /\ Members(k) \cap Members(j) = {}
      /\ Members("active") \cup Members("inactive") = Members(k) \cup Members(j)
    BY <1>1, KindsApart
<1>3. expireAt \in [Nodes -> Nat]
    BY DEF Queue, QueueType
<1>4. NextTimer(tm) = EarlierOf(a, b)
    <2>1. (IF active[tm] THEN "inactive" ELSE "active") = j
        BY DEF KindOf, Other
    <2>2. QED
        BY <2>1 DEF NextTimer
<1>5. \E S : IsTree(Tree(k), Members(k), expireAt, S)
    BY <1>1 DEF Queue, Holds, IsRedBlack
<1>6. \E S : IsTree(Tree(j), Members(j), expireAt, S)
    BY <1>1 DEF Queue, Holds, IsRedBlack
<1> HIDE DEF k, j
<1>7. IsLeast(expireAt, A, a)
    BY <1>1, <1>5, NextInEffect
<1>8. IsLeast(expireAt, B, b)
    BY <1>1, <1>6, UpperBoundEffect
<1>9. A \in SUBSET Nodes /\ B \in SUBSET Nodes /\ A \cap B = {}
    BY <1>2 DEF Later
<1>10. {other \in Members("active") \cup Members("inactive") : Before(expireAt, tm, other)}
          = A \cup B
    BY <1>2 DEF Later
<1> HIDE DEF A, B, a, b
<1>11. IsLeast(expireAt, A \cup B, EarlierOf(a, b))
    BY <1>3, <1>7, <1>8, <1>9, EarlierIsLeast
<1>12. QED
    BY <1>4, <1>10, <1>11

\* The timers a walk that has got to entity at will still pass
Ahead(Q, at) == IF at = Null THEN {} ELSE {at} \cup Later(Q, expireAt, at)

\* One step of the walk leaves out no timer and gets nearer to the end.
LEMMA WalkStep ==
    ASSUME Queue, NEW Q, Q = Members("active") \cup Members("inactive"), NEW at \in Q
    PROVE  /\ NextTimer(at) \in Q \cup {Null}
           /\ Ahead(Q, at) = {at} \cup Ahead(Q, NextTimer(at))
           /\ at \notin Ahead(Q, NextTimer(at))
<1> DEFINE b == NextTimer(at)
           L == Later(Q, expireAt, at)
<1>1. Q \subseteq Nodes /\ Null \notin Q /\ expireAt \in [Nodes -> Nat]
    BY KindsApart, NullAssumption DEF Kinds, Queue, QueueType
<1>2. IsLeast(expireAt, L, b)
    BY NextIsEarliest DEF Later
<1> HIDE DEF b
<1>3. CASE L = {}
    <2>1. b = Null
        BY <1>2, <1>3 DEF IsLeast
    <2>2. QED
        BY <1>1, <1>3, <2>1 DEF Ahead, b
<1>4. CASE L # {}
    <2>1. /\ b \in Q /\ b # Null /\ Before(expireAt, at, b) /\ b \in L
          /\ \A c \in L \ {b} : Before(expireAt, b, c)
        BY <1>1, <1>2, <1>4 DEF IsLeast, Later
    <2>2. at # b /\ ~Before(expireAt, b, at)
        BY <1>1, <2>1, BeforeAsymmetric
    <2>3. Later(Q, expireAt, b) \subseteq L
        BY <1>1, <2>1, BeforeTransitive DEF Later
    <2>4. L \subseteq {b} \cup Later(Q, expireAt, b)
        BY <2>1 DEF Later
    <2>5. L = {b} \cup Later(Q, expireAt, b) /\ at \notin {b} \cup Later(Q, expireAt, b)
        BY <2>1, <2>2, <2>3, <2>4 DEF Later
    <2>6. Ahead(Q, b) = {b} \cup Later(Q, expireAt, b) /\ Ahead(Q, at) = {at} \cup L
        BY <1>1, <2>1 DEF Ahead
    <2>7. QED
        BY <2>1, <2>5, <2>6 DEF b
<1>5. QED
    BY <1>3, <1>4

\* The walk of the diagnostics ends, and has then passed every queued timer.
LEMMA TraverseEffect ==
    ASSUME Queue, NEW Q, Q = Members("active") \cup Members("inactive")
    PROVE  Traverse = [at |-> Null, seen |-> Q]
<1> DEFINE A == {s \in [at : Q \cup {Null}, seen : SUBSET Q] : Q = s.seen \cup Ahead(Q, s.at)}
           F == [s \in [at : Pointers, seen : SUBSET Nodes] |->
                    IF s.at = Null
                      THEN s ELSE [at |-> NextTimer(s.at), seen |-> s.seen \cup {s.at}]]
           N == Cardinality(Nodes)
           m == [s \in A |-> Cardinality(Ahead(Q, s.at))]
           s0 == [at |-> First, seen |-> {}]
           e == Loop(F, s0)
<1>1. Q \subseteq Nodes /\ Null \notin Q /\ expireAt \in [Nodes -> Nat] /\ N \in Nat
    BY KindsApart, NullAssumption, FiniteAssumption, FS_CardinalityType DEF Kinds, Queue, QueueType
<1>2. \A at \in Q \cup {Null} : /\ Ahead(Q, at) \subseteq Q
                               /\ IsFiniteSet(Ahead(Q, at))
                               /\ Cardinality(Ahead(Q, at)) \in Nat
                               /\ Cardinality(Ahead(Q, at)) <= N
    <2>1. SUFFICES ASSUME NEW at \in Q \cup {Null}
                   PROVE  /\ Ahead(Q, at) \subseteq Q
                          /\ IsFiniteSet(Ahead(Q, at))
                          /\ Cardinality(Ahead(Q, at)) \in Nat
                          /\ Cardinality(Ahead(Q, at)) <= N
        OBVIOUS
    <2>2. Ahead(Q, at) \subseteq Q
        BY <2>1 DEF Ahead, Later
    <2>3. Ahead(Q, at) \subseteq Nodes
        BY <1>1, <2>2
    <2>4. QED
        BY <2>2, <2>3, FiniteAssumption, FS_Subset, FS_CardinalityType
<1>3. s0 \in A
    <2>1. IsLeast(expireAt, Q, First)
        BY FirstIsEarliest
    <2>2. First \in Q \cup {Null} /\ Ahead(Q, First) = Q
        BY <1>1, <2>1 DEF IsLeast, Ahead, Later
    <2>3. QED
        BY <2>2
<1>4. ASSUME NEW s \in A
      PROVE  /\ F[s] \in A
             /\ F[s] = s \/ Cardinality(Ahead(Q, F[s].at)) < Cardinality(Ahead(Q, s.at))
             /\ F[s] = s => s.at = Null
    <2>1. /\ s \in [at : Q \cup {Null}, seen : SUBSET Q] /\ Q = s.seen \cup Ahead(Q, s.at)
          /\ s \in [at : Pointers, seen : SUBSET Nodes]
        BY <1>1 DEF Pointers
    <2>2. F[s] = IF s.at = Null
                   THEN s ELSE [at |-> NextTimer(s.at), seen |-> s.seen \cup {s.at}]
        BY <2>1
    <2> HIDE DEF F
    <2>3. CASE s.at = Null
        BY <2>2, <2>3
    <2>4. CASE s.at # Null
        <3> DEFINE b == NextTimer(s.at)
        <3>1. s.at \in Q /\ s.seen \subseteq Q
            BY <2>1, <2>4
        <3>2. /\ b \in Q \cup {Null}
              /\ Ahead(Q, s.at) = {s.at} \cup Ahead(Q, b)
              /\ s.at \notin Ahead(Q, b)
            BY <3>1, WalkStep
        <3> HIDE DEF b
        <3>3. F[s] = [at |-> b, seen |-> s.seen \cup {s.at}]
            BY <2>2, <2>4 DEF b
        <3>4. F[s].at = b /\ F[s].seen = s.seen \cup {s.at}
            BY <3>3
        <3>5. F[s] \in [at : Q \cup {Null}, seen : SUBSET Q]
            BY <3>1, <3>2, <3>3
        <3>6. Q = F[s].seen \cup Ahead(Q, F[s].at)
            BY <2>1, <3>2, <3>4
        <3>7. Cardinality(Ahead(Q, b)) < Cardinality(Ahead(Q, s.at))
            <4> DEFINE X == Ahead(Q, b)
                       Y == Ahead(Q, s.at)
            <4>1. X \subseteq Y /\ X # Y
                BY <3>2
            <4>2. IsFiniteSet(Y) /\ Cardinality(X) \in Nat /\ Cardinality(Y) \in Nat
                BY <1>2, <3>1, <3>2
            <4> HIDE DEF X, Y
            <4>3. Cardinality(X) < Cardinality(Y)
                BY <4>1, <4>2, FS_Subset
            <4>4. QED
                BY <4>3 DEF X, Y
        <3>8. F[s] # s
            <4>1. s.at \in Ahead(Q, s.at) /\ s.at \notin Ahead(Q, b)
                BY <3>2
            <4>2. b # s.at
                BY <4>1
            <4>3. QED
                BY <3>4, <4>2
        <3>9. QED
            BY <3>4, <3>5, <3>6, <3>7, <3>8
    <2>5. QED
        BY <2>3, <2>4
<1>5. Traverse = e
    BY DEF Traverse
<1>6. \A s \in A : s.at \in Q \cup {Null}
    OBVIOUS
<1> HIDE DEF F, A, s0
<1>7. m \in [A -> Nat] /\ m[s0] <= N
    BY <1>2, <1>3, <1>6
<1>8. \A s \in A : F[s] \in A /\ (F[s] = s \/ m[F[s]] < m[s])
    BY <1>4
<1>9. e \in A /\ F[e] = e
    <2> HIDE DEF m
    <2>1. QED
        BY <1>3, <1>7, <1>8, LoopEnds
<1> HIDE DEF e
<1>10. e.at = Null
    BY <1>4, <1>9
<1>11. e \in [at : Q \cup {Null}, seen : SUBSET Q] /\ Q = e.seen \cup Ahead(Q, e.at)
    BY <1>9 DEF A
<1>12. Ahead(Q, Null) = {}
    BY DEF Ahead
<1>13. e = [at |-> Null, seen |-> Q]
    BY <1>10, <1>11, <1>12
<1>14. QED
    BY <1>5, <1>13

LEMMA QueueInOrder == Queue => TraversalInOrder
<1>1. SUFFICES ASSUME Queue PROVE TraversalInOrder
    OBVIOUS
<1>2. Traverse = [at |-> Null, seen |-> Members("active") \cup Members("inactive")]
    BY <1>1, TraverseEffect
<1>3. QED
    BY <1>1, <1>2, FirstIsEarliest, NextIsEarliest DEF TraversalInOrder

\* Whatever the timers and the order of calls, the one embedded node of a timer
\* is in the tree its active flag names and in no other, and a detached timer
\* has no links left (enqueue_active, enqueue_inactive, remove, dequeue).
THEOREM TimersInOneTree == Spec => []OneTreePerNode
BY AlwaysQueue, QueueOneTree, PTL

\* first() and next() go through the timers of both trees in order of expiration
\* and address, and the walk along them ends and passes every timer
\* (traverse_ktimer_queue).
THEOREM TimersTraversedInOrder == Spec => []TraversalInOrder
BY AlwaysQueue, QueueInOrder, PTL

-----------------------------------------------------------------------------
(* The queue implements the two sets of TimerQueue.                        *)

\* The cached minima are what the abstract queue returns.
LEMMA QueueObserved == Queue => TQ!Observed
<1>1. SUFFICES ASSUME Queue PROVE TQ!Observed
    OBVIOUS
<1> DEFINE A == Members("active")
           B == Members("inactive")
<1>2. "active" \in Kinds /\ "inactive" \in Kinds
    BY DEF Kinds
<1>3. A \in SUBSET Nodes /\ A \cup B \in SUBSET Nodes /\ expireAt \in [Nodes -> Nat]
    BY <1>1, <1>2, KindsApart DEF Queue, QueueType
<1>4. IsLeast(expireAt, A, first["active"])
    BY <1>1, <1>2 DEF Queue, Holds
<1>5. IsLeast(expireAt, A \cup B, First)
    BY <1>1, FirstIsEarliest
<1> HIDE DEF A, B
<1>6. first["active"] = IF A = {} THEN Null ELSE Leftmost(A, expireAt, Addr)
    BY <1>3, <1>4, LeastIsLeftmost
<1>7. First = IF A \cup B = {} THEN Null ELSE Leftmost(A \cup B, expireAt, Addr)
    BY <1>3, <1>5, LeastIsLeftmost
<1>8. first["active"] = TQ!Earliest(A)
    BY <1>6 DEF TQ!Earliest, TQ!Leftmost, Leftmost
<1>9. First = TQ!Earliest(A \cup B)
    BY <1>7 DEF TQ!Earliest, TQ!Leftmost, Leftmost
<1>10. QED
    BY <1>8, <1>9 DEF TQ!Observed, A, B

LEMMA QueueObservedNext == Queue' => TQ!Observed'
BY QueueObserved, PTL

LEMMA RefinesInit == Init => TQ!Init
<1>1. SUFFICES ASSUME Init PROVE TQ!Init
    OBVIOUS
<1>2. Queue
    BY <1>1, QueueInit
<1>3. TQ!Observed
    BY <1>2, QueueObserved
<1>4. /\ len["active"] = 0 /\ len["inactive"] = 0
      /\ expireAt = [tm \in Nodes |-> CHOOSE at \in Expiries[tm] : TRUE]
    BY <1>1 DEF Init, Kinds
<1>5. expireAt \in [Nodes -> UNION {Expiries[tm] : tm \in Nodes}]
    BY <1>4, ExpiriesAssumption
<1>6. Members("active") = {} /\ Members("inactive") = {}
    <2>1. \A k \in Kinds : Tree(k).len = 0 /\ Tree(k).root = Null
        BY <1>1 DEF Tree, Init
    <2>2. \A k \in Kinds : Members(k) = {}
        <3>1. SUFFICES ASSUME NEW k \in Kinds PROVE Members(k) = {}
            OBVIOUS
        <3>2. \E S, H : IsRedBlack(Tree(k), Members(k), expireAt, S, H)
            BY <1>2 DEF Queue, Holds
        <3>3. QED
            BY <2>1, <3>2 DEF IsRedBlack, IsTree, Ordered, SubtreeOf
    <2>3. QED
        BY <2>2 DEF Kinds
<1>7. len["active"] + len["inactive"] = 0
    BY <1>4
<1>8. QED
    BY <1>3, <1>5, <1>6, <1>7 DEF TQ!Init

\* The arithmetic of len() and the two kinds by name
LEMMA ByName ==
    ASSUME Queue, NEW k \in Kinds
    PROVE  /\ \/ k = "active" /\ Other(k) = "inactive"
              \/ k = "inactive" /\ Other(k) = "active"
           /\ len[k] \in Nat /\ len[Other(k)] \in Nat
BY DEF Kinds, Other, Queue, QueueType

LEMMA RefinesSetExpireAt ==
    ASSUME Queue, NEW tm \in Nodes, SetExpireAt(tm)
    PROVE  TQ!SetExpireAt(tm)
<1>1. /\ Members("active")' = Members("active") /\ Members("inactive")' = Members("inactive")
      /\ tm \notin Members("active") \cup Members("inactive")
    BY SetExpireAtChange DEF Kinds
<1>2. len' = len /\ \E at \in Expiries[tm] : expireAt' = [expireAt EXCEPT ![tm] = at]
    BY DEF SetExpireAt
<1>3. QED
    BY <1>1, <1>2 DEF TQ!SetExpireAt

LEMMA RefinesEnqueue ==
    ASSUME Queue, NEW tm \in Nodes, NEW k \in Kinds, Enqueue(tm, k)
    PROVE  TQ!Enqueue(tm)
<1>1. /\ Members(k)' = Members(k) \cup {tm}
      /\ Members(Other(k))' = Members(Other(k))
      /\ tm \notin Members("active") \cup Members("inactive")
      /\ len'[k] = len[k] + 1 /\ len'[Other(k)] = len[Other(k)]
      /\ expireAt' = expireAt
    BY EnqueueChange
<1>2. CASE k = "active" /\ Other(k) = "inactive"
    <2>1. len'["active"] + len'["inactive"] = len["active"] + len["inactive"] + 1
        BY <1>1, <1>2, ByName
    <2>2. QED
        BY <1>1, <1>2, <2>1 DEF TQ!Enqueue
<1>3. CASE k = "inactive" /\ Other(k) = "active"
    <2>1. len'["active"] + len'["inactive"] = len["active"] + len["inactive"] + 1
        BY <1>1, <1>3, ByName
    <2>2. QED
        BY <1>1, <1>3, <2>1 DEF TQ!Enqueue
<1>4. QED
    BY <1>2, <1>3, ByName

LEMMA RefinesRemove ==
    ASSUME Queue, NEW tm \in Nodes, Detached(tm)
    PROVE  TQ!Remove(tm)
<1>0. PICK k : k = KindOf(tm)
    OBVIOUS
<1>1. /\ k \in Kinds /\ tm \in Members(k)
      /\ Members(k)' = Members(k) \ {tm}
      /\ Members(Other(k))' = Members(Other(k))
      /\ len'[k] = len[k] - 1 /\ len'[Other(k)] = len[Other(k)]
      /\ expireAt' = expireAt
    BY <1>0, DetachChange DEF Detached
<1>2. tm \notin Members(Other(k))
    BY <1>1, KindsApart
<1>3. CASE k = "active" /\ Other(k) = "inactive"
    <2>1. len'["active"] + len'["inactive"] = (len["active"] + len["inactive"]) - 1
        BY <1>1, <1>3, ByName
    <2>2. Members("inactive")' = Members("inactive") \ {tm}
        BY <1>1, <1>2, <1>3
    <2>3. tm \in Members("active") /\ Members("active")' = Members("active") \ {tm}
        BY <1>1, <1>3
    <2>4. expireAt' = expireAt
        BY <1>1
    <2>5. QED
        BY <2>1, <2>2, <2>3, <2>4 DEF TQ!Remove
<1>4. CASE k = "inactive" /\ Other(k) = "active"
    <2>1. len'["active"] + len'["inactive"] = (len["active"] + len["inactive"]) - 1
        BY <1>1, <1>4, ByName
    <2>2. Members("active")' = Members("active") \ {tm}
        BY <1>1, <1>2, <1>4
    <2>3. tm \in Members("inactive") /\ Members("inactive")' = Members("inactive") \ {tm}
        BY <1>1, <1>4
    <2>4. expireAt' = expireAt
        BY <1>1
    <2>5. QED
        BY <2>1, <2>2, <2>3, <2>4 DEF TQ!Remove
<1>5. QED
    BY <1>1, <1>3, <1>4, ByName

\* Every step of the trees is a step of the two sets, or leaves them alone.
LEMMA RefinesNext ==
    Queue /\ Queue' /\ [Next]_vars =>
        [TQ!Next]_<<Members("active"), Members("inactive"), expireAt, First, first["active"],
                    len["active"] + len["inactive"]>>
<1>1. SUFFICES ASSUME Queue, Queue', [Next]_vars
               PROVE  [TQ!Next]_<<Members("active"), Members("inactive"), expireAt, First,
                                  first["active"], len["active"] + len["inactive"]>>
    OBVIOUS
<1>2. CASE Next
    <2>1. PICK tm \in Nodes : \/ SetExpireAt(tm)
                              \/ \E k \in Kinds : Enqueue(tm, k)
                              \/ Detached(tm)
        BY <1>1, <1>2, Steps
    <2>2. TQ!SetExpireAt(tm) \/ TQ!Enqueue(tm) \/ TQ!Remove(tm)
        BY <1>1, <2>1, RefinesSetExpireAt, RefinesEnqueue, RefinesRemove
    <2>3. TQ!Observed'
        BY <1>1, QueueObservedNext
    <2>4. TQ!Next
        BY <2>2, <2>3 DEF TQ!Next
    <2>5. QED
        BY <2>4
<1>3. CASE UNCHANGED vars
    <2>1. /\ links' = links /\ root' = root /\ len' = len /\ first' = first
          /\ active' = active /\ expireAt' = expireAt
        BY <1>3 DEF vars
    <2>2. \A k \in Kinds : Members(k)' = Members(k)
        BY <2>1 DEF Members, Tree
    <2>3. First' = First
        BY <2>1 DEF First, EarlierOf
    <2>4. QED
        BY <2>1, <2>2, <2>3 DEF Kinds
<1>4. QED
    BY <1>1, <1>2, <1>3

\* The two linked trees with their cached minima implement, for every set of
\* timers, the two sets with their earliest members that KTimer and everything
\* built on it computes with.
THEOREM TimerQueueRefined == Spec => RefinesTimerQueue
<1>1. Spec => TQ!Init
    BY RefinesInit DEF Spec
<1>2. Spec => [][TQ!Next]_<<Members("active"), Members("inactive"), expireAt, First,
                            first["active"], len["active"] + len["inactive"]>>
    BY AlwaysQueue, RefinesNext, PTL DEF Spec
<1>3. QED
    BY <1>1, <1>2 DEF RefinesTimerQueue, TQ!Spec

=============================================================================
