------------------------- MODULE OrderedTreeProofs -------------------------
(***************************************************************************)
(* A non-empty tree has a first entity, and no entity has a smaller key.   *)
(***************************************************************************)
EXTENDS OrderedTree, WellFoundedInduction, TLAPS

\* Every non-empty set of naturals has a least element.
LEMMA NatMin ==
    ASSUME NEW K \in SUBSET Nat, K # {}
    PROVE  \E m \in K : \A n \in K : m <= n
<1>1. PICK m \in K : \A n \in K : ~(<<n, m>> \in OpToRel(<, Nat))
    BY NatLessThanWellFounded, WFMin
<1>2. \A n \in K : ~(n < m)
    BY <1>1 DEF OpToRel
<1>3. QED
    BY <1>2

\* A non-empty tree has a first entity: keys are naturals and the storage
\* addresses of two entities differ.
LEMMA LeftmostFirst ==
    ASSUME NEW S, S # {}, NEW key, NEW addr,
           \A a \in S : key[a] \in Nat /\ addr[a] \in Nat,
           \A a, b \in S : addr[a] = addr[b] => a = b
    PROVE  /\ Leftmost(S, key, addr) \in S
           /\ \A b \in S \ {Leftmost(S, key, addr)} :
                 \/ key[Leftmost(S, key, addr)] < key[b]
                 \/ /\ key[Leftmost(S, key, addr)] = key[b]
                    /\ addr[Leftmost(S, key, addr)] < addr[b]
<1> DEFINE K == {key[a] : a \in S}
<1>1. PICK k \in K : \A n \in K : k <= n
    <2>1. K \in SUBSET Nat /\ K # {}
        OBVIOUS
    <2>2. QED
        BY <2>1, NatMin
<1> DEFINE T == {a \in S : key[a] = k}
           D == {addr[a] : a \in T}
<1>2. PICK d \in D : \A n \in D : d <= n
    <2>1. D \in SUBSET Nat /\ D # {}
        OBVIOUS
    <2>2. QED
        BY <2>1, NatMin
<1>3. PICK m \in T : addr[m] = d
    OBVIOUS
<1>4. \A b \in S \ {m} : key[m] < key[b] \/ (key[m] = key[b] /\ addr[m] < addr[b])
    <2>1. SUFFICES ASSUME NEW b \in S \ {m}
                   PROVE  key[m] < key[b] \/ (key[m] = key[b] /\ addr[m] < addr[b])
        OBVIOUS
    <2>2. key[m] = k /\ k <= key[b]
        BY <1>1, <1>3
    <2>3. CASE key[b] = k
        <3>1. addr[m] <= addr[b]
            BY <1>2, <1>3, <2>3
        <3>2. addr[m] # addr[b]
            OBVIOUS
        <3>3. QED
            BY <2>2, <2>3, <3>1, <3>2
    <2>4. QED
        BY <2>2, <2>3
<1> DEFINE IsFirst(a) == \A b \in S \ {a} : key[a] < key[b] \/ (key[a] = key[b] /\ addr[a] < addr[b])
<1>5. /\ Leftmost(S, key, addr) \in S
      /\ IsFirst(Leftmost(S, key, addr))
    <2>1. m \in S /\ IsFirst(m)
        BY <1>4
    <2>2. QED
        BY <2>1 DEF Leftmost
<1>6. QED
    BY <1>5

\* No entity has a smaller key than the first one.
LEMMA LeftmostExists ==
    ASSUME NEW S, S # {}, NEW key, NEW addr,
           \A a \in S : key[a] \in Nat /\ addr[a] \in Nat,
           \A a, b \in S : addr[a] = addr[b] => a = b
    PROVE  /\ Leftmost(S, key, addr) \in S
           /\ \A b \in S : key[Leftmost(S, key, addr)] <= key[b]
<1> DEFINE f == Leftmost(S, key, addr)
<1>1. /\ f \in S
      /\ \A b \in S \ {f} : key[f] < key[b] \/ (key[f] = key[b] /\ addr[f] < addr[b])
    BY LeftmostFirst
<1> HIDE DEF f
<1>2. \A b \in S : key[f] <= key[b]
    BY <1>1
<1>3. QED
    BY <1>1, <1>2 DEF f

\* The keys of entities outside the tree do not matter.
LEMMA LeftmostAgrees ==
    ASSUME NEW S, S # {}, NEW key, NEW other, NEW addr,
           \A a \in S : key[a] \in Nat /\ addr[a] \in Nat /\ other[a] = key[a],
           \A a, b \in S : addr[a] = addr[b] => a = b
    PROVE  Leftmost(S, other, addr) = Leftmost(S, key, addr)
<1> DEFINE k == Leftmost(S, key, addr)
           o == Leftmost(S, other, addr)
<1>1. /\ k \in S
      /\ \A b \in S \ {k} : key[k] < key[b] \/ (key[k] = key[b] /\ addr[k] < addr[b])
    BY LeftmostFirst
<1>2. /\ o \in S
      /\ \A b \in S \ {o} : other[o] < other[b] \/ (other[o] = other[b] /\ addr[o] < addr[b])
    BY LeftmostFirst
<1> HIDE DEF k, o
<1>3. k = o
    BY <1>1, <1>2
<1>4. QED
    BY <1>3 DEF k, o

=============================================================================
