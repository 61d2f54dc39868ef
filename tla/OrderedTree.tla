---------------------------- MODULE OrderedTree ----------------------------
(***************************************************************************)
(* The intrusive red-black tree of src/rbtree.rs, as its users see it: a   *)
(* set of entities with a first one.  Every cmp in the scheduler compares  *)
(* a key and then the entity's storage address, so the order is total.     *)
(***************************************************************************)
EXTENDS Integers

\* first(): the entity with the least (key, address).
Leftmost(S, key, addr) ==
    CHOOSE a \in S : \A b \in S \ {a} :
        \/ key[a] < key[b]
        \/ key[a] = key[b] /\ addr[a] < addr[b]

=============================================================================
