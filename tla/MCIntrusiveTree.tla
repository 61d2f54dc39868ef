-------------------------- MODULE MCIntrusiveTree --------------------------
(* An instance of IntrusiveTree for TLC.                                   *)
EXTENDS IntrusiveTree

\* The entities are numbers; pairs of them tie and are told apart by address.
MCAddr == [n \in Nodes |-> n]
MCKey  == [n \in Nodes |-> n \div 2]

=============================================================================
