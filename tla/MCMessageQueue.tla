--------------------------- MODULE MCMessageQueue ---------------------------
(* Instances of MessageQueue for TLC.                                      *)
EXTENDS MessageQueue, TLC

CONSTANTS t1, t2, t3, t4, m1, m2

MCSyncAddr == (t1 :> 1) @@ (t2 :> 2) @@ (t3 :> 3) @@ (t4 :> 4)

=============================================================================
