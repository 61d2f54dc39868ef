---------------------------- MODULE MCSemaphore ----------------------------
(* An instance of SemaphoreWait for TLC.                                   *)
EXTENDS SemaphoreWait, TLC

CONSTANTS t1, t2, t3, t4

MCSyncAddr == (t1 :> 1) @@ (t2 :> 2) @@ (t3 :> 3) @@ (t4 :> 4)

=============================================================================
