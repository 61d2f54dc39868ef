--------------------------- MODULE MCCfsFairness ---------------------------
(* An instance of CfsFairness for TLC: two CFS threads of equal priority.  *)
EXTENDS CfsFairness

CONSTANTS c1, c2

MCTimerAddr == [tm \in Timers |-> IF tm = CfsTimer THEN 1 ELSE 2]

MCThreadAddr == [t \in Threads |-> IF t = c1 THEN 1 ELSE 2]

MCPriority == [t \in CfsThreads |-> 1]

\* There is no RT thread.
MCTiming == [t \in RtThreads |-> 1]

=============================================================================
