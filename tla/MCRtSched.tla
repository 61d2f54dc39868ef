----------------------------- MODULE MCRtSched -----------------------------
(* Instances of RtSched for TLC.                                           *)
EXTENDS RtSched, TLC, Functions

CONSTANTS c1, c2, r1, r2

\* Addresses interleave the classes, so that ties are broken both ways.
MCTimerAddr ==
    Restrict((r1 :> 1) @@ (CfsTimer :> 2) @@ (WaitTimer :> 3) @@ (r2 :> 4), Timers)

MCThreadAddr ==
    Restrict((c1 :> 1) @@ (r1 :> 2) @@ (c2 :> 3) @@ (r2 :> 4), Threads)

MCPriority == Restrict((c1 :> 1) @@ (c2 :> 3), CfsThreads)

\* One RT thread with a deadline shorter than its period, one with both equal.
MCPeriod   == Restrict((r1 :> 4) @@ (r2 :> 3), RtThreads)
MCDeadline == Restrict((r1 :> 3) @@ (r2 :> 3), RtThreads)
MCBudget   == Restrict((r1 :> 1) @@ (r2 :> 3), RtThreads)

=============================================================================
