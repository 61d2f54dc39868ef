--------------------------- MODULE MCMutexSched ---------------------------
(* Instances of MutexSched for TLC.                                        *)
EXTENDS MutexSched, TLC, Functions

CONSTANTS c1, c2, r1, r2, m1, m2

MCTimerAddr ==
    Restrict((r1 :> 1) @@ (CfsTimer :> 2) @@ (WaitTimer :> 3) @@ (r2 :> 4), Timers)

MCThreadAddr ==
    Restrict((c1 :> 1) @@ (r1 :> 2) @@ (c2 :> 3) @@ (r2 :> 4), Threads)

MCPriority == Restrict((c1 :> 1) @@ (c2 :> 3), CfsThreads)

MCPeriod   == Restrict((r1 :> 4) @@ (r2 :> 3), RtThreads)
MCDeadline == Restrict((r1 :> 4) @@ (r2 :> 2), RtThreads)

\* No budget overruns: they only count.
MCBudget   == [t \in RtThreads |-> 9]

\* The mutexes have no address in the model.
MutexSymmetry == Permutations(Mutexes)

=============================================================================
