---------------------------- MODULE CfsFairness ----------------------------
(***************************************************************************)
(* The scheduler on an unbounded time line, for the question whether every *)
(* CFS thread gets the core again and again.                               *)
(*                                                                         *)
(* The code compares clocks and vruntimes and subtracts them, and reads    *)
(* nothing else off them, so the state is taken up to a shift of the time  *)
(* line: when a bound of RtSched is reached, Rebase moves the origin.  It  *)
(* is the only step of this module the code does not have.                 *)
(***************************************************************************)
EXTENDS RtSched

\* x ticks later, on a time line that starts d ticks later
Shifted(x, d) == IF x = Never THEN Never ELSE SatSub(x, d)

\* The vruntimes start from that of the thread that is furthest behind and
\* can run.  A blocked one behind it loses the lead it would wake up with.
VruntimeOrigin ==
    LET runnable == {t \in CfsThreads : state[t] \in {"Ready", "Running"}}
        S == IF runnable = {} THEN CfsThreads ELSE runnable
    IN  vruntime[Leftmost(S, vruntime, ThreadAddr)]

Rebase ==
    /\ ThreadMode /\ ~Bounded
    /\ kq' = [kq EXCEPT !.now = 0,
                        !.expireAt = [tm \in Timers |-> Shifted(@[tm], kq.now)]]
    /\ wakeAt' = [t \in Threads |-> Shifted(wakeAt[t], kq.now)]
    /\ vruntime' = [t \in CfsThreads |-> SatSub(vruntime[t], VruntimeOrigin)]
    /\ UNCHANGED <<state, runq, prioritySum, waitTree, suspended, cpuVars, reload,
                   pendsv, tickVars, assertFailed>>

EndlessNext ==
    \/ Boot
    \/ ThreadCall
    \/ \E t \in Threads : WakeWaiter(t)
    \/ TickHandler
    \/ Schedule
    \/ Rebase

\* SysTick keeps counting, a handler that has been entered or is pending runs
\* to its end, and the time line does not.  Threads owe nothing.
EndlessSpec ==
    /\ Init /\ [][EndlessNext]_vars
    /\ WF_vars(SysTick)
    /\ WF_vars(tick # "off" /\ TickHandler)
    /\ WF_vars(Schedule)
    /\ WF_vars(Rebase)

\* docs/runq.md:21: "CFS scheduler doesn't starve less-favored threads because
\* even a thread with a larger numeric priority gets a minimum CPU resource
\* slot for running."  Every CFS thread that is Ready runs some day.
NoCfsStarvation ==
    \A t \in CfsThreads :
        started /\ state[t] = "Ready" ~> state[t] = "Running"

=============================================================================
