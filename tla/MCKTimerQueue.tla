--------------------------- MODULE MCKTimerQueue ---------------------------
(* Instances of KTimerQueue for TLC.                                       *)
EXTENDS KTimerQueue

\* The timers are numbers and their addresses follow the numbers.
MCAddr == [tm \in Nodes |-> tm]

\* Most timers keep one expiration, so that ties are broken by address; the
\* first can expire after the others, the last before them.
MCExpiries ==
    [tm \in Nodes |->
        CASE tm = 1                       -> {2, 3}
          [] \A other \in Nodes : other <= tm -> {1, 2}
          [] OTHER                        -> {2}]

=============================================================================
