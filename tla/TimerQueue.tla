----------------------------- MODULE TimerQueue -----------------------------
(***************************************************************************)
(* What KTimerQueue promises its callers: two sets of timers, each timer   *)
(* in at most one of them, and the earliest timer of each choice always at *)
(* hand.  These are the sets KTimer computes with.                         *)
(***************************************************************************)
EXTENDS OrderedTree

CONSTANTS
    Timers,     \* the timer entities
    NoTimer,    \* the null pointer
    TimerAddr,  \* storage address of each timer
    Expiries    \* the expirations each timer may be given

VARIABLES
    active, inactive,           \* the queued timers
    expireAt,                   \* KTimerEntity.expire_at
    earliest, earliestActive,   \* what first() and first_active() return
    size                        \* what len() returns

Earliest(S) == IF S = {} THEN NoTimer ELSE Leftmost(S, expireAt, TimerAddr)

Observed ==
    /\ earliest = Earliest(active \cup inactive)
    /\ earliestActive = Earliest(active)

Init ==
    /\ active = {} /\ inactive = {}
    /\ expireAt \in [Timers -> UNION {Expiries[tm] : tm \in Timers}]
    /\ size = 0
    /\ Observed

SetExpireAt(tm) ==
    /\ tm \notin active \cup inactive
    /\ \E at \in Expiries[tm] : expireAt' = [expireAt EXCEPT ![tm] = at]
    /\ UNCHANGED <<active, inactive, size>>

Enqueue(tm) ==
    /\ tm \notin active \cup inactive
    /\ \/ active' = active \cup {tm} /\ UNCHANGED inactive
       \/ inactive' = inactive \cup {tm} /\ UNCHANGED active
    /\ size' = size + 1
    /\ UNCHANGED expireAt

Remove(tm) ==
    /\ tm \in active \cup inactive
    /\ active' = active \ {tm}
    /\ inactive' = inactive \ {tm}
    /\ size' = size - 1
    /\ UNCHANGED expireAt

Next ==
    /\ \E tm \in Timers : SetExpireAt(tm) \/ Enqueue(tm) \/ Remove(tm)
    /\ Observed'

Spec == Init /\ [][Next]_<<active, inactive, expireAt, earliest, earliestActive, size>>

=============================================================================
