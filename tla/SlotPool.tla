------------------------------- MODULE SlotPool -------------------------------
(***************************************************************************)
(* What the concurrency queue promises its callers: a pool of slots.       *)
(* A caller asks for a slot; it gets one, waits, or is turned away.  The   *)
(* pool is work-conserving: after every step either nobody waits or the    *)
(* limit is reached, and no step hands out a slot beyond the limit.        *)
(* Nothing is said of ids, priorities, arrays or signals.                  *)
(***************************************************************************)
EXTENDS Integers, FiniteSets

CONSTANTS Callers, Limits

VARIABLES
    limit,    \* slots in the pool
    waiters,  \* callers that wait for a slot
    holders,  \* callers that hold one
    closed    \* the pool is shut down

vars == <<limit, waiters, holders, closed>>

Init ==
    /\ limit \in Limits
    /\ waiters = {}
    /\ holders = {}
    /\ closed = FALSE

\* Handover(W, H): from waiters W and holders H, move waiters to free slots
\* until there is no free slot or no waiter.
Handover(W, H) ==
    \E G \in SUBSET W :
        /\ waiters' = W \ G
        /\ holders' = H \cup G
        /\ G # {} => Cardinality(H \cup G) <= limit'
        /\ G = W \/ Cardinality(H \cup G) >= limit'

\* A caller asks for a slot.
Ask(c) ==
    /\ ~closed
    /\ c \notin waiters \cup holders
    /\ limit' = limit
    /\ Handover(waiters \cup {c}, holders)
    /\ closed' = closed

\* A holder gives its slot back.
GiveBack(c) ==
    /\ c \in holders
    /\ limit' = limit
    /\ IF closed
       THEN holders' = holders \ {c} /\ UNCHANGED waiters
       ELSE Handover(waiters, holders \ {c})
    /\ closed' = closed

\* Waiters leave with nothing.
TurnAway ==
    /\ \E G \in SUBSET waiters : G # {} /\ waiters' = waiters \ G
    /\ limit' = limit /\ holders' = holders /\ closed' = closed

\* The size of the pool changes; nobody is evicted.
Resize ==
    /\ ~closed
    /\ limit' \in Limits
    /\ Handover(waiters, holders)
    /\ closed' = closed

Close ==
    /\ ~closed
    /\ closed' = TRUE
    /\ waiters' = {}
    /\ UNCHANGED <<limit, holders>>

Next ==
    \/ \E c \in Callers : Ask(c) \/ GiveBack(c)
    \/ TurnAway
    \/ Resize
    \/ Close

Spec == Init /\ [][Next]_vars
=============================================================================
