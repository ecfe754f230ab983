------------------------------ MODULE TimerSlot ------------------------------
(***************************************************************************)
(* What the timer promises its users: each has one slot, which holds at    *)
(* most one running entry; an entry that leaves a slot is closed for good. *)
(* Requests, their interleaving and their failures are not visible here.   *)
(***************************************************************************)
CONSTANTS Users, Entries, None

VARIABLES
    slot,    \* slot[u]: the entry that runs for u, or None
    closed   \* entries that will never run (again)

Occupied == {slot[u] : u \in Users}

Init == slot = [u \in Users |-> None] /\ closed = {}

Start(u, e) ==
    /\ slot[u] = None
    /\ e \notin closed \cup Occupied
    /\ slot' = [slot EXCEPT ![u] = e]
    /\ UNCHANGED closed

Stop(u) ==
    /\ slot[u] # None
    /\ slot' = [slot EXCEPT ![u] = None]
    /\ closed' = closed \cup {slot[u]}

\* start with force=true: stopping and starting are one step
Switch(u, e) ==
    /\ slot[u] # None
    /\ e \notin closed \cup Occupied
    /\ slot' = [slot EXCEPT ![u] = e]
    /\ closed' = closed \cup {slot[u]}

\* an entry that was never timed
Record(e) ==
    /\ e \notin closed \cup Occupied
    /\ closed' = closed \cup {e}
    /\ UNCHANGED slot

Next ==
    \/ \E u \in Users, e \in Entries : Start(u, e) \/ Switch(u, e)
    \/ \E u \in Users : Stop(u)
    \/ \E e \in Entries : Record(e)

vars == <<slot, closed>>

Spec == Init /\ [][Next]_vars
==============================================================================
