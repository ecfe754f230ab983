---------------------------- MODULE ReviewContract ----------------------------
(***************************************************************************)
(* What submitting and reviewing promise: a submission takes free entries  *)
(* as a whole, is decided once, and the decision reaches all its entries   *)
(* in the same instant.  There are no requests here, only their effects.   *)
(***************************************************************************)
CONSTANTS Entries, Subs, None

VARIABLES
    hold,      \* hold[e]: free to edit, submitted, or approved
    carrier,   \* carrier[e]: the last submission of e, or None
    verdict    \* verdict[s]: none yet, pending, approved or rejected

Holds == {"free", "submitted", "approved"}

CarriedBy(s) == {e \in Entries : carrier[e] = s}

Init ==
    /\ hold = [e \in Entries |-> "free"]
    /\ carrier = [e \in Entries |-> None]
    /\ verdict = [s \in Subs |-> "unused"]

Submit(s, taken) ==
    /\ taken # {} /\ verdict[s] = "unused"
    /\ \A e \in taken : hold[e] = "free"
    /\ verdict' = [verdict EXCEPT ![s] = "pending"]
    /\ hold' = [e \in Entries |-> IF e \in taken THEN "submitted" ELSE hold[e]]
    /\ carrier' = [e \in Entries |-> IF e \in taken THEN s ELSE carrier[e]]

\* the bulk endpoint holds entries without a submission
Hold(taken) ==
    /\ \A e \in taken : hold[e] = "free"
    /\ hold' = [e \in Entries |-> IF e \in taken THEN "submitted" ELSE hold[e]]
    /\ UNCHANGED <<carrier, verdict>>

Decide(s, v, result) ==
    /\ verdict[s] = "pending"
    /\ verdict' = [verdict EXCEPT ![s] = v]
    /\ hold' = [e \in Entries |-> IF e \in CarriedBy(s) THEN result ELSE hold[e]]
    /\ UNCHANGED carrier

\* a deleted entry is carried by nothing and holds nothing back
Discard(e) ==
    /\ hold' = [hold EXCEPT ![e] = "free"]
    /\ carrier' = [carrier EXCEPT ![e] = None]
    /\ UNCHANGED verdict

Next ==
    \/ \E s \in Subs, taken \in SUBSET Entries : Submit(s, taken)
    \/ \E taken \in SUBSET Entries : Hold(taken)
    \/ \E s \in Subs : Decide(s, "approved", "approved") \/ Decide(s, "rejected", "free")
    \/ \E e \in Entries : Discard(e)

vars == <<hold, carrier, verdict>>

Spec == Init /\ [][Next]_vars
==============================================================================
