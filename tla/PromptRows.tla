------------------------------ MODULE PromptRows ------------------------------
(***************************************************************************)
(* What the back end promises about the prompts to start work.  A key is a *)
(* member, a day and a kind of prompt; it has one row for the member, and  *)
(* is covered once rows for the managers say that the member answered      *)
(* before there was one.  Requests, their interleaving, crashes, and the   *)
(* clock are not visible here: Attendance implements this, and Notices     *)
(* builds on it.                                                           *)
(***************************************************************************)
CONSTANT Keys

VARIABLES
    note,      \* note[k]: the row for the member is absent, unread or read
    covered,   \* keys that were answered without it
    deciding   \* keys that the job prompts once it commits

vars == <<note, covered, deciding>>

TypeOK ==
    /\ note \in [Keys -> {"absent", "unread", "read"}]
    /\ covered \subseteq Keys /\ deciding \subseteq Keys

Init == note = [k \in Keys |-> "absent"] /\ covered = {} /\ deciding = {}

Notified(k) == note[k] # "absent" \/ k \in covered

\* The job finds nobody notified ...
Decide(ks) ==
    /\ deciding = {} /\ \A k \in ks : ~Notified(k)
    /\ deciding' = ks
    /\ UNCHANGED <<note, covered>>

\* ... and commits, whatever was answered meanwhile, or its work is lost.
Commit ==
    /\ deciding # {}
    /\ note' = [k \in Keys |-> IF k \in deciding THEN "unread" ELSE note[k]]
    /\ deciding' = {}
    /\ UNCHANGED covered

GiveUp ==
    /\ deciding # {} /\ deciding' = {}
    /\ UNCHANGED <<note, covered>>

\* What is unread is marked, by an answer or from the list.
Read(ks) ==
    /\ note' = [k \in Keys |-> IF k \in ks /\ note[k] = "unread" THEN "read" ELSE note[k]]
    /\ UNCHANGED <<covered, deciding>>

\* An answer that found nothing unread.
Cover(ks) ==
    /\ covered' = covered \cup ks
    /\ UNCHANGED <<note, deciding>>

Next == (\E ks \in SUBSET Keys : Decide(ks) \/ Read(ks) \/ Cover(ks)) \/ Commit \/ GiveUp

Spec == Init /\ [][Next]_vars

\* Prompted and read, or answered before, with no check under way.
Settled(k) == Notified(k) /\ note[k] # "unread" /\ k \notin deciding

\* What is settled is never asked again.
StaysSettled == [][\A k \in Keys : Settled(k) => Settled(k)']_vars
==============================================================================
