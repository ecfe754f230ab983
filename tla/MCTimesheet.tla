----------------------------- MODULE MCTimesheet -----------------------------
(* Instances of Timesheet for TLC. *)
EXTENDS Timesheet, TLC

CONSTANTS alice, boss

\* alice logs time as a member, boss administers the workspace.
MCRole == alice :> "member" @@ boss :> "admin"

Symmetry == Permutations(Entries) \cup Permutations(Subs)
                \cup Permutations(Requests) \cup Permutations(Bodies)
==============================================================================
