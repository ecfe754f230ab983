------------------------------ MODULE MCWorklog ------------------------------
(* Instances of Worklog for TLC. *)
EXTENDS Worklog, TLC

CONSTANTS design, support, draw, answer

\* One task per project.
MCProjectOf == draw :> design @@ answer :> support

OneProjectOf == draw :> design
NoTask == [t \in {} |-> design]

Down == [mode |-> "down", interval |-> 2]
Up == [mode |-> "up", interval |-> 3]
TwoRules == {Down, Up}
OneRule == {[mode |-> "none", interval |-> 0]}

Symmetry == Permutations(Entries) \cup Permutations(Requests)
=============================================================================
