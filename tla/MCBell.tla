------------------------------- MODULE MCBell -------------------------------
(* Instances of Bell for TLC. *)
EXTENDS Bell, TLC

\* Ids of one table, and slots, are interchangeable.
Symmetry == Permutations(Regular) \cup Permutations(Calls)
==============================================================================
