------------------------------- MODULE MCAccess -------------------------------
(* Instances of Access for TLC. *)
EXTENDS Access, TLC

CONSTANTS ann, ben, bob, annMail, bMail

\* ben and bob are two accounts of one person, who registers again with the
\* same address after deleting the first.
MCEmail == ann :> annMail @@ ben :> bMail @@ bob :> bMail

Symmetry == Permutations(Invites) \cup Permutations(Requests)
===============================================================================
