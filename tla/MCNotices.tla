------------------------------ MODULE MCNotices ------------------------------
(* Instances of Notices for TLC. *)
EXTENDS Notices
==============================================================================
