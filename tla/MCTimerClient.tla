---------------------------- MODULE MCTimerClient ----------------------------
(* Instances of TimerClient for TLC. *)
EXTENDS TimerClient, TLC

CONSTANTS e1, e2, e3, design, support

\* Two entries of one project and one of another.
MCOf == e1 :> design @@ e2 :> support @@ e3 :> design
==============================================================================
