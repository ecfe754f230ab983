----------------------------- MODULE MCAttendance -----------------------------
(* Instances of Attendance for TLC. *)
EXTENDS Attendance, TLC

CONSTANTS ann, mia, max, vic

\* ann administers the workspace, mia manages it, max is a member, vic only looks.
MCRole == ann :> "admin" @@ max :> "member" @@ vic :> "viewer"
PairRole == ann :> "admin" @@ max :> "member"
TeamRole == ann :> "admin" @@ mia :> "manager" @@ max :> "member"

Fixed == [enabled |-> TRUE, mode |-> "fixed_schedule", start |-> 1,
          hours |-> TRUE, off |-> {0}]

\* Settings that the prompts depend on: before the first time is set, both
\* modes, a window that goes on after midnight, and switched off.
PromptSettings == {Fixed, [Fixed EXCEPT !.mode = "flexible_hours"],
                   [Fixed EXCEPT !.start = None],
                   [Fixed EXCEPT !.start = MinutesPerDay - 1], [Fixed EXCEPT !.enabled = FALSE]}

\* Settings that the end of a day depends on: no target, a target, and the
\* first day off.
TargetSettings == {[Fixed EXCEPT !.hours = FALSE], Fixed, [Fixed EXCEPT !.off = {2}]}
===============================================================================
