------------------------------ MODULE Attendance ------------------------------
(***************************************************************************)
(* Attendance in one workspace: the two jobs of the scheduler, which run   *)
(* every minute inside the server process and lose their work when it      *)
(* stops, and the members' responses to the prompt.                        *)
(*                                                                         *)
(* A job reads, sends its pushes and commits in separate steps; so does a  *)
(* response.  Rows of attendance_notifications are counted by what the     *)
(* code tells apart: no constraint makes them unique.                      *)
(***************************************************************************)
EXTENDS Integers, FiniteSets

CONSTANTS
    Users, Role,     \* the members of the workspace
    MinutesPerDay,   \* 1440
    Window,          \* 5, the minutes of grace after work_start_time
    FirstDay,        \* date.weekday() of day 0: 0 is a Monday
    Settings,        \* the settings that are chosen
    Requests,        \* slots for responses in flight
    MaxDay, MaxRows, MaxMisses,   \* bounds
    None

ASSUME RoleAssumption == Role \in [Users -> {"admin", "manager", "member", "viewer"}]
ASSUME DayAssumption == MinutesPerDay \in Nat \ {0} /\ Window \in Nat
ASSUME BoundAssumption == MaxDay \in Nat /\ MaxRows \in Nat /\ MaxMisses \in Nat
ASSUME FirstAssumption == FirstDay \in 0..6
\* hours: daily_required_hours is set; off: off_days
ASSUME SettingsAssumption ==
    /\ Settings \subseteq [enabled : BOOLEAN, mode : {"fixed_schedule", "flexible_hours"},
                           start : 0..(MinutesPerDay - 1) \cup {None},
                           hours : BOOLEAN, off : SUBSET (0..6)]
    /\ None \notin 0..(MinutesPerDay - 1)

VARIABLES
    day, minute,     \* the clock in the workspace's time zone
    cfg,             \* the attendance columns of the workspaces row
    log,             \* log[u][d]: what time_entries say of a user and a day
    total,           \* attendance_notifications: how many rows of a key
    unread,          \* how many of the prompts to a member are not read yet
    job,             \* job[j]: the rows a running job has added, not committed
    todo,            \* the members whom the running job has still to push to
    up,              \* the server process runs
    req,             \* the responses in flight
    \* History, for CaughtUp only:
    done,            \* a work-start check of this minute was made and not lost
    missed,          \* minutes without one
    changed,         \* settings or the time zone were changed today
    active           \* users who had an entry today at some time

clock == <<day, minute>>
rows == <<total, unread>>
history == <<done, missed, changed, active>>
vars == <<clock, cfg, log, rows, job, todo, up, req, history>>

Days == 0..MaxDay
Minutes == 0..(MinutesPerDay - 1)
Jobs == {"f1", "f2"}
Prompts == {"work_start_missed", "flexible_reminder_missed"}
Kinds == Prompts \cup {"daily_hours_shortfall"}

\* notification_type, user_id, recipient_user_id, related_date
Keys == Kinds \X Users \X Users \X Days

\* the rows among them that a response looks for and marks as read
Own == Prompts \X Users \X Days

Recipients == {u \in Users : Role[u] \in {"admin", "manager"}}
Subjects == Users \ Recipients

\* No entry that day; entries without any time; less than the daily target;
\* the target reached.
Logged == {"none", "zero", "short", "full"}

\* seen: how many unread prompts the response has found
Request == [op : {"idle", "not_now", "start"}, by : Users \cup {None},
            kind : Kinds \cup {None}, day : Days, seen : Nat]

Idle == [op |-> "idle", by |-> None, kind |-> None, day |-> 0, seen |-> 0]

Init ==
    /\ day = 0 /\ minute = 0
    /\ cfg \in Settings
    /\ log = [u \in Users |-> [d \in Days |-> "none"]]
    /\ total = [k \in Keys |-> 0] /\ unread = [k \in Own |-> 0]
    /\ job = [j \in Jobs |-> {}] /\ todo = {}
    /\ up = TRUE
    /\ req = [r \in Requests |-> Idle]
    /\ done = FALSE /\ missed = 0 /\ changed = FALSE /\ active = {}

(***************************************************************************)
(* What the checks look at.                                                *)
(***************************************************************************)
\* weekday() counts from Monday, off_days from Sunday.
WeekdayOf(d) == (((FirstDay + d) % 7) + 1) % 7

\* An empty list means Sunday, as NULL does.
IsOffDay(d) == WeekdayOf(d) \in IF cfg.off = {} THEN {0} ELSE cfg.off

\* minutes since work_start_time, around midnight
Late == IF minute >= cfg.start THEN minute - cfg.start
                               ELSE minute - cfg.start + MinutesPerDay

\* mutant: the last minute of the window is left out
MutInWindow == Late < Window

InWindow == Late <= Window

PromptKind == IF cfg.mode = "fixed_schedule" THEN "work_start_missed"
                                             ELSE "flexible_reminder_missed"

\* mutant: looks for prompts that are not read yet
MutAlreadyNotified(u) ==
    unread[<<PromptKind, u, day>>] > 0

\* mutant: looks for the row of the member alone
MutOwnNotified(u) ==
    total[<<PromptKind, u, u, day>>] > 0

AlreadyNotified(u) ==
    \E r \in Users : total[<<PromptKind, u, r, day>>] > 0

\* fixed schedule: has an entry today; flexible hours: has logged time today
HasStarted(u) ==
    log[u][day] \notin IF cfg.mode = "fixed_schedule" THEN {"none"} ELSE {"none", "zero"}

(***************************************************************************)
(* The jobs.  A job starts every sixty seconds, one run at a time, and     *)
(* looks at the clock once the database has answered: a minute of the      *)
(* clock may see no run, one, or several.                                  *)
(***************************************************************************)
\* check_workspace_attendance up to its pushes
CheckWorkStart ==
    /\ up /\ job["f1"] = {}
    /\ LET due == IF cfg.enabled /\ cfg.start # None /\ ~IsOffDay(day) /\ InWindow
                  THEN {u \in Subjects : ~AlreadyNotified(u) /\ ~HasStarted(u)}
                  ELSE {} IN
       /\ job' = [job EXCEPT !["f1"] = {<<PromptKind, u, u, day>> : u \in due}]
       /\ todo' = due
    /\ done' = TRUE
    /\ UNCHANGED <<clock, cfg, log, rows, up, req, missed, changed, active>>

\* send_work_start_push, one member after the other, before the commit.  Nothing here
\* depends on whether the push is sent: without keys or subscriptions it is not, and
\* a failure is logged.
Push(u) ==
    /\ up /\ u \in todo
    /\ todo' = todo \ {u}
    /\ UNCHANGED <<clock, cfg, log, rows, job, up, req, history>>

MidnightJustPassed == minute = 0 /\ day > 0

\* check_daily_shortfall: yesterday of every member, to every admin and manager
CheckShortfall ==
    /\ up /\ job["f2"] = {}
    /\ job' = [job EXCEPT !["f2"] =
                 IF /\ MidnightJustPassed
                    /\ cfg.enabled /\ cfg.hours /\ ~IsOffDay(day - 1)
                 THEN {<<"daily_hours_shortfall", u, r, day - 1>> :
                         u \in {s \in Subjects : log[s][day - 1] # "full"},
                         r \in Recipients}
                 ELSE {}]
    /\ UNCHANGED <<clock, cfg, log, rows, todo, up, req, history>>

\* mutant: the job commits after each row
MutCommitJob(j) ==
    /\ up /\ (j = "f1" => todo = {})
    /\ j = "f2" => \A k \in job[j] : total[k] < MaxRows
    /\ \E row \in job[j] :
        /\ total' = [total EXCEPT ![row] = @ + 1]
        /\ unread' = [k \in Own |-> IF <<k[1], k[2], k[2], k[3]>> = row
                                    THEN unread[k] + 1 ELSE unread[k]]
        /\ job' = [job EXCEPT ![j] = job[j] \ {row}]
    /\ UNCHANGED <<clock, cfg, log, todo, up, req, history>>

CommitJob(j) ==
    /\ up /\ job[j] # {} /\ (j = "f1" => todo = {})
    /\ j = "f2" => \A k \in job[j] : total[k] < MaxRows
    /\ total' = [k \in Keys |-> IF k \in job[j] THEN total[k] + 1 ELSE total[k]]
    /\ unread' = [k \in Own |-> IF <<k[1], k[2], k[2], k[3]>> \in job[j]
                                THEN unread[k] + 1 ELSE unread[k]]
    /\ job' = [job EXCEPT ![j] = {}]
    /\ UNCHANGED <<clock, cfg, log, todo, up, req, history>>

\* A statement of the job fails: the exception is logged, the rows are lost and
\* the process goes on.
FailJob(j) ==
    /\ up /\ job[j] # {}
    /\ job' = [job EXCEPT ![j] = {}]
    /\ IF j = "f1" THEN todo' = {} /\ missed' = missed + 1
                   ELSE UNCHANGED <<todo, missed>>
    /\ missed' <= MaxMisses
    /\ UNCHANGED <<clock, cfg, log, rows, up, req, done, changed, active>>

(***************************************************************************)
(* Responses to the prompt, and reading notifications.                     *)
(***************************************************************************)
\* record_work_start_response looks for unread prompts of today.
ReadResponse(r, u, op) ==
    /\ up /\ req[r].op = "idle" /\ Role[u] = "member"
    /\ req' = [req EXCEPT ![r] =
                 [op |-> op, by |-> u, kind |-> PromptKind, day |-> day,
                  seen |-> unread[<<PromptKind, u, day>>]]]
    /\ UNCHANGED <<clock, cfg, log, rows, job, todo, up, history>>

\* Found prompts are marked as read, or else a row that is read already is
\* added for every admin and manager; "start" starts the timer as well.
CommitResponse(r) ==
    LET q == req[r]
        self == <<q.kind, q.by, q.day>>
        noted == IF q.seen > 0 THEN {} ELSE {<<q.kind, q.by, m, q.day>> : m \in Recipients} IN
    /\ up /\ q.op # "idle"
    /\ \A k \in noted : total[k] < MaxRows
    /\ unread' = [k \in Own |-> IF k # self THEN unread[k]
                                ELSE IF unread[k] > q.seen THEN unread[k] - q.seen ELSE 0]
    /\ total' = [k \in Keys |-> IF k \in noted THEN total[k] + 1 ELSE total[k]]
    /\ IF q.op = "start"
       THEN /\ log' = [log EXCEPT ![q.by][day] = IF @ = "none" THEN "zero" ELSE @]
            /\ active' = active \cup {q.by}
       ELSE UNCHANGED <<log, active>>
    /\ req' = [req EXCEPT ![r] = Idle]
    /\ UNCHANGED <<clock, cfg, job, todo, up, done, missed, changed>>

RollbackResponse(r) ==
    /\ req[r].op # "idle"
    /\ req' = [req EXCEPT ![r] = Idle]
    /\ UNCHANGED <<clock, cfg, log, rows, job, todo, up, history>>

\* mark_read; mark_all_read does it for every notification of the caller
MarkRead(k) ==
    /\ up /\ unread[k] > 0
    /\ unread' = [unread EXCEPT ![k] = unread[k] - 1]
    /\ UNCHANGED <<clock, cfg, log, total, job, todo, up, req, history>>

(***************************************************************************)
(* Settings, time entries, time, and the server process.                   *)
(***************************************************************************)
\* update_attendance_settings: a time or a target once set cannot be unset.
UpdateSettings(new) ==
    /\ up /\ new # cfg
    /\ cfg.start # None => new.start # None
    /\ cfg.hours => new.hours
    /\ cfg' = new
    /\ changed' = TRUE
    /\ UNCHANGED <<clock, log, rows, job, todo, up, req, done, missed, active>>

\* Timers and edits change what is logged for today or an earlier day.  The
\* checks look at nobody's entries but a subject's, and at yesterday's in the
\* first minute of a day only.
Log(u, d, what) ==
    /\ up /\ u \in Subjects /\ Role[u] # "viewer" /\ (d = day \/ (d = day - 1 /\ minute = 0))
    /\ log' = [log EXCEPT ![u][d] = what]
    /\ active' = IF d = day /\ what # "none" THEN active \cup {u} ELSE active
    /\ UNCHANGED <<clock, cfg, rows, job, todo, up, req, done, missed, changed>>

\* A minute passes, whether or not the jobs have run in it.
Tick ==
    /\ missed' = IF done THEN missed ELSE missed + 1
    /\ missed' <= MaxMisses
    /\ IF minute < MinutesPerDay - 1
       THEN /\ minute' = minute + 1
            /\ UNCHANGED <<day, changed, active>>
       ELSE /\ day < MaxDay
            /\ day' = day + 1 /\ minute' = 0
            /\ changed' = FALSE
            /\ active' = {u \in Users : log[u][day'] # "none"}
    /\ done' = FALSE
    /\ UNCHANGED <<cfg, log, rows, job, todo, up, req>>

\* update_workspace sets default_timezone: the clock of the workspace jumps, back or
\* forth by up to 26 hours, and entries fall on other days.
UpdateTimezone(d, m) ==
    /\ up /\ d \in (day - 2)..(day + 2) /\ <<d, m>> # clock
    /\ day' = d /\ minute' = m
    /\ \E moved \in [Subjects -> [Days -> Logged]] :
        log' = [u \in Users |-> IF u \in Subjects THEN moved[u] ELSE log[u]]
    /\ changed' = TRUE /\ done' = FALSE
    /\ active' = {u \in Users : log'[u][d] # "none"}
    /\ UNCHANGED <<cfg, rows, job, todo, up, req, missed>>

\* The process stops: whatever is not committed is lost, pushes are not.
Crash ==
    /\ up
    /\ missed' = IF job["f1"] = {} THEN missed ELSE missed + 1
    /\ missed' <= MaxMisses
    /\ up' = FALSE
    /\ job' = [j \in Jobs |-> {}] /\ todo' = {}
    /\ req' = [r \in Requests |-> Idle]
    /\ UNCHANGED <<clock, cfg, log, rows, done, changed, active>>

\* A new scheduler starts its jobs after their interval of a minute.
Restart ==
    /\ ~up
    /\ up' = TRUE
    /\ UNCHANGED <<clock, cfg, log, rows, job, todo, req, history>>

Next ==
    \/ CheckWorkStart
    \/ \E u \in Users : Push(u)
    \/ CheckShortfall
    \/ \E j \in Jobs : CommitJob(j) \/ FailJob(j)
    \/ \E r \in Requests, u \in Users, op \in {"not_now", "start"} : ReadResponse(r, u, op)
    \/ \E r \in Requests : CommitResponse(r) \/ RollbackResponse(r)
    \/ \E k \in Own : MarkRead(k)
    \/ \E new \in Settings : UpdateSettings(new)
    \/ \E u \in Users, d \in Days, what \in Logged : Log(u, d, what)
    \/ \E d \in Days, m \in Minutes : UpdateTimezone(d, m)
    \/ Tick \/ Crash \/ Restart

Spec == Init /\ [][Next]_vars

(***************************************************************************)
(* Properties.                                                             *)
(***************************************************************************)
TypeOK ==
    /\ day \in Days /\ minute \in Minutes /\ cfg \in Settings
    /\ log \in [Users -> [Days -> Logged]]
    /\ total \in [Keys -> Nat] /\ unread \in [Own -> Nat]
    /\ job \in [Jobs -> SUBSET Keys] /\ todo \subseteq Users
    /\ up \in BOOLEAN
    /\ req \in [Requests -> Request]
    /\ done \in BOOLEAN /\ missed \in Nat /\ changed \in BOOLEAN /\ active \subseteq Users

\* A member gets one prompt of a kind a day at most, whatever failures, crashes
\* and responses come between the job's check and its commit.
PromptOnce ==
    \A kind \in Prompts, u \in Users, d \in Days : total[<<kind, u, u, d>>] <= 1

\* The admins and managers are told alike of what a member did or did not do: a job
\* or an answer that stops halfway leaves no row for some of them only.
ToldAlike ==
    \A kind \in Kinds, u \in Users, d \in Days : \A r1, r2 \in Recipients :
        total[<<kind, u, r1, d>>] = total[<<kind, u, r2, d>>]

\* The window after work_start_time makes up for as many lost minutes: when it
\* is over, every member who has not logged anything today was notified, even
\* if the process was down or crashed in up to Window minutes before, as long as
\* nobody moves the clock or the settings that day.
CaughtUp ==
    /\ cfg.enabled /\ cfg.start # None /\ ~changed /\ ~IsOffDay(day)
    /\ minute > cfg.start + Window /\ missed <= Window
    => \A u \in Users : Role[u] = "member" /\ u \notin active =>
         \/ \E r \in Users : total[<<PromptKind, u, r, day>>] > 0
         \/ <<PromptKind, u, u, day>> \in job["f1"]

\* A prompt is the row of the member it is about; rows for the others cover it.
Subject(k) == <<k[1], k[2], k[2], k[3]>>

Board == INSTANCE PromptRows WITH
    Keys <- Own,
    note <- [k \in Own |-> IF total[Subject(k)] = 0 THEN "absent"
                           ELSE IF unread[k] > 0 THEN "unread" ELSE "read"],
    covered <- {k \in Own : \E r \in Users : r # k[2] /\ total[<<k[1], k[2], r, k[3]>>] > 0},
    deciding <- {k \in Own : Subject(k) \in job["f1"]}

\* The jobs, responses and marks, cut up by crashes and failures, make of the
\* rows what PromptRows says, on which the member's tab relies (see Notices).
RowsAreKept == Board!Spec

\* A prompt that was read or answered is never put again, by whatever job.
AnswerStands == Board!StaysSettled

(***************************************************************************)
(* What the documents say and the code does not do.                        *)
(***************************************************************************)
\* The comment in record_work_start_response: a response that finds no prompt
\* leaves a row that keeps the job from prompting later.
DismissedStays ==
    \A kind \in Prompts, u \in Users, r \in Recipients, d \in Days :
        total[<<kind, u, r, d>>] > 0 => unread[<<kind, u, d>>] = 0

\* The docstring of check_daily_shortfall_for_workspace: one notification per admin
\* and manager for a member's day.
ShortfallOnce ==
    \A u, r \in Users, d \in Days : total[<<"daily_hours_shortfall", u, r, d>>] <= 1
===============================================================================
