------------------------------ MODULE Timesheet ------------------------------
(***************************************************************************)
(* Time entries, the running timer and the approval workflow of one        *)
(* workspace, as concurrent HTTP requests on PostgreSQL.                   *)
(*                                                                         *)
(* core/database.py gives every request one session and one transaction    *)
(* at READ COMMITTED, with no SELECT ... FOR UPDATE and no version column. *)
(* A request therefore has a read step, which checks the handler's guards  *)
(* on committed rows and remembers what it read, and a later commit step,  *)
(* which writes the changed columns WHERE id = ... whatever the rows have  *)
(* become.  Between the two only unique indexes, CHECKs, foreign keys and  *)
(* row locks protect the data.  A review holds the row lock of its         *)
(* submission for its last two steps.                                      *)
(*                                                                         *)
(* With a single element in Requests the requests run one after another.   *)
(***************************************************************************)
EXTENDS Integers, FiniteSets

CONSTANTS
    Users,        \* the members of the workspace
    Role,         \* Role[u]: workspace_members.role
    Entries,      \* ids of time_entries rows, never reused
    Subs,         \* ids of timesheet_submissions rows, never reused
    Requests,     \* slots for requests in flight
    Bodies,       \* the content of an entry other than its start
    None,         \* NULL
    MaxDay,       \* bound on the days that are modelled
    DaysPerWeek,  \* length of a timesheet week
    LockDays,     \* workspace.lock_period_days, 0 = off
    PastLimit     \* workspace.past_entry_limit_days, 0 = off

Roles == {"admin", "manager", "member", "viewer"}

ASSUME RoleAssumption == Role \in [Users -> Roles]
ASSUME NoneAssumption == None \notin Users \cup Entries \cup Subs \cup Bodies
ASSUME DayAssumption == MaxDay \in Nat /\ DaysPerWeek \in Nat \ {0}
ASSUME LimitAssumption == LockDays \in Nat /\ PastLimit \in Nat

Days == 0..MaxDay
WeekOf(d) == d \div DaysPerWeek
Weeks == {WeekOf(d) : d \in Days}

VARIABLES
    status,      \* time_entries.status; "unused" before the INSERT
    owner,       \* time_entries.user_id
    day,         \* the day of time_entries.start_time
    body,        \* every other editable column, end and duration included
    link,        \* submission_entries: the submission of an entry
    subStatus,   \* timesheet_submissions.status
    subUser,     \* timesheet_submissions.user_id
    subWeek,     \* timesheet_submissions.week_start
    wfEnabled,   \* workspaces.approval_workflow_enabled
    today,
    req          \* the requests in flight, with their local variables

entryVars == <<status, owner, day, body>>
subVars   == <<subStatus, subUser, subWeek>>
vars      == <<entryVars, link, subVars, wfEnabled, today, req>>

EntryStatus == {"unused", "running", "draft", "pending", "approved", "deleted"}
SubStatus   == {"unused", "pending", "approved", "rejected"}
Ops == {"idle", "start", "continue", "stop", "update", "delete", "bulk",
        "submit", "approve", "reject", "approving", "rejecting"}

\* by: the caller; src: the entry a continue copies; entry: the row it loaded
\* to write; set: the rows of a bulk write; sub, week: of a submission;
\* day, body: the values to write.
Request == [op : Ops, by : Users \cup {None}, src : Entries \cup {None},
            entry : Entries \cup {None}, set : SUBSET Entries,
            sub : Subs \cup {None}, week : Weeks, day : Days,
            body : Bodies \cup {None}]

Idle == [op |-> "idle", by |-> None, src |-> None, entry |-> None, set |-> {},
         sub |-> None, week |-> WeekOf(0), day |-> 0, body |-> None]

Exists(e) == status[e] \notin {"unused", "deleted"}

Begin(r, q) == req[r].op = "idle" /\ req' = [req EXCEPT ![r] = q]
Finish(r) == req' = [req EXCEPT ![r] = Idle]

(***************************************************************************)
(* Guards and queries shared by the handlers.                              *)
(***************************************************************************)
\* require_role("admin", "manager", "member")
MayLog(u) == Role[u] # "viewer"

\* if caller_role == "member" and entry.user_id != user_id: 403
MayTouch(u, e) == Role[u] = "member" => owner[e] = u

\* mutant: pending entries are not locked
MutLocked(e, role) ==
    /\ role # "admin"
    /\ \/ status[e] = "approved"
       \/ LockDays > 0 /\ day[e] < today - LockDays

\* _check_lock
Locked(e, role) ==
    /\ role # "admin"
    /\ \/ status[e] \in {"pending", "approved"}
       \/ LockDays > 0 /\ day[e] < today - LockDays

\* _get_running_timer
RunningOf(u) == {e \in Entries : status[e] = "running" /\ owner[e] = u}

\* _check_workflow_enabled, and submission.status == "pending"
ReviewAllowed(s) == wfEnabled /\ subStatus[s] = "pending"

PendingOf(u, w) ==
    {s \in Subs : subStatus[s] = "pending" /\ subUser[s] = u /\ subWeek[s] = w}

\* mutant: a week takes everything that is not approved
MutDraftsOf(u, w) ==
    {e \in Entries : /\ Exists(e) /\ status[e] # "approved"
                     /\ owner[e] = u /\ WeekOf(day[e]) = w}

DraftsOf(u, w) ==
    {e \in Entries : status[e] = "draft" /\ owner[e] = u /\ WeekOf(day[e]) = w}

Init ==
    /\ status = [e \in Entries |-> "unused"]
    /\ owner = [e \in Entries |-> None]
    /\ day = [e \in Entries |-> 0]
    /\ body = [e \in Entries |-> None]
    /\ link = [e \in Entries |-> None]
    /\ subStatus = [s \in Subs |-> "unused"]
    /\ subUser = [s \in Subs |-> None]
    /\ subWeek = [s \in Subs |-> WeekOf(0)]
    /\ wfEnabled \in BOOLEAN
    /\ today = 0
    /\ req = [r \in Requests |-> Idle]

(***************************************************************************)
(* The timer.  start and continue share their second half: stop the timer  *)
(* that was found running, if any, and insert the new one.                 *)
(***************************************************************************)
ReadStart(r, u, force, b) ==
    /\ MayLog(u)
    /\ RunningOf(u) # {} => force
    /\ \E x \in IF RunningOf(u) = {} THEN {None} ELSE RunningOf(u) :
          Begin(r, [Idle EXCEPT !.op = "start", !.by = u, !.entry = x,
                                !.body = b])
    /\ UNCHANGED <<entryVars, link, subVars, wfEnabled, today>>

ReadContinue(r, u, src, force) ==
    /\ MayLog(u) /\ Exists(src) /\ MayTouch(u, src)
    /\ status[src] # "pending"
    /\ RunningOf(u) # {} => force
    /\ \E x \in IF RunningOf(u) = {} THEN {None} ELSE RunningOf(u) :
          Begin(r, [Idle EXCEPT !.op = "continue", !.by = u, !.src = src,
                                !.entry = x, !.body = body[src]])
    /\ UNCHANGED <<entryVars, link, subVars, wfEnabled, today>>

\* uq_time_entries_one_running, once entry x of the request is stopped
OneRunningIndex(u, x) == RunningOf(u) \ {x} = {}

\* mutant: continue resumes its source row instead of inserting a new one
MutCommitStart(r, new, endBody) ==
    LET q == req[r]
        target == IF q.op = "continue" THEN q.src ELSE new IN
    /\ q.op \in {"start", "continue"}
    /\ q.entry # None => Exists(q.entry)
    /\ OneRunningIndex(q.by, q.entry)
    /\ q.op = "start" => status[new] = "unused"
    /\ status' = [e \in Entries |-> IF e = target THEN "running"
                                    ELSE IF e = q.entry THEN "draft"
                                    ELSE status[e]]
    /\ body' = [body EXCEPT ![target] = q.body]
    /\ owner' = [owner EXCEPT ![target] = q.by]
    /\ day' = [day EXCEPT ![target] = today]
    /\ Finish(r)
    /\ UNCHANGED <<link, subVars, wfEnabled, today>>

\* The stopped row gets its end and duration (endBody), the new one its start.
CommitStart(r, new, endBody) ==
    LET q == req[r] IN
    /\ q.op \in {"start", "continue"}
    /\ q.entry # None => Exists(q.entry)
    /\ OneRunningIndex(q.by, q.entry)
    /\ status[new] = "unused"
    /\ status' = [e \in Entries |-> IF e = new THEN "running"
                                    ELSE IF e = q.entry THEN "draft"
                                    ELSE status[e]]
    /\ body' = [e \in Entries |-> IF e = new THEN q.body
                                  ELSE IF e = q.entry THEN endBody
                                  ELSE body[e]]
    /\ owner' = [owner EXCEPT ![new] = q.by]
    /\ day' = [day EXCEPT ![new] = today]
    /\ Finish(r)
    /\ UNCHANGED <<link, subVars, wfEnabled, today>>

ReadStop(r, u, e, b) ==
    /\ status[e] = "running" /\ MayTouch(u, e)
    /\ Begin(r, [Idle EXCEPT !.op = "stop", !.by = u, !.entry = e, !.body = b])
    /\ UNCHANGED <<entryVars, link, subVars, wfEnabled, today>>

\* mutant: the row is written back even if it was deleted meanwhile
MutCommitStop(r) ==
    LET q == req[r] IN
    /\ q.op = "stop"
    /\ status' = [status EXCEPT ![q.entry] = "draft"]
    /\ body' = [body EXCEPT ![q.entry] = q.body]
    /\ Finish(r)
    /\ UNCHANGED <<owner, day, link, subVars, wfEnabled, today>>

CommitStop(r) ==
    LET q == req[r] IN
    /\ q.op = "stop" /\ Exists(q.entry)
    /\ status' = [status EXCEPT ![q.entry] = "draft"]
    /\ body' = [body EXCEPT ![q.entry] = q.body]
    /\ Finish(r)
    /\ UNCHANGED <<owner, day, link, subVars, wfEnabled, today>>

(***************************************************************************)
(* Manual and duplicated entries.  Neither writes a row it has read, so    *)
(* the read and the insert are one step.                                   *)
(***************************************************************************)
InsertDraft(new, u, d, b) ==
    /\ status[new] = "unused"
    /\ status' = [status EXCEPT ![new] = "draft"]
    /\ owner' = [owner EXCEPT ![new] = u]
    /\ day' = [day EXCEPT ![new] = d]
    /\ body' = [body EXCEPT ![new] = b]
    /\ UNCHANGED <<link, subVars, wfEnabled, today, req>>

CreateManual(u, new, d, b) ==
    /\ MayLog(u)
    /\ PastLimit > 0 => d >= today - PastLimit
    /\ InsertDraft(new, u, d, b)

\* A running source has no duration: its copy would end when it starts, and
\* chk_te_end_after_start refuses it.
Duplicate(u, src, new) ==
    /\ MayLog(u) /\ Exists(src) /\ MayTouch(u, src)
    /\ status[src] \notin {"pending", "running"}
    /\ InsertDraft(new, u, today, body[src])

(***************************************************************************)
(* Editing and deleting.                                                   *)
(***************************************************************************)
ReadUpdate(r, u, e, d, b) ==
    /\ Exists(e) /\ MayTouch(u, e) /\ ~Locked(e, Role[u])
    /\ Begin(r, [Idle EXCEPT !.op = "update", !.by = u, !.entry = e,
                             !.day = d, !.body = b])
    /\ UNCHANGED <<entryVars, link, subVars, wfEnabled, today>>

\* The UPDATE always sets duration_seconds of a row read as running, which
\* chk_te_running_no_end refuses while the row still runs.
UpdateAccepted(e) == Exists(e) /\ status[e] # "running"

CommitUpdate(r) ==
    LET q == req[r] IN
    /\ q.op = "update" /\ UpdateAccepted(q.entry)
    /\ day' = [day EXCEPT ![q.entry] = q.day]
    /\ body' = [body EXCEPT ![q.entry] = q.body]
    /\ Finish(r)
    /\ UNCHANGED <<status, owner, link, subVars, wfEnabled, today>>

ReadDelete(r, u, e) ==
    /\ Exists(e) /\ MayTouch(u, e) /\ ~Locked(e, Role[u])
    /\ Begin(r, [Idle EXCEPT !.op = "delete", !.by = u, !.entry = e])
    /\ UNCHANGED <<entryVars, link, subVars, wfEnabled, today>>

\* mutant: no ON DELETE CASCADE on submission_entries.time_entry_id
MutCommitDelete(r) ==
    LET q == req[r] IN
    /\ q.op = "delete"
    /\ status' = [status EXCEPT ![q.entry] = "deleted"]
    /\ Finish(r)
    /\ UNCHANGED <<owner, day, body, link, subVars, wfEnabled, today>>

\* Deleting a row that is gone already is only a warning; the foreign key
\* takes the submission_entries row along.
CommitDelete(r) ==
    LET q == req[r] IN
    /\ q.op = "delete"
    /\ status' = [status EXCEPT ![q.entry] = "deleted"]
    /\ link' = [link EXCEPT ![q.entry] = None]
    /\ Finish(r)
    /\ UNCHANGED <<owner, day, body, subVars, wfEnabled, today>>

(***************************************************************************)
(* The two ways to submit: POST /time-entries/submit on chosen entries,    *)
(* and POST /approvals/submit on a week.                                   *)
(***************************************************************************)
ReadBulk(r, u, chosen) ==
    LET drafts == {e \in chosen : status[e] = "draft" /\ MayTouch(u, e)} IN
    /\ MayLog(u) /\ drafts # {}
    /\ Begin(r, [Idle EXCEPT !.op = "bulk", !.by = u, !.set = drafts])
    /\ UNCHANGED <<entryVars, link, subVars, wfEnabled, today>>

CommitBulk(r) ==
    LET q == req[r] IN
    /\ q.op = "bulk" /\ \A e \in q.set : Exists(e)
    /\ status' = [e \in Entries |-> IF e \in q.set THEN "pending" ELSE status[e]]
    /\ Finish(r)
    /\ UNCHANGED <<owner, day, body, link, subVars, wfEnabled, today>>

ReadSubmit(r, u, w) ==
    /\ MayLog(u) /\ wfEnabled
    /\ PendingOf(u, w) = {}
    /\ DraftsOf(u, w) # {}
    /\ Begin(r, [Idle EXCEPT !.op = "submit", !.by = u, !.week = w,
                             !.set = DraftsOf(u, w)])
    /\ UNCHANGED <<entryVars, link, subVars, wfEnabled, today>>

\* mutant: the partial unique index is missing
MutOnePendingIndex(u, w) == TRUE

\* uq_timesheet_submissions_one_pending
OnePendingIndex(u, w) == PendingOf(u, w) = {}

\* mutant: a rejected submission is reused for the resubmitted week
MutCommitSubmit(r, s) ==
    LET q == req[r] IN
    /\ q.op = "submit" /\ \A e \in q.set : Exists(e)
    /\ OnePendingIndex(q.by, q.week)
    /\ \/ subStatus[s] = "unused"
       \/ subStatus[s] = "rejected" /\ subUser[s] = q.by /\ subWeek[s] = q.week
    /\ subStatus' = [subStatus EXCEPT ![s] = "pending"]
    /\ subUser' = [subUser EXCEPT ![s] = q.by]
    /\ subWeek' = [subWeek EXCEPT ![s] = q.week]
    /\ status' = [e \in Entries |-> IF e \in q.set THEN "pending" ELSE status[e]]
    /\ link' = [e \in Entries |-> IF e \in q.set THEN s ELSE link[e]]
    /\ Finish(r)
    /\ UNCHANGED <<owner, day, body, wfEnabled, today>>

\* The old submission_entries rows of the entries are deleted first.
CommitSubmit(r, s) ==
    LET q == req[r] IN
    /\ q.op = "submit" /\ \A e \in q.set : Exists(e)
    /\ OnePendingIndex(q.by, q.week)
    /\ subStatus[s] = "unused"
    /\ subStatus' = [subStatus EXCEPT ![s] = "pending"]
    /\ subUser' = [subUser EXCEPT ![s] = q.by]
    /\ subWeek' = [subWeek EXCEPT ![s] = q.week]
    /\ status' = [e \in Entries |-> IF e \in q.set THEN "pending" ELSE status[e]]
    /\ link' = [e \in Entries |-> IF e \in q.set THEN s ELSE link[e]]
    /\ Finish(r)
    /\ UNCHANGED <<owner, day, body, wfEnabled, today>>

(***************************************************************************)
(* Reviews: read the submission, then update it (which waits for the row   *)
(* lock) and select its entries, then write the entries and commit.        *)
(***************************************************************************)
ReadReview(r, u, s, op) ==
    /\ Role[u] \in {"admin", "manager"}
    /\ op \in {"approve", "reject"}
    /\ ReviewAllowed(s)
    /\ Begin(r, [Idle EXCEPT !.op = op, !.by = u, !.sub = s])
    /\ UNCHANGED <<entryVars, link, subVars, wfEnabled, today>>

Claimed(s) == \E r \in Requests : /\ req[r].op \in {"approving", "rejecting"}
                                  /\ req[r].sub = s

\* mutant: the entries of a review are found by user and week
MutClaimReview(r, op, doing, new) ==
    LET q == req[r] IN
    /\ q.op = op /\ ~Claimed(q.sub)
    /\ req' = [req EXCEPT ![r].op = doing,
                          ![r].set = {e \in Entries :
                                        /\ status[e] = "pending"
                                        /\ owner[e] = subUser[q.sub]
                                        /\ WeekOf(day[e]) = subWeek[q.sub]}]
    /\ UNCHANGED <<entryVars, link, subVars, wfEnabled, today>>

\* Entries that have the new status already are not written again.
ClaimReview(r, op, doing, new) ==
    LET q == req[r] IN
    /\ q.op = op /\ ~Claimed(q.sub)
    /\ req' = [req EXCEPT ![r].op = doing,
                          ![r].set = {e \in Entries : /\ link[e] = q.sub
                                                      /\ status[e] # new}]
    /\ UNCHANGED <<entryVars, link, subVars, wfEnabled, today>>

CommitReview(r, doing, verdict, new) ==
    LET q == req[r] IN
    /\ q.op = doing /\ \A e \in q.set : Exists(e)
    /\ subStatus' = [subStatus EXCEPT ![q.sub] = verdict]
    /\ status' = [e \in Entries |-> IF e \in q.set THEN new ELSE status[e]]
    /\ Finish(r)
    /\ UNCHANGED <<owner, day, body, link, subUser, subWeek, wfEnabled, today>>

ClaimApprove(r)  == ClaimReview(r, "approve", "approving", "approved")
CommitApprove(r) == CommitReview(r, "approving", "approved", "approved")
ClaimReject(r)   == ClaimReview(r, "reject", "rejecting", "draft")
CommitReject(r)  == CommitReview(r, "rejecting", "rejected", "draft")

(***************************************************************************)
(* Everything else that moves.                                             *)
(***************************************************************************)
\* get_db rolls back on any exception: a CHECK, a unique index, a row that is
\* gone (StaleDataError), a deadlock, a lost connection.
Rollback(r) ==
    /\ req[r].op # "idle"
    /\ Finish(r)
    /\ UNCHANGED <<entryVars, link, subVars, wfEnabled, today>>

\* mutant: disabling the workflow reopens the pending entries
MutToggleWorkflow ==
    /\ wfEnabled' = ~wfEnabled
    /\ status' = [e \in Entries |-> IF wfEnabled /\ status[e] = "pending"
                                    THEN "draft" ELSE status[e]]
    /\ UNCHANGED <<owner, day, body, link, subVars, today, req>>

\* update_workspace; handle_workflow_disabled does nothing.
ToggleWorkflow ==
    /\ wfEnabled' = ~wfEnabled
    /\ UNCHANGED <<entryVars, link, subVars, today, req>>

NextDay ==
    /\ today < MaxDay
    /\ today' = today + 1
    /\ UNCHANGED <<entryVars, link, subVars, wfEnabled, req>>

Read(r, u) ==
    \/ \E force \in BOOLEAN, b \in Bodies : ReadStart(r, u, force, b)
    \/ \E e \in Entries, force \in BOOLEAN : ReadContinue(r, u, e, force)
    \/ \E e \in Entries, b \in Bodies : ReadStop(r, u, e, b)
    \/ \E e \in Entries, d \in Days, b \in Bodies : ReadUpdate(r, u, e, d, b)
    \/ \E e \in Entries : ReadDelete(r, u, e)
    \/ \E chosen \in SUBSET Entries : ReadBulk(r, u, chosen)
    \/ \E w \in Weeks : ReadSubmit(r, u, w)
    \/ \E s \in Subs, op \in {"approve", "reject"} : ReadReview(r, u, s, op)

Commit(r) ==
    \/ \E new \in Entries, b \in Bodies : CommitStart(r, new, b)
    \/ CommitStop(r)
    \/ CommitUpdate(r)
    \/ CommitDelete(r)
    \/ CommitBulk(r)
    \/ \E s \in Subs : CommitSubmit(r, s)
    \/ CommitApprove(r)
    \/ CommitReject(r)

Next ==
    \/ \E r \in Requests, u \in Users : Read(r, u)
    \/ \E r \in Requests : Commit(r) \/ ClaimApprove(r) \/ ClaimReject(r)
                                     \/ Rollback(r)
    \/ \E u \in Users, e \in Entries, d \in Days, b \in Bodies :
          CreateManual(u, e, d, b)
    \/ \E u \in Users, src, new \in Entries : Duplicate(u, src, new)
    \/ ToggleWorkflow
    \/ NextDay

Spec == Init /\ [][Next]_vars

(***************************************************************************)
(* Properties that hold however many requests are in flight.               *)
(***************************************************************************)
TypeOK ==
    /\ status \in [Entries -> EntryStatus]
    /\ owner \in [Entries -> Users \cup {None}]
    /\ day \in [Entries -> Days]
    /\ body \in [Entries -> Bodies \cup {None}]
    /\ link \in [Entries -> Subs \cup {None}]
    /\ subStatus \in [Subs -> SubStatus]
    /\ subUser \in [Subs -> Users \cup {None}]
    /\ subWeek \in [Subs -> Weeks]
    /\ wfEnabled \in BOOLEAN
    /\ today \in Days
    /\ req \in [Requests -> Request]

\* A user never has two running timers, although start, continue and stop
\* check for one and act on the answer in different steps.
OneRunning ==
    \A d, e \in Entries :
        status[d] = "running" /\ status[e] = "running" /\ owner[d] = owner[e]
            => d = e

\* A week of a user is under review at most once.
OnePending ==
    \A s, t \in Subs :
        /\ subStatus[s] = "pending" /\ subStatus[t] = "pending"
        /\ subUser[s] = subUser[t] /\ subWeek[s] = subWeek[t]
        => s = t

\* What a submission carries: entries of its own user, none of them running
\* and none of them deleted, in a submission that exists.
LinkSound ==
    \A e \in Entries : link[e] # None =>
        /\ status[e] \in {"draft", "pending", "approved"}
        /\ subStatus[link[e]] # "unused"
        /\ subUser[link[e]] = owner[e]

\* No request approves an entry that was never submitted for a week: an
\* approved entry always has its submission.
ApprovedWasSubmitted ==
    \A e \in Entries : status[e] = "approved" => link[e] # None

\* What a request still knows when it writes, however stale its reads are:
\* a timer it will stop belongs to its caller, rows it read as stopped have
\* not started again, a week it submits has entries of its user only, and the
\* entries of a review it holds the lock of still have a submission.
RequestSound(r) ==
    LET q == req[r] IN
    /\ q.op \in {"start", "continue"} =>
          /\ q.by \in Users
          /\ q.entry # None => status[q.entry] # "unused" /\ owner[q.entry] = q.by
    /\ q.op \in {"stop", "update", "delete"} =>
          q.entry \in Entries /\ status[q.entry] # "unused"
    /\ \A e \in q.set : status[e] \notin {"unused", "running"}
    /\ q.op = "submit" => q.by \in Users /\ \A e \in q.set : owner[e] = q.by
    /\ q.op \in {"approve", "reject", "approving", "rejecting"} =>
          q.sub \in Subs /\ subStatus[q.sub] # "unused"
    /\ q.op \in {"approving", "rejecting"} =>
          \A e \in q.set : Exists(e) => link[e] # None

RequestsSound == \A r \in Requests : RequestSound(r)

\* A stopped timer stays stopped: no stale request makes an entry run again
\* or brings a deleted one back.
NeverRunsAgain ==
    [][\A e \in Entries :
          /\ status'[e] = "running" => status[e] \in {"unused", "running"}
          /\ status[e] = "deleted" => status'[e] = "deleted"]_vars

\* A reviewed submission never becomes reviewable again.
NeverReopened ==
    [][\A s \in Subs : subStatus[s] \in {"approved", "rejected"}
                         => subStatus'[s] \in {"approved", "rejected"}]_vars

(***************************************************************************)
(* Properties of requests that run one after another.                      *)
(***************************************************************************)
\* A submission and its entries are reviewed together: while it is pending so
\* are they, and the verdict is theirs too.
ReviewedTogether ==
    \A e \in Entries : link[e] # None =>
        /\ subStatus[link[e]] = "pending"  => status[e] = "pending"
        /\ subStatus[link[e]] = "approved" => status[e] = "approved"
        /\ subStatus[link[e]] = "rejected" => status[e] \in {"draft", "pending"}

\* The content of a submitted entry changes, and the entry disappears, only
\* by the request of an admin.
SubmittedUntouched ==
    [][\A e \in Entries :
          /\ status[e] \in {"pending", "approved"}
          /\ <<day[e], body[e]>>' # <<day[e], body[e]>> \/ status'[e] = "deleted"
          => \E r \in Requests : /\ req[r].op \in {"update", "delete"}
                                 /\ req[r].entry = e
                                 /\ Role[req[r].by] = "admin"
                                 /\ req'[r] = Idle]_vars

(***************************************************************************)
(* The abstract specifications.                                            *)
(***************************************************************************)
SlotOf(u) == IF RunningOf(u) = {} THEN None ELSE CHOOSE e \in RunningOf(u) : TRUE

Slots == INSTANCE TimerSlot WITH
    slot <- [u \in Users |-> SlotOf(u)],
    closed <- {e \in Entries : status[e] \notin {"unused", "running"}}

HoldOf(e) == CASE status[e] = "pending"  -> "submitted"
               [] status[e] = "approved" -> "approved"
               [] OTHER                  -> "free"

Contract == INSTANCE ReviewContract WITH
    hold <- [e \in Entries |-> HoldOf(e)],
    carrier <- link,
    verdict <- subStatus

\* Concurrent start, continue, stop and delete requests are seen as atomic
\* changes of one slot per user: no timer is lost, doubled or resumed.
TimerIsOneSlot == Slots!Spec

\* Requests that run one after another keep the contract of a review.
ReviewIsAtomic == Contract!Spec

(***************************************************************************)
(* What the documents say and the code does not do.                        *)
(***************************************************************************)
\* PRD 3.6.2: a submitted entry is part of a submission under review.
PendingHasSubmission ==
    \A e \in Entries : status[e] = "pending" =>
        link[e] # None /\ subStatus[link[e]] = "pending"

\* A verdict is final.
VerdictFinal ==
    [][\A s \in Subs : subStatus[s] \in {"approved", "rejected"}
                         => subStatus'[s] = subStatus[s]]_vars
==============================================================================
