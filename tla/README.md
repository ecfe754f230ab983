# Yusi Time in TLA+

Yusi Time is a time tracker: a FastAPI/SQLAlchemy back end on PostgreSQL
(`src/backend`) and a Next.js front end (`src/web`). These modules model the
parts of it that keep state and take decisions, TLC checks them on small
instances, and TLAPS proves the main results for every size of the system.

1. [Inventory](#1-inventory) - 2. [How the system runs](#2-how-the-system-runs) -
3. [Modules](#3-modules) - 4. [Runs](#4-runs) - 5. [Proofs](#5-proofs) -
6. [Disagreements](#6-where-code-and-documentation-disagree) -
7. [Not modelled](#7-what-is-not-modelled) - 8. [Plan](#8-plan)

## 1. Inventory

Services are in `src/backend/app/services`, the web in `src/web/src`.

| component | state | operations | what is hard | what makes it correct |
|---|---|---|---|---|
| Time entries and timer: `time_entry_service.py` | `time_entries` | start, stop, continue, create, duplicate, update, delete, bulk submit (in the router) | two requests of one user (tabs, retries); stale rows; `force` does two things | one running timer; a stopped entry stays stopped; submitted entries are locked; duration and amount belong to the row |
| Approvals: `approval_service.py` | `timesheet_submissions`, `submission_entries` | submit week, approve, reject, list | two reviewers; entries that change under a review; partial resubmission | one pending submission per week; a submission and its entries are decided together and once |
| Rounding and rates: `rounding_service.py`, `rate_service.py` | none, workspace settings | round, resolve rate, amount | boundaries; rules that change between saves | the amount is the price of the rounded span |
| Catalog: `project_`, `task_`, `client_`, `tag_service.py` | `projects`, `tasks`, `clients`, `tags`, `project_members` | create, update, archive, delete, assign | deletion under a save in flight | time is never left without its project |
| Attendance: `attendance_service.py`, `scheduler_service.py` | `attendance_notifications`, columns of `workspaces`, jobs in memory | two jobs a minute, responses, mark read, settings | jobs lost in a crash; check and commit apart; midnight | one prompt; everybody who is told is told the same; nobody is missed in the window |
| Push: `push_service.py` | `push_subscriptions` | subscribe, unsubscribe, send, clean up | sent before the commit, one by one; skipped without keys or subscriptions; failures are logged | a push that is not sent changes nothing for the rows |
| Access: `invite_`, `member_`, `user_`, `workspace_service.py` | `users`, `workspaces`, `workspace_members`, `invites` | register, invite, revoke, accept, change role, remove, delete account, delete workspace | counting admins, then writing; stale invites | an admin remains; only invites let in |
| Authentication: `auth_service.py`, `core/security.py` | `password_reset_tokens`, JWTs | login, refresh, forgot, reset | concurrent requests for a token | a token is used once |
| Notifications: `notification_service.py` | `notifications` | list, mark read, mark all | merges two tables | what is read stays read |
| Reports: `report_service.py` | none | aggregate, export | read only | - |
| Session: `lib/api-client.ts`, `token-store.ts`, `middleware.ts`, the app layout, `app/join`, `workspace-store.ts` | access token in memory, refresh cookie, cached answers | log in and out, refresh on 401, guard routes, load user and workspaces, accept an invite | several 401s at once; other tabs; a second person without a reload | requests end; the app opens with nothing of others; who is logged out ends at the login |
| Timer in the browser: `TimerBar`, `useIdleDetector`, `IdleModal`, `ContinueButton` | last poll, form, dialogs, idle state | start, switch, stop, continue, keep, discard | the timer changes elsewhere; two calls for one choice; late answers | the bar comes to tell the truth, and does not go back to what it was told to forget; the dialog can always be answered |
| Prompt and bell: `useWorkStartTrigger`, `WorkStartModal`, `NotificationBell` | three queries, alarm, modal, sheet | poll, prompt, answer, open, mark | three polls of different periods and a mark on the same rows; an alarm set anew; two clocks | a prompt is put; an answer silences the job; what was marked does not come back as unread |
| Query cache: `lib/query-client.ts` | answers, their age, requests under way | fetch, invalidate, set | an answer from before a change arrives after it | what one changed one comes to see |
| Pages: week grid, approvals, members, projects, clients, tags, settings | forms and calls pending | open, send, close, leave | a dialog reused while its call is pending | a late verdict closes its own dialog only; no list misses a change made here |
| Dashboard, report pages, service worker, presentation | filters | read | - | - |

The web calls the back end over HTTP only. Inside the back end components meet
in the database: routers call services, services share the tables above, and
the scheduler reads what the handlers write; there is no cache and no queue.
Inside a tab components meet in the query cache, in the stores and in the
access token; tabs of one browser share the refresh cookie.

## 2. How the system runs

### The back end

Every module about the back end rests on the following, which is what
`core/database.py:38-45`, the models and the migrations do.

* A request has one session and one transaction, at PostgreSQL's default
  READ COMMITTED. No handler takes `FOR UPDATE`, and no table has a version
  column.
* A request therefore is a **read step**, in which all guards are evaluated on
  committed rows and the values to write are computed, and a later **commit
  step**. Between the two, other requests commit. A guard that fails ends the
  request without a change, so it is a missing transition.
* SQLAlchemy sends the columns that differ from the row it loaded, `WHERE id =`.
  If that row is gone at the UPDATE, the request fails (`StaleDataError`); a
  DELETE of a missing row only warns.
* What is still enforced at commit: unique indexes, CHECKs, foreign keys with
  their `ON DELETE`, primary keys. Where a handler queries after it has written
  (approve and reject), autoflush sends the UPDATE first, so the row lock is
  held from there on: `ClaimApprove` and `ClaimReject` in `Timesheet`.
* `Rollback` is always possible: a constraint, a lost connection, a client that
  goes away.
* Ids are random UUIDs and never reused; a bulk SELECT sees one instant.

### A browser tab

The modules about the web rest on what React, React Query and axios do:

* Between two events (a click, an answer, a timer) a tab does one thing at a time.
  An action is one event with every effect it causes, up to the next `await`.
* A call is **sent**, **served** or **refused** by the server, and **heard** by
  the tab, in three steps; it may be lost on the way there or back. The page
  that sent it may be gone, or may show something else, when it is heard.
* What is on the screen is the last answer. A query has one request under way.
  An invalidation drops and repeats it, unless there is no data yet: then the
  first request goes on. `setQueryData` does not stop it (`QueryCache`).
* A reload forgets all that is in memory: the access token, stores and queries.
  Calls already on their way are served all the same.
* The back end is there only as far as a tab can tell: as `TimerSlot`, which
  `Timesheet` is shown to implement, in `TimerClient`; as `PromptRows`, which
  `Attendance` is shown to implement, in `Notices`; as a row per notification in
  `Bell`; as "accepts or refuses" in `Pages`.

## 3. Modules

| module | models | proofs |
|---|---|---|
| `Timesheet` | status, owner, day and submission of entries; reviews; locks; roles | `TimesheetProofs` |
| `TimerSlot` | abstract: one slot per user that changes atomically | `TimesheetProofs` |
| `ReviewContract` | abstract: taking, deciding and releasing entries as a whole | `TimesheetProofs` |
| `Access` | accounts, workspaces, memberships, invites | `AccessProofs` |
| `Attendance` | jobs, pushes, responses, clock, crashes | `AttendanceProofs` |
| `PromptRows` | abstract: the rows of a prompt, decided, committed or lost, read, answered before | `AttendanceProofs` |
| `Rounding` | rounding and amounts as pure operators | `WorklogProofs` |
| `Worklog` | project, task, times, duration, rate and amount of entries; the catalog | `WorklogProofs` |
| `TimerClient` | the timer bar, the idle detector and its dialog, over `TimerSlot` | `TimerClientProofs` |
| `Session` | tokens, refresh, route guard, layout, cache of a tab | `SessionProofs` |
| `Notices` | the trigger's query, the alarm and the work start modal of a member, over `PromptRows` | `NoticesProofs` |
| `Bell` | the bell's two queries, its sheet with the timer, calls that mark | |
| `QueryCache` | one query of the cache | |
| `PageTables`, `Pages` | the pages that list and change things: what each shows, sends, invalidates; forms and calls over `QueryCache` | `PagesProofs` |
| `MC...` | instances for TLC | |

**Timesheet and Worklog** are two views of one service. `Timesheet` has
everything that decides *whether* a request may write: status, role, lock,
week. `Worklog` has *what* it writes. Each leaves the other's columns out, which
adds behaviours only: a guard that is not modelled is a guard that always
passes. Both have the same requests and the same unique index on running
timers.

`Timesheet`: `req[r]` holds what a handler has in its local variables. `Read*`
actions are the handlers up to their first write, `Commit*` the rest. The
content of an entry is one opaque `body`. `TimerIsOneSlot` maps it to
`TimerSlot` (the slot of a user is the entry that runs) and `ReviewIsAtomic` to
`ReviewContract`.

`Worklog`: a request carries the row it loaded (`old`), the row it wants
(`new`) and the row it inserts. `Merge` is what an UPDATE of the changed columns
makes of the current row. Catalog edits are single steps, because each of them
is one UPDATE of given values or one DELETE whose effects (RESTRICT, CASCADE,
SET NULL) the database applies at once. `open` stands for a project's
visibility and its members. Time is counted in ticks, `Second` of them a second;
a duplicate starts at midnight, tick 0.

`Rounding` replaces the floats of the code by integers; the module says why
that is exact for durations. Python's `round` is modelled as half to even.

`Access`: a workspace is named by its founder, since only `register` creates
one. `role[w][u]` is the membership row. Invites expire at any time.

`Attendance`: one workspace, its clock in minutes, both jobs as read, push and
commit steps. A job runs every sixty seconds and looks at the clock once the
database has answered, so a minute sees no run, one or several. `Push` is only the
time it takes: whether anything is sent (keys, subscriptions, failures) is no
matter to the rows. `UpdateTimezone` lets the clock of the workspace jump to any
other time within two days, so midnight may come again. Rows of
`attendance_notifications` are *counted*, as nothing makes them unique. `Crash`
loses what is not committed; a restarted scheduler first runs after its interval.
`Board` maps the rows to `PromptRows`: `note` is the member's own row of a prompt,
`covered` says that there are rows for others instead, `deciding` is what the job
holds uncommitted. An answer that finds nothing unread covers only if the workspace
has an admin or manager to address, as it always does (`LiveHasAdmin`). Four history
variables (`done`, `missed`, `changed`, `active`) serve `CaughtUp` only; `changed`
is set by new settings and by a new time zone.

`TimerClient`: one tab, and `Elsewhere` for all other devices of the user. `shown`
is the last poll, `poll` an answer on its way. The time at which the tab went
idle is replaced by the entry that ran then (`idle`), which is all that
`chk_te_end_after_start` can tell: trimming another entry's time ends before its
start. "Discard and continue" is `Discard`, `ModalStopped`, `ModalDone`, two
calls with a failure possible at each (`IdleModal.tsx:74-100`).

`Session`: `page` and `view` say where the tab is, `req` which calls it has: at
most one of what the user or the layout does and one of a polling query. `Push`
is `router.push` after the middleware, `Load` a page load. Cached answers are
known by the user whose token fetched them: `ws` for the workspaces, `rest` for
all other data. That one slot stands for all polling queries is no loss: they
do not look at each other, and several refreshes differ in nothing.

`Notices`: the trigger's query is asked (`PollAsk`, in a tab in front), served and
heard or lost in separate steps, as an answer or a mark may fall between them.
`Trigger` is the first effect of `useWorkStartTrigger`, with all its conditions:
modal closed, unread, not shown before, and `related_date` that of the browser
(`date`, next to the workspace's). It runs when the data changed (`PollHeard`), when
the modal closes (`ResponseAnswered`) and when the settings do. `Arm` is the second
effect: a timeout for `work_start_time`, set anew by the same occasions while the
time is still to come; `AlarmFires` is its end. The bell's calls appear as `Mark...`,
for what they do to the prompt and to the query. The server's part (`Job`, and what
`CommitResponse` and `MarkServe` do to the prompt) are actions of `PromptRows`, for
the one prompt of the day. An answer is read and committed in two steps, like every
request of the back end. `put` and `dismissed` are history.

`Bell`: its own two queries, each with a request that is asked, served and heard;
up to as many calls under way as `Calls`, which mark one notification or all that
the server has at that moment. `Rearm` is the effect that sets the two seconds
anew. `loaded` says which queries have data, and decides whether an invalidation
drops a request under way (`Refetch`). `heard` is history.

`Pages` follows **one query**, any, and the operations that change something it
shows; the others may be in any state, which only adds behaviours. `PageTables`
has one operator per component or hook file of the source: what a page shows,
which form an operation has, which pending calls disable its button, which rows
it is about, what it changes and what its hook invalidates. So a dropped
`invalidateQueries` or `disabled=` is one entry of a table. The tabs of a project's
page are pages of the same component (`Tabs`), because the panel of a tab is
unmounted when another is chosen, and with it forgets its calls (`StaysFor`). A call
carries the operation it was sent for. `told` remembers what was changed on the page on
display, from the moment the page heard of it until something changes it again.

## 4. Runs

| run | question | properties | bounds |
|---|---|---|---|
| `timesheet_serial` | what holds if requests do not overlap | `ReviewedTogether` `SubmittedUntouched` `ReviewIsAtomic` | 1 request, 2 entries, 2 submissions, member and admin, 3 days in weeks of 2, lock and past limit of 1 day |
| `timesheet_concurrent` | what survives overlapping requests | `OnePending` `LinkSound` `ApprovedWasSubmitted` `RequestsSound` `NeverRunsAgain` `NeverReopened` `TimerIsOneSlot` | 2 requests, 2 entries, 2 submissions, 1 day |
| `access_concurrent` | admins, entry and deletion under races | `LiveHasAdmin` `JoinedByInvite` `EntersByAccept` `ReturnsByStaleAccept` | 3 accounts, two with one address; 2 requests, 1 invite; about 280,000 states |
| `attendance_window` | a day with lost minutes | `PromptOnce` `CaughtUp` `RowsAreKept` | day of 5 minutes, window of 2, 2 lost minutes; about 360,000 states |
| `attendance_midnight` | failures, crashes, second runs and another time zone around midnight | `ToldAlike` | 2 days of 2 minutes, 2 recipients, 2 rows of a key; about 127,000 states |
| `worklog_times` | what saves leave in a row | `TypeOK` `AmountMatches` `SpanMatches` | 2 entries, 1 request, 2 rounding rules, times up to 2 and what copies add, 2 catalog edits |
| `worklog_catalog` | deletions under requests | `NothingOrphaned` | 2 requests, 1 project with a task and a client, 5 catalog edits |
| `timer_client` | a tab whose timer changes elsewhere, lost calls, reloads | `IdleOfTimer` `ButtonsFollowCall` `NoOldAnswer` `BarTellsTheTruth` | 3 entries of 2 projects, 1 call in flight, 1 fault; about 810,000 states |
| `session` | tokens expire, accounts close, tabs log in and out | `NothingOfOthers` `RequestsSettle` `EndsAtLogin` | 2 people, 1 call of the user or layout and 1 of a poll; about 84,000 states |
| `notices` | trigger, alarm, modal and marks on the same prompt | `KnownIsPut` `AnswerSilences` `PromptIsPut` | fixed schedule, a day from midnight to midnight, 2 faults; about 350,000 states |
| `bell` | polls and marks that overtake each other | `NeverUnreadAgain` | 2 notifications and a prompt, 2 calls, 1 fault; about 625,000 states |
| `pages` | forms, calls and invalidations of every page | `VerdictKeepsItsDialog` `ChangesOnTheWay` `OwnChangesShow` | all pages, 2 rows, 2 calls, each query followed in turn; about 1,370,000 states |

The type invariants are theorems (`TypeCorrect` of each proof module), and so is
`AnswerStands` (no settled prompt is put again; it follows from `RowsAreKept`). Only that of `Worklog` has a
mutant worth a run of its own, an idle end before its start.

**Why these bounds.** Every property is violated, if at all, by few actors: a
lost update needs two requests, a partial review two entries, a resubmission
two submissions, a lost admin two admins, a week two days. Two rounding rules
and one edit give a row saved under one and copied under the other; three edits
create a project and its task and delete one of them, five do so with a client
and an archive in between. The instance constants shrink what the code fixes
(an hour is 2, a day 5 minutes); nothing compares them with anything but each
other. Every other finite choice is complete: all roles that matter, all
dates in range, all settings given.

The web runs need little more: two people to find data of the other, two entries
of one project and one of another to tell a switch from a restart, two rows and
two calls for a dialog that is reused. With one call in flight `TimerClient` has
the user wait for each call; the calls of other devices, which is what its
properties are about, go on meanwhile, and the theorems about it hold for any
number. One fault is enough for each call of the idle dialog to be the one that
fails, and a lost answer is served all the same.

`Notices` spans the one workspace day that its prompt is about: before it there is no
row, after it nothing is put. The browser's day may end earlier (`Midnight`), which
stops the prompt and sets the alarm for the next morning; a browser whose date is
behind (`Behind`) is the subject of section 6. The page is one whose settings have
come; before, the trigger is switched off. `flexible_hours` only leaves out the
alarm, and with it behaviours. `Bell` needs two calls and a request to have one
overtake the other two, two ids of one table for a single mark to differ from the
mark of all, and one of the other for the second query. The lists are read as whole
(`per_page` of 20 and 5), and the count on the bell as one with its list.

**Deadlock** is checked in the timesheet runs and in those of the web. In the
others bounded counters (accounts, minutes, catalog edits) run out, so
`CHECK_DEADLOCK FALSE`.

**Fairness.** The back end's modules assume none: a server that crashes, or a
client that goes away, may stop anything. "Must eventually" is stated with its
deadline instead: `CaughtUp` says that *when the window is over* every member was
prompted unless more minutes were lost than it has. The code's own promise is of
this kind, as a job that is late is not repeated. A tab that stays open is
different: its timers fire and its promises settle. So

* `TimerClient`: weak fairness of the poll (asked, answered), and for each call
  of "served or refused" and of hearing the answer. No button need be pressed,
  and losing a call is never forced nor excluded.
* `Notices`: weak fairness of asking, which a tab does only in front (so
  `PromptIsPut` lets go of a hidden one), of "served or lost", and of hearing. The
  member, the job, the clock, the bell and the calls owe nothing.
* `Bell`: none is needed.
* `Session`: weak fairness of the first checks, of answers and of the refresh.
  Strong fairness of `Fetch`, since polls come at intervals while other calls
  come and go, and of `Unauthorized`: not every answer to a call without a valid
  token is a network error. Without the latter a tab whose polls all fail with
  something other than 401 stays where it is, and so does the code's.
* `Pages`: weak fairness of data requests only. Calls may stay unanswered.

All fairness is of single actions or of a choice the server makes, none of it of
a user.

**Mutants.** Every property has a mutated definition, placed before the one it
mutates (`Mut...`), which violates it in the same run: a missing guard, a
check on the wrong set, a missing `SET NULL`, an amount from the raw seconds.

## 5. Proofs

Assumptions are those of the modules (named `...Assumption`): types of the
constants and that NULL is none of their elements. No bound on users, entries,
requests, days or rates; TLC evaluates the assumptions in every run.

**Timesheet.** `IInv` is the conjunction of the four table invariants with
`RequestsSound`. The tables alone are not inductive: that a commit keeps
`LinkSound`, for example, depends on what the request remembers. `RequestsSound`
says what *remains* true of a stale read: a row that was read as stopped does
not run again, a week contains entries of its user. Each of these facts lasts
(`Kept`), so it need not be checked again at commit. `StoppedForGood` and
`DecidedStaysDecided` follow step by step, and `TimerRefinement` shows that each
commit is one step of `TimerSlot` or none.

**Timesheet, what overlapping can break.** `ReviewedTogether`, `SubmittedUntouched`
and `ReviewIsAtomic` fail when two requests overlap, so they cannot be theorems of
`Spec`, and that they hold for one request at a time says little of a server that
serialises nothing. What is proved instead, for every number of requests under way,
is which step does the damage: `StaleCommit`, the commit of a request for which what
it has read does not hold any more. `Fresh` spells this out, operation by operation:
the entry to stop runs, the entry to change is not submitted or the request an
admin's, the entries to submit are drafts, the submission to review is pending and
the entries are those it carries. `OnlyStaleSeparates`: any other step keeps a
submission and its entries together. `OnlyStaleTouches`: any other step that writes
a submitted entry is an admin's. `OnlyStaleBreaks`: any other step is one of
`ReviewContract`. So a version check of exactly these facts at commit, or a row lock
from the read on, is what it would take, and nothing else is missing.

**Access.** `LiveHasAdmin` looks as if it needed a lock: the admins are counted
before a role is written. It holds anyway, because nobody is ever *made* an
admin: invites and role changes grant the other roles only, so the founder is
the one admin there is, and no request can have seen a second. `IInv` says this
(`FounderIsAdmin`) and what requests know (`RequestsKnow`). The theorem is
therefore also a warning: an endpoint that promotes would break it.
`OnlyStaleReturns` is of the kind just described: a deleted account gets back into a
workspace only by the commit of an accept that read the account before its deletion.
That a link admits one account (`SingleUse`) holds of requests that do not overlap
(`AccessSerial.cfg`, with two invites), and only of those: an accept of a deleted
account that is still under way and one of the account that has its address now both
read the invite as unused.

**Attendance.** Nothing in the database keeps a job from adding a row twice. That
the prompts' job does not rests on two facts, which make `IInv` inductive: a key that
the job is about to add has no row yet (`PromptsSound`), and a response adds rows for
other recipients than the job. The shortfall job has nothing of the kind (section 6).
What it does have is that its rows are those of a member for *every* admin and
manager (`ShortfallsSound`); with the same of a response, `ToldTheSame` says that no
failure, crash or second run tells one of them more than another: whoever is told
twice is told twice with all others.
`NobodyMissed` needs a balance on top of that (`CInv`, by `MissesCounted`): for a
member who is still due, every minute of the window that has passed is one of the
`missed` ones, but for at most one whose check the job holds uncommitted. A check
adds every due member to the job (`CheckCounts`), a commit makes them not due
(`CommitCounts`), a failure or a crash gives the row up and counts the minute
(`LostCounts`); so a member due after the window has `Window` + 1 lost minutes or
is about to be stored.

**Worklog.** `TypeCorrect` and `NoOrphans` hold for any number of overlapping
requests. The first needs that the arithmetic stays in the naturals
(`RoundType`, `AmountType`, `SecondsType`) and that a request that updates has
both its rows (`Loaded`). The second rests on `Accepted`: whatever a request
merges, the foreign keys are checked on the row that is stored, and deletions
clear what refers to them. `AmountMatches` and `SpanMatches` are broken by
overlapping saves; `OnlyStaleMisprices` says by which. `Sound` is that every row,
stored or about to be, is `Fair`: its amount fits its duration and its duration its
span, under *some* rule, as rules change. It holds from the start, implies the two,
and no step breaks it but the commit of a save whose row another request has changed
since it was loaded (`StaleSave`). A task that was deleted meanwhile does no harm, as
`Current` leaves it out: the merge is still the row the request computed.
`RoundingIsStable` is about the operators alone: rounding twice
is rounding once, so a copy is as long as its source.

**TimerClient.** `Inv` adds to the types, `IdleOfTimer` and `ButtonsFollowCall` only that
a confirmation has what its button will send (`DialogsSound`). The proof goes by
parts (`Parts`): the server, the calls together with the choice of the idle
dialog, and the rest of the screen, as most steps leave two of them alone. What
it shows beyond the run: with any number of calls in flight and of faults, the
idle dialog never has two calls, and none while its buttons are enabled.
`OldAnswersGone` follows from what is known of a call at each stage (`Hearing`): once a
stop was served its entry is closed for good, so a poll that is served afterwards
does not have it, and the answer of one that was served before is dropped when the
tab hears of the stop (`useStopTimer`'s invalidation), for any number of polls lost
and calls overtaken.

**Session.** `NothingLeft` rests on `CleanMount`: until the layout has read the
workspaces, no workspaces are cached, and if it has already chosen one, nothing
else is cached and no answer with data is under way. The second half is the
point: cached workspaces of the person before make the layout choose, and that
choice, of the wrong workspace, is what clears the cache (`setWorkspaceId`,
`workspace-store.ts:23`). The next choice clears it again.

**Attendance as PromptRows.** `KeepsRows` shows that each step of `Attendance` is
one step of `PromptRows` or none, under the same `IInv`. The hard steps are those
that write rows while the other request knows an older state. The commit of the
job maps to `Commit` because a key it holds still has no row of the member
(`PromptsSound`); an answer that found nothing maps to `Cover` although the job
may hold the very key, since it writes rows for others only; crashes and failures
are `GiveUp`. `AnsweredOnce` then needs no interleaving any more: a settled key is
notified, so `Decide` leaves it out.

**Notices.** `IInv` adds three facts to `KnownIsPut`. `ShownSound`: a prompt that is
remembered as shown was put, and the date of a browser that is not behind is never
the day before. `AnswersKnown`: an accepted answer, heard or not, has left the prompt
notified, since it found the row or covers the key. `DecidingKnown`: what the job
holds has no row yet. With the second, `AnswerIsFinal` is one step of `PromptRows`:
`Decide` is disabled for good. `KnownPut` needs `ShownSound`, and depends on the
effect running when the modal *closes*: without that it fails for a prompt that comes
while the alarm has the modal open.

**Pages.** What the proofs need of the tables is proved first, page by page, from
the tables as they are, and only that is used afterwards:

* `OpTable`: every form has rows, and every operation either is a verdict, whose
  buttons wait for both verdicts, or is on neither page of the approvals;
* `RefreshTable`: whatever an operation changes of a query that its component
  shows, its hook invalidates, or is handed the answer (`Direct`).

`IInv` adds two facts about what is under way. `CallsSound`: a call that its page
still waits for was sent from the component on display, and only the sheets of
the week forget a call when they are closed. `Kept` says what any later step makes
of a call, so that `CallsSound` and `VerdictKeepsItsDialog` are argued once for all steps
that send none. A dialog opens for no other row while a verdict is under way,
since such a page is one of the approvals and its buttons are locked
(`VerdictUnderway`, `OpenSteps`). `FetchSound`: the answer of a request under way misses nothing
that was accepted here. `ChangesOnTheWay` alone is not inductive, because an answer
that arrives replaces what is shown: that it is not older needs `FetchSound`, which
in turn needs that an accepted change drops the request that was under way
(`AcceptedCache`). This holds for any rows, any of the pages visited and any number
of calls.

**Worklog, arithmetic.** `RoundingIsClose` and `AmountIsNearest` bound what the
rounding of durations and of amounts may change, for every interval and rate: by
less than an interval and in the mode's direction, and by at most half a cent, to
the even one of two equally near.

**Only model-checked**: liveness under fairness, which the provers do not do
(`BarTellsTheTruth`, `RequestsSettle`, `EndsAtLogin`, `PromptIsPut`,
`OwnChangesShow`), `SingleUse`, `NeverUnreadAgain`, and what the serial runs check of
requests that do not overlap. The safety parts of the former are proved where they
have one: `KnownIsPut` for `PromptIsPut`, `ChangesOnTheWay` for `OwnChangesShow`.
Nothing here is recursive.

## 6. Where code and documentation disagree

TLC refutes these; the configuration named finds the behaviour
(`tlc -config X.cfg MC...`):

* `Timesheet_PendingHasSubmission.cfg` - the bulk endpoint
  (`routers/time_entries.py:157`) makes entries pending without a submission. No
  reviewer sees them, and their owner cannot edit them any more. The web has a
  hook for it, but the dialog that calls it is never opened.
* `Timesheet_VerdictFinal.cfg` - two reviewers who both read a pending submission:
  the second verdict replaces the first.
* `Attendance_DismissedStays.cfg` - a response that commits while the job holds its
  rows does not keep the job from prompting.
* `Attendance_ShortfallOnce.cfg` - a shortfall "creates one notification per Admin
  and per Manager" (`attendance_service.py:294`): the job looks at the clock and not
  at earlier rows. A second run in the first minute of a day, or a time zone that is
  moved back over midnight, reports every shortfall of the day before again.
* `Notices_Behind.cfg` - late arrivals, too, have the hook pick the
  notification up and open the modal (`useWorkStartTrigger.ts:18-23`): in a browser
  whose date is still the day before, the prompt that is polled then is passed over,
  and put when the date has come only if something else makes the effect run, since
  polling equal data does not.
* `Worklog_TaskInProject.cfg` - an update that changes the project keeps the task of
  the old project, and with it its rate.
* `Pages_SettingsSurface.cfg` - "Invalidate workspace queries so updated settings
  surface everywhere" (`useAttendance.ts:56`): the key it invalidates is that of no
  query, so the settings page goes on to show the old values.

So does it for these statements when they are added to the configuration of
their module:

* `NotAgain` (`Notices`) - "Choosing 'Not Now' won't show this prompt again today"
  (`WorkStartModal.tsx:333`): the notification that comes after an answer to the
  clock's prompt opens the modal again, and so does an unread prompt when the
  list it came with is not refetched: the answer invalidates a key of no query.
* `ShowsLogin` (`Session`) - "If that also fails, redirect to /login"
  (`API_Spec_v1_1_Final.md:80`): a layout that gives up while the browser has a
  cookie is sent back to the app by the middleware, and shows its skeleton for
  good. A wrong password, too, goes through the interceptor: a failed refresh
  reloads the page, and with it the error message and the redirect are gone.
* `IdleOfShown` (`TimerClient`) - the idle dialog may offer to trim another entry
  than the one it shows, when the timer was replaced elsewhere since; the server
  refuses it.

What holds of requests that do not overlap (`ReviewedTogether`, `SubmittedUntouched`,
`ReviewIsAtomic`, `DeletedAccountsOut`, `SingleUse`, `AmountMatches`,
`SpanMatches`) is violated when `Requests` in their instance is `{r1, r2}`.
`AmountMatches` is the least obvious: two stops of one timer, between which the
workspace's default rate and rounding rule change, leave the duration of one and
the amount of the other, since each writes only what differs from what it loaded.
Section 5 says which commits, and only which, break them.

Read in the code, without a run:

* Editing a running entry always fails: `update_entry` gives it a duration,
  which `chk_te_running_no_end` refuses. `DB_Schema_v2_0_Final.md:703` calls
  running entries "Always editable by owner". (`UpdateAccepted`, `Accepted`)
* An invite to a deleted workspace can be accepted; `PRD_v1_3_Final.md:540` has it
  answer 404.
* Viewers are prompted and reported, although PRD-ADD-03 speaks of members only.
  (`Subjects`)
* The rate is "immutable after write" (`models/time_entry.py:65`) and taken anew
  on every edit, so that editing a description while billing is off clears the
  amount. `API_Spec_v1_1_Final.md:1037` agrees with the code.
* Continue and duplicate do not ask whether the project is archived or still
  visible to the member, as `_validate_project_access` does.
* `continue_entry` with `force` on the running entry stops its own source, which
  PRD and TRD say is not modified.
* `lock_period_days` also locks drafts while approvals are enabled, and approved
  entries stay locked when the workflow is switched off
  (`time_entry_service.py:80-98`; `PRD:251`, `DB_Schema:705`).
* Disabling the workflow leaves a pending submission that no endpoint can
  review (`approval_service.py:129`; `PRD:257`).
* A duplicate starts at midnight UTC and not of the workspace's time zone.
* Two overlapping password requests leave two valid tokens, against the
  docstring of `initiate_password_reset`.
* An attendance setting cannot be cleared; changing the mode prompts again the
  same day; answering yesterday's prompt after midnight suppresses today's.
* A maximum timer duration is in the PRD and has no implementation.
* After "Keep", the fallback countdown starts again with the next activity only;
  a user who keeps the time and walks away is not asked again.
* "Discard and continue" starts the new entry without the tags of the old; the
  description draft of one workspace is still there in the next.
* Logging out fails while the server is not reached, with the cookie left: the
  next visit is logged in.
* The entry hooks invalidate "on settle" (`time-entries/hooks.ts:9`), and do so on
  success only.
* Switching push off deletes nothing after a reload (`usePushNotifications.ts:10`).
* The bell sets its timer anew when the *number* of unread changes, and marks what
  nobody has seen with the rest: also what came after its last poll, since the call
  that marks everything names nothing.
* The task table asks for 1000 rows, where the back end allows 200, and the total
  of a project is that of its last 100 entries.
* The week grid groups entries by the browser's time zone, and keeps the *oldest*
  entry of a cell, since the list is in descending order
  (`timesheet/page.tsx:146`: "keeps the most recent entry for editing").
* A late answer to a cancelled call closes the sheet that is open by then, in the
  entry sheets, the dialogs of projects, clients, tasks and tags, and "remove
  member"; the note of a rejection is kept for the next (`ApprovalList.tsx:210`).
* The settings form is overwritten by a refetch in the background; the answer of
  a save is put in the cache without stopping a request under way, whose older
  answer then replaces it (why `OwnChangesShow` leaves out the queries that are
  written so).
* Creating or deleting a project leaves the number of projects on the page of
  clients as it was; "Delete workspace" and the billing switch stay enabled while
  their call is pending.

## 7. What is not modelled

* Reports and exports: they only read. Tags, names, descriptions, colours,
  budgets, overlap warnings and the billable flag: no rule of the modules looks
  at them.
* Formats: JWTs, password hashes, mails, push payloads, CSV.
* Several server processes. The scheduler assumes one (`main.py:31-40`); with two,
  every job runs twice and `PromptOnce` would not hold.
* Of the web: what rows contain, the validation of fields, totals and charts,
  texts and links, drafts, the seconds on display. The dashboard and the report
  pages only read. The service worker and the push opt-in are dialogs of the
  browser around one call.
* Reset tokens (`auth_service.py:195`): see section 6 for what two overlapping
  requests leave.

## 8. Plan

Done, in this order: `Timesheet` with its abstract specifications, `Access`,
`Attendance`, `Rounding` and `Worklog` with their proofs; then the web:
`TimerClient` over `TimerSlot`, `Session`, `Notices` over
`PromptRows`, and `Pages` over `QueryCache`, with proofs, and `Bell`. What is left:

1. The grid of a week - grouping entries into cells and rows, the choice of the
   entry a cell edits, totals against `Worklog`, as operators over bounded weeks.
2. Reports - the grouping and filtering of entries as operators against a
   reference definition.
3. Reset tokens and push subscriptions - a token is used once when requests do not
   overlap; expired subscriptions are cleaned up and new ones kept.
4. Proofs still wanted: the safety part of `RequestsSettle`, that a request is sent
   twice at most; `NeverUnreadAgain` for any number of calls; how far amounts can be
   off after a `StaleSave`.
