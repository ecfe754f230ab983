------------------------------ MODULE Notices ------------------------------
(***************************************************************************)
(* How a member's tab puts the day's prompt to start work (src/web/src/     *)
(* features/attendance): useWorkStartTrigger polls its own five newest      *)
(* notifications and opens the work start modal for one that is unread and  *)
(* bears the browser's date; in a fixed schedule an alarm opens it at       *)
(* work_start_time too.  Only an answer that the server accepts closes it.  *)
(* The bell marks the prompt as read and has the query asked again.  The    *)
(* rows are those of PromptRows, which Attendance implements: the check and *)
(* the commit of the job, and the two steps of an answer, enclose each      *)
(* other anyhow.  The model spans one day of the workspace, in which the    *)
(* browser's midnight may fall; Bell has the bell's own two queries.        *)
(***************************************************************************)
EXTENDS Naturals

CONSTANTS
    Prompt,         \* the id of the day's work start notification
    FixedSchedule,  \* attendance_mode = fixed_schedule
    Behind,         \* the browser's date is still that of the day before
    MaxFaults       \* bound on calls that fail without a reason and on reloads

ASSUME ModeAssumption == FixedSchedule \in BOOLEAN /\ Behind \in BOOLEAN
ASSUME FaultAssumption == MaxFaults \in Nat

VARIABLES
    note, covered, deciding,  \* the prompt's rows, and the scheduler's job
    date,       \* the browser's date, next to the workspace's
    ahead,      \* work_start_time is still to come on the browser's clock
    visible,    \* the tab is in front
    known,      \* notificationsData
    poll,       \* the request of its query
    shown,      \* shownNotificationIds has the prompt
    modal,      \* the work start modal: closed, asking, or with a project chosen
    alarm,      \* the timeout of the second effect: off, set, or due to run
    pending,    \* pendingAction
    response,   \* the call that carries the answer
    mark,       \* the bell's call that marks everything as read
    put,        \* (history) the modal opened for the prompt since the page was loaded
    dismissed,  \* (history) an answer of today was accepted
    faults

prompts == <<note, covered, deciding>>
clock == <<date, ahead, visible>>
query == <<known, poll>>
prompt == <<shown, modal, alarm, put>>
answered == <<pending, response, dismissed>>
vars == <<prompts, clock, query, prompt, answered, mark, faults>>

Server == INSTANCE PromptRows WITH Keys <- {Prompt}

Contents == {"prompt", "clear"}
Replies == {"start", "not_now"}
Phases == {"none", "sent", "found", "missing", "done", "failed"}

TypeOK ==
    /\ Server!TypeOK
    /\ date \in {"before", "same", "after"}
    /\ ahead \in BOOLEAN /\ visible \in BOOLEAN
    /\ known \in Contents \cup {"unloaded"}
    /\ poll \in Contents \cup {"none", "asked"}
    /\ shown \in BOOLEAN /\ put \in BOOLEAN
    /\ modal \in {"closed", "asking", "chosen"}
    /\ alarm \in {"off", "set", "due"}
    /\ pending \in BOOLEAN /\ dismissed \in BOOLEAN
    /\ response \in [phase : Phases, answer : Replies]
    /\ mark \in {"none", "sent", "done"}
    /\ faults \in 0..MaxFaults

NoResponse == [phase |-> "none", answer |-> "not_now"]

\* The second effect: a timeout is set if the modal is closed and the time is
\* still to come.
Arm == alarm' = IF modal' = "closed" /\ FixedSchedule /\ ahead' THEN "set" ELSE "off"

\* Opening the modal clears it.
Disarm == alarm' = IF modal' = "closed" THEN alarm ELSE "off"

\* The page with its settings loaded, and nothing polled.
Loaded ==
    /\ known' = "unloaded" /\ poll' = "asked"
    /\ shown' = FALSE /\ modal' = "closed" /\ put' = FALSE /\ pending' = FALSE
    /\ mark' = "none"
    /\ Arm

Init ==
    /\ Server!Init
    /\ date = IF Behind THEN "before" ELSE "same"
    /\ ahead \in BOOLEAN /\ visible = TRUE
    /\ known = "unloaded" /\ poll = "asked"
    /\ shown = FALSE /\ modal = "closed" /\ put = FALSE
    /\ alarm = IF FixedSchedule /\ ahead THEN "set" ELSE "off"
    /\ pending = FALSE /\ response = NoResponse /\ dismissed = FALSE
    /\ mark = "none"
    /\ faults = 0

-----------------------------------------------------------------------------
(* The server, the clock, and what is done elsewhere. *)

Job ==
    /\ Server!Decide({Prompt}) \/ Server!Commit \/ Server!GiveUp
    /\ UNCHANGED <<clock, query, prompt, answered, mark, faults>>

\* From another tab or device: marked or answered.
Elsewhere ==
    /\ Server!Read({Prompt}) \/ (note[Prompt] # "unread" /\ Server!Cover({Prompt}))
    /\ UNCHANGED <<clock, query, prompt, answered, mark, faults>>

StartTimeComes ==
    /\ ahead /\ ahead' = FALSE
    /\ alarm' = IF alarm = "set" THEN "due" ELSE alarm
    /\ UNCHANGED <<prompts, date, visible, query, shown, modal, put, answered, mark, faults>>

\* The browser's; no effect depends on it.
Midnight ==
    /\ ~ahead
    /\ date # "after" /\ (Behind => date = "before")
    /\ date' = IF date = "before" THEN "same" ELSE "after"
    /\ ahead' \in BOOLEAN
    /\ UNCHANGED <<prompts, visible, query, prompt, answered, mark, faults>>

Switch ==
    /\ visible' = ~visible
    /\ UNCHANGED <<prompts, date, ahead, query, prompt, answered, mark, faults>>

-----------------------------------------------------------------------------
(* The query and the effects of useWorkStartTrigger. *)

\* mutant: a prompt that comes while the modal is open counts as shown
MutTriggerOpen(k, m) ==
    /\ shown' = (shown \/ k = "prompt")
    /\ IF m = "closed" /\ k = "prompt" /\ date = "same" /\ ~shown
       THEN modal' = "asking" /\ put' = TRUE
       ELSE modal' = m /\ UNCHANGED put

\* The first effect, which looks at the data k while the modal is m.
Trigger(k, m) ==
    IF m = "closed" /\ k = "prompt" /\ date = "same" /\ ~shown
    THEN modal' = "asking" /\ shown' = TRUE /\ put' = TRUE
    ELSE modal' = m /\ UNCHANGED <<shown, put>>

\* Every thirty seconds, while the tab is in front.
PollAsk ==
    /\ visible /\ poll = "none"
    /\ poll' = "asked"
    /\ UNCHANGED <<prompts, clock, known, prompt, answered, mark, faults>>

PollServe ==
    /\ poll = "asked"
    /\ poll' = IF note[Prompt] = "unread" THEN "prompt" ELSE "clear"
    /\ UNCHANGED <<prompts, clock, known, prompt, answered, mark, faults>>

PollLost ==
    /\ poll # "none" /\ faults < MaxFaults
    /\ poll' = "none" /\ faults' = faults + 1
    /\ UNCHANGED <<prompts, clock, known, prompt, answered, mark>>

\* The effect runs if the data changed; it may have changed in other rows.
PollHeard ==
    /\ poll \in Contents
    /\ known' = poll /\ poll' = "none"
    /\ \/ Trigger(poll, modal)
       \/ poll = known /\ UNCHANGED <<modal, shown, put>>
    /\ Disarm
    /\ UNCHANGED <<prompts, clock, answered, mark, faults>>

\* The timeout runs.
AlarmFires ==
    /\ alarm = "due"
    /\ alarm' = "off"
    /\ modal' = IF modal = "closed" THEN "asking" ELSE modal
    /\ UNCHANGED <<prompts, clock, query, shown, put, answered, mark, faults>>

\* work_start_time is changed, and the tab hears of it.
ChangeSettings ==
    /\ ahead' \in BOOLEAN
    /\ Trigger(known, modal)
    /\ Arm
    /\ UNCHANGED <<prompts, date, visible, query, answered, mark, faults>>

\* Everything in memory is gone; an answer under way is served all the same, and
\* a mark is one from elsewhere.
Reload ==
    /\ faults < MaxFaults /\ faults' = faults + 1
    /\ UNCHANGED <<prompts, clock, response, dismissed>>
    /\ Loaded

-----------------------------------------------------------------------------
(* The modal: nothing else can be used while it is open. *)

\* The first click shows the projects, of which one is then selected.
Choose ==
    /\ modal = "asking" /\ ~pending
    /\ modal' = "chosen"
    /\ UNCHANGED <<prompts, clock, query, shown, alarm, put, answered, mark, faults>>

\* One answer at a time: one sent before a reload ends first.
Send(answer) ==
    /\ modal # "closed" /\ ~pending /\ response = NoResponse
    /\ answer = "start" => modal = "chosen"
    /\ pending' = TRUE
    /\ response' = [phase |-> "sent", answer |-> answer]
    /\ UNCHANGED <<prompts, clock, query, prompt, dismissed, mark, faults>>

\* record_work_start_response looks for the unread prompt ...
ReadResponse ==
    /\ response.phase = "sent"
    /\ response' = [response EXCEPT !.phase = IF note[Prompt] = "unread" THEN "found" ELSE "missing"]
    /\ UNCHANGED <<prompts, clock, query, prompt, pending, dismissed, mark, faults>>

\* mutant: an answer that finds no prompt leaves nothing for the scheduler to see
MutCommitResponse ==
    /\ \/ response.phase = "found" /\ Server!Read({Prompt})
       \/ response.phase = "missing" /\ UNCHANGED prompts
    /\ response' = [response EXCEPT !.phase = "done"]
    /\ UNCHANGED <<clock, query, prompt, pending, dismissed, mark, faults>>

\* ... and marks it as read or, if there was none, leaves rows for the managers.
CommitResponse ==
    /\ \/ response.phase = "found" /\ Server!Read({Prompt})
       \/ response.phase = "missing" /\ Server!Cover({Prompt})
    /\ response' = [response EXCEPT !.phase = "done"]
    /\ UNCHANGED <<clock, query, prompt, pending, dismissed, mark, faults>>

\* A start is refused, as a timer runs already, and nothing is kept; or the call
\* or its answer is lost.
FailResponse ==
    /\ \/ response.phase \in {"found", "missing"} /\ response.answer = "start"
          /\ UNCHANGED faults
       \/ response.phase \in {"sent", "found", "missing", "done"}
          /\ faults < MaxFaults /\ faults' = faults + 1
    /\ response' = [response EXCEPT !.phase = "failed"]
    /\ UNCHANGED <<prompts, clock, query, prompt, pending, dismissed, mark>>

\* mutant: the first effect does not depend on the modal
MutResponseAnswered ==
    /\ response.phase \in {"done", "failed"}
    /\ response' = NoResponse
    /\ pending' = FALSE
    /\ IF pending /\ response.phase = "done"
       THEN dismissed' = TRUE /\ modal' = "closed" /\ UNCHANGED <<shown, put, ahead>> /\ Arm
       ELSE UNCHANGED <<dismissed, ahead, prompt>>
    /\ UNCHANGED <<prompts, date, visible, query, mark, faults>>

\* The modal closes if the answer was accepted, which runs both effects on the
\* data of the last poll; the query is not asked again.
ResponseAnswered ==
    /\ response.phase \in {"done", "failed"}
    /\ response' = NoResponse
    /\ pending' = FALSE
    /\ IF pending /\ response.phase = "done"
       THEN dismissed' = TRUE /\ Trigger(known, "closed") /\ UNCHANGED ahead /\ Arm
       ELSE UNCHANGED <<dismissed, ahead, prompt>>
    /\ UNCHANGED <<prompts, date, visible, query, mark, faults>>

-----------------------------------------------------------------------------
(* The bell. *)

\* "Mark all as read", or the two seconds after the sheet was opened.
MarkSend ==
    /\ mark = "none" /\ mark' = "sent"
    /\ UNCHANGED <<prompts, clock, query, prompt, answered, faults>>

MarkServe ==
    /\ mark = "sent"
    /\ \/ mark' = "done" /\ Server!Read({Prompt}) /\ UNCHANGED faults
       \/ mark' = "none" /\ faults < MaxFaults /\ faults' = faults + 1 /\ UNCHANGED prompts
    /\ UNCHANGED <<clock, query, prompt, answered>>

\* The attendance queries are invalidated: a request under way is dropped and
\* made anew, unless it is the first.
MarkHeard ==
    /\ mark = "done" /\ mark' = "none"
    /\ poll' = IF known = "unloaded" /\ poll # "none" THEN poll ELSE "asked"
    /\ UNCHANGED <<prompts, clock, known, prompt, answered, faults>>

World == Job \/ Elsewhere \/ StartTimeComes \/ Midnight \/ Switch
Tab == PollAsk \/ PollServe \/ PollLost \/ PollHeard \/ AlarmFires \/ ChangeSettings \/ Reload
Modal ==
    \/ Choose \/ \E answer \in Replies : Send(answer)
    \/ ReadResponse \/ CommitResponse \/ FailResponse \/ ResponseAnswered
Bell == MarkSend \/ MarkServe \/ MarkHeard

Next == World \/ Tab \/ Modal \/ Bell

\* A tab in front polls, and its requests come to an end; nobody need answer,
\* mark, or change anything, and the tab may go to the back for good.
Fairness == WF_vars(PollAsk) /\ WF_vars(PollServe \/ PollLost) /\ WF_vars(PollHeard)

Spec == Init /\ [][Next]_vars
FairSpec == Spec /\ Fairness

-----------------------------------------------------------------------------
(* Properties. *)

\* A prompt that the tab knows of is on display or was since the page was loaded,
\* as long as its date is the browser's: one that comes while the alarm has the
\* modal open, or an answer is under way, is not taken for shown, and closing the
\* modal puts it (useWorkStartTrigger's first effect runs on workStartOpen too).
KnownIsPut ==
    ~Behind /\ date = "same" /\ known = "prompt" => modal # "closed" \/ put

\* An answer was accepted, no prompt is unread, and no check is under way.
Silent == dismissed /\ note[Prompt] # "unread" /\ deciding = {}

\* An accepted answer silences the scheduler for the day, also when it found no
\* prompt to mark: only a check that was made before can still prompt
\* (record_work_start_response: "so the cron job's _already_notified_today guard
\* correctly skips it").
AnswerSilences == [][Silent => Silent']_vars

\* A prompt that stays unread is put before a member who keeps the tab in front,
\* though answers of the poll are lost or overtaken, the bell has them asked again,
\* and the alarm opens the same modal; unless the browser's date is another one
\* (useWorkStartTrigger).
PromptIsPut ==
    note[Prompt] = "unread" ~>
        modal # "closed" \/ note[Prompt] = "read" \/ ~visible \/ date = "after"

\* "Choosing 'Not Now' won't show this prompt again today" (WorkStartModal).
NotAgain == [][dismissed /\ modal = "closed" => modal' = "closed"]_vars
=============================================================================
