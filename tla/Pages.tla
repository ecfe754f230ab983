------------------------------- MODULE Pages -------------------------------
(***************************************************************************)
(* The pages of the web client that list things and change them: the week   *)
(* grid, the approvals, members, projects, clients, tags and the settings   *)
(* (src/web/src/app/(app) and src/web/src/features).  All of them work the   *)
(* same way: lists from the query cache, a form or dialog or a bare button,  *)
(* one call, and the queries its hook invalidates once it was accepted.     *)
(* The components below say what is particular to each.                     *)
(*                                                                         *)
(* The number of projects a client has is left out, which no operation on a  *)
(* project refreshes, and so is what rows contain: the server may refuse any   *)
(* call, since others change the same data.                                   *)
(* The queries of the cache do not depend on each other, so one of them, any, *)
(* is followed through a behaviour, with the operations that change something  *)
(* it shows; the other queries may be in any state.                          *)
(***************************************************************************)
EXTENDS PageTables

-----------------------------------------------------------------------------
VARIABLES
    query,      \* the query that is followed
    current, loaded, stale, fetch,  \* its state in the cache
    page,       \* the page on display
    form,       \* the form on display, and its row
    calls,      \* the calls sent, in that order
    told        \* (history) parts that an accepted call of the page on display changed

cache == <<current, loaded, stale, fetch>>
ui == <<page, form, calls, told>>
vars == <<query, cache, ui>>

Part == Parts(query)

INSTANCE QueryCache

Phases == {"sent", "served", "refused", "over"}
Over == [op |-> None, phase |-> "over", row |-> None, from |-> "gone", page |-> "dashboard", has |-> {}]
Closed == [name |-> "none", row |-> None]

CallRecord ==
    [op : Op \cup {None}, phase : Phases, row : Row \cup {None}, from : {"form", "page", "gone"},
     page : Page, has : SUBSET Part]

TypeOK ==
    /\ query \in Query
    /\ CacheTypeOK
    /\ page \in Page
    /\ form \in [name : {op.form.name : op \in Op}, row : Row \cup {None}]
    /\ calls \in Seq(CallRecord) /\ Len(calls) <= MaxCalls
    /\ told \in SUBSET Part

\* (What is true of one week is true of another.)
Init ==
    /\ query \in Query \ {"week_2"}
    /\ CacheInit
    /\ page = "dashboard" /\ form = Closed
    /\ calls = <<>>
    /\ told = {}

Shown == query \in Shows(page)

\* Operations whose hook is pending as far as the page on display knows.
Pending == {calls[i].op.name : i \in {k \in DOMAIN calls : calls[k].from = "form"}}

\* An entry, or a week, is changed on the page of its week.
Changes(op, from) == Part \cap (op.changes \cup IF op.on = Weeks THEN {from} ELSE {})

-----------------------------------------------------------------------------
(* The user. *)

\* What the page leaves behind does not disable or close anything any more.
Leave(to) ==
    [i \in DOMAIN calls |->
        IF calls[i].from = "gone" \/ StaysFor(calls[i].op, page, to) THEN calls[i]
        ELSE [calls[i] EXCEPT !.from = "gone"]]

Visit(to) ==
    /\ to # page /\ Matters(query, to) /\ form = Closed
    /\ page' = to
    /\ calls' = Leave(to)
    /\ told' = {}
    /\ Show(query \in Shows(to) \ Shows(page))
    /\ UNCHANGED <<query, form>>

\* The window is focused.
Focus ==
    /\ Show(Shown)
    /\ fetch' # fetch
    /\ UNCHANGED <<query, ui>>

Usable(op) == page \in op.on /\ (query \in op.needs => loaded) /\ op.locks \cap Pending = {}

Open(op, row) ==
    /\ form = Closed /\ op.form # NoForm /\ Usable(op)
    /\ form' = [name |-> op.form.name, row |-> row]
    /\ UNCHANGED <<query, cache, page, calls, told>>

\* A form that does not stay forgets that it has a call under way.
Close ==
    /\ form # Closed
    /\ form' = Closed
    /\ LET forgets == {op \in Op : op.form.name = form.name /\ ~op.form.stays}
       IN  calls' = [i \in DOMAIN calls |->
                IF calls[i].from = "form" /\ calls[i].op \in forgets
                THEN [calls[i] EXCEPT !.from = "page"] ELSE calls[i]]
    /\ UNCHANGED <<query, cache, page, told>>

Call(op, row) ==
    [op |-> op, phase |-> "sent", row |-> row, from |-> "form", page |-> page, has |-> {}]

Calling(new) ==
    /\ Len(calls) + Len(new) <= MaxCalls
    /\ calls' = calls \o new
    /\ UNCHANGED <<query, cache, page, form, told>>

\* The button of a form.
Submit(op) ==
    /\ op.form # NoForm /\ form.name = op.form.name /\ page \in op.on /\ form.row \in op.rows
    /\ op.form.submits \cap Pending = {}
    /\ Calling(<<Call(op, form.row)>>)

\* A button without a form.  "Save changes" makes two calls at once.
Press(op) ==
    /\ form = Closed /\ op.form = NoForm /\ Usable(op)
    /\ Calling(IF op \in WorkspaceSettings
               THEN <<Call(SaveWorkspace, None), Call(SaveAttendance, None)>>
               ELSE <<Call(op, None)>>)

-----------------------------------------------------------------------------
(* Calls. *)

Serve(i) ==
    /\ calls[i].phase = "sent"
    /\ LET op == calls[i].op  parts == Changes(op, calls[i].page)
       IN  /\ Changed(parts)
           /\ told' = told \ parts
           /\ calls' = [k \in DOMAIN calls |->
                IF k = i THEN [calls[k] EXCEPT !.phase = "served",
                                               !.has = IF query \in Answers(op.name) THEN Part ELSE {}]
                ELSE [calls[k] EXCEPT !.has = @ \ parts]]
    /\ UNCHANGED <<query, page, form>>

\* Somebody else was faster, a rule forbids it, or the call is lost.
Refuse(i) ==
    /\ calls[i].phase = "sent"
    /\ calls' = [calls EXCEPT ![i].phase = "refused"]
    /\ UNCHANGED <<query, cache, page, form, told>>

\* The dialog of an invite goes on to show its link.
Closes(i) ==
    /\ calls[i].from # "gone" /\ calls[i].op.name # "create_invite"
    /\ form.name = calls[i].op.form.name

Accepted(i) ==
    /\ calls[i].phase = "served"
    /\ LET op == calls[i].op
           to == IF calls[i].from = "gone" THEN page ELSE Leads(op, page)
       IN  /\ page' = to
           /\ form' = IF Closes(i) \/ Component(to) # Component(page) THEN Closed ELSE form
           /\ calls' = [Leave(to) EXCEPT ![i] = Over]
           /\ told' = IF to # page THEN {}
                      ELSE IF Shown /\ loaded /\ calls[i].from # "gone"
                           THEN told \cup Changes(op, calls[i].page) ELSE told
           /\ IF query \in Answers(op.name) THEN SetData(calls[i].has)
              ELSE IF query \in Invalidates(op.name) THEN Invalidate(Shown)
              ELSE UNCHANGED cache
    /\ UNCHANGED query

\* "Week is already submitted" closes the dialog; other failures keep the form.
Rejected(i) ==
    /\ calls[i].phase = "refused"
    /\ \E close \in {FALSE, calls[i].op.name = "submit_week"} :
        form' = IF close /\ Closes(i) THEN Closed ELSE form
    /\ calls' = [calls EXCEPT ![i] = Over]
    /\ UNCHANGED <<query, cache, page, told>>

Fetching == (ServeFetch \/ Arrive) /\ UNCHANGED <<query, ui>>

UserDoes(op) == (\E row \in op.rows : Open(op, row)) \/ Submit(op) \/ Press(op)

Answered(i) == Serve(i) \/ Refuse(i) \/ Accepted(i) \/ Rejected(i)

Next ==
    \/ \E to \in Page : Visit(to)
    \/ Focus
    \/ \E op \in Op : query \in op.concerns /\ UserDoes(op)
    \/ Close
    \/ \E i \in DOMAIN calls : Answered(i)
    \/ Fetching

\* Requests for data are answered; nobody need do anything, nor need calls be
\* answered.
Fairness == WF_vars(Fetching)

Spec == Init /\ [][Next]_vars
FairSpec == Spec /\ Fairness

-----------------------------------------------------------------------------
(* Properties. *)

\* The queries that some hook gives the body of an answer.
Direct == UNION {Answers(op.name) : op \in Op}

Underway(names) == {i \in DOMAIN calls : calls[i].from # "gone" /\ calls[i].op.name \in names}

\* While a verdict is under way the only form on display is its own dialog, so
\* the answer cannot close the dialog of another submission (ApprovalList: the
\* buttons of all rows are disabled while either call is pending).
VerdictKeepsItsDialog ==
    \A i \in Underway(Verdicts) : form \in {Closed, [name |-> calls[i].op.name, row |-> calls[i].row]}

\* A change that was accepted on the page on display is in the data shown, or on
\* its way: in the answer of a request under way, or asked for.  Answers that were
\* read before the change cannot hide it for good (cancelRefetch).
ChangesOnTheWay ==
    query \notin Direct =>
        \/ told \subseteq current
        \/ fetch.phase = "asked"
        \/ fetch.phase = "served" /\ told \subseteq fetch.has

\* An accepted change comes to be seen on the page it was made on: its hook
\* invalidates the lists of that page, and requests under way are repeated.  (Not
\* so where the hook puts the answer in the cache instead: a request under way
\* then overwrites it.)
OwnChangesShow ==
    query \notin Direct /\ told # {} ~> told \subseteq current

\* "Invalidate workspace queries so updated settings surface everywhere"
\* (useUpdateAttendanceSettings).
SettingsSurface ==
    "attendance" \in told ~> "attendance" \notin told \ current
=============================================================================
