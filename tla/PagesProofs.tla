----------------------------- MODULE PagesProofs -----------------------------
(***************************************************************************)
(* Proofs about Pages, for any rows, any of the pages visited, any number   *)
(* of calls and any query.  What the proofs need of the tables is proved    *)
(* first, page by page.                                                    *)
(***************************************************************************)
EXTENDS Pages, TLAPS

-----------------------------------------------------------------------------
(* The tables. *)

\* What an operation is made of.
LEMMA OperationFields ==
  \A name, on, dialog, locks, needs, rows, changes :
      LET op == Operation(name, on, dialog, locks, needs, rows, changes)
      IN  /\ op.name = name /\ op.on = on /\ op.form = dialog /\ op.locks = locks
          /\ op.rows = rows /\ op.changes = changes
  BY DEF Operation

\* A form is about a row, or makes something new.
FormSound(op) == op.rows \subseteq Row \cup {None}

\* Of the operations that are no verdict.
NoVerdict(op) ==
    op.name \notin Verdicts /\ "approvals" \notin op.on /\ "details" \notin op.on

Plain(op) == FormSound(op) /\ NoVerdict(op)

LEMMA PlainTimesheet ==
  \A op \in TimesheetPage \cup SubmitWeekButton : Plain(op)
  BY DEF TimesheetPage, SubmitWeekButton, Operation, Plain, FormSound, NoVerdict, AddEntrySheet,
         EditEntrySheet, SubmitDialog, Form, NoForm, Verdicts, Weeks

LEMMA PlainMembers ==
  \A op \in MembersPage : Plain(op)
  BY DEF MembersPage, Operation, Plain, FormSound, NoVerdict, RemoveDialog, InviteDialog, Form, NoForm,
         Verdicts

LEMMA PlainClients ==
  \A op \in ClientsClient : Plain(op)
  BY DEF ClientsClient, Operation, Plain, FormSound, NoVerdict, ClientDialog, Form, NoForm, Verdicts

LEMMA PlainProjects ==
  \A op \in ProjectsPage \cup ProjectList : Plain(op)
  BY DEF ProjectsPage, ProjectList, Operation, Plain, FormSound, NoVerdict, ProjectDialog, Form, NoForm,
         Verdicts

LEMMA PlainProject ==
  \A op \in ProjectDetailClient \cup ProjectMembers : Plain(op)
  BY DEF ProjectDetailClient, ProjectMembers, Operation, Plain, FormSound, NoVerdict, ProjectDialog, Form,
         NoForm, Verdicts, Tabs, Panels

LEMMA PlainTasks ==
  \A op \in TaskTable : Plain(op)
  BY DEF TaskTable, Operation, Plain, FormSound, NoVerdict, TaskDialog, Form, NoForm, Verdicts

LEMMA PlainTags ==
  \A op \in TagsClient : Plain(op)
  BY DEF TagsClient, Operation, Plain, FormSound, NoVerdict, TagDialog, Form, NoForm, Verdicts

LEMMA PlainSettings ==
  \A op \in WorkspaceSettings \cup Switches \cup ProfileSettings : Plain(op)
  BY DEF WorkspaceSettings, SaveWorkspace, SaveAttendance, Switches, ProfileSettings, Operation, Plain,
         FormSound, NoVerdict, BillableDialog, DeleteDialog, Form, NoForm, Verdicts

\* The dialog of a verdict is its own, and its buttons wait for both verdicts.
LEMMA VerdictTable ==
  \A op \in ApprovalList :
      /\ FormSound(op)
      /\ op.name \in Verdicts /\ op.on = {"approvals"} /\ op.locks = Verdicts
      /\ op.form = Form(op.name, {op.name}) /\ op.form # NoForm
      /\ op.changes = {"pending", "details"} \cup Weeks
<1> SUFFICES ASSUME NEW op \in ApprovalList
             PROVE  /\ FormSound(op)
                    /\ op.name \in Verdicts /\ op.on = {"approvals"} /\ op.locks = Verdicts
                    /\ op.form = Form(op.name, {op.name}) /\ op.form # NoForm
                    /\ op.changes = {"pending", "details"} \cup Weeks
  OBVIOUS
<1>1. PICK name \in Verdicts :
          op = Operation(name, {"approvals"}, Form(name, {name}), Verdicts, {"pending"}, Row,
                         {"pending", "details"} \cup Weeks)
  BY DEF ApprovalList
<1>2. /\ op.name = name /\ op.on = {"approvals"} /\ op.locks = Verdicts /\ op.rows = Row
      /\ op.form = Form(name, {name}) /\ op.changes = {"pending", "details"} \cup Weeks
  BY <1>1 DEF Operation
<1>3. op.form.name = name /\ name # "none"
  BY <1>2 DEF Form, Verdicts
<1>4. QED
  BY <1>2, <1>3 DEF FormSound, NoForm

\* Every operation is plain, or a verdict.
LEMMA OpTable ==
  ASSUME NEW op \in Op
  PROVE  FormSound(op) /\ (NoVerdict(op) \/ op \in ApprovalList)
  BY PlainTimesheet, PlainMembers, PlainClients, PlainProjects, PlainProject, PlainTasks, PlainTags,
     PlainSettings, VerdictTable DEF Op, Plain

\* There are buttons without a form.
LEMMA NoFormName == "none" \in {op.form.name : op \in Op}
<1>1. SaveWorkspace \in Op /\ SaveWorkspace.form.name = "none"
  BY DEF Op, WorkspaceSettings, SaveWorkspace, Operation, NoForm
<1>2. QED
  BY <1>1

-----------------------------------------------------------------------------
(* What a page shows and its operations change is invalidated by their hooks. *)

\* What is changed of a query by an operation that was called from a page.
Touched(op, from, q) == Parts(q) \cap (op.changes \cup IF op.on = Weeks THEN {from} ELSE {})

\* It is invalidated, unless the hook puts the answer there.
Refreshed(op, q) == q \in Invalidates(op.name) \cup Direct

LEMMA HooksInvalidate ==
  ASSUME NEW h \in Hooks, NEW name \in DOMAIN h
  PROVE  h[name] \subseteq Invalidates(name)
  BY DEF Invalidates

LEMMA DirectTable == "workspace" \in Direct /\ "me" \in Direct
<1>1. SaveWorkspace \in Op /\ "workspace" \in Answers(SaveWorkspace.name)
  BY DEF Op, WorkspaceSettings, SaveWorkspace, Operation, Answers
<1>2. \A op \in ProfileSettings : op \in Op /\ "me" \in Answers(op.name)
  BY DEF Op, ProfileSettings, Operation, Answers
<1>3. \E op \in ProfileSettings : TRUE
  BY DEF ProfileSettings
<1>4. QED
  BY <1>1, <1>2, <1>3 DEF Direct

\* All parts of a list are the list.
LEMMA TouchedList ==
  ASSUME NEW op, NEW from, NEW q, Touched(op, from, q) # {}, q \notin Direct
  PROVE  q \in op.changes \/ (op.on = Weeks /\ q = from)
<1>1. q # "workspace"
  BY DirectTable
<1>2. Parts(q) = {q}
  BY <1>1 DEF Parts
<1>3. QED
  BY <1>2 DEF Touched

LEMMA RefreshedTimesheet ==
  ASSUME NEW op \in TimesheetPage \cup SubmitWeekButton, NEW from \in op.on, NEW at \in Site,
         Component(at) = Component(from), NEW q \in Shows(at), Touched(op, from, q) # {}
  PROVE  Refreshed(op, q)
<1> SUFFICES ASSUME q \notin Direct PROVE q \in Invalidates(op.name)
  BY DEF Refreshed
<1>1. op.on = Weeks /\ op.name \in {"create_entry", "update_entry", "submit_week"}
  BY DEF TimesheetPage, SubmitWeekButton, Operation
<1>2. at \in Weeks
  BY <1>1 DEF Component, Site, Tabs, Panels, Weeks
<1>3. q \in Weeks
  <2>1. q \in {"workspaces", at, "workspace", "me"}
    BY <1>2 DEF Shows, Tabs, Panels, Weeks
  <2>2. q # "workspaces"
    <3>1. "workspaces" \notin op.changes /\ from # "workspaces"
      BY <1>1 DEF TimesheetPage, SubmitWeekButton, Operation, Weeks
    <3>2. QED
      BY <3>1, TouchedList
  <2>3. QED
    BY <1>2, <2>1, <2>2, DirectTable
<1>4. CASE op.name \in {"create_entry", "update_entry"}
  <2>1. EntryHooks \in Hooks /\ op.name \in DOMAIN EntryHooks /\ Weeks \subseteq EntryHooks[op.name]
    BY <1>4 DEF Hooks, EntryHooks
  <2>2. QED
    BY <1>3, <2>1, HooksInvalidate
<1>5. CASE op.name = "submit_week"
  <2>1. ApprovalHooks \in Hooks /\ op.name \in DOMAIN ApprovalHooks /\ Weeks \subseteq ApprovalHooks[op.name]
    BY <1>5 DEF Hooks, ApprovalHooks
  <2>2. QED
    BY <1>3, <2>1, HooksInvalidate
<1>6. QED
  BY <1>1, <1>4, <1>5

LEMMA RefreshedApprovals ==
  ASSUME NEW op \in ApprovalList, NEW from \in op.on, NEW at \in Site,
         Component(at) = Component(from), NEW q \in Shows(at), Touched(op, from, q) # {}
  PROVE  Refreshed(op, q)
<1> SUFFICES ASSUME q \notin Direct PROVE q \in Invalidates(op.name)
  BY DEF Refreshed
<1>1. op.name \in Verdicts /\ op.on = {"approvals"} /\ op.changes = {"pending", "details"} \cup Weeks
  BY VerdictTable
<1>2. at \in {"approvals", "details"}
  BY <1>1 DEF Component, Site, Tabs, Panels, Weeks
<1>3. q \in {"workspaces", "pending", "members", "workspace", "details"}
  BY <1>2 DEF Shows, Tabs, Panels, Weeks
<1>4. q \in {"pending", "details"}
  BY <1>1, <1>3, TouchedList DEF Weeks
<1>5. ApprovalHooks \in Hooks /\ op.name \in DOMAIN ApprovalHooks
      /\ {"pending", "details"} \subseteq ApprovalHooks[op.name]
  BY <1>1 DEF Hooks, ApprovalHooks
<1>6. QED
  BY <1>4, <1>5, HooksInvalidate

LEMMA RefreshedMembers ==
  ASSUME NEW op \in MembersPage, NEW from \in op.on, NEW at \in Site,
         Component(at) = Component(from), NEW q \in Shows(at), Touched(op, from, q) # {}
  PROVE  Refreshed(op, q)
<1> SUFFICES ASSUME q \notin Direct PROVE q \in Invalidates(op.name)
  BY DEF Refreshed
<1>1. op.on = {"members"}
      /\ \/ op.name \in {"change_role", "remove_member"} /\ op.changes = {"members"}
         \/ op.name \in {"create_invite", "revoke_invite"} /\ op.changes = {"invites"}
  BY DEF MembersPage, Operation
<1>2. op.on # Weeks
  BY <1>1 DEF Weeks
<1>3. CASE op.name \in {"change_role", "remove_member"} /\ op.changes = {"members"}
  <2>1. RoleHooks \in Hooks /\ op.name \in DOMAIN RoleHooks /\ "members" \in RoleHooks[op.name]
    BY <1>3 DEF Hooks, RoleHooks
  <2>2. QED
    BY <1>2, <1>3, <2>1, HooksInvalidate, TouchedList
<1>4. CASE op.name \in {"create_invite", "revoke_invite"} /\ op.changes = {"invites"}
  <2>1. InviteHooks \in Hooks /\ op.name \in DOMAIN InviteHooks /\ "invites" \in InviteHooks[op.name]
    BY <1>4 DEF Hooks, InviteHooks
  <2>2. QED
    BY <1>2, <1>4, <2>1, HooksInvalidate, TouchedList
<1>5. QED
  BY <1>1, <1>3, <1>4

LEMMA RefreshedClients ==
  ASSUME NEW op \in ClientsClient, NEW from \in op.on, NEW at \in Site,
         Component(at) = Component(from), NEW q \in Shows(at), Touched(op, from, q) # {}
  PROVE  Refreshed(op, q)
<1> SUFFICES ASSUME q \notin Direct PROVE q \in Invalidates(op.name)
  BY DEF Refreshed
<1>1. op.on = {"clients"} /\ op.name \in {"create_client", "update_client", "delete_client"}
      /\ op.changes \subseteq {"clients", "projects", "project"}
  BY DEF ClientsClient, Operation
<1>2. at = "clients" /\ op.on # Weeks
  BY <1>1 DEF Component, Site, Tabs, Panels, Weeks
<1>3. q = "clients"
  BY <1>1, <1>2, TouchedList DEF Shows, Tabs, Panels, Weeks
<1>4. ClientHooks \in Hooks /\ op.name \in DOMAIN ClientHooks /\ "clients" \in ClientHooks[op.name]
  BY <1>1 DEF Hooks, ClientHooks
<1>5. QED
  BY <1>3, <1>4, HooksInvalidate

LEMMA RefreshedProjects ==
  ASSUME NEW op \in ProjectsPage \cup ProjectList, NEW from \in op.on, NEW at \in Site,
         Component(at) = Component(from), NEW q \in Shows(at), Touched(op, from, q) # {}
  PROVE  Refreshed(op, q)
<1> SUFFICES ASSUME q \notin Direct PROVE q \in Invalidates(op.name)
  BY DEF Refreshed
<1>1. op.on = {"projects"}
      /\ op.name \in {"create_project", "edit_project", "archive_listed", "delete_listed"}
      /\ op.changes \subseteq {"projects", "project"} \cup Weeks
  BY DEF ProjectsPage, ProjectList, Operation
<1>2. at = "projects" /\ op.on # Weeks
  BY <1>1 DEF Component, Site, Tabs, Panels, Weeks
<1>3. q = "projects"
  BY <1>1, <1>2, TouchedList DEF Shows, Tabs, Panels, Weeks
<1>4. ProjectHooks \in Hooks /\ op.name \in DOMAIN ProjectHooks /\ "projects" \in ProjectHooks[op.name]
  BY <1>1 DEF Hooks, ProjectHooks
<1>5. QED
  BY <1>3, <1>4, HooksInvalidate

LEMMA RefreshedProject ==
  ASSUME NEW op \in ProjectDetailClient \cup ProjectMembers \cup TaskTable,
         NEW from \in op.on, NEW at \in Site,
         Component(at) = Component(from), NEW q \in Shows(at), Touched(op, from, q) # {}
  PROVE  Refreshed(op, q)
<1> SUFFICES ASSUME q \notin Direct PROVE q \in Invalidates(op.name)
  BY DEF Refreshed
<1>1. /\ op.on \in {{"project"}, Tabs, {"project_tasks"}, {"project_people"}}
      /\ \/ op \in ProjectDetailClient /\ op.changes \subseteq {"projects", "project"} \cup Weeks
            /\ op.name \in {"update_project", "archive_project", "unarchive_project", "delete_project"}
         \/ op \in ProjectMembers /\ op.changes = {"project_members"}
            /\ op.name \in {"add_project_member", "remove_project_member"}
         \/ op \in TaskTable /\ op.changes \subseteq {"tasks"} \cup Weeks
            /\ op.name \in {"create_task", "update_task", "delete_task"}
  BY DEF ProjectDetailClient, ProjectMembers, TaskTable, Operation
<1>2. at \in Tabs /\ op.on # Weeks
  <2>1. from \in Tabs /\ op.on # Weeks
    BY <1>1 DEF Tabs, Panels, Weeks
  <2>2. Component(at) = "project"
    BY <2>1 DEF Component, Tabs, Panels, Weeks
  <2>3. QED
    BY <2>1, <2>2 DEF Component, Site, Tabs, Panels, Weeks
<1>3. q \in op.changes /\ q \notin Weeks /\ q # "projects"
  <2>1. q \in {"workspaces", "project", "project_entries", "clients", "workspace", "members",
               "project_members", "tasks"}
    BY <1>2 DEF Shows, Weeks, Tabs, Panels
  <2>2. QED
    BY <1>2, <2>1, TouchedList DEF Weeks
<1>4. CASE op \in ProjectDetailClient
  <2>1. op.name \in DOMAIN ProjectHooks /\ "project" \in ProjectHooks[op.name] /\ q = "project"
    BY <1>1, <1>3, <1>4 DEF ProjectHooks, ProjectDetailClient, Operation
  <2>2. ProjectHooks \in Hooks
    BY DEF Hooks
  <2>3. QED
    BY <2>1, <2>2, HooksInvalidate
<1>5. CASE op \in ProjectMembers
  <2>1. op.name \in DOMAIN ProjectMemberHooks /\ "project_members" \in ProjectMemberHooks[op.name]
        /\ q = "project_members"
    BY <1>3, <1>5 DEF ProjectMemberHooks, ProjectMembers, Operation
  <2>2. ProjectMemberHooks \in Hooks
    BY DEF Hooks
  <2>3. QED
    BY <2>1, <2>2, HooksInvalidate
<1>6. CASE op \in TaskTable
  <2>1. op.name \in DOMAIN TaskHooks /\ "tasks" \in TaskHooks[op.name] /\ q = "tasks"
    BY <1>3, <1>6 DEF TaskHooks, TaskTable, Operation
  <2>2. TaskHooks \in Hooks
    BY DEF Hooks
  <2>3. QED
    BY <2>1, <2>2, HooksInvalidate
<1>7. QED
  BY <1>4, <1>5, <1>6

LEMMA RefreshedTags ==
  ASSUME NEW op \in TagsClient, NEW from \in op.on, NEW at \in Site,
         Component(at) = Component(from), NEW q \in Shows(at), Touched(op, from, q) # {}
  PROVE  Refreshed(op, q)
<1> SUFFICES ASSUME q \notin Direct PROVE q \in Invalidates(op.name)
  BY DEF Refreshed
<1>1. op.on = {"tags"} /\ op.name \in {"create_tag", "update_tag", "delete_tag"} /\ op.changes = {"tags"}
  BY DEF TagsClient, Operation
<1>2. TagHooks \in Hooks /\ op.name \in DOMAIN TagHooks /\ "tags" \in TagHooks[op.name]
  BY <1>1 DEF Hooks, TagHooks
<1>3. op.on # Weeks
  BY <1>1 DEF Weeks
<1>4. QED
  BY <1>1, <1>2, <1>3, HooksInvalidate, TouchedList

LEMMA RefreshedSettings ==
  ASSUME NEW op \in WorkspaceSettings \cup Switches \cup ProfileSettings, NEW from \in op.on, NEW at \in Site,
         Component(at) = Component(from), NEW q \in Shows(at), Touched(op, from, q) # {}
  PROVE  Refreshed(op, q)
<1> SUFFICES ASSUME q \notin Direct PROVE q \in Invalidates(op.name)
  BY DEF Refreshed
<1>1. \/ op.on = {"settings"} /\ op.changes \subseteq {"general", "attendance", "billable", "workspaces"}
      \/ op.on = {"profile"} /\ op.changes = {"me", "members"}
  BY DEF WorkspaceSettings, SaveWorkspace, SaveAttendance, Switches, ProfileSettings, Operation
<1>2. op.on # Weeks /\ q \notin {"me", "workspace"} /\ q \in op.changes
  <2>1. op.on # Weeks
    BY <1>1 DEF Weeks
  <2>2. QED
    BY <2>1, DirectTable, TouchedList
<1>3. q = "workspaces" /\ q \in op.changes
  <2>1. CASE op.on = {"settings"}
    <3>1. at = "settings"
      BY <2>1 DEF Component, Site, Tabs, Panels, Weeks
    <3>2. QED
      BY <1>2, <3>1 DEF Shows, Tabs, Panels, Weeks
  <2>2. CASE op.on = {"profile"}
    <3>1. at = "profile"
      BY <2>2 DEF Component, Site, Tabs, Panels, Weeks
    <3>2. QED
      BY <1>2, <3>1 DEF Shows, Tabs, Panels, Weeks
  <2>3. QED
    BY <1>1, <2>1, <2>2
<1>4. op.name \in {"save_workspace", "delete_workspace"}
  BY <1>3 DEF WorkspaceSettings, SaveWorkspace, SaveAttendance, Switches, ProfileSettings, Operation
<1>5. WorkspaceHooks \in Hooks /\ op.name \in DOMAIN WorkspaceHooks
      /\ "workspaces" \in WorkspaceHooks[op.name]
  BY <1>4 DEF Hooks, WorkspaceHooks
<1>6. QED
  BY <1>3, <1>5, HooksInvalidate

\* Whatever is changed of a query that is on display, by an operation of the
\* component on display, is invalidated by its hook.
LEMMA RefreshTable ==
  ASSUME NEW op \in Op, NEW from \in op.on, NEW at \in Site, Component(at) = Component(from),
         NEW q \in Shows(at), Touched(op, from, q) # {}
  PROVE  Refreshed(op, q)
  BY RefreshedTimesheet, RefreshedApprovals, RefreshedMembers, RefreshedClients, RefreshedProjects,
     RefreshedProject, RefreshedTags, RefreshedSettings DEF Op

-----------------------------------------------------------------------------
(* The invariant. *)

\* A call that is not over is of an operation of the page it was sent from, which
\* is on display as long as the page waits for it; only a form that does not stay
\* forgets its call.
CallSound(c) ==
    /\ c.phase = "over" => c.from = "gone"
    /\ c.phase # "over" => c.op \in Op /\ c.page \in c.op.on
    /\ c.from # "gone" => Component(c.page) = Component(page)
    /\ c.from = "page" => ~c.op.form.stays

CallsSound == \A i \in DOMAIN calls : CallSound(calls[i])

\* The answer of a request under way will not hide a change that was accepted.
FetchSound ==
    query \notin Direct => (fetch.phase = "served" => told \subseteq fetch.has)

IInv ==
    /\ TypeOK
    /\ CallsSound /\ VerdictKeepsItsDialog
    /\ FetchSound /\ ChangesOnTheWay

\* What a step makes of a call that was sent before.
Kept(c, d) ==
    \/ d = Over
    \/ /\ d.op = c.op /\ d.row = c.row /\ d.page = c.page
       /\ d.phase = "over" <=> c.phase = "over"
       /\ \/ d.from = c.from
          \/ d.from = "gone"
          \/ c.from = "form" /\ d.from = "page" /\ ~c.op.form.stays

\* The calls that were sent before are the same, or further on.
AllKept == \A i \in DOMAIN calls : i \in DOMAIN calls' /\ Kept(calls[i], calls'[i])

CallsType == calls \in Seq(CallRecord) /\ Len(calls) <= MaxCalls

-----------------------------------------------------------------------------
(* Calls. *)

LEMMA SameRecords ==
  ASSUME query' = query
  PROVE  Part' = Part /\ CallRecord' = CallRecord
  BY DEF Part, CallRecord

LEMMA CallsAreRecords ==
  ASSUME CallsType
  PROVE  /\ Len(calls) \in Nat /\ DOMAIN calls = 1..Len(calls)
         /\ \A i \in DOMAIN calls : calls[i] \in CallRecord
  BY DEF CallsType

LEMMA OverIsRecord == Over \in CallRecord
  BY PageAssumption DEF Over, CallRecord, Phases

\* Calls that are changed one by one.
LEMMA CallsMapped ==
  ASSUME CallsType, query' = query,
         calls' = [k \in DOMAIN calls |-> calls'[k]],
         \A k \in DOMAIN calls : calls'[k] \in CallRecord
  PROVE  CallsType' /\ DOMAIN calls' = DOMAIN calls
<1>1. calls' \in [1..Len(calls) -> CallRecord] /\ Len(calls) \in Nat
  BY CallsAreRecords
<1>2. calls' \in Seq(CallRecord) /\ Len(calls') = Len(calls)
  BY <1>1
<1>3. QED
  BY <1>1, <1>2, SameRecords, CallsAreRecords DEF CallsType

LEMMA VisitCalls ==
  ASSUME CallsType, query' = query, NEW to, calls' = Leave(to)
  PROVE  /\ CallsType' /\ AllKept /\ DOMAIN calls' = DOMAIN calls
         /\ Component(page) # Component(to) => \A i \in DOMAIN calls : calls'[i].from = "gone"
<1>1. \A i \in DOMAIN calls :
          /\ calls'[i] \in CallRecord /\ Kept(calls[i], calls'[i])
          /\ Component(page) # Component(to) => calls'[i].from = "gone"
  <2> SUFFICES ASSUME NEW i \in DOMAIN calls
               PROVE  /\ calls'[i] \in CallRecord /\ Kept(calls[i], calls'[i])
                      /\ Component(page) # Component(to) => calls'[i].from = "gone"
    OBVIOUS
  <2>1. calls[i] \in CallRecord
    BY CallsAreRecords
  <2>2. CASE calls[i].from = "gone" \/ StaysFor(calls[i].op, page, to)
    <3>1. calls'[i] = calls[i]
      BY <2>2 DEF Leave
    <3>2. QED
      BY <2>1, <2>2, <3>1 DEF Kept, StaysFor
  <2>3. CASE ~(calls[i].from = "gone" \/ StaysFor(calls[i].op, page, to))
    <3>1. calls'[i] = [calls[i] EXCEPT !.from = "gone"]
      BY <2>3 DEF Leave
    <3>2. QED
      BY <2>1, <3>1 DEF CallRecord, Kept
  <2>4. QED
    BY <2>2, <2>3
<1>2. calls' = [k \in DOMAIN calls |-> calls'[k]]
  BY DEF Leave
<1>3. CallsType' /\ DOMAIN calls' = DOMAIN calls
  BY <1>1, <1>2, CallsMapped
<1>4. QED
  BY <1>1, <1>3 DEF AllKept

LEMMA CloseCalls ==
  ASSUME CallsType, Close
  PROVE  CallsType' /\ AllKept /\ DOMAIN calls' = DOMAIN calls
<1> DEFINE forgets == {op \in Op : op.form.name = form.name /\ ~op.form.stays}
<1>1. /\ query' = query
      /\ calls' = [i \in DOMAIN calls |->
                IF calls[i].from = "form" /\ calls[i].op \in forgets
                THEN [calls[i] EXCEPT !.from = "page"] ELSE calls[i]]
  BY DEF Close, cache
<1>2. \A i \in DOMAIN calls : calls'[i] \in CallRecord /\ Kept(calls[i], calls'[i])
  <2> SUFFICES ASSUME NEW i \in DOMAIN calls
               PROVE  calls'[i] \in CallRecord /\ Kept(calls[i], calls'[i])
    OBVIOUS
  <2>1. calls[i] \in CallRecord
    BY CallsAreRecords
  <2>2. CASE calls[i].from = "form" /\ calls[i].op \in forgets
    <3>1. calls'[i] = [calls[i] EXCEPT !.from = "page"] /\ ~calls[i].op.form.stays
      BY <1>1, <2>2
    <3>2. QED
      BY <2>1, <2>2, <3>1 DEF CallRecord, Kept
  <2>3. CASE ~(calls[i].from = "form" /\ calls[i].op \in forgets)
    BY <1>1, <2>1, <2>3 DEF Kept
  <2>4. QED
    BY <2>2, <2>3
<1>3. calls' = [k \in DOMAIN calls |-> calls'[k]]
  BY <1>1
<1>4. CallsType' /\ DOMAIN calls' = DOMAIN calls
  BY <1>1, <1>2, <1>3, CallsMapped
<1>5. QED
  BY <1>2, <1>4 DEF AllKept

LEMMA ServeCalls ==
  ASSUME CallsType, NEW n \in DOMAIN calls, Serve(n)
  PROVE  CallsType' /\ AllKept /\ DOMAIN calls' = DOMAIN calls
<1> DEFINE op == calls[n].op
<1> DEFINE parts == Changes(op, calls[n].page)
<1>1. /\ query' = query /\ calls[n].phase = "sent"
      /\ calls' = [k \in DOMAIN calls |->
                IF k = n THEN [calls[k] EXCEPT !.phase = "served",
                                               !.has = IF query \in Answers(op.name) THEN Part ELSE {}]
                ELSE [calls[k] EXCEPT !.has = @ \ parts]]
  BY DEF Serve
<1> HIDE DEF op, parts
<1>2. \A i \in DOMAIN calls : calls'[i] \in CallRecord /\ Kept(calls[i], calls'[i])
  <2> SUFFICES ASSUME NEW i \in DOMAIN calls
               PROVE  calls'[i] \in CallRecord /\ Kept(calls[i], calls'[i])
    OBVIOUS
  <2>1. calls[i] \in CallRecord
    BY CallsAreRecords
  <2>2. CASE i = n
    <3> DEFINE has == IF query \in Answers(op.name) THEN Part ELSE {}
    <3>1. calls'[i] = [calls[i] EXCEPT !.phase = "served", !.has = has] /\ has \subseteq Part
      BY <1>1, <2>2
    <3> HIDE DEF has
    <3>2. QED
      BY <1>1, <2>1, <2>2, <3>1 DEF CallRecord, Phases, Kept
  <2>3. CASE i # n
    <3>1. calls'[i] = [calls[i] EXCEPT !.has = calls[i].has \ parts]
      BY <1>1, <2>3
    <3>2. QED
      BY <2>1, <3>1 DEF CallRecord, Kept
  <2>4. QED
    BY <2>2, <2>3
<1>3. calls' = [k \in DOMAIN calls |-> calls'[k]]
  BY <1>1
<1>4. CallsType' /\ DOMAIN calls' = DOMAIN calls
  BY <1>1, <1>2, <1>3, CallsMapped
<1>5. QED
  BY <1>2, <1>4 DEF AllKept

LEMMA RefuseCalls ==
  ASSUME CallsType, NEW n \in DOMAIN calls, Refuse(n)
  PROVE  CallsType' /\ AllKept /\ DOMAIN calls' = DOMAIN calls
<1>1. query' = query /\ calls' = [calls EXCEPT ![n].phase = "refused"] /\ calls[n].phase = "sent"
  BY DEF Refuse
<1>2. \A i \in DOMAIN calls : calls'[i] \in CallRecord /\ Kept(calls[i], calls'[i])
  <2> SUFFICES ASSUME NEW i \in DOMAIN calls
               PROVE  calls'[i] \in CallRecord /\ Kept(calls[i], calls'[i])
    OBVIOUS
  <2>1. calls[i] \in CallRecord
    BY CallsAreRecords
  <2>2. CASE i = n
    <3>1. calls'[i] = [calls[i] EXCEPT !.phase = "refused"]
      BY <1>1, <2>2
    <3>2. QED
      BY <1>1, <2>1, <2>2, <3>1 DEF CallRecord, Phases, Kept
  <2>3. CASE i # n
    BY <1>1, <2>1, <2>3 DEF Kept
  <2>4. QED
    BY <2>2, <2>3
<1>3. calls' = [k \in DOMAIN calls |-> calls'[k]]
  BY <1>1, CallsAreRecords DEF CallsType
<1>4. CallsType' /\ DOMAIN calls' = DOMAIN calls
  BY <1>1, <1>2, <1>3, CallsMapped
<1>5. QED
  BY <1>2, <1>4 DEF AllKept

LEMMA RejectCalls ==
  ASSUME CallsType, NEW n \in DOMAIN calls, Rejected(n)
  PROVE  CallsType' /\ AllKept /\ DOMAIN calls' = DOMAIN calls
<1>1. query' = query /\ calls' = [calls EXCEPT ![n] = Over]
  BY DEF Rejected
<1>2. \A i \in DOMAIN calls : calls'[i] \in CallRecord /\ Kept(calls[i], calls'[i])
  BY <1>1, CallsAreRecords, OverIsRecord DEF Kept
<1>3. calls' = [k \in DOMAIN calls |-> calls'[k]]
  BY <1>1, CallsAreRecords DEF CallsType
<1>4. CallsType' /\ DOMAIN calls' = DOMAIN calls
  BY <1>1, <1>2, <1>3, CallsMapped
<1>5. QED
  BY <1>2, <1>4 DEF AllKept

LEMMA AcceptCalls ==
  ASSUME CallsType, NEW n \in DOMAIN calls, Accepted(n)
  PROVE  /\ CallsType' /\ AllKept /\ DOMAIN calls' = DOMAIN calls
         /\ Component(page) # Component(page') => \A i \in DOMAIN calls : calls'[i].from = "gone"
<1>1. query' = query /\ calls' = [Leave(page') EXCEPT ![n] = Over]
  BY DEF Accepted
<1>2. ASSUME NEW i \in DOMAIN calls
      PROVE  /\ calls'[i] \in CallRecord /\ Kept(calls[i], calls'[i])
             /\ Component(page) # Component(page') => calls'[i].from = "gone"
  <2>1. calls[i] \in CallRecord
    BY CallsAreRecords
  <2>2. CASE i = n
    <3>1. calls'[i] = Over
      BY <1>1, <2>2 DEF Leave
    <3>2. QED
      BY <3>1, OverIsRecord DEF Kept, Over
  <2>3. CASE i # n /\ (calls[i].from = "gone" \/ StaysFor(calls[i].op, page, page'))
    <3>1. calls'[i] = calls[i]
      BY <1>1, <2>3 DEF Leave
    <3>2. QED
      BY <2>1, <2>3, <3>1 DEF Kept, StaysFor
  <2>4. CASE i # n /\ ~(calls[i].from = "gone" \/ StaysFor(calls[i].op, page, page'))
    <3>1. calls'[i] = [calls[i] EXCEPT !.from = "gone"]
      BY <1>1, <2>4 DEF Leave
    <3>2. QED
      BY <2>1, <3>1 DEF CallRecord, Kept
  <2>5. QED
    BY <2>2, <2>3, <2>4
<1>3. calls' = [k \in DOMAIN calls |-> calls'[k]]
  BY <1>1 DEF Leave
<1>4. CallsType' /\ DOMAIN calls' = DOMAIN calls
  BY <1>1, <1>2, <1>3, CallsMapped
<1>5. QED
  BY <1>2, <1>4 DEF AllKept

-----------------------------------------------------------------------------
(* Forms. *)

\* A verdict that is under way waits on its page, with both buttons disabled.
LEMMA VerdictUnderway ==
  ASSUME TypeOK, CallsSound, NEW i \in Underway(Verdicts)
  PROVE  /\ page \in {"approvals", "details"}
         /\ calls[i].op.name \in Pending \cap Verdicts
<1>1. i \in DOMAIN calls /\ calls[i].from # "gone" /\ calls[i].op.name \in Verdicts
  BY DEF Underway
<1>2. CallSound(calls[i])
  BY <1>1 DEF CallsSound
<1>3. calls[i].op \in Op /\ calls[i].page \in calls[i].op.on /\ Component(calls[i].page) = Component(page)
  BY <1>1, <1>2 DEF CallSound
<1>4. calls[i].op \in ApprovalList
  BY <1>1, <1>3, OpTable DEF NoVerdict
<1>5. calls[i].op.on = {"approvals"} /\ calls[i].op.form = Form(calls[i].op.name, {calls[i].op.name})
  BY <1>4, VerdictTable
<1>6. page \in {"approvals", "details"}
  <2>1. Component(page) = "approvals"
    BY <1>3, <1>5 DEF Component, Tabs, Panels, Weeks
  <2>2. page \in Site
    BY PageAssumption DEF TypeOK
  <2>3. QED
    BY <2>1, <2>2 DEF Component, Site, Tabs, Panels, Weeks
<1>7. calls[i].from = "form"
  <2>1. calls[i].op.form.stays
    BY <1>5 DEF Form
  <2>2. calls[i] \in CallRecord
    BY <1>1, CallsAreRecords DEF TypeOK, CallsType
  <2>3. QED
    BY <1>1, <1>2, <2>1, <2>2 DEF CallSound, CallRecord
<1>8. QED
  BY <1>1, <1>6, <1>7 DEF Pending

\* What happens to calls that were sent before disturbs no form.
LEMMA KeptSteps ==
  ASSUME IInv, AllKept, DOMAIN calls' = DOMAIN calls, form' \in {form, Closed},
         Component(page) # Component(page') => \A i \in DOMAIN calls : calls'[i].from = "gone"
  PROVE  CallsSound' /\ VerdictKeepsItsDialog'
<1>1. CallsSound'
  <2> SUFFICES ASSUME NEW i \in DOMAIN calls PROVE CallSound(calls[i])'
    BY DEF CallsSound
  <2>1. CallSound(calls[i]) /\ Kept(calls[i], calls'[i])
    BY DEF IInv, CallsSound, AllKept
  <2>2. CASE calls'[i] = Over
    BY <2>2 DEF CallSound, Over
  <2>3. CASE calls'[i] # Over
    BY <2>1, <2>3 DEF CallSound, Kept
  <2>4. QED
    BY <2>2, <2>3
<1>2. ASSUME NEW i \in DOMAIN calls, calls'[i].from # "gone"
      PROVE  /\ calls'[i].op = calls[i].op /\ calls'[i].row = calls[i].row
             /\ calls[i].from # "gone"
  BY <1>2 DEF AllKept, Kept, Over
<1>4. VerdictKeepsItsDialog'
  <2> SUFFICES ASSUME NEW i \in DOMAIN calls, calls'[i].from # "gone", calls'[i].op.name \in Verdicts
               PROVE  form' \in {Closed, [name |-> calls'[i].op.name, row |-> calls'[i].row]}
    BY DEF VerdictKeepsItsDialog, Underway, Verdicts
  <2>1. calls'[i].op = calls[i].op /\ calls'[i].row = calls[i].row /\ i \in Underway(Verdicts)
    BY <1>2 DEF Underway
  <2>2. form \in {Closed, [name |-> calls[i].op.name, row |-> calls[i].row]}
    BY <2>1 DEF IInv, VerdictKeepsItsDialog
  <2>3. QED
    BY <2>1, <2>2
<1>5. QED
  BY <1>1, <1>4

\* A dialog opens for no other row while a verdict is under way.
LEMMA OpenSteps ==
  ASSUME IInv, NEW op \in Op, NEW row \in op.rows, Open(op, row)
  PROVE  CallsSound' /\ VerdictKeepsItsDialog'
<1>1. page \in op.on /\ op.locks \cap Pending = {} /\ calls' = calls /\ page' = page
  BY DEF Open, Usable
<1>2. Underway(Verdicts) = {}
  <2> SUFFICES ASSUME NEW i \in Underway(Verdicts) PROVE FALSE
    OBVIOUS
  <2>1. page \in {"approvals", "details"} /\ calls[i].op.name \in Pending \cap Verdicts
    BY VerdictUnderway DEF IInv
  <2>2. op \in ApprovalList
    BY <1>1, <2>1, OpTable DEF NoVerdict
  <2>3. QED
    BY <1>1, <2>1, <2>2, VerdictTable
<1>3. Underway(Verdicts)' = {}
  BY <1>1, <1>2 DEF Underway, Verdicts
<1>4. CallsSound'
  BY <1>1 DEF IInv, CallsSound, CallSound
<1>5. QED
  BY <1>3, <1>4 DEF VerdictKeepsItsDialog

-----------------------------------------------------------------------------
(* New calls. *)

LEMMA CallingCalls ==
  ASSUME CallsType, NEW new \in Seq(CallRecord), Calling(new)
  PROVE  /\ CallsType'
         /\ DOMAIN calls' = 1..(Len(calls) + Len(new))
         /\ \A i \in DOMAIN calls : calls'[i] = calls[i]
         /\ \A i \in DOMAIN calls' \ DOMAIN calls : calls'[i] = new[i - Len(calls)]
<1>1. calls' = calls \o new /\ query' = query /\ Len(calls) + Len(new) <= MaxCalls
  BY DEF Calling
<1>2. calls \in Seq(CallRecord) /\ CallRecord' = CallRecord
  BY <1>1, SameRecords DEF CallsType
<1> HIDE DEF CallRecord
<1>3. calls' \in Seq(CallRecord) /\ Len(calls') = Len(calls) + Len(new)
  BY <1>1, <1>2
<1>4. QED
  BY <1>1, <1>2, <1>3 DEF CallsType

\* New calls leave the dialog of a verdict if it is on display.
LEMMA CallingSteps ==
  ASSUME IInv, NEW new \in Seq(CallRecord), Calling(new),
         \A n \in DOMAIN new : CallSound(new[n]),
         \A n \in DOMAIN new :
            new[n].op.name \in Verdicts =>
                form \in {Closed, [name |-> new[n].op.name, row |-> new[n].row]}
  PROVE  CallsType' /\ CallsSound' /\ VerdictKeepsItsDialog'
<1> DEFINE old == Len(calls)
<1>1. /\ CallsType' /\ DOMAIN calls' = 1..(old + Len(new))
      /\ \A i \in DOMAIN calls : calls'[i] = calls[i]
      /\ \A i \in DOMAIN calls' \ DOMAIN calls : calls'[i] = new[i - old]
  BY CallingCalls DEF IInv, TypeOK, CallsType
<1>2. DOMAIN calls = 1..old /\ old \in Nat
  BY CallsAreRecords DEF IInv, TypeOK, CallsType
<1>3. DOMAIN new = 1..Len(new) /\ Len(new) \in Nat
  OBVIOUS
<1>4. page' = page /\ form' = form
  BY DEF Calling
<1> HIDE DEF old
<1>5. \A i \in DOMAIN calls' \ DOMAIN calls : i - old \in DOMAIN new
  BY <1>1, <1>2, <1>3
<1>6. CallsSound'
  <2> SUFFICES ASSUME NEW i \in DOMAIN calls' PROVE CallSound(calls[i])'
    BY DEF CallsSound
  <2>1. CASE i \in DOMAIN calls
    <3>1. CallSound(calls[i]) /\ calls'[i] = calls[i]
      BY <1>1, <2>1 DEF IInv, CallsSound
    <3>2. QED
      BY <1>4, <3>1 DEF CallSound
  <2>2. CASE i \notin DOMAIN calls
    <3>1. CallSound(new[i - old]) /\ calls'[i] = new[i - old]
      BY <1>1, <1>5, <2>2
    <3>2. QED
      BY <1>4, <3>1 DEF CallSound
  <2>3. QED
    BY <2>1, <2>2
<1>8. VerdictKeepsItsDialog'
  <2> SUFFICES ASSUME NEW i \in DOMAIN calls', calls'[i].from # "gone", calls'[i].op.name \in Verdicts
               PROVE  form' \in {Closed, [name |-> calls'[i].op.name, row |-> calls'[i].row]}
    BY DEF VerdictKeepsItsDialog, Underway, Verdicts
  <2>1. CASE i \in DOMAIN calls
    <3>1. i \in Underway(Verdicts) /\ calls'[i] = calls[i]
      BY <1>1, <2>1 DEF Underway
    <3>2. QED
      BY <1>4, <3>1 DEF IInv, VerdictKeepsItsDialog
  <2>2. CASE i \notin DOMAIN calls
    BY <1>1, <1>4, <1>5, <2>2
  <2>3. QED
    BY <2>1, <2>2
<1>9. QED
  BY <1>1, <1>6, <1>8

LEMMA CallIsRecord ==
  ASSUME TypeOK, NEW op \in Op, NEW row \in Row \cup {None}
  PROVE  Call(op, row) \in CallRecord
<1>1. page \in Page
  BY DEF TypeOK
<1>2. "sent" \in Phases /\ "form" \in {"form", "page", "gone"} /\ {} \in SUBSET Part
  BY DEF Phases
<1>3. QED
  BY <1>1, <1>2 DEF Call, CallRecord

LEMMA SubmitSteps ==
  ASSUME IInv, NEW op \in Op, Submit(op)
  PROVE  CallsType' /\ CallsSound' /\ VerdictKeepsItsDialog'
<1> DEFINE new == <<Call(op, form.row)>>
<1>1. /\ op.form # NoForm /\ form.name = op.form.name /\ page \in op.on /\ form.row \in op.rows
      /\ Calling(new)
  BY DEF Submit
<1>2. FormSound(op) /\ (op.name \in Verdicts => op.form = Form(op.name, {op.name}))
  BY OpTable, VerdictTable DEF NoVerdict
<1>3. new \in Seq(CallRecord) /\ DOMAIN new = {1} /\ Len(new) = 1 /\ new[1] = Call(op, form.row)
  <2>1. Call(op, form.row) \in CallRecord
    BY <1>1, <1>2, CallIsRecord DEF FormSound, IInv
  <2> HIDE DEF CallRecord
  <2>2. QED
    BY <2>1
<1>4. /\ new[1].op = op /\ new[1].row = form.row /\ new[1].page = page
      /\ new[1].from = "form" /\ new[1].phase = "sent"
  BY <1>3 DEF Call
<1> HIDE DEF new
<1>5. CallSound(new[1])
  BY <1>1, <1>4 DEF CallSound
<1>7. op.name \in Verdicts => form = [name |-> op.name, row |-> form.row]
  BY <1>1, <1>2 DEF IInv, TypeOK, Form
<1>8. QED
  BY <1>1, <1>3, <1>4, <1>5, <1>7, CallingSteps

LEMMA SettingsTable ==
  ASSUME NEW op \in WorkspaceSettings
  PROVE  op \in Op /\ op.on = {"settings"} /\ op.form = NoForm /\ op.name \notin Verdicts
  BY DEF WorkspaceSettings, SaveWorkspace, SaveAttendance, Operation, Op, Verdicts

LEMMA PressSteps ==
  ASSUME IInv, NEW op \in Op, Press(op)
  PROVE  CallsType' /\ CallsSound' /\ VerdictKeepsItsDialog'
<1>1. form = Closed /\ op.form = NoForm /\ page \in op.on
  BY DEF Press, Usable
<1>2. ASSUME NEW o \in Op, o.form = NoForm, page \in o.on
      PROVE  Call(o, None) \in CallRecord /\ CallSound(Call(o, None)) /\ Call(o, None).op = o
  <2>1. Call(o, None) \in CallRecord
    BY CallIsRecord DEF IInv
  <2>2. CallSound(Call(o, None))
    BY <1>2 DEF CallSound, Call
  <2>3. Call(o, None).op = o
    BY DEF Call
  <2>4. QED
    BY <2>1, <2>2, <2>3
<1> HIDE DEF CallRecord
<1>3. CASE op \in WorkspaceSettings
  <2> DEFINE new == <<Call(SaveWorkspace, None), Call(SaveAttendance, None)>>
  <2>1. Calling(new)
    BY <1>3 DEF Press
  <2>2. SaveWorkspace \in WorkspaceSettings /\ SaveAttendance \in WorkspaceSettings
    BY DEF WorkspaceSettings
  <2>3. page = "settings"
    BY <1>1, <1>3, SettingsTable
  <2>4. /\ Call(SaveWorkspace, None) \in CallRecord /\ CallSound(Call(SaveWorkspace, None))
        /\ Call(SaveWorkspace, None).op = SaveWorkspace
        /\ Call(SaveAttendance, None) \in CallRecord /\ CallSound(Call(SaveAttendance, None))
        /\ Call(SaveAttendance, None).op = SaveAttendance
    BY <1>2, <2>2, <2>3, SettingsTable
  <2>5. /\ new \in Seq(CallRecord) /\ DOMAIN new = {1, 2}
        /\ \A n \in DOMAIN new : CallSound(new[n])
    BY <2>4
  <2> HIDE DEF new
  <2>6. QED
    BY <1>1, <2>1, <2>5, CallingSteps
<1>4. CASE op \notin WorkspaceSettings
  <2> DEFINE new == <<Call(op, None)>>
  <2>1. Calling(new)
    BY <1>4 DEF Press
  <2>2. /\ new \in Seq(CallRecord) /\ DOMAIN new = {1}
        /\ \A n \in DOMAIN new : CallSound(new[n])
    BY <1>1, <1>2
  <2> HIDE DEF new
  <2>3. QED
    BY <1>1, <2>1, <2>2, CallingSteps
<1>5. QED
  BY <1>3, <1>4

-----------------------------------------------------------------------------
(* A step, and the calls. *)

LEMMA IInvCalls == IInv => CallsType
  BY DEF IInv, TypeOK, CallsType

LEMMA SameCalls ==
  ASSUME IInv, UNCHANGED <<query, page, form, calls>>
  PROVE  CallsType' /\ CallsSound' /\ VerdictKeepsItsDialog'
<1>1. CallsType'
  BY SameRecords, IInvCalls DEF CallsType
<1>2. AllKept
  BY DEF AllKept, Kept
<1>3. QED
  BY <1>1, <1>2, KeptSteps

LEMMA AnsweredSteps ==
  ASSUME IInv, NEW i \in DOMAIN calls, Answered(i)
  PROVE  CallsType' /\ CallsSound' /\ VerdictKeepsItsDialog'
<1>1. CASE Serve(i)
  <2>1. page' = page /\ form' = form
    BY <1>1 DEF Serve
  <2>2. QED
    BY <1>1, <2>1, IInvCalls, ServeCalls, KeptSteps
<1>2. CASE Refuse(i)
  <2>1. page' = page /\ form' = form
    BY <1>2 DEF Refuse
  <2>2. QED
    BY <1>2, <2>1, IInvCalls, RefuseCalls, KeptSteps
<1>3. CASE Accepted(i)
  <2>1. form' \in {form, Closed}
    BY <1>3 DEF Accepted
  <2>2. QED
    BY <1>3, <2>1, IInvCalls, AcceptCalls, KeptSteps
<1>4. CASE Rejected(i)
  <2>1. page' = page /\ form' \in {form, Closed}
    BY <1>4 DEF Rejected
  <2>2. QED
    BY <1>4, <2>1, IInvCalls, RejectCalls, KeptSteps
<1>5. QED
  BY <1>1, <1>2, <1>3, <1>4 DEF Answered

LEMMA CallsNext ==
  ASSUME IInv, [Next]_vars
  PROVE  CallsType' /\ CallsSound' /\ VerdictKeepsItsDialog'
<1>1. ASSUME NEW to \in Page, Visit(to)
      PROVE  CallsType' /\ CallsSound' /\ VerdictKeepsItsDialog'
  <2>1. query' = query /\ page' = to /\ form' = form /\ calls' = Leave(to)
    BY <1>1 DEF Visit
  <2>2. QED
    BY <2>1, IInvCalls, VisitCalls, KeptSteps
<1>2. ASSUME NEW op \in Op, UserDoes(op)
      PROVE  CallsType' /\ CallsSound' /\ VerdictKeepsItsDialog'
  <2>1. ASSUME NEW row \in op.rows, Open(op, row)
        PROVE  CallsType' /\ CallsSound' /\ VerdictKeepsItsDialog'
    <3>1. CallsType'
      BY <2>1, SameRecords, IInvCalls DEF CallsType, Open
    <3>2. QED
      BY <2>1, <3>1, OpenSteps
  <2>2. QED
    BY <1>2, <2>1, SubmitSteps, PressSteps DEF UserDoes
<1>3. CASE Close
  <2>1. page' = page /\ form' = Closed
    BY <1>3 DEF Close
  <2>2. QED
    BY <1>3, <2>1, IInvCalls, CloseCalls, KeptSteps
<1>4. CASE Focus \/ Fetching \/ UNCHANGED vars
  BY <1>4, SameCalls DEF Focus, Fetching, vars, ui
<1>5. QED
  BY <1>1, <1>2, <1>3, <1>4, AnsweredSteps DEF Next

-----------------------------------------------------------------------------
(* A step, and what is on display. *)

LEMMA ScreenNext ==
  ASSUME IInv, [Next]_vars
  PROVE  /\ query' \in Query
         /\ page' \in Page
         /\ form' \in [name : {op.form.name : op \in Op}, row : Row \cup {None}]
<1> DEFINE FormRecord == [name : {op.form.name : op \in Op}, row : Row \cup {None}]
<1>1. query \in Query /\ page \in Page /\ form \in FormRecord
  BY DEF IInv, TypeOK
<1>2. Closed \in FormRecord
  BY NoFormName DEF Closed
<1>3. ASSUME NEW to \in Page, Visit(to)
      PROVE  query' = query /\ page' \in Page /\ form' = form
  BY <1>3 DEF Visit
<1>4. ASSUME NEW op \in Op, UserDoes(op)
      PROVE  query' = query /\ page' = page /\ form' \in FormRecord
  <2>1. ASSUME NEW row \in op.rows, Open(op, row)
        PROVE  query' = query /\ page' = page /\ form' \in FormRecord
    <3>1. row \in Row \cup {None}
      BY OpTable DEF FormSound
    <3>2. QED
      BY <2>1, <3>1 DEF Open
  <2>2. CASE Submit(op) \/ Press(op)
    BY <1>1, <2>2 DEF Submit, Press, Calling
  <2>3. QED
    BY <1>4, <2>1, <2>2 DEF UserDoes
<1>5. ASSUME NEW i \in DOMAIN calls, Answered(i)
      PROVE  query' = query /\ page' \in Page /\ form' \in {form, Closed}
  <2>1. CASE Accepted(i)
    <3>1. query' = query /\ form' \in {form, Closed}
          /\ page' = IF calls[i].from = "gone" THEN page ELSE Leads(calls[i].op, page)
      BY <2>1 DEF Accepted
    <3>2. Leads(calls[i].op, page) \in Page
      BY <1>1, PageAssumption DEF Leads
    <3>3. QED
      BY <1>1, <3>1, <3>2
  <2>2. QED
    BY <1>1, <1>5, <2>1 DEF Answered, Serve, Refuse, Rejected
<1>6. Focus \/ Close \/ Fetching \/ UNCHANGED vars
      => query' = query /\ page' = page /\ form' \in {form, Closed}
  BY DEF Focus, Close, Fetching, vars, ui
<1> HIDE DEF FormRecord
<1>7. query' \in Query /\ page' \in Page /\ form' \in FormRecord
  BY <1>1, <1>2, <1>3, <1>4, <1>5, <1>6 DEF Next
<1>8. QED
  BY <1>7 DEF FormRecord

-----------------------------------------------------------------------------
(* A step, and the cache. *)

CacheType == CacheTypeOK /\ told \in SUBSET Part

CacheSound == CacheType /\ FetchSound /\ ChangesOnTheWay

LEMMA IInvCache == IInv => CacheSound
  BY DEF IInv, TypeOK, CacheSound, CacheType

\* A request is sent, or not: no change is forgotten.
LEMMA ShowCache ==
  ASSUME CacheSound, query' = query, NEW shown, Show(shown), told' \in {told, {}}
  PROVE  CacheSound'
<1>1. /\ current' = current /\ loaded' = loaded /\ stale' = stale
      /\ fetch' \in {fetch, Ask}
  BY DEF Show
<1>2. Part' = Part /\ Direct' = Direct
  BY SameRecords DEF Direct
<1>3. fetch' = fetch \/ fetch' = Asked
  BY <1>1 DEF Ask
<1>4. CacheType'
  BY <1>1, <1>2, <1>3 DEF CacheSound, CacheType, CacheTypeOK, Asked
<1>5. FetchSound' /\ ChangesOnTheWay'
  BY <1>1, <1>2, <1>3 DEF CacheSound, FetchSound, ChangesOnTheWay, Asked
<1>6. QED
  BY <1>4, <1>5 DEF CacheSound

LEMMA SameCache ==
  ASSUME CacheSound, UNCHANGED <<query, cache, told>>
  PROVE  CacheSound'
<1>1. Part' = Part /\ Direct' = Direct
  BY SameRecords DEF Direct
<1>2. QED
  BY <1>1 DEF cache, CacheSound, CacheType, CacheTypeOK, FetchSound, ChangesOnTheWay

LEMMA FetchingCache ==
  ASSUME CacheSound, Fetching
  PROVE  CacheSound'
<1>1. query' = query /\ told' = told
  BY DEF Fetching, ui
<1>2. Part' = Part /\ Direct' = Direct
  BY <1>1, SameRecords DEF Direct
<1>3. CASE ServeFetch
  <2>1. /\ fetch' = [phase |-> "served", has |-> Part]
        /\ current' = current /\ loaded' = loaded /\ stale' = stale
    BY <1>3 DEF ServeFetch
  <2>2. QED
    BY <1>1, <1>2, <2>1 DEF CacheSound, CacheType, CacheTypeOK, FetchSound, ChangesOnTheWay
<1>4. CASE Arrive
  <2>1. /\ fetch.phase = "served" /\ current' = fetch.has /\ loaded' = TRUE /\ stale' = FALSE
        /\ fetch' = [phase |-> "none", has |-> {}]
    BY <1>4 DEF Arrive, NoFetch
  <2>2. QED
    BY <1>1, <1>2, <2>1 DEF CacheSound, CacheType, CacheTypeOK, FetchSound, ChangesOnTheWay
<1>5. QED
  BY <1>3, <1>4 DEF Fetching

\* What another change makes old is missed nowhere.
LEMMA ServeCache ==
  ASSUME CacheSound, NEW i \in DOMAIN calls, Serve(i)
  PROVE  CacheSound'
<1> DEFINE parts == Changes(calls[i].op, calls[i].page)
<1>1. query' = query /\ told' = told \ parts /\ Changed(parts)
  BY DEF Serve
<1> HIDE DEF parts
<1>2. /\ current' = current \ parts /\ loaded' = loaded /\ stale' = stale
      /\ fetch' = [fetch EXCEPT !.has = fetch.has \ parts]
  BY <1>1 DEF Changed
<1>3. Part' = Part /\ Direct' = Direct
  BY <1>1, SameRecords DEF Direct
<1>4. fetch \in [phase : {"none", "asked", "served"}, has : SUBSET Part]
  BY DEF CacheSound, CacheType, CacheTypeOK
<1>5. fetch'.phase = fetch.phase /\ fetch'.has = fetch.has \ parts
      /\ fetch' \in [phase : {"none", "asked", "served"}, has : SUBSET Part]
  BY <1>2, <1>4
<1>6. CacheType'
  BY <1>1, <1>2, <1>3, <1>5 DEF CacheSound, CacheType, CacheTypeOK
<1>7. FetchSound' /\ ChangesOnTheWay'
  BY <1>1, <1>2, <1>3, <1>5 DEF CacheSound, FetchSound, ChangesOnTheWay
<1>8. QED
  BY <1>6, <1>7 DEF CacheSound

\* A change that was accepted on the page on display is asked for again.
LEMMA AcceptedCache ==
  ASSUME IInv, NEW i \in DOMAIN calls, Accepted(i)
  PROVE  CacheSound'
<1> DEFINE op == calls[i].op
<1> DEFINE parts == Changes(op, calls[i].page)
<1> DEFINE here == Shown /\ loaded /\ calls[i].from # "gone"
<1>1. /\ query' = query /\ calls[i].phase = "served"
      /\ page' = IF calls[i].from = "gone" THEN page ELSE Leads(op, page)
      /\ told' = IF page' # page THEN {} ELSE IF here THEN told \cup parts ELSE told
      /\ IF query \in Answers(op.name) THEN SetData(calls[i].has)
         ELSE IF query \in Invalidates(op.name) THEN Invalidate(Shown)
         ELSE UNCHANGED cache
  BY DEF Accepted
<1>2. Part' = Part /\ Direct' = Direct
  BY <1>1, SameRecords DEF Direct
<1>3. CallSound(calls[i]) /\ CacheSound /\ calls[i] \in CallRecord
  BY CallsAreRecords, IInvCalls, IInvCache DEF IInv, CallsSound
<1>4. op \in Op /\ calls[i].page \in op.on
  BY <1>1, <1>3 DEF CallSound
<1>5. parts \subseteq Part
  BY DEF Changes
<1>6. here /\ parts # {} => query \in Invalidates(op.name) \cup Direct
  <2> SUFFICES ASSUME here, parts # {} PROVE Refreshed(op, query)
    BY DEF Refreshed
  <2>1. page \in Site /\ query \in Shows(page)
    BY PageAssumption DEF IInv, TypeOK, Shown
  <2>2. Component(page) = Component(calls[i].page)
    BY <1>3 DEF CallSound
  <2>3. Touched(op, calls[i].page, query) # {}
    BY DEF Touched, Changes, Part
  <2> HIDE DEF op, parts, here
  <2>4. QED
    BY <1>4, <2>1, <2>2, <2>3, RefreshTable
<1>7. query \in Answers(op.name) => query \in Direct
  BY <1>4 DEF Direct
<1>8. told' \in SUBSET Part /\ (told' # {} => told' = told \/ (here /\ told' = told \cup parts))
  BY <1>1, <1>3, <1>5 DEF CacheSound, CacheType
<1>9. calls[i].has \subseteq Part
  BY <1>3 DEF CallRecord
<1> HIDE DEF op, parts
<1>10. CASE query \in Answers(op.name)
  <2>1. /\ current' = calls[i].has /\ loaded' = TRUE /\ stale' = FALSE /\ fetch' = fetch
    BY <1>1, <1>10 DEF SetData
  <2>2. CacheType'
    BY <1>2, <1>3, <1>8, <1>9, <2>1 DEF CacheSound, CacheType, CacheTypeOK
  <2>3. QED
    BY <1>1, <1>2, <1>7, <1>10, <2>2 DEF CacheSound, FetchSound, ChangesOnTheWay
<1>11. CASE query \notin Answers(op.name) /\ query \in Invalidates(op.name)
  <2>1. /\ current' = current /\ loaded' = loaded /\ stale' = TRUE
        /\ fetch' = IF ~Shown THEN fetch ELSE IF loaded THEN Asked ELSE Ask
    BY <1>1, <1>11 DEF Invalidate
  <2>2. fetch' = Asked \/ (fetch' = fetch /\ ~here)
    BY <2>1 DEF Ask
  <2>3. CacheType'
    BY <1>2, <1>3, <1>8, <2>1, <2>2 DEF CacheSound, CacheType, CacheTypeOK, Asked
  <2>4. FetchSound' /\ ChangesOnTheWay'
    BY <1>1, <1>2, <1>3, <1>8, <2>1, <2>2 DEF CacheSound, FetchSound, ChangesOnTheWay, Asked
  <2>5. QED
    BY <2>3, <2>4 DEF CacheSound
<1>12. CASE query \notin Answers(op.name) /\ query \notin Invalidates(op.name)
  <2>1. /\ current' = current /\ loaded' = loaded /\ stale' = stale /\ fetch' = fetch
    BY <1>1, <1>12 DEF cache
  <2>2. CacheType'
    BY <1>2, <1>3, <1>8, <2>1 DEF CacheSound, CacheType, CacheTypeOK
  <2>3. query \notin Direct => told' = told \/ told' = {}
    BY <1>6, <1>8, <1>12
  <2>4. QED
    BY <1>1, <1>2, <1>3, <2>1, <2>2, <2>3 DEF CacheSound, FetchSound, ChangesOnTheWay
<1>13. QED
  BY <1>10, <1>11, <1>12

LEMMA CacheNext ==
  ASSUME IInv, [Next]_vars
  PROVE  CacheSound'
<1>1. CacheSound
  BY IInvCache
<1>2. ASSUME NEW to \in Page, Visit(to) PROVE CacheSound'
  <2>1. query' = query /\ told' = {} /\ Show(query \in Shows(to) \ Shows(page))
    BY <1>2 DEF Visit
  <2>2. QED
    BY <1>1, <2>1, ShowCache
<1>3. CASE Focus
  <2>1. query' = query /\ told' = told /\ Show(Shown)
    BY <1>3 DEF Focus, ui
  <2>2. QED
    BY <1>1, <2>1, ShowCache
<1>4. ASSUME NEW i \in DOMAIN calls, Answered(i) PROVE CacheSound'
  <2>1. CASE Refuse(i) \/ Rejected(i)
    BY <1>1, <2>1, SameCache DEF Refuse, Rejected
  <2>2. QED
    BY <1>1, <1>4, <2>1, ServeCache, AcceptedCache DEF Answered
<1>5. ASSUME NEW op \in Op, UserDoes(op) PROVE CacheSound'
  <2>1. UNCHANGED <<query, cache, told>>
    BY <1>5 DEF UserDoes, Open, Submit, Press, Calling
  <2>2. QED
    BY <1>1, <2>1, SameCache
<1>6. CASE Close \/ UNCHANGED vars
  BY <1>1, <1>6, SameCache DEF Close, vars, ui
<1>7. QED
  BY <1>1, <1>2, <1>3, <1>4, <1>5, <1>6, FetchingCache DEF Next

-----------------------------------------------------------------------------
(* The theorems. *)

LEMMA InitIInv == Init => IInv
<1> SUFFICES ASSUME Init PROVE IInv
  OBVIOUS
<1>1. query \in Query /\ page = "dashboard" /\ form = Closed /\ calls = <<>> /\ told = {}
  BY DEF Init
<1>2. CacheTypeOK /\ fetch.phase # "served"
  BY DEF Init, CacheInit, CacheTypeOK, NoFetch
<1>3. Closed \in [name : {op.form.name : op \in Op}, row : Row \cup {None}]
  BY NoFormName DEF Closed
<1>4. calls \in Seq(CallRecord) /\ Len(calls) = 0 /\ DOMAIN calls = {}
  BY <1>1
<1>5. TypeOK
  BY <1>1, <1>2, <1>3, <1>4, PageAssumption, CallsAssumption DEF TypeOK
<1>6. CallsSound /\ VerdictKeepsItsDialog
  BY <1>4 DEF CallsSound, VerdictKeepsItsDialog, Underway
<1>7. FetchSound /\ ChangesOnTheWay
  BY <1>1, <1>2 DEF FetchSound, ChangesOnTheWay
<1>8. QED
  BY <1>5, <1>6, <1>7 DEF IInv

LEMMA NextIInv == IInv /\ [Next]_vars => IInv'
<1> SUFFICES ASSUME IInv, [Next]_vars PROVE IInv'
  OBVIOUS
<1>1. CallsType' /\ CallsSound' /\ VerdictKeepsItsDialog'
  BY CallsNext
<1>2. CacheSound'
  BY CacheNext
<1>3. TypeOK'
  BY <1>1, <1>2, ScreenNext DEF TypeOK, CallsType, CacheSound, CacheType
<1>4. QED
  BY <1>1, <1>2, <1>3 DEF IInv, CacheSound

\* The invariant holds of every behaviour: every variable has its type; a call
\* that is not over was sent by an operation of its page, and its page is on
\* display unless it was left.
THEOREM Inductive == Spec => []IInv
<1>1. QED
  BY InitIInv, NextIInv, PTL DEF Spec

THEOREM TypeCorrect == Spec => []TypeOK
<1>1. IInv => TypeOK
  BY DEF IInv
<1>2. QED
  BY <1>1, Inductive, PTL

\* While a verdict is under way no dialog but its own is on display, so its
\* answer closes no other (ApprovalList).
THEOREM VerdictDialog == Spec => []VerdictKeepsItsDialog
<1>1. IInv => VerdictKeepsItsDialog
  BY DEF IInv
<1>2. QED
  BY <1>1, Inductive, PTL

\* What was changed and accepted on the page on display is shown, or asked for
\* by a request that was read after it: the hooks invalidate every query that
\* their page shows and their call changes, but for those that are given the
\* answer.
THEOREM ChangesArrive == Spec => []ChangesOnTheWay
<1>1. IInv => ChangesOnTheWay
  BY DEF IInv
<1>2. QED
  BY <1>1, Inductive, PTL
==============================================================================
