----------------------------- MODULE PageTables -----------------------------
(***************************************************************************)
(* What is particular to each page and hook of the web client: the queries   *)
(* it shows and invalidates, its forms, and the calls its buttons make.      *)
(* Pages says how all of them behave.                                       *)
(***************************************************************************)
EXTENDS Naturals, Sequences, FiniteSets

CONSTANTS
    Row,        \* the rows of a list that dialogs are about
    None,       \* the row of a form that makes something new
    Page,       \* the pages visited
    MaxCalls    \* bound on the calls sent

ASSUME RowAssumption == None \notin Row
ASSUME CallsAssumption == MaxCalls \in Nat

\* The pages there are.  The tabs of the page of a project are pages of their own:
\* its tasks and its members are in panels that are there while they are chosen.
Weeks == {"week_1", "week_2"}
Panels == {"project_tasks", "project_people"}
Tabs == {"project"} \cup Panels
Site == Weeks \cup Tabs \cup {"approvals", "details", "members", "projects", "clients", "tags",
                                "settings", "profile", "dashboard"}

ASSUME PageAssumption == Page \subseteq Site /\ {"dashboard", "projects"} \subseteq Page

-----------------------------------------------------------------------------
(* Queries, and the pages that show them. *)

\* The queries a page has on display.  The view sheet of the approvals is a
\* page of its own; the layout shows the workspaces on all.
Shows(at) ==
    {"workspaces"} \cup
    CASE at \in Weeks       -> {at, "workspace", "me"}
      [] at = "approvals"   -> {"pending", "members", "workspace"}
      [] at = "details"     -> {"pending", "members", "workspace", "details"}
      [] at = "members"     -> {"members", "invites"}
      [] at = "projects"    -> {"projects", "clients", "workspace"}
      [] at \in Tabs        -> {"project", "project_entries", "clients", "workspace"} \cup
                                (IF at \in Panels THEN {"members", "project_members"} ELSE {}) \cup
                                (IF at = "project_tasks" THEN {"tasks"} ELSE {})
      [] at = "clients"     -> {"clients", "workspace"}
      [] at = "tags"        -> {"tags"}
      [] at = "settings"    -> {"workspace"}
      [] at = "profile"     -> {"me"}
      [] at = "dashboard"   -> {"me", "workspace"}

Query == UNION {Shows(at) : at \in Page}

Component(at) ==
    IF at \in Weeks THEN "timesheet"
    ELSE IF at \in Tabs THEN "project"
    ELSE IF at = "details" THEN "approvals"
    ELSE at

-----------------------------------------------------------------------------
(* Hooks: what they invalidate when their call was accepted. *)

EntryHooks == [name \in {"create_entry", "update_entry"} |-> Weeks \cup {"details", "project_entries"}]

Verdicts == {"approve_week", "reject_week"}

ApprovalHooks ==
    [name \in Verdicts \cup {"submit_week"} |-> Weeks \cup {"pending", "details", "project_entries"}]

RoleHooks ==
    [name \in {"change_role", "remove_member"} |->
        IF name = "change_role"
        THEN {"members", "workspaces", "details", "project_entries"} \cup Weeks
        ELSE {"members"}]

InviteHooks == [name \in {"create_invite", "revoke_invite"} |-> {"invites"}]

ClientHooks ==
    [name \in {"create_client", "update_client", "delete_client"} |->
        IF name = "create_client" THEN {"clients"}
        ELSE {"clients", "projects", "project", "project_members"}]

\* The key of the list of projects is a prefix of the others.
ProjectHooks ==
    [name \in {"create_project", "update_project", "edit_project", "archive_project", "archive_listed",
               "unarchive_project", "delete_project", "delete_listed"} |->
        {"projects", "project", "project_members"}]

ProjectMemberHooks ==
    [name \in {"add_project_member", "remove_project_member"} |-> {"project_members"}]

TaskHooks == [name \in {"create_task", "update_task", "delete_task"} |-> {"tasks"}]

\* mutant: a tag that is deleted stays in the list
MutTagHooks == [name \in {"create_tag", "update_tag"} |-> {"tags"}]

TagHooks == [name \in {"create_tag", "update_tag", "delete_tag"} |-> {"tags"}]

WorkspaceHooks ==
    [name \in {"save_workspace", "delete_workspace"} |->
        IF name = "delete_workspace" THEN {"workspaces"}
        ELSE {"workspaces", "details", "project_entries"} \cup Weeks]

Billing == {"enable_billing", "disable_billing"}

\* Their keys are not those of any query.
AttendanceHooks == [name \in {"save_attendance"} \cup Billing |-> {}]

ProfileHooks == [name \in {"save_profile"} |-> {}]

Hooks ==
    {EntryHooks, ApprovalHooks, RoleHooks, InviteHooks, ClientHooks, ProjectHooks, ProjectMemberHooks,
     TaskHooks, TagHooks, WorkspaceHooks, AttendanceHooks, ProfileHooks}

Invalidates(name) == UNION {h[name] : h \in {k \in Hooks : name \in DOMAIN k}}

\* The query that is given the body of the answer (setQueryData).
Answers(name) ==
    CASE name = "save_workspace" -> {"workspace"}
      [] name = "save_profile"   -> {"me"}
      [] OTHER                   -> {}

-----------------------------------------------------------------------------
(* Forms: the operations that keep their button disabled while they are     *)
(* pending, and whether they outlive being closed.                          *)

NoForm == [name |-> "none", submits |-> {}, stays |-> TRUE]
Form(name, submits) == [name |-> name, submits |-> submits, stays |-> TRUE]

AddEntrySheet == [name |-> "add_sheet", submits |-> {"create_entry"}, stays |-> FALSE]
EditEntrySheet == [name |-> "edit_sheet", submits |-> {"update_entry"}, stays |-> FALSE]
SubmitDialog == Form("submit_week", {"submit_week"})
RemoveDialog == Form("remove_member", {"remove_member"})
InviteDialog == Form("invite", {"create_invite"})

ClientDialog == Form("client", {"create_client", "update_client"})
ProjectDialog == Form("project", {"create_project", "update_project", "edit_project"})
TaskDialog == Form("task", {"create_task", "update_task"})
TagDialog == Form("tag", {"create_tag", "update_tag"})
DeleteDialog == Form("delete_workspace", {})
BillableDialog == Form("billable", {})

(* Operations: the pages they are on, their form, the pending operations     *)
(* that disable the button that opens it (or calls), the lists that must     *)
(* have been loaded, the rows they are about, and what they change.          *)

\* GET /workspaces/{id} answers with what three endpoints change.
Parts(q) == IF q = "workspace" THEN {"general", "attendance", "billable"} ELSE {q}

\* The queries it concerns are those it changes something of.
Operation(name, on, dialog, locks, needs, rows, changes) ==
    [name |-> name, on |-> on, form |-> dialog, locks |-> locks, needs |-> needs,
     rows |-> rows, changes |-> changes,
     concerns |-> {q \in Query : Parts(q) \cap (changes \cup (on \cap Weeks)) # {}}]

\* The sheets of the week, and its button.  (An entry's week is that of its
\* page: see Changes.)
TimesheetPage ==
    LET entries == {"details", "project_entries", "projects"}
    IN  {Operation("create_entry", Weeks, AddEntrySheet, {}, {}, {None}, entries),
         Operation("update_entry", Weeks, EditEntrySheet, {}, {}, {None}, entries)}

SubmitWeekButton ==
    {Operation("submit_week", Weeks, SubmitDialog, {"submit_week"}, {}, {None}, {"pending", "details"})}

\* mutant: the buttons of the other rows stay enabled
MutApprovalList ==
    {Operation(name, {"approvals"}, Form(name, {name}), {}, {"pending"}, Row,
               {"pending", "details"} \cup Weeks) : name \in Verdicts}

ApprovalList ==
    {Operation(name, {"approvals"}, Form(name, {name}), Verdicts, {"pending"}, Row,
               {"pending", "details"} \cup Weeks) : name \in Verdicts}

MembersPage ==
    {Operation("change_role", {"members"}, NoForm, {}, {"members"}, {None}, {"members"}),
     Operation("remove_member", {"members"}, RemoveDialog, {}, {"members"}, Row, {"members"}),
     Operation("create_invite", {"members"}, InviteDialog, {}, {}, {None}, {"invites"}),
     Operation("revoke_invite", {"members"}, NoForm, {"revoke_invite"}, {"invites"}, {None}, {"invites"})}

ClientsClient ==
    {Operation("create_client", {"clients"}, ClientDialog, {}, {}, {None}, {"clients"}),
     Operation("update_client", {"clients"}, ClientDialog, {}, {"clients"}, {None},
               {"clients", "projects", "project"}),
     Operation("delete_client", {"clients"}, NoForm, {"delete_client"}, {"clients"}, {None},
               {"clients", "projects", "project"})}

ProjectsPage ==
    {Operation("create_project", {"projects"}, ProjectDialog, {}, {}, {None}, {"projects"})}

\* An entry shows the name of its project.  The button that archives is above the
\* tabs.
ProjectDetailClient ==
    {Operation("update_project", {"project"}, ProjectDialog, {}, {"project"}, {None},
               {"projects", "project"} \cup Weeks),
     Operation("delete_project", {"project"}, NoForm, {"delete_project"}, {"project"}, {None},
               {"projects", "project"})}
    \cup
    {Operation(name, Tabs, NoForm, {name}, {"project"}, {None}, {"projects", "project"}) :
        name \in {"archive_project", "unarchive_project"}}

ProjectList ==
    {Operation("edit_project", {"projects"}, ProjectDialog, {}, {"projects"}, {None},
               {"projects", "project"} \cup Weeks)}
    \cup
    {Operation(name, {"projects"}, NoForm, {}, {"projects"}, {None}, {"projects", "project"}) :
        name \in {"archive_listed", "delete_listed"}}

ProjectMembers ==
    {Operation(name, {"project_people"}, NoForm, {name}, {"project_members", "members"}, {None},
               {"project_members"}) :
        name \in {"add_project_member", "remove_project_member"}}

TaskTable ==
    {Operation("create_task", {"project_tasks"}, TaskDialog, {}, {"tasks"}, {None}, {"tasks"}),
     Operation("update_task", {"project_tasks"}, TaskDialog, {}, {"tasks"}, {None}, {"tasks"} \cup Weeks),
     Operation("delete_task", {"project_tasks"}, NoForm, {"delete_task"}, {"tasks"}, {None}, {"tasks"} \cup Weeks)}

TagsClient ==
    {Operation("create_tag", {"tags"}, TagDialog, {}, {"tags"}, {None}, {"tags"}),
     Operation("update_tag", {"tags"}, TagDialog, {}, {"tags"}, {None}, {"tags"}),
     Operation("delete_tag", {"tags"}, NoForm, {"delete_tag"}, {"tags"}, {None}, {"tags"})}

\* "Save changes" calls two endpoints at once: see Press.
Saves == {"save_workspace", "save_attendance"}

SaveWorkspace ==
    Operation("save_workspace", {"settings"}, NoForm, Saves \cup Billing, {"workspace"}, {None},
              {"general", "workspaces"})

SaveAttendance ==
    Operation("save_attendance", {"settings"}, NoForm, Saves \cup Billing, {"workspace"}, {None},
              {"attendance"})

WorkspaceSettings == {SaveWorkspace, SaveAttendance}

Switches ==
    {Operation("enable_billing", {"settings"}, NoForm, {}, {"workspace"}, {None}, {"billable"}),
     Operation("disable_billing", {"settings"}, BillableDialog, {}, {"workspace"}, {None}, {"billable"}),
     Operation("delete_workspace", {"settings"}, DeleteDialog, {}, {"workspace"}, {None}, {"workspaces"})}

ProfileSettings ==
    {Operation("save_profile", {"profile"}, NoForm, {"save_profile"}, {"me"}, {None}, {"me", "members"})}

Op == TimesheetPage \cup SubmitWeekButton \cup ApprovalList \cup MembersPage \cup ClientsClient
        \cup ProjectsPage \cup ProjectDetailClient \cup ProjectList \cup ProjectMembers \cup TaskTable
        \cup TagsClient \cup WorkspaceSettings \cup Switches \cup ProfileSettings

\* The pages that matter to a query: those that neither show nor change it differ
\* in nothing from the dashboard, nor do those that show it when the dashboard does.
Matters(q, to) ==
    \/ to = "dashboard" \/ q \in Shows(to) \ Shows("dashboard")
    \/ \E op \in Op : q \in op.concerns /\ to \in op.on

\* The hooks of a panel are gone once another page, or tab, is on display; those of
\* a component stay with it.
StaysFor(op, at, to) == Component(at) = Component(to) /\ (op.on \subseteq Panels => to \in op.on)

\* Where a page goes once a call of it was accepted.
Leads(op, at) ==
    IF op.name = "delete_workspace" THEN "dashboard"
    ELSE IF op.name = "delete_project" THEN "projects"
    ELSE at

=============================================================================
