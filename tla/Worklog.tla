------------------------------- MODULE Worklog -------------------------------
(***************************************************************************)
(* What the time entries of one member say and what they cost: project,    *)
(* task, times, rounded duration, rate and amount, against a catalog of    *)
(* projects, tasks, clients and rates that managers edit meanwhile.        *)
(*                                                                         *)
(* Requests are as in Timesheet: one READ COMMITTED transaction, a read    *)
(* step that checks the guards and computes the new row, and a commit.     *)
(* The ORM writes only the columns that differ from the row it loaded, so  *)
(* a commit merges them into whatever the row has become.  Catalog edits   *)
(* are single steps: each is one UPDATE of given values or one DELETE.     *)
(*                                                                         *)
(* Status, locks, roles and submissions are in Timesheet; names, tags,     *)
(* descriptions and budgets are left out.                                  *)
(***************************************************************************)
EXTENDS Rounding

CONSTANTS
    Entries, Projects, Tasks, Clients,   \* ids of rows, never reused
    ProjectOf,   \* tasks.project_id, which no endpoint changes
    Requests,    \* slots for requests in flight
    Rates,       \* the hourly_rate_cents that are modelled
    Rules,       \* the rounding rules that are modelled
    MaxTime,     \* bound on start and end times, in ticks
    Second,      \* ticks per second
    MaxEdits     \* bound on catalog edits

ASSUME CatalogAssumption == ProjectOf \in [Tasks -> Projects]
ASSUME RatesAssumption == Rates \subseteq Nat /\ None \notin Rates
ASSUME RulesAssumption == Rules \subseteq Rule
ASSUME TimeAssumption == MaxTime \in Nat /\ Second \in Nat \ {0} /\ MaxEdits \in Nat
ASSUME NoneAssumption ==
    None \notin Entries \cup Projects \cup Tasks \cup Clients \cup Nat

VARIABLES
    entry,      \* time_entries: a row, or None
    used,       \* the ids of entries that were ever inserted
    project,    \* projects
    task,       \* tasks
    client,     \* clients
    workspace,  \* the workspace's rounding and billing settings
    now,
    edits,      \* how many catalog edits were made
    req         \* the requests in flight

catalog == <<project, task, client, workspace>>
vars == <<entry, used, catalog, now, edits, req>>

Times   == 0..MaxTime
OrNone(S) == S \cup {None}

Row == [project : Projects, task : OrNone(Tasks), running : BOOLEAN,
        start : Nat, end : OrNone(Nat), duration : OrNone(Nat),
        rate : OrNone(Rates), amount : OrNone(Nat)]

ASSUME RowAssumption == None \notin Row

\* A request in flight: the row it loaded and will update, and the one it inserts.
Request == [target : OrNone(Entries), old : OrNone(Row), new : OrNone(Row),
            insert : OrNone(Row)]

Idle == [target |-> None, old |-> None, new |-> None, insert |-> None]

\* "free" ids have no row yet, "gone" ones had it deleted.
Project == [state : {"free", "active", "archived", "gone"}, client : OrNone(Clients),
            rate : OrNone(Rates), open : BOOLEAN]
Item == [state : {"free", "active", "gone"}, rate : OrNone(Rates)]

Stored(x) == x.state \in {"active", "archived"}

Init ==
    /\ entry = [e \in Entries |-> None]
    /\ used = {}
    /\ project = [p \in Projects |->
                    [state |-> "free", client |-> None, rate |-> None, open |-> FALSE]]
    /\ task = [t \in Tasks |-> [state |-> "free", rate |-> None]]
    /\ client = [c \in Clients |-> [state |-> "free", rate |-> None]]
    /\ workspace \in [rule : Rules, billable : {TRUE}, rate : OrNone(Rates)]
    /\ now = 0
    /\ edits = 0
    /\ req = [r \in Requests |-> Idle]

-----------------------------------------------------------------------------
(* Reading *)

\* The first rate that is set, from the task to the workspace.
ResolveRate(p, t) ==
    LET c      == project[p].client
        level  == << IF t = None THEN None ELSE task[t].rate,
                     project[p].rate,
                     IF c = None THEN None ELSE client[c].rate,
                     workspace.rate >>
        known  == {i \in 1..4 : level[i] # None}
    IN  IF ~workspace.billable \/ known = {} THEN None
        ELSE level[CHOOSE i \in known : \A j \in known : i <= j]

\* The member may log time on a project: active, and public or assigned to it.
MayLog(p) == project[p].state = "active" /\ project[p].open

TaskOfProject(t, p) == t # None => Stored(task[t]) /\ ProjectOf[t] = p

Running == {e \in Entries : entry[e] # None /\ entry[e].running}

\* mutant: the amount is taken from the raw seconds
MutPriced(row, raw) ==
    LET rate == ResolveRate(row.project, row.task)
    IN  [row EXCEPT !.duration = Round(workspace.rule, raw), !.rate = rate,
                    !.amount = Amount(raw, rate)]

\* A row with the columns every save computes.
Priced(row, raw) ==
    LET duration == Round(workspace.rule, raw)
        rate     == ResolveRate(row.project, row.task)
    IN  [row EXCEPT !.duration = duration, !.rate = rate,
                    !.amount = Amount(duration, rate)]

StartedNow(p, t) ==
    [project |-> p, task |-> t, running |-> TRUE, start |-> now, end |-> None,
     duration |-> None, rate |-> ResolveRate(p, t), amount |-> None]

Logged(p, t, s, e, raw) ==
    Priced([project |-> p, task |-> t, running |-> FALSE, start |-> s, end |-> e,
            duration |-> None, rate |-> None, amount |-> None], raw)

\* mutant: the clamp at 0 is missing
MutSeconds(s, e) == (e - s) \div Second

Seconds(s, e) == IF e <= s THEN 0 ELSE (e - s) \div Second

Stopped(row, at) ==
    Priced([row EXCEPT !.end = at, !.running = FALSE], Seconds(row.start, at))

Updates(e, new)     == [Idle EXCEPT !.target = e, !.old = entry[e], !.new = new]
Inserts(row)        == [Idle EXCEPT !.insert = row]
Begin(r, what) ==
    /\ req[r] = Idle
    /\ req' = [req EXCEPT ![r] = what]
    /\ UNCHANGED <<entry, used, catalog, now, edits>>

\* Starting stops the running timer first, if force is set.
BeginTimer(r, force, row) ==
    \/ Running = {} /\ Begin(r, Inserts(row))
    \/ /\ force
       /\ \E e \in Running :
            Begin(r, [Updates(e, Stopped(entry[e], now)) EXCEPT !.insert = row])

StartTimer(r, p, t, force) ==
    /\ MayLog(p)
    /\ TaskOfProject(t, p)
    /\ BeginTimer(r, force, StartedNow(p, t))

\* The source's project and task are copied, not validated again.
ContinueEntry(r, e, force) ==
    /\ entry[e] # None
    /\ BeginTimer(r, force, StartedNow(entry[e].project, entry[e].task))

\* The end is now, or the idle_end_time of the request.
StopTimer(r, e, at) ==
    /\ e \in Running
    /\ Begin(r, Updates(e, Stopped(entry[e], at)))

CreateManual(r, p, t, s, e) ==
    /\ s < e
    /\ MayLog(p)
    /\ TaskOfProject(t, p)
    /\ Begin(r, Inserts(Logged(p, t, s, e, Seconds(s, e))))

\* The copy starts at midnight and lasts as long as the source's rounded duration.
DuplicateEntry(r, e) ==
    /\ entry[e] # None
    /\ LET src == entry[e]
           raw == IF src.duration \notin {None, 0} THEN src.duration
                  ELSE IF src.end # None THEN Seconds(src.start, src.end) ELSE 0
       IN  Begin(r, Inserts(Logged(src.project, src.task, 0, raw * Second, raw)))

\* mutant: the duration is kept when only the start or the end changes
MutUpdateEntry(r, e, p, t, s, x) ==
    /\ entry[e] # None
    /\ LET given(v, column) == IF v = None THEN column ELSE v
           row == [entry[e] EXCEPT !.project = given(p, @), !.task = given(t, @),
                                   !.start = given(s, @), !.end = given(x, @)]
       IN  /\ p # None => MayLog(p)
           /\ TaskOfProject(t, row.project)
           /\ row.end # None => row.start < row.end
           /\ Begin(r, Updates(e, Priced(row, IF row.duration # None THEN row.duration ELSE 0)))

\* p, t, s and x are None where the request leaves a column alone.
UpdateEntry(r, e, p, t, s, x) ==
    /\ entry[e] # None
    /\ LET given(v, column) == IF v = None THEN column ELSE v
           row  == [entry[e] EXCEPT !.project = given(p, @), !.task = given(t, @),
                                    !.start = given(s, @), !.end = given(x, @)]
           raw  == IF row.end # None THEN Seconds(row.start, row.end)
                   ELSE IF row.duration # None THEN row.duration ELSE 0
       IN  /\ p # None => MayLog(p)
           /\ TaskOfProject(t, row.project)
           /\ row.end # None => row.start < row.end
           /\ Begin(r, Updates(e, Priced(row, raw)))

Read(r) ==
    \/ \E p \in Projects, t \in OrNone(Tasks), force \in BOOLEAN : StartTimer(r, p, t, force)
    \/ \E e \in Entries, force \in BOOLEAN : ContinueEntry(r, e, force)
    \/ \E e \in Entries, at \in Times : StopTimer(r, e, at)
    \/ \E p \in Projects, t \in OrNone(Tasks), s, x \in Times : CreateManual(r, p, t, s, x)
    \/ \E e \in Entries : DuplicateEntry(r, e)
    \/ \E e \in Entries, p \in OrNone(Projects), t \in OrNone(Tasks),
          s, x \in OrNone(Times) : UpdateEntry(r, e, p, t, s, x)

-----------------------------------------------------------------------------
(* Committing *)

\* The columns that changed replace those of the row as it is now.
Merge(old, new, row) ==
    LET column(c) == IF new[c] # old[c] THEN new[c] ELSE row[c]
    IN  [project |-> column("project"), task |-> column("task"),
         running |-> column("running"), start |-> column("start"),
         end |-> column("end"), duration |-> column("duration"),
         rate |-> column("rate"), amount |-> column("amount")]

\* The CHECKs and foreign keys of time_entries.
Accepted(row) ==
    /\ row.end # None => row.start < row.end
    /\ row.running => row.end = None /\ row.duration = None
    /\ Stored(project[row.project])
    /\ row.task # None => Stored(task[row.task])

\* uq_time_entries_one_running
OneRunningIndex(rows) ==
    \A e, f \in Entries : rows[e] # None /\ rows[f] # None =>
        (rows[e].running /\ rows[f].running => e = f)

Finish(r) == req' = [req EXCEPT ![r] = Idle] /\ UNCHANGED <<catalog, now, edits>>

Commit(r) ==
    LET q      == req[r]
        merged == Merge(q.old, q.new, entry[q.target])
    IN
    /\ q # Idle
    /\ q.target # None => entry[q.target] # None /\ Accepted(merged)
    /\ q.insert # None => Accepted(q.insert)
    /\ \E id \in Entries :
          /\ q.insert # None => id \notin used
          /\ used' = IF q.insert # None THEN used \cup {id} ELSE used
          /\ entry' = [e \in Entries |->
                         IF q.insert # None /\ e = id THEN q.insert
                         ELSE IF q.target # None /\ e = q.target THEN merged ELSE entry[e]]
    /\ OneRunningIndex(entry')
    /\ Finish(r)

\* A constraint refuses the write, the row is gone, or the client disconnects.
Rollback(r) == req[r] # Idle /\ Finish(r) /\ UNCHANGED <<entry, used>>

DeleteEntry(e) ==
    /\ entry[e] # None
    /\ entry' = [entry EXCEPT ![e] = None]
    /\ UNCHANGED <<used, catalog, now, edits, req>>

-----------------------------------------------------------------------------
(* The catalog *)

Edit ==
    /\ edits < MaxEdits
    /\ edits' = edits + 1
    /\ UNCHANGED <<used, now, req>>

\* A project is public, or the member is assigned to it, if open.
CreateProject(p, c, rate, open) ==
    /\ Edit
    /\ project[p].state = "free"
    /\ c # None => Stored(client[c])
    /\ project' = [project EXCEPT ![p] =
                     [state |-> "active", client |-> c, rate |-> rate, open |-> open]]
    /\ UNCHANGED <<entry, task, client, workspace>>

\* PATCH can reactivate a project; its status "archived" fails on chk_proj_archived.
UpdateProject(p, state, c, rate, open) ==
    /\ Edit
    /\ Stored(project[p])
    /\ state \in {project[p].state, "active"}
    /\ c # None => Stored(client[c])
    /\ project' = [project EXCEPT ![p] =
                     [state |-> state, client |-> c, rate |-> rate, open |-> open]]
    /\ UNCHANGED <<entry, task, client, workspace>>

ArchiveProject(p) ==
    /\ Edit
    /\ Stored(project[p])
    /\ project' = [project EXCEPT ![p].state = "archived"]
    /\ UNCHANGED <<entry, task, client, workspace>>

HasEntries(p) == \E e \in Entries : entry[e] # None /\ entry[e].project = p

\* Counted first, and RESTRICTed by time_entries' foreign key; tasks go with it.
DeleteProject(p) ==
    /\ Edit
    /\ Stored(project[p])
    /\ ~HasEntries(p)
    /\ project' = [project EXCEPT ![p].state = "gone"]
    /\ task' = [t \in Tasks |-> IF ProjectOf[t] = p /\ Stored(task[t])
                                THEN [task[t] EXCEPT !.state = "gone"] ELSE task[t]]
    /\ entry' = [e \in Entries |->
                   IF entry[e] # None /\ entry[e].task # None /\ ProjectOf[entry[e].task] = p
                   THEN [entry[e] EXCEPT !.task = None] ELSE entry[e]]
    /\ UNCHANGED <<client, workspace>>

CreateTask(t, rate) ==
    /\ Edit
    /\ task[t].state = "free"
    /\ Stored(project[ProjectOf[t]])
    /\ task' = [task EXCEPT ![t] = [state |-> "active", rate |-> rate]]
    /\ UNCHANGED <<entry, project, client, workspace>>

UpdateTask(t, rate) ==
    /\ Edit
    /\ Stored(task[t])
    /\ task' = [task EXCEPT ![t].rate = rate]
    /\ UNCHANGED <<entry, project, client, workspace>>

\* mutant: the foreign key does nothing
MutDeleteTask(t) ==
    /\ Edit
    /\ Stored(task[t])
    /\ task' = [task EXCEPT ![t].state = "gone"]
    /\ UNCHANGED <<entry, project, client, workspace>>

\* time_entries.task_id is ON DELETE SET NULL.
DeleteTask(t) ==
    /\ Edit
    /\ Stored(task[t])
    /\ task' = [task EXCEPT ![t].state = "gone"]
    /\ entry' = [e \in Entries |-> IF entry[e] # None /\ entry[e].task = t
                                   THEN [entry[e] EXCEPT !.task = None] ELSE entry[e]]
    /\ UNCHANGED <<project, client, workspace>>

CreateClient(c, rate) ==
    /\ Edit
    /\ client[c].state = "free"
    /\ client' = [client EXCEPT ![c] = [state |-> "active", rate |-> rate]]
    /\ UNCHANGED <<entry, project, task, workspace>>

UpdateClient(c, rate) ==
    /\ Edit
    /\ Stored(client[c])
    /\ client' = [client EXCEPT ![c].rate = rate]
    /\ UNCHANGED <<entry, project, task, workspace>>

\* projects.client_id is ON DELETE SET NULL.
DeleteClient(c) ==
    /\ Edit
    /\ Stored(client[c])
    /\ client' = [client EXCEPT ![c].state = "gone"]
    /\ project' = [p \in Projects |-> IF project[p].client = c
                                      THEN [project[p] EXCEPT !.client = None] ELSE project[p]]
    /\ UNCHANGED <<entry, task, workspace>>

\* update_workspace and update_billable_settings.
UpdateSettings(rule, billable, rate) ==
    /\ Edit
    /\ workspace' = [rule |-> rule, billable |-> billable, rate |-> rate]
    /\ UNCHANGED <<entry, project, task, client>>

EditCatalog ==
    \/ \E p \in Projects, c \in OrNone(Clients), rate \in OrNone(Rates), open \in BOOLEAN :
          \/ CreateProject(p, c, rate, open)
          \/ \E state \in {"active", "archived"} : UpdateProject(p, state, c, rate, open)
    \/ \E p \in Projects : ArchiveProject(p) \/ DeleteProject(p)
    \/ \E t \in Tasks, rate \in OrNone(Rates) : CreateTask(t, rate) \/ UpdateTask(t, rate)
    \/ \E t \in Tasks : DeleteTask(t)
    \/ \E c \in Clients, rate \in OrNone(Rates) : CreateClient(c, rate) \/ UpdateClient(c, rate)
    \/ \E c \in Clients : DeleteClient(c)
    \/ \E rule \in Rules, billable \in BOOLEAN, rate \in OrNone(Rates) :
          UpdateSettings(rule, billable, rate)

Tick ==
    /\ now < MaxTime
    /\ now' = now + 1
    /\ UNCHANGED <<entry, used, catalog, edits, req>>

Next ==
    \/ \E r \in Requests : Read(r) \/ Commit(r) \/ Rollback(r)
    \/ \E e \in Entries : DeleteEntry(e)
    \/ EditCatalog
    \/ Tick

Spec == Init /\ [][Next]_vars
-----------------------------------------------------------------------------
(* Properties *)

TypeOK ==
    /\ entry \in [Entries -> OrNone(Row)]
    /\ used \subseteq Entries
    /\ project \in [Projects -> Project]
    /\ task \in [Tasks -> Item]
    /\ client \in [Clients -> Item]
    /\ workspace \in [rule : Rules, billable : BOOLEAN, rate : OrNone(Rates)]
    /\ now \in Times
    /\ edits \in 0..MaxEdits
    /\ req \in [Requests -> Request]

Done(e) == entry[e] # None /\ ~entry[e].running

\* The amount of a finished entry is the price of its own duration at its own
\* rate, however often the entry, the rates and the rules were changed.
AmountMatches ==
    \A e \in Entries : Done(e) =>
        entry[e].amount = Amount(entry[e].duration, entry[e].rate)

\* The duration of a finished entry is its own span, rounded by some rule the
\* workspace had: start, end and duration never come from different saves.
SpanMatches ==
    \A e \in Entries : Done(e) =>
        \E rule \in Rules : entry[e].duration = Round(rule, Seconds(entry[e].start, entry[e].end))

\* An entry always has a project to report it under, and a task only while the
\* task exists: no catalog deletion leaves time behind without them.
NothingOrphaned ==
    \A e \in Entries : entry[e] # None =>
        /\ Stored(project[entry[e].project])
        /\ entry[e].task # None => Stored(task[entry[e].task])

\* The task of an entry is a task of its project (API specification of both
\* ways to create an entry).
TaskInProject ==
    \A e \in Entries : entry[e] # None /\ entry[e].task # None =>
        ProjectOf[entry[e].task] = entry[e].project
=============================================================================
