----------------------------- MODULE TimerClient -----------------------------
(***************************************************************************)
(* The timer in a browser tab: the timer bar, the idle detector and the     *)
(* idle dialog (src/web/src/features/timer) of one user, who may run the    *)
(* timer from other tabs and devices too.  The tab knows the timer only     *)
(* through a query that it polls, so what it shows may be old; each button  *)
(* sends a call that the server serves later, refuses, or that is lost on   *)
(* the way there or back.  The server is TimerSlot, which Timesheet         *)
(* implements.  Time is abstracted to what the CHECK on an entry's start    *)
(* and end tells apart: the moment the tab went idle is the entry that ran  *)
(* at that moment.                                                          *)
(***************************************************************************)
EXTENDS Naturals, FiniteSets

CONSTANTS
    Owner,      \* the user
    Entries,    \* ids of time entries
    Projects,   \* active projects
    Of,         \* the project of an entry
    Calls,      \* the calls that may be in flight at once (a bound)
    IdleOn,     \* workspace.idle_detection_enabled
    Guarded,    \* the user is a member with a daily target (attendance)
    MaxFaults,  \* bound on lost polls and calls and on reloads
    None

ASSUME NoneAssumption == None \notin Entries \cup Projects
ASSUME NamesAssumption ==
    {"no timer", "no answer", "loading", "unread"} \cap (Entries \cup {None}) = {}
ASSUME OfAssumption == Of \in [Entries -> Projects]
ASSUME FlagsAssumption == IdleOn \in BOOLEAN /\ Guarded \in BOOLEAN
ASSUME FaultAssumption == MaxFaults \in Nat

VARIABLES
    slot, closed,   \* the server: what runs, and what will never run (again)
    shown,      \* the running entry as last read: currentEntry
    poll,       \* the answer of the poll that is on its way, or NoAnswer
    form,       \* the project that is selected
    dialog,     \* the confirmation on the screen
    detector,   \* the idle detector
    idle,       \* idleStartTime: the entry that ran at that moment
    deciding,   \* the choice of the idle dialog that is being carried out
    call,       \* the calls in flight
    over,       \* the entry whose stop the tab heard of since the last answer (history)
    faults      \* what was lost or reloaded so far

server == <<slot, closed>>
bar == <<shown, poll, form, dialog>>
watch == <<detector, idle, deciding>>
vars == <<server, bar, watch, call, over, faults>>

Server == INSTANCE TimerSlot WITH Users <- {Owner}

NoTimer == "no timer"   \* what ran when the tab went idle: nothing
NoDialog == [kind |-> "none", project |-> None]
NoAnswer == "no answer"
Loading == "loading"     \* nothing read yet: the bar is not on the screen
Unread == "unread"       \* the first request failed: the bar is, without a timer
NoCall == [phase |-> "free"]

Dialog == [kind : {"none", "switch", "stop", "continue"}, project : Projects \cup {None}]
Request == [phase : {"sent", "done", "failed"}, from : {"bar", "list", "modal", "gone"},
            op : {"start", "stop"}, entry : Entries \cup {None},
            project : Projects, force : BOOLEAN, cut : Entries \cup {None, NoTimer}]

TypeOK ==
    /\ slot \in [{Owner} -> Entries \cup {None}]
    /\ closed \in SUBSET Entries
    /\ shown \in Entries \cup {None, Loading, Unread}
    /\ poll \in Entries \cup {None, NoAnswer}
    /\ form \in Projects \cup {None}
    /\ dialog \in Dialog
    /\ detector \in {"off", "starting", "native", "counting", "resting"}
    /\ idle \in Entries \cup {None, NoTimer}
    /\ deciding \in {"none", "stop", "continue"}
    /\ call \in [Calls -> Request \cup {NoCall}]
    /\ over \in Entries \cup {None}
    /\ faults \in 0..MaxFaults

Init ==
    /\ Server!Init
    /\ shown = Loading /\ poll = NoAnswer /\ form = None
    /\ dialog = NoDialog
    /\ detector = "off" /\ idle = None /\ deciding = "none"
    /\ call = [c \in Calls |-> NoCall]
    /\ over = None /\ faults = 0

-----------------------------------------------------------------------------
(* The server. *)

Running == slot[Owner]

\* The id of a new entry of project p, if one is left.
Fresh(p) ==
    LET free == {e \in Entries \ closed : Of[e] = p /\ e # Running}
    IN  IF free = {} THEN {} ELSE {CHOOSE e \in free : TRUE}

\* A start, or a continue of an entry of that project.
ServeStart(k) ==
    /\ k.op = "start"
    /\ \E e \in Fresh(k.project) :
        Server!Start(Owner, e) \/ (k.force /\ Server!Switch(Owner, e))

\* A stop; an end before the start violates chk_te_end_after_start.
ServeStop(k) ==
    /\ k.op = "stop" /\ k.entry = Running
    /\ k.cut \in {None, k.entry}
    /\ Server!Stop(Owner)

\* The user at another tab or device.
Elsewhere ==
    /\ \/ Server!Stop(Owner)
       \/ \E p \in Projects : \E e \in Fresh(p) :
              Server!Start(Owner, e) \/ Server!Switch(Owner, e)
    /\ UNCHANGED <<faults, bar, watch, call, over>>

-----------------------------------------------------------------------------
(* What the tab shows, and its calls. *)

Known == shown \in Entries
ModalOpen == Known /\ idle # None
StopShown == Known /\ Of[shown] = form
\* No dialog covers the page.
Reachable == ~ModalOpen /\ dialog = NoDialog
BarReachable == Reachable /\ shown # Loading

InFlight(from) == {c \in Calls : call[c] # NoCall /\ call[c].from = from}
Pending(op) == \E c \in InFlight("bar") : call[c].op = op

Start(from, p, force) ==
    [phase |-> "sent", from |-> from, op |-> "start", entry |-> None,
     project |-> p, force |-> force, cut |-> None]
Stop(from, e, cut) ==
    [phase |-> "sent", from |-> from, op |-> "stop", entry |-> e,
     project |-> Of[e], force |-> FALSE, cut |-> cut]

Send(k) == \E c \in Calls : call[c] = NoCall /\ call' = [call EXCEPT ![c] = k]

\* mutant: the cleanup of the detector leaves the idle state behind
MutRender(e) ==
    /\ shown' = e
    /\ form' = IF e \in {None, shown} THEN form ELSE Of[e]
    /\ detector' = IF e = None \/ ~IdleOn THEN "off"
                    ELSE IF detector = "off" THEN "starting" ELSE detector
    /\ idle' = idle

\* The effects of a new answer e of the poll: the bar copies the project of an
\* entry it did not show before, and the detector follows whether one runs.
Render(e) ==
    /\ shown' = e
    /\ form' = IF e \in {None, shown} THEN form ELSE Of[e]
    /\ detector' = IF e = None \/ ~IdleOn THEN "off"
                    ELSE IF detector = "off" THEN "starting" ELSE detector
    /\ idle' = IF e = None THEN None ELSE idle

\* mutant: the running timer is not invalidated
MutRefetch == poll' = poll

\* invalidateQueries: an answer under way is dropped and the query asked again; a
\* request for a query that has no data yet is waited for instead.
Refetch == poll' = IF shown \in {Loading, Unread} THEN poll ELSE NoAnswer

-----------------------------------------------------------------------------
(* The poll of the running entry, every five seconds in the visible tab. *)

\* mutant: nothing is polled while a timer is shown
MutPollServe ==
    /\ ~Known /\ poll = NoAnswer
    /\ poll' = Running
    /\ UNCHANGED <<server, shown, form, dialog, watch, call, over, faults>>

PollServe ==
    /\ poll = NoAnswer
    /\ poll' = Running
    /\ UNCHANGED <<server, shown, form, dialog, watch, call, over, faults>>

\* The tab keeps what it showed, and asks again five seconds later.
PollLost ==
    /\ faults < MaxFaults
    /\ poll # NoAnswer
    /\ poll' = NoAnswer
    /\ shown' = IF shown = Loading THEN Unread ELSE shown
    /\ faults' = faults + 1
    /\ UNCHANGED <<server, form, dialog, watch, call, over>>

PollAnswer ==
    /\ poll # NoAnswer
    /\ Render(poll)
    /\ poll' = NoAnswer /\ over' = None
    /\ UNCHANGED <<server, dialog, deciding, call, faults>>

\* A reload forgets everything but the calls already on their way.
Reload ==
    /\ faults < MaxFaults
    /\ faults' = faults + 1
    /\ shown' = Loading /\ form' = None /\ dialog' = NoDialog
    /\ detector' = "off" /\ idle' = None /\ deciding' = "none"
    /\ call' = [c \in Calls |-> IF call[c] = NoCall THEN NoCall
                               ELSE [call[c] EXCEPT !.from = "gone"]]
    /\ poll' = NoAnswer /\ over' = None
    /\ UNCHANGED server

-----------------------------------------------------------------------------
(* The buttons of the bar and of a listed entry. *)

PickProject(p) ==
    /\ BarReachable
    /\ form' = p
    /\ UNCHANGED <<server, shown, poll, dialog, watch, call, over, faults>>

OpenDialog(kind, p) ==
    /\ dialog' = [kind |-> kind, project |-> p]
    /\ UNCHANGED call

PressStart ==
    /\ BarReachable /\ ~StopShown
    /\ form # None /\ ~Pending("start")
    /\ IF Known THEN OpenDialog("switch", None)
       ELSE Send(Start("bar", form, FALSE)) /\ UNCHANGED dialog
    /\ UNCHANGED <<server, shown, poll, form, watch, over, faults>>

\* The button of the dialog stays enabled while its call is in flight.
ConfirmSwitch ==
    /\ ~ModalOpen /\ dialog.kind = "switch"
    /\ Send(Start("bar", form, TRUE))
    /\ UNCHANGED <<server, bar, watch, over, faults>>

\* Below the daily target the bar asks first.
PressStop ==
    /\ BarReachable /\ StopShown /\ ~Pending("stop")
    /\ \/ Guarded /\ OpenDialog("stop", None)
       \/ Send(Stop("bar", shown, None)) /\ UNCHANGED dialog
    /\ UNCHANGED <<server, shown, poll, form, watch, over, faults>>

ConfirmStop ==
    /\ ~ModalOpen /\ dialog.kind = "stop"
    /\ Known
    /\ Send(Stop("bar", shown, None))
    /\ UNCHANGED <<server, bar, watch, over, faults>>

PressContinue(e) ==
    /\ Reachable /\ e \in closed \cup {Running}
    /\ InFlight("list") = {}
    /\ IF Known THEN OpenDialog("continue", Of[e])
       ELSE Send(Start("list", Of[e], FALSE)) /\ UNCHANGED dialog
    /\ UNCHANGED <<server, shown, poll, form, watch, over, faults>>

ConfirmContinue ==
    /\ ~ModalOpen /\ dialog.kind = "continue"
    /\ Send(Start("list", dialog.project, TRUE))
    /\ dialog' = NoDialog
    /\ UNCHANGED <<server, shown, poll, form, watch, over, faults>>

Cancel ==
    /\ ~ModalOpen /\ dialog # NoDialog
    /\ dialog' = NoDialog
    /\ UNCHANGED <<server, shown, poll, form, watch, call, over, faults>>

-----------------------------------------------------------------------------
(* The idle detector and the idle dialog. *)

\* The operating system's detector if it is wanted and allowed, or a countdown.
DetectorStarts ==
    /\ detector = "starting"
    /\ \E d \in {"native", "counting"} : detector' = d
    /\ UNCHANGED <<server, bar, idle, deciding, call, over, faults>>

GoesIdle ==
    /\ detector \in {"native", "counting"} /\ idle = None
    /\ idle' = IF Running = None THEN NoTimer ELSE Running
    /\ detector' = IF detector = "native" THEN detector ELSE "resting"
    /\ UNCHANGED <<server, bar, deciding, call, over, faults>>

\* Moving the mouse restarts the countdown, unless the tab is idle.
Activity ==
    /\ detector = "resting" /\ idle = None
    /\ detector' = "counting"
    /\ UNCHANGED <<server, bar, idle, deciding, call, over, faults>>

Keep ==
    /\ ModalOpen /\ deciding = "none"
    /\ idle' = None
    /\ UNCHANGED <<server, bar, detector, deciding, call, over, faults>>

\* Both ways to discard stop the entry first, at the moment the tab went idle.
\* The start that may follow has the project of the entry.
Discard(next) ==
    /\ ModalOpen /\ deciding = "none"
    /\ deciding' = next
    /\ Send(Stop("modal", shown, idle))
    /\ UNCHANGED <<server, bar, detector, idle, over, faults>>

-----------------------------------------------------------------------------
(* What becomes of a call. *)

Serve(c) ==
    /\ call[c].phase = "sent"
    /\ ServeStart(call[c]) \/ ServeStop(call[c])
    /\ call' = [call EXCEPT ![c].phase = "done"]
    /\ UNCHANGED <<over, faults, bar, watch>>

\* A timer runs already, the entry does not run, an end before the start, a
\* project that is gone.
Refuse(c) ==
    /\ call[c].phase = "sent"
    /\ call' = [call EXCEPT ![c].phase = "failed"]
    /\ UNCHANGED <<server, bar, watch, over, faults>>

\* The request or its answer is lost: the tab sees a failure.
LoseCall(c) ==
    /\ faults < MaxFaults
    /\ call[c].phase \in {"sent", "done"}
    /\ call' = [call EXCEPT ![c].phase = "failed"]
    /\ faults' = faults + 1
    /\ UNCHANGED <<server, bar, watch, over>>

\* A tab that was reloaded does not hear the answer.
Unheard(c) ==
    /\ call[c].phase \in {"done", "failed"} /\ call[c].from = "gone"
    /\ call' = [call EXCEPT ![c] = NoCall]
    /\ UNCHANGED <<server, bar, watch, over, faults>>

\* mutant: only a failed stop enables the buttons again
MutFailed(c) ==
    LET k == call[c] IN
    /\ k.phase = "failed" /\ k.from # "gone"
    /\ deciding' = IF k.from = "modal" /\ k.op = "stop" THEN "none" ELSE deciding
    /\ call' = [call EXCEPT ![c] = NoCall]
    /\ UNCHANGED <<server, bar, detector, idle, over, faults>>

\* A failed call of the dialog enables its buttons again.
Failed(c) ==
    LET k == call[c] IN
    /\ k.phase = "failed" /\ k.from # "gone"
    /\ deciding' = IF k.from = "modal" THEN "none" ELSE deciding
    /\ call' = [call EXCEPT ![c] = NoCall]
    /\ UNCHANGED <<server, bar, detector, idle, over, faults>>

\* The tab hears that its call k is done: of a stop, that its entry has ended.
Heard(k) ==
    /\ Refetch
    /\ over' = IF k.op = "stop" THEN k.entry ELSE over

\* A call of the bar closes its dialogs.
BarDone(c) ==
    LET k == call[c] IN
    /\ k.phase = "done" /\ k.from \in {"bar", "list"}
    /\ dialog' = IF k.from = "bar" /\ dialog.kind = (IF k.op = "start" THEN "switch" ELSE "stop")
                 THEN NoDialog ELSE dialog
    /\ Heard(k)
    /\ call' = [call EXCEPT ![c] = NoCall]
    /\ UNCHANGED <<server, shown, form, watch, faults>>

\* The first half of "discard and continue": the second call follows.
ModalStopped(c) ==
    LET k == call[c] IN
    /\ k.phase = "done" /\ k.from = "modal" /\ k.op = "stop"
    /\ deciding = "continue"
    /\ Heard(k)
    /\ call' = [call EXCEPT ![c] = Start("modal", k.project, TRUE)]
    /\ UNCHANGED <<server, shown, form, dialog, watch, faults>>

ModalDone(c) ==
    LET k == call[c] IN
    /\ k.phase = "done" /\ k.from = "modal"
    /\ k.op = "start" \/ deciding = "stop"
    /\ idle' = None
    /\ deciding' = "none"
    /\ Heard(k)
    /\ call' = [call EXCEPT ![c] = NoCall]
    /\ UNCHANGED <<server, shown, form, dialog, detector, faults>>

Answer(c) == Unheard(c) \/ Failed(c) \/ BarDone(c) \/ ModalStopped(c) \/ ModalDone(c)

Poll == PollServe \/ PollAnswer
User ==
    \/ Reload \/ \E p \in Projects : PickProject(p)
    \/ PressStart \/ ConfirmSwitch \/ PressStop \/ ConfirmStop
    \/ \E e \in Entries : PressContinue(e)
    \/ ConfirmContinue \/ Cancel
    \/ Activity \/ Keep \/ \E next \in {"stop", "continue"} : Discard(next)

Next ==
    \/ Elsewhere
    \/ Poll \/ PollLost \/ User \/ DetectorStarts \/ GoesIdle
    \/ \E c \in Calls : Serve(c) \/ Refuse(c) \/ LoseCall(c) \/ Answer(c)

\* Timers and promises of the browser come through, and a call is served or
\* refused in the end; nobody has to press a button.
Fairness ==
    /\ WF_vars(PollServe) /\ WF_vars(PollAnswer)
    /\ \A c \in Calls : WF_vars(Serve(c) \/ Refuse(c)) /\ WF_vars(Answer(c))

Spec == Init /\ [][Next]_vars
FairSpec == Spec /\ Fairness

-----------------------------------------------------------------------------
(* Properties. *)

\* A tab is idle, or counts towards it, only while it shows a running timer: the
\* detector is taken down with the timer, whoever stopped it (useIdleDetector).
IdleOfTimer == idle # None \/ detector # "off" => Known /\ IdleOn

\* The buttons of the idle dialog are disabled exactly while a call it made is
\* in flight, in whichever of its two steps that fails (IdleModal's try/finally).
ButtonsFollowCall ==
    /\ (deciding # "none") <=> (InFlight("modal") # {})
    /\ \A c, d \in InFlight("modal") : c = d

\* Once the tab has heard that it stopped an entry, the next answer does not say that it
\* runs, whatever poll was on its way meanwhile: the bar, whose stop would be refused, and the
\* detector let go of it then (the invalidations in useStopTimer).
NoOldAnswer == over # None => poll # over

\* Whatever fails, the dialog that nobody can dismiss lets itself be answered
\* again: its buttons do not stay disabled.
ButtonsReturn == deciding # "none" ~> deciding = "none"

\* The bar of the tab in front comes to show the timer that runs, or that none
\* does, if neither changes meanwhile: no old answer stays.
BarTellsTheTruth ==
    \A e \in Entries \cup {None} :
        Running = e ~> (shown = e \/ Running # e)

\* What the idle dialog offers to trim is a part of the timer it shows
\* (IdleModal: "stops timer with idle_end_time (trim the idle period)").
IdleOfShown == ModalOpen /\ shown = Running => idle = shown
=============================================================================
