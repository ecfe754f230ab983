-------------------------------- MODULE Bell --------------------------------
(***************************************************************************)
(* The bell (src/web/src/features/notifications): two queries, one for the  *)
(* member's own notifications and one for those of attendance, each polled  *)
(* on its own; a sheet that marks everything as read two seconds after it   *)
(* was opened; and calls that mark notifications, of which several may be   *)
(* under way.  A request that is asked, served and heard in three steps can *)
(* be overtaken by a mark.                                                 *)
(***************************************************************************)
EXTENDS Naturals, FiniteSets

CONSTANTS
    Regular,     \* ids of notifications about approvals, members and projects
    Attendance,  \* ids of attendance notifications
    Calls,       \* slots for the calls under way
    MaxFaults    \* bound on requests and calls that fail and on reloads

ASSUME StreamsAssumption == Regular \cap Attendance = {}
ASSUME FaultAssumption == MaxFaults \in Nat

VARIABLES
    row,     \* the server's rows: absent, unread or read
    loaded,  \* the queries that have data
    unread,  \* the unread rows among it
    poll,    \* the request of each query
    open,    \* isOpen
    timer,   \* markAllReadTimer is set
    calls,   \* the calls that mark notifications
    heard,   \* (history) ids of loaded queries whose mark was heard
    faults

vars == <<row, loaded, unread, poll, open, timer, calls, heard, faults>>

Streams == {"regular", "attendance"}
Ids == Regular \cup Attendance
Of(s) == IF s = "regular" THEN Regular ELSE Attendance

Idle == [phase |-> "none", ids |-> {}]

TypeOK ==
    /\ row \in [Ids -> {"absent", "unread", "read"}]
    /\ loaded \subseteq Streams
    /\ unread \subseteq UNION {Of(s) : s \in loaded}
    /\ poll \in [Streams -> [phase : {"none", "asked", "served"}, ids : SUBSET Ids]]
    /\ open \in BOOLEAN /\ timer \in BOOLEAN
    /\ calls \in [Calls -> [phase : {"none", "sent", "served", "failed"}, ids : SUBSET Ids]]
    /\ heard \subseteq Ids
    /\ faults \in 0..MaxFaults

Init ==
    /\ row = [i \in Ids |-> "absent"]
    /\ loaded = {} /\ unread = {}
    /\ poll = [s \in Streams |-> [phase |-> "asked", ids |-> {}]]
    /\ open = FALSE /\ timer = FALSE
    /\ calls = [c \in Calls |-> Idle]
    /\ heard = {}
    /\ faults = 0

Fault == faults < MaxFaults /\ faults' = faults + 1

-----------------------------------------------------------------------------
(* The rows. *)

Notify(i) ==
    /\ row[i] = "absent"
    /\ row' = [row EXCEPT ![i] = "unread"]
    /\ UNCHANGED <<loaded, unread, poll, open, timer, calls, heard, faults>>

\* Another tab or device, or an answer to the prompt.
Marked(ids) == [i \in Ids |-> IF i \in ids /\ row[i] = "unread" THEN "read" ELSE row[i]]

MarkElsewhere(i) ==
    /\ row[i] = "unread"
    /\ row' = Marked({i})
    /\ UNCHANGED <<loaded, unread, poll, open, timer, calls, heard, faults>>

-----------------------------------------------------------------------------
(* The two queries. *)

\* The effect sets the timer anew when the sheet opens or closes and when the
\* number of unread notifications changes.
Rearm ==
    timer' = IF open' = open /\ Cardinality(unread') = Cardinality(unread) THEN timer
             ELSE open' /\ unread' # {}

\* Every 3 or 30 seconds, and when the window is focused.
PollAsk(s) ==
    /\ poll[s].phase = "none"
    /\ poll' = [poll EXCEPT ![s].phase = "asked"]
    /\ UNCHANGED <<row, loaded, unread, open, timer, calls, heard, faults>>

PollServe(s) ==
    /\ poll[s].phase = "asked"
    /\ poll' = [poll EXCEPT ![s] = [phase |-> "served", ids |-> {i \in Of(s) : row[i] = "unread"}]]
    /\ UNCHANGED <<row, loaded, unread, open, timer, calls, heard, faults>>

PollHeard(s) ==
    /\ poll[s].phase = "served"
    /\ loaded' = loaded \cup {s}
    /\ unread' = (unread \ Of(s)) \cup poll[s].ids
    /\ poll' = [poll EXCEPT ![s] = Idle]
    /\ UNCHANGED <<row, open, calls, heard, faults>>
    /\ Rearm

PollLost(s) ==
    /\ poll[s].phase # "none" /\ Fault
    /\ poll' = [poll EXCEPT ![s] = Idle]
    /\ UNCHANGED <<row, loaded, unread, open, timer, calls, heard>>

\* mutant: a request under way is left alone
MutRefetch == [s \in Streams |-> IF poll[s].phase # "none" THEN poll[s] ELSE [phase |-> "asked", ids |-> {}]]

\* Both queries are invalidated: a request under way is dropped and made anew,
\* unless it is the first of its query.
Refetch ==
    [s \in Streams |-> IF s \notin loaded /\ poll[s].phase # "none" THEN poll[s]
                       ELSE [phase |-> "asked", ids |-> {}]]

-----------------------------------------------------------------------------
(* The sheet. *)

Toggle ==
    /\ open' = ~open /\ UNCHANGED unread
    /\ Rearm
    /\ UNCHANGED <<row, loaded, poll, calls, heard, faults>>

\* Nothing is disabled while a call is under way.
Call(ids) ==
    \E c \in Calls :
        /\ calls[c] = Idle
        /\ calls' = [calls EXCEPT ![c] = [phase |-> "sent", ids |-> ids]]

TimerFires ==
    /\ timer /\ timer' = FALSE
    /\ Call(Ids)
    /\ UNCHANGED <<row, loaded, unread, poll, open, heard, faults>>

\* "Mark all as read", or a click on one notification.
Press ==
    /\ open
    /\ \E ids \in {Ids} \cup {{i} : i \in unread} : unread # {} /\ Call(ids)
    /\ UNCHANGED <<row, loaded, unread, poll, open, timer, heard, faults>>

\* Both tables are updated in one transaction; rows that come later are not.
MarkServe(c) ==
    /\ calls[c].phase = "sent"
    /\ row' = Marked(calls[c].ids)
    /\ calls' = [calls EXCEPT ![c] = [phase |-> "served", ids |-> {i \in @.ids : row[i] # "absent"}]]
    /\ UNCHANGED <<loaded, unread, poll, open, timer, heard, faults>>

\* The call or its answer is lost.
MarkLost(c) ==
    /\ calls[c].phase \in {"sent", "served"} /\ Fault
    /\ calls' = [calls EXCEPT ![c].phase = "failed"]
    /\ UNCHANGED <<row, loaded, unread, poll, open, timer, heard>>

\* onSuccess; a failure changes nothing.
MarkHeard(c) ==
    /\ calls[c].phase \in {"served", "failed"}
    /\ calls' = [calls EXCEPT ![c] = Idle]
    /\ IF calls[c].phase = "served"
       THEN /\ poll' = Refetch
            /\ heard' = heard \cup {i \in calls[c].ids : \E s \in loaded : i \in Of(s)}
       ELSE UNCHANGED <<poll, heard>>
    /\ UNCHANGED <<row, loaded, unread, open, timer, faults>>

\* Everything in memory is gone; calls under way are served or not, as marks from
\* elsewhere.
Reload ==
    /\ Fault
    /\ loaded' = {} /\ unread' = {} /\ open' = FALSE /\ timer' = FALSE
    /\ poll' = [s \in Streams |-> [phase |-> "asked", ids |-> {}]]
    /\ calls' = [c \in Calls |-> Idle]
    /\ heard' = {}
    /\ UNCHANGED row

Next ==
    \/ \E i \in Ids : Notify(i) \/ MarkElsewhere(i)
    \/ \E s \in Streams : PollAsk(s) \/ PollServe(s) \/ PollHeard(s) \/ PollLost(s)
    \/ Toggle \/ TimerFires \/ Press
    \/ \E c \in Calls : MarkServe(c) \/ MarkLost(c) \/ MarkHeard(c)
    \/ Reload

Spec == Init /\ [][Next]_vars

-----------------------------------------------------------------------------
(* Properties. *)

\* A notification whose mark the tab has heard, and that is off the list of unread
\* ones, never comes back to it: no answer of either poll that was read before the
\* mark is taken after it, however polls and several marks overtake each other
\* (invalidateQueries in useMarkNotificationRead and useMarkAllNotificationsRead).
NeverUnreadAgain == [][\A i \in heard \cap heard' : i \in unread' => i \in unread]_vars
=============================================================================
