-------------------------- MODULE TimerClientProofs --------------------------
(***************************************************************************)
(* Proofs about TimerClient, for any entries, projects, calls in flight and *)
(* number of faults.                                                       *)
(***************************************************************************)
EXTENDS TimerClient, TLAPS

\* A confirmation is on the screen only with what its button will send.
DialogsSound ==
    /\ dialog.kind = "switch" => form # None
    /\ dialog.kind = "continue" => dialog.project # None

Inv == TypeOK /\ IdleOfTimer /\ ButtonsFollowCall /\ DialogsSound

\* What Inv says of one variable; the others are types.
CallType == call \in [Calls -> Request \cup {NoCall}]

-----------------------------------------------------------------------------
(* Calls and answers. *)

\* The buttons make requests.
LEMMA StartType ==
  ASSUME NEW from \in {"bar", "list", "modal"}, NEW p \in Projects, NEW force \in BOOLEAN
  PROVE  Start(from, p, force) \in Request /\ Start(from, p, force).from = from
  BY DEF Start, Request

LEMMA StopType ==
  ASSUME NEW from \in {"bar", "list", "modal"}, NEW e \in Entries,
         NEW cut \in Entries \cup {None, NoTimer}
  PROVE  Stop(from, e, cut) \in Request /\ Stop(from, e, cut).from = from
  BY OfAssumption DEF Stop, Request

\* A free slot is told from a request.
LEMMA FreeIsNoRequest == NoCall \notin Request
  BY DEF NoCall, Request

\* A call that is sent leaves the others alone; one that the dialog did not make
\* does not count as one of the dialog.
LEMMA SendKeeps ==
  ASSUME CallType, NEW k \in Request, Send(k)
  PROVE  /\ CallType'
         /\ k.from # "modal" => InFlight("modal")' = InFlight("modal")
  BY FreeIsNoRequest DEF Send, CallType, InFlight

\* Only the phase of a call changes when it is served, refused or lost.
LEMMA PhaseKeeps ==
  ASSUME CallType, NEW c \in Calls, call[c] # NoCall, NEW phase \in {"done", "failed"},
         call' = [call EXCEPT ![c].phase = phase]
  PROVE  CallType' /\ InFlight("modal")' = InFlight("modal")
<1>1. call[c] \in Request
  BY DEF CallType
<1>2. [call[c] EXCEPT !.phase = phase] \in Request
  BY <1>1 DEF Request
<1>3. [call[c] EXCEPT !.phase = phase].from = call[c].from
  BY <1>1 DEF Request
<1>4. call' = [call EXCEPT ![c] = [call[c] EXCEPT !.phase = phase]]
  OBVIOUS
<1>5. CallType'
  BY <1>2, <1>4 DEF CallType
<1>6. InFlight("modal")' = InFlight("modal")
  BY <1>2, <1>3, <1>4, FreeIsNoRequest DEF InFlight, CallType
<1>7. QED
  BY <1>5, <1>6

\* What a call that has a phase is.
LEMMA PhaseOfRequest ==
  ASSUME CallType, NEW c \in Calls, call[c].phase \in {"sent", "done", "failed"}
  PROVE  call[c] \in Request /\ call[c] # NoCall
  BY FreeIsNoRequest DEF CallType, NoCall

\* A call that is over is in flight no more.
LEMMA FreeKeeps ==
  ASSUME CallType, NEW c \in Calls, call' = [call EXCEPT ![c] = NoCall]
  PROVE  /\ CallType'
         /\ InFlight("modal")' = InFlight("modal") \ {c}
  BY DEF CallType, InFlight

-----------------------------------------------------------------------------
(* The server. *)

\* A new entry is one of the entries.
LEMMA FreshType == \A p \in Projects : Fresh(p) \subseteq Entries
  BY DEF Fresh

\* Starting, switching and stopping keep the slot well typed.
LEMMA SlotType ==
  ASSUME TypeOK, NEW e \in Entries,
         Server!Start(Owner, e) \/ Server!Switch(Owner, e) \/ Server!Stop(Owner)
  PROVE  /\ slot' \in [{Owner} -> Entries \cup {None}]
         /\ closed' \in SUBSET Entries
  BY DEF TypeOK, Server!Start, Server!Switch, Server!Stop

\* A call that is served keeps the slot well typed: its start takes a new entry, and
\* its stop the one that runs.
LEMMA ServeType ==
  ASSUME TypeOK, NEW c \in Calls, Serve(c)
  PROVE  /\ slot' \in [{Owner} -> Entries \cup {None}]
         /\ closed' \in SUBSET Entries
<1>1. call[c] \in Request
  BY PhaseOfRequest DEF Serve, TypeOK, CallType
<1>2. CASE ServeStart(call[c])
  BY <1>1, <1>2, FreshType, SlotType DEF ServeStart, Request
<1>3. CASE ServeStop(call[c])
  <2>1. slot[Owner] \in Entries
    BY <1>3 DEF ServeStop, Server!Stop, TypeOK
  <2>2. QED
    BY <1>3, <2>1, SlotType DEF ServeStop
<1>4. QED
  BY <1>2, <1>3 DEF Serve

\* So does what the user does at another tab.
LEMMA ElsewhereType ==
  ASSUME TypeOK, Elsewhere
  PROVE  /\ slot' \in [{Owner} -> Entries \cup {None}]
         /\ closed' \in SUBSET Entries
<1>1. CASE Server!Stop(Owner)
  <2>1. slot[Owner] \in Entries
    BY <1>1 DEF Server!Stop, TypeOK
  <2>2. QED
    BY <1>1, <2>1, SlotType
<1>2. CASE \E p \in Projects : \E e \in Fresh(p) :
              Server!Start(Owner, e) \/ Server!Switch(Owner, e)
  BY <1>2, FreshType, SlotType
<1>3. QED
  BY <1>1, <1>2 DEF Elsewhere

-----------------------------------------------------------------------------
(* The invariant. *)

\* A tab that opens shows nothing, has sent nothing and is not idle.
LEMMA InitInv == Init => Inv
<1> SUFFICES ASSUME Init PROVE Inv
  OBVIOUS
<1>1. InFlight("modal") = {}
  BY DEF Init, InFlight
<1>2. slot \in [{Owner} -> Entries \cup {None}] /\ closed \in SUBSET Entries
  BY DEF Init, Server!Init
<1>3. call \in [Calls -> Request \cup {NoCall}]
  BY DEF Init
<1>4. TypeOK
  BY <1>2, <1>3, FaultAssumption DEF Init, TypeOK, NoDialog, Dialog
<1>5. QED
  BY <1>1, <1>4 DEF Init, Inv, IdleOfTimer, ButtonsFollowCall, DialogsSound, NoDialog

\* What a step must keep, part by part: the server, the calls with the choice of
\* the idle dialog, and the rest of the tab.
ServerOK == slot \in [{Owner} -> Entries \cup {None}] /\ closed \in SUBSET Entries
CallsOK == CallType /\ deciding \in {"none", "stop", "continue"} /\ ButtonsFollowCall
ScreenOK ==
    /\ shown \in Entries \cup {None, Loading, Unread}
    /\ poll \in Entries \cup {None, NoAnswer}
    /\ form \in Projects \cup {None}
    /\ dialog \in Dialog /\ DialogsSound
    /\ detector \in {"off", "starting", "native", "counting", "resting"}
    /\ idle \in Entries \cup {None, NoTimer}
    /\ IdleOfTimer

CountsOK == over \in Entries \cup {None} /\ faults \in 0..MaxFaults

\* The invariant says just these parts.
LEMMA Parts == Inv <=> ServerOK /\ CallsOK /\ ScreenOK /\ CountsOK
  BY DEF Inv, TypeOK, ServerOK, CallsOK, ScreenOK, CountsOK, CallType

\* Keeping the parts keeps the invariant.
LEMMA PartsNext == ServerOK' /\ CallsOK' /\ ScreenOK' /\ CountsOK' => Inv'
  BY DEF Inv, TypeOK, ServerOK, CallsOK, ScreenOK, CountsOK, CallType

\* Steps that send no call and change none leave the calls as they were.
LEMMA CallsUnchanged ==
  ASSUME CallsOK, UNCHANGED <<call, deciding>>
  PROVE  CallsOK'
  BY DEF CallsOK, CallType, ButtonsFollowCall, InFlight

\* So does a call of the bar or of a listed entry.
LEMMA CallsOfBar ==
  ASSUME CallsOK, NEW k \in Request, k.from # "modal", Send(k), UNCHANGED deciding
  PROVE  CallsOK'
  BY SendKeeps DEF CallsOK, ButtonsFollowCall

\* A step of the tab alone leaves the server well typed.
LEMMA ServerUnchanged == ServerOK /\ UNCHANGED server => ServerOK'
  BY DEF ServerOK, server

-----------------------------------------------------------------------------
(* The steps of the user. *)

\* No button breaks the invariant, pressed in whatever state of the tab.
LEMMA UserInv == Inv /\ User => Inv'
<1> SUFFICES ASSUME Inv, User PROVE Inv'
  OBVIOUS
<1>0. ServerOK /\ CallsOK /\ ScreenOK /\ CountsOK
  BY Parts
<1> USE DEF bar, watch, server, CountsOK
<1>1. CASE Reload
  <2>1. ServerOK'
    BY <1>0, <1>1, ServerUnchanged DEF Reload
  <2>2. CallsOK'
    <3>1. ASSUME NEW c \in Calls, call[c] # NoCall
          PROVE  [call[c] EXCEPT !.from = "gone"] \in Request
      BY <1>0, <3>1 DEF CallsOK, CallType, Request
    <3>2. ASSUME NEW c \in Calls
          PROVE  call'[c] = NoCall \/ (call'[c] \in Request /\ call'[c].from = "gone")
      <4>1. CASE call[c] = NoCall
        BY <1>1, <4>1 DEF Reload
      <4>2. CASE call[c] # NoCall
        <5>1. call'[c] = [call[c] EXCEPT !.from = "gone"] /\ call[c] \in Request
          BY <1>0, <1>1, <4>2 DEF Reload, CallsOK, CallType
        <5>2. QED
          BY <5>1, <3>1, <4>2 DEF Request
      <4>3. QED
        BY <4>1, <4>2
    <3>3. call' = [c \in Calls |-> call'[c]]
      BY <1>1 DEF Reload
    <3>4. InFlight("modal")' = {}
      BY <3>2 DEF InFlight
    <3>5. CallType'
      BY <3>2, <3>3 DEF CallType
    <3>6. QED
      BY <1>1, <3>4, <3>5 DEF Reload, CallsOK, ButtonsFollowCall
  <2>3. ScreenOK' /\ CountsOK'
    BY <1>0, <1>1, FaultAssumption
    DEF Reload, Refetch, ScreenOK, DialogsSound, IdleOfTimer, NoDialog, Dialog
  <2>4. QED
    BY <2>1, <2>2, <2>3, PartsNext
<1>2. ASSUME NEW p \in Projects, PickProject(p) PROVE Inv'
  <2>1. ServerOK' /\ CallsOK'
    BY <1>0, <1>2, ServerUnchanged, CallsUnchanged DEF PickProject
  <2>2. ScreenOK' /\ CountsOK'
    BY <1>0, <1>2, NoneAssumption DEF PickProject, ScreenOK, DialogsSound, IdleOfTimer, Known
  <2>3. QED
    BY <2>1, <2>2, PartsNext
<1>3. CASE PressStart
  <2>1. ServerOK' /\ CountsOK'
    BY <1>0, <1>3, ServerUnchanged DEF PressStart
  <2>2. form \in Projects
    BY <1>0, <1>3 DEF PressStart, ScreenOK
  <2>3. CallsOK'
    <3>1. CASE Known
      BY <1>0, <1>3, <3>1, CallsUnchanged DEF PressStart, OpenDialog
    <3>2. CASE ~Known
      BY <1>0, <1>3, <2>2, <3>2, StartType, CallsOfBar DEF PressStart
    <3>3. QED
      BY <3>1, <3>2
  <2>4. ScreenOK'
    <3>1. dialog' = dialog \/ dialog' = [kind |-> "switch", project |-> None]
      BY <1>3 DEF PressStart, OpenDialog
    <3>2. dialog' \in Dialog /\ DialogsSound'
      BY <1>0, <1>3, <2>2, <3>1, NoneAssumption DEF PressStart, ScreenOK, DialogsSound, Dialog
    <3>3. QED
      BY <1>0, <1>3, <3>2 DEF PressStart, ScreenOK, IdleOfTimer, Known
  <2>5. QED
    BY <2>1, <2>3, <2>4, PartsNext
<1>4. CASE ConfirmSwitch
  <2>1. form \in Projects
    BY <1>0, <1>4 DEF ConfirmSwitch, ScreenOK, DialogsSound
  <2>2. ServerOK' /\ CallsOK'
    BY <1>0, <1>4, <2>1, ServerUnchanged, StartType, CallsOfBar DEF ConfirmSwitch
  <2>3. ScreenOK' /\ CountsOK'
    BY <1>0, <1>4 DEF ConfirmSwitch, ScreenOK, DialogsSound, IdleOfTimer, Known
  <2>4. QED
    BY <2>2, <2>3, PartsNext
<1>5. CASE PressStop
  <2>1. shown \in Entries
    BY <1>0, <1>5 DEF PressStop, StopShown, Known, ScreenOK
  <2>2. ServerOK' /\ CountsOK'
    BY <1>0, <1>5, ServerUnchanged DEF PressStop
  <2>3. CallsOK'
    BY <1>0, <1>5, <2>1, StopType, CallsOfBar, CallsUnchanged DEF PressStop, OpenDialog
  <2>4. ScreenOK'
    BY <1>0, <1>5 DEF PressStop, OpenDialog, ScreenOK, DialogsSound, IdleOfTimer, Known, Dialog
  <2>5. QED
    BY <2>2, <2>3, <2>4, PartsNext
<1>6. CASE ConfirmStop
  <2>1. shown \in Entries
    BY <1>0, <1>6 DEF ConfirmStop, Known, ScreenOK
  <2>2. ServerOK' /\ CallsOK'
    BY <1>0, <1>6, <2>1, ServerUnchanged, StopType, CallsOfBar DEF ConfirmStop
  <2>3. ScreenOK' /\ CountsOK'
    BY <1>0, <1>6 DEF ConfirmStop, ScreenOK, DialogsSound, IdleOfTimer, Known
  <2>4. QED
    BY <2>2, <2>3, PartsNext
<1>7. ASSUME NEW e \in Entries, PressContinue(e) PROVE Inv'
  <2>1. Of[e] \in Projects
    BY OfAssumption
  <2>2. ServerOK' /\ CountsOK'
    BY <1>0, <1>7, ServerUnchanged DEF PressContinue
  <2>3. CallsOK'
    <3>1. CASE Known
      BY <1>0, <1>7, <3>1, CallsUnchanged DEF PressContinue, OpenDialog
    <3>2. CASE ~Known
      BY <1>0, <1>7, <2>1, <3>2, StartType, CallsOfBar DEF PressContinue
    <3>3. QED
      BY <3>1, <3>2
  <2>4. ScreenOK'
    <3>1. dialog' = dialog \/ dialog' = [kind |-> "continue", project |-> Of[e]]
      BY <1>7 DEF PressContinue, OpenDialog
    <3>2. dialog' \in Dialog /\ DialogsSound'
      BY <1>0, <1>7, <2>1, <3>1, NoneAssumption DEF PressContinue, ScreenOK, DialogsSound, Dialog
    <3>3. QED
      BY <1>0, <1>7, <3>2 DEF PressContinue, ScreenOK, IdleOfTimer, Known
  <2>5. QED
    BY <2>2, <2>3, <2>4, PartsNext
<1>8. CASE ConfirmContinue
  <2>1. dialog.project \in Projects
    BY <1>0, <1>8 DEF ConfirmContinue, ScreenOK, DialogsSound, Dialog
  <2>2. ServerOK' /\ CallsOK'
    BY <1>0, <1>8, <2>1, ServerUnchanged, StartType, CallsOfBar DEF ConfirmContinue
  <2>3. ScreenOK' /\ CountsOK'
    BY <1>0, <1>8 DEF ConfirmContinue, ScreenOK, DialogsSound, IdleOfTimer, Known, NoDialog, Dialog
  <2>4. QED
    BY <2>2, <2>3, PartsNext
<1>9. CASE Cancel
  <2>1. ServerOK' /\ CallsOK'
    BY <1>0, <1>9, ServerUnchanged, CallsUnchanged DEF Cancel
  <2>2. ScreenOK' /\ CountsOK'
    BY <1>0, <1>9 DEF Cancel, ScreenOK, DialogsSound, IdleOfTimer, Known, NoDialog, Dialog
  <2>3. QED
    BY <2>1, <2>2, PartsNext
<1>10. CASE Activity
  <2>1. ServerOK' /\ CallsOK'
    BY <1>0, <1>10, ServerUnchanged, CallsUnchanged DEF Activity
  <2>2. ScreenOK' /\ CountsOK'
    BY <1>0, <1>10 DEF Activity, ScreenOK, DialogsSound, IdleOfTimer, Known
  <2>3. QED
    BY <2>1, <2>2, PartsNext
<1>11. CASE Keep
  <2>1. ServerOK' /\ CallsOK'
    BY <1>0, <1>11, ServerUnchanged, CallsUnchanged DEF Keep
  <2>2. ScreenOK' /\ CountsOK'
    BY <1>0, <1>11 DEF Keep, ModalOpen, ScreenOK, DialogsSound, IdleOfTimer, Known
  <2>3. QED
    BY <2>1, <2>2, PartsNext
<1>12. ASSUME NEW next \in {"stop", "continue"}, Discard(next) PROVE Inv'
  <2>1. shown \in Entries /\ idle \in Entries \cup {None, NoTimer}
    BY <1>0, <1>12 DEF Discard, ModalOpen, Known, ScreenOK
  <2>2. ServerOK'
    BY <1>0, <1>12, ServerUnchanged DEF Discard
  <2>3. CallsOK'
    <3> DEFINE k == Stop("modal", shown, idle)
    <3>1. k \in Request /\ k.from = "modal"
      BY <2>1, StopType
    <3>2. PICK c \in Calls : call[c] = NoCall /\ call' = [call EXCEPT ![c] = k]
      BY <1>12 DEF Discard, Send
    <3>3. InFlight("modal") = {}
      BY <1>0, <1>12 DEF Discard, CallsOK, ButtonsFollowCall
    <3>4. CallType'
      BY <1>0, <3>1, <3>2 DEF CallsOK, CallType
    <3>5. InFlight("modal")' = {c}
      BY <1>0, <3>1, <3>2, <3>3, FreeIsNoRequest DEF InFlight, CallsOK, CallType
    <3>6. QED
      BY <1>12, <3>4, <3>5 DEF Discard, CallsOK, ButtonsFollowCall
  <2>4. ScreenOK' /\ CountsOK'
    BY <1>0, <1>12 DEF Discard, ScreenOK, DialogsSound, IdleOfTimer, Known
  <2>5. QED
    BY <2>2, <2>3, <2>4, PartsNext
<1>13. QED
  BY <1>1, <1>2, <1>3, <1>4, <1>5, <1>6, <1>7, <1>8, <1>9, <1>10, <1>11, <1>12 DEF User

-----------------------------------------------------------------------------
(* The polls, the detector, and what becomes of a call. *)

\* Nor does a poll, however old its answer, or the detector.
LEMMA WatchInv == Inv /\ (Poll \/ PollLost \/ DetectorStarts \/ GoesIdle) => Inv'
<1> SUFFICES ASSUME Inv, Poll \/ PollLost \/ DetectorStarts \/ GoesIdle PROVE Inv'
  OBVIOUS
<1>0. ServerOK /\ CallsOK /\ ScreenOK /\ CountsOK
  BY Parts
<1> USE DEF bar, watch, server, CountsOK
<1>1. Running \in Entries \cup {None}
  BY <1>0 DEF ServerOK, Running
<1>2. CASE PollServe
  <2>1. ServerOK' /\ CallsOK'
    BY <1>0, <1>2, ServerUnchanged, CallsUnchanged DEF PollServe
  <2>2. ScreenOK' /\ CountsOK'
    BY <1>0, <1>1, <1>2 DEF PollServe, ScreenOK, DialogsSound, IdleOfTimer, Known
  <2>3. QED
    BY <2>1, <2>2, PartsNext
<1>3. CASE PollLost
  <2>1. ServerOK' /\ CallsOK'
    BY <1>0, <1>3, ServerUnchanged, CallsUnchanged DEF PollLost
  <2>2. shown' \in Entries \cup {None, Loading, Unread} /\ (Known => Known')
    BY <1>0, <1>3, NamesAssumption DEF PollLost, ScreenOK, Known, Loading, Unread
  <2>3. IdleOfTimer' /\ ScreenOK'
    BY <1>0, <1>3, <2>2 DEF PollLost, ScreenOK, DialogsSound, IdleOfTimer
  <2>4. CountsOK'
    BY <1>0, <1>3, FaultAssumption DEF PollLost
  <2>5. QED
    BY <2>1, <2>3, <2>4, PartsNext
<1>4. CASE PollAnswer
  <2>1. ServerOK' /\ CallsOK'
    BY <1>0, <1>4, ServerUnchanged, CallsUnchanged DEF PollAnswer
  <2>2. shown' \in Entries \cup {None} /\ poll' \in Entries \cup {None, NoAnswer}
    BY <1>0, <1>4 DEF PollAnswer, Render, ScreenOK
  <2>3. form' \in Projects \cup {None} /\ (form # None => form' # None)
    BY <1>0, <1>4, <2>2, OfAssumption, NoneAssumption DEF PollAnswer, Render, ScreenOK
  <2>4. /\ detector' \in {"off", "starting", "native", "counting", "resting"}
        /\ idle' \in Entries \cup {None, NoTimer}
        /\ IdleOfTimer'
    BY <1>0, <1>4 DEF PollAnswer, Render, ScreenOK, IdleOfTimer, Known
  <2>5. ScreenOK' /\ CountsOK'
    BY <1>0, <1>4, <2>2, <2>3, <2>4 DEF PollAnswer, ScreenOK, DialogsSound
  <2>6. QED
    BY <2>1, <2>5, PartsNext
<1>5. CASE DetectorStarts
  <2>1. ServerOK' /\ CallsOK'
    BY <1>0, <1>5, ServerUnchanged, CallsUnchanged DEF DetectorStarts
  <2>2. ScreenOK' /\ CountsOK'
    BY <1>0, <1>5 DEF DetectorStarts, ScreenOK, DialogsSound, IdleOfTimer, Known
  <2>3. QED
    BY <2>1, <2>2, PartsNext
<1>6. CASE GoesIdle
  <2>1. ServerOK' /\ CallsOK'
    BY <1>0, <1>6, ServerUnchanged, CallsUnchanged DEF GoesIdle
  <2>2. ScreenOK' /\ CountsOK'
    BY <1>0, <1>1, <1>6 DEF GoesIdle, ScreenOK, DialogsSound, IdleOfTimer, Known
  <2>3. QED
    BY <2>1, <2>2, PartsNext
<1>7. QED
  BY <1>2, <1>3, <1>4, <1>5, <1>6 DEF Poll

\* A step that leaves the tab and its faults alone keeps what is said of them.
LEMMA TabUnchanged ==
  ASSUME ScreenOK, UNCHANGED <<bar, watch>>
  PROVE  ScreenOK'
  BY DEF ScreenOK, DialogsSound, IdleOfTimer, Known, bar, watch

\* Nor does what happens to a call before the tab hears of it, or another tab.
LEMMA CallInv ==
  ASSUME Inv, Elsewhere \/ \E c \in Calls : Serve(c) \/ Refuse(c) \/ LoseCall(c) \/ Unheard(c)
  PROVE  Inv'
<1>0. ServerOK /\ CallsOK /\ ScreenOK /\ CountsOK /\ TypeOK
  BY Parts DEF Inv
<1>1. ASSUME NEW c \in Calls, call[c].phase \in {"sent", "done", "failed"},
             NEW phase \in {"done", "failed"},
             call' = [call EXCEPT ![c].phase = phase], UNCHANGED watch
      PROVE  CallsOK'
  BY <1>0, <1>1, PhaseOfRequest, PhaseKeeps DEF CallsOK, ButtonsFollowCall, watch
<1>2. CASE Elsewhere
  <2>1. ServerOK'
    BY <1>0, <1>2, ElsewhereType DEF ServerOK
  <2>2. CallsOK' /\ ScreenOK' /\ CountsOK'
    BY <1>0, <1>2, CallsUnchanged, TabUnchanged DEF CountsOK, Elsewhere, watch
  <2>3. QED
    BY <2>1, <2>2, PartsNext
<1>3. ASSUME NEW c \in Calls, Serve(c) PROVE Inv'
  <2>1. ServerOK'
    BY <1>0, <1>3, ServeType DEF ServerOK
  <2>2. CallsOK' /\ ScreenOK' /\ CountsOK'
    BY <1>0, <1>1, <1>3, TabUnchanged DEF CountsOK, Serve
  <2>3. QED
    BY <2>1, <2>2, PartsNext
<1>4. ASSUME NEW c \in Calls, Refuse(c) PROVE Inv'
  <2>1. ServerOK' /\ CallsOK' /\ ScreenOK' /\ CountsOK'
    BY <1>0, <1>1, <1>4, ServerUnchanged, TabUnchanged DEF CountsOK, Refuse
  <2>2. QED
    BY <2>1, PartsNext
<1>5. ASSUME NEW c \in Calls, LoseCall(c) PROVE Inv'
  <2>1. ServerOK' /\ CallsOK' /\ ScreenOK'
    BY <1>0, <1>1, <1>5, ServerUnchanged, TabUnchanged DEF LoseCall
  <2>2. CountsOK'
    BY <1>0, <1>5, FaultAssumption DEF CountsOK, LoseCall
  <2>3. QED
    BY <2>1, <2>2, PartsNext
<1>6. ASSUME NEW c \in Calls, Unheard(c) PROVE Inv'
  <2>1. c \notin InFlight("modal") /\ call' = [call EXCEPT ![c] = NoCall] /\ UNCHANGED deciding
    BY <1>6 DEF Unheard, InFlight, watch
  <2>2. CallsOK'
    BY <1>0, <2>1, FreeKeeps DEF CallsOK, ButtonsFollowCall
  <2>3. ServerOK' /\ ScreenOK' /\ CountsOK'
    BY <1>0, <1>6, ServerUnchanged, TabUnchanged DEF CountsOK, Unheard
  <2>4. QED
    BY <2>2, <2>3, PartsNext
<1>7. QED
  BY <1>2, <1>3, <1>4, <1>5, <1>6

\* What the tab does when it hears of a call.
LEMMA HearInv ==
  ASSUME Inv, NEW c \in Calls, Failed(c) \/ BarDone(c) \/ ModalStopped(c) \/ ModalDone(c)
  PROVE  Inv'
<1>0. ServerOK /\ CallsOK /\ ScreenOK /\ CountsOK
  BY Parts
<1>1. call[c] \in Request /\ call[c] # NoCall
  BY <1>0, PhaseOfRequest DEF CallsOK, Failed, BarDone, ModalStopped, ModalDone
<1>2. c \in InFlight("modal") <=> call[c].from = "modal"
  BY <1>1 DEF InFlight
\* The only call of the dialog is over, and its buttons are enabled again.
<1>3. ASSUME call' = [call EXCEPT ![c] = NoCall],
             deciding' = IF call[c].from = "modal" THEN "none" ELSE deciding
      PROVE  CallsOK'
  <2>1. CallType' /\ InFlight("modal")' = InFlight("modal") \ {c}
    BY <1>0, <1>3, FreeKeeps DEF CallsOK
  <2>2. CASE call[c].from = "modal"
    <3>1. InFlight("modal") = {c}
      BY <1>0, <1>2, <2>2 DEF CallsOK, ButtonsFollowCall
    <3>2. QED
      BY <1>3, <2>1, <2>2, <3>1 DEF CallsOK, ButtonsFollowCall
  <2>3. CASE call[c].from # "modal"
    <3>1. InFlight("modal")' = InFlight("modal") /\ deciding' = deciding
      BY <1>2, <1>3, <2>1, <2>3
    <3>2. QED
      BY <1>0, <2>1, <3>1 DEF CallsOK, ButtonsFollowCall
  <2>4. QED
    BY <2>2, <2>3
<1> USE DEF bar, watch, server, CountsOK
<1>4. CASE Failed(c)
  <2>1. CallsOK'
    BY <1>3, <1>4 DEF Failed
  <2>2. ServerOK' /\ ScreenOK' /\ CountsOK'
    BY <1>0, <1>4, ServerUnchanged DEF CountsOK, Failed, ScreenOK, DialogsSound, IdleOfTimer, Known
  <2>3. QED
    BY <2>1, <2>2, PartsNext
<1>5. CASE BarDone(c)
  <2>1. CallsOK'
    BY <1>3, <1>5 DEF BarDone
  <2>2. ServerOK' /\ ScreenOK' /\ CountsOK'
    BY <1>0, <1>1, <1>5, ServerUnchanged
    DEF CountsOK, BarDone, Heard, Refetch, Request, NoDialog, Dialog, ScreenOK, DialogsSound, IdleOfTimer, Known
  <2>3. QED
    BY <2>1, <2>2, PartsNext
<1>6. CASE ModalStopped(c)
  <2>1. Start("modal", call[c].project, TRUE) \in Request
        /\ Start("modal", call[c].project, TRUE).from = "modal"
    BY <1>1, StartType DEF Request
  <2>2. CallType' /\ InFlight("modal")' = InFlight("modal")
    BY <1>0, <1>2, <1>6, <2>1, FreeIsNoRequest DEF ModalStopped, InFlight, CallsOK, CallType
  <2>3. CallsOK'
    BY <1>0, <1>6, <2>2 DEF ModalStopped, CallsOK, ButtonsFollowCall
  <2>4. ServerOK' /\ ScreenOK' /\ CountsOK'
    BY <1>0, <1>1, <1>6, ServerUnchanged
    DEF CountsOK, ModalStopped, Heard, Refetch, Request, ScreenOK, DialogsSound, IdleOfTimer, Known
  <2>5. QED
    BY <2>3, <2>4, PartsNext
<1>7. CASE ModalDone(c)
  <2>1. CallsOK'
    BY <1>3, <1>7 DEF ModalDone
  <2>2. ServerOK' /\ ScreenOK' /\ CountsOK'
    BY <1>0, <1>1, <1>7, ServerUnchanged
    DEF CountsOK, ModalDone, Heard, Refetch, Request, ScreenOK, DialogsSound, IdleOfTimer, Known
  <2>3. QED
    BY <2>1, <2>2, PartsNext
<1>8. QED
  BY <1>4, <1>5, <1>6, <1>7

\* Every step keeps the invariant.
LEMMA StepInv == Inv /\ [Next]_vars => Inv'
<1>1. ASSUME Inv, UNCHANGED vars PROVE Inv'
  <2>1. ServerOK /\ CallsOK /\ ScreenOK /\ CountsOK
    BY <1>1, Parts
  <2>2. ServerOK' /\ CallsOK' /\ ScreenOK' /\ CountsOK'
    BY <1>1, <2>1, ServerUnchanged, CallsUnchanged, TabUnchanged DEF CountsOK, vars, watch
  <2>3. QED
    BY <2>2, PartsNext
<1>2. ASSUME Inv, Next PROVE Inv'
  BY <1>2, UserInv, WatchInv, CallInv, HearInv DEF Next, Answer
<1>3. QED
  BY <1>1, <1>2

\* The invariant holds in every state of the tab.
THEOREM Invariance == Spec => []Inv
  BY InitInv, StepInv, PTL DEF Spec

-----------------------------------------------------------------------------
(* The theorems. *)

\* Every variable has its type: a call in flight is one that a button made.
THEOREM TypeCorrect == Spec => []TypeOK
  BY Invariance, PTL DEF Inv

\* However polls, losses, reloads and the other tabs interleave, a tab that shows
\* no timer is neither idle nor counting towards it.
THEOREM IdleOnlyWithTimer == Spec => []IdleOfTimer
  BY Invariance, PTL DEF Inv

\* The buttons of the idle dialog are disabled exactly while the one call it has
\* made is in flight, also between the two calls of discard and continue.
THEOREM ButtonsFollow == Spec => []ButtonsFollowCall
  BY Invariance, PTL DEF Inv

-----------------------------------------------------------------------------
(* What the tab has heard of. *)

\* A stop that waits for its answer was sent by a tab that had read a timer, and what
\* was served is over.
StopsSound ==
    \A c \in Calls : call[c] # NoCall /\ call[c].op = "stop" =>
        /\ call[c].from # "gone" => shown \notin {Loading, Unread}
        /\ call[c].phase = "done" => call[c].entry \in closed

\* What is over does not run, and no answer says so.
Hearing ==
    /\ Inv
    /\ slot[Owner] \notin closed
    /\ over # None => over \in closed
    /\ NoOldAnswer
    /\ StopsSound

\* Steps of the tab that hear and read nothing, and send at most what is no stop.
LEMMA HearingQuiet ==
  ASSUME Hearing, Inv', UNCHANGED <<slot, closed, over>>,
         poll' \in {poll, NoAnswer}, shown' = shown \/ shown' \notin {Loading, Unread},
         \A c \in Calls : \/ call'[c] \in {call[c], NoCall}
                         \/ call'[c].op = "start"
  PROVE  Hearing'
<1>1. NoAnswer \notin Entries
  BY NamesAssumption DEF NoAnswer
<1>2. NoOldAnswer'
  BY <1>1 DEF Hearing, NoOldAnswer, Inv, TypeOK
<1>3. StopsSound'
  BY DEF Hearing, StopsSound
<1>4. QED
  BY <1>2, <1>3 DEF Hearing

\* What the names of no timer are not.
LEMMA Names ==
  /\ NoAnswer \notin Entries
  /\ \A e \in Entries \cup {None} : e \notin {Loading, Unread}
  BY NamesAssumption DEF NoAnswer, Loading, Unread

\* However the server starts, stops or switches, what it ended does not run.
LEMMA EndedStays ==
  ASSUME Inv, slot[Owner] \notin closed, NEW e \in Entries,
         Server!Start(Owner, e) \/ Server!Switch(Owner, e) \/ Server!Stop(Owner)
  PROVE  slot'[Owner] \notin closed' /\ closed \subseteq closed'
<1>1. slot \in [{Owner} -> Entries \cup {None}] /\ closed \subseteq Entries
  BY DEF Inv, TypeOK
<1>2. CASE Server!Start(Owner, e)
  BY <1>1, <1>2 DEF Server!Start
<1>3. CASE Server!Switch(Owner, e)
  BY <1>1, <1>3 DEF Server!Switch, Server!Occupied
<1>4. CASE Server!Stop(Owner)
  BY <1>1, <1>4, NoneAssumption DEF Server!Stop
<1>5. QED
  BY <1>2, <1>3, <1>4

\* The same of a call that is served; a stop ends its entry.
LEMMA ServeEnds ==
  ASSUME Hearing, NEW c \in Calls, Serve(c)
  PROVE  /\ slot'[Owner] \notin closed' /\ closed \subseteq closed'
         /\ call[c].op = "stop" => call[c].entry \in closed'
<1>1. call[c] \in Request /\ Inv /\ slot[Owner] \notin closed
  BY PhaseOfRequest DEF Serve, Hearing, Inv, TypeOK, CallType
<1>2. CASE ServeStart(call[c])
  <2>1. PICK e \in Fresh(call[c].project) : Server!Start(Owner, e) \/ Server!Switch(Owner, e)
    BY <1>2 DEF ServeStart
  <2>2. e \in Entries
    BY <1>1, <2>1, FreshType DEF Request
  <2>3. QED
    BY <1>1, <1>2, <2>1, <2>2, EndedStays DEF ServeStart
<1>3. CASE ServeStop(call[c])
  <2>1. slot[Owner] \in Entries /\ call[c].entry = slot[Owner]
    BY <1>1, <1>3 DEF ServeStop, Running, Server!Stop, Inv, TypeOK
  <2>2. slot[Owner] \in closed'
    BY <1>3 DEF ServeStop, Server!Stop
  <2>3. QED
    BY <1>1, <1>3, <2>1, <2>2, EndedStays DEF ServeStop
<1>4. QED
  BY <1>2, <1>3 DEF Serve

\* What happens to a call before the tab hears of it, and at another tab.
LEMMA HearingCalls ==
  ASSUME Hearing, Inv', Elsewhere \/ \E c \in Calls : Serve(c) \/ Refuse(c) \/ LoseCall(c)
  PROVE  Hearing'
<1>0. CallType
  BY DEF Hearing, Inv, TypeOK, CallType
<1>1. UNCHANGED <<over, poll, shown>> /\ NoOldAnswer'
  BY DEF Elsewhere, Serve, Refuse, LoseCall, bar, watch, Hearing, NoOldAnswer
<1>2. CASE Elsewhere
  <2>1. slot'[Owner] \notin closed' /\ closed \subseteq closed'
    <3>1. CASE Server!Stop(Owner)
      <4>1. slot[Owner] \in Entries
        BY <3>1 DEF Server!Stop, Hearing, Inv, TypeOK
      <4>2. QED
        BY <3>1, <4>1, EndedStays DEF Hearing
    <3>2. CASE \E p \in Projects : \E e \in Fresh(p) :
                  Server!Start(Owner, e) \/ Server!Switch(Owner, e)
      BY <3>2, FreshType, EndedStays DEF Hearing
    <3>3. QED
      BY <1>2, <3>1, <3>2 DEF Elsewhere
  <2>2. StopsSound'
    BY <1>1, <1>2, <2>1 DEF Elsewhere, Hearing, StopsSound
  <2>3. QED
    BY <1>1, <2>1, <2>2 DEF Hearing
<1>3. ASSUME NEW c \in Calls, Serve(c) \/ Refuse(c) \/ LoseCall(c) PROVE Hearing'
  <2>1. slot'[Owner] \notin closed' /\ closed \subseteq closed'
    BY <1>3, ServeEnds DEF Refuse, LoseCall, server, Hearing
  <2>2. PICK phase \in {"done", "failed"} :
            /\ call' = [call EXCEPT ![c].phase = phase]
            /\ phase = "done" => Serve(c)
    BY <1>3 DEF Serve, Refuse, LoseCall
  <2>3. call[c] \in Request /\ call[c] # NoCall
    BY <1>0, <1>3, PhaseOfRequest DEF Serve, Refuse, LoseCall
  <2>4. call'[c] = [call[c] EXCEPT !.phase = phase]
        /\ \A d \in Calls : d # c => call'[d] = call[d]
    BY <1>0, <2>2 DEF CallType
  <2>5. /\ call'[c].op = call[c].op /\ call'[c].from = call[c].from
        /\ call'[c].entry = call[c].entry /\ call'[c].phase = phase
    BY <2>3, <2>4 DEF Request
  <2>6. phase = "done" /\ call[c].op = "stop" => call[c].entry \in closed'
    BY <2>2, ServeEnds
  <2>7. StopsSound'
    BY <1>1, <2>1, <2>3, <2>4, <2>5, <2>6 DEF Hearing, StopsSound
  <2>8. QED
    BY <1>1, <2>1, <2>7 DEF Hearing
<1>4. QED
  BY <1>2, <1>3

\* What the tab hears.  After a stop, the answer under way is dropped.
LEMMA HearingHeard ==
  ASSUME Hearing, Inv', NEW c \in Calls, BarDone(c) \/ ModalStopped(c) \/ ModalDone(c)
  PROVE  Hearing'
<1>0. CallType
  BY DEF Hearing, Inv, TypeOK, CallType
<1>1. /\ UNCHANGED <<slot, closed, shown>>
      /\ Heard(call[c]) /\ call[c].phase = "done" /\ call[c].from # "gone"
  BY DEF BarDone, ModalStopped, ModalDone, server
<1>2. call[c] \in Request /\ call[c] # NoCall
  BY <1>0, <1>1, PhaseOfRequest
<1>3. StopsSound'
  <2>1. \A d \in Calls : call'[d] \in {call[d], NoCall} \/ call'[d].op = "start"
    BY <1>0 DEF BarDone, ModalStopped, ModalDone, CallType, Start
  <2>2. QED
    BY <1>1, <2>1 DEF Hearing, StopsSound
<1>4. over' # None => over' \in closed'
  BY <1>1, <1>2 DEF Heard, Hearing, StopsSound
<1>5. NoOldAnswer'
  <2>1. CASE call[c].op = "stop"
    <3>1. poll' = NoAnswer
      BY <1>1, <1>2, <2>1 DEF Heard, Refetch, Hearing, StopsSound
    <3>2. QED
      BY <3>1, Names DEF NoOldAnswer, Inv, TypeOK
  <2>2. CASE call[c].op # "stop"
    <3>1. over' = over /\ poll' \in {poll, NoAnswer}
      BY <1>1, <2>2 DEF Heard, Refetch
    <3>2. QED
      BY <3>1, Names DEF Hearing, NoOldAnswer, Inv, TypeOK
  <2>3. QED
    BY <2>1, <2>2
<1>6. QED
  BY <1>1, <1>3, <1>4, <1>5 DEF Hearing

\* A call that is sent: a stop is sent by a tab that shows a timer, and not yet served.
LEMMA HearingSent ==
  ASSUME Hearing, Inv', UNCHANGED <<slot, closed, over, poll, shown>>, NEW k \in Request, Send(k),
         k.op = "stop" => shown \in Entries /\ k.phase = "sent"
  PROVE  Hearing'
<1>1. StopsSound'
  BY Names DEF Send, Hearing, StopsSound, Inv, TypeOK
<1>2. QED
  BY <1>1 DEF Hearing, NoOldAnswer

\* The buttons of the user.
LEMMA HearingUser == Hearing /\ Inv' /\ User => Hearing'
<1> SUFFICES ASSUME Hearing, Inv', User PROVE Hearing'
  OBVIOUS
<1>0. TypeOK /\ ScreenOK
  BY Parts DEF Hearing, Inv
<1> USE DEF bar, watch, server
<1>1. CASE Reload
  <2>1. UNCHANGED <<slot, closed>> /\ over' = None /\ NoOldAnswer'
    BY <1>1 DEF Reload, NoOldAnswer
  <2>2. StopsSound'
    <3> SUFFICES ASSUME NEW c \in Calls, call'[c] # NoCall, call'[c].op = "stop"
                 PROVE  call'[c].from = "gone" /\ (call'[c].phase = "done" => call'[c].entry \in closed)
      BY <2>1 DEF StopsSound
    <3>1. call[c] # NoCall /\ call'[c] = [call[c] EXCEPT !.from = "gone"]
      BY <1>1 DEF Reload
    <3>2. call[c] \in Request
      BY <1>0, <3>1 DEF TypeOK
    <3>3. /\ call'[c].from = "gone" /\ call[c].op = "stop"
          /\ call'[c].phase = call[c].phase /\ call'[c].entry = call[c].entry
      BY <3>1, <3>2 DEF Request
    <3>4. QED
      BY <3>1, <3>3 DEF Hearing, StopsSound
  <2>3. QED
    BY <2>1, <2>2 DEF Hearing
<1>2. CASE PressStart
  <2>1. form \in Projects
    BY <1>0, <1>2 DEF PressStart, ScreenOK
  <2>2. CASE Known
    BY <1>2, <2>2, HearingQuiet DEF PressStart, OpenDialog
  <2>3. CASE ~Known
    <3>1. Start("bar", form, FALSE) \in Request /\ Start("bar", form, FALSE).op = "start"
      BY <2>1, StartType DEF Start
    <3>2. QED
      BY <1>2, <2>3, <3>1, HearingSent DEF PressStart
  <2>4. QED
    BY <2>2, <2>3
<1>3. CASE ConfirmSwitch
  <2>1. form \in Projects
    BY <1>0, <1>3 DEF ConfirmSwitch, ScreenOK, DialogsSound
  <2>2. Start("bar", form, TRUE) \in Request /\ Start("bar", form, TRUE).op = "start"
    BY <2>1, StartType DEF Start
  <2>3. QED
    BY <1>3, <2>2, HearingSent DEF ConfirmSwitch
<1>4. CASE PressStop \/ ConfirmStop
  <2>1. shown \in Entries
    BY <1>0, <1>4 DEF PressStop, ConfirmStop, StopShown, Known
  <2>2. Stop("bar", shown, None) \in Request /\ Stop("bar", shown, None).phase = "sent"
    BY <2>1, StopType DEF Stop
  <2>3. CASE Send(Stop("bar", shown, None))
    BY <1>4, <2>1, <2>2, <2>3, HearingSent DEF PressStop, ConfirmStop
  <2>4. CASE UNCHANGED call
    BY <1>4, <2>4, HearingQuiet DEF PressStop, ConfirmStop
  <2>5. QED
    BY <1>4, <2>3, <2>4 DEF PressStop, ConfirmStop, OpenDialog
<1>5. ASSUME NEW e \in Entries, PressContinue(e) PROVE Hearing'
  <2>1. Start("list", Of[e], FALSE) \in Request /\ Start("list", Of[e], FALSE).op = "start"
    BY OfAssumption, StartType DEF Start
  <2>2. CASE Known
    BY <1>5, <2>2, HearingQuiet DEF PressContinue, OpenDialog
  <2>3. CASE ~Known
    BY <1>5, <2>1, <2>3, HearingSent DEF PressContinue
  <2>4. QED
    BY <2>2, <2>3
<1>6. CASE ConfirmContinue
  <2>1. dialog.project \in Projects
    BY <1>0, <1>6 DEF ConfirmContinue, ScreenOK, DialogsSound, Dialog
  <2>2. Start("list", dialog.project, TRUE) \in Request
        /\ Start("list", dialog.project, TRUE).op = "start"
    BY <2>1, StartType DEF Start
  <2>3. QED
    BY <1>6, <2>2, HearingSent DEF ConfirmContinue
<1>7. ASSUME NEW next \in {"stop", "continue"}, Discard(next) PROVE Hearing'
  <2>1. shown \in Entries /\ idle \in Entries \cup {None, NoTimer}
    BY <1>0, <1>7 DEF Discard, ModalOpen, Known, ScreenOK
  <2>2. Stop("modal", shown, idle) \in Request /\ Stop("modal", shown, idle).phase = "sent"
    BY <2>1, StopType DEF Stop
  <2>3. QED
    BY <1>7, <2>1, <2>2, HearingSent DEF Discard
<1>8. CASE Cancel \/ Activity \/ Keep \/ \E p \in Projects : PickProject(p)
  BY <1>8, HearingQuiet DEF Cancel, Activity, Keep, PickProject
<1>9. QED
  BY <1>1, <1>2, <1>3, <1>4, <1>5, <1>6, <1>7, <1>8 DEF User

\* The polls and the detector: an answer says what ran when it was read.
LEMMA HearingWatch ==
  Hearing /\ Inv' /\ (Poll \/ PollLost \/ DetectorStarts \/ GoesIdle) => Hearing'
<1> SUFFICES ASSUME Hearing, Inv', Poll \/ PollLost \/ DetectorStarts \/ GoesIdle
             PROVE  Hearing'
  OBVIOUS
<1>0. TypeOK
  BY DEF Hearing, Inv
<1> USE DEF bar, watch, server
<1>1. CASE PollServe
  BY <1>1 DEF PollServe, Running, Hearing, NoOldAnswer, StopsSound
<1>2. CASE PollAnswer
  <2>1. shown' \notin {Loading, Unread}
    BY <1>0, <1>2, Names DEF PollAnswer, Render, TypeOK
  <2>2. UNCHANGED <<slot, closed, call>> /\ over' = None
    BY <1>2 DEF PollAnswer
  <2>3. QED
    BY <2>1, <2>2 DEF Hearing, NoOldAnswer, StopsSound
<1>3. CASE PollLost
  <2>1. UNCHANGED <<slot, closed, call, over>> /\ poll' = NoAnswer
    BY <1>3 DEF PollLost
  <2>2. shown' = shown \/ (shown = Loading /\ shown' = Unread)
    BY <1>3 DEF PollLost
  <2>3. NoOldAnswer'
    BY <2>1, Names DEF NoOldAnswer, Inv, TypeOK
  <2>4. QED
    BY <2>1, <2>2, <2>3 DEF Hearing, StopsSound
<1>4. CASE DetectorStarts \/ GoesIdle
  BY <1>4, HearingQuiet DEF DetectorStarts, GoesIdle
<1>5. QED
  BY <1>1, <1>2, <1>3, <1>4 DEF Poll

\* Every step keeps it.
LEMMA StepHearing == Hearing /\ [Next]_vars => Hearing'
<1> SUFFICES ASSUME Hearing, [Next]_vars PROVE Hearing'
  OBVIOUS
<1>1. Inv'
  BY StepInv DEF Hearing
<1>2. ASSUME NEW c \in Calls, Unheard(c) \/ Failed(c) PROVE Hearing'
  <2>1. call' = [call EXCEPT ![c] = NoCall] /\ UNCHANGED <<slot, closed, over, poll, shown>>
    BY <1>2 DEF Unheard, Failed, server, bar
  <2>2. \A d \in Calls : call'[d] \in {call[d], NoCall}
    BY <2>1 DEF Hearing, Inv, TypeOK
  <2>3. QED
    BY <1>1, <2>1, <2>2, HearingQuiet
<1>3. CASE UNCHANGED vars
  BY <1>1, <1>3, HearingQuiet DEF vars, server, bar
<1>4. QED
  BY <1>1, <1>2, <1>3, HearingCalls, HearingHeard, HearingUser, HearingWatch DEF Next, Answer

\* However polls, calls, losses, reloads and other tabs interleave, once the tab has
\* heard that it stopped an entry the next answer does not say that it runs.
THEOREM OldAnswersGone == Spec => []NoOldAnswer
<1>1. Init => Hearing
  <2> SUFFICES ASSUME Init PROVE Hearing
    OBVIOUS
  <2>1. Inv
    BY InitInv
  <2>2. closed = {} /\ over = None /\ \A c \in Calls : call[c] = NoCall
    BY DEF Init, Server!Init
  <2>3. QED
    BY <2>1, <2>2 DEF Hearing, NoOldAnswer, StopsSound
<1>2. Hearing => NoOldAnswer
  BY DEF Hearing
<1>3. QED
  BY <1>1, <1>2, StepHearing, PTL DEF Spec
==============================================================================
