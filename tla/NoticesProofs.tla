--------------------------- MODULE NoticesProofs ---------------------------
(***************************************************************************)
(* Proofs about Notices, for either mode of attendance, either date of the  *)
(* browser, and any number of faults.                                      *)
(***************************************************************************)
EXTENDS Notices, TLAPS

\* What the tab remembers as shown it has put, and a browser that is not behind
\* at the start never is.
ShownSound == (shown => put) /\ (~Behind => date # "before")

\* An answer that found a prompt was about one that exists; what was accepted
\* left a row, for the member or for the managers.
AnswersKnown ==
    /\ response.phase = "found" => note[Prompt] # "absent"
    /\ response.phase = "done" => Server!Notified(Prompt)
    /\ dismissed => Server!Notified(Prompt)

\* While the job is about to commit, it has not yet.
DecidingKnown == Prompt \in deciding => note[Prompt] = "absent"

IInv == TypeOK /\ ShownSound /\ KnownIsPut /\ AnswersKnown /\ DecidingKnown

-----------------------------------------------------------------------------
(* The rows of the prompt. *)

\* A step of the rows, as any part of the system takes it.
RowsStep ==
    \/ Server!Decide({Prompt}) \/ Server!Commit \/ Server!GiveUp
    \/ Server!Read({Prompt}) \/ Server!Cover({Prompt})
    \/ UNCHANGED prompts

\* Steps of the rows keep their types, and whoever was notified stays notified;
\* a row is never taken back.
LEMMA RowsKeep ==
  ASSUME Server!TypeOK, RowsStep
  PROVE  /\ Server!TypeOK'
         /\ Server!Notified(Prompt) => Server!Notified(Prompt)'
         /\ note[Prompt] # "absent" => note'[Prompt] # "absent"
  BY DEF RowsStep, Server!TypeOK, Server!Decide, Server!Commit, Server!GiveUp, Server!Read, Server!Cover,
         Server!Notified, prompts

\* A step that prompts was decided on before.
LEMMA UnreadByCommit ==
  ASSUME Server!TypeOK, note[Prompt] # "unread", deciding = {}, RowsStep
  PROVE  /\ note'[Prompt] # "unread"
         /\ Server!Notified(Prompt) => deciding' = {}
  BY DEF RowsStep, Server!TypeOK, Server!Decide, Server!Commit, Server!GiveUp, Server!Read, Server!Cover,
         Server!Notified, prompts

\* Every step of the system is one of the rows, or leaves them alone.
LEMMA StepsOfRows ==
  ASSUME [Next]_vars
  PROVE  RowsStep
<1>1. CASE World
  BY <1>1 DEF World, Job, Elsewhere, StartTimeComes, Midnight, Switch, RowsStep
<1>2. CASE Tab
  BY <1>2 DEF Tab, PollAsk, PollServe, PollLost, PollHeard, AlarmFires, ChangeSettings, Reload, RowsStep
<1>3. CASE Modal
  BY <1>3 DEF Modal, Choose, Send, ReadResponse, CommitResponse, FailResponse, ResponseAnswered, RowsStep
<1>4. CASE Bell
  BY <1>4 DEF Bell, MarkSend, MarkServe, MarkHeard, RowsStep
<1>5. CASE UNCHANGED vars
  BY <1>5 DEF vars, RowsStep
<1>6. QED
  BY <1>1, <1>2, <1>3, <1>4, <1>5 DEF Next

-----------------------------------------------------------------------------
(* The first effect. *)

\* It keeps its types, remembers what it puts, and with the browser's date right
\* leaves no prompt it looks at behind a closed modal unless that was put.
LEMMA TriggerSound ==
  ASSUME NEW k, NEW m \in {"closed", "asking", "chosen"}, Trigger(k, m),
         shown \in BOOLEAN, put \in BOOLEAN, shown => put
  PROVE  /\ shown' \in BOOLEAN /\ put' \in BOOLEAN /\ modal' \in {"closed", "asking", "chosen"}
         /\ shown' => put'
         /\ date = "same" /\ k = "prompt" => modal' # "closed" \/ put'
  BY DEF Trigger

\* The alarm is in one of its three states whatever an effect does with it.
LEMMA AlarmType ==
  ASSUME alarm \in {"off", "set", "due"}, Arm \/ Disarm
  PROVE  alarm' \in {"off", "set", "due"}
  BY DEF Arm, Disarm

-----------------------------------------------------------------------------
(* The invariant. *)

LEMMA InitIInv == Init => IInv
<1>1. Init => TypeOK
  <2>1. NoResponse \in [phase : Phases, answer : Replies]
    BY DEF NoResponse, Phases, Replies
  <2>2. 0 \in 0..MaxFaults
    BY FaultAssumption
  <2>3. Init => Server!TypeOK
    BY DEF Init, Server!Init, Server!TypeOK
  <2>4. QED
    BY <2>1, <2>2, <2>3 DEF Init, TypeOK, Contents
<1>2. Init => ShownSound /\ KnownIsPut /\ AnswersKnown /\ DecidingKnown
  BY DEF Init, ShownSound, KnownIsPut, AnswersKnown, DecidingKnown, Server!Init, NoResponse
<1>3. QED
  BY <1>1, <1>2 DEF IInv

\* Types, one action after the other.
LEMMA TypeStep ==
  ASSUME IInv, [Next]_vars
  PROVE  TypeOK'
<1> USE DEF clock, query, prompt, answered
<1>0. TypeOK /\ (shown => put)
  BY DEF IInv, ShownSound
<1>1. Server!TypeOK'
  BY <1>0, StepsOfRows, RowsKeep DEF TypeOK
<1>2. CASE World
  <2>1. CASE Job \/ Elsewhere
    BY <1>0, <1>1, <2>1 DEF Job, Elsewhere, TypeOK
  <2>2. CASE StartTimeComes
    BY <1>0, <1>1, <2>2 DEF StartTimeComes, TypeOK
  <2>3. CASE Midnight
    BY <1>0, <1>1, <2>3 DEF Midnight, TypeOK
  <2>4. CASE Switch
    BY <1>0, <1>1, <2>4 DEF Switch, TypeOK
  <2>5. QED
    BY <1>2, <2>1, <2>2, <2>3, <2>4 DEF World
<1>3. CASE PollAsk \/ PollServe \/ AlarmFires
  BY <1>0, <1>1, <1>3 DEF PollAsk, PollServe, AlarmFires, TypeOK, Contents
<1>4. CASE PollLost
  BY <1>0, <1>1, <1>4, FaultAssumption DEF PollLost, TypeOK
<1>5. CASE PollHeard
  <2>1. shown' \in BOOLEAN /\ put' \in BOOLEAN /\ modal' \in {"closed", "asking", "chosen"}
    <3>1. CASE Trigger(poll, modal)
      BY <1>0, <3>1, TriggerSound DEF TypeOK
    <3>2. CASE UNCHANGED <<modal, shown, put>>
      BY <1>0, <3>2 DEF TypeOK
    <3>3. QED
      BY <1>5, <3>1, <3>2 DEF PollHeard
  <2>2. alarm' \in {"off", "set", "due"}
    BY <1>0, <1>5, AlarmType DEF PollHeard, TypeOK
  <2>3. QED
    BY <1>0, <1>1, <1>5, <2>1, <2>2 DEF PollHeard, TypeOK
<1>6. CASE ChangeSettings
  <2>1. shown' \in BOOLEAN /\ put' \in BOOLEAN /\ modal' \in {"closed", "asking", "chosen"}
    BY <1>0, <1>6, TriggerSound DEF ChangeSettings, TypeOK
  <2>2. alarm' \in {"off", "set", "due"}
    BY <1>0, <1>6, AlarmType DEF ChangeSettings, TypeOK
  <2>3. QED
    BY <1>0, <1>1, <1>6, <2>1, <2>2 DEF ChangeSettings, TypeOK
<1>7. CASE Reload
  <2>1. alarm' \in {"off", "set", "due"}
    BY <1>0, <1>7, AlarmType DEF Reload, Loaded, TypeOK
  <2>2. faults' \in 0..MaxFaults
    BY <1>0, <1>7, FaultAssumption DEF Reload, TypeOK
  <2>3. QED
    BY <1>0, <1>1, <1>7, <2>1, <2>2 DEF Reload, Loaded, TypeOK
<1>8. CASE Choose
  BY <1>0, <1>1, <1>8 DEF Choose, TypeOK
<1>9. ASSUME NEW answer \in Replies, Send(answer)
      PROVE  TypeOK'
  BY <1>0, <1>1, <1>9 DEF Send, TypeOK, Phases
<1>10. CASE ReadResponse
  BY <1>0, <1>1, <1>10 DEF ReadResponse, TypeOK, Phases
<1>11. CASE CommitResponse
  BY <1>0, <1>1, <1>11 DEF CommitResponse, TypeOK, Phases
<1>12. CASE FailResponse
  BY <1>0, <1>1, <1>12, FaultAssumption DEF FailResponse, TypeOK, Phases
<1>13. CASE ResponseAnswered
  <2>1. /\ shown' \in BOOLEAN /\ put' \in BOOLEAN /\ modal' \in {"closed", "asking", "chosen"}
        /\ alarm' \in {"off", "set", "due"}
        /\ dismissed' \in BOOLEAN /\ ahead' \in BOOLEAN
    <3>1. CASE pending /\ response.phase = "done"
      BY <1>0, <1>13, <3>1, TriggerSound, AlarmType DEF ResponseAnswered, TypeOK
    <3>2. CASE ~(pending /\ response.phase = "done")
      BY <1>0, <1>13, <3>2 DEF ResponseAnswered, TypeOK
    <3>3. QED
      BY <3>1, <3>2
  <2>2. response' \in [phase : Phases, answer : Replies] /\ pending' \in BOOLEAN
    BY <1>13 DEF ResponseAnswered, NoResponse, Phases, Replies
  <2>3. QED
    BY <1>0, <1>1, <1>13, <2>1, <2>2 DEF ResponseAnswered, TypeOK
<1>14. CASE MarkSend \/ MarkHeard
  BY <1>0, <1>1, <1>14 DEF MarkSend, MarkHeard, TypeOK
<1>15. CASE MarkServe
  BY <1>0, <1>1, <1>15, FaultAssumption DEF MarkServe, TypeOK
<1>16. CASE UNCHANGED vars
  BY <1>0, <1>1, <1>16 DEF vars, TypeOK
<1>17. QED
  BY <1>2, <1>3, <1>4, <1>5, <1>6, <1>7, <1>8, <1>9, <1>10, <1>11, <1>12, <1>13, <1>14, <1>15, <1>16
     DEF Next, Tab, Modal, Bell

\* The modal: what is known is put.
LEMMA ModalStep ==
  ASSUME IInv, [Next]_vars
  PROVE  ShownSound' /\ KnownIsPut'
<1> USE DEF clock, query, prompt, answered
<1>0. TypeOK /\ ShownSound /\ KnownIsPut
  BY DEF IInv
<1>1. CASE PollHeard
  <2>1. CASE Trigger(poll, modal)
    <3>1. shown' => put'
      BY <1>0, <2>1, TriggerSound DEF TypeOK, ShownSound
    <3>2. date = "same" /\ poll = "prompt" => modal' # "closed" \/ put'
      BY <1>0, <2>1, TriggerSound DEF TypeOK, ShownSound
    <3>3. QED
      BY <1>0, <1>1, <3>1, <3>2 DEF PollHeard, ShownSound, KnownIsPut
  <2>2. CASE poll = known /\ UNCHANGED <<modal, shown, put>>
    BY <1>0, <1>1, <2>2 DEF PollHeard, ShownSound, KnownIsPut
  <2>3. QED
    BY <1>1, <2>1, <2>2 DEF PollHeard
<1>2. CASE ChangeSettings
  <2>1. shown' => put'
    BY <1>0, <1>2, TriggerSound DEF ChangeSettings, TypeOK, ShownSound
  <2>2. date = "same" /\ known = "prompt" => modal' # "closed" \/ put'
    BY <1>0, <1>2, TriggerSound DEF ChangeSettings, TypeOK, ShownSound
  <2>3. QED
    BY <1>0, <1>2, <2>1, <2>2 DEF ChangeSettings, ShownSound, KnownIsPut
<1>3. CASE ResponseAnswered
  <2>1. CASE pending /\ response.phase = "done"
    <3>1. Trigger(known, "closed") /\ UNCHANGED <<known, date>>
      BY <1>3, <2>1 DEF ResponseAnswered
    <3>2. shown' => put'
      BY <1>0, <3>1, TriggerSound DEF TypeOK, ShownSound
    <3>3. date = "same" /\ known = "prompt" => modal' # "closed" \/ put'
      BY <1>0, <3>1, TriggerSound DEF TypeOK, ShownSound
    <3>4. QED
      BY <1>0, <3>1, <3>2, <3>3 DEF ShownSound, KnownIsPut
  <2>2. CASE ~(pending /\ response.phase = "done")
    BY <1>0, <1>3, <2>2 DEF ResponseAnswered, ShownSound, KnownIsPut
  <2>3. QED
    BY <2>1, <2>2
<1>4. CASE Reload
  BY <1>0, <1>4 DEF Reload, Loaded, ShownSound, KnownIsPut
<1>5. CASE Midnight
  BY <1>0, <1>5 DEF Midnight, ShownSound, KnownIsPut, TypeOK
<1>6. CASE Job \/ Elsewhere \/ StartTimeComes \/ Switch
  BY <1>0, <1>6 DEF Job, Elsewhere, StartTimeComes, Switch, ShownSound, KnownIsPut
<1>7. CASE PollAsk \/ PollServe \/ PollLost \/ AlarmFires
  BY <1>0, <1>7 DEF PollAsk, PollServe, PollLost, AlarmFires, ShownSound, KnownIsPut
<1>8. CASE Choose \/ (\E answer \in Replies : Send(answer)) \/ ReadResponse \/ CommitResponse \/ FailResponse
  BY <1>0, <1>8 DEF Choose, Send, ReadResponse, CommitResponse, FailResponse, ShownSound, KnownIsPut
<1>9. CASE Bell
  BY <1>0, <1>9 DEF Bell, MarkSend, MarkServe, MarkHeard, ShownSound, KnownIsPut
<1>10. CASE UNCHANGED vars
  BY <1>0, <1>10 DEF vars, ShownSound, KnownIsPut
<1>11. QED
  BY <1>1, <1>2, <1>3, <1>4, <1>5, <1>6, <1>7, <1>8, <1>9, <1>10 DEF Next, World, Tab, Modal

\* The server: what an answer found or left, and what the job is about to write.
LEMMA AnswerStep ==
  ASSUME IInv, [Next]_vars
  PROVE  AnswersKnown' /\ DecidingKnown'
<1> USE DEF clock, query, prompt, answered
<1>0. TypeOK /\ AnswersKnown /\ DecidingKnown /\ Server!TypeOK
  BY DEF IInv, TypeOK
<1>1. /\ Server!Notified(Prompt) => Server!Notified(Prompt)'
      /\ note[Prompt] # "absent" => note'[Prompt] # "absent"
  BY <1>0, StepsOfRows, RowsKeep
<1>2. DecidingKnown'
  BY <1>0, StepsOfRows DEF RowsStep, Server!Decide, Server!Commit, Server!GiveUp, Server!Read, Server!Cover,
     Server!TypeOK, Server!Notified, DecidingKnown, prompts
<1>3. CASE ReadResponse
  <2>1. response' = [response EXCEPT !.phase = IF note[Prompt] = "unread" THEN "found" ELSE "missing"]
        /\ UNCHANGED <<note, covered, dismissed>>
    BY <1>3 DEF ReadResponse, prompts
  <2>2. response'.phase = IF note[Prompt] = "unread" THEN "found" ELSE "missing"
    BY <1>0, <2>1 DEF TypeOK
  <2>3. QED
    BY <1>0, <1>1, <1>2, <2>1, <2>2 DEF AnswersKnown
<1>4. CASE CommitResponse
  <2>1. Server!Notified(Prompt)'
    <3>1. CASE response.phase = "found"
      BY <1>0, <1>1, <3>1 DEF AnswersKnown, Server!Notified
    <3>2. CASE response.phase = "missing"
      BY <1>4, <3>2 DEF CommitResponse, Server!Cover, Server!Notified
    <3>3. QED
      BY <1>4, <3>1, <3>2 DEF CommitResponse
  <2>2. response'.phase = "done" /\ UNCHANGED dismissed
    BY <1>0, <1>4 DEF CommitResponse, TypeOK
  <2>3. QED
    BY <1>2, <2>1, <2>2 DEF AnswersKnown
<1>5. CASE FailResponse
  <2>1. response'.phase = "failed" /\ UNCHANGED dismissed
    BY <1>0, <1>5 DEF FailResponse, TypeOK
  <2>2. QED
    BY <1>0, <1>1, <1>2, <2>1 DEF AnswersKnown
<1>6. CASE ResponseAnswered
  BY <1>0, <1>1, <1>2, <1>6 DEF ResponseAnswered, AnswersKnown, NoResponse
<1>7. ASSUME NEW answer \in Replies, Send(answer)
      PROVE  AnswersKnown'
  BY <1>0, <1>1, <1>7 DEF Send, AnswersKnown
<1>8. CASE UNCHANGED <<response, dismissed>>
  BY <1>0, <1>1, <1>2, <1>8 DEF AnswersKnown
<1>9. \/ ReadResponse \/ CommitResponse \/ FailResponse \/ ResponseAnswered
      \/ \E answer \in Replies : Send(answer)
      \/ UNCHANGED <<response, dismissed>>
  BY DEF Next, World, Tab, Modal, Bell, Job, Elsewhere, StartTimeComes, Midnight, Switch, PollAsk, PollServe,
         PollLost, PollHeard, AlarmFires, ChangeSettings, Reload, Choose, MarkSend, MarkServe, MarkHeard, vars
<1>10. QED
  BY <1>2, <1>3, <1>4, <1>5, <1>6, <1>7, <1>8, <1>9

LEMMA NextIInv == IInv /\ [Next]_vars => IInv'
  BY TypeStep, ModalStep, AnswerStep DEF IInv

-----------------------------------------------------------------------------
(* The theorems. *)

\* The invariant that the others are parts of.
THEOREM Inductive == Spec => []IInv
  BY InitIInv, NextIInv, PTL DEF Spec

\* Server, tab and calls keep their types, whatever is lost or reloaded.
THEOREM TypeCorrect == Spec => []TypeOK
<1>1. IInv => TypeOK
  BY DEF IInv
<1>2. QED
  BY <1>1, Inductive, PTL

\* A prompt that the tab knows of, and whose date is the browser's, is or was on
\* display (useWorkStartTrigger).
THEOREM KnownPut == Spec => []KnownIsPut
<1>1. IInv => KnownIsPut
  BY DEF IInv
<1>2. QED
  BY <1>1, Inductive, PTL

\* After an accepted answer only a check that was made before it still prompts
\* (record_work_start_response and _already_notified_today).
THEOREM AnswerIsFinal == Spec => AnswerSilences
<1>1. IInv /\ [Next]_vars => (Silent => Silent')
  <2> SUFFICES ASSUME IInv, [Next]_vars, Silent
               PROVE  Silent'
    OBVIOUS
  <2>1. Server!Notified(Prompt) /\ Server!TypeOK
    BY DEF IInv, AnswersKnown, Silent, TypeOK
  <2>2. note'[Prompt] # "unread" /\ deciding' = {}
    BY <2>1, StepsOfRows, UnreadByCommit DEF Silent
  <2>3. dismissed'
    BY DEF Silent, Next, World, Tab, Modal, Bell, Job, Elsewhere, StartTimeComes, Midnight, Switch, PollAsk,
           PollServe, PollLost, PollHeard, AlarmFires, ChangeSettings, Reload, Choose, Send, ReadResponse,
           CommitResponse, FailResponse, ResponseAnswered, MarkSend, MarkServe, MarkHeard, answered, vars
  <2>4. QED
    BY <2>2, <2>3 DEF Silent
<1>2. IInv /\ [Next]_vars => [Silent => Silent']_vars
  BY <1>1
<1>3. QED
  BY <1>2, Inductive, PTL DEF Spec, AnswerSilences
==============================================================================
