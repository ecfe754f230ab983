--------------------------- MODULE TimesheetProofs ---------------------------
(***************************************************************************)
(* Proofs about Timesheet, for every number of users, entries, submissions *)
(* and requests in flight.                                                 *)
(***************************************************************************)
EXTENDS Timesheet, TLAPS

(***************************************************************************)
(* The days.                                                               *)
(***************************************************************************)
\* Day 0 is a day and its week is a week.
LEMMA ZeroDay == 0 \in Days /\ WeekOf(0) \in Weeks
  BY DayAssumption DEF Days, Weeks

\* A slot that starts a request of type Request keeps req well typed.
LEMMA BeginType ==
  ASSUME NEW r \in Requests, NEW q \in Request,
         req \in [Requests -> Request], Begin(r, q)
  PROVE  req' \in [Requests -> Request]
  BY DEF Begin

\* The idle request is a request.
LEMMA IdleType == Idle \in Request
  BY ZeroDay DEF Idle, Request, Ops

\* Ending a request keeps req well typed.
LEMMA FinishType ==
  ASSUME NEW r \in Requests, req \in [Requests -> Request], Finish(r)
  PROVE  req' \in [Requests -> Request]
  BY IdleType DEF Finish

(***************************************************************************)
(* Type correctness.                                                       *)
(***************************************************************************)
LEMMA InitType == Init => TypeOK
  BY ZeroDay, IdleType DEF Init, TypeOK, EntryStatus, SubStatus, Days

\* A read step writes nothing but its own request.
LEMMA ReadType ==
  ASSUME TypeOK, NEW r \in Requests, NEW u \in Users, Read(r, u)
  PROVE  TypeOK'
<1> USE DEF TypeOK
<1>q. /\ Begin(r, req'[r]) /\ req'[r] \in Request
      /\ UNCHANGED <<entryVars, link, subVars, wfEnabled, today>>
  <2> USE ZeroDay, IdleType DEF Request, Ops
  <2>1. ASSUME NEW force \in BOOLEAN, NEW b \in Bodies, ReadStart(r, u, force, b)
        PROVE  <1>q
    <3>1. PICK x \in Entries \cup {None} :
            Begin(r, [Idle EXCEPT !.op = "start", !.by = u, !.entry = x, !.body = b])
      BY <2>1 DEF ReadStart, RunningOf
    <3>2. QED
      BY <2>1, <3>1 DEF ReadStart, Begin, Idle
  <2>2. ASSUME NEW e \in Entries, NEW force \in BOOLEAN, ReadContinue(r, u, e, force)
        PROVE  <1>q
    <3>1. PICK x \in Entries \cup {None} :
            Begin(r, [Idle EXCEPT !.op = "continue", !.by = u, !.src = e,
                                  !.entry = x, !.body = body[e]])
      BY <2>2 DEF ReadContinue, RunningOf
    <3>2. QED
      BY <2>2, <3>1 DEF ReadContinue, Begin, Idle
  <2>3. ASSUME NEW e \in Entries, NEW b \in Bodies, ReadStop(r, u, e, b)
        PROVE  <1>q
    BY <2>3 DEF ReadStop, Begin, Idle
  <2>4. ASSUME NEW e \in Entries, NEW d \in Days, NEW b \in Bodies,
               ReadUpdate(r, u, e, d, b)
        PROVE  <1>q
    BY <2>4 DEF ReadUpdate, Begin, Idle
  <2>5. ASSUME NEW e \in Entries, ReadDelete(r, u, e)
        PROVE  <1>q
    BY <2>5 DEF ReadDelete, Begin, Idle
  <2>6. ASSUME NEW chosen \in SUBSET Entries, ReadBulk(r, u, chosen)
        PROVE  <1>q
    BY <2>6 DEF ReadBulk, Begin, Idle
  <2>7. ASSUME NEW w \in Weeks, ReadSubmit(r, u, w)
        PROVE  <1>q
    BY <2>7 DEF ReadSubmit, Begin, Idle, DraftsOf
  <2>8. ASSUME NEW s \in Subs, NEW op \in {"approve", "reject"}, ReadReview(r, u, s, op)
        PROVE  <1>q
    BY <2>8 DEF ReadReview, Begin, Idle
  <2>9. QED
    BY <2>1, <2>2, <2>3, <2>4, <2>5, <2>6, <2>7, <2>8 DEF Read
<1>1. req' \in [Requests -> Request]
  BY <1>q, BeginType
<1>2. QED
  BY <1>q, <1>1 DEF entryVars, subVars

\* The two steps of a review.
LEMMA ClaimType ==
  ASSUME TypeOK, NEW r \in Requests, ClaimApprove(r) \/ ClaimReject(r)
  PROVE  TypeOK'
<1> USE DEF TypeOK
<1>1. ASSUME NEW op \in Ops, NEW doing \in Ops, NEW new \in EntryStatus,
             ClaimReview(r, op, doing, new)
      PROVE  TypeOK'
  <2> DEFINE taken == {e \in Entries : link[e] = req[r].sub /\ status[e] # new}
             q == [req[r] EXCEPT !.op = doing, !.set = taken]
  <2>1. q \in Request
    BY DEF Request
  <2>2. req' = [req EXCEPT ![r] = q]
    BY <1>1 DEF ClaimReview
  <2>3. req' \in [Requests -> Request]
    BY <2>1, <2>2
  <2>4. QED
    BY <1>1, <2>3 DEF ClaimReview, entryVars, subVars
<1>2. QED
  BY <1>1 DEF ClaimApprove, ClaimReject, Ops, EntryStatus

LEMMA CommitType ==
  ASSUME TypeOK, NEW r \in Requests, Commit(r)
  PROVE  TypeOK'
<1> USE DEF TypeOK
<1> DEFINE q == req[r]
<1>q. q \in Request
  OBVIOUS
<1>1. ASSUME NEW new \in Entries, NEW b \in Bodies, CommitStart(r, new, b)
      PROVE  TypeOK'
  <2>1. q.by \in Users \cup {None} /\ q.body \in Bodies \cup {None}
    BY <1>q DEF Request
  <2>2. req' \in [Requests -> Request]
    BY <1>1, FinishType DEF CommitStart
  <2>3. QED
    BY <1>1, <2>1, <2>2 DEF CommitStart, EntryStatus, subVars
<1>2. ASSUME CommitStop(r) \/ CommitUpdate(r) \/ CommitDelete(r)
      PROVE  TypeOK'
  <2>1. q.day \in Days /\ q.body \in Bodies \cup {None}
    BY <1>q DEF Request
  <2>2. req' \in [Requests -> Request]
    BY <1>2, FinishType DEF CommitStop, CommitUpdate, CommitDelete
  <2>3. QED
    BY <1>2, <2>1, <2>2
       DEF CommitStop, CommitUpdate, CommitDelete, EntryStatus, subVars
<1>3. ASSUME CommitBulk(r)
      PROVE  TypeOK'
  <2>1. req' \in [Requests -> Request]
    BY <1>3, FinishType DEF CommitBulk
  <2>2. QED
    BY <1>3, <2>1 DEF CommitBulk, EntryStatus, subVars
<1>4. ASSUME NEW s \in Subs, CommitSubmit(r, s)
      PROVE  TypeOK'
  <2>1. q.by \in Users \cup {None} /\ q.week \in Weeks
    BY <1>q DEF Request
  <2>2. req' \in [Requests -> Request]
    BY <1>4, FinishType DEF CommitSubmit
  <2>3. QED
    BY <1>4, <2>1, <2>2 DEF CommitSubmit, EntryStatus, SubStatus
<1>5. ASSUME CommitApprove(r) \/ CommitReject(r)
      PROVE  TypeOK'
  <2>1. req' \in [Requests -> Request]
    BY <1>5, FinishType DEF CommitApprove, CommitReject, CommitReview
  <2>2. QED
    BY <1>5, <2>1
       DEF CommitApprove, CommitReject, CommitReview, EntryStatus, SubStatus
<1>6. QED
  BY <1>1, <1>2, <1>3, <1>4, <1>5 DEF Commit

LEMMA NextType == TypeOK /\ [Next]_vars => TypeOK'
<1> SUFFICES ASSUME TypeOK, [Next]_vars PROVE TypeOK'
  OBVIOUS
<1>1. ASSUME NEW r \in Requests, NEW u \in Users, Read(r, u)
      PROVE  TypeOK'
  BY <1>1, ReadType
<1>2. ASSUME NEW r \in Requests,
             Commit(r) \/ ClaimApprove(r) \/ ClaimReject(r) \/ Rollback(r)
      PROVE  TypeOK'
  <2>1. CASE Rollback(r)
    <3>1. req' \in [Requests -> Request]
      BY <2>1, FinishType DEF Rollback, TypeOK
    <3>2. QED
      BY <2>1, <3>1 DEF Rollback, TypeOK, entryVars, subVars
  <2>2. QED
    BY <1>2, <2>1, CommitType, ClaimType
<1>3. ASSUME NEW u \in Users, NEW e \in Entries, NEW d \in Days, NEW b \in Bodies,
             CreateManual(u, e, d, b)
      PROVE  TypeOK'
  BY <1>3 DEF CreateManual, InsertDraft, TypeOK, EntryStatus, subVars
<1>4. ASSUME NEW u \in Users, NEW src \in Entries, NEW new \in Entries,
             Duplicate(u, src, new)
      PROVE  TypeOK'
  BY <1>4 DEF Duplicate, InsertDraft, TypeOK, EntryStatus, subVars
<1>5. CASE ToggleWorkflow
  BY <1>5 DEF ToggleWorkflow, TypeOK, entryVars, subVars
<1>6. CASE NextDay
  BY <1>6, DayAssumption DEF NextDay, TypeOK, Days, entryVars, subVars
<1>7. CASE UNCHANGED vars
  BY <1>7 DEF vars, TypeOK, entryVars, subVars
<1>8. QED
  BY <1>1, <1>2, <1>3, <1>4, <1>5, <1>6, <1>7 DEF Next

\* Every variable keeps its type, whatever requests are in flight.
THEOREM TypeCorrect == Spec => []TypeOK
  BY InitType, NextType, PTL DEF Spec

(***************************************************************************)
(* What no step takes back.  The reads of a request in flight may be       *)
(* stale, but these facts about the rows it read stay true.                *)
(***************************************************************************)
Kept ==
    /\ \A e \in Entries :
          /\ status[e] # "unused" => status'[e] # "unused" /\ owner'[e] = owner[e]
          /\ status[e] \notin {"unused", "running"}
                => status'[e] \notin {"unused", "running"}
          /\ status[e] = "deleted" => status'[e] = "deleted"
          /\ link[e] # None => link'[e] # None \/ status'[e] = "deleted"
    /\ \A s \in Subs :
          /\ subStatus[s] # "unused" => subStatus'[s] # "unused"
          /\ subStatus[s] \in {"approved", "rejected"}
                => subStatus'[s] \in {"approved", "rejected"}

\* Steps that write no row.
LEMMA KeptIdle ==
  ASSUME UNCHANGED <<entryVars, link, subVars>>
  PROVE  Kept
  BY DEF Kept, entryVars, subVars

LEMMA CommitKeeps ==
  ASSUME TypeOK, NEW r \in Requests, Commit(r)
  PROVE  Kept
<1> USE DEF TypeOK, Kept
<1>1. ASSUME NEW new \in Entries, NEW b \in Bodies, CommitStart(r, new, b)
      PROVE  Kept
  BY <1>1, NoneAssumption DEF CommitStart, Exists, subVars
<1>2. CASE CommitStop(r)
  BY <1>2 DEF CommitStop, Exists, subVars
<1>3. CASE CommitUpdate(r)
  BY <1>3 DEF CommitUpdate, subVars
<1>4. CASE CommitDelete(r)
  BY <1>4 DEF CommitDelete, subVars
<1>5. CASE CommitBulk(r)
  BY <1>5 DEF CommitBulk, Exists, subVars
<1>6. ASSUME NEW s \in Subs, CommitSubmit(r, s)
      PROVE  Kept
  BY <1>6, NoneAssumption DEF CommitSubmit, Exists
<1>7. CASE CommitApprove(r) \/ CommitReject(r)
  BY <1>7 DEF CommitApprove, CommitReject, CommitReview, Exists
<1>8. QED
  BY <1>1, <1>2, <1>3, <1>4, <1>5, <1>6, <1>7 DEF Commit

LEMMA NextKeeps == TypeOK /\ [Next]_vars => Kept
<1> SUFFICES ASSUME TypeOK, [Next]_vars PROVE Kept
  OBVIOUS
<1>1. ASSUME NEW r \in Requests, NEW u \in Users, Read(r, u)
      PROVE  Kept
  BY <1>1, KeptIdle DEF Read, ReadStart, ReadContinue, ReadStop, ReadUpdate,
                        ReadDelete, ReadBulk, ReadSubmit, ReadReview
<1>2. ASSUME NEW r \in Requests, ClaimApprove(r) \/ ClaimReject(r) \/ Rollback(r)
      PROVE  Kept
  BY <1>2, KeptIdle DEF ClaimApprove, ClaimReject, ClaimReview, Rollback
<1>3. ASSUME NEW u \in Users, NEW e \in Entries, NEW d \in Days, NEW b \in Bodies,
             InsertDraft(e, u, d, b)
      PROVE  Kept
  BY <1>3 DEF InsertDraft, Kept, TypeOK, subVars
<1>4. ASSUME NEW u \in Users, NEW src \in Entries, NEW new \in Entries,
             Duplicate(u, src, new)
      PROVE  Kept
  BY <1>4 DEF Duplicate, InsertDraft, Kept, TypeOK, subVars
<1>5. CASE ToggleWorkflow \/ NextDay \/ UNCHANGED vars
  BY <1>5, KeptIdle DEF ToggleWorkflow, NextDay, vars
<1>6. QED
  BY <1>1, <1>2, <1>3, <1>4, <1>5, CommitKeeps DEF Next, CreateManual

(***************************************************************************)
(* The requests in flight.                                                 *)
(***************************************************************************)
\* A request that takes no step stays sound.
LEMMA SoundStable ==
  ASSUME NEW r \in Requests, req \in [Requests -> Request],
         RequestSound(r), Kept, req'[r] = req[r]
  PROVE  RequestSound(r)'
  BY DEF RequestSound, Kept, Exists, Request

\* A request that ends is sound.
LEMMA SoundFinish ==
  ASSUME NEW r \in Requests, req \in [Requests -> Request], Finish(r)
  PROVE  RequestSound(r)'
  BY DEF Finish, RequestSound, Idle

\* A request that has just read its rows is sound.
LEMMA SoundRead ==
  ASSUME TypeOK, NEW r \in Requests, NEW u \in Users, Read(r, u)
  PROVE  RequestSound(r)'
<1> USE DEF RequestSound, Begin, Idle, TypeOK
<1>1. ASSUME NEW force \in BOOLEAN, NEW b \in Bodies, ReadStart(r, u, force, b)
      PROVE  RequestSound(r)'
  <2>1. PICK x \in RunningOf(u) \cup {None} :
          req' = [req EXCEPT ![r] = [Idle EXCEPT !.op = "start", !.by = u,
                                                 !.entry = x, !.body = b]]
    BY <1>1 DEF ReadStart
  <2>2. QED
    BY <1>1, <2>1 DEF ReadStart, RunningOf, entryVars
<1>2. ASSUME NEW e \in Entries, NEW force \in BOOLEAN, ReadContinue(r, u, e, force)
      PROVE  RequestSound(r)'
  <2>1. PICK x \in RunningOf(u) \cup {None} :
          req' = [req EXCEPT ![r] = [Idle EXCEPT !.op = "continue", !.by = u,
                                     !.src = e, !.entry = x, !.body = body[e]]]
    BY <1>2 DEF ReadContinue
  <2>2. QED
    BY <1>2, <2>1 DEF ReadContinue, RunningOf, entryVars
<1>3. ASSUME NEW e \in Entries, NEW b \in Bodies, ReadStop(r, u, e, b)
      PROVE  RequestSound(r)'
  BY <1>3 DEF ReadStop, entryVars
<1>4. ASSUME NEW e \in Entries, NEW d \in Days, NEW b \in Bodies,
             ReadUpdate(r, u, e, d, b)
      PROVE  RequestSound(r)'
  BY <1>4 DEF ReadUpdate, Exists, entryVars
<1>5. ASSUME NEW e \in Entries, ReadDelete(r, u, e)
      PROVE  RequestSound(r)'
  BY <1>5 DEF ReadDelete, Exists, entryVars
<1>6. ASSUME NEW chosen \in SUBSET Entries, ReadBulk(r, u, chosen)
      PROVE  RequestSound(r)'
  BY <1>6 DEF ReadBulk, entryVars
<1>7. ASSUME NEW w \in Weeks, ReadSubmit(r, u, w)
      PROVE  RequestSound(r)'
  BY <1>7 DEF ReadSubmit, DraftsOf, entryVars
<1>8. ASSUME NEW s \in Subs, NEW op \in {"approve", "reject"}, ReadReview(r, u, s, op)
      PROVE  RequestSound(r)'
  BY <1>8 DEF ReadReview, ReviewAllowed, subVars
<1>9. QED
  BY <1>1, <1>2, <1>3, <1>4, <1>5, <1>6, <1>7, <1>8 DEF Read

\* A review that takes the row lock of its submission is sound.
LEMMA SoundClaim ==
  ASSUME TypeOK, NEW r \in Requests, RequestSound(r), LinkSound,
         ClaimApprove(r) \/ ClaimReject(r)
  PROVE  RequestSound(r)'
<1>1. ASSUME NEW new \in {"approved", "draft"},
             \/ ClaimReview(r, "approve", "approving", new)
             \/ ClaimReview(r, "reject", "rejecting", new)
      PROVE  RequestSound(r)'
  <2> DEFINE taken == {e \in Entries : link[e] = req[r].sub /\ status[e] # new}
  <2>1. /\ req[r].op \in {"approve", "reject"}
        /\ req'[r].op \in {"approving", "rejecting"}
        /\ req'[r].set = taken
        /\ req'[r].sub = req[r].sub
        /\ UNCHANGED <<status, owner, link, subStatus>>
    BY <1>1 DEF ClaimReview, TypeOK, Request, entryVars, subVars
  <2>2. req[r].sub \in Subs /\ subStatus[req[r].sub] # "unused"
    BY <2>1 DEF RequestSound
  <2>3. \A e \in taken : link[e] # None /\ status[e] \notin {"unused", "running"}
    BY <2>2, NoneAssumption DEF LinkSound
  <2>4. QED
    BY <2>1, <2>2, <2>3 DEF RequestSound
<1>2. QED
  BY <1>1 DEF ClaimApprove, ClaimReject

(***************************************************************************)
(* The inductive invariant.                                                *)
(***************************************************************************)
IInv == /\ TypeOK
        /\ OneRunning
        /\ OnePending
        /\ LinkSound
        /\ ApprovedWasSubmitted
        /\ RequestsSound

LEMMA InitInv == Init => IInv
<1> SUFFICES ASSUME Init PROVE IInv
  OBVIOUS
<1>1. TypeOK
  BY InitType
<1>2. RequestsSound
  BY DEF Init, RequestsSound, RequestSound, Idle
<1>3. QED
  BY <1>1, <1>2 DEF IInv, Init, OneRunning, OnePending, LinkSound,
                    ApprovedWasSubmitted

\* The part of IInv that only reads the tables.
Tables == OneRunning /\ OnePending /\ LinkSound /\ ApprovedWasSubmitted

LEMMA TablesIdle ==
  ASSUME Tables, UNCHANGED <<entryVars, link, subVars>>
  PROVE  Tables'
  BY DEF Tables, OneRunning, OnePending, LinkSound, ApprovedWasSubmitted,
         entryVars, subVars

LEMMA CommitTables ==
  ASSUME IInv, NEW r \in Requests, Commit(r)
  PROVE  Tables'
<1> DEFINE q == req[r]
<1> USE DEF IInv, TypeOK, Tables
<1>q. RequestSound(r) /\ q \in Request
  BY DEF RequestsSound
<1>1. ASSUME NEW new \in Entries, NEW b \in Bodies, CommitStart(r, new, b)
      PROVE  Tables'
  <2> USE <1>1 DEF CommitStart
  <2>1. OneRunning'
    BY <1>q DEF OneRunning, OneRunningIndex, RunningOf, RequestSound
  <2>2. OnePending'
    BY DEF OnePending, subVars
  <2>3. LinkSound'
    BY <1>q, NoneAssumption DEF LinkSound, Exists, RequestSound, subVars
  <2>4. ApprovedWasSubmitted'
    BY DEF ApprovedWasSubmitted
  <2>5. QED
    BY <2>1, <2>2, <2>3, <2>4
<1>2. CASE CommitStop(r)
  BY <1>2, <1>q DEF CommitStop, Exists, OneRunning, OnePending, LinkSound,
                    ApprovedWasSubmitted, subVars
<1>3. CASE CommitUpdate(r)
  BY <1>3 DEF CommitUpdate, OneRunning, OnePending, LinkSound,
              ApprovedWasSubmitted, subVars
<1>4. CASE CommitDelete(r)
  BY <1>4, <1>q DEF CommitDelete, OneRunning, OnePending, LinkSound,
                    ApprovedWasSubmitted, subVars
<1>5. CASE CommitBulk(r)
  BY <1>5, <1>q DEF CommitBulk, OneRunning, OnePending, LinkSound, RequestSound,
                    ApprovedWasSubmitted, Exists, subVars
<1>6. ASSUME NEW s \in Subs, CommitSubmit(r, s)
      PROVE  Tables'
  <2> USE <1>6 DEF CommitSubmit
  <2>1. OneRunning'
    BY DEF OneRunning
  <2>2. OnePending'
    BY DEF OnePending, OnePendingIndex, PendingOf
  <2>3. LinkSound'
    BY <1>q DEF LinkSound, RequestSound
  <2>4. ApprovedWasSubmitted'
    BY DEF ApprovedWasSubmitted
  <2>5. QED
    BY <2>1, <2>2, <2>3, <2>4
<1>7. ASSUME NEW doing \in {"approving", "rejecting"},
             NEW verdict \in {"approved", "rejected"},
             NEW new \in {"approved", "draft"},
             CommitReview(r, doing, verdict, new)
      PROVE  Tables'
  <2> USE <1>7 DEF CommitReview
  <2>1. OneRunning'
    BY DEF OneRunning
  <2>2. OnePending'
    BY DEF OnePending
  <2>3. LinkSound'
    BY <1>q DEF LinkSound, RequestSound
  <2>4. ApprovedWasSubmitted'
    BY <1>q DEF ApprovedWasSubmitted, RequestSound
  <2>5. QED
    BY <2>1, <2>2, <2>3, <2>4
<1>8. QED
  BY <1>1, <1>2, <1>3, <1>4, <1>5, <1>6, <1>7 DEF Commit, CommitApprove, CommitReject

LEMMA InsertTables ==
  ASSUME TypeOK, Tables, NEW new, NEW u, NEW d, NEW b, InsertDraft(new, u, d, b)
  PROVE  Tables'
<1> USE DEF InsertDraft, TypeOK, Tables
<1>1. OneRunning'
  BY DEF OneRunning
<1>2. OnePending'
  BY DEF OnePending, subVars
<1>3. LinkSound' /\ ApprovedWasSubmitted'
  BY DEF LinkSound, ApprovedWasSubmitted, subVars
<1>4. QED
  BY <1>1, <1>2, <1>3

\* Which requests a step can touch: one at most.
OnlyMoves(r) ==
    \A other \in Requests : other # r => req'[other] = req[other]

LEMMA CommitFinishes ==
  ASSUME NEW r, Commit(r) \/ Rollback(r)
  PROVE  Finish(r)
  BY DEF Commit, CommitStart, CommitStop, CommitUpdate, CommitDelete, CommitBulk,
         CommitSubmit, CommitApprove, CommitReject, CommitReview, Rollback

LEMMA ReadBegins ==
  ASSUME NEW r, NEW u, Read(r, u)
  PROVE  /\ \E q : Begin(r, q)
         /\ UNCHANGED <<entryVars, link, subVars, wfEnabled, today>>
  BY DEF Read, ReadStart, ReadContinue, ReadStop, ReadUpdate, ReadDelete,
         ReadBulk, ReadSubmit, ReadReview

\* A step of request r keeps the soundness of all requests if it keeps r's.
LEMMA OthersSound ==
  ASSUME IInv, Kept, NEW r \in Requests, OnlyMoves(r), RequestSound(r)'
  PROVE  RequestsSound'
<1> SUFFICES ASSUME NEW other \in Requests, other # r
             PROVE  RequestSound(other)'
  BY DEF RequestsSound
<1> QED
  BY SoundStable DEF IInv, TypeOK, RequestsSound, OnlyMoves

LEMMA NextInv == IInv /\ [Next]_vars => IInv'
<1> SUFFICES ASSUME IInv, [Next]_vars PROVE IInv'
  OBVIOUS
<1>t. TypeOK' /\ Kept
  BY NextType, NextKeeps DEF IInv
<1>r. req \in [Requests -> Request] /\ Tables
  BY DEF IInv, TypeOK, Tables
<1>s. ASSUME UNCHANGED req PROVE RequestsSound'
  BY <1>s, <1>t, <1>r, SoundStable DEF IInv, RequestsSound
<1>1. ASSUME NEW r \in Requests, NEW u \in Users, Read(r, u)
      PROVE  Tables' /\ RequestsSound'
  <2>1. Tables' /\ OnlyMoves(r)
    BY <1>1, <1>r, ReadBegins, TablesIdle DEF Begin, OnlyMoves
  <2>2. RequestSound(r)'
    BY <1>1, SoundRead DEF IInv
  <2>3. QED
    BY <2>1, <2>2, <1>t, OthersSound
<1>2. ASSUME NEW r \in Requests, Commit(r) \/ Rollback(r)
      PROVE  Tables' /\ RequestsSound'
  <2>1. Tables'
    BY <1>2, <1>r, CommitTables, TablesIdle DEF Rollback
  <2>2. Finish(r)
    BY <1>2, CommitFinishes
  <2>3. OnlyMoves(r) /\ RequestSound(r)'
    BY <2>2, <1>r, SoundFinish DEF Finish, OnlyMoves
  <2>4. QED
    BY <2>1, <2>3, <1>t, OthersSound
<1>3. ASSUME NEW r \in Requests, ClaimApprove(r) \/ ClaimReject(r)
      PROVE  Tables' /\ RequestsSound'
  <2>1. Tables' /\ OnlyMoves(r)
    BY <1>3, <1>r, TablesIdle DEF ClaimApprove, ClaimReject, ClaimReview, OnlyMoves
  <2>2. RequestSound(r)'
    BY <1>3, SoundClaim DEF IInv, RequestsSound
  <2>3. QED
    BY <2>1, <2>2, <1>t, OthersSound
<1>4. ASSUME NEW u \in Users, NEW e \in Entries, NEW d \in Days, NEW b \in Bodies,
             CreateManual(u, e, d, b)
      PROVE  Tables' /\ RequestsSound'
  BY <1>4, <1>s, <1>r, InsertTables DEF CreateManual, InsertDraft, IInv
<1>5. ASSUME NEW u \in Users, NEW src \in Entries, NEW new \in Entries,
             Duplicate(u, src, new)
      PROVE  Tables' /\ RequestsSound'
  BY <1>5, <1>s, <1>r, InsertTables DEF Duplicate, InsertDraft, IInv
<1>6. ASSUME ToggleWorkflow \/ NextDay \/ UNCHANGED vars
      PROVE  Tables' /\ RequestsSound'
  BY <1>6, <1>s, <1>r, TablesIdle DEF ToggleWorkflow, NextDay, vars
<1>7. Tables' /\ RequestsSound'
  BY <1>1, <1>2, <1>3, <1>4, <1>5, <1>6 DEF Next
<1>8. QED
  BY <1>7, <1>t DEF IInv, Tables

THEOREM Invariance == Spec => []IInv
  BY InitInv, NextInv, PTL DEF Spec

\* However many requests interleave, a user has one running timer at most and
\* a week of a user one pending submission at most; the proof needs the unique
\* indexes, and RequestsSound for the timer that start stops.
THEOREM AtMostOne == Spec => [](OneRunning /\ OnePending)
<1>1. IInv => OneRunning /\ OnePending
  BY DEF IInv
<1>2. QED
  BY <1>1, Invariance, PTL

\* A submission carries stopped entries of its own user only, and an approved
\* entry always has been submitted in one.
THEOREM SubmissionsSound == Spec => [](LinkSound /\ ApprovedWasSubmitted)
<1>1. IInv => LinkSound /\ ApprovedWasSubmitted
  BY DEF IInv
<1>2. QED
  BY <1>1, Invariance, PTL

\* What a request knows about the rows it read stays true until it commits.
THEOREM ReadsStaySound == Spec => []RequestsSound
<1>1. IInv => RequestsSound
  BY DEF IInv
<1>2. QED
  BY <1>1, Invariance, PTL

\* No stale request restarts a stopped entry or revives a deleted one.
THEOREM StoppedForGood == Spec => NeverRunsAgain
<1>1. TypeOK /\ [Next]_vars =>
        [\A e \in Entries :
            /\ status'[e] = "running" => status[e] \in {"unused", "running"}
            /\ status[e] = "deleted" => status'[e] = "deleted"]_vars
  BY NextKeeps DEF Kept
<1>2. QED
  BY <1>1, TypeCorrect, PTL DEF Spec, NeverRunsAgain

\* A verdict is replaced by another verdict at worst: no interleaving of
\* reviews and submissions makes a decided submission pending again.
THEOREM DecidedStaysDecided == Spec => NeverReopened
<1>1. TypeOK /\ [Next]_vars =>
        [\A s \in Subs : subStatus[s] \in {"approved", "rejected"}
                           => subStatus'[s] \in {"approved", "rejected"}]_vars
  BY NextKeeps DEF Kept
<1>2. QED
  BY <1>1, TypeCorrect, PTL DEF Spec, NeverReopened

------------------------------------------------------------------------------
(***************************************************************************)
(* The concurrent requests of Timesheet implement TimerSlot: whatever they *)
(* interleave, a user sees one slot that starts, switches and stops.       *)
(***************************************************************************)

\* Every entry that was inserted has a user.
Owned == \A e \in Entries : status[e] # "unused" => owner[e] \in Users

LEMMA CommitOwned ==
  ASSUME IInv, NEW r \in Requests, Commit(r), NEW e \in Entries,
         status[e] = "unused", status'[e] # "unused"
  PROVE  owner'[e] \in Users
<1> USE DEF IInv, TypeOK, Exists
<1>q. RequestSound(r)
  BY DEF RequestsSound
<1>1. ASSUME NEW new \in Entries, NEW b \in Bodies, CommitStart(r, new, b)
      PROVE  owner'[e] \in Users
  BY <1>1, <1>q, NoneAssumption DEF CommitStart, RequestSound
<1>2. ASSUME \/ CommitStop(r) \/ CommitUpdate(r) \/ CommitDelete(r) \/ CommitBulk(r)
             \/ \E s \in Subs : CommitSubmit(r, s)
      PROVE  FALSE
  BY <1>2, <1>q DEF CommitStop, CommitUpdate, CommitDelete, CommitBulk,
                    CommitSubmit, RequestSound
<1>3. ASSUME CommitApprove(r) \/ CommitReject(r)
      PROVE  FALSE
  BY <1>3 DEF CommitApprove, CommitReject, CommitReview
<1>4. QED
  BY <1>1, <1>2, <1>3 DEF Commit

LEMMA OwnedInv ==
  ASSUME IInv, Owned, [Next]_vars
  PROVE  Owned'
<1>1. Kept
  BY NextKeeps DEF IInv
<1> SUFFICES ASSUME NEW e \in Entries, status[e] = "unused", status'[e] # "unused"
             PROVE  owner'[e] \in Users
  BY <1>1 DEF Kept, Owned
<1>2. ASSUME NEW u \in Users, NEW new \in Entries, NEW d, NEW b,
             InsertDraft(new, u, d, b)
      PROVE  owner'[e] \in Users
  BY <1>2 DEF InsertDraft, IInv, TypeOK
<1>3. ASSUME NEW u \in Users, NEW src \in Entries, NEW new \in Entries,
             Duplicate(u, src, new)
      PROVE  owner'[e] \in Users
  BY <1>3 DEF Duplicate, InsertDraft, IInv, TypeOK
<1>4. ASSUME NEW r \in Requests, NEW u \in Users, Read(r, u)
      PROVE  FALSE
  BY <1>4, ReadBegins DEF entryVars
<1>5. ASSUME NEW r \in Requests, ClaimApprove(r) \/ ClaimReject(r) \/ Rollback(r)
      PROVE  FALSE
  BY <1>5 DEF ClaimApprove, ClaimReject, ClaimReview, Rollback, entryVars
<1>6. ASSUME ToggleWorkflow \/ NextDay \/ UNCHANGED vars
      PROVE  FALSE
  BY <1>6 DEF ToggleWorkflow, NextDay, vars, entryVars
<1>7. QED
  BY <1>2, <1>3, <1>4, <1>5, <1>6, CommitOwned DEF Next, CreateManual

\* The slot of a user holds the entry that runs for the user.
SlotMeaning ==
    \A u \in Users :
        /\ SlotOf(u) \in Entries \cup {None}
        /\ \A e \in Entries : SlotOf(u) = e <=> e \in RunningOf(u)

LEMMA SlotFacts == TypeOK /\ OneRunning => SlotMeaning
  BY NoneAssumption DEF SlotMeaning, SlotOf, RunningOf, OneRunning, TypeOK

LEMMA SlotFactsNext == TypeOK' /\ OneRunning' => SlotMeaning'
  BY SlotFacts, PTL

(***************************************************************************)
(* A step of Timesheet, seen through the slots.  It is enough to know      *)
(* which entries run before and after it, and for whom.                    *)
(***************************************************************************)
Closed == {e \in Entries : status[e] \notin {"unused", "running"}}
SlotsNow == [u \in Users |-> SlotOf(u)]

\* Nothing starts, stops or is recorded.
LEMMA Stutter ==
  ASSUME \A e \in Entries :
            /\ status'[e] = "running" <=> status[e] = "running"
            /\ status'[e] = "unused" <=> status[e] = "unused"
            /\ status[e] = "running" => owner'[e] = owner[e]
  PROVE  SlotsNow' = SlotsNow /\ Closed' = Closed
<1>1. ASSUME NEW u \in Users
      PROVE  SlotOf(u)' = SlotOf(u)
  <2>1. RunningOf(u)' = RunningOf(u)
    BY DEF RunningOf
  <2>2. QED
    BY <2>1 DEF SlotOf
<1>2. QED
  BY <1>1 DEF SlotsNow, Closed

\* One entry that ran stops and none starts.
LEMMA StopStep ==
  ASSUME SlotMeaning, SlotMeaning', Owned,
         NEW x \in Entries, status[x] = "running",
         NEW u \in Users, u = owner[x],
         status'[x] \notin {"unused", "running"},
         \A e \in Entries \ {x} : status'[e] = status[e],
         owner' = owner
  PROVE  Slots!Stop(u)
<1>1. SlotOf(u) = x
  BY DEF SlotMeaning, RunningOf
<1>2. ASSUME NEW v \in Users, v # u
      PROVE  SlotOf(v)' = SlotOf(v)
  <2>1. RunningOf(v)' = RunningOf(v)
    BY <1>2 DEF RunningOf
  <2>2. QED
    BY <2>1 DEF SlotOf
<1>3. RunningOf(u)' = {}
  BY <1>1 DEF RunningOf, SlotMeaning, Owned
<1>4. SlotOf(u)' = None
  BY <1>3, <1>1 DEF SlotOf
<1>5. Closed' = Closed \cup {x}
  BY DEF Closed
<1>6. QED
  BY <1>1, <1>2, <1>4, <1>5, NoneAssumption DEF Slots!Stop, Closed

\* One entry starts for a user, whose running entry, if any, stops.
LEMMA StartStep ==
  ASSUME SlotMeaning, SlotMeaning', Owned, TypeOK,
         NEW u \in Users, NEW new \in Entries,
         status[new] = "unused", status'[new] = "running", owner'[new] = u,
         \A e \in Entries \ {new} :
            /\ owner'[e] = owner[e]
            /\ e \in RunningOf(u) => status'[e] \notin {"unused", "running"}
            /\ e \notin RunningOf(u) =>
                  /\ status'[e] = "running" <=> status[e] = "running"
                  /\ status'[e] = "unused" <=> status[e] = "unused"
  PROVE  Slots!Start(u, new) \/ Slots!Switch(u, new)
<1>1. ASSUME NEW v \in Users, v # u
      PROVE  SlotOf(v)' = SlotOf(v)
  <2>1. RunningOf(v)' = RunningOf(v)
    BY <1>1 DEF RunningOf
  <2>2. QED
    BY <2>1 DEF SlotOf
<1>2. SlotOf(u)' = new
  BY DEF SlotMeaning, RunningOf
<1>3. SlotsNow' = [SlotsNow EXCEPT ![u] = new]
  BY <1>1, <1>2 DEF SlotsNow
<1>4. Closed' = IF SlotOf(u) = None THEN Closed ELSE Closed \cup {SlotOf(u)}
  <2>1. RunningOf(u) = IF SlotOf(u) = None THEN {} ELSE {SlotOf(u)}
    BY NoneAssumption DEF SlotMeaning, RunningOf
  <2>2. Closed' = Closed \cup RunningOf(u)
    BY DEF Closed, RunningOf
  <2>3. QED
    BY <2>1, <2>2
<1>5. new \notin Closed \cup {SlotOf(v) : v \in Users}
  BY DEF Closed, SlotMeaning, RunningOf
<1>6. SlotsNow[u] = SlotOf(u)
  BY DEF SlotsNow
<1>7. {SlotsNow[v] : v \in Users} = {SlotOf(v) : v \in Users}
  BY DEF SlotsNow
<1>8. QED
  BY <1>3, <1>4, <1>5, <1>6, <1>7
     DEF Slots!Start, Slots!Switch, Slots!Occupied, SlotsNow, Closed

\* An entry is recorded that never ran.
LEMMA RecordStep ==
  ASSUME TypeOK, SlotMeaning, NEW new \in Entries, NEW u, NEW d, NEW b,
         InsertDraft(new, u, d, b)
  PROVE  Slots!Record(new)
<1>1. ASSUME NEW v \in Users
      PROVE  SlotOf(v)' = SlotOf(v)
  <2>1. RunningOf(v)' = RunningOf(v)
    BY DEF InsertDraft, RunningOf, TypeOK
  <2>2. QED
    BY <2>1 DEF SlotOf
<1>2. Closed' = Closed \cup {new} /\ new \notin Closed
  BY DEF Closed, InsertDraft, TypeOK
<1>3. new \notin {SlotsNow[v] : v \in Users}
  BY DEF SlotMeaning, RunningOf, InsertDraft, SlotsNow
<1>4. QED
  BY <1>1, <1>2, <1>3 DEF Slots!Record, Slots!Occupied, Closed, SlotsNow

LEMMA CommitRefines ==
  ASSUME IInv, Owned, SlotMeaning, SlotMeaning', NEW r \in Requests, Commit(r)
  PROVE  [Slots!Next]_(Slots!vars)
<1> DEFINE q == req[r]
<1> USE DEF IInv, TypeOK
<1>q. RequestSound(r) /\ q \in Request
  BY DEF RequestsSound
<1>s. ASSUME SlotsNow' = SlotsNow /\ Closed' = Closed
      PROVE  [Slots!Next]_(Slots!vars)
  BY <1>s DEF Slots!vars, SlotsNow, Closed
<1>1. ASSUME NEW new \in Entries, NEW b \in Bodies, CommitStart(r, new, b)
      PROVE  [Slots!Next]_(Slots!vars)
  <2>1. q.by \in Users /\ status[new] = "unused" /\ status'[new] = "running"
           /\ owner'[new] = q.by
    BY <1>1, <1>q DEF CommitStart, RequestSound
  <2>2. ASSUME NEW e \in Entries \ {new}
        PROVE  /\ owner'[e] = owner[e]
               /\ e \in RunningOf(q.by) => status'[e] \notin {"unused", "running"}
               /\ e \notin RunningOf(q.by) =>
                     /\ status'[e] = "running" <=> status[e] = "running"
                     /\ status'[e] = "unused" <=> status[e] = "unused"
    <3>1. CASE e = q.entry
      <4>1. status'[e] = "draft" /\ owner'[e] = owner[e]
        BY <1>1, <3>1 DEF CommitStart
      <4>2. Exists(e) /\ owner[e] = q.by
        BY <1>1, <1>q, <3>1, NoneAssumption DEF CommitStart, RequestSound
      <4>3. QED
        BY <4>1, <4>2 DEF Exists, RunningOf
    <3>2. CASE e # q.entry
      <4>1. e \notin RunningOf(q.by)
        BY <1>1, <3>2 DEF CommitStart, OneRunningIndex
      <4>2. QED
        BY <1>1, <3>2, <4>1 DEF CommitStart
    <3>3. QED
      BY <3>1, <3>2
  <2>3. Slots!Start(q.by, new) \/ Slots!Switch(q.by, new)
    BY <2>1, <2>2, StartStep
  <2>4. QED
    BY <2>1, <2>3 DEF Slots!Next
<1>2. ASSUME CommitStop(r) \/ CommitDelete(r)
      PROVE  [Slots!Next]_(Slots!vars)
  <2>1. q.entry \in Entries /\ status[q.entry] # "unused"
    BY <1>2, <1>q DEF CommitStop, CommitDelete, RequestSound
  <2>2. /\ status'[q.entry] \in {"draft", "deleted"}
        /\ \A e \in Entries \ {q.entry} : status'[e] = status[e]
        /\ owner' = owner
    BY <1>2, <2>1 DEF CommitStop, CommitDelete
  <2>3. CASE status[q.entry] = "running"
    <3>1. PICK u \in Users : u = owner[q.entry]
      BY <2>1 DEF Owned
    <3>2. Slots!Stop(u)
      BY <2>1, <2>2, <2>3, <3>1, StopStep
    <3>3. QED
      BY <3>2 DEF Slots!Next
  <2>4. CASE status[q.entry] # "running"
    <3>1. SlotsNow' = SlotsNow /\ Closed' = Closed
      BY <2>1, <2>2, <2>4, Stutter
    <3>2. QED
      BY <3>1, <1>s
  <2>5. QED
    BY <2>3, <2>4
<1>3. ASSUME \/ CommitUpdate(r) \/ CommitBulk(r) \/ CommitApprove(r) \/ CommitReject(r)
             \/ \E s \in Subs : CommitSubmit(r, s)
      PROVE  [Slots!Next]_(Slots!vars)
  <2>1. owner' = owner
    BY <1>3 DEF CommitUpdate, CommitBulk, CommitSubmit, CommitApprove,
                CommitReject, CommitReview
  <2>2. ASSUME NEW e \in Entries
        PROVE  \/ status'[e] = status[e]
               \/ e \in q.set /\ status'[e] \notin {"unused", "running"}
    BY <1>3 DEF CommitUpdate, CommitBulk, CommitSubmit, CommitApprove,
                CommitReject, CommitReview
  <2>3. \A e \in q.set : status[e] \notin {"unused", "running"}
    BY <1>q DEF RequestSound
  <2>4. SlotsNow' = SlotsNow /\ Closed' = Closed
    BY <2>1, <2>2, <2>3, Stutter
  <2>5. QED
    BY <2>4, <1>s
<1>4. QED
  BY <1>1, <1>2, <1>3 DEF Commit

LEMMA NextRefines ==
  ASSUME IInv, Owned, SlotMeaning, SlotMeaning', [Next]_vars
  PROVE  [Slots!Next]_(Slots!vars)
<1>s. ASSUME UNCHANGED entryVars
      PROVE  [Slots!Next]_(Slots!vars)
  <2>1. SlotsNow' = SlotsNow /\ Closed' = Closed
    BY <1>s, Stutter DEF entryVars
  <2>2. QED
    BY <2>1 DEF Slots!vars, SlotsNow, Closed
<1>1. ASSUME NEW new \in Entries, NEW u, NEW d, NEW b, InsertDraft(new, u, d, b)
      PROVE  [Slots!Next]_(Slots!vars)
  BY <1>1, RecordStep DEF Slots!Next, IInv
<1>2. ASSUME NEW u \in Users, NEW src \in Entries, NEW new \in Entries,
             Duplicate(u, src, new)
      PROVE  [Slots!Next]_(Slots!vars)
  BY <1>2, <1>1 DEF Duplicate
<1>3. ASSUME NEW r \in Requests, NEW u \in Users, Read(r, u)
      PROVE  [Slots!Next]_(Slots!vars)
  BY <1>3, <1>s, ReadBegins
<1>4. ASSUME NEW r \in Requests, ClaimApprove(r) \/ ClaimReject(r) \/ Rollback(r)
      PROVE  [Slots!Next]_(Slots!vars)
  BY <1>4, <1>s DEF ClaimApprove, ClaimReject, ClaimReview, Rollback
<1>5. ASSUME ToggleWorkflow \/ NextDay \/ UNCHANGED vars
      PROVE  [Slots!Next]_(Slots!vars)
  BY <1>5, <1>s DEF ToggleWorkflow, NextDay, vars
<1>6. QED
  BY <1>1, <1>2, <1>3, <1>4, <1>5, CommitRefines DEF Next, CreateManual

\* Start, continue, stop, delete and every other request, interleaved in any
\* way, implement one slot per user that changes atomically.
THEOREM TimerRefinement == Spec => TimerIsOneSlot
<1>1. Init => Owned /\ Slots!Init
  BY DEF Init, Owned, Slots!Init, SlotOf, RunningOf
<1>2. IInv /\ Owned /\ [Next]_vars => Owned'
  BY OwnedInv
<1>3. IInv => SlotMeaning
  BY SlotFacts DEF IInv
<1>4. IInv /\ Owned /\ SlotMeaning /\ SlotMeaning' /\ [Next]_vars
        => [Slots!Next]_(Slots!vars)
  BY NextRefines
<1>5. QED
  BY <1>1, <1>2, <1>3, <1>4, Invariance, PTL DEF Spec, TimerIsOneSlot, Slots!Spec

------------------------------------------------------------------------------
(***************************************************************************)
(* What overlapping requests can break, and by what.  The rules of a review *)
(* and of the lock can all be broken; but only by the commit of a request   *)
(* for which what it read does not hold any more.                          *)
(***************************************************************************)

\* What a request has read, as far as its writes rely on it, still holds.
Fresh(r) ==
    LET q == req[r] IN
    /\ q.op \in {"start", "continue", "stop"} /\ q.entry # None =>
          status[q.entry] = "running"
    /\ q.op \in {"update", "delete"} /\ status[q.entry] \in {"pending", "approved"} =>
          Role[q.by] = "admin"
    /\ q.op \in {"bulk", "submit"} => \A e \in q.set : status[e] = "draft"
    /\ q.op = "submit" => q.set # {}
    /\ q.op \in {"approve", "reject", "approving", "rejecting"} =>
          subStatus[q.sub] = "pending"
    /\ q.op = "approving" =>
          \A e \in Entries : link[e] = q.sub => e \in q.set \/ status[e] = "approved"
    /\ q.op = "rejecting" =>
          \A e \in Entries : link[e] = q.sub => e \in q.set \/ status[e] = "draft"
    /\ q.op \in {"approving", "rejecting"} => \A e \in q.set : link[e] = q.sub

StaleCommit == \E r \in Requests : ~Fresh(r) /\ Commit(r)

\* What a commit does to the tables when its request is fresh.
LEMMA CommitTogether ==
  ASSUME IInv, ReviewedTogether, NEW r \in Requests, Fresh(r), Commit(r)
  PROVE  ReviewedTogether'
<1> DEFINE q == req[r]
<1> USE NoneAssumption DEF IInv, TypeOK, ReviewedTogether
<1>q. RequestSound(r) /\ q \in Request
  BY DEF RequestsSound
<1>l. \A e \in Entries : status[e] \in {"unused", "running", "deleted"} => link[e] = None
  BY DEF LinkSound
<1>1. ASSUME NEW new \in Entries, NEW b \in Bodies, CommitStart(r, new, b)
      PROVE  ReviewedTogether'
  BY <1>1, <1>q, <1>l DEF CommitStart, Fresh, subVars
<1>2. CASE CommitStop(r)
  BY <1>2, <1>q, <1>l DEF CommitStop, Fresh, RequestSound, subVars
<1>3. CASE CommitUpdate(r)
  BY <1>3 DEF CommitUpdate, subVars
<1>4. CASE CommitDelete(r)
  BY <1>4 DEF CommitDelete, subVars
<1>5. CASE CommitBulk(r)
  BY <1>5, <1>q DEF CommitBulk, Fresh, subVars
<1>6. ASSUME NEW s \in Subs, CommitSubmit(r, s)
      PROVE  ReviewedTogether'
  <2>1. \A e \in Entries : link[e] # s
    BY <1>6 DEF CommitSubmit, LinkSound
  <2>2. QED
    BY <1>6, <1>q, <2>1 DEF CommitSubmit, Fresh
<1>7. CASE CommitApprove(r)
  <2>1. q.sub \in Subs
    BY <1>7, <1>q DEF CommitApprove, CommitReview, RequestSound
  <2>2. QED
    BY <1>7, <1>q, <2>1 DEF CommitApprove, CommitReview, Fresh
<1>8. CASE CommitReject(r)
  <2>1. q.sub \in Subs
    BY <1>8, <1>q DEF CommitReject, CommitReview, RequestSound
  <2>2. QED
    BY <1>8, <1>q, <2>1 DEF CommitReject, CommitReview, Fresh
<1>9. QED
  BY <1>1, <1>2, <1>3, <1>4, <1>5, <1>6, <1>7, <1>8 DEF Commit

LEMMA NextTogether ==
  ASSUME IInv, [Next]_vars, ReviewedTogether, ~StaleCommit
  PROVE  ReviewedTogether'
<1>s. ASSUME UNCHANGED <<entryVars, link, subVars>>
      PROVE  ReviewedTogether'
  BY <1>s DEF ReviewedTogether, entryVars, subVars
<1>1. ASSUME NEW r \in Requests, NEW u \in Users, Read(r, u)
      PROVE  ReviewedTogether'
  BY <1>1, <1>s, ReadBegins DEF IInv
<1>2. ASSUME NEW r \in Requests, Commit(r)
      PROVE  ReviewedTogether'
  BY <1>2, CommitTogether DEF StaleCommit
<1>3. ASSUME NEW r \in Requests, ClaimApprove(r) \/ ClaimReject(r) \/ Rollback(r)
      PROVE  ReviewedTogether'
  BY <1>3, <1>s DEF ClaimApprove, ClaimReject, ClaimReview, Rollback
<1>4. ASSUME NEW new \in Entries, NEW u, NEW d, NEW b, InsertDraft(new, u, d, b)
      PROVE  ReviewedTogether'
  <2>1. link[new] = None
    BY <1>4 DEF IInv, LinkSound, InsertDraft, TypeOK
  <2>2. QED
    BY <1>4, <2>1 DEF ReviewedTogether, InsertDraft, IInv, TypeOK, subVars
<1>5. ASSUME NEW u \in Users, NEW src \in Entries, NEW new \in Entries,
             Duplicate(u, src, new)
      PROVE  ReviewedTogether'
  BY <1>5, <1>4 DEF Duplicate
<1>6. ASSUME ToggleWorkflow \/ NextDay \/ UNCHANGED vars
      PROVE  ReviewedTogether'
  BY <1>6, <1>s DEF ToggleWorkflow, NextDay, vars
<1>7. QED
  BY <1>1, <1>2, <1>3, <1>4, <1>5, <1>6 DEF Next, CreateManual

\* Which requests write the content of an entry that is there already, or
\* remove it: a stop of a running entry, an update and a delete.
LEMMA AdminTouches ==
  ASSUME IInv, [Next]_vars, ~StaleCommit, NEW e \in Entries,
         status[e] \in {"pending", "approved"},
         <<day[e], body[e]>>' # <<day[e], body[e]>> \/ status'[e] = "deleted"
  PROVE  \E r \in Requests : /\ req[r].op \in {"update", "delete"}
                             /\ req[r].entry = e
                             /\ Role[req[r].by] = "admin"
                             /\ req'[r] = Idle
<1> DEFINE touched == \E r \in Requests : /\ req[r].op \in {"update", "delete"}
                                          /\ req[r].entry = e
                                          /\ Role[req[r].by] = "admin"
                                          /\ req'[r] = Idle
<1> USE DEF IInv, TypeOK
<1>1. ASSUME NEW r \in Requests, Commit(r)
      PROVE  touched
  <2>q. Fresh(r) /\ RequestSound(r)
    BY <1>1 DEF StaleCommit, RequestsSound
  <2>1. ASSUME CommitUpdate(r) \/ CommitDelete(r)
        PROVE  touched
    <3>1. /\ req[r].op \in {"update", "delete"}
          /\ req[r].entry = e
          /\ req'[r] = Idle
      BY <2>1 DEF CommitUpdate, CommitDelete, Finish
    <3>2. QED
      BY <3>1, <2>q DEF Fresh
  <2>2. ASSUME NEW new \in Entries, NEW b \in Bodies, CommitStart(r, new, b)
        PROVE  FALSE
    BY <2>2, <2>q, NoneAssumption DEF CommitStart, Fresh
  <2>3. ASSUME CommitStop(r)
        PROVE  FALSE
    BY <2>3, <2>q, NoneAssumption DEF CommitStop, Fresh, RequestSound
  <2>4. ASSUME \/ CommitBulk(r) \/ CommitApprove(r) \/ CommitReject(r)
               \/ \E s \in Subs : CommitSubmit(r, s)
        PROVE  FALSE
    BY <2>4 DEF CommitBulk, CommitApprove, CommitReject, CommitReview, CommitSubmit
  <2>5. QED
    BY <1>1, <2>1, <2>2, <2>3, <2>4 DEF Commit
<1>2. ASSUME NEW r \in Requests, NEW u \in Users, Read(r, u)
      PROVE  FALSE
  BY <1>2, ReadBegins DEF entryVars
<1>3. ASSUME NEW u, NEW new, NEW d, NEW b, InsertDraft(new, u, d, b)
      PROVE  FALSE
  BY <1>3 DEF InsertDraft
<1>4. ASSUME NEW u, NEW src, NEW new, Duplicate(u, src, new)
      PROVE  FALSE
  BY <1>4 DEF Duplicate, InsertDraft
<1>5. QED
  BY <1>1, <1>2, <1>3, <1>4
     DEF Next, CreateManual, Rollback, ClaimApprove, ClaimReject, ClaimReview,
         ToggleWorkflow, NextDay, entryVars, vars

\* Nothing but the commit of a request whose read is stale takes a submission
\* and its entries apart (approve_submission, reject_submission, submit_week, the
\* timer, updates and deletes, with any number of them under way).
THEOREM OnlyStaleSeparates ==
  Spec => [][ReviewedTogether => ReviewedTogether' \/ StaleCommit]_vars
<1>1. IInv /\ [Next]_vars => [ReviewedTogether => ReviewedTogether' \/ StaleCommit]_vars
  BY NextTogether
<1>2. QED
  BY <1>1, Invariance, PTL DEF Spec

\* Nothing but such a commit changes or deletes a submitted entry for somebody who
\* is not an admin (_check_lock).
THEOREM OnlyStaleTouches ==
  Spec => [][\A e \in Entries :
              /\ status[e] \in {"pending", "approved"}
              /\ <<day[e], body[e]>>' # <<day[e], body[e]>> \/ status'[e] = "deleted"
              => \/ \E r \in Requests : /\ req[r].op \in {"update", "delete"}
                                        /\ req[r].entry = e
                                        /\ Role[req[r].by] = "admin"
                                        /\ req'[r] = Idle
                 \/ StaleCommit]_vars
<1>1. IInv /\ [Next]_vars =>
        [\A e \in Entries :
              /\ status[e] \in {"pending", "approved"}
              /\ <<day[e], body[e]>>' # <<day[e], body[e]>> \/ status'[e] = "deleted"
              => \/ \E r \in Requests : /\ req[r].op \in {"update", "delete"}
                                        /\ req[r].entry = e
                                        /\ Role[req[r].by] = "admin"
                                        /\ req'[r] = Idle
                 \/ StaleCommit]_vars
  BY AdminTouches
<1>2. QED
  BY <1>1, Invariance, PTL DEF Spec

(***************************************************************************)
(* The contract of a review.                                               *)
(***************************************************************************)
HoldNow == [e \in Entries |-> HoldOf(e)]

\* A step that submits, reviews and deletes nothing.
LEMMA ContractStutter ==
  ASSUME link' = link, subStatus' = subStatus,
         \A e \in Entries : status'[e] = status[e] \/
            {status[e], status'[e]} \cap {"pending", "approved"} = {}
  PROVE  [Contract!Next]_(Contract!vars)
<1>1. \A e \in Entries : HoldOf(e)' = HoldOf(e)
  BY DEF HoldOf
<1>2. HoldNow' = HoldNow
  BY <1>1 DEF HoldNow
<1>3. QED
  BY <1>2 DEF Contract!vars, HoldNow

LEMMA CommitContract ==
  ASSUME IInv, NEW r \in Requests, Fresh(r), Commit(r)
  PROVE  [Contract!Next]_(Contract!vars)
<1> DEFINE q == req[r]
<1> USE DEF IInv, TypeOK
<1>q. RequestSound(r) /\ q \in Request
  BY DEF RequestsSound
<1>1. ASSUME NEW new \in Entries, NEW b \in Bodies, CommitStart(r, new, b)
      PROVE  [Contract!Next]_(Contract!vars)
  <2>1. link' = link /\ subStatus' = subStatus
    BY <1>1 DEF CommitStart, subVars
  <2>2. ASSUME NEW e \in Entries
        PROVE  status'[e] = status[e] \/
                 {status[e], status'[e]} \cap {"pending", "approved"} = {}
    BY <1>1, <1>q, NoneAssumption DEF CommitStart, Fresh
  <2>3. QED
    BY <2>1, <2>2, ContractStutter
<1>2. ASSUME CommitStop(r) \/ CommitUpdate(r)
      PROVE  [Contract!Next]_(Contract!vars)
  <2>1. link' = link /\ subStatus' = subStatus
    BY <1>2 DEF CommitStop, CommitUpdate, subVars
  <2>2. ASSUME NEW e \in Entries
        PROVE  status'[e] = status[e] \/
                 {status[e], status'[e]} \cap {"pending", "approved"} = {}
    BY <1>2, <1>q, NoneAssumption DEF CommitStop, CommitUpdate, Fresh, RequestSound
  <2>3. QED
    BY <2>1, <2>2, ContractStutter
<1>3. ASSUME CommitDelete(r)
      PROVE  [Contract!Next]_(Contract!vars)
  <2>1. PICK x \in Entries : x = q.entry
    BY <1>3, <1>q DEF CommitDelete, RequestSound
  <2>2. \A e \in Entries : HoldOf(e)' = IF e = x THEN "free" ELSE HoldOf(e)
    BY <1>3, <2>1 DEF CommitDelete, HoldOf
  <2>3. HoldNow' = [HoldNow EXCEPT ![x] = "free"]
    BY <2>2 DEF HoldNow
  <2>4. Contract!Discard(x)
    BY <1>3, <2>1, <2>3 DEF CommitDelete, Contract!Discard, HoldNow, subVars
  <2>5. QED
    BY <2>4 DEF Contract!Next
<1>4. ASSUME CommitBulk(r)
      PROVE  [Contract!Next]_(Contract!vars)
  <2>1. PICK taken \in SUBSET Entries : taken = q.set
    BY <1>q DEF Request
  <2>2. \A e \in Entries : HoldOf(e)' = IF e \in taken THEN "submitted" ELSE HoldOf(e)
    BY <1>4, <2>1 DEF CommitBulk, HoldOf
  <2>3. \A e \in taken : HoldOf(e) = "free"
    BY <1>4, <1>q, <2>1 DEF CommitBulk, Fresh, HoldOf
  <2>4. Contract!Hold(taken)
    BY <1>4, <2>2, <2>3 DEF CommitBulk, Contract!Hold, subVars
  <2>5. QED
    BY <2>4 DEF Contract!Next
<1>5. ASSUME NEW s \in Subs, CommitSubmit(r, s)
      PROVE  [Contract!Next]_(Contract!vars)
  <2>1. PICK taken \in SUBSET Entries : taken = q.set
    BY <1>q DEF Request
  <2>2. \A e \in Entries : HoldOf(e)' = IF e \in taken THEN "submitted" ELSE HoldOf(e)
    BY <1>5, <2>1 DEF CommitSubmit, HoldOf
  <2>3. taken # {} /\ \A e \in taken : HoldOf(e) = "free"
    BY <1>5, <1>q, <2>1 DEF CommitSubmit, Fresh, HoldOf
  <2>4. Contract!Submit(s, taken)
    BY <1>5, <2>1, <2>2, <2>3 DEF CommitSubmit, Contract!Submit
  <2>5. QED
    BY <2>4 DEF Contract!Next
<1>6. ASSUME NEW doing \in {"approving", "rejecting"}, NEW verdict, NEW new, NEW result,
             CommitReview(r, doing, verdict, new),
             \/ doing = "approving" /\ new = "approved" /\ result = "approved"
             \/ doing = "rejecting" /\ new = "draft" /\ result = "free"
      PROVE  \E s \in Subs : Contract!Decide(s, verdict, result)
  <2>1. PICK s \in Subs : s = q.sub
    BY <1>6, <1>q DEF CommitReview, RequestSound
  <2>2. \A e \in Entries : status'[e] = IF link[e] = s THEN new ELSE status[e]
    BY <1>6, <1>q, <2>1 DEF CommitReview, Fresh
  <2>3. \A e \in Entries : HoldOf(e)' = IF link[e] = s THEN result ELSE HoldOf(e)
    BY <1>6, <2>2 DEF HoldOf
  <2>4. Contract!Decide(s, verdict, result)
    BY <1>6, <1>q, <2>1, <2>3
       DEF CommitReview, Fresh, Contract!Decide, Contract!CarriedBy
  <2>5. QED
    BY <2>4
<1>7. ASSUME CommitApprove(r) \/ CommitReject(r)
      PROVE  Contract!Next
  <2>1. CASE CommitApprove(r)
    <3>1. \E s \in Subs : Contract!Decide(s, "approved", "approved")
      BY <1>6, <2>1 DEF CommitApprove
    <3>2. QED
      BY <3>1 DEF Contract!Next
  <2>2. CASE CommitReject(r)
    <3>1. \E s \in Subs : Contract!Decide(s, "rejected", "free")
      BY <1>6, <2>2 DEF CommitReject
    <3>2. QED
      BY <3>1 DEF Contract!Next
  <2>3. QED
    BY <1>7, <2>1, <2>2
<1>8. QED
  BY <1>1, <1>2, <1>3, <1>4, <1>5, <1>7 DEF Commit

LEMMA NextContract ==
  ASSUME IInv, [Next]_vars, ~StaleCommit
  PROVE  [Contract!Next]_(Contract!vars)
<1>s. ASSUME UNCHANGED <<entryVars, link, subVars>>
      PROVE  [Contract!Next]_(Contract!vars)
  BY <1>s, ContractStutter DEF entryVars, subVars
<1>1. ASSUME NEW new \in Entries, NEW u, NEW d, NEW b, InsertDraft(new, u, d, b)
      PROVE  [Contract!Next]_(Contract!vars)
  <2>1. link' = link /\ subStatus' = subStatus
    BY <1>1 DEF InsertDraft, subVars
  <2>2. ASSUME NEW e \in Entries
        PROVE  status'[e] = status[e] \/
                 {status[e], status'[e]} \cap {"pending", "approved"} = {}
    BY <1>1 DEF InsertDraft, IInv, TypeOK
  <2>3. QED
    BY <2>1, <2>2, ContractStutter
<1>2. ASSUME NEW u \in Users, NEW src \in Entries, NEW new \in Entries,
             Duplicate(u, src, new)
      PROVE  [Contract!Next]_(Contract!vars)
  BY <1>2, <1>1 DEF Duplicate
<1>3. ASSUME NEW r \in Requests, NEW u \in Users, Read(r, u)
      PROVE  [Contract!Next]_(Contract!vars)
  BY <1>3, <1>s, ReadBegins DEF IInv
<1>4. ASSUME NEW r \in Requests, ClaimApprove(r) \/ ClaimReject(r) \/ Rollback(r)
      PROVE  [Contract!Next]_(Contract!vars)
  BY <1>4, <1>s DEF ClaimApprove, ClaimReject, ClaimReview, Rollback
<1>5. ASSUME ToggleWorkflow \/ NextDay \/ UNCHANGED vars
      PROVE  [Contract!Next]_(Contract!vars)
  BY <1>5, <1>s DEF ToggleWorkflow, NextDay, vars
<1>6. ASSUME NEW r \in Requests, Commit(r)
      PROVE  [Contract!Next]_(Contract!vars)
  BY <1>6, CommitContract DEF StaleCommit
<1>7. QED
  BY <1>1, <1>2, <1>3, <1>4, <1>5, <1>6 DEF Next, CreateManual

\* Every step but such a commit is a step of the contract of submitting and
\* reviewing: what is taken is free, and it is decided once and as a whole.
THEOREM OnlyStaleBreaks ==
  Spec => [][[Contract!Next]_(Contract!vars) \/ StaleCommit]_vars
<1>1. IInv /\ [Next]_vars => [[Contract!Next]_(Contract!vars) \/ StaleCommit]_vars
  BY NextContract
<1>2. QED
  BY <1>1, Invariance, PTL DEF Spec
==============================================================================
