--------------------------- MODULE AttendanceProofs ---------------------------
(***************************************************************************)
(* Proofs about Attendance, for any members, settings and length of a day. *)
(* Nothing in the database keeps a job from adding a row twice; that it    *)
(* does not rests on two facts, which make IInv inductive: a key that the  *)
(* job is about to add has no row yet, and a response adds rows for other  *)
(* recipients than the job.  That the admins and managers are told alike   *)
(* rests on both jobs and responses adding the rows of all or of none.     *)
(***************************************************************************)
EXTENDS Attendance, TLAPS

RequestsKnown ==
    \A s \in Requests : req[s].op # "idle" =>
        /\ req[s].by \in Users /\ Role[req[s].by] = "member"
        /\ req[s].kind \in Prompts

\* What the work-start check has found stays true until it commits.
PromptsSound ==
    \A k \in job["f1"] :
        \E kind \in Prompts, u \in Subjects, d \in Days :
            k = <<kind, u, u, d>> /\ total[k] = 0

\* What the shortfall job has found is for every admin and manager.
ShortfallsSound ==
    \A k \in job["f2"] :
        \E u \in Users, r \in Users, d \in Days :
            /\ k = <<"daily_hours_shortfall", u, r, d>>
            /\ \A m \in Recipients : <<"daily_hours_shortfall", u, m, d>> \in job["f2"]

IInv ==
    /\ TypeOK /\ RequestsKnown
    /\ PromptsSound /\ PromptOnce
    /\ ShortfallsSound /\ ToldAlike

USE DEF clock, rows, history

---------------------------------------------------------------------------
(* Types. *)

LEMMA IdleType == Idle \in Request
  BY BoundAssumption DEF Idle, Request, Days

LEMMA InitType == Init => TypeOK
<1> SUFFICES ASSUME Init PROVE TypeOK
  OBVIOUS
<1>1. day \in Days /\ minute \in Minutes /\ cfg \in Settings
  BY DayAssumption, BoundAssumption DEF Init, Days, Minutes
<1>2. log \in [Users -> [Days -> Logged]]
  BY DEF Init, Logged
<1>3. total \in [Keys -> Nat] /\ unread \in [Own -> Nat]
  BY DEF Init
<1>4. job \in [Jobs -> SUBSET Keys]
  BY DEF Init
<1>5. req \in [Requests -> Request]
  BY IdleType DEF Init
<1> QED
  BY <1>1, <1>2, <1>3, <1>4, <1>5 DEF Init, TypeOK

\* The rows of a job that is read are keys.
LEMMA CheckWorkStartType == TypeOK /\ CheckWorkStart => TypeOK'
<1> SUFFICES ASSUME TypeOK, CheckWorkStart PROVE TypeOK'
  OBVIOUS
<1> DEFINE due == IF cfg.enabled /\ cfg.start # None /\ ~IsOffDay(day) /\ InWindow
                  THEN {u \in Subjects : ~AlreadyNotified(u) /\ ~HasStarted(u)}
                  ELSE {}
<1> DEFINE added == {<<PromptKind, u, u, day>> : u \in due}
<1>1. due \subseteq Users
  BY DEF Subjects
<1>2. added \in SUBSET Keys
  <2>1. PromptKind \in Kinds
    BY DEF PromptKind, Kinds, Prompts
  <2> QED
    BY <1>1, <2>1 DEF TypeOK, Keys
<1>3. job' = [job EXCEPT !["f1"] = added] /\ todo' = due
  BY DEF CheckWorkStart
<1>4. job' \in [Jobs -> SUBSET Keys] /\ todo' \subseteq Users
  <2> HIDE DEF added, due
  <2> QED
    BY <1>1, <1>2, <1>3 DEF TypeOK
<1> QED
  BY <1>4 DEF CheckWorkStart, TypeOK, Jobs

LEMMA CheckShortfallType == TypeOK /\ CheckShortfall => TypeOK'
<1> SUFFICES ASSUME TypeOK, CheckShortfall PROVE TypeOK'
  OBVIOUS
<1> DEFINE added == IF /\ MidnightJustPassed
                       /\ cfg.enabled /\ cfg.hours /\ ~IsOffDay(day - 1)
                    THEN {<<"daily_hours_shortfall", u, r, day - 1>> :
                            u \in {s \in Subjects : log[s][day - 1] # "full"},
                            r \in Recipients}
                    ELSE {}
<1>1. added \in SUBSET Keys
  <2>1. MidnightJustPassed => day - 1 \in Days
    BY BoundAssumption DEF MidnightJustPassed, TypeOK, Days
  <2> QED
    BY <2>1 DEF Keys, Kinds, Subjects, Recipients
<1>2. job' = [job EXCEPT !["f2"] = added]
  BY DEF CheckShortfall
<1>3. job' \in [Jobs -> SUBSET Keys]
  <2> HIDE DEF added
  <2> QED
    BY <1>1, <1>2 DEF TypeOK
<1> QED
  BY <1>3 DEF CheckShortfall, TypeOK, Jobs

LEMMA CommitJobType == ASSUME TypeOK, NEW j \in Jobs, CommitJob(j) PROVE TypeOK'
<1>1. total' \in [Keys -> Nat] /\ unread' \in [Own -> Nat]
  BY DEF CommitJob, TypeOK
<1>2. job' \in [Jobs -> SUBSET Keys]
  BY DEF CommitJob, TypeOK
<1> QED
  BY <1>1, <1>2 DEF CommitJob, TypeOK

LEMMA FailJobType == ASSUME TypeOK, NEW j \in Jobs, FailJob(j) PROVE TypeOK'
<1>1. job' \in [Jobs -> SUBSET Keys]
  BY DEF FailJob, TypeOK
<1> QED
  BY <1>1 DEF FailJob, TypeOK

LEMMA ReadResponseType ==
    ASSUME TypeOK, NEW s \in Requests, NEW u \in Users, NEW op \in {"not_now", "start"},
           ReadResponse(s, u, op)
    PROVE  TypeOK'
<1> DEFINE q == [op |-> op, by |-> u, kind |-> PromptKind, day |-> day,
                 seen |-> unread[<<PromptKind, u, day>>]]
<1>1. PromptKind \in Prompts
  BY DEF PromptKind, Prompts
<1>2. unread[<<PromptKind, u, day>>] \in Nat
  BY <1>1 DEF TypeOK, Own
<1>3. q \in Request
  BY <1>1, <1>2 DEF Request, TypeOK, Kinds
<1>4. req' \in [Requests -> Request]
  <2>1. req' = [req EXCEPT ![s] = q]
    BY DEF ReadResponse
  <2> HIDE DEF q
  <2> QED
    BY <1>3, <2>1 DEF TypeOK
<1> QED
  BY <1>4 DEF ReadResponse, TypeOK

LEMMA CommitResponseType ==
    ASSUME TypeOK, RequestsKnown, NEW s \in Requests, CommitResponse(s) PROVE TypeOK'
<1>1. req' \in [Requests -> Request]
  BY IdleType DEF CommitResponse, TypeOK
<1>2. total' \in [Keys -> Nat]
  BY DEF CommitResponse, TypeOK
<1>3. unread' \in [Own -> Nat]
  <2>1. req[s].seen \in Nat
    BY DEF TypeOK, Request
  <2> QED
    BY <2>1 DEF CommitResponse, TypeOK
<1>4. req[s].by \in Users
  BY DEF CommitResponse, RequestsKnown
<1>5. log' \in [Users -> [Days -> Logged]]
  <2>1. log \in [Users -> [Days -> Logged]]
    BY DEF TypeOK
  <2>2. \/ log' = log
        \/ log' = [log EXCEPT ![req[s].by][day] = IF @ = "none" THEN "zero" ELSE @]
    BY DEF CommitResponse
  <2> QED
    BY <2>1, <2>2 DEF Logged
<1>6. active' \subseteq Users
  BY <1>4 DEF CommitResponse, TypeOK
<1> QED
  BY <1>1, <1>2, <1>3, <1>5, <1>6 DEF CommitResponse, TypeOK

LEMMA UpdateTimezoneType ==
    ASSUME TypeOK, NEW d \in Days, NEW m \in Minutes, UpdateTimezone(d, m) PROVE TypeOK'
<1>1. PICK moved \in [Subjects -> [Days -> Logged]] :
          log' = [u \in Users |-> IF u \in Subjects THEN moved[u] ELSE log[u]]
  BY DEF UpdateTimezone
<1>2. log' \in [Users -> [Days -> Logged]]
  BY <1>1 DEF TypeOK
<1>3. active' \subseteq Users /\ day' \in Days /\ minute' \in Minutes
  BY DEF UpdateTimezone
<1>4. changed' \in BOOLEAN /\ done' \in BOOLEAN
  BY DEF UpdateTimezone
<1>5. /\ cfg' = cfg /\ total' = total /\ unread' = unread /\ job' = job /\ todo' = todo
      /\ up' = up /\ req' = req /\ missed' = missed
  BY DEF UpdateTimezone
<1> QED
  BY <1>2, <1>3, <1>4, <1>5 DEF TypeOK

LEMMA StepType == TypeOK /\ RequestsKnown /\ [Next]_vars => TypeOK'
<1> SUFFICES ASSUME TypeOK, RequestsKnown, [Next]_vars PROVE TypeOK'
  OBVIOUS
<1>1. CASE CheckWorkStart
  BY <1>1, CheckWorkStartType
<1>2. ASSUME NEW u \in Users, Push(u) PROVE TypeOK'
  BY <1>2 DEF Push, TypeOK
<1>3. CASE CheckShortfall
  BY <1>3, CheckShortfallType
<1>4. ASSUME NEW j \in Jobs, CommitJob(j) PROVE TypeOK'
  BY <1>4, CommitJobType
<1>5. ASSUME NEW j \in Jobs, FailJob(j) PROVE TypeOK'
  BY <1>5, FailJobType
<1>6. ASSUME NEW s \in Requests, NEW u \in Users, NEW op \in {"not_now", "start"},
             ReadResponse(s, u, op)
      PROVE  TypeOK'
  BY <1>6, ReadResponseType
<1>7. ASSUME NEW s \in Requests, CommitResponse(s) PROVE TypeOK'
  BY <1>7, CommitResponseType
<1>8. ASSUME NEW s \in Requests, RollbackResponse(s) PROVE TypeOK'
  BY <1>8, IdleType DEF RollbackResponse, TypeOK
<1>9. ASSUME NEW k \in Own, MarkRead(k) PROVE TypeOK'
  <2>1. unread' \in [Own -> Nat]
    BY <1>9 DEF MarkRead, TypeOK
  <2> QED
    BY <1>9, <2>1 DEF MarkRead, TypeOK
<1>10. ASSUME NEW new \in Settings, UpdateSettings(new) PROVE TypeOK'
  BY <1>10 DEF UpdateSettings, TypeOK
<1>11. ASSUME NEW u \in Users, NEW d \in Days, NEW what \in Logged, Log(u, d, what)
       PROVE  TypeOK'
  <2>1. log' \in [Users -> [Days -> Logged]]
    BY <1>11 DEF Log, TypeOK
  <2> QED
    BY <1>11, <2>1 DEF Log, TypeOK
<1>12. CASE Tick
  <2>1. day' \in Days /\ minute' \in Minutes
    BY <1>12, DayAssumption, BoundAssumption DEF Tick, TypeOK, Days, Minutes
  <2>2. missed' \in Nat
    <3>1. missed' = missed \/ missed' = missed + 1
      BY <1>12 DEF Tick
    <3> QED
      BY <3>1 DEF TypeOK
  <2>5. changed' \in BOOLEAN
    BY <1>12, Zenon DEF Tick, TypeOK
  <2>6. active' \subseteq Users
    BY <1>12 DEF Tick, TypeOK
  <2>3. done' \in BOOLEAN
    BY <1>12 DEF Tick
  <2>4. /\ cfg' = cfg /\ log' = log /\ total' = total /\ unread' = unread
        /\ job' = job /\ todo' = todo /\ up' = up /\ req' = req
    BY <1>12 DEF Tick
  <2> QED
    BY <2>1, <2>2, <2>3, <2>4, <2>5, <2>6 DEF TypeOK
<1>13. CASE Crash
  <2>1. job' \in [Jobs -> SUBSET Keys] /\ todo' \subseteq Users
    BY <1>13 DEF Crash
  <2>2. req' \in [Requests -> Request]
    BY <1>13, IdleType DEF Crash
  <2>3. missed' \in Nat
    <3>1. missed' = missed \/ missed' = missed + 1
      BY <1>13 DEF Crash
    <3> QED
      BY <3>1 DEF TypeOK
  <2>5. up' \in BOOLEAN
    BY <1>13 DEF Crash
  <2>4. /\ day' = day /\ minute' = minute /\ cfg' = cfg /\ log' = log
        /\ total' = total /\ unread' = unread
        /\ done' = done /\ changed' = changed /\ active' = active
    BY <1>13 DEF Crash
  <2> QED
    BY <2>1, <2>2, <2>3, <2>4, <2>5 DEF TypeOK
<1>14. CASE Restart
  BY <1>14 DEF Restart, TypeOK
<1>15. CASE UNCHANGED vars
  BY <1>15 DEF vars, TypeOK
<1>16. ASSUME NEW d \in Days, NEW m \in Minutes, UpdateTimezone(d, m) PROVE TypeOK'
  BY <1>16, UpdateTimezoneType
<1> QED
  BY <1>1, <1>2, <1>3, <1>4, <1>5, <1>6, <1>7, <1>8, <1>9, <1>10, <1>11, <1>12,
     <1>13, <1>14, <1>15, <1>16 DEF Next

---------------------------------------------------------------------------
(* Responses. *)

LEMMA StepRequests == TypeOK /\ RequestsKnown /\ [Next]_vars => RequestsKnown'
<1> SUFFICES ASSUME TypeOK, RequestsKnown, [Next]_vars,
                    NEW s \in Requests, (req[s].op # "idle")'
             PROVE  /\ (req[s].by \in Users /\ Role[req[s].by] = "member")'
                    /\ (req[s].kind \in Prompts)'
  BY DEF RequestsKnown
<1>1. ASSUME req'[s] = req[s]
      PROVE  /\ (req[s].by \in Users /\ Role[req[s].by] = "member")'
             /\ (req[s].kind \in Prompts)'
  BY <1>1 DEF RequestsKnown
<1>2. req'[s] # Idle
  BY DEF Idle
<1>3. ASSUME NEW t \in Requests, NEW u \in Users, NEW op \in {"not_now", "start"},
             ReadResponse(t, u, op)
      PROVE  /\ (req[s].by \in Users /\ Role[req[s].by] = "member")'
             /\ (req[s].kind \in Prompts)'
  <2>1. CASE s = t
    BY <1>3, <2>1 DEF ReadResponse, PromptKind, Prompts, TypeOK
  <2>2. CASE s # t
    BY <1>1, <1>3, <2>2 DEF ReadResponse, TypeOK
  <2> QED
    BY <2>1, <2>2
<1>4. ASSUME NEW t \in Requests, CommitResponse(t) \/ RollbackResponse(t)
      PROVE  req'[s] = req[s]
  BY <1>2, <1>4 DEF CommitResponse, RollbackResponse, TypeOK
<1>5. ~Crash
  BY <1>2 DEF Crash
<1>6. CASE UNCHANGED req
  BY <1>1, <1>6
<1>7. ASSUME NEW u \in Users, Push(u) PROVE UNCHANGED req
  BY <1>7 DEF Push
<1>8. ASSUME NEW j \in Jobs, CommitJob(j) \/ FailJob(j) PROVE UNCHANGED req
  BY <1>8 DEF CommitJob, FailJob
<1>9. ASSUME NEW k \in Own, MarkRead(k) PROVE UNCHANGED req
  BY <1>9 DEF MarkRead
<1>10. ASSUME NEW new \in Settings, UpdateSettings(new) PROVE UNCHANGED req
  BY <1>10 DEF UpdateSettings
<1>11. ASSUME NEW u \in Users, NEW d \in Days, NEW what \in Logged, Log(u, d, what)
       PROVE  UNCHANGED req
  BY <1>11 DEF Log
<1>12. CheckWorkStart \/ CheckShortfall \/ Tick \/ Restart \/ UNCHANGED vars => UNCHANGED req
  BY DEF CheckWorkStart, CheckShortfall, Tick, Restart, vars
<1>13. ASSUME NEW d \in Days, NEW m \in Minutes, UpdateTimezone(d, m) PROVE UNCHANGED req
  BY <1>13 DEF UpdateTimezone
<1> QED
  BY <1>1, <1>3, <1>4, <1>5, <1>6, <1>7, <1>8, <1>9, <1>10, <1>11, <1>12, <1>13 DEF Next

---------------------------------------------------------------------------
(* Prompts. *)

\* Neither the rows of the shortfall job nor those of a response are prompts
\* to the member they are about.
LEMMA OthersRows ==
    ASSUME TypeOK, RequestsKnown, ShortfallsSound,
           \/ CommitJob("f2")
           \/ \E s \in Requests : CommitResponse(s),
           NEW kind \in Prompts, NEW u \in Users, NEW d \in Days
    PROVE  total'[<<kind, u, u, d>>] = total[<<kind, u, u, d>>]
<1>1. <<kind, u, u, d>> \in Keys
  BY DEF Keys, Kinds
<1>2. CASE CommitJob("f2")
  <2>1. <<kind, u, u, d>> \notin job["f2"]
    BY DEF ShortfallsSound, Prompts
  <2> QED
    BY <1>1, <1>2, <2>1 DEF CommitJob
<1>3. ASSUME NEW s \in Requests, CommitResponse(s)
      PROVE  total'[<<kind, u, u, d>>] = total[<<kind, u, u, d>>]
  <2>1. Role[req[s].by] = "member"
    BY <1>3 DEF CommitResponse, RequestsKnown
  <2>2. req[s].by \notin Recipients
    BY <2>1 DEF Recipients
  <2> DEFINE noted == IF req[s].seen > 0 THEN {}
                      ELSE {<<req[s].kind, req[s].by, m, req[s].day>> : m \in Recipients}
  <2>3. <<kind, u, u, d>> \notin noted
    BY <2>2
  <2>4. total' = [k \in Keys |-> IF k \in noted THEN total[k] + 1 ELSE total[k]]
    BY <1>3 DEF CommitResponse
  <2> QED
    BY <1>1, <2>3, <2>4
<1> QED
  BY <1>2, <1>3

\* Steps that leave the prompts in the database alone.
LEMMA PromptsStay ==
    ASSUME PromptOnce,
           \A kind \in Prompts, u \in Users, d \in Days :
               total'[<<kind, u, u, d>>] = total[<<kind, u, u, d>>]
    PROVE  PromptOnce'
  BY DEF PromptOnce

\* Steps that leave the job alone too.
LEMMA PromptJobStays ==
    ASSUME PromptsSound, job'["f1"] = job["f1"],
           \A kind \in Prompts, u \in Users, d \in Days :
               total'[<<kind, u, u, d>>] = total[<<kind, u, u, d>>]
    PROVE  PromptsSound'
<1> SUFFICES ASSUME NEW k \in job'["f1"]
             PROVE  \E kind \in Prompts, u \in Subjects, d \in Days :
                        k = <<kind, u, u, d>> /\ total'[k] = 0
  BY DEF PromptsSound
<1>1. PICK kind \in Prompts, u \in Subjects, d \in Days :
          k = <<kind, u, u, d>> /\ total[k] = 0
  BY DEF PromptsSound
<1>2. total'[k] = 0
  BY <1>1 DEF Subjects
<1> QED
  BY <1>1, <1>2

LEMMA CheckWorkStartPrompts == TypeOK /\ CheckWorkStart => PromptsSound'
<1> SUFFICES ASSUME TypeOK, CheckWorkStart, NEW k \in job'["f1"]
             PROVE  \E kind \in Prompts, u \in Subjects, d \in Days :
                        k = <<kind, u, u, d>> /\ total'[k] = 0
  BY DEF PromptsSound
<1> DEFINE due == IF cfg.enabled /\ cfg.start # None /\ ~IsOffDay(day) /\ InWindow
                  THEN {u \in Subjects : ~AlreadyNotified(u) /\ ~HasStarted(u)}
                  ELSE {}
<1>1. PICK u \in due : k = <<PromptKind, u, u, day>>
  BY DEF CheckWorkStart, TypeOK, Jobs
<1>2. u \in Subjects /\ u \in Users /\ ~AlreadyNotified(u)
  BY <1>1 DEF Subjects
<1>3. PromptKind \in Prompts /\ day \in Days
  BY DEF PromptKind, Prompts, TypeOK
<1>4. total[k] \in Nat
  BY <1>1, <1>2, <1>3 DEF TypeOK, Keys, Kinds
<1>5. total[k] = 0
  BY <1>1, <1>2, <1>4 DEF AlreadyNotified
<1>6. total' = total
  BY DEF CheckWorkStart
<1> QED
  BY <1>1, <1>2, <1>3, <1>5, <1>6

LEMMA CommitPrompts ==
    ASSUME TypeOK, PromptsSound, PromptOnce, CommitJob("f1")
    PROVE  PromptsSound' /\ PromptOnce'
<1>1. job'["f1"] = {}
  BY DEF CommitJob, TypeOK, Jobs
<1>2. ASSUME NEW kind \in Prompts, NEW u \in Users, NEW d \in Days
      PROVE  total'[<<kind, u, u, d>>] <= 1
  <2>1. <<kind, u, u, d>> \in Keys
    BY DEF Keys, Kinds
  <2>2. CASE <<kind, u, u, d>> \in job["f1"]
    <3>1. total[<<kind, u, u, d>>] = 0
      BY <2>2 DEF PromptsSound
    <3> QED
      BY <2>1, <2>2, <3>1 DEF CommitJob
  <2>3. CASE <<kind, u, u, d>> \notin job["f1"]
    <3>1. total'[<<kind, u, u, d>>] = total[<<kind, u, u, d>>]
      BY <2>1, <2>3 DEF CommitJob
    <3> QED
      BY <3>1 DEF PromptOnce
  <2> QED
    BY <2>2, <2>3
<1> QED
  BY <1>1, <1>2 DEF PromptsSound, PromptOnce

LEMMA StepPrompts == IInv /\ [Next]_vars => PromptsSound' /\ PromptOnce'
<1> SUFFICES ASSUME IInv, [Next]_vars PROVE PromptsSound' /\ PromptOnce'
  OBVIOUS
<1> USE DEF IInv
<1> DEFINE same == \A kind \in Prompts, u \in Users, d \in Days :
                       total'[<<kind, u, u, d>>] = total[<<kind, u, u, d>>]
<1>1. CASE CheckWorkStart
  <2>1. total' = total
    BY <1>1 DEF CheckWorkStart
  <2> QED
    BY <1>1, <2>1, CheckWorkStartPrompts, PromptsStay
<1>2. CASE CommitJob("f1")
  BY <1>2, CommitPrompts
<1>3. CASE CommitJob("f2") \/ \E s \in Requests : CommitResponse(s)
  <2>1. same
    BY <1>3, OthersRows
  <2>2. job'["f1"] = job["f1"]
    BY <1>3 DEF CommitJob, CommitResponse, TypeOK, Jobs
  <2> QED
    BY <2>1, <2>2, PromptsStay, PromptJobStays
<1>4. CASE FailJob("f1") \/ Crash
  <2>1. job'["f1"] = {} /\ total' = total
    BY <1>4 DEF FailJob, Crash, TypeOK, Jobs
  <2>2. PromptsSound'
    BY <2>1 DEF PromptsSound
  <2> QED
    BY <2>1, <2>2, PromptsStay
<1>5. CASE UNCHANGED total /\ job'["f1"] = job["f1"]
  BY <1>5, PromptsStay, PromptJobStays
<1>6. CheckShortfall \/ FailJob("f2") => UNCHANGED total /\ job'["f1"] = job["f1"]
  BY DEF CheckShortfall, FailJob, TypeOK, Jobs
<1>7. ASSUME NEW u \in Users, Push(u) PROVE UNCHANGED <<total, job>>
  BY <1>7 DEF Push
<1>8. ASSUME NEW s \in Requests,
             \/ \E u \in Users, op \in {"not_now", "start"} : ReadResponse(s, u, op)
             \/ RollbackResponse(s)
      PROVE  UNCHANGED <<total, job>>
  BY <1>8 DEF ReadResponse, RollbackResponse
<1>9. ASSUME NEW k \in Own, MarkRead(k) PROVE UNCHANGED <<total, job>>
  BY <1>9 DEF MarkRead
<1>10. ASSUME NEW new \in Settings, UpdateSettings(new) PROVE UNCHANGED <<total, job>>
  BY <1>10 DEF UpdateSettings
<1>11. ASSUME NEW u \in Users, NEW d \in Days, NEW what \in Logged, Log(u, d, what)
       PROVE  UNCHANGED <<total, job>>
  BY <1>11 DEF Log
<1>12. ASSUME NEW d \in Days, NEW m \in Minutes, UpdateTimezone(d, m)
       PROVE  UNCHANGED <<total, job>>
  BY <1>12 DEF UpdateTimezone
<1>13. Tick \/ Restart \/ UNCHANGED vars => UNCHANGED <<total, job>>
  BY DEF Tick, Restart, vars
<1> QED
  BY <1>1, <1>2, <1>3, <1>4, <1>5, <1>6, <1>7, <1>8, <1>9, <1>10, <1>11, <1>12, <1>13
  DEF Next, Jobs

---------------------------------------------------------------------------
(* What the admins and managers are told. *)

\* Steps that add as many rows of a key for each of them.
LEMMA AlikeStays ==
    ASSUME TypeOK, ToldAlike,
           NEW kind \in Kinds, NEW u \in Users, NEW d \in Days,
           NEW r1 \in Recipients, NEW r2 \in Recipients, NEW added,
           <<kind, u, r1, d>> \in added <=> <<kind, u, r2, d>> \in added,
           total' = [k \in Keys |-> IF k \in added THEN total[k] + 1 ELSE total[k]]
    PROVE  total'[<<kind, u, r1, d>>] = total'[<<kind, u, r2, d>>]
<1>1. <<kind, u, r1, d>> \in Keys /\ <<kind, u, r2, d>> \in Keys
  BY DEF Keys, Recipients
<1>2. total[<<kind, u, r1, d>>] = total[<<kind, u, r2, d>>]
  BY DEF ToldAlike
<1> QED
  BY <1>1, <1>2

\* The job of the prompts has rows for the members themselves only, the other one
\* for every admin and manager.
LEMMA CommitAlike == ASSUME IInv, NEW j \in Jobs, CommitJob(j) PROVE ToldAlike'
<1> USE DEF IInv
<1> SUFFICES ASSUME NEW kind \in Kinds, NEW u \in Users, NEW d \in Days,
                    NEW r1 \in Recipients, NEW r2 \in Recipients
             PROVE  total'[<<kind, u, r1, d>>] = total'[<<kind, u, r2, d>>]
  BY DEF ToldAlike
<1>1. total' = [k \in Keys |-> IF k \in job[j] THEN total[k] + 1 ELSE total[k]]
  BY DEF CommitJob
<1>2. CASE j = "f1"
  <2>1. ASSUME NEW r \in Recipients PROVE <<kind, u, r, d>> \notin job["f1"]
    BY DEF PromptsSound, Subjects
  <2> QED
    BY <1>1, <1>2, <2>1, AlikeStays
<1>3. CASE j = "f2"
  <2>1. ASSUME NEW r \in Recipients, NEW m \in Recipients, <<kind, u, r, d>> \in job["f2"]
        PROVE  <<kind, u, m, d>> \in job["f2"]
    BY <2>1 DEF ShortfallsSound
  <2> QED
    BY <1>1, <1>3, <2>1, AlikeStays
<1> QED
  BY <1>2, <1>3 DEF Jobs

\* A response that finds no prompt notes it for every admin and manager.
LEMMA RespondAlike == ASSUME IInv, NEW s \in Requests, CommitResponse(s) PROVE ToldAlike'
<1> USE DEF IInv
<1> SUFFICES ASSUME NEW kind \in Kinds, NEW u \in Users, NEW d \in Days,
                    NEW r1 \in Recipients, NEW r2 \in Recipients
             PROVE  total'[<<kind, u, r1, d>>] = total'[<<kind, u, r2, d>>]
  BY DEF ToldAlike
<1> DEFINE noted == IF req[s].seen > 0 THEN {}
                    ELSE {<<req[s].kind, req[s].by, m, req[s].day>> : m \in Recipients}
<1>1. total' = [k \in Keys |-> IF k \in noted THEN total[k] + 1 ELSE total[k]]
  BY DEF CommitResponse
<1>2. <<kind, u, r1, d>> \in noted <=> <<kind, u, r2, d>> \in noted
  OBVIOUS
<1> HIDE DEF noted
<1> QED
  BY <1>1, <1>2, AlikeStays

LEMMA CheckAlike == TypeOK /\ CheckShortfall => ShortfallsSound'
<1> SUFFICES ASSUME TypeOK, CheckShortfall, NEW k \in job'["f2"]
             PROVE  \E u \in Users, r \in Users, d \in Days :
                        /\ k = <<"daily_hours_shortfall", u, r, d>>
                        /\ \A m \in Recipients :
                               <<"daily_hours_shortfall", u, m, d>> \in job'["f2"]
  BY DEF ShortfallsSound
<1> DEFINE short == {s \in Subjects : log[s][day - 1] # "full"}
<1> DEFINE added == {<<"daily_hours_shortfall", u, r, day - 1>> : u \in short, r \in Recipients}
<1>1. MidnightJustPassed /\ job'["f2"] = added
  BY DEF CheckShortfall, TypeOK, Jobs
<1>2. PICK u \in short, r \in Recipients : k = <<"daily_hours_shortfall", u, r, day - 1>>
  BY <1>1
<1>3. u \in Users /\ r \in Users /\ day - 1 \in Days
  BY <1>1, BoundAssumption DEF MidnightJustPassed, TypeOK, Days, Subjects, Recipients
<1>4. \A m \in Recipients : <<"daily_hours_shortfall", u, m, day - 1>> \in job'["f2"]
  BY <1>1
<1> QED
  BY <1>2, <1>3, <1>4

LEMMA StepAlike == IInv /\ [Next]_vars => ShortfallsSound' /\ ToldAlike'
<1> SUFFICES ASSUME IInv, [Next]_vars PROVE ShortfallsSound' /\ ToldAlike'
  OBVIOUS
<1> USE DEF IInv
<1>1. CASE CheckShortfall
  <2>1. total' = total
    BY <1>1 DEF CheckShortfall
  <2> QED
    BY <1>1, <2>1, CheckAlike DEF ToldAlike
<1>2. ASSUME NEW j \in Jobs, CommitJob(j) PROVE ShortfallsSound' /\ ToldAlike'
  <2>1. job'["f2"] = job["f2"] \/ job'["f2"] = {}
    BY <1>2 DEF CommitJob, TypeOK, Jobs
  <2> QED
    BY <1>2, <2>1, CommitAlike DEF ShortfallsSound
<1>3. ASSUME NEW s \in Requests, CommitResponse(s) PROVE ShortfallsSound' /\ ToldAlike'
  <2>1. job' = job
    BY <1>3 DEF CommitResponse
  <2> QED
    BY <1>3, <2>1, RespondAlike DEF ShortfallsSound
<1>4. CASE UNCHANGED total /\ job'["f2"] \in {job["f2"], {}}
  BY <1>4 DEF ShortfallsSound, ToldAlike
<1>5. CASE UNCHANGED <<total, job>>
  BY <1>4, <1>5
<1>6. CASE CheckWorkStart \/ FailJob("f1") \/ FailJob("f2") \/ Crash
  <2>1. UNCHANGED total /\ job'["f2"] \in {job["f2"], {}}
    BY <1>6 DEF CheckWorkStart, FailJob, Crash, TypeOK, Jobs
  <2> QED
    BY <1>4, <2>1
<1>7. ASSUME NEW u \in Users, Push(u) PROVE UNCHANGED <<total, job>>
  BY <1>7 DEF Push
<1>8. ASSUME NEW s \in Requests,
             \/ \E u \in Users, op \in {"not_now", "start"} : ReadResponse(s, u, op)
             \/ RollbackResponse(s)
      PROVE  UNCHANGED <<total, job>>
  BY <1>8 DEF ReadResponse, RollbackResponse
<1>9. ASSUME NEW k \in Own, MarkRead(k) PROVE UNCHANGED <<total, job>>
  BY <1>9 DEF MarkRead
<1>10. ASSUME NEW new \in Settings, UpdateSettings(new) PROVE UNCHANGED <<total, job>>
  BY <1>10 DEF UpdateSettings
<1>11. ASSUME NEW u \in Users, NEW d \in Days, NEW what \in Logged, Log(u, d, what)
       PROVE  UNCHANGED <<total, job>>
  BY <1>11 DEF Log
<1>12. ASSUME NEW d \in Days, NEW m \in Minutes, UpdateTimezone(d, m)
       PROVE  UNCHANGED <<total, job>>
  BY <1>12 DEF UpdateTimezone
<1>13. Tick \/ Restart \/ UNCHANGED vars => UNCHANGED <<total, job>>
  BY DEF Tick, Restart, vars
<1> QED
  BY <1>1, <1>2, <1>3, <1>5, <1>6, <1>7, <1>8, <1>9, <1>10, <1>11, <1>12, <1>13
  DEF Next, Jobs

---------------------------------------------------------------------------
(* Lost minutes. *)

\* Who has an entry of today was noted in active.
LogsSound == \A u \in Users \ active : log[u][day] = "none"

\* The settings ask for a check today, and have done so all day.
Steady == cfg.enabled /\ cfg.start # None /\ ~changed /\ ~IsOffDay(day)

\* A member whom the job should have prompted by now.
Due(u) == Steady /\ Role[u] = "member" /\ u \notin active /\ ~AlreadyNotified(u)
Awaits(u) == <<PromptKind, u, u, day>> \in job["f1"]
Pending(u) == IF Awaits(u) THEN 1 ELSE 0

\* The minutes of the window that have passed, and this one if it was checked.
Past == IF minute <= cfg.start THEN 0
        ELSE IF minute <= cfg.start + Window THEN minute - cfg.start ELSE Window + 1
Checked == IF done /\ minute >= cfg.start /\ minute <= cfg.start + Window THEN 1 ELSE 0

\* Each of them was lost for a member who is still due, but for the one whose
\* check the job has not committed yet.
MissesCounted ==
    \A u \in Users : Due(u) => missed + Pending(u) >= Past + Checked

CInv == LogsSound /\ MissesCounted

\* A start that is set is a minute of the day.
LEMMA StartIsMinute == TypeOK /\ cfg.start # None => cfg.start \in Minutes
  BY SettingsAssumption DEF TypeOK, Minutes

\* Whether a member is due depends on the rows, which only grow, and on what
\* does not change within a day.
LEMMA DueStays ==
    ASSUME UNCHANGED <<day, cfg, changed>>, active \subseteq active',
           \A k \in Keys : total[k] \in Nat /\ total'[k] \in Nat /\ total[k] <= total'[k],
           TypeOK, NEW u \in Users, Due(u)'
    PROVE  Due(u)
<1>1. Steady
  BY DEF Due, Steady, IsOffDay
<1>2. PromptKind \in Kinds /\ PromptKind' = PromptKind
  BY DEF PromptKind, Kinds, Prompts
<1>3. ~AlreadyNotified(u)
  <2>1. ASSUME NEW v \in Users PROVE ~(total[<<PromptKind, u, v, day>>] > 0)
    <3>1. <<PromptKind, u, v, day>> \in Keys
      BY <1>2 DEF Keys, TypeOK
    <3>2. ~(total'[<<PromptKind, u, v, day>>] > 0)
      BY <1>2 DEF Due, AlreadyNotified
    <3> QED
      BY <3>1, <3>2
  <2> QED
    BY <2>1 DEF AlreadyNotified
<1> QED
  BY <1>1, <1>3 DEF Due

\* A step within a minute that makes no check: a row that the job gives up is
\* committed, or counts as a lost minute.
LEMMA MissesStay ==
    ASSUME TypeOK, MissesCounted, UNCHANGED <<day, minute, cfg, done>>,
           changed' = changed \/ changed', active \subseteq active',
           \A k \in Keys : total[k] \in Nat /\ total'[k] \in Nat /\ total[k] <= total'[k],
           missed' \in {missed, missed + 1},
           \A u \in Users : Awaits(u) => Awaits(u)' \/ AlreadyNotified(u)' \/ missed' = missed + 1
    PROVE  MissesCounted'
<1> SUFFICES ASSUME NEW u \in Users, Due(u)'
             PROVE  missed' + Pending(u)' >= Past' + Checked'
  BY DEF MissesCounted
<1>1. ~changed' /\ ~AlreadyNotified(u)' /\ changed' = changed
  BY DEF Due, Steady
<1>2. Due(u)
  BY <1>1, DueStays
<1>3. cfg.start \in Nat /\ Window \in Nat /\ minute \in Nat /\ missed \in Nat
  BY <1>2, StartIsMinute, DayAssumption DEF Due, Steady, Minutes, TypeOK
<1>4. missed + Pending(u) >= Past + Checked
  BY <1>2 DEF MissesCounted
<1>5. Past' = Past /\ Checked' = Checked
  BY DEF Past, Checked
<1>6. Past + Checked \in Nat
  BY <1>3 DEF Past, Checked
<1>7. Awaits(u) => Awaits(u)' \/ missed' = missed + 1
  BY <1>1
<1>8. Pending(u) <= 1 /\ Pending(u) \in Nat /\ Pending(u)' \in Nat
  BY DEF Pending
<1>9. missed' + Pending(u)' >= missed + Pending(u)
  <2>1. CASE missed' = missed + 1
    BY <1>3, <1>8, <2>1
  <2>2. CASE missed' # missed + 1
    <3>1. Pending(u)' >= Pending(u)
      BY <1>7, <2>2 DEF Pending
    <3> QED
      BY <1>3, <1>8, <2>2, <3>1
  <2> QED
    BY <2>1, <2>2
<1>10. missed' \in Nat
  BY <1>3
<1> QED
  BY <1>3, <1>4, <1>5, <1>6, <1>8, <1>9, <1>10

\* Minutes lost (m), pending (p), past (n) and checked (c) before a step, and lost (q)
\* and past (k) after it: what the bounds of a step give for the minutes together.
LEMMA Balance ==
    ASSUME NEW m \in Nat, NEW p \in Nat, NEW n \in Nat, NEW c \in Nat,
           NEW q \in Nat, NEW k \in Nat
    PROVE  /\ m + p >= n + c /\ q + c + n >= k + m => q + p >= k
           /\ m >= n /\ c <= p => m + p >= n + c
  OBVIOUS

\* A check finds every member who is due in the window.
LEMMA CheckCounts == TypeOK /\ CInv /\ CheckWorkStart => MissesCounted'
<1> SUFFICES ASSUME TypeOK, CInv, CheckWorkStart, NEW u \in Users, Due(u)'
             PROVE  missed' + Pending(u)' >= Past' + Checked'
  BY DEF MissesCounted
<1>1. /\ UNCHANGED <<day, minute, cfg, changed, active, total, log, missed>>
      /\ job["f1"] = {}
  BY DEF CheckWorkStart
<1>2. \A k \in Keys : total[k] \in Nat
  BY DEF TypeOK
<1>3. Due(u)
  BY <1>1, <1>2, DueStays
<1>4. cfg.start \in Nat /\ Window \in Nat /\ minute \in Nat /\ missed \in Nat
      /\ cfg.start # None
  BY <1>3, StartIsMinute, DayAssumption DEF Due, Steady, Minutes, TypeOK
<1>5. missed >= Past /\ Past \in Nat
  <2>1. missed + Pending(u) >= Past + Checked
    BY <1>3 DEF CInv, MissesCounted
  <2>2. Pending(u) = 0
    BY <1>1 DEF Pending, Awaits
  <2>3. Checked \in Nat
    BY DEF Checked
  <2>4. Past \in Nat
    BY <1>4 DEF Past
  <2> QED
    BY <1>4, <2>1, <2>2, <2>3, <2>4
<1>6. ASSUME minute >= cfg.start, minute <= cfg.start + Window PROVE Awaits(u)'
  <2>1. InWindow
    BY <1>4, <1>6 DEF InWindow, Late
  <2>2. log[u][day] = "none"
    BY <1>3 DEF CInv, LogsSound, Due
  <2>3. ~HasStarted(u) /\ u \in Subjects
    BY <1>3, <2>2 DEF HasStarted, Due, Subjects, Recipients
  <2>4. job'["f1"] = {<<PromptKind, v, v, day>> :
                        v \in {s \in Subjects : ~AlreadyNotified(s) /\ ~HasStarted(s)}}
    BY <1>3, <1>4, <2>1 DEF CheckWorkStart, Due, Steady, TypeOK, Jobs
  <2>5. <<PromptKind, u, u, day>> \in job'["f1"]
    BY <1>3, <2>3, <2>4 DEF Due
  <2> QED
    BY <1>1, <2>5 DEF Awaits, PromptKind
<1>7. Past' = Past
  BY <1>1 DEF Past
<1>8. CASE minute >= cfg.start /\ minute <= cfg.start + Window
  <2>1. Pending(u)' = 1
    BY <1>6, <1>8 DEF Pending
  <2>2. Checked' <= 1 /\ Checked' \in Nat
    BY DEF Checked
  <2> QED
    BY <1>1, <1>4, <1>5, <1>7, <2>1, <2>2, Balance
<1>9. CASE ~(minute >= cfg.start /\ minute <= cfg.start + Window)
  <2>1. Checked' = 0
    BY <1>1, <1>9 DEF Checked
  <2>2. Pending(u)' \in Nat
    BY DEF Pending
  <2> QED
    BY <1>1, <1>4, <1>5, <1>7, <2>1, <2>2
<1> QED
  BY <1>8, <1>9

\* A minute that passes was checked or is counted as lost, and a day begins with
\* none to count.
LEMMA TickCounts == TypeOK /\ CInv /\ Tick => MissesCounted'
<1> SUFFICES ASSUME TypeOK, CInv, Tick, NEW u \in Users, Due(u)'
             PROVE  missed' + Pending(u)' >= Past' + Checked'
  BY DEF MissesCounted
<1>1. /\ UNCHANGED <<cfg, total, job>> /\ done' = FALSE
      /\ missed' = IF done THEN missed ELSE missed + 1
  BY DEF Tick
<1>2. cfg.start \in Nat /\ Window \in Nat /\ minute \in Nat /\ missed \in Nat
  <2>1. cfg.start # None
    BY <1>1 DEF Due, Steady
  <2> QED
    BY <2>1, StartIsMinute, DayAssumption DEF Minutes, TypeOK
<1>3. Checked' = 0
  BY <1>1 DEF Checked
<1>4. CASE minute < MinutesPerDay - 1
  <2>1. minute' = minute + 1 /\ UNCHANGED <<day, changed, active>>
    BY <1>4 DEF Tick
  <2>2. Due(u)
    BY <1>1, <2>1, DueStays DEF TypeOK
  <2>3. missed + Pending(u) >= Past + Checked
    BY <2>2 DEF CInv, MissesCounted
  <2>4. Awaits(u)' <=> Awaits(u)
    BY <1>1, <2>1 DEF Awaits, PromptKind
  <2>5. missed' + Checked + Past >= Past' + missed
    BY <1>1, <1>2, <2>1 DEF Past, Checked
  <2>6. Past \in Nat /\ Past' \in Nat /\ Checked \in Nat /\ missed' \in Nat
    BY <1>1, <1>2, <2>1 DEF Past, Checked
  <2>7. Pending(u)' = Pending(u) /\ Pending(u) \in Nat
    BY <2>4 DEF Pending
  <2>8. missed' + Pending(u) >= Past'
    BY <1>2, <2>3, <2>5, <2>6, <2>7, Balance
  <2> QED
    BY <1>3, <2>6, <2>7, <2>8
<1>5. CASE ~(minute < MinutesPerDay - 1)
  <2>1. minute' = 0
    BY <1>5 DEF Tick
  <2>2. Past' = 0
    BY <1>1, <1>2, <2>1 DEF Past
  <2>3. Pending(u)' \in Nat /\ missed' \in Nat
    BY <1>1, <1>2 DEF Pending
  <2> QED
    BY <1>3, <2>2, <2>3
<1> QED
  BY <1>4, <1>5

\* What a commit of the job stores, and what it has added, does not get lost.
LEMMA CommitCounts ==
    ASSUME TypeOK, MissesCounted, NEW j \in Jobs, CommitJob(j)
    PROVE  MissesCounted'
<1>1. \A k \in Keys : total[k] \in Nat /\ total'[k] \in Nat /\ total[k] <= total'[k]
  BY DEF CommitJob, TypeOK
<1>2. UNCHANGED <<day, minute, cfg, done, changed, active, missed>>
  BY DEF CommitJob
<1>3. ASSUME NEW u \in Users, Awaits(u) PROVE Awaits(u)' \/ AlreadyNotified(u)'
  <2>1. PromptKind' = PromptKind
    BY <1>2 DEF PromptKind
  <2>2. CASE j = "f1"
    <3>1. <<PromptKind, u, u, day>> \in Keys
      BY <1>3 DEF Awaits, TypeOK, Jobs
    <3>2. total'[<<PromptKind, u, u, day>>] = total[<<PromptKind, u, u, day>>] + 1
      BY <1>3, <2>2, <3>1 DEF CommitJob, Awaits
    <3>3. total'[<<PromptKind, u, u, day>>] > 0
      BY <1>1, <3>1, <3>2
    <3> QED
      BY <1>2, <2>1, <3>3 DEF AlreadyNotified
  <2>3. CASE j # "f1"
    <3>1. job'["f1"] = job["f1"]
      BY <2>3 DEF CommitJob, TypeOK, Jobs
    <3> QED
      BY <1>2, <1>3, <2>1, <3>1 DEF Awaits
  <2> QED
    BY <2>2, <2>3
<1> QED
  BY <1>1, <1>2, <1>3, MissesStay

\* Steps that leave the job and the clock alone.
LEMMA OtherCounts ==
    ASSUME TypeOK, MissesCounted, UNCHANGED <<day, minute, done, missed>>,
           job'["f1"] = job["f1"], (UNCHANGED <<cfg, changed>>) \/ changed', active \subseteq active',
           \A k \in Keys : total'[k] \in Nat /\ total[k] <= total'[k]
    PROVE  MissesCounted'
<1>1. CASE changed'
  BY <1>1 DEF MissesCounted, Due, Steady
<1>2. CASE UNCHANGED <<cfg, changed>>
  <2>1. \A u \in Users : Awaits(u) => Awaits(u)'
    BY <1>2 DEF Awaits, PromptKind
  <2>2. \A k \in Keys : total[k] \in Nat
    BY DEF TypeOK
  <2> QED
    BY <1>2, <2>1, <2>2, MissesStay
<1> QED
  BY <1>1, <1>2

\* A job that fails, or that a crash stops, counts as a lost minute.
LEMMA LostCounts ==
    ASSUME TypeOK, MissesCounted, FailJob("f1") \/ FailJob("f2") \/ Crash
    PROVE  MissesCounted'
<1>1. UNCHANGED <<day, minute, cfg, done, changed, active, total>>
  BY DEF FailJob, Crash
<1>2. \A k \in Keys : total[k] \in Nat
  BY DEF TypeOK
<1>3. missed \in Nat
  BY DEF TypeOK
<1>4. missed' \in {missed, missed + 1}
  BY DEF FailJob, Crash
<1>5. job["f1"] = {} \/ job'["f1"] = job["f1"] \/ missed' = missed + 1
  BY DEF FailJob, Crash, TypeOK, Jobs
<1>6. \A u \in Users : Awaits(u) => Awaits(u)' \/ missed' = missed + 1
  BY <1>1, <1>5 DEF Awaits, PromptKind
<1> QED
  BY <1>1, <1>2, <1>4, <1>6, MissesStay

\* Entries of today are noted in active, also when another day becomes today.
LEMMA StepLogs == TypeOK /\ RequestsKnown /\ LogsSound /\ [Next]_vars => LogsSound'
<1> SUFFICES ASSUME TypeOK, RequestsKnown, LogsSound, [Next]_vars PROVE LogsSound'
  OBVIOUS
<1>1. CASE UNCHANGED <<log, day, active>>
  BY <1>1 DEF LogsSound
<1>2. ASSUME NEW s \in Requests, CommitResponse(s) PROVE LogsSound'
  <2>1. req[s].by \in Users /\ day \in Days
    BY <1>2 DEF CommitResponse, RequestsKnown, TypeOK
  <2>2. CASE req[s].op = "start"
    <3>1. /\ log' = [log EXCEPT ![req[s].by][day] = IF @ = "none" THEN "zero" ELSE @]
          /\ active' = active \cup {req[s].by} /\ day' = day
      BY <1>2, <2>2 DEF CommitResponse
    <3> QED
      BY <2>1, <3>1 DEF LogsSound, TypeOK, Days
  <2>3. CASE req[s].op # "start"
    BY <1>1, <1>2, <2>3 DEF CommitResponse
  <2> QED
    BY <2>2, <2>3
<1>3. ASSUME NEW u \in Users, NEW d \in Days, NEW what \in Logged, Log(u, d, what)
      PROVE  LogsSound'
  <2>1. /\ log' = [log EXCEPT ![u][d] = what] /\ day' = day /\ (d = day \/ d = day - 1)
        /\ active' = IF d = day /\ what # "none" THEN active \cup {u} ELSE active
    BY <1>3 DEF Log
  <2> QED
    BY <2>1 DEF LogsSound, TypeOK, Days
<1>4. CASE Tick
  <2>1. CASE minute < MinutesPerDay - 1
    BY <1>1, <1>4, <2>1 DEF Tick
  <2>2. CASE ~(minute < MinutesPerDay - 1)
    BY <1>4, <2>2 DEF Tick, LogsSound
  <2> QED
    BY <2>1, <2>2
<1>5. CASE CheckWorkStart \/ CheckShortfall \/ Crash \/ Restart \/ UNCHANGED vars
  BY <1>1, <1>5 DEF CheckWorkStart, CheckShortfall, Crash, Restart, vars
<1>6. ASSUME NEW u \in Users, Push(u) PROVE LogsSound'
  BY <1>1, <1>6 DEF Push
<1>7. ASSUME NEW j \in Jobs, CommitJob(j) \/ FailJob(j) PROVE LogsSound'
  BY <1>1, <1>7 DEF CommitJob, FailJob
<1>8. ASSUME NEW s \in Requests,
             \/ \E u \in Users, op \in {"not_now", "start"} : ReadResponse(s, u, op)
             \/ RollbackResponse(s)
      PROVE  LogsSound'
  BY <1>1, <1>8 DEF ReadResponse, RollbackResponse
<1>9. ASSUME NEW k \in Own, MarkRead(k) PROVE LogsSound'
  BY <1>1, <1>9 DEF MarkRead
<1>10. ASSUME NEW new \in Settings, UpdateSettings(new) PROVE LogsSound'
  BY <1>1, <1>10 DEF UpdateSettings
<1>11. ASSUME NEW d \in Days, NEW m \in Minutes, UpdateTimezone(d, m) PROVE LogsSound'
  BY <1>11 DEF UpdateTimezone, LogsSound
<1> QED
  BY <1>2, <1>3, <1>4, <1>5, <1>6, <1>7, <1>8, <1>9, <1>10, <1>11 DEF Next

\* Every step counts the minutes it loses.
LEMMA StepMisses == TypeOK /\ RequestsKnown /\ CInv /\ [Next]_vars => CInv'
<1> SUFFICES ASSUME TypeOK, RequestsKnown, CInv, [Next]_vars PROVE CInv'
  OBVIOUS
<1>1. LogsSound'
  BY StepLogs DEF CInv
<1>2. \A k \in Keys : total[k] \in Nat
  BY DEF TypeOK
<1> USE DEF CInv
<1>3. CASE CheckWorkStart
  BY <1>1, <1>3, CheckCounts
<1>4. CASE Tick
  BY <1>1, <1>4, TickCounts
<1>5. ASSUME NEW j \in Jobs, CommitJob(j) PROVE CInv'
  BY <1>1, <1>5, CommitCounts
<1>6. ASSUME NEW j \in Jobs, FailJob(j) PROVE CInv'
  <2>1. FailJob("f1") \/ FailJob("f2")
    BY <1>6 DEF Jobs
  <2> QED
    BY <1>1, <2>1, LostCounts
<1>7. CASE Crash
  BY <1>1, <1>7, LostCounts
<1>8. CASE Restart
  BY <1>1, <1>2, <1>8, OtherCounts DEF Restart
<1>9. CASE CheckShortfall
  <2>1. job'["f1"] = job["f1"]
    BY <1>9 DEF CheckShortfall, TypeOK, Jobs
  <2> QED
    BY <1>1, <1>2, <1>9, <2>1, OtherCounts DEF CheckShortfall
<1>10. ASSUME NEW s \in Requests, CommitResponse(s) PROVE CInv'
  <2>1. \A k \in Keys : total'[k] \in Nat /\ total[k] <= total'[k]
    BY <1>2, <1>10 DEF CommitResponse
  <2>2. active \subseteq active'
    BY <1>10 DEF CommitResponse
  <2> QED
    BY <1>1, <1>10, <2>1, <2>2, OtherCounts DEF CommitResponse
<1>11. ASSUME NEW u \in Users, NEW d \in Days, NEW what \in Logged, Log(u, d, what)
       PROVE  CInv'
  BY <1>1, <1>2, <1>11, OtherCounts DEF Log
<1>12. ASSUME NEW new \in Settings, UpdateSettings(new) PROVE CInv'
  BY <1>1, <1>2, <1>12, OtherCounts DEF UpdateSettings
<1>13. ASSUME NEW d \in Days, NEW m \in Minutes, UpdateTimezone(d, m) PROVE CInv'
  <2>1. changed'
    BY <1>13 DEF UpdateTimezone
  <2> QED
    BY <1>1, <2>1 DEF MissesCounted, Due, Steady
<1>14. ASSUME UNCHANGED <<day, minute, done, missed, job, cfg, changed, active, total>>
       PROVE  CInv'
  BY <1>1, <1>2, <1>14, OtherCounts
<1>15. ASSUME NEW u \in Users, Push(u) PROVE CInv'
  BY <1>14, <1>15 DEF Push
<1>16. ASSUME NEW s \in Requests,
              \/ \E u \in Users, op \in {"not_now", "start"} : ReadResponse(s, u, op)
              \/ RollbackResponse(s)
       PROVE  CInv'
  BY <1>14, <1>16 DEF ReadResponse, RollbackResponse
<1>17. ASSUME NEW k \in Own, MarkRead(k) PROVE CInv'
  BY <1>14, <1>17 DEF MarkRead
<1>18. CASE UNCHANGED vars
  BY <1>14, <1>18 DEF vars
<1> QED
  BY <1>3, <1>4, <1>5, <1>6, <1>7, <1>8, <1>9, <1>10, <1>11, <1>12, <1>13, <1>15, <1>16, <1>17, <1>18
  DEF Next

\* At the end of the window more minutes were lost than it allows, or the member
\* was prompted.
LEMMA CountsSuffice == TypeOK /\ CInv => CaughtUp
<1> SUFFICES ASSUME TypeOK, CInv, Steady, minute > cfg.start + Window, missed <= Window,
                    NEW u \in Users, Role[u] = "member", u \notin active, ~AlreadyNotified(u)
             PROVE  Awaits(u)
  BY DEF CaughtUp, Steady, AlreadyNotified, Awaits
<1>1. cfg.start \in Nat /\ Window \in Nat /\ minute \in Nat /\ missed \in Nat
  BY StartIsMinute, DayAssumption DEF Steady, Minutes, TypeOK
<1>2. Past = Window + 1 /\ Checked = 0
  BY <1>1 DEF Past, Checked
<1>3. missed + Pending(u) >= Past + Checked
  BY DEF CInv, MissesCounted, Due
<1>4. Pending(u) # 0
  BY <1>1, <1>2, <1>3
<1> QED
  BY <1>4 DEF Pending

\* At first there is nothing to count.
LEMMA InitMisses == Init => CInv
<1> SUFFICES ASSUME Init PROVE CInv
  OBVIOUS
<1>1. TypeOK
  BY InitType
<1>2. LogsSound
  BY <1>1 DEF Init, LogsSound, TypeOK
<1>3. ASSUME NEW u \in Users, Due(u)
      PROVE  missed + Pending(u) >= Past + Checked
  <2>1. cfg.start \in Nat
    BY <1>1, <1>3, StartIsMinute, DayAssumption DEF Due, Steady, Minutes
  <2>2. Past = 0 /\ Checked = 0
    BY <2>1 DEF Init, Past, Checked
  <2>3. missed = 0 /\ Pending(u) \in Nat
    BY DEF Init, Pending
  <2> QED
    BY <2>2, <2>3
<1> QED
  BY <1>2, <1>3 DEF Init, CInv, MissesCounted

---------------------------------------------------------------------------
(* The theorems. *)

LEMMA InitInv == Init => IInv
<1> SUFFICES ASSUME Init PROVE IInv
  OBVIOUS
<1>1. TypeOK
  BY InitType
<1>2. \A s \in Requests : req[s].op = "idle"
  BY DEF Init, Idle
<1>3. job["f1"] = {} /\ job["f2"] = {}
  BY DEF Init, Jobs
<1>4. \A kind \in Kinds, u, r \in Users, d \in Days : total[<<kind, u, r, d>>] = 0
  BY DEF Init, Keys
<1> QED
  BY <1>1, <1>2, <1>3, <1>4
  DEF IInv, RequestsKnown, PromptsSound, PromptOnce, ShortfallsSound,
      ToldAlike, Recipients, Kinds

LEMMA Invariance == Spec => []IInv
<1>1. IInv /\ [Next]_vars => IInv'
  BY StepType, StepRequests, StepPrompts, StepAlike DEF IInv
<1> QED
  BY InitInv, <1>1, PTL DEF Spec

\* Every variable of Attendance keeps its type.
THEOREM TypeCorrect == Spec => []TypeOK
<1>1. IInv => TypeOK
  BY DEF IInv
<1> QED
  BY Invariance, <1>1, PTL

\* check_workspace_attendance prompts a member once a day and kind, although
\* nothing but its own check keeps it from adding another row.
THEOREM PromptedOnce == Spec => []PromptOnce
<1>1. IInv => PromptOnce
  BY DEF IInv
<1> QED
  BY Invariance, <1>1, PTL

\* The admins and managers are told alike: of shortfalls by the job, of answers by
\* record_work_start_response, however often either runs and wherever it stops.
THEOREM ToldTheSame == Spec => []ToldAlike
<1>1. IInv => ToldAlike
  BY DEF IInv
<1> QED
  BY Invariance, <1>1, PTL

\* After the window every member who has logged nothing was prompted, unless more
\* of its minutes were lost than it allows: crashes, failures and time without a
\* server count, however they fall.
THEOREM NobodyMissed == Spec => []CaughtUp
<1>1. IInv /\ CInv /\ [Next]_vars => CInv'
  BY StepMisses DEF IInv
<1>2. IInv /\ CInv => CaughtUp
  BY CountsSuffice DEF IInv
<1> QED
  BY Invariance, InitMisses, <1>1, <1>2, PTL DEF Spec

---------------------------------------------------------------------------
(* The rows of the prompts are kept as PromptRows says. *)

\* Prompts are told apart by the rows for their members.
LEMMA SubjectKey ==
    ASSUME NEW k \in Own
    PROVE  /\ k = <<k[1], k[2], k[3]>> /\ k[1] \in Prompts /\ k[2] \in Users /\ k[3] \in Days
           /\ \A r \in Users : <<k[1], k[2], r, k[3]>> \in Keys
           /\ Subject(k) \in Keys
           /\ \A kind, u, d : Subject(k) = <<kind, u, u, d>> => k = <<kind, u, d>>
  BY DEF Own, Keys, Kinds, Subject

\* Steps that change neither rows nor what the work-start job has found.
LEMMA BoardStays ==
    ASSUME total' = total, unread' = unread, job'["f1"] = job["f1"]
    PROVE  UNCHANGED Board!vars
  BY DEF Board!vars, Subject

\* Marks and answers are steps of the rows.
LEMMA BoardChange ==
    ASSUME NEW ks \in SUBSET Own, Board!Read(ks) \/ Board!Cover(ks) PROVE Board!Next
  BY DEF Board!Next

\* The check finds nobody notified.
LEMMA BoardDecides == TypeOK /\ CheckWorkStart => Board!Next
<1> SUFFICES ASSUME TypeOK, CheckWorkStart PROVE Board!Next
  OBVIOUS
<1> DEFINE due == IF cfg.enabled /\ cfg.start # None /\ ~IsOffDay(day) /\ InWindow
                  THEN {u \in Subjects : ~AlreadyNotified(u) /\ ~HasStarted(u)}
                  ELSE {}
<1> DEFINE ks == {<<PromptKind, u, day>> : u \in due}
<1>1. due \subseteq Users /\ \A u \in due : ~AlreadyNotified(u)
  BY DEF Subjects
<1>2. job'["f1"] = {<<PromptKind, u, u, day>> : u \in due} /\ job["f1"] = {}
      /\ total' = total /\ unread' = unread
  BY DEF CheckWorkStart, TypeOK, Jobs
<1> HIDE DEF due
<1>3. PromptKind \in Prompts /\ day \in Days
  BY DEF PromptKind, Prompts, TypeOK
<1>4. ks \in SUBSET Own
  BY <1>1, <1>3 DEF Own
<1>5. ASSUME NEW k \in ks PROVE ~Board!Notified(k)
  <2>1. PICK u \in due : k = <<PromptKind, u, day>>
    OBVIOUS
  <2>2. \A r \in Users : total[<<PromptKind, u, r, day>>] = 0
    <3>1. ASSUME NEW r \in Users PROVE total[<<PromptKind, u, r, day>>] \in Nat
      BY <1>1, <1>3 DEF TypeOK, Keys, Kinds
    <3> QED
      BY <1>1, <3>1 DEF AlreadyNotified
  <2>3. k \in Own /\ u \in Users
    BY <1>1, <1>4
  <2>4. k[1] = PromptKind /\ k[2] = u /\ k[3] = day
    BY <2>1
  <2>5. total[Subject(k)] = 0 /\ \A r \in Users : ~(total[<<k[1], k[2], r, k[3]>>] > 0)
    BY <2>2, <2>3, <2>4 DEF Subject
  <2> HIDE DEF ks
  <2> QED
    BY <2>3, <2>5 DEF Board!Notified
<1>6. {k \in Own : Subject(k) \in job'["f1"]} = ks
  <2>1. ASSUME NEW k \in Own, Subject(k) \in job'["f1"] PROVE k \in ks
    <3>1. PICK u \in due : Subject(k) = <<PromptKind, u, u, day>>
      BY <1>2, <2>1
    <3> QED
      BY <3>1, SubjectKey
  <2>2. ASSUME NEW k \in ks PROVE Subject(k) \in job'["f1"]
    BY <1>2 DEF Subject
  <2> QED
    BY <1>4, <2>1, <2>2
<1>7. Board!Decide(ks)
  <2>1. {k \in Own : Subject(k) \in job["f1"]} = {}
    BY <1>2
  <2> HIDE DEF ks
  <2> QED
    BY <1>2, <1>5, <1>6, <2>1 DEF Board!Decide, Subject
<1> QED
  BY <1>4, <1>7 DEF Board!Next

\* What the job has found is what it puts.
LEMMA BoardCommits ==
    ASSUME TypeOK, PromptsSound, CommitJob("f1") PROVE Board!Next
<1>1. job'["f1"] = {} /\ job["f1"] # {}
  BY DEF CommitJob, TypeOK, Jobs
<1>2. {k \in Own : Subject(k) \in job["f1"]} # {}
  <2>1. PICK x \in job["f1"] : TRUE
    BY <1>1
  <2>2. PICK kind \in Prompts, u \in Subjects, d \in Days :
            x = <<kind, u, u, d>> /\ total[x] = 0
    BY Zenon DEF PromptsSound
  <2>3. <<kind, u, d>> \in Own /\ Subject(<<kind, u, d>>) = x
    BY <2>2 DEF Own, Subjects, Subject
  <2> QED
    BY <2>3
<1>3. ASSUME NEW k \in Own, Subject(k) \in job["f1"]
      PROVE  total'[Subject(k)] # 0 /\ unread'[k] > 0
  <2>1. Subject(k) \in Keys /\ total[Subject(k)] \in Nat /\ unread[k] \in Nat
    BY SubjectKey DEF TypeOK
  <2>2. total'[Subject(k)] = total[Subject(k)] + 1
    BY <1>3, <2>1 DEF CommitJob
  <2>3. unread'[k] = unread[k] + 1
    BY <1>3 DEF CommitJob, Subject
  <2> QED
    BY <2>1, <2>2, <2>3
<1>4. ASSUME NEW k \in Own, Subject(k) \notin job["f1"]
      PROVE  total'[Subject(k)] = total[Subject(k)] /\ unread'[k] = unread[k]
  <2>1. Subject(k) \in Keys
    BY SubjectKey
  <2> QED
    BY <1>4, <2>1 DEF CommitJob, Subject
<1>5. ASSUME NEW k \in Own, NEW r \in Users, r # k[2]
      PROVE  total'[<<k[1], k[2], r, k[3]>>] = total[<<k[1], k[2], r, k[3]>>]
  <2>1. <<k[1], k[2], r, k[3]>> \in Keys
    BY SubjectKey
  <2>2. <<k[1], k[2], r, k[3]>> \notin job["f1"]
    BY <1>5 DEF PromptsSound
  <2> QED
    BY <2>1, <2>2 DEF CommitJob
<1>6. Board!Commit
  BY <1>1, <1>2, <1>3, <1>4, <1>5 DEF Board!Commit
<1> QED
  BY <1>6 DEF Board!Next

\* An answer marks the prompt, covers it, or finds that it is marked.
LEMMA BoardResponds ==
    ASSUME TypeOK, RequestsKnown, NEW s \in Requests, CommitResponse(s)
    PROVE  [Board!Next]_(Board!vars)
<1> DEFINE q == req[s]
<1> DEFINE self == <<q.kind, q.by, q.day>>
<1> DEFINE noted == IF q.seen > 0 THEN {} ELSE {<<q.kind, q.by, m, q.day>> : m \in Recipients}
<1>1. q \in Request /\ q.by \in Users /\ q.kind \in Prompts /\ q.by \notin Recipients
  BY DEF CommitResponse, RequestsKnown, TypeOK, Recipients
<1>2. self \in Own /\ q.seen \in Nat
  BY <1>1 DEF Request, Own
<1>3. /\ job' = job
      /\ total' = [k \in Keys |-> IF k \in noted THEN total[k] + 1 ELSE total[k]]
      /\ unread' = [k \in Own |-> IF k # self THEN unread[k]
                                ELSE IF unread[k] > q.seen THEN unread[k] - q.seen ELSE 0]
  BY DEF CommitResponse
<1> HIDE DEF q
<1>4. ASSUME NEW k \in Own PROVE total'[Subject(k)] = total[Subject(k)]
  <2>1. Subject(k) \in Keys /\ Subject(k) \notin noted
    BY <1>1, SubjectKey DEF Subject
  <2> QED
    BY <1>3, <2>1
<1>5. CASE q.seen > 0
  <2>1. \A k \in Own, r \in Users : total'[<<k[1], k[2], r, k[3]>>] = total[<<k[1], k[2], r, k[3]>>]
    BY <1>3, <1>5, SubjectKey
  <2>2. \A k \in Own : k # self => unread'[k] = unread[k]
    BY <1>3
  <2>3. unread[self] \in Nat /\ unread'[self] \in Nat /\ unread'[self] <= unread[self]
    BY <1>2, <1>3 DEF TypeOK
  <2> HIDE DEF self
  <2>4. CASE unread[self] > 0 /\ unread'[self] = 0
    <3>1. PICK me \in Own : me = self
      BY <1>2
    <3>2. ~(unread'[me] > 0) /\ \A k \in Own : k # me => unread'[k] = unread[k]
      BY <2>2, <2>4, <3>1
    <3>3. Board!Read({me})
      BY <1>3, <1>4, <2>1, <3>2 DEF Board!Read
    <3> QED
      BY <3>3, BoardChange
  <2>5. CASE ~(unread[self] > 0 /\ unread'[self] = 0)
    <3>1. \A k \in Own : unread'[k] > 0 <=> unread[k] > 0
      BY <2>2, <2>3, <2>5
    <3>2. UNCHANGED Board!vars
      BY <1>3, <1>4, <2>1, <3>1 DEF Board!vars
    <3> QED
      BY <3>2
  <2> QED
    BY <2>4, <2>5
<1>6. CASE ~(q.seen > 0)
  <2>1. unread' = unread
    <3>1. q.seen = 0
      BY <1>2, <1>6
    <3>2. \A k \in Own : unread[k] \in Nat
      BY DEF TypeOK
    <3>3. \A k \in Own : unread'[k] = unread[k]
      BY <1>2, <1>3, <3>1, <3>2
    <3> HIDE DEF self
    <3> QED
      BY <1>3, <3>3 DEF TypeOK
  <2>2. ASSUME NEW k \in Own, NEW r \in Users, r # k[2]
        PROVE  total'[<<k[1], k[2], r, k[3]>>] > 0
                   <=> total[<<k[1], k[2], r, k[3]>>] > 0 \/ (k = self /\ r \in Recipients)
    <3>1. <<k[1], k[2], r, k[3]>> \in Keys /\ total[<<k[1], k[2], r, k[3]>>] \in Nat
      BY SubjectKey DEF TypeOK
    <3>2. <<k[1], k[2], r, k[3]>> \in noted <=> k = self /\ r \in Recipients
      BY <1>6, SubjectKey
    <3> HIDE DEF noted, self
    <3> QED
      BY <1>3, <3>1, <3>2
  <2>3. CASE Recipients = {}
    <3>1. UNCHANGED Board!vars
      BY <1>3, <1>4, <2>1, <2>2, <2>3 DEF Board!vars
    <3> QED
      BY <3>1
  <2>4. CASE Recipients # {}
    <3>1. PICK m \in Recipients : m \in Users /\ m # self[2]
      BY <1>1, <2>4 DEF Recipients
    <3> HIDE DEF self
    <3>2. {k \in Own : \E r \in Users : r # k[2] /\ total'[<<k[1], k[2], r, k[3]>>] > 0}
            = {k \in Own : \E r \in Users : r # k[2] /\ total[<<k[1], k[2], r, k[3]>>] > 0} \cup {self}
      BY <1>2, <2>2, <3>1
    <3>3. PICK me \in Own : me = self
      BY <1>2
    <3>4. Board!Cover({me})
      BY <1>3, <1>4, <2>1, <3>2, <3>3 DEF Board!Cover
    <3> QED
      BY <3>4, BoardChange
  <2> QED
    BY <2>3, <2>4
<1> QED
  BY <1>5, <1>6

\* A mark reads the prompt, or one of several rows of it.
LEMMA BoardMarks ==
    ASSUME TypeOK, NEW self \in Own, MarkRead(self)
    PROVE  [Board!Next]_(Board!vars)
<1>1. total' = total /\ job' = job /\ unread[self] > 0
      /\ unread' = [unread EXCEPT ![self] = unread[self] - 1]
  BY DEF MarkRead
<1>2. \A k \in Own : k # self => unread'[k] = unread[k]
  BY <1>1 DEF TypeOK
<1>3. unread[self] \in Nat /\ unread'[self] = unread[self] - 1
  BY <1>1 DEF TypeOK
<1>4. CASE unread[self] = 1
  <2>1. ~(unread'[self] > 0)
    BY <1>3, <1>4
  <2>2. Board!Read({self})
    BY <1>1, <1>2, <2>1 DEF Board!Read
  <2> QED
    BY <2>2 DEF Board!Next
<1>5. CASE unread[self] # 1
  <2>1. \A k \in Own : unread'[k] > 0 <=> unread[k] > 0
    BY <1>1, <1>2, <1>3, <1>5
  <2>2. UNCHANGED Board!vars
    BY <1>1, <2>1 DEF Board!vars
  <2> QED
    BY <2>2
<1> QED
  BY <1>4, <1>5

\* The job loses its work.
LEMMA BoardGivesUp ==
    ASSUME total' = total, unread' = unread, job'["f1"] = {} PROVE [Board!Next]_(Board!vars)
<1>1. {k \in Own : Subject(k) \in job'["f1"]} = {}
  OBVIOUS
<1>2. CASE {k \in Own : Subject(k) \in job["f1"]} = {}
  <2>1. UNCHANGED Board!vars
    BY <1>1, <1>2 DEF Board!vars, Subject
  <2> QED
    BY <2>1
<1>3. CASE {k \in Own : Subject(k) \in job["f1"]} # {}
  <2>1. Board!GiveUp
    BY <1>1, <1>3 DEF Board!GiveUp, Subject
  <2> QED
    BY <2>1 DEF Board!Next
<1> QED
  BY <1>2, <1>3

\* The rows of shortfalls are not looked at.
LEMMA BoardIgnores ==
    ASSUME TypeOK, RequestsKnown, ShortfallsSound, CommitJob("f2") PROVE UNCHANGED Board!vars
<1>1. job'["f1"] = job["f1"]
  BY DEF CommitJob, TypeOK, Jobs
<1>2. ASSUME NEW k \in Own, NEW r \in Users PROVE <<k[1], k[2], r, k[3]>> \notin job["f2"]
  BY SubjectKey DEF ShortfallsSound, Prompts
<1>3. ASSUME NEW k \in Own, NEW r \in Users
      PROVE  total'[<<k[1], k[2], r, k[3]>>] = total[<<k[1], k[2], r, k[3]>>]
  BY <1>2, SubjectKey DEF CommitJob
<1>4. ASSUME NEW k \in Own
      PROVE  total'[Subject(k)] = total[Subject(k)] /\ unread'[k] = unread[k]
  <2>1. Subject(k) \notin job["f2"] /\ Subject(k) \in Keys
    BY <1>2, SubjectKey DEF Subject
  <2> QED
    BY <2>1 DEF CommitJob, Subject
<1> QED
  BY <1>1, <1>3, <1>4 DEF Board!vars

LEMMA BoardStep == IInv /\ [Next]_vars => [Board!Next]_(Board!vars)
<1> SUFFICES ASSUME IInv, [Next]_vars PROVE [Board!Next]_(Board!vars)
  OBVIOUS
<1> USE DEF IInv
<1>1. CASE CheckWorkStart
  BY <1>1, BoardDecides
<1>2. CASE CommitJob("f1")
  BY <1>2, BoardCommits
<1>3. CASE CommitJob("f2")
  BY <1>3, BoardIgnores
<1>4. CASE FailJob("f1") \/ Crash
  <2>1. total' = total /\ unread' = unread /\ job'["f1"] = {}
    BY <1>4 DEF FailJob, Crash, TypeOK, Jobs
  <2> QED
    BY <2>1, BoardGivesUp
<1>5. ASSUME NEW s \in Requests, CommitResponse(s) PROVE [Board!Next]_(Board!vars)
  BY <1>5, BoardResponds
<1>6. ASSUME NEW k \in Own, MarkRead(k) PROVE [Board!Next]_(Board!vars)
  BY <1>6, BoardMarks
<1>7. CASE total' = total /\ unread' = unread /\ job'["f1"] = job["f1"]
  BY <1>7, BoardStays
<1>8. CheckShortfall \/ FailJob("f2")
        => total' = total /\ unread' = unread /\ job'["f1"] = job["f1"]
  BY DEF CheckShortfall, FailJob, TypeOK, Jobs
<1>9. ASSUME NEW s \in Requests,
             \/ \E u \in Users, op \in {"not_now", "start"} : ReadResponse(s, u, op)
             \/ RollbackResponse(s)
      PROVE  UNCHANGED <<total, unread, job>>
  BY <1>9 DEF ReadResponse, RollbackResponse
<1>10. ASSUME NEW u \in Users, Push(u) PROVE UNCHANGED <<total, unread, job>>
  BY <1>10 DEF Push
<1>11. ASSUME NEW new \in Settings, UpdateSettings(new) PROVE UNCHANGED <<total, unread, job>>
  BY <1>11 DEF UpdateSettings
<1>12. ASSUME NEW u \in Users, NEW d \in Days, NEW what \in Logged, Log(u, d, what)
       PROVE  UNCHANGED <<total, unread, job>>
  BY <1>12 DEF Log
<1>13. Tick \/ Restart \/ UNCHANGED vars => UNCHANGED <<total, unread, job>>
  BY DEF Tick, Restart, vars
<1>14. ASSUME NEW d \in Days, NEW m \in Minutes, UpdateTimezone(d, m)
       PROVE  UNCHANGED <<total, unread, job>>
  BY <1>14 DEF UpdateTimezone
<1> QED
  BY <1>1, <1>2, <1>3, <1>4, <1>5, <1>6, <1>7, <1>8, <1>9, <1>10, <1>11, <1>12, <1>13, <1>14
  DEF Next, Jobs

LEMMA BoardInit == Init => Board!Init
<1> SUFFICES ASSUME Init PROVE Board!Init
  OBVIOUS
<1>1. \A k \in Own : total[Subject(k)] = 0
  BY SubjectKey DEF Init
<1>2. \A k \in Own, r \in Users : ~(total[<<k[1], k[2], r, k[3]>>] > 0)
  <2>1. ASSUME NEW k \in Own, NEW r \in Users
        PROVE  ~(total[<<k[1], k[2], r, k[3]>>] > 0)
    <3>1. <<k[1], k[2], r, k[3]>> \in Keys
      BY SubjectKey
    <3>2. total[<<k[1], k[2], r, k[3]>>] = 0
      BY <3>1 DEF Init
    <3> QED
      BY <3>2
  <2> QED
    BY <2>1
<1>3. job["f1"] = {}
  BY DEF Init, Jobs
<1> QED
  BY <1>1, <1>2, <1>3 DEF Board!Init

\* The scheduler's jobs, the responses and the marks keep the rows of the prompts
\* as PromptRows says, with any crashes, failures and responses under way.
THEOREM KeepsRows == Spec => RowsAreKept
  BY Invariance, BoardInit, BoardStep, PTL DEF Spec, RowsAreKept, Board!Spec

\* Of PromptRows alone: what is settled stays so.
LEMMA SettledStays ==
    ASSUME TypeOK, [Board!Next]_(Board!vars), NEW k \in Own, Board!Settled(k)
    PROVE  Board!Settled(k)'
<1> USE DEF Board!Settled, Board!Notified
<1>1. CASE \E ks \in SUBSET Own : Board!Decide(ks)
  BY <1>1 DEF Board!Decide
<1>2. CASE \E ks \in SUBSET Own : Board!Read(ks)
  BY <1>2 DEF Board!Read
<1>3. CASE \E ks \in SUBSET Own : Board!Cover(ks)
  BY <1>3 DEF Board!Cover
<1>4. CASE Board!Commit
  BY <1>4 DEF Board!Commit
<1>5. CASE Board!GiveUp
  BY <1>5 DEF Board!GiveUp
<1>6. CASE UNCHANGED Board!vars
  BY <1>6 DEF Board!vars
<1> QED
  BY <1>1, <1>2, <1>3, <1>4, <1>5, <1>6 DEF Board!Next

\* A prompt that was read or answered is not put again (_already_notified_today).
THEOREM AnsweredOnce == Spec => AnswerStands
<1>1. IInv /\ [Next]_vars => [\A k \in Own : Board!Settled(k) => Board!Settled(k)']_(Board!vars)
  BY BoardStep, SettledStays DEF IInv
<1> QED
  BY <1>1, Invariance, PTL DEF Spec, AnswerStands, Board!StaysSettled

===============================================================================
