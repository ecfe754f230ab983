---------------------------- MODULE SessionProofs ----------------------------
(***************************************************************************)
(* Proofs about Session, for any people who share the browser.              *)
(***************************************************************************)
EXTENDS Session, TLAPS

Requests == [Slots -> Req \cup {NoReq}]
NoData(q) == \A r \in Slots : q[r] = NoReq \/ q[r].kind # "data"

\* The layout of the app is on the screen, and has not read the workspaces yet.
Mounting == page = "app" /\ view \in {"checking", "loading"}

\* Until then nothing is cached that the layout would take for its user's: it
\* either clears the rest when it chooses a workspace or has done so already,
\* with the answers that were under way.
CleanMount ==
    /\ view = "checking" => page \in {"app", "join"}
    /\ view = "loading" => page = "app"
    /\ Mounting => ws = None
    /\ Mounting /\ chosen => rest = None /\ NoData(req)

Inv == TypeOK /\ CleanMount

\* What NothingOfOthers says of a step.
Opening == view = "loading" /\ view' = "ready" /\ ws' # None => rest' \in {None, ws'}

\* The types of what a move between pages changes.
ScreenType ==
    /\ page \in Pages
    /\ view \in {"none", "checking", "loading", "ready", "stuck"}
    /\ target \in {"app", "join"}
    /\ ws \in Users \cup {None} /\ rest \in Users \cup {None} /\ chosen \in BOOLEAN
    /\ req \in Requests

-----------------------------------------------------------------------------
(* Requests. *)

\* A free slot is told from a request.
LEMMA FreeIsNoReq == NoReq \notin Req
  BY DEF NoReq, Req

\* A request is sent as the person whose token is in memory.
LEMMA SentType ==
  ASSUME TypeOK, NEW kind \in {"login", "me", "workspaces", "data", "logout", "accept"}
  PROVE  Sent(kind) \in Req /\ Sent(kind).kind = kind
  BY DEF TypeOK, Sent, SeenAs, Req

\* Clearing the cache leaves no answer with data under way.
LEMMA ClearedType ==
  ASSUME NEW q \in Requests
  PROVE  Cleared(q) \in Requests /\ NoData(Cleared(q))
<1>1. ASSUME NEW r \in Slots, q[r] # NoReq
      PROVE  [q[r] EXCEPT !.kind = "dropped"] \in Req /\ [q[r] EXCEPT !.kind = "dropped"].kind = "dropped"
  BY <1>1 DEF Requests, Req
<1>2. ASSUME NEW r \in Slots
      PROVE  /\ Cleared(q)[r] \in Req \cup {NoReq}
             /\ Cleared(q)[r] = NoReq \/ Cleared(q)[r].kind # "data"
  BY <1>1 DEF Cleared, Requests
<1>3. QED
  BY <1>2 DEF Cleared, Requests, NoData

\* A request that is over leaves its slot free.
LEMMA FreeType ==
  ASSUME req \in Requests, NEW r \in Slots
  PROVE  Free(r) \in Requests /\ (NoData(req) => NoData(Free(r)))
  BY DEF Free, Requests, NoData

\* A request that is put in flight is typed, and is data only if it asks for data.
LEMMA PutType ==
  ASSUME req \in Requests, NEW k \in Req, Put(k)
  PROVE  req' \in Requests /\ (k.kind # "data" /\ NoData(req) => NoData(req)')
  BY DEF Put, Slots, Requests, NoData

-----------------------------------------------------------------------------
(* Moving between pages. *)

\* The middleware leads to a page of the app.
LEMMA MiddlewareType ==
  ASSUME NEW path \in {"app", "login", "password", "join"}, NEW c
  PROVE  Middleware(path, c) \in {"app", "login", "password", "join"}
  BY DEF Middleware, AuthRoutes

\* A page load starts with an empty memory.
LEMMA LoadKeeps ==
  ASSUME NEW path \in {"app", "login", "join"}, Load(path)
  PROVE  ScreenType' /\ CleanMount' /\ view' # "ready" /\ token' = NoToken
<1>1. page' \in {"app", "login", "password", "join"}
  BY MiddlewareType DEF Load
<1>2. req' \in Requests
  BY DEF Load, Requests
<1>3. view' = IF page' \in {"app", "join"} THEN "checking" ELSE "none"
  BY DEF Load, FirstView
<1>4. QED
  BY <1>1, <1>2, <1>3 DEF Load, ScreenType, Pages, CleanMount, Mounting

\* A move within the tab mounts the layout with an empty cache, or leaves it as it
\* was, but never makes one ready that was not.
LEMMA PushKeeps ==
  ASSUME TypeOK, NEW path \in {"app", "login", "password", "join"},
         NEW to \in {"app", "join"}, NEW c, NEW q \in Requests, Push(path, to, c, q)
  PROVE  ScreenType' /\ CleanMount' /\ (view' = "ready" => view = "ready")
<1> DEFINE p == Middleware(path, c)
<1>1. p \in {"app", "login", "password", "join"}
  BY MiddlewareType
<1>2. /\ page' = p /\ target' = to /\ Open(p, q)
      /\ view' = IF p # "app" \/ page # "app" THEN FirstView(p)
                 ELSE IF view = "ready" THEN view ELSE "stuck"
  BY DEF Push
<1> HIDE DEF p
<1>3. ws' \in Users \cup {None} /\ rest' \in Users \cup {None} /\ chosen' \in BOOLEAN /\ req' \in Requests
  BY <1>2, ClearedType DEF Open, TypeOK
<1>4. view' \in {"none", "checking", "loading", "ready", "stuck"}
  BY <1>2 DEF FirstView
<1>5. ScreenType'
  BY <1>1, <1>2, <1>3, <1>4 DEF ScreenType, Pages
<1>6. view' = "ready" => view = "ready"
  BY <1>2 DEF FirstView
<1>7. CleanMount'
  <2>1. view' # "loading" /\ (view' = "checking" => page' \in {"app", "join"})
    BY <1>2 DEF FirstView
  <2>2. ASSUME Mounting' PROVE ws' = None /\ (chosen' => rest' = None /\ NoData(req'))
    <3>1. p = "app" /\ page # "app"
      BY <1>2, <2>2 DEF Mounting
    <3>2. CASE ws = None
      BY <1>2, <3>1, <3>2 DEF Open
    <3>3. CASE ws # None
      BY <1>2, <3>1, <3>3, ClearedType DEF Open
    <3>4. QED
      BY <3>2, <3>3
  <2>3. QED
    BY <2>1, <2>2 DEF CleanMount, NoData
<1>8. QED
  BY <1>5, <1>6, <1>7

-----------------------------------------------------------------------------
(* The steps. *)

\* What a step must keep beside the screen and the cache.
RestType ==
    /\ active \in SUBSET Users
    /\ cookie \in Users \cup {None}
    /\ token \in [user : Users \cup {None}, live : BOOLEAN]

\* Inv says just these parts, before a step and after it.
LEMMA Parts == /\ Inv <=> RestType /\ ScreenType /\ CleanMount
               /\ (RestType /\ ScreenType /\ CleanMount)' => Inv'
  BY DEF Inv, TypeOK, RestType, ScreenType, Requests

\* Steps that move between pages.
LEMMA MoveStep ==
  ASSUME Inv, RestType', NEW path \in {"app", "login", "password", "join"},
         NEW to \in {"app", "join"}, NEW c, NEW q \in Requests, Push(path, to, c, q)
  PROVE  Inv' /\ Opening
  BY Parts, PushKeeps DEF Inv, Opening

\* Steps that only send a request, end one or send it again; one that would read
\* data is sent only by a layout that is ready.
LEMMA RequestStep ==
  ASSUME Inv, RestType', UNCHANGED <<screen, cache>>, req' \in Requests,
         Mounting /\ NoData(req) => NoData(req')
  PROVE  Inv' /\ Opening
<1>1. ScreenType' /\ CleanMount'
  BY DEF Inv, TypeOK, ScreenType, CleanMount, Mounting, NoData, screen, cache
<1>2. QED
  BY <1>1, Parts DEF Opening, screen

\* Every button and every page load keeps the invariant.
LEMMA UserStep ==
  ASSUME Inv,
         \/ \E path \in {"app", "login", "join"} : Visit(path)
         \/ \E path \in AuthRoutes : Follow(path)
         \/ SubmitLogin \/ Accept \/ Fetch \/ PressLogout \/ SwitchWorkspace
  PROVE  Inv' /\ Opening
<1>0. TypeOK /\ RestType /\ req \in Requests
  BY Parts DEF Inv, ScreenType
<1>1. ASSUME NEW path \in {"app", "login", "join"}, Visit(path) PROVE Inv' /\ Opening
  <2>1. token' = [user |-> None, live |-> FALSE] /\ UNCHANGED browser
    BY <1>1 DEF Visit, Load, NoToken
  <2>2. RestType'
    BY <1>0, <2>1 DEF RestType, browser
  <2>3. QED
    BY <1>1, <2>2, LoadKeeps, Parts DEF Visit, Opening
<1>2. ASSUME NEW path \in AuthRoutes, Follow(path) PROVE Inv' /\ Opening
  <2>1. RestType'
    BY <1>0, <1>2 DEF Follow, RestType, browser
  <2>2. PICK to \in {"app", "join"} : Push(path, to, cookie, req)
    BY <1>0, <1>2 DEF Follow, TypeOK
  <2>3. QED
    BY <1>0, <2>1, <2>2, MoveStep DEF AuthRoutes
<1>3. ASSUME NEW kind \in {"login", "accept", "data", "logout"}, SendReq(kind),
             UNCHANGED <<browser, token, screen, cache>>, kind = "data" => view = "ready"
      PROVE  Inv' /\ Opening
  <2>1. req' \in Requests /\ (kind # "data" /\ NoData(req) => NoData(req)')
    BY <1>0, <1>3, SentType, PutType DEF SendReq
  <2>2. RestType'
    BY <1>0, <1>3 DEF RestType, browser
  <2>3. Mounting /\ NoData(req) => NoData(req')
    BY <1>3, <2>1 DEF Mounting, NoData
  <2>4. QED
    BY <1>3, <2>1, <2>2, <2>3, RequestStep
<1>4. CASE SubmitLogin \/ Accept \/ Fetch \/ PressLogout
  BY <1>3, <1>4 DEF SubmitLogin, Accept, Fetch, PressLogout
<1>5. CASE SwitchWorkspace
  <2>1. req' \in Requests
    BY <1>0, <1>5, ClearedType DEF SwitchWorkspace
  <2>2. RestType' /\ ScreenType'
    BY <1>0, <1>5, <2>1 DEF SwitchWorkspace, RestType, ScreenType, TypeOK, browser, screen
  <2>3. CleanMount' /\ Opening
    BY <1>5 DEF SwitchWorkspace, CleanMount, Mounting, Opening, screen
  <2>4. QED
    BY <2>2, <2>3, Parts
<1>6. QED
  BY <1>1, <1>2, <1>4, <1>5

\* So do the first checks of a page.
LEMMA CheckStep ==
  ASSUME Inv, Check
  PROVE  Inv' /\ Opening
<1>0. TypeOK /\ RestType /\ ScreenType /\ CleanMount /\ req \in Requests
  BY Parts DEF Inv, ScreenType
<1>1. CASE CheckOk
  <2>1. RestType'
    BY <1>0, <1>1 DEF CheckOk, RestType, browser
  <2>2. CASE page = "join"
    <3>1. ScreenType' /\ CleanMount' /\ Opening
      BY <1>0, <1>1, <2>2 DEF CheckOk, ScreenType, CleanMount, Mounting, Opening, cache
    <3>2. QED
      BY <2>1, <3>1, Parts
  <2>3. CASE page # "join"
    <3> DEFINE k == [Sent("me") EXCEPT !.as = IF token.user = None THEN cookie ELSE SeenAs]
    <3>1. k \in Req /\ k.kind = "me"
      BY <1>0, SentType DEF Req, RestType, SeenAs
    <3>2. page = "app" /\ view = "checking" /\ view' = "loading" /\ Put(k) /\ UNCHANGED <<page, target, cache>>
      BY <1>0, <1>1, <2>3 DEF CheckOk, CleanMount
    <3> HIDE DEF k
    <3>3. req' \in Requests /\ (NoData(req) => NoData(req)')
      BY <1>0, <3>1, <3>2, PutType
    <3>4. ScreenType' /\ CleanMount' /\ Opening
      BY <1>0, <3>2, <3>3 DEF ScreenType, CleanMount, Mounting, Opening, cache
    <3>5. QED
      BY <2>1, <3>4, Parts
  <2>4. QED
    BY <2>2, <2>3
<1>2. CASE CheckFailed
  <2>1. RestType'
    BY <1>0, <1>2 DEF CheckFailed, RestType, browser
  <2>2. PICK to \in {"app", "join"} : Push("login", to, cookie, req)
    BY <1>2 DEF CheckFailed
  <2>3. QED
    BY <1>0, <2>1, <2>2, MoveStep
<1>3. QED
  BY <1>1, <1>2 DEF Check

\* So does an answer, whatever happened since the request was sent.
LEMMA ServeStep ==
  ASSUME Inv, NEW r \in Slots, ServeOk(r)
  PROVE  Inv' /\ Opening
<1>0. TypeOK /\ RestType /\ ScreenType /\ CleanMount /\ req \in Requests
  BY Parts DEF Inv, ScreenType
<1>1. req[r] \in Req /\ Free(r) \in Requests /\ (NoData(req) => NoData(Free(r)))
  BY <1>0, FreeType DEF ServeOk, Requests
<1>2. CASE MeOk(r)
  <2>1. Sent("workspaces") \in Req /\ Sent("workspaces").kind = "workspaces"
    BY <1>0, SentType
  <2>2. req' \in Requests /\ (NoData(req) => NoData(req'))
    BY <1>0, <1>2, <2>1 DEF MeOk, Requests, NoData
  <2>3. RestType' /\ UNCHANGED <<screen, cache>>
    BY <1>0, <1>2 DEF MeOk, RestType, browser
  <2>4. QED
    BY <2>2, <2>3, RequestStep
<1>3. CASE WorkspacesOk(r)
  <2>1. RestType'
    BY <1>0, <1>3 DEF WorkspacesOk, RestType, browser
  <2>2. ws' \in Users \cup {None} /\ view' = "ready" /\ UNCHANGED <<page, target>>
    BY <1>1, <1>3 DEF WorkspacesOk, Req
  <2>3. rest' \in Users \cup {None} /\ chosen' \in BOOLEAN /\ req' \in Requests
    BY <1>0, <1>1, <1>3, ClearedType DEF WorkspacesOk, ScreenType
  <2>4. ScreenType' /\ CleanMount'
    BY <1>0, <2>2, <2>3 DEF ScreenType, CleanMount, Mounting
  <2>5. Opening
    BY <1>0, <1>3 DEF WorkspacesOk, Opening, CleanMount, Mounting
  <2>6. QED
    BY <2>1, <2>4, <2>5, Parts
<1>4. CASE DataOk(r)
  <2>1. RestType'
    BY <1>0, <1>4 DEF DataOk, RestType, browser
  <2>2. rest' \in Users \cup {None} /\ UNCHANGED <<screen, ws, chosen>> /\ req' = Free(r)
    BY <1>0, <1>1, <1>4 DEF DataOk, ScreenType, Req
  <2>3. NoData(req) => rest' = rest
    BY <1>4 DEF DataOk, NoData, ServeOk
  <2>4. ScreenType' /\ CleanMount' /\ Opening
    BY <1>0, <1>1, <2>2, <2>3 DEF ScreenType, CleanMount, Mounting, NoData, Opening, screen
  <2>5. QED
    BY <2>1, <2>4, Parts
<1>5. CASE LoginOk(r)
  <2>1. PICK u \in active : /\ cookie' = u /\ token' = [user |-> u, live |-> TRUE]
                            /\ Push(req[r].to, "app", u, Free(r))
    BY <1>5 DEF LoginOk
  <2>2. RestType'
    BY <1>0, <1>5, <2>1 DEF LoginOk, RestType
  <2>3. req[r].to \in {"app", "login", "password", "join"}
    BY <1>1 DEF Req
  <2>4. QED
    BY <1>1, <2>1, <2>2, <2>3, MoveStep
<1>6. CASE LogoutOk(r)
  <2>1. RestType'
    BY <1>0, <1>6 DEF LogoutOk, RestType, NoToken
  <2>2. QED
    BY <1>1, <1>6, <2>1, MoveStep DEF LogoutOk
<1>7. CASE AcceptOk(r)
  <2>1. RestType'
    BY <1>0, <1>7 DEF AcceptOk, RestType, browser
  <2>2. CASE Push("app", "app", cookie, Free(r))
    BY <1>1, <2>1, <2>2, MoveStep
  <2>3. CASE req' = Free(r) /\ UNCHANGED <<screen, cache>>
    BY <1>1, <2>1, <2>3, RequestStep
  <2>4. QED
    BY <1>7, <2>2, <2>3 DEF AcceptOk
<1>8. QED
  BY <1>2, <1>3, <1>4, <1>5, <1>6, <1>7 DEF ServeOk

\* So does a request that is rejected ...
LEMMA RejectedStep ==
  ASSUME Inv, NEW r \in Slots, req[r] # NoReq, Rejected(r), UNCHANGED browser
  PROVE  Inv' /\ Opening
<1>0. TypeOK /\ RestType /\ ScreenType /\ CleanMount /\ req \in Requests
  BY Parts DEF Inv, ScreenType
<1>1. Free(r) \in Requests /\ (NoData(req) => NoData(Free(r)))
  BY <1>0, FreeType
<1>2. CASE req[r].kind = "me"
  <2>1. RestType' /\ Push("login", "app", cookie, Free(r))
    BY <1>0, <1>2 DEF Rejected, RestType, browser
  <2>2. QED
    BY <1>1, <2>1, MoveStep
<1>3. CASE req[r].kind = "workspaces"
  <2>1. view' = "ready" /\ req' = Free(r) /\ UNCHANGED <<token, page, target, cache>>
    BY <1>3 DEF Rejected
  <2>2. RestType' /\ ScreenType'
    BY <1>0, <1>1, <2>1 DEF RestType, ScreenType, browser, cache
  <2>3. CleanMount' /\ Opening
    BY <1>0, <2>1 DEF CleanMount, Mounting, Opening, cache
  <2>4. QED
    BY <2>2, <2>3, Parts
<1>4. CASE req[r].kind = "logout"
  <2>1. token' = NoToken /\ Push("login", "app", cookie, Free(r))
    BY <1>4 DEF Rejected
  <2>2. RestType'
    BY <1>0, <2>1 DEF RestType, browser, NoToken
  <2>3. QED
    BY <1>1, <2>1, <2>2, MoveStep
<1>5. CASE req[r].kind \notin {"me", "workspaces", "logout"}
  <2>1. req' = Free(r) /\ UNCHANGED <<token, screen, cache>>
    BY <1>5 DEF Rejected
  <2>2. RestType'
    BY <1>0, <2>1 DEF RestType, browser
  <2>3. QED
    BY <1>1, <2>1, <2>2, RequestStep
<1>6. QED
  BY <1>2, <1>3, <1>4, <1>5

\* ... or answered with 401, and one that is sent again after a refresh.
LEMMA RetryStep ==
  ASSUME Inv, NEW r \in Slots, Unauthorized(r) \/ Fail(r) \/ Refreshed(r)
  PROVE  Inv' /\ Opening
<1>0. TypeOK /\ RestType /\ ScreenType /\ CleanMount /\ req \in Requests
  BY Parts DEF Inv, ScreenType
<1>1. req[r] \in Req /\ req[r] # NoReq /\ Free(r) \in Requests
  BY <1>0, FreeType DEF Unauthorized, Fail, Refreshed, RefreshOk, RefreshFailed, Requests
\* The same request with another phase.
<1>2. ASSUME NEW k \in Req, k.kind = req[r].kind, req' = [req EXCEPT ![r] = k]
      PROVE  req' \in Requests /\ (NoData(req) => NoData(req'))
  BY <1>0, <1>1, <1>2, FreeIsNoReq DEF Requests, NoData
<1>3. CASE Unauthorized(r)
  <2>1. CASE req[r].retried /\ req[r].kind = "accept"
    <3>1. RestType' /\ Push("login", "join", cookie, Free(r))
      BY <1>0, <1>3, <2>1 DEF Unauthorized, RestType, browser
    <3>2. QED
      BY <1>1, <3>1, MoveStep
  <2>2. CASE req[r].retried /\ req[r].kind # "accept"
    BY <1>1, <1>3, <2>2, RejectedStep DEF Unauthorized
  <2>3. CASE ~req[r].retried
    <3> DEFINE k == [req[r] EXCEPT !.phase = "denied"]
    <3>1. k \in Req /\ k.kind = req[r].kind
      BY <1>1 DEF Req
    <3>2. req' = [req EXCEPT ![r] = k] /\ UNCHANGED <<token, screen, cache>> /\ RestType'
      BY <1>0, <1>3, <2>3 DEF Unauthorized, RestType, browser
    <3> HIDE DEF k
    <3>3. QED
      BY <1>2, <3>1, <3>2, RequestStep
  <2>4. QED
    BY <2>1, <2>2, <2>3
<1>4. CASE Fail(r)
  BY <1>1, <1>4, RejectedStep DEF Fail
<1>5. CASE RefreshOk(r)
  <2> DEFINE k == [req[r] EXCEPT !.phase = "sent", !.as = cookie, !.retried = TRUE]
  <2>1. k \in Req /\ k.kind = req[r].kind
    BY <1>0, <1>1 DEF Req, RestType
  <2>2. req' = [req EXCEPT ![r] = k] /\ UNCHANGED <<screen, cache>>
    BY <1>5 DEF RefreshOk
  <2>3. RestType'
    BY <1>0, <1>5 DEF RefreshOk, RestType, browser
  <2> HIDE DEF k
  <2>4. QED
    BY <1>2, <2>1, <2>2, <2>3, RequestStep
<1>6. CASE RefreshFailed(r)
  <2>1. Load("login") /\ UNCHANGED browser
    BY <1>6 DEF RefreshFailed
  <2>2. token' = [user |-> None, live |-> FALSE]
    BY <2>1 DEF Load, NoToken
  <2>3. RestType'
    BY <1>0, <2>1, <2>2 DEF RestType, browser
  <2>4. QED
    BY <2>1, <2>3, LoadKeeps, Parts DEF Opening
<1>7. QED
  BY <1>3, <1>4, <1>5, <1>6 DEF Refreshed

\* So does what happens in other tabs, and the passing of time.
LEMMA OutsideStep ==
  ASSUME Inv, Expire \/ (\E u \in Users : Deactivate(u)) \/ OtherTab \/ UNCHANGED vars
  PROVE  Inv' /\ Opening
<1>0. RestType /\ req \in Requests
  BY Parts DEF Inv, ScreenType
<1>1. RestType'
  BY <1>0 DEF Expire, Deactivate, OtherTab, RestType, browser, vars
<1>2. UNCHANGED <<screen, cache, req>>
  BY DEF Expire, Deactivate, OtherTab, vars
<1>3. QED
  BY <1>0, <1>1, <1>2, RequestStep

\* Every step keeps the invariant, and opens the app with a clean cache.
LEMMA Step == Inv /\ [Next]_vars => Inv' /\ Opening
<1> SUFFICES ASSUME Inv, [Next]_vars PROVE Inv' /\ Opening
  OBVIOUS
<1>1. CASE UNCHANGED vars
  BY <1>1, OutsideStep
<1>2. CASE Next
  BY <1>2, UserStep, CheckStep, ServeStep, RetryStep, OutsideStep DEF Next, Answer
<1>3. QED
  BY <1>1, <1>2

\* A browser that is opened shows no page yet.
LEMMA InitInv == Init => Inv
<1> SUFFICES ASSUME Init PROVE Inv
  OBVIOUS
<1>1. req \in Requests
  BY DEF Init, Requests
<1>2. QED
  BY <1>1 DEF Init, Inv, TypeOK, CleanMount, Mounting, NoToken, Pages, Requests

-----------------------------------------------------------------------------
(* The theorems. *)

\* The invariant holds in every state of the tab.
THEOREM Invariance == Spec => []Inv
<1>1. Inv /\ [Next]_vars => Inv'
  BY Step
<1>2. QED
  BY <1>1, InitInv, PTL DEF Spec

\* Every variable has its type, through expired tokens, refreshes and reloads.
THEOREM TypeCorrect == Spec => []TypeOK
  BY Invariance, PTL DEF Inv

\* Whoever logs in and out in one tab, the app opens with nothing in its cache
\* that belongs to another person.
THEOREM NothingLeft == Spec => NothingOfOthers
<1>1. Inv /\ [Next]_vars => [Opening]_vars
  BY Step
<1>2. QED
  BY <1>1, Invariance, PTL DEF Spec, NothingOfOthers, Opening
==============================================================================
