------------------------------- MODULE Session -------------------------------
(***************************************************************************)
(* How a browser tab gets, renews and loses its session: the API client     *)
(* with its refresh on 401, the middleware that guards the routes, the app  *)
(* layout that loads the user and the workspaces, the auth pages and the    *)
(* page behind an invite link (src/web/src).  The access token lives in the *)
(* memory of the tab, the refresh cookie in the browser, where other tabs   *)
(* set and clear it too.  Cached answers are known by the user whose token  *)
(* fetched them.                                                            *)
(***************************************************************************)
EXTENDS FiniteSets

CONSTANTS
    Users,      \* people who use this browser, one at a time
    None

ASSUME NoneAssumption == None \notin Users

VARIABLES
    active,     \* the accounts that are active
    cookie,     \* whose refresh token the browser holds
    token,      \* the access token: its user, and whether it is still valid
    page,       \* the page on the screen
    view,       \* how far the app layout, or the join page, is with its checks
    target,     \* the redirect parameter of the login page
    ws,         \* whose workspaces are cached
    rest,       \* whose further data is cached
    chosen,     \* the layout has chosen a workspace (membership)
    req         \* the requests of the API client

browser == <<active, cookie>>
screen == <<page, view, target>>
cache == <<ws, rest, chosen>>
vars == <<browser, token, screen, cache, req>>

\* At most one request of what the user or the layout does and one of a query
\* that polls are in flight at once (a bound).
Slots == {"flow", "poll"}
Pages == {"away", "login", "password", "join", "app"}
AuthRoutes == {"login", "password"}
NoToken == [user |-> None, live |-> FALSE]
NoReq == [phase |-> "free"]
Req == [phase : {"sent", "denied"}, as : Users \cup {None}, retried : BOOLEAN,
        to : {"app", "join"},
        kind : {"login", "me", "workspaces", "data", "dropped", "logout", "accept"}]

TypeOK ==
    /\ active \in SUBSET Users
    /\ cookie \in Users \cup {None}
    /\ token \in [user : Users \cup {None}, live : BOOLEAN]
    /\ page \in Pages
    /\ view \in {"none", "checking", "loading", "ready", "stuck"}
    /\ target \in {"app", "join"}
    /\ ws \in Users \cup {None} /\ rest \in Users \cup {None} /\ chosen \in BOOLEAN
    /\ req \in [Slots -> Req \cup {NoReq}]

Init ==
    /\ active = Users
    /\ cookie \in Users \cup {None}
    /\ token = NoToken
    /\ page = "away" /\ view = "none" /\ target = "app"
    /\ ws = None /\ rest = None /\ chosen = FALSE
    /\ req = [r \in Slots |-> NoReq]

-----------------------------------------------------------------------------
(* Moving between pages. *)

\* Protected pages need the cookie, auth pages must not have it.  The cookie is
\* not looked into: that its user may still log in is not known here.
Middleware(path, c) ==
    IF path = "app" /\ c = None THEN "login"
    ELSE IF path \in AuthRoutes /\ c # None THEN "app"
    ELSE path

FirstView(p) == IF p \in {"app", "join"} THEN "checking" ELSE "none"

\* A page load: what the tab had in memory is gone.
Load(path) ==
    /\ page' = Middleware(path, cookie)
    /\ view' = FirstView(page')
    /\ target' = "app"
    /\ token' = NoToken
    /\ ws' = None /\ rest' = None /\ chosen' = FALSE
    /\ req' = [r \in Slots |-> NoReq]

\* QueryClient.clear: the answers under way are dropped with the queries.
Cleared(q) == [r \in Slots |-> IF q[r] # NoReq /\ q[r].kind = "data"
                               THEN [q[r] EXCEPT !.kind = "dropped"] ELSE q[r]]

\* mutant: the workspaces that are cached when the app opens do not clear the rest
MutOpen(p, q) ==
    /\ UNCHANGED <<ws, rest>>
    /\ chosen' = (p = "app" /\ (chosen \/ ws # None))
    /\ req' = q

\* The layout of the app is mounted, unless the tab is in the app already.  It
\* finds the workspaces in the cache, chooses one of them, and with
\* setWorkspaceId clears the cache.
Open(p, q) ==
    IF p = "app" /\ page # "app" /\ ws # None
    THEN /\ ws' = None /\ rest' = None /\ chosen' = TRUE
         /\ req' = Cleared(q)
    ELSE /\ UNCHANGED <<ws, rest>>
         /\ chosen' = (chosen /\ p = "app" /\ page = "app")
         /\ req' = q

\* router.push, with the cookie as it is by then: the memory stays.  A layout
\* that gave up and is sent back to the app by the middleware is not mounted
\* again, and shows its skeleton for good.
Push(path, to, c, q) ==
    LET p == Middleware(path, c)
    IN  /\ page' = p
        /\ target' = to
        /\ view' = IF p # "app" \/ page # "app" THEN FirstView(p)
                   ELSE IF view = "ready" THEN view ELSE "stuck"
        /\ Open(p, q)

\* The user opens an address.
Visit(path) ==
    /\ Load(path)
    /\ UNCHANGED browser

\* The links between the auth pages; a password that was reset leads to the login.
Follow(path) ==
    /\ page \in AuthRoutes
    /\ Push(path, IF path = "login" /\ page = "login" THEN target ELSE "app", cookie, req)
    /\ UNCHANGED <<browser, token>>

-----------------------------------------------------------------------------
(* The requests.  A request without a token that is still valid, or of an      *)
(* account that is not active any more, is answered with 401.                   *)

SeenAs == IF token.live THEN token.user ELSE None
Sent(kind) == [phase |-> "sent", as |-> SeenAs, retried |-> FALSE, kind |-> kind,
               to |-> IF kind = "login" THEN target ELSE "app"]

Put(k) ==
    LET r == IF k.kind = "data" THEN "poll" ELSE "flow"
    IN  req[r] = NoReq /\ req' = [req EXCEPT ![r] = k]
SendReq(kind) == Put(Sent(kind))

\* Login or signup.
SubmitLogin ==
    /\ page = "login"
    /\ SendReq("login")
    /\ UNCHANGED <<browser, token, screen, cache>>

Accept ==
    /\ page = "join" /\ view = "ready"
    /\ SendReq("accept")
    /\ UNCHANGED <<browser, token, screen, cache>>

\* The page asks for its data, or a query polls.
Fetch ==
    /\ page = "app" /\ view = "ready"
    /\ SendReq("data")
    /\ UNCHANGED <<browser, token, screen, cache>>

\* Below the daily target a member is asked first, and may stay.
PressLogout ==
    /\ page = "app" /\ view = "ready"
    /\ SendReq("logout")
    /\ UNCHANGED <<browser, token, screen, cache>>

\* setWorkspaceId.
SwitchWorkspace ==
    /\ page = "app" /\ view = "ready"
    /\ ws' = None /\ rest' = None
    /\ req' = Cleared(req)
    /\ UNCHANGED <<browser, token, screen, chosen>>

-----------------------------------------------------------------------------
(* The first checks of the layout of the app and of the page of an invite. *)

\* With a token in memory at once, else after a refresh.
CheckOk ==
    /\ view = "checking"
    /\ token.user # None \/ cookie \in active
    /\ token' = IF token.user # None THEN token ELSE [user |-> cookie, live |-> TRUE]
    /\ IF page = "join" THEN view' = "ready" /\ UNCHANGED req
       ELSE /\ view' = "loading"
            /\ Put([Sent("me") EXCEPT !.as = IF token.user = None THEN cookie ELSE SeenAs])
    /\ UNCHANGED <<browser, page, target, cache>>

\* The cookie is no good any more, or the request fails.
CheckFailed ==
    /\ view = "checking" /\ token.user = None
    /\ Push("login", IF page = "join" THEN "join" ELSE "app", cookie, req)
    /\ UNCHANGED <<browser, token>>

-----------------------------------------------------------------------------
(* The answers. *)

Free(r) == [req EXCEPT ![r] = NoReq]

\* useMe and useWorkspaces are read before the app is shown.
MeOk(r) ==
    /\ req[r].kind = "me"
    /\ req' = [req EXCEPT ![r] = Sent("workspaces")]
    /\ UNCHANGED <<browser, token, screen, cache>>

\* The first answer, and one whose workspace or role is another one than before,
\* sets the workspace, which clears the cache.
WorkspacesOk(r) ==
    /\ req[r].kind = "workspaces"
    /\ ws' = req[r].as
    /\ view' = "ready"
    /\ \/ /\ chosen' = TRUE /\ rest' = None
          /\ req' = Cleared(Free(r))
       \/ /\ chosen /\ UNCHANGED <<chosen, rest>>
          /\ req' = Free(r)
    /\ UNCHANGED <<browser, token, page, target>>

DataOk(r) ==
    /\ req[r].kind \in {"data", "dropped"}
    /\ rest' = IF req[r].kind = "data" THEN req[r].as ELSE rest
    /\ req' = Free(r)
    /\ UNCHANGED <<browser, token, screen, ws, chosen>>

LoginOk(r) ==
    /\ req[r].kind = "login"
    /\ \E u \in active :
        /\ cookie' = u
        /\ token' = [user |-> u, live |-> TRUE]
        /\ Push(req[r].to, "app", u, Free(r))
    /\ UNCHANGED active

\* The cookie is cleared whoever is logged in by now.
LogoutOk(r) ==
    /\ req[r].kind = "logout"
    /\ cookie' = None /\ token' = NoToken
    /\ Push("login", "app", None, Free(r))
    /\ UNCHANGED active

AcceptOk(r) ==
    /\ req[r].kind = "accept"
    /\ \/ Push("app", "app", cookie, Free(r))
       \/ req' = Free(r) /\ UNCHANGED <<screen, cache>>     \* the invite is refused
    /\ UNCHANGED <<browser, token>>

ServeOk(r) ==
    /\ req[r] # NoReq /\ req[r].phase = "sent"
    /\ req[r].as \in active \/ req[r].kind = "login"
    /\ MeOk(r) \/ WorkspacesOk(r) \/ DataOk(r) \/ LoginOk(r) \/ LogoutOk(r) \/ AcceptOk(r)

\* The promise of the request is rejected.
Rejected(r) ==
    LET k == req[r].kind IN
    CASE k = "me" -> Push("login", "app", cookie, Free(r)) /\ UNCHANGED token
      [] k = "workspaces" -> /\ view' = "ready" /\ req' = Free(r)
                             /\ UNCHANGED <<token, page, target, cache>>
      [] k = "logout" -> token' = NoToken /\ Push("login", "app", cookie, Free(r))
      [] OTHER -> req' = Free(r) /\ UNCHANGED <<token, screen, cache>>

\* No valid token of an active account, or a wrong password.
Unauthorized(r) ==
    /\ req[r] # NoReq /\ req[r].phase = "sent"
    /\ req[r].as \notin active \/ req[r].kind = "login"
    /\ IF req[r].retried
       THEN IF req[r].kind = "accept"
            THEN Push("login", "join", cookie, Free(r)) /\ UNCHANGED token
            ELSE Rejected(r)
       ELSE /\ req' = [req EXCEPT ![r].phase = "denied"]
            /\ UNCHANGED <<token, screen, cache>>
    /\ UNCHANGED browser

\* mutant: the request does not remember that it was sent again
MutRefreshOk(r) ==
    /\ req[r] # NoReq /\ req[r].phase = "denied"
    /\ cookie \in active
    /\ token' = [user |-> cookie, live |-> TRUE]
    /\ req' = [req EXCEPT ![r] = [@ EXCEPT !.phase = "sent", !.as = cookie]]
    /\ UNCHANGED <<browser, screen, cache>>

\* The silent refresh; the request is sent once more with the new token.
RefreshOk(r) ==
    /\ req[r] # NoReq /\ req[r].phase = "denied"
    /\ cookie \in active
    /\ token' = [user |-> cookie, live |-> TRUE]
    /\ req' = [req EXCEPT ![r] = [@ EXCEPT !.phase = "sent", !.as = cookie, !.retried = TRUE]]
    /\ UNCHANGED <<browser, screen, cache>>

\* mutant: the page is not left when the refresh fails
MutRefreshFailed(r) ==
    /\ req[r] # NoReq /\ req[r].phase = "denied"
    /\ cookie \notin active
    /\ req' = Free(r)
    /\ UNCHANGED <<browser, token, screen, cache>>

\* ... or the page is left for the login.
RefreshFailed(r) ==
    /\ req[r] # NoReq /\ req[r].phase = "denied"
    /\ Load("login")
    /\ UNCHANGED browser

\* The network, or an error of the server.
Fail(r) ==
    /\ req[r] # NoReq /\ req[r].phase = "sent"
    /\ Rejected(r)
    /\ UNCHANGED browser

-----------------------------------------------------------------------------
(* What happens elsewhere. *)

\* Thirty minutes pass.
Expire ==
    /\ token.live
    /\ token' = [token EXCEPT !.live = FALSE]
    /\ UNCHANGED <<browser, screen, cache, req>>

Deactivate(u) ==
    /\ u \in active /\ active' = active \ {u}
    /\ UNCHANGED <<cookie, token, screen, cache, req>>

\* Another tab logs out or, as the person this tab knows if it knows one, in.
OtherTab ==
    /\ \/ cookie # None /\ cookie' = None
       \/ \E u \in active : /\ cookie = None
                          /\ token.user \in {None, u}
                          /\ cookie' = u
    /\ UNCHANGED <<active, token, screen, cache, req>>

Check == CheckOk \/ CheckFailed
Answer(r) == ServeOk(r) \/ Unauthorized(r) \/ Fail(r)
Refreshed(r) == RefreshOk(r) \/ RefreshFailed(r)

Next ==
    \/ \E path \in {"app", "login", "join"} : Visit(path)
    \/ \E path \in AuthRoutes : Follow(path)
    \/ SubmitLogin \/ Accept \/ Fetch \/ PressLogout \/ SwitchWorkspace
    \/ Check
    \/ \E r \in Slots : Answer(r) \/ Refreshed(r)
    \/ Expire \/ \E u \in Users : Deactivate(u)
    \/ OtherTab

\* Requests are answered, and not every one by an error; the tab polls.  Nobody
\* has to press a button or to log in.
Fairness ==
    /\ WF_vars(Check) /\ SF_vars(Fetch)
    /\ \A r \in Slots : /\ WF_vars(Answer(r)) /\ SF_vars(Unauthorized(r))
                      /\ WF_vars(Refreshed(r))

Spec == Init /\ [][Next]_vars
FairSpec == Spec /\ Fairness

-----------------------------------------------------------------------------
(* Properties. *)

\* When the app opens, after whatever logins and logouts without a reload, the
\* cache holds nothing of the person who used the tab before: the queries are
\* cleared when the workspaces are known (workspace-store.ts).
NothingOfOthers ==
    [][view = "loading" /\ view' = "ready" /\ ws' # None => rest' \in {None, ws'}]_vars

\* A request that was answered with 401 is sent again at most once: a request
\* ends however often the token expires (the _retry flag of api-client.ts).
RequestsSettle == \A r \in Slots : req[r] # NoReq ~> req[r] = NoReq

\* Who has logged out in another tab does not stay in the app: the next poll
\* after the access token expired leads to the login page.
EndsAtLogin ==
    page = "app" /\ view = "ready" /\ cookie = None /\ ~token.live
        ~> page # "app" \/ cookie # None

\* A tab whose session cannot be refreshed shows the login page ("If that also
\* fails, redirect to /login", API_Spec_v1_1_Final.md).
ShowsLogin == view # "stuck"
=============================================================================
