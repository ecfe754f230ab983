----------------------------- MODULE AccessProofs -----------------------------
(***************************************************************************)
(* Proofs about Access, for every number of users, workspaces, invites and *)
(* requests in flight.  No endpoint grants the role of an admin, so the    *)
(* guards against losing the last one come down to this: the only admin of *)
(* a workspace in use is its founder, and no request that could take the   *)
(* role away gets past its first read.                                     *)
(***************************************************************************)
EXTENDS Access, TLAPS

(***************************************************************************)
(* The inductive invariant.                                                *)
(***************************************************************************)
\* Rows refer to users and workspaces that exist.
Founded ==
    /\ \A u \in Users : account[u] = "none" <=> space[u] = "none"
    /\ \A w, u \in Users : role[w][u] # None => space[w] # "none" /\ account[u] # "none"
    /\ \A i \in Invites : invite[i].ws # None =>
         /\ space[invite[i].ws] # "none"
         /\ invite[i].role \in Grants
    /\ \A i \in Invites : invite[i].usedBy # None => invite[i].ws # None

\* The admin of a workspace is its founder, and stays while it is in use.
FounderIsAdmin ==
    /\ \A w, u \in Users : role[w][u] = "admin" => u = w
    /\ \A w \in Users : space[w] = "live" => role[w][w] = "admin" /\ account[w] = "active"

\* What a request knows from its reads until it commits.
Knows(q) ==
    /\ q.op # "idle" => q.by \in Users /\ account[q.by] # "none"
    /\ q.op = "leave" => space[q.by] = "deleted"
    /\ q.op \in {"change", "remove"} => /\ q.ws \in Users /\ q.target \in Users
                                        /\ q.target = q.ws => space[q.ws] = "deleted"
    /\ q.op \in {"invite", "close"} => q.ws \in Users /\ space[q.ws] # "none"
    /\ q.op \in {"change", "invite"} => q.new \in Grants
    /\ q.op \in {"invite", "revoke", "accept"} => q.inv \in Invites
    /\ q.op = "accept" => /\ invite[q.inv].ws # None
                          /\ invite[q.inv].email = Email[q.by]

RequestsKnow == \A r \in Requests : Knows(req[r])

IInv == TypeOK /\ Founded /\ FounderIsAdmin /\ RequestsKnow /\ JoinedByInvite

(***************************************************************************)
(* Facts that never change back.                                           *)
(***************************************************************************)
\* Accounts and workspaces do not return to "none", a deleted workspace stays
\* deleted, and an invite keeps its workspace, address and role.
Lasts ==
    /\ \A u \in Users : account[u] # "none" => account'[u] # "none"
    /\ \A w \in Users : /\ space[w] = "deleted" => space'[w] = "deleted"
                        /\ space[w] # "none" => space'[w] # "none"
    /\ \A i \in Invites : invite[i].ws # None =>
         /\ invite'[i].ws = invite[i].ws
         /\ invite'[i].email = invite[i].email
         /\ invite'[i].role = invite[i].role

LEMMA IdleType == Idle \in Request
  BY DEF Idle, Request, Ops

LEMMA InitIInv == Init => IInv
<1> SUFFICES ASSUME Init PROVE IInv
  OBVIOUS
<1>1. TypeOK
  BY IdleType DEF Init, TypeOK, Invite, NoInvite
<1>2. Founded /\ FounderIsAdmin /\ JoinedByInvite
  BY NoneAssumption DEF Init, Founded, FounderIsAdmin, JoinedByInvite, NoInvite
<1>3. RequestsKnow
  BY DEF Init, RequestsKnow, Knows, Idle
<1>4. QED
  BY <1>1, <1>2, <1>3 DEF IInv

\* The requests of a step: at most one slot changes, to Idle or to a request
\* that knows what it needs, and what the others know lasts.
LEMMA RequestsGoOn ==
  ASSUME IInv, Lasts, NEW r \in Requests, NEW q \in Request,
         req' = [req EXCEPT ![r] = q], Knows(q)'
  PROVE  RequestsKnow'
<1> SUFFICES ASSUME NEW s \in Requests PROVE Knows(req[s])'
  BY DEF RequestsKnow
<1>1. CASE s = r
  <2>1. req'[s] = q
    BY <1>1 DEF IInv, TypeOK
  <2>2. QED
    BY <2>1 DEF Knows
<1>2. CASE s # r
  <2>1. req'[s] = req[s] /\ req[s] \in Request
    BY <1>2 DEF IInv, TypeOK
  <2>2. Knows(req[s])
    BY DEF IInv, RequestsKnow
  <2>3. QED
    BY <2>1, <2>2 DEF Knows, Lasts, Request
<1>3. QED
  BY <1>1, <1>2

\* A slot that finishes has nothing left to know.
LEMMA FinishGoesOn ==
  ASSUME IInv, Lasts, NEW r \in Requests, Finish(r)
  PROVE  RequestsKnow' /\ req' \in [Requests -> Request]
<1>1. Knows(Idle)'
  BY DEF Knows, Idle
<1>2. RequestsKnow'
  BY <1>1, IdleType, RequestsGoOn DEF Finish
<1>3. req' \in [Requests -> Request]
  BY IdleType DEF Finish, IInv, TypeOK
<1>4. QED
  BY <1>2, <1>3

(***************************************************************************)
(* Reading.                                                                *)
(***************************************************************************)
\* The guards of a read establish what the request knows.
LEMMA ReadKnows ==
  ASSUME IInv, NEW r \in Requests, NEW u \in Users, Read(r, u)
  PROVE  \E q \in Request : Begin(r, q) /\ Knows(q)
<1> USE DEF IInv, TypeOK, Knows, Request, Ops, Idle
<1> DEFINE Goal == \E q \in Request : Begin(r, q) /\ Knows(q)
<1>1. ASSUME ReadLeave(r, u) PROVE Goal
  <2> DEFINE q == [Idle EXCEPT !.op = "leave", !.by = u]
  <2>1. space[u] = "deleted"
    <3>1. space[u] # "none"
      BY <1>1 DEF ReadLeave, Founded
    <3>2. ASSUME space[u] = "live" PROVE FALSE
      BY <1>1, <3>2 DEF ReadLeave, FounderIsAdmin, NotSoleAdmin, AdminsOf
    <3>3. QED
      BY <3>1, <3>2
  <2>2. q \in Request /\ Knows(q)
    BY <1>1, <2>1 DEF ReadLeave
  <2>3. QED
    BY <1>1, <2>2 DEF ReadLeave
<1>t. ASSUME NEW w \in Users, NEW target \in Users,
             role[w][target] # None, NotSoleAdmin(w, target)
      PROVE  target = w => space[w] = "deleted"
  <2>1. space[w] # "none"
    BY <1>t DEF Founded
  <2>2. target = w /\ space[w] = "live" => FALSE
    BY <1>t DEF FounderIsAdmin, NotSoleAdmin, AdminsOf
  <2>3. QED
    BY <2>1, <2>2
<1>2. ASSUME NEW w \in Users, NEW target \in Users, NEW new \in Grants,
             ReadChange(r, u, w, target, new)
      PROVE  Goal
  <2> DEFINE q == [Idle EXCEPT !.op = "change", !.by = u, !.ws = w,
                               !.target = target, !.new = new]
  <2>1. q \in Request /\ Knows(q)
    BY <1>2, <1>t DEF ReadChange, MayAdmin
  <2>2. QED
    BY <1>2, <2>1 DEF ReadChange
<1>3. ASSUME NEW w \in Users, NEW target \in Users, ReadRemove(r, u, w, target)
      PROVE  Goal
  <2> DEFINE q == [Idle EXCEPT !.op = "remove", !.by = u, !.ws = w,
                               !.target = target]
  <2>1. q \in Request /\ Knows(q)
    BY <1>3, <1>t DEF ReadRemove, MayAdmin
  <2>2. QED
    BY <1>3, <2>1 DEF ReadRemove
<1>4. ASSUME NEW w \in Users, NEW new \in Grants, NEW i \in Invites,
             ReadInvite(r, u, w, new, i)
      PROVE  Goal
  <2> DEFINE q == [Idle EXCEPT !.op = "invite", !.by = u, !.ws = w,
                               !.new = new, !.inv = i]
  <2>1. q \in Request /\ Knows(q)
    BY <1>4 DEF ReadInvite, MayAdmin
  <2>2. QED
    BY <1>4, <2>1 DEF ReadInvite
<1>5. ASSUME NEW i \in Invites, ReadRevoke(r, u, i) PROVE Goal
  <2> DEFINE q == [Idle EXCEPT !.op = "revoke", !.by = u, !.inv = i]
  <2>1. q \in Request /\ Knows(q)
    BY <1>5 DEF ReadRevoke, MayAdmin
  <2>2. QED
    BY <1>5, <2>1 DEF ReadRevoke
<1>6. ASSUME NEW i \in Invites, ReadAccept(r, u, i) PROVE Goal
  <2> DEFINE q == [Idle EXCEPT !.op = "accept", !.by = u, !.inv = i]
  <2>1. q \in Request /\ Knows(q)
    BY <1>6 DEF ReadAccept, Pending
  <2>2. QED
    BY <1>6, <2>1 DEF ReadAccept
<1>7. ASSUME NEW w \in Users, ReadClose(r, u, w) PROVE Goal
  <2> DEFINE q == [Idle EXCEPT !.op = "close", !.by = u, !.ws = w]
  <2>1. q \in Request /\ Knows(q)
    BY <1>7 DEF ReadClose, MayAdmin
  <2>2. QED
    BY <1>7, <2>1 DEF ReadClose
<1>8. QED
  BY <1>1, <1>2, <1>3, <1>4, <1>5, <1>6, <1>7 DEF Read

LEMMA ReadIInv ==
  ASSUME IInv, NEW r \in Requests, NEW u \in Users, Read(r, u)
  PROVE  IInv'
<1>1. PICK q \in Request : Begin(r, q) /\ Knows(q)
  BY ReadKnows
<1>2. UNCHANGED <<account, space, role, invite>>
  BY <1>1 DEF Begin
<1>3. Lasts
  BY <1>2 DEF Lasts
<1>4. Knows(q)'
  BY <1>1, <1>2 DEF Knows
<1>5. RequestsKnow'
  BY <1>1, <1>3, <1>4, RequestsGoOn DEF Begin
<1>6. TypeOK'
  BY <1>1 DEF Begin, IInv, TypeOK
<1>7. Founded' /\ FounderIsAdmin' /\ JoinedByInvite'
  BY <1>2 DEF IInv, Founded, FounderIsAdmin, JoinedByInvite
<1>8. QED
  BY <1>5, <1>6, <1>7 DEF IInv

(***************************************************************************)
(* Writing.                                                                *)
(***************************************************************************)
\* What a step owes to the invariant besides its requests.
Tables == Lasts /\ Founded' /\ FounderIsAdmin' /\ JoinedByInvite'

LEMMA RegisterIInv ==
  ASSUME IInv, NEW u \in Users, Register(u)
  PROVE  IInv'
<1> USE DEF IInv
<1>1. TypeOK'
  BY DEF Register, TypeOK, Roles
<1>2. space[u] = "none" /\ \A w \in Users : role[w][u] = None
  BY DEF Register, Founded
<1>3. Tables
  BY <1>2, NoneAssumption
     DEF Tables, Register, TypeOK, Founded, FounderIsAdmin, Lasts, JoinedByInvite
<1>4. RequestsKnow'
  <2> SUFFICES ASSUME NEW s \in Requests PROVE Knows(req[s])'
    BY DEF RequestsKnow
  <2>1. Knows(req[s]) /\ req[s] \in Request /\ req'[s] = req[s]
    BY DEF RequestsKnow, TypeOK, Register
  <2>2. QED
    BY <2>1, <1>3 DEF Knows, Tables, Lasts, Request
<1>5. QED
  BY <1>1, <1>3, <1>4 DEF Tables

\* An admin row is never the target of a change or a removal in flight while
\* the workspace is in use.
LEMMA AccountsAndMembers ==
  ASSUME IInv, NEW r \in Requests,
         CommitLeave(r) \/ CommitChange(r) \/ CommitRemove(r)
  PROVE  IInv'
<1> USE DEF IInv
<1> DEFINE q == req[r]
<1>k. Knows(q) /\ q \in Request
  BY DEF RequestsKnow, TypeOK
<1>f. Finish(r) /\ UNCHANGED <<space, invite>>
  BY DEF CommitLeave, CommitChange, CommitRemove
<1>1. CASE CommitLeave(r)
  <2>1. q.by \in Users /\ account[q.by] # "none" /\ space[q.by] = "deleted"
    BY <1>1, <1>k DEF CommitLeave, Knows
  <2>2. /\ account' = [account EXCEPT ![q.by] = "deleted"]
        /\ \A w, u \in Users : role'[w][u] = IF u = q.by THEN None ELSE role[w][u]
    BY <1>1 DEF CommitLeave, TypeOK
  <2>3. account' \in [Users -> {"none", "active", "deleted"}]
    BY <2>2 DEF TypeOK
  <2>4. role' \in [Users -> [Users -> Roles \cup {None}]]
    BY <1>1 DEF CommitLeave, TypeOK
  <2>5. Tables
    BY <2>1, <2>2, <1>f, NoneAssumption
       DEF Tables, TypeOK, Founded, FounderIsAdmin, Lasts, JoinedByInvite
  <2>6. QED
    BY <2>3, <2>4, <2>5, <1>f, FinishGoesOn DEF Tables, TypeOK
<1>2. CASE CommitChange(r)
  <2>1. /\ q.ws \in Users /\ q.target \in Users /\ q.new \in Grants
        /\ q.target = q.ws => space[q.ws] = "deleted"
    BY <1>2, <1>k DEF CommitChange, Knows
  <2>2. /\ role[q.ws][q.target] # None /\ account' = account
        /\ role' = [role EXCEPT ![q.ws][q.target] = q.new]
    BY <1>2 DEF CommitChange
  <2>3. role' \in [Users -> [Users -> Roles \cup {None}]]
    BY <2>1, <2>2 DEF TypeOK, Roles
  <2>4. \A w, u \in Users :
          role'[w][u] = IF w = q.ws /\ u = q.target THEN q.new ELSE role[w][u]
    BY <2>1, <2>2 DEF TypeOK
  <2>a. q.new # "admin" /\ q.new # None
    BY <2>1, GrantAssumption, NoneAssumption
  <2>5. Founded' /\ Lasts /\ JoinedByInvite'
    BY <2>1, <2>2, <2>4, <1>f DEF Founded, Lasts, JoinedByInvite
  <2>6. FounderIsAdmin'
    BY <2>1, <2>2, <2>4, <2>a, <1>f DEF FounderIsAdmin
  <2>7. QED
    BY <2>2, <2>3, <2>5, <2>6, <1>f, FinishGoesOn DEF TypeOK
<1>3. CASE CommitRemove(r)
  <2>1. /\ q.ws \in Users /\ q.target \in Users
        /\ q.target = q.ws => space[q.ws] = "deleted"
    BY <1>3, <1>k DEF CommitRemove, Knows
  <2>2. account' = account /\ role' = [role EXCEPT ![q.ws][q.target] = None]
    BY <1>3 DEF CommitRemove
  <2>3. role' \in [Users -> [Users -> Roles \cup {None}]]
    BY <2>1, <2>2 DEF TypeOK
  <2>4. \A w, u \in Users :
          role'[w][u] = IF w = q.ws /\ u = q.target THEN None ELSE role[w][u]
    BY <2>1, <2>2 DEF TypeOK
  <2>5. Tables
    BY <2>1, <2>2, <2>4, <1>f, NoneAssumption
       DEF Tables, TypeOK, Founded, FounderIsAdmin, Lasts, JoinedByInvite
  <2>6. QED
    BY <2>2, <2>3, <2>5, <1>f, FinishGoesOn DEF Tables, TypeOK
<1>4. QED
  BY <1>1, <1>2, <1>3

LEMMA InvitesIInv ==
  ASSUME IInv, NEW r \in Requests,
         (\E mail \in Emails : CommitInvite(r, mail)) \/ CommitRevoke(r) \/ CommitAccept(r)
  PROVE  IInv'
<1> USE DEF IInv
<1> DEFINE q == req[r]
<1>k. Knows(q) /\ q \in Request
  BY DEF RequestsKnow, TypeOK
<1>f. Finish(r) /\ UNCHANGED <<account, space>>
  BY DEF CommitInvite, CommitRevoke, CommitAccept
<1>1. ASSUME NEW mail \in Emails, CommitInvite(r, mail) PROVE IInv'
  <2> DEFINE new == [NoInvite EXCEPT !.ws = q.ws, !.email = mail, !.role = q.new]
  <2>1. /\ q.ws \in Users /\ q.new \in Grants /\ q.inv \in Invites
        /\ space[q.ws] # "none"
    BY <1>1, <1>k DEF CommitInvite, Knows
  <2>2. /\ invite[q.inv].ws = None /\ role' = role
        /\ invite' = [invite EXCEPT ![q.inv] = new]
    BY <1>1 DEF CommitInvite
  <2>3. /\ new \in Invite /\ new.ws = q.ws /\ new.role = q.new
        /\ new.usedBy = None
    BY <2>1 DEF NoInvite, Invite
  <2>4. invite' \in [Invites -> Invite]
    BY <2>2, <2>3 DEF TypeOK
  <2>5. \A i \in Invites : invite'[i] = IF i = q.inv THEN new ELSE invite[i]
    BY <2>2 DEF TypeOK
  <2> HIDE DEF new
  <2>6. Lasts
    BY <2>2, <2>5, <1>f DEF Lasts
  <2>7. Founded'
    BY <2>1, <2>2, <2>3, <2>5, <1>f DEF Founded
  <2>8. FounderIsAdmin'
    BY <2>2, <1>f DEF FounderIsAdmin
  <2>9. JoinedByInvite'
    <3> SUFFICES ASSUME NEW w \in Users, NEW u \in Users, u # w, role[w][u] # None
                 PROVE  \E i \in Invites :
                          /\ invite'[i].ws = w /\ invite'[i].email = Email[u]
                          /\ invite'[i].usedBy # None /\ ~invite'[i].revoked
      BY <2>2 DEF JoinedByInvite
    <3>1. PICK i \in Invites : /\ invite[i].ws = w /\ invite[i].email = Email[u]
                               /\ invite[i].usedBy # None /\ ~invite[i].revoked
      BY DEF JoinedByInvite
    <3>2. i # q.inv
      BY <3>1, <2>2, NoneAssumption
    <3>3. QED
      BY <3>1, <3>2, <2>5
  <2>10. QED
    BY <2>2, <2>4, <2>6, <2>7, <2>8, <2>9, <1>f, FinishGoesOn DEF TypeOK
<1>2. CASE CommitRevoke(r)
  <2>1. q.inv \in Invites
    BY <1>2, <1>k DEF CommitRevoke, Knows
  <2>2. /\ invite[q.inv].usedBy = None /\ role' = role
        /\ invite' = [invite EXCEPT ![q.inv].revoked = TRUE]
    BY <1>2 DEF CommitRevoke, UsedOrRevoked
  <2>3. invite' \in [Invites -> Invite]
    <3>1. invite[q.inv] \in Invite
      BY <2>1 DEF TypeOK
    <3>2. [invite[q.inv] EXCEPT !.revoked = TRUE] \in Invite
      BY <3>1 DEF Invite
    <3>3. QED
      BY <2>2, <3>2 DEF TypeOK
  <2>4. \A i \in Invites :
          /\ invite'[i].ws = invite[i].ws /\ invite'[i].email = invite[i].email
          /\ invite'[i].role = invite[i].role /\ invite'[i].usedBy = invite[i].usedBy
          /\ i # q.inv => invite'[i].revoked = invite[i].revoked
    BY <2>1, <2>2 DEF TypeOK, Invite
  <2>5. Tables
    BY <2>2, <2>4, <1>f
       DEF Tables, Founded, FounderIsAdmin, Lasts, JoinedByInvite
  <2>6. QED
    BY <2>2, <2>3, <2>5, <1>f, FinishGoesOn DEF Tables, TypeOK
<1>3. CASE CommitAccept(r)
  <2> DEFINE w == invite[q.inv].ws
             u == q.by
  <2>1. /\ q.inv \in Invites /\ u \in Users /\ account[u] # "none"
        /\ w # None /\ invite[q.inv].email = Email[u]
    BY <1>3, <1>k DEF CommitAccept, Knows
  <2>2. w \in Users /\ space[w] # "none" /\ invite[q.inv].role \in Grants
    BY <2>1 DEF TypeOK, Invite, Founded
  <2>3. /\ role[w][u] = None /\ invite[q.inv].revoked = FALSE
        /\ role' = [role EXCEPT ![w][u] = invite[q.inv].role]
        /\ invite' = [invite EXCEPT ![q.inv].usedBy = u]
    BY <1>3, <2>1 DEF CommitAccept, UsedOrRevoked, TypeOK, Invite
  <2>4. invite' \in [Invites -> Invite]
    <3>1. invite[q.inv] \in Invite
      BY <2>1 DEF TypeOK
    <3>2. [invite[q.inv] EXCEPT !.usedBy = u] \in Invite
      BY <2>1, <3>1 DEF Invite
    <3>3. QED
      BY <2>3, <3>2 DEF TypeOK
  <2>5. role' \in [Users -> [Users -> Roles \cup {None}]]
    BY <2>1, <2>2, <2>3 DEF TypeOK, Roles
  <2>6. \A i \in Invites :
          /\ invite'[i].ws = invite[i].ws /\ invite'[i].email = invite[i].email
          /\ invite'[i].role = invite[i].role /\ invite'[i].revoked = invite[i].revoked
          /\ invite'[i].usedBy = IF i = q.inv THEN u ELSE invite[i].usedBy
    BY <2>1, <2>3 DEF TypeOK, Invite
  <2>7. \A ws, v \in Users :
          role'[ws][v] = IF ws = w /\ v = u THEN invite[q.inv].role ELSE role[ws][v]
    BY <2>1, <2>2, <2>3 DEF TypeOK
  <2>a. invite[q.inv].role # "admin" /\ u # None
    BY <2>1, <2>2, GrantAssumption, NoneAssumption
  <2>8. Lasts /\ Founded'
    BY <2>1, <2>2, <2>6, <2>7, <1>f DEF Founded, Lasts
  <2>9. FounderIsAdmin'
    BY <2>2, <2>3, <2>7, <2>a, <1>f, NoneAssumption DEF FounderIsAdmin
  <2>10. JoinedByInvite'
    <3> SUFFICES ASSUME NEW ws \in Users, NEW v \in Users, v # ws, role'[ws][v] # None
                 PROVE  \E i \in Invites :
                          /\ invite'[i].ws = ws /\ invite'[i].email = Email[v]
                          /\ invite'[i].usedBy # None /\ ~invite'[i].revoked
      BY DEF JoinedByInvite
    <3>1. CASE ws = w /\ v = u
      BY <3>1, <2>1, <2>3, <2>6, <2>a
    <3>2. CASE ~(ws = w /\ v = u)
      BY <3>2, <2>6, <2>7, <2>a DEF JoinedByInvite
    <3>3. QED
      BY <3>1, <3>2
  <2>11. QED
    BY <2>4, <2>5, <2>8, <2>9, <2>10, <1>f, FinishGoesOn DEF TypeOK
<1>4. QED
  BY <1>1, <1>2, <1>3

LEMMA OtherIInv ==
  ASSUME IInv,
         \/ \E r \in Requests : CommitClose(r) \/ Rollback(r)
         \/ \E i \in Invites : Expire(i)
         \/ UNCHANGED vars
  PROVE  IInv'
<1> USE DEF IInv
<1>1. ASSUME NEW r \in Requests, CommitClose(r) PROVE IInv'
  <2>1. req[r].ws \in Users /\ space[req[r].ws] # "none"
    BY <1>1 DEF CommitClose, RequestsKnow, Knows
  <2>2. Tables
    BY <1>1, <2>1
       DEF CommitClose, Tables, TypeOK, Founded, FounderIsAdmin, Lasts, JoinedByInvite
  <2>3. QED
    BY <1>1, <2>1, <2>2, FinishGoesOn DEF CommitClose, Tables, TypeOK
<1>2. ASSUME NEW r \in Requests, Rollback(r) PROVE IInv'
  <2>1. Tables
    BY <1>2 DEF Rollback, Tables, Founded, FounderIsAdmin, Lasts, JoinedByInvite
  <2>2. QED
    BY <1>2, <2>1, FinishGoesOn DEF Rollback, Tables, TypeOK
<1>3. ASSUME NEW i \in Invites, Expire(i) PROVE IInv'
  <2>1. invite' \in [Invites -> Invite]
    <3>1. [invite[i] EXCEPT !.expired = TRUE] \in Invite
      BY DEF TypeOK, Invite
    <3>2. QED
      BY <1>3, <3>1 DEF Expire, TypeOK
  <2>2. \A j \in Invites :
          /\ invite'[j].ws = invite[j].ws /\ invite'[j].email = invite[j].email
          /\ invite'[j].role = invite[j].role /\ invite'[j].usedBy = invite[j].usedBy
          /\ invite'[j].revoked = invite[j].revoked
    BY <1>3 DEF Expire, TypeOK, Invite
  <2>3. Founded' /\ FounderIsAdmin' /\ JoinedByInvite'
    BY <1>3, <2>2 DEF Expire, Founded, FounderIsAdmin, JoinedByInvite
  <2>4. RequestsKnow'
    BY <1>3, <2>2 DEF Expire, RequestsKnow, Knows
  <2>5. QED
    BY <1>3, <2>1, <2>3, <2>4 DEF Expire, TypeOK
<1>4. CASE UNCHANGED vars
  BY <1>4 DEF vars, TypeOK, Founded, FounderIsAdmin, JoinedByInvite, RequestsKnow, Knows
<1>5. QED
  BY <1>1, <1>2, <1>3, <1>4

LEMMA NextIInv == IInv /\ [Next]_vars => IInv'
<1> SUFFICES ASSUME IInv, [Next]_vars PROVE IInv'
  OBVIOUS
<1>1. ASSUME NEW r \in Requests, Commit(r) PROVE IInv'
  BY <1>1, AccountsAndMembers, InvitesIInv, OtherIInv DEF Commit
<1>2. QED
  BY <1>1, ReadIInv, RegisterIInv, OtherIInv DEF Next

(***************************************************************************)
(* The theorems.                                                           *)
(***************************************************************************)
\* The inductive invariant holds in every state.
THEOREM Invariance == Spec => []IInv
  BY InitIInv, NextIInv, PTL DEF Spec

\* Every variable keeps its type (the tables of the schema).
THEOREM TypeCorrect == Spec => []TypeOK
<1>1. IInv => TypeOK
  BY DEF IInv
<1>2. QED
  BY <1>1, Invariance, PTL

\* A workspace in use has an active admin, whatever requests race: the guards
\* of delete_me, change_role and remove_member are enough without a lock.
THEOREM NeverWithoutAdmin == Spec => []LiveHasAdmin
<1>1. IInv => LiveHasAdmin
  BY DEF IInv, FounderIsAdmin, LiveHasAdmin
<1>2. QED
  BY <1>1, Invariance, PTL

\* Members of somebody else's workspace hold an accepted, unrevoked invite
\* (accept_invite against revoke_invite: chk_inv_not_both decides).
THEOREM MembersWereInvited == Spec => []JoinedByInvite
<1>1. IInv => JoinedByInvite
  BY DEF IInv
<1>2. QED
  BY <1>1, Invariance, PTL

(***************************************************************************)
(* Who enters.                                                             *)
(***************************************************************************)
\* A step in which a user gets a role in a workspace founded by another.
Enters(w, u) == role[w][u] = None /\ role'[w][u] # None /\ u # w

\* A role change and a removal write to a member only.
LEMMA OutStaysOut ==
  ASSUME IInv, NEW r \in Requests, CommitChange(r) \/ CommitRemove(r),
         NEW w \in Users, NEW u \in Users, role[w][u] = None
  PROVE  role'[w][u] = None
<1> DEFINE q == req[r]
<1>1. q.ws \in Users /\ q.target \in Users
  BY DEF CommitChange, CommitRemove, IInv, RequestsKnow, Knows
<1>2. CASE CommitChange(r)
  <2>1. role' = [role EXCEPT ![q.ws][q.target] = q.new] /\ role[q.ws][q.target] # None
    BY <1>2 DEF CommitChange
  <2>2. QED
    BY <1>1, <2>1 DEF IInv, TypeOK
<1>3. CASE CommitRemove(r)
  <2>1. role' = [role EXCEPT ![q.ws][q.target] = None]
    BY <1>3 DEF CommitRemove
  <2>2. QED
    BY <1>1, <2>1 DEF IInv, TypeOK
<1>4. QED
  BY <1>2, <1>3

LEMMA OnlyAcceptEnters ==
  ASSUME IInv, [Next]_vars, NEW w \in Users, NEW u \in Users, Enters(w, u)
  PROVE  \E r \in Requests : /\ req[r].op = "accept" /\ req[r].by = u
                             /\ invite[req[r].inv].ws = w /\ req'[r] = Idle
<1> USE DEF IInv, Enters
<1>1. ASSUME NEW v \in Users, Register(v) PROVE FALSE
  BY <1>1 DEF Register, TypeOK
<1>2. ASSUME NEW r \in Requests, NEW v \in Users, Read(r, v) PROVE FALSE
  BY <1>2, ReadKnows DEF Begin
<1>3. ASSUME NEW r \in Requests, CommitLeave(r) PROVE FALSE
  BY <1>3 DEF CommitLeave, TypeOK
<1>4. ASSUME NEW r \in Requests, CommitChange(r) \/ CommitRemove(r) PROVE FALSE
  BY <1>4, OutStaysOut
<1>5. ASSUME \/ \E r \in Requests : \/ \E mail \in Emails : CommitInvite(r, mail)
                                   \/ CommitRevoke(r) \/ CommitClose(r) \/ Rollback(r)
             \/ \E i \in Invites : Expire(i)
             \/ UNCHANGED vars
      PROVE  FALSE
  BY <1>5 DEF CommitInvite, CommitRevoke, CommitClose, Rollback, Expire, vars
<1>6. ASSUME NEW r \in Requests, CommitAccept(r)
      PROVE  /\ req[r].op = "accept" /\ req[r].by = u
             /\ invite[req[r].inv].ws = w /\ req'[r] = Idle
  <2> DEFINE i == req[r].inv
             ws == invite[i].ws
             v == req[r].by
  <2>1. i \in Invites /\ v \in Users /\ ws # None
    BY <1>6 DEF CommitAccept, RequestsKnow, Knows
  <2>2. ws \in Users
    BY <2>1 DEF TypeOK, Invite
  <2>3. role' = [role EXCEPT ![ws][v] = invite[i].role]
    BY <1>6 DEF CommitAccept
  <2>4. w = ws /\ u = v
    BY <2>1, <2>2, <2>3 DEF TypeOK
  <2>5. QED
    BY <1>6, <2>4 DEF CommitAccept, Finish, TypeOK
<1>7. QED
  BY <1>1, <1>2, <1>3, <1>4, <1>5, <1>6 DEF Next, Commit

\* Only accepting an invite brings a user into a workspace of another: a role
\* change that read the member before the removal updates no row.
THEOREM OnlyInvitesAdmit == Spec => EntersByAccept
<1>1. IInv /\ [Next]_vars =>
        [\A w, u \in Users :
          role[w][u] = None /\ role'[w][u] # None /\ u # w
          => \E r \in Requests : /\ req[r].op = "accept" /\ req[r].by = u
                                 /\ invite[req[r].inv].ws = w /\ req'[r] = Idle]_vars
  BY OnlyAcceptEnters DEF Enters
<1>2. QED
  BY <1>1, Invariance, PTL DEF Spec, EntersByAccept

(***************************************************************************)
(* What an accept that overlaps a deletion can break, and that nothing else *)
(* does.                                                                   *)
(***************************************************************************)
LEMMA DeletedStayOut ==
  ASSUME IInv, [Next]_vars, DeletedAccountsOut, ~StaleAccept
  PROVE  DeletedAccountsOut'
<1>1. ASSUME NEW u \in Users, Register(u)
      PROVE  DeletedAccountsOut'
  <2>1. \A v \in Users : account[v] = "deleted" => v # u
    BY <1>1 DEF Register
  <2>2. QED
    BY <1>1, <2>1 DEF Register, DeletedAccountsOut, IInv, TypeOK
<1>2. ASSUME NEW r \in Requests, NEW u \in Users, Read(r, u)
      PROVE  DeletedAccountsOut'
  BY <1>2, ReadKnows DEF IInv, Begin, DeletedAccountsOut
<1>3. ASSUME NEW r \in Requests, CommitLeave(r)
      PROVE  DeletedAccountsOut'
  BY <1>3 DEF CommitLeave, DeletedAccountsOut, IInv, TypeOK
<1>4. ASSUME NEW r \in Requests, CommitChange(r) \/ CommitRemove(r)
      PROVE  DeletedAccountsOut'
  BY <1>4, OutStaysOut DEF CommitChange, CommitRemove, DeletedAccountsOut
<1>5. ASSUME NEW r \in Requests,
             \/ \E mail \in Emails : CommitInvite(r, mail)
             \/ CommitRevoke(r) \/ CommitClose(r) \/ Rollback(r)
      PROVE  DeletedAccountsOut'
  BY <1>5 DEF CommitInvite, CommitRevoke, CommitClose, Rollback, DeletedAccountsOut
<1>6. ASSUME NEW r \in Requests, CommitAccept(r)
      PROVE  DeletedAccountsOut'
  <2>1. account[req[r].by] = "active" /\ req[r].by \in Users
    BY <1>6 DEF StaleAccept, CommitAccept, IInv, RequestsKnow, Knows
  <2>2. ASSUME NEW w \in Users, NEW u \in Users, account[u] = "deleted"
        PROVE  role'[w][u] = None
    <3>1. u # req[r].by /\ role[w][u] = None
      BY <2>1, <2>2 DEF DeletedAccountsOut
    <3>2. QED
      BY <1>6, <3>1 DEF CommitAccept, IInv, TypeOK
  <2>3. QED
    BY <1>6, <2>2 DEF CommitAccept, DeletedAccountsOut
<1>7. ASSUME NEW i \in Invites, Expire(i)
      PROVE  DeletedAccountsOut'
  BY <1>7 DEF Expire, DeletedAccountsOut
<1>8. CASE UNCHANGED vars
  BY <1>8 DEF vars, DeletedAccountsOut
<1>9. QED
  BY <1>1, <1>2, <1>3, <1>4, <1>5, <1>6, <1>7, <1>8 DEF Next, Commit

\* Nothing but the commit of an accept whose account was deleted after it was read
\* leaves a deleted account in a workspace (delete_me and accept_invite).
THEOREM OnlyStaleReturns == Spec => ReturnsByStaleAccept
<1>1. IInv /\ [Next]_vars => [DeletedAccountsOut => DeletedAccountsOut' \/ StaleAccept]_vars
  BY DeletedStayOut
<1>2. QED
  BY <1>1, Invariance, PTL DEF Spec, ReturnsByStaleAccept
===============================================================================
