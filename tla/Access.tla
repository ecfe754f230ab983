-------------------------------- MODULE Access --------------------------------
(***************************************************************************)
(* Who may do what: accounts, workspaces, memberships and invites.         *)
(*                                                                         *)
(* Only register creates a workspace, one for each account, so a workspace *)
(* is named by the user who founded it.  Requests read and commit in two   *)
(* steps, as in Timesheet: guards are checked on the rows as read, UPDATEs *)
(* go to the row by its key, and the CHECK on invites, the primary key of  *)
(* workspace_members and the unique index on emails are all that is left   *)
(* at commit.                                                              *)
(***************************************************************************)
EXTENDS Integers, FiniteSets

CONSTANTS
    Users,        \* ids of users rows, never reused
    Emails,
    Email,        \* Email[u]: the address u registers with
    SuperAdmins,  \* users.is_superadmin, set in the database only
    Grants,       \* the roles of invites and role changes that are modelled
    Invites,      \* ids of invites rows
    Requests,     \* slots for requests in flight
    None          \* NULL

ASSUME EmailAssumption == Email \in [Users -> Emails]
ASSUME SuperAssumption == SuperAdmins \subseteq Users
ASSUME GrantAssumption == Grants \subseteq {"manager", "member", "viewer"}
ASSUME NoneAssumption == None \notin Users \cup Emails \cup Invites \cup Grants \cup {"admin"}

VARIABLES
    account,   \* users.is_active; "none" before the INSERT
    space,     \* workspaces.deleted_at of the workspace founded by a user
    role,      \* role[w][u]: workspace_members.role, None without a row
    invite,    \* the invites rows
    req        \* the requests in flight, with their local variables

vars == <<account, space, role, invite, req>>

Roles == Grants \cup {"admin"}

\* usedBy: used and used_by_user_id; expired: expires_at has passed.
Invite == [ws : Users \cup {None}, email : Emails \cup {None},
           role : Grants \cup {None}, usedBy : Users \cup {None},
           revoked : BOOLEAN, expired : BOOLEAN]

NoInvite == [ws |-> None, email |-> None, role |-> None, usedBy |-> None,
             revoked |-> FALSE, expired |-> FALSE]

Ops == {"idle", "leave", "change", "remove", "invite", "revoke", "accept", "close"}

\* by: the caller; ws: the workspace of the path; target, new, inv: the
\* arguments.
Request == [op : Ops, by : Users \cup {None}, ws : Users \cup {None},
            target : Users \cup {None}, new : Grants \cup {None},
            inv : Invites \cup {None}]

Idle == [op |-> "idle", by |-> None, ws |-> None, target |-> None,
         new |-> None, inv |-> None]

Begin(r, q) ==
    /\ req[r].op = "idle"
    /\ req' = [req EXCEPT ![r] = q]
    /\ UNCHANGED <<account, space, role, invite>>

Finish(r) == req' = [req EXCEPT ![r] = Idle]

Init ==
    /\ account = [u \in Users |-> "none"]
    /\ space = [w \in Users |-> "none"]
    /\ role = [w \in Users |-> [u \in Users |-> None]]
    /\ invite = [i \in Invites |-> NoInvite]
    /\ req = [r \in Requests |-> Idle]

(***************************************************************************)
(* Guards.                                                                 *)
(***************************************************************************)
\* require_role("admin"), with the super admin's bypass
MayAdmin(u, w) ==
    /\ account[u] = "active"
    /\ u \in SuperAdmins \/ role[w][u] = "admin"

\* _count_admins
AdminsOf(w) == {u \in Users : role[w][u] = "admin"}

\* mutant: the guard lets the last admin go
MutNotSoleAdmin(w, u) == role[w][u] = "admin" => AdminsOf(w) # {}

\* the target may lose its role: 403 SOLE_ADMIN otherwise
NotSoleAdmin(w, u) ==
    role[w][u] = "admin" => \E other \in AdminsOf(w) : other # u

Pending(i) == invite[i].ws # None /\ invite[i].usedBy = None /\ ~invite[i].revoked

\* mutant: CHECK chk_inv_not_both is missing
MutUsedOrRevoked(used, revoked) == TRUE

\* chk_inv_not_both
UsedOrRevoked(used, revoked) == ~(used /\ revoked)

(***************************************************************************)
(* Accounts.                                                               *)
(***************************************************************************)
\* register: ix_users_email_lower, the only guard left at commit, is also its
\* first check.
Register(u) ==
    /\ account[u] = "none"
    /\ \A v \in Users : Email[v] = Email[u] => account[v] # "active"
    /\ account' = [account EXCEPT ![u] = "active"]
    /\ space' = [space EXCEPT ![u] = "live"]
    /\ role' = [role EXCEPT ![u][u] = "admin"]
    /\ UNCHANGED <<invite, req>>

\* delete_me: blocked by a workspace that is not deleted and has one admin
ReadLeave(r, u) ==
    /\ account[u] = "active"
    /\ \A w \in Users : space[w] # "deleted" => NotSoleAdmin(w, u)
    /\ Begin(r, [Idle EXCEPT !.op = "leave", !.by = u])

\* mutant: the memberships stay behind
MutCommitLeave(r) ==
    /\ req[r].op = "leave"
    /\ account' = [account EXCEPT ![req[r].by] = "deleted"]
    /\ Finish(r)
    /\ UNCHANGED <<space, role, invite>>

CommitLeave(r) ==
    /\ req[r].op = "leave"
    /\ account' = [account EXCEPT ![req[r].by] = "deleted"]
    /\ role' = [w \in Users |-> [role[w] EXCEPT ![req[r].by] = None]]
    /\ Finish(r)
    /\ UNCHANGED <<space, invite>>

(***************************************************************************)
(* Members.                                                                *)
(***************************************************************************)
\* A change to the role that was read writes nothing.
ReadChange(r, u, w, target, new) ==
    /\ MayAdmin(u, w)
    /\ role[w][target] \notin {None, new} /\ NotSoleAdmin(w, target)
    /\ Begin(r, [Idle EXCEPT !.op = "change", !.by = u, !.ws = w,
                             !.target = target, !.new = new])

\* mutant: the role is written whether or not the member is still there
MutCommitChange(r) ==
    LET q == req[r] IN
    /\ q.op = "change"
    /\ role' = [role EXCEPT ![q.ws][q.target] = q.new]
    /\ Finish(r)
    /\ UNCHANGED <<account, space, invite>>

CommitChange(r) ==
    LET q == req[r] IN
    /\ q.op = "change" /\ role[q.ws][q.target] # None
    /\ role' = [role EXCEPT ![q.ws][q.target] = q.new]
    /\ Finish(r)
    /\ UNCHANGED <<account, space, invite>>

ReadRemove(r, u, w, target) ==
    /\ MayAdmin(u, w)
    /\ role[w][target] # None /\ NotSoleAdmin(w, target)
    /\ Begin(r, [Idle EXCEPT !.op = "remove", !.by = u, !.ws = w,
                             !.target = target])

CommitRemove(r) ==
    LET q == req[r] IN
    /\ q.op = "remove"
    /\ role' = [role EXCEPT ![q.ws][q.target] = None]
    /\ Finish(r)
    /\ UNCHANGED <<account, space, invite>>

(***************************************************************************)
(* Invites.                                                                *)
(***************************************************************************)
ReadInvite(r, u, w, new, i) ==
    /\ MayAdmin(u, w) /\ space[w] = "live"
    /\ Begin(r, [Idle EXCEPT !.op = "invite", !.by = u, !.ws = w,
                             !.new = new, !.inv = i])

CommitInvite(r, mail) ==
    LET q == req[r] IN
    /\ q.op = "invite" /\ invite[q.inv].ws = None
    /\ invite' = [invite EXCEPT ![q.inv] =
                    [NoInvite EXCEPT !.ws = q.ws, !.email = mail, !.role = q.new]]
    /\ Finish(r)
    /\ UNCHANGED <<account, space, role>>

ReadRevoke(r, u, i) ==
    /\ Pending(i) /\ MayAdmin(u, invite[i].ws)
    /\ Begin(r, [Idle EXCEPT !.op = "revoke", !.by = u, !.inv = i])

CommitRevoke(r) ==
    LET i == req[r].inv IN
    /\ req[r].op = "revoke"
    /\ UsedOrRevoked(invite[i].usedBy # None, TRUE)
    /\ invite' = [invite EXCEPT ![i].revoked = TRUE]
    /\ Finish(r)
    /\ UNCHANGED <<account, space, role>>

ReadAccept(r, u, i) ==
    /\ account[u] = "active"
    /\ Pending(i) /\ ~invite[i].expired
    /\ invite[i].email = Email[u]
    /\ role[invite[i].ws][u] = None
    /\ Begin(r, [Idle EXCEPT !.op = "accept", !.by = u, !.inv = i])

\* The primary key of workspace_members refuses a second row.
CommitAccept(r) ==
    LET u == req[r].by
        i == req[r].inv
        w == invite[i].ws IN
    /\ req[r].op = "accept"
    /\ role[w][u] = None
    /\ UsedOrRevoked(TRUE, invite[i].revoked)
    /\ role' = [role EXCEPT ![w][u] = invite[i].role]
    /\ invite' = [invite EXCEPT ![i].usedBy = u]
    /\ Finish(r)
    /\ UNCHANGED <<account, space>>

(***************************************************************************)
(* Closing a workspace, time, and failure.                                 *)
(***************************************************************************)
ReadClose(r, u, w) ==
    /\ MayAdmin(u, w) /\ space[w] = "live"
    /\ Begin(r, [Idle EXCEPT !.op = "close", !.by = u, !.ws = w])

CommitClose(r) ==
    /\ req[r].op = "close"
    /\ space' = [space EXCEPT ![req[r].ws] = "deleted"]
    /\ Finish(r)
    /\ UNCHANGED <<account, role, invite>>

Expire(i) ==
    /\ invite[i].ws # None /\ ~invite[i].expired
    /\ invite' = [invite EXCEPT ![i].expired = TRUE]
    /\ UNCHANGED <<account, space, role, req>>

Rollback(r) ==
    /\ req[r].op # "idle"
    /\ Finish(r)
    /\ UNCHANGED <<account, space, role, invite>>

Read(r, u) ==
    \/ ReadLeave(r, u)
    \/ \E w, target \in Users : \/ \E new \in Grants : ReadChange(r, u, w, target, new)
                                \/ ReadRemove(r, u, w, target)
    \/ \E w \in Users, new \in Grants, i \in Invites : ReadInvite(r, u, w, new, i)
    \/ \E i \in Invites : ReadRevoke(r, u, i) \/ ReadAccept(r, u, i)
    \/ \E w \in Users : ReadClose(r, u, w)

Commit(r) ==
    \/ CommitLeave(r)
    \/ CommitChange(r)
    \/ CommitRemove(r)
    \/ \E mail \in Emails : CommitInvite(r, mail)
    \/ CommitRevoke(r)
    \/ CommitAccept(r)
    \/ CommitClose(r)

Next ==
    \/ \E u \in Users : Register(u)
    \/ \E r \in Requests, u \in Users : Read(r, u)
    \/ \E r \in Requests : Commit(r) \/ Rollback(r)
    \/ \E i \in Invites : Expire(i)

Spec == Init /\ [][Next]_vars

(***************************************************************************)
(* Properties that hold however many requests are in flight.               *)
(***************************************************************************)
TypeOK ==
    /\ account \in [Users -> {"none", "active", "deleted"}]
    /\ space \in [Users -> {"none", "live", "deleted"}]
    /\ role \in [Users -> [Users -> Roles \cup {None}]]
    /\ invite \in [Invites -> Invite]
    /\ req \in [Requests -> Request]

\* A workspace in use always has somebody who can administer it: no sequence
\* of demotions, removals and deleted accounts leaves it without an active
\* admin.
LiveHasAdmin ==
    \A w \in Users : space[w] = "live" =>
        \E u \in Users : role[w][u] = "admin" /\ account[u] = "active"

\* Nobody is in a workspace of somebody else without an invite that was sent
\* to their address, was accepted and was never revoked.
JoinedByInvite ==
    \A w, u \in Users : u # w /\ role[w][u] # None =>
        \E i \in Invites : /\ invite[i].ws = w /\ invite[i].email = Email[u]
                           /\ invite[i].usedBy # None /\ ~invite[i].revoked

\* Whoever is outside a workspace gets in by accepting an invite only: no
\* stale role change brings a removed member back.
EntersByAccept ==
    [][\A w, u \in Users :
          role[w][u] = None /\ role'[w][u] # None /\ u # w
          => \E r \in Requests : /\ req[r].op = "accept" /\ req[r].by = u
                                 /\ invite[req[r].inv].ws = w /\ req'[r] = Idle]_vars

\* A deleted account is in no workspace.
DeletedAccountsOut ==
    \A w, u \in Users : account[u] = "deleted" => role[w][u] = None

\* The account that the accept has read as active is not any more.
StaleAccept == \E r \in Requests : CommitAccept(r) /\ account[req[r].by] # "active"

\* Deleting an account removes it from every workspace, and nothing brings it back
\* but the commit of an accept that read the account before: no invite, role change,
\* removal or deletion that overlaps does (delete_me and accept_invite).
ReturnsByStaleAccept == [][DeletedAccountsOut => DeletedAccountsOut' \/ StaleAccept]_vars

(***************************************************************************)
(* Of requests that run one after another.                                 *)
(***************************************************************************)
\* An invite link admits one account.
SingleUse ==
    [][\A i \in Invites : invite[i].usedBy # None
                            => invite'[i].usedBy = invite[i].usedBy]_vars
===============================================================================
