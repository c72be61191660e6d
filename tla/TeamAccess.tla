----------------------------- MODULE TeamAccess -----------------------------
(***************************************************************************)
(* Workspaces, members, sessions and federated logins                      *)
(* (team_identity.py, auth.py, auth_state_sqlite.py, oidc_federation.py    *)
(* and the routes of main.py that use them).                               *)
(*                                                                         *)
(* The middleware checks a session and awaits the route; the route works   *)
(* with the session it was given and reads the membership again.  Between  *)
(* the two other requests run.  A route body has no await, so it is one    *)
(* step, but it writes two databases and one file per project, asset and   *)
(* collection of views, and any of these writes may fail: a step that is   *)
(* cut short keeps what was written before and loses the transaction that  *)
(* was not committed.  A stop of the process at that point is the cut step *)
(* followed by Restart.                                                    *)
(*                                                                         *)
(* Sessions and invitations that are revoked, accepted or expired are      *)
(* never looked at again and are left out of the state.  "epoch" is a      *)
(* history variable: it counts the changes of a membership that were       *)
(* acknowledged to another administrator.                                  *)
(***************************************************************************)
EXTENDS Absence, Integers, FiniteSets, Sequences

CONSTANTS
    Names,             \* usernames that may be invited
    Subjects,          \* subjects of the identity provider
    Projects, Assets,  \* resources that have responsibles
    OrgOf,             \* resource -> workspace
    Accounts,          \* usernames of the accounts present at the start
    Members,           \* <<workspace, account>> -> role, their memberships
    Responsibles,      \* resource -> its responsibles at the start
    Owners,            \* <<workspace, account>> with saved views at the start
    Federated,         \* subject -> account, the federated identities at the start
    AssignedRoles,     \* roles that are given (administrator, maintainer, reader)
    MaxUsers,          \* accounts besides the bootstrap administrator
    MaxOrgs,           \* workspaces, the first is local-admin
    MaxSessions,       \* sessions at a time
    MaxRequests,       \* requests between the middleware and their route
    MaxRevisions,      \* entries of a responsibility history (100 and 500)
    MaxChanges,        \* routes and callbacks that change something (a model bound)
    MaxAccessFaults          \* writes that fail (a model bound)

Bootstrap == 0
LocalAdmin == 1
OidcOrg == LocalAdmin
Resources == Projects \cup Assets
Roles == AssignedRoles \cup {"administrator"}

\* An installation in use: its workspaces are numbered, and each has an administrator;
\* responsibles and owners of views are members.
ASSUME AccessAssumption ==
    LET orgs == {LocalAdmin} \cup {m[1] : m \in DOMAIN Members}
    IN  /\ Len(Accounts) \in Nat /\ Cardinality(orgs) \in Nat /\ orgs = 1..Cardinality(orgs)
        /\ DOMAIN Members \subseteq Nat \X (1..Len(Accounts))
        /\ \A m \in DOMAIN Members : Members[m] \in Roles
        /\ \A o \in orgs \ {LocalAdmin} : \E m \in DOMAIN Members :
               m[1] = o /\ Members[m] = "administrator"
        /\ DOMAIN Responsibles = Resources
        /\ \A x \in Resources : \A u \in Responsibles[x] : <<OrgOf[x], u>> \in DOMAIN Members
        /\ Owners \subseteq DOMAIN Members

VARIABLES
    users,      \* account -> [name, active]
    members,    \* <<workspace, account>> -> [role, live, epoch]
    invites,    \* open invitations [org, name, role]
    sessions,   \* usable sessions [user, org, role, epoch]
    durable,    \* sessions are kept in SQLite (not in the process)
    requests,   \* sessions admitted by the middleware, their route not yet run
    bindings,   \* subject -> [user, live]
    flows,      \* OIDC transactions started and not consumed
    callbacks,  \* OIDC callbacks waiting for the provider
    held,       \* resource -> its responsibles
    revs,       \* resource -> length of its responsibility history
    views,      \* <<workspace, account>> that own saved views
    changes,
    accessFaults

accessVars == <<users, members, invites, sessions, durable, requests, bindings, flows, callbacks,
                held, revs, views, changes, accessFaults>>
identity == <<users, members>>
oidc == <<bindings, flows, callbacks>>
duties == <<held, revs, views>>

Orgs == {m[1] : m \in DOMAIN members}
NewUser == Cardinality(DOMAIN users)

\* One more of the bounded number of changes.
Change == changes < MaxChanges /\ changes' = changes + 1

Upd(f, x, v) == [y \in DOMAIN f \cup {x} |-> IF y = x THEN v ELSE f[y]]

-----------------------------------------------------------------------------
(* Who somebody is *)

LiveMembership(org, u) == <<org, u>> \in DOMAIN members /\ members[<<org, u>>].live

IsPrincipal(org, u) == LiveMembership(org, u) /\ users[u].active

\* The session a membership opens.
SessionFor(org, u) == [user |-> u, org |-> org, role |-> members[<<org, u>>].role,
                       epoch |-> members[<<org, u>>].epoch]

\* The workspace a login lands in: local-admin, else the oldest.
LoginOrg(o, u) == IsPrincipal(o, u) /\ \A p \in Orgs : IsPrincipal(p, u) => o <= p

\* What the middleware and the routes require of a session.
Current(s) == IsPrincipal(s.org, s.user) /\ members[<<s.org, s.user>>].role = s.role

IsAdministrator(r) == Current(r) /\ r.role = "administrator"
IsMaintainer(r) == Current(r) /\ r.role \in {"administrator", "maintainer"}

\* Mutant of Administrators.
AdministratorsEver(org) ==
    {u \in DOMAIN users : <<org, u>> \in DOMAIN members /\ members[<<org, u>>].role = "administrator"}

Administrators(org) ==
    {u \in DOMAIN users : LiveMembership(org, u) /\ members[<<org, u>>].role = "administrator"}

\* The SQLite store ends the sessions of the account in the workspace, the store in
\* memory all its sessions.
Invalidated(org, u) == {s \in sessions : s.user # u \/ (durable /\ s.org # org)}

-----------------------------------------------------------------------------
(* Sessions and requests *)

Login(u) ==
    /\ Cardinality(sessions) < MaxSessions
    /\ \E o \in Orgs : LoginOrg(o, u) /\ sessions' = sessions \cup {SessionFor(o, u)}
    /\ UNCHANGED <<identity, invites, durable, requests, oidc, duties, changes, accessFaults>>

\* A logout, the end of its lifetime, or the removal of a session.
EndSession(s) ==
    /\ sessions' = sessions \ {s}
    /\ UNCHANGED <<identity, invites, durable, requests, oidc, duties, changes, accessFaults>>

\* A session whose membership no longer matches is removed on its next request.
RequestArrives(s) ==
    /\ Cardinality(requests) < MaxRequests
    /\ IF Current(s)
       THEN requests' = requests \cup {s} /\ UNCHANGED sessions
       ELSE sessions' = sessions \ {s} /\ UNCHANGED requests
    /\ UNCHANGED <<identity, invites, durable, oidc, duties, changes, accessFaults>>

\* Any route that changes none of this, or refuses.
RequestEnds(r) ==
    /\ requests' = requests \ {r}
    /\ UNCHANGED <<identity, invites, sessions, durable, oidc, duties, changes, accessFaults>>

SelectOrganization(r, org) ==
    /\ Current(r) /\ IsPrincipal(org, r.user)
    /\ Cardinality(sessions \ {r}) < MaxSessions
    /\ requests' = requests \ {r}
    /\ sessions' = (sessions \ {r}) \cup {SessionFor(org, r.user)}
    /\ UNCHANGED <<identity, invites, durable, oidc, duties, changes, accessFaults>>

Restart ==
    /\ requests' = {} /\ callbacks' = {} /\ flows' = 0
    /\ sessions' = IF durable THEN sessions ELSE {}
    /\ users' = [users EXCEPT ![Bootstrap].active = TRUE]
    /\ members' = [members EXCEPT ![<<LocalAdmin, Bootstrap>>].role = "administrator",
                                  ![<<LocalAdmin, Bootstrap>>].live = TRUE]
    /\ UNCHANGED <<invites, durable, bindings, duties, changes, accessFaults>>

-----------------------------------------------------------------------------
(* Workspaces and invitations *)

CreateOrganization(r) ==
    /\ Change
    /\ IsAdministrator(r) /\ Cardinality(Orgs) < MaxOrgs
    /\ requests' = requests \ {r}
    /\ members' = Upd(members, <<Cardinality(Orgs) + 1, r.user>>,
                      [role |-> "administrator", live |-> TRUE, epoch |-> 0])
    /\ UNCHANGED <<users, invites, sessions, durable, oidc, duties, accessFaults>>

CreateInvitation(r, name, role) ==
    /\ Change
    /\ IsAdministrator(r)
    /\ ~\E u \in DOMAIN users : users[u].name = name /\ IsPrincipal(r.org, u)
    /\ requests' = requests \ {r}
    /\ invites' = {i \in invites : i.org # r.org \/ i.name # name}
                    \cup {[org |-> r.org, name |-> name, role |-> role]}
    /\ UNCHANGED <<identity, sessions, durable, oidc, duties, accessFaults>>

\* An existing account (with its password) or a new one.  The primary key of the
\* memberships refuses an account that was a member before.
AcceptInvitation(i) ==
    LET known == {u \in DOMAIN users : users[u].name = i.name}
        u == IF known = {} THEN NewUser ELSE CHOOSE v \in known : TRUE
    IN  /\ Change
        /\ known = {} => NewUser <= MaxUsers
        /\ <<i.org, u>> \notin DOMAIN members
        /\ users' = Upd(users, u, [name |-> i.name, active |-> TRUE])
        /\ members' = Upd(members, <<i.org, u>>, [role |-> i.role, live |-> TRUE, epoch |-> 0])
        /\ invites' = invites \ {i}
        /\ UNCHANGED <<sessions, durable, requests, oidc, duties, accessFaults>>

\* Expired invitations are purged with the accepted and the revoked ones.
ExpireInvitation(i) ==
    /\ invites' = invites \ {i}
    /\ UNCHANGED <<identity, sessions, durable, requests, oidc, duties, changes, accessFaults>>

-----------------------------------------------------------------------------
(* Changes of a membership *)

RoleChangeable(r, u, role) ==
    /\ IsAdministrator(r)
    /\ LiveMembership(r.org, u)
    /\ u = Bootstrap => role = "administrator"
    /\ (u \in Administrators(r.org) /\ role # "administrator")
           => Cardinality(Administrators(r.org)) > 1

\* Mutant of ChangeRole.
ChangeRoleKeepsSessions(r, u, role) ==
    /\ Change
    /\ RoleChangeable(r, u, role)
    /\ requests' = requests \ {r}
    /\ members' = [members EXCEPT ![<<r.org, u>>].role = role,
                                  ![<<r.org, u>>].epoch = IF u = r.user THEN @ ELSE @ + 1]
    /\ UNCHANGED <<users, invites, sessions, durable, oidc, duties, accessFaults>>

ChangeRole(r, u, role) ==
    /\ Change
    /\ RoleChangeable(r, u, role)
    /\ requests' = requests \ {r}
    /\ members' = [members EXCEPT ![<<r.org, u>>].role = role,
                                  ![<<r.org, u>>].epoch = IF u = r.user THEN @ ELSE @ + 1]
    /\ sessions' = IF u = r.user THEN sessions ELSE Invalidated(r.org, u)
    /\ UNCHANGED <<users, invites, durable, oidc, duties, accessFaults>>

\* The role is committed and the sessions could not be ended: the request fails.
ChangeRoleCut(r, u, role) ==
    /\ Change
    /\ RoleChangeable(r, u, role) /\ u # r.user /\ accessFaults < MaxAccessFaults
    /\ requests' = requests \ {r} /\ accessFaults' = accessFaults + 1
    /\ members' = [members EXCEPT ![<<r.org, u>>].role = role]
    /\ UNCHANGED <<users, invites, sessions, durable, oidc, duties>>

Affected(kind, org, u) == {x \in kind : OrgOf[x] = org /\ u \in held[x]}

Full(xs) == \E x \in xs : revs[x] >= MaxRevisions

\* The files rewritten without the member.
Unassign(done, u) ==
    /\ held' = [x \in Resources |-> IF x \in done THEN held[x] \ {u} ELSE held[x]]
    /\ revs' = [x \in Resources |-> IF x \in done THEN revs[x] + 1 ELSE revs[x]]

\* The end of the transaction: the membership is revoked and an account without
\* memberships is deprovisioned.
RevokeCommits(org, u) ==
    /\ members' = [members EXCEPT ![<<org, u>>].live = FALSE, ![<<org, u>>].epoch = @ + 1]
    /\ users' = IF \E o \in Orgs \ {org} : LiveMembership(o, u) THEN users
                ELSE [users EXCEPT ![u] = [name |-> None, active |-> FALSE]]

\* The sessions are ended before anything else; then the last administrator is kept.
RevokeRequested(r, u) ==
    /\ IsAdministrator(r) /\ u # Bootstrap /\ IsPrincipal(r.org, u)
    /\ requests' = requests \ {r}
    /\ sessions' = Invalidated(r.org, u)

\* Mutant of RevokeMember.
RevokeMemberCommitsFirst(r, u) ==
    LET ps == Affected(Projects, r.org, u)
        as == Affected(Assets, r.org, u)
    IN  /\ Change
        /\ RevokeRequested(r, u)
        /\ u \in Administrators(r.org) => Cardinality(Administrators(r.org)) > 1
        /\ RevokeCommits(r.org, u)
        /\ IF Full(ps) \/ Full(as) THEN UNCHANGED duties
           ELSE Unassign(ps \cup as, u) /\ views' = views \ {<<r.org, u>>}
        /\ UNCHANGED <<invites, durable, oidc, accessFaults>>

RevokeMember(r, u) ==
    LET ps == Affected(Projects, r.org, u)
        as == Affected(Assets, r.org, u)
    IN  /\ Change
        /\ RevokeRequested(r, u)
        /\ u \in Administrators(r.org) => Cardinality(Administrators(r.org)) > 1
        /\ ~Full(ps) /\ ~Full(as)
        /\ Unassign(ps \cup as, u) /\ views' = views \ {<<r.org, u>>}
        /\ RevokeCommits(r.org, u)
        /\ UNCHANGED <<invites, durable, oidc, accessFaults>>

\* Refused for the last administrator, for a full history of a project, or for a full
\* history of an asset once the projects are rewritten.
RevokeRefused(r, u) ==
    LET ps == Affected(Projects, r.org, u)
        as == Affected(Assets, r.org, u)
    IN  /\ Change
        /\ RevokeRequested(r, u)
        /\ \/ Administrators(r.org) = {u} /\ UNCHANGED <<held, revs>>
           \/ Administrators(r.org) # {u} /\ Full(ps) /\ UNCHANGED <<held, revs>>
           \/ Administrators(r.org) # {u} /\ ~Full(ps) /\ Full(as) /\ Unassign(ps, u)
        /\ UNCHANGED <<identity, invites, durable, oidc, views, accessFaults>>

\* A write fails: the files before it stay rewritten, the transaction is rolled back.
RevokeCut(r, u) ==
    LET ps == Affected(Projects, r.org, u)
        as == Affected(Assets, r.org, u)
    IN  /\ Change
        /\ RevokeRequested(r, u) /\ Administrators(r.org) # {u}
        /\ ~Full(ps) /\ ~Full(as)
        /\ accessFaults < MaxAccessFaults /\ accessFaults' = accessFaults + 1
        /\ \E done \in SUBSET (ps \cup as), seen \in BOOLEAN :
               /\ done \cap as # {} => ps \subseteq done
               /\ seen => done = ps \cup as
               /\ Unassign(done, u)
               /\ views' = IF seen THEN views \ {<<r.org, u>>} ELSE views
        /\ UNCHANGED <<identity, invites, durable, oidc>>

-----------------------------------------------------------------------------
(* Responsibles and saved views *)

\* The members are checked inside the transaction that writes the record.
SetResponsibles(r, x, new) ==
    /\ Change
    /\ IsMaintainer(r) /\ OrgOf[x] = r.org
    /\ x \in Projects => Cardinality(new) <= 1
    /\ \A u \in new : IsPrincipal(r.org, u)
    /\ new # held[x] /\ revs[x] < MaxRevisions
    /\ requests' = requests \ {r}
    /\ held' = [held EXCEPT ![x] = new]
    /\ revs' = [revs EXCEPT ![x] = @ + 1]
    /\ UNCHANGED <<identity, invites, sessions, durable, oidc, views, accessFaults>>

CreateView(r) ==
    /\ Change
    /\ Current(r)
    /\ requests' = requests \ {r}
    /\ views' = views \cup {<<r.org, r.user>>}
    /\ UNCHANGED <<identity, invites, sessions, durable, oidc, held, revs, accessFaults>>

DeleteViews(r) ==
    /\ Change
    /\ Current(r)
    /\ requests' = requests \ {r}
    /\ views' = views \ {<<r.org, r.user>>}
    /\ UNCHANGED <<identity, invites, sessions, durable, oidc, held, revs, accessFaults>>

-----------------------------------------------------------------------------
(* Federated identities *)

ProvisionFederated(r, u, sub) ==
    /\ Change
    /\ IsAdministrator(r) /\ r.org = OidcOrg
    /\ IsPrincipal(r.org, u) /\ members[<<r.org, u>>].role # "administrator"
    /\ sub \in DOMAIN bindings => bindings[sub].user = u
    /\ requests' = requests \ {r}
    /\ bindings' = Upd(bindings, sub, [user |-> u, live |-> TRUE])
    /\ UNCHANGED <<identity, invites, sessions, durable, flows, callbacks, duties, accessFaults>>

RevokeFederated(r, sub) ==
    LET u == bindings[sub].user
    IN  /\ Change
        /\ IsAdministrator(r) /\ r.org = OidcOrg
        /\ bindings[sub].live
        /\ requests' = requests \ {r}
        /\ bindings' = [bindings EXCEPT ![sub].live = FALSE]
        /\ sessions' = Invalidated(OidcOrg, u)
        /\ members' = [members EXCEPT ![<<OidcOrg, u>>].epoch = @ + 1]
        /\ UNCHANGED <<users, invites, durable, flows, callbacks, duties, accessFaults>>

RevokeFederatedCut(r, sub) ==
    /\ Change
    /\ IsAdministrator(r) /\ r.org = OidcOrg /\ bindings[sub].live
    /\ accessFaults < MaxAccessFaults /\ accessFaults' = accessFaults + 1
    /\ requests' = requests \ {r}
    /\ bindings' = [bindings EXCEPT ![sub].live = FALSE]
    /\ UNCHANGED <<identity, invites, sessions, durable, flows, callbacks, duties>>

OidcStart ==
    /\ Change
    /\ flows = 0 /\ flows' = 1
    /\ UNCHANGED <<identity, invites, sessions, durable, requests, bindings, callbacks, duties, accessFaults>>

\* The transaction is consumed, whatever the provider answers later.
OidcCallback(sub, role) ==
    /\ flows > 0 /\ flows' = flows - 1
    /\ callbacks' = callbacks \cup {[sub |-> sub, role |-> role]}
    /\ UNCHANGED <<identity, invites, sessions, durable, requests, bindings, duties, changes, accessFaults>>

\* Whether the asserted identity is a member's.
Resolves(c) ==
    /\ c.sub \in DOMAIN bindings /\ bindings[c.sub].live
    /\ LET u == bindings[c.sub].user
       IN  IsPrincipal(OidcOrg, u) /\ members[<<OidcOrg, u>>].role = c.role
    /\ c.role # "administrator"

\* The provider has answered: the identity is resolved and the session opened.
OidcFinish(c) ==
    /\ callbacks' = callbacks \ {c}
    /\ IF Resolves(c)
       THEN /\ Cardinality(sessions) < MaxSessions
            /\ sessions' = sessions \cup {SessionFor(OidcOrg, bindings[c.sub].user)}
       ELSE UNCHANGED sessions
    /\ UNCHANGED <<identity, invites, durable, requests, bindings, flows, duties, changes, accessFaults>>

-----------------------------------------------------------------------------

AccessInit ==
    LET bootstrap == <<LocalAdmin, Bootstrap>>
    IN  /\ users = [u \in 0..Len(Accounts) |-> [name |-> IF u = Bootstrap THEN "admin" ELSE Accounts[u],
                                                active |-> TRUE]]
        /\ members = [m \in {bootstrap} \cup DOMAIN Members |->
                        [role |-> IF m = bootstrap THEN "administrator" ELSE Members[m],
                         live |-> TRUE, epoch |-> 0]]
        /\ invites = {} /\ sessions = {} /\ requests = {}
        /\ durable \in BOOLEAN
        /\ bindings = [sub \in DOMAIN Federated |-> [user |-> Federated[sub], live |-> TRUE]]
        /\ flows = 0 /\ callbacks = {}
        /\ held = Responsibles /\ views = Owners
        /\ revs = [x \in Resources |-> IF held[x] = {} THEN 0 ELSE 1]
        /\ changes = 0 /\ accessFaults = 0

RouteRuns ==
    \E r \in requests :
        \/ CreateOrganization(r)
        \/ CreateView(r)
        \/ DeleteViews(r)
        \/ \E name \in Names, role \in AssignedRoles : CreateInvitation(r, name, role)
        \/ \E x \in Resources, new \in SUBSET DOMAIN users : SetResponsibles(r, x, new)
        \/ \E u \in DOMAIN users :
              \/ RevokeMember(r, u)
              \/ RevokeRefused(r, u)
              \/ RevokeCut(r, u)
              \/ \E role \in AssignedRoles : ChangeRole(r, u, role) \/ ChangeRoleCut(r, u, role)
              \/ \E sub \in Subjects : ProvisionFederated(r, u, sub)
        \/ \E sub \in DOMAIN bindings : RevokeFederated(r, sub) \/ RevokeFederatedCut(r, sub)

AccessNext ==
    \/ \E u \in DOMAIN users : Login(u)
    \/ \E s \in sessions : EndSession(s) \/ RequestArrives(s)
    \/ \E r \in requests : RequestEnds(r) \/ \E org \in Orgs : SelectOrganization(r, org)
    \/ RouteRuns
    \/ \E i \in invites : AcceptInvitation(i) \/ ExpireInvitation(i)
    \/ OidcStart
    \/ \E sub \in Subjects, role \in AssignedRoles \ {"administrator"} : OidcCallback(sub, role)
    \/ \E c \in callbacks : OidcFinish(c)
    \/ Restart

AccessSpec == AccessInit /\ [][AccessNext]_accessVars

-----------------------------------------------------------------------------
(* Properties *)

\* Every workspace keeps an administrator who can log in, whatever administrators do to
\* each other with requests that were admitted before (change_member_role and revoke_member
\* count the administrators inside their transaction).
AdministratorRemains ==
    \A o \in Orgs : \E u \in DOMAIN users : IsPrincipal(o, u) /\ members[<<o, u>>].role = "administrator"

\* Whoever is responsible for a project or an asset, or owns a saved view, is an active
\* member of its workspace, also when a revocation is refused halfway or one of its writes
\* fails: the membership is committed after the files (revoke_team_member) and a
\* responsible is checked in the transaction that writes it (run_with_active_members).
ResponsibleIsMember ==
    /\ \A x \in Resources : \A u \in held[x] : IsPrincipal(OrgOf[x], u)
    /\ \A v \in views : IsPrincipal(v[1], v[2])

\* A session that still passes the middleware was opened after the last change of its
\* membership or of its federated identity that another administrator was told had
\* succeeded: a role that is taken away and given back does not bring the old session back
\* (change_team_member_role, revoke_federated_identity), and a callback that was waiting
\* for the provider opens none from what held before (auth_oidc_callback).
OldAccessNeverReturns ==
    \A s \in sessions : Current(s) => s.epoch = members[<<s.org, s.user>>].epoch

\* Every workspace keeps an administrator, every responsible is a member, and what was
\* taken away does not come back, in whatever order requests and callbacks admitted
\* earlier are carried out (team_identity.py, revoke_team_member and auth_oidc_callback
\* in main.py).
AccessHolds == AdministratorRemains /\ ResponsibleIsMember /\ OldAccessNeverReturns
=============================================================================
