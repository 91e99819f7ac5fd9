------------------------------ MODULE Sessions ------------------------------
(***************************************************************************)
(* Sessions, auth.service.js, and what authenticate.js makes of them.  A   *)
(* session has a refresh token, kept in a row that can be revoked, and the *)
(* last access token it gave out, which carries the role, the permissions  *)
(* and the permissionVersion it was made with.                             *)
(***************************************************************************)
EXTENDS Accounts

CONSTANTS
  Sessions,
  Starts     \* tenants and memberships to begin with

\* Members belong to tenants that were created, hotels to organizations.
ASSUME StartsAssumption ==
  \A start \in Starts :
    /\ start.there \subseteq Tenants /\ start.member \in Memberships
    /\ Hotel \in start.there => Org \in start.there
    /\ \A t \in Tenants, u \in Users : start.member[t][u] # Absent => t \in start.there

VARIABLES
  session,  \* rows of refresh_tokens
  token     \* the access token of each session

sessionVars == <<session, token>>
vars == <<accountVars, sessionVars, pc, job>>

NoSession == [state |-> "none", user |-> "none", tenant |-> Org]
NoToken == [tenant |-> Org, role |-> "none", version |-> 0]

TypeOK ==
  /\ there \subseteq Tenants /\ suspended \subseteq there /\ closed \subseteq there
  /\ seats \in [Tenants -> 1..MaxUsers]
  /\ member \in Memberships
  /\ version \in [Users -> 0..MaxChanges]
  /\ silent \subseteq Users
  /\ changes \in 0..MaxChanges
  /\ session \in [Sessions -> [state : {"none", "live", "revoked", "lent"},
                               user : Users \cup {"none"}, tenant : Tenants]]
  /\ token \in [Sessions -> [tenant : Tenants, role : Roles \cup {"none"}, version : Nat]]
  /\ pc \in [Requests -> {"idle", "create", "update", "role", "login", "issue", "switch",
                          "refresh", "renew"}]
  /\ job \in [Requests -> [tenant : Tenants, user : Users \cup {"none"}, role : Roles \cup {"none"},
                           active : BOOLEAN, version : Nat, session : Sessions \cup {"none"}]]

Init ==
  /\ \E start \in Starts : there = start.there /\ member = start.member
  /\ suspended = {} /\ closed = {}
  /\ seats \in [Tenants -> {MaxUsers}]
  /\ version = [u \in Users |-> 0]
  /\ silent = {}
  /\ changes = 0
  /\ session = [s \in Sessions |-> NoSession]
  /\ token = [s \in Sessions |-> NoToken]
  /\ pc = [r \in Requests |-> "idle"]
  /\ job = [r \in Requests |-> NoJob]

-----------------------------------------------------------------------------
(* What is asked of a tenant *)

\* ensureTenantNotSuspended
NotSuspended(t) == {t, Parent(t)} \cap suspended = {}

\* A manager of the open parent organization inherits its open hotels.
Inherits(u, t) ==
  t \notin closed /\ Parent(t) \in Tenants \ closed /\ Manages(member, u, Parent(t))

\* authenticate.js: the version, the tenant and the membership.
Accepts(u, k) ==
  /\ k.version = version[u]
  /\ NotSuspended(k.tenant) /\ Parent(k.tenant) \notin closed
  /\ \/ member[k.tenant][u].active
     \/ (member[k.tenant][u] = Absent /\ Inherits(u, k.tenant))

Sess(state, u, t) == [state |-> state, user |-> u, tenant |-> t]

\* resolveUserBestRole
BestRole(u, role) == IF \E o \in Tenants : Manages(member, u, o) THEN "ORG_MANAGER" ELSE role

\* issueSessionForMembership
Issue(r, s) ==
  /\ session[s].state = "none"
  /\ session' = [session EXCEPT ![s] = Sess("live", job[r].user, job[r].tenant)]
  /\ token' = [token EXCEPT ![s] = [tenant |-> job[r].tenant,
                                    role |-> BestRole(job[r].user, job[r].role),
                                    version |-> job[r].version]]

-----------------------------------------------------------------------------
(* login *)

BeginLogin(r, u) ==
  /\ pc[r] = "idle"
  /\ job' = [job EXCEPT ![r] = [@ EXCEPT !.user = u, !.version = version[u]]]
  /\ Goes(r, "login")
  /\ UNCHANGED <<accountVars, sessionVars>>

\* A manager of a root organization sees it and its hotels only.
Direct(u) ==
  LET active == {t \in there : member[t][u].active}
      roots == {t \in active : Parent(t) = "none" /\ Manages(member, u, t)}
  IN  IF roots = {} THEN active ELSE {t \in active : {t, Parent(t)} \cap roots # {}}

\* With the open hotels of the organizations managed.
Offered(u) ==
  LET below == {t \in there \ closed : Parent(t) \in Direct(u) /\ Manages(member, u, Parent(t))}
  IN  {t \in Direct(u) \cup below : t \notin closed /\ NotSuspended(t)}

\* One tenant is chosen, or is the only one; or there is none.
LookLogin(r) ==
  LET u == job[r].user
  IN  /\ pc[r] = "login"
      /\ \/ \E t \in Offered(u) :
              /\ job' = [job EXCEPT ![r] = [@ EXCEPT !.tenant = t, !.role = Role(u, t)]]
              /\ Goes(r, "issue")
         \/ Offered(u) = {} /\ Done(r)
      /\ UNCHANGED <<accountVars, sessionVars>>

FinishLogin(r, s) ==
  /\ pc[r] = "issue"
  /\ IF NotSuspended(job[r].tenant) THEN Issue(r, s) ELSE UNCHANGED sessionVars
  /\ Done(r)
  /\ UNCHANGED accountVars

-----------------------------------------------------------------------------
(* switchTenant.  The user is read without permissionVersion, which is 0 then. *)

BeginSwitch(r, s, t) ==
  LET u == session[s].user
      m == member[t][u]
  IN  /\ pc[r] = "idle"
      /\ token[s] # NoToken /\ session[s].state # "lent" /\ Accepts(u, token[s])
      /\ t \in there \ closed /\ NotSuspended(t)
      /\ AtHome(u, t)
      /\ (m.active \/ (m = Absent /\ Inherits(u, t)))
      /\ job' = [job EXCEPT ![r] = [@ EXCEPT !.user = u, !.tenant = t, !.role = Role(u, t),
                                             !.version = 0]]
      /\ Goes(r, "switch")
      /\ UNCHANGED <<accountVars, sessionVars>>

FinishSwitch(r, s) ==
  /\ pc[r] = "switch"
  /\ Issue(r, s)
  /\ Done(r)
  /\ UNCHANGED accountVars

-----------------------------------------------------------------------------
(* refresh and logout *)

\* Mutant: the user is read without permissionVersion.
BeginRefreshUnversioned(r, s) ==
  /\ pc[r] = "idle"
  /\ session[s].state = "live"
  /\ job' = [job EXCEPT ![r] = [@ EXCEPT !.session = s, !.user = session[s].user,
                                         !.tenant = session[s].tenant]]
  /\ Goes(r, "refresh")
  /\ UNCHANGED <<accountVars, sessionVars>>

BeginRefresh(r, s) ==
  /\ pc[r] = "idle"
  /\ session[s].state = "live"
  /\ job' = [job EXCEPT ![r] = [@ EXCEPT !.session = s, !.user = session[s].user,
                                         !.tenant = session[s].tenant,
                                         !.version = version[session[s].user]]]
  /\ Goes(r, "refresh")
  /\ UNCHANGED <<accountVars, sessionVars>>

\* The membership a session stands on is there still.
Welcome(u, t) == (t \notin closed /\ member[t][u].active) \/ Inherits(u, t)

\* Mutant: a suspended tenant does not matter.
LookRefreshSuspended(r) ==
  LET u == job[r].user
      t == job[r].tenant
  IN  /\ pc[r] = "refresh"
      /\ IF Welcome(u, t)
         THEN /\ job' = [job EXCEPT ![r] = [@ EXCEPT !.role = Role(u, t)]]
              /\ Goes(r, "renew")
         ELSE Done(r)
      /\ UNCHANGED <<accountVars, sessionVars>>

Revoke(ended) ==
  session' = [s \in Sessions |->
    IF s \in ended /\ session[s].state = "live" THEN [session[s] EXCEPT !.state = "revoked"]
    ELSE session[s]]

\* A session of a suspended tenant is revoked.
LookRefresh(r) ==
  LET u == job[r].user
      t == job[r].tenant
  IN  /\ pc[r] = "refresh"
      /\ IF Welcome(u, t) /\ NotSuspended(t)
         THEN /\ job' = [job EXCEPT ![r] = [@ EXCEPT !.role = Role(u, t)]]
              /\ Goes(r, "renew")
              /\ UNCHANGED session
         ELSE /\ IF Welcome(u, t) THEN Revoke({job[r].session}) ELSE UNCHANGED session
              /\ Done(r)
      /\ UNCHANGED <<accountVars, token>>

FinishRefresh(r) ==
  LET j == job[r]
  IN  /\ pc[r] = "renew"
      /\ token' = [token EXCEPT ![j.session] = [tenant |-> j.tenant,
                                                role |-> BestRole(j.user, j.role),
                                                version |-> j.version]]
      /\ Done(r)
      /\ UNCHANGED <<accountVars, session>>

Logout(s) ==
  /\ session[s].state = "live"
  /\ Revoke({s})
  /\ UNCHANGED <<accountVars, token, pc, job>>

\* An access token is over after fifteen minutes, a refresh token after seven
\* days.
Lapse(s) ==
  /\ session[s].state # "none"
  /\ \A r \in Requests : job[r].session # s \/ pc[r] \notin {"refresh", "renew"}
  /\ token' = [token EXCEPT ![s] = NoToken]
  /\ session' = IF session[s].state = "live" /\ token[s] # NoToken THEN session
                ELSE [session EXCEPT ![s] = NoSession]
  /\ UNCHANGED <<accountVars, pc, job>>

-----------------------------------------------------------------------------
(* superAdmin.service.js and tenant.service.js: sessions ended by others *)

SessionsOf(users) == {s \in Sessions : session[s].user \in users}

ForceLogout(t) ==
  /\ t \in there
  /\ Revoke(SessionsOf(Active(t)))
  /\ UNCHANGED <<accountVars, token, pc, job>>

\* suspendTenant: below an organization (tenant.service.js) or not.
SuspendTenant(t) ==
  /\ t \in there \ suspended
  /\ Changed
  /\ suspended' = suspended \cup {t}
  /\ \/ Revoke(SessionsOf(Active(t)))
     \/ Parent(t) = "none"
        /\ Revoke(SessionsOf(UNION {Active(x) : x \in {y \in there : t \in {y, Parent(y)}}}))
  /\ UNCHANGED <<there, closed, seats, members, token, pc, job>>

\* impersonateTenant: a token that only reads, as the administrator of t.
Impersonate(t, s) ==
  /\ session[s].state = "none"
  /\ \E u \in Holders(t, "ADMIN") :
       /\ session' = [session EXCEPT ![s] = Sess("lent", u, t)]
       /\ token' = [token EXCEPT ![s] = [tenant |-> t, role |-> "ADMIN", version |-> version[u]]]
  /\ UNCHANGED <<accountVars, pc, job>>

-----------------------------------------------------------------------------
Administer(r) ==
  \/ \E by \in Users, t \in Tenants, u \in Users, role \in Roles :
       BeginCreateUser(r, by, t, u, role) \/ BeginUpdateRole(r, by, t, u, role)
  \/ \E by \in Users, t \in Tenants, u \in Users, role \in Roles \cup {"none"}, active \in BOOLEAN :
       BeginUpdateUser(r, by, t, u, role, active)
  \/ FinishCreateUser(r) \/ FinishUpdateUser(r) \/ FinishUpdateRole(r)

Supervise ==
  \/ \E t \in Tenants, u \in Users, active, credentials \in BOOLEAN :
       UpdateTenantAdmin(t, u, active, credentials)
  \/ \E u, v \in Users : CreateTenant(u) \/ CreateFullOrganization(u, v)
  \/ \E t \in Tenants : Reopen(t) \/ Toggle(t) \/ \E n \in 1..MaxUsers : SetPlan(t, n)

Use(r) ==
  \/ \E u \in Users : BeginLogin(r, u)
  \/ \E s \in Sessions : BeginRefresh(r, s) \/ \E t \in Tenants : BeginSwitch(r, s, t)
  \/ LookLogin(r) \/ LookRefresh(r) \/ FinishRefresh(r)
  \/ \E s \in Sessions : FinishLogin(r, s) \/ FinishSwitch(r, s)

EndSessions ==
  \/ \E s \in Sessions : Logout(s) \/ Lapse(s)
  \/ \E t \in Tenants : ForceLogout(t) \/ SuspendTenant(t) \/ \E s \in Sessions : Impersonate(t, s)

Next ==
  \/ \E r \in Desks : Administer(r) /\ UNCHANGED sessionVars
  \/ \E r \in Clients : Use(r)
  \/ Supervise /\ UNCHANGED sessionVars
  \/ EndSessions

Spec == Init /\ [][Next]_vars

-----------------------------------------------------------------------------
(* What accounts and sessions must keep. *)

VARIABLE overlapped

INSTANCE Overlap

HistoryInit == Init /\ overlapped = FALSE
HistoryNext == Next /\ NoteOverlap
HistorySpec == HistoryInit /\ [][HistoryNext]_<<vars, overlapped>>

\* permissionVersion: a token that still carries the version of its user
\* carries the role the user has, whatever overlaps; unless the role was
\* changed in one of the ways that leave the version alone (updateUser, an
\* import, a new hotel, a deactivation).
TokensFollowRoles ==
  \A s \in Sessions :
    LET u == session[s].user
    IN  /\ token[s] # NoToken /\ session[s].state # "lent"
        /\ token[s].version = version[u] /\ u \notin silent
        => token[s].role = Role(u, token[s].tenant)

\* What holds of accounts, sessions and tokens at any moment of any
\* interleaving.
Consistent == TypeOK /\ TokensFollowRoles

\* "Maximum user limit reached for this hotel": nobody is added to a hotel
\* whose seats are taken; and a role that has one holder goes to nobody else
\* while it is held; alone.
NobodyBeyondThePlan ==
  [][Alone(\A t \in Tenants, u \in Users :
             /\ member[t][u] = Absent /\ member'[t][u].active /\ t \in there
                => Cardinality(Active(t)') <= seats[t]
             /\ member'[t][u] = Member("ADMIN") /\ member[t][u].role # "ADMIN"
                => Holders(t, "ADMIN") \subseteq {u})]_vars

Renewed(s) == token'[s] # token[s] /\ token'[s] # NoToken /\ session'[s].state # "lent"

\* No session is given or renewed while the tenant or its organization is
\* suspended, and none that was revoked; and suspending a tenant ends the
\* sessions its members have there: those that go on are of managers who
\* inherit it; alone.
SuspendedMeansOut ==
  [][Alone(\A s \in Sessions :
             /\ Renewed(s) => /\ NotSuspended(token'[s].tenant)
                              /\ session[s].state # "revoked"
             /\ session'[s].state = "live" /\ session'[s].tenant \in suspended' \ suspended
                => ~member[session'[s].tenant][session[s].user].active)]_vars

\* Somebody who manages an open organization gets sessions in organizations
\* of theirs and in their hotels only, also where older memberships say
\* otherwise.
StaysHome(s) ==
  session[s].state = "none" /\ session'[s].state = "live" =>
    LET u == session'[s].user
        t == session'[s].tenant
    IN  Managed(u) = {} \/ Manages(member, u, t) \/ Manages(member, u, Parent(t))

\* What login and refresh hand out is for where the user belongs, and accepted
\* by the next request, but for hotels whose organization is closed and managers
\* whose own membership of the hotel is inactive; alone.
TokensAreAccepted ==
  [][Alone(\A s \in Sessions :
       /\ StaysHome(s)
       /\ \A r \in Requests :
            /\ Renewed(s) /\ pc[r] \in {"issue", "renew"} /\ pc'[r] = "idle"
            /\ Parent(token'[s].tenant) \notin closed
            /\ \/ member[token'[s].tenant][session'[s].user].role = "none"
               \/ member[token'[s].tenant][session'[s].user].active
            => Accepts(session'[s].user, token'[s]))]_vars
=============================================================================
