------------------------------ MODULE Accounts ------------------------------
(***************************************************************************)
(* Users and their memberships: users.service.js and the part of           *)
(* superAdmin.service.js and tenant.service.js that concerns them.  A user *)
(* is a member of hotels and organizations (tenants), with a role in each; *)
(* a manager of an organization acts in its hotels without being a member. *)
(* What a hotel's administrator asks for is checked in one query and       *)
(* written in another (Begin..., Finish...).                               *)
(***************************************************************************)
EXTENDS Integers, FiniteSets

CONSTANTS
  Org, Hotel, Other,  \* an organization, its hotel, another organization
  Users,
  Desks, Clients,     \* requests of administrators, requests for sessions
  MaxUsers,           \* seats of a plan
  MaxChanges          \* bound on changes by administrators

Requests == Desks \cup Clients
Tenants == {Org, Hotel, Other}
Parent(t) == IF t = Hotel THEN Org ELSE "none"

\* ADMIN stands for the roles one active member may hold, STOREKEEPER for the
\* others, ORG_MANAGER for itself.
Roles == {"ADMIN", "STOREKEEPER", "ORG_MANAGER"}
Absent == [role |-> "none", active |-> FALSE]
Member(role) == [role |-> role, active |-> TRUE]

Memberships == [Tenants -> [Users -> {Absent} \cup [role : Roles, active : BOOLEAN]]]

ASSUME AccountAssumption ==
  /\ Org # Hotel /\ Org # Other /\ Hotel # Other /\ "none" \notin Tenants
  /\ MaxUsers \in Nat \ {0} /\ MaxChanges \in Nat /\ IsFiniteSet(Users)

VARIABLES
  there,      \* the tenants that have been created
  suspended,  \* adminStatus SUSPENDED
  closed,     \* isActive FALSE
  seats,      \* maxUsers of each tenant
  member,     \* per tenant and user: the membership
  version,    \* per user: permissionVersion
  silent,     \* users whose roles changed since, without a new version
  changes,    \* changes so far
  pc, job     \* per request

tenants == <<there, suspended, closed, seats>>
members == <<member, version, silent>>
accountVars == <<tenants, members, changes>>

Manages(m, u, t) == t \in Tenants /\ m[t][u] = Member("ORG_MANAGER")

\* A root organization this user manages, while it is open.
Managed(u) == {t \in there : Parent(t) = "none" /\ t \notin closed /\ Manages(member, u, t)}

\* The role a session of u at t gets (resolveUserBestRole), "none" if u has
\* no business there.
RoleIn(m, u, t) ==
  IF ~(m[t][u].active \/ Manages(m, u, Parent(t))) THEN "none"
  ELSE IF \E o \in Tenants : Manages(m, u, o) THEN "ORG_MANAGER"
  ELSE m[t][u].role

Role(u, t) == RoleIn(member, u, t)

Active(t) == {u \in Users : member[t][u].active}

Holders(t, role) == {u \in Active(t) : member[t][u].role = role}

\* assertSingletonRoleAvailable
RoleFree(t, role, u) == role = "ADMIN" => Holders(t, role) \subseteq {u}

\* assertOrgManagerAssignmentWithinOrgHierarchy
AtHome(u, t) == Managed(u) = {} \/ {t, Parent(t)} \cap Managed(u) # {}

Goes(r, step) == pc' = [pc EXCEPT ![r] = step]

NoJob == [tenant |-> Org, user |-> "none", role |-> "none", active |-> FALSE,
          version |-> 0, session |-> "none"]

Done(r) == Goes(r, "idle") /\ job' = [job EXCEPT ![r] = NoJob]

MayChange == changes < MaxChanges
Changed == MayChange /\ changes' = changes + 1

\* Mutant: the version is left alone.
AssignSilently(t, u, m, bump) ==
  /\ member' = [member EXCEPT ![t][u] = m]
  /\ silent' = IF bump THEN silent \ {u} ELSE silent
  /\ UNCHANGED version

\* A membership is written, with a new permissionVersion or without.
Assign(t, u, m, bump) ==
  /\ member' = [member EXCEPT ![t][u] = m]
  /\ version' = IF bump THEN [version EXCEPT ![u] = @ + 1] ELSE version
  /\ silent' = IF bump THEN silent \ {u}
               ELSE IF \E x \in Tenants : Role(u, x) \notin {"none", RoleIn(member', u, x)}
               THEN silent \cup {u} ELSE silent

-----------------------------------------------------------------------------
(* users.service.js.  by administers t. *)

MayManage(by, t) == Role(by, t) \in {"ADMIN", "ORG_MANAGER"}

\* A user who exists already is imported from another hotel of by's.
MayImport(by, u, t) ==
  (\E x \in Tenants : member[x][u] # Absent) =>
    /\ AtHome(u, t)
    /\ \E x \in Tenants : member[x][by] = Member("ADMIN") /\ member[x][u].active

\* Mutant: the limit is not asked for.
SeatLeftAlways(t, u) == TRUE

SeatLeft(t, u) == u \in Active(t) \/ Cardinality(Active(t)) < seats[t]

BeginCreateUser(r, by, t, u, role) ==
  /\ pc[r] = "idle" /\ MayChange
  /\ t \in there /\ MayManage(by, t)
  /\ MayImport(by, u, t) /\ SeatLeft(t, u) /\ RoleFree(t, role, u)
  /\ job' = [job EXCEPT ![r] = [@ EXCEPT !.tenant = t, !.user = u, !.role = role]]
  /\ Goes(r, "create")
  /\ UNCHANGED accountVars

FinishCreateUser(r) ==
  /\ pc[r] = "create"
  /\ Changed
  /\ Assign(job[r].tenant, job[r].user, Member(job[r].role), FALSE)
  /\ Done(r)
  /\ UNCHANGED tenants

\* updateUser: isActive, role or both; the role is free if it is given.
BeginUpdateUser(r, by, t, u, role, active) ==
  LET m == member[t][u]
      next == [role |-> IF role = "none" THEN m.role ELSE role, active |-> active]
  IN  /\ pc[r] = "idle" /\ MayChange
      /\ t \in there /\ MayManage(by, t) /\ m # Absent /\ next # m
      /\ role # "none" /\ active => RoleFree(t, role, u)
      /\ job' = [job EXCEPT ![r] = [@ EXCEPT !.tenant = t, !.user = u, !.role = role, !.active = active]]
      /\ Goes(r, "update")
      /\ UNCHANGED accountVars

\* Only the columns that were given are written.
FinishUpdateUser(r) ==
  LET j == job[r]
      m == member[j.tenant][j.user]
  IN  /\ pc[r] = "update"
      /\ Changed
      /\ Assign(j.tenant, j.user,
                [role |-> IF j.role = "none" THEN m.role ELSE j.role, active |-> j.active], FALSE)
      /\ Done(r)
      /\ UNCHANGED tenants

\* Nobody changes a role of their own.
BeginUpdateRole(r, by, t, u, role) ==
  /\ pc[r] = "idle" /\ MayChange
  /\ t \in there /\ MayManage(by, t) /\ by # u /\ member[t][u] # Absent
  /\ member[t][u].active => RoleFree(t, role, u)
  /\ job' = [job EXCEPT ![r] = [@ EXCEPT !.tenant = t, !.user = u, !.role = role]]
  /\ Goes(r, "role")
  /\ UNCHANGED accountVars

FinishUpdateRole(r) ==
  LET j == job[r]
  IN  /\ pc[r] = "role"
      /\ Changed
      /\ Assign(j.tenant, j.user, [member[j.tenant][j.user] EXCEPT !.role = j.role], TRUE)
      /\ Done(r)
      /\ UNCHANGED tenants

-----------------------------------------------------------------------------
(* superAdmin.service.js *)

\* updateTenantAdmin: a new password or address brings a new version.
UpdateTenantAdmin(t, u, active, credentials) ==
  /\ t \in there /\ member[t][u].role \in {"ADMIN", "ORG_MANAGER"}
  /\ Changed
  /\ Assign(t, u, [member[t][u] EXCEPT !.active = active], credentials)
  /\ UNCHANGED <<tenants, pc, job>>

\* createTenant of a hotel below Org.  Its administrator is a new user, one
\* who exists, or the manager of the organization.
CreateTenant(u) ==
  /\ Org \in there /\ Hotel \notin there
  /\ AtHome(u, Hotel)
  /\ Changed
  /\ there' = there \cup {Hotel}
  /\ Assign(Hotel, u, Member("ADMIN"), FALSE)
  /\ UNCHANGED <<suspended, closed, seats, pc, job>>

\* createFullOrganization: u manages the organization, and v administers its
\* first hotel.
CreateFullOrganization(u, v) ==
  /\ Org \notin there
  /\ Changed
  /\ there' = there \cup {Org, Hotel}
  /\ member' = [member EXCEPT ![Org][u] = Member("ORG_MANAGER"), ![Hotel][v] = Member("ADMIN")]
  /\ silent' = IF \E x \in Tenants : Role(u, x) \notin {"none", RoleIn(member', u, x)}
               THEN silent \cup {u} ELSE silent
  /\ UNCHANGED <<suspended, closed, seats, version, pc, job>>

\* setSubscription, updateTenant: the plan has other seats now.
SetPlan(t, n) ==
  /\ t \in there /\ seats[t] # n
  /\ Changed
  /\ seats' = [seats EXCEPT ![t] = n]
  /\ UNCHANGED <<there, suspended, closed, members, pc, job>>

\* activateTenant; the toggle of isActive of tenant.service.js.
Reopen(t) ==
  /\ t \in suspended \cup closed
  /\ Changed
  /\ suspended' = suspended \ {t}
  /\ closed' = closed \ {t}
  /\ UNCHANGED <<there, seats, members, pc, job>>

Toggle(t) ==
  /\ t \in there
  /\ Changed
  /\ closed' = IF t \in closed THEN closed \ {t} ELSE closed \cup {t}
  /\ UNCHANGED <<there, suspended, seats, members, pc, job>>
=============================================================================
