----------------------------- MODULE Auth_proofs -----------------------------
(***************************************************************************)
(* Proofs about what auth.service.js does: accounts and sessions for any   *)
(* number of users, sessions and requests; mails and password resets for   *)
(* any number of mails, addresses, requests, attempts and faults.  The two *)
(* components share no state and no name.                                  *)
(***************************************************************************)
EXTENDS Sessions, PasswordReset, Sums_proofs

-----------------------------------------------------------------------------
(* Sessions *)

Changing == {"create", "update", "role"}
Visiting == {"login", "issue", "switch", "refresh", "renew"}
Deciding == {"issue", "switch", "renew"}
Renewing == {"refresh", "renew"}

Version == version \in [Users -> Nat] /\ \A u \in Users : version[u] <= changes
Created ==
  /\ \A t \in Tenants, u \in Users : member[t][u] # Absent => t \in there
  /\ Hotel \in there => Org \in there

\* What was found out about u at t with version v is as it was, or u has a newer
\* version, or is known to have changed without one.
Fresh(u, t, role, v) == v = version[u] /\ u \notin silent => role = Role(u, t)

\* A request about a membership that is there stays about one; what a request
\* for a session has found out is fresh, and a session being renewed is kept.
JobOK(r) ==
  LET j == job[r]
  IN  /\ pc[r] \in Changing => j.tenant \in there /\ j.user \in Users
      /\ pc[r] \in {"create", "role"} => j.role \in Roles
      /\ pc[r] \in {"update", "role"} => member[j.tenant][j.user] # Absent
      /\ pc[r] \in Visiting => j.user \in Users /\ j.version <= version[j.user]
      /\ pc[r] \in Deciding => j.role \in Roles /\ Fresh(j.user, j.tenant, j.role, j.version)
      /\ pc[r] \in Renewing =>
           /\ j.session \in Sessions /\ session[j.session].user = j.user
           /\ session[j.session].state \in {"live", "revoked"}

SessionOK(s) ==
  LET k == token[s]
      u == session[s].user
  IN  /\ session[s].state # "none" => u \in Users
      /\ k # NoToken => session[s].state # "none" /\ k.role \in Roles /\ k.version <= version[u]
      /\ k # NoToken /\ session[s].state # "lent" => Fresh(u, k.tenant, k.role, k.version)

Inv ==
  /\ TypeOK /\ Version /\ Created
  /\ \A r \in Requests : JobOK(r)
  /\ \A s \in Sessions : SessionOK(s)

USE DEF Changing, Visiting, Deciding, Renewing

-----------------------------------------------------------------------------
LEMMA InvConsistent == Inv => Consistent
BY DEF Inv, Consistent, TokensFollowRoles, SessionOK, Fresh

LEMMA Homes == Parent(Org) = "none" /\ Parent(Other) = "none" /\ Parent(Hotel) = Org
BY AccountAssumption DEF Parent, Tenants

LEMMA ParentType == \A t \in Tenants : Parent(t) \in {Org, "none"}
BY Homes DEF Tenants

\* Whoever has business at a tenant has one of the roles there.
LEMMA RoleType ==
  ASSUME member \in Memberships, NEW u \in Users, NEW t \in Tenants
  PROVE  Role(u, t) \in Roles \cup {"none"} /\ (Role(u, t) # "none" => Role(u, t) \in Roles)
<1>1. "none" \notin Roles
  BY DEF Roles
<1>2. CASE member[t][u].active
  <2>1. member[t][u] \in [role : Roles, active : BOOLEAN]
    BY <1>2 DEF Memberships, Absent
  <2>2. QED
    BY <1>1, <1>2, <2>1 DEF Role, RoleIn, Roles
<1>3. CASE ~ member[t][u].active /\ Manages(member, u, Parent(t))
  BY <1>3 DEF Role, RoleIn, Roles, Manages
<1>4. CASE ~ member[t][u].active /\ ~ Manages(member, u, Parent(t))
  BY <1>4 DEF Role, RoleIn
<1>5. QED
  BY <1>2, <1>3, <1>4

LEMMA RoleOfActive ==
  ASSUME member \in Memberships, NEW u \in Users, NEW t \in Tenants,
         member[t][u].active \/ Manages(member, u, Parent(t))
  PROVE  Role(u, t) \in Roles
<1>1. CASE \E o \in Tenants : Manages(member, u, o)
  BY <1>1 DEF Role, RoleIn, Roles
<1>2. CASE ~ \E o \in Tenants : Manages(member, u, o)
  <2>1. member[t][u].active
    BY <1>2 DEF Manages
  <2>2. member[t][u] \in [role : Roles, active : BOOLEAN]
    BY <2>1 DEF Memberships, Absent
  <2>3. QED
    BY <1>2, <2>1, <2>2 DEF Role, RoleIn
<1>3. QED
  BY <1>1, <1>2

\* The role found out is the one a session gets at once.
LEMMA BestOfFresh ==
  ASSUME NEW u \in Users, NEW t \in Tenants, NEW role \in Roles, NEW v \in Nat,
         Fresh(u, t, role, v)
  PROVE  BestRole(u, role) \in Roles /\ Fresh(u, t, BestRole(u, role), v)
<1>1. Role(u, t) # "none" /\ (\E o \in Tenants : Manages(member, u, o)) => Role(u, t) = "ORG_MANAGER"
  BY DEF Role, RoleIn
<1>2. QED
  BY <1>1 DEF BestRole, Fresh, Roles

\* How a user's version and roles may change in a step.
Follows(u) ==
  \/ version'[u] = version[u] + 1
  \/ /\ version'[u] = version[u]
     /\ u \in silent' \/ (u \notin silent /\ \A x \in Tenants : Role(u, x) \in {"none", Role(u, x)'})

LEMMA FreshStays ==
  ASSUME NEW u \in Users, NEW t \in Tenants, NEW role \in Roles, NEW v \in Nat,
         version[u] \in Nat, v <= version[u], Fresh(u, t, role, v), Follows(u)
  PROVE  Fresh(u, t, role, v)' /\ v <= version'[u]
<1>1. CASE version'[u] = version[u] + 1
  BY <1>1 DEF Fresh
<1>2. CASE /\ version'[u] = version[u]
           /\ u \in silent' \/ (u \notin silent /\ \A x \in Tenants : Role(u, x) \in {"none", Role(u, x)'})
  BY <1>2 DEF Fresh, Roles
<1>3. QED
  BY <1>1, <1>2 DEF Follows

-----------------------------------------------------------------------------
(* What a step leaves alone *)

LEMMA JobTyping ==
  ASSUME TypeOK, NEW r \in Requests
  PROVE  /\ job[r].tenant \in Tenants /\ job[r].role \in Roles \cup {"none"}
         /\ job[r].version \in Nat /\ job[r].active \in BOOLEAN
         /\ job[r].user \in Users \cup {"none"} /\ job[r].session \in Sessions \cup {"none"}
BY DEF TypeOK

LEMMA SessionTyping ==
  ASSUME TypeOK, NEW s \in Sessions
  PROVE  /\ session[s].state \in {"none", "live", "revoked", "lent"}
         /\ session[s].user \in Users \cup {"none"} /\ session[s].tenant \in Tenants
         /\ token[s].tenant \in Tenants /\ token[s].role \in Roles \cup {"none"}
         /\ token[s].version \in Nat
BY DEF TypeOK

\* A session that is being renewed is still there, and the same user's.
SessionsKept ==
  \A s \in Sessions :
    \/ session'[s] = session[s]
    \/ session[s].state = "live" /\ session'[s].user = session[s].user /\ session'[s].state = "revoked"
    \/ \A r \in Requests : pc[r] \in Renewing => job[r].session # s

MembersKept == \A t \in Tenants, u \in Users : member[t][u] # Absent => member'[t][u] # Absent

LEMMA SameFollows ==
  ASSUME UNCHANGED <<member, version, silent>>
  PROVE  (\A u \in Users : Follows(u)) /\ MembersKept
BY DEF Follows, MembersKept, Role, RoleIn, Manages

LEMMA JobStays ==
  ASSUME Inv, NEW r \in Requests, pc'[r] = pc[r], job'[r] = job[r], there \subseteq there',
         \A u \in Users : Follows(u), MembersKept, SessionsKept
  PROVE  JobOK(r)'
<1> DEFINE j == job[r]
<1>1. JobOK(r) /\ TypeOK /\ Version
  BY DEF Inv
<1>2. j.tenant \in Tenants /\ j.version \in Nat
  BY <1>1, JobTyping
<1>3. pc'[r] \in Changing => j.tenant \in there' /\ j.user \in Users
  BY <1>1 DEF JobOK
<1>4. pc'[r] \in {"create", "role"} => j.role \in Roles
  BY <1>1 DEF JobOK
<1>5. pc'[r] \in {"update", "role"} => member'[j.tenant][j.user] # Absent
  BY <1>1, <1>2 DEF JobOK, MembersKept
<1>6. pc'[r] \in Visiting => j.user \in Users /\ j.version <= version'[j.user]
  <2>1. ASSUME pc[r] \in Visiting PROVE j.user \in Users /\ j.version <= version'[j.user]
    <3>1. j.user \in Users /\ j.version <= version[j.user] /\ version[j.user] \in Nat
      BY <1>1, <2>1 DEF JobOK, Version
    <3>2. version'[j.user] \in {version[j.user], version[j.user] + 1}
      BY <3>1 DEF Follows
    <3>3. QED
      BY <1>2, <3>1, <3>2
  <2>2. QED
    BY <2>1
<1>7. pc'[r] \in Deciding => j.role \in Roles /\ Fresh(j.user, j.tenant, j.role, j.version)'
  <2>1. ASSUME pc[r] \in Deciding PROVE j.role \in Roles /\ Fresh(j.user, j.tenant, j.role, j.version)'
    <3>1. /\ j.user \in Users /\ j.version <= version[j.user] /\ version[j.user] \in Nat
          /\ j.role \in Roles /\ Fresh(j.user, j.tenant, j.role, j.version)
      BY <1>1, <2>1 DEF JobOK, Version
    <3>2. \A u \in Users, t \in Tenants, role \in Roles, v \in Nat :
            version[u] \in Nat /\ v <= version[u] /\ Fresh(u, t, role, v) => Fresh(u, t, role, v)'
      BY FreshStays
    <3>3. QED
      BY <1>2, <3>1, <3>2 DEF Fresh
  <2>2. QED
    BY <2>1
<1>8. pc'[r] \in Renewing => /\ j.session \in Sessions /\ session'[j.session].user = j.user
                            /\ session'[j.session].state \in {"live", "revoked"}
  BY <1>1 DEF JobOK, SessionsKept
<1>9. QED
  BY <1>3, <1>4, <1>5, <1>6, <1>7, <1>8 DEF JobOK, Fresh

LEMMA SessionStays ==
  ASSUME Inv, NEW s \in Sessions, token'[s] = token[s], \A u \in Users : Follows(u),
         \/ session'[s] = session[s]
         \/ session[s].state = "live" /\ session'[s].user = session[s].user /\ session'[s].state = "revoked"
  PROVE  SessionOK(s)'
<1> DEFINE k == token[s]
           u == session[s].user
<1>1. SessionOK(s) /\ TypeOK /\ Version
  BY DEF Inv
<1>2. k.tenant \in Tenants /\ k.version \in Nat
  BY <1>1, SessionTyping
<1>3. session'[s].user = u /\ (session'[s].state = "none" <=> session[s].state = "none")
      /\ (session'[s].state = "lent" <=> session[s].state = "lent")
  OBVIOUS
<1>4. ASSUME k # NoToken
      PROVE  /\ k.version <= version'[u]
             /\ session[s].state # "lent" => Fresh(u, k.tenant, k.role, k.version)'
  <2>1. /\ u \in Users /\ k.role \in Roles /\ k.version <= version[u] /\ version[u] \in Nat
        /\ session[s].state # "lent" => Fresh(u, k.tenant, k.role, k.version)
    BY <1>1, <1>4 DEF SessionOK, Version
  <2>2. version'[u] \in {version[u], version[u] + 1}
    BY <2>1 DEF Follows
  <2>3. \A w \in Users, t \in Tenants, role \in Roles, v \in Nat :
          version[w] \in Nat /\ v <= version[w] /\ Fresh(w, t, role, v) => Fresh(w, t, role, v)'
    BY FreshStays
  <2>4. QED
    BY <1>2, <2>1, <2>2, <2>3 DEF Fresh
<1>5. QED
  BY <1>1, <1>3, <1>4 DEF SessionOK, Fresh

LEMMA IdleIsOK == ASSUME NEW r \in Requests, pc'[r] = "idle" PROVE JobOK(r)'
BY DEF JobOK

LEMMA NoJobTyping == NoJob \in [tenant : Tenants, user : Users \cup {"none"}, role : Roles \cup {"none"},
                                active : BOOLEAN, version : Nat, session : Sessions \cup {"none"}]
BY DEF NoJob, Tenants

-----------------------------------------------------------------------------
(* Changes of memberships *)

LEMMA MembersMove ==
  ASSUME Inv, TypeOK', Version', Created', there \subseteq there',
         \A u \in Users : Follows(u), MembersKept, UNCHANGED sessionVars,
         \A r \in Requests : (pc'[r] = pc[r] /\ job'[r] = job[r]) \/ pc'[r] = "idle"
  PROVE  Inv'
<1>1. SessionsKept
  BY DEF SessionsKept, sessionVars
<1>2. \A r \in Requests : JobOK(r)'
  BY <1>1, JobStays, IdleIsOK
<1>3. \A s \in Sessions : SessionOK(s)'
  BY SessionStays DEF sessionVars
<1>4. QED
  BY <1>2, <1>3 DEF Inv

\* Whatever is assigned: who loses a role, or gets another, is told by a version
\* or is silent from then on.
LEMMA AssignMoves ==
  ASSUME Inv, NEW t \in Tenants, NEW u \in Users, NEW m \in [role : Roles, active : BOOLEAN],
         NEW bump \in BOOLEAN, Assign(t, u, m, bump), Changed
  PROVE  /\ member' \in Memberships /\ version' \in [Users -> 0 .. MaxChanges]
         /\ silent' \subseteq Users /\ changes' \in 0 .. MaxChanges
         /\ Version' /\ MembersKept /\ \A w \in Users : Follows(w)
         /\ \A x \in Tenants, w \in Users : member'[x][w] # Absent => x \in there \cup {t}
<1>1. /\ t \in Tenants /\ member \in Memberships /\ version \in [Users -> 0 .. MaxChanges]
      /\ silent \subseteq Users /\ changes \in 0 .. MaxChanges /\ MaxChanges \in Nat
  BY AccountAssumption DEF Inv, TypeOK
<1>2. member' = [member EXCEPT ![t][u] = m] /\ changes' = changes + 1 /\ changes < MaxChanges
  BY DEF Assign, Changed, MayChange
<1>3. m # Absent
  BY DEF Absent, Roles
<1>4. member' \in Memberships
  BY <1>1, <1>2 DEF Memberships
<1>5. MembersKept
  BY <1>1, <1>2, <1>3 DEF MembersKept, Memberships
<1>6. \A x \in Tenants, w \in Users : member'[x][w] # Absent => x \in there \cup {t}
  BY <1>1, <1>2 DEF Inv, Created, Memberships
<1>7. ASSUME NEW w \in Users, w # u, NEW x \in Tenants PROVE Role(w, x)' = Role(w, x)
  <2>1. \A y \in Tenants : member'[y][w] = member[y][w]
    BY <1>1, <1>2, <1>7 DEF Memberships
  <2>2. QED
    BY <2>1 DEF Role, RoleIn, Manages
<1>8. CASE bump
  <2>1. version' = [version EXCEPT ![u] = @ + 1] /\ silent' = silent \ {u}
    BY <1>8 DEF Assign
  <2>2. Version' /\ version' \in [Users -> 0 .. MaxChanges]
    <3>1. \A w \in Users : version[w] <= changes /\ version[w] \in Nat
      BY DEF Inv, Version
    <3>2. QED
      BY <1>1, <1>2, <2>1, <3>1 DEF Version
  <2>3. \A w \in Users : Follows(w)
    BY <1>1, <1>7, <2>1 DEF Follows
  <2>4. QED
    BY <1>1, <1>2, <1>4, <1>5, <1>6, <2>1, <2>2, <2>3
<1>9. CASE ~ bump
  <2>1. /\ version' = version
        /\ silent' = IF \E x \in Tenants : Role(u, x) \notin {"none", RoleIn(member', u, x)}
                     THEN silent \cup {u} ELSE silent
    BY <1>9 DEF Assign
  <2>2. Version' /\ version' \in [Users -> 0 .. MaxChanges]
    BY <1>1, <1>2, <2>1 DEF Inv, Version
  <2>3. ASSUME NEW w \in Users PROVE Follows(w)
    <3>1. CASE w # u
      BY <1>7, <2>1, <3>1 DEF Follows
    <3>2. CASE w = u
      BY <2>1, <3>2 DEF Follows, Role
    <3>3. QED
      BY <3>1, <3>2
  <2>4. silent' \subseteq Users
    <3>1. silent' = silent \cup {u} \/ silent' = silent
      BY <2>1
    <3>2. QED
      BY <1>1, <3>1
  <2>5. changes' \in 0 .. MaxChanges
    BY <1>1, <1>2
  <2>6. QED
    BY <1>4, <1>5, <1>6, <2>2, <2>3, <2>4, <2>5
<1>10. QED
  BY <1>8, <1>9

LEMMA FinishChangeKeeps ==
  ASSUME Inv, NEW r \in Requests, FinishCreateUser(r) \/ FinishUpdateUser(r) \/ FinishUpdateRole(r),
         UNCHANGED sessionVars
  PROVE  Inv'
<1> DEFINE j == job[r]
           t == j.tenant
           u == j.user
<1>1. JobOK(r) /\ TypeOK /\ member \in Memberships /\ there \subseteq Tenants
  BY DEF Inv, TypeOK
<1>2. Changed /\ Done(r) /\ UNCHANGED tenants
  BY DEF FinishCreateUser, FinishUpdateUser, FinishUpdateRole
<1>3. t \in there /\ u \in Users
  BY <1>1 DEF JobOK, FinishCreateUser, FinishUpdateUser, FinishUpdateRole
<1>4. PICK m \in [role : Roles, active : BOOLEAN], bump \in BOOLEAN : Assign(t, u, m, bump)
  <2>1. CASE FinishCreateUser(r)
    <3>1. Member(j.role) \in [role : Roles, active : BOOLEAN]
      BY <1>1, <2>1 DEF JobOK, FinishCreateUser, Member
    <3>2. QED
      BY <2>1, <3>1 DEF FinishCreateUser
  <2>2. CASE FinishUpdateUser(r)
    <3> DEFINE m == [role |-> IF j.role = "none" THEN member[t][u].role ELSE j.role, active |-> j.active]
    <3>1. member[t][u] \in [role : Roles, active : BOOLEAN]
      BY <1>1, <1>3, <2>2 DEF JobOK, FinishUpdateUser, Memberships
    <3>2. j.role \in Roles \cup {"none"} /\ j.active \in BOOLEAN
      BY <1>1, JobTyping
    <3>3. m \in [role : Roles, active : BOOLEAN]
      BY <3>1, <3>2
    <3>4. QED
      BY <2>2, <3>3 DEF FinishUpdateUser
  <2>3. CASE FinishUpdateRole(r)
    <3>1. member[t][u] \in [role : Roles, active : BOOLEAN]
      BY <1>1, <1>3, <2>3 DEF JobOK, FinishUpdateRole, Memberships
    <3>2. j.role \in Roles
      BY <1>1, <2>3 DEF JobOK, FinishUpdateRole
    <3>3. [member[t][u] EXCEPT !.role = j.role] \in [role : Roles, active : BOOLEAN]
      BY <3>1, <3>2
    <3>4. QED
      BY <2>3, <3>3 DEF FinishUpdateRole
  <2>4. QED
    BY <2>1, <2>2, <2>3
<1> HIDE DEF j, t, u
<1>5. /\ member' \in Memberships /\ version' \in [Users -> 0 .. MaxChanges]
      /\ silent' \subseteq Users /\ changes' \in 0 .. MaxChanges
      /\ Version' /\ MembersKept /\ \A w \in Users : Follows(w)
      /\ \A x \in Tenants, w \in Users : member'[x][w] # Absent => x \in there
  BY <1>1, <1>2, <1>3, <1>4, AssignMoves
<1>6. pc' = [pc EXCEPT ![r] = "idle"] /\ job' = [job EXCEPT ![r] = NoJob]
  BY <1>2 DEF Done, Goes
<1>7. TypeOK'
  BY <1>1, <1>2, <1>5, <1>6, NoJobTyping DEF TypeOK, tenants, sessionVars
<1>8. Created'
  BY <1>2, <1>5 DEF Inv, Created, tenants
<1>9. \A q \in Requests : (pc'[q] = pc[q] /\ job'[q] = job[q]) \/ pc'[q] = "idle"
  BY <1>1, <1>6 DEF TypeOK
<1>10. QED
  BY <1>2, <1>5, <1>7, <1>8, <1>9, MembersMove DEF tenants

\* An administrator's request that begins has only read.
LEMMA BeginsLeave ==
  ASSUME NEW r, NEW by, NEW t, NEW u, NEW role, NEW active,
         \/ BeginCreateUser(r, by, t, u, role) \/ BeginUpdateRole(r, by, t, u, role)
         \/ BeginUpdateUser(r, by, t, u, role, active)
  PROVE  UNCHANGED accountVars /\ \E step \in Changing : Goes(r, step)
<1>1. CASE BeginCreateUser(r, by, t, u, role)
  BY <1>1 DEF BeginCreateUser, Changing
<1>2. CASE BeginUpdateRole(r, by, t, u, role)
  BY <1>2 DEF BeginUpdateRole, Changing
<1>3. CASE BeginUpdateUser(r, by, t, u, role, active)
  BY <1>3 DEF BeginUpdateUser, Changing
<1>4. QED
  BY <1>1, <1>2, <1>3

LEMMA AdministerLeaves ==
  ASSUME NEW r, Administer(r)
  PROVE  \/ UNCHANGED accountVars /\ \E step \in Changing : Goes(r, step)
         \/ FinishCreateUser(r) \/ FinishUpdateUser(r) \/ FinishUpdateRole(r)
BY BeginsLeave DEF Administer

\* Beginning a change of a membership.
LEMMA BeginChangeKeeps ==
  ASSUME Inv, NEW r \in Requests, NEW by \in Users, NEW t \in Tenants, NEW u \in Users,
         NEW role \in Roles \cup {"none"}, NEW active \in BOOLEAN,
         \/ role \in Roles /\ (BeginCreateUser(r, by, t, u, role) \/ BeginUpdateRole(r, by, t, u, role))
         \/ BeginUpdateUser(r, by, t, u, role, active),
         UNCHANGED sessionVars
  PROVE  Inv'
<1>1. PICK step \in Changing, a \in BOOLEAN :
        /\ pc' = [pc EXCEPT ![r] = step]
        /\ job' = [job EXCEPT ![r] = [@ EXCEPT !.tenant = t, !.user = u, !.role = role, !.active = a]]
        /\ t \in there
        /\ step \in {"create", "role"} => role \in Roles
        /\ step \in {"update", "role"} => member[t][u] # Absent
  <2>1. CASE BeginUpdateUser(r, by, t, u, role, active)
    BY <2>1 DEF BeginUpdateUser, Goes
  <2>2. CASE role \in Roles /\ (BeginCreateUser(r, by, t, u, role) \/ BeginUpdateRole(r, by, t, u, role))
    <3>1. job[r].active \in BOOLEAN /\ job[r] = [job[r] EXCEPT !.active = job[r].active]
      BY DEF Inv, TypeOK
    <3>2. job' = [job EXCEPT ![r] = [@ EXCEPT !.tenant = t, !.user = u, !.role = role]]
      BY <2>2 DEF BeginCreateUser, BeginUpdateRole
    <3>3. [job[r] EXCEPT !.tenant = t, !.user = u, !.role = role]
            = [job[r] EXCEPT !.tenant = t, !.user = u, !.role = role, !.active = job[r].active]
      BY DEF Inv, TypeOK
    <3>4. job' = [job EXCEPT ![r] = [@ EXCEPT !.tenant = t, !.user = u, !.role = role,
                                              !.active = job[r].active]]
      BY <3>2, <3>3
    <3>5. CASE BeginCreateUser(r, by, t, u, role)
      BY <2>2, <3>1, <3>4, <3>5 DEF BeginCreateUser, Goes
    <3>6. CASE BeginUpdateRole(r, by, t, u, role)
      BY <2>2, <3>1, <3>4, <3>6 DEF BeginUpdateRole, Goes
    <3>7. QED
      BY <2>2, <3>5, <3>6
  <2>3. QED
    BY <2>1, <2>2
<1>2. UNCHANGED <<there, suspended, closed, seats, member, version, silent, changes, session, token>>
  <2>1. UNCHANGED accountVars
    BY BeginsLeave
  <2>2. QED
    BY <2>1 DEF accountVars, tenants, members, sessionVars
<1>3. TypeOK'
  <2> DEFINE j == [job[r] EXCEPT !.tenant = t, !.user = u, !.role = role, !.active = a]
  <2>1. j \in [tenant : Tenants, user : Users \cup {"none"}, role : Roles \cup {"none"},
               active : BOOLEAN, version : Nat, session : Sessions \cup {"none"}]
    BY DEF Inv, TypeOK
  <2>2. job' = [job EXCEPT ![r] = j]
    BY <1>1
  <2> HIDE DEF j
  <2>3. QED
    BY <1>1, <1>2, <2>1, <2>2 DEF Inv, TypeOK
<1>4. \A u2 \in Users : Follows(u2)
  BY <1>2, SameFollows
<1>5. MembersKept /\ SessionsKept
  BY <1>2, SameFollows DEF SessionsKept
<1>6. ASSUME NEW q \in Requests PROVE JobOK(q)'
  <2>1. CASE q # r
    <3>1. pc'[q] = pc[q] /\ job'[q] = job[q]
      BY <1>1, <2>1 DEF Inv, TypeOK
    <3>2. QED
      BY <1>2, <1>4, <1>5, <3>1, JobStays
  <2>2. CASE q = r
    <3>1. pc'[r] \in Changing /\ pc'[r] = step
      BY <1>1 DEF Inv, TypeOK
    <3>2. job'[r].tenant = t /\ job'[r].user = u /\ job'[r].role = role
      BY <1>1 DEF Inv, TypeOK
    <3>3. QED
      BY <1>1, <1>2, <2>2, <3>1, <3>2 DEF JobOK
  <2>3. QED
    BY <2>1, <2>2
<1>7. \A s \in Sessions : SessionOK(s)'
  BY <1>2, <1>4, SessionStays
<1>8. Version' /\ Created'
  BY <1>2 DEF Inv, Version, Created
<1>9. QED
  BY <1>3, <1>6, <1>7, <1>8 DEF Inv

\* The super administrator changes memberships.
LEMMA UpdateTenantAdminKeeps ==
  ASSUME Inv, NEW t \in Tenants, NEW u \in Users, NEW active \in BOOLEAN, NEW credentials \in BOOLEAN,
         UpdateTenantAdmin(t, u, active, credentials), UNCHANGED sessionVars
  PROVE  Inv'
<1> DEFINE m == [member[t][u] EXCEPT !.active = active]
<1>1. m \in [role : Roles, active : BOOLEAN]
  <2>1. member[t][u] \in [role : Roles, active : BOOLEAN]
    BY DEF UpdateTenantAdmin, Inv, TypeOK, Memberships, Absent
  <2>2. QED
    BY <2>1
<1>2. t \in there /\ Assign(t, u, m, credentials) /\ Changed /\ UNCHANGED <<tenants, pc, job, session, token>>
  BY DEF UpdateTenantAdmin, sessionVars
<1> HIDE DEF m
<1>3. /\ member' \in Memberships /\ version' \in [Users -> 0 .. MaxChanges]
      /\ silent' \subseteq Users /\ changes' \in 0 .. MaxChanges
      /\ Version' /\ MembersKept /\ \A w \in Users : Follows(w)
      /\ \A x \in Tenants, w \in Users : member'[x][w] # Absent => x \in there
  BY <1>1, <1>2, AssignMoves
<1>4. TypeOK'
  BY <1>2, <1>3 DEF Inv, TypeOK, tenants
<1>5. Created'
  BY <1>2, <1>3 DEF Inv, Created, tenants
<1>6. QED
  BY <1>2, <1>3, <1>4, <1>5, MembersMove DEF tenants

LEMMA CreateTenantKeeps ==
  ASSUME Inv, NEW u \in Users, CreateTenant(u), UNCHANGED sessionVars
  PROVE  Inv'
<1>1. /\ Org \in there /\ there' = there \cup {Hotel} /\ Changed
      /\ UNCHANGED <<suspended, closed, seats, pc, job, session, token>>
      /\ Assign(Hotel, u, Member("ADMIN"), FALSE)
  BY DEF CreateTenant, sessionVars
<1>2. Member("ADMIN") \in [role : Roles, active : BOOLEAN] /\ Hotel \in Tenants
  BY DEF Member, Roles, Tenants
<1>3. /\ member' \in Memberships /\ version' \in [Users -> 0 .. MaxChanges]
      /\ silent' \subseteq Users /\ changes' \in 0 .. MaxChanges
      /\ Version' /\ MembersKept /\ \A w \in Users : Follows(w)
      /\ \A x \in Tenants, w \in Users : member'[x][w] # Absent => x \in there \cup {Hotel}
  BY <1>1, <1>2, AssignMoves
<1>4. TypeOK'
  BY <1>1, <1>2, <1>3 DEF Inv, TypeOK
<1>5. Created'
  BY <1>1, <1>3 DEF Created
<1>6. QED
  BY <1>1, <1>3, <1>4, <1>5, MembersMove

\* Nobody has business in an organization that is founded, or its hotel, before.
LEMMA CreateFullOrganizationKeeps ==
  ASSUME Inv, NEW u \in Users, NEW v \in Users, CreateFullOrganization(u, v), UNCHANGED sessionVars
  PROVE  Inv'
<1>1. /\ Org \notin there /\ there' = there \cup {Org, Hotel}
      /\ changes' = changes + 1 /\ changes < MaxChanges
      /\ member' = [member EXCEPT ![Org][u] = Member("ORG_MANAGER"), ![Hotel][v] = Member("ADMIN")]
      /\ UNCHANGED <<suspended, closed, seats, version, pc, job, session, token>>
      /\ silent' = IF \E x \in Tenants : Role(u, x) \notin {"none", RoleIn(member', u, x)}
                   THEN silent \cup {u} ELSE silent
  BY DEF CreateFullOrganization, Changed, MayChange, sessionVars
<1>2. /\ member \in Memberships /\ silent \subseteq Users
      /\ Org \in Tenants /\ Hotel \in Tenants /\ Org # Hotel
      /\ changes \in 0 .. MaxChanges /\ MaxChanges \in Nat
  BY AccountAssumption DEF Inv, TypeOK, Tenants
<1>3. /\ Member("ORG_MANAGER") \in [role : Roles, active : BOOLEAN] /\ Member("ORG_MANAGER") # Absent
      /\ Member("ADMIN") \in [role : Roles, active : BOOLEAN] /\ Member("ADMIN") # Absent
      /\ Member("ADMIN") # Member("ORG_MANAGER")
  BY DEF Member, Roles, Absent
<1>4. member' \in Memberships
  BY <1>1, <1>2, <1>3 DEF Memberships
<1>5. \A w \in Users : member[Org][w] = Absent /\ member[Hotel][w] = Absent
  BY <1>1, <1>2 DEF Inv, Created
<1>6. /\ \A x \in Tenants, w \in Users :
           member'[x][w] = IF x = Org /\ w = u THEN Member("ORG_MANAGER")
                           ELSE IF x = Hotel /\ w = v THEN Member("ADMIN") ELSE member[x][w]
  BY <1>1, <1>2 DEF Memberships
<1>7. MembersKept
  BY <1>3, <1>6 DEF MembersKept
<1>8. ASSUME NEW w \in Users PROVE Follows(w)
  <2>1. CASE w = u
    BY <1>1, <2>1 DEF Follows, Role
  <2>2. CASE w # u
    <3>1. \A x \in Tenants : x # Hotel => member'[x][w] = member[x][w]
      BY <1>6, <2>2
    <3>2. ~ Manages(member', w, Hotel) /\ ~ Manages(member, w, Hotel)
          /\ ~ Manages(member, w, Org) /\ ~ Manages(member', w, Org)
      <4>1. Absent # Member("ORG_MANAGER")
        BY <1>3
      <4>2. QED
        BY <1>2, <1>3, <1>5, <1>6, <2>2, <4>1 DEF Manages
    <3>3. \A x \in Tenants : Manages(member', w, x) = Manages(member, w, x)
      BY <3>1, <3>2 DEF Manages
    <3>4. ASSUME NEW x \in Tenants PROVE Role(w, x) \in {"none", Role(w, x)'}
      <4>1. Manages(member', w, Parent(x)) = Manages(member, w, Parent(x))
        <5>1. CASE Parent(x) \in Tenants
          BY <3>3, <5>1
        <5>2. CASE Parent(x) \notin Tenants
          BY <5>2 DEF Manages
        <5>3. QED
          BY <5>1, <5>2
      <4>2. CASE x # Hotel
        BY <3>1, <3>3, <4>1, <4>2 DEF Role, RoleIn
      <4>3. CASE x = Hotel
        <5>1. ~ member[Hotel][w].active
          BY <1>5 DEF Absent
        <5>2. ~ Manages(member, w, Parent(Hotel))
          BY <3>2, Homes
        <5>3. Role(w, x) = "none"
          BY <4>3, <5>1, <5>2 DEF Role, RoleIn
        <5>4. QED
          BY <5>3
      <4>4. QED
        BY <4>2, <4>3
    <3>5. w \in silent' <=> w \in silent
      BY <1>1, <2>2
    <3>6. QED
      BY <1>1, <3>4, <3>5 DEF Follows
  <2>3. QED
    BY <2>1, <2>2
<1>9. silent' \subseteq Users
  <2>1. silent' = silent \cup {u} \/ silent' = silent
    BY <1>1
  <2>2. QED
    BY <1>2, <2>1
<1>10. TypeOK'
  BY <1>1, <1>2, <1>4, <1>9 DEF Inv, TypeOK
<1>11. Version'
  <2>1. \A w \in Users : version[w] <= changes /\ version[w] \in Nat
    BY DEF Inv, Version
  <2>2. QED
    BY <1>1, <1>2, <2>1 DEF Inv, Version
<1>12. Created'
  <2>1. there' = there \cup {Org, Hotel}
    BY <1>1
  <2>2. \A x \in Tenants, w \in Users : member[x][w] # Absent => x \in there
    BY DEF Inv, Created
  <2>3. \A x \in Tenants, w \in Users : member'[x][w] # Absent => x \in there'
    BY <1>6, <2>1, <2>2
  <2>4. QED
    BY <2>1, <2>3 DEF Created
<1>13. QED
  BY <1>1, <1>7, <1>8, <1>10, <1>11, <1>12, MembersMove DEF sessionVars

-----------------------------------------------------------------------------
(* Changes that concern no membership *)

LEMMA TenantsMove ==
  ASSUME Inv, TypeOK', there' = there, changes' \in Nat, changes <= changes',
         UNCHANGED <<member, version, silent, pc, job, token>>,
         \A s \in Sessions :
           \/ session'[s] = session[s]
           \/ session[s].state = "live" /\ session'[s].user = session[s].user /\ session'[s].state = "revoked"
  PROVE  Inv'
<1>1. (\A u \in Users : Follows(u)) /\ MembersKept
  BY SameFollows
<1>2. SessionsKept
  BY DEF SessionsKept
<1>3. \A r \in Requests : JobOK(r)'
  BY <1>1, <1>2, JobStays
<1>4. \A s \in Sessions : SessionOK(s)'
  BY <1>1, SessionStays
<1>5. Version'
  <2>1. \A w \in Users : version[w] <= changes /\ version[w] \in Nat
    BY DEF Inv, Version
  <2>2. changes \in Nat
    BY DEF Inv, TypeOK
  <2>3. QED
    BY <2>1, <2>2 DEF Inv, Version
<1>6. Created'
  BY DEF Inv, Created
<1>7. QED
  BY <1>3, <1>4, <1>5, <1>6 DEF Inv

LEMMA ChangeCounts ==
  ASSUME Inv, Changed
  PROVE  changes' \in 0 .. MaxChanges /\ changes' \in Nat /\ changes <= changes'
BY AccountAssumption DEF Inv, TypeOK, Changed, MayChange

LEMMA PlansKeep ==
  ASSUME Inv, NEW t \in Tenants, Reopen(t) \/ Toggle(t) \/ \E n \in 1 .. MaxUsers : SetPlan(t, n),
         UNCHANGED sessionVars
  PROVE  Inv'
<1>1. /\ Changed /\ there' = there /\ suspended' \subseteq suspended /\ closed' \subseteq closed \cup there
      /\ UNCHANGED <<member, version, silent, pc, job, token, session>>
  BY DEF Reopen, Toggle, SetPlan, members, sessionVars
<1>2. seats' \in [Tenants -> 1 .. MaxUsers]
  BY DEF Reopen, Toggle, SetPlan, Inv, TypeOK
<1>3. TypeOK'
  BY <1>1, <1>2, ChangeCounts DEF Inv, TypeOK
<1>4. QED
  BY <1>1, <1>3, ChangeCounts, TenantsMove

\* Revocation ends sessions that live, and changes nothing else.
LEMMA RevokeMoves ==
  ASSUME Inv, NEW ended, Revoke(ended)
  PROVE  /\ session' \in [Sessions -> [state : {"none", "live", "revoked", "lent"},
                                       user : Users \cup {"none"}, tenant : Tenants]]
         /\ \A s \in Sessions :
              \/ session'[s] = session[s]
              \/ /\ session[s].state = "live" /\ session'[s].user = session[s].user
                 /\ session'[s].state = "revoked"
<1>1. \A s \in Sessions : session[s] \in [state : {"none", "live", "revoked", "lent"},
                                       user : Users \cup {"none"}, tenant : Tenants]
  BY DEF Inv, TypeOK
<1>2. QED
  BY <1>1 DEF Revoke

LEMMA LogoutKeeps ==
  ASSUME Inv, (\E s \in Sessions : Logout(s)) \/ \E t \in Tenants : ForceLogout(t)
  PROVE  Inv'
<1>1. /\ \E ended : Revoke(ended)
      /\ UNCHANGED <<there, suspended, closed, seats, member, version, silent, changes, token, pc, job>>
  BY DEF Logout, ForceLogout, accountVars, tenants, members
<1>2. TypeOK'
  BY <1>1, RevokeMoves DEF Inv, TypeOK
<1>3. changes \in Nat
  BY DEF Inv, TypeOK
<1>4. QED
  BY <1>1, <1>2, <1>3, RevokeMoves, TenantsMove

LEMMA SuspendTenantKeeps ==
  ASSUME Inv, NEW t \in Tenants, SuspendTenant(t)
  PROVE  Inv'
<1>1. /\ \E ended : Revoke(ended)
      /\ Changed /\ t \in there /\ suspended' = suspended \cup {t}
      /\ UNCHANGED <<there, closed, seats, member, version, silent, token, pc, job>>
  BY DEF SuspendTenant, members
<1>2. TypeOK'
  BY <1>1, RevokeMoves, ChangeCounts DEF Inv, TypeOK
<1>3. QED
  BY <1>1, <1>2, RevokeMoves, ChangeCounts, TenantsMove

-----------------------------------------------------------------------------
(* Requests for sessions *)

LEMMA ClientMoves ==
  ASSUME Inv, TypeOK', UNCHANGED accountVars, NEW r \in Requests, JobOK(r)', SessionsKept,
         \A q \in Requests : q # r => pc'[q] = pc[q] /\ job'[q] = job[q],
         \A s \in Sessions : SessionOK(s)'
  PROVE  Inv'
<1>1. UNCHANGED <<there, member, version, silent, changes>>
  BY DEF accountVars, tenants, members
<1>2. (\A u \in Users : Follows(u)) /\ MembersKept
  BY <1>1, SameFollows
<1>3. \A q \in Requests : JobOK(q)'
  BY <1>1, <1>2, JobStays
<1>4. Version' /\ Created'
  BY <1>1 DEF Inv, Version, Created
<1>5. QED
  BY <1>3, <1>4 DEF Inv

\* A request that reads.
LEMMA ReaderMoves ==
  ASSUME Inv, UNCHANGED <<accountVars, sessionVars>>, NEW r \in Requests, JobOK(r)',
         NEW step \in {"idle", "login", "issue", "switch", "refresh", "renew"},
         NEW j \in [tenant : Tenants, user : Users \cup {"none"}, role : Roles \cup {"none"},
                    active : BOOLEAN, version : Nat, session : Sessions \cup {"none"}],
         pc' = [pc EXCEPT ![r] = step], job' = [job EXCEPT ![r] = j]
  PROVE  Inv'
<1>1. UNCHANGED <<there, suspended, closed, seats, member, version, silent, changes, session, token>>
  BY DEF accountVars, tenants, members, sessionVars
<1>2. TypeOK'
  BY <1>1 DEF Inv, TypeOK
<1>3. SessionsKept /\ \A u \in Users : Follows(u)
  BY <1>1, SameFollows DEF SessionsKept
<1>4. \A s \in Sessions : SessionOK(s)'
  BY <1>1, <1>3, SessionStays
<1>5. \A q \in Requests : q # r => pc'[q] = pc[q] /\ job'[q] = job[q]
  BY DEF Inv, TypeOK
<1>6. QED
  BY <1>2, <1>3, <1>4, <1>5, ClientMoves

LEMMA BeginLoginKeeps ==
  ASSUME Inv, NEW r \in Requests, NEW u \in Users, BeginLogin(r, u)
  PROVE  Inv'
<1> DEFINE j == [job[r] EXCEPT !.user = u, !.version = version[u]]
<1>1. version[u] \in Nat /\ TypeOK
  BY DEF Inv, Version
<1>2. j \in [tenant : Tenants, user : Users \cup {"none"}, role : Roles \cup {"none"},
             active : BOOLEAN, version : Nat, session : Sessions \cup {"none"}]
  BY <1>1 DEF TypeOK
<1>3. j.user = u /\ j.version = version[u]
  BY <1>1 DEF TypeOK
<1>4. /\ pc' = [pc EXCEPT ![r] = "login"] /\ job' = [job EXCEPT ![r] = j]
      /\ UNCHANGED <<accountVars, sessionVars>>
  BY DEF BeginLogin, Goes
<1> HIDE DEF j
<1>5. pc'[r] = "login" /\ job'[r] = j /\ version' = version
  BY <1>1, <1>4 DEF TypeOK, accountVars, members
<1>6. JobOK(r)'
  BY <1>1, <1>3, <1>5 DEF JobOK
<1>7. QED
  BY <1>2, <1>4, <1>6, ReaderMoves

LEMMA LookLoginKeeps ==
  ASSUME Inv, NEW r \in Requests, LookLogin(r)
  PROVE  Inv'
<1>1. TypeOK /\ JobOK(r) /\ pc[r] = "login" /\ UNCHANGED <<accountVars, sessionVars>>
  BY DEF Inv, LookLogin
<1>2. CASE Done(r)
  <2>1. pc' = [pc EXCEPT ![r] = "idle"] /\ job' = [job EXCEPT ![r] = NoJob]
    BY <1>2 DEF Done, Goes
  <2>2. JobOK(r)'
    BY <1>1, <2>1, IdleIsOK DEF TypeOK
  <2>3. QED
    BY <1>1, <2>1, <2>2, NoJobTyping, ReaderMoves
<1>3. CASE ~ Done(r)
  <2> DEFINE u == job[r].user
  <2>1. PICK t \in Offered(u) :
          /\ job' = [job EXCEPT ![r] = [@ EXCEPT !.tenant = t, !.role = Role(u, t)]]
          /\ pc' = [pc EXCEPT ![r] = "issue"]
    BY <1>3 DEF LookLogin, Goes
  <2>2. u \in Users /\ job[r].version <= version[u] /\ there \subseteq Tenants /\ member \in Memberships
    BY <1>1 DEF JobOK, TypeOK
  <2>3. t \in Tenants /\ (member[t][u].active \/ Manages(member, u, Parent(t)))
    BY <2>2 DEF Offered, Direct
  <2>4. Role(u, t) \in Roles
    BY <2>2, <2>3, RoleOfActive
  <2> DEFINE j == [job[r] EXCEPT !.tenant = t, !.role = Role(u, t)]
  <2>5. j \in [tenant : Tenants, user : Users \cup {"none"}, role : Roles \cup {"none"},
               active : BOOLEAN, version : Nat, session : Sessions \cup {"none"}]
    BY <1>1, <2>3, <2>4 DEF TypeOK
  <2>6. j.user = u /\ j.tenant = t /\ j.role = Role(u, t) /\ j.version = job[r].version
    BY <1>1 DEF TypeOK
  <2>7. job' = [job EXCEPT ![r] = j]
    BY <2>1
  <2> HIDE DEF j, u
  <2>8. pc'[r] = "issue" /\ job'[r] = j /\ version' = version /\ member' = member /\ silent' = silent
    BY <1>1, <2>1, <2>7 DEF TypeOK, accountVars, members
  <2>9. JobOK(r)'
    BY <2>2, <2>4, <2>6, <2>8 DEF JobOK, Fresh, Role
  <2>10. QED
    BY <1>1, <2>1, <2>5, <2>7, <2>9, ReaderMoves
<1>4. QED
  BY <1>2, <1>3

LEMMA BeginSwitchKeeps ==
  ASSUME Inv, NEW r \in Requests, NEW s \in Sessions, NEW t \in Tenants, BeginSwitch(r, s, t)
  PROVE  Inv'
<1> DEFINE u == session[s].user
           j == [job[r] EXCEPT !.user = u, !.tenant = t, !.role = Role(u, t), !.version = 0]
<1>1. TypeOK /\ UNCHANGED <<accountVars, sessionVars>>
  BY DEF Inv, BeginSwitch
<1>2. u \in Users /\ version[u] \in Nat /\ member \in Memberships
  BY DEF Inv, SessionOK, BeginSwitch, Version, TypeOK
<1>3. member[t][u].active \/ Manages(member, u, Parent(t))
  BY DEF BeginSwitch, Inherits
<1>4. Role(u, t) \in Roles
  BY <1>2, <1>3, RoleOfActive
<1>5. j \in [tenant : Tenants, user : Users \cup {"none"}, role : Roles \cup {"none"},
             active : BOOLEAN, version : Nat, session : Sessions \cup {"none"}]
  BY <1>1, <1>2, <1>4 DEF TypeOK
<1>6. j.user = u /\ j.tenant = t /\ j.role = Role(u, t) /\ j.version = 0
  BY <1>1 DEF TypeOK
<1>7. pc' = [pc EXCEPT ![r] = "switch"] /\ job' = [job EXCEPT ![r] = j]
  BY DEF BeginSwitch, Goes
<1> HIDE DEF j, u
<1>8. pc'[r] = "switch" /\ job'[r] = j /\ version' = version /\ member' = member /\ silent' = silent
  BY <1>1, <1>7 DEF TypeOK, accountVars, members
<1>9. JobOK(r)'
  BY <1>2, <1>4, <1>6, <1>8 DEF JobOK, Fresh, Role
<1>10. QED
  BY <1>1, <1>5, <1>7, <1>9, ReaderMoves

LEMMA BeginRefreshKeeps ==
  ASSUME Inv, NEW r \in Requests, NEW s \in Sessions, BeginRefresh(r, s)
  PROVE  Inv'
<1> DEFINE u == session[s].user
           j == [job[r] EXCEPT !.session = s, !.user = u, !.tenant = session[s].tenant,
                               !.version = version[u]]
<1>1. TypeOK /\ UNCHANGED <<accountVars, sessionVars>> /\ session[s].state = "live"
  BY DEF Inv, BeginRefresh
<1>2. u \in Users /\ version[u] \in Nat
  BY <1>1 DEF Inv, SessionOK, Version
<1>3. j \in [tenant : Tenants, user : Users \cup {"none"}, role : Roles \cup {"none"},
             active : BOOLEAN, version : Nat, session : Sessions \cup {"none"}]
  BY <1>1, <1>2 DEF TypeOK
<1>4. j.user = u /\ j.session = s /\ j.version = version[u]
  BY <1>1 DEF TypeOK
<1>5. pc' = [pc EXCEPT ![r] = "refresh"] /\ job' = [job EXCEPT ![r] = j]
  BY DEF BeginRefresh, Goes
<1> HIDE DEF j
<1>6. pc'[r] = "refresh" /\ job'[r] = j /\ version' = version /\ session' = session
  BY <1>1, <1>5 DEF TypeOK, accountVars, members, sessionVars
<1>7. JobOK(r)'
  BY <1>1, <1>2, <1>4, <1>6 DEF JobOK
<1>8. QED
  BY <1>1, <1>3, <1>5, <1>7, ReaderMoves

LEMMA LookRefreshKeeps ==
  ASSUME Inv, NEW r \in Requests, LookRefresh(r)
  PROVE  Inv'
<1> DEFINE u == job[r].user
           t == job[r].tenant
<1>1. /\ TypeOK /\ JobOK(r) /\ pc[r] = "refresh" /\ UNCHANGED <<accountVars, token>>
      /\ member \in Memberships
  BY DEF Inv, LookRefresh, TypeOK
<1>2. u \in Users /\ t \in Tenants
  BY <1>1, JobTyping DEF JobOK
<1>3. CASE Welcome(u, t) /\ NotSuspended(t)
  <2> DEFINE j == [job[r] EXCEPT !.role = Role(u, t)]
  <2>1. pc' = [pc EXCEPT ![r] = "renew"] /\ job' = [job EXCEPT ![r] = j] /\ UNCHANGED session
    BY <1>3 DEF LookRefresh, Goes
  <2>2. Role(u, t) \in Roles
    BY <1>1, <1>2, <1>3, RoleOfActive DEF Welcome, Inherits
  <2>3. j \in [tenant : Tenants, user : Users \cup {"none"}, role : Roles \cup {"none"},
               active : BOOLEAN, version : Nat, session : Sessions \cup {"none"}]
    BY <1>1, <2>2 DEF TypeOK
  <2>4. /\ j.user = u /\ j.tenant = t /\ j.role = Role(u, t)
        /\ j.version = job[r].version /\ j.session = job[r].session
    BY <1>1 DEF TypeOK
  <2>5. /\ job[r].version <= version[u] /\ job[r].session \in Sessions
        /\ session[job[r].session].user = u /\ session[job[r].session].state \in {"live", "revoked"}
    BY <1>1 DEF JobOK
  <2> HIDE DEF j, u, t
  <2>6. /\ pc'[r] = "renew" /\ job'[r] = j /\ version' = version /\ member' = member
        /\ silent' = silent /\ session' = session
    BY <1>1, <2>1 DEF TypeOK, accountVars, members
  <2>7. JobOK(r)'
    BY <1>2, <2>2, <2>4, <2>5, <2>6 DEF JobOK, Fresh, Role
  <2>8. QED
    BY <1>1, <2>1, <2>3, <2>7, ReaderMoves DEF sessionVars
<1>4. CASE ~ (Welcome(u, t) /\ NotSuspended(t))
  <2>1. /\ pc' = [pc EXCEPT ![r] = "idle"] /\ job' = [job EXCEPT ![r] = NoJob]
        /\ (\E ended : Revoke(ended)) \/ UNCHANGED session
    BY <1>4 DEF LookRefresh, Done, Goes
  <2>2. \A s \in Sessions :
          \/ session'[s] = session[s]
          \/ session[s].state = "live" /\ session'[s].user = session[s].user /\ session'[s].state = "revoked"
    BY <2>1, RevokeMoves
  <2>3. session' \in [Sessions -> [state : {"none", "live", "revoked", "lent"},
                                   user : Users \cup {"none"}, tenant : Tenants]]
    BY <1>1, <2>1, RevokeMoves DEF TypeOK
  <2>4. UNCHANGED <<there, suspended, closed, seats, member, version, silent, changes>>
    BY <1>1 DEF accountVars, tenants, members
  <2>5. TypeOK'
    BY <1>1, <2>1, <2>3, <2>4, NoJobTyping DEF TypeOK
  <2>6. JobOK(r)' /\ \A q \in Requests : q # r => pc'[q] = pc[q] /\ job'[q] = job[q]
    BY <1>1, <2>1, IdleIsOK DEF TypeOK
  <2>7. \A s \in Sessions : SessionOK(s)'
    BY <1>1, <2>2, <2>4, SameFollows, SessionStays
  <2>8. QED
    BY <1>1, <2>2, <2>5, <2>6, <2>7, ClientMoves DEF SessionsKept
<1>5. QED
  BY <1>3, <1>4

\* A request is over and has given out a token of session s.
LEMMA GiveMoves ==
  ASSUME Inv, NEW r \in Requests, NEW s \in Sessions, UNCHANGED accountVars, Done(r),
         pc[r] \in Deciding,
         NEW x \in [state : {"none", "live", "revoked", "lent"},
                    user : Users \cup {"none"}, tenant : Tenants],
         x.state # "none", x.user = job[r].user,
         session' = [session EXCEPT ![s] = x],
         session[s].state = "none" \/ x = session[s],
         token' = [token EXCEPT ![s] = [tenant |-> job[r].tenant,
                                        role |-> BestRole(job[r].user, job[r].role),
                                        version |-> job[r].version]]
  PROVE  Inv'
<1> DEFINE j == job[r]
           k == [tenant |-> j.tenant, role |-> BestRole(j.user, j.role), version |-> j.version]
<1>1. /\ TypeOK /\ JobOK(r)
      /\ UNCHANGED <<there, suspended, closed, seats, member, version, silent, changes>>
      /\ pc' = [pc EXCEPT ![r] = "idle"] /\ job' = [job EXCEPT ![r] = NoJob]
  BY DEF Inv, accountVars, tenants, members, Done, Goes
<1>2. /\ j.user \in Users /\ j.tenant \in Tenants /\ j.role \in Roles /\ j.version \in Nat
      /\ j.version <= version[j.user] /\ Fresh(j.user, j.tenant, j.role, j.version)
  BY <1>1, JobTyping DEF JobOK
<1>3. BestRole(j.user, j.role) \in Roles /\ Fresh(j.user, j.tenant, BestRole(j.user, j.role), j.version)
  BY <1>2, BestOfFresh
<1>4. k \in [tenant : Tenants, role : Roles \cup {"none"}, version : Nat]
  BY <1>2, <1>3
<1>5. k.tenant = j.tenant /\ k.role = BestRole(j.user, j.role) /\ k.version = j.version
  OBVIOUS
<1>6. token' = [token EXCEPT ![s] = k]
  OBVIOUS
<1> HIDE DEF k
<1>7. TypeOK'
  BY <1>1, <1>4, <1>6, NoJobTyping DEF TypeOK
<1>8. session'[s] = x /\ token'[s] = k /\ version' = version /\ member' = member /\ silent' = silent
  BY <1>1, <1>6 DEF TypeOK
<1>9. SessionOK(s)'
  BY <1>2, <1>3, <1>5, <1>8 DEF SessionOK, Fresh, Role
<1>10. ASSUME NEW y \in Sessions, y # s PROVE session'[y] = session[y] /\ token'[y] = token[y]
  BY <1>1, <1>6, <1>10 DEF TypeOK
<1>11. \A y \in Sessions : SessionOK(y)'
  BY <1>1, <1>9, <1>10, SameFollows, SessionStays
<1>12. SessionsKept
  <2>1. ASSUME NEW q \in Requests, pc[q] \in Renewing, session[s].state = "none"
        PROVE  job[q].session # s
    BY <2>1 DEF Inv, JobOK
  <2>2. session'[s] = session[s] \/ session[s].state = "none"
    BY <1>8
  <2>3. QED
    BY <1>10, <2>1, <2>2 DEF SessionsKept
<1>13. JobOK(r)' /\ \A q \in Requests : q # r => pc'[q] = pc[q] /\ job'[q] = job[q]
  BY <1>1, IdleIsOK DEF TypeOK
<1>14. QED
  BY <1>7, <1>11, <1>12, <1>13, ClientMoves

LEMMA IssueKeeps ==
  ASSUME Inv, NEW r \in Requests, NEW s \in Sessions, FinishLogin(r, s) \/ FinishSwitch(r, s)
  PROVE  Inv'
<1>1. /\ TypeOK /\ JobOK(r) /\ pc[r] \in Deciding /\ Done(r) /\ UNCHANGED accountVars
      /\ Issue(r, s) \/ UNCHANGED sessionVars
  BY DEF Inv, FinishLogin, FinishSwitch
<1>2. CASE Issue(r, s)
  <2> DEFINE x == Sess("live", job[r].user, job[r].tenant)
  <2>1. x \in [state : {"none", "live", "revoked", "lent"}, user : Users \cup {"none"}, tenant : Tenants]
        /\ x.state # "none" /\ x.user = job[r].user
    BY <1>1, JobTyping DEF Sess
  <2>2. /\ session[s].state = "none" /\ session' = [session EXCEPT ![s] = x]
        /\ token' = [token EXCEPT ![s] = [tenant |-> job[r].tenant,
                                          role |-> BestRole(job[r].user, job[r].role),
                                          version |-> job[r].version]]
    BY <1>2 DEF Issue
  <2> HIDE DEF x
  <2>3. QED
    BY <1>1, <2>1, <2>2, GiveMoves
<1>3. CASE UNCHANGED sessionVars
  <2>1. pc' = [pc EXCEPT ![r] = "idle"] /\ job' = [job EXCEPT ![r] = NoJob]
    BY <1>1 DEF Done, Goes
  <2>2. JobOK(r)'
    BY <1>1, <2>1, IdleIsOK DEF TypeOK
  <2>3. QED
    BY <1>1, <1>3, <2>1, <2>2, NoJobTyping, ReaderMoves
<1>4. QED
  BY <1>1, <1>2, <1>3

LEMMA FinishRefreshKeeps ==
  ASSUME Inv, NEW r \in Requests, FinishRefresh(r)
  PROVE  Inv'
<1> DEFINE s == job[r].session
<1>1. /\ TypeOK /\ JobOK(r) /\ pc[r] = "renew" /\ Done(r) /\ UNCHANGED <<accountVars, session>>
  BY DEF Inv, FinishRefresh
<1>2. /\ s \in Sessions /\ session[s].user = job[r].user /\ session[s].state # "none"
  BY <1>1 DEF JobOK
<1>3. /\ session[s] \in [state : {"none", "live", "revoked", "lent"},
                         user : Users \cup {"none"}, tenant : Tenants]
      /\ session' = [session EXCEPT ![s] = session[s]]
  BY <1>1, <1>2 DEF TypeOK
<1>4. token' = [token EXCEPT ![s] = [tenant |-> job[r].tenant,
                                     role |-> BestRole(job[r].user, job[r].role),
                                     version |-> job[r].version]]
  BY DEF FinishRefresh
<1> HIDE DEF s
<1>5. QED
  BY <1>1, <1>2, <1>3, <1>4, GiveMoves

\* A session or its token that is over, of which nothing is being renewed; or
\* a new one that is lent.
LEMMA SessionMoves ==
  ASSUME Inv, NEW s \in Sessions, UNCHANGED <<accountVars, pc, job>>, TypeOK', SessionOK(s)',
         \A y \in Sessions : y # s => session'[y] = session[y] /\ token'[y] = token[y],
         session'[s] = session[s] \/ \A r \in Requests : pc[r] \in Renewing => job[r].session # s
  PROVE  Inv'
<1>1. UNCHANGED <<there, member, version, silent, changes>>
  BY DEF accountVars, tenants, members
<1>2. (\A u \in Users : Follows(u)) /\ MembersKept
  BY <1>1, SameFollows
<1>3. SessionsKept
  BY DEF SessionsKept
<1>4. \A r \in Requests : JobOK(r)'
  BY <1>1, <1>2, <1>3, JobStays
<1>5. \A y \in Sessions : SessionOK(y)'
  BY <1>2, SessionStays
<1>6. Version' /\ Created'
  BY <1>1 DEF Inv, Version, Created
<1>7. QED
  BY <1>4, <1>5, <1>6 DEF Inv

LEMMA LapseKeeps ==
  ASSUME Inv, NEW s \in Sessions, Lapse(s)
  PROVE  Inv'
<1>1. /\ TypeOK /\ SessionOK(s) /\ UNCHANGED <<accountVars, pc, job>>
      /\ UNCHANGED <<there, suspended, closed, seats, member, version, silent, changes>>
      /\ session[s].state # "none" /\ token' = [token EXCEPT ![s] = NoToken]
      /\ session' = session \/ session' = [session EXCEPT ![s] = NoSession]
  BY DEF Inv, Lapse, accountVars, tenants, members
<1>2. NoToken \in [tenant : Tenants, role : Roles \cup {"none"}, version : Nat]
  BY DEF NoToken, Tenants
<1>3. NoSession \in [state : {"none", "live", "revoked", "lent"},
                     user : Users \cup {"none"}, tenant : Tenants]
  BY DEF NoSession, Tenants
<1>4. session' \in [Sessions -> [state : {"none", "live", "revoked", "lent"},
                                 user : Users \cup {"none"}, tenant : Tenants]]
  BY <1>1, <1>3 DEF TypeOK
<1>5. TypeOK'
  BY <1>1, <1>2, <1>4 DEF TypeOK
<1>6. token'[s] = NoToken /\ (session'[s] = session[s] \/ session'[s] = NoSession)
      /\ \A y \in Sessions : y # s => session'[y] = session[y] /\ token'[y] = token[y]
  BY <1>1 DEF TypeOK
<1>7. NoSession.state = "none"
  BY DEF NoSession
<1>8. SessionOK(s)'
  BY <1>1, <1>6, <1>7 DEF SessionOK
<1>9. \A r \in Requests : pc[r] \in Renewing => job[r].session # s
  BY DEF Lapse
<1>10. QED
  BY <1>1, <1>5, <1>6, <1>8, <1>9, SessionMoves

LEMMA ImpersonateKeeps ==
  ASSUME Inv, NEW t \in Tenants, NEW s \in Sessions, Impersonate(t, s)
  PROVE  Inv'
<1>1. /\ TypeOK /\ UNCHANGED <<accountVars, pc, job>> /\ session[s].state = "none"
      /\ UNCHANGED <<there, suspended, closed, seats, member, version, silent, changes>>
  BY DEF Inv, Impersonate, accountVars, tenants, members
<1>2. PICK u \in Users :
        /\ session' = [session EXCEPT ![s] = Sess("lent", u, t)]
        /\ token' = [token EXCEPT ![s] = [tenant |-> t, role |-> "ADMIN", version |-> version[u]]]
  BY DEF Impersonate, Holders, Active
<1>3. version[u] \in Nat
  BY DEF Inv, Version
<1> DEFINE x == Sess("lent", u, t)
           k == [tenant |-> t, role |-> "ADMIN", version |-> version[u]]
<1>4. x \in [state : {"none", "live", "revoked", "lent"}, user : Users \cup {"none"}, tenant : Tenants]
      /\ x.state = "lent" /\ x.user = u
  BY DEF Sess
<1>5. k \in [tenant : Tenants, role : Roles \cup {"none"}, version : Nat]
      /\ k.role \in Roles /\ k.version = version[u]
  BY <1>3 DEF Roles
<1>6. session' = [session EXCEPT ![s] = x] /\ token' = [token EXCEPT ![s] = k]
  BY <1>2
<1> HIDE DEF x, k
<1>7. TypeOK'
  BY <1>1, <1>4, <1>5, <1>6 DEF TypeOK
<1>8. session'[s] = x /\ token'[s] = k
      /\ \A y \in Sessions : y # s => session'[y] = session[y] /\ token'[y] = token[y]
  BY <1>1, <1>6 DEF TypeOK
<1>9. SessionOK(s)'
  BY <1>1, <1>3, <1>4, <1>5, <1>8 DEF SessionOK
<1>10. \A r \in Requests : pc[r] \in Renewing => job[r].session # s
  BY <1>1 DEF Inv, JobOK
<1>11. QED
  BY <1>1, <1>7, <1>8, <1>9, <1>10, SessionMoves

-----------------------------------------------------------------------------
LEMMA InitInv == Init => Inv
<1> SUFFICES ASSUME Init PROVE Inv
  OBVIOUS
<1>1. PICK start \in Starts : there = start.there /\ member = start.member
  BY DEF Init
<1>2. there \subseteq Tenants /\ member \in Memberships /\ Created
  BY <1>1, StartsAssumption DEF Created
<1>3. /\ NoSession \in [state : {"none", "live", "revoked", "lent"},
                         user : Users \cup {"none"}, tenant : Tenants]
      /\ NoToken \in [tenant : Tenants, role : Roles \cup {"none"}, version : Nat]
  BY DEF NoSession, NoToken, Tenants
<1>4. MaxUsers \in 1 .. MaxUsers /\ 0 \in 0 .. MaxChanges
  BY AccountAssumption
<1>5. seats \in [Tenants -> 1 .. MaxUsers]
  BY <1>4 DEF Init
<1>6. TypeOK
  BY <1>2, <1>3, <1>4, <1>5, NoJobTyping DEF Init, TypeOK
<1>7. Version
  BY DEF Init, Version
<1>8. \A r \in Requests : JobOK(r)
  BY DEF Init, JobOK
<1>9. \A s \in Sessions : SessionOK(s)
  BY DEF Init, SessionOK, NoSession
<1>10. QED
  BY <1>2, <1>6, <1>7, <1>8, <1>9 DEF Inv

LEMMA NextInv == Inv /\ [Next]_vars => Inv'
<1> SUFFICES ASSUME Inv, [Next]_vars PROVE Inv'
  OBVIOUS
<1>1. ASSUME NEW r \in Desks, Administer(r), UNCHANGED sessionVars PROVE Inv'
  <2>1. r \in Requests
    BY DEF Requests
  <2>2. CASE \E by \in Users, t \in Tenants, u \in Users, role \in Roles :
               BeginCreateUser(r, by, t, u, role) \/ BeginUpdateRole(r, by, t, u, role)
    <3>1. TRUE \in BOOLEAN
      OBVIOUS
    <3>2. QED
      BY <1>1, <2>1, <2>2, <3>1, BeginChangeKeeps
  <2>3. CASE \E by \in Users, t \in Tenants, u \in Users, role \in Roles \cup {"none"}, active \in BOOLEAN :
               BeginUpdateUser(r, by, t, u, role, active)
    BY <1>1, <2>1, <2>3, BeginChangeKeeps
  <2>4. CASE FinishCreateUser(r) \/ FinishUpdateUser(r) \/ FinishUpdateRole(r)
    BY <1>1, <2>1, <2>4, FinishChangeKeeps
  <2>5. QED
    BY <1>1, <2>2, <2>3, <2>4 DEF Administer
<1>2. ASSUME NEW r \in Clients, Use(r) PROVE Inv'
  <2>1. r \in Requests
    BY DEF Requests
  <2>2. QED
    BY <1>2, <2>1, BeginLoginKeeps, LookLoginKeeps, IssueKeeps, BeginSwitchKeeps,
       BeginRefreshKeeps, LookRefreshKeeps, FinishRefreshKeeps DEF Use
<1>3. ASSUME Supervise, UNCHANGED sessionVars PROVE Inv'
  BY <1>3, UpdateTenantAdminKeeps, CreateTenantKeeps, CreateFullOrganizationKeeps, PlansKeep
  DEF Supervise
<1>4. ASSUME EndSessions PROVE Inv'
  BY <1>4, LogoutKeeps, LapseKeeps, SuspendTenantKeeps, ImpersonateKeeps DEF EndSessions
<1>5. CASE UNCHANGED vars
  <2>1. UNCHANGED <<accountVars, sessionVars, there, suspended, closed, seats, member, version, silent,
                    changes, session, token, pc, job>>
    BY <1>5 DEF vars, accountVars, sessionVars, tenants, members
  <2>2. TypeOK'
    BY <2>1 DEF Inv, TypeOK
  <2>3. changes' = changes /\ changes \in Nat
    BY <2>1 DEF Inv, TypeOK
  <2>4. QED
    BY <2>1, <2>2, <2>3, TenantsMove
<1>6. QED
  BY <1>1, <1>2, <1>3, <1>4, <1>5 DEF Next

\* Accounts and sessions are well-typed, and a token that carries its user's
\* permissionVersion carries the user's role, in every interleaving of any
\* number of requests, unless a change was made that leaves the version alone.
THEOREM SessionsAreConsistent == Spec => []Consistent
<1>1. Spec => []Inv
  BY InitInv, NextInv, PTL DEF Spec
<1>2. QED
  BY <1>1, InvConsistent, PTL

-----------------------------------------------------------------------------
(* While requests do not overlap *)

\* At most one request is in progress.
Solo == \A q, r \in Requests : pc[q] # "idle" /\ pc[r] # "idle" => q = r

\* What a request has checked holds until it writes.
StillHolds(step, j) ==
  LET t == j.tenant
      u == j.user
  IN  /\ step = "create" => t \in there /\ SeatLeft(t, u) /\ RoleFree(t, j.role, u)
      /\ step \in {"update", "role"} => member[t][u] # Absent
      /\ step = "update" /\ j.role # "none" /\ j.active => RoleFree(t, j.role, u)
      /\ step = "role" /\ member[t][u].active => RoleFree(t, j.role, u)
      /\ step \in {"login", "issue", "refresh", "renew"} => j.version = version[u]
      /\ step = "issue" => t \in Offered(u)
      /\ step = "switch" => NotSuspended(t) /\ AtHome(u, t)
      /\ step \in Renewing => session[j.session].state = "live" /\ session[j.session].user = u
      /\ step = "renew" => NotSuspended(t) /\ Welcome(u, t)

Holding(r) == \A step, j : pc[r] = step /\ job[r] = j => StillHolds(step, j)

SerialInv == Solo /\ \A r \in Requests : Holding(r)

\* A step of one of the requests, and a step of nobody's.
Acts(r) ==
  \/ r \in Desks /\ Administer(r) /\ UNCHANGED sessionVars
  \/ r \in Clients /\ Use(r)

Unattended == (Supervise /\ UNCHANGED sessionVars) \/ EndSessions

LEMMA NextSplit == Next => Unattended \/ \E r \in Requests : Acts(r)
BY DEF Next, Unattended, Acts, Requests

\* A request that begins is idle; every other step of a request goes on with it.
LEMMA ActsMoves ==
  ASSUME NEW r \in Requests, Acts(r)
  PROVE  \/ pc[r] # "idle" /\ \E step : pc' = [pc EXCEPT ![r] = step]
         \/ \E step : step # "idle" /\ pc' = [pc EXCEPT ![r] = step]
<1>1. ASSUME Administer(r)
      PROVE  \/ pc[r] # "idle" /\ \E step : pc' = [pc EXCEPT ![r] = step]
             \/ \E step : step # "idle" /\ pc' = [pc EXCEPT ![r] = step]
  <2>1. CASE \E step \in Changing : Goes(r, step)
    BY <2>1 DEF Goes, Changing
  <2>2. CASE FinishCreateUser(r) \/ FinishUpdateUser(r) \/ FinishUpdateRole(r)
    BY <2>2 DEF FinishCreateUser, FinishUpdateUser, FinishUpdateRole, Done, Goes
  <2>3. QED
    BY <1>1, <2>1, <2>2, AdministerLeaves
<1>2. ASSUME Use(r)
      PROVE  \/ pc[r] # "idle" /\ \E step : pc' = [pc EXCEPT ![r] = step]
             \/ \E step : step # "idle" /\ pc' = [pc EXCEPT ![r] = step]
  <2>1. CASE \/ \E u \in Users : BeginLogin(r, u)
             \/ \E s \in Sessions : BeginRefresh(r, s) \/ \E t \in Tenants : BeginSwitch(r, s, t)
    <3>1. \E step : step # "idle" /\ Goes(r, step)
      BY <2>1 DEF BeginLogin, BeginRefresh, BeginSwitch
    <3>2. QED
      BY <3>1 DEF Goes
  <2>2. CASE LookLogin(r) \/ LookRefresh(r) \/ FinishRefresh(r)
    <3>1. pc[r] # "idle" /\ \E step : Goes(r, step)
      BY <2>2 DEF LookLogin, LookRefresh, FinishRefresh, Done
    <3>2. QED
      BY <3>1 DEF Goes
  <2>3. CASE \E s \in Sessions : FinishLogin(r, s) \/ FinishSwitch(r, s)
    <3>1. pc[r] # "idle" /\ \E step : Goes(r, step)
      BY <2>3 DEF FinishLogin, FinishSwitch, Done
    <3>2. QED
      BY <3>1 DEF Goes
  <2>4. QED
    BY <1>2, <2>1, <2>2, <2>3 DEF Use
<1>3. QED
  BY <1>1, <1>2 DEF Acts

LEMMA ElsewhereWaits == Unattended => UNCHANGED <<pc, job>>
<1>1. Supervise => UNCHANGED <<pc, job>>
  BY DEF Supervise, UpdateTenantAdmin, CreateTenant, CreateFullOrganization, SetPlan, Reopen, Toggle
<1>2. EndSessions => UNCHANGED <<pc, job>>
  BY DEF EndSessions, Logout, Lapse, ForceLogout, SuspendTenant, Impersonate
<1>3. QED
  BY <1>1, <1>2 DEF Unattended

\* A step of a run without overlaps: nobody else is in progress.
LEMMA Modes ==
  ASSUME TypeOK, Solo, Next, NoteOverlap, ~overlapped'
  PROVE  /\ Solo'
         /\ \/ Unattended /\ \A q \in Requests : pc'[q] = "idle"
            \/ \E r \in Requests : Acts(r) /\ \A q \in Requests : q # r => pc'[q] = "idle"
<1>1. /\ ~(Cardinality({q \in Requests : pc'[q] # "idle"}) > 1)
      /\ UNCHANGED pc => \A q \in Requests : pc[q] = "idle"
  BY DEF NoteOverlap, Busy
<1>2. ASSUME NEW r \in Requests, Acts(r)
      PROVE  Solo' /\ \A q \in Requests : q # r => pc'[q] = "idle"
  <2>1. \A q \in Requests : q # r => pc'[q] = pc[q]
    BY <1>2, ActsMoves DEF TypeOK
  <2>2. \A a, b \in Requests : pc'[a] # "idle" /\ pc'[b] # "idle" => a = b
    BY <1>1, <2>1, OneMoves DEF Solo
  <2>3. pc[r] # "idle" \/ pc'[r] # "idle"
    BY <1>2, ActsMoves DEF TypeOK
  <2>4. Solo'
    BY <2>2 DEF Solo
  <2>5. QED
    BY <2>1, <2>2, <2>3, <2>4 DEF Solo
<1>3. ASSUME Unattended PROVE Solo' /\ \A q \in Requests : pc'[q] = "idle"
  BY <1>1, <1>3, ElsewhereWaits DEF Solo
<1>4. QED
  BY <1>2, <1>3, NextSplit

LEMMA IdleHolds == ASSUME NEW j PROVE StillHolds("idle", j)
BY DEF StillHolds

\* What was checked is not changed by a request that reads.
LEMMA HoldsAgain ==
  ASSUME UNCHANGED <<accountVars, session>>, NEW step, NEW j, StillHolds(step, j)
  PROVE  StillHolds(step, j)'
<1>0. UNCHANGED <<there, suspended, closed, seats, member, version, session>>
  BY DEF accountVars, tenants, members
<1>1. \A t, u : SeatLeft(t, u)' = SeatLeft(t, u)
  BY <1>0 DEF SeatLeft, Active
<1>2. \A t, role, u : RoleFree(t, role, u)' = RoleFree(t, role, u)
  BY <1>0 DEF RoleFree, Holders, Active
<1>3. \A u : Direct(u)' = Direct(u)
  BY <1>0 DEF Direct, Manages
<1>4. \A t : NotSuspended(t)' = NotSuspended(t)
  BY <1>0 DEF NotSuspended
<1>5. \A u : Offered(u)' = Offered(u)
  BY <1>0, <1>3, <1>4 DEF Offered, Manages
<1>6. \A u, t : AtHome(u, t)' = AtHome(u, t)
  BY <1>0 DEF AtHome, Managed, Manages
<1>7. \A u, t : Welcome(u, t)' = Welcome(u, t)
  BY <1>0 DEF Welcome, Inherits, Manages
<1>8. QED
  BY <1>0, <1>1, <1>2, <1>4, <1>5, <1>6, <1>7 DEF StillHolds

\* A request that is not over has just checked what it relies on.
LEMMA ReadsHold ==
  ASSUME TypeOK, NEW r \in Requests, NEW step, NEW j,
         pc' = [pc EXCEPT ![r] = step], job' = [job EXCEPT ![r] = j],
         UNCHANGED <<accountVars, session>>, StillHolds(step, j)
  PROVE  Holding(r)'
<1>1. pc'[r] = step /\ job'[r] = j
  BY DEF TypeOK
<1>2. StillHolds(step, j)'
  BY HoldsAgain
<1>3. QED
  BY <1>1, <1>2 DEF Holding

LEMMA IdleHolding == ASSUME NEW r \in Requests, pc'[r] = "idle" PROVE Holding(r)'
BY DEF Holding, StillHolds

LEMMA NowHolds ==
  ASSUME SerialInv, NEW r \in Requests
  PROVE  StillHolds(pc[r], job[r])
BY DEF SerialInv, Holding

\* Requests of administrators.
LEMMA AdministerHolds ==
  ASSUME TypeOK, SerialInv, NEW r \in Requests, Administer(r), UNCHANGED sessionVars
  PROVE  Holding(r)'
<1>0. UNCHANGED session
  BY DEF sessionVars
<1>1. ASSUME NEW by \in Users, NEW t \in Tenants, NEW u \in Users, NEW role \in Roles,
             BeginCreateUser(r, by, t, u, role)
      PROVE  Holding(r)'
  <2> DEFINE j == [job[r] EXCEPT !.tenant = t, !.user = u, !.role = role]
  <2>1. j.tenant = t /\ j.user = u /\ j.role = role
    BY DEF TypeOK
  <2>2. /\ pc' = [pc EXCEPT ![r] = "create"] /\ job' = [job EXCEPT ![r] = j]
        /\ t \in there /\ SeatLeft(t, u) /\ RoleFree(t, role, u) /\ UNCHANGED accountVars
    BY <1>1 DEF BeginCreateUser, Goes
  <2> HIDE DEF j
  <2>3. StillHolds("create", j)
    BY <2>1, <2>2 DEF StillHolds
  <2>4. QED
    BY <1>0, <2>2, <2>3, ReadsHold
<1>2. ASSUME NEW by \in Users, NEW t \in Tenants, NEW u \in Users, NEW role \in Roles,
             BeginUpdateRole(r, by, t, u, role)
      PROVE  Holding(r)'
  <2> DEFINE j == [job[r] EXCEPT !.tenant = t, !.user = u, !.role = role]
  <2>1. j.tenant = t /\ j.user = u /\ j.role = role
    BY DEF TypeOK
  <2>2. /\ pc' = [pc EXCEPT ![r] = "role"] /\ job' = [job EXCEPT ![r] = j]
        /\ member[t][u] # Absent /\ UNCHANGED accountVars
        /\ member[t][u].active => RoleFree(t, role, u)
    BY <1>2 DEF BeginUpdateRole, Goes
  <2> HIDE DEF j
  <2>3. StillHolds("role", j)
    BY <2>1, <2>2 DEF StillHolds
  <2>4. QED
    BY <1>0, <2>2, <2>3, ReadsHold
<1>3. ASSUME NEW by \in Users, NEW t \in Tenants, NEW u \in Users, NEW role \in Roles \cup {"none"},
             NEW active \in BOOLEAN, BeginUpdateUser(r, by, t, u, role, active)
      PROVE  Holding(r)'
  <2> DEFINE j == [job[r] EXCEPT !.tenant = t, !.user = u, !.role = role, !.active = active]
  <2>1. j.tenant = t /\ j.user = u /\ j.role = role /\ j.active = active
    BY DEF TypeOK
  <2>2. /\ pc' = [pc EXCEPT ![r] = "update"] /\ job' = [job EXCEPT ![r] = j]
        /\ member[t][u] # Absent /\ UNCHANGED accountVars
        /\ role # "none" /\ active => RoleFree(t, role, u)
    BY <1>3 DEF BeginUpdateUser, Goes
  <2> HIDE DEF j
  <2>3. StillHolds("update", j)
    BY <2>1, <2>2 DEF StillHolds
  <2>4. QED
    BY <1>0, <2>2, <2>3, ReadsHold
<1>4. CASE FinishCreateUser(r) \/ FinishUpdateUser(r) \/ FinishUpdateRole(r)
  <2>1. pc'[r] = "idle"
    BY <1>4 DEF FinishCreateUser, FinishUpdateUser, FinishUpdateRole, Done, Goes, TypeOK
  <2>2. QED
    BY <2>1, IdleHolding
<1>5. QED
  BY <1>1, <1>2, <1>3, <1>4 DEF Administer

\* Requests for sessions.
LEMMA UseHolds ==
  ASSUME Inv, SerialInv, NEW r \in Requests, Use(r)
  PROVE  Holding(r)'
<1> USE DEF Inv
<1>1. ASSUME NEW u \in Users, BeginLogin(r, u) PROVE Holding(r)'
  <2> DEFINE j == [job[r] EXCEPT !.user = u, !.version = version[u]]
  <2>1. j.user = u /\ j.version = version[u]
    BY DEF TypeOK
  <2>2. /\ pc' = [pc EXCEPT ![r] = "login"] /\ job' = [job EXCEPT ![r] = j]
        /\ UNCHANGED <<accountVars, session>>
    BY <1>1 DEF BeginLogin, Goes, sessionVars
  <2> HIDE DEF j
  <2>3. StillHolds("login", j)
    BY <2>1 DEF StillHolds
  <2>4. QED
    BY <2>2, <2>3, ReadsHold
<1>2. ASSUME NEW s \in Sessions, BeginRefresh(r, s) PROVE Holding(r)'
  <2> DEFINE u == session[s].user
             j == [job[r] EXCEPT !.session = s, !.user = u, !.tenant = session[s].tenant,
                                 !.version = version[u]]
  <2>1. j.user = session[s].user /\ j.version = version[session[s].user] /\ j.session = s
    BY DEF TypeOK
  <2>2. /\ pc' = [pc EXCEPT ![r] = "refresh"] /\ job' = [job EXCEPT ![r] = j]
        /\ session[s].state = "live" /\ UNCHANGED <<accountVars, session>>
    BY <1>2 DEF BeginRefresh, Goes, sessionVars
  <2> HIDE DEF j
  <2>3. StillHolds("refresh", j)
    BY <2>1, <2>2 DEF StillHolds
  <2>4. QED
    BY <2>2, <2>3, ReadsHold
<1>3. ASSUME NEW s \in Sessions, NEW t \in Tenants, BeginSwitch(r, s, t) PROVE Holding(r)'
  <2> DEFINE u == session[s].user
             j == [job[r] EXCEPT !.user = u, !.tenant = t, !.role = Role(u, t), !.version = 0]
  <2>1. j.user = session[s].user /\ j.tenant = t
    BY DEF TypeOK
  <2>2. /\ pc' = [pc EXCEPT ![r] = "switch"] /\ job' = [job EXCEPT ![r] = j]
        /\ NotSuspended(t) /\ AtHome(session[s].user, t) /\ UNCHANGED <<accountVars, session>>
    BY <1>3 DEF BeginSwitch, Goes, sessionVars
  <2> HIDE DEF j
  <2>3. StillHolds("switch", j)
    BY <2>1, <2>2 DEF StillHolds
  <2>4. QED
    BY <2>2, <2>3, ReadsHold
<1>4. CASE LookLogin(r)
  <2>1. CASE Done(r)
    BY <2>1, IdleHolding DEF Done, Goes, TypeOK
  <2>2. ASSUME NEW t \in Offered(job[r].user),
               job' = [job EXCEPT ![r] = [@ EXCEPT !.tenant = t, !.role = Role(job[r].user, t)]],
               Goes(r, "issue")
        PROVE  Holding(r)'
    <3> DEFINE u == job[r].user
               j == [job[r] EXCEPT !.tenant = t, !.role = Role(u, t)]
    <3>1. j.user = job[r].user /\ j.tenant = t /\ j.version = job[r].version
      BY DEF TypeOK
    <3>2. /\ pc' = [pc EXCEPT ![r] = "issue"] /\ job' = [job EXCEPT ![r] = j]
          /\ UNCHANGED <<accountVars, session>>
      BY <1>4, <2>2 DEF LookLogin, Goes, sessionVars
    <3> HIDE DEF j
    <3>3. job[r].version = version[job[r].user]
      BY <1>4, NowHolds DEF StillHolds, LookLogin
    <3>4. StillHolds("issue", j)
      BY <2>2, <3>1, <3>3 DEF StillHolds
    <3>5. QED
      BY <3>2, <3>4, ReadsHold
  <2>3. QED
    BY <1>4, <2>1, <2>2 DEF LookLogin
<1>5. CASE LookRefresh(r)
  <2>1. CASE Done(r)
    BY <2>1, IdleHolding DEF Done, Goes, TypeOK
  <2>2. CASE Welcome(job[r].user, job[r].tenant) /\ NotSuspended(job[r].tenant)
    <3> DEFINE u == job[r].user
               j == [job[r] EXCEPT !.role = Role(u, job[r].tenant)]
    <3>1. /\ j.user = job[r].user /\ j.tenant = job[r].tenant
          /\ j.version = job[r].version /\ j.session = job[r].session
      BY DEF TypeOK
    <3>2. /\ pc' = [pc EXCEPT ![r] = "renew"] /\ job' = [job EXCEPT ![r] = j]
          /\ UNCHANGED <<accountVars, session>>
      BY <1>5, <2>2 DEF LookRefresh, Goes
    <3> HIDE DEF j
    <3>3. /\ job[r].version = version[job[r].user]
          /\ session[job[r].session].state = "live" /\ session[job[r].session].user = job[r].user
      BY <1>5, NowHolds DEF StillHolds, LookRefresh
    <3>4. StillHolds("renew", j)
      BY <2>2, <3>1, <3>3 DEF StillHolds
    <3>5. QED
      BY <3>2, <3>4, ReadsHold
  <2>3. QED
    BY <1>5, <2>1, <2>2 DEF LookRefresh
<1>6. ASSUME FinishRefresh(r) \/ \E s \in Sessions : FinishLogin(r, s) \/ FinishSwitch(r, s)
      PROVE  Holding(r)'
  <2>1. pc'[r] = "idle"
    BY <1>6 DEF FinishRefresh, FinishLogin, FinishSwitch, Done, Goes, TypeOK
  <2>2. QED
    BY <2>1, IdleHolding
<1>7. QED
  BY <1>1, <1>2, <1>3, <1>4, <1>5, <1>6 DEF Use

LEMMA SerialStep ==
  ASSUME Inv, SerialInv, Next, NoteOverlap, ~overlapped'
  PROVE  SerialInv'
<1>1. ASSUME Unattended, Solo', \A q \in Requests : pc'[q] = "idle" PROVE SerialInv'
  BY <1>1, IdleHolding DEF SerialInv
<1>2. ASSUME NEW r \in Requests, Acts(r), Solo', \A q \in Requests : q # r => pc'[q] = "idle"
      PROVE  SerialInv'
  <2>1. Holding(r)'
    BY <1>2, AdministerHolds, UseHolds DEF Acts, Inv
  <2>2. QED
    BY <1>2, <2>1, IdleHolding DEF SerialInv
<1>3. QED
  BY <1>1, <1>2, Modes DEF Inv, SerialInv

FullInv == Inv /\ (overlapped \/ SerialInv)

LEMMA FullInit == HistoryInit => FullInv
<1> SUFFICES ASSUME HistoryInit PROVE FullInv
  OBVIOUS
<1>1. \A r \in Requests : pc[r] = "idle"
  BY DEF HistoryInit, Init
<1>2. SerialInv
  BY <1>1 DEF SerialInv, Solo, Holding, StillHolds
<1>3. QED
  BY <1>2, InitInv DEF FullInv, HistoryInit

LEMMA FullStep == FullInv /\ [HistoryNext]_<<vars, overlapped>> => FullInv'
<1> SUFFICES ASSUME FullInv, [HistoryNext]_<<vars, overlapped>> PROVE FullInv'
  OBVIOUS
<1>1. Inv'
  <2>1. [Next]_vars
    BY DEF HistoryNext
  <2>2. QED
    BY <2>1, NextInv DEF FullInv
<1>2. CASE HistoryNext
  <2>1. overlapped => overlapped'
    BY <1>2 DEF HistoryNext, NoteOverlap
  <2>2. ASSUME SerialInv, ~overlapped' PROVE SerialInv'
    BY <1>2, <2>2, SerialStep DEF FullInv, HistoryNext
  <2>3. QED
    BY <1>1, <2>1, <2>2 DEF FullInv
<1>3. CASE UNCHANGED <<vars, overlapped>>
  <2>1. UNCHANGED <<accountVars, session, pc, job>>
    BY <1>3 DEF vars, sessionVars
  <2>2. ASSUME SerialInv PROVE SerialInv'
    <3>1. Solo'
      BY <2>1, <2>2 DEF SerialInv, Solo
    <3>2. ASSUME NEW r \in Requests PROVE Holding(r)'
      BY <2>1, <2>2, HoldsAgain DEF SerialInv, Holding
    <3>3. QED
      BY <3>1, <3>2 DEF SerialInv
  <2>3. QED
    BY <1>1, <1>3, <2>2 DEF FullInv
<1>4. QED
  BY <1>2, <1>3

-----------------------------------------------------------------------------
(* What follows while requests do not overlap *)

\* Nobody can be a member of a hotel that is not there.
LEMMA NoMembersBefore ==
  ASSUME Inv, NEW t \in Tenants, t \notin there
  PROVE  \A role : Holders(t, role) = {}
<1>1. \A w \in Users : member[t][w] = Absent
  BY DEF Inv, Created
<1>2. QED
  BY <1>1 DEF Holders, Active, Absent

\* Logins, switches and refreshes change no account.
LEMMA UseLeaves ==
  ASSUME NEW r \in Requests, Use(r)
  PROVE  UNCHANGED accountVars
<1>1. CASE \/ \E u \in Users : BeginLogin(r, u)
           \/ \E s \in Sessions : BeginRefresh(r, s) \/ \E t \in Tenants : BeginSwitch(r, s, t)
  BY <1>1 DEF BeginLogin, BeginRefresh, BeginSwitch
<1>2. CASE LookLogin(r) \/ LookRefresh(r) \/ FinishRefresh(r)
  BY <1>2 DEF LookLogin, LookRefresh, FinishRefresh
<1>3. CASE \E s \in Sessions : FinishLogin(r, s) \/ FinishSwitch(r, s)
  BY <1>3 DEF FinishLogin, FinishSwitch
<1>4. QED
  BY <1>1, <1>2, <1>3 DEF Use

\* Memberships are written by these steps.
LEMMA MembershipWriters ==
  ASSUME Inv, Next, member' # member
  PROVE  \/ \E r \in Requests : FinishCreateUser(r) \/ FinishUpdateUser(r) \/ FinishUpdateRole(r)
         \/ \E t \in Tenants, u \in Users, active, credentials \in BOOLEAN :
              UpdateTenantAdmin(t, u, active, credentials)
         \/ \E u, v \in Users : CreateTenant(u) \/ CreateFullOrganization(u, v)
<1>1. ASSUME NEW r \in Requests, Administer(r)
      PROVE  UNCHANGED member \/ FinishCreateUser(r) \/ FinishUpdateUser(r) \/ FinishUpdateRole(r)
  BY <1>1, AdministerLeaves DEF accountVars, members
<1>2. ASSUME NEW r \in Requests, Use(r) PROVE UNCHANGED member
  <2>1. UNCHANGED accountVars
    BY <1>2, UseLeaves
  <2>2. QED
    BY <2>1 DEF accountVars, members
<1>3. EndSessions => UNCHANGED member
  BY DEF EndSessions, Logout, Lapse, ForceLogout, SuspendTenant, Impersonate, accountVars, members
<1>4. Supervise =>
        \/ UNCHANGED member
        \/ \E t \in Tenants, u \in Users, active, credentials \in BOOLEAN :
             UpdateTenantAdmin(t, u, active, credentials)
        \/ \E u, v \in Users : CreateTenant(u) \/ CreateFullOrganization(u, v)
  BY DEF Supervise, Reopen, Toggle, SetPlan, members
<1>5. QED
  BY <1>1, <1>2, <1>3, <1>4 DEF Next, Requests

\* One more is one more.
LEMMA OneSeatMore ==
  ASSUME NEW t \in Tenants, NEW u \in Users, seats[t] \in Nat, SeatLeft(t, u), u \notin Active(t),
         Active(t)' = Active(t) \cup {u}
  PROVE  Cardinality(Active(t)') <= seats[t]
<1>1. IsFiniteSet(Active(t))
  <2>1. Active(t) \subseteq Users
    BY DEF Active
  <2>2. QED
    BY <2>1, AccountAssumption, FS_Subset
<1>2. Cardinality(Active(t)) \in Nat /\ Cardinality(Active(t)) < seats[t]
  BY <1>1, FS_CardinalityType DEF SeatLeft
<1>3. Cardinality(Active(t) \cup {u}) = Cardinality(Active(t)) + 1
  BY <1>1, FS_AddElement
<1>4. QED
  BY <1>2, <1>3

\* What an administrator has checked when a membership is written.
LEMMA DeskStep ==
  ASSUME Inv, SerialInv, NEW r \in Requests, NEW t \in Tenants, NEW u \in Users,
         FinishCreateUser(r) \/ FinishUpdateUser(r) \/ FinishUpdateRole(r)
  PROVE  /\ member[t][u] = Absent /\ member'[t][u].active => Cardinality(Active(t)') <= seats[t]
         /\ member'[t][u] = Member("ADMIN") /\ member[t][u].role # "ADMIN"
              => Holders(t, "ADMIN") \subseteq {u}
<1> DEFINE j == job[r]
<1>0. /\ j.tenant \in Tenants /\ j.user \in Users /\ StillHolds(pc[r], j)
      /\ pc[r] \in Changing /\ seats[t] \in Nat /\ member \in Memberships
  <2>1. pc[r] \in Changing
    BY DEF FinishCreateUser, FinishUpdateUser, FinishUpdateRole
  <2>2. seats[t] \in Nat /\ member \in Memberships
    BY DEF Inv, TypeOK
  <2>3. QED
    BY <2>1, <2>2, JobTyping, NowHolds DEF Inv, JobOK
<1>1. PICK m : member' = [member EXCEPT ![j.tenant][j.user] = m]
  BY DEF FinishCreateUser, FinishUpdateUser, FinishUpdateRole, Assign
<1>2. ASSUME t # j.tenant \/ u # j.user PROVE member'[t][u] = member[t][u]
  BY <1>0, <1>1, <1>2 DEF Memberships
<1>3. CASE t # j.tenant \/ u # j.user
  BY <1>2, <1>3 DEF Absent, Member
<1>4. CASE t = j.tenant /\ u = j.user
  <2>1. member'[t][u] = m /\ \A w \in Users : w # u => member'[t][w] = member[t][w]
    BY <1>0, <1>1, <1>4 DEF Memberships
  <2>2. CASE FinishCreateUser(r)
    <3>1. pc[r] = "create" /\ member' = [member EXCEPT ![t][u] = Member(j.role)]
      BY <1>4, <2>2 DEF FinishCreateUser, Assign
    <3>2. SeatLeft(t, u) /\ RoleFree(t, j.role, u)
      BY <1>0, <1>4, <3>1 DEF StillHolds
    <3>3. member'[t][u] = Member(j.role)
      BY <1>0, <3>1 DEF Memberships
    <3>4. ASSUME member[t][u] = Absent PROVE Cardinality(Active(t)') <= seats[t]
      <4>1. u \notin Active(t)
        BY <3>4 DEF Active, Absent
      <4>2. Active(t)' = Active(t) \cup {u}
        BY <2>1, <3>3 DEF Active, Member
      <4>3. QED
        BY <1>0, <3>2, <4>1, <4>2, OneSeatMore
    <3>5. member'[t][u] = Member("ADMIN") => j.role = "ADMIN"
      BY <3>3 DEF Member
    <3>6. QED
      BY <3>2, <3>4, <3>5 DEF RoleFree
  <2>3. CASE FinishUpdateUser(r)
    <3>1. /\ pc[r] = "update" /\ member[t][u] # Absent
          /\ m = [role |-> IF j.role = "none" THEN member[t][u].role ELSE j.role,
                  active |-> j.active]
      <4>1. /\ pc[r] = "update"
            /\ member' = [member EXCEPT ![t][u] =
                 [role |-> IF j.role = "none" THEN member[t][u].role ELSE j.role,
                  active |-> j.active]]
        BY <1>4, <2>3 DEF FinishUpdateUser, Assign
      <4>2. QED
        BY <1>0, <1>4, <2>1, <4>1 DEF Memberships, StillHolds
    <3>2. ASSUME member'[t][u] = Member("ADMIN"), member[t][u].role # "ADMIN"
          PROVE  j.role = "ADMIN" /\ j.active
      BY <2>1, <3>1, <3>2 DEF Member
    <3>3. j.role = "ADMIN" /\ j.active => RoleFree(t, "ADMIN", u)
      BY <1>0, <1>4, <3>1 DEF StillHolds
    <3>4. QED
      BY <3>1, <3>2, <3>3 DEF RoleFree
  <2>4. CASE FinishUpdateRole(r)
    <3>1. pc[r] = "role" /\ member[t][u] # Absent /\ m = [member[t][u] EXCEPT !.role = j.role]
      <4>1. /\ pc[r] = "role"
            /\ member' = [member EXCEPT ![t][u] = [member[t][u] EXCEPT !.role = j.role]]
        BY <1>4, <2>4 DEF FinishUpdateRole, Assign
      <4>2. QED
        BY <1>0, <1>4, <2>1, <4>1 DEF Memberships, StillHolds
    <3>2. member[t][u] \in [role : Roles, active : BOOLEAN]
      BY <1>0, <3>1 DEF Memberships
    <3>3. ASSUME member'[t][u] = Member("ADMIN")
          PROVE  j.role = "ADMIN" /\ member[t][u].active
      <4>1. m.role = j.role /\ m.active = member[t][u].active
        BY <3>1, <3>2
      <4>2. m.role = "ADMIN" /\ m.active = TRUE
        BY <2>1, <3>3 DEF Member
      <4>3. QED
        BY <4>1, <4>2
    <3>4. j.role = "ADMIN" /\ member[t][u].active => RoleFree(t, "ADMIN", u)
      BY <1>0, <1>4, <3>1 DEF StillHolds
    <3>5. QED
      BY <3>1, <3>3, <3>4 DEF RoleFree
  <2>5. QED
    BY <2>2, <2>3, <2>4
<1>5. QED
  BY <1>3, <1>4

LEMMA SeatsStep ==
  ASSUME Inv, SerialInv, Next, NEW t \in Tenants, NEW u \in Users
  PROVE  /\ member[t][u] = Absent /\ member'[t][u].active /\ t \in there
              => Cardinality(Active(t)') <= seats[t]
         /\ member'[t][u] = Member("ADMIN") /\ member[t][u].role # "ADMIN"
              => Holders(t, "ADMIN") \subseteq {u}
<1>0. member \in Memberships /\ ~Absent.active
  BY DEF Inv, TypeOK, Absent
<1>1. CASE member'[t][u] = member[t][u]
  BY <1>0, <1>1 DEF Member
<1>2. ASSUME t \notin there
      PROVE  Holders(t, "ADMIN") \subseteq {u}
  BY <1>2, NoMembersBefore
<1>3. ASSUME NEW r \in Requests, FinishCreateUser(r) \/ FinishUpdateUser(r) \/ FinishUpdateRole(r)
      PROVE  /\ member[t][u] = Absent /\ member'[t][u].active => Cardinality(Active(t)') <= seats[t]
             /\ member'[t][u] = Member("ADMIN") /\ member[t][u].role # "ADMIN"
                  => Holders(t, "ADMIN") \subseteq {u}
  BY <1>3, DeskStep
<1>4. ASSUME NEW x \in Tenants, NEW y \in Users, NEW active \in BOOLEAN, NEW credentials \in BOOLEAN,
             UpdateTenantAdmin(x, y, active, credentials)
      PROVE  member'[t][u] # member[t][u] => member[t][u] # Absent /\ member'[t][u].role = member[t][u].role
  <2>1. /\ member[x][y] # Absent
        /\ member' = [member EXCEPT ![x][y] = [member[x][y] EXCEPT !.active = active]]
    BY <1>4 DEF UpdateTenantAdmin, Assign, Absent
  <2>2. member[x][y] \in [role : Roles, active : BOOLEAN]
    BY <1>0, <2>1 DEF Memberships
  <2>3. QED
    BY <1>0, <2>1, <2>2 DEF Memberships
<1>5. ASSUME NEW x \in Users, NEW y \in Users, CreateTenant(x) \/ CreateFullOrganization(x, y)
      PROVE  member'[t][u] # member[t][u] => t \notin there
  <2>1. CASE CreateTenant(x)
    BY <1>0, <2>1 DEF CreateTenant, Assign, Memberships
  <2>2. CASE CreateFullOrganization(x, y)
    <3>1. Org \notin there /\ Hotel \notin there
      BY <2>2 DEF CreateFullOrganization, Inv, Created
    <3>2. member' = [member EXCEPT ![Org][x] = Member("ORG_MANAGER"), ![Hotel][y] = Member("ADMIN")]
      BY <2>2 DEF CreateFullOrganization
    <3>3. t \notin {Org, Hotel} => member'[t] = member[t]
      BY <1>0, <3>2 DEF Memberships
    <3>4. QED
      BY <3>1, <3>3
  <2>3. QED
    BY <1>5, <2>1, <2>2
<1>6. QED
  BY <1>1, <1>2, <1>3, <1>4, <1>5, MembershipWriters DEF Member

\* A session is given, or renewed, by a request that has looked into it.
LEMMA Givers ==
  ASSUME Inv, Next, NEW s \in Sessions, Renewed(s)
  PROVE  \E r \in Requests :
           \/ FinishLogin(r, s) /\ NotSuspended(job[r].tenant)
           \/ FinishSwitch(r, s)
           \/ FinishRefresh(r) /\ job[r].session = s
<1>0. TypeOK /\ token'[s] # token[s] /\ token'[s] # NoToken /\ session'[s].state # "lent"
  BY DEF Renewed, Inv
<1>1. ASSUME NEW r \in Requests, Use(r)
      PROVE  \/ FinishLogin(r, s) /\ NotSuspended(job[r].tenant)
             \/ FinishSwitch(r, s)
             \/ FinishRefresh(r) /\ job[r].session = s
  <2>1. ASSUME NEW x \in Sessions, FinishLogin(r, x)
        PROVE  FinishLogin(r, s) /\ NotSuspended(job[r].tenant)
    BY <1>0, <2>1 DEF FinishLogin, Issue, sessionVars, TypeOK
  <2>2. ASSUME NEW x \in Sessions, FinishSwitch(r, x) PROVE FinishSwitch(r, s)
    BY <1>0, <2>2 DEF FinishSwitch, Issue, TypeOK
  <2>3. ASSUME FinishRefresh(r) PROVE job[r].session = s
    BY <1>0, <2>3 DEF FinishRefresh, TypeOK
  <2>4. token' # token
    BY <1>0
  <2>5. \/ FinishRefresh(r)
        \/ \E x \in Sessions : FinishLogin(r, x) \/ FinishSwitch(r, x)
    BY <1>1, <2>4 DEF Use, BeginLogin, LookLogin, BeginSwitch, BeginRefresh, LookRefresh, sessionVars
  <2>6. QED
    BY <2>1, <2>2, <2>3, <2>5
<1>2. ~(EndSessions \/ UNCHANGED sessionVars)
  <2>1. ~UNCHANGED token
    BY <1>0
  <2>2. ASSUME NEW x \in Sessions, Lapse(x) PROVE FALSE
    BY <1>0, <2>2 DEF Lapse, TypeOK
  <2>3. ASSUME NEW t \in Tenants, NEW x \in Sessions, Impersonate(t, x) PROVE FALSE
    <3>1. PICK u \in Holders(t, "ADMIN") :
            /\ session' = [session EXCEPT ![x] = Sess("lent", u, t)]
            /\ token' = [token EXCEPT ![x] = [tenant |-> t, role |-> "ADMIN", version |-> version[u]]]
      BY <2>3 DEF Impersonate
    <3>2. x = s
      BY <1>0, <3>1 DEF TypeOK
    <3>3. session'[s].state = "lent"
      BY <3>1, <3>2, <1>0 DEF TypeOK, Sess
    <3>4. QED
      BY <1>0, <3>3
  <2>4. QED
    BY <2>1, <2>2, <2>3 DEF EndSessions, Logout, ForceLogout, SuspendTenant, sessionVars
<1>3. QED
  BY <1>1, <1>2 DEF Next, Requests

\* What such a session and its token are.
LEMMA GivenStep ==
  ASSUME Inv, SerialInv, NEW r \in Requests, NEW s \in Sessions,
         \/ FinishLogin(r, s) /\ NotSuspended(job[r].tenant)
         \/ FinishSwitch(r, s)
         \/ FinishRefresh(r) /\ job[r].session = s
  PROVE  /\ session[s].state # "revoked" /\ NotSuspended(job[r].tenant)
         /\ pc[r] \in Deciding /\ StillHolds(pc[r], job[r])
         /\ token'[s].tenant = job[r].tenant /\ token'[s].version = job[r].version
         /\ session'[s].user = job[r].user
<1> DEFINE j == job[r]
<1>0. StillHolds(pc[r], j) /\ TypeOK
  BY NowHolds DEF Inv
<1>1. CASE (FinishLogin(r, s) /\ NotSuspended(j.tenant)) \/ FinishSwitch(r, s)
  <2>1. Issue(r, s) /\ pc[r] \in {"issue", "switch"}
    BY <1>1 DEF FinishLogin, FinishSwitch
  <2>2. /\ session[s].state = "none"
        /\ session'[s] = Sess("live", j.user, j.tenant)
        /\ token'[s] = [tenant |-> j.tenant, role |-> BestRole(j.user, j.role), version |-> j.version]
    BY <1>0, <2>1 DEF Issue, TypeOK
  <2>3. NotSuspended(j.tenant)
    BY <1>0, <1>1 DEF FinishSwitch, StillHolds
  <2>4. QED
    BY <1>0, <2>1, <2>2, <2>3 DEF Sess
<1>2. CASE FinishRefresh(r) /\ j.session = s
  <2>1. /\ pc[r] = "renew" /\ UNCHANGED session
        /\ token'[s] = [tenant |-> j.tenant, role |-> BestRole(j.user, j.role), version |-> j.version]
    BY <1>0, <1>2 DEF FinishRefresh, TypeOK
  <2>2. session[s].state = "live" /\ session[s].user = j.user /\ NotSuspended(j.tenant)
    BY <1>0, <1>2, <2>1 DEF StillHolds
  <2>3. QED
    BY <1>0, <2>1, <2>2
<1>3. QED
  BY <1>1, <1>2

LEMMA OutStep ==
  ASSUME Inv, SerialInv, Next, NEW s \in Sessions
  PROVE  /\ Renewed(s) => NotSuspended(token'[s].tenant) /\ session[s].state # "revoked"
         /\ session'[s].state = "live" /\ session'[s].tenant \in suspended' \ suspended
              => ~member[session'[s].tenant][session[s].user].active
<1>1. ASSUME Renewed(s) PROVE NotSuspended(token'[s].tenant) /\ session[s].state # "revoked"
  <2>1. PICK r \in Requests :
           \/ FinishLogin(r, s) /\ NotSuspended(job[r].tenant)
           \/ FinishSwitch(r, s)
           \/ FinishRefresh(r) /\ job[r].session = s
    BY <1>1, Givers
  <2>2. QED
    BY <2>1, GivenStep
<1>2. ASSUME session'[s].state = "live", session'[s].tenant \in suspended' \ suspended
      PROVE  ~member[session'[s].tenant][session[s].user].active
  <2>1. PICK t \in Tenants : SuspendTenant(t)
    <3>1. ASSUME NEW r \in Requests, Administer(r) PROVE UNCHANGED suspended
      BY <3>1, AdministerLeaves DEF FinishCreateUser, FinishUpdateUser, FinishUpdateRole, accountVars,
                                    tenants
    <3>2. ASSUME NEW r \in Requests, Use(r) PROVE UNCHANGED suspended
      <4>1. UNCHANGED accountVars
        BY <3>2, UseLeaves
      <4>2. QED
        BY <4>1 DEF accountVars, tenants
    <3>3. Supervise => suspended' \subseteq suspended
      BY DEF Supervise, UpdateTenantAdmin, CreateTenant, CreateFullOrganization, Reopen, Toggle,
             SetPlan, tenants
    <3>4. EndSessions => UNCHANGED suspended \/ \E t \in Tenants : SuspendTenant(t)
      BY DEF EndSessions, Logout, Lapse, ForceLogout, Impersonate, accountVars, tenants
    <3>5. QED
      BY <1>2, <3>1, <3>2, <3>3, <3>4 DEF Next, Requests
  <2>2. session'[s].tenant = t /\ t \in there
    BY <1>2, <2>1 DEF SuspendTenant
  <2>3. PICK ended : Revoke(ended) /\ SessionsOf(Active(t)) \subseteq ended
    <3>1. CASE Revoke(SessionsOf(Active(t)))
      BY <3>1
    <3>2. CASE Revoke(SessionsOf(UNION {Active(x) : x \in {y \in there : t \in {y, Parent(y)}}}))
      <4> DEFINE all == UNION {Active(x) : x \in {y \in there : t \in {y, Parent(y)}}}
      <4>1. Active(t) \subseteq all
        BY <2>2
      <4>2. SessionsOf(Active(t)) \subseteq SessionsOf(all)
        BY <4>1 DEF SessionsOf
      <4>3. QED
        BY <3>2, <4>2
    <3>3. QED
      BY <2>1, <3>1, <3>2 DEF SuspendTenant
  <2>4. session'[s] = session[s] /\ session[s].state = "live" /\ s \notin ended
    <3>1. session'[s] = IF s \in ended /\ session[s].state = "live"
                        THEN [session[s] EXCEPT !.state = "revoked"] ELSE session[s]
      BY <2>3 DEF Revoke
    <3>2. ASSUME s \in ended, session[s].state = "live" PROVE FALSE
      <4>1. session'[s].state = "revoked"
        BY <3>1, <3>2 DEF Inv, TypeOK
      <4>2. QED
        BY <1>2, <4>1
    <3>3. QED
      BY <1>2, <3>1, <3>2
  <2>5. session[s].user \in Users
    BY <2>4 DEF Inv, SessionOK
  <2>6. QED
    BY <2>2, <2>3, <2>4, <2>5 DEF SessionsOf, Active
<1>3. QED
  BY <1>1, <1>2

\* Only logging in and switching open a session to work with.
LEMMA Openers ==
  ASSUME Inv, Next, NEW s \in Sessions, session[s].state = "none", session'[s].state = "live"
  PROVE  \E r \in Requests : /\ (FinishLogin(r, s) /\ pc[r] = "issue") \/ FinishSwitch(r, s)
                             /\ session'[s] = Sess("live", job[r].user, job[r].tenant)
<1>0. TypeOK /\ session' # session /\ ~UNCHANGED sessionVars
  BY DEF Inv, sessionVars
<1>1. ASSUME NEW ended, Revoke(ended) PROVE FALSE
  BY <1>1 DEF Revoke
<1>2. ASSUME NEW r \in Requests, Use(r)
      PROVE  /\ (FinishLogin(r, s) /\ pc[r] = "issue") \/ FinishSwitch(r, s)
             /\ session'[s] = Sess("live", job[r].user, job[r].tenant)
  <2>1. PICK x \in Sessions : FinishLogin(r, x) \/ FinishSwitch(r, x)
    BY <1>0, <1>1, <1>2 DEF Use, BeginLogin, LookLogin, BeginSwitch, BeginRefresh, LookRefresh,
                            FinishRefresh, sessionVars
  <2>2. Issue(r, x)
    BY <1>0, <2>1 DEF FinishLogin, FinishSwitch
  <2>3. x = s /\ session'[s] = Sess("live", job[r].user, job[r].tenant)
    BY <1>0, <2>2 DEF Issue, TypeOK
  <2>4. QED
    BY <2>1, <2>3 DEF FinishLogin
<1>3. ~EndSessions
  <2>1. ASSUME NEW x \in Sessions, Lapse(x) PROVE FALSE
    BY <1>0, <2>1 DEF Lapse, TypeOK, NoSession
  <2>2. ASSUME NEW t \in Tenants, NEW x \in Sessions, Impersonate(t, x) PROVE FALSE
    BY <1>0, <2>2 DEF Impersonate, TypeOK, Sess
  <2>3. QED
    BY <1>1, <2>1, <2>2 DEF EndSessions, Logout, ForceLogout, SuspendTenant
<1>4. QED
  BY <1>0, <1>2, <1>3 DEF Next, Requests

\* Whoever manages an open organization is offered it and its hotels.
LEMMA OfferedAtHome ==
  ASSUME Inv, NEW u \in Users, NEW t \in Offered(u)
  PROVE  Managed(u) = {} \/ Manages(member, u, t) \/ Manages(member, u, Parent(t))
<1>1. ASSUME Managed(u) # {}, t \in Direct(u)
      PROVE  Manages(member, u, t) \/ Manages(member, u, Parent(t))
  <2> DEFINE active == {x \in there : member[x][u].active}
             roots == {x \in active : Parent(x) = "none" /\ Manages(member, u, x)}
  <2>1. roots # {}
    <3>1. PICK x \in Managed(u) : TRUE
      BY <1>1
    <3>2. member[x][u].active
      BY <3>1 DEF Managed, Manages, Member
    <3>3. QED
      BY <3>1, <3>2 DEF Managed
  <2>2. {t, Parent(t)} \cap roots # {}
    BY <1>1, <2>1 DEF Direct
  <2>3. QED
    BY <2>2
<1>2. t \in Direct(u) \/ Manages(member, u, Parent(t))
  BY DEF Offered
<1>3. QED
  BY <1>1, <1>2

\* Whoever is offered a hotel is a member, or inherits it.
LEMMA OfferedIsWelcome ==
  ASSUME Inv, NEW u \in Users, NEW t \in Offered(u)
  PROVE  Welcome(u, t) \/ (Manages(member, u, Parent(t)) /\ Parent(t) \in closed)
BY DEF Offered, Direct, Welcome, Inherits, Manages

LEMMA AcceptedStep ==
  ASSUME Inv, SerialInv, Next, NEW s \in Sessions
  PROVE  /\ StaysHome(s)
         /\ \A r \in Requests :
              /\ Renewed(s) /\ pc[r] \in {"issue", "renew"} /\ pc'[r] = "idle"
              /\ Parent(token'[s].tenant) \notin closed
              /\ \/ member[token'[s].tenant][session'[s].user].role = "none"
                 \/ member[token'[s].tenant][session'[s].user].active
              => Accepts(session'[s].user, token'[s])
<1>1. StaysHome(s)
  <2> SUFFICES ASSUME session[s].state = "none", session'[s].state = "live"
               PROVE  \/ Managed(session'[s].user) = {}
                      \/ Manages(member, session'[s].user, session'[s].tenant)
                      \/ Manages(member, session'[s].user, Parent(session'[s].tenant))
    BY DEF StaysHome
  <2>1. PICK r \in Requests : /\ (FinishLogin(r, s) /\ pc[r] = "issue") \/ FinishSwitch(r, s)
                              /\ session'[s] = Sess("live", job[r].user, job[r].tenant)
    BY Openers
  <2> DEFINE u == job[r].user
             t == job[r].tenant
  <2>2. session'[s].user = u /\ session'[s].tenant = t
    BY <2>1 DEF Sess
  <2>3. StillHolds(pc[r], job[r]) /\ pc[r] \in {"issue", "switch"}
    BY <2>1, NowHolds DEF FinishSwitch
  <2>4. u \in Users
    BY <2>3 DEF Inv, JobOK
  <2>5. CASE pc[r] = "issue"
    <3>1. t \in Offered(u)
      BY <2>3, <2>5 DEF StillHolds
    <3>2. QED
      BY <2>2, <2>4, <3>1, OfferedAtHome
  <2>6. CASE pc[r] = "switch"
    <3>1. AtHome(u, t)
      BY <2>3, <2>6 DEF StillHolds
    <3>2. QED
      BY <2>2, <3>1 DEF AtHome, Managed
  <2>7. QED
    BY <2>3, <2>5, <2>6
<1>2. ASSUME NEW r \in Requests, Renewed(s), pc[r] \in {"issue", "renew"},
             Parent(token'[s].tenant) \notin closed,
             \/ member[token'[s].tenant][session'[s].user].role = "none"
             \/ member[token'[s].tenant][session'[s].user].active
      PROVE  Accepts(session'[s].user, token'[s])
  <2>1. PICK q \in Requests :
           \/ FinishLogin(q, s) /\ NotSuspended(job[q].tenant)
           \/ FinishSwitch(q, s)
           \/ FinishRefresh(q) /\ job[q].session = s
    BY <1>2, Givers
  <2>2. /\ NotSuspended(job[q].tenant) /\ pc[q] \in Deciding /\ StillHolds(pc[q], job[q])
        /\ token'[s].tenant = job[q].tenant /\ token'[s].version = job[q].version
        /\ session'[s].user = job[q].user
    BY <2>1, GivenStep
  <2>3. q = r
    BY <1>2, <2>2 DEF SerialInv, Solo
  <2> DEFINE u == job[r].user
             t == job[r].tenant
  <2>4. u \in Users /\ t \in Tenants
    BY <1>2, JobTyping DEF Inv, JobOK
  <2>5. job[r].version = version[u]
    BY <1>2, <2>2, <2>3 DEF StillHolds
  <2>6. Welcome(u, t)
    <3>1. CASE pc[r] = "renew"
      BY <2>2, <2>3, <3>1 DEF StillHolds
    <3>2. CASE pc[r] = "issue"
      <4>1. t \in Offered(u)
        BY <2>2, <2>3, <3>2 DEF StillHolds
      <4>2. QED
        BY <1>2, <2>2, <2>3, <2>4, <4>1, OfferedIsWelcome
    <3>3. QED
      BY <1>2, <3>1, <3>2
  <2>7. member[t][u].active \/ member[t][u] = Absent
    <3>1. member[t][u] \in {Absent} \cup [role : Roles, active : BOOLEAN]
      BY <2>4 DEF Inv, TypeOK, Memberships
    <3>2. "none" \notin Roles
      BY DEF Roles
    <3>3. QED
      BY <1>2, <2>2, <2>3, <3>1, <3>2
  <2>8. QED
    BY <1>2, <2>2, <2>3, <2>5, <2>6, <2>7 DEF Accepts, Welcome
<1>3. QED
  BY <1>1, <1>2

\* As long as requests do not overlap, nobody becomes a member of a hotel whose
\* seats are taken, and a role that has one holder goes to nobody else.
THEOREM SeatsAreKept == HistorySpec => NobodyBeyondThePlan
<1>1. ASSUME FullInv, [HistoryNext]_<<vars, overlapped>>
      PROVE  [Alone(\A t \in Tenants, u \in Users :
                /\ member[t][u] = Absent /\ member'[t][u].active /\ t \in there
                   => Cardinality(Active(t)') <= seats[t]
                /\ member'[t][u] = Member("ADMIN") /\ member[t][u].role # "ADMIN"
                   => Holders(t, "ADMIN") \subseteq {u})]_vars
  <2> HIDE DEF vars
  <2>1. QED
    BY <1>1, SeatsStep DEF FullInv, Alone, HistoryNext
<1>2. QED
  BY <1>1, FullInit, FullStep, PTL DEF HistorySpec, NobodyBeyondThePlan

\* As long as requests do not overlap, no session is given or renewed at a
\* suspended tenant, none that was revoked is renewed, and suspending a tenant
\* ends the sessions its members have there.
THEOREM SuspensionEndsSessions == HistorySpec => SuspendedMeansOut
<1>1. ASSUME FullInv, [HistoryNext]_<<vars, overlapped>>
      PROVE  [Alone(\A s \in Sessions :
                /\ Renewed(s) => /\ NotSuspended(token'[s].tenant)
                                 /\ session[s].state # "revoked"
                /\ session'[s].state = "live" /\ session'[s].tenant \in suspended' \ suspended
                   => ~member[session'[s].tenant][session[s].user].active)]_vars
  <2> HIDE DEF vars
  <2>1. QED
    BY <1>1, OutStep DEF FullInv, Alone, HistoryNext
<1>2. QED
  BY <1>1, FullInit, FullStep, PTL DEF HistorySpec, SuspendedMeansOut

\* As long as requests do not overlap, a session is for where its user belongs,
\* and the tokens of login and refresh pass authenticate.js, but for hotels
\* whose organization is closed and managers whose own membership is inactive.
THEOREM TokensPass == HistorySpec => TokensAreAccepted
<1>1. ASSUME FullInv, [HistoryNext]_<<vars, overlapped>>
      PROVE  [Alone(\A s \in Sessions :
                /\ StaysHome(s)
                /\ \A r \in Requests :
                     /\ Renewed(s) /\ pc[r] \in {"issue", "renew"} /\ pc'[r] = "idle"
                     /\ Parent(token'[s].tenant) \notin closed
                     /\ \/ member[token'[s].tenant][session'[s].user].role = "none"
                        \/ member[token'[s].tenant][session'[s].user].active
                     => Accepts(session'[s].user, token'[s]))]_vars
  <2> HIDE DEF vars
  <2>1. QED
    BY <1>1, AcceptedStep DEF FullInv, Alone, HistoryNext
<1>2. QED
  BY <1>1, FullInit, FullStep, PTL DEF HistorySpec, TokensAreAccepted

-----------------------------------------------------------------------------
(* Password resets *)

HIDE DEF Changing, Visiting, Deciding, Renewing

Sending == {"send", "mark", "catch"}
Trying == {"mark", "catch"}

\* A request that sends has a row to send.
HoldsRows == \A r \in MailRequests : mailPc[r] \in Sending => todo[r] # {}

\* No count of attempts runs ahead of the tries: neither the one a row shows,
\* unless the mail was sent, nor the one a request goes on from; and a request
\* about to write the outcome of a try has made that try.
CountsFollowTries ==
  /\ \A m \in Mails : log[m] # "SENT" => attempts[m] <= tries[m]
  /\ \A r \in MailRequests, m \in Mails : seen[r][m] < MaxAttempts /\ seen[r][m] <= tries[m]
  /\ \A r \in MailRequests : mailPc[r] \in Trying => seen[r][mailJob[r]] < tries[mailJob[r]]

\* A request marks a row SENT only after the provider has taken the mail.
TakenBeforeMarked == \A r \in MailRequests : mailPc[r] = "mark" => delivered[mailJob[r]] > 0

\* A code that can still be used has not been used.
FreshUntilGone == \A m \in Mails : code[m] = "none" \/ Stored(m) => used[m] = 0

PcTypeOK == mailPc \in [MailRequests -> {"idle", "send", "mark", "catch", "code", "mail", "undo", "use"}]

\* The inductive invariant: of the mails, and of the codes.
MailInv ==
  /\ MailTypeOK /\ PcTypeOK
  /\ GivesUpLate /\ SentIsDelivered
  /\ HoldsRows /\ CountsFollowTries /\ TakenBeforeMarked

CodeInv ==
  /\ code \in [Mails -> {"none", "live", "expired", "gone"}]
  /\ owner \in [Mails -> Addresses] /\ asker \in [MailRequests -> Addresses]
  /\ used \in [Mails -> Nat]
  /\ CodeUsedOnce /\ FreshUntilGone

ResetInv == MailInv /\ CodeInv

-----------------------------------------------------------------------------
(* What the helpers return. *)

\* Sets of rows have a first one.
LEMMA FirstRow ==
  ASSUME NEW S \in SUBSET Mails, S # {}
  PROVE  Min(S) \in S
<1> DEFINE Less == {p \in Nat \X Nat : p[1] < p[2]}
<1>1. IsWellFoundedOn(Less, Nat)
  BY NatLessThanWellFounded DEF OpToRel
<1>2. S \subseteq Nat
  BY MailAssumption DEF Mails
<1>3. PICK x \in S : \A y \in S : ~ (<<y, x>> \in Less)
  <2> HIDE DEF Less
  <2>1. QED
    BY <1>1, <1>2, WFMin
<1>4. ASSUME NEW y \in S PROVE x <= y
  <2>1. x \in Nat /\ y \in Nat
    BY <1>2
  <2>2. y < x => <<y, x>> \in Less
    <3>1. <<y, x>> \in Nat \X Nat /\ <<y, x>>[1] = y /\ <<y, x>>[2] = x
      BY <2>1
    <3>2. QED
      BY <3>1 DEF Less
  <2>3. QED
    BY <1>3, <2>1, <2>2
<1>5. QED
  BY <1>4 DEF Min

LEMMA Smaller ==
  ASSUME NEW a \in Int, NEW b \in Int
  PROVE  Min({a, b}) = IF a <= b THEN a ELSE b
<1> DEFINE m == IF a <= b THEN a ELSE b
<1>1. m \in {a, b} /\ \A y \in {a, b} : m <= y
  OBVIOUS
<1>2. \A x, y \in {a, b} : x <= y /\ y <= x => x = y
  OBVIOUS
<1>3. QED
  BY <1>1, <1>2 DEF Min

LEMMA Larger ==
  ASSUME NEW a \in Int, NEW b \in Int
  PROVE  Max({a, b}) = IF a >= b THEN a ELSE b
<1> DEFINE m == IF a >= b THEN a ELSE b
<1>1. m \in {a, b} /\ \A y \in {a, b} : m >= y
  OBVIOUS
<1>2. \A x, y \in {a, b} : x >= y /\ y >= x => x = y
  OBVIOUS
<1>3. QED
  BY <1>1, <1>2 DEF Max

LEMMA BackoffIsNat == \A n \in Nat : Backoff(n) \in Nat
  BY DEF Backoff

LEMMA Constants == AnyAddress \in Addresses /\ AnyMail \in Mails /\ Unread \in [Mails -> Nat]
  BY AddressesAssumption, MailAssumption DEF AnyAddress, AnyMail, Unread, Mails

-----------------------------------------------------------------------------
(* The steps of the mail queue. *)

USE DEF Sending, Trying, PcTypeOK

LEMMA TransmitKeeps ==
  ASSUME MailInv, NEW r \in MailRequests, Transmit(r)
  PROVE  MailInv'
<1> DEFINE m == Min(todo[r])
<1>1. m \in todo[r] /\ m \in Mails
  <2>1. todo[r] \in SUBSET Mails /\ todo[r] # {}
    BY DEF MailInv, MailTypeOK, HoldsRows, Transmit
  <2>2. QED
    BY <2>1, FirstRow
<1> HIDE DEF m
<1>2. PICK taken \in BOOLEAN :
        /\ tries' = [tries EXCEPT ![m] = Min({@ + 1, MaxAttempts})]
        /\ delivered' = [delivered EXCEPT ![m] = IF taken THEN Min({@ + 1, 2}) ELSE @]
        /\ mailJob' = [mailJob EXCEPT ![r] = m]
        /\ mailPc' = [mailPc EXCEPT ![r] = IF taken THEN "mark" ELSE "catch"]
  BY DEF Transmit, MailGoes, m
<1>3. UNCHANGED <<config, log, attempts, wait, faults, kind, todo, seen>>
  BY DEF Transmit, rows
<1>4. /\ tries[m] \in 0 .. MaxAttempts /\ delivered[m] \in 0 .. 2 /\ MaxAttempts \in Nat \ {0}
      /\ Min({tries[m] + 1, MaxAttempts}) = IF tries[m] < MaxAttempts THEN tries[m] + 1 ELSE MaxAttempts
      /\ Min({delivered[m] + 1, 2}) = IF delivered[m] < 2 THEN delivered[m] + 1 ELSE 2
  <2>1. tries[m] \in 0 .. MaxAttempts /\ delivered[m] \in 0 .. 2 /\ MaxAttempts \in Nat \ {0}
    BY <1>1, MailAssumption DEF MailInv, MailTypeOK
  <2>2. QED
    BY <2>1, Smaller
<1>5. /\ tries \in [Mails -> 0 .. MaxAttempts] /\ tries' \in [Mails -> 0 .. MaxAttempts]
      /\ delivered \in [Mails -> 0 .. 2] /\ delivered' \in [Mails -> 0 .. 2]
      /\ mailJob' \in [MailRequests -> Mails]
  <2>1. /\ tries \in [Mails -> 0 .. MaxAttempts] /\ delivered \in [Mails -> 0 .. 2]
        /\ mailJob \in [MailRequests -> Mails]
    BY DEF MailInv, MailTypeOK
  <2>2. tries' \in [Mails -> 0 .. MaxAttempts]
    BY <1>1, <1>2, <1>4, <2>1
  <2>3. delivered' \in [Mails -> 0 .. 2]
    BY <1>1, <1>2, <1>4, <2>1
  <2>4. QED
    BY <1>1, <1>2, <2>1, <2>2, <2>3
<1> MailTypeOK'
  BY <1>3, <1>5 DEF MailInv, MailTypeOK
<1>6. \A n \in Mails : /\ tries[n] <= tries'[n] /\ delivered[n] <= delivered'[n]
                       /\ tries[n] = MaxAttempts => tries'[n] = MaxAttempts
  BY <1>1, <1>2, <1>4, <1>5
<1>7. GivesUpLate' /\ SentIsDelivered'
  <2>1. GivesUpLate'
    BY <1>3, <1>6 DEF MailInv, GivesUpLate
  <2>2. SentIsDelivered'
    BY <1>3, <1>5, <1>6 DEF MailInv, SentIsDelivered
  <2>3. QED
    BY <2>1, <2>2
<1>8. HoldsRows'
  BY <1>2, <1>3 DEF MailInv, HoldsRows, Transmit
<1>9. CountsFollowTries'
  <2>1. \A n \in Mails : log'[n] # "SENT" => attempts'[n] <= tries'[n]
    BY <1>3, <1>4, <1>5, <1>6 DEF MailInv, MailTypeOK, CountsFollowTries
  <2>2. \A q \in MailRequests, n \in Mails : seen'[q][n] < MaxAttempts /\ seen'[q][n] <= tries'[n]
    BY <1>3, <1>4, <1>5, <1>6 DEF MailInv, MailTypeOK, CountsFollowTries
  <2>3. ASSUME NEW q \in MailRequests, mailPc'[q] \in Trying PROVE seen'[q][mailJob'[q]] < tries'[mailJob'[q]]
    <3>1. CASE q = r
      <4>1. mailJob'[r] = m /\ seen'[r][m] = seen[r][m] /\ seen[r][m] \in Nat
        BY <1>1, <1>2, <1>3 DEF MailInv, MailTypeOK
      <4>2. seen[r][m] < MaxAttempts /\ seen[r][m] <= tries[m]
        BY <1>1 DEF MailInv, CountsFollowTries
      <4>3. tries'[m] = Min({tries[m] + 1, MaxAttempts})
        BY <1>1, <1>2 DEF MailInv, MailTypeOK
      <4>4. QED
        BY <1>4, <3>1, <4>1, <4>2, <4>3
    <3>2. CASE q # r
      <4>1. mailJob'[q] = mailJob[q] /\ mailPc'[q] = mailPc[q] /\ seen'[q] = seen[q] /\ mailJob[q] \in Mails
        BY <1>2, <1>3, <3>2 DEF MailInv, MailTypeOK
      <4>2. seen[q][mailJob[q]] < tries[mailJob[q]] /\ seen[q][mailJob[q]] \in Nat
        BY <2>3, <4>1 DEF MailInv, MailTypeOK, CountsFollowTries
      <4>3. tries[mailJob[q]] \in Nat /\ tries'[mailJob[q]] \in Nat
        BY <1>4, <1>5, <4>1
      <4>4. QED
        BY <1>6, <4>1, <4>2, <4>3
    <3>3. QED
      BY <3>1, <3>2
  <2>4. QED
    BY <2>1, <2>2, <2>3 DEF CountsFollowTries
<1>10. TakenBeforeMarked'
  <2>1. ASSUME NEW q \in MailRequests, mailPc'[q] = "mark" PROVE delivered'[mailJob'[q]] > 0
    <3>1. CASE q = r
      BY <1>1, <1>2, <1>4, <2>1, <3>1 DEF MailInv, MailTypeOK
    <3>2. CASE q # r
      <4>1. mailJob'[q] = mailJob[q] /\ mailJob[q] \in Mails /\ mailPc[q] = "mark"
        BY <1>2, <2>1, <3>2 DEF MailInv, MailTypeOK
      <4>2. delivered[mailJob[q]] > 0 /\ delivered[mailJob[q]] \in Nat /\ delivered'[mailJob[q]] \in Nat
        BY <1>5, <4>1 DEF MailInv, TakenBeforeMarked
      <4>3. QED
        BY <1>6, <4>1, <4>2
    <3>3. QED
      BY <3>1, <3>2
  <2>2. QED
    BY <2>1 DEF TakenBeforeMarked
<1>11. mailPc' \in [MailRequests -> {"idle", "send", "mark", "catch", "code", "mail", "undo", "use"}]
  BY <1>2 DEF MailInv
<1>12. QED
  BY <1>7, <1>8, <1>9, <1>10, <1>11 DEF MailInv

\* What a request holds when it is on to the next row, or over.
LEMMA OnwardsKeeps ==
  ASSUME MailInv, NEW r \in MailRequests, NEW ok \in BOOLEAN, mailPc[r] \in Trying, Onwards(r, ok)
  PROVE  /\ kind' \in [MailRequests -> Kinds]
         /\ todo' \in [MailRequests -> SUBSET Mails]
         /\ seen' \in [MailRequests -> [Mails -> Nat]]
         /\ mailJob' \in [MailRequests -> Mails]
         /\ mailPc' \in [MailRequests -> {"idle", "send", "mark", "catch", "code", "mail", "undo", "use"}]
         /\ HoldsRows'
         /\ mailPc'[r] \notin Trying
         /\ \A m \in Mails : seen'[r][m] = seen[r][m] \/ seen'[r][m] = 0
         /\ \A q \in MailRequests \ {r} : mailPc'[q] = mailPc[q] /\ mailJob'[q] = mailJob[q] /\ seen'[q] = seen[q]
<1>1. CASE todo[r] # {mailJob[r]}
  <2>1. /\ todo' = [todo EXCEPT ![r] = @ \ {mailJob[r]}]
        /\ mailJob' = [mailJob EXCEPT ![r] = AnyMail]
        /\ mailPc' = [mailPc EXCEPT ![r] = "send"]
        /\ UNCHANGED <<kind, seen>>
    BY <1>1 DEF Onwards, MailGoes
  <2>2. todo[r] # {} /\ todo[r] \ {mailJob[r]} # {}
    BY <1>1 DEF MailInv, HoldsRows
  <2>3. QED
    BY <2>1, <2>2, Constants DEF MailInv, MailTypeOK, HoldsRows
<1>2. CASE todo[r] = {mailJob[r]}
  <2>1. PICK step \in {"undo", "idle"} :
          /\ kind' = [kind EXCEPT ![r] = "notice"]
          /\ todo' = [todo EXCEPT ![r] = {}]
          /\ seen' = [seen EXCEPT ![r] = Unread]
          /\ mailJob' = [mailJob EXCEPT ![r] = AnyMail]
          /\ mailPc' = [mailPc EXCEPT ![r] = step]
    BY <1>2 DEF Onwards, MailGoes, Forget
  <2>2. QED
    BY <2>1, Constants DEF MailInv, MailTypeOK, HoldsRows, Unread, Kinds
<1>3. QED
  BY <1>1, <1>2

\* Forgetting what was read breaks no count.
LEMMA ForgettingIsSafe ==
  ASSUME MailInv, NEW r \in MailRequests, UNCHANGED tries,
         \A m \in Mails : seen'[r][m] = seen[r][m] \/ seen'[r][m] = 0,
         \A q \in MailRequests \ {r} : seen'[q] = seen[q]
  PROVE  \A q \in MailRequests, m \in Mails : seen'[q][m] < MaxAttempts /\ seen'[q][m] <= tries'[m]
<1> SUFFICES ASSUME NEW q \in MailRequests, NEW m \in Mails
             PROVE  seen'[q][m] < MaxAttempts /\ seen'[q][m] <= tries'[m]
  OBVIOUS
<1>1. seen'[q][m] = seen[q][m] \/ seen'[q][m] = 0
  OBVIOUS
<1>2. seen[q][m] < MaxAttempts /\ seen[q][m] <= tries[m]
  BY DEF MailInv, CountsFollowTries
<1>3. tries[m] >= 0 /\ 0 < MaxAttempts
  BY MailAssumption DEF MailInv, MailTypeOK
<1>4. QED
  BY <1>1, <1>2, <1>3

\* The outcome of a try is written.
LEMMA MarkSentKeeps ==
  ASSUME MailInv, NEW r \in MailRequests, MarkSent(r)
  PROVE  MailInv'
<1> DEFINE m == mailJob[r]
<1>1. m \in Mails /\ delivered[m] > 0 /\ mailPc[r] = "mark"
  BY DEF MailInv, MailTypeOK, TakenBeforeMarked, MarkSent
<1>2. PICK k \in Nat : attempts' = [attempts EXCEPT ![m] = k]
  <2> DEFINE n == IF kind[r] = "queue" THEN attempts[m] + 1 ELSE 1
  <2>1. n \in Nat
    BY <1>1 DEF MailInv, MailTypeOK
  <2>2. attempts' = [attempts EXCEPT ![m] = n]
    BY DEF MarkSent
  <2>3. QED
    BY <2>1, <2>2
<1>3. /\ log' = [log EXCEPT ![m] = "SENT"] /\ wait' = [wait EXCEPT ![m] = 0]
      /\ UNCHANGED <<config, tries, delivered, faults>>
  BY DEF MarkSent, history
<1>4. /\ kind' \in [MailRequests -> Kinds] /\ todo' \in [MailRequests -> SUBSET Mails]
      /\ seen' \in [MailRequests -> [Mails -> Nat]] /\ mailJob' \in [MailRequests -> Mails]
      /\ mailPc' \in [MailRequests -> {"idle", "send", "mark", "catch", "code", "mail", "undo", "use"}]
      /\ HoldsRows' /\ mailPc'[r] \notin Trying
      /\ \A n \in Mails : seen'[r][n] = seen[r][n] \/ seen'[r][n] = 0
      /\ \A q \in MailRequests \ {r} : mailPc'[q] = mailPc[q] /\ mailJob'[q] = mailJob[q] /\ seen'[q] = seen[q]
  BY <1>1, OnwardsKeeps DEF MarkSent
<1> HIDE DEF m
<1>5. MailTypeOK'
  BY <1>1, <1>2, <1>3, <1>4 DEF MailInv, MailTypeOK
<1>6. GivesUpLate' /\ SentIsDelivered'
  BY <1>1, <1>3 DEF MailInv, MailTypeOK, GivesUpLate, SentIsDelivered
<1>7. CountsFollowTries'
  <2>1. \A n \in Mails : log'[n] # "SENT" => attempts'[n] <= tries'[n]
    BY <1>1, <1>2, <1>3 DEF MailInv, MailTypeOK, CountsFollowTries
  <2>2. \A q \in MailRequests, n \in Mails : seen'[q][n] < MaxAttempts /\ seen'[q][n] <= tries'[n]
    BY <1>3, <1>4, ForgettingIsSafe
  <2>3. \A q \in MailRequests : mailPc'[q] \in Trying => seen'[q][mailJob'[q]] < tries'[mailJob'[q]]
    BY <1>3, <1>4 DEF MailInv, CountsFollowTries
  <2>4. QED
    BY <2>1, <2>2, <2>3 DEF CountsFollowTries
<1>8. TakenBeforeMarked'
  BY <1>3, <1>4 DEF MailInv, TakenBeforeMarked
<1>9. QED
  BY <1>4, <1>5, <1>6, <1>7, <1>8 DEF MailInv

LEMMA MarkFailedKeeps ==
  ASSUME MailInv, NEW r \in MailRequests, MarkFailed(r)
  PROVE  MailInv'
<1> DEFINE m == mailJob[r]
           n == seen[r][m] + 1
<1>1. m \in Mails /\ mailPc[r] = "catch" /\ n \in Nat /\ n <= MaxAttempts /\ n <= tries[m]
  <2>1. m \in Mails /\ mailPc[r] = "catch" /\ seen[r][m] \in Nat
    BY DEF MailInv, MailTypeOK, MarkFailed
  <2>2. tries[m] \in 0 .. MaxAttempts
    BY <2>1 DEF MailInv, MailTypeOK
  <2>3. seen[r][m] < tries[m]
    BY <2>1 DEF MailInv, CountsFollowTries
  <2>4. QED
    BY <2>1, <2>2, <2>3, MailAssumption
<1>2. /\ log' = [log EXCEPT ![m] = IF n < MaxAttempts THEN "PENDING" ELSE "DEAD"]
      /\ attempts' = [attempts EXCEPT ![m] = n]
      /\ wait' = [wait EXCEPT ![m] = IF n < MaxAttempts THEN Backoff(n) ELSE 0]
      /\ UNCHANGED <<config, tries, delivered, faults>>
  BY DEF MarkFailed, history
<1>3. /\ kind' \in [MailRequests -> Kinds] /\ todo' \in [MailRequests -> SUBSET Mails]
      /\ seen' \in [MailRequests -> [Mails -> Nat]] /\ mailJob' \in [MailRequests -> Mails]
      /\ mailPc' \in [MailRequests -> {"idle", "send", "mark", "catch", "code", "mail", "undo", "use"}]
      /\ HoldsRows' /\ mailPc'[r] \notin Trying
      /\ \A k \in Mails : seen'[r][k] = seen[r][k] \/ seen'[r][k] = 0
      /\ \A q \in MailRequests \ {r} : mailPc'[q] = mailPc[q] /\ mailJob'[q] = mailJob[q] /\ seen'[q] = seen[q]
  BY <1>1, OnwardsKeeps DEF MarkFailed
<1>4. tries[m] \in 0 .. MaxAttempts /\ MaxAttempts \in Nat \ {0} /\ Backoff(n) \in Nat
  BY <1>1, BackoffIsNat, MailAssumption DEF MailInv, MailTypeOK
<1> HIDE DEF m, n
<1>5. MailTypeOK'
  BY <1>1, <1>2, <1>3, <1>4 DEF MailInv, MailTypeOK
<1>6. GivesUpLate' /\ SentIsDelivered'
  <2>1. ASSUME NEW k \in Mails, log'[k] = "DEAD" PROVE tries'[k] = MaxAttempts
    <3>1. CASE k = m
      <4>1. ~ (n < MaxAttempts)
        BY <1>1, <1>2, <2>1, <3>1 DEF MailInv, MailTypeOK
      <4>2. QED
        BY <1>1, <1>2, <1>4, <3>1, <4>1
    <3>2. CASE k # m
      BY <1>1, <1>2, <2>1, <3>2 DEF MailInv, MailTypeOK, GivesUpLate
    <3>3. QED
      BY <3>1, <3>2
  <2>2. ASSUME NEW k \in Mails, log'[k] = "SENT" PROVE delivered'[k] > 0
    BY <1>1, <1>2, <2>2 DEF MailInv, MailTypeOK, SentIsDelivered
  <2>3. QED
    BY <2>1, <2>2 DEF GivesUpLate, SentIsDelivered
<1>7. CountsFollowTries'
  <2>1. \A k \in Mails : log'[k] # "SENT" => attempts'[k] <= tries'[k]
    BY <1>1, <1>2 DEF MailInv, MailTypeOK, CountsFollowTries
  <2>2. \A q \in MailRequests, k \in Mails : seen'[q][k] < MaxAttempts /\ seen'[q][k] <= tries'[k]
    BY <1>2, <1>3, ForgettingIsSafe
  <2>3. \A q \in MailRequests : mailPc'[q] \in Trying => seen'[q][mailJob'[q]] < tries'[mailJob'[q]]
    BY <1>2, <1>3 DEF MailInv, CountsFollowTries
  <2>4. QED
    BY <2>1, <2>2, <2>3 DEF CountsFollowTries
<1>8. TakenBeforeMarked'
  BY <1>2, <1>3 DEF MailInv, TakenBeforeMarked
<1>9. QED
  BY <1>3, <1>5, <1>6, <1>7, <1>8 DEF MailInv

\* A row is written by nobody while its request waits or goes elsewhere.
LEMMA RestKeeps ==
  ASSUME MailInv, NEW r \in MailRequests, NEW step \in {"idle", "code", "mail", "undo", "use"},
         mailPc' = [mailPc EXCEPT ![r] = step],
         UNCHANGED <<config, log, attempts, wait, tries, delivered>>, faults' \in 0 .. MaxFaults,
         \/ Forget(r)
         \/ UNCHANGED <<kind, todo, seen>> /\ \E m \in Mails : mailJob' = [mailJob EXCEPT ![r] = m]
  PROVE  MailInv'
<1>1. /\ kind' \in [MailRequests -> Kinds] /\ todo' \in [MailRequests -> SUBSET Mails]
      /\ seen' \in [MailRequests -> [Mails -> Nat]] /\ mailJob' \in [MailRequests -> Mails]
      /\ \A q \in MailRequests \ {r} : mailJob'[q] = mailJob[q] /\ seen'[q] = seen[q] /\ todo'[q] = todo[q]
      /\ \A m \in Mails : seen'[r][m] = seen[r][m] \/ seen'[r][m] = 0
  <2>1. CASE Forget(r)
    BY <2>1, Constants DEF Forget, MailInv, MailTypeOK, Unread, Kinds
  <2>2. CASE UNCHANGED <<kind, todo, seen>> /\ \E m \in Mails : mailJob' = [mailJob EXCEPT ![r] = m]
    BY <2>2 DEF MailInv, MailTypeOK
  <2>3. QED
    BY <2>1, <2>2
<1>2. MailTypeOK'
  BY <1>1 DEF MailInv, MailTypeOK
<1>3. GivesUpLate' /\ SentIsDelivered'
  BY DEF MailInv, GivesUpLate, SentIsDelivered
<1>4. HoldsRows' /\ TakenBeforeMarked'
  BY <1>1 DEF MailInv, HoldsRows, TakenBeforeMarked
<1>5. CountsFollowTries'
  <2>1. \A q \in MailRequests, m \in Mails : seen'[q][m] < MaxAttempts /\ seen'[q][m] <= tries'[m]
    BY <1>1, ForgettingIsSafe
  <2>2. \A q \in MailRequests : mailPc'[q] \in Trying => seen'[q][mailJob'[q]] < tries'[mailJob'[q]]
    BY <1>1 DEF MailInv, CountsFollowTries
  <2>3. QED
    BY <2>1, <2>2 DEF MailInv, CountsFollowTries
<1>6. QED
  BY <1>2, <1>3, <1>4, <1>5 DEF MailInv

-----------------------------------------------------------------------------
(* The steps that begin or end a sending. *)

LEMMA CreateRowKeeps ==
  ASSUME MailInv, NEW r \in MailRequests, NEW m \in Mails, NEW k \in Kinds,
         mailPc[r] \in {"idle", "mail"}, CreateRow(r, m, k)
  PROVE  MailInv'
<1>1. /\ log[m] = "none" /\ log' = [log EXCEPT ![m] = "PENDING"]
      /\ kind' = [kind EXCEPT ![r] = k] /\ todo' = [todo EXCEPT ![r] = {m}]
      /\ mailPc' = [mailPc EXCEPT ![r] = "send"]
      /\ UNCHANGED <<config, attempts, wait, tries, delivered, faults, seen, mailJob>>
  BY DEF CreateRow, MailGoes, history
<1>2. MailTypeOK'
  BY <1>1 DEF MailInv, MailTypeOK
<1>3. GivesUpLate' /\ SentIsDelivered'
  BY <1>1 DEF MailInv, MailTypeOK, GivesUpLate, SentIsDelivered
<1>4. HoldsRows' /\ TakenBeforeMarked'
  BY <1>1 DEF MailInv, MailTypeOK, HoldsRows, TakenBeforeMarked
<1>5. CountsFollowTries'
  BY <1>1 DEF MailInv, MailTypeOK, CountsFollowTries
<1>6. QED
  BY <1>1, <1>2, <1>3, <1>4, <1>5 DEF MailInv

LEMMA RunQueueKeeps ==
  ASSUME MailInv, NEW r \in MailRequests, RunQueue(r)
  PROVE  MailInv'
<1> DEFINE picked == {m \in Mails : Due(m)}
           read == [m \in Mails |-> IF m \in picked THEN attempts[m] ELSE 0]
<1>1. /\ picked # {} /\ picked \subseteq Mails
      /\ kind' = [kind EXCEPT ![r] = "queue"] /\ todo' = [todo EXCEPT ![r] = picked]
      /\ seen' = [seen EXCEPT ![r] = read]
      /\ mailPc' = [mailPc EXCEPT ![r] = "send"]
      /\ UNCHANGED <<config, log, attempts, wait, tries, delivered, faults, mailJob>>
  BY DEF RunQueue, MailGoes, rows, history
<1>2. /\ read \in [Mails -> Nat]
      /\ \A m \in Mails : read[m] < MaxAttempts /\ read[m] <= tries[m]
  <2>1. \A m \in Mails : attempts[m] \in Nat /\ tries[m] \in 0 .. MaxAttempts
    BY DEF MailInv, MailTypeOK
  <2>2. \A m \in Mails : Due(m) => attempts[m] < MaxAttempts /\ attempts[m] <= tries[m]
    BY DEF Due, MailInv, CountsFollowTries
  <2>3. QED
    BY <2>1, <2>2, MailAssumption
<1> HIDE DEF picked, read
<1>3. MailTypeOK'
  BY <1>1, <1>2 DEF MailInv, MailTypeOK, Kinds
<1>4. GivesUpLate' /\ SentIsDelivered'
  BY <1>1 DEF MailInv, GivesUpLate, SentIsDelivered
<1>5. HoldsRows' /\ TakenBeforeMarked'
  BY <1>1 DEF MailInv, MailTypeOK, HoldsRows, TakenBeforeMarked
<1>6. CountsFollowTries'
  BY <1>1, <1>2 DEF MailInv, MailTypeOK, CountsFollowTries
<1>7. QED
  BY <1>1, <1>3, <1>4, <1>5, <1>6 DEF MailInv

LEMMA FaultCounts ==
  ASSUME MailInv, Fault
  PROVE  faults' \in 0 .. MaxFaults
BY MailAssumption DEF Fault, MailInv, MailTypeOK

LEMMA SentNotWrittenKeeps ==
  ASSUME MailInv, NEW r \in MailRequests, SentNotWritten(r)
  PROVE  MailInv'
<1>1. /\ mailPc[r] = "mark" /\ mailPc' = [mailPc EXCEPT ![r] = "catch"]
      /\ UNCHANGED <<config, log, attempts, wait, tries, delivered, kind, todo, seen, mailJob>>
  BY DEF SentNotWritten, MailGoes, rows, history, sending
<1>2. faults' \in 0 .. MaxFaults
  BY FaultCounts DEF SentNotWritten
<1>3. MailTypeOK'
  BY <1>1, <1>2 DEF MailInv, MailTypeOK
<1>4. QED
  BY <1>1, <1>3
     DEF MailInv, GivesUpLate, SentIsDelivered, HoldsRows, CountsFollowTries, TakenBeforeMarked

LEMMA FailureNotWrittenKeeps ==
  ASSUME MailInv, NEW r \in MailRequests, FailureNotWritten(r)
  PROVE  MailInv'
<1>1. faults' \in 0 .. MaxFaults
  BY FaultCounts DEF FailureNotWritten
<1>2. PICK step \in {"undo", "idle"} : mailPc' = [mailPc EXCEPT ![r] = step]
  BY DEF FailureNotWritten, MailGoes
<1>3. QED
  BY <1>1, <1>2, RestKeeps DEF FailureNotWritten, rows, history

LEMMA CrashKeeps ==
  ASSUME MailInv, Crash
  PROVE  MailInv'
<1>1. /\ mailPc' = [r \in MailRequests |-> "idle"] /\ kind' = [r \in MailRequests |-> "notice"]
      /\ todo' = [r \in MailRequests |-> {}] /\ seen' = [r \in MailRequests |-> Unread]
      /\ mailJob' = [r \in MailRequests |-> AnyMail]
      /\ UNCHANGED <<config, log, attempts, wait, tries, delivered>>
  BY DEF Crash, rows, history
<1>2. faults' \in 0 .. MaxFaults
  BY FaultCounts DEF Crash
<1>3. MailTypeOK'
  BY <1>1, <1>2, Constants DEF MailInv, MailTypeOK, Kinds
<1>4. GivesUpLate' /\ SentIsDelivered' /\ HoldsRows' /\ TakenBeforeMarked'
  BY <1>1 DEF MailInv, GivesUpLate, SentIsDelivered, HoldsRows, TakenBeforeMarked
<1>5. CountsFollowTries'
  <2>1. \A m \in Mails : tries[m] \in 0 .. MaxAttempts
    BY DEF MailInv, MailTypeOK
  <2>2. \A r \in MailRequests, m \in Mails : seen'[r][m] = 0
    BY <1>1 DEF Unread
  <2>3. \A r \in MailRequests, m \in Mails : seen'[r][m] < MaxAttempts /\ seen'[r][m] <= tries'[m]
    BY <1>1, <2>1, <2>2, MailAssumption
  <2>4. QED
    BY <1>1, <2>3 DEF MailInv, CountsFollowTries
<1>6. QED
  BY <1>1, <1>3, <1>4, <1>5 DEF MailInv

LEMMA TickKeeps ==
  ASSUME MailInv, Tick
  PROVE  MailInv'
<1>1. UNCHANGED <<config, log, attempts, tries, delivered, faults, mailPc, kind, todo, seen, mailJob>>
  BY DEF Tick, history, sending
<1>2. wait' \in [Mails -> Nat]
  <2>1. \A m \in Mails : wait[m] - 1 \in Int /\ Max({0, wait[m] - 1}) \in Nat
    <3>1. \A m \in Mails : wait[m] - 1 \in Int
      BY DEF MailInv, MailTypeOK
    <3>2. QED
      BY <3>1, Larger
  <2>2. QED
    BY <2>1 DEF Tick
<1>3. QED
  BY <1>1, <1>2
     DEF MailInv, MailTypeOK, GivesUpLate, SentIsDelivered, HoldsRows, CountsFollowTries,
         TakenBeforeMarked

LEMMA SendStepKeeps ==
  ASSUME MailInv, NEW r \in MailRequests, SendStep(r)
  PROVE  MailInv'
BY TransmitKeeps, MarkSentKeeps, MarkFailedKeeps, SentNotWrittenKeeps, FailureNotWrittenKeeps
   DEF SendStep

-----------------------------------------------------------------------------
(* Password resets. *)

\* Deleting the codes of a user uses none.
LEMMA WithdrawingUsesNone ==
  ASSUME CodeInv, NEW u \in Addresses, code' = Without(u), UNCHANGED <<owner, used>>,
         asker' \in [MailRequests -> Addresses]
  PROVE  CodeInv'
BY DEF CodeInv, Without, Stored, CodeUsedOnce, FreshUntilGone

LEMMA BeginResetKeeps ==
  ASSUME ResetInv, NEW r \in MailRequests, NEW u \in Addresses, BeginReset(r, u)
  PROVE  ResetInv'
<1>1. MailInv'
  <2>1. /\ mailPc' = [mailPc EXCEPT ![r] = "code"]
        /\ UNCHANGED <<config, log, attempts, wait, tries, delivered, faults, kind, todo, seen, mailJob>>
    BY DEF BeginReset, MailGoes, mailVars, rows, history, sending
  <2>2. mailJob' = [mailJob EXCEPT ![r] = mailJob[r]] /\ mailJob[r] \in Mails /\ faults' \in 0 .. MaxFaults
    BY <2>1 DEF ResetInv, MailInv, MailTypeOK
  <2>3. QED
    BY <2>1, <2>2, RestKeeps DEF ResetInv
<1>2. CodeInv'
  BY WithdrawingUsesNone DEF ResetInv, CodeInv, BeginReset
<1>3. QED
  BY <1>1, <1>2 DEF ResetInv

LEMMA CreateCodeKeeps ==
  ASSUME ResetInv, NEW r \in MailRequests, CreateCode(r)
  PROVE  ResetInv'
<1> DEFINE m == Min(Unused)
<1>1. m \in Mails /\ code[m] = "none"
  <2>1. Unused \in SUBSET Mails /\ Unused # {}
    BY DEF CreateCode, Unused
  <2>2. QED
    BY <2>1, FirstRow DEF Unused
<1>2. /\ code' = [code EXCEPT ![m] = "live"] /\ owner' = [owner EXCEPT ![m] = asker[r]]
      /\ mailJob' = [mailJob EXCEPT ![r] = m] /\ mailPc' = [mailPc EXCEPT ![r] = "mail"]
      /\ UNCHANGED <<config, log, attempts, wait, tries, delivered, faults, kind, todo, seen, used, asker>>
  BY DEF CreateCode, MailGoes, rows, history
<1> HIDE DEF m
<1>3. MailInv'
  <2>1. faults' \in 0 .. MaxFaults
    BY <1>2 DEF ResetInv, MailInv, MailTypeOK
  <2>2. QED
    BY <1>1, <1>2, <2>1, RestKeeps DEF ResetInv
<1>4. CodeInv'
  BY <1>1, <1>2 DEF ResetInv, CodeInv, Stored, CodeUsedOnce, FreshUntilGone
<1>5. QED
  BY <1>3, <1>4 DEF ResetInv

\* A step that leaves the codes alone keeps what is said of them.
LEMMA CodesStay ==
  ASSUME CodeInv, UNCHANGED <<codes, asker>>
  PROVE  CodeInv'
BY DEF CodeInv, codes, Stored, CodeUsedOnce, FreshUntilGone

LEMMA MailCodeKeeps ==
  ASSUME ResetInv, NEW r \in MailRequests, MailCode(r)
  PROVE  ResetInv'
<1>1. mailPc[r] = "mail" /\ mailJob[r] \in Mails
  BY DEF MailCode, ResetInv, MailInv, MailTypeOK
<1>2. MailInv'
  <2>1. CASE Enabled
    BY <1>1, <2>1, CreateRowKeeps DEF MailCode, ResetInv, Kinds
  <2>2. CASE ~ Enabled
    <3>1. /\ Forget(r) /\ mailPc' = [mailPc EXCEPT ![r] = "idle"]
          /\ UNCHANGED <<config, log, attempts, wait, tries, delivered, faults>>
      BY <2>2 DEF MailCode, MailGoes, rows, history
    <3>2. faults' \in 0 .. MaxFaults
      BY <3>1 DEF ResetInv, MailInv, MailTypeOK
    <3>3. QED
      BY <3>1, <3>2, RestKeeps DEF ResetInv
  <2>3. QED
    BY <2>1, <2>2
<1>3. QED
  BY <1>2, CodesStay DEF ResetInv, MailCode

LEMMA UndoKeeps ==
  ASSUME ResetInv, NEW r \in MailRequests, Undo(r)
  PROVE  ResetInv'
<1>1. MailInv'
  <2>1. /\ mailPc' = [mailPc EXCEPT ![r] = "idle"]
        /\ UNCHANGED <<config, log, attempts, wait, tries, delivered, faults, kind, todo, seen, mailJob>>
    BY DEF Undo, MailGoes, mailVars, rows, history, sending
  <2>2. mailJob' = [mailJob EXCEPT ![r] = mailJob[r]] /\ mailJob[r] \in Mails /\ faults' \in 0 .. MaxFaults
    BY <2>1 DEF ResetInv, MailInv, MailTypeOK
  <2>3. QED
    BY <2>1, <2>2, RestKeeps DEF ResetInv
<1>2. CodeInv'
  <2>1. asker[r] \in Addresses /\ code' = Without(asker[r]) /\ UNCHANGED <<owner, used, asker>>
    BY DEF ResetInv, CodeInv, Undo
  <2>2. QED
    BY <2>1, WithdrawingUsesNone DEF ResetInv, CodeInv
<1>3. QED
  BY <1>1, <1>2 DEF ResetInv

LEMMA BeginUseKeeps ==
  ASSUME ResetInv, NEW r \in MailRequests, NEW m \in Mails, BeginUse(r, m)
  PROVE  ResetInv'
<1>1. /\ mailPc' = [mailPc EXCEPT ![r] = "use"] /\ mailJob' = [mailJob EXCEPT ![r] = m]
      /\ UNCHANGED <<config, log, attempts, wait, tries, delivered, faults, kind, todo, seen>>
      /\ UNCHANGED <<codes, asker>>
  BY DEF BeginUse, MailGoes, rows, history
<1>2. faults' \in 0 .. MaxFaults
  BY <1>1 DEF ResetInv, MailInv, MailTypeOK
<1>3. QED
  BY <1>1, <1>2, RestKeeps, CodesStay DEF ResetInv

LEMMA FinishUseKeeps ==
  ASSUME ResetInv, NEW r \in MailRequests, FinishUse(r)
  PROVE  ResetInv'
<1>1. MailInv'
  <2>1. /\ Forget(r) /\ mailPc' = [mailPc EXCEPT ![r] = "idle"]
        /\ UNCHANGED <<config, log, attempts, wait, tries, delivered, faults>>
    BY DEF FinishUse, MailGoes, rows, history
  <2>2. faults' \in 0 .. MaxFaults
    BY <2>1 DEF ResetInv, MailInv, MailTypeOK
  <2>3. QED
    BY <2>1, <2>2, RestKeeps DEF ResetInv
<1>2. CodeInv'
  <2>1. mailJob[r] \in Mails /\ UNCHANGED <<owner, asker>>
    BY DEF ResetInv, MailInv, MailTypeOK, FinishUse
  <2>2. CASE Stored(mailJob[r])
    <3>1. used[mailJob[r]] = 0
      BY <2>1, <2>2 DEF ResetInv, CodeInv, FreshUntilGone
    <3>2. used' = [used EXCEPT ![mailJob[r]] = 1] /\ code' = [code EXCEPT ![mailJob[r]] = "gone"]
      BY <2>2, <3>1 DEF FinishUse
    <3>3. QED
      BY <2>1, <3>2 DEF ResetInv, CodeInv, Stored, CodeUsedOnce, FreshUntilGone
  <2>3. CASE ~ Stored(mailJob[r])
    BY <2>1, <2>3, CodesStay DEF FinishUse, ResetInv, codes
  <2>4. QED
    BY <2>2, <2>3
<1>3. QED
  BY <1>1, <1>2 DEF ResetInv

LEMMA ExpireKeeps ==
  ASSUME ResetInv, NEW m \in Mails, Expire(m)
  PROVE  ResetInv'
<1>1. MailInv'
  BY DEF Expire, mailVars, rows, history, sending, ResetInv, MailInv, MailTypeOK, GivesUpLate,
         SentIsDelivered, HoldsRows, CountsFollowTries, TakenBeforeMarked
<1>2. CodeInv'
  BY DEF Expire, ResetInv, CodeInv, Stored, CodeUsedOnce, FreshUntilGone
<1>3. QED
  BY <1>1, <1>2 DEF ResetInv

\* Within the bound there is a row to create.
LEMMA RowIsLeft ==
  ASSUME RowsLeft
  PROVE  Min(Unused) \in Mails
<1>1. Unused # {}
  <2>1. SUFFICES ASSUME Unused = {} PROVE FALSE
    OBVIOUS
  <2>2. Cardinality(Unused) = 0
    BY <2>1, FS_EmptySet
  <2> DEFINE C == {q \in MailRequests : mailPc[q] = "code"}
  <2>3. Cardinality(C) \in Nat
    BY AddressesAssumption, FS_Subset, FS_CardinalityType
  <2>4. QED
    BY <2>2, <2>3 DEF RowsLeft
<1>2. QED
  BY <1>1, FirstRow DEF Unused

LEMMA SendNoticeKeeps ==
  ASSUME ResetInv, NEW r \in MailRequests, RowsLeft, SendNotice(r, Min(Unused)), UNCHANGED <<codes, asker>>
  PROVE  ResetInv'
<1>1. Min(Unused) \in Mails
  BY RowIsLeft
<1>2. MailInv'
  BY <1>1, CreateRowKeeps DEF SendNotice, ResetInv, Kinds
<1>3. QED
  BY <1>2, CodesStay DEF ResetInv

-----------------------------------------------------------------------------
(* What holds of the specification. *)

LEMMA ResetInvConsistent == ResetInv => ResetConsistent
  BY DEF ResetInv, MailInv, CodeInv, ResetConsistent, ResetTypeOK

LEMMA ResetInitInv == ResetInit => ResetInv
<1> SUFFICES ASSUME ResetInit PROVE ResetInv
  OBVIOUS
<1>1. MailTypeOK
  BY MailAssumption, Constants DEF ResetInit, MailInit, MailTypeOK, Kinds, Unread
<1>2. GivesUpLate /\ SentIsDelivered /\ HoldsRows /\ TakenBeforeMarked /\ PcTypeOK
  BY DEF ResetInit, MailInit, GivesUpLate, SentIsDelivered, HoldsRows, TakenBeforeMarked
<1>3. CountsFollowTries
  BY MailAssumption DEF ResetInit, MailInit, CountsFollowTries, Unread
<1>4. CodeInv
  BY Constants DEF ResetInit, CodeInv, CodeUsedOnce, FreshUntilGone
<1>5. QED
  BY <1>1, <1>2, <1>3, <1>4 DEF ResetInv, MailInv

LEMMA NextKeeps == ResetInv /\ [ResetNext]_resetVars => ResetInv'
<1> SUFFICES ASSUME ResetInv, [ResetNext]_resetVars PROVE ResetInv'
  OBVIOUS
<1>1. ASSUME NEW r \in MailRequests, Arrive(r) PROVE ResetInv'
  BY <1>1, SendNoticeKeeps, BeginUseKeeps, BeginResetKeeps DEF Arrive
<1>2. ASSUME NEW r \in MailRequests, Scheduled(r) PROVE ResetInv'
  BY <1>2, RunQueueKeeps, CodesStay DEF Scheduled, ResetInv
<1>3. ASSUME NEW r \in MailRequests, Continue(r) PROVE ResetInv'
  <2>1. CASE SendStep(r) /\ UNCHANGED <<codes, asker>>
    BY <2>1, SendStepKeeps, CodesStay DEF ResetInv
  <2>2. QED
    BY <1>3, <2>1, CreateCodeKeeps, MailCodeKeeps, UndoKeeps, FinishUseKeeps DEF Continue
<1>4. CASE Elsewhere
  <2>1. CASE (Crash \/ Tick) /\ UNCHANGED <<codes, asker>>
    BY <2>1, CrashKeeps, TickKeeps, CodesStay DEF ResetInv
  <2>2. QED
    BY <1>4, <2>1, ExpireKeeps DEF Elsewhere
<1>5. CASE UNCHANGED resetVars
  <2>1. UNCHANGED <<config, log, attempts, wait, tries, delivered, faults, mailPc, kind, todo, seen, mailJob,
                    codes, asker>>
    BY <1>5 DEF resetVars, mailVars, rows, history, sending
  <2>2. MailInv'
    BY <2>1 DEF ResetInv, MailInv, MailTypeOK, GivesUpLate, SentIsDelivered, HoldsRows,
                CountsFollowTries, TakenBeforeMarked
  <2>3. QED
    BY <2>1, <2>2, CodesStay DEF ResetInv
<1>6. QED
  BY <1>1, <1>2, <1>3, <1>4, <1>5 DEF ResetNext

\* Whatever runs of the scheduler and requests overlap, and whatever fails or
\* crashes: a mail is given up only after all its tries, a row says SENT only of
\* a mail the provider has taken, and a code changes one password once.
THEOREM MailIsConsistent == ResetSpec => []ResetConsistent
<1>1. ResetInv /\ [ResetNext]_resetVars => ResetInv'
  BY NextKeeps
<1>2. QED
  BY ResetInitInv, <1>1, ResetInvConsistent, PTL DEF ResetSpec

-----------------------------------------------------------------------------
(* While requests do not overlap *)

\* At most one request is in progress.
ResetSolo == \A q, s \in MailRequests : mailPc[q] # "idle" /\ mailPc[s] # "idle" => q = s

\* A user has one code that can be used.
OneLiveCode ==
  \A m, n \in Mails : code[m] = "live" /\ code[n] = "live" /\ owner[m] = owner[n] => m = n

\* Before a code is created, the codes of its user are gone.
Withdrawn(r) == mailPc[r] = "code" => \A m \in Mails : Stored(m) => owner[m] # asker[r]

\* The rows of a batch are still to be sent; the one being tried is among them.
InBatch(r) ==
  /\ mailPc[r] \in Sending => \A m \in todo[r] : log[m] = "PENDING"
  /\ mailPc[r] \in Trying => mailJob[r] \in todo[r]

\* A mail that was taken is marked SENT, or about to be, and is not tried again.
TakenOnce ==
  Undisturbed =>
    \A m \in Mails :
      \/ delivered[m] = 0
      \/ /\ delivered[m] = 1
         /\ log[m] = "SENT" \/ \E r \in MailRequests : mailPc[r] = "mark" /\ mailJob[r] = m

\* The request is about to mail the code, or to take it back.
AnswersFor(r, m) ==
  /\ owner[m] = asker[r]
  /\ \/ mailPc[r] = "mail" /\ mailJob[r] = m
     \/ mailPc[r] \in Sending /\ kind[r] = "reset" /\ todo[r] = {m}
     \/ mailPc[r] = "undo"

\* A code that can be used has been mailed, or a request answers for it.
CodesAnsweredFor ==
  Undisturbed /\ Enabled =>
    \A m \in Mails : code[m] = "live" => log[m] = "SENT" \/ \E r \in MailRequests : AnswersFor(r, m)

ResetSerialInv ==
  /\ ResetSolo /\ OneLiveCode /\ TakenOnce /\ CodesAnsweredFor
  /\ \A r \in MailRequests : Withdrawn(r) /\ InBatch(r)

\* A step of a run without overlaps: nobody else is in progress.
LEMMA ResetModes ==
  ASSUME ResetInv, ResetSolo, ResetNext, Overlaps!NoteOverlap, ~mailOverlapped'
  PROVE  /\ ResetSolo'
         /\ \/ \E r \in MailRequests :
                 /\ Arrive(r) \/ Scheduled(r) \/ Continue(r)
                 /\ \A q \in MailRequests : q # r => mailPc[q] = "idle" /\ mailPc'[q] = "idle"
            \/ /\ Crash /\ UNCHANGED <<codes, asker>>
               /\ \A q \in MailRequests : mailPc'[q] = "idle"
            \/ /\ Tick /\ UNCHANGED <<codes, asker>>
               /\ \A q \in MailRequests : mailPc[q] = "idle"
            \/ /\ \E m \in Mails : Expire(m)
               /\ \A q \in MailRequests : mailPc[q] = "idle"
<1>1. /\ ~(Cardinality({q \in MailRequests : mailPc'[q] # "idle"}) > 1)
      /\ UNCHANGED mailPc => \A q \in MailRequests : mailPc[q] = "idle"
  BY DEF Overlaps!NoteOverlap, Overlaps!Busy, Overlaps!Cardinality, Cardinality
<1>2. ASSUME NEW r \in MailRequests, \A q \in MailRequests : q # r => mailPc'[q] = mailPc[q] PROVE ResetSolo'
  <2>1. \A a, b \in MailRequests : mailPc'[a] # "idle" /\ mailPc'[b] # "idle" => a = b
    BY <1>1, <1>2, OneMoves DEF ResetSolo
  <2>2. QED
    BY <2>1 DEF ResetSolo
<1>3. ASSUME NEW r \in MailRequests, Arrive(r) \/ Scheduled(r) \/ Continue(r)
      PROVE  ResetSolo' /\ \A q \in MailRequests : q # r => mailPc[q] = "idle" /\ mailPc'[q] = "idle"
  <2> DEFINE Steps == {"idle", "send", "mark", "catch", "code", "mail", "undo", "use"}
  <2>1. \/ mailPc[r] # "idle" /\ \E step \in Steps : mailPc' = [mailPc EXCEPT ![r] = step]
        \/ \E step \in Steps \ {"idle"} : mailPc' = [mailPc EXCEPT ![r] = step]
    BY <1>3 DEF Arrive, SendNotice, CreateRow, BeginUse, BeginReset, Scheduled, RunQueue,
                Continue, SendStep, Transmit, MarkSent, MarkFailed, Onwards, SentNotWritten,
                FailureNotWritten, CreateCode, MailCode, Undo, FinishUse, MailGoes
  <2>2. mailPc \in [MailRequests -> Steps]
    BY DEF ResetInv, MailInv
  <2>3. \A q \in MailRequests : q # r => mailPc'[q] = mailPc[q]
    BY <2>1, <2>2
  <2>4. ResetSolo'
    BY <1>2, <2>3
  <2>5. mailPc[r] # "idle" \/ mailPc'[r] # "idle"
    BY <2>1, <2>2
  <2>6. \A q \in MailRequests : q # r => mailPc[q] = "idle"
    BY <2>3, <2>4, <2>5 DEF ResetSolo
  <2>7. QED
    BY <2>3, <2>4, <2>6
<1>4. ASSUME Crash PROVE ResetSolo' /\ \A q \in MailRequests : mailPc'[q] = "idle"
  BY <1>4 DEF Crash, ResetSolo
<1>5. ASSUME Tick \/ \E m \in Mails : Expire(m) PROVE ResetSolo' /\ \A q \in MailRequests : mailPc[q] = "idle"
  <2>1. UNCHANGED mailPc
    BY <1>5 DEF Tick, Expire
  <2>2. QED
    BY <1>1, <2>1 DEF ResetSolo
<1>6. QED
  BY <1>3, <1>4, <1>5 DEF ResetNext, Elsewhere

\* An idle request has nothing to keep to.
LEMMA OneActs ==
  ASSUME NEW r \in MailRequests, \A q \in MailRequests : q # r => mailPc'[q] = "idle",
         ResetSolo', OneLiveCode', TakenOnce', CodesAnsweredFor', Withdrawn(r)', InBatch(r)'
  PROVE  ResetSerialInv'
BY DEF ResetSerialInv, Withdrawn, InBatch

\* Codes that go leave one at most.
LEMMA FewerCodes ==
  ASSUME OneLiveCode, UNCHANGED owner, \A m \in Mails : code'[m] = "live" => code[m] = "live"
  PROVE  OneLiveCode'
BY DEF OneLiveCode

\* A step that neither tries nor marks a mail.
LEMMA NoneTaken ==
  ASSUME TakenOnce, NEW r \in MailRequests, \A q \in MailRequests : q # r => mailPc[q] = "idle",
         mailPc[r] # "mark", UNCHANGED <<delivered, faults>>,
         \A m \in Mails : log[m] = "SENT" => log'[m] = "SENT"
  PROVE  TakenOnce'
<1> SUFFICES ASSUME faults = 0, NEW m \in Mails
             PROVE  delivered[m] = 0 \/ (delivered[m] = 1 /\ log'[m] = "SENT")
  BY DEF TakenOnce, Undisturbed
<1>1. QED
  BY DEF TakenOnce, Undisturbed

\* A step of r that leaves the codes and what is SENT alone and keeps r
\* answering for the same codes.
LEMMA StillAnswered ==
  ASSUME CodesAnsweredFor, NEW r \in MailRequests, \A q \in MailRequests : q # r => mailPc[q] = "idle",
         UNCHANGED <<config, faults>>,
         \A m \in Mails : code'[m] = "live" => code[m] = "live",
         \A m \in Mails : log[m] = "SENT" => log'[m] = "SENT",
         \A m \in Mails :
           code'[m] = "live" /\ AnswersFor(r, m) => log'[m] = "SENT" \/ AnswersFor(r, m)'
  PROVE  CodesAnsweredFor'
<1> SUFFICES ASSUME faults = 0, Enabled, NEW m \in Mails, code'[m] = "live"
             PROVE  log'[m] = "SENT" \/ \E q \in MailRequests : AnswersFor(q, m)'
  BY DEF CodesAnsweredFor, Undisturbed, Enabled
<1>1. log[m] = "SENT" \/ \E q \in MailRequests : AnswersFor(q, m)
  BY DEF CodesAnsweredFor, Undisturbed
<1>2. \A q \in MailRequests : q # r => ~AnswersFor(q, m)
  BY DEF AnswersFor
<1>3. QED
  BY <1>1, <1>2

\* A failing write or a crash, after which nothing is promised of the mails.
LEMMA Disturbed ==
  ASSUME ResetInv, Fault
  PROVE  TakenOnce' /\ CodesAnsweredFor'
<1>1. faults' # 0
  BY DEF Fault, ResetInv, MailInv, MailTypeOK
<1>2. QED
  BY <1>1 DEF TakenOnce, CodesAnsweredFor, Undisturbed

\* The mails of the serial steps: what is tried next is not SENT yet.
LEMMA SerialTransmit ==
  ASSUME ResetInv, ResetSerialInv, ResetSolo', NEW r \in MailRequests, Transmit(r), UNCHANGED <<codes, asker>>,
         \A q \in MailRequests : q # r => mailPc[q] = "idle" /\ mailPc'[q] = "idle"
  PROVE  ResetSerialInv'
<1> DEFINE n == Min(todo[r])
<1>1. n \in todo[r] /\ n \in Mails /\ mailPc[r] = "send"
  BY FirstRow DEF Transmit, ResetInv, MailInv, MailTypeOK, HoldsRows
<1>2. PICK taken \in BOOLEAN :
        /\ delivered' = [delivered EXCEPT ![n] = IF taken THEN Min({@ + 1, 2}) ELSE @]
        /\ mailJob' = [mailJob EXCEPT ![r] = n]
        /\ mailPc' = [mailPc EXCEPT ![r] = IF taken THEN "mark" ELSE "catch"]
  BY DEF Transmit, MailGoes
<1> HIDE DEF n
<1>3. UNCHANGED <<config, log, faults, kind, todo, code, owner, asker>>
  BY DEF Transmit, rows, codes
<1>4. mailPc'[r] \in Trying /\ (mailPc'[r] = "mark" <=> taken) /\ mailJob'[r] = n
  BY <1>2 DEF ResetInv, MailInv, MailTypeOK
<1>5. log[n] = "PENDING"
  BY <1>1 DEF ResetSerialInv, InBatch
<1>6. InBatch(r)'
  BY <1>1, <1>3, <1>4 DEF ResetSerialInv, InBatch
<1>7. OneLiveCode'
  BY <1>3, FewerCodes DEF ResetSerialInv
<1>8. CodesAnsweredFor'
  <2>1. \A m \in Mails : AnswersFor(r, m) => AnswersFor(r, m)'
    BY <1>1, <1>3, <1>4 DEF AnswersFor
  <2>2. QED
    BY <1>3, <2>1, StillAnswered DEF ResetSerialInv
<1>9. TakenOnce'
  <2> SUFFICES ASSUME faults = 0, NEW m \in Mails
               PROVE  \/ delivered'[m] = 0
                      \/ /\ delivered'[m] = 1
                         /\ log'[m] = "SENT" \/ (mailPc'[r] = "mark" /\ mailJob'[r] = m)
    BY <1>3 DEF TakenOnce, Undisturbed
  <2>1. delivered[m] = 0 \/ (delivered[m] = 1 /\ log[m] = "SENT")
    BY <1>1 DEF ResetSerialInv, TakenOnce, Undisturbed
  <2>2. CASE m = n
    <3>1. delivered[m] = 0
      BY <1>5, <2>1, <2>2
    <3>2. Min({0 + 1, 2}) = 1
      BY Smaller
    <3>3. delivered'[m] = IF taken THEN 1 ELSE 0
      BY <1>2, <2>2, <3>1, <3>2 DEF ResetInv, MailInv, MailTypeOK
    <3>4. QED
      BY <1>4, <2>2, <3>3
  <2>3. CASE m # n
    BY <1>2, <1>3, <2>1, <2>3 DEF ResetInv, MailInv, MailTypeOK
  <2>4. QED
    BY <2>2, <2>3
<1>10. QED
  BY <1>4, <1>6, <1>7, <1>8, <1>9, OneActs DEF Withdrawn

\* What is left of a batch, and what becomes of a reset, once a row is done.
LEMMA SerialOnwards ==
  ASSUME ResetInv, ResetSerialInv, NEW r \in MailRequests, NEW ok \in BOOLEAN, mailPc[r] \in Trying, Onwards(r, ok),
         \A m \in Mails : m # mailJob[r] => log'[m] = log[m]
  PROVE  /\ InBatch(r)' /\ Withdrawn(r)' /\ mailPc'[r] \notin Trying
         /\ \A m \in Mails : kind[r] = "reset" /\ todo[r] = {m} => m = mailJob[r]
         /\ todo[r] = {mailJob[r]} /\ kind[r] = "reset" /\ ~ok => mailPc'[r] = "undo"
<1>0. mailJob[r] \in todo[r] /\ todo[r] \subseteq Mails /\ \A m \in todo[r] : log[m] = "PENDING"
  BY DEF ResetSerialInv, InBatch, ResetInv, MailInv, MailTypeOK
<1>1. CASE todo[r] # {mailJob[r]}
  <2>1. mailPc'[r] = "send" /\ todo'[r] = todo[r] \ {mailJob[r]}
    BY <1>1 DEF Onwards, MailGoes, ResetInv, MailInv, MailTypeOK
  <2>2. InBatch(r)'
    BY <1>0, <2>1 DEF InBatch
  <2>3. QED
    BY <1>0, <1>1, <2>1, <2>2 DEF Withdrawn
<1>2. CASE todo[r] = {mailJob[r]}
  <2>1. mailPc'[r] = IF kind[r] = "reset" /\ ~ok THEN "undo" ELSE "idle"
    BY <1>2 DEF Onwards, MailGoes, ResetInv, MailInv
  <2>2. QED
    BY <1>2, <2>1 DEF InBatch, Withdrawn
<1>3. QED
  BY <1>1, <1>2

LEMMA SerialMarkSent ==
  ASSUME ResetInv, ResetSerialInv, ResetSolo', NEW r \in MailRequests, MarkSent(r), UNCHANGED <<codes, asker>>,
         \A q \in MailRequests : q # r => mailPc[q] = "idle" /\ mailPc'[q] = "idle"
  PROVE  ResetSerialInv'
<1>1. /\ mailPc[r] = "mark" /\ Onwards(r, TRUE)
      /\ log' = [log EXCEPT ![mailJob[r]] = "SENT"]
      /\ UNCHANGED <<config, delivered, faults, code, owner, asker>>
  BY DEF MarkSent, history, codes
<1>2. \A m \in Mails : log'[m] = IF m = mailJob[r] THEN "SENT" ELSE log[m]
  BY <1>1 DEF ResetInv, MailInv, MailTypeOK
<1>3. /\ InBatch(r)' /\ Withdrawn(r)'
      /\ \A m \in Mails : kind[r] = "reset" /\ todo[r] = {m} => m = mailJob[r]
  BY <1>1, <1>2, SerialOnwards
<1>4. OneLiveCode'
  BY <1>1, FewerCodes DEF ResetSerialInv
<1>5. TakenOnce'
  <2> SUFFICES ASSUME faults = 0, NEW m \in Mails
               PROVE  delivered[m] = 0 \/ (delivered[m] = 1 /\ log'[m] = "SENT")
    BY <1>1 DEF TakenOnce, Undisturbed
  <2>1. delivered[m] = 0 \/ (delivered[m] = 1 /\ (log[m] = "SENT" \/ mailJob[r] = m))
    BY DEF ResetSerialInv, TakenOnce, Undisturbed
  <2>2. QED
    BY <1>2, <2>1
<1>6. CodesAnsweredFor'
  <2>1. \A m \in Mails : AnswersFor(r, m) => log'[m] = "SENT"
    BY <1>1, <1>2, <1>3 DEF AnswersFor
  <2>2. QED
    BY <1>1, <1>2, <2>1, StillAnswered DEF ResetSerialInv
<1>7. QED
  BY <1>3, <1>4, <1>5, <1>6, OneActs

LEMMA SerialMarkFailed ==
  ASSUME ResetInv, ResetSerialInv, ResetSolo', NEW r \in MailRequests, MarkFailed(r), UNCHANGED <<codes, asker>>,
         \A q \in MailRequests : q # r => mailPc[q] = "idle" /\ mailPc'[q] = "idle"
  PROVE  ResetSerialInv'
<1>1. PICK result \in {"PENDING", "DEAD"} :
        /\ mailPc[r] = "catch" /\ Onwards(r, FALSE)
        /\ log' = [log EXCEPT ![mailJob[r]] = result]
        /\ UNCHANGED <<config, delivered, faults, code, owner, asker>>
  BY DEF MarkFailed, history, codes
<1>2. \A m \in Mails : m # mailJob[r] => log'[m] = log[m]
  BY <1>1 DEF ResetInv, MailInv, MailTypeOK
<1>3. /\ InBatch(r)' /\ Withdrawn(r)'
      /\ \A m \in Mails : kind[r] = "reset" /\ todo[r] = {m} => m = mailJob[r]
      /\ todo[r] = {mailJob[r]} /\ kind[r] = "reset" => mailPc'[r] = "undo"
  BY <1>1, <1>2, SerialOnwards
<1>4. log[mailJob[r]] = "PENDING"
  BY <1>1 DEF ResetSerialInv, InBatch
<1>5. OneLiveCode'
  BY <1>1, FewerCodes DEF ResetSerialInv
<1>6. TakenOnce'
  BY <1>1, <1>2, <1>4, NoneTaken DEF ResetSerialInv
<1>7. CodesAnsweredFor'
  <2>1. \A m \in Mails : AnswersFor(r, m) => AnswersFor(r, m)'
    BY <1>1, <1>3 DEF AnswersFor
  <2>2. QED
    BY <1>1, <1>2, <1>4, <2>1, StillAnswered DEF ResetSerialInv
<1>8. QED
  BY <1>3, <1>5, <1>6, <1>7, OneActs

\* Writes that fail, and a crash, withdraw no promise about the codes.
LEMMA SerialFaults ==
  ASSUME ResetInv, ResetSerialInv, ResetSolo', UNCHANGED <<codes, asker>>, NEW r \in MailRequests,
         SentNotWritten(r) \/ FailureNotWritten(r) \/ Crash,
         \A q \in MailRequests : q # r => mailPc'[q] = "idle"
  PROVE  ResetSerialInv'
<1>1. TakenOnce' /\ CodesAnsweredFor'
  BY Disturbed DEF SentNotWritten, FailureNotWritten, Crash
<1>2. OneLiveCode'
  BY FewerCodes DEF ResetSerialInv, codes
<1>3. InBatch(r)' /\ Withdrawn(r)'
  <2>1. CASE SentNotWritten(r)
    <3>1. mailPc[r] = "mark" /\ mailPc'[r] = "catch" /\ UNCHANGED <<log, todo, mailJob>>
      BY <2>1 DEF SentNotWritten, MailGoes, ResetInv, MailInv, rows, sending
    <3>2. QED
      BY <3>1 DEF ResetSerialInv, InBatch, Withdrawn
  <2>2. CASE FailureNotWritten(r)
    <3>1. mailPc'[r] \in {"undo", "idle"}
      BY <2>2 DEF FailureNotWritten, MailGoes, ResetInv, MailInv
    <3>2. QED
      BY <3>1 DEF InBatch, Withdrawn
  <2>3. CASE Crash
    BY <2>3 DEF Crash, InBatch, Withdrawn
  <2>4. QED
    BY <2>1, <2>2, <2>3
<1>4. QED
  BY <1>1, <1>2, <1>3, OneActs

\* A row is created for a notice, or for the code it carries.
LEMMA SerialCreateRow ==
  ASSUME ResetInv, ResetSerialInv, ResetSolo', NEW r \in MailRequests, NEW m \in Mails, NEW k \in Kinds,
         CreateRow(r, m, k), UNCHANGED <<codes, asker>>, mailPc[r] \in {"idle", "mail"},
         mailPc[r] = "mail" => m = mailJob[r] /\ k = "reset",
         \A q \in MailRequests : q # r => mailPc[q] = "idle" /\ mailPc'[q] = "idle"
  PROVE  ResetSerialInv'
<1>1. /\ log[m] = "none" /\ log' = [log EXCEPT ![m] = "PENDING"]
      /\ kind'[r] = k /\ todo'[r] = {m} /\ mailPc'[r] = "send"
      /\ UNCHANGED <<config, delivered, faults, code, owner, asker>>
  BY DEF CreateRow, MailGoes, history, codes, ResetInv, MailInv, MailTypeOK
<1>2. \A n \in Mails : log'[n] = IF n = m THEN "PENDING" ELSE log[n]
  BY <1>1 DEF ResetInv, MailInv, MailTypeOK
<1>3. InBatch(r)' /\ Withdrawn(r)'
  BY <1>1, <1>2 DEF InBatch, Withdrawn
<1>4. OneLiveCode'
  BY <1>1, FewerCodes DEF ResetSerialInv
<1>5. TakenOnce'
  BY <1>1, <1>2, NoneTaken DEF ResetSerialInv
<1>6. CodesAnsweredFor'
  <2>1. \A n \in Mails : AnswersFor(r, n) => AnswersFor(r, n)'
    BY <1>1 DEF AnswersFor
  <2>2. QED
    BY <1>1, <1>2, <2>1, StillAnswered DEF ResetSerialInv
<1>7. QED
  BY <1>3, <1>4, <1>5, <1>6, OneActs

\* The scheduler picks the rows that are due while nobody answers for a code.
LEMMA SerialRunQueue ==
  ASSUME ResetInv, ResetSerialInv, ResetSolo', NEW r \in MailRequests, Scheduled(r),
         \A q \in MailRequests : q # r => mailPc[q] = "idle" /\ mailPc'[q] = "idle"
  PROVE  ResetSerialInv'
<1>1. /\ mailPc[r] = "idle" /\ mailPc'[r] = "send"
      /\ todo'[r] = {m \in Mails : Due(m)}
      /\ UNCHANGED <<config, log, delivered, faults, code, owner, asker>>
  BY DEF Scheduled, RunQueue, MailGoes, rows, history, codes, ResetInv, MailInv, MailTypeOK
<1>2. InBatch(r)' /\ Withdrawn(r)'
  BY <1>1 DEF InBatch, Withdrawn, Due
<1>3. OneLiveCode'
  BY <1>1, FewerCodes DEF ResetSerialInv
<1>4. TakenOnce'
  BY <1>1, NoneTaken DEF ResetSerialInv
<1>5. CodesAnsweredFor'
  <2>1. \A m \in Mails : ~AnswersFor(r, m)
    BY <1>1 DEF AnswersFor
  <2>2. QED
    BY <1>1, <2>1, StillAnswered DEF ResetSerialInv
<1>6. QED
  BY <1>2, <1>3, <1>4, <1>5, OneActs

\* The codes of a user are deleted, before a new one is created and after the
\* mail of one has failed.
LEMMA SerialWithdraw ==
  ASSUME ResetInv, ResetSerialInv, ResetSolo', NEW r \in MailRequests,
         Undo(r) \/ \E u \in Addresses : BeginReset(r, u),
         \A q \in MailRequests : q # r => mailPc[q] = "idle" /\ mailPc'[q] = "idle"
  PROVE  ResetSerialInv'
<1>1. PICK u \in Addresses :
        /\ code' = Without(u)
        /\ UNCHANGED <<config, log, delivered, faults, owner>>
        /\ asker'[r] = u /\ mailPc[r] \in {"idle", "undo"}
        /\ mailPc[r] = "undo" => u = asker[r] /\ mailPc'[r] = "idle"
        /\ mailPc[r] = "idle" => mailPc'[r] = "code"
  <2>1. CASE Undo(r)
    <3>1. asker[r] \in Addresses
      BY DEF ResetInv, CodeInv
    <3>2. QED
      BY <2>1, <3>1 DEF Undo, MailGoes, mailVars, rows, history, ResetInv, MailInv
  <2>2. ASSUME NEW u \in Addresses, BeginReset(r, u)
        PROVE  /\ code' = Without(u)
               /\ UNCHANGED <<config, log, delivered, faults, owner>>
               /\ asker'[r] = u /\ mailPc[r] = "idle" /\ mailPc'[r] = "code"
    BY <2>2 DEF BeginReset, MailGoes, mailVars, rows, history, ResetInv, MailInv, CodeInv
  <2>3. QED
    BY <2>1, <2>2
<1>2. \A m \in Mails :
        code'[m] = IF Stored(m) /\ owner[m] = u THEN "gone" ELSE code[m]
  BY <1>1 DEF Without
<1>3. \A m \in Mails : code'[m] \in {"live", "expired"} => Stored(m) /\ owner[m] # u
  BY <1>2 DEF Stored
<1>4. Withdrawn(r)' /\ InBatch(r)'
  BY <1>1, <1>3 DEF Withdrawn, InBatch, Stored
<1>5. OneLiveCode'
  BY <1>1, <1>2, FewerCodes DEF ResetSerialInv
<1>6. TakenOnce'
  BY <1>1, NoneTaken DEF ResetSerialInv
<1>7. CodesAnsweredFor'
  <2>1. \A m \in Mails : code'[m] = "live" => ~AnswersFor(r, m)
    BY <1>1, <1>3 DEF AnswersFor
  <2>2. QED
    BY <1>1, <1>2, <2>1, StillAnswered DEF ResetSerialInv
<1>8. QED
  BY <1>4, <1>5, <1>6, <1>7, OneActs

\* The new code is the only one of its user.
LEMMA SerialCreateCode ==
  ASSUME ResetInv, ResetSerialInv, ResetSolo', NEW r \in MailRequests, CreateCode(r),
         \A q \in MailRequests : q # r => mailPc[q] = "idle" /\ mailPc'[q] = "idle"
  PROVE  ResetSerialInv'
<1> DEFINE n == Min(Unused)
<1>1. n \in Mails
  <2>1. Unused \in SUBSET Mails /\ Unused # {}
    BY DEF CreateCode, Unused
  <2>2. QED
    BY <2>1, FirstRow DEF Unused
<1>2. /\ mailPc[r] = "code" /\ mailPc'[r] = "mail"
      /\ code' = [code EXCEPT ![n] = "live"] /\ owner' = [owner EXCEPT ![n] = asker[r]]
      /\ mailJob'[r] = n
      /\ UNCHANGED <<config, log, delivered, faults, asker>>
  BY DEF CreateCode, MailGoes, rows, history, ResetInv, MailInv, MailTypeOK
<1> HIDE DEF n
<1>3. \A m \in Mails : /\ code'[m] = IF m = n THEN "live" ELSE code[m]
                       /\ owner'[m] = IF m = n THEN asker[r] ELSE owner[m]
  BY <1>1, <1>2 DEF ResetInv, CodeInv
<1>4. \A m \in Mails : code[m] = "live" => owner[m] # asker[r]
  BY <1>2 DEF ResetSerialInv, Withdrawn, Stored
<1>5. OneLiveCode'
  BY <1>3, <1>4 DEF ResetSerialInv, OneLiveCode
<1>6. TakenOnce'
  BY <1>2, NoneTaken DEF ResetSerialInv
<1>7. CodesAnsweredFor'
  <2> SUFFICES ASSUME faults = 0, Enabled, NEW m \in Mails, code'[m] = "live"
               PROVE  log[m] = "SENT" \/ AnswersFor(r, m)'
    BY <1>2 DEF CodesAnsweredFor, Undisturbed, Enabled
  <2>1. CASE m = n
    BY <1>2, <1>3, <2>1 DEF AnswersFor
  <2>2. CASE m # n
    <3>1. log[m] = "SENT" \/ \E q \in MailRequests : AnswersFor(q, m)
      BY <1>3, <2>2 DEF ResetSerialInv, CodesAnsweredFor, Undisturbed
    <3>2. \A q \in MailRequests : ~AnswersFor(q, m)
      BY <1>2 DEF AnswersFor
    <3>3. QED
      BY <3>1, <3>2
  <2>3. QED
    BY <2>1, <2>2
<1>8. QED
  BY <1>2, <1>5, <1>6, <1>7, OneActs DEF Withdrawn, InBatch

\* A code is used, or mail is switched off.
LEMMA SerialRest ==
  ASSUME ResetInv, ResetSerialInv, ResetSolo', NEW r \in MailRequests,
         \/ MailCode(r) /\ ~Enabled
         \/ FinishUse(r)
         \/ \E m \in Mails : BeginUse(r, m),
         \A q \in MailRequests : q # r => mailPc[q] = "idle" /\ mailPc'[q] = "idle"
  PROVE  ResetSerialInv'
<1>1. /\ mailPc[r] \in {"mail", "use", "idle"} /\ mailPc'[r] \in {"use", "idle"}
      /\ mailPc[r] = "mail" => ~Enabled
      /\ UNCHANGED <<config, log, delivered, faults, owner>>
  BY DEF MailCode, FinishUse, BeginUse, MailGoes, rows, history, codes, ResetInv, MailInv
<1>2. \A m \in Mails : code'[m] = "live" => code[m] = "live"
  BY DEF MailCode, FinishUse, BeginUse, codes, ResetInv, CodeInv
<1>3. Withdrawn(r)' /\ InBatch(r)'
  BY <1>1 DEF Withdrawn, InBatch
<1>4. OneLiveCode'
  BY <1>1, <1>2, FewerCodes DEF ResetSerialInv
<1>5. TakenOnce'
  BY <1>1, NoneTaken DEF ResetSerialInv
<1>6. CodesAnsweredFor'
  <2>1. CASE Enabled
    <3>1. \A m \in Mails : ~AnswersFor(r, m)
      BY <1>1, <2>1 DEF AnswersFor
    <3>2. QED
      BY <1>1, <1>2, <3>1, StillAnswered DEF ResetSerialInv
  <2>2. CASE ~Enabled
    BY <1>1, <2>2 DEF CodesAnsweredFor, Enabled
  <2>3. QED
    BY <2>1, <2>2
<1>7. QED
  BY <1>3, <1>4, <1>5, <1>6, OneActs

\* Time passes while everybody is idle.
LEMMA SerialTime ==
  ASSUME ResetInv, ResetSerialInv, ResetSolo',
         \/ Tick /\ UNCHANGED <<codes, asker>>
         \/ \E m \in Mails : Expire(m),
         \A q \in MailRequests : mailPc[q] = "idle"
  PROVE  ResetSerialInv'
<1>1. /\ UNCHANGED <<config, log, delivered, faults, owner, mailPc>>
      /\ \A m \in Mails : code'[m] = "live" => code[m] = "live"
  BY DEF Tick, Expire, codes, mailVars, rows, history, ResetInv, CodeInv
<1>2. OneLiveCode'
  BY <1>1, FewerCodes DEF ResetSerialInv
<1>3. TakenOnce'
  BY <1>1 DEF ResetSerialInv, TakenOnce, Undisturbed
<1>4. CodesAnsweredFor'
  BY <1>1 DEF ResetSerialInv, CodesAnsweredFor, Undisturbed, Enabled, AnswersFor
<1>5. \A q \in MailRequests : Withdrawn(q)' /\ InBatch(q)'
  BY <1>1 DEF Withdrawn, InBatch
<1>6. QED
  BY <1>2, <1>3, <1>4, <1>5 DEF ResetSerialInv

LEMMA ResetSerialStep ==
  ASSUME ResetInv, ResetSerialInv, ResetNext, Overlaps!NoteOverlap, ~mailOverlapped'
  PROVE  ResetSerialInv'
<1>0. ResetSolo
  BY DEF ResetSerialInv
<1>1. ASSUME NEW r \in MailRequests, Arrive(r) \/ Scheduled(r) \/ Continue(r),
             ResetSolo', \A q \in MailRequests : q # r => mailPc[q] = "idle" /\ mailPc'[q] = "idle"
      PROVE  ResetSerialInv'
  <2>1. CASE RowsLeft /\ SendNotice(r, Min(Unused)) /\ UNCHANGED <<codes, asker>>
    <3>1. Min(Unused) \in Mails
      BY <2>1, RowIsLeft
    <3>2. QED
      BY <1>1, <2>1, <3>1, SerialCreateRow DEF SendNotice, Kinds
  <2>2. CASE SendStep(r) /\ UNCHANGED <<codes, asker>>
    BY <1>1, <2>2, SerialTransmit, SerialMarkSent, SerialMarkFailed, SerialFaults DEF SendStep
  <2>3. CASE MailCode(r)
    <3>1. CASE Enabled
      <4>1. mailJob[r] \in Mails /\ mailPc[r] = "mail"
        BY <2>3 DEF MailCode, ResetInv, MailInv, MailTypeOK
      <4>2. QED
        BY <1>1, <2>3, <3>1, <4>1, SerialCreateRow DEF MailCode, Kinds
    <3>2. CASE ~Enabled
      BY <1>1, <2>3, <3>2, SerialRest
    <3>3. QED
      BY <3>1, <3>2
  <2>4. QED
    BY <1>1, <2>1, <2>2, <2>3, SerialRunQueue, SerialWithdraw, SerialCreateCode, SerialRest
    DEF Arrive, Continue
<1>2. ASSUME Crash, UNCHANGED <<codes, asker>>, ResetSolo', \A q \in MailRequests : mailPc'[q] = "idle"
      PROVE  ResetSerialInv'
  <2>1. PICK r \in MailRequests : mailPc[r] # "idle"
    BY <1>2 DEF Crash
  <2>2. QED
    BY <1>2, <2>1, SerialFaults
<1>3. QED
  BY <1>0, <1>1, <1>2, ResetModes, SerialTime

\* Without the history: any interleaving; with it: what holds while nobody overlaps.
ResetFullInv == ResetInv /\ (mailOverlapped \/ ResetSerialInv)

LEMMA ResetFullInit == ResetHistoryInit => ResetFullInv
<1> SUFFICES ASSUME ResetHistoryInit PROVE ResetFullInv
  OBVIOUS
<1>1. ResetInv
  BY ResetInitInv DEF ResetHistoryInit
<1>2. /\ \A r \in MailRequests : mailPc[r] = "idle"
      /\ \A m \in Mails : code[m] = "none" /\ delivered[m] = 0
  BY DEF ResetHistoryInit, ResetInit, MailInit, Unread
<1>3. ResetSerialInv
  BY <1>2 DEF ResetSerialInv, ResetSolo, OneLiveCode, TakenOnce, CodesAnsweredFor, Withdrawn, InBatch
<1>4. QED
  BY <1>1, <1>3 DEF ResetFullInv

LEMMA ResetFullStep == ResetFullInv /\ [ResetHistoryNext]_<<resetVars, mailOverlapped>> => ResetFullInv'
<1> SUFFICES ASSUME ResetFullInv, [ResetHistoryNext]_<<resetVars, mailOverlapped>> PROVE ResetFullInv'
  OBVIOUS
<1>1. [ResetNext]_resetVars
  BY DEF ResetHistoryNext
<1>2. ResetInv'
  BY <1>1, NextKeeps DEF ResetFullInv
<1>3. CASE ResetHistoryNext
  <2>1. mailOverlapped => mailOverlapped'
    BY <1>3 DEF ResetHistoryNext, Overlaps!NoteOverlap
  <2>2. ASSUME ResetSerialInv, ~mailOverlapped' PROVE ResetSerialInv'
    BY <1>3, <2>2, ResetSerialStep DEF ResetFullInv, ResetHistoryNext
  <2>3. QED
    BY <1>2, <2>1, <2>2 DEF ResetFullInv
<1>4. CASE UNCHANGED <<resetVars, mailOverlapped>>
  <2>1. ResetSerialInv => ResetSerialInv'
    <3>1. UNCHANGED <<config, log, delivered, faults, mailPc, kind, todo, mailJob, code, owner, asker>>
      BY <1>4 DEF resetVars, mailVars, rows, history, sending, codes
    <3>2. QED
      BY <3>1 DEF ResetSerialInv, ResetSolo, OneLiveCode, TakenOnce, CodesAnsweredFor, Withdrawn, InBatch,
                  Undisturbed, Enabled, AnswersFor, Stored
  <2>2. QED
    BY <1>2, <1>4, <2>1 DEF ResetFullInv
<1>5. QED
  BY <1>3, <1>4

LEMMA FullImplies == ResetFullInv => LiveCodesAreMailed
<1> SUFFICES ASSUME ResetInv, ResetSerialInv
             PROVE  /\ OneLiveCode
                    /\ Undisturbed =>
                         /\ \A m \in Mails : delivered[m] <= 1
                         /\ Enabled /\ (\A r \in MailRequests : mailPc[r] = "idle") =>
                              \A m \in Mails : code[m] = "live" => log[m] = "SENT"
  BY DEF ResetFullInv, LiveCodesAreMailed, Overlaps!Alone, OneLiveCode
<1>1. OneLiveCode
  BY DEF ResetSerialInv
<1>2. Undisturbed => \A m \in Mails : delivered[m] <= 1
  BY DEF ResetSerialInv, TakenOnce
<1>3. ASSUME Undisturbed, Enabled, \A r \in MailRequests : mailPc[r] = "idle",
             NEW m \in Mails, code[m] = "live"
      PROVE  log[m] = "SENT"
  BY <1>3 DEF ResetSerialInv, CodesAnsweredFor, AnswersFor
<1>4. QED
  BY <1>1, <1>2, <1>3

\* As long as nothing overlaps, a user has one code that can be used; and as
\* long as nothing fails either, no mail goes out twice, and a code can be used
\* only after its mail was sent: the request that created it has mailed it, or
\* has taken it back (requestPasswordReset).
THEOREM ResetCodesAreMailed == ResetHistorySpec => []LiveCodesAreMailed
<1>1. QED
  BY ResetFullInit, ResetFullStep, FullImplies, PTL DEF ResetHistorySpec
=============================================================================
