----------------------------- MODULE Admission ------------------------------
(***************************************************************************)
(* Whether a tenant's requests are served: authenticate.js asks the        *)
(* database whether the tenant is suspended, tenantScope.js and            *)
(* subscription.js ask caches of their own.  Administrators of the         *)
(* platform change the row of a tenant and, in superAdmin.service.js but   *)
(* not in tenant.service.js, then clear one of the caches; every midnight  *)
(* the scheduler marks the licences that have run out.                     *)
(***************************************************************************)
EXTENDS Integers, FiniteSets

CONSTANTS
  Tenants,
  Starts,          \* rows of the tenants to begin with
  Columns,         \* what updateTenant and setSubscription are given
  Desks, Clients,  \* requests of administrators; requests of tenants' users
  cron,            \* the scheduler
  MaxDay,          \* bound on days
  MaxChanges       \* bound on changes by administrators

Visits == Desks \cup Clients \cup {cron}
None == "none"
Days == 0..MaxDay
Lifetime == MaxDay + 1  \* no licenseEndDate

VARIABLES
  row,          \* per tenant: the row of tenants
  plan, scope,  \* the caches of subscription.js and of tenantScope.js
  now,          \* the day
  quiet,        \* tenants changed without clearing an entry of plan that is still there
  changes,      \* changes so far
  pc, job       \* per request

caches == <<plan, scope>>
admissionVars == <<row, plan, scope, now, quiet, changes, pc, job>>

\* branches: hasBranches is false, or maxBranches is 1, or there is no limit.
\* expired: subStatus is EXPIRED.  end: licenseEndDate.
Row == [there : BOOLEAN, parent : Tenants \cup {None}, branches : {"no", "one", "many"},
        suspended : BOOLEAN, active : BOOLEAN, expired : BOOLEAN, end : Days \cup {Lifetime}]

Uncreated == [there |-> FALSE, parent |-> None, branches |-> "no", suspended |-> FALSE,
              active |-> FALSE, expired |-> FALSE, end |-> Lifetime]
Created(p, b) == [there |-> TRUE, parent |-> p, branches |-> b, suspended |-> FALSE,
                  active |-> TRUE, expired |-> FALSE, end |-> Lifetime]

\* Rows as the schema has them.
Rows == {rows \in [Tenants -> Row] : \A t \in Tenants : ~rows[t].there => rows[t] = Uncreated}

\* Hotels are below organizations that may have branches, and nothing is below
\* a hotel.
OnTwoLevels(rows) ==
  \A t \in Tenants :
    rows[t].there /\ rows[t].parent # None =>
      /\ rows[t].branches = "no" /\ ~\E x \in Tenants : rows[x].there /\ rows[x].parent = t
      /\ rows[rows[t].parent].there /\ rows[rows[t].parent].branches # "no"

\* What is written to a row is part of one; no request can tell that a row is there.
Given(data) ==
  /\ "there" \notin DOMAIN data
  /\ DOMAIN data \subseteq DOMAIN Uncreated
  /\ \E x \in Row : \A k \in DOMAIN data : data[k] = x[k]

ASSUME AdmissionAssumption ==
  /\ None \notin Tenants /\ cron \notin Desks \cup Clients /\ Desks \cap Clients = {}
  /\ MaxDay \in Nat /\ MaxChanges \in Nat
  /\ \A rows \in Starts : rows \in Rows /\ OnTwoLevels(rows)
  /\ \A data \in Columns : Given(data)

\* data: the columns an administrator writes, on which tenants; clears:
\* whether the cache of plans is cleared.  from, to: the tenant of a session
\* and the tenant it asks about; own, above: the rows found for it.
NoData == [x \in {} |-> TRUE]
Change(on, data, clears) ==
  [data |-> data, on |-> on, clears |-> clears,
   from |-> None, to |-> None, own |-> Uncreated, above |-> Uncreated]
Visit(from, to) ==
  [data |-> NoData, on |-> {}, clears |-> FALSE,
   from |-> from, to |-> to, own |-> Uncreated, above |-> Uncreated]
NoJob == Visit(None, None)

Steps == {"idle", "write", "clear", "scope", "keep scope", "plan", "keep plan", "above",
          "keep above", "decide", "admitted", "refused"}

AdmissionTypeOK ==
  /\ row \in Rows
  /\ plan \in [Tenants -> Row] /\ scope \in [Tenants -> {None, "open", "closed"}]
  /\ now \in Days /\ changes \in 0..MaxChanges
  /\ quiet \subseteq {t \in Tenants : plan[t] # Uncreated}
  /\ pc \in [Visits -> Steps]
  /\ \A r \in Visits : job[r].on \subseteq Tenants /\ job[r].own \in Row /\ job[r].above \in Row

AdmissionInit ==
  /\ row \in Starts
  /\ plan = [t \in Tenants |-> Uncreated]  \* nothing is cached
  /\ scope = [t \in Tenants |-> None]
  /\ now = 0
  /\ quiet = {}
  /\ changes = 0
  /\ pc = [r \in Visits |-> "idle"]
  /\ job = [r \in Visits |-> NoJob]

Goes(r, step) == pc' = [pc EXCEPT ![r] = step]
Done(r) == Goes(r, "idle") /\ job' = [job EXCEPT ![r] = NoJob]

Children(t) == {x \in Tenants : row[x].there /\ row[x].parent = t}

\* What x says, and what y says of the rest.
Over(x, y) == [k \in DOMAIN x \cup DOMAIN y |-> IF k \in DOMAIN x THEN x[k] ELSE y[k]]

-----------------------------------------------------------------------------
(* Administrators: data is put together from what is read, then written,   *)
(* then the cache is cleared.                                              *)

Prepare(r, on, data, clears) ==
  /\ pc[r] = "idle" /\ changes < MaxChanges
  /\ job' = [job EXCEPT ![r] = Change(on, data, clears)]
  /\ Goes(r, "write")
  /\ UNCHANGED <<row, caches, now, quiet, changes>>

\* Room for one more child below p, t aside.
MayAdopt(p, t) ==
  /\ row[p].there /\ row[p].branches # "no"
  /\ row[p].branches = "one" => Children(p) \ {t} = {}

\* createTenant of superAdmin.service.js
CreateTenant(r, t, p, b) ==
  /\ ~row[t].there
  /\ p # None => b = "no" /\ MayAdopt(p, t)
  /\ Prepare(r, {t}, Created(p, b), FALSE)

\* Mutant: an organization with hotels may become a hotel.
MayMoveAnyone(t, p) == p # row[t].parent /\ p # None => p # t /\ MayAdopt(p, t)

\* A tenant moves below another one.
MayMove(t, p) ==
  p # row[t].parent /\ p # None => p # t /\ MayAdopt(p, t) /\ Children(t) = {}

\* A child has no branches, whatever it was given.
UpdateTenant(r, t, data) ==
  LET parent == IF "parent" \in DOMAIN data THEN data.parent ELSE row[t].parent
      given == data.branches = "no" /\ row[t].branches # "no"
  IN  /\ row[t].there
      /\ "branches" \in DOMAIN data /\ given => Children(t) = {}
      /\ "parent" \in DOMAIN data => MayMove(t, parent)
      /\ Prepare(r, {t}, IF parent # None THEN Over([branches |-> "no"], data) ELSE data, TRUE)

ActivateTenant(r, t) ==
  row[t].there /\ Prepare(r, {t}, [suspended |-> FALSE, active |-> TRUE], TRUE)

SuspendTenant(r, t) ==
  row[t].there /\ Prepare(r, {t}, [suspended |-> TRUE], TRUE)

\* Whatever else is given, the tenant is active afterwards.
SetSubscription(r, t, data) ==
  /\ row[t].there /\ DOMAIN data \subseteq {"expired", "end"}
  /\ "end" \in DOMAIN data => data.end # Lifetime
  /\ Prepare(r, {t}, Over([active |-> TRUE], data), TRUE)

\* tenant.service.js
ToggleTenantStatus(r, t) ==
  row[t].there /\ Prepare(r, {t}, [active |-> ~row[t].active], FALSE)

SuspendOrganization(r, t) ==
  /\ row[t].there /\ row[t].parent = None
  /\ Prepare(r, {t}, [suspended |-> TRUE], FALSE)

With(on, data) == [t \in Tenants |-> IF t \in on THEN Over(data, row[t]) ELSE row[t]]

Write(r) ==
  LET j == job[r]
  IN  /\ pc[r] = "write" /\ (r # cron => changes < MaxChanges)
      /\ row' = With(j.on, j.data)
      /\ changes' = IF r = cron THEN changes ELSE changes + 1
      /\ IF j.clears
         THEN Goes(r, "clear") /\ UNCHANGED <<job, quiet>>
         ELSE Done(r) /\ quiet' = quiet \cup {t \in j.on : plan[t] # Uncreated}
      /\ UNCHANGED <<caches, now>>

Uncache(on) ==
  /\ plan' = [t \in Tenants |-> IF t \in on THEN Uncreated ELSE plan[t]]
  /\ quiet' = quiet \ on

\* invalidateTenantCache of subscription.js
Clear(r) ==
  /\ pc[r] = "clear"
  /\ Uncache(job[r].on)
  /\ Done(r)
  /\ UNCHANGED <<row, scope, now, changes>>

Due == {t \in Tenants : row[t].end < now /\ ~row[t].expired}

\* The scheduler, at midnight.
ExpireLicences ==
  /\ pc[cron] = "idle" /\ Due # {}
  /\ job' = [job EXCEPT ![cron] = Change(Due, [expired |-> TRUE], TRUE)]
  /\ Goes(cron, "write")
  /\ UNCHANGED <<row, caches, now, quiet, changes>>

-----------------------------------------------------------------------------
(* A request of a user of tenant from, who may be the manager of an         *)
(* organization and ask about its hotel.                                    *)

\* getTenantSuspensionFromTokenContext: the tenant and its parent as they are.
Refused(t) ==
  \/ row[t].suspended
  \/ row[t].parent # None /\ (row[row[t].parent].suspended \/ ~row[row[t].parent].active)

Authenticate(r, from, to) ==
  /\ pc[r] = "idle"
  /\ row[from].there /\ (to = from \/ (row[to].there /\ row[to].parent = from))
  /\ job' = [job EXCEPT ![r] = Visit(from, to)]
  /\ Goes(r, IF Refused(from) THEN "refused" ELSE "scope")
  /\ UNCHANGED <<row, caches, now, quiet, changes>>

\* enforcetenantScope
LookScope(r) ==
  LET t == job[r].to
  IN  /\ pc[r] = "scope"
      /\ \/ scope[t] # None /\ Goes(r, IF scope[t] = "open" THEN "plan" ELSE "refused") /\ UNCHANGED job
         \/ /\ scope[t] = None
            /\ job' = [job EXCEPT ![r].own = row[t]]
            /\ Goes(r, "keep scope")
      /\ UNCHANGED <<row, caches, now, quiet, changes>>

KeepScope(r) ==
  LET j == job[r]
  IN  /\ pc[r] = "keep scope"
      /\ scope' = [scope EXCEPT ![j.to] = IF j.own.active THEN "open" ELSE "closed"]
      /\ Goes(r, IF j.own.active THEN "plan" ELSE "refused")
      /\ job' = [job EXCEPT ![r].own = Uncreated]
      /\ UNCHANGED <<row, plan, now, quiet, changes>>

\* enforceSubscription: getCachedTenantInfo, for the tenant and its parent.
Afterwards(own) ==
  IF own.suspended THEN "refused" ELSE IF own.parent # None THEN "above" ELSE "decide"

LookPlan(r) ==
  LET t == job[r].to
  IN  /\ pc[r] = "plan"
      /\ IF plan[t] # Uncreated
         THEN job' = [job EXCEPT ![r].own = plan[t]] /\ Goes(r, Afterwards(plan[t]))
         ELSE job' = [job EXCEPT ![r].own = row[t]] /\ Goes(r, "keep plan")
      /\ UNCHANGED <<row, caches, now, quiet, changes>>

KeepPlan(r) ==
  LET j == job[r]
  IN  /\ pc[r] = "keep plan"
      /\ plan' = [plan EXCEPT ![j.to] = j.own]
      /\ quiet' = IF j.own = row[j.to] THEN quiet \ {j.to} ELSE quiet
      /\ Goes(r, Afterwards(j.own))
      /\ UNCHANGED <<row, scope, now, changes, job>>

LookAbove(r) ==
  LET p == job[r].own.parent
  IN  /\ pc[r] = "above"
      /\ IF plan[p] # Uncreated
         THEN job' = [job EXCEPT ![r].above = plan[p]] /\ Goes(r, "decide")
         ELSE job' = [job EXCEPT ![r].above = row[p]] /\ Goes(r, "keep above")
      /\ UNCHANGED <<row, caches, now, quiet, changes>>

KeepAbove(r) ==
  LET j == job[r]
      p == j.own.parent
  IN  /\ pc[r] = "keep above"
      /\ plan' = [plan EXCEPT ![p] = j.above]
      /\ quiet' = IF j.above = row[p] THEN quiet \ {p} ELSE quiet
      /\ Goes(r, "decide")
      /\ UNCHANGED <<row, scope, now, changes, job>>

\* isTenantSubscriptionExpired
RunOut(x) == x.expired \/ x.end < now

\* Mutant: the date is left to the scheduler.
DecideByStatus(r) ==
  LET j == job[r]
      above == j.own.parent # None /\ (j.above.suspended \/ ~j.above.active)
  IN  /\ pc[r] = "decide"
      /\ Goes(r, IF above \/ ~j.own.active \/ j.own.expired THEN "refused" ELSE "admitted")
      /\ job' = [job EXCEPT ![r] = Visit(j.from, j.to)]
      /\ UNCHANGED <<row, caches, now, quiet, changes>>

Decide(r) ==
  LET j == job[r]
      above == j.own.parent # None /\ (j.above.suspended \/ ~j.above.active)
  IN  /\ pc[r] = "decide"
      /\ Goes(r, IF above \/ ~j.own.active \/ RunOut(j.own) THEN "refused" ELSE "admitted")
      /\ job' = [job EXCEPT ![r] = Visit(j.from, j.to)]
      /\ UNCHANGED <<row, caches, now, quiet, changes>>

Answer(r) ==
  /\ pc[r] \in {"admitted", "refused"}
  /\ Done(r)
  /\ UNCHANGED <<row, caches, now, quiet, changes>>

-----------------------------------------------------------------------------
\* Mutant: entries have no age.
LapsePlanNever(t) == FALSE /\ Uncache({t})

\* An entry of plan is used for a minute, one of scope for five.
LapsePlan(t) ==
  /\ plan[t] # Uncreated
  /\ Uncache({t})
  /\ UNCHANGED <<row, scope, now, changes, pc, job>>

LapseScope(t) ==
  /\ scope[t] # None
  /\ scope' = [scope EXCEPT ![t] = None]
  /\ UNCHANGED <<row, plan, now, quiet, changes, pc, job>>

NextDay ==
  /\ now < MaxDay
  /\ now' = now + 1
  /\ UNCHANGED <<row, caches, quiet, changes, pc, job>>

\* The server stops and starts again with empty caches.
Restart ==
  /\ plan' = [t \in Tenants |-> Uncreated]
  /\ scope' = [t \in Tenants |-> None]
  /\ quiet' = {}
  /\ pc' = [r \in Visits |-> "idle"]
  /\ job' = [r \in Visits |-> NoJob]
  /\ UNCHANGED <<row, now, changes>>

Administer(r) ==
  \/ \E t \in Tenants :
       \/ \E p \in Tenants \cup {None}, b \in {"no", "many"} : CreateTenant(r, t, p, b)
       \/ \E data \in Columns : UpdateTenant(r, t, data) \/ SetSubscription(r, t, data)
       \/ ActivateTenant(r, t) \/ SuspendTenant(r, t)
       \/ ToggleTenantStatus(r, t) \/ SuspendOrganization(r, t)
  \/ Write(r) \/ Clear(r)

Continue(r) ==
  \/ LookScope(r) \/ KeepScope(r) \/ LookPlan(r) \/ KeepPlan(r)
  \/ LookAbove(r) \/ KeepAbove(r) \/ Decide(r) \/ Answer(r)

Expire == ExpireLicences \/ Write(cron) \/ Clear(cron)

Elsewhere == NextDay \/ Restart \/ \E t \in Tenants : LapsePlan(t) \/ LapseScope(t)

AdmissionNext ==
  \/ \E r \in Desks : Administer(r)
  \/ \E r \in Clients : Continue(r) \/ \E from, to \in Tenants : Authenticate(r, from, to)
  \/ Expire
  \/ Elsewhere

\* Handlers run on, and entries of the caches grow old.
Fairness ==
  /\ \A r \in Clients : WF_admissionVars(Continue(r))
  /\ \A t \in Tenants : WF_admissionVars(LapsePlan(t)) /\ WF_admissionVars(LapseScope(t))

-----------------------------------------------------------------------------
(* What admission must keep. *)

VARIABLE admissionOverlapped

Overlaps == INSTANCE Overlap WITH Requests <- Visits, overlapped <- admissionOverlapped

AdmissionHistoryInit == AdmissionInit /\ admissionOverlapped = FALSE
AdmissionHistoryNext == AdmissionNext /\ Overlaps!NoteOverlap
AdmissionHistorySpec == AdmissionHistoryInit /\ [][AdmissionHistoryNext]_<<admissionVars, admissionOverlapped>>

\* The parent of t, or t itself.
Above(t) == IF row[t].parent = None THEN t ELSE row[t].parent

\* Reasons for which a request about t is refused.
Blocked(t) == Refused(t) \/ ~row[t].active \/ RunOut(row[t])

Unannounced(t) == {t, Above(t)} \cap quiet # {}

\* While requests do not overlap, hotels are below organizations that may have
\* branches, and nothing is below a hotel.
TwoLevels == Overlaps!Alone(OnTwoLevels(row))

\* The rows are as the schema has them, and on two levels.
AdmissionConsistent == AdmissionTypeOK /\ TwoLevels

\* While no two requests overlap, nothing is served for a tenant that is
\* suspended, closed or out of its licence, or whose organization is, and
\* nothing is refused that could be served: a change takes effect with the next
\* request ("Invalidate subscription cache so changes take effect immediately",
\* superAdmin.service.js:1076).  But for the minute after a change of
\* tenant.service.js, which clears no cache, and for the entry of
\* tenantScope.js, which nothing clears.
AnswersAreCurrent ==
  [][Overlaps!Alone(\A r \in Clients :
       /\ pc[r] = "decide" /\ pc'[r] = "admitted"
          => ~Blocked(job[r].to) \/ Unannounced(job[r].to)
       /\ pc[r] # "refused" /\ pc'[r] = "refused"
          => \/ \E t \in {job'[r].from, job'[r].to} : Blocked(t)
             \/ scope[job[r].to] = "closed" \/ Unannounced(job'[r].to))]_admissionVars

\* What holds of a tenant from some time on is what its requests are served
\* by from some time on, whatever overlaps.
ChangesTakeHold ==
  \A t \in Tenants :
    /\ <>[](row[t].there /\ Blocked(t)) => <>[](\A r \in Clients : job[r].to = t => pc[r] # "admitted")
    /\ <>[](row[t].there /\ ~Blocked(t)) => <>[](\A r \in Clients : job[r].to = t => pc[r] # "refused")
=============================================================================
