------------------------------ MODULE GatePass ------------------------------
(***************************************************************************)
(* Gate passes (getPass.service.js): stock that leaves the hotel on loan   *)
(* or for good, after a chain of signatures, and comes back through the    *)
(* issuing hotel's desk or, from another hotel of the organization, by a   *)
(* chain of gates and departments.                                         *)
(*                                                                         *)
(* A pass has one line; what a handler does to several, it does to each    *)
(* one in one transaction.  A handler that reads and writes later, by id,  *)
(* is a Begin and a Finish action, with a Look action for what it reads    *)
(* again in its transaction.  The transaction changes one row of stock,    *)
(* relatively, so that its writes and its commit are one step.             *)
(***************************************************************************)
EXTENDS Integers, FiniteSets, FiniteSetsExt

CONSTANTS
  Cells,      \* item and location of the issuing hotel
  Passes,
  Forms,      \* what a client may write on a pass
  Counts,     \* what may be counted when goods come back
  Requests,
  Opening,    \* stock at the start
  Movements,  \* what other components bring to a balance or take from it
  MaxStock,   \* bound of the model: they bring nothing above this balance
  MaxEdits    \* bound of the model: lines of a pass are replaced this often

Reversible == {"TEMPORARY", "CATERING", "OUTSIDE_CATERING"}
Kinds == Reversible \cup {"PERMANENT"}

Form == [kind : Kinds, internal : BOOLEAN, cell : Cells, qty : Nat]
Count == [good : Nat, damaged : Nat, lost : Nat]
Bad(n) == n.damaged + n.lost
Total(n) == n.good + Bad(n)

ASSUME GatePassAssumption ==
  /\ IsFiniteSet(Passes) /\ Cells # {} /\ Forms \subseteq Form /\ Counts \subseteq Count
  /\ Opening \in [Cells -> Nat] /\ Movements \subseteq Int
  /\ MaxStock \in Nat /\ MaxEdits \in Nat

Signatures == {"DEPT", "COST_CONTROL", "FINANCE", "GM", "SECURITY"}

\* PENDING_APPROVAL_STATUSES and who decides in each of them
STEP_ROLE ==
  [PENDING_DEPT |-> "DEPT_MANAGER", PENDING_COST_CONTROL |-> "COST_CONTROL",
   PENDING_FINANCE |-> "FINANCE_MANAGER", PENDING_GM |-> "GENERAL_MANAGER",
   PENDING_SECURITY |-> "SECURITY"]
Roles == {STEP_ROLE[s] : s \in DOMAIN STEP_ROLE} \cup {"ADMIN", "ORG_MANAGER", "STOREKEEPER"}

\* APPROVED is never stored.
Statuses ==
  DOMAIN STEP_ROLE \cup
  {"none", "DRAFT", "OUT", "RECEIVED_AT_DESTINATION", "RETURNING",
   "RETURN_RECEIVED_AT_GATE", "PARTIALLY_RETURNED", "RETURNED", "CLOSED", "REJECTED", "deleted"}

VARIABLES
  onHand, blocked,  \* stock_balances of the issuing hotel
  ledger,     \* sum of qtyIn - qtyOut of its valued ledger rows
  pass,       \* each pass with its line
  book,       \* per pass: what ledger rows and return records say
  claims,     \* per balance: quantity on breakage and lost documents of returns
  charged,    \* per balance: what the posted ones have added to the ledger
  closed,     \* the current month is closed
  pc, job     \* per request: what it does next, and with what

stock == <<onHand, blocked, ledger, claims, charged>>
vars == <<stock, pass, book, closed, pc, job>>

NotConfirmed == -1

Pass ==
  [status : Statuses, kind : Kinds, internal : BOOLEAN, cell : Cells, qty : Nat,
   edition : Nat,                      \* which edit has written the line
   back : Nat,                         \* qtyReturned
   received : Nat \cup {NotConfirmed}, \* qtyReceivedAtDestination
   signed : SUBSET Signatures,
   gateIn : BOOLEAN,                   \* receivedAt
   accepted : BOOLEAN,                 \* destinationDeptAcceptedAt
   gateOut : BOOLEAN]                  \* destinationSecurityExitAt

\* out: GET_PASS_OUT and ISSUE rows; released: RETURN rows and return records;
\* arrived and missing: RECEIVE and LOAN_WRITE_OFF rows of the other hotel;
\* custody: its TEMP_RECEIVE less its TEMP_RELEASE rows.
Book ==
  [out : Nat, released : Nat, arrived : Nat, missing : Nat, custody : Int]

Steps ==
  {"idle", "edit", "delete", "submit", "sign", "reject", "exit", "move out", "return",
   "take in", "close", "receipt", "accept", "ship back", "gate out", "arrival",
   "take back", "release"}

Blank == [kind |-> "PERMANENT", internal |-> FALSE, cell |-> CHOOSE c \in Cells : TRUE, qty |-> 0]
Nothing == [good |-> 0, damaged |-> 0, lost |-> 0]

Written(f, status, edition) ==
  [status |-> status, kind |-> f.kind, internal |-> f.internal, cell |-> f.cell, qty |-> f.qty,
   edition |-> edition, back |-> 0, received |-> NotConfirmed, signed |-> {},
   gateIn |-> FALSE, accepted |-> FALSE, gateOut |-> FALSE]

NewBook == [out |-> 0, released |-> 0, arrived |-> 0, missing |-> 0, custody |-> 0]

\* What a request remembers: what it has read of the pass, as far as it uses
\* it, who submits, and what was sent.
NoPass == "none"
NoJob == [pass |-> NoPass, seen |-> Written(Blank, "none", 0), role |-> "STOREKEEPER",
          form |-> Blank, count |-> Nothing]
On(p) == [NoJob EXCEPT !.pass = p]
Having(p) == [On(p) EXCEPT !.seen = pass[p]]

TypeOK ==
  /\ onHand \in [Cells -> Int] /\ blocked \in [Cells -> Int] /\ ledger \in [Cells -> Int]
  /\ claims \in [Cells -> Nat] /\ charged \in [Cells -> Nat]
  /\ pass \in [Passes -> Pass] /\ book \in [Passes -> Book]
  /\ closed \in BOOLEAN
  /\ pc \in [Requests -> Steps]
  /\ job \in [Requests -> [pass : Passes \cup {NoPass}, seen : Pass, role : Roles,
                           form : Form, count : Count]]

Init ==
  /\ onHand = Opening /\ ledger = Opening
  /\ blocked = [c \in Cells |-> 0]
  /\ claims = [c \in Cells |-> 0] /\ charged = [c \in Cells |-> 0]
  /\ pass = [p \in Passes |-> Written(Blank, "none", 0)]
  /\ book = [p \in Passes |-> NewBook]
  /\ closed = FALSE
  /\ pc = [r \in Requests |-> "idle"]
  /\ job = [r \in Requests |-> NoJob]

-----------------------------------------------------------------------------
(* How a handler begins, and how it ends *)

Take(r, step, j) ==
  /\ pc[r] = "idle"
  /\ pc' = [pc EXCEPT ![r] = step]
  /\ job' = [job EXCEPT ![r] = j]
  /\ UNCHANGED <<stock, pass, book, closed>>

Answer(r) ==
  /\ pc' = [pc EXCEPT ![r] = "idle"]
  /\ job' = [job EXCEPT ![r] = NoJob]
  /\ UNCHANGED closed

\* A write by id finds the pass, and the line that was read.
Found(r) == pass[job[r].pass].status # "deleted"
LineFound(r) == Found(r) /\ pass[job[r].pass].edition = job[r].seen.edition

Store(r, g) == pass' = [pass EXCEPT ![job[r].pass] = g]
SetStatus(r, s) == Store(r, [pass[job[r].pass] EXCEPT !.status = s])

IsAdmin(role) == role = "ADMIN"

-----------------------------------------------------------------------------
(* Drafts *)

\* The target of an internal transfer is another active hotel of the same
\* organization, and loans have a date of return: Forms are those that pass.
CreateGetPass(r, p, f) ==
  /\ pc[r] = "idle" /\ pass[p].status = "none"
  /\ pass' = [pass EXCEPT ![p] = Written(f, "DRAFT", 0)]
  /\ UNCHANGED <<stock, book, closed, pc, job>>

BeginEdit(r, p, f) ==
  /\ pass[p].status = "DRAFT"
  /\ pass[p].edition < MaxEdits
  /\ Take(r, "edit", [On(p) EXCEPT !.form = f])

\* Header written over, lines deleted and created again; the status stays.
FinishEdit(r) ==
  LET g == pass[job[r].pass]
      f == job[r].form
  IN  /\ pc[r] = "edit" /\ Found(r)
      /\ Store(r, [g EXCEPT !.kind = f.kind, !.internal = f.internal, !.cell = f.cell,
                            !.qty = f.qty, !.back = 0, !.received = NotConfirmed,
                            !.edition = @ + 1])
      /\ Answer(r) /\ UNCHANGED <<stock, book>>

BeginDelete(r, p) ==
  /\ pass[p].status \in {"DRAFT", "REJECTED"}
  /\ Take(r, "delete", On(p))

FinishDelete(r) ==
  /\ pc[r] = "delete" /\ Found(r)
  /\ SetStatus(r, "deleted")
  /\ Answer(r) /\ UNCHANGED <<stock, book>>

BeginSubmit(r, p, role) ==
  /\ pass[p].status = "DRAFT"
  /\ Take(r, "submit", [On(p) EXCEPT !.role = role])

\* A submitter who could sign the first steps has signed them.
SubmittedBy(role) ==
  CASE IsAdmin(role) ->
         [status |-> "PENDING_SECURITY", signed |-> {"DEPT", "COST_CONTROL", "FINANCE", "GM"}]
    [] role = "DEPT_MANAGER" -> [status |-> "PENDING_COST_CONTROL", signed |-> {"DEPT"}]
    [] role = "COST_CONTROL" -> [status |-> "PENDING_FINANCE", signed |-> {"COST_CONTROL"}]
    [] OTHER -> [status |-> "PENDING_DEPT", signed |-> {}]

FinishSubmit(r) ==
  LET s == SubmittedBy(job[r].role)
  IN  /\ pc[r] = "submit" /\ Found(r)
      /\ Store(r, [pass[job[r].pass] EXCEPT !.status = s.status, !.signed = @ \cup s.signed])
      /\ Answer(r) /\ UNCHANGED <<stock, book>>

-----------------------------------------------------------------------------
(* Signatures *)

Pending(p) == pass[p].status \in DOMAIN STEP_ROLE

\* Mutant: only the role is asked for, as assertCanActOnStatus does.
MayDecideRoleOnly(p, role) == Pending(p) => IsAdmin(role) \/ role = STEP_ROLE[pass[p].status]

MayDecide(p, role) == Pending(p) /\ (IsAdmin(role) \/ role = STEP_ROLE[pass[p].status])

\* Mutant: finance passes to security, and no general manager signs.
BelowSkipsGM ==
  [PENDING_DEPT |-> [status |-> "PENDING_COST_CONTROL", signed |-> "DEPT"],
   PENDING_COST_CONTROL |-> [status |-> "PENDING_FINANCE", signed |-> "COST_CONTROL"],
   PENDING_FINANCE |-> [status |-> "PENDING_SECURITY", signed |-> "FINANCE"],
   PENDING_GM |-> [status |-> "PENDING_SECURITY", signed |-> "GM"]]

Below ==
  [PENDING_DEPT |-> [status |-> "PENDING_COST_CONTROL", signed |-> "DEPT"],
   PENDING_COST_CONTROL |-> [status |-> "PENDING_FINANCE", signed |-> "COST_CONTROL"],
   PENDING_FINANCE |-> [status |-> "PENDING_GM", signed |-> "FINANCE"],
   PENDING_GM |-> [status |-> "PENDING_SECURITY", signed |-> "GM"]]

BeginSign(r, p, role) ==
  /\ pass[p].status \in DOMAIN Below /\ MayDecide(p, role)
  /\ Take(r, "sign", [On(p) EXCEPT !.seen.status = pass[p].status])

FinishSign(r) ==
  LET s == Below[job[r].seen.status]
  IN  /\ pc[r] = "sign" /\ Found(r)
      /\ Store(r, [pass[job[r].pass] EXCEPT !.status = s.status, !.signed = @ \cup {s.signed}])
      /\ Answer(r) /\ UNCHANGED <<stock, book>>

BeginReject(r, p, role) ==
  /\ MayDecide(p, role)
  /\ Take(r, "reject", On(p))

FinishReject(r) ==
  /\ pc[r] = "reject" /\ Found(r)
  /\ Store(r, [pass[job[r].pass] EXCEPT !.status = "REJECTED", !.signed = {}, !.gateOut = FALSE])
  /\ Answer(r) /\ UNCHANGED <<stock, book>>

-----------------------------------------------------------------------------
(* Exit: security signs and the goods leave *)

\* checkPeriodLock
BeginExit(r, p, role) ==
  /\ pass[p].status = "PENDING_SECURITY" /\ MayDecide(p, role)
  /\ ~closed
  /\ Take(r, "exit", On(p))

Available(c) == onHand[c] - blocked[c]

Covered(g) == Available(g.cell) >= g.qty

\* The transaction reads pass and stock again, and locks neither.
LookExit(r) ==
  LET p == job[r].pass
  IN  /\ pc[r] = "exit"
      /\ pass[p].status = "PENDING_SECURITY" /\ Covered(pass[p])
      /\ pc' = [pc EXCEPT ![r] = "move out"]
      /\ job' = [job EXCEPT ![r].seen = pass[p]]
      /\ UNCHANGED <<stock, pass, book, closed>>

\* A loan stays on hand, blocked; the ledger shows it as out.
Leave(g) ==
  /\ IF g.kind \in Reversible
       THEN blocked' = [blocked EXCEPT ![g.cell] = @ + g.qty] /\ UNCHANGED onHand
       ELSE onHand' = [onHand EXCEPT ![g.cell] = @ - g.qty] /\ UNCHANGED blocked
  /\ ledger' = [ledger EXCEPT ![g.cell] = @ - g.qty]
  /\ UNCHANGED <<claims, charged>>

\* Mutant: security's signature is stored, the new status is not.
FinishExitUnmarked(r) ==
  LET p == job[r].pass
      g == job[r].seen
  IN  /\ pc[r] = "move out" /\ LineFound(r)
      /\ Leave(g)
      /\ book' = [book EXCEPT ![p].out = @ + g.qty]
      /\ Store(r, [pass[p] EXCEPT !.signed = @ \cup {"SECURITY"}])
      /\ Answer(r)

FinishExit(r) ==
  LET p == job[r].pass
      g == job[r].seen
  IN  /\ pc[r] = "move out" /\ LineFound(r)
      /\ Leave(g)
      /\ book' = [book EXCEPT ![p].out = @ + g.qty]
      /\ Store(r, [pass[p] EXCEPT !.signed = @ \cup {"SECURITY"}, !.status =
                     IF g.kind = "PERMANENT" /\ ~g.internal THEN "CLOSED" ELSE "OUT"])
      /\ Answer(r)

-----------------------------------------------------------------------------
(* Returns at the issuing hotel's desk *)

BeginReturn(r, p, n) ==
  /\ pass[p].status \in {"OUT", "PARTIALLY_RETURNED"} /\ pass[p].kind # "PERMANENT"
  /\ ~closed
  /\ ~(n.lost > 0 /\ n.damaged > 0)
  /\ Take(r, "return", [Having(p) EXCEPT !.count = n])

WithinRest(g, n) == Total(n) <= g.qty - g.back

\* The line and the stock are read in the transaction, the status was before it.
\* A line that was replaced is skipped.
LookReturn(r) ==
  LET g == pass[job[r].pass]
      old == job[r].seen
      n == IF g.edition = old.edition THEN job[r].count ELSE Nothing
  IN  /\ pc[r] = "return" /\ Found(r)
      /\ Total(n) > 0 => WithinRest(g, n) /\ blocked[g.cell] >= Total(n)
      /\ pc' = [pc EXCEPT ![r] = "take in"]
      /\ job' = [job EXCEPT ![r].seen = [g EXCEPT !.status = old.status], ![r].count = n]
      /\ UNCHANGED <<stock, pass, book, closed>>

\* Mutant: only the good units are no longer blocked.
ReleaseGood(g, n) ==
  /\ blocked' = [blocked EXCEPT ![g.cell] = @ - n.good]
  /\ onHand' = [onHand EXCEPT ![g.cell] = @ - Bad(n)]
  /\ ledger' = [ledger EXCEPT ![g.cell] = @ + n.good]
  /\ UNCHANGED charged

\* Good units are available again, the others leave the stock on hand.
Release(g, n) ==
  /\ blocked' = [blocked EXCEPT ![g.cell] = @ - Total(n)]
  /\ onHand' = [onHand EXCEPT ![g.cell] = @ - Bad(n)]
  /\ ledger' = [ledger EXCEPT ![g.cell] = @ + n.good]
  /\ UNCHANGED charged

\* qtyReturned is the sum of what was read and what comes back now; the status
\* is written when it differs from the one that was read.
FinishReturn(r) ==
  LET p == job[r].pass
      g == job[r].seen
      n == job[r].count
      back == IF Total(n) > 0 THEN g.back + Total(n) ELSE pass[p].back
      next == CASE back >= pass[p].qty -> "RETURNED"
                [] back < pass[p].qty /\ back > 0 -> "PARTIALLY_RETURNED"
                [] OTHER -> g.status
  IN  /\ pc[r] = "take in"
      /\ IF Total(n) > 0 THEN LineFound(r) ELSE Found(r)
      /\ Release(g, n) /\ UNCHANGED claims
      /\ book' = [book EXCEPT ![p].released = @ + Total(n)]
      /\ Store(r, [pass[p] EXCEPT !.back = back, !.status = IF next # g.status THEN next ELSE @])
      /\ Answer(r)

BeginClose(r, p) ==
  /\ pass[p].status \in {"OUT", "PARTIALLY_RETURNED", "RETURNED"}
  /\ Take(r, "close", On(p))

\* What is still out stays blocked.
FinishClose(r) ==
  /\ pc[r] = "close" /\ Found(r)
  /\ SetStatus(r, "CLOSED")
  /\ Answer(r) /\ UNCHANGED <<stock, book>>

-----------------------------------------------------------------------------
(* The other hotel receives *)

\* receivedQty of the line: between nothing and what was shipped.
BeginReceipt(r, p, n) ==
  /\ pass[p].internal /\ pass[p].status = "OUT"
  /\ Total(n) = n.good /\ n.good <= pass[p].qty
  /\ Take(r, "receipt", [Having(p) EXCEPT !.count = n])

FinishReceipt(r) ==
  LET p == job[r].pass
      g == job[r].seen
      missing == IF g.kind = "PERMANENT" THEN g.qty - job[r].count.good ELSE 0
  IN  /\ pc[r] = "receipt" /\ LineFound(r)
      /\ book' = [book EXCEPT ![p].missing = @ + missing]
      /\ Store(r, [pass[p] EXCEPT !.status = "RECEIVED_AT_DESTINATION", !.gateIn = TRUE,
                                  !.received = job[r].count.good])
      /\ Answer(r) /\ UNCHANGED stock

Managers == {"ADMIN", "ORG_MANAGER", "DEPT_MANAGER"}

MayAccept(g) ==
  /\ g.internal /\ g.gateIn /\ ~g.accepted
  /\ g.status \in {"RECEIVED_AT_DESTINATION", "PARTIALLY_RETURNED", "RETURNED"}

BeginAccept(r, p, role) ==
  /\ MayAccept(pass[p]) /\ role \in Managers
  /\ Take(r, "accept", Having(p))

Received(g) == IF g.received = NotConfirmed THEN g.qty ELSE g.received

\* Goods for good enter the other hotel's stock, a loan its custody only.
FinishAccept(r) ==
  LET p == job[r].pass
      g == job[r].seen
      done == g.kind = "PERMANENT" \/ g.status = "RETURNED"
  IN  /\ pc[r] = "accept" /\ Found(r)
      /\ book' = IF g.kind = "PERMANENT"
                   THEN [book EXCEPT ![p].arrived = @ + Received(g)]
                   ELSE [book EXCEPT ![p].custody = @ + Received(g)]
      /\ Store(r, [pass[p] EXCEPT !.accepted = TRUE, !.status = IF done THEN "CLOSED" ELSE @])
      /\ Answer(r) /\ UNCHANGED stock

-----------------------------------------------------------------------------
(* The other hotel sends a loan back *)

BeginShipBack(r, p, role) ==
  /\ pass[p].internal /\ pass[p].kind \in Reversible
  /\ pass[p].status = "RECEIVED_AT_DESTINATION" /\ pass[p].accepted
  /\ role \in Managers \cup {"SECURITY"}
  /\ Take(r, "ship back", On(p))

FinishShipBack(r) ==
  /\ pc[r] = "ship back" /\ Found(r)
  /\ Store(r, [pass[job[r].pass] EXCEPT !.status = "RETURNING", !.gateOut = FALSE])
  /\ Answer(r) /\ UNCHANGED <<stock, book>>

BeginGateOut(r, p, role) ==
  /\ pass[p].internal /\ pass[p].kind \in Reversible
  /\ pass[p].status = "RETURNING" /\ ~pass[p].gateOut
  /\ role \in {"SECURITY", "ADMIN"}
  /\ Take(r, "gate out", Having(p))

FinishGateOut(r) ==
  LET p == job[r].pass
  IN  /\ pc[r] = "gate out" /\ Found(r)
      /\ book' = [book EXCEPT ![p].custody = @ - Received(job[r].seen)]
      /\ Store(r, [pass[p] EXCEPT !.gateOut = TRUE])
      /\ Answer(r) /\ UNCHANGED stock

\* "Inspection must include every line item", with something in it.
BeginArrival(r, p, role, n) ==
  /\ pass[p].internal /\ pass[p].kind \in Reversible
  /\ pass[p].status = "RETURNING" /\ pass[p].gateOut
  /\ role \in {"SECURITY", "ADMIN"}
  /\ Total(n) > 0 /\ WithinRest(pass[p], n)
  /\ Take(r, "arrival", [Having(p) EXCEPT !.count = n])

FinishArrival(r) ==
  LET p == job[r].pass
  IN  /\ pc[r] = "arrival" /\ LineFound(r)
      /\ Store(r, [pass[p] EXCEPT !.status = "RETURN_RECEIVED_AT_GATE", !.gateIn = TRUE,
                                  !.back = job[r].seen.back + Total(job[r].count)])
      /\ Answer(r) /\ UNCHANGED <<stock, book>>

BeginTakeBack(r, p, role, n) ==
  /\ pass[p].internal /\ pass[p].kind \in Reversible
  /\ pass[p].status = "RETURN_RECEIVED_AT_GATE"
  /\ role \in {"DEPT_MANAGER", "ADMIN"}
  /\ Total(n) <= pass[p].back
  /\ Take(r, "take back", [Having(p) EXCEPT !.count = n])

LookTakeBack(r) ==
  /\ pc[r] = "take back"
  /\ Total(job[r].count) > 0 => blocked[job[r].seen.cell] >= Total(job[r].count)
  /\ pc' = [pc EXCEPT ![r] = "release"]
  /\ UNCHANGED <<stock, pass, book, closed, job>>

\* For what is damaged or lost a movement document is created, whose approval
\* chain has begun; a return record of a line that was replaced is refused.
FinishTakeBack(r) ==
  LET p == job[r].pass
      n == job[r].count
  IN  /\ pc[r] = "release" /\ Found(r)
      /\ Bad(n) > 0 => LineFound(r)
      /\ Release(job[r].seen, n)
      /\ claims' = [claims EXCEPT ![job[r].seen.cell] = @ + Bad(n)]
      /\ book' = [book EXCEPT ![p].released = @ + Total(n)]
      /\ SetStatus(r, "RETURNED")
      /\ Answer(r)

-----------------------------------------------------------------------------
(* Errors, and the rest of the server *)

\* A guard of the transaction throws, a row is gone, a connection is lost.
Refuse(r) ==
  /\ pc[r] # "idle"
  /\ Answer(r) /\ UNCHANGED <<stock, pass, book>>

\* Final approval of a claim: a ledger row, and no change of stock.
PostClaim(c) ==
  \E n \in 1 .. claims[c] - charged[c] :
    /\ ledger' = [ledger EXCEPT ![c] = @ - n]
    /\ charged' = [charged EXCEPT ![c] = @ + n]
    /\ UNCHANGED <<onHand, blocked, claims, pass, book, closed, pc, job>>

\* Posts of other components look at what is on hand, never at what is blocked.
Move(c, n) ==
  /\ onHand[c] + n \in 0 .. MaxStock
  /\ onHand' = [onHand EXCEPT ![c] = @ + n]
  /\ ledger' = [ledger EXCEPT ![c] = @ + n]
  /\ UNCHANGED <<blocked, claims, charged, pass, book, closed, pc, job>>

SetClosed(b) ==
  /\ closed # b /\ closed' = b
  /\ UNCHANGED <<stock, pass, book, pc, job>>

-----------------------------------------------------------------------------
(* What the lists of the two hotels show *)

\* Incoming transfers, for the other hotel: from the exit on, to the end.
Incoming(p) ==
  /\ pass[p].internal
  /\ pass[p].status \in {"OUT", "RECEIVED_AT_DESTINATION", "RETURNING", "RETURN_RECEIVED_AT_GATE",
                         "PARTIALLY_RETURNED", "RETURNED", "CLOSED"}

\* Transfers on their way back, for both hotels.
Returning(p) ==
  /\ pass[p].internal
  /\ pass[p].status \in {"RETURNING", "RETURN_RECEIVED_AT_GATE", "PARTIALLY_RETURNED", "RETURNED"}

\* Claims of the other hotel: qtyDiscrepancyAtDestination > 0.
Discrepant(p) == pass[p].received # NotConfirmed /\ pass[p].received < pass[p].qty

\* Passes that are overdue when their date has passed.
Watched(p) ==
  pass[p].kind \in Reversible /\ pass[p].status \in {"OUT", "PARTIALLY_RETURNED"}

Arrive(r, p) ==
  \/ \E f \in Forms : CreateGetPass(r, p, f) \/ BeginEdit(r, p, f)
  \/ BeginDelete(r, p) \/ BeginClose(r, p)
  \/ \E role \in Roles :
       \/ BeginSubmit(r, p, role) \/ BeginSign(r, p, role) \/ BeginReject(r, p, role)
       \/ BeginExit(r, p, role) \/ BeginAccept(r, p, role)
       \/ BeginShipBack(r, p, role) \/ BeginGateOut(r, p, role)
  \/ \E n \in Counts :
       \/ BeginReturn(r, p, n) \/ BeginReceipt(r, p, n)
       \/ \E role \in Roles : BeginArrival(r, p, role, n) \/ BeginTakeBack(r, p, role, n)

Continue(r) ==
  \/ FinishEdit(r) \/ FinishDelete(r) \/ FinishSubmit(r) \/ FinishSign(r) \/ FinishReject(r)
  \/ LookExit(r) \/ FinishExit(r) \/ LookReturn(r) \/ FinishReturn(r) \/ FinishClose(r)
  \/ FinishReceipt(r) \/ FinishAccept(r) \/ FinishShipBack(r) \/ FinishGateOut(r)
  \/ FinishArrival(r) \/ LookTakeBack(r) \/ FinishTakeBack(r) \/ Refuse(r)

Elsewhere ==
  \/ \E c \in Cells : PostClaim(c)
  \/ \E c \in Cells, n \in Movements : Move(c, n)
  \/ \E b \in BOOLEAN : SetClosed(b)

Next ==
  \/ \E r \in Requests : Continue(r) \/ \E p \in Passes : Arrive(r, p)
  \/ Elsewhere

Spec == Init /\ [][Next]_vars

-----------------------------------------------------------------------------
(* What gate passes must keep. *)

VARIABLE overlapped

INSTANCE Overlap

HistoryInit == Init /\ overlapped = FALSE
HistoryNext == Next /\ NoteOverlap
HistorySpec == HistoryInit /\ [][HistoryNext]_<<vars, overlapped>>

SumOver(P, f(_)) == MapThenSumSet(f, P)

Lines(c) == {p \in Passes : pass[p].cell = c /\ pass[p].status # "deleted"}

\* What is available of a balance is what its ledger says, whatever overlaps,
\* but for claims: a unit that came back damaged was booked out when it left,
\* and its breakage document books it out again.
StockIsBooked ==
  \A c \in Cells : onHand[c] - blocked[c] = ledger[c] + charged[c]

\* Nothing leaves without the signatures of cost control, finance, the general
\* manager and security (approveGetPass); alone.
ExitIsSigned ==
  Alone(\A p \in Passes :
    book[p].out > 0 => {"COST_CONTROL", "FINANCE", "GM", "SECURITY"} \subseteq pass[p].signed)

\* Goods that are away are on a list of whoever must act: a loan to a person is
\* watched until it is back or closed; of a transfer, the other hotel sees what
\* has left, both what is on its way back, and both what did not arrive; alone.
\* Nothing watches a transfer that the other hotel has received.
ListsAreComplete ==
  Alone(\A p \in Passes : pass[p].status # "deleted" =>
    LET away == book[p].out - book[p].released > 0
    IN  /\ away /\ pass[p].kind \in Reversible /\ ~pass[p].internal =>
             Watched(p) \/ pass[p].status = "CLOSED"
        /\ away /\ pass[p].internal => Incoming(p)
        /\ away /\ pass[p].internal /\ pass[p].gateOut =>
             Returning(p) \/ pass[p].status = "CLOSED"
        /\ book[p].missing > 0 => Discrepant(p))

\* What holds of stock, signatures and lists.
Consistent == TypeOK /\ StockIsBooked /\ ExitIsSigned /\ ListsAreComplete

\* A loan blocks what is out and not yet released, line by line; what the desk
\* or the gate counted covers what was released (processReturns, confirmReturn-
\* Arrival, acceptReturnIntoDepartment).
LenderAgrees ==
  /\ \A c \in Cells :
       blocked[c] = SumOver({p \in Lines(c) : pass[p].kind \in Reversible},
                            LAMBDA p : book[p].out - book[p].released)
  /\ \A p \in Passes :
       pass[p].status # "deleted" =>
         /\ book[p].released <= pass[p].back /\ pass[p].back <= pass[p].qty
         /\ pass[p].internal \/ book[p].released = pass[p].back

\* The other hotel has in its stock and in its custody what the pass says: of
\* goods for good, what arrived and what was missing is what left; of a loan,
\* what its department took over until its gate let it out.
DestinationAgrees ==
  \A p \in Passes :
    LET g == pass[p]
    IN  /\ book[p].arrived + book[p].missing =
             IF g.kind # "PERMANENT" \/ ~g.gateIn THEN 0
             ELSE IF g.accepted THEN book[p].out ELSE g.qty - Received(g)
        /\ book[p].custody =
             IF g.kind \in Reversible /\ g.accepted /\ ~g.gateOut THEN Received(g) ELSE 0

\* While no two requests overlap, pass, balances and ledger of both hotels tell
\* one story.
CustodyAgrees == Alone(LenderAgrees /\ DestinationAgrees)

\* Rejected and closed passes stay so: no late signature, return or receipt
\* brings one back, and none that has left is edited or deleted.  Goods leave,
\* and come back over the desk, only in a month that is open (checkPeriodLock);
\* acceptReturnIntoDepartment does not ask; alone.
PassesStand ==
  [][Alone(\A p \in Passes :
       /\ pass[p].status = "CLOSED" => pass'[p] = pass[p]
       /\ pass[p].status = "REJECTED" => pass'[p].status \in {"REJECTED", "deleted"}
       /\ book[p].out > 0 =>
            /\ pass'[p].status \in Statuses \ ({"DRAFT", "REJECTED", "deleted"} \cup DOMAIN STEP_ROLE)
            /\ pass'[p].edition = pass[p].edition
       /\ closed /\ pass[p].status # "RETURN_RECEIVED_AT_GATE" =>
            UNCHANGED <<book[p].out, book[p].released>>)]_vars

Register == INSTANCE LoanRegister WITH
  lent <- [p \in Passes |-> book[p].out],
  returned <- [p \in Passes |-> book[p].released]

\* The ledger implements the register of loans: goods leave once, and no more
\* comes back than left; alone.
LoansAreKept ==
  Register!Init /\ [][Alone(Register!Next)]_<<[p \in Passes |-> book[p].out],
                                             [p \in Passes |-> book[p].released]>>
=============================================================================
