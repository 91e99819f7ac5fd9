---------------------------- MODULE StoreTransfer ----------------------------
(***************************************************************************)
(* Store transfers (transfer.service.js): a draft is submitted into a      *)
(* three-step approval chain, dispatched, and received.  Stock moves on    *)
(* reception only: for each line, in a transaction, the source is read and *)
(* decremented (ReadSource, TakeOut) and the destination is read and       *)
(* overwritten with the sum (ReadDest, PutIn).                             *)
(*                                                                         *)
(* Handlers that check a status and write later, by id, are a Begin and a  *)
(* Finish action.  The pre-flight stock reads of a dispatch are one step:  *)
(* they lock nothing and nothing is computed from them.                    *)
(***************************************************************************)
EXTENDS StockRows, Naturals, Sequences, FiniteSetsExt

CONSTANT Signers \* roles with the permission TRANSFER_APPROVE

Actors == Signers \cup {"nobody"}

TRANSFER_APPROVAL_ROLE_CODES == <<"DEPT_MANAGER", "FINANCE_MANAGER", "ADMIN">>

TotalSteps == 3
StepNumbers == 1 .. TotalSteps

StatusForActiveStep == <<"PENDING_DEPT", "PENDING_FINANCE", "PENDING_FINAL">>

Step(s, who) == [status |-> s, actedBy |-> who]

ApprovalRequests ==
  [status : {"none", "PENDING", "APPROVED", "REJECTED"},
   currentStep : StepNumbers,
   steps : [StepNumbers -> [status : {"PENDING", "APPROVED", "REJECTED", "CANCELLED"},
                            actedBy : Actors]]]

\* No row exists.
NoRequest ==
  [status |-> "none", currentStep |-> 1,
   steps |-> [k \in StepNumbers |-> Step("PENDING", "nobody")]]

NewRequest == [NoRequest EXCEPT !.status = "PENDING"]

CanAct(role, k) == role \in {TRANSFER_APPROVAL_ROLE_CODES[k], "ADMIN", "SUPER_ADMIN"}

\* The current step is pending, and a user with this role may act on it.
Actionable(a, role) ==
  /\ a.status # "none"
  /\ a.steps[a.currentStep].status = "PENDING"
  /\ CanAct(role, a.currentStep)

IsFinal(k) == k >= TotalSteps

ApproveStep(a, k, role) ==
  [status |-> IF IsFinal(k) THEN "APPROVED" ELSE a.status,
   currentStep |-> IF IsFinal(k) THEN k ELSE k + 1,
   steps |-> [a.steps EXCEPT ![k] = Step("APPROVED", role)]]

\* The transfer's status after that.
StatusApproved(k) == IF IsFinal(k) THEN "APPROVED" ELSE StatusForActiveStep[k + 1]

\* Mutant: the steps after the rejected one stay pending.
RejectStepOnly(a, k, role) ==
  [status |-> "REJECTED", currentStep |-> k,
   steps |-> [a.steps EXCEPT ![k] = Step("REJECTED", role)]]

RejectStep(a, k, role) ==
  [status |-> "REJECTED",
   currentStep |-> k,
   steps |-> [j \in StepNumbers |->
                IF j = k THEN Step("REJECTED", role)
                ELSE IF j > k /\ a.steps[j].status = "PENDING"
                     THEN [a.steps[j] EXCEPT !.status = "CANCELLED"]
                     ELSE a.steps[j]]]

-----------------------------------------------------------------------------
CONSTANTS
  Transfers,
  Plans,      \* Plans[t]: locations and lines a client may send for transfer t
  Overrides,  \* received quantities a client may send instead of the requested
  Movements,  \* quantities other components bring to a balance or take from it
  MaxStock    \* bound of the model: they bring nothing above this balance

\* One line: an item moves from the source to the destination location.
\* requestedQty is not validated.
TransferLine == [from : Cells, to : Cells, qty : Int]

ASSUME TransfersAssumption ==
  /\ \A t \in Transfers : Plans[t] \subseteq Seq(TransferLine) \ {<<>>}
  /\ Overrides \subseteq Int /\ Movements \subseteq Int /\ MaxStock \in Nat

VARIABLES
  status,     \* of each transfer, "none" before it is created
  plan,       \* its locations and lines
  approval,   \* its approval request
  moved,      \* what its TRANSFER_OUT rows in the ledger add up to
  closed,     \* the month the transfers are dated in is closed
  pc,         \* per request: what it does next
  job,        \* per request: the transfer it works on
  sign,       \* per request: the decision, the step it has read, the role
  mine,       \* per request: the lines it has read, with received quantities
  todo,       \* per request: the lines still to be moved
  at,         \* per request: the line it is moving
  gone,       \* per request: the lines it has read have been deleted
  carried     \* per request: its uncommitted share of moved

transfers == <<status, plan, approval, moved>>
local == <<job, sign, mine, todo, at, gone, carried>>
vars == <<committed, uncommitted, transfers, closed, pc, local>>

\* SUBMITTED and CLOSED are never stored.
Pending == {"PENDING_DEPT", "PENDING_FINANCE", "PENDING_FINAL"}
TransferStatuses ==
  {"none", "DRAFT", "APPROVED", "IN_TRANSIT", "RECEIVED", "REJECTED", "deleted"} \cup Pending

Signature(action, step, role) == [action |-> action, step |-> step, role |-> role]
NoSignature == Signature("none", 1, "nobody")
NoJob == "none"

TypeOK ==
  /\ RowsTypeOK
  /\ status \in [Transfers -> TransferStatuses]
  /\ plan \in [Transfers -> Seq(TransferLine)]
  /\ approval \in [Transfers -> ApprovalRequests]
  /\ moved \in [Transfers -> Nat]
  /\ closed \in BOOLEAN
  /\ pc \in [Requests ->
       {"idle", "edit", "delete", "submit", "sign", "dispatch", "line", "out", "look", "in"}]
  /\ job \in [Requests -> Transfers \cup {NoJob}]
  /\ sign \in [Requests ->
       [action : {"none", "APPROVE", "REJECT"}, step : StepNumbers, role : Actors]]
  /\ mine \in [Requests -> Seq(TransferLine)]
  /\ todo \in [Requests -> SUBSET Nat] /\ at \in [Requests -> Nat]
  /\ gone \in [Requests -> BOOLEAN]
  /\ carried \in [Requests -> Nat]

Init ==
  /\ RowsInit
  /\ status = [t \in Transfers |-> "none"]
  /\ plan = [t \in Transfers |-> <<>>]
  /\ approval = [t \in Transfers |-> NoRequest]
  /\ moved = [t \in Transfers |-> 0]
  /\ closed = FALSE
  /\ pc = [r \in Requests |-> "idle"]
  /\ job = [r \in Requests |-> NoJob]
  /\ sign = [r \in Requests |-> NoSignature]
  /\ mine = [r \in Requests |-> <<>>]
  /\ todo = [r \in Requests |-> {}]
  /\ at = [r \in Requests |-> 0]
  /\ gone = [r \in Requests |-> FALSE]
  /\ carried = [r \in Requests |-> 0]

Take(r, t, step) ==
  /\ pc[r] = "idle"
  /\ pc' = [pc EXCEPT ![r] = step]
  /\ job' = [job EXCEPT ![r] = t]

\* Reading or writing the lines of a transfer it receives.
Receiving(r) == pc[r] \in {"line", "out", "look", "in"}

\* The request is answered.  If it has deleted the lines of the transfer, then
\* those that requests in the middle of a reception have read are gone.
Return(r, deleted) ==
  /\ pc' = [pc EXCEPT ![r] = "idle"]
  /\ job' = [job EXCEPT ![r] = NoJob]
  /\ sign' = [sign EXCEPT ![r] = NoSignature]
  /\ mine' = [mine EXCEPT ![r] = <<>>]
  /\ todo' = [todo EXCEPT ![r] = {}]
  /\ at' = [at EXCEPT ![r] = 0]
  /\ carried' = [carried EXCEPT ![r] = 0]
  /\ gone' = [q \in Requests |->
       q # r /\ (gone[q] \/ (deleted /\ Receiving(q) /\ job[q] = job[r]))]

\* A write by id finds the row of the transfer.
Found(r) == status[job[r]] # "deleted"

SetStatus(r, s) == status' = [status EXCEPT ![job[r]] = s]

-----------------------------------------------------------------------------
(* Drafts *)

\* "Source and destination must be different locations"
CreateTransfer(r, t) ==
  /\ pc[r] = "idle"
  /\ status[t] = "none"
  /\ \E p \in Plans[t] :
       /\ \A k \in DOMAIN p : p[k].from # p[k].to
       /\ plan' = [plan EXCEPT ![t] = p]
  /\ status' = [status EXCEPT ![t] = "DRAFT"]
  /\ UNCHANGED <<committed, uncommitted, approval, moved, closed, pc, local>>

Editable(t) == status[t] = "DRAFT"

BeginEdit(r, t) ==
  /\ Editable(t)
  /\ Take(r, t, "edit")
  /\ UNCHANGED <<committed, uncommitted, transfers, closed, sign, mine, todo, at, gone, carried>>

\* assertStatus(trf, 'DRAFT') of deleteTransfer and submitTransfer
BeginOnDraft(r, t) ==
  /\ status[t] = "DRAFT"
  /\ \E step \in {"delete", "submit"} : Take(r, t, step)
  /\ UNCHANGED <<committed, uncommitted, transfers, closed, sign, mine, todo, at, gone, carried>>

\* Lines that a transaction has written are locked.
LinesFree(r) == \A q \in Requests \ {r} : job[q] = job[r] => carried[q] = 0

\* An edit sends every field.  It does not compare the locations.
FinishEdit(r) ==
  /\ pc[r] = "edit"
  /\ \/ /\ Found(r) /\ LinesFree(r)
        /\ \E p \in Plans[job[r]] : plan' = [plan EXCEPT ![job[r]] = p]
     \/ ~Found(r) /\ UNCHANGED plan
  /\ Return(r, TRUE)
  /\ UNCHANGED <<committed, uncommitted, status, approval, moved, closed>>

FinishDelete(r) ==
  /\ pc[r] = "delete"
  /\ \/ Found(r) /\ LinesFree(r) /\ SetStatus(r, "deleted")
     \/ ~Found(r) /\ UNCHANGED status
  /\ Return(r, TRUE)
  /\ UNCHANGED <<committed, uncommitted, plan, approval, moved, closed>>

-----------------------------------------------------------------------------
(* The approval chain *)

\* Mutant: nothing keeps a transfer from a second approval request.
SubmittableTwice(r) == Found(r)

\* storeTransferId is unique in approval_requests.
Submittable(r) == Found(r) /\ approval[job[r]].status = "none"

FinishSubmit(r) ==
  /\ pc[r] = "submit"
  /\ IF Submittable(r)
     THEN /\ SetStatus(r, StatusForActiveStep[1])
          /\ approval' = [approval EXCEPT ![job[r]] = NewRequest]
     ELSE UNCHANGED <<status, approval>>
  /\ Return(r, FALSE)
  /\ UNCHANGED <<committed, uncommitted, plan, moved, closed>>

BeginSign(r, t) ==
  /\ status[t] \in Pending
  /\ \E role \in Signers, action \in {"APPROVE", "REJECT"} :
       /\ Actionable(approval[t], role)
       /\ sign' = [sign EXCEPT ![r] = Signature(action, approval[t].currentStep, role)]
  /\ Take(r, t, "sign")
  /\ UNCHANGED <<committed, uncommitted, transfers, closed, mine, todo, at, gone, carried>>

FinishSign(r) ==
  LET a == approval[job[r]]
      s == sign[r]
  IN  /\ pc[r] = "sign"
      /\ \/ /\ Found(r) /\ s.action = "APPROVE"
            /\ approval' = [approval EXCEPT ![job[r]] = ApproveStep(a, s.step, s.role)]
            /\ SetStatus(r, StatusApproved(s.step))
         \/ /\ Found(r) /\ s.action = "REJECT"
            /\ approval' = [approval EXCEPT ![job[r]] = RejectStep(a, s.step, s.role)]
            /\ SetStatus(r, "REJECTED")
         \/ ~Found(r) /\ UNCHANGED <<approval, status>>
      /\ Return(r, FALSE)
      /\ UNCHANGED <<committed, uncommitted, plan, moved, closed>>

-----------------------------------------------------------------------------
(* Dispatch and reception *)

BeginDispatch(r, t) ==
  /\ status[t] = "APPROVED"
  /\ \A k \in DOMAIN plan[t] : onHand[plan[t][k].from] >= plan[t][k].qty
  /\ Take(r, t, "dispatch")
  /\ UNCHANGED <<committed, uncommitted, transfers, closed, sign, mine, todo, at, gone, carried>>

FinishDispatch(r) ==
  /\ pc[r] = "dispatch"
  /\ IF Found(r) THEN SetStatus(r, "IN_TRANSIT") ELSE UNCHANGED status
  /\ Return(r, FALSE)
  /\ UNCHANGED <<committed, uncommitted, plan, approval, moved, closed>>

Receivable(t) == status[t] = "IN_TRANSIT" /\ ~closed

\* A line is received as requested or as the client says; lines without a
\* quantity are skipped.
BeginReceive(r, t) ==
  /\ Receivable(t)
  /\ \E got \in [DOMAIN plan[t] -> Overrides \cup {plan[t][k].qty : k \in DOMAIN plan[t]}] :
       /\ \A k \in DOMAIN plan[t] : got[k] \in Overrides \cup {plan[t][k].qty}
       /\ mine' = [mine EXCEPT ![r] =
                     [k \in DOMAIN plan[t] |-> [plan[t][k] EXCEPT !.qty = got[k]]]]
       /\ todo' = [todo EXCEPT ![r] = {k \in DOMAIN plan[t] : got[k] > 0}]
  /\ Take(r, t, "line")
  /\ UNCHANGED <<committed, uncommitted, transfers, closed, sign, at, gone, carried>>

Line(r) == mine[r][at[r]]

Enough(r, line) == Visible(r, line.from) >= line.qty

\* The database returns the lines in any order.
ReadSource(r) ==
  /\ pc[r] = "line"
  /\ \E k \in todo[r] :
       /\ Enough(r, mine[r][k])
       /\ Select(r, mine[r][k].from)
       /\ at' = [at EXCEPT ![r] = k]
       /\ todo' = [todo EXCEPT ![r] = @ \ {k}]
  /\ pc' = [pc EXCEPT ![r] = "out"]
  /\ UNCHANGED <<transfers, closed, job, sign, mine, gone, carried>>

TakeOut(r) ==
  /\ pc[r] = "out"
  /\ Update(r, Line(r).from, -Line(r).qty, -Line(r).qty)
  /\ pc' = [pc EXCEPT ![r] = "look"]
  /\ UNCHANGED <<transfers, closed, local>>

ReadDest(r) ==
  /\ pc[r] = "look"
  /\ Select(r, Line(r).to)
  /\ pc' = [pc EXCEPT ![r] = "in"]
  /\ UNCHANGED <<transfers, closed, local>>

\* Mutant: the destination is overwritten with the received quantity.
NewTotalQtyOnly(r) == Line(r).qty

NewTotalQty(r) == seen[r] + Line(r).qty

\* Mutant: the TRANSFER_IN row is left out.
InRowMissing(r) == 0

\* qtyIn of the TRANSFER_IN row
InRow(r) == Line(r).qty

\* The last of the statements updates the line, which must still exist.
PutIn(r) ==
  /\ pc[r] = "in"
  /\ ~gone[r]
  /\ Update(r, Line(r).to, NewTotalQty(r) - Visible(r, Line(r).to), InRow(r))
  /\ carried' = [carried EXCEPT ![r] = @ + Line(r).qty]
  /\ pc' = [pc EXCEPT ![r] = "line"]
  /\ UNCHANGED <<transfers, closed, job, sign, mine, todo, at, gone>>

CommitReceive(r) ==
  /\ pc[r] = "line" /\ todo[r] = {}
  /\ Found(r)
  /\ CommitRows(r)
  /\ SetStatus(r, "RECEIVED")
  /\ moved' = [moved EXCEPT ![job[r]] = @ + carried[r]]
  /\ Return(r, FALSE)
  /\ UNCHANGED <<plan, approval, closed>>

\* Too little stock, or the transfer or its lines are gone.
RefuseReceive(r) ==
  /\ \/ pc[r] = "line" /\ \E k \in todo[r] : ~Enough(r, mine[r][k])
     \/ pc[r] = "in" /\ gone[r]
     \/ pc[r] = "line" /\ todo[r] = {} /\ ~Found(r)
  /\ RollbackRows(r)
  /\ Return(r, FALSE)
  /\ UNCHANGED <<transfers, closed>>

\* A timeout, a lost connection, a broken deadlock or a crash.
Abort(r) ==
  /\ pc[r] # "idle"
  /\ RollbackRows(r)
  /\ Return(r, FALSE)
  /\ UNCHANGED <<transfers, closed>>

-----------------------------------------------------------------------------
(* What other parts of the server do meanwhile *)

Move(c, n) ==
  /\ \A r \in Requests : c \notin held[r]
  /\ onHand[c] + n \in 0 .. MaxStock
  /\ onHand' = [onHand EXCEPT ![c] = @ + n]
  /\ ledger' = [ledger EXCEPT ![c] = @ + n]
  /\ UNCHANGED <<uncommitted, transfers, closed, pc, local>>

\* closePeriod, reopenPeriod
SetClosed(v) ==
  /\ closed' = v
  /\ UNCHANGED <<committed, uncommitted, transfers, pc, local>>

-----------------------------------------------------------------------------
Arrive(r) ==
  \E t \in Transfers :
    \/ CreateTransfer(r, t) \/ BeginEdit(r, t) \/ BeginOnDraft(r, t)
    \/ BeginSign(r, t) \/ BeginDispatch(r, t) \/ BeginReceive(r, t)

Continue(r) ==
  \/ FinishEdit(r) \/ FinishDelete(r) \/ FinishSubmit(r) \/ FinishSign(r) \/ FinishDispatch(r)
  \/ ReadSource(r) \/ TakeOut(r) \/ ReadDest(r) \/ PutIn(r) \/ CommitReceive(r)
  \/ RefuseReceive(r) \/ Abort(r)

Elsewhere ==
  \/ \E c \in Cells, n \in Movements : Move(c, n)
  \/ \E v \in BOOLEAN : SetClosed(v)

Next == (\E r \in Requests : Arrive(r) \/ Continue(r)) \/ Elsewhere

Spec == Init /\ [][Next]_vars

-----------------------------------------------------------------------------
(* What transfers must keep. *)

VARIABLE overlapped

INSTANCE Overlap

HistoryInit == Init /\ overlapped = FALSE
HistoryNext == Next /\ NoteOverlap
HistorySpec == HistoryInit /\ [][HistoryNext]_<<vars, overlapped>>

Sum(f) == MapThenSumSet(LAMBDA c : f[c], Cells)

-----------------------------------------------------------------------------
\* "Source balance - must still have enough (checked again inside tx)": a
\* reception never leaves a balance negative, and balances and ledger change
\* together; alone.
StockIsBooked == Alone(\A c \in Cells : onHand[c] >= 0 /\ onHand[c] = ledger[c])

\* What holds of transfers, chains and stock.
Consistent == TypeOK /\ StockIsBooked

\* A transfer neither makes nor loses stock: no request, however many are in
\* progress and wherever they fail, changes the sum of the ledger.  Alone, its
\* stock moves once, as it is received, in a month that is open, and what is
\* received is what was submitted ("Transfer is locked and cannot be modified").
TransfersConserve ==
  [][/\ ~UNCHANGED pc => Sum(ledger') = Sum(ledger)
     /\ Alone(\A t \in Transfers :
          /\ moved'[t] # moved[t] =>
               status[t] = "IN_TRANSIT" /\ status'[t] = "RECEIVED" /\ ~closed
          /\ status[t] \notin {"none", "DRAFT"} => UNCHANGED plan[t])]_vars

\* A decision that was taken is never open again, whatever overlaps: a second
\* submission cannot restart the chain.
SignaturesStay ==
  [][\A t \in Transfers : \A k \in StepNumbers :
       approval[t].steps[k].status # "PENDING" =>
         approval'[t].steps[k].status # "PENDING"]_vars

Decided(t) == {k \in StepNumbers : approval[t].steps[k].status = "APPROVED"}

\* The status of a transfer and its approval request tell the same story, and
\* stock is dispatched only after three signatures, each of the role of its step
\* or of an administrator; alone.
ApprovalAgrees ==
  Alone(\A t \in Transfers :
    LET a == approval[t]
    IN  /\ status[t] \in Pending =>
             /\ a.status = "PENDING" /\ status[t] = StatusForActiveStep[a.currentStep]
             /\ Decided(t) = 1 .. a.currentStep - 1
             /\ \A k \in StepNumbers \ Decided(t) : a.steps[k].status = "PENDING"
        /\ status[t] \in {"APPROVED", "IN_TRANSIT", "RECEIVED"} =>
             /\ a.status = "APPROVED" /\ Decided(t) = StepNumbers
             /\ \A k \in StepNumbers :
                  a.steps[k].actedBy \in {TRANSFER_APPROVAL_ROLE_CODES[k], "ADMIN", "SUPER_ADMIN"}
        /\ status[t] = "REJECTED" =>
             a.status = "REJECTED" /\ \A k \in StepNumbers : a.steps[k].status # "PENDING")
=============================================================================
