------------------------ MODULE StoreTransfer_proofs ------------------------
(***************************************************************************)
(* Proofs about store transfers for every set of balances, transfers,      *)
(* plans, signers, overrides and requests, however the requests overlap;   *)
(* and about the ledger the reports read, for every set of stores, passes, *)
(* bookings and quantities.  The two share no variable.                    *)
(***************************************************************************)
EXTENDS StoreTransfer, FigureProperties, Sums_proofs

\* What a transaction does to the rows keeps their types, also where nothing
\* keeps balances from becoming negative.
LEMMA RowsTyping ==
  ASSUME RowsTypeOK, NEW r \in Requests, NEW c \in Cells,
         NEW change \in Int, NEW row \in Int,
         \/ Select(r, c) \/ Update(r, c, change, row)
         \/ CommitRows(r) \/ RollbackRows(r)
  PROVE  RowsTypeOK'
<1>1. CASE Select(r, c)
  BY <1>1 DEF Select, Visible, RowsTypeOK, committed
<1>2. CASE Update(r, c, change, row)
  <2>1. /\ pend' = [pend EXCEPT ![r][c] = @ + change]
        /\ rows' = [rows EXCEPT ![r][c] = @ + row]
        /\ held' = [held EXCEPT ![r] = @ \cup {c}]
        /\ UNCHANGED <<onHand, ledger, seen>>
    BY <1>2 DEF Update, committed
  <2>2. QED
    BY <2>1 DEF RowsTypeOK
<1>3. CASE CommitRows(r)
  <2>1. /\ onHand' = [d \in Cells |-> onHand[d] + pend[r][d]]
        /\ ledger' = [d \in Cells |-> ledger[d] + rows[r][d]]
    BY <1>3 DEF CommitRows
  <2>2. onHand' \in [Cells -> Int] /\ ledger' \in [Cells -> Int]
    BY <2>1 DEF RowsTypeOK
  <2>3. QED
    BY <1>3, <2>2 DEF CommitRows, Forget, RowsTypeOK, Zero
<1>4. CASE RollbackRows(r)
  BY <1>4 DEF RollbackRows, Forget, RowsTypeOK, Zero, committed
<1>5. QED
  BY <1>1, <1>2, <1>3, <1>4

-----------------------------------------------------------------------------

Steps ==
  {"idle", "edit", "delete", "submit", "sign", "dispatch", "line", "out", "look", "in"}
Signatures == [action : {"none", "APPROVE", "REJECT"}, step : StepNumbers, role : Actors]

\* TypeOK without the rows: what is stored, and what requests hold.
StoredOK ==
  /\ status \in [Transfers -> TransferStatuses]
  /\ plan \in [Transfers -> Seq(TransferLine)]
  /\ approval \in [Transfers -> ApprovalRequests]
  /\ moved \in [Transfers -> Nat]
  /\ closed \in BOOLEAN

HeldOK ==
  /\ pc \in [Requests -> Steps]
  /\ job \in [Requests -> Transfers \cup {NoJob}]
  /\ sign \in [Requests -> Signatures]
  /\ mine \in [Requests -> Seq(TransferLine)]
  /\ todo \in [Requests -> SUBSET Nat]
  /\ at \in [Requests -> Nat]
  /\ gone \in [Requests -> BOOLEAN]
  /\ carried \in [Requests -> Nat]

\* A request that is busy works on a transfer; one that signs has found an
\* approval request; one that receives has read the lines, and moves only
\* those with a quantity.
Well(r) ==
  /\ pc[r] # "idle" => job[r] \in Transfers
  /\ pc[r] = "sign" => approval[job[r]].status # "none"
  /\ Receiving(r) => \A k \in todo[r] : k \in DOMAIN mine[r] /\ mine[r][k].qty > 0
  /\ pc[r] \in {"out", "look", "in"} => at[r] \in DOMAIN mine[r] /\ mine[r][at[r]].qty > 0

AllWell == \A r \in Requests : Well(r)

\* A transfer without an approval request carries no signature.
Unsigned ==
  \A t \in Transfers : approval[t].status = "none" =>
    \A k \in StepNumbers : approval[t].steps[k].status = "PENDING"

Inv == RowsTypeOK /\ StoredOK /\ HeldOK /\ AllWell /\ Unsigned

LEMMA InvTypes == Inv => TypeOK
  BY DEF Inv, TypeOK, StoredOK, HeldOK, Steps, Signatures

-----------------------------------------------------------------------------
(* The approval chain *)

LEMMA NoRequestTyping == NoRequest \in ApprovalRequests
  BY DEF NoRequest, ApprovalRequests, StepNumbers, TotalSteps, Step, Actors

LEMMA NewRequestTyping == NewRequest \in ApprovalRequests /\ NewRequest.status # "none"
  BY DEF NewRequest, NoRequest, ApprovalRequests, StepNumbers, TotalSteps, Step, Actors

\* Approving a step keeps the request well typed and every other step as it was.
LEMMA ApproveTyping ==
  ASSUME NEW a \in ApprovalRequests, NEW k \in StepNumbers, NEW role \in Actors
  PROVE  /\ ApproveStep(a, k, role) \in ApprovalRequests
         /\ ApproveStep(a, k, role).status = "none" => a.status = "none" /\ k < TotalSteps
         /\ \A j \in StepNumbers :
              ApproveStep(a, k, role).steps[j] =
                IF j = k THEN Step("APPROVED", role) ELSE a.steps[j]
<1>1. /\ Step("APPROVED", role) \in [status : {"PENDING", "APPROVED", "REJECTED", "CANCELLED"},
                                     actedBy : Actors]
      /\ (IF IsFinal(k) THEN k ELSE k + 1) \in StepNumbers
  BY DEF Step, IsFinal, StepNumbers, TotalSteps
<1>2. QED
  BY <1>1 DEF ApproveStep, ApprovalRequests, IsFinal, TotalSteps, StepNumbers

\* Rejecting a step leaves no later step pending.
LEMMA RejectTyping ==
  ASSUME NEW a \in ApprovalRequests, NEW k \in StepNumbers, NEW role \in Actors
  PROVE  /\ RejectStep(a, k, role) \in ApprovalRequests
         /\ RejectStep(a, k, role).status # "none"
         /\ \A j \in StepNumbers :
              RejectStep(a, k, role).steps[j].status = "PENDING" =>
                j < k /\ a.steps[j].status = "PENDING"
<1>1. \A j \in StepNumbers :
        [a.steps[j] EXCEPT !.status = "CANCELLED"]
          \in [status : {"PENDING", "APPROVED", "REJECTED", "CANCELLED"}, actedBy : Actors]
  BY DEF ApprovalRequests
<1>2. Step("REJECTED", role)
        \in [status : {"PENDING", "APPROVED", "REJECTED", "CANCELLED"}, actedBy : Actors]
  BY DEF Step
<1>3. RejectStep(a, k, role) \in ApprovalRequests
  BY <1>1, <1>2 DEF RejectStep, ApprovalRequests
<1>4. ASSUME NEW j \in StepNumbers, RejectStep(a, k, role).steps[j].status = "PENDING"
      PROVE  j < k /\ a.steps[j].status = "PENDING"
  BY <1>4 DEF RejectStep, Step, ApprovalRequests, StepNumbers, TotalSteps
<1>5. QED
  BY <1>3, <1>4 DEF RejectStep

-----------------------------------------------------------------------------
(* The steps of requests *)

\* Approval requests stay.
ApprovalKept ==
  \A t \in Transfers : approval[t].status # "none" => approval'[t].status # "none"

\* A request that did not move is as well as it was.
LEMMA StaysWell ==
  ASSUME NEW q, Well(q), ApprovalKept, pc'[q] = pc[q], job'[q] = job[q], mine'[q] = mine[q],
         todo'[q] = todo[q], at'[q] = at[q]
  PROVE  Well(q)'
BY DEF Well, Receiving, ApprovalKept

\* A request that is answered holds nothing; the others hold what they held.
LEMMA ReturnTyping ==
  ASSUME Inv, NEW r \in Requests, NEW d \in BOOLEAN, Return(r, d), ApprovalKept
  PROVE  HeldOK' /\ AllWell'
<1>1. /\ pc' \in [Requests -> Steps] /\ job' \in [Requests -> Transfers \cup {NoJob}]
      /\ at' \in [Requests -> Nat] /\ carried' \in [Requests -> Nat]
      /\ todo' \in [Requests -> SUBSET Nat]
  BY DEF Return, Inv, HeldOK, Steps
<1>2. sign' \in [Requests -> Signatures]
  <2>1. NoSignature \in Signatures
    BY DEF NoSignature, Signature, Signatures, StepNumbers, TotalSteps, Actors
  <2>2. QED
    BY <2>1 DEF Return, Inv, HeldOK
<1>3. mine' \in [Requests -> Seq(TransferLine)]
  <2>1. <<>> \in Seq(TransferLine)
    OBVIOUS
  <2>2. QED
    BY <2>1 DEF Return, Inv, HeldOK
<1>4. gone' \in [Requests -> BOOLEAN]
  BY DEF Return
<1>5. ASSUME NEW q \in Requests PROVE Well(q)'
  <2>1. CASE q = r
    BY <2>1 DEF Return, Inv, HeldOK, Well, Receiving
  <2>2. CASE q # r
    <3>1. /\ pc'[q] = pc[q] /\ job'[q] = job[q] /\ mine'[q] = mine[q]
          /\ todo'[q] = todo[q] /\ at'[q] = at[q]
      BY <2>2 DEF Return, Inv, HeldOK
    <3>2. QED
      BY <3>1, StaysWell DEF Inv, AllWell
  <2>3. QED
    BY <2>1, <2>2
<1>6. QED
  BY <1>1, <1>2, <1>3, <1>4, <1>5 DEF HeldOK, AllWell

\* A request that begins something other than a reception.
LEMMA TakeTyping ==
  ASSUME Inv, NEW r \in Requests, NEW t \in Transfers,
         NEW step \in {"edit", "delete", "submit", "sign", "dispatch"},
         Take(r, t, step), UNCHANGED <<approval, mine, todo, at, gone, carried>>,
         step = "sign" => approval[t].status # "none"
  PROVE  /\ pc' \in [Requests -> Steps] /\ job' \in [Requests -> Transfers \cup {NoJob}]
         /\ AllWell'
<1>1. /\ pc' \in [Requests -> Steps] /\ job' \in [Requests -> Transfers \cup {NoJob}]
      /\ pc'[r] = step /\ job'[r] = t
      /\ \A q \in Requests : q # r => pc'[q] = pc[q] /\ job'[q] = job[q]
  BY DEF Take, Inv, HeldOK, Steps
<1>2. ASSUME NEW q \in Requests PROVE Well(q)'
  <2>1. CASE q = r
    BY <1>1, <2>1 DEF Well, Receiving
  <2>2. CASE q # r
    BY <1>1, <2>2, StaysWell DEF Inv, AllWell, ApprovalKept
  <2>3. QED
    BY <2>1, <2>2
<1>3. QED
  BY <1>1, <1>2 DEF AllWell

\* Drafting, and the beginnings of everything but a reception.
LEMMA ArriveStep ==
  ASSUME Inv, NEW r \in Requests, NEW t \in Transfers,
         \/ CreateTransfer(r, t) \/ BeginEdit(r, t) \/ BeginOnDraft(r, t)
         \/ BeginSign(r, t) \/ BeginDispatch(r, t)
  PROVE  Inv'
<1>1. CASE CreateTransfer(r, t)
  <2>1. PICK p \in Plans[t] : plan' = [plan EXCEPT ![t] = p]
    BY <1>1 DEF CreateTransfer
  <2>2. /\ status' = [status EXCEPT ![t] = "DRAFT"]
        /\ UNCHANGED <<onHand, ledger, seen, pend, rows, held, approval, moved, closed, pc,
                       job, sign, mine, todo, at, gone, carried>>
    BY <1>1 DEF CreateTransfer, committed, uncommitted, local
  <2>3. plan' \in [Transfers -> Seq(TransferLine)]
    BY <2>1, TransfersAssumption DEF Inv, StoredOK
  <2>4. status' \in [Transfers -> TransferStatuses]
    BY <2>2 DEF Inv, StoredOK, TransferStatuses
  <2>5. RowsTypeOK' /\ StoredOK'
    BY <2>2, <2>3, <2>4 DEF Inv, RowsTypeOK, StoredOK
  <2>6. HeldOK' /\ AllWell' /\ Unsigned'
    BY <2>2 DEF Inv, HeldOK, AllWell, Well, Receiving, Unsigned
  <2>7. QED
    BY <2>5, <2>6 DEF Inv
<1>2. CASE BeginEdit(r, t) \/ BeginOnDraft(r, t) \/ BeginDispatch(r, t)
  <2>1. /\ \E step \in {"edit", "delete", "submit", "dispatch"} : Take(r, t, step)
        /\ UNCHANGED <<onHand, ledger, seen, pend, rows, held, status, plan, approval,
                       moved, closed, sign, mine, todo, at, gone, carried>>
    BY <1>2 DEF BeginEdit, BeginOnDraft, BeginDispatch, committed, uncommitted, transfers
  <2>2. /\ pc' \in [Requests -> Steps] /\ job' \in [Requests -> Transfers \cup {NoJob}]
        /\ AllWell'
    BY <2>1, TakeTyping
  <2>3. RowsTypeOK' /\ StoredOK' /\ Unsigned'
    BY <2>1 DEF Inv, RowsTypeOK, StoredOK, Unsigned
  <2>4. HeldOK'
    BY <2>1, <2>2 DEF Inv, HeldOK
  <2>5. QED
    BY <2>2, <2>3, <2>4 DEF Inv
<1>3. CASE BeginSign(r, t)
  <2>1. PICK role \in Signers, action \in {"APPROVE", "REJECT"} :
          sign' = [sign EXCEPT ![r] = Signature(action, approval[t].currentStep, role)]
    BY <1>3 DEF BeginSign
  <2>2. Signature(action, approval[t].currentStep, role) \in Signatures
    BY DEF Actors, Signature, Signatures, Inv, StoredOK, ApprovalRequests
  <2>3. sign' \in [Requests -> Signatures]
    BY <2>1, <2>2 DEF Inv, HeldOK
  <2>4. /\ Take(r, t, "sign") /\ approval[t].status # "none"
        /\ UNCHANGED <<onHand, ledger, seen, pend, rows, held, status, plan, approval,
                       moved, closed, mine, todo, at, gone, carried>>
    BY <1>3 DEF BeginSign, Actionable, committed, uncommitted, transfers
  <2>5. /\ pc' \in [Requests -> Steps] /\ job' \in [Requests -> Transfers \cup {NoJob}]
        /\ AllWell'
    BY <2>4, TakeTyping
  <2>6. RowsTypeOK' /\ StoredOK' /\ Unsigned'
    BY <2>4 DEF Inv, RowsTypeOK, StoredOK, Unsigned
  <2>7. HeldOK'
    BY <2>3, <2>4, <2>5 DEF Inv, HeldOK
  <2>8. QED
    BY <2>5, <2>6, <2>7 DEF Inv
<1>4. QED
  BY <1>1, <1>2, <1>3
\* The lines a reception works on are those of the transfer, with other
\* quantities; those without a quantity are left out.
LEMMA BeginReceiveStep ==
  ASSUME Inv, NEW r \in Requests, NEW t \in Transfers, BeginReceive(r, t)
  PROVE  Inv'
<1> DEFINE p == plan[t]
           Quantities == [DOMAIN p -> Overrides \cup {p[k].qty : k \in DOMAIN p}]
           Received(got) == [k \in DOMAIN p |-> [p[k] EXCEPT !.qty = got[k]]]
<1>1. PICK got \in Quantities :
        /\ \A k \in DOMAIN p : got[k] \in Overrides \cup {p[k].qty}
        /\ mine' = [mine EXCEPT ![r] = Received(got)]
        /\ todo' = [todo EXCEPT ![r] = {k \in DOMAIN p : got[k] > 0}]
  BY DEF BeginReceive
<1>2. /\ Take(r, t, "line")
      /\ UNCHANGED <<onHand, ledger, seen, pend, rows, held, status, plan, approval, moved,
                     closed, sign, at, gone, carried>>
  BY DEF BeginReceive, committed, uncommitted, transfers
<1>3. p \in Seq(TransferLine) /\ DOMAIN p = 1 .. Len(p) /\ Len(p) \in Nat
  BY DEF Inv, StoredOK
<1>4. \A k \in DOMAIN p : p[k] \in TransferLine /\ got[k] \in Int
  <2> SUFFICES ASSUME NEW k \in DOMAIN p
               PROVE  p[k] \in TransferLine /\ got[k] \in Int
    OBVIOUS
  <2> HIDE DEF p
  <2>1. p[k] \in TransferLine
    BY <1>3
  <2>2. p[k].qty \in Int
    BY <2>1 DEF TransferLine
  <2>3. got[k] \in Overrides \cup {p[k].qty}
    BY <1>1
  <2>4. QED
    BY <2>1, <2>2, <2>3, TransfersAssumption
<1>5. \A k \in DOMAIN p : [p[k] EXCEPT !.qty = got[k]] \in TransferLine
  BY <1>4 DEF TransferLine
<1>6. Received(got) \in Seq(TransferLine)
  BY <1>3, <1>5
<1>7. DOMAIN Received(got) = DOMAIN p /\ \A k \in DOMAIN p : Received(got)[k].qty = got[k]
  BY <1>4 DEF TransferLine
<1> DEFINE new == Received(got)
<1>8. /\ mine' \in [Requests -> Seq(TransferLine)] /\ mine'[r] = new
      /\ \A q \in Requests : q # r => mine'[q] = mine[q]
  <2>1. mine' = [mine EXCEPT ![r] = new] /\ new \in Seq(TransferLine)
    BY <1>1, <1>6
  <2> HIDE DEF new
  <2>2. QED
    BY <2>1 DEF Inv, HeldOK
<1> HIDE DEF new
<1>9. /\ todo' \in [Requests -> SUBSET Nat]
      /\ todo'[r] = {k \in DOMAIN p : got[k] > 0}
      /\ \A q \in Requests : q # r => todo'[q] = todo[q]
  <2>1. {k \in DOMAIN p : got[k] > 0} \in SUBSET Nat
    BY <1>3
  <2>2. QED
    BY <1>1, <2>1 DEF Inv, HeldOK
<1>10. /\ pc' \in [Requests -> Steps] /\ job' \in [Requests -> Transfers \cup {NoJob}]
       /\ pc'[r] = "line" /\ job'[r] = t
       /\ \A q \in Requests : q # r => pc'[q] = pc[q] /\ job'[q] = job[q]
  BY <1>2 DEF Take, Inv, HeldOK, Steps
<1>11. ASSUME NEW q \in Requests PROVE Well(q)'
  <2>1. CASE q = r
    <3>1. \A k \in todo'[r] : k \in DOMAIN mine'[r] /\ mine'[r][k].qty > 0
      BY <1>7, <1>8, <1>9 DEF new
    <3>2. QED
      BY <1>10, <2>1, <3>1 DEF Well
  <2>2. CASE q # r
    BY <1>2, <1>8, <1>9, <1>10, <2>2, StaysWell DEF Inv, AllWell, ApprovalKept
  <2>3. QED
    BY <2>1, <2>2
<1>12. RowsTypeOK' /\ StoredOK' /\ Unsigned'
  BY <1>2 DEF Inv, RowsTypeOK, StoredOK, Unsigned
<1>13. HeldOK'
  BY <1>2, <1>8, <1>9, <1>10 DEF Inv, HeldOK
<1>14. QED
  BY <1>11, <1>12, <1>13 DEF Inv, AllWell

\* What FinishSign writes: no step that was decided is open again.
LEMMA SignTyping ==
  ASSUME Inv, NEW r \in Requests, FinishSign(r)
  PROVE  /\ status' \in [Transfers -> TransferStatuses]
         /\ approval' \in [Transfers -> ApprovalRequests]
         /\ Unsigned' /\ ApprovalKept
         /\ \A t \in Transfers : \A k \in StepNumbers :
              approval[t].steps[k].status # "PENDING" =>
                approval'[t].steps[k].status # "PENDING"
<1> DEFINE a == approval[job[r]]
           n == sign[r].step
           role == sign[r].role
<1>1. job[r] \in Transfers /\ a \in ApprovalRequests /\ a.status # "none"
  BY DEF FinishSign, Inv, AllWell, Well, StoredOK
<1>2. n \in StepNumbers /\ role \in Actors
  BY DEF Inv, HeldOK, Signatures
<1>3. StatusApproved(n) \in TransferStatuses /\ "REJECTED" \in TransferStatuses
  BY <1>2 DEF StatusApproved, StatusForActiveStep, IsFinal, StepNumbers, TotalSteps,
              TransferStatuses, Pending
<1>4. ASSUME NEW b \in ApprovalRequests, b.status # "none",
             NEW s \in TransferStatuses, SetStatus(r, s),
             approval' = [approval EXCEPT ![job[r]] = b],
             \A k \in StepNumbers : b.steps[k].status = "PENDING" => a.steps[k].status = "PENDING"
      PROVE  /\ status' \in [Transfers -> TransferStatuses]
             /\ approval' \in [Transfers -> ApprovalRequests]
             /\ Unsigned' /\ ApprovalKept
             /\ \A t \in Transfers : \A k \in StepNumbers :
                  approval[t].steps[k].status # "PENDING" =>
                    approval'[t].steps[k].status # "PENDING"
  <2>1. status' \in [Transfers -> TransferStatuses]
    BY <1>1, <1>4 DEF SetStatus, Inv, StoredOK
  <2>2. /\ approval' \in [Transfers -> ApprovalRequests] /\ approval'[job[r]] = b
        /\ \A t \in Transfers : t # job[r] => approval'[t] = approval[t]
    BY <1>1, <1>4 DEF Inv, StoredOK
  <2>3. Unsigned' /\ ApprovalKept
    BY <1>4, <2>2 DEF Inv, Unsigned, ApprovalKept
  <2>4. QED
    BY <1>4, <2>1, <2>2, <2>3
<1>5. CASE /\ approval' = [approval EXCEPT ![job[r]] = ApproveStep(a, n, role)]
           /\ SetStatus(r, StatusApproved(n))
  <2>1. /\ ApproveStep(a, n, role) \in ApprovalRequests
        /\ ApproveStep(a, n, role).status # "none"
        /\ \A k \in StepNumbers : ApproveStep(a, n, role).steps[k] =
             IF k = n THEN Step("APPROVED", role) ELSE a.steps[k]
    BY <1>1, <1>2, ApproveTyping
  <2>2. Step("APPROVED", role).status # "PENDING"
    BY DEF Step
  <2>3. \A k \in StepNumbers : ApproveStep(a, n, role).steps[k].status = "PENDING" =>
                                 a.steps[k].status = "PENDING"
    BY <2>1, <2>2
  <2>4. QED
    BY <1>3, <1>4, <1>5, <2>1, <2>3
<1>6. CASE /\ approval' = [approval EXCEPT ![job[r]] = RejectStep(a, n, role)]
           /\ SetStatus(r, "REJECTED")
  BY <1>1, <1>2, <1>3, <1>4, <1>6, RejectTyping
<1>7. CASE UNCHANGED <<approval, status>>
  BY <1>7 DEF Inv, StoredOK, Unsigned, ApprovalKept
<1>8. QED
  BY <1>5, <1>6, <1>7 DEF FinishSign

\* Finishing an edit, a deletion, a submission, a signature or a dispatch.
LEMMA FinishStep ==
  ASSUME Inv, NEW r \in Requests,
         \/ FinishEdit(r) \/ FinishDelete(r) \/ FinishSubmit(r) \/ FinishSign(r)
         \/ FinishDispatch(r)
  PROVE  Inv'
<1>1. job[r] \in Transfers
  BY DEF FinishEdit, FinishDelete, FinishSubmit, FinishSign, FinishDispatch, Inv, AllWell, Well
<1>2. CASE FinishEdit(r)
  <2>1. \/ \E p \in Plans[job[r]] : plan' = [plan EXCEPT ![job[r]] = p]
        \/ UNCHANGED plan
    BY <1>2 DEF FinishEdit
  <2>2. /\ Return(r, TRUE)
        /\ UNCHANGED <<onHand, ledger, seen, pend, rows, held, status, approval, moved, closed>>
    BY <1>2 DEF FinishEdit, committed, uncommitted
  <2>3. plan' \in [Transfers -> Seq(TransferLine)]
    BY <1>1, <2>1, TransfersAssumption DEF Inv, StoredOK
  <2>4. RowsTypeOK' /\ StoredOK' /\ Unsigned' /\ ApprovalKept
    BY <2>2, <2>3 DEF Inv, RowsTypeOK, StoredOK, Unsigned, ApprovalKept
  <2>5. QED
    BY <2>2, <2>4, ReturnTyping DEF Inv
<1>3. CASE FinishDelete(r)
  <2>1. /\ status' = [status EXCEPT ![job[r]] = "deleted"] \/ UNCHANGED status
        /\ Return(r, TRUE)
        /\ UNCHANGED <<onHand, ledger, seen, pend, rows, held, plan, approval, moved, closed>>
    BY <1>3 DEF FinishDelete, SetStatus, committed, uncommitted
  <2>2. status' \in [Transfers -> TransferStatuses]
    BY <1>1, <2>1 DEF Inv, StoredOK, TransferStatuses
  <2>3. RowsTypeOK' /\ StoredOK' /\ Unsigned' /\ ApprovalKept
    BY <2>1, <2>2 DEF Inv, RowsTypeOK, StoredOK, Unsigned, ApprovalKept
  <2>4. QED
    BY <2>1, <2>3, ReturnTyping DEF Inv
<1>4. CASE FinishSubmit(r)
  <2>1. \/ /\ status' = [status EXCEPT ![job[r]] = StatusForActiveStep[1]]
           /\ approval' = [approval EXCEPT ![job[r]] = NewRequest]
        \/ UNCHANGED <<status, approval>>
    BY <1>4 DEF FinishSubmit, SetStatus
  <2>2. /\ Return(r, FALSE)
        /\ UNCHANGED <<onHand, ledger, seen, pend, rows, held, plan, moved, closed>>
    BY <1>4 DEF FinishSubmit, committed, uncommitted
  <2>3. StatusForActiveStep[1] \in TransferStatuses
    BY DEF StatusForActiveStep, TransferStatuses, Pending
  <2>4. status' \in [Transfers -> TransferStatuses]
    BY <1>1, <2>1, <2>3 DEF Inv, StoredOK
  <2>5. approval' \in [Transfers -> ApprovalRequests] /\ Unsigned' /\ ApprovalKept
    <3> HIDE DEF NewRequest
    <3>1. CASE UNCHANGED approval
      BY <1>1, <2>2, <3>1 DEF Inv, StoredOK, Unsigned, ApprovalKept
    <3>2. CASE approval' = [approval EXCEPT ![job[r]] = NewRequest]
      <4>1. approval' \in [Transfers -> ApprovalRequests]
        BY <1>1, <3>2, NewRequestTyping DEF Inv, StoredOK
      <4>2. /\ approval'[job[r]] = NewRequest
            /\ \A t \in Transfers : t # job[r] => approval'[t] = approval[t]
        BY <1>1, <3>2 DEF Inv, StoredOK
      <4>3. QED
        BY <1>1, <4>1, <4>2, NewRequestTyping DEF Inv, Unsigned, ApprovalKept
    <3>3. QED
      BY <2>1, <3>1, <3>2
  <2>6. RowsTypeOK' /\ StoredOK'
    BY <2>2, <2>4, <2>5 DEF Inv, RowsTypeOK, StoredOK
  <2>7. QED
    BY <2>2, <2>5, <2>6, ReturnTyping DEF Inv
<1>5. CASE FinishSign(r)
  <2>1. /\ Return(r, FALSE)
        /\ UNCHANGED <<onHand, ledger, seen, pend, rows, held, plan, moved, closed>>
    BY <1>5 DEF FinishSign, committed, uncommitted
  <2>2. /\ status' \in [Transfers -> TransferStatuses]
        /\ approval' \in [Transfers -> ApprovalRequests] /\ Unsigned' /\ ApprovalKept
    BY <1>5, SignTyping
  <2>3. RowsTypeOK' /\ StoredOK'
    BY <2>1, <2>2 DEF Inv, RowsTypeOK, StoredOK
  <2>4. QED
    BY <2>1, <2>2, <2>3, ReturnTyping DEF Inv
<1>6. CASE FinishDispatch(r)
  <2>1. /\ status' = [status EXCEPT ![job[r]] = "IN_TRANSIT"] \/ UNCHANGED status
        /\ Return(r, FALSE)
        /\ UNCHANGED <<onHand, ledger, seen, pend, rows, held, plan, approval, moved, closed>>
    BY <1>6 DEF FinishDispatch, SetStatus, committed, uncommitted
  <2>2. status' \in [Transfers -> TransferStatuses]
    BY <1>1, <2>1 DEF Inv, StoredOK, TransferStatuses
  <2>3. RowsTypeOK' /\ StoredOK' /\ Unsigned' /\ ApprovalKept
    BY <2>1, <2>2 DEF Inv, RowsTypeOK, StoredOK, Unsigned, ApprovalKept
  <2>4. QED
    BY <2>1, <2>3, ReturnTyping DEF Inv
<1>7. QED
  BY <1>2, <1>3, <1>4, <1>5, <1>6

\* The line a reception is moving.
LEMMA LineTyping ==
  ASSUME Inv, NEW r \in Requests, pc[r] \in {"out", "look", "in"}
  PROVE  Line(r).from \in Cells /\ Line(r).to \in Cells /\ Line(r).qty \in Nat
<1>1. mine[r] \in Seq(TransferLine) /\ at[r] \in DOMAIN mine[r] /\ mine[r][at[r]].qty > 0
  BY DEF Inv, HeldOK, AllWell, Well
<1>2. Line(r) \in TransferLine /\ Line(r).qty > 0
  BY <1>1 DEF Line
<1>3. QED
  BY <1>2 DEF TransferLine

\* Only request r, which receives, moves on, to step s of its line.
LEMMA ReceivingKeeps ==
  ASSUME Inv, NEW r \in Requests, NEW s \in {"line", "out", "look", "in"},
         Receiving(r), pc' = [pc EXCEPT ![r] = s], UNCHANGED <<approval, job, mine>>,
         s # "line" => at'[r] \in DOMAIN mine[r] /\ mine[r][at'[r]].qty > 0,
         todo'[r] \subseteq todo[r],
         \A q \in Requests : q # r => todo'[q] = todo[q] /\ at'[q] = at[q]
  PROVE  AllWell' /\ pc' \in [Requests -> Steps]
<1>1. /\ pc' \in [Requests -> Steps] /\ pc'[r] = s
      /\ \A q \in Requests : q # r => pc'[q] = pc[q]
  BY DEF Inv, HeldOK, Steps
<1>2. Well(r)'
  BY <1>1 DEF Inv, AllWell, Well, Receiving
<1>3. ASSUME NEW q \in Requests, q # r PROVE Well(q)'
  BY <1>1, <1>3, StaysWell DEF Inv, AllWell, ApprovalKept
<1>4. QED
  BY <1>1, <1>2, <1>3 DEF AllWell

LEMMA ReceiveStep ==
  ASSUME Inv, NEW r \in Requests,
         ReadSource(r) \/ TakeOut(r) \/ ReadDest(r) \/ PutIn(r)
  PROVE  Inv'
<1>1. CASE ReadSource(r)
  <2>1. PICK k \in todo[r] :
          /\ Select(r, mine[r][k].from)
          /\ at' = [at EXCEPT ![r] = k] /\ todo' = [todo EXCEPT ![r] = @ \ {k}]
    BY <1>1 DEF ReadSource
  <2>2. /\ pc[r] = "line" /\ pc' = [pc EXCEPT ![r] = "out"]
        /\ UNCHANGED <<status, plan, approval, moved, closed, job, sign, mine, gone, carried>>
    BY <1>1 DEF ReadSource, transfers
  <2>3. k \in DOMAIN mine[r] /\ mine[r][k].qty > 0 /\ k \in Nat
    BY <2>2 DEF Inv, AllWell, Well, Receiving, HeldOK
  <2>4. mine[r][k].from \in Cells
    <3>1. mine[r] \in Seq(TransferLine)
      BY DEF Inv, HeldOK
    <3>2. mine[r][k] \in TransferLine
      BY <2>3, <3>1
    <3>3. QED
      BY <3>2 DEF TransferLine
  <2>5. RowsTypeOK'
    BY <2>1, <2>4, RowsTyping DEF Inv
  <2>6. /\ at' \in [Requests -> Nat] /\ at'[r] = k
        /\ todo' \in [Requests -> SUBSET Nat] /\ todo'[r] \subseteq todo[r]
        /\ \A q \in Requests : q # r => todo'[q] = todo[q] /\ at'[q] = at[q]
    BY <2>1, <2>3 DEF Inv, HeldOK
  <2>7. AllWell' /\ pc' \in [Requests -> Steps]
    BY <2>2, <2>3, <2>6, ReceivingKeeps DEF Receiving
  <2>8. StoredOK' /\ HeldOK' /\ Unsigned'
    BY <2>2, <2>6, <2>7 DEF Inv, StoredOK, HeldOK, Unsigned
  <2>9. QED
    BY <2>5, <2>7, <2>8 DEF Inv
<1>2. CASE TakeOut(r) \/ ReadDest(r)
  <2>1. /\ pc[r] \in {"out", "look"} /\ \E s \in {"look", "in"} : pc' = [pc EXCEPT ![r] = s]
        /\ UNCHANGED <<status, plan, approval, moved, closed, job, sign, mine, todo, at, gone,
                       carried>>
    BY <1>2 DEF TakeOut, ReadDest, transfers, local
  <2>2. RowsTypeOK'
    <3>1. /\ Line(r).from \in Cells /\ Line(r).to \in Cells /\ Line(r).qty \in Nat
          /\ -Line(r).qty \in Int
      BY <2>1, LineTyping
    <3> HIDE DEF Line
    <3>2. CASE TakeOut(r)
      BY <3>1, <3>2, RowsTyping DEF TakeOut, Inv
    <3>3. CASE ReadDest(r)
      BY <3>1, <3>3, RowsTyping DEF ReadDest, Inv
    <3>4. QED
      BY <1>2, <3>2, <3>3
  <2>3. at[r] \in DOMAIN mine[r] /\ mine[r][at[r]].qty > 0 /\ Receiving(r)
    BY <2>1 DEF Inv, AllWell, Well, Receiving
  <2>4. AllWell' /\ pc' \in [Requests -> Steps]
    BY <2>1, <2>3, ReceivingKeeps
  <2>5. StoredOK' /\ HeldOK' /\ Unsigned'
    BY <2>1, <2>4 DEF Inv, StoredOK, HeldOK, Unsigned
  <2>6. QED
    BY <2>2, <2>4, <2>5 DEF Inv
<1>3. CASE PutIn(r)
  <2> DEFINE change == NewTotalQty(r) - Visible(r, Line(r).to)
  <2>1. /\ pc[r] = "in" /\ pc' = [pc EXCEPT ![r] = "line"]
        /\ Update(r, Line(r).to, change, InRow(r))
        /\ carried' = [carried EXCEPT ![r] = @ + Line(r).qty]
        /\ UNCHANGED <<status, plan, approval, moved, closed, job, sign, mine, todo, at, gone>>
    BY <1>3 DEF PutIn, transfers
  <2>2. Line(r).to \in Cells /\ Line(r).qty \in Nat
    BY <2>1, LineTyping
  <2>3. change \in Int /\ InRow(r) \in Int
    <3> HIDE DEF Line
    <3>1. NewTotalQty(r) \in Int /\ InRow(r) \in Int
      BY <2>2 DEF NewTotalQty, InRow, Inv, RowsTypeOK
    <3>2. Visible(r, Line(r).to) \in Int
      BY <2>2 DEF Visible, Inv, RowsTypeOK
    <3>3. QED
      BY <3>1, <3>2
  <2>4. carried' \in [Requests -> Nat]
    BY <2>1, <2>2 DEF Inv, HeldOK
  <2> HIDE DEF change, Line
  <2>5. RowsTypeOK'
    BY <2>1, <2>2, <2>3, RowsTyping DEF Inv
  <2>6. AllWell' /\ pc' \in [Requests -> Steps]
    BY <2>1, ReceivingKeeps DEF Receiving
  <2>7. StoredOK' /\ HeldOK' /\ Unsigned'
    BY <2>1, <2>4, <2>6 DEF Inv, StoredOK, HeldOK, Unsigned
  <2>8. QED
    BY <2>5, <2>6, <2>7 DEF Inv
<1>4. QED
  BY <1>1, <1>2, <1>3

\* The end of a transaction.
LEMMA EndStep ==
  ASSUME Inv, NEW r \in Requests, CommitReceive(r) \/ RefuseReceive(r) \/ Abort(r)
  PROVE  Inv'
<1>1. Return(r, FALSE) /\ UNCHANGED <<plan, approval, closed>>
  BY DEF CommitReceive, RefuseReceive, Abort, transfers
<1>2. CASE CommitReceive(r)
  <2>1. /\ CommitRows(r) /\ pc[r] = "line"
        /\ status' = [status EXCEPT ![job[r]] = "RECEIVED"]
        /\ moved' = [moved EXCEPT ![job[r]] = @ + carried[r]]
    BY <1>2 DEF CommitReceive, SetStatus
  <2>2. RowsTypeOK'
    <3>1. CASE Cells = {}
      BY <2>1, <3>1 DEF CommitRows, Forget, Zero, Inv, RowsTypeOK
    <3>2. CASE Cells # {}
      <4>1. PICK c \in Cells : TRUE
        BY <3>2
      <4>2. 0 \in Int /\ RowsTypeOK
        BY DEF Inv
      <4>3. QED
        BY <2>1, <4>1, <4>2, RowsTyping
    <3>3. QED
      BY <3>1, <3>2
  <2>3. job[r] \in Transfers /\ carried[r] \in Nat
    BY <2>1 DEF Inv, AllWell, Well, HeldOK
  <2>4. status' \in [Transfers -> TransferStatuses]
    BY <2>1, <2>3 DEF Inv, StoredOK, TransferStatuses
  <2>5. moved' \in [Transfers -> Nat]
    BY <2>1, <2>3 DEF Inv, StoredOK
  <2>6. StoredOK' /\ Unsigned' /\ ApprovalKept
    BY <1>1, <2>4, <2>5 DEF Inv, StoredOK, Unsigned, ApprovalKept
  <2>7. QED
    BY <1>1, <2>2, <2>6, ReturnTyping DEF Inv
<1>3. CASE RefuseReceive(r) \/ Abort(r)
  <2>1. RollbackRows(r) /\ UNCHANGED <<status, moved>>
    BY <1>3 DEF RefuseReceive, Abort, transfers
  <2>2. RowsTypeOK'
    BY <2>1 DEF RollbackRows, Forget, Zero, committed, Inv, RowsTypeOK
  <2>3. StoredOK' /\ Unsigned' /\ ApprovalKept
    BY <1>1, <2>1 DEF Inv, StoredOK, Unsigned, ApprovalKept
  <2>4. QED
    BY <1>1, <2>2, <2>3, ReturnTyping DEF Inv
<1>4. QED
  BY <1>2, <1>3

LEMMA ElsewhereStep ==
  ASSUME Inv, Elsewhere
  PROVE  Inv'
<1>1. /\ UNCHANGED <<seen, pend, rows, held, status, plan, approval, moved, pc, job, sign,
                     mine, todo, at, gone, carried>>
      /\ onHand' \in [Cells -> Int] /\ ledger' \in [Cells -> Int]
  <2>1. ASSUME NEW c \in Cells, NEW n \in Movements, Move(c, n)
        PROVE  onHand' \in [Cells -> Int] /\ ledger' \in [Cells -> Int]
    BY <2>1, TransfersAssumption DEF Move, Inv, RowsTypeOK
  <2>2. ASSUME NEW v \in BOOLEAN, SetClosed(v)
        PROVE  onHand' \in [Cells -> Int] /\ ledger' \in [Cells -> Int]
    BY <2>2 DEF SetClosed, Inv, RowsTypeOK, committed
  <2>3. UNCHANGED <<seen, pend, rows, held, status, plan, approval, moved, pc, job, sign,
                    mine, todo, at, gone, carried>>
    BY DEF Elsewhere, Move, SetClosed, uncommitted, transfers, local
  <2>4. QED
    BY <2>1, <2>2, <2>3 DEF Elsewhere
<1>2. closed' \in BOOLEAN
  BY DEF Elsewhere, Move, SetClosed, Inv, StoredOK
<1>3. RowsTypeOK' /\ StoredOK' /\ Unsigned'
  BY <1>1, <1>2 DEF Inv, RowsTypeOK, StoredOK, Unsigned
<1>4. HeldOK' /\ AllWell'
  BY <1>1 DEF Inv, HeldOK, AllWell, Well, Receiving
<1>5. QED
  BY <1>3, <1>4 DEF Inv

-----------------------------------------------------------------------------
LEMMA InvInit == Init => Inv
<1> SUFFICES ASSUME Init PROVE Inv
  OBVIOUS
<1>1. RowsTypeOK
  BY DEF Init, RowsInit, RowsTypeOK, Zero
<1>2. StoredOK /\ Unsigned
  <2>1. \A t \in Transfers : approval[t] = NoRequest
    BY DEF Init
  <2>2. approval \in [Transfers -> ApprovalRequests]
    BY NoRequestTyping DEF Init
  <2>3. plan \in [Transfers -> Seq(TransferLine)]
    <3>1. <<>> \in Seq(TransferLine)
      OBVIOUS
    <3>2. QED
      BY <3>1 DEF Init
  <2>4. status \in [Transfers -> TransferStatuses] /\ moved \in [Transfers -> Nat]
    BY DEF Init, TransferStatuses
  <2>5. closed \in BOOLEAN
    BY Zenon DEF Init
  <2>6. Unsigned
    BY <2>1 DEF Unsigned, NoRequest, Step
  <2>7. QED
    BY <2>2, <2>3, <2>4, <2>5, <2>6 DEF StoredOK
<1>3. HeldOK
  <2>1. NoSignature \in Signatures
    BY DEF NoSignature, Signature, Signatures, StepNumbers, TotalSteps, Actors
  <2>2. sign \in [Requests -> Signatures]
    BY <2>1 DEF Init
  <2>3. mine \in [Requests -> Seq(TransferLine)]
    <3>1. <<>> \in Seq(TransferLine)
      OBVIOUS
    <3>2. QED
      BY <3>1 DEF Init
  <2>4. /\ pc \in [Requests -> Steps] /\ job \in [Requests -> Transfers \cup {NoJob}]
        /\ todo \in [Requests -> SUBSET Nat] /\ at \in [Requests -> Nat]
        /\ carried \in [Requests -> Nat]
    BY DEF Init, Steps
  <2>5. gone \in [Requests -> BOOLEAN]
    BY DEF Init
  <2>6. QED
    BY <2>2, <2>3, <2>4, <2>5 DEF HeldOK
<1>4. AllWell
  BY DEF Init, AllWell, Well, Receiving
<1>5. QED
  BY <1>1, <1>2, <1>3, <1>4 DEF Inv

LEMMA InvStep == Inv /\ [Next]_vars => Inv'
<1> SUFFICES ASSUME Inv, [Next]_vars PROVE Inv'
  OBVIOUS
<1>1. ASSUME NEW r \in Requests, Arrive(r) PROVE Inv'
  BY <1>1, ArriveStep, BeginReceiveStep DEF Arrive
<1>2. ASSUME NEW r \in Requests, Continue(r) PROVE Inv'
  BY <1>2, FinishStep, ReceiveStep, EndStep DEF Continue
<1>3. CASE UNCHANGED vars
  <2>1. UNCHANGED <<onHand, ledger, seen, pend, rows, held, status, plan, approval, moved,
                    closed, pc, job, sign, mine, todo, at, gone, carried>>
    BY <1>3 DEF vars, committed, uncommitted, transfers, local
  <2>2. RowsTypeOK' /\ StoredOK' /\ Unsigned'
    BY <2>1 DEF Inv, RowsTypeOK, StoredOK, Unsigned
  <2>3. HeldOK' /\ AllWell'
    BY <2>1 DEF Inv, HeldOK, AllWell, Well, Receiving
  <2>4. QED
    BY <2>2, <2>3 DEF Inv
<1>4. QED
  BY <1>1, <1>2, <1>3, ElsewhereStep DEF Next

\* What is stored of transfers and their approval requests is well typed.
THEOREM TransferTypeCorrect == Spec => []TypeOK
<1>1. Inv => TypeOK
  BY InvTypes
<1>2. QED
  BY InvInit, InvStep, <1>1, PTL DEF Spec

\* Only FinishSubmit and FinishSign write an approval request.  The first
\* creates it where there is none, and there nothing was decided; the second
\* decides steps and cancels pending ones.
LEMMA SignaturesStayStep ==
  ASSUME Inv, [Next]_vars
  PROVE  \A t \in Transfers : \A k \in StepNumbers :
           approval[t].steps[k].status # "PENDING" =>
             approval'[t].steps[k].status # "PENDING"
<1>1. ASSUME NEW r \in Requests, FinishSubmit(r)
      PROVE  \A t \in Transfers : \A k \in StepNumbers :
               approval[t].steps[k].status # "PENDING" =>
                 approval'[t].steps[k].status # "PENDING"
  <2>1. CASE UNCHANGED approval
    BY <2>1
  <2>2. CASE approval[job[r]].status = "none"
             /\ approval' = [approval EXCEPT ![job[r]] = NewRequest]
    <3>1. \A t \in Transfers : t # job[r] => approval'[t] = approval[t]
      BY <2>2 DEF Inv, StoredOK
    <3>2. \A t \in Transfers : t = job[r] =>
            \A k \in StepNumbers : approval[t].steps[k].status = "PENDING"
      BY <2>2 DEF Inv, Unsigned
    <3>3. QED
      BY <3>1, <3>2
  <2>3. QED
    BY <1>1, <2>1, <2>2 DEF FinishSubmit, Submittable
<1>2. ASSUME NEW r \in Requests, FinishSign(r)
      PROVE  \A t \in Transfers : \A k \in StepNumbers :
               approval[t].steps[k].status # "PENDING" =>
                 approval'[t].steps[k].status # "PENDING"
  BY <1>2, SignTyping
<1>3. ASSUME NEW r \in Requests, Arrive(r) PROVE UNCHANGED approval
  BY <1>3 DEF Arrive, CreateTransfer, BeginEdit, BeginOnDraft, BeginSign, BeginDispatch,
              BeginReceive, transfers
<1>4. ASSUME NEW r \in Requests, Continue(r), ~FinishSubmit(r), ~FinishSign(r)
      PROVE  UNCHANGED approval
  BY <1>4 DEF Continue, FinishEdit, FinishDelete, FinishDispatch, ReadSource, TakeOut,
              ReadDest, PutIn, CommitReceive, RefuseReceive, Abort, transfers
<1>5. ASSUME Elsewhere PROVE UNCHANGED approval
  BY <1>5 DEF Elsewhere, Move, SetClosed, transfers
<1>6. CASE UNCHANGED vars
  BY <1>6 DEF vars, transfers
<1>7. QED
  BY <1>1, <1>2, <1>3, <1>4, <1>5, <1>6 DEF Next

\* However submissions, signatures and retries overlap, a step of the approval
\* chain that was decided is never pending again.
THEOREM ApprovalNeverReopens == Spec => SignaturesStay
<1>1. Inv /\ [Next]_vars =>
        [\A t \in Transfers : \A k \in StepNumbers :
           approval[t].steps[k].status # "PENDING" =>
             approval'[t].steps[k].status # "PENDING"]_vars
  BY SignaturesStayStep
<1>2. QED
  BY InvInit, InvStep, <1>1, PTL DEF Spec, SignaturesStay

-----------------------------------------------------------------------------
(* What is promised to requests that do not overlap *)

Solo == \A p, q \in Requests : pc[p] # "idle" /\ pc[q] # "idle" => p = q

\* Balances are as booked, and never negative.
Booked == \A c \in Cells : onHand[c] >= 0 /\ onHand[c] = ledger[c]

\* The request has changed balances as its ledger rows say, leaves none negative,
\* and the balance it has read last has not changed since.
RowsFit(r) ==
  /\ ~Receiving(r) => \A c \in Cells : pend[r][c] = 0
  /\ \A c \in Cells : pend[r][c] = rows[r][c] /\ onHand[c] + pend[r][c] >= 0
  /\ pc[r] = "out" => onHand[Line(r).from] + pend[r][Line(r).from] >= Line(r).qty
  /\ pc[r] = "in" => seen[r] = onHand[Line(r).to] + pend[r][Line(r).to]

\* Step k of the chain was approved by a role that may.
SignedBy(a, k) ==
  /\ a.steps[k].status = "APPROVED"
  /\ a.steps[k].actedBy \in {TRANSFER_APPROVAL_ROLE_CODES[k], "ADMIN", "SUPER_ADMIN"}

Undrafted(t) == status[t] \in {"none", "DRAFT"} => approval[t].status = "none"

PendingAgrees(t) ==
  status[t] \in Pending =>
    /\ approval[t].status = "PENDING"
    /\ status[t] = StatusForActiveStep[approval[t].currentStep]
    /\ \A k \in StepNumbers :
         IF k < approval[t].currentStep THEN SignedBy(approval[t], k)
         ELSE approval[t].steps[k].status = "PENDING"

ApprovedAgrees(t) ==
  status[t] \in {"APPROVED", "IN_TRANSIT", "RECEIVED"} =>
    approval[t].status = "APPROVED" /\ \A k \in StepNumbers : SignedBy(approval[t], k)

RejectedAgrees(t) ==
  status[t] = "REJECTED" =>
    /\ approval[t].status = "REJECTED"
    /\ \A k \in StepNumbers : approval[t].steps[k].status # "PENDING"

Agrees(t) == Undrafted(t) /\ PendingAgrees(t) /\ ApprovedAgrees(t) /\ RejectedAgrees(t)

\* The status that the request has read is the one stored, the step it signs is
\* the current one, and its role may sign it; the month is open.
ReadHolds(r) ==
  /\ pc[r] \in {"edit", "delete", "submit"} => status[job[r]] = "DRAFT"
  /\ pc[r] = "sign" =>
       /\ status[job[r]] \in Pending
       /\ sign[r].step = approval[job[r]].currentStep
       /\ CanAct(sign[r].role, sign[r].step)
  /\ pc[r] = "dispatch" => status[job[r]] = "APPROVED"
  /\ Receiving(r) => status[job[r]] = "IN_TRANSIT" /\ ~closed

SerialInv ==
  /\ Solo /\ Booked
  /\ \A t \in Transfers : Agrees(t)
  /\ \A r \in Requests : RowsFit(r) /\ ReadHolds(r)

\* The rows of a transaction add up to nothing, but for the line it has taken
\* out and not yet put in.
RowsSum(r) ==
  TotalOver(rows[r], Cells) = IF pc[r] \in {"look", "in"} THEN -Line(r).qty ELSE 0

SumInv == \A r \in Requests : RowsSum(r) /\ (~Receiving(r) => \A c \in Cells : rows[r][c] = 0)

LEMMA SumIsTotal == ASSUME NEW f PROVE Sum(f) = TotalOver(f, Cells)
BY DEF Sum, TotalOver

\* A request that did not move, and one without rows.
LEMMA SumStays ==
  ASSUME NEW q \in Requests, SumInv, pc'[q] = pc[q], rows'[q] = rows[q], mine'[q] = mine[q],
         at'[q] = at[q]
  PROVE  RowsSum(q)' /\ (~Receiving(q)' => \A c \in Cells : rows'[q][c] = 0)
BY DEF SumInv, RowsSum, Line, Receiving

LEMMA SumOfNothing ==
  ASSUME NEW q \in Requests, \A c \in Cells : rows'[q][c] = 0, pc'[q] \notin {"look", "in"}
  PROVE  RowsSum(q)' /\ (~Receiving(q)' => \A c \in Cells : rows'[q][c] = 0)
BY TotalZero, CellsAssumption DEF RowsSum

\* One balance changes: the sum over all changes by as much.
LEMMA CellTotalChanged ==
  ASSUME NEW f, NEW g, NEW c \in Cells, \A d \in Cells : f[d] \in Int, \A d \in Cells : g[d] \in Int,
         \A d \in Cells : d # c => g[d] = f[d]
  PROVE  TotalOver(g, Cells) = TotalOver(f, Cells) + g[c] - f[c]
BY TotalChanged, CellsAssumption

\* A row is added.
LEMMA SumOfUpdate ==
  ASSUME RowsTypeOK, NEW r \in Requests, NEW c \in Cells, NEW change \in Int, NEW row \in Int,
         Update(r, c, change, row)
  PROVE  /\ TotalOver(rows'[r], Cells) = TotalOver(rows[r], Cells) + row
         /\ TotalOver(rows[r], Cells) \in Int
         /\ \A q \in Requests : q # r => rows'[q] = rows[q]
<1>1. rows' = [rows EXCEPT ![r][c] = @ + row]
  BY DEF Update
<1>2. /\ rows'[r][c] = rows[r][c] + row
      /\ \A d \in Cells \ {c} : rows'[r][d] = rows[r][d]
      /\ \A d \in Cells : rows[r][d] \in Int /\ rows'[r][d] \in Int
      /\ \A q \in Requests : q # r => rows'[q] = rows[q]
  BY <1>1 DEF RowsTypeOK
<1>3. TotalOver(rows'[r], Cells) = TotalOver(rows[r], Cells) + rows'[r][c] - rows[r][c]
  <2> DEFINE f == rows[r]
             g == rows'[r]
  <2>1. /\ \A d \in Cells : f[d] \in Int
        /\ \A d \in Cells : g[d] \in Int
        /\ \A d \in Cells : d # c => g[d] = f[d]
    BY <1>2
  <2> HIDE DEF f, g
  <2>2. TotalOver(g, Cells) = TotalOver(f, Cells) + g[c] - f[c]
    BY <2>1, CellTotalChanged, Zenon
  <2>3. QED
    BY <2>2 DEF f, g
<1>4. TotalOver(rows[r], Cells) \in Int
  BY <1>2, TotalInt, CellsAssumption
<1>5. rows[r][c] \in Int
  BY <1>2
<1>6. QED
  BY <1>2, <1>3, <1>4, <1>5

LEMMA SumInit == Init => SumInv
<1> SUFFICES ASSUME Init PROVE SumInv
  OBVIOUS
<1>1. \A q \in Requests : pc[q] = "idle" /\ \A c \in Cells : rows[q][c] = 0
  BY DEF Init, RowsInit, Zero
<1>2. \A q \in Requests : TotalOver(rows[q], Cells) = 0
  BY <1>1, TotalZero, CellsAssumption
<1>3. QED
  BY <1>1, <1>2 DEF SumInv, RowsSum

\* Everything but a reception leaves the rows as they are.
LEMMA SumQuiet ==
  ASSUME Inv, SumInv, NEW r \in Requests, UNCHANGED rows, ~Receiving(r),
         pc'[r] \notin {"look", "in"},
         \A q \in Requests : q # r => pc'[q] = pc[q] /\ mine'[q] = mine[q] /\ at'[q] = at[q]
  PROVE  SumInv'
<1>1. ASSUME NEW q \in Requests
      PROVE  RowsSum(q)' /\ (~Receiving(q)' => \A c \in Cells : rows'[q][c] = 0)
  <2>1. CASE q = r
    <3>1. \A c \in Cells : rows'[r][c] = 0
      BY DEF SumInv
    <3>2. QED
      BY <2>1, <3>1, SumOfNothing
  <2>2. CASE q # r
    BY <2>2, SumStays
  <2>3. QED
    BY <2>1, <2>2
<1>2. QED
  BY <1>1 DEF SumInv

LEMMA SumStep == Inv /\ SumInv /\ [Next]_vars => SumInv'
<1> SUFFICES ASSUME Inv, SumInv, [Next]_vars PROVE SumInv'
  OBVIOUS
<1>1. ASSUME NEW r \in Requests, NEW t \in Transfers,
             \/ CreateTransfer(r, t) \/ BeginEdit(r, t) \/ BeginOnDraft(r, t)
             \/ BeginSign(r, t) \/ BeginDispatch(r, t) \/ BeginReceive(r, t)
      PROVE  SumInv'
  <2>1. pc[r] = "idle" /\ UNCHANGED <<rows, at>>
    BY <1>1 DEF CreateTransfer, BeginEdit, BeginOnDraft, BeginSign, BeginDispatch, BeginReceive,
                Take, uncommitted, local
  <2>2. /\ pc'[r] \notin {"look", "in"}
        /\ \A q \in Requests : q # r => pc'[q] = pc[q] /\ mine'[q] = mine[q]
    BY <1>1, <2>1 DEF CreateTransfer, BeginEdit, BeginOnDraft, BeginSign, BeginDispatch,
                      BeginReceive, Take, local, Inv, HeldOK
  <2>3. QED
    BY <2>1, <2>2, SumQuiet DEF Receiving
<1>2. ASSUME NEW r \in Requests,
             FinishEdit(r) \/ FinishDelete(r) \/ FinishSubmit(r) \/ FinishSign(r) \/ FinishDispatch(r)
      PROVE  SumInv'
  <2>1. UNCHANGED rows /\ ~Receiving(r) /\ \E d \in BOOLEAN : Return(r, d)
    BY <1>2 DEF FinishEdit, FinishDelete, FinishSubmit, FinishSign, FinishDispatch, uncommitted,
                Receiving
  <2>2. /\ pc'[r] \notin {"look", "in"}
        /\ \A q \in Requests : q # r => pc'[q] = pc[q] /\ mine'[q] = mine[q] /\ at'[q] = at[q]
    BY <2>1 DEF Return, Inv, HeldOK
  <2>3. QED
    BY <2>1, <2>2, SumQuiet
<1>3. ASSUME NEW r \in Requests, ReadSource(r) PROVE SumInv'
  <2>1. /\ UNCHANGED <<rows, mine>> /\ pc[r] = "line"
        /\ pc'[r] = "out" /\ \A q \in Requests : q # r => pc'[q] = pc[q] /\ at'[q] = at[q]
    BY <1>3 DEF ReadSource, Select, Inv, HeldOK
  <2>2. RowsSum(r)' /\ Receiving(r)'
    BY <2>1 DEF SumInv, RowsSum, Receiving
  <2>3. QED
    BY <2>1, <2>2, SumStays DEF SumInv
<1>4. ASSUME NEW r \in Requests, TakeOut(r) PROVE SumInv'
  <2>1. /\ UNCHANGED <<mine, at>> /\ pc[r] = "out"
        /\ pc'[r] = "look" /\ \A q \in Requests : q # r => pc'[q] = pc[q]
    BY <1>4 DEF TakeOut, local, Inv, HeldOK
  <2>2. /\ Line(r).from \in Cells /\ Line(r).to \in Cells /\ Line(r).qty \in Nat
        /\ -Line(r).qty \in Int
    BY <2>1, LineTyping
  <2>3. Line(r)' = Line(r)
    BY <2>1 DEF Line
  <2> HIDE DEF Line
  <2>4. /\ TotalOver(rows'[r], Cells) = TotalOver(rows[r], Cells) + -Line(r).qty
        /\ \A q \in Requests : q # r => rows'[q] = rows[q]
    BY <1>4, <2>2, SumOfUpdate DEF TakeOut, Inv
  <2>5. TotalOver(rows[r], Cells) = 0
    BY <2>1 DEF SumInv, RowsSum
  <2>6. RowsSum(r)' /\ Receiving(r)'
    BY <2>1, <2>2, <2>3, <2>4, <2>5 DEF RowsSum, Receiving
  <2>7. QED
    BY <2>1, <2>4, <2>6, SumStays DEF SumInv
<1>5. ASSUME NEW r \in Requests, ReadDest(r) PROVE SumInv'
  <2>1. /\ UNCHANGED <<rows, mine, at>> /\ pc[r] = "look"
        /\ pc'[r] = "in" /\ \A q \in Requests : q # r => pc'[q] = pc[q]
    BY <1>5 DEF ReadDest, Select, local, Inv, HeldOK
  <2>2. RowsSum(r)' /\ Receiving(r)'
    BY <2>1 DEF SumInv, RowsSum, Receiving, Line
  <2>3. QED
    BY <2>1, <2>2, SumStays DEF SumInv
<1>6. ASSUME NEW r \in Requests, PutIn(r) PROVE SumInv'
  <2> DEFINE change == NewTotalQty(r) - Visible(r, Line(r).to)
  <2>1. /\ UNCHANGED <<mine, at>> /\ pc[r] = "in" /\ Update(r, Line(r).to, change, Line(r).qty)
        /\ pc'[r] = "line" /\ \A q \in Requests : q # r => pc'[q] = pc[q]
    BY <1>6 DEF PutIn, InRow, Inv, HeldOK
  <2>2. Line(r).to \in Cells /\ Line(r).qty \in Nat
    BY <2>1, LineTyping
  <2> HIDE DEF Line
  <2>3. change \in Int
    BY <2>2 DEF NewTotalQty, Visible, Inv, RowsTypeOK
  <2> HIDE DEF change
  <2>4. /\ TotalOver(rows'[r], Cells) = TotalOver(rows[r], Cells) + Line(r).qty
        /\ \A q \in Requests : q # r => rows'[q] = rows[q]
    BY <2>1, <2>2, <2>3, SumOfUpdate DEF Inv
  <2>5. TotalOver(rows[r], Cells) = -Line(r).qty
    BY <2>1 DEF SumInv, RowsSum
  <2>6. RowsSum(r)' /\ Receiving(r)'
    BY <2>1, <2>2, <2>4, <2>5 DEF RowsSum, Receiving
  <2>7. QED
    BY <2>1, <2>4, <2>6, SumStays DEF SumInv
<1>7. ASSUME NEW r \in Requests, CommitReceive(r) \/ RefuseReceive(r) \/ Abort(r)
      PROVE  SumInv'
  <2>1. Forget(r) /\ \E d \in BOOLEAN : Return(r, d)
    BY <1>7 DEF CommitReceive, RefuseReceive, Abort, CommitRows, RollbackRows
  <2>2. /\ \A c \in Cells : rows'[r][c] = 0
        /\ \A q \in Requests : q # r => rows'[q] = rows[q]
    BY <2>1 DEF Forget, Zero, Inv, RowsTypeOK
  <2>3. /\ pc'[r] = "idle"
        /\ \A q \in Requests : q # r => pc'[q] = pc[q] /\ mine'[q] = mine[q] /\ at'[q] = at[q]
    BY <2>1 DEF Return, Inv, HeldOK
  <2>4. QED
    BY <2>2, <2>3, SumStays, SumOfNothing DEF SumInv
<1>8. CASE Elsewhere \/ UNCHANGED vars
  <2>1. UNCHANGED <<rows, pc, mine, at>>
    BY <1>8 DEF Elsewhere, Move, SetClosed, vars, uncommitted, local
  <2>2. QED
    BY <2>1, SumStays DEF SumInv
<1>9. QED
  BY <1>1, <1>2, <1>3, <1>4, <1>5, <1>6, <1>7, <1>8 DEF Next, Arrive, Continue

\* Only the commit of a reception changes the ledger, and its rows cancel out.
LEMMA SumKept ==
  ASSUME Inv, SumInv, [Next]_vars, ~UNCHANGED pc
  PROVE  Sum(ledger') = Sum(ledger)
<1>1. ASSUME NEW r \in Requests, CommitReceive(r) PROVE Sum(ledger') = Sum(ledger)
  <2>1. ledger' = [c \in Cells |-> ledger[c] + rows[r][c]]
    BY <1>1 DEF CommitReceive, CommitRows
  <2>2. \A c \in Cells : /\ ledger[c] \in Int /\ rows[r][c] \in Int
                         /\ ledger'[c] = ledger[c] + rows[r][c]
    BY <2>1 DEF Inv, RowsTypeOK
  <2>3. TotalOver(ledger', Cells) = TotalOver(ledger, Cells) + TotalOver(rows[r], Cells)
    BY <2>2, TotalOfSums, CellsAssumption
  <2>4. TotalOver(rows[r], Cells) = 0
    BY <1>1 DEF CommitReceive, SumInv, RowsSum
  <2>5. TotalOver(ledger, Cells) \in Int
    BY <2>2, TotalInt, CellsAssumption
  <2>6. QED
    BY <2>3, <2>4, <2>5, SumIsTotal
<1>2. ASSUME NEW r \in Requests, Arrive(r) PROVE UNCHANGED ledger
  BY <1>2 DEF Arrive, CreateTransfer, BeginEdit, BeginOnDraft, BeginSign, BeginDispatch,
              BeginReceive, committed
<1>3. ASSUME NEW r \in Requests, Continue(r), ~CommitReceive(r) PROVE UNCHANGED ledger
  BY <1>3 DEF Continue, FinishEdit, FinishDelete, FinishSubmit, FinishSign, FinishDispatch,
              ReadSource, TakeOut, ReadDest, PutIn, RefuseReceive, Abort, Select, Update,
              RollbackRows, committed
<1>4. ~Elsewhere /\ ~UNCHANGED vars
  BY DEF Elsewhere, Move, SetClosed, vars
<1>5. UNCHANGED ledger => Sum(ledger') = Sum(ledger)
  OBVIOUS
<1>6. QED
  BY <1>1, <1>2, <1>3, <1>4, <1>5 DEF Next

-----------------------------------------------------------------------------
(* One request at a time *)

\* A step that no two requests overlap with is the arrival of a request, with
\* nobody else in progress, the step of the only one, or one of somebody else,
\* with none in progress.
LEMMA Modes ==
  ASSUME Inv, Solo, Next, NoteOverlap, ~overlapped'
  PROVE  /\ Solo'
         /\ \/ \E r \in Requests : Arrive(r) /\ \A q \in Requests : pc[q] = "idle"
            \/ \E r \in Requests : Continue(r) /\ pc[r] # "idle"
                                   /\ \A q \in Requests : q # r => pc[q] = "idle"
            \/ Elsewhere /\ \A q \in Requests : pc[q] = "idle"
<1>1. /\ ~(Cardinality({q \in Requests : pc'[q] # "idle"}) > 1)
      /\ UNCHANGED pc => \A q \in Requests : pc[q] = "idle"
  BY DEF NoteOverlap, Busy
<1>2. ASSUME NEW r \in Requests, \A q \in Requests : q # r => pc'[q] = pc[q] PROVE Solo'
  <2>1. \A a, b \in Requests : pc'[a] # "idle" /\ pc'[b] # "idle" => a = b
    BY <1>1, <1>2, OneMoves DEF Solo
  <2>2. QED
    BY <2>1 DEF Solo
<1>3. ASSUME NEW r \in Requests, Arrive(r)
      PROVE  Solo' /\ \A q \in Requests : pc[q] = "idle"
  <2>1. pc[r] = "idle" /\ \A q \in Requests : q # r => pc'[q] = pc[q]
    BY <1>3 DEF Arrive, CreateTransfer, BeginEdit, BeginOnDraft, BeginSign, BeginDispatch,
                BeginReceive, Take, Inv, HeldOK
  <2>2. UNCHANGED pc \/ pc'[r] # "idle"
    BY <1>3 DEF Arrive, CreateTransfer, BeginEdit, BeginOnDraft, BeginSign, BeginDispatch,
                BeginReceive, Take, Inv, HeldOK
  <2>3. Solo'
    BY <1>2, <2>1
  <2>4. QED
    BY <1>1, <2>1, <2>2, <2>3 DEF Solo
<1>4. ASSUME NEW r \in Requests, Continue(r)
      PROVE  Solo' /\ pc[r] # "idle" /\ \A q \in Requests : q # r => pc[q] = "idle"
  <2>1. pc[r] # "idle"
    BY <1>4 DEF Continue, FinishEdit, FinishDelete, FinishSubmit, FinishSign, FinishDispatch,
                ReadSource, TakeOut, ReadDest, PutIn, CommitReceive, RefuseReceive, Abort
  <2>2. \A q \in Requests : q # r => pc'[q] = pc[q]
    BY <1>4 DEF Continue, FinishEdit, FinishDelete, FinishSubmit, FinishSign, FinishDispatch,
                ReadSource, TakeOut, ReadDest, PutIn, CommitReceive, RefuseReceive, Abort,
                Return, Inv, HeldOK
  <2>3. QED
    BY <1>2, <2>1, <2>2 DEF Solo
<1>5. ASSUME Elsewhere PROVE Solo' /\ \A q \in Requests : pc[q] = "idle"
  <2>1. UNCHANGED pc
    BY <1>5 DEF Elsewhere, Move, SetClosed
  <2>2. QED
    BY <1>1, <2>1 DEF Solo
<1>6. QED
  BY <1>3, <1>4, <1>5 DEF Next

LEMMA IdleFits ==
  ASSUME NEW q \in Requests, pc'[q] = "idle", Booked', RowsTypeOK',
         \A c \in Cells : pend'[q][c] = 0 /\ rows'[q][c] = 0
  PROVE  RowsFit(q)' /\ ReadHolds(q)'
<1>1. \A c \in Cells : pend'[q][c] = rows'[q][c] /\ onHand'[c] + pend'[q][c] >= 0
  BY DEF Booked, RowsTypeOK
<1>2. QED
  BY <1>1 DEF RowsFit, ReadHolds, Receiving

\* Idle requests have no rows.
LEMMA IdleRows ==
  ASSUME SerialInv, NEW q \in Requests, ~Receiving(q)
  PROVE  \A c \in Cells : pend[q][c] = 0 /\ rows[q][c] = 0
BY DEF SerialInv, RowsFit

\* No rows are touched, and nobody is receiving but one that has just begun.
LEMMA RowsQuiet ==
  ASSUME Inv, SerialInv, UNCHANGED <<onHand, ledger, pend, rows>>,
         \A q \in Requests : ~Receiving(q) /\ pc'[q] \notin {"out", "look", "in"}
  PROVE  Booked' /\ \A q \in Requests : RowsFit(q)'
BY DEF SerialInv, Booked, RowsFit, Receiving

LEMMA AgreesStays ==
  ASSUME NEW t, Agrees(t), status'[t] = status[t], approval'[t] = approval[t]
  PROVE  Agrees(t)'
BY DEF Agrees, Undrafted, PendingAgrees, ApprovedAgrees, RejectedAgrees, SignedBy

\* Requests arrive one at a time.
LEMMA SerialArrive ==
  ASSUME Inv, SerialInv, Solo', NEW r \in Requests, Arrive(r),
         \A q \in Requests : pc[q] = "idle"
  PROVE  SerialInv'
<1>1. /\ UNCHANGED <<onHand, ledger, pend, rows, approval, closed>>
  BY DEF Arrive, CreateTransfer, BeginEdit, BeginOnDraft, BeginSign, BeginDispatch,
         BeginReceive, committed, uncommitted, transfers
<1>2. PICK t \in Transfers :
        \/ CreateTransfer(r, t) \/ BeginEdit(r, t) \/ BeginOnDraft(r, t)
        \/ BeginSign(r, t) \/ BeginDispatch(r, t) \/ BeginReceive(r, t)
  BY DEF Arrive
<1>3. \A q \in Requests : q # r => pc'[q] = "idle"
  BY <1>2 DEF CreateTransfer, BeginEdit, BeginOnDraft, BeginSign, BeginDispatch,
              BeginReceive, Take, Inv, HeldOK
<1>4. pc'[r] \in {"idle", "edit", "delete", "submit", "sign", "dispatch", "line"}
  BY <1>2 DEF CreateTransfer, BeginEdit, BeginOnDraft, BeginSign, BeginDispatch,
              BeginReceive, Take, Inv, HeldOK
<1>5. Booked' /\ \A q \in Requests : RowsFit(q)'
  BY <1>1, <1>3, <1>4, RowsQuiet DEF Receiving
<1>6. ASSUME NEW u \in Transfers PROVE Agrees(u)'
  <2>1. CASE status'[u] = status[u]
    BY <1>1, <2>1, AgreesStays DEF SerialInv
  <2>2. CASE status'[u] # status[u]
    <3>1. status[u] = "none" /\ status'[u] = "DRAFT"
      BY <1>2, <2>2 DEF CreateTransfer, BeginEdit, BeginOnDraft, BeginSign, BeginDispatch,
                        BeginReceive, transfers, Inv, StoredOK
    <3>2. QED
      BY <1>1, <3>1 DEF SerialInv, Agrees, Undrafted, PendingAgrees, ApprovedAgrees,
                        RejectedAgrees, Pending
  <2>3. QED
    BY <2>1, <2>2
<1>7. ReadHolds(r)'
  <2>1. CASE CreateTransfer(r, t)
    BY <2>1 DEF CreateTransfer, ReadHolds, Receiving
  <2>2. CASE BeginEdit(r, t) \/ BeginOnDraft(r, t) \/ BeginDispatch(r, t)
    <3>1. /\ UNCHANGED status /\ job'[r] = t
          /\ \/ pc'[r] \in {"edit", "delete", "submit"} /\ status[t] = "DRAFT"
             \/ pc'[r] = "dispatch" /\ status[t] = "APPROVED"
      BY <2>2 DEF BeginEdit, BeginOnDraft, BeginDispatch, Editable, Take, transfers, Inv, HeldOK
    <3>2. QED
      BY <3>1 DEF ReadHolds, Receiving
  <2>3. CASE BeginSign(r, t)
    <3>1. PICK role \in Signers, action \in {"APPROVE", "REJECT"} :
            /\ Actionable(approval[t], role)
            /\ sign' = [sign EXCEPT ![r] = Signature(action, approval[t].currentStep, role)]
      BY <2>3 DEF BeginSign
    <3>2. /\ sign'[r].step = approval[t].currentStep /\ sign'[r].role = role
          /\ UNCHANGED status /\ job'[r] = t /\ pc'[r] = "sign" /\ status[t] \in Pending
      BY <2>3, <3>1 DEF BeginSign, Signature, Take, transfers, Inv, HeldOK
    <3>3. CanAct(role, approval[t].currentStep)
      BY <3>1 DEF Actionable
    <3>4. QED
      BY <1>1, <3>2, <3>3 DEF ReadHolds, Receiving, CanAct
  <2>4. CASE BeginReceive(r, t)
    <3>1. /\ UNCHANGED status /\ job'[r] = t /\ pc'[r] = "line"
          /\ status[t] = "IN_TRANSIT" /\ ~closed
      BY <2>4 DEF BeginReceive, Receivable, Take, transfers, Inv, HeldOK
    <3>2. QED
      BY <1>1, <3>1 DEF ReadHolds, Receiving
  <2>5. QED
    BY <1>2, <2>1, <2>2, <2>3, <2>4
<1>8. \A q \in Requests : q # r => ReadHolds(q)'
  BY <1>3 DEF ReadHolds, Receiving
<1>9. QED
  BY <1>5, <1>6, <1>7, <1>8 DEF SerialInv

\* A signature on the step that is current, by a role that may sign it.
LEMMA SignAgrees ==
  ASSUME Inv, SerialInv, NEW r \in Requests, FinishSign(r), NEW t, t = job[r]
  PROVE  Agrees(t)'
<1> DEFINE a == approval[t]
           k == sign[r].step
           role == sign[r].role
<1>1. /\ t \in Transfers /\ a \in ApprovalRequests /\ k \in StepNumbers /\ role \in Actors
      /\ status[t] \in Pending /\ k = a.currentStep /\ CanAct(role, k)
  BY DEF FinishSign, Inv, AllWell, Well, StoredOK, HeldOK, Signatures, SerialInv, ReadHolds
<1>2. /\ a.status = "PENDING"
      /\ \A j \in StepNumbers : IF j < k THEN SignedBy(a, j) ELSE a.steps[j].status = "PENDING"
  BY <1>1 DEF SerialInv, Agrees, PendingAgrees
<1>3. CASE approval' = [approval EXCEPT ![t] = ApproveStep(a, k, role)]
           /\ status' = [status EXCEPT ![t] = StatusApproved(k)]
  <2> DEFINE b == ApproveStep(a, k, role)
  <2>1. approval'[t] = b /\ status'[t] = StatusApproved(k)
    BY <1>1, <1>3 DEF Inv, StoredOK
  <2>2. \A j \in StepNumbers : b.steps[j] = IF j = k THEN Step("APPROVED", role) ELSE a.steps[j]
    BY <1>1, ApproveTyping
  <2>3. /\ b.status = (IF IsFinal(k) THEN "APPROVED" ELSE a.status)
        /\ b.currentStep = (IF IsFinal(k) THEN k ELSE k + 1)
    BY DEF ApproveStep
  <2> HIDE DEF b, a, k, role
  <2>4. SignedBy(b, k)
    BY <1>1, <2>2 DEF SignedBy, Step, CanAct
  <2>5. \A j \in StepNumbers : j < k => SignedBy(b, j)
    BY <1>1, <1>2, <2>2 DEF SignedBy, StepNumbers
  <2>6. CASE IsFinal(k)
    <3>1. k = 3 /\ \A j \in StepNumbers : SignedBy(b, j)
      BY <1>1, <2>4, <2>5, <2>6 DEF IsFinal, StepNumbers, TotalSteps
    <3>2. status'[t] = "APPROVED" /\ b.status = "APPROVED"
      BY <2>1, <2>3, <2>6 DEF StatusApproved
    <3>3. QED
      BY <2>1, <3>1, <3>2 DEF Agrees, Undrafted, PendingAgrees, ApprovedAgrees, RejectedAgrees,
                              Pending, SignedBy
  <2>7. CASE ~IsFinal(k)
    <3>1. k \in {1, 2} /\ b.status = "PENDING" /\ b.currentStep = k + 1
      BY <1>1, <1>2, <2>3, <2>7 DEF IsFinal, StepNumbers, TotalSteps
    <3>2. status'[t] = StatusForActiveStep[k + 1] /\ status'[t] \in {"PENDING_FINANCE", "PENDING_FINAL"}
      BY <2>1, <2>7, <3>1 DEF StatusApproved, StatusForActiveStep
    <3>3. \A j \in StepNumbers :
            IF j < k + 1 THEN SignedBy(b, j) ELSE b.steps[j].status = "PENDING"
      BY <1>1, <1>2, <2>2, <2>4, <2>5, <3>1 DEF StepNumbers, TotalSteps
    <3>4. QED
      BY <2>1, <3>1, <3>2, <3>3 DEF Agrees, Undrafted, PendingAgrees, ApprovedAgrees,
                                    RejectedAgrees, SignedBy
  <2>8. QED
    BY <2>6, <2>7
<1>4. CASE approval' = [approval EXCEPT ![t] = RejectStep(a, k, role)]
           /\ status' = [status EXCEPT ![t] = "REJECTED"]
  <2> DEFINE b == RejectStep(a, k, role)
  <2>1. approval'[t] = b /\ status'[t] = "REJECTED"
    BY <1>1, <1>4 DEF Inv, StoredOK
  <2>2. \A j \in StepNumbers : b.steps[j].status = "PENDING" => j < k /\ a.steps[j].status = "PENDING"
    BY <1>1, RejectTyping
  <2>3. b.status = "REJECTED"
    BY DEF RejectStep
  <2> HIDE DEF b, a, k, role
  <2>4. \A j \in StepNumbers : b.steps[j].status # "PENDING"
    BY <1>2, <2>2 DEF SignedBy
  <2>5. QED
    BY <2>1, <2>3, <2>4 DEF Agrees, Undrafted, PendingAgrees, ApprovedAgrees, RejectedAgrees,
                            Pending, SignedBy
<1>5. CASE UNCHANGED <<approval, status>>
  BY <1>1, <1>5, AgreesStays DEF SerialInv
<1>6. QED
  BY <1>3, <1>4, <1>5 DEF FinishSign, SetStatus

\* The only request writes what its handler has decided.
LEMMA SerialFinish ==
  ASSUME Inv, SerialInv, Solo', NEW r \in Requests,
         \A q \in Requests : q # r => pc[q] = "idle",
         FinishEdit(r) \/ FinishDelete(r) \/ FinishSubmit(r) \/ FinishSign(r) \/ FinishDispatch(r)
  PROVE  SerialInv'
<1>0. PICK t : t = job[r]
  OBVIOUS
<1>1. /\ UNCHANGED <<onHand, ledger, pend, rows>> /\ ~Receiving(r) /\ \E d \in BOOLEAN : Return(r, d)
  BY DEF FinishEdit, FinishDelete, FinishSubmit, FinishSign, FinishDispatch, committed,
         uncommitted, Receiving
<1>2. \A q \in Requests : pc'[q] = "idle"
  BY <1>1 DEF Return, Inv, HeldOK
<1>3. Booked' /\ \A q \in Requests : RowsFit(q)'
  BY <1>1, <1>2, RowsQuiet DEF Receiving
<1>4. \A q \in Requests : ReadHolds(q)'
  BY <1>2 DEF ReadHolds, Receiving
<1>5. t \in Transfers
  BY <1>0 DEF FinishEdit, FinishDelete, FinishSubmit, FinishSign, FinishDispatch, Inv, AllWell, Well
<1>6. ASSUME NEW u \in Transfers, u # t PROVE Agrees(u)'
  <2>1. status'[u] = status[u] /\ approval'[u] = approval[u]
    BY <1>0, <1>6 DEF FinishEdit, FinishDelete, FinishSubmit, FinishSign, FinishDispatch, SetStatus,
                Inv, StoredOK
  <2>2. QED
    BY <2>1, AgreesStays DEF SerialInv
<1>7. Agrees(t)'
  <2>1. CASE FinishEdit(r)
    BY <1>0, <1>5, <2>1, AgreesStays DEF FinishEdit, SerialInv
  <2>2. CASE FinishDelete(r)
    <3>1. UNCHANGED approval /\ (status'[t] = "deleted" \/ status'[t] = status[t])
      BY <1>0, <1>5, <2>2 DEF FinishDelete, SetStatus, Inv, StoredOK
    <3>2. CASE status'[t] = "deleted"
      BY <3>2 DEF Agrees, Undrafted, PendingAgrees, ApprovedAgrees, RejectedAgrees, Pending
    <3>3. QED
      BY <1>5, <3>1, <3>2, AgreesStays DEF SerialInv
  <2>3. CASE FinishSubmit(r)
    <3>1. CASE status' = [status EXCEPT ![t] = "PENDING_DEPT"]
               /\ approval' = [approval EXCEPT ![t] = NewRequest]
      <4>1. status'[t] = "PENDING_DEPT" /\ approval'[t] = NewRequest
        BY <1>5, <3>1 DEF Inv, StoredOK
      <4>2. /\ NewRequest.status = "PENDING" /\ NewRequest.currentStep = 1
            /\ \A k \in StepNumbers : NewRequest.steps[k].status = "PENDING"
        BY DEF NewRequest, NoRequest, Step
      <4>3. QED
        BY <4>1, <4>2 DEF Agrees, Undrafted, PendingAgrees, ApprovedAgrees, RejectedAgrees,
                          StatusForActiveStep, StepNumbers
    <3>2. CASE UNCHANGED <<status, approval>>
      BY <1>5, <3>2, AgreesStays DEF SerialInv
    <3>3. QED
      BY <1>0, <2>3, <3>1, <3>2 DEF FinishSubmit, SetStatus, StatusForActiveStep
  <2>4. CASE FinishSign(r)
    BY <1>0, <2>4, SignAgrees
  <2>5. CASE FinishDispatch(r)
    <3>1. status[t] = "APPROVED" /\ UNCHANGED approval
      BY <1>0, <2>5 DEF FinishDispatch, SerialInv, ReadHolds
    <3>2. status'[t] \in {"APPROVED", "IN_TRANSIT"}
      BY <1>0, <1>5, <2>5, <3>1 DEF FinishDispatch, SetStatus, Inv, StoredOK
    <3>3. QED
      BY <1>5, <3>1, <3>2 DEF SerialInv, Agrees, Undrafted, PendingAgrees, ApprovedAgrees,
                              RejectedAgrees, Pending, SignedBy
  <2>6. QED
    BY <2>1, <2>2, <2>3, <2>4, <2>5
<1>8. QED
  BY <1>3, <1>4, <1>6, <1>7 DEF SerialInv

\* What a statement of request r leaves to the others, who are idle.
LEMMA OthersIdle ==
  ASSUME SerialInv, NEW r \in Requests, Booked', RowsTypeOK', NEW q \in Requests, q # r,
         pc[q] = "idle", pc'[q] = pc[q], pend'[q] = pend[q], rows'[q] = rows[q]
  PROVE  RowsFit(q)' /\ ReadHolds(q)'
<1>1. \A c \in Cells : pend'[q][c] = 0 /\ rows'[q][c] = 0
  BY IdleRows DEF Receiving
<1>2. QED
  BY <1>1, IdleFits

\* A reception covers each line with stock before it takes it out, and adds the
\* line to the balance it has just read.
LEMMA SerialReceive ==
  ASSUME Inv, Inv', SerialInv, Solo', NEW r \in Requests,
         \A q \in Requests : q # r => pc[q] = "idle",
         ReadSource(r) \/ TakeOut(r) \/ ReadDest(r) \/ PutIn(r)
  PROVE  SerialInv'
<1>1. /\ UNCHANGED <<onHand, ledger, status, approval, closed, job, mine>>
      /\ Receiving(r) /\ Receiving(r)'
      /\ \A q \in Requests : q # r => pc'[q] = pc[q]
  BY DEF ReadSource, TakeOut, ReadDest, PutIn, Select, Update, committed, transfers, local,
         Receiving, Inv, HeldOK
<1>2. Booked'
  BY <1>1 DEF SerialInv, Booked
<1>3. \A t \in Transfers : Agrees(t)'
  BY <1>1, AgreesStays DEF SerialInv
<1>4. ReadHolds(r)'
  BY <1>1 DEF SerialInv, ReadHolds, Receiving
<1>5. \A q \in Requests : q # r => pend'[q] = pend[q] /\ rows'[q] = rows[q]
  BY DEF ReadSource, TakeOut, ReadDest, PutIn, Select, Update, Inv, RowsTypeOK
<1>6. RowsFit(r)'
  <2>1. CASE ReadSource(r)
    <3>1. PICK k \in todo[r] :
            /\ onHand[mine[r][k].from] + pend[r][mine[r][k].from] >= mine[r][k].qty
            /\ at' = [at EXCEPT ![r] = k]
      BY <2>1 DEF ReadSource, Enough, Visible
    <3>2. at'[r] = k /\ pc'[r] = "out" /\ UNCHANGED <<pend, rows>>
      BY <2>1, <3>1 DEF ReadSource, Select, Inv, HeldOK
    <3>3. Line(r)' = mine[r][k]
      BY <1>1, <3>2 DEF Line
    <3>4. Line(r)'.from = mine[r][k].from /\ Line(r)'.qty = mine[r][k].qty
      BY <3>3
    <3> HIDE DEF Line
    <3>5. QED
      BY <1>1, <3>1, <3>2, <3>4 DEF SerialInv, RowsFit
  <2>2. CASE TakeOut(r)
    <3> DEFINE n == Line(r).qty
               c == Line(r).from
    <3>1. pc[r] = "out" /\ pc'[r] = "look"
      BY <2>2 DEF TakeOut, Inv, HeldOK
    <3>2. c \in Cells /\ n \in Nat
      BY <3>1, LineTyping
    <3>3. onHand[c] + pend[r][c] >= n
      BY <3>1 DEF SerialInv, RowsFit
    <3>4. /\ pend' = [pend EXCEPT ![r][c] = @ + -n] /\ rows' = [rows EXCEPT ![r][c] = @ + -n]
      BY <2>2 DEF TakeOut, Update
    <3> HIDE DEF n, c
    <3>5. /\ pend'[r][c] = pend[r][c] - n /\ rows'[r][c] = rows[r][c] - n
          /\ \A d \in Cells : d # c => pend'[r][d] = pend[r][d] /\ rows'[r][d] = rows[r][d]
      BY <3>2, <3>4 DEF Inv, RowsTypeOK
    <3>6. ASSUME NEW d \in Cells PROVE pend'[r][d] = rows'[r][d] /\ onHand'[d] + pend'[r][d] >= 0
      <4>1. pend[r][d] = rows[r][d] /\ onHand[d] + pend[r][d] >= 0
        BY DEF SerialInv, RowsFit
      <4>2. onHand[d] \in Int /\ pend[r][d] \in Int /\ onHand'[d] = onHand[d]
        BY <1>1 DEF Inv, RowsTypeOK
      <4>3. CASE d = c
        BY <3>2, <3>3, <3>5, <4>1, <4>2, <4>3
      <4>4. CASE d # c
        BY <3>5, <4>1, <4>2, <4>4
      <4>5. QED
        BY <4>3, <4>4
    <3>7. QED
      BY <1>1, <3>1, <3>6 DEF RowsFit
  <2>3. CASE ReadDest(r)
    <3>1. pc[r] = "look" /\ pc'[r] = "in" /\ UNCHANGED <<pend, rows, at>>
      BY <2>3 DEF ReadDest, Select, local, Inv, HeldOK
    <3>2. Line(r)' = Line(r)
      BY <1>1, <3>1 DEF Line
    <3> HIDE DEF Line
    <3>3. seen'[r] = onHand[Line(r).to] + pend[r][Line(r).to]
      BY <2>3 DEF ReadDest, Select, Visible, Inv, RowsTypeOK
    <3>4. QED
      BY <1>1, <3>1, <3>2, <3>3 DEF SerialInv, RowsFit
  <2>4. CASE PutIn(r)
    <3> DEFINE n == Line(r).qty
               c == Line(r).to
    <3>1. pc[r] = "in" /\ pc'[r] = "line"
      BY <2>4 DEF PutIn, Inv, HeldOK
    <3>2. c \in Cells /\ n \in Nat
      BY <3>1, LineTyping
    <3>3. seen[r] = onHand[c] + pend[r][c]
      BY <3>1 DEF SerialInv, RowsFit
    <3> DEFINE change == NewTotalQty(r) - Visible(r, c)
    <3>4. /\ pend' = [pend EXCEPT ![r][c] = @ + change]
          /\ rows' = [rows EXCEPT ![r][c] = @ + n]
      BY <2>4 DEF PutIn, Update, InRow
    <3>8. change = n
      <4>1. seen[r] \in Int /\ pend[r][c] \in Int /\ onHand[c] \in Int
        BY <3>2 DEF Inv, RowsTypeOK
      <4>2. NewTotalQty(r) = seen[r] + n
        BY DEF NewTotalQty
      <4>3. Visible(r, c) = onHand[c] + pend[r][c]
        BY DEF Visible
      <4> HIDE DEF n, c
      <4>4. QED
        BY <3>2, <3>3, <4>1, <4>2, <4>3
    <3> HIDE DEF n, c, change
    <3>5. /\ pend'[r][c] = pend[r][c] + n /\ rows'[r][c] = rows[r][c] + n
          /\ \A d \in Cells : d # c => pend'[r][d] = pend[r][d] /\ rows'[r][d] = rows[r][d]
      BY <3>2, <3>4, <3>8 DEF Inv, RowsTypeOK
    <3>6. ASSUME NEW d \in Cells PROVE pend'[r][d] = rows'[r][d] /\ onHand'[d] + pend'[r][d] >= 0
      <4>1. pend[r][d] = rows[r][d] /\ onHand[d] + pend[r][d] >= 0
        BY DEF SerialInv, RowsFit
      <4>2. onHand[d] \in Int /\ pend[r][d] \in Int /\ onHand'[d] = onHand[d]
        BY <1>1 DEF Inv, RowsTypeOK
      <4>3. CASE d = c
        BY <3>2, <3>3, <3>5, <4>1, <4>2, <4>3
      <4>4. CASE d # c
        BY <3>5, <4>1, <4>2, <4>4
      <4>5. QED
        BY <4>3, <4>4
    <3>7. QED
      BY <1>1, <3>1, <3>6 DEF RowsFit
  <2>5. QED
    BY <2>1, <2>2, <2>3, <2>4
<1>7. \A q \in Requests : q # r => RowsFit(q)' /\ ReadHolds(q)'
  BY <1>1, <1>2, <1>5, OthersIdle DEF Inv
<1>8. QED
  BY <1>2, <1>3, <1>4, <1>6, <1>7 DEF SerialInv

\* A commit books what the rows say; a rollback books nothing.
LEMMA SerialEnd ==
  ASSUME Inv, Inv', SerialInv, Solo', NEW r \in Requests,
         \A q \in Requests : q # r => pc[q] = "idle",
         CommitReceive(r) \/ RefuseReceive(r) \/ Abort(r)
  PROVE  SerialInv'
<1>0. PICK t : t = job[r]
  OBVIOUS
<1>1. Forget(r) /\ UNCHANGED approval /\ \E d \in BOOLEAN : Return(r, d)
  BY DEF CommitReceive, RefuseReceive, Abort, CommitRows, RollbackRows, transfers
<1>2. /\ \A q \in Requests : pc'[q] = "idle"
      /\ \A c \in Cells : pend'[r][c] = 0 /\ rows'[r][c] = 0
      /\ \A q \in Requests : q # r => pend'[q] = pend[q] /\ rows'[q] = rows[q]
  BY <1>1 DEF Return, Forget, Zero, Inv, HeldOK, RowsTypeOK
<1>3. Booked'
  <2>1. CASE CommitReceive(r)
    <3>1. \A c \in Cells : /\ onHand'[c] = onHand[c] + pend[r][c]
                           /\ ledger'[c] = ledger[c] + rows[r][c]
      BY <2>1 DEF CommitReceive, CommitRows
    <3>2. QED
      BY <3>1 DEF SerialInv, Booked, RowsFit
  <2>2. CASE RefuseReceive(r) \/ Abort(r)
    BY <2>2 DEF RefuseReceive, Abort, RollbackRows, committed, SerialInv, Booked
  <2>3. QED
    BY <2>1, <2>2
<1>4. ASSUME NEW u \in Transfers PROVE Agrees(u)'
  <2>1. CASE status'[u] = status[u]
    BY <1>1, <2>1, AgreesStays DEF SerialInv
  <2>2. CASE status'[u] # status[u]
    <3>1. CommitReceive(r) /\ u = t /\ status'[t] = "RECEIVED"
      BY <1>0, <2>2 DEF CommitReceive, RefuseReceive, Abort, SetStatus, transfers, Inv, StoredOK
    <3>2. status[t] = "IN_TRANSIT"
      BY <1>0, <3>1 DEF CommitReceive, SerialInv, ReadHolds, Receiving
    <3>3. QED
      BY <1>1, <3>1, <3>2 DEF SerialInv, Agrees, Undrafted, PendingAgrees, ApprovedAgrees,
                              RejectedAgrees, Pending, SignedBy
  <2>3. QED
    BY <2>1, <2>2
<1>5. RowsFit(r)' /\ ReadHolds(r)'
  BY <1>2, <1>3, IdleFits DEF Inv
<1>6. \A q \in Requests : q # r => RowsFit(q)' /\ ReadHolds(q)'
  BY <1>2, <1>3, OthersIdle DEF Inv
<1>7. QED
  BY <1>3, <1>4, <1>5, <1>6 DEF SerialInv

\* While no request is in progress.
LEMMA SerialElsewhere ==
  ASSUME Inv, Inv', SerialInv, Solo', Elsewhere, \A q \in Requests : pc[q] = "idle"
  PROVE  SerialInv'
<1>1. UNCHANGED <<pend, rows, pc, status, approval>>
  BY DEF Elsewhere, Move, SetClosed, uncommitted, transfers
<1>2. Booked'
  <2>1. ASSUME NEW c \in Cells, NEW n \in Movements, Move(c, n) PROVE Booked'
    <3>1. /\ onHand'[c] = onHand[c] + n /\ ledger'[c] = ledger[c] + n /\ onHand[c] + n >= 0
          /\ \A d \in Cells : d # c => onHand'[d] = onHand[d] /\ ledger'[d] = ledger[d]
      BY <2>1, TransfersAssumption DEF Move, Inv, RowsTypeOK
    <3>2. QED
      BY <3>1 DEF SerialInv, Booked
  <2>2. ASSUME NEW v \in BOOLEAN, SetClosed(v) PROVE Booked'
    BY <2>2 DEF SetClosed, committed, SerialInv, Booked
  <2>3. QED
    BY <2>1, <2>2 DEF Elsewhere
<1>3. \A t \in Transfers : Agrees(t)'
  BY <1>1, AgreesStays DEF SerialInv
<1>4. ASSUME NEW q \in Requests PROVE RowsFit(q)' /\ ReadHolds(q)'
  <2>1. \A c \in Cells : pend'[q][c] = 0 /\ rows'[q][c] = 0
    BY <1>1, IdleRows DEF Receiving
  <2>2. QED
    BY <1>1, <1>2, <2>1, IdleFits DEF Inv
<1>5. QED
  BY <1>2, <1>3, <1>4 DEF SerialInv

LEMMA SerialInit == Init => SerialInv
<1> SUFFICES ASSUME Init PROVE SerialInv
  OBVIOUS
<1>1. \A t \in Transfers : status[t] = "none" /\ approval[t].status = "none"
  BY DEF Init, NoRequest
<1>2. \A r \in Requests : pc[r] = "idle" /\ \A c \in Cells : pend[r][c] = 0 /\ rows[r][c] = 0
  BY DEF Init, RowsInit, Zero
<1>3. Booked /\ \A c \in Cells : onHand[c] = 0
  BY DEF Init, RowsInit, Zero, Booked
<1>4. \A t \in Transfers : Agrees(t)
  BY <1>1 DEF Agrees, Undrafted, PendingAgrees, ApprovedAgrees, RejectedAgrees, Pending
<1>5. \A r \in Requests : RowsFit(r) /\ ReadHolds(r)
  BY <1>2, <1>3 DEF RowsFit, ReadHolds, Receiving
<1>6. QED
  BY <1>2, <1>3, <1>4, <1>5 DEF SerialInv, Solo

\* What is proved of the specification with the history.
FullInv == Inv /\ SumInv /\ (overlapped \/ SerialInv)

LEMMA SerialStep ==
  ASSUME Inv, SerialInv, Next, NoteOverlap, ~overlapped'
  PROVE  SerialInv'
<1>1. Inv'
  BY InvStep
<1>2. Solo'
  BY Modes DEF SerialInv
<1>3. CASE \E r \in Requests : Arrive(r) /\ \A q \in Requests : pc[q] = "idle"
  BY <1>2, <1>3, SerialArrive
<1>4. CASE \E r \in Requests : Continue(r) /\ pc[r] # "idle"
                               /\ \A q \in Requests : q # r => pc[q] = "idle"
  BY <1>1, <1>2, <1>4, SerialFinish, SerialReceive, SerialEnd DEF Continue
<1>5. CASE Elsewhere /\ \A q \in Requests : pc[q] = "idle"
  BY <1>1, <1>2, <1>5, SerialElsewhere
<1>6. QED
  BY <1>3, <1>4, <1>5, Modes DEF SerialInv

LEMMA FullInit == HistoryInit => FullInv
BY InvInit, SumInit, SerialInit DEF HistoryInit, FullInv

LEMMA FullStep == FullInv /\ [HistoryNext]_<<vars, overlapped>> => FullInv'
<1> SUFFICES ASSUME FullInv, [HistoryNext]_<<vars, overlapped>> PROVE FullInv'
  OBVIOUS
<1>1. CASE HistoryNext
  <2>1. Next /\ NoteOverlap
    BY <1>1 DEF HistoryNext
  <2>2. Inv' /\ SumInv'
    BY <2>1, InvStep, SumStep DEF FullInv
  <2>3. overlapped => overlapped'
    BY <2>1 DEF NoteOverlap
  <2>4. QED
    BY <2>1, <2>2, <2>3, SerialStep DEF FullInv
<1>2. CASE UNCHANGED <<vars, overlapped>>
  <2>1. UNCHANGED vars /\ UNCHANGED overlapped
    BY <1>2
  <2>2. Inv' /\ SumInv'
    BY <2>1, InvStep, SumStep DEF FullInv
  <2>3. UNCHANGED <<onHand, ledger, seen, pend, rows, status, approval, closed, pc, job, sign,
                    mine, at>>
    BY <2>1 DEF vars, committed, uncommitted, transfers, local
  <2>4. SerialInv => SerialInv'
    BY <2>3 DEF SerialInv, Solo, Booked, Agrees, Undrafted, PendingAgrees, ApprovedAgrees,
                RejectedAgrees, SignedBy, RowsFit, ReadHolds, Receiving, Line
  <2>5. QED
    BY <2>1, <2>2, <2>4 DEF FullInv
<1>3. QED
  BY <1>1, <1>2

\* Requests that do not overlap keep balances and ledger together and never
\* negative, though every check of a reception is a plain read.
THEOREM TransfersAreConsistent == HistorySpec => []Consistent
<1>1. FullInv => Consistent
  BY InvTypes DEF FullInv, Consistent, StockIsBooked, Alone, SerialInv, Booked
<1>2. QED
  BY FullInit, FullStep, <1>1, PTL DEF HistorySpec

\* The status of a transfer and its approval request tell the same story: what
\* was dispatched was signed three times, by roles that may.
THEOREM ApprovalChainAgrees == HistorySpec => []ApprovalAgrees
<1>1. ASSUME SerialInv, Inv, NEW t \in Transfers
      PROVE  LET a == approval[t]
             IN  /\ status[t] \in Pending =>
                      /\ a.status = "PENDING" /\ status[t] = StatusForActiveStep[a.currentStep]
                      /\ Decided(t) = 1 .. a.currentStep - 1
                      /\ \A k \in StepNumbers \ Decided(t) : a.steps[k].status = "PENDING"
                 /\ status[t] \in {"APPROVED", "IN_TRANSIT", "RECEIVED"} =>
                      /\ a.status = "APPROVED" /\ Decided(t) = StepNumbers
                      /\ \A k \in StepNumbers :
                           a.steps[k].actedBy
                             \in {TRANSFER_APPROVAL_ROLE_CODES[k], "ADMIN", "SUPER_ADMIN"}
                 /\ status[t] = "REJECTED" =>
                      a.status = "REJECTED" /\ \A k \in StepNumbers : a.steps[k].status # "PENDING"
  <2>1. Agrees(t) /\ approval[t].currentStep \in StepNumbers
    BY <1>1 DEF SerialInv, Inv, StoredOK, ApprovalRequests
  <2>2. ASSUME status[t] \in Pending
        PROVE  /\ Decided(t) = 1 .. approval[t].currentStep - 1
               /\ \A k \in StepNumbers \ Decided(t) : approval[t].steps[k].status = "PENDING"
    BY <2>1, <2>2 DEF Agrees, PendingAgrees, SignedBy, Decided, StepNumbers, TotalSteps
  <2>3. ASSUME status[t] \in {"APPROVED", "IN_TRANSIT", "RECEIVED"}
        PROVE  Decided(t) = StepNumbers
    BY <2>1, <2>3 DEF Agrees, ApprovedAgrees, SignedBy, Decided
  <2>4. QED
    BY <2>1, <2>2, <2>3 DEF Agrees, PendingAgrees, ApprovedAgrees, RejectedAgrees, SignedBy
<1>2. FullInv => ApprovalAgrees
  BY <1>1 DEF FullInv, ApprovalAgrees, Alone
<1>3. QED
  BY FullInit, FullStep, <1>2, PTL DEF HistorySpec

\* Whatever overlaps and wherever it fails, no request changes what the ledger
\* adds up to; alone, stock moves once, from a transfer that was dispatched, in an
\* open month, and a plan that was submitted stays.
THEOREM TransfersConserveStock == HistorySpec => TransfersConserve
<1>1. ASSUME Inv, SerialInv, Next, NEW t \in Transfers
      PROVE  /\ moved'[t] # moved[t] =>
                  status[t] = "IN_TRANSIT" /\ status'[t] = "RECEIVED" /\ ~closed
             /\ status[t] \notin {"none", "DRAFT"} => UNCHANGED plan[t]
  <2>1. ASSUME NEW r \in Requests, CommitReceive(r), moved'[t] # moved[t]
        PROVE  status[t] = "IN_TRANSIT" /\ status'[t] = "RECEIVED" /\ ~closed
    <3>1. t = job[r] /\ pc[r] = "line" /\ status'[t] = "RECEIVED"
      BY <1>1, <2>1 DEF CommitReceive, SetStatus, Inv, StoredOK
    <3>2. QED
      BY <1>1, <3>1 DEF SerialInv, ReadHolds, Receiving
  <2>2. \/ UNCHANGED moved
        \/ \E r \in Requests : CommitReceive(r)
    BY <1>1 DEF Next, Arrive, Continue, Elsewhere, CreateTransfer, BeginEdit, BeginOnDraft,
                BeginSign, BeginDispatch, BeginReceive, FinishEdit, FinishDelete, FinishSubmit,
                FinishSign, FinishDispatch, ReadSource, TakeOut, ReadDest, PutIn, RefuseReceive,
                Abort, Move, SetClosed, transfers
  <2>3. \/ UNCHANGED plan
        \/ \E r \in Requests : \E u \in Transfers : CreateTransfer(r, u)
        \/ \E r \in Requests : FinishEdit(r)
    BY <1>1 DEF Next, Arrive, Continue, Elsewhere, BeginEdit, BeginOnDraft,
                BeginSign, BeginDispatch, BeginReceive, FinishDelete, FinishSubmit,
                FinishSign, FinishDispatch, ReadSource, TakeOut, ReadDest, PutIn, CommitReceive,
                RefuseReceive, Abort, Move, SetClosed, transfers
  <2>4. ASSUME NEW r \in Requests, NEW u \in Transfers, CreateTransfer(r, u),
               status[t] \notin {"none", "DRAFT"}
        PROVE  UNCHANGED plan[t]
    BY <1>1, <2>4 DEF CreateTransfer, Inv, StoredOK
  <2>5. ASSUME NEW r \in Requests, FinishEdit(r), status[t] \notin {"none", "DRAFT"}
        PROVE  UNCHANGED plan[t]
    <3>1. status[job[r]] = "DRAFT"
      BY <1>1, <2>5 DEF FinishEdit, SerialInv, ReadHolds
    <3>2. QED
      BY <1>1, <2>5, <3>1 DEF FinishEdit, Inv, StoredOK
  <2>6. QED
    BY <2>1, <2>2, <2>3, <2>4, <2>5
<1> DEFINE A == /\ ~UNCHANGED pc => Sum(ledger') = Sum(ledger)
                /\ Alone(\A t \in Transfers :
                     /\ moved'[t] # moved[t] =>
                          status[t] = "IN_TRANSIT" /\ status'[t] = "RECEIVED" /\ ~closed
                     /\ status[t] \notin {"none", "DRAFT"} => UNCHANGED plan[t])
<1>2. ASSUME FullInv, [HistoryNext]_<<vars, overlapped>> PROVE A \/ UNCHANGED vars
  <2>1. CASE HistoryNext
    <3>1. Next
      BY <2>1 DEF HistoryNext
    <3>2. ~UNCHANGED pc => Sum(ledger') = Sum(ledger)
      BY <1>2, <3>1, SumKept DEF FullInv
    <3>3. QED
      BY <1>1, <1>2, <3>1, <3>2 DEF FullInv, Alone
  <2>2. CASE UNCHANGED <<vars, overlapped>>
    BY <2>2
  <2>3. QED
    BY <1>2, <2>1, <2>2
<1>3. FullInv /\ [HistoryNext]_<<vars, overlapped>> => [A]_vars
  <2> HIDE DEF A
  <2>1. QED
    BY <1>2
<1>4. QED
  BY FullInit, FullStep, <1>3, PTL DEF HistorySpec, TransfersConserve

-----------------------------------------------------------------------------
(***************************************************************************)
(* Months: a balance is what its rows and its passes say, whatever         *)
(* overlaps, and what was booked before an instant stays as it is; so does *)
(* every report on months that are over.                                   *)
(***************************************************************************)

(* Sums of quantities *)

LEMMA SumOfIsTotal ==
  ASSUME NEW f
  PROVE  SumOf(f) = TotalOver(f, DOMAIN f)
BY DEF SumOf, TotalOver

\* A finite set of things that have a quantity.
Countable(S) == IsFiniteSet(S) /\ \A x \in S : x.qty \in Int

LEMMA CountablePart ==
  ASSUME NEW S, Countable(S), NEW T, T \subseteq S
  PROVE  Countable(T)
BY FS_Subset DEF Countable

\* Signed, inward and outward quantities, as functions on S.
Qtys(S) == [x \in S |-> x.qty]
Ins(S) == [x \in S |-> In(x)]
Outs(S) == [x \in S |-> Out(x)]

\* Total, QtyIn and QtyOut are sums over one function each.
LEMMA QtySums ==
  ASSUME NEW S
  PROVE  /\ Total(S) = TotalOver(Qtys(S), S)
         /\ QtyIn(S) = TotalOver(Ins(S), S)
         /\ QtyOut(S) = TotalOver(Outs(S), S)
<1>1. DOMAIN Qtys(S) = S /\ DOMAIN Ins(S) = S /\ DOMAIN Outs(S) = S
  BY DEF Qtys, Ins, Outs
<1>2. Total(S) = SumOf(Qtys(S)) /\ QtyIn(S) = SumOf(Ins(S)) /\ QtyOut(S) = SumOf(Outs(S))
  BY DEF Total, QtyIn, QtyOut, Qtys, Ins, Outs
<1>3. QED
  BY <1>1, <1>2, SumOfIsTotal

LEMMA QtyValues ==
  ASSUME NEW S, Countable(S), NEW x \in S
  PROVE  /\ Qtys(S)[x] = x.qty /\ x.qty \in Int
         /\ Ins(S)[x] = (IF x.qty > 0 THEN x.qty ELSE 0) /\ Ins(S)[x] \in Nat
         /\ Outs(S)[x] = (IF x.qty < 0 THEN -x.qty ELSE 0) /\ Outs(S)[x] \in Nat
<1>1. x.qty \in Int
  BY DEF Countable
<1>2. Qtys(S)[x] = x.qty /\ Ins(S)[x] = In(x) /\ Outs(S)[x] = Out(x)
  BY DEF Qtys, Ins, Outs
<1>3. QED
  BY <1>1, <1>2 DEF In, Out

\* What came in less what went out is the sum.
LEMMA InLessOut ==
  ASSUME NEW S, Countable(S)
  PROVE  /\ Total(S) \in Int /\ QtyIn(S) \in Nat /\ QtyOut(S) \in Nat
         /\ Total(S) = QtyIn(S) - QtyOut(S)
<1>0. IsFiniteSet(S)
  BY DEF Countable
<1>1. /\ \A x \in S : Qtys(S)[x] \in Int /\ Ins(S)[x] \in Nat /\ Outs(S)[x] \in Nat
      /\ \A x \in S : Ins(S)[x] \in Int /\ Outs(S)[x] \in Int
      /\ \A x \in S : Ins(S)[x] = Qtys(S)[x] + Outs(S)[x]
  <2>1. \A x \in S : Ins(S)[x] = Qtys(S)[x] + Outs(S)[x] /\ Qtys(S)[x] \in Int
    BY QtyValues
  <2>2. \A x \in S : Ins(S)[x] \in Nat /\ Outs(S)[x] \in Nat
    BY QtyValues
  <2>3. QED
    BY <2>1, <2>2
<1>2. /\ TotalOver(Qtys(S), S) \in Int
      /\ TotalOver(Ins(S), S) \in Nat
      /\ TotalOver(Outs(S), S) \in Nat
  BY <1>0, <1>1, TotalInt, TotalNat
<1>3. TotalOver(Ins(S), S) = TotalOver(Qtys(S), S) + TotalOver(Outs(S), S)
  BY <1>0, <1>1, TotalOfSums
<1>4. QED
  BY <1>2, <1>3, QtySums

LEMMA QtyNone == Total({}) = 0 /\ QtyIn({}) = 0 /\ QtyOut({}) = 0
<1>1. \A f : TotalOver(f, {}) = 0
  BY FS_EmptySet, TotalZero
<1>2. QED
  BY <1>1, QtySums

\* The sums of a single row.
LEMMA QtyOne ==
  ASSUME NEW e, e.qty \in Int
  PROVE  /\ Countable({e}) /\ Total({e}) = e.qty
         /\ QtyIn({e}) = (IF e.qty > 0 THEN e.qty ELSE 0)
         /\ QtyOut({e}) = (IF e.qty < 0 THEN -e.qty ELSE 0)
<1>1. Countable({e})
  BY FS_Singleton DEF Countable
<1>2. e \in {e}
  OBVIOUS
<1> DEFINE S == {e}
<1>3. /\ Qtys(S)[e] = e.qty /\ Qtys(S)[e] \in Int
      /\ Ins(S)[e] = (IF e.qty > 0 THEN e.qty ELSE 0) /\ Ins(S)[e] \in Int
      /\ Outs(S)[e] = (IF e.qty < 0 THEN -e.qty ELSE 0) /\ Outs(S)[e] \in Int
  <2>1. \A x \in S : /\ Qtys(S)[x] = x.qty /\ x.qty \in Int
         /\ Ins(S)[x] = (IF x.qty > 0 THEN x.qty ELSE 0) /\ Ins(S)[x] \in Nat
         /\ Outs(S)[x] = (IF x.qty < 0 THEN -x.qty ELSE 0) /\ Outs(S)[x] \in Nat
    BY <1>1, QtyValues
  <2>2. e \in S
    OBVIOUS
  <2> HIDE DEF S
  <2>3. QED
    BY <2>1, <2>2
<1>4. /\ TotalOver(Qtys(S), {e}) = Qtys(S)[e]
      /\ TotalOver(Ins(S), {e}) = Ins(S)[e]
      /\ TotalOver(Outs(S), {e}) = Outs(S)[e]
  BY <1>3, TotalOfOne
<1>5. QED
  BY <1>1, <1>3, <1>4, QtySums

\* Two sets with no common element add up.
LEMMA QtyUnion ==
  ASSUME NEW A, Countable(A), NEW B, Countable(B), A \cap B = {}
  PROVE  /\ Countable(A \cup B)
         /\ Total(A \cup B) = Total(A) + Total(B)
         /\ QtyIn(A \cup B) = QtyIn(A) + QtyIn(B)
         /\ QtyOut(A \cup B) = QtyOut(A) + QtyOut(B)
<1> DEFINE S == A \cup B
<1>1. IsFiniteSet(A) /\ IsFiniteSet(B) /\ Countable(S)
  BY FS_Union DEF Countable
<1>2. \A x \in S : Qtys(S)[x] \in Int /\ Ins(S)[x] \in Int /\ Outs(S)[x] \in Int
  <2>1. \A x \in S : /\ Qtys(S)[x] = x.qty /\ x.qty \in Int
                     /\ Ins(S)[x] \in Nat /\ Outs(S)[x] \in Nat
    BY <1>1, QtyValues
  <2> HIDE DEF S
  <2>2. QED
    BY <2>1
<1>3. /\ \A x \in A : Qtys(S)[x] = Qtys(A)[x] /\ Ins(S)[x] = Ins(A)[x] /\ Outs(S)[x] = Outs(A)[x]
      /\ \A x \in B : Qtys(S)[x] = Qtys(B)[x] /\ Ins(S)[x] = Ins(B)[x] /\ Outs(S)[x] = Outs(B)[x]
  BY DEF Qtys, Ins, Outs
<1>4. /\ TotalOver(Qtys(S), A) = TotalOver(Qtys(A), A) /\ TotalOver(Qtys(S), B) = TotalOver(Qtys(B), B)
      /\ TotalOver(Ins(S), A) = TotalOver(Ins(A), A) /\ TotalOver(Ins(S), B) = TotalOver(Ins(B), B)
      /\ TotalOver(Outs(S), A) = TotalOver(Outs(A), A) /\ TotalOver(Outs(S), B) = TotalOver(Outs(B), B)
  BY <1>1, <1>3, TotalSame
<1>5. /\ TotalOver(Qtys(S), A \cup B) = TotalOver(Qtys(S), A) + TotalOver(Qtys(S), B)
      /\ TotalOver(Ins(S), A \cup B) = TotalOver(Ins(S), A) + TotalOver(Ins(S), B)
      /\ TotalOver(Outs(S), A \cup B) = TotalOver(Outs(S), A) + TotalOver(Outs(S), B)
  BY <1>1, <1>2, TotalOfUnion
<1>6. QED
  BY <1>1, <1>4, <1>5, QtySums

\* Quantities that have one sign.
LEMMA QtySigned ==
  ASSUME NEW S, Countable(S)
  PROVE  /\ (\A x \in S : x.qty >= 0) => QtyIn(S) = Total(S) /\ QtyOut(S) = 0
         /\ (\A x \in S : x.qty <= 0) => QtyOut(S) = -Total(S) /\ QtyIn(S) = 0
<1>0. IsFiniteSet(S)
  BY DEF Countable
<1>1. /\ (\A x \in S : x.qty >= 0) => \A x \in S : Outs(S)[x] = 0
      /\ (\A x \in S : x.qty <= 0) => \A x \in S : Ins(S)[x] = 0
  BY QtyValues
<1>2. /\ (\A x \in S : x.qty >= 0) => QtyOut(S) = 0
      /\ (\A x \in S : x.qty <= 0) => QtyIn(S) = 0
  BY <1>0, <1>1, TotalZero, QtySums
<1>3. QED
  BY <1>2, InLessOut

(* Time *)

\* Months follow one another without a gap.
LEMMA StartTime ==
  ASSUME NEW m \in Int
  PROVE  Start(m) \in Int /\ Start(m + 1) = Start(m) + MonthLength /\ EndOf(m) = Start(m) + MonthLength - 1
<1>1. MonthLength \in Int
  BY MonthsAssumption
<1>2. Start(m) \in Int /\ Start(m + 1) = Start(m) + MonthLength
  BY <1>1 DEF Start
<1>3. QED
  BY <1>1, <1>2 DEF EndOf

\* Later months start later.
LEMMA StartGrows ==
  ASSUME NEW m \in Int, NEW n \in Int
  PROVE  /\ m <= n => Start(m) <= Start(n)
         /\ m < n => Start(m) + MonthLength <= Start(n)
<1>1. MonthLength \in Nat /\ m + 1 \in Int
  BY MonthsAssumption
<1>2. m <= n => Start(m) <= Start(n)
  BY <1>1, ProductGrows DEF Start
<1>3. m + 1 <= n => Start(m + 1) <= Start(n)
  BY <1>1, ProductGrows DEF Start
<1>4. QED
  BY <1>1, <1>2, <1>3, StartTime

\* An instant lies in its month.
LEMMA MonthOfTime ==
  ASSUME NEW t \in Nat
  PROVE  /\ MonthOf(t) \in Nat
         /\ Start(MonthOf(t)) <= t /\ t < Start(MonthOf(t)) + MonthLength
         /\ \A m \in Int : (MonthOf(t) = m) <=> (Start(m) <= t /\ t < Start(m) + MonthLength)
<1>1. MonthLength \in Nat \ {0}
  BY MonthsAssumption
<1>2. MonthOf(t) \in Nat /\ Start(MonthOf(t)) <= t /\ t < Start(MonthOf(t)) + MonthLength
  BY <1>1 DEF MonthOf, Start
<1>3. ASSUME NEW m \in Int, Start(m) <= t, t < Start(m) + MonthLength
      PROVE  MonthOf(t) = m
  <2>1. MonthOf(t) \in Int /\ Start(m) \in Int /\ Start(MonthOf(t)) \in Int
    BY <1>2, StartTime
  <2>2. ~(m < MonthOf(t)) /\ ~(MonthOf(t) < m)
    BY <1>1, <1>2, <1>3, <2>1, StartGrows
  <2>3. QED
    BY <2>1, <2>2
<1>4. QED
  BY <1>2, <1>3

\* Instants and months are numbers, and null is later than any.
LEMMA ClockTime ==
  /\ LastMonth \in Nat /\ MonthLength \in Nat \ {0}
  /\ Start(LastMonth + 1) \in Nat /\ Never = Start(LastMonth + 1) + 1
  /\ \A t : t \in Instants <=> t \in Nat /\ t < Never
  /\ \A m \in Int : m >= 0 => Start(m) \in Nat
  /\ \A m \in Months : m \in Nat /\ m <= LastMonth /\ Start(m) \in Nat /\ Start(m) + MonthLength < Never
<1>1. LastMonth \in Nat /\ MonthLength \in Nat \ {0} /\ Start(0) = 0
  BY MonthsAssumption DEF Start
<1>2. ASSUME NEW m \in Int, m >= 0
      PROVE  Start(m) \in Nat
  <2>1. Start(0) <= Start(m) /\ Start(m) \in Int
    BY <1>2, StartTime, StartGrows
  <2>2. QED
    BY <1>1, <2>1
<1>3. Start(LastMonth + 1) \in Nat /\ Never = Start(LastMonth + 1) + 1
  BY <1>1, <1>2 DEF Never
<1>4. \A t : t \in Instants <=> t \in Nat /\ t < Never
  BY <1>3 DEF Instants
<1>5. ASSUME NEW m \in Months
      PROVE  m \in Nat /\ m <= LastMonth /\ Start(m) \in Nat /\ Start(m) + MonthLength < Never
  <2>1. m \in Nat /\ m <= LastMonth
    BY <1>1 DEF Months
  <2>2. Start(m) + MonthLength <= Start(LastMonth + 1)
    BY <1>1, <2>1, StartGrows
  <2>3. QED
    BY <1>1, <1>2, <1>3, <2>1, <2>2
<1>6. QED
  BY <1>1, <1>2, <1>3, <1>4, <1>5

(* The shape of the state *)

LEMMA MonthsGiven ==
  /\ IsFiniteSet(Stores) /\ Stores # {} /\ IsFiniteSet(Passes)
  /\ \A mv \in Moves : IsMove(mv)
  /\ \A q \in Loads : q \in Nat \ {0}
  /\ \A n \in Splits : /\ n.good \in Nat /\ n.damaged \in Nat /\ n.lost \in Nat
                       /\ Size(n) \in Nat /\ Bad(n) \in Nat /\ Size(n) = n.good + Bad(n)
  /\ \A q \in Tallied : q \in Int
<1>1. /\ IsFiniteSet(Stores) /\ Stores # {} /\ IsFiniteSet(Passes)
      /\ \A mv \in Moves : IsMove(mv)
      /\ Loads \subseteq Nat \ {0} /\ Tallied \subseteq Int
      /\ Splits \subseteq [good : Nat, damaged : Nat, lost : Nat]
  BY MonthsAssumption
<1>2. \A n \in Splits : n.good \in Nat /\ n.damaged \in Nat /\ n.lost \in Nat
  BY <1>1
<1>3. \A n \in Splits : Size(n) \in Nat /\ Bad(n) \in Nat /\ Size(n) = n.good + Bad(n)
  BY <1>2 DEF Size, Bad
<1>4. QED
  BY <1>1, <1>2, <1>3

\* Rows are of earlier instants.  What is written off goes out.
WrittenOffRow(r) == r.kind = "LOAN_WRITE_OFF" \/ r.claim
RowFits(r) == r \in Row /\ (WrittenOffRow(r) => r.qty <= 0)
EntriesFit == IsFiniteSet(entries) /\ \A r \in entries : RowFits(r) /\ r.at < now

PassStatus ==
  {"none", "OUT", "PARTIALLY_RETURNED", "RETURNED", "CLOSED", "RECEIVED_AT_DESTINATION",
   "RETURNING", "RETURN_RECEIVED_AT_GATE"}
PassRecord ==
  [store : Stores, qty : Nat, kind : {"TEMPORARY", "PERMANENT"}, internal : BOOLEAN,
   status : PassStatus, back : Int, out : Instants \cup {Never}, closed : Instants \cup {Never},
   backs : SUBSET ReturnRecord, owed : [Claims -> Int]]

\* A pass leaves, and comes back, at earlier instants than t; gifts do not.
PassFits(g, t) ==
  /\ g \in PassRecord /\ IsFiniteSet(g.backs) /\ \A b \in g.backs : b.at < t
  /\ g.status = "none" => g.out = Never /\ g.closed = Never /\ g.backs = {}
  /\ g.status # "none" => g.out < t
  /\ g.status \in {"RETURNING", "RETURN_RECEIVED_AT_GATE"} => g.kind # "PERMANENT"
PassesFit == pass \in [Passes -> PassRecord] /\ \A p \in Passes : PassFits(pass[p], now)

StockFits ==
  /\ stock = [s \in DOMAIN stock |-> stock[s]] /\ DOMAIN stock \subseteq Stores
  /\ \A s \in DOMAIN stock : stock[s].onHand \in Int /\ stock[s].blocked \in Int

\* What a loan has away of a store.
Share(g, s) ==
  IF g.store = s /\ g.kind # "PERMANENT" /\ g.status # "none" THEN g.qty - Total(g.backs) ELSE 0
AllAway(s) == TotalOver([p \in Passes |-> Share(pass[p], s)], Passes)

\* The rows that change the balance of a store.
Moving(r) == r.official /\ ~WrittenOffRow(r)
MovingRows(S, s) == {r \in S : r.store = s /\ Moving(r)}

\* A balance is its rows, and the loans that are away.
BalancesFit ==
  \A s \in Stores : /\ OnHand(s) = Total(MovingRows(entries, s)) + AllAway(s)
                    /\ Blocked(s) = AllAway(s)

FiguresShape ==
  /\ now \in Instants /\ EntriesFit /\ PassesFit /\ StockFits /\ sheets \subseteq Sheet /\ BalancesFit

LEMMA StampTime ==
  ASSUME now \in Instants, Stamp
  PROVE  now \in Nat /\ now' = now + 1 /\ now' \in Instants /\ now < Never /\ now' \in Nat
BY ClockTime DEF Stamp, Instants

\* The clock never goes back.
LEMMA NextMonthTime ==
  ASSUME now \in Instants, NextMonth
  PROVE  now' \in Instants /\ now < now'
<1>1. now \in Nat /\ LastMonth \in Nat
  BY ClockTime
<1>2. MonthOf(now) \in Nat /\ now < Start(MonthOf(now)) + MonthLength
  BY <1>1, MonthOfTime
<1>3. MonthOf(now) < LastMonth /\ now' = Start(MonthOf(now) + 1)
  BY DEF NextMonth
<1>4. PICK m \in Nat : m = MonthOf(now) /\ m < LastMonth
  BY <1>2, <1>3
<1>5. Start(m + 1) = Start(m) + MonthLength /\ Start(m) \in Int /\ m + 1 \in Months
  <2>1. m + 1 \in Months
    BY <1>1, <1>4 DEF Months
  <2>2. QED
    BY <1>4, <2>1, StartTime
<1>6. Start(m + 1) \in Nat /\ Start(m + 1) + MonthLength < Never /\ MonthLength \in Nat
  BY <1>5, ClockTime
<1>7. Never \in Nat
  BY ClockTime
<1>8. now' \in Nat /\ now' < Never /\ now < now'
  BY <1>2, <1>3, <1>4, <1>5, <1>6, <1>7
<1>9. QED
  BY <1>8, ClockTime

\* What fits at an instant fits at a later one.
LEMMA FitsLater ==
  ASSUME NEW g, NEW t \in Int, NEW u \in Int, t <= u, PassFits(g, t)
  PROVE  PassFits(g, u)
<1>1. /\ \A b \in g.backs : b.at \in Int
      /\ g.out \in Int
  <2>1. Never \in Int
    BY ClockTime
  <2>2. QED
    BY <2>1, ClockTime DEF PassFits, PassRecord, ReturnRecord
<1>2. QED
  BY <1>1 DEF PassFits

(* Balances *)

LEMMA BalanceIs ==
  ASSUME StockFits
  PROVE  \A s : OnHand(s) \in Int /\ Blocked(s) \in Int
BY DEF StockFits, OnHand, Blocked

\* What is added to the balances of S.
LEMMA MovedStock ==
  ASSUME StockFits, NEW S, S \subseteq Stores,
         NEW d, \A s \in S : d[s] \in Int, NEW b, \A s \in S : b[s] \in Int,
         stock' = Moved(S, d, b)
  PROVE  /\ StockFits'
         /\ \A s : OnHand(s)' = (IF s \in S THEN OnHand(s) + d[s] ELSE OnHand(s))
         /\ \A s : Blocked(s)' = (IF s \in S THEN Blocked(s) + b[s] ELSE Blocked(s))
<1> DEFINE New(s) == [onHand |-> OnHand(s) + d[s], blocked |-> Blocked(s) + b[s],
                      levels |-> LevelsOf(s), updated |-> now]
<1>1. stock' = [s \in DOMAIN stock \cup S |-> IF s \notin S THEN stock[s] ELSE New(s)]
  BY DEF Moved
<1>2. \A s \in S : New(s).onHand = OnHand(s) + d[s] /\ New(s).blocked = Blocked(s) + b[s]
  OBVIOUS
<1> HIDE DEF New
<1>3. /\ DOMAIN stock' = DOMAIN stock \cup S /\ stock' = [s \in DOMAIN stock' |-> stock'[s]]
      /\ \A s \in DOMAIN stock : s \notin S => stock'[s] = stock[s]
      /\ \A s \in S : stock'[s] = New(s)
  BY <1>1
<1>4. \A s : /\ OnHand(s)' = (IF s \in S THEN OnHand(s) + d[s] ELSE OnHand(s))
             /\ Blocked(s)' = (IF s \in S THEN Blocked(s) + b[s] ELSE Blocked(s))
  BY <1>2, <1>3 DEF OnHand, Blocked
<1>5. \A s \in DOMAIN stock' : stock'[s].onHand \in Int /\ stock'[s].blocked \in Int
  <2> SUFFICES ASSUME NEW s \in DOMAIN stock'
               PROVE  stock'[s].onHand \in Int /\ stock'[s].blocked \in Int
    OBVIOUS
  <2>1. CASE s \in S
    <3>1. OnHand(s) \in Int /\ Blocked(s) \in Int /\ d[s] \in Int /\ b[s] \in Int
      BY <2>1, BalanceIs
    <3>2. stock'[s].onHand = OnHand(s) + d[s] /\ stock'[s].blocked = Blocked(s) + b[s]
      BY <1>2, <1>3, <2>1
    <3>3. QED
      BY <3>1, <3>2
  <2>2. CASE s \notin S
    BY <1>3, <2>2 DEF StockFits
  <2>3. QED
    BY <2>1, <2>2
<1>6. QED
  BY <1>3, <1>4, <1>5 DEF StockFits

(* Rows *)

LEMMA EntryFields ==
  ASSUME NEW s, NEW k, NEW q
  PROVE  /\ Entry(s, k, q).at = now /\ Entry(s, k, q).store = s /\ Entry(s, k, q).kind = k
         /\ Entry(s, k, q).qty = q /\ (Entry(s, k, q).official <=> k \notin Tracked)
         /\ ~Entry(s, k, q).claim
BY DEF Entry

\* A row that a desk writes now.
NewRow(e) == RowFits(e) /\ e.at = now

LEMMA EntryFits ==
  ASSUME now \in Instants, NEW s \in Stores, NEW k \in EntryKinds, NEW q \in Int,
         k = "LOAN_WRITE_OFF" => q <= 0
  PROVE  NewRow(Entry(s, k, q)) /\ (Moving(Entry(s, k, q)) <=> k \notin Unkept)
<1>1. Entry(s, k, q) \in Row
  BY DEF Entry, Row
<1>2. PICK e : e = Entry(s, k, q)
  OBVIOUS
<1>0. e.at = now /\ e.kind = k /\ e.qty = q /\ (e.official <=> k \notin Tracked) /\ ~e.claim
  BY <1>2, EntryFields
<1>3. NewRow(e)
  BY <1>0, <1>1, <1>2 DEF NewRow, RowFits, WrittenOffRow
<1>4. Moving(e) <=> k \notin Unkept
  BY <1>0 DEF Moving, WrittenOffRow, Unkept
<1>5. QED
  BY <1>2, <1>3, <1>4

\* Rows that are written add to what was there.
LEMMA RowsAdd ==
  ASSUME FiguresShape, NEW N, IsFiniteSet(N), \A e \in N : NewRow(e), entries' = entries \cup N
  PROVE  /\ IsFiniteSet(entries') /\ \A r \in entries' : RowFits(r) /\ r.at <= now
         /\ \A s : /\ Countable(MovingRows(entries, s)) /\ Countable(MovingRows(N, s))
                   /\ Total(MovingRows(entries, s))'
                        = Total(MovingRows(entries, s)) + Total(MovingRows(N, s))
<1>1. now \in Int /\ \A r \in entries : RowFits(r) /\ r.at \in Int /\ r.at < now /\ r.qty \in Int
  BY ClockTime DEF FiguresShape, EntriesFit, RowFits, Row
<1>2. IsFiniteSet(entries') /\ \A r \in entries' : RowFits(r) /\ r.at <= now
  <2>1. IsFiniteSet(entries')
    BY FS_Union DEF FiguresShape, EntriesFit
  <2>2. \A r \in N : RowFits(r) /\ r.at = now
    BY DEF NewRow
  <2>3. QED
    BY <1>1, <2>1, <2>2
<1>3. entries \cap N = {} /\ \A e \in N : e.qty \in Int
  BY <1>1 DEF NewRow, RowFits, Row
<1>4. ASSUME NEW s
      PROVE  /\ Countable(MovingRows(entries, s)) /\ Countable(MovingRows(N, s))
             /\ Total(MovingRows(entries, s))'
                  = Total(MovingRows(entries, s)) + Total(MovingRows(N, s))
  <2>1. IsFiniteSet(entries) /\ Countable(entries) /\ Countable(N)
    BY <1>1, <1>3 DEF FiguresShape, EntriesFit, Countable
  <2>2. Countable(MovingRows(entries, s)) /\ Countable(MovingRows(N, s))
    <3>1. MovingRows(entries, s) \subseteq entries /\ MovingRows(N, s) \subseteq N
      BY DEF MovingRows
    <3>2. QED
      BY <2>1, <3>1, CountablePart
  <2>3. /\ MovingRows(entries, s)' = MovingRows(entries, s) \cup MovingRows(N, s)
        /\ MovingRows(entries, s) \cap MovingRows(N, s) = {}
    BY <1>3 DEF MovingRows, Moving, WrittenOffRow
  <2>4. Total(MovingRows(entries, s))' = Total(MovingRows(entries, s)')
    OBVIOUS
  <2>5. QED
    BY <2>2, <2>3, <2>4, QtyUnion
<1>5. QED
  BY <1>2, <1>4

\* One row.
LEMMA OneRow ==
  ASSUME NEW e, e.qty \in Int, NEW s
  PROVE  Total(MovingRows({e}, s)) = IF e.store = s /\ Moving(e) THEN e.qty ELSE 0
<1>1. MovingRows({e}, s) = IF e.store = s /\ Moving(e) THEN {e} ELSE {}
  BY DEF MovingRows
<1>2. QED
  BY <1>1, QtyOne, QtyNone

LEMMA NoRow ==
  ASSUME NEW s
  PROVE  Total(MovingRows({}, s)) = 0
<1>1. MovingRows({}, s) = {}
  BY DEF MovingRows
<1>2. QED
  BY <1>1, QtyNone

(* Passes *)

LEMMA ShareIs ==
  ASSUME NEW g, NEW t, PassFits(g, t), NEW s
  PROVE  Share(g, s) \in Int /\ Countable(g.backs) /\ Total(g.backs) \in Int /\ g.qty \in Nat
<1>1. Countable(g.backs) /\ g.qty \in Nat
  BY DEF PassFits, PassRecord, ReturnRecord, Countable
<1>2. Total(g.backs) \in Int
  BY <1>1, InLessOut
<1>3. QED
  BY <1>1, <1>2 DEF Share

LEMMA AwayIs ==
  ASSUME PassesFit, NEW s
  PROVE  AllAway(s) \in Int /\ \A p \in Passes : Share(pass[p], s) \in Int
<1>1. \A p \in Passes : Share(pass[p], s) \in Int
  BY ShareIs DEF PassesFit
<1>2. QED
  BY <1>1, MonthsGiven, TotalInt DEF AllAway

\* One pass changes, and with it what is away.
LEMMA AwayChanges ==
  ASSUME PassesFit, NEW p \in Passes, NEW g, NEW t, PassFits(g, t), pass' = [pass EXCEPT ![p] = g],
         NEW s
  PROVE  AllAway(s)' = AllAway(s) + Share(g, s) - Share(pass[p], s)
<1> DEFINE f == [q \in Passes |-> Share(pass[q], s)]
           h == [q \in Passes |-> Share(pass'[q], s)]
<1>1. pass'[p] = g /\ \A q \in Passes : q # p => pass'[q] = pass[q]
  BY DEF PassesFit
<1>2. Share(g, s) \in Int /\ \A q \in Passes : Share(pass[q], s) \in Int
  BY AwayIs, ShareIs
<1>3. /\ \A q \in Passes : f[q] \in Int /\ h[q] \in Int
      /\ \A q \in Passes : q # p => h[q] = f[q]
      /\ f[p] = Share(pass[p], s) /\ h[p] = Share(g, s)
  BY <1>1, <1>2
<1>4. AllAway(s) = TotalOver(f, Passes) /\ AllAway(s)' = TotalOver(h, Passes)
  BY DEF AllAway
<1> HIDE DEF f, h
<1>5. TotalOver(h, Passes) = TotalOver(f, Passes) + h[p] - f[p]
  BY <1>3, MonthsGiven, TotalChanged
<1>6. QED
  BY <1>3, <1>4, <1>5

\* No step takes a row away, and new ones are of now.
Appended(N) == IsFiniteSet(N) /\ (\A e \in N : NewRow(e)) /\ entries' = entries \cup N

\* What a pass was before now it stays.
EarlierKept(h, g) ==
  /\ \/ g.out = h.out /\ g.store = h.store /\ g.kind = h.kind /\ g.qty = h.qty
     \/ h.out >= now /\ g.out >= now
  /\ h.backs \subseteq g.backs /\ \A b \in g.backs \ h.backs : b.at = now
  /\ g.closed = h.closed \/ g.closed >= now

\* A change of one pass: it fits, and keeps its past.
PassChanges(p, g) ==
  pass' = [pass EXCEPT ![p] = g] /\ PassFits(g, now') /\ EarlierKept(pass[p], g)

\* What a step does: later, with rows added, and passes changed at most now.
Forward ==
  /\ now' \in Instants /\ now <= now'
  /\ \E N : Appended(N)
  /\ \A p \in Passes : EarlierKept(pass[p], pass'[p])

LEMMA NowIs ==
  ASSUME FiguresShape
  PROVE  now \in Nat /\ Never \in Nat /\ now < Never
BY ClockTime DEF FiguresShape

\* The parts of the next state come together.
LEMMA ShapeStep ==
  ASSUME FiguresShape, now' \in Instants, now <= now', NEW N, Appended(N), N # {} => now < now',
         PassesFit', StockFits', sheets' \subseteq Sheet,
         \A s \in Stores : /\ OnHand(s)' = OnHand(s) + Total(MovingRows(N, s)) + AllAway(s)' - AllAway(s)
                           /\ Blocked(s)' = Blocked(s) + AllAway(s)' - AllAway(s)
  PROVE  FiguresShape'
<1>1. /\ IsFiniteSet(entries') /\ \A r \in entries' : RowFits(r) /\ r.at <= now
      /\ \A s : /\ Countable(MovingRows(entries, s)) /\ Countable(MovingRows(N, s))
                /\ Total(MovingRows(entries, s))' = Total(MovingRows(entries, s)) + Total(MovingRows(N, s))
  BY RowsAdd DEF Appended
<1>2. now \in Int /\ now' \in Int /\ \A r \in entries' : r.at \in Int
  <2>1. now \in Int /\ now' \in Int
    BY ClockTime DEF FiguresShape
  <2>2. QED
    BY <1>1, <2>1, ClockTime DEF RowFits, Row
<1>3. EntriesFit'
  <2>1. ASSUME NEW r \in entries'
        PROVE  RowFits(r) /\ r.at < now'
    <3>1. CASE N = {}
      <4>1. r \in entries
        BY <3>1 DEF Appended
      <4>2. RowFits(r) /\ r.at < now
        BY <4>1 DEF FiguresShape, EntriesFit
      <4>3. QED
        BY <1>2, <4>2
    <3>2. CASE N # {}
      BY <1>1, <1>2, <3>2
    <3>3. QED
      BY <3>1, <3>2
  <2>2. QED
    BY <1>1, <2>1 DEF EntriesFit, RowFits, WrittenOffRow
<1>4. BalancesFit'
  <2>1. ASSUME NEW s \in Stores
        PROVE  /\ OnHand(s)' = Total(MovingRows(entries, s))' + AllAway(s)'
               /\ Blocked(s)' = AllAway(s)'
    <3>1. /\ OnHand(s) = Total(MovingRows(entries, s)) + AllAway(s) /\ Blocked(s) = AllAway(s)
          /\ AllAway(s) \in Int
      BY AwayIs DEF FiguresShape, BalancesFit
    <3>2. AllAway(s)' \in Int
      <4>1. \A p \in Passes : Share(pass'[p], s) \in Int
        BY ShareIs DEF PassesFit
      <4>2. TotalOver([p \in Passes |-> Share(pass'[p], s)], Passes) \in Int
        BY <4>1, MonthsGiven, TotalInt
      <4>3. QED
        BY <4>2 DEF AllAway
    <3>3. Total(MovingRows(entries, s)) \in Int /\ Total(MovingRows(N, s)) \in Int
      BY <1>1, InLessOut
    <3>4. QED
      BY <1>1, <3>1, <3>2, <3>3
  <2>2. QED
    BY <2>1 DEF BalancesFit
<1>5. QED
  BY <1>3, <1>4 DEF FiguresShape

LEMMA PassStep ==
  ASSUME FiguresShape, now' \in Instants, now <= now', NEW p \in Passes, NEW g, PassChanges(p, g)
  PROVE  /\ PassesFit'
         /\ \A s : AllAway(s)' = AllAway(s) + Share(g, s) - Share(pass[p], s)
         /\ \A q \in Passes : EarlierKept(pass[q], pass'[q])
<1>1. PassesFit /\ now \in Int /\ now' \in Int
  BY ClockTime DEF FiguresShape
<1>2. /\ pass' \in [Passes -> PassRecord]
      /\ pass'[p] = g /\ \A q \in Passes : q # p => pass'[q] = pass[q]
  BY <1>1 DEF PassesFit, PassChanges, PassFits
<1>3. \A q \in Passes : PassFits(pass'[q], now')
  BY <1>1, <1>2, FitsLater DEF PassesFit, PassChanges
<1>4. PassesFit'
  BY <1>2, <1>3 DEF PassesFit
<1>5. \A s : AllAway(s)' = AllAway(s) + Share(g, s) - Share(pass[p], s)
  BY <1>1, AwayChanges DEF PassChanges
<1>6. \A q \in Passes : EarlierKept(pass[q], pass'[q])
  BY <1>2 DEF PassChanges, EarlierKept
<1>7. QED
  BY <1>4, <1>5, <1>6

\* A step that leaves the passes.
LEMMA PassesStay ==
  ASSUME FiguresShape, now' \in Instants, now <= now', pass' = pass
  PROVE  /\ PassesFit' /\ \A s : AllAway(s)' = AllAway(s)
         /\ \A q \in Passes : EarlierKept(pass[q], pass'[q])
<1>1. now \in Int /\ now' \in Int
  BY ClockTime DEF FiguresShape
<1>2. PassesFit'
  BY <1>1, FitsLater DEF FiguresShape, PassesFit
<1>3. \A s : AllAway(s)' = AllAway(s)
  BY DEF AllAway
<1>4. QED
  BY <1>2, <1>3 DEF EarlierKept

\* A step that leaves rows, passes and quantities.
LEMMA QuietStep ==
  ASSUME FiguresShape, now' \in Instants, now <= now', entries' = entries, pass' = pass,
         StockFits', sheets' \subseteq Sheet,
         \A s : OnHand(s)' = OnHand(s) /\ Blocked(s)' = Blocked(s)
  PROVE  FiguresShape' /\ Forward
<1>1. Appended({})
  BY FS_EmptySet DEF Appended
<1>2. /\ PassesFit' /\ \A s : AllAway(s)' = AllAway(s)
      /\ \A q \in Passes : EarlierKept(pass[q], pass'[q])
  BY PassesStay
<1>3. \A s \in Stores : /\ OnHand(s)' = OnHand(s) + Total(MovingRows({}, s)) + AllAway(s)' - AllAway(s)
                        /\ Blocked(s)' = Blocked(s) + AllAway(s)' - AllAway(s)
  <2>1. \A s : AllAway(s) \in Int /\ OnHand(s) \in Int /\ Blocked(s) \in Int /\ Total(MovingRows({}, s)) = 0
    BY AwayIs, BalanceIs, NoRow DEF FiguresShape
  <2>2. QED
    BY <1>2, <2>1
<1>4. FiguresShape'
  BY <1>1, <1>2, <1>3, ShapeStep
<1>5. QED
  BY <1>1, <1>2, <1>4 DEF Forward

(* Bookings *)

LEMMA BookKeeps ==
  ASSUME FiguresShape, NEW mv \in Moves, Book(mv)
  PROVE  FiguresShape' /\ Forward
<1> DEFINE N == RowsOf(mv)
           K == {e \in N : e.kind \notin Unkept}
           T == {e.store : e \in K}
           d == [s \in T |-> (CHOOSE e \in K : e.store = s).qty]
           b == [s \in T |-> 0]
<1>1. IsMove(mv) /\ mv.store \in Stores /\ mv.to \in Stores
  BY MonthsGiven DEF IsMove
<1>2. now \in Instants /\ StockFits /\ sheets \subseteq Sheet
  BY DEF FiguresShape
<1>3. now' \in Instants /\ now <= now' /\ now < now'
  BY <1>2, StampTime DEF Book
<1>4. /\ IsFiniteSet(N) /\ \A e \in N : NewRow(e) /\ (Moving(e) <=> e.kind \notin Unkept)
      /\ \A e, f \in N : e.store = f.store => e = f
      /\ \A s : Total(MovingRows(N, s)) = IF s \in T THEN d[s] ELSE 0
      /\ T \subseteq Stores /\ \A s \in T : d[s] \in Int
  <2>1. CASE mv.kind = "TRANSFER"
    <3>1. mv.qty \in Nat \ {0} /\ mv.store # mv.to
      BY <1>1, <2>1 DEF IsMove, Incoming, Outgoing, Signed
    <3> DEFINE out == Entry(mv.store, "TRANSFER_OUT", -mv.qty)
               in == Entry(mv.to, "TRANSFER_IN", mv.qty)
    <3>2. N = {out, in}
      BY <2>1 DEF RowsOf
    <3>3. /\ out.store = mv.store /\ out.qty = -mv.qty /\ out.kind = "TRANSFER_OUT"
          /\ in.store = mv.to /\ in.qty = mv.qty /\ in.kind = "TRANSFER_IN"
      BY EntryFields
    <3>4. /\ "TRANSFER_OUT" \in EntryKinds /\ "TRANSFER_IN" \in EntryKinds
          /\ "TRANSFER_OUT" \notin Unkept /\ "TRANSFER_IN" \notin Unkept
      BY DEF EntryKinds, Unkept, Tracked
    <3>5. NewRow(out) /\ NewRow(in) /\ Moving(out) /\ Moving(in)
      BY <1>1, <1>2, <3>1, <3>4, EntryFits
    <3> HIDE DEF out, in
    <3>6. K = {out, in} /\ T = {mv.store, mv.to}
      BY <3>2, <3>3, <3>4
    <3>7. d[mv.store] = out.qty /\ d[mv.to] = in.qty
      <4>1. (CHOOSE e \in K : e.store = mv.store) = out
        BY <3>1, <3>3, <3>6
      <4>2. (CHOOSE e \in K : e.store = mv.to) = in
        BY <3>1, <3>3, <3>6
      <4>3. QED
        BY <3>6, <4>1, <4>2
    <3>8. ASSUME NEW s
          PROVE  Total(MovingRows(N, s)) = IF s \in T THEN d[s] ELSE 0
      <4>1. Total(MovingRows({out}, s)) = (IF out.store = s THEN out.qty ELSE 0)
        BY <3>1, <3>3, <3>5, OneRow
      <4>2. Total(MovingRows({in}, s)) = (IF in.store = s THEN in.qty ELSE 0)
        BY <3>1, <3>3, <3>5, OneRow
      <4>3. s = mv.store => MovingRows(N, s) = MovingRows({out}, s)
        BY <3>1, <3>2, <3>3 DEF MovingRows
      <4>4. s # mv.store => MovingRows(N, s) = MovingRows({in}, s)
        BY <3>1, <3>2, <3>3 DEF MovingRows
      <4>5. QED
        BY <3>1, <3>3, <3>6, <3>7, <4>1, <4>2, <4>3, <4>4
    <3>9. IsFiniteSet(N)
      <4>1. IsFiniteSet({out}) /\ IsFiniteSet({in}) /\ N = {out} \cup {in}
        BY <3>2, FS_Singleton
      <4>2. QED
        BY <4>1, FS_Union
    <3>10. QED
      BY <1>1, <3>1, <3>2, <3>3, <3>4, <3>5, <3>6, <3>7, <3>8, <3>9
  <2>2. CASE mv.kind # "TRANSFER"
    <3> DEFINE q == IF mv.kind \in Outgoing THEN -mv.qty ELSE mv.qty
               row == Entry(mv.store, mv.kind, q)
    <3>1. N = {row}
      BY <2>2 DEF RowsOf
    <3>2. q \in Int /\ (mv.kind = "LOAN_WRITE_OFF" => q <= 0) /\ mv.kind \in EntryKinds
      BY <1>1, <2>2 DEF IsMove, Incoming, Outgoing, Signed, EntryKinds
    <3> HIDE DEF q
    <3>3. row.store = mv.store /\ row.qty = q /\ row.kind = mv.kind
      BY EntryFields
    <3>4. NewRow(row) /\ (Moving(row) <=> mv.kind \notin Unkept)
      BY <1>1, <1>2, <3>2, EntryFits
    <3> HIDE DEF row
    <3>5. K = (IF mv.kind \in Unkept THEN {} ELSE {row})
      BY <3>1, <3>3
    <3>6. T = (IF mv.kind \in Unkept THEN {} ELSE {mv.store})
      BY <3>3, <3>5
    <3>7. mv.kind \notin Unkept => d[mv.store] = q
      <4>1. mv.kind \notin Unkept => (CHOOSE e \in K : e.store = mv.store) = row
        BY <3>3, <3>5
      <4>2. QED
        BY <3>3, <3>6, <4>1
    <3>8. \A s : Total(MovingRows(N, s)) = IF s \in T THEN d[s] ELSE 0
      <4>1. \A s : Total(MovingRows({row}, s)) = IF row.store = s /\ Moving(row) THEN row.qty ELSE 0
        BY <3>2, <3>3, OneRow
      <4>2. QED
        BY <3>1, <3>3, <3>4, <3>6, <3>7, <4>1
    <3>9. IsFiniteSet(N)
      BY <3>1, FS_Singleton
    <3>10. QED
      BY <1>1, <3>1, <3>2, <3>3, <3>4, <3>6, <3>7, <3>8, <3>9
  <2>3. QED
    BY <2>1, <2>2
<1>5. /\ entries' = entries \cup N /\ stock' = Moved(T, d, b) /\ sheets' = sheets /\ pass' = pass
  BY DEF Book
<1>6. b = [s \in T |-> 0] /\ \A s \in T : b[s] = 0
  OBVIOUS
<1> HIDE DEF N, K, T, d, b
<1>7. Appended(N)
  BY <1>4, <1>5 DEF Appended
<1>8. /\ StockFits'
      /\ \A s : OnHand(s)' = (IF s \in T THEN OnHand(s) + d[s] ELSE OnHand(s))
      /\ \A s : Blocked(s)' = (IF s \in T THEN Blocked(s) + b[s] ELSE Blocked(s))
  BY <1>2, <1>4, <1>5, <1>6, MovedStock
<1>9. /\ PassesFit' /\ \A s : AllAway(s)' = AllAway(s)
      /\ \A q \in Passes : EarlierKept(pass[q], pass'[q])
  BY <1>3, <1>5, PassesStay
<1>10. \A s \in Stores : /\ OnHand(s)' = OnHand(s) + Total(MovingRows(N, s)) + AllAway(s)' - AllAway(s)
                         /\ Blocked(s)' = Blocked(s) + AllAway(s)' - AllAway(s)
  <2>1. \A s : OnHand(s) \in Int /\ Blocked(s) \in Int /\ AllAway(s) \in Int
    BY <1>2, BalanceIs, AwayIs DEF FiguresShape
  <2>2. QED
    BY <1>4, <1>6, <1>8, <1>9, <2>1
<1>11. FiguresShape'
  BY <1>2, <1>3, <1>5, <1>7, <1>8, <1>9, <1>10, ShapeStep
<1>12. QED
  BY <1>3, <1>7, <1>9, <1>11 DEF Forward

(* Gate passes *)

\* Records of passes, field by field.
LEMMA PassIs ==
  ASSUME FiguresShape, NEW p \in Passes
  PROVE  /\ pass[p] \in PassRecord /\ PassFits(pass[p], now) /\ pass[p].store \in Stores
         /\ pass[p].qty \in Nat /\ pass[p].back \in Int /\ pass[p].owed \in [Claims -> Int]
         /\ pass[p].kind \in {"TEMPORARY", "PERMANENT"} /\ pass[p].internal \in BOOLEAN
         /\ pass[p].status \in PassStatus
         /\ pass[p].out \in Instants \cup {Never} /\ pass[p].closed \in Instants \cup {Never}
         /\ pass[p].backs \subseteq ReturnRecord
BY DEF FiguresShape, PassesFit, PassFits, PassRecord

LEMMA SendOutKeeps ==
  ASSUME FiguresShape, NEW p \in Passes, NEW s \in Stores, NEW q \in Loads,
         NEW kind \in {"TEMPORARY", "PERMANENT"}, NEW internal \in BOOLEAN,
         SendOut(p, s, q, kind, internal)
  PROVE  FiguresShape' /\ Forward
<1> DEFINE gift == kind = "PERMANENT"
           over == gift /\ ~internal
           k == IF gift THEN "ISSUE" ELSE "GET_PASS_OUT"
           row == Entry(s, k, -q)
           d == [x \in {s} |-> IF gift THEN -q ELSE 0]
           b == [x \in {s} |-> IF gift THEN 0 ELSE q]
           g == [store |-> s, qty |-> q, kind |-> kind, internal |-> internal,
                 status |-> IF over THEN "CLOSED" ELSE "OUT", back |-> 0,
                 out |-> now, closed |-> IF over THEN now ELSE Never, backs |-> {},
                 owed |-> pass[p].owed]
<1>1. now \in Instants /\ StockFits /\ sheets \subseteq Sheet /\ q \in Nat /\ now \in Nat /\ Never \in Nat /\ now < Never
  BY MonthsGiven, NowIs DEF FiguresShape
<1>2. now' \in Instants /\ now <= now' /\ now < now' /\ now' \in Nat
  BY <1>1, StampTime DEF SendOut
<1>3. /\ pass[p].status = "none" /\ entries' = entries \cup {row} /\ stock' = Moved({s}, d, b)
      /\ pass' = [pass EXCEPT ![p] = g] /\ sheets' = sheets
  BY DEF SendOut, SetPass
<1>4. /\ NewRow(row) /\ row.store = s /\ row.qty = -q /\ Moving(row)
  <2>1. k \in EntryKinds /\ k \notin Unkept
    BY DEF EntryKinds, Outgoing, Unkept, Tracked
  <2>2. -q \in Int /\ k # "LOAN_WRITE_OFF"
    BY <1>1
  <2> HIDE DEF k
  <2>3. QED
    BY <1>1, <2>1, <2>2, EntryFits, EntryFields
<1>5. /\ pass[p].out = Never /\ pass[p].closed = Never /\ pass[p].backs = {}
      /\ \A x : Share(pass[p], x) = 0
  BY <1>3, PassIs DEF PassFits, Share
<1>6. /\ g.store = s /\ g.qty = q /\ g.kind = kind /\ g.out = now /\ g.backs = {}
      /\ g.status \in {"CLOSED", "OUT"} /\ g.closed \in {now, Never}
  OBVIOUS
<1>7. g \in PassRecord
  <2>1. pass[p].owed \in [Claims -> Int] /\ g.status \in PassStatus /\ g.closed \in Instants \cup {Never}
    BY <1>1, <1>6, PassIs DEF PassStatus
  <2>2. QED
    BY <1>1, <2>1 DEF PassRecord
<1>8. \A x \in {s} : d[x] = (IF gift THEN -q ELSE 0) /\ b[x] = (IF gift THEN 0 ELSE q)
  OBVIOUS
<1>9. row = Entry(s, k, -q)
  OBVIOUS
<1> HIDE DEF row, k, d, b, g
<1>10. PassChanges(p, g)
  <2>1. PassFits(g, now')
    BY <1>2, <1>6, <1>7, <1>1, FS_EmptySet DEF PassFits
  <2>2. EarlierKept(pass[p], g)
    BY <1>1, <1>5, <1>6 DEF EarlierKept
  <2>3. QED
    BY <1>3, <2>1, <2>2 DEF PassChanges
<1>11. \A x : Share(g, x) = IF x = s /\ ~gift THEN q ELSE 0
  BY <1>1, <1>6, QtyNone DEF Share
<1>12. /\ PassesFit'
       /\ \A x : AllAway(x)' = AllAway(x) + Share(g, x) - Share(pass[p], x)
       /\ \A x \in Passes : EarlierKept(pass[x], pass'[x])
  BY <1>2, <1>10, PassStep
<1>13. Appended({row})
  BY <1>3, <1>4, FS_Singleton DEF Appended
<1>14. \A x : Total(MovingRows({row}, x)) = IF x = s THEN -q ELSE 0
  BY <1>1, <1>4, OneRow
<1>15. /\ StockFits'
       /\ \A x : OnHand(x)' = (IF x \in {s} THEN OnHand(x) + d[x] ELSE OnHand(x))
       /\ \A x : Blocked(x)' = (IF x \in {s} THEN Blocked(x) + b[x] ELSE Blocked(x))
  <2>1. \A x \in {s} : d[x] \in Int /\ b[x] \in Int
    BY <1>1, <1>8
  <2>2. QED
    BY <1>1, <1>3, <2>1, MovedStock
<1>16. \A x \in Stores : /\ OnHand(x)' = OnHand(x) + Total(MovingRows({row}, x)) + AllAway(x)' - AllAway(x)
                         /\ Blocked(x)' = Blocked(x) + AllAway(x)' - AllAway(x)
  <2>1. \A x : OnHand(x) \in Int /\ Blocked(x) \in Int /\ AllAway(x) \in Int
    BY <1>1, BalanceIs, AwayIs DEF FiguresShape
  <2>2. \A x : AllAway(x)' = AllAway(x) + IF x = s /\ ~gift THEN q ELSE 0
    BY <1>1, <1>5, <1>11, <1>12, <2>1
  <2>3. ASSUME NEW x \in Stores
        PROVE  /\ OnHand(x)' = OnHand(x) + Total(MovingRows({row}, x)) + AllAway(x)' - AllAway(x)
               /\ Blocked(x)' = Blocked(x) + AllAway(x)' - AllAway(x)
    <3>1. CASE x = s
      <4>1. d[x] = (IF gift THEN -q ELSE 0) /\ b[x] = (IF gift THEN 0 ELSE q)
        BY <1>8, <3>1
      <4>2. OnHand(x)' = OnHand(x) + d[x] /\ Blocked(x)' = Blocked(x) + b[x]
        BY <1>15, <3>1
      <4>3. Total(MovingRows({row}, x)) = -q /\ AllAway(x)' = AllAway(x) + IF gift THEN 0 ELSE q
        BY <1>14, <2>2, <3>1
      <4>4. QED
        BY <1>1, <2>1, <4>1, <4>2, <4>3
    <3>2. CASE x # s
      <4>1. OnHand(x)' = OnHand(x) /\ Blocked(x)' = Blocked(x)
        BY <1>15, <3>2
      <4>2. Total(MovingRows({row}, x)) = 0
        BY <1>14, <3>2
      <4>3. AllAway(x)' = AllAway(x) + 0
        BY <2>2, <3>2
      <4>4. QED
        BY <2>1, <4>1, <4>2, <4>3
    <3>3. QED
      BY <3>1, <3>2
  <2>4. QED
    BY <2>3
<1>17. FiguresShape'
  BY <1>1, <1>2, <1>3, <1>12, <1>13, <1>15, <1>16, ShapeStep
<1>18. QED
  BY <1>2, <1>12, <1>13, <1>17 DEF Forward

\* What goods that come back do to rows and balances.
LEMMA GoodsBackDoes ==
  ASSUME FiguresShape, NEW s \in Stores, NEW n \in Splits, GoodsBack(s, n)
  PROVE  /\ now' \in Instants /\ now < now' /\ now' \in Nat /\ StockFits' /\ sheets' = sheets
         /\ \E N : /\ Appended(N)
                   /\ \A x : /\ OnHand(x)' = OnHand(x) + Total(MovingRows(N, x)) - (IF x = s THEN Size(n) ELSE 0)
                             /\ Blocked(x)' = Blocked(x) - (IF x = s THEN Size(n) ELSE 0)
<1>1. /\ now \in Instants /\ StockFits /\ n.good \in Nat /\ Size(n) \in Nat /\ Bad(n) \in Nat
      /\ Size(n) = n.good + Bad(n)
  BY MonthsGiven DEF FiguresShape
<1>2. now' \in Instants /\ now < now' /\ now' \in Nat /\ sheets' = sheets
  BY <1>1, StampTime DEF GoodsBack
<1> DEFINE row == Entry(s, "RETURN", n.good)
           N == IF n.good > 0 THEN {row} ELSE {}
           d == [x \in {s} |-> -Bad(n)]
           b == [x \in {s} |-> -Size(n)]
<1>3. entries' = entries \cup N
  BY DEF GoodsBack
<1>4. NewRow(row) /\ row.store = s /\ row.qty = n.good /\ Moving(row)
  <2>1. "RETURN" \in EntryKinds /\ "RETURN" \notin Unkept
    BY DEF EntryKinds, Incoming, Unkept, Tracked
  <2>2. n.good \in Int
    BY <1>1
  <2>3. QED
    BY <1>1, <2>1, <2>2, EntryFits, EntryFields
<1> HIDE DEF row
<1>5. Appended(N)
  BY <1>3, <1>4, FS_Singleton, FS_EmptySet DEF Appended
<1>6. \A x : Total(MovingRows(N, x)) = IF x = s THEN n.good ELSE 0
  <2>1. \A x : Total(MovingRows({row}, x)) = IF x = s THEN n.good ELSE 0
    BY <1>1, <1>4, OneRow
  <2>2. \A x : Total(MovingRows({}, x)) = 0
    BY NoRow
  <2>3. CASE n.good > 0
    BY <2>1, <2>3
  <2>4. CASE ~(n.good > 0)
    BY <1>1, <2>2, <2>4
  <2>5. QED
    BY <2>3, <2>4
<1>7. /\ StockFits'
      /\ \A x : OnHand(x)' = (IF x = s THEN OnHand(x) - Bad(n) ELSE OnHand(x))
      /\ \A x : Blocked(x)' = (IF x = s THEN Blocked(x) - Size(n) ELSE Blocked(x))
  <2>1. \A x : OnHand(x) \in Int /\ Blocked(x) \in Int
    BY <1>1, BalanceIs
  <2>2. CASE Size(n) = 0
    <3>1. stock' = stock
      BY <2>2 DEF GoodsBack
    <3>2. Bad(n) = 0
      BY <1>1, <2>2
    <3>3. QED
      BY <1>1, <2>1, <2>2, <3>1, <3>2 DEF StockFits, OnHand, Blocked
  <2>3. CASE Size(n) # 0
    <3>1. stock' = Moved({s}, d, b)
      BY <2>3 DEF GoodsBack
    <3>2. \A x \in {s} : d[x] = -Bad(n) /\ b[x] = -Size(n)
      OBVIOUS
    <3> HIDE DEF d, b
    <3>3. \A x \in {s} : d[x] \in Int /\ b[x] \in Int
      BY <1>1, <3>2
    <3>4. /\ StockFits'
          /\ \A x : OnHand(x)' = (IF x \in {s} THEN OnHand(x) + d[x] ELSE OnHand(x))
          /\ \A x : Blocked(x)' = (IF x \in {s} THEN Blocked(x) + b[x] ELSE Blocked(x))
      BY <1>1, <3>1, <3>3, MovedStock
    <3>5. QED
      BY <1>1, <2>1, <3>2, <3>4
  <2>4. QED
    BY <2>2, <2>3
<1> HIDE DEF N
<1>8. \A x : /\ OnHand(x)' = OnHand(x) + Total(MovingRows(N, x)) - (IF x = s THEN Size(n) ELSE 0)
             /\ Blocked(x)' = Blocked(x) - (IF x = s THEN Size(n) ELSE 0)
  <2>1. \A x : OnHand(x) \in Int /\ Blocked(x) \in Int
    BY <1>1, BalanceIs
  <2>2. QED
    BY <1>1, <1>6, <1>7, <2>1
<1>9. QED
  BY <1>2, <1>5, <1>7, <1>8

\* The pass records what comes back, at now.
LEMMA ReturnKeeps ==
  ASSUME FiguresShape, NEW p \in Passes, NEW n \in Splits, GoodsBack(pass[p].store, n),
         NEW g \in PassRecord, pass' = [pass EXCEPT ![p] = g],
         NEW noted \in Nat,
         g.backs = pass[p].backs \cup {[at |-> now, qty |-> Size(n), bad |-> Bad(n), noted |-> noted]},
         g.store = pass[p].store, g.qty = pass[p].qty, g.kind = pass[p].kind, g.out = pass[p].out,
         g.closed \in {pass[p].closed, now},
         pass[p].status # "none", pass[p].kind # "PERMANENT", g.status # "none"
  PROVE  FiguresShape' /\ Forward
<1> DEFINE c == [at |-> now, qty |-> Size(n), bad |-> Bad(n), noted |-> noted]
           s == pass[p].store
<1>1. /\ now \in Instants /\ now \in Nat /\ StockFits /\ sheets \subseteq Sheet /\ Size(n) \in Nat
      /\ s \in Stores /\ PassFits(pass[p], now) /\ pass[p].closed \in Instants \cup {Never}
  BY MonthsGiven, NowIs, PassIs DEF FiguresShape
<1>2. PICK N : /\ now' \in Instants /\ now < now' /\ now' \in Nat /\ StockFits' /\ sheets' = sheets /\ Appended(N)
               /\ \A x : /\ OnHand(x)' = OnHand(x) + Total(MovingRows(N, x)) - (IF x = s THEN Size(n) ELSE 0)
                         /\ Blocked(x)' = Blocked(x) - (IF x = s THEN Size(n) ELSE 0)
  BY <1>1, GoodsBackDoes
<1>3. c.at = now /\ c.qty = Size(n) /\ c.qty \in Int
  BY <1>1
<1>4. g.backs = pass[p].backs \cup {c}
  OBVIOUS
<1> HIDE DEF c, s
<1>5. c \notin pass[p].backs /\ \A b \in pass[p].backs : b.at \in Int /\ b.at < now
  <2>1. \A b \in pass[p].backs : b.at \in Int
    BY PassIs, ClockTime DEF ReturnRecord
  <2>2. \A b \in pass[p].backs : b.at < now
    BY <1>1 DEF PassFits
  <2>3. QED
    BY <1>1, <1>3, <2>1, <2>2
<1>6. Total(g.backs) = Total(pass[p].backs) + Size(n) /\ Total(pass[p].backs) \in Int /\ pass[p].qty \in Nat
  <2>1. Countable(pass[p].backs) /\ Total(pass[p].backs) \in Int /\ pass[p].qty \in Nat
    BY <1>1, ShareIs
  <2>2. Countable({c}) /\ Total({c}) = Size(n)
    BY <1>3, QtyOne
  <2>3. pass[p].backs \cap {c} = {}
    BY <1>5
  <2>4. Total(pass[p].backs \cup {c}) = Total(pass[p].backs) + Total({c})
    BY <2>1, <2>2, <2>3, QtyUnion
  <2>5. QED
    BY <1>4, <2>1, <2>2, <2>4
<1>7. PassChanges(p, g)
  <2>1. IsFiniteSet(g.backs)
    BY <1>1, <1>4, FS_AddElement DEF PassFits
  <2>2. \A b \in g.backs : b.at < now'
    BY <1>1, <1>2, <1>3, <1>4, <1>5
  <2>3. g.out < now'
    <3>1. pass[p].out < now
      BY <1>1 DEF PassFits
    <3>2. pass[p].out \in Int
      BY PassIs, ClockTime
    <3>3. QED
      BY <1>1, <1>2, <3>1, <3>2
  <2>4. PassFits(g, now')
    BY <2>1, <2>2, <2>3 DEF PassFits
  <2>5. EarlierKept(pass[p], g)
    BY <1>1, <1>3, <1>4 DEF EarlierKept
  <2>6. QED
    BY <2>4, <2>5 DEF PassChanges
<1>8. \A x : Share(g, x) = Share(pass[p], x) - (IF x = s THEN Size(n) ELSE 0)
  BY <1>1, <1>6 DEF Share, s
<1>9. /\ PassesFit'
      /\ \A x : AllAway(x)' = AllAway(x) + Share(g, x) - Share(pass[p], x)
      /\ \A x \in Passes : EarlierKept(pass[x], pass'[x])
  BY <1>1, <1>2, <1>7, PassStep
<1>10. \A x \in Stores : /\ OnHand(x)' = OnHand(x) + Total(MovingRows(N, x)) + AllAway(x)' - AllAway(x)
                         /\ Blocked(x)' = Blocked(x) + AllAway(x)' - AllAway(x)
  <2>1. \A x : /\ OnHand(x) \in Int /\ Blocked(x) \in Int /\ AllAway(x) \in Int
               /\ Share(pass[p], x) \in Int
    BY <1>1, BalanceIs, AwayIs DEF FiguresShape
  <2>2. \A x : Total(MovingRows(N, x)) \in Int
    BY <1>2, RowsAdd, InLessOut DEF Appended
  <2>3. QED
    BY <1>1, <1>2, <1>8, <1>9, <2>1, <2>2
<1>11. FiguresShape' /\ now <= now'
  BY <1>1, <1>2, <1>9, <1>10, ShapeStep
<1>12. QED
  BY <1>2, <1>9, <1>11 DEF Forward

LEMMA TakeBackKeeps ==
  ASSUME FiguresShape, NEW p \in Passes, NEW n \in Splits, TakeBack(p, n)
  PROVE  FiguresShape' /\ Forward
<1> DEFINE back == pass[p].back + Size(n)
           left == IF back < pass[p].qty THEN "PARTIALLY_RETURNED" ELSE "RETURNED"
           c == [at |-> now, qty |-> Size(n), bad |-> Bad(n), noted |-> Size(n)]
           backs == pass[p].backs \cup {c}
           g == [pass[p] EXCEPT !.status = left, !.back = back, !.backs = backs]
<1>1. /\ GoodsBack(pass[p].store, n) /\ pass[p].status \in {"OUT", "PARTIALLY_RETURNED"}
      /\ pass[p].kind # "PERMANENT" /\ pass' = [pass EXCEPT ![p] = g]
  BY DEF TakeBack, SetPass
<1>2. now \in Instants /\ Size(n) \in Nat /\ Bad(n) \in Nat /\ pass[p] \in PassRecord /\ pass[p].back \in Int
  BY MonthsGiven, PassIs DEF FiguresShape
<1>3. c \in ReturnRecord
  BY <1>2 DEF ReturnRecord
<1>4. backs \in SUBSET ReturnRecord /\ back \in Int /\ left \in {"PARTIALLY_RETURNED", "RETURNED"}
  BY <1>2, <1>3, PassIs
<1> HIDE DEF back, left, c, backs
<1>5. /\ g \in PassRecord /\ g.backs = backs /\ g.status = left /\ g.store = pass[p].store
      /\ g.qty = pass[p].qty /\ g.kind = pass[p].kind /\ g.out = pass[p].out /\ g.closed = pass[p].closed
  BY <1>2, <1>4 DEF PassRecord, PassStatus
<1> HIDE DEF g
<1>6. g.backs = pass[p].backs \cup {[at |-> now, qty |-> Size(n), bad |-> Bad(n), noted |-> Size(n)]}
  BY <1>5 DEF backs, c
<1>7. QED
  BY <1>1, <1>2, <1>4, <1>5, <1>6, ReturnKeeps

LEMMA AcceptReturnKeeps ==
  ASSUME FiguresShape, NEW p \in Passes, NEW n \in Splits, AcceptReturn(p, n)
  PROVE  FiguresShape' /\ Forward
<1> DEFINE c == [at |-> now, qty |-> Size(n), bad |-> Bad(n), noted |-> Bad(n)]
           backs == pass[p].backs \cup {c}
           owed == [k \in Claims |-> IF k = "BREAKAGE" THEN n.damaged ELSE n.lost]
           g == [pass[p] EXCEPT !.status = "RETURNED", !.closed = now, !.backs = backs, !.owed = owed]
<1>1. /\ GoodsBack(pass[p].store, n) /\ pass[p].status = "RETURN_RECEIVED_AT_GATE"
      /\ pass' = [pass EXCEPT ![p] = g]
  BY DEF AcceptReturn, SetPass
<1>2. /\ now \in Instants /\ Size(n) \in Nat /\ Bad(n) \in Nat /\ n.damaged \in Int /\ n.lost \in Int
      /\ pass[p] \in PassRecord /\ pass[p].kind # "PERMANENT"
  BY <1>1, MonthsGiven, PassIs DEF FiguresShape, PassFits
<1>3. c \in ReturnRecord
  BY <1>2 DEF ReturnRecord
<1>4. backs \in SUBSET ReturnRecord /\ owed \in [Claims -> Int]
  BY <1>2, <1>3, PassIs
<1> HIDE DEF c, backs, owed
<1>5. /\ g \in PassRecord /\ g.backs = backs /\ g.status = "RETURNED" /\ g.store = pass[p].store
      /\ g.qty = pass[p].qty /\ g.kind = pass[p].kind /\ g.out = pass[p].out /\ g.closed = now
  BY <1>2, <1>4 DEF PassRecord, PassStatus
<1> HIDE DEF g
<1>6. g.backs = pass[p].backs \cup {[at |-> now, qty |-> Size(n), bad |-> Bad(n), noted |-> Bad(n)]}
  BY <1>5 DEF backs, c
<1>7. QED
  BY <1>1, <1>2, <1>5, <1>6, ReturnKeeps

\* Steps of a pass that leave what it has away.
LEMMA SameShare ==
  ASSUME FiguresShape, NEW p \in Passes, NEW g \in PassRecord, pass' = [pass EXCEPT ![p] = g],
         now' \in Instants, now <= now',
         pass[p].status # "none", g.status # "none",
         g.status \in {"RETURNING", "RETURN_RECEIVED_AT_GATE"} => g.kind # "PERMANENT",
         g.backs = pass[p].backs, g.store = pass[p].store, g.qty = pass[p].qty,
         g.kind = pass[p].kind, g.out = pass[p].out, g.closed \in {pass[p].closed, now}
  PROVE  /\ PassesFit' /\ \A x : AllAway(x)' = AllAway(x)
         /\ \A q \in Passes : EarlierKept(pass[q], pass'[q])
<1>1. now \in Int /\ now' \in Int /\ PassesFit
  BY ClockTime DEF FiguresShape
<1>2. PassFits(pass[p], now')
  BY <1>1, FitsLater, PassIs
<1>3. PassFits(g, now')
  BY <1>2 DEF PassFits
<1>4. EarlierKept(pass[p], g)
  BY <1>1 DEF EarlierKept
<1>5. /\ PassesFit'
      /\ \A x : AllAway(x)' = AllAway(x) + Share(g, x) - Share(pass[p], x)
      /\ \A q \in Passes : EarlierKept(pass[q], pass'[q])
  BY <1>3, <1>4, PassStep DEF PassChanges
<1>6. \A x : Share(g, x) = Share(pass[p], x)
  BY DEF Share
<1>7. \A x : AllAway(x) \in Int /\ Share(pass[p], x) \in Int
  BY <1>1, AwayIs
<1>8. QED
  BY <1>5, <1>6, <1>7

LEMMA PassMovesKeeps ==
  ASSUME FiguresShape, NEW p \in Passes, NEW from \in PassStatus \ {"none"}, NEW to \in PassStatus \ {"none"},
         NEW back \in Int, PassMoves(p, from, to, back),
         to \in {"RETURNING", "RETURN_RECEIVED_AT_GATE"} => pass[p].kind # "PERMANENT"
  PROVE  FiguresShape' /\ Forward
<1> DEFINE g == [pass[p] EXCEPT !.status = to, !.back = back]
<1>1. /\ pass' = [pass EXCEPT ![p] = g] /\ pass[p].status = from /\ now' = now /\ entries' = entries
      /\ stock' = stock /\ sheets' = sheets
  BY DEF PassMoves, SetPass, books
<1>2. now' \in Instants /\ now <= now' /\ now \in Nat
  BY <1>1, NowIs DEF FiguresShape
<1>3. pass[p] \in PassRecord
  BY PassIs
<1>4. /\ g \in PassRecord /\ g.backs = pass[p].backs /\ g.store = pass[p].store /\ g.qty = pass[p].qty
      /\ g.kind = pass[p].kind /\ g.out = pass[p].out /\ g.closed = pass[p].closed /\ g.status = to
  BY <1>3 DEF PassRecord
<1> HIDE DEF g
<1>5. /\ PassesFit' /\ \A x : AllAway(x)' = AllAway(x)
      /\ \A q \in Passes : EarlierKept(pass[q], pass'[q])
  BY <1>1, <1>2, <1>4, SameShare
<1>6. Appended({})
  BY <1>1, FS_EmptySet DEF Appended
<1>7. StockFits' /\ sheets' \subseteq Sheet /\ \A x : OnHand(x)' = OnHand(x) /\ Blocked(x)' = Blocked(x)
  BY <1>1 DEF FiguresShape, StockFits, OnHand, Blocked
<1>8. \A x \in Stores : /\ OnHand(x)' = OnHand(x) + Total(MovingRows({}, x)) + AllAway(x)' - AllAway(x)
                        /\ Blocked(x)' = Blocked(x) + AllAway(x)' - AllAway(x)
  <2>1. \A x : AllAway(x) \in Int /\ OnHand(x) \in Int /\ Blocked(x) \in Int /\ Total(MovingRows({}, x)) = 0
    BY AwayIs, BalanceIs, NoRow DEF FiguresShape
  <2>2. QED
    BY <1>5, <1>7, <2>1
<1>9. FiguresShape'
  BY <1>2, <1>5, <1>6, <1>7, <1>8, ShapeStep
<1>10. QED
  BY <1>2, <1>5, <1>6, <1>9 DEF Forward

LEMMA ClosePassKeeps ==
  ASSUME FiguresShape, NEW p \in Passes, ClosePass(p)
  PROVE  FiguresShape' /\ Forward
<1> DEFINE g == [pass[p] EXCEPT !.status = "CLOSED", !.closed = now]
<1>1. /\ pass' = [pass EXCEPT ![p] = g] /\ pass[p].status # "none" /\ entries' = entries
      /\ stock' = stock /\ sheets' = sheets
  BY DEF ClosePass, SetPass, books
<1>2. now \in Instants /\ now' \in Instants /\ now <= now' /\ now \in Nat
  BY NowIs, StampTime DEF FiguresShape, ClosePass
<1>3. pass[p] \in PassRecord
  BY PassIs
<1>4. /\ g \in PassRecord /\ g.backs = pass[p].backs /\ g.store = pass[p].store /\ g.qty = pass[p].qty
      /\ g.kind = pass[p].kind /\ g.out = pass[p].out /\ g.closed = now /\ g.status = "CLOSED"
  BY <1>2, <1>3 DEF PassRecord, PassStatus
<1> HIDE DEF g
<1>5. /\ PassesFit' /\ \A x : AllAway(x)' = AllAway(x)
      /\ \A q \in Passes : EarlierKept(pass[q], pass'[q])
  BY <1>1, <1>2, <1>4, SameShare
<1>6. Appended({})
  BY <1>1, FS_EmptySet DEF Appended
<1>7. StockFits' /\ sheets' \subseteq Sheet /\ \A x : OnHand(x)' = OnHand(x) /\ Blocked(x)' = Blocked(x)
  BY <1>1 DEF FiguresShape, StockFits, OnHand, Blocked
<1>8. \A x \in Stores : /\ OnHand(x)' = OnHand(x) + Total(MovingRows({}, x)) + AllAway(x)' - AllAway(x)
                        /\ Blocked(x)' = Blocked(x) + AllAway(x)' - AllAway(x)
  <2>1. \A x : AllAway(x) \in Int /\ OnHand(x) \in Int /\ Blocked(x) \in Int /\ Total(MovingRows({}, x)) = 0
    BY AwayIs, BalanceIs, NoRow DEF FiguresShape
  <2>2. QED
    BY <1>5, <1>7, <2>1
<1>9. FiguresShape'
  BY <1>2, <1>5, <1>6, <1>7, <1>8, ShapeStep
<1>10. QED
  BY <1>2, <1>5, <1>6, <1>9 DEF Forward

\* A claim's row leaves the balance, which has given the goods up before.
LEMMA ChargeKeeps ==
  ASSUME FiguresShape, NEW p \in Passes, NEW k \in Claims, Charge(p, k)
  PROVE  FiguresShape' /\ Forward
<1> DEFINE s == pass[p].store
           q == pass[p].owed[k]
           row == [Entry(s, k, -q) EXCEPT !.claim = TRUE]
           owed == [pass[p].owed EXCEPT ![k] = 0]
           g == [pass[p] EXCEPT !.owed = owed]
           d == [x \in {s} |-> 0]
<1>1. /\ q > 0 /\ entries' = entries \cup {row} /\ stock' = Moved({s}, d, d)
      /\ pass' = [pass EXCEPT ![p] = g] /\ sheets' = sheets
  BY DEF Charge, SetPass
<1>2. /\ now \in Instants /\ now' \in Instants /\ now <= now' /\ now < now' /\ now \in Nat
      /\ StockFits /\ sheets \subseteq Sheet
  BY NowIs, StampTime DEF FiguresShape, Charge
<1>3. pass[p] \in PassRecord /\ s \in Stores /\ pass[p].owed \in [Claims -> Int] /\ q \in Int
  BY PassIs
<1>4. owed \in [Claims -> Int]
  BY <1>3
<1>5. row.at = now /\ row.kind = k /\ row.qty = -q /\ row.claim /\ row \in Row
  <2>1. k \in EntryKinds
    BY DEF EntryKinds, Outgoing, Claims
  <2>2. Entry(s, k, -q) \in Row
    BY <1>2, <1>3, <2>1 DEF Entry, Row
  <2>3. QED
    BY <2>2, EntryFields DEF Row
<1> HIDE DEF row, owed
<1>6. \A x \in {s} : d[x] = 0
  OBVIOUS
<1> HIDE DEF d
<1>7. /\ g \in PassRecord /\ g.backs = pass[p].backs /\ g.store = pass[p].store /\ g.qty = pass[p].qty
      /\ g.kind = pass[p].kind /\ g.out = pass[p].out /\ g.closed = pass[p].closed /\ g.status = pass[p].status
  BY <1>3, <1>4 DEF PassRecord
<1> HIDE DEF g
<1>8. NewRow(row) /\ ~Moving(row) /\ row.qty \in Int
  BY <1>1, <1>3, <1>5 DEF NewRow, RowFits, WrittenOffRow, Moving
<1>9. Appended({row})
  BY <1>1, <1>8, FS_Singleton DEF Appended
<1>10. /\ PassesFit' /\ \A x : AllAway(x)' = AllAway(x)
       /\ \A r \in Passes : EarlierKept(pass[r], pass'[r])
  <2>1. CASE pass[p].status = "none"
    <3>1. PassFits(pass[p], now) /\ PassesFit /\ now' \in Int /\ now \in Int
      BY <1>2, PassIs, ClockTime DEF FiguresShape
    <3>2. PassFits(pass[p], now')
      BY <1>2, <3>1, FitsLater
    <3>3. PassFits(g, now')
      BY <1>7, <3>2 DEF PassFits
    <3>4. EarlierKept(pass[p], g) /\ \A x : Share(g, x) = Share(pass[p], x)
      BY <1>7 DEF EarlierKept, Share
    <3>5. /\ PassesFit'
          /\ \A x : AllAway(x)' = AllAway(x) + Share(g, x) - Share(pass[p], x)
          /\ \A r \in Passes : EarlierKept(pass[r], pass'[r])
      BY <1>1, <1>2, <3>3, <3>4, PassStep DEF PassChanges
    <3>6. \A x : AllAway(x) \in Int /\ Share(pass[p], x) \in Int
      BY <3>1, AwayIs
    <3>7. QED
      BY <3>4, <3>5, <3>6
  <2>2. CASE pass[p].status # "none"
    <3>1. g.status \in {"RETURNING", "RETURN_RECEIVED_AT_GATE"} => g.kind # "PERMANENT"
      BY <1>7, PassIs DEF PassFits
    <3>2. QED
      BY <1>1, <1>2, <1>7, <2>2, <3>1, SameShare
  <2>3. QED
    BY <2>1, <2>2
<1>11. /\ StockFits'
       /\ \A x : OnHand(x)' = OnHand(x) /\ Blocked(x)' = Blocked(x)
  <2>1. \A x \in {s} : d[x] \in Int
    BY <1>6
  <2>2. /\ StockFits'
        /\ \A x : OnHand(x)' = (IF x \in {s} THEN OnHand(x) + d[x] ELSE OnHand(x))
        /\ \A x : Blocked(x)' = (IF x \in {s} THEN Blocked(x) + d[x] ELSE Blocked(x))
    BY <1>1, <1>2, <1>3, <2>1, MovedStock
  <2>3. \A x : OnHand(x) \in Int /\ Blocked(x) \in Int
    BY <1>2, BalanceIs
  <2>4. QED
    BY <1>6, <2>2, <2>3
<1>12. \A x \in Stores : /\ OnHand(x)' = OnHand(x) + Total(MovingRows({row}, x)) + AllAway(x)' - AllAway(x)
                         /\ Blocked(x)' = Blocked(x) + AllAway(x)' - AllAway(x)
  <2>1. \A x : AllAway(x) \in Int /\ OnHand(x) \in Int /\ Blocked(x) \in Int
    BY AwayIs, BalanceIs DEF FiguresShape
  <2>2. \A x : Total(MovingRows({row}, x)) = 0
    BY <1>8, OneRow
  <2> SUFFICES ASSUME NEW x \in Stores
               PROVE  /\ OnHand(x)' = OnHand(x) + Total(MovingRows({row}, x)) + AllAway(x)' - AllAway(x)
                      /\ Blocked(x)' = Blocked(x) + AllAway(x)' - AllAway(x)
    OBVIOUS
  <2>3. OnHand(x)' = OnHand(x) /\ Blocked(x)' = Blocked(x) /\ AllAway(x)' = AllAway(x)
    BY <1>10, <1>11
  <2>4. Total(MovingRows({row}, x)) = 0 /\ OnHand(x) \in Int /\ Blocked(x) \in Int /\ AllAway(x) \in Int
    BY <2>1, <2>2
  <2>5. QED
    BY <2>3, <2>4
<1>13. FiguresShape'
  BY <1>1, <1>2, <1>9, <1>10, <1>11, <1>12, ShapeStep
<1>14. QED
  BY <1>2, <1>9, <1>10, <1>13 DEF Forward

(* Counts *)

LEMMA SheetIs ==
  ASSUME FiguresShape, NEW c \in sheets
  PROVE  /\ c \in Sheet /\ c.at \in Instants /\ c.store \in Stores /\ c.book \in Int
         /\ c.counted \in [is : BOOLEAN, qty : Int] /\ VarianceOf(c) \in Int
<1>1. c \in Sheet /\ c.store \in Stores /\ c.book \in Int /\ c.counted \in [is : BOOLEAN, qty : Int] /\ c.at \in Instants
  BY DEF FiguresShape, Sheet
<1>2. c.counted.qty \in Int
  BY <1>1
<1>3. QED
  BY <1>1, <1>2 DEF VarianceOf

LEMMA PostCountKeeps ==
  ASSUME FiguresShape, NEW c \in sheets, PostCount(c)
  PROVE  FiguresShape' /\ Forward
<1> DEFINE v == VarianceOf(c)
           s == c.store
           row == Entry(s, "COUNT_ADJUSTMENT", v)
           N == IF v = 0 THEN {} ELSE {row}
           d == [x \in {s} |-> v]
           b == [x \in {s} |-> 0]
           e == [c EXCEPT !.posted = now]
<1>1. /\ entries' = entries \cup N /\ pass' = pass /\ sheets' = (sheets \ {c}) \cup {e}
      /\ (v = 0 => stock' = stock) /\ (v # 0 => stock' = Moved({s}, d, b))
  BY DEF PostCount, SetSheet
<1>2. /\ now \in Instants /\ now' \in Instants /\ now <= now' /\ now < now' /\ now \in Nat
      /\ StockFits /\ sheets \subseteq Sheet
  BY NowIs, StampTime DEF FiguresShape, PostCount
<1>3. v \in Int /\ s \in Stores /\ c \in Sheet
  BY SheetIs
<1>4. e \in Sheet
  BY <1>2, <1>3 DEF Sheet
<1>5. sheets' \subseteq Sheet
  BY <1>1, <1>2, <1>4
<1>6. \A x \in {s} : d[x] = v /\ b[x] = 0
  OBVIOUS
<1> HIDE DEF v, d, b, e
<1>7. NewRow(row) /\ row.store = s /\ row.qty = v /\ Moving(row)
  <2>1. "COUNT_ADJUSTMENT" \in EntryKinds /\ "COUNT_ADJUSTMENT" \notin Unkept
    BY DEF EntryKinds, Signed, Unkept, Tracked
  <2>2. QED
    BY <1>2, <1>3, <2>1, EntryFits, EntryFields
<1> HIDE DEF row
<1>8. Appended(N)
  BY <1>1, <1>7, FS_Singleton, FS_EmptySet DEF Appended
<1>9. \A x : Total(MovingRows(N, x)) = IF x = s THEN v ELSE 0
  <2>1. \A x : Total(MovingRows({row}, x)) = IF x = s THEN v ELSE 0
    BY <1>3, <1>7, OneRow
  <2>2. \A x : Total(MovingRows({}, x)) = 0
    BY NoRow
  <2>3. CASE v = 0
    BY <2>2, <2>3
  <2>4. CASE v # 0
    BY <2>1, <2>4
  <2>5. QED
    BY <2>3, <2>4
<1> HIDE DEF N
<1>10. \A x : OnHand(x) \in Int /\ Blocked(x) \in Int /\ AllAway(x) \in Int
  BY BalanceIs, AwayIs DEF FiguresShape
<1>11. /\ StockFits'
       /\ \A x : OnHand(x)' = (IF x = s THEN OnHand(x) + v ELSE OnHand(x))
       /\ \A x : Blocked(x)' = Blocked(x)
  <2>1. CASE v = 0
    <3>1. stock' = stock
      BY <1>1, <2>1
    <3>2. QED
      BY <1>2, <1>10, <2>1, <3>1 DEF StockFits, OnHand, Blocked
  <2>2. CASE v # 0
    <3>1. \A x \in {s} : d[x] \in Int /\ b[x] \in Int
      BY <1>3, <1>6
    <3>2. /\ StockFits'
          /\ \A x : OnHand(x)' = (IF x \in {s} THEN OnHand(x) + d[x] ELSE OnHand(x))
          /\ \A x : Blocked(x)' = (IF x \in {s} THEN Blocked(x) + b[x] ELSE Blocked(x))
      BY <1>1, <1>2, <1>3, <2>2, <3>1, MovedStock
    <3>3. QED
      BY <1>6, <1>10, <3>2
  <2>3. QED
    BY <2>1, <2>2
<1>12. /\ PassesFit' /\ \A x : AllAway(x)' = AllAway(x)
       /\ \A q \in Passes : EarlierKept(pass[q], pass'[q])
  BY <1>1, <1>2, PassesStay
<1>13. \A x \in Stores : /\ OnHand(x)' = OnHand(x) + Total(MovingRows(N, x)) + AllAway(x)' - AllAway(x)
                         /\ Blocked(x)' = Blocked(x) + AllAway(x)' - AllAway(x)
  <2> SUFFICES ASSUME NEW x \in Stores
               PROVE  /\ OnHand(x)' = OnHand(x) + Total(MovingRows(N, x)) + AllAway(x)' - AllAway(x)
                      /\ Blocked(x)' = Blocked(x) + AllAway(x)' - AllAway(x)
    OBVIOUS
  <2>1. OnHand(x)' = OnHand(x) + Total(MovingRows(N, x))
    BY <1>9, <1>10, <1>11
  <2>2. AllAway(x)' = AllAway(x) /\ Blocked(x)' = Blocked(x) /\ Total(MovingRows(N, x)) \in Int
    BY <1>3, <1>9, <1>11, <1>12
  <2>3. QED
    BY <1>10, <2>1, <2>2
<1>14. FiguresShape'
  BY <1>2, <1>5, <1>8, <1>11, <1>12, <1>13, ShapeStep
<1>15. QED
  BY <1>2, <1>8, <1>12, <1>14 DEF Forward

LEMMA CountLineKeeps ==
  ASSUME FiguresShape, NEW c \in sheets, NEW q \in Tallied, CountLine(c, q)
  PROVE  FiguresShape' /\ Forward
<1> DEFINE e == [c EXCEPT !.counted = [is |-> TRUE, qty |-> q]]
<1>1. sheets' = (sheets \ {c}) \cup {e} /\ now' = now /\ entries' = entries /\ stock' = stock /\ pass' = pass
  BY DEF CountLine, SetSheet
<1>2. c \in Sheet /\ q \in Int /\ now \in Instants /\ now \in Nat /\ sheets \subseteq Sheet
  BY SheetIs, NowIs, MonthsGiven DEF FiguresShape
<1>3. e \in Sheet
  <2>1. [is |-> TRUE, qty |-> q] \in [is : BOOLEAN, qty : Int]
    BY <1>2
  <2>2. QED
    BY <1>2, <2>1 DEF Sheet
<1>4. StockFits' /\ sheets' \subseteq Sheet /\ \A x : OnHand(x)' = OnHand(x) /\ Blocked(x)' = Blocked(x)
  BY <1>1, <1>2, <1>3 DEF FiguresShape, StockFits, OnHand, Blocked
<1>5. QED
  BY <1>1, <1>2, <1>4, QuietStep

LEMMA OpenCountKeeps ==
  ASSUME FiguresShape, NEW s \in Stores, OpenCount(s)
  PROVE  FiguresShape' /\ Forward
<1> DEFINE c == [at |-> now, store |-> s, book |-> OnHand(s), counted |-> NotCounted, posted |-> Never]
<1>1. sheets' = sheets \cup {c} /\ entries' = entries /\ stock' = stock /\ pass' = pass
  BY DEF OpenCount
<1>2. now \in Instants /\ now' \in Instants /\ now <= now' /\ OnHand(s) \in Int /\ sheets \subseteq Sheet
  BY NowIs, StampTime, BalanceIs DEF FiguresShape, OpenCount
<1>3. c \in Sheet
  <2>1. NotCounted \in [is : BOOLEAN, qty : Int]
    BY DEF NotCounted
  <2>2. QED
    BY <1>2, <2>1 DEF Sheet
<1>4. StockFits' /\ sheets' \subseteq Sheet /\ \A x : OnHand(x)' = OnHand(x) /\ Blocked(x)' = Blocked(x)
  BY <1>1, <1>2, <1>3 DEF FiguresShape, StockFits, OnHand, Blocked
<1>5. QED
  BY <1>1, <1>2, <1>4, QuietStep

(* Months and levels *)

\* Steps that read, or write about months.
LEMMA SameBooks ==
  ASSUME FiguresShape, now' \in Instants, now <= now', UNCHANGED <<entries, sheets, stock, pass>>
  PROVE  FiguresShape' /\ Forward
<1>1. StockFits' /\ sheets' \subseteq Sheet /\ \A x : OnHand(x)' = OnHand(x) /\ Blocked(x)' = Blocked(x)
  BY DEF FiguresShape, StockFits, OnHand, Blocked
<1>2. QED
  BY <1>1, QuietStep

LEMMA FinishLevelsKeeps ==
  ASSUME FiguresShape, NEW r, FinishLevels(r)
  PROVE  FiguresShape' /\ Forward
<1> DEFINE s == monthJob[r].store
           new == [onHand |-> stock[s].onHand, blocked |-> stock[s].blocked,
                   levels |-> Merge(stock[s].levels, monthJob[r].edit), updated |-> now]
<1>1. /\ stock' = [stock EXCEPT ![s] = new] /\ now' = now /\ entries' = entries /\ sheets' = sheets
      /\ pass' = pass
  BY DEF FinishLevels, Done
<1>2. new.onHand = stock[s].onHand /\ new.blocked = stock[s].blocked
  OBVIOUS
<1> HIDE DEF s, new
<1>3. /\ DOMAIN stock' = DOMAIN stock /\ stock' = [x \in DOMAIN stock' |-> stock'[x]]
      /\ \A x \in DOMAIN stock : stock'[x] = IF x = s THEN new ELSE stock[x]
  BY <1>1 DEF FiguresShape, StockFits
<1>4. \A x \in DOMAIN stock : stock'[x].onHand = stock[x].onHand /\ stock'[x].blocked = stock[x].blocked
  BY <1>2, <1>3
<1>5. StockFits' /\ \A x : OnHand(x)' = OnHand(x) /\ Blocked(x)' = Blocked(x)
  BY <1>3, <1>4 DEF FiguresShape, StockFits, OnHand, Blocked
<1>6. now' \in Instants /\ now <= now' /\ sheets' \subseteq Sheet
  BY <1>1, NowIs DEF FiguresShape
<1>7. QED
  BY <1>1, <1>5, <1>6, QuietStep

(* Every step *)

LEMMA MonthKeeps ==
  ASSUME FiguresShape, MonthNext
  PROVE  FiguresShape' /\ Forward
<1>1. now \in Instants /\ now <= now
  BY NowIs DEF FiguresShape
<1>2. ASSUME NextMonth
      PROVE  FiguresShape' /\ Forward
  <2>1. now' \in Instants /\ now < now' /\ UNCHANGED <<entries, sheets, stock, pass>>
    BY <1>1, <1>2, NextMonthTime DEF NextMonth, books
  <2>2. now <= now'
    BY <1>1, <2>1, ClockTime
  <2>3. QED
    BY <2>1, <2>2, SameBooks
<1>3. ASSUME NEW mv \in Moves, Book(mv)
      PROVE  FiguresShape' /\ Forward
  BY <1>3, BookKeeps
<1>4. ASSUME NEW p \in Passes, NEW s \in Stores, NEW q \in Loads, NEW kind \in {"TEMPORARY", "PERMANENT"},
             NEW internal \in BOOLEAN, SendOut(p, s, q, kind, internal)
      PROVE  FiguresShape' /\ Forward
  BY <1>4, SendOutKeeps
<1>5. ASSUME NEW p \in Passes, NEW n \in Splits, TakeBack(p, n) \/ ArriveBack(p, n) \/ AcceptReturn(p, n)
      PROVE  FiguresShape' /\ Forward
  <2>1. CASE ArriveBack(p, n)
    <3>1. /\ PassMoves(p, "RETURNING", "RETURN_RECEIVED_AT_GATE", pass[p].back + Size(n))
          /\ pass[p].status = "RETURNING"
      BY <2>1 DEF ArriveBack, PassMoves
    <3>2. pass[p].back + Size(n) \in Int /\ pass[p].kind # "PERMANENT"
      BY <3>1, PassIs, MonthsGiven DEF PassFits
    <3>3. "RETURNING" \in PassStatus \ {"none"} /\ "RETURN_RECEIVED_AT_GATE" \in PassStatus \ {"none"}
      BY DEF PassStatus
    <3>4. QED
      BY <3>1, <3>2, <3>3, PassMovesKeeps
  <2>2. QED
    BY <1>5, <2>1, TakeBackKeeps, AcceptReturnKeeps
<1>6. ASSUME NEW p \in Passes, Receive(p) \/ ShipBack(p) \/ ClosePass(p)
      PROVE  FiguresShape' /\ Forward
  <2>1. /\ "OUT" \in PassStatus \ {"none"} /\ "RECEIVED_AT_DESTINATION" \in PassStatus \ {"none"}
        /\ "RETURNING" \in PassStatus \ {"none"} /\ pass[p].back \in Int
    BY PassIs DEF PassStatus
  <2>2. CASE Receive(p)
    BY <2>1, <2>2, PassMovesKeeps DEF Receive
  <2>3. CASE ShipBack(p)
    BY <2>1, <2>3, PassMovesKeeps DEF ShipBack
  <2>4. QED
    BY <1>6, <2>2, <2>3, ClosePassKeeps
<1>7. ASSUME NEW p \in Passes, NEW k \in Claims, Charge(p, k)
      PROVE  FiguresShape' /\ Forward
  BY <1>7, ChargeKeeps
<1>8. ASSUME NEW s \in Stores, OpenCount(s)
      PROVE  FiguresShape' /\ Forward
  BY <1>8, OpenCountKeeps
<1>9. ASSUME NEW c \in sheets, PostCount(c)
      PROVE  FiguresShape' /\ Forward
  BY <1>9, PostCountKeeps
<1>10. ASSUME NEW c \in sheets, NEW q \in Tallied, CountLine(c, q)
       PROVE  FiguresShape' /\ Forward
  BY <1>10, CountLineKeeps
<1>11. ASSUME NEW r \in MonthRequests, NEW m \in Months, BeginClose(r, m) \/ BeginReopen(r, m)
       PROVE  FiguresShape' /\ Forward
  <2>1. UNCHANGED <<entries, sheets, stock, pass>> /\ now' = now
    BY <1>11 DEF BeginClose, BeginReopen, Begin, books
  <2>2. QED
    BY <1>1, <2>1, SameBooks
<1>12. ASSUME NEW r \in MonthRequests, NEW s \in Stores, NEW e \in LevelEdits, BeginLevels(r, s, e)
       PROVE  FiguresShape' /\ Forward
  <2>1. UNCHANGED <<entries, sheets, stock, pass>> /\ now' = now
    BY <1>12 DEF BeginLevels, Begin, books
  <2>2. QED
    BY <1>1, <2>1, SameBooks
<1>13. ASSUME NEW r \in MonthRequests, FinishClose(r) \/ RefuseClose(r) \/ FinishReopen(r) \/ FinishLevels(r)
       PROVE  FiguresShape' /\ Forward
  <2>1. CASE FinishClose(r)
    <3>1. UNCHANGED <<entries, sheets, stock, pass>> /\ Stamp
      BY <2>1 DEF FinishClose, Done
    <3>2. now' \in Instants /\ now <= now'
      BY <1>1, <3>1, StampTime
    <3>3. QED
      BY <3>1, <3>2, SameBooks
  <2>2. CASE RefuseClose(r) \/ FinishReopen(r)
    <3>1. UNCHANGED <<entries, sheets, stock, pass>> /\ now' = now
      BY <2>2 DEF RefuseClose, FinishReopen, Done
    <3>2. QED
      BY <1>1, <3>1, SameBooks
  <2>3. QED
    BY <1>13, <2>1, <2>2, FinishLevelsKeeps
<1>14. QED
  BY <1>2, <1>3, <1>4, <1>5, <1>6, <1>7, <1>8, <1>9, <1>10, <1>11, <1>12, <1>13 DEF MonthNext

(* Balances agree *)

\* A sum over some passes is one over all, with nothing for the others.
LEMMA AwayNow ==
  ASSUME FiguresShape, NEW s
  PROVE  Away(s, now) = AllAway(s)
<1> DEFINE L == Loans(s, now)
           f == [p \in L |-> pass[p].qty - TakenBack(p, now)]
           g == [p \in Passes |-> Share(pass[p], s)]
<1>1. \A p \in Passes : /\ PassFits(pass[p], now) /\ pass[p].out \in Int
                        /\ \A b \in pass[p].backs : b.at < now
  BY PassIs, ClockTime DEF PassFits
<1>2. now \in Int /\ Never \in Int /\ now < Never
  BY NowIs
<1>3. L \subseteq Passes /\ Passes \cap L = L /\ IsFiniteSet(L) /\ IsFiniteSet(Passes)
  BY MonthsGiven, FS_Subset DEF Loans
<1>4. \A p \in Passes : pass[p].out < now <=> pass[p].status # "none"
  BY <1>1, <1>2 DEF PassFits
<1>5. \A p \in Passes : TakenBack(p, now) = Total(pass[p].backs)
  <2>1. \A p \in Passes : {b \in pass[p].backs : b.at < now} = pass[p].backs
    BY <1>1
  <2>2. QED
    BY <2>1 DEF TakenBack
<1>6. \A p \in L : f[p] = g[p]
  BY <1>4, <1>5 DEF Loans, Share
<1>7. \A p \in Passes : g[p] \in Int /\ (p \notin L => g[p] = 0)
  <2>1. \A p \in Passes : Share(pass[p], s) \in Int
    BY AwayIs DEF FiguresShape
  <2>2. QED
    BY <1>4, <2>1 DEF Loans, Share
<1>8. Away(s, now) = TotalOver(f, L)
  <2>1. DOMAIN f = L
    OBVIOUS
  <2>2. Away(s, now) = SumOf(f)
    BY DEF Away
  <2>3. QED
    BY <2>1, <2>2, SumOfIsTotal
<1>9. AllAway(s) = TotalOver(g, Passes)
  BY DEF AllAway
<1> HIDE DEF f, g, L
<1>10. TotalOver(f, L) = TotalOver(g, L)
  BY <1>3, <1>6, TotalSame
<1>11. TotalOver(g, Passes) = TotalOver(g, L)
  BY <1>3, <1>7, TotalOfPart
<1>12. QED
  BY <1>8, <1>9, <1>10, <1>11

\* The rows of a store are those that change its balance, and those that
\* write off what it did not hold.
LEMMA RowsNow ==
  ASSUME FiguresShape, NEW s
  PROVE  /\ LedgerAt(s, now) + WrittenOff(s, now) = Total(MovingRows(entries, s))
         /\ LedgerAt(s, now) \in Int /\ WrittenOff(s, now) \in Int
<1> DEFINE R == {r \in At(Official, {s}) : r.at < now}
           M == MovingRows(entries, s)
           W == WrittenOffRows(s, now)
<1>1. IsFiniteSet(entries) /\ \A r \in entries : RowFits(r) /\ r.at < now /\ r.qty \in Int
  BY DEF FiguresShape, EntriesFit, RowFits, Row
<1>2. R = M \cup W /\ M \cap W = {}
  BY <1>1 DEF At, Official, MovingRows, Moving, WrittenOffRow, WrittenOffRows
<1>3. M \subseteq entries /\ W \subseteq entries
  BY DEF MovingRows, WrittenOffRows, At, Official
<1>4. Countable(entries) /\ Countable(M) /\ Countable(W)
  BY <1>1, <1>3, CountablePart DEF Countable
<1>5. \A r \in W : r.qty <= 0
  BY <1>1, <1>3 DEF WrittenOffRows, RowFits, WrittenOffRow
<1>6. LedgerAt(s, now) = Total(R) /\ WrittenOff(s, now) = QtyOut(W)
  BY DEF LedgerAt, WrittenOff
<1> HIDE DEF R, M, W
<1>7. Total(R) = Total(M) + Total(W) /\ QtyOut(W) = -Total(W) /\ Total(M) \in Int /\ Total(W) \in Int
  BY <1>2, <1>4, <1>5, QtyUnion, QtySigned, InLessOut
<1>8. QED
  BY <1>6, <1>7 DEF M

LEMMA ShapeSaysBalances == FiguresShape => BalancesAgree
<1> SUFFICES ASSUME FiguresShape, NEW s \in Stores
             PROVE  OnHand(s) = StockAt(s, now) /\ Blocked(s) = Away(s, now)
  BY DEF BalancesAgree
<1>1. OnHand(s) = Total(MovingRows(entries, s)) + AllAway(s) /\ Blocked(s) = AllAway(s) /\ AllAway(s) \in Int
  BY AwayIs DEF FiguresShape, BalancesFit
<1>2. Away(s, now) = AllAway(s)
  BY AwayNow
<1>3. /\ LedgerAt(s, now) + WrittenOff(s, now) = Total(MovingRows(entries, s))
      /\ LedgerAt(s, now) \in Int /\ WrittenOff(s, now) \in Int
  BY RowsNow
<1>4. QED
  BY <1>1, <1>2, <1>3 DEF StockAt

LEMMA ShapeStart == FiguresHistoryInit => FiguresShape
<1> SUFFICES ASSUME MonthInit PROVE FiguresShape
  BY DEF FiguresHistoryInit
<1>1. now \in Instants
  <2>1. 0 \in Nat /\ 0 < Never
    BY ClockTime
  <2>2. QED
    BY <2>1, ClockTime DEF MonthInit
<1>2. EntriesFit /\ sheets \subseteq Sheet
  BY FS_EmptySet DEF MonthInit, EntriesFit
<1>3. NoPass \in PassRecord
  <2>1. (CHOOSE s \in Stores : TRUE) \in Stores
    BY MonthsGiven
  <2>2. "none" \in PassStatus /\ [k \in Claims |-> 0] \in [Claims -> Int]
    BY DEF PassStatus
  <2>3. QED
    BY <2>1, <2>2 DEF NoPass, PassRecord
<1>4. \A t : PassFits(NoPass, t)
  BY <1>3, FS_EmptySet DEF PassFits, NoPass
<1>5. PassesFit
  BY <1>3, <1>4 DEF MonthInit, PassesFit
<1>6. StockFits /\ \A s : OnHand(s) = 0 /\ Blocked(s) = 0
  BY DEF MonthInit, NoBalances, StockFits, OnHand, Blocked
<1>7. \A s : AllAway(s) = 0
  <2>1. \A s : Share(NoPass, s) = 0
    BY DEF Share, NoPass
  <2>2. \A p \in Passes : pass[p] = NoPass
    BY DEF MonthInit
  <2>3. QED
    BY <2>1, <2>2, MonthsGiven, TotalZero DEF AllAway
<1>8. \A s : Total(MovingRows(entries, s)) = 0
  BY NoRow DEF MonthInit
<1>9. BalancesFit
  BY <1>6, <1>7, <1>8 DEF BalancesFit
<1>10. QED
  BY <1>1, <1>2, <1>5, <1>6, <1>9 DEF FiguresShape

LEMMA ShapeStays == FiguresShape /\ [FiguresHistoryNext]_<<monthVars, monthOverlapped>> => FiguresShape'
<1> SUFFICES ASSUME FiguresShape, [FiguresHistoryNext]_<<monthVars, monthOverlapped>>
             PROVE  FiguresShape'
  OBVIOUS
<1>1. CASE MonthNext
  BY <1>1, MonthKeeps
<1>2. CASE UNCHANGED monthVars
  <2>1. UNCHANGED <<now, entries, sheets, stock, pass>>
    BY <1>2 DEF monthVars, books
  <2>2. now \in Instants /\ now <= now
    BY NowIs DEF FiguresShape
  <2>3. QED
    BY <2>1, <2>2, SameBooks
<1>3. QED
  BY <1>1, <1>2 DEF FiguresHistoryNext

\* What the balances, rows and passes have in common holds whatever overlaps.
THEOREM FiguresKeepShape == FiguresHistorySpec => []FiguresShape
BY ShapeStart, ShapeStays, PTL DEF FiguresHistorySpec

\* Whatever overlaps, and whatever comes back damaged, lost or short: every
\* balance is its ledger, plus the loans that are away, plus what was written
\* off of what it did not hold, and what is blocked of it are those loans.
THEOREM BalancesAlwaysAgree == FiguresHistorySpec => []BalancesAgree
BY FiguresKeepShape, ShapeSaysBalances, PTL

(* The past stands *)

\* A month has a first and a last instant.
LEMMA MonthTime ==
  ASSUME NEW m \in Nat
  PROVE  Start(m) \in Nat /\ Start(m + 1) \in Nat /\ Start(m) < Start(m + 1) /\ EndOf(m) = Start(m + 1) - 1
<1>1. m + 1 \in Nat /\ m \in Int /\ m >= 0 /\ m + 1 >= 0 /\ m + 1 \in Int
  OBVIOUS
<1>2. Start(m) \in Nat /\ Start(m + 1) \in Nat /\ MonthLength \in Nat \ {0}
  BY <1>1, ClockTime
<1>3. Start(m + 1) = Start(m) + MonthLength
  BY <1>1, StartTime
<1>4. QED
  BY <1>2, <1>3 DEF EndOf

\* The range of a report is one of months.
LEMMA RangeIs ==
  ASSUME FiguresShape, NEW x \in Ranges
  PROVE  x[1] \in Nat /\ x[2] \in Nat /\ x[1] <= x[2]
<1>1. now \in Nat
  BY NowIs
<1>2. ThisMonth \in Nat
  BY <1>1, MonthOfTime DEF ThisMonth
<1>3. x[1] \in 0 .. ThisMonth /\ x[2] \in Months /\ x[1] <= x[2]
  BY DEF Ranges
<1>4. x[2] \in Nat
  BY <1>3, ClockTime
<1>5. QED
  BY <1>2, <1>3, <1>4

\* What a pass was until t it stays.
PassPast(p, t) ==
  /\ (pass'[p].out <= t) <=> (pass[p].out <= t)
  /\ pass[p].out <= t => pass'[p].qty = pass[p].qty
  /\ {b \in pass'[p].backs : b.at <= t} = {b \in pass[p].backs : b.at <= t}
  /\ pass[p].closed \in {Never, pass'[p].closed} => ((pass'[p].closed > t) <=> (pass[p].closed > t))

\* No step changes what a pass was at an earlier instant.
LEMMA PassPastKept ==
  ASSUME FiguresShape, FiguresShape', Forward, NEW p \in Passes, NEW t \in Int, t < now
  PROVE  PassPast(p, t)
<1>1. now \in Nat /\ Never \in Nat /\ now < Never
  BY NowIs
<1>2. /\ pass[p].out \in Int /\ pass[p].closed \in Int
      /\ pass'[p].out \in Int /\ pass'[p].closed \in Int
  <2>1. pass[p] \in PassRecord /\ pass'[p] \in PassRecord
    BY DEF FiguresShape, PassesFit
  <2>2. QED
    BY <1>1, <2>1, ClockTime DEF PassRecord
<1>3. EarlierKept(pass[p], pass'[p])
  BY DEF Forward
<1>4. /\ (pass'[p].out <= t) <=> (pass[p].out <= t)
      /\ pass[p].out <= t => pass'[p].qty = pass[p].qty
  BY <1>1, <1>2, <1>3 DEF EarlierKept
<1>5. {b \in pass'[p].backs : b.at <= t} = {b \in pass[p].backs : b.at <= t}
  <2>1. /\ pass[p].backs \subseteq pass'[p].backs
        /\ \A b \in pass'[p].backs \ pass[p].backs : ~(b.at <= t)
    BY <1>1, <1>3 DEF EarlierKept
  <2>2. QED
    BY <2>1
<1>6. pass[p].closed \in {Never, pass'[p].closed} => ((pass'[p].closed > t) <=> (pass[p].closed > t))
  BY <1>1, <1>2, <1>3 DEF EarlierKept
<1>7. QED
  BY <1>4, <1>5, <1>6 DEF PassPast

\* Rows have instants, the new ones the present one.
LEMMA RowTimes ==
  ASSUME FiguresShape, NEW N, Appended(N)
  PROVE  /\ now \in Nat /\ \A r \in entries' : r.at \in Nat
         /\ \A r \in N : r.at = now
<1>1. now \in Nat /\ \A r \in N : r.at = now
  BY NowIs DEF Appended, NewRow
<1>2. \A r \in entries : r.at \in Nat
  BY ClockTime DEF FiguresShape, EntriesFit, RowFits, Row
<1>3. QED
  BY <1>1, <1>2 DEF Appended

\* The rows of a month that is over.
LEMMA RowsPast ==
  ASSUME FiguresShape, NEW N, Appended(N), NEW t \in Int, t < now
  PROVE  \A r : r \in Official' /\ r.at <= t <=> r \in Official /\ r.at <= t
<1>1. \A r \in N : ~(r.at <= t)
  BY RowTimes
<1>2. entries' = entries \cup N
  BY DEF Appended
<1>3. QED
  BY <1>1, <1>2 DEF Official

\* The rows of a month that is over, as the reports read them.
LEMMA LedgerPast ==
  ASSUME FiguresShape, NEW N, Appended(N), NEW from \in Nat, NEW to \in Nat, from <= to, EndOf(to) < now
  PROVE  /\ Ledger(from, to)' = Ledger(from, to)
         /\ \A k : {r \in Official' : k <= r.at /\ r.at < Start(from)} = {r \in Official : k <= r.at /\ r.at < Start(from)}
         /\ \A k, s : {r \in At(Official', {s}) : k <= r.at /\ r.at <= EndOf(to)}
                        = {r \in At(Official, {s}) : k <= r.at /\ r.at <= EndOf(to)}
         /\ Kind(entries', {"OPENING_BALANCE"}) = Kind(entries, {"OPENING_BALANCE"})
              => {r \in Official' : r.at < Start(from) \/ r.kind = "OPENING_BALANCE"}
                   = {r \in Official : r.at < Start(from) \/ r.kind = "OPENING_BALANCE"}
<1>1. PICK t \in Nat : t = EndOf(to) /\ t < now
  <2>1. Start(to + 1) \in Nat /\ EndOf(to) = Start(to + 1) - 1 /\ Start(to) < Start(to + 1) /\ Start(to) \in Nat
    BY MonthTime
  <2>2. QED
    BY <2>1
<1>2. PICK b \in Nat : b = Start(from) /\ b <= t
  <2>1. from \in Int /\ to \in Int
    OBVIOUS
  <2>2. Start(from) <= Start(to)
    BY <2>1, StartGrows
  <2>3. Start(from) \in Nat /\ Start(to) \in Nat /\ Start(to + 1) \in Nat
    BY MonthTime
  <2>4. EndOf(to) = Start(to + 1) - 1 /\ Start(to) < Start(to + 1)
    BY MonthTime
  <2>5. QED
    BY <1>1, <2>2, <2>3, <2>4
<1>3. \A r : r \in Official' /\ r.at <= t <=> r \in Official /\ r.at <= t
  BY <1>1, RowsPast
<1>4. \A r \in Official : r.at \in Nat
  BY RowTimes DEF Official, Appended
<1>5. \A r \in Official' : r.at \in Nat
  BY RowTimes DEF Official
<1>6. \A r : r \in Official' /\ r.at < b <=> r \in Official /\ r.at < b
  BY <1>2, <1>3, <1>4, <1>5
<1>7. Ledger(from, to)' = Ledger(from, to)
  <2>1. Ledger(from, to)' = {r \in Official' : b <= r.at /\ r.at <= t}
    BY <1>1, <1>2 DEF Ledger, Within
  <2>2. Ledger(from, to) = {r \in Official : b <= r.at /\ r.at <= t}
    BY <1>1, <1>2 DEF Ledger, Within
  <2>3. QED
    BY <1>3, <2>1, <2>2
<1>8. \A k : {r \in Official' : k <= r.at /\ r.at < b} = {r \in Official : k <= r.at /\ r.at < b}
  BY <1>6
<1>9. \A k, s : {r \in At(Official', {s}) : k <= r.at /\ r.at <= t} = {r \in At(Official, {s}) : k <= r.at /\ r.at <= t}
  BY <1>3 DEF At
<1>10. ASSUME Kind(entries', {"OPENING_BALANCE"}) = Kind(entries, {"OPENING_BALANCE"})
       PROVE  {r \in Official' : r.at < b \/ r.kind = "OPENING_BALANCE"} = {r \in Official : r.at < b \/ r.kind = "OPENING_BALANCE"}
  <2>1. \A r : r \in entries' /\ r.kind = "OPENING_BALANCE" <=> r \in entries /\ r.kind = "OPENING_BALANCE"
    BY <1>10 DEF Kind
  <2>2. \A r : r \in Official' /\ r.kind = "OPENING_BALANCE" <=> r \in Official /\ r.kind = "OPENING_BALANCE"
    BY <2>1 DEF Official
  <2>3. QED
    BY <1>6, <2>2
<1>11. QED
  BY <1>1, <1>2, <1>7, <1>8, <1>9, <1>10

\* A snapshot stays what it is while no month is closed or reopened.
LEMMA KeptPast ==
  ASSUME period' = period, NEW best
  PROVE  /\ Since(best)' = Since(best) /\ Kept(best)' = Kept(best)
         /\ \A s : KeptQty(best, s)' = KeptQty(best, s)
BY DEF Since, Kept, KeptQty, Base

\* The OMC report, line by line.
OmcBase(from) == Latest(ClosedBy(Start(from) - 1))
OmcBefore(from) == {r \in Official : Since(OmcBase(from)) <= r.at /\ r.at < Start(from)}
OmcOpening(s, from) ==
  IF s \in Kept(OmcBase(from)) THEN KeptQty(OmcBase(from), s) ELSE Total(At(OmcBefore(from), {s}))
OmcLine(s, from, to) ==
  LET moves == At(Ledger(from, to), {s})
      opening == OmcOpening(s, from)
      loaded == QtyIn(Kind(moves, {"OPENING_BALANCE"}))
      inward == QtyIn(Kind(moves, {"RECEIVE", "RETURN", "GET_PASS_RETURN", "TRANSFER_IN"}))
      outward == QtyOut(Kind(moves, Losses \cup {"ISSUE", "GET_PASS_OUT", "TRANSFER_OUT"}))
      adjusted == Total(Kind(moves, Counted))
  IN  [opening |-> opening, loaded |-> loaded, inward |-> inward, outward |-> outward,
       adjusted |-> adjusted, closing |-> opening + loaded + inward - outward + adjusted]
OmcActive(from, to) ==
  {s \in Kept(OmcBase(from)) \cup {r.store : r \in OmcBefore(from) \cup Ledger(from, to)} :
     OmcLine(s, from, to) # IdleLine}

LEMMA OmcIs ==
  ASSUME NEW from, NEW to
  PROVE  OmcReport(from, to) = [s \in OmcActive(from, to) |-> OmcLine(s, from, to)]
BY DEF OmcReport, OmcActive, OmcLine, OmcOpening, OmcBefore, OmcBase

\* So does what the reports choose to start from.
LEMMA BasePast ==
  ASSUME period' = period, NEW from
  PROVE  /\ OmcBase(from)' = OmcBase(from) /\ PrevClose(from)' = PrevClose(from)
         /\ Since(OmcBase(from))' = Since(OmcBase(from)) /\ Kept(OmcBase(from))' = Kept(OmcBase(from))
         /\ \A s : KeptQty(OmcBase(from), s)' = KeptQty(OmcBase(from), s)
         /\ KeptIn(PrevClose(from), Kept(PrevClose(from)))' = KeptIn(PrevClose(from), Kept(PrevClose(from)))
<1>1. OmcBase(from)' = OmcBase(from)
  BY DEF OmcBase, Latest, ClosedBy
<1>2. PrevClose(from)' = PrevClose(from)
  BY DEF PrevClose
<1>3. Since(OmcBase(from))' = Since(OmcBase(from))
  BY <1>1 DEF Since, Base
<1>4. Kept(OmcBase(from))' = Kept(OmcBase(from))
  BY <1>1 DEF Kept, Base
<1>5. ASSUME NEW s
      PROVE  KeptQty(OmcBase(from), s)' = KeptQty(OmcBase(from), s)
  BY <1>1, <1>4 DEF KeptQty, Base
<1>6. Kept(PrevClose(from))' = Kept(PrevClose(from))
  BY <1>2 DEF Kept, Base
<1>7. ASSUME NEW s
      PROVE  KeptQty(PrevClose(from), s)' = KeptQty(PrevClose(from), s)
  BY <1>2, <1>6 DEF KeptQty, Base
<1>8. KeptIn(PrevClose(from), Kept(PrevClose(from)))' = KeptIn(PrevClose(from), Kept(PrevClose(from)))
  BY <1>6, <1>7 DEF KeptIn
<1>9. QED
  BY <1>1, <1>2, <1>3, <1>4, <1>5, <1>8

\* The OMC report of a range that is over.
LEMMA OmcPast ==
  ASSUME FiguresShape, NEW N, Appended(N), period' = period,
         NEW from \in Nat, NEW to \in Nat, from <= to, EndOf(to) < now
  PROVE  OmcReport(from, to)' = OmcReport(from, to)
<1>1. Ledger(from, to)' = Ledger(from, to)
  BY LedgerPast
<1>2. /\ Since(OmcBase(from))' = Since(OmcBase(from)) /\ Kept(OmcBase(from))' = Kept(OmcBase(from))
      /\ \A s : KeptQty(OmcBase(from), s)' = KeptQty(OmcBase(from), s)
  BY BasePast
<1>3. OmcBefore(from)' = OmcBefore(from)
  <2>1. \A k : {r \in Official' : k <= r.at /\ r.at < Start(from)} = {r \in Official : k <= r.at /\ r.at < Start(from)}
    BY LedgerPast
  <2>2. OmcBefore(from)' = {r \in Official' : Since(OmcBase(from))' <= r.at /\ r.at < Start(from)}
    BY DEF OmcBefore
  <2>3. OmcBefore(from) = {r \in Official : Since(OmcBase(from)) <= r.at /\ r.at < Start(from)}
    BY DEF OmcBefore
  <2>4. QED
    BY <1>2, <2>1, <2>2, <2>3
<1>4. ASSUME NEW s
      PROVE  OmcLine(s, from, to)' = OmcLine(s, from, to)
  <2>1. OmcOpening(s, from)' = OmcOpening(s, from)
    BY <1>2, <1>3 DEF OmcOpening
  <2>2. At(Ledger(from, to), {s})' = At(Ledger(from, to), {s})
    BY <1>1 DEF At
  <2>3. QED
    BY <2>1, <2>2 DEF OmcLine
<1>5. OmcActive(from, to)' = OmcActive(from, to)
  BY <1>1, <1>2, <1>3, <1>4 DEF OmcActive
<1>6. OmcReport(from, to) = [s \in OmcActive(from, to) |-> OmcLine(s, from, to)]
  BY OmcIs
<1>7. OmcReport(from, to)' = [s \in OmcActive(from, to)' |-> OmcLine(s, from, to)']
  BY DEF OmcReport, OmcActive, OmcLine, OmcOpening, OmcBefore, OmcBase
<1>8. QED
  BY <1>4, <1>5, <1>6, <1>7

\* The valuation at an instant that is over.
LEMMA ValuationPast ==
  ASSUME FiguresShape, NEW N, Appended(N), period' = period,
         NEW to \in Nat, EndOf(to) < now, NEW best, NEW s
  PROVE  ValuationReport(best, to, s)' = ValuationReport(best, to, s)
<1>1. Since(best)' = Since(best) /\ KeptQty(best, s)' = KeptQty(best, s)
  BY KeptPast
<1>2. \A k : {r \in At(Official', {s}) : k <= r.at /\ r.at <= EndOf(to)}
               = {r \in At(Official, {s}) : k <= r.at /\ r.at <= EndOf(to)}
  <2>1. to <= to
    OBVIOUS
  <2>2. QED
    BY <2>1, LedgerPast
<1>3. ValuationReport(best, to, s)
        = Replayed(KeptQty(best, s), {r \in At(Official, {s}) : Since(best) <= r.at /\ r.at <= EndOf(to)}, EndOf(to))
  BY DEF ValuationReport
<1>4. ValuationReport(best, to, s)'
        = Replayed(KeptQty(best, s)', {r \in At(Official', {s}) : Since(best)' <= r.at /\ r.at <= EndOf(to)}, EndOf(to))
  BY DEF ValuationReport, At, Replayed
<1>5. QED
  BY <1>1, <1>2, <1>3, <1>4

\* The movement history of a range that is over.
LEMMA HistoryPast ==
  ASSUME FiguresShape, NEW N, Appended(N), NEW from \in Nat, NEW to \in Nat, from <= to, EndOf(to) < now
  PROVE  MovementHistory(Stores, {"RECEIVE", "ISSUE"}, from, to)'
           = MovementHistory(Stores, {"RECEIVE", "ISSUE"}, from, to)
<1>1. Ledger(from, to)' = Ledger(from, to)
  BY LedgerPast
<1>2. QED
  BY <1>1 DEF MovementHistory

\* What was out after instant t, for the summary.
OutAfter(t) ==
  LET away == {p \in Passes : pass[p].out <= t /\ pass[p].closed > t}
  IN  SumOf([p \in away |-> pass[p].qty - Noted({b \in pass[p].backs : b.at <= t})])

\* What was out at an earlier instant stays, but for passes closed twice.
LEMMA OutPast ==
  ASSUME FiguresShape, FiguresShape', Forward, NEW t \in Int, t < now,
         \A p \in Passes : pass[p].closed \in {Never, pass'[p].closed}
  PROVE  OutAfter(t)' = OutAfter(t)
<1> DEFINE A == {p \in Passes : pass[p].out <= t /\ pass[p].closed > t}
           f == [p \in A |-> pass[p].qty - Noted({b \in pass[p].backs : b.at <= t})]
<1>1. \A p \in Passes : PassPast(p, t)
  BY PassPastKept
<1>2. A' = A
  BY <1>1 DEF PassPast
<1>3. \A p \in A : pass'[p].qty - Noted({b \in pass'[p].backs : b.at <= t}) = pass[p].qty - Noted({b \in pass[p].backs : b.at <= t})
  BY <1>1 DEF PassPast
<1>4. f' = [p \in A' |-> pass'[p].qty - Noted({b \in pass'[p].backs : b.at <= t})]
  OBVIOUS
<1>5. f' = f
  BY <1>2, <1>3, <1>4
<1>6. OutAfter(t) = SumOf(f)
  BY DEF OutAfter
<1>7. OutAfter(t)' = SumOf(f')
  BY DEF OutAfter
<1>8. QED
  BY <1>5, <1>6, <1>7

\* What the summary opens with.
SummaryOpening(from) ==
  IF PrevClose(from) # {} THEN KeptIn(PrevClose(from), Kept(PrevClose(from)))
  ELSE Total({r \in Official : r.at < Start(from) \/ r.kind = "OPENING_BALANCE"})

\* The summary of some rows.
SummaryOf(opening, moves, outstanding) ==
  LET received == QtyIn(Kind(moves, {"RECEIVE"}))
      broken == QtyOut(Kind(moves, Losses))
      varied == Total(Kind(moves, {"COUNT_ADJUSTMENT"}))
      theoretical == opening + received - broken - outstanding
  IN  [opening |-> opening, received |-> received, broken |-> broken, outstanding |-> outstanding,
       theoretical |-> theoretical, closing |-> theoretical + varied]

\* The summary of a range that is over.
LEMMA SummaryPast ==
  ASSUME FiguresShape, FiguresShape', Forward, NEW N, Appended(N), period' = period,
         NEW from \in Nat, NEW to \in Nat, from <= to, EndOf(to) < now,
         Kind(entries', {"OPENING_BALANCE"}) = Kind(entries, {"OPENING_BALANCE"}),
         \A p \in Passes : pass[p].closed \in {Never, pass'[p].closed}
  PROVE  SummaryReport(from, to)' = SummaryReport(from, to)
<1>1. Ledger(from, to)' = Ledger(from, to)
  BY LedgerPast
<1>2. {r \in Official' : r.at < Start(from) \/ r.kind = "OPENING_BALANCE"}
        = {r \in Official : r.at < Start(from) \/ r.kind = "OPENING_BALANCE"}
  BY LedgerPast
<1>3. OutAfter(EndOf(to))' = OutAfter(EndOf(to))
  <2>1. PICK t \in Int : t = EndOf(to)
    BY MonthTime
  <2>2. OutAfter(t)' = OutAfter(t)
    BY <2>1, OutPast
  <2>3. QED
    BY <2>1, <2>2
<1>4. /\ PrevClose(from)' = PrevClose(from)
      /\ KeptIn(PrevClose(from), Kept(PrevClose(from)))' = KeptIn(PrevClose(from), Kept(PrevClose(from)))
  BY BasePast
<1>5. SummaryOpening(from)' = SummaryOpening(from)
  <2> DEFINE S == {r \in Official : r.at < Start(from) \/ r.kind = "OPENING_BALANCE"}
  <2>1. SummaryOpening(from)' = IF PrevClose(from)' # {} THEN KeptIn(PrevClose(from), Kept(PrevClose(from)))' ELSE Total(S')
    BY DEF SummaryOpening
  <2>2. S' = S
    BY <1>2
  <2>3. QED
    BY <1>4, <2>1, <2>2 DEF SummaryOpening
<1>6. SummaryReport(from, to) = SummaryOf(SummaryOpening(from), Ledger(from, to), OutAfter(EndOf(to)))
  BY DEF SummaryReport, SummaryOpening, SummaryOf, OutAfter
<1>7. SummaryReport(from, to)' = SummaryOf(SummaryOpening(from)', Ledger(from, to)', OutAfter(EndOf(to))')
  BY DEF SummaryReport, SummaryOpening, SummaryOf, OutAfter
<1>8. QED
  BY <1>1, <1>3, <1>5, <1>6, <1>7

\* One step of the months leaves what is over.
PastStep ==
  period' = period
    => \A x \in Ranges : EndOf(x[2]) < now
         => /\ OmcReport(x[1], x[2])' = OmcReport(x[1], x[2])
            /\ \A best \in Bases(x[2]), s \in Stores :
                 ValuationReport(best, x[2], s)' = ValuationReport(best, x[2], s)
            /\ MovementHistory(Stores, {"RECEIVE", "ISSUE"}, x[1], x[2])'
                 = MovementHistory(Stores, {"RECEIVE", "ISSUE"}, x[1], x[2])
            /\ /\ Kind(entries', {"OPENING_BALANCE"}) = Kind(entries, {"OPENING_BALANCE"})
               /\ \A p \in Passes : pass[p].closed \in {Never, pass'[p].closed}
               => SummaryReport(x[1], x[2])' = SummaryReport(x[1], x[2])

\* All four, for a range of months.
LEMMA PastKept ==
  ASSUME FiguresShape, FiguresShape', Forward, period' = period, NEW x \in Ranges, EndOf(x[2]) < now
  PROVE  /\ OmcReport(x[1], x[2])' = OmcReport(x[1], x[2])
         /\ \A best \in Bases(x[2]), s \in Stores :
              ValuationReport(best, x[2], s)' = ValuationReport(best, x[2], s)
         /\ MovementHistory(Stores, {"RECEIVE", "ISSUE"}, x[1], x[2])'
              = MovementHistory(Stores, {"RECEIVE", "ISSUE"}, x[1], x[2])
         /\ /\ Kind(entries', {"OPENING_BALANCE"}) = Kind(entries, {"OPENING_BALANCE"})
            /\ \A p \in Passes : pass[p].closed \in {Never, pass'[p].closed}
            => SummaryReport(x[1], x[2])' = SummaryReport(x[1], x[2])
<1>1. PICK from \in Nat : from = x[1]
  BY RangeIs
<1>2. PICK to \in Nat : to = x[2]
  BY RangeIs
<1>3. from <= to /\ EndOf(to) < now
  BY <1>1, <1>2, RangeIs
<1>4. PICK N : Appended(N)
  BY DEF Forward
<1>5. OmcReport(from, to)' = OmcReport(from, to)
  BY <1>3, <1>4, OmcPast
<1>6. \A best, s : ValuationReport(best, to, s)' = ValuationReport(best, to, s)
  BY <1>3, <1>4, ValuationPast
<1>7. MovementHistory(Stores, {"RECEIVE", "ISSUE"}, from, to)' = MovementHistory(Stores, {"RECEIVE", "ISSUE"}, from, to)
  BY <1>3, <1>4, HistoryPast
<1>8. /\ Kind(entries', {"OPENING_BALANCE"}) = Kind(entries, {"OPENING_BALANCE"})
      /\ \A p \in Passes : pass[p].closed \in {Never, pass'[p].closed}
      => SummaryReport(from, to)' = SummaryReport(from, to)
  BY <1>3, <1>4, SummaryPast
<1>9. QED
  BY <1>1, <1>2, <1>5, <1>6, <1>7, <1>8

\* What a step of the specification keeps.
LEMMA PastStepKept ==
  FiguresShape /\ [FiguresHistoryNext]_<<monthVars, monthOverlapped>> => [PastStep]_<<books, pass>>
<1> SUFFICES ASSUME FiguresShape, [FiguresHistoryNext]_<<monthVars, monthOverlapped>>,
                    ~(UNCHANGED <<books, pass>>)
             PROVE  PastStep
  OBVIOUS
<1>1. MonthNext
  BY DEF FiguresHistoryNext, monthVars
<1>2. FiguresShape' /\ Forward
  BY <1>1, MonthKeeps
<1>3. QED
  BY <1>2, PastKept DEF PastStep

\* A report of months that are over says the same whenever it is printed,
\* whatever overlaps, as long as no month is closed or reopened in between.
THEOREM PastFiguresStand == FiguresHistorySpec => PastStands
<1>1. FiguresShape /\ [FiguresHistoryNext]_<<monthVars, monthOverlapped>> => [PastStep]_<<books, pass>>
  BY PastStepKept
<1>2. FiguresHistorySpec => [][PastStep]_<<books, pass>>
  BY <1>1, FiguresKeepShape, PTL DEF FiguresHistorySpec
<1>3. QED
  BY <1>2 DEF PastStep, PastStands
=============================================================================
