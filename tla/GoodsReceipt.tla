---------------------------- MODULE GoodsReceipt ----------------------------
(***************************************************************************)
(* Goods receipt notes (GRN), grn.service.js.  A note is created, approved *)
(* or rejected, corrected, and posted into stock by a transaction that     *)
(* does not go through the posting engine.                                 *)
(*                                                                         *)
(* Every handler but createGrn reads the note, checks its status, and then *)
(* updates it by id: a Begin action and a Finish action.  Posting reads    *)
(* the note (BeginPost), reads and overwrites one balance per line         *)
(* (ReadBalance, WriteBalance), and creates the RECEIVE movement document  *)
(* under the number of the note, which is unique, before it marks the note *)
(* POSTED and commits (Commit).  Creation alone asks whether the opening   *)
(* balance phase is over, and nothing asks whether a month is closed.      *)
(***************************************************************************)
EXTENDS StockRows, Sequences

CONSTANTS
  Grns,       \* goods receipt notes, by their number
  Receipts    \* Receipts[g]: the line lists a client may send for g

GrnLine == [cell : Cells, qty : Nat \ {0}]

\* "At least one line item is required."
GrnLines == Seq(GrnLine) \ {<<>>}

ASSUME ReceiptsAssumption == Grns # {} /\ Receipts \in [Grns -> SUBSET GrnLines]

-----------------------------------------------------------------------------
VARIABLES
  status,     \* GrnStatus of each note, "none" before it is created
  lines,      \* its lines
  signed,     \* the lines it had when approvedBy was set, <<>> if it is null
  movement,   \* lines of the movement document of its number, <<>> if none
  obOpen,     \* the tenant is in its opening balance phase
  pc,         \* per request: what it does next
  job,        \* per request: the note it works on
  goal,       \* per request: the decision it has taken
  work,       \* per request: the lines it is posting
  idx         \* per request: the next of them

notes == <<status, lines, signed, movement>>
local == <<job, goal, work, idx>>
vars == <<committed, uncommitted, notes, obOpen, pc, local>>

\* No note is ever DRAFT: createGrn decides the first status itself.
Statuses == {"none", "VALIDATED", "PENDING_APPROVAL", "APPROVED", "POSTED", "REJECTED"}

Decision(from, to) == [from |-> from, to |-> to]

\* submitForApproval
Submissions == {Decision("VALIDATED", "PENDING_APPROVAL")}

\* Mutant: the target status of updateStatus is not checked.
ApprovalsUnchecked ==
  {Decision("PENDING_APPROVAL", "APPROVED"), Decision("VALIDATED", "APPROVED"),
   Decision("VALIDATED", "POSTED")}

\* approveGrn, and updateStatus by cost control or an administrator
Approvals == {Decision("PENDING_APPROVAL", "APPROVED"), Decision("VALIDATED", "APPROVED")}

\* Mutant: a posted note can be rejected.
RejectionsOfPosted ==
  {Decision(s, "REJECTED") : s \in {"PENDING_APPROVAL", "VALIDATED", "POSTED"}}

\* rejectGrn and updateStatus; an approved note goes back before it is posted
Rejections == {Decision(s, "REJECTED") : s \in {"PENDING_APPROVAL", "VALIDATED"}}
Returns == {Decision("APPROVED", "REJECTED")}

\* resubmitRejectedGrn by a storekeeper, or by cost control
Resubmissions == {Decision("REJECTED", "VALIDATED"), Decision("REJECTED", "APPROVED")}

Decisions == Submissions \cup Approvals \cup Rejections \cup Returns \cup Resubmissions

NoJob == CHOOSE g \in Grns : TRUE
NoGoal == Decision("none", "none")

TypeOK ==
  /\ RowsTypeOK
  /\ status \in [Grns -> Statuses]
  /\ lines \in [Grns -> Seq(GrnLine)]
  /\ signed \in [Grns -> Seq(GrnLine)]
  /\ movement \in [Grns -> Seq(GrnLine)]
  /\ obOpen \in BOOLEAN
  /\ pc \in [Requests ->
       {"idle", "decide", "edit", "autopost", "read", "write", "commit"}]
  /\ job \in [Requests -> Grns]
  /\ goal \in [Requests -> Decisions \cup {NoGoal}]
  /\ work \in [Requests -> Seq(GrnLine)]
  /\ idx \in [Requests -> Nat \ {0}]

Init ==
  /\ RowsInit
  /\ status = [g \in Grns |-> "none"]
  /\ lines = [g \in Grns |-> <<>>]
  /\ signed = [g \in Grns |-> <<>>]
  /\ movement = [g \in Grns |-> <<>>]
  /\ obOpen \in BOOLEAN
  /\ pc = [r \in Requests |-> "idle"]
  /\ job = [r \in Requests |-> NoJob]
  /\ goal = [r \in Requests |-> NoGoal]
  /\ work = [r \in Requests |-> <<>>]
  /\ idx = [r \in Requests |-> 1]

\* The request goes on with note g.
Take(r, g, step) ==
  /\ pc' = [pc EXCEPT ![r] = step]
  /\ job' = [job EXCEPT ![r] = g]

\* The request is answered.
Return(r) ==
  /\ pc' = [pc EXCEPT ![r] = "idle"]
  /\ job' = [job EXCEPT ![r] = NoJob]
  /\ goal' = [goal EXCEPT ![r] = NoGoal]
  /\ work' = [work EXCEPT ![r] = <<>>]
  /\ idx' = [idx EXCEPT ![r] = 1]

-----------------------------------------------------------------------------
(* Creation, decisions and corrections *)

\* A storekeeper's note starts VALIDATED, everybody else's APPROVED.
CreateNote(g, first) ==
  /\ status[g] = "none"
  /\ ~obOpen
  /\ status' = [status EXCEPT ![g] = first]
  /\ \E ls \in Receipts[g] :
       /\ lines' = [lines EXCEPT ![g] = ls]
       /\ signed' = [signed EXCEPT ![g] = IF first = "APPROVED" THEN ls ELSE <<>>]
  /\ UNCHANGED <<committed, uncommitted, movement, obOpen>>

CreateGrn(r, g) ==
  /\ pc[r] = "idle"
  /\ \E first \in {"VALIDATED", "APPROVED"} : CreateNote(g, first)
  /\ UNCHANGED <<pc, local>>

\* The note of a hotel administrator is created and then posted at once.
CreateAndPost(r, g) ==
  /\ pc[r] = "idle"
  /\ CreateNote(g, "APPROVED")
  /\ Take(r, g, "autopost")
  /\ UNCHANGED <<goal, work, idx>>

BeginDecision(r, g) ==
  /\ pc[r] = "idle"
  /\ \E d \in Decisions :
       /\ d.from = status[g]
       /\ goal' = [goal EXCEPT ![r] = d]
  /\ Take(r, g, "decide")
  /\ UNCHANGED <<committed, uncommitted, notes, obOpen, work, idx>>

\* approvedBy after decision d on note g.
Signature(g, d) ==
  IF d.to = "APPROVED" THEN lines[g]
  ELSE IF d \in Returns \cup {Decision("REJECTED", "VALIDATED")} THEN <<>>
  ELSE signed[g]

\* The status is set whatever it has become.
FinishDecision(r) ==
  /\ pc[r] = "decide"
  /\ status' = [status EXCEPT ![job[r]] = goal[r].to]
  /\ signed' = [signed EXCEPT ![job[r]] = Signature(job[r], goal[r])]
  /\ Return(r)
  /\ UNCHANGED <<committed, uncommitted, lines, movement, obOpen>>

\* updateGrn replaces the lines of a REJECTED note.
Editable(g) == status[g] = "REJECTED"

BeginEdit(r, g) ==
  /\ pc[r] = "idle"
  /\ Editable(g)
  /\ Take(r, g, "edit")
  /\ UNCHANGED <<committed, uncommitted, notes, obOpen, goal, work, idx>>

FinishEdit(r) ==
  /\ pc[r] = "edit"
  /\ \E ls \in Receipts[job[r]] : lines' = [lines EXCEPT ![job[r]] = ls]
  /\ Return(r)
  /\ UNCHANGED <<committed, uncommitted, status, signed, movement, obOpen>>

-----------------------------------------------------------------------------
(* Posting *)

\* Mutant: a note that was not approved can be posted.
PostableUnapproved(g) == status[g] \in {"VALIDATED", "APPROVED"}

Postable(g) == status[g] = "APPROVED"

BeginPost(r, g) ==
  /\ \/ pc[r] = "idle"
     \/ pc[r] = "autopost" /\ job[r] = g
  /\ Postable(g)
  /\ work' = [work EXCEPT ![r] = lines[g]]
  /\ Take(r, g, "read")
  /\ UNCHANGED <<committed, uncommitted, notes, obOpen, goal, idx>>

CurrentLine(r) == work[r][idx[r]]

ReadBalance(r) ==
  /\ pc[r] = "read"
  /\ Select(r, CurrentLine(r).cell)
  /\ pc' = [pc EXCEPT ![r] = "write"]
  /\ UNCHANGED <<notes, obOpen, local>>

\* On to the next line or, after the last one, to the movement document.
Advance(r) ==
  IF idx[r] < Len(work[r])
  THEN /\ pc' = [pc EXCEPT ![r] = "read"]
       /\ idx' = [idx EXCEPT ![r] = idx[r] + 1]
  ELSE /\ pc' = [pc EXCEPT ![r] = "commit"]
       /\ UNCHANGED idx

\* Mutant: the balance is overwritten with the quantity of the line.
NewQtyForgetsOld(r) == CurrentLine(r).qty

\* newQty = prevQty + qtyToPost, with the balance as it was read.
NewQty(r) == seen[r] + CurrentLine(r).qty

WriteBalance(r) ==
  LET c == CurrentLine(r).cell
  IN  /\ pc[r] = "write"
      /\ Update(r, c, NewQty(r) - Visible(r, c), CurrentLine(r).qty)
      /\ Advance(r)
      /\ UNCHANGED <<notes, obOpen, job, goal, work>>

\* Mutant: the movement document is numbered afresh, so it is never refused.
NumberFreeAlways(g) == TRUE

\* Movement documents have unique numbers.
NumberFree(g) == movement[g] = <<>>

Commit(r) ==
  /\ pc[r] = "commit"
  /\ NumberFree(job[r])
  /\ CommitRows(r)
  /\ movement' = [movement EXCEPT ![job[r]] = work[r]]
  /\ status' = [status EXCEPT ![job[r]] = "POSTED"]
  /\ Return(r)
  /\ UNCHANGED <<lines, signed, obOpen>>

\* "GRN must be APPROVED before posting", or the number is taken.
RefusePost(r) ==
  /\ \/ pc[r] = "autopost" /\ ~Postable(job[r])
     \/ pc[r] = "commit" /\ ~NumberFree(job[r])
  /\ RollbackRows(r)
  /\ Return(r)
  /\ UNCHANGED <<notes, obOpen>>

\* A timeout, a lost connection or a crash before the request's last write.
Abort(r) ==
  /\ pc[r] # "idle"
  /\ RollbackRows(r)
  /\ Return(r)
  /\ UNCHANGED <<notes, obOpen>>

-----------------------------------------------------------------------------
(* What other parts of the server do meanwhile *)

\* enableOpeningBalanceStage, finalizeOpeningBalance, closePeriod and the
\* PUT of allowOpeningBalance
SetOpening(v) ==
  /\ obOpen' = v
  /\ UNCHANGED <<committed, uncommitted, notes, pc, local>>

-----------------------------------------------------------------------------
Arrive(r) ==
  \E g \in Grns :
    \/ CreateGrn(r, g) \/ CreateAndPost(r, g)
    \/ BeginDecision(r, g) \/ BeginEdit(r, g) \/ BeginPost(r, g)

Continue(r) ==
  \/ FinishDecision(r) \/ FinishEdit(r)
  \/ ReadBalance(r) \/ WriteBalance(r) \/ Commit(r)
  \/ RefusePost(r) \/ Abort(r)

Elsewhere == \E v \in BOOLEAN : SetOpening(v)

Next == (\E r \in Requests : Arrive(r) \/ Continue(r)) \/ Elsewhere

Spec == Init /\ [][Next]_vars
=============================================================================
