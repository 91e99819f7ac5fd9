---------------------------- MODULE LossDocuments ----------------------------
(***************************************************************************)
(* Breakage and lost documents (breakage.service.js, lostItems.service.js) *)
(* and the four signatures after which the last signer's transaction books *)
(* the loss; or the general route of movements (posting.service.js), which *)
(* posts a draft without any.                                              *)
(*                                                                         *)
(* A document has one line; what a handler does to several, it does to     *)
(* each in one transaction.  A handler reads document and request first    *)
(* (Begin) and writes them by id later (Finish); the transaction of a      *)
(* final approval reads the ledger and the stock in between (Look).        *)
(***************************************************************************)
EXTENDS BookedStock, FiniteSetsExt

CONSTANTS
  Docs,
  Losses,     \* what a loss document says
  Clerks      \* requests about loss documents

DocKinds == {"BREAKAGE", "LOST"}
Sources == {"INTERNAL", "GET_PASS_RETURN"}

\* Only the handlers of breakages and of returned loans check the quantity.
Loss == [kind : DocKinds, source : Sources, cell : Cells, qty : Int]

ASSUME LossAssumption == Cells # {} /\ Losses \subseteq Loss /\ IsFiniteSet(Docs)

\* APPROVAL_CHAIN and STATUS_BY_APPROVED_STEP, which BREAKAGE_MANUAL_FLOW and
\* LOST_FLOW repeat.
Chain == <<"DEPT_MANAGER", "COST_CONTROL", "FINANCE_MANAGER", "GENERAL_MANAGER">>
StepNos == 1 .. 4
ApprovedStatus == <<"DEPT_APPROVED", "COST_CONTROL_APPROVED", "FINANCE_APPROVED", "APPROVED">>
DocStatuses ==
  {"none", "DRAFT", "DEPT_APPROVED", "COST_CONTROL_APPROVED", "FINANCE_APPROVED", "APPROVED",
   "REJECTED", "VOID", "POSTED"}
Marks == {"PENDING", "APPROVED", "REJECTED"}
Signers == {"DEPT_MANAGER", "COST_CONTROL", "FINANCE_MANAGER", "GENERAL_MANAGER", "ADMIN", "ORG_MANAGER"}

VARIABLES
  doc,        \* movement documents
  request,    \* their approval requests
  booked,     \* quantity on the ledger rows of each document's approval
  posted,     \* quantity on its ledger rows from the general route
  totals,     \* per balance: totalQtyDamage and totalQtyLost
  clerk, desk \* per request: what it does next, and with what

books == <<booked, posted, totals>>
lossVars == <<doc, request, books, clerk, desk>>

Doc == [loss : Loss, status : DocStatuses]
Request == [exists : BOOLEAN, status : Marks, current : StepNos, steps : [StepNos -> Marks]]

AnyLoss == [kind |-> "BREAKAGE", source |-> "INTERNAL", cell |-> CHOOSE c \in Cells : TRUE, qty |-> 0]
NoDoc == [loss |-> AnyLoss, status |-> "none"]
NoRequest == [exists |-> FALSE, status |-> "PENDING", current |-> 1, steps |-> [i \in StepNos |-> "PENDING"]]

\* createMovementApprovalRequest: the department signs by creating.
NewRequest ==
  [exists |-> TRUE, status |-> "PENDING", current |-> 2,
   steps |-> [i \in StepNos |-> IF i = 1 THEN "APPROVED" ELSE "PENDING"]]

NoDocId == "none"
IdleDesk == [doc |-> NoDocId, seen |-> NoDoc, step |-> 1, approve |-> FALSE]
ClerkSteps == {"idle", "submit", "sign", "book", "void", "level", "book_level", "post", "book_post"}

LossTypeOK ==
  /\ onHand \in [Cells -> Int] /\ ledger \in [Cells -> Int] /\ closed \in BOOLEAN
  /\ doc \in [Docs -> Doc] /\ request \in [Docs -> Request]
  /\ booked \in [Docs -> Int] /\ posted \in [Docs -> Int]
  /\ totals \in [Cells -> [DocKinds -> Int]]
  /\ clerk \in [Clerks -> ClerkSteps]
  /\ desk \in [Clerks -> [doc : Docs \cup {NoDocId}, seen : Doc, step : StepNos, approve : BOOLEAN]]

LossInit ==
  /\ doc = [d \in Docs |-> NoDoc] /\ request = [d \in Docs |-> NoRequest]
  /\ booked = [d \in Docs |-> 0] /\ posted = [d \in Docs |-> 0]
  /\ totals = [c \in Cells |-> [k \in DocKinds |-> 0]]
  /\ clerk = [r \in Clerks |-> "idle"] /\ desk = [r \in Clerks |-> IdleDesk]

-----------------------------------------------------------------------------
(* Documents *)

Create(d, f) ==
  /\ doc[d].status = "none"
  /\ doc' = [doc EXCEPT ![d] = [loss |-> f, status |-> "DEPT_APPROVED"]]
  /\ request' = [request EXCEPT ![d] = NewRequest]
  /\ UNCHANGED <<stockRows, closed, books, clerk, desk>>

CreateBreakage(r, d, f) ==
  /\ clerk[r] = "idle" /\ f.kind = "BREAKAGE" /\ f.source = "INTERNAL" /\ f.qty > 0
  /\ Create(d, f)

CreateLost(r, d, f) ==
  /\ clerk[r] = "idle" /\ f.kind = "LOST" /\ f.source = "INTERNAL"
  /\ Create(d, f)

\* acceptReturnIntoDepartment creates one for what came back damaged or not.
CreateClaim(d, f) == f.source = "GET_PASS_RETURN" /\ f.qty > 0 /\ Create(d, f)

\* A draft of the movement service has no approval request.
CreatePlain(r, d, f) ==
  /\ clerk[r] = "idle" /\ doc[d].status = "none"
  /\ doc' = [doc EXCEPT ![d] = [loss |-> f, status |-> "DRAFT"]]
  /\ UNCHANGED <<stockRows, closed, request, books, clerk, desk>>

TakeUp(r, step, j) ==
  /\ clerk[r] = "idle"
  /\ clerk' = [clerk EXCEPT ![r] = step]
  /\ desk' = [desk EXCEPT ![r] = j]
  /\ UNCHANGED <<stockRows, closed, doc, request, books>>

PutDown(r) ==
  /\ clerk' = [clerk EXCEPT ![r] = "idle"]
  /\ desk' = [desk EXCEPT ![r] = IdleDesk]
  /\ UNCHANGED closed

\* Submission writes DRAFT over DRAFT, by id; only plain breakages are drafts.
BeginSubmitLoss(r, d) ==
  /\ doc[d].loss.kind = "BREAKAGE" /\ doc[d].status = "DRAFT"
  /\ TakeUp(r, "submit", [IdleDesk EXCEPT !.doc = d])

FinishSubmitLoss(r) ==
  /\ clerk[r] = "submit"
  /\ doc' = [doc EXCEPT ![desk[r].doc].status = "DRAFT"]
  /\ PutDown(r) /\ UNCHANGED <<stockRows, request, books>>

\* Only breakages can be voided, those the general route posted among them.
BeginVoidLoss(r, d) ==
  /\ doc[d].loss.kind = "BREAKAGE" /\ doc[d].status \notin {"none", "APPROVED", "VOID"}
  /\ TakeUp(r, "void", [IdleDesk EXCEPT !.doc = d])

FinishVoidLoss(r) ==
  /\ clerk[r] = "void"
  /\ doc' = [doc EXCEPT ![desk[r].doc].status = "VOID"]
  /\ PutDown(r) /\ UNCHANGED <<stockRows, request, books>>

-----------------------------------------------------------------------------
(* The signatures of a document with an approval request *)

MaySign(role, i) == role \in {Chain[i], "ADMIN", "ORG_MANAGER"}

\* The locks of the document, and the guard against steps out of order.
OpenFor(d, i) ==
  /\ doc[d].status \notin {"APPROVED", "VOID", "REJECTED"}
  /\ request[d].exists /\ i = request[d].current
  /\ request[d].steps[i] = "PENDING"
  /\ \A j \in 1 .. i - 1 : request[d].steps[j] = "APPROVED"

Sign(r, d, role, approve) ==
  \E i \in StepNos :
    /\ OpenFor(d, i) /\ MaySign(role, i)
    /\ approve /\ i = 4 => ~closed
    /\ TakeUp(r, "sign", [doc |-> d, seen |-> doc[d], step |-> i, approve |-> approve])

\* processApprovalStep
BeginSignBreakage(r, d, role, approve) ==
  doc[d].loss.kind = "BREAKAGE" /\ Sign(r, d, role, approve)

\* processLostApprovalStep
BeginSignLost(r, d, role, approve) ==
  doc[d].loss.kind = "LOST" /\ Sign(r, d, role, approve)

\* Every decision writes the request's row, and waits for who has written it.
RowsFree(d) == \A q \in Clerks : ~(clerk[q] = "book" /\ desk[q].doc = d)

\* Mutant: a rejection leaves the document where it was.
FinishRejectLossRequestOnly(r) ==
  LET d == desk[r].doc
      i == desk[r].step
  IN  /\ clerk[r] = "sign" /\ ~desk[r].approve /\ RowsFree(d)
      /\ request' = [request EXCEPT ![d].steps[i] = "REJECTED", ![d].status = "REJECTED"]
      /\ PutDown(r) /\ UNCHANGED <<stockRows, doc, books>>

FinishRejectLoss(r) ==
  LET d == desk[r].doc
      i == desk[r].step
  IN  /\ clerk[r] = "sign" /\ ~desk[r].approve /\ RowsFree(d)
      /\ request' = [request EXCEPT ![d].steps[i] = "REJECTED", ![d].status = "REJECTED"]
      /\ doc' = [doc EXCEPT ![d].status = "REJECTED"]
      /\ PutDown(r) /\ UNCHANGED <<stockRows, books>>

FinishSignLoss(r) ==
  LET d == desk[r].doc
      i == desk[r].step
  IN  /\ clerk[r] = "sign" /\ desk[r].approve /\ i < 4 /\ RowsFree(d)
      /\ request' = [request EXCEPT ![d].steps[i] = "APPROVED", ![d].current = i + 1]
      /\ doc' = [doc EXCEPT ![d].status = ApprovedStatus[i]]
      /\ PutDown(r) /\ UNCHANGED <<stockRows, books>>

-----------------------------------------------------------------------------
(* Booking *)

\* Rows of the document, of its approval or from the general route: one of
\* quantity 0 changes no figure and counts for none here.
HasRows(d) == booked[d] # 0 \/ posted[d] # 0

\* Mutant: the guard against double posting is there for returns only, as it is
\* for lost items.
BookableBreakageUnguarded(d) ==
  LET f == doc[d].loss
  IN  /\ f.source = "GET_PASS_RETURN" => ~HasRows(d)
      /\ f.source = "INTERNAL" => onHand[f.cell] >= f.qty

\* What returned damaged has left the stock on hand already.
BookableBreakage(d) ==
  LET f == doc[d].loss
  IN  /\ ~HasRows(d)
      /\ f.source = "INTERNAL" => onHand[f.cell] >= f.qty

\* A lost document of the house has no guard against double posting.
BookableLost(d) ==
  LET f == doc[d].loss
  IN  /\ f.source = "GET_PASS_RETURN" => ~HasRows(d)
      /\ f.source = "INTERNAL" /\ f.qty > 0 => onHand[f.cell] >= f.qty

Bookable(d) == IF doc[d].loss.kind = "BREAKAGE" THEN BookableBreakage(d) ELSE BookableLost(d)

\* Lost lines without a positive quantity are passed over.
RowQty(f) == IF f.kind = "LOST" /\ f.qty < 0 THEN 0 ELSE f.qty

WriteRow(d) ==
  LET f == doc[d].loss
  IN  /\ ledger' = [ledger EXCEPT ![f.cell] = @ - RowQty(f)]
      /\ booked' = [booked EXCEPT ![d] = @ + RowQty(f)]

TakeOff(d) ==
  LET f == doc[d].loss
  IN  onHand' = [onHand EXCEPT ![f.cell] = IF f.source = "INTERNAL" THEN @ - RowQty(f) ELSE @]

Cumulate(d) ==
  LET f == doc[d].loss
  IN  totals' = [totals EXCEPT ![f.cell][f.kind] = @ + RowQty(f)]

Book(d) == WriteRow(d) /\ TakeOff(d) /\ Cumulate(d) /\ UNCHANGED posted

\* The step's row is written first: who decides the same step waits for the end.
LookBook(r) ==
  LET d == desk[r].doc
  IN  /\ clerk[r] = "sign" /\ desk[r].approve /\ desk[r].step = 4 /\ RowsFree(d)
      /\ Bookable(d)
      /\ clerk' = [clerk EXCEPT ![r] = "book"]
      /\ UNCHANGED <<stockRows, closed, doc, request, books, desk>>

FinishBook(r) ==
  LET d == desk[r].doc
  IN  /\ clerk[r] = "book"
      /\ Book(d)
      /\ request' = [request EXCEPT ![d].steps[4] = "APPROVED", ![d].status = "APPROVED",
                                    ![d].current = 4]
      /\ doc' = [doc EXCEPT ![d].status = "APPROVED"]
      /\ PutDown(r)

\* The routes by level, for documents without a request.
LevelOf(s) == IF s = "DRAFT" THEN 1 ELSE CHOOSE i \in 2 .. 4 : ApprovedStatus[i - 1] = s

Level(r, d, role) ==
  /\ doc[d].status \in {"DRAFT", "DEPT_APPROVED", "COST_CONTROL_APPROVED", "FINANCE_APPROVED"}
  /\ ~request[d].exists /\ doc[d].loss.source = "INTERNAL"
  /\ LET i == LevelOf(doc[d].status)
     IN  /\ MaySign(role, i)
         /\ i = 4 => ~closed
         /\ TakeUp(r, "level", [doc |-> d, seen |-> doc[d], step |-> i, approve |-> TRUE])

\* approveBreakageAtLevel
BeginLevelBreakage(r, d, role) == doc[d].loss.kind = "BREAKAGE" /\ Level(r, d, role)

\* approveLostAtLevel
BeginLevelLost(r, d, role) == doc[d].loss.kind = "LOST" /\ Level(r, d, role)

LookLevel(r) ==
  LET d == desk[r].doc
  IN  /\ clerk[r] = "level" /\ desk[r].step = 4
      /\ Bookable(d)
      /\ clerk' = [clerk EXCEPT ![r] = "book_level"]
      /\ UNCHANGED <<stockRows, closed, doc, request, books, desk>>

FinishLevel(r) ==
  LET d == desk[r].doc
      final == desk[r].step = 4
  IN  /\ clerk[r] = IF final THEN "book_level" ELSE "level"
      /\ IF final THEN Book(d) ELSE UNCHANGED <<stockRows, books>>
      /\ doc' = [doc EXCEPT ![d].status = ApprovedStatus[desk[r].step]]
      /\ PutDown(r) /\ UNCHANGED request

-----------------------------------------------------------------------------
(* The general route of movements: no signature, no running total *)

\* postDocument
BeginPostPlain(r, d) ==
  /\ doc[d].status = "DRAFT" /\ ~closed
  /\ TakeUp(r, "post", [IdleDesk EXCEPT !.doc = d])

LookPostPlain(r) ==
  LET f == doc[desk[r].doc].loss
  IN  /\ clerk[r] = "post" /\ onHand[f.cell] >= f.qty
      /\ clerk' = [clerk EXCEPT ![r] = "book_post"]
      /\ UNCHANGED <<stockRows, closed, doc, request, books, desk>>

FinishPostPlain(r) ==
  LET d == desk[r].doc
      f == doc[d].loss
  IN  /\ clerk[r] = "book_post"
      /\ ledger' = [ledger EXCEPT ![f.cell] = @ - f.qty]
      /\ onHand' = [onHand EXCEPT ![f.cell] = @ - f.qty]
      /\ posted' = [posted EXCEPT ![d] = @ + f.qty]
      /\ doc' = [doc EXCEPT ![d].status = "POSTED"]
      /\ PutDown(r) /\ UNCHANGED <<request, booked, totals>>

\* A guard of the transaction throws, or its connection is lost.
RefuseLoss(r) ==
  /\ clerk[r] # "idle"
  /\ PutDown(r) /\ UNCHANGED <<stockRows, doc, request, books>>

-----------------------------------------------------------------------------
(* What the lists of the signers show *)

Tab ==
  [COST_CONTROL |-> {"DEPT_APPROVED", "COST_CONTROL_APPROVED"},
   FINANCE_MANAGER |-> {"COST_CONTROL_APPROVED", "FINANCE_APPROVED"},
   GENERAL_MANAGER |-> {"FINANCE_APPROVED"}]

Pipeline == {"DEPT_APPROVED", "COST_CONTROL_APPROVED", "FINANCE_APPROVED"}

\* Elevated roles see whatever waits.
Elevated == {"ADMIN", "ORG_MANAGER"}

\* Mutant: the list goes by the request alone, also when its document is void.
PendingMyActionByRequest(role) ==
  {d \in Docs :
     /\ request[d].exists /\ request[d].status = "PENDING"
     /\ request[d].steps[request[d].current] = "PENDING"
     /\ role \in Elevated \cup {Chain[request[d].current]}}

\* What the control tower of the dashboards asks a role to act on.
PendingMyAction(role) ==
  {d \in Docs :
     /\ request[d].exists /\ request[d].status = "PENDING"
     /\ doc[d].status \notin {"VOID", "REJECTED", "APPROVED"}
     /\ request[d].steps[request[d].current] = "PENDING"
     /\ role \in Elevated \cup {Chain[request[d].current]}}

\* How many documents are in each status that is not final.
WorkflowHealth ==
  LET inWorkflow == {d \in Docs : doc[d].status \notin {"none", "APPROVED", "VOID", "REJECTED"}}
  IN  [s \in {doc[d].status : d \in inWorkflow} |->
         Cardinality({d \in inWorkflow : doc[d].status = s})]

\* The lines of approved documents, and the ledger rows of each kind: a month's,
\* which here is the only one.
LineQty == [d \in Docs |-> doc[d].loss.qty]
RowsOf == [d \in Docs |-> booked[d] + posted[d]]
MonthlyApprovedLosses ==
  MapThenSumSet(LAMBDA d : LineQty[d], {d \in Docs : doc[d].status = "APPROVED"})
LossRows ==
  [k \in DocKinds |-> MapThenSumSet(LAMBDA d : RowsOf[d], {d \in Docs : doc[d].loss.kind = k})]

LossNext ==
  \/ \E d \in Docs, f \in Losses : CreateClaim(d, f)
  \/ \E r \in Clerks :
       \/ \E d \in Docs :
            \/ \E f \in Losses :
                 CreateBreakage(r, d, f) \/ CreateLost(r, d, f) \/ CreatePlain(r, d, f)
            \/ BeginSubmitLoss(r, d) \/ BeginVoidLoss(r, d) \/ BeginPostPlain(r, d)
            \/ \E role \in Signers :
                 \/ BeginLevelBreakage(r, d, role) \/ BeginLevelLost(r, d, role)
                 \/ \E approve \in BOOLEAN :
                      BeginSignBreakage(r, d, role, approve) \/ BeginSignLost(r, d, role, approve)
       \/ FinishSubmitLoss(r) \/ FinishVoidLoss(r) \/ FinishRejectLoss(r) \/ FinishSignLoss(r)
       \/ LookBook(r) \/ FinishBook(r) \/ LookLevel(r) \/ FinishLevel(r)
       \/ LookPostPlain(r) \/ FinishPostPlain(r) \/ RefuseLoss(r)
=============================================================================
