----------------------------- MODULE Corrections -----------------------------
(***************************************************************************)
(* What corrects the books without goods arriving or leaving: breakages,   *)
(* losses, count sessions and stock reports, over the same stock rows, in  *)
(* any overlap with one another and with the postings of other components. *)
(***************************************************************************)
EXTENDS LossDocuments, StockCounts

CONSTANTS
  Opening,    \* stock at the start
  Movements,  \* what other components bring to a balance or take from it
  MaxStock    \* bound of the model: they bring nothing above this balance

ASSUME CorrectionsAssumption ==
  /\ Opening \in [Cells -> Nat] /\ Movements \subseteq Int /\ MaxStock \in Nat
  /\ Clerks \cap Tellers = {}

vars == <<onHand, ledger, closed, lossVars, countVars>>

TypeOK == LossTypeOK /\ CountTypeOK

Init ==
  /\ onHand = Opening /\ ledger = Opening /\ closed = FALSE
  /\ LossInit /\ CountInit

Move(c, n) ==
  /\ onHand[c] + n \in 0 .. MaxStock
  /\ onHand' = [onHand EXCEPT ![c] = @ + n]
  /\ ledger' = [ledger EXCEPT ![c] = @ + n]
  /\ UNCHANGED <<closed, lossVars, countVars>>

SetClosed(b) ==
  /\ closed # b /\ closed' = b
  /\ UNCHANGED <<onHand, ledger, lossVars, countVars>>

Next ==
  \/ LossNext /\ UNCHANGED countVars
  \/ CountNext /\ UNCHANGED lossVars
  \/ \E c \in Cells, n \in Movements : Move(c, n)
  \/ \E b \in BOOLEAN : SetClosed(b)

Spec == Init /\ [][Next]_vars

-----------------------------------------------------------------------------
(* What corrections must keep. *)

VARIABLE overlapped

\* A request is about documents or about stock taking.
Requests == Clerks \cup Tellers
NextStepOf == [r \in Requests |-> IF r \in Clerks THEN clerk[r] ELSE teller[r]]

INSTANCE Overlap WITH pc <- NextStepOf

HistoryInit == Init /\ overlapped = FALSE
HistoryNext == Next /\ NoteOverlap
HistorySpec == HistoryInit /\ [][HistoryNext]_<<vars, overlapped>>

Returned(c) == {d \in Docs : doc[d].loss.cell = c /\ doc[d].loss.source = "GET_PASS_RETURN"}

-----------------------------------------------------------------------------
\* Whatever overlaps, a balance is what its ledger says and the claims of
\* returned goods, which had left the balance before (_postBreakageInTransaction,
\* applyStockImpactOnFinalApproval, postStockCount, postStockReport).
StockIsReconciled ==
  \A c \in Cells : onHand[c] = ledger[c] + MapThenSumSet(LAMBDA d : booked[d], Returned(c))

\* A breakage, and the claim of a returned item, is booked at most once whatever
\* overlaps: who signs the last step holds the step's row while it looks for the
\* document's ledger rows.
ClaimsOnce ==
  \A d \in Docs :
    /\ request[d].exists
    /\ doc[d].loss.kind = "BREAKAGE" \/ doc[d].loss.source = "GET_PASS_RETURN"
    => booked[d] \in {0, RowQty(doc[d].loss)}

\* Whatever overlaps, the general route does not post what waits for signatures
\* (postDocument takes drafts only, and a submission writes DRAFT over DRAFT).
SignedNotPosted == \A d \in Docs : request[d].exists => posted[d] = 0

\* The totals a balance shows are what the approvals of breakages and losses
\* wrote to its ledger, whatever overlaps (incrementTotalQtyDamage,
\* incrementTotalQtyLost); rows from the general route are not in them.
TotalsAreBooked ==
  \A c \in Cells, k \in DocKinds :
    totals[c][k] = MapThenSumSet(LAMBDA d : booked[d],
                     {d \in Docs : doc[d].loss.cell = c /\ doc[d].loss.kind = k})

\* What holds of documents, counts and stock at any moment of any interleaving.
Consistent == TypeOK /\ StockIsReconciled /\ ClaimsOnce /\ SignedNotPosted /\ TotalsAreBooked

\* The status of a document is the last step that was signed, a rejected
\* request has a rejected document, what is approved is booked, and what is
\* posted by the general route has its rows, once; those stay when it is voided.
StatusAgrees ==
  \A d \in Docs :
    LET x == doc[d].status
        q == request[d]
        signed(k) == \A i \in StepNos : (q.steps[i] = "APPROVED") <=> i <= k
    IN  /\ booked[d] = IF x = "APPROVED" THEN RowQty(doc[d].loss) ELSE 0
        /\ posted[d] # 0 => x \in {"POSTED", "VOID"} /\ ~q.exists
        /\ posted[d] \in {0, doc[d].loss.qty} /\ (x = "POSTED" => posted[d] = doc[d].loss.qty)
        /\ q.exists /\ x # "VOID" =>
             /\ (x = "REJECTED") <=> (q.status = "REJECTED")
             /\ (x = "REJECTED") <=> \E i \in StepNos : q.steps[i] = "REJECTED"
             /\ \A i \in StepNos : x = ApprovedStatus[i] => signed(i)

\* What waits for a signature is on the tab of who may give it, and in the
\* pipeline of those who see all (getBreakages, listLostItems).
NothingWaitsUnseen ==
  \A d \in Docs, i \in StepNos :
    OpenFor(d, i) => doc[d].status \in Pipeline /\ doc[d].status \in Tab[Chain[i]]

\* Approved documents of lost items without a positive quantity have no row.
PassedOver == {d \in Docs : doc[d].status = "APPROVED" /\ doc[d].loss.kind = "LOST" /\ doc[d].loss.qty < 0}

\* The control tower of the dashboards asks those to act who may sign, what it
\* counts in progress either waits for one of them or has no request, and the
\* losses it reads from the ledger are those it reads from approved documents,
\* with what the general route posted and without the lines that were passed
\* over (computeControlTowerMetrics).
TowerAgrees ==
  /\ \A role \in Signers :
       PendingMyAction(role) = {d \in Docs : \E i \in StepNos : OpenFor(d, i) /\ MaySign(role, i)}
  /\ MapThenSumSet(LAMBDA s : WorkflowHealth[s], DOMAIN WorkflowHealth) =
       Cardinality(PendingMyAction("ADMIN"))
         + Cardinality({d \in Docs : doc[d].status \in Pipeline \cup {"DRAFT", "POSTED"} /\ ~request[d].exists})
  /\ LossRows["BREAKAGE"] + LossRows["LOST"] =
       MonthlyApprovedLosses + MapThenSumSet(LAMBDA d : posted[d], Docs)
         - MapThenSumSet(LAMBDA d : LineQty[d], PassedOver)

\* While no two requests overlap, document, signatures, tabs, dashboards and
\* ledger tell one story, and no balance falls below zero (the checks of
\* available stock).
LossesAgree ==
  Alone(/\ StatusAgrees /\ NothingWaitsUnseen /\ TowerAgrees
        /\ \A c \in Cells : onHand[c] >= 0)

\* A posted session or report is adjusted once, by what was counted less what
\* the books said, and after every signature; alone.
CountsSettle ==
  Alone(
    /\ \A s \in Sessions :
         LET x == session[s]
         IN  /\ adjusted[s] = IF x.status = "POSTED" THEN x.counted - x.book ELSE 0
             /\ x.status = "POSTED" =>
                  x.verdict = "APPROVED" /\ \A i \in CountSteps : x.steps[i] = "APPROVED"
    /\ \A p \in Reports :
         LET x == report[p]
         IN  /\ settled[p] = IF x.status = "POSTED" THEN x.counted - x.book ELSE 0
             /\ x.status = "POSTED" => x.verdict = "APPROVED")

\* What was decided stands: approved and rejected documents, posted sessions and
\* reports, and all that is void, do not change any more, but for the void of
\* what was rejected or posted by the general route, whose rows stay.
DecidedStays ==
  /\ \A d \in Docs :
       /\ doc[d].status = "APPROVED" => UNCHANGED <<doc[d], booked[d]>>
       /\ doc[d].status = "REJECTED" => doc'[d].status \in {"REJECTED", "VOID"}
       /\ doc[d].status = "POSTED" => doc'[d].status \in {"POSTED", "VOID"} /\ UNCHANGED posted[d]
       /\ doc[d].status = "VOID" => doc'[d].status = "VOID" /\ UNCHANGED <<booked[d], posted[d]>>
  /\ \A s \in Sessions :
       /\ session[s].status = "POSTED" => UNCHANGED <<session[s], adjusted[s]>>
       /\ session[s].status = "REJECTED" => session'[s].status \in {"REJECTED", "VOID"}
       /\ session[s].status = "VOID" => session'[s].status = "VOID"
  /\ \A p \in Reports :
       report[p].status \in {"POSTED", "REJECTED"} => UNCHANGED <<report[p], settled[p]>>

\* What the signers see is what is posted: from its submission on, neither the
\* lines of a session nor the balances they were compared with change.
CountIsFrozen ==
  \A s \in Sessions :
    session[s].status \notin {"none", "DRAFT"} =>
      session'[s].counted = session[s].counted /\ session'[s].book = session[s].book

\* Approved, and nobody posts it, or could.
Stranded(s) ==
  /\ session[s].verdict = "APPROVED" /\ session[s].status = "PENDING_APPROVAL"
  /\ ~\E t \in Tellers : slip[t].session = s /\ teller[t] # "void"

\* The final approval of a session commits before the posting: when that is
\* refused, no step is left to sign and nobody ever posts the session, which can
\* only be voided (processApproval).
StrandedStays ==
  \A s \in Sessions : Stranded(s) => Stranded(s)' \/ session'[s].status = "VOID"

\* While no two requests overlap, decisions are final, what is signed is what is
\* posted, and nothing is booked in a month that is closed (checkPeriodLock).
DecisionsStand ==
  [][Alone(/\ DecidedStays /\ CountIsFrozen /\ StrandedStays
           /\ closed => UNCHANGED <<booked, posted, adjusted, settled>>)]_vars

\* "outwardQty = physical variance to adjust book" (saveStockReport): a posted
\* report adjusts stock by the variance on its line.
ReportAdjustsVariance ==
  \A p \in Reports : report[p].status = "POSTED" => settled[p] = report[p].outward
=============================================================================
