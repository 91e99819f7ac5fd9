-------------------------- MODULE RequisitionIssue --------------------------
(***************************************************************************)
(* Store requisitions (requisition.service.js) and the issues that serve   *)
(* them (issue.service.js).                                                *)
(*                                                                         *)
(* A requisition is drafted, edited, submitted, and approved or rejected.  *)
(* Issues are drafted against an approved one and posted: a post reads the *)
(* issue and the requisition with its line totals, and then, in a          *)
(* transaction, takes every line out of the balance it reads (ReadBalance, *)
(* WriteLine), computes the status of the requisition from the totals it   *)
(* sees (Recompute) and commits (Commit).  The handlers that check a       *)
(* status first and write by id later are a Begin and a Finish action.     *)
(*                                                                         *)
(* createIssueDraft is one step: what could change between its checks and  *)
(* its insert can as well change between the insert and the post.          *)
(***************************************************************************)
EXTENDS StockRows, Sequences, FiniteSetsExt

CONSTANTS
  Requisitions,
  Issues,
  Lines,      \* requisition lines
  Owner,      \* Owner[l]: the requisition of line l
  CellOf,     \* CellOf[l]: the balance line l is issued from
  Wishes,     \* Wishes[q]: what a client may ask for, quantities by line
  For,        \* For[i]: the requisition issue i serves
  Picks       \* Picks[i]: the line lists a client may send for issue i

LinesOf(q) == {l \in Lines : Owner[l] = q}

\* "At least one line is required"
IsWish(q, w) ==
  /\ w \in [DOMAIN w -> Int]
  /\ DOMAIN w # {} /\ DOMAIN w \subseteq LinesOf(q)

IssueLine == [line : Lines, qty : Nat \ {0}]

PicksOf(i) ==
  {ls \in Seq(IssueLine) :
     ls # <<>> /\ \A k \in DOMAIN ls : Owner[ls[k].line] = For[i]}

ASSUME LinesAssumption ==
  /\ Requisitions # {}
  /\ Owner \in [Lines -> Requisitions]
  /\ CellOf \in [Lines -> Cells]
  /\ For \in [Issues -> Requisitions]
  /\ IsFiniteSet(Issues)

ASSUME ClientsAssumption ==
  /\ \A q \in Requisitions : \A w \in Wishes[q] : IsWish(q, w)
  /\ \A i \in Issues : Picks[i] \subseteq PicksOf(i)

-----------------------------------------------------------------------------
CONSTANTS
  Deliveries, \* quantities that other components bring in
  MaxStock    \* bound of the model: no delivery above this balance

ASSUME DeliveriesAssumption == Deliveries \subseteq Nat /\ MaxStock \in Nat

VARIABLES
  reqStatus,  \* status of each requisition, "none" before it is created
  asked,      \* requestedQty of the lines it has
  total,      \* totalIssuedQty of each requisition line
  issueStatus,\* status of each issue, "none" before it is created
  issueLines, \* its lines, which never change
  closed,     \* the month the issues are dated in is closed
  pc,         \* per request: what it does next
  job,        \* per request: the requisition or issue it works on
  goal,       \* per request: the decision it has taken
  known,      \* per request: the line totals it has read
  wrote,      \* per request: its uncommitted line totals
  verdict,    \* per request: the status it will give the requisition
  idx         \* per request: the next issue line

requisitions == <<reqStatus, asked, total>>
issues == <<issueStatus, issueLines>>
local == <<job, goal, known, wrote, verdict, idx>>
vars == <<committed, uncommitted, requisitions, issues, closed, pc, local>>

Issuable == {"APPROVED", "PARTIALLY_ISSUED"}

\* FULLY_ISSUED is never stored: the post that reaches it sets CLOSED.
ReqStatuses == {"none", "DRAFT", "SUBMITTED", "REJECTED", "CLOSED", "deleted"} \cup Issuable
IssueStatuses == {"none", "DRAFT", "POSTED", "deleted"}

Decision(from, to) == [from |-> from, to |-> to]

\* submitRequisition, approveRequisition, rejectRequisition, deleteRequisition
Decisions ==
  {Decision("DRAFT", "SUBMITTED"), Decision("SUBMITTED", "APPROVED"),
   Decision("SUBMITTED", "REJECTED"), Decision("DRAFT", "deleted")}

NoJob == CHOOSE q \in Requisitions : TRUE
NoGoal == Decision("none", "none")
NoTotals == [l \in Lines |-> 0]

TypeOK ==
  /\ RowsTypeOK
  /\ reqStatus \in [Requisitions -> ReqStatuses]
  /\ \A q \in Requisitions : asked[q] = <<>> \/ IsWish(q, asked[q])
  /\ total \in [Lines -> Int]
  /\ issueStatus \in [Issues -> IssueStatuses]
  /\ \A i \in Issues : issueLines[i] = <<>> \/ issueLines[i] \in PicksOf(i)
  /\ closed \in BOOLEAN
  /\ pc \in [Requests ->
       {"idle", "decide", "edit", "delete", "read", "write", "recompute", "commit"}]
  /\ job \in [Requests -> Requisitions \cup Issues]
  /\ goal \in [Requests -> Decisions \cup {NoGoal}]
  /\ known \in [Requests -> [Lines -> Int]]
  /\ \A r \in Requests :
       DOMAIN wrote[r] \subseteq Lines /\ wrote[r] \in [DOMAIN wrote[r] -> Int]
  /\ verdict \in [Requests -> ReqStatuses]
  /\ idx \in [Requests -> Nat \ {0}]

Init ==
  /\ RowsInit
  /\ reqStatus = [q \in Requisitions |-> "none"]
  /\ asked = [q \in Requisitions |-> <<>>]
  /\ total = NoTotals
  /\ issueStatus = [i \in Issues |-> "none"]
  /\ issueLines = [i \in Issues |-> <<>>]
  /\ closed = FALSE
  /\ pc = [r \in Requests |-> "idle"]
  /\ job = [r \in Requests |-> NoJob]
  /\ goal = [r \in Requests |-> NoGoal]
  /\ known = [r \in Requests |-> NoTotals]
  /\ wrote = [r \in Requests |-> <<>>]
  /\ verdict = [r \in Requests |-> "none"]
  /\ idx = [r \in Requests |-> 1]

\* The request goes on with requisition or issue j.
Take(r, j, step) ==
  /\ pc' = [pc EXCEPT ![r] = step]
  /\ job' = [job EXCEPT ![r] = j]

\* The request is answered.
Return(r) ==
  /\ pc' = [pc EXCEPT ![r] = "idle"]
  /\ job' = [job EXCEPT ![r] = NoJob]
  /\ goal' = [goal EXCEPT ![r] = NoGoal]
  /\ known' = [known EXCEPT ![r] = NoTotals]
  /\ wrote' = [wrote EXCEPT ![r] = <<>>]
  /\ verdict' = [verdict EXCEPT ![r] = "none"]
  /\ idx' = [idx EXCEPT ![r] = 1]

Exists(q) == reqStatus[q] \notin {"none", "deleted"}

\* Issue lines refer to the requisition and its lines: neither can be deleted.
Referenced(q) ==
  \E i \in Issues : For[i] = q /\ issueStatus[i] \in {"DRAFT", "POSTED"}

-----------------------------------------------------------------------------
(* Requisitions *)

\* New lines have nothing issued.
SetLines(q) ==
  /\ \E w \in Wishes[q] : asked' = [asked EXCEPT ![q] = w]
  /\ total' = [l \in Lines |-> IF Owner[l] = q THEN 0 ELSE total[l]]

CreateRequisition(r, q) ==
  /\ pc[r] = "idle"
  /\ reqStatus[q] = "none"
  /\ reqStatus' = [reqStatus EXCEPT ![q] = "DRAFT"]
  /\ SetLines(q)
  /\ UNCHANGED <<committed, uncommitted, issues, closed, pc, local>>

BeginDecision(r, q) ==
  /\ pc[r] = "idle"
  /\ \E d \in Decisions :
       /\ d.from = reqStatus[q]
       /\ goal' = [goal EXCEPT ![r] = d]
  /\ Take(r, q, "decide")
  /\ UNCHANGED <<committed, uncommitted, requisitions, issues, closed,
                 known, wrote, verdict, idx>>

FinishDecision(r) ==
  LET q == job[r]
  IN  /\ pc[r] = "decide"
      /\ IF Exists(q) /\ (goal[r].to = "deleted" => ~Referenced(q))
         THEN reqStatus' = [reqStatus EXCEPT ![q] = goal[r].to]
         ELSE UNCHANGED reqStatus
      /\ Return(r)
      /\ UNCHANGED <<committed, uncommitted, asked, total, issues, closed>>

Editable(q) == reqStatus[q] = "DRAFT"

BeginEdit(r, q) ==
  /\ pc[r] = "idle"
  /\ Editable(q)
  /\ Take(r, q, "edit")
  /\ UNCHANGED <<committed, uncommitted, requisitions, issues, closed,
                 goal, known, wrote, verdict, idx>>

FinishEdit(r) ==
  LET q == job[r]
  IN  /\ pc[r] = "edit"
      /\ \/ Exists(q) /\ ~Referenced(q) /\ SetLines(q)
         \/ UNCHANGED <<asked, total>>   \* no lines sent, or refused
      /\ Return(r)
      /\ UNCHANGED <<committed, uncommitted, reqStatus, issues, closed>>

-----------------------------------------------------------------------------
(* Issues *)

\* "issuedQty <= remaining" and "Stock balance >= issuedQty", line by line.
Available(line) ==
  LET q == Owner[line.line]
  IN  /\ line.line \in DOMAIN asked[q]
      /\ line.qty <= asked[q][line.line] - total[line.line]
      /\ line.qty <= onHand[CellOf[line.line]]

CreateIssue(r, i) ==
  /\ pc[r] = "idle"
  /\ issueStatus[i] = "none"
  /\ reqStatus[For[i]] \in Issuable
  /\ \E ls \in Picks[i] :
       /\ \A k \in DOMAIN ls : Available(ls[k])
       /\ issueLines' = [issueLines EXCEPT ![i] = ls]
  /\ issueStatus' = [issueStatus EXCEPT ![i] = "DRAFT"]
  /\ UNCHANGED <<committed, uncommitted, requisitions, closed, pc, local>>

\* Mutant: a posted issue can be deleted.
DeletableAlways(i) == issueStatus[i] \in {"DRAFT", "POSTED"}

Deletable(i) == issueStatus[i] = "DRAFT"

BeginDelete(r, i) ==
  /\ pc[r] = "idle"
  /\ Deletable(i)
  /\ Take(r, i, "delete")
  /\ UNCHANGED <<committed, uncommitted, requisitions, issues, closed,
                 goal, known, wrote, verdict, idx>>

\* The lines of the issue are deleted with it, once no transaction locks them.
FinishDelete(r) ==
  /\ pc[r] = "delete"
  /\ \A q \in Requests \ {r} : job[q] = job[r] => DOMAIN wrote[q] = {}
  /\ issueStatus' = [issueStatus EXCEPT ![job[r]] = "deleted"]
  /\ Return(r)
  /\ UNCHANGED <<committed, uncommitted, requisitions, issueLines, closed>>

-----------------------------------------------------------------------------
(* Posting *)

Postable(i) ==
  issueStatus[i] = "DRAFT" /\ reqStatus[For[i]] \in Issuable /\ ~closed

BeginPost(r, i) ==
  /\ pc[r] = "idle"
  /\ Postable(i)
  /\ known' = [known EXCEPT ![r] = total]
  /\ Take(r, i, "read")
  /\ UNCHANGED <<committed, uncommitted, requisitions, issues, closed,
                 goal, wrote, verdict, idx>>

CurrentLine(r) == issueLines[job[r]][idx[r]]
CurrentCell(r) == CellOf[CurrentLine(r).line]

\* Mutant: the balance may go to minus one.
EnoughAlmost(r) == Visible(r, CurrentCell(r)) + 1 >= CurrentLine(r).qty

Enough(r) == Visible(r, CurrentCell(r)) >= CurrentLine(r).qty

ReadBalance(r) ==
  /\ pc[r] = "read"
  /\ Enough(r)
  /\ Select(r, CurrentCell(r))
  /\ pc' = [pc EXCEPT ![r] = "write"]
  /\ UNCHANGED <<requisitions, issues, closed, local>>

Advance(r) ==
  IF idx[r] < Len(issueLines[job[r]])
  THEN /\ pc' = [pc EXCEPT ![r] = "read"]
       /\ idx' = [idx EXCEPT ![r] = idx[r] + 1]
  ELSE /\ pc' = [pc EXCEPT ![r] = "recompute"]
       /\ UNCHANGED idx

\* newQty: the balance as it was read, less the line.
NewQty(r) == seen[r] - CurrentLine(r).qty

\* Mutant: the total of the line is overwritten.
NewTotalForgets(r) == CurrentLine(r).qty

\* totalIssuedQty as it was read before the transaction, and the line.
NewTotal(r) == known[r][CurrentLine(r).line] + CurrentLine(r).qty

\* The balance, the ledger row and the total of one line.
WriteLine(r) ==
  LET line == CurrentLine(r)
      c == CurrentCell(r)
  IN  /\ pc[r] = "write"
      /\ issueStatus[job[r]] # "deleted"
      /\ Update(r, c, NewQty(r) - Visible(r, c), -line.qty)
      /\ wrote' = [wrote EXCEPT ![r] =
                     [l \in DOMAIN wrote[r] \cup {line.line} |->
                        IF l = line.line THEN NewTotal(r) ELSE wrote[r][l]]]
      /\ Advance(r)
      /\ UNCHANGED <<requisitions, issues, closed, job, goal, known, verdict>>

\* The totals as the transaction of r sees them.
Totals(r) == [l \in Lines |-> IF l \in DOMAIN wrote[r] THEN wrote[r][l] ELSE total[l]]

\* Something has been issued: the line just written.
Verdict(q, totals) ==
  IF \A l \in DOMAIN asked[q] : totals[l] >= asked[q][l] THEN "CLOSED" ELSE "PARTIALLY_ISSUED"

Recompute(r) ==
  /\ pc[r] = "recompute"
  /\ verdict' = [verdict EXCEPT ![r] = Verdict(For[job[r]], Totals(r))]
  /\ pc' = [pc EXCEPT ![r] = "commit"]
  /\ UNCHANGED <<committed, uncommitted, requisitions, issues, closed,
                 job, goal, known, wrote, idx>>

Commit(r) ==
  /\ pc[r] = "commit"
  /\ CommitRows(r)
  /\ total' = Totals(r)
  /\ issueStatus' = [issueStatus EXCEPT ![job[r]] = "POSTED"]
  /\ reqStatus' = [reqStatus EXCEPT ![For[job[r]]] = verdict[r]]
  /\ Return(r)
  /\ UNCHANGED <<asked, issueLines, closed>>

\* Too little stock, or the issue is gone.
RefusePost(r) ==
  /\ \/ pc[r] = "read" /\ ~Enough(r)
     \/ pc[r] = "write" /\ issueStatus[job[r]] = "deleted"
  /\ RollbackRows(r)
  /\ Return(r)
  /\ UNCHANGED <<requisitions, issues, closed>>

\* A timeout, a lost connection, a broken deadlock or a crash.
Abort(r) ==
  /\ pc[r] # "idle"
  /\ RollbackRows(r)
  /\ Return(r)
  /\ UNCHANGED <<requisitions, issues, closed>>

-----------------------------------------------------------------------------
(* What other parts of the server do meanwhile *)

\* A posting that is not an issue adds to a balance.
Deliver(c, n) ==
  /\ \A r \in Requests : c \notin held[r]
  /\ onHand[c] + n <= MaxStock
  /\ onHand' = [onHand EXCEPT ![c] = @ + n]
  /\ ledger' = [ledger EXCEPT ![c] = @ + n]
  /\ UNCHANGED <<uncommitted, requisitions, issues, closed, pc, local>>

\* closePeriod, reopenPeriod
SetClosed(v) ==
  /\ closed' = v
  /\ UNCHANGED <<committed, uncommitted, requisitions, issues, pc, local>>

-----------------------------------------------------------------------------
Arrive(r) ==
  \/ \E q \in Requisitions :
       CreateRequisition(r, q) \/ BeginDecision(r, q) \/ BeginEdit(r, q)
  \/ \E i \in Issues : CreateIssue(r, i) \/ BeginDelete(r, i) \/ BeginPost(r, i)

Continue(r) ==
  \/ FinishDecision(r) \/ FinishEdit(r) \/ FinishDelete(r)
  \/ ReadBalance(r) \/ WriteLine(r) \/ Recompute(r) \/ Commit(r)
  \/ RefusePost(r) \/ Abort(r)

Elsewhere ==
  \/ \E c \in Cells, n \in Deliveries : Deliver(c, n)
  \/ \E v \in BOOLEAN : SetClosed(v)

Next == (\E r \in Requests : Arrive(r) \/ Continue(r)) \/ Elsewhere

Spec == Init /\ [][Next]_vars

-----------------------------------------------------------------------------
(* What requisitions and issues must keep. *)

VARIABLE overlapped

INSTANCE Overlap

HistoryInit == Init /\ overlapped = FALSE
HistoryNext == Next /\ NoteOverlap
HistorySpec == HistoryInit /\ [][HistoryNext]_<<vars, overlapped>>

Posted == {i \in Issues : issueStatus[i] = "POSTED"}

\* What issue i takes from requisition line l.
Takes(i, l) ==
  LET ls == issueLines[i]
      n == [k \in DOMAIN ls |-> IF ls[k].line = l THEN ls[k].qty ELSE 0]
  IN  MapThenSumSet(LAMBDA k : n[k], DOMAIN ls)

\* What the posted issues have taken from requisition line l.
IssuedFrom(l) ==
  LET n == [i \in Issues |-> Takes(i, l)]
  IN  MapThenSumSet(LAMBDA i : n[i], Posted)

\* No line of issue i but one is for requisition line l.
NamesOnce(i, l) ==
  \A j, k \in DOMAIN issueLines[i] :
    issueLines[i][j].line = l /\ issueLines[i][k].line = l => j = k

-----------------------------------------------------------------------------
\* "Stock balance >= issuedQty (hard block - no override)": no balance is
\* negative, also when issues of the same stock are posted at the same time.
StockNeverNegative == \A c \in Cells : onHand[c] >= 0

\* What holds of requisitions, issues and stock at any moment of any
\* interleaving.
Consistent == TypeOK /\ StockNeverNegative

\* A balance and its ledger change together (postIssue), totalIssuedQty is what
\* the posted issues have taken, and a requisition is closed when, and only
\* when, every line is fully issued ("auto-advance requisition status"); alone.
\* Of an issue that lists a requisition line twice, which nothing forbids, only
\* the last quantity gets into the total, so such a line is left out.
BooksAgree ==
  Alone(/\ \A c \in Cells : onHand[c] = ledger[c]
        /\ \A l \in Lines :
             (\A i \in Posted : NamesOnce(i, l)) => total[l] = IssuedFrom(l)
        /\ \A q \in Requisitions : reqStatus[q] \in {"PARTIALLY_ISSUED", "CLOSED"} =>
             (reqStatus[q] = "CLOSED" <=> \A l \in DOMAIN asked[q] : total[l] >= asked[q][l]))

\* Stock leaves only for a requisition that was approved and in a month that
\* is open, and for good ("Cannot delete a POSTED issue - it is permanently
\* locked"); what was submitted is what is approved and issued; alone.
IssuesAreCovered ==
  [][Alone(
       /\ \A i \in Issues :
            /\ issueStatus[i] = "POSTED" => issueStatus'[i] = "POSTED"
            /\ issueStatus[i] # "POSTED" /\ issueStatus'[i] = "POSTED" =>
                 ~closed /\ reqStatus[For[i]] \in Issuable
       /\ \A q \in Requisitions :
            reqStatus[q] \notin {"none", "DRAFT"} => UNCHANGED asked[q])]_vars
=============================================================================
