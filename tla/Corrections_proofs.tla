------------------------- MODULE Corrections_proofs -------------------------
(***************************************************************************)
(* Proofs about corrections for any number of documents, count sessions,   *)
(* reports, balances and requests, and about admission for any number of   *)
(* tenants, administrators and requests.  The two share no variable.       *)
(***************************************************************************)
EXTENDS Corrections, Admission, Sums_proofs

(* Whatever overlaps. *)

\* What each document has taken off a balance that had left it before, and what
\* it adds to one of its totals.
Returning(c) ==
  [d \in Docs |-> IF doc[d].loss.cell = c /\ doc[d].loss.source = "GET_PASS_RETURN" THEN booked[d] ELSE 0]
Written(c, k) ==
  [d \in Docs |-> IF doc[d].loss.cell = c /\ doc[d].loss.kind = k THEN booked[d] ELSE 0]

Balanced ==
  /\ \A c \in Cells : onHand[c] = ledger[c] + TotalOver(Returning(c), Docs)
  /\ \A c \in Cells, k \in DocKinds : totals[c][k] = TotalOver(Written(c, k), Docs)

\* What a request at a step of a document has found out for good: a document
\* that there is, with or without an approval request.
AtDesk(step, j) ==
  /\ step # "idle" => j.doc \in Docs /\ doc[j.doc].status # "none"
  /\ step \in {"sign", "book"} => request[j.doc].exists
  /\ step \in {"submit", "level", "book_level", "post", "book_post"} => ~request[j.doc].exists

AtDesks == \A r \in Clerks : AtDesk(clerk[r], desk[r])

NothingBefore ==
  \A d \in Docs : doc[d].status = "none" => booked[d] = 0 /\ posted[d] = 0 /\ ~request[d].exists

\* Drafts have no approval request, and only they are posted by the general route.
Unsigned ==
  \A d \in Docs :
    /\ doc[d].status = "DRAFT" => ~request[d].exists
    /\ request[d].exists => posted[d] = 0

\* The documents whose booking looks for rows they have already.
Guarded(d) ==
  request[d].exists /\ (doc[d].loss.kind = "BREAKAGE" \/ doc[d].loss.source = "GET_PASS_RETURN")

\* One signer at most is between the look and the rows, and finds none.
Claims ==
  /\ \A d \in Docs : Guarded(d) => booked[d] \in {0, RowQty(doc[d].loss)}
  /\ \A r \in Clerks, d \in Docs : clerk[r] = "book" /\ desk[r].doc = d /\ Guarded(d) => booked[d] = 0
  /\ \A q, r \in Clerks : clerk[q] = "book" /\ clerk[r] = "book" /\ desk[q].doc = desk[r].doc => q = r

LossInv == LossTypeOK /\ AtDesks /\ NothingBefore /\ Unsigned /\ Balanced /\ Claims

SessionSteps == {"open", "count", "submit", "decide", "void", "post", "look", "adjust"}
ReportSteps == {"submit report", "decide report", "post report", "look report", "adjust report"}

AtTable(step, j) ==
  /\ step \in SessionSteps => j.session \in Sessions
  /\ step \in ReportSteps => j.report \in Reports
  /\ step = "count" => j.qty \in Nat \cup {NotCounted}
  /\ step = "idle" => j = IdleSlip

CountInv == CountTypeOK /\ \A t \in Tellers : AtTable(teller[t], slip[t])

Inv == LossInv /\ CountInv

-----------------------------------------------------------------------------
(* While no two requests overlap. *)

\* Where the document of an approval request is, its signatures are.
DocStory(d) ==
  LET x == doc[d].status
      q == request[d]
  IN  /\ booked[d] = IF x = "APPROVED" THEN RowQty(doc[d].loss) ELSE 0
      /\ posted[d] # 0 => x \in {"POSTED", "VOID"} /\ ~q.exists
      /\ posted[d] \in {0, doc[d].loss.qty} /\ (x = "POSTED" => posted[d] = doc[d].loss.qty)
      /\ q.exists /\ x # "VOID" =>
           \/ x = "REJECTED" /\ q.status = "REJECTED" /\ \E i \in StepNos : q.steps[i] = "REJECTED"
           \/ \E k \in StepNos :
                /\ x = ApprovedStatus[k]
                /\ q.status = IF k = 4 THEN "APPROVED" ELSE "PENDING"
                /\ q.current = IF k = 4 THEN 4 ELSE k + 1
                /\ \A i \in StepNos : q.steps[i] = IF i <= k THEN "APPROVED" ELSE "PENDING"

SessionStory(s) ==
  LET x == session[s]
  IN  /\ adjusted[s] = IF x.status = "POSTED" THEN x.counted - x.book ELSE 0
      /\ x.status = "POSTED" => x.verdict = "APPROVED" /\ \A i \in CountSteps : x.steps[i] = "APPROVED"
      /\ x.status = "PENDING_APPROVAL" =>
           /\ x.counted # NotCounted
           /\ \A i \in CountSteps : i <= x.current => x.steps[i] = "APPROVED"
           /\ x.verdict = "APPROVED" <=> x.current = 3

ReportStory(p) ==
  LET x == report[p]
  IN  /\ settled[p] = IF x.status = "POSTED" THEN x.counted - x.book ELSE 0
      /\ x.status = "POSTED" => x.verdict = "APPROVED"

Levels == {"DRAFT", "DEPT_APPROVED", "COST_CONTROL_APPROVED", "FINANCE_APPROVED"}

\* What the request at this step has read still holds.
ClerkHolds(step, j) ==
  LET d == j.doc
  IN  /\ step = "submit" => doc[d].status = "DRAFT"
      /\ step \in {"post", "book_post"} => doc[d].status = "DRAFT" /\ ~closed
      /\ step = "book_post" => onHand[doc[d].loss.cell] >= doc[d].loss.qty
      /\ step = "void" => doc[d].status \notin {"none", "APPROVED", "VOID"}
      /\ step \in {"sign", "book"} => OpenFor(d, j.step) /\ (j.approve /\ j.step = 4 => ~closed)
      /\ step = "book" => j.approve /\ j.step = 4
      /\ step \in {"level", "book_level"} =>
           /\ doc[d].status \in Levels /\ j.step = LevelOf(doc[d].status)
           /\ j.step = 4 => ~closed
      /\ step = "book_level" => j.step = 4
      /\ step \in {"book", "book_level"} => Bookable(d)

TellerHolds(step, j) ==
  LET x == session[j.session]
      y == report[j.report]
  IN  /\ step \in {"count", "submit"} => x.status = "DRAFT"
      /\ step = "submit" => x.counted # NotCounted
      /\ step = "void" => x.status \notin {"none", "POSTED"}
      /\ step \in {"decide", "post", "look", "adjust"} => x.status = "PENDING_APPROVAL"
      /\ step = "decide" => j.request = x.request /\ j.step = x.current + 1
      /\ step \in {"post", "look", "adjust"} => x.verdict = "APPROVED"
      /\ step \in {"look", "adjust"} => j.cell = x.cell /\ j.qty = Variance(x) /\ ~closed
      /\ step = "submit report" => y.status = "DRAFT"
      /\ step \in {"decide report", "post report", "look report", "adjust report"} =>
           y.status = "PENDING_APPROVAL"
      /\ step \in {"post report", "look report", "adjust report"} => y.verdict = "APPROVED"
      /\ step \in {"look report", "adjust report"} => j.cell = y.cell /\ j.qty = y.counted - y.book /\ ~closed
      /\ step \in {"adjust", "adjust report"} => Covers(j.cell, j.qty)

Solo == \A q, r \in Requests : NextStepOf[q] # "idle" /\ NextStepOf[r] # "idle" => q = r

NothingOwed == \A c \in Cells : onHand[c] >= 0
DocsAgree == \A d \in Docs : DocStory(d)
SessionsAgree == \A s \in Sessions : SessionStory(s)
ReportsAgree == \A p \in Reports : ReportStory(p)

SerialInv ==
  /\ Solo /\ NothingOwed /\ DocsAgree /\ SessionsAgree /\ ReportsAgree
  /\ \A r \in Clerks : ClerkHolds(clerk[r], desk[r])
  /\ \A t \in Tellers : TellerHolds(teller[t], slip[t])

FullInv == Inv /\ (overlapped \/ SerialInv)

-----------------------------------------------------------------------------
(* Papers *)

Desk == [doc : Docs \cup {NoDocId}, seen : Doc, step : StepNos, approve : BOOLEAN]

LEMMA LossConstants ==
  /\ AnyLoss \in Loss /\ NoDoc \in Doc /\ NoRequest \in Request /\ NewRequest \in Request
  /\ IdleDesk \in Desk
<1>1. AnyLoss \in Loss
  <2>1. (CHOOSE c \in Cells : TRUE) \in Cells
    BY LossAssumption
  <2>2. QED
    BY <2>1 DEF AnyLoss, Loss, DocKinds, Sources
<1>2. NoDoc \in Doc
  BY <1>1 DEF NoDoc, Doc, DocStatuses
<1>3. NoRequest \in Request /\ NewRequest \in Request
  BY DEF NoRequest, NewRequest, Request, StepNos, Marks
<1>4. IdleDesk \in Desk
  BY <1>2 DEF IdleDesk, Desk, StepNos, NoDocId
<1>5. QED
  BY <1>1, <1>2, <1>3, <1>4

LEMMA LossTypes ==
  ASSUME LossTypeOK
  PROVE  /\ onHand \in [Cells -> Int] /\ ledger \in [Cells -> Int] /\ closed \in BOOLEAN
         /\ doc \in [Docs -> Doc] /\ request \in [Docs -> Request]
         /\ booked \in [Docs -> Int] /\ posted \in [Docs -> Int]
         /\ totals \in [Cells -> [DocKinds -> Int]]
         /\ clerk \in [Clerks -> ClerkSteps] /\ desk \in [Clerks -> Desk]
BY DEF LossTypeOK, Desk

LEMMA DocTypes ==
  ASSUME LossTypeOK, NEW d \in Docs
  PROVE  /\ doc[d] \in Doc /\ doc[d].loss \in Loss /\ doc[d].status \in DocStatuses
         /\ doc[d].loss.qty \in Int /\ doc[d].loss.cell \in Cells /\ doc[d].loss.kind \in DocKinds
         /\ doc[d].loss.source \in Sources /\ request[d] \in Request
         /\ booked[d] \in Int /\ posted[d] \in Int /\ RowQty(doc[d].loss) \in Int
BY DEF LossTypeOK, Doc, Loss, RowQty

-----------------------------------------------------------------------------
(* Sums of what is booked *)

LEMMA SharesAreNumbers ==
  ASSUME booked \in [Docs -> Int]
  PROVE  /\ \A c : \A d \in Docs : Returning(c)[d] \in Int
         /\ \A c, k : \A d \in Docs : Written(c, k)[d] \in Int
BY DEF Returning, Written

\* Nothing is booked and no document that is booked changes.
LEMMA BalancesKept ==
  ASSUME Balanced, UNCHANGED <<onHand, ledger, totals, booked>>,
         \A d \in Docs : doc'[d].loss = doc[d].loss \/ booked[d] = 0
  PROVE  Balanced'
<1>1. ASSUME NEW c PROVE TotalOver(Returning(c)', Docs) = TotalOver(Returning(c), Docs)
  <2>1. \A d \in Docs : Returning(c)'[d] = Returning(c)[d]
    BY DEF Returning
  <2>2. QED
    BY <2>1, TotalSame, LossAssumption
<1>2. ASSUME NEW c, NEW k PROVE TotalOver(Written(c, k)', Docs) = TotalOver(Written(c, k), Docs)
  <2>1. \A d \in Docs : Written(c, k)'[d] = Written(c, k)[d]
    BY DEF Written
  <2>2. QED
    BY <2>1, TotalSame, LossAssumption
<1>3. \A c \in Cells : onHand'[c] = ledger'[c] + TotalOver(Returning(c)', Docs)
  BY <1>1 DEF Balanced
<1>4. \A c \in Cells, k \in DocKinds : totals'[c][k] = TotalOver(Written(c, k)', Docs)
  BY <1>2 DEF Balanced
<1>5. QED
  BY <1>3, <1>4 DEF Balanced

\* Stock and ledger change together.
LEMMA BalancesMoved ==
  ASSUME Balanced, onHand \in [Cells -> Int], ledger \in [Cells -> Int], booked \in [Docs -> Int],
         UNCHANGED <<totals, booked>>, \A d \in Docs : doc'[d].loss = doc[d].loss,
         NEW c \in Cells, NEW n \in Int,
         onHand' = [onHand EXCEPT ![c] = @ + n], ledger' = [ledger EXCEPT ![c] = @ + n]
  PROVE  Balanced'
<1>1. ASSUME NEW x PROVE TotalOver(Returning(x)', Docs) = TotalOver(Returning(x), Docs)
  <2>1. \A d \in Docs : Returning(x)'[d] = Returning(x)[d]
    BY DEF Returning
  <2>2. QED
    BY <2>1, TotalSame, LossAssumption
<1>2. ASSUME NEW x, NEW k PROVE TotalOver(Written(x, k)', Docs) = TotalOver(Written(x, k), Docs)
  <2>1. \A d \in Docs : Written(x, k)'[d] = Written(x, k)[d]
    BY DEF Written
  <2>2. QED
    BY <2>1, TotalSame, LossAssumption
<1>3. \A x \in Cells : TotalOver(Returning(x), Docs) \in Int
  BY TotalInt, SharesAreNumbers, LossAssumption
<1>4. \A x \in Cells : onHand'[x] = ledger'[x] + TotalOver(Returning(x), Docs)
  BY <1>3 DEF Balanced
<1>5. \A x \in Cells : onHand'[x] = ledger'[x] + TotalOver(Returning(x)', Docs)
  BY <1>1, <1>4
<1>6. \A x \in Cells, k \in DocKinds : totals'[x][k] = TotalOver(Written(x, k)', Docs)
  BY <1>2 DEF Balanced
<1>7. QED
  BY <1>5, <1>6 DEF Balanced

\* A loss is booked.
LEMMA BalancesBooked ==
  ASSUME Balanced, LossTypeOK, NEW d \in Docs, Book(d), \A e \in Docs : doc'[e].loss = doc[e].loss
  PROVE  /\ Balanced'
         /\ onHand' \in [Cells -> Int] /\ ledger' \in [Cells -> Int] /\ booked' \in [Docs -> Int]
         /\ totals' \in [Cells -> [DocKinds -> Int]]
         /\ \A e \in Docs : booked'[e] = IF e = d THEN booked[d] + RowQty(doc[d].loss) ELSE booked[e]
<1> DEFINE n == RowQty(doc[d].loss)
           b == doc[d].loss.cell
           h == doc[d].loss.kind
           o == doc[d].loss.source
<1>1. n \in Int /\ b \in Cells /\ h \in DocKinds /\ o \in Sources
  BY DocTypes
<1>2. /\ onHand \in [Cells -> Int] /\ ledger \in [Cells -> Int] /\ booked \in [Docs -> Int]
      /\ totals \in [Cells -> [DocKinds -> Int]]
  BY LossTypes
<1>3. /\ ledger' = [ledger EXCEPT ![b] = @ - n]
      /\ booked' = [booked EXCEPT ![d] = @ + n]
      /\ onHand' = [onHand EXCEPT ![b] = IF o = "INTERNAL" THEN @ - n ELSE @]
      /\ totals' = [totals EXCEPT ![b][h] = @ + n]
  BY DEF Book, WriteRow, TakeOff, Cumulate
<1>4. \A e \in Docs : booked'[e] = IF e = d THEN booked[d] + n ELSE booked[e]
  BY <1>2, <1>3
<1>5. booked' \in [Docs -> Int] /\ onHand' \in [Cells -> Int] /\ ledger' \in [Cells -> Int]
  BY <1>1, <1>2, <1>3
<1>6. /\ totals' \in [Cells -> [DocKinds -> Int]]
      /\ \A x \in Cells, k \in DocKinds :
           totals'[x][k] = IF x = b /\ k = h THEN totals[x][k] + n ELSE totals[x][k]
  BY <1>1, <1>2, <1>3
<1>7. ASSUME NEW x \in Cells
      PROVE  onHand'[x] = ledger'[x] + TotalOver(Returning(x)', Docs)
  <2> DEFINE f == Returning(x)
             g == Returning(x)'
  <2>1. /\ \A e \in Docs : f[e] \in Int /\ g[e] \in Int
        /\ \A e \in Docs : e # d => g[e] = f[e]
    BY <1>2, <1>4, <1>5 DEF Returning
  <2>2. g[d] = IF b = x /\ o = "GET_PASS_RETURN" THEN f[d] + n ELSE f[d]
    BY <1>4 DEF Returning
  <2>3. /\ onHand'[x] = IF b = x /\ o = "INTERNAL" THEN onHand[x] - n ELSE onHand[x]
        /\ ledger'[x] = IF b = x THEN ledger[x] - n ELSE ledger[x]
    BY <1>1, <1>2, <1>3
  <2>4. o = "INTERNAL" \/ o = "GET_PASS_RETURN"
    BY <1>1 DEF Sources
  <2>5. onHand[x] = ledger[x] + TotalOver(f, Docs)
    BY DEF Balanced
  <2> HIDE DEF f, g, n, o, b
  <2>6. TotalOver(g, Docs) = TotalOver(f, Docs) + g[d] - f[d] /\ TotalOver(f, Docs) \in Int
    BY <2>1, TotalChanged, TotalInt, LossAssumption
  <2>7. onHand[x] \in Int /\ ledger[x] \in Int /\ n \in Int /\ f[d] \in Int
    BY <1>1, <1>2, <2>1
  <2>8. onHand'[x] = ledger'[x] + TotalOver(g, Docs)
    BY <2>2, <2>3, <2>4, <2>5, <2>6, <2>7
  <2>9. QED
    BY <2>8 DEF g
<1>8. ASSUME NEW x \in Cells, NEW k \in DocKinds
      PROVE  totals'[x][k] = TotalOver(Written(x, k)', Docs)
  <2> DEFINE f == Written(x, k)
             g == Written(x, k)'
  <2>1. /\ \A e \in Docs : f[e] \in Int /\ g[e] \in Int
        /\ \A e \in Docs : e # d => g[e] = f[e]
    BY <1>2, <1>4, <1>5 DEF Written
  <2>2. g[d] = IF b = x /\ h = k THEN f[d] + n ELSE f[d]
    BY <1>4 DEF Written
  <2>5. totals[x][k] = TotalOver(f, Docs)
    BY DEF Balanced
  <2> HIDE DEF f, g, n, b, h
  <2>6. TotalOver(g, Docs) = TotalOver(f, Docs) + g[d] - f[d] /\ TotalOver(f, Docs) \in Int
    BY <2>1, TotalChanged, TotalInt, LossAssumption
  <2>7. n \in Int /\ f[d] \in Int
    BY <1>1, <2>1
  <2>8. totals'[x][k] = TotalOver(g, Docs)
    BY <1>6, <2>2, <2>5, <2>6, <2>7
  <2>9. QED
    BY <2>8 DEF g
<1>9. Balanced'
  BY <1>7, <1>8 DEF Balanced
<1>10. QED
  BY <1>4, <1>5, <1>6, <1>9

-----------------------------------------------------------------------------
(* Documents, signatures and desks, whatever overlaps *)

\* What a request needs to know to go on, or to come to, this step.
MayBook(step, j) ==
  step = "book" => RowsFree(j.doc) /\ (Guarded(j.doc) => booked[j.doc] = 0)

\* Papers change, but for what a document is about and whether it has a request;
\* nothing is booked; one request goes on.
LEMMA PapersKeep ==
  ASSUME LossInv, closed' \in BOOLEAN, UNCHANGED <<onHand, ledger, booked, posted, totals>>,
         doc' \in [Docs -> Doc], request' \in [Docs -> Request],
         \A d \in Docs : /\ doc'[d].loss = doc[d].loss
                         /\ (doc'[d].status = "none") <=> (doc[d].status = "none")
                         /\ request'[d].exists = request[d].exists
                         /\ doc'[d].status = "DRAFT" => ~request[d].exists,
         NEW r \in Clerks, NEW step \in ClerkSteps, NEW j \in Desk, AtDesk(step, j), MayBook(step, j),
         clerk' = [clerk EXCEPT ![r] = step], desk' = [desk EXCEPT ![r] = j]
  PROVE  LossInv'
<1>1. LossTypeOK
  BY DEF LossInv
<1>2. clerk' \in [Clerks -> ClerkSteps] /\ desk' \in [Clerks -> Desk]
  BY <1>1, LossTypes
<1>3. LossTypeOK'
  BY <1>1, <1>2, LossTypes DEF LossTypeOK, Desk
<1>4. \A q \in Clerks : /\ clerk'[q] = IF q = r THEN step ELSE clerk[q]
                        /\ desk'[q] = IF q = r THEN j ELSE desk[q]
  BY <1>1, LossTypes
<1>5. AtDesks'
  <2>1. \A s, k : AtDesk(s, k) => AtDesk(s, k)'
    BY DEF AtDesk
  <2>2. \A q \in Clerks : AtDesk(clerk'[q], desk'[q])
    BY <1>4 DEF LossInv, AtDesks
  <2>3. QED
    BY <2>1, <2>2 DEF AtDesks
<1>6. NothingBefore' /\ Unsigned'
  BY DEF LossInv, NothingBefore, Unsigned
<1>7. Balanced'
  BY BalancesKept DEF LossInv
<1>8. \A d \in Docs : Guarded(d)' = Guarded(d)
  BY DEF Guarded
<1>10. \A d \in Docs : Guarded(d)' => booked'[d] \in {0, RowQty(doc'[d].loss)}
  BY <1>8 DEF LossInv, Claims
<1>11. \A q \in Clerks, d \in Docs :
         clerk'[q] = "book" /\ desk'[q].doc = d /\ Guarded(d)' => booked'[d] = 0
  BY <1>4, <1>8 DEF LossInv, Claims, MayBook
<1>12. ASSUME NEW p \in Clerks, NEW q \in Clerks, clerk'[p] = "book", clerk'[q] = "book",
              desk'[p].doc = desk'[q].doc, p # q
       PROVE  FALSE
  <2>1. CASE p # r /\ q # r
    BY <1>4, <1>12, <2>1 DEF LossInv, Claims
  <2>2. CASE p = r
    BY <1>4, <1>12, <2>2 DEF MayBook, RowsFree
  <2>3. CASE q = r
    BY <1>4, <1>12, <2>3 DEF MayBook, RowsFree
  <2>4. QED
    BY <2>1, <2>2, <2>3
<1>13. Claims'
  BY <1>10, <1>11, <1>12 DEF Claims
<1>14. QED
  BY <1>3, <1>5, <1>6, <1>7, <1>13 DEF LossInv

\* A document is created.
LEMMA NewPaperKeeps ==
  ASSUME LossInv, NEW d \in Docs, doc[d].status = "none", NEW f \in Loss,
         NEW x \in DocStatuses \ {"none"}, doc' = [doc EXCEPT ![d] = [loss |-> f, status |-> x]],
         request' \in [Docs -> Request], \A e \in Docs : e # d => request'[e] = request[e],
         x = "DRAFT" => ~request'[d].exists,
         UNCHANGED <<onHand, ledger, closed, booked, posted, totals, clerk, desk>>
  PROVE  LossInv'
<1>1. LossTypeOK
  BY DEF LossInv
<1>2. [loss |-> f, status |-> x] \in Doc
  BY DEF Doc
<1>3. doc' \in [Docs -> Doc]
  BY <1>1, <1>2, LossTypes
<1>4. \A e \in Docs : doc'[e] = IF e = d THEN [loss |-> f, status |-> x] ELSE doc[e]
  BY <1>1, LossTypes
<1>5. LossTypeOK'
  BY <1>1, <1>3 DEF LossTypeOK
<1>6. booked[d] = 0 /\ \A q \in Clerks : clerk[q] # "idle" => desk[q].doc # d /\ desk[q].doc \in Docs
  BY DEF LossInv, NothingBefore, AtDesks, AtDesk
<1>7. AtDesks'
  <2>1. ASSUME NEW q \in Clerks PROVE AtDesk(clerk[q], desk[q])'
    <3>1. AtDesk(clerk[q], desk[q])
      BY DEF LossInv, AtDesks
    <3>2. clerk'[q] = clerk[q] /\ desk'[q] = desk[q]
      OBVIOUS
    <3>3. CASE clerk[q] = "idle"
      BY <3>2, <3>3 DEF AtDesk
    <3>4. CASE clerk[q] # "idle"
      <4>1. desk[q].doc # d /\ desk[q].doc \in Docs
        BY <1>6, <3>4
      <4>2. doc'[desk[q].doc] = doc[desk[q].doc] /\ request'[desk[q].doc] = request[desk[q].doc]
        BY <1>4, <4>1
      <4>3. QED
        BY <3>1, <3>2, <4>2 DEF AtDesk
    <3>5. QED
      BY <3>3, <3>4
  <2>2. QED
    BY <2>1 DEF AtDesks
<1>8. NothingBefore' /\ Unsigned'
  BY <1>4 DEF LossInv, NothingBefore, Unsigned
<1>9. Balanced'
  <2>1. \A e \in Docs : doc'[e].loss = doc[e].loss \/ booked[e] = 0
    BY <1>4, <1>6
  <2>2. QED
    BY <2>1, BalancesKept DEF LossInv
<1>10. \A e \in Docs : e # d => Guarded(e)' = Guarded(e)
  BY <1>4 DEF Guarded
<1>11. Claims'
  <2>1. \A e \in Docs : Guarded(e)' => booked'[e] \in {0, RowQty(doc'[e].loss)}
    BY <1>4, <1>6, <1>10 DEF LossInv, Claims
  <2>2. \A q \in Clerks, e \in Docs :
          clerk'[q] = "book" /\ desk'[q].doc = e /\ Guarded(e)' => booked'[e] = 0
    BY <1>6, <1>10 DEF LossInv, Claims
  <2>3. \A p, q \in Clerks :
          clerk'[p] = "book" /\ clerk'[q] = "book" /\ desk'[p].doc = desk'[q].doc => p = q
    BY DEF LossInv, Claims
  <2>4. QED
    BY <2>1, <2>2, <2>3 DEF Claims
<1>12. QED
  BY <1>5, <1>7, <1>8, <1>9, <1>11 DEF LossInv

LEMMA ZeroPlus == \A n \in Int : 0 + n = n
OBVIOUS

\* A loss is booked, and the request over.
LEMMA BookedKeeps ==
  ASSUME LossInv, NEW r \in Clerks, clerk[r] \in {"book", "book_level"}, Book(desk[r].doc), PutDown(r),
         doc' \in [Docs -> Doc], request' \in [Docs -> Request],
         \A d \in Docs : /\ doc'[d].loss = doc[d].loss
                         /\ (doc'[d].status = "none") <=> (doc[d].status = "none")
                         /\ request'[d].exists = request[d].exists
                         /\ doc'[d].status = "DRAFT" => ~request[d].exists
  PROVE  LossInv'
<1> DEFINE d == desk[r].doc
<1>1. LossTypeOK
  BY DEF LossInv
<1>2. d \in Docs /\ doc[d].status # "none"
  BY DEF LossInv, AtDesks, AtDesk
<1>3. closed' = closed /\ clerk' = [clerk EXCEPT ![r] = "idle"] /\ desk' = [desk EXCEPT ![r] = IdleDesk]
      /\ posted' = posted
  BY DEF PutDown, Book
<1>4. clerk' \in [Clerks -> ClerkSteps] /\ desk' \in [Clerks -> Desk]
  BY <1>1, <1>3, LossTypes, LossConstants DEF ClerkSteps
<1>5. /\ Balanced'
      /\ onHand' \in [Cells -> Int] /\ ledger' \in [Cells -> Int] /\ booked' \in [Docs -> Int]
      /\ totals' \in [Cells -> [DocKinds -> Int]]
      /\ \A e \in Docs : booked'[e] = IF e = d THEN booked[d] + RowQty(doc[d].loss) ELSE booked[e]
  BY <1>1, <1>2, BalancesBooked DEF LossInv
<1>6. LossTypeOK'
  BY <1>1, <1>3, <1>4, <1>5, LossTypes DEF LossTypeOK, Desk
<1>7. \A q \in Clerks : /\ clerk'[q] = IF q = r THEN "idle" ELSE clerk[q]
                        /\ q # r => desk'[q] = desk[q]
  BY <1>1, <1>3, LossTypes
<1>8. AtDesks'
  <2>1. ASSUME NEW q \in Clerks PROVE AtDesk(clerk[q], desk[q])'
    <3>1. AtDesk(clerk[q], desk[q])
      BY DEF LossInv, AtDesks
    <3>2. CASE q = r
      BY <1>7, <3>2 DEF AtDesk
    <3>3. CASE q # r
      BY <1>7, <3>1, <3>3 DEF AtDesk
    <3>4. QED
      BY <3>2, <3>3
  <2>2. QED
    BY <2>1 DEF AtDesks
<1>9. NothingBefore' /\ Unsigned'
  BY <1>2, <1>3, <1>5 DEF LossInv, NothingBefore, Unsigned
<1>10. \A e \in Docs : Guarded(e)' = Guarded(e)
  BY DEF Guarded
<1>11. \A q \in Clerks : clerk'[q] = "book" => q # r /\ desk'[q] = desk[q] /\ clerk[q] = "book" /\ desk[q].doc \in Docs
  BY <1>7 DEF LossInv, AtDesks, AtDesk
<1>12. Guarded(d) => clerk[r] = "book" /\ booked[d] = 0
  BY <1>2 DEF LossInv, AtDesks, AtDesk, Guarded, Claims
<1>13. ASSUME NEW e \in Docs, Guarded(e)' PROVE booked'[e] \in {0, RowQty(doc'[e].loss)}
  <2>1. Guarded(e) /\ doc'[e].loss = doc[e].loss /\ RowQty(doc[d].loss) \in Int
    BY <1>1, <1>2, <1>10, <1>13, DocTypes
  <2>2. CASE e = d
    <3>1. booked[d] = 0
      BY <1>12, <2>1, <2>2
    <3>2. booked'[e] = 0 + RowQty(doc[d].loss)
      BY <1>5, <2>2, <3>1
    <3>3. doc'[e].loss = doc[d].loss
      BY <2>1, <2>2
    <3>4. RowQty(doc[d].loss) \in Int
      BY <1>1, <1>2, DocTypes
    <3>5. QED
      BY <3>2, <3>3, <3>4, ZeroPlus
  <2>3. CASE e # d
    BY <1>5, <2>1, <2>3 DEF LossInv, Claims
  <2>4. QED
    BY <2>2, <2>3
<1>14. ASSUME NEW q \in Clerks, NEW e \in Docs, clerk'[q] = "book", desk'[q].doc = e, Guarded(e)'
       PROVE  booked'[e] = 0
  <2>1. q # r /\ desk[q].doc = e /\ clerk[q] = "book" /\ Guarded(e)
    BY <1>10, <1>11, <1>14
  <2>2. booked[e] = 0
    BY <2>1 DEF LossInv, Claims
  <2>3. e # d
    BY <1>12, <2>1 DEF LossInv, Claims
  <2>4. QED
    BY <1>5, <2>2, <2>3
<1>15. ASSUME NEW p \in Clerks, NEW q \in Clerks, clerk'[p] = "book", clerk'[q] = "book",
              desk'[p].doc = desk'[q].doc
       PROVE  p = q
  <2>1. /\ clerk[p] = "book" /\ desk'[p] = desk[p]
        /\ clerk[q] = "book" /\ desk'[q] = desk[q]
    BY <1>11, <1>15
  <2>2. QED
    BY <1>15, <2>1 DEF LossInv, Claims
<1>16. Claims'
  BY <1>13, <1>14, <1>15 DEF Claims
<1>17. QED
  BY <1>5, <1>6, <1>8, <1>9, <1>16 DEF LossInv

\* Stock comes and goes elsewhere; the month is closed or opened.
LEMMA StockMovedKeeps ==
  ASSUME LossInv, closed' \in BOOLEAN, UNCHANGED lossVars,
         \/ UNCHANGED <<onHand, ledger>>
         \/ \E c \in Cells, n \in Int :
              onHand' = [onHand EXCEPT ![c] = @ + n] /\ ledger' = [ledger EXCEPT ![c] = @ + n]
  PROVE  LossInv'
<1>1. UNCHANGED <<doc, request, booked, posted, totals, clerk, desk>>
  BY DEF lossVars, books
<1>2. onHand \in [Cells -> Int] /\ ledger \in [Cells -> Int] /\ booked \in [Docs -> Int]
  BY LossTypes DEF LossInv
<1>3. /\ Balanced'
      /\ onHand' \in [Cells -> Int] /\ ledger' \in [Cells -> Int]
  <2>1. CASE UNCHANGED <<onHand, ledger>>
    BY <1>1, <1>2, <2>1, BalancesKept DEF LossInv
  <2>2. ASSUME NEW c \in Cells, NEW n \in Int,
               onHand' = [onHand EXCEPT ![c] = @ + n], ledger' = [ledger EXCEPT ![c] = @ + n]
        PROVE  /\ Balanced'
               /\ onHand' \in [Cells -> Int] /\ ledger' \in [Cells -> Int]
    <3>1. UNCHANGED <<totals, booked>> /\ (\A d \in Docs : doc'[d].loss = doc[d].loss) /\ Balanced
      BY <1>1 DEF LossInv
    <3>2. Balanced'
      BY <1>2, <2>2, <3>1, BalancesMoved
    <3>3. QED
      BY <1>2, <2>2, <3>2
  <2>3. QED
    BY <2>1, <2>2
<1>4. LossTypeOK'
  BY <1>1, <1>3 DEF LossInv, LossTypeOK
<1>5. AtDesks' /\ NothingBefore' /\ Unsigned' /\ Claims'
  BY <1>1 DEF LossInv, AtDesks, AtDesk, NothingBefore, Unsigned, Claims, Guarded
<1>6. QED
  BY <1>3, <1>4, <1>5 DEF LossInv

-----------------------------------------------------------------------------
(* The steps of loss documents *)

LEMMA StatusWritten ==
  ASSUME LossTypeOK, NEW d \in Docs, doc[d].status # "none", NEW x \in DocStatuses \ {"none"},
         doc' = [doc EXCEPT ![d].status = x]
  PROVE  /\ doc' \in [Docs -> Doc]
         /\ \A e \in Docs : /\ doc'[e].loss = doc[e].loss
                            /\ doc'[e].status = IF e = d THEN x ELSE doc[e].status
                            /\ (doc'[e].status = "none") <=> (doc[e].status = "none")
<1>1. doc \in [Docs -> Doc]
  BY LossTypes
<1>2. [doc[d] EXCEPT !.status = x] \in Doc
  BY <1>1 DEF Doc
<1>3. QED
  BY <1>1, <1>2 DEF Doc

LEMMA RequestSigned ==
  ASSUME LossTypeOK, NEW d \in Docs, NEW i \in StepNos, NEW y \in Marks, NEW s \in Marks, NEW n \in StepNos,
         request' = [request EXCEPT ![d] = [@ EXCEPT !.steps[i] = y, !.status = s, !.current = n]]
  PROVE  /\ request' \in [Docs -> Request]
         /\ \A e \in Docs : request'[e].exists = request[e].exists
<1>1. request \in [Docs -> Request]
  BY LossTypes
<1>2. [request[d].steps EXCEPT ![i] = y] \in [StepNos -> Marks]
  BY <1>1 DEF Request
<1>3. [request[d] EXCEPT !.steps[i] = y, !.status = s, !.current = n] \in Request
  BY <1>1, <1>2 DEF Request
<1>4. [request[d] EXCEPT !.steps[i] = y, !.status = s, !.current = n].exists = request[d].exists
  BY <1>1 DEF Request
<1>5. QED
  BY <1>1, <1>3, <1>4

\* A request takes up a document.
LEMMA TakeUpKeeps ==
  ASSUME LossInv, NEW r \in Clerks, NEW step \in {"submit", "sign", "void", "level", "post"}, NEW j \in Desk,
         AtDesk(step, j), TakeUp(r, step, j)
  PROVE  LossInv'
<1>1. /\ clerk' = [clerk EXCEPT ![r] = step] /\ desk' = [desk EXCEPT ![r] = j]
      /\ UNCHANGED <<onHand, ledger, closed, doc, request, booked, posted, totals>>
  BY DEF TakeUp, stockRows, books
<1>2. LossTypeOK
  BY DEF LossInv
<1>3. closed' \in BOOLEAN /\ doc' \in [Docs -> Doc] /\ request' \in [Docs -> Request]
  BY <1>1, <1>2, LossTypes
<1>4. step \in ClerkSteps /\ MayBook(step, j)
  BY DEF ClerkSteps, MayBook
<1>5. \A d \in Docs : /\ doc'[d].loss = doc[d].loss
                      /\ (doc'[d].status = "none") <=> (doc[d].status = "none")
                      /\ request'[d].exists = request[d].exists
                      /\ doc'[d].status = "DRAFT" => ~request[d].exists
  BY <1>1 DEF LossInv, Unsigned
<1>6. QED
  BY <1>1, <1>3, <1>4, <1>5, PapersKeep

\* A request puts down its papers, changed or not, without having booked.
LEMMA PutDownKeeps ==
  ASSUME LossInv, NEW r \in Clerks, PutDown(r), UNCHANGED <<onHand, ledger, booked, posted, totals>>,
         doc' \in [Docs -> Doc], request' \in [Docs -> Request],
         \A d \in Docs : /\ doc'[d].loss = doc[d].loss
                         /\ (doc'[d].status = "none") <=> (doc[d].status = "none")
                         /\ request'[d].exists = request[d].exists
                         /\ doc'[d].status = "DRAFT" => ~request[d].exists
  PROVE  LossInv'
<1>1. clerk' = [clerk EXCEPT ![r] = "idle"] /\ desk' = [desk EXCEPT ![r] = IdleDesk] /\ closed' = closed
  BY DEF PutDown
<1>2. "idle" \in ClerkSteps /\ IdleDesk \in Desk /\ AtDesk("idle", IdleDesk) /\ MayBook("idle", IdleDesk)
  BY LossConstants DEF ClerkSteps, AtDesk, MayBook
<1>3. closed' \in BOOLEAN
  BY <1>1, LossTypes DEF LossInv
<1>4. QED
  BY <1>1, <1>2, <1>3, PapersKeep

\* The status of one document is written, and the request ends.
LEMMA StatusPutDown ==
  ASSUME LossInv, NEW r \in Clerks, PutDown(r), UNCHANGED <<onHand, ledger, booked, posted, totals>>,
         NEW d \in Docs, doc[d].status # "none", NEW x \in DocStatuses \ {"none"},
         x = "DRAFT" => ~request[d].exists, doc' = [doc EXCEPT ![d].status = x],
         request' \in [Docs -> Request], \A e \in Docs : request'[e].exists = request[e].exists
  PROVE  LossInv'
<1>1. LossTypeOK /\ \A e \in Docs : doc[e].status = "DRAFT" => ~request[e].exists
  BY DEF LossInv, Unsigned
<1>2. /\ doc' \in [Docs -> Doc]
      /\ \A e \in Docs : /\ doc'[e].loss = doc[e].loss
                         /\ doc'[e].status = IF e = d THEN x ELSE doc[e].status
                         /\ (doc'[e].status = "none") <=> (doc[e].status = "none")
  BY <1>1, StatusWritten
<1>3. \A e \in Docs : doc'[e].status = "DRAFT" => ~request[e].exists
  BY <1>1, <1>2
<1>4. QED
  BY <1>2, <1>3, PutDownKeeps

LEMMA CreateKeeps ==
  ASSUME LossInv, NEW d \in Docs, NEW f \in Losses, Create(d, f)
  PROVE  LossInv'
<1>1. /\ doc[d].status = "none" /\ doc' = [doc EXCEPT ![d] = [loss |-> f, status |-> "DEPT_APPROVED"]]
      /\ request' = [request EXCEPT ![d] = NewRequest]
      /\ UNCHANGED <<onHand, ledger, closed, booked, posted, totals, clerk, desk>>
  BY DEF Create, stockRows, books
<1>2. request \in [Docs -> Request]
  BY LossTypes DEF LossInv
<1>3. request' \in [Docs -> Request] /\ \A e \in Docs : e # d => request'[e] = request[e]
  BY <1>1, <1>2, LossConstants
<1>4. f \in Loss /\ "DEPT_APPROVED" \in DocStatuses \ {"none"}
  BY LossAssumption DEF DocStatuses
<1>5. QED
  BY <1>1, <1>3, <1>4, NewPaperKeeps

LEMMA CreatePlainKeeps ==
  ASSUME LossInv, NEW r \in Clerks, NEW d \in Docs, NEW f \in Losses, CreatePlain(r, d, f)
  PROVE  LossInv'
<1>1. /\ doc[d].status = "none" /\ doc' = [doc EXCEPT ![d] = [loss |-> f, status |-> "DRAFT"]]
      /\ UNCHANGED <<onHand, ledger, closed, request, booked, posted, totals, clerk, desk>>
  BY DEF CreatePlain, stockRows, books
<1>2. /\ request' \in [Docs -> Request] /\ \A e \in Docs : e # d => request'[e] = request[e]
      /\ ~request'[d].exists
  BY <1>1, LossTypes DEF LossInv, NothingBefore
<1>3. f \in Loss /\ "DRAFT" \in DocStatuses \ {"none"}
  BY LossAssumption DEF DocStatuses
<1>4. QED
  BY <1>1, <1>2, <1>3, NewPaperKeeps

\* What is begun about a document.
BeginsLoss(r, d) ==
  \/ BeginSubmitLoss(r, d) \/ BeginVoidLoss(r, d) \/ BeginPostPlain(r, d)
  \/ \E role \in Signers :
       \/ BeginLevelBreakage(r, d, role) \/ BeginLevelLost(r, d, role)
       \/ \E approve \in BOOLEAN :
            BeginSignBreakage(r, d, role, approve) \/ BeginSignLost(r, d, role, approve)

\* What it begins with.
LEMMA BeginsLossHow ==
  ASSUME LossInv, NEW r \in Clerks, NEW d \in Docs, BeginsLoss(r, d)
  PROVE  \E step \in {"submit", "sign", "void", "level", "post"}, j \in Desk :
           TakeUp(r, step, j) /\ AtDesk(step, j) /\ ClerkHolds(step, j)
<1>0. doc[d] \in Doc /\ IdleDesk \in Desk
  BY DocTypes, LossConstants DEF LossInv
<1>1. CASE BeginSubmitLoss(r, d)
  <2> DEFINE j == [IdleDesk EXCEPT !.doc = d]
  <2>1. j \in Desk /\ j.doc = d
    BY <1>0 DEF Desk
  <2>2. TakeUp(r, "submit", j) /\ doc[d].status = "DRAFT"
    BY <1>1 DEF BeginSubmitLoss
  <2> HIDE DEF j
  <2>3. AtDesk("submit", j) /\ ClerkHolds("submit", j)
    BY <2>1, <2>2 DEF AtDesk, ClerkHolds, LossInv, Unsigned
  <2>4. QED
    BY <2>1, <2>2, <2>3
<1>2. CASE BeginVoidLoss(r, d)
  <2> DEFINE j == [IdleDesk EXCEPT !.doc = d]
  <2>1. j \in Desk /\ j.doc = d
    BY <1>0 DEF Desk
  <2>2. TakeUp(r, "void", j) /\ doc[d].status \notin {"none", "APPROVED", "VOID"}
    BY <1>2 DEF BeginVoidLoss
  <2> HIDE DEF j
  <2>3. AtDesk("void", j) /\ ClerkHolds("void", j)
    BY <2>1, <2>2 DEF AtDesk, ClerkHolds
  <2>4. QED
    BY <2>1, <2>2, <2>3
<1>6. CASE BeginPostPlain(r, d)
  <2> DEFINE j == [IdleDesk EXCEPT !.doc = d]
  <2>1. j \in Desk /\ j.doc = d
    BY <1>0 DEF Desk
  <2>2. TakeUp(r, "post", j) /\ doc[d].status = "DRAFT" /\ ~closed
    BY <1>6 DEF BeginPostPlain
  <2> HIDE DEF j
  <2>3. AtDesk("post", j) /\ ClerkHolds("post", j)
    BY <2>1, <2>2 DEF AtDesk, ClerkHolds, LossInv, Unsigned
  <2>4. QED
    BY <2>1, <2>2, <2>3
<1>3. ASSUME NEW role \in Signers, Level(r, d, role)
      PROVE  \E step \in {"submit", "sign", "void", "level", "post"}, j \in Desk :
               TakeUp(r, step, j) /\ AtDesk(step, j) /\ ClerkHolds(step, j)
  <2> DEFINE i == LevelOf(doc[d].status)
             j == [doc |-> d, seen |-> doc[d], step |-> i, approve |-> TRUE]
  <2>1. /\ doc[d].status \in Levels /\ ~request[d].exists
        /\ i = 4 => ~closed
        /\ TakeUp(r, "level", j)
    BY <1>3 DEF Level, Levels
  <2>2. i \in StepNos
    <3>1. CASE doc[d].status = "DRAFT"
      BY <3>1 DEF LevelOf, StepNos
    <3>2. CASE doc[d].status # "DRAFT"
      <4>1. \E k \in 2 .. 4 : ApprovedStatus[k - 1] = doc[d].status
        <5>1. ApprovedStatus[1] = "DEPT_APPROVED" /\ ApprovedStatus[2] = "COST_CONTROL_APPROVED"
              /\ ApprovedStatus[3] = "FINANCE_APPROVED"
          BY DEF ApprovedStatus
        <5>2. ApprovedStatus[2 - 1] = "DEPT_APPROVED" /\ ApprovedStatus[3 - 1] = "COST_CONTROL_APPROVED"
              /\ ApprovedStatus[4 - 1] = "FINANCE_APPROVED"
          BY <5>1
        <5>3. 2 \in 2 .. 4 /\ 3 \in 2 .. 4 /\ 4 \in 2 .. 4
          OBVIOUS
        <5>4. QED
          BY <2>1, <3>2, <5>2, <5>3 DEF Levels
      <4>2. i = CHOOSE k \in 2 .. 4 : ApprovedStatus[k - 1] = doc[d].status
        BY <3>2 DEF LevelOf
      <4>3. i \in 2 .. 4
        BY <4>1, <4>2
      <4>4. QED
        BY <4>3 DEF StepNos
    <3>3. QED
      BY <3>1, <3>2
  <2>3. /\ j \in Desk /\ j.doc = d /\ j.step = i
    BY <1>0, <2>2 DEF Desk
  <2> HIDE DEF j
  <2>4. AtDesk("level", j) /\ ClerkHolds("level", j)
    BY <2>1, <2>3 DEF AtDesk, ClerkHolds, Levels
  <2>5. QED
    BY <2>1, <2>3, <2>4
<1>4. ASSUME NEW role \in Signers, NEW approve \in BOOLEAN, Sign(r, d, role, approve)
      PROVE  \E step \in {"submit", "sign", "void", "level", "post"}, j \in Desk :
               TakeUp(r, step, j) /\ AtDesk(step, j) /\ ClerkHolds(step, j)
  <2>1. PICK i \in StepNos :
          /\ OpenFor(d, i) /\ (approve /\ i = 4 => ~closed)
          /\ TakeUp(r, "sign", [doc |-> d, seen |-> doc[d], step |-> i, approve |-> approve])
    BY <1>4 DEF Sign
  <2> DEFINE j == [doc |-> d, seen |-> doc[d], step |-> i, approve |-> approve]
  <2>2. j \in Desk /\ j.doc = d /\ j.step = i /\ j.approve = approve
    BY <1>0 DEF Desk
  <2>3. TakeUp(r, "sign", j)
    BY <2>1
  <2> HIDE DEF j
  <2>4. request[d].exists /\ doc[d].status # "none"
    BY <2>1 DEF OpenFor, LossInv, NothingBefore
  <2>5. AtDesk("sign", j)
    BY <2>2, <2>4 DEF AtDesk
  <2>6. OpenFor(j.doc, j.step) /\ (j.approve /\ j.step = 4 => ~closed)
    BY <2>1, <2>2
  <2>7. ClerkHolds("sign", j)
    BY <2>6 DEF ClerkHolds
  <2>8. QED
    BY <2>2, <2>3, <2>5, <2>7
<1>7. QED
  BY <1>1, <1>2, <1>3, <1>4, <1>6
     DEF BeginsLoss, BeginLevelBreakage, BeginLevelLost, BeginSignBreakage, BeginSignLost

\* What is at the desk of a request that is at a document with a request.
LEMMA SignerAtDesk ==
  ASSUME LossInv, NEW r \in Clerks, clerk[r] # "idle"
  PROVE  /\ desk[r] \in Desk /\ desk[r].doc \in Docs /\ desk[r].step \in StepNos
         /\ doc[desk[r].doc].status # "none"
         /\ clerk[r] \in {"sign", "book"} => request[desk[r].doc].exists
         /\ clerk[r] \in {"submit", "level", "book_level", "post", "book_post"} => ~request[desk[r].doc].exists
<1>1. desk[r] \in Desk
  BY LossTypes DEF LossInv
<1>2. AtDesk(clerk[r], desk[r])
  BY DEF LossInv, AtDesks
<1>3. QED
  BY <1>1, <1>2 DEF AtDesk, Desk

LEMMA StatusOfStep ==
  ASSUME NEW i \in StepNos
  PROVE  ApprovedStatus[i] \in DocStatuses \ {"none", "DRAFT"}
<1>1. i = 1 \/ i = 2 \/ i = 3 \/ i = 4
  BY DEF StepNos
<1>2. QED
  BY <1>1 DEF ApprovedStatus, DocStatuses

\* A signer, or who goes by level, has looked for the rows of the document.
LEMMA LookedKeeps ==
  ASSUME LossInv, NEW r \in Clerks, NEW step \in {"book", "book_level", "book_post"},
         clerk[r] = IF step = "book" THEN "sign" ELSE IF step = "book_level" THEN "level" ELSE "post",
         step = "book" => RowsFree(desk[r].doc) /\ Bookable(desk[r].doc),
         clerk' = [clerk EXCEPT ![r] = step],
         UNCHANGED <<onHand, ledger, closed, doc, request, booked, posted, totals, desk>>
  PROVE  LossInv'
<1> DEFINE j == desk[r]
<1>1. clerk[r] # "idle"
  OBVIOUS
<1>2. /\ j \in Desk /\ j.doc \in Docs /\ doc[j.doc].status # "none"
      /\ step = "book" => request[j.doc].exists
      /\ step \in {"book_level", "book_post"} => ~request[j.doc].exists
  BY <1>1, SignerAtDesk
<1>3. desk \in [Clerks -> Desk]
  BY LossTypes DEF LossInv
<1>4. desk' = [desk EXCEPT ![r] = j]
  BY <1>3
<1>5. AtDesk(step, j)
  BY <1>2 DEF AtDesk
<1>6. MayBook(step, j)
  <2>1. ASSUME step = "book", Guarded(j.doc) PROVE booked[j.doc] = 0
    <3>1. doc[j.doc].loss.kind = "BREAKAGE" \/ doc[j.doc].loss.source = "GET_PASS_RETURN"
      BY <2>1 DEF Guarded
    <3>2. QED
      BY <2>1, <3>1 DEF Bookable, BookableBreakage, BookableLost, HasRows
  <2>2. QED
    BY <2>1 DEF MayBook
<1>7. step \in ClerkSteps
  BY DEF ClerkSteps
<1>8. closed' \in BOOLEAN /\ doc' \in [Docs -> Doc] /\ request' \in [Docs -> Request]
  BY LossTypes DEF LossInv
<1>9. \A d \in Docs : /\ doc'[d].loss = doc[d].loss
                      /\ (doc'[d].status = "none") <=> (doc[d].status = "none")
                      /\ request'[d].exists = request[d].exists
                      /\ doc'[d].status = "DRAFT" => ~request[d].exists
  BY DEF LossInv, Unsigned
<1> HIDE DEF j
<1>10. QED
  BY <1>2, <1>4, <1>5, <1>6, <1>7, <1>8, <1>9, PapersKeep

\* The general route posts a draft.
LEMMA PostedKeeps ==
  ASSUME LossInv, NEW r \in Clerks, FinishPostPlain(r)
  PROVE  LossInv'
<1> DEFINE d == desk[r].doc
           n == doc[d].loss.qty
           c == doc[d].loss.cell
<1>1. /\ clerk[r] = "book_post" /\ PutDown(r) /\ UNCHANGED <<request, booked, totals>>
      /\ ledger' = [ledger EXCEPT ![c] = @ - n] /\ onHand' = [onHand EXCEPT ![c] = @ - n]
      /\ posted' = [posted EXCEPT ![d] = @ + n] /\ doc' = [doc EXCEPT ![d].status = "POSTED"]
  BY DEF FinishPostPlain
<1>2. d \in Docs /\ doc[d].status # "none" /\ ~request[d].exists /\ LossTypeOK
  BY <1>1, SignerAtDesk DEF LossInv
<1>3. n \in Int /\ c \in Cells
  BY <1>2, DocTypes
<1>4. closed' = closed /\ clerk' = [clerk EXCEPT ![r] = "idle"] /\ desk' = [desk EXCEPT ![r] = IdleDesk]
  BY <1>1 DEF PutDown
<1>5. /\ clerk' \in [Clerks -> ClerkSteps] /\ desk' \in [Clerks -> Desk]
      /\ onHand' \in [Cells -> Int] /\ ledger' \in [Cells -> Int] /\ posted' \in [Docs -> Int]
  <2> HIDE DEF d, n, c
  <2>1. QED
    BY <1>1, <1>2, <1>3, <1>4, LossTypes, LossConstants DEF ClerkSteps
<1>6. "POSTED" \in DocStatuses \ {"none"}
  BY DEF DocStatuses
<1>7. /\ doc' \in [Docs -> Doc]
      /\ \A e \in Docs : /\ doc'[e].loss = doc[e].loss
                         /\ doc'[e].status = IF e = d THEN "POSTED" ELSE doc[e].status
                         /\ (doc'[e].status = "none") <=> (doc[e].status = "none")
  <2> HIDE DEF d, n, c
  <2>1. QED
    BY <1>1, <1>2, <1>6, StatusWritten
<1>8. LossTypeOK'
  BY <1>1, <1>2, <1>4, <1>5, <1>7, LossTypes DEF LossTypeOK, Desk
<1>9. \A q \in Clerks : /\ clerk'[q] = IF q = r THEN "idle" ELSE clerk[q]
                        /\ q # r => desk'[q] = desk[q]
  BY <1>2, <1>4, LossTypes
<1>10. AtDesks'
  <2>1. ASSUME NEW q \in Clerks PROVE AtDesk(clerk[q], desk[q])'
    <3>1. AtDesk(clerk[q], desk[q])
      BY DEF LossInv, AtDesks
    <3>2. CASE q = r
      BY <1>9, <3>2 DEF AtDesk
    <3>3. CASE q # r
      BY <1>1, <1>7, <1>9, <3>1, <3>3 DEF AtDesk
    <3>4. QED
      BY <3>2, <3>3
  <2>2. QED
    BY <2>1 DEF AtDesks
<1>11. NothingBefore' /\ Unsigned'
  BY <1>1, <1>2, <1>7, LossTypes DEF LossInv, NothingBefore, Unsigned
<1>12. Balanced'
  <2> HIDE DEF d, n, c
  <2> DEFINE m == -n
  <2>1. onHand \in [Cells -> Int] /\ ledger \in [Cells -> Int] /\ booked \in [Docs -> Int]
    BY <1>2, LossTypes
  <2>2. m \in Int /\ onHand[c] - n = onHand[c] + m /\ ledger[c] - n = ledger[c] + m
    BY <1>3, <2>1
  <2>3. onHand' = [onHand EXCEPT ![c] = onHand[c] - n] /\ ledger' = [ledger EXCEPT ![c] = ledger[c] - n]
    BY <1>1
  <2>4. UNCHANGED <<totals, booked>> /\ Balanced
    BY <1>1 DEF LossInv
  <2> HIDE DEF m
  <2>5. onHand' = [onHand EXCEPT ![c] = @ + m] /\ ledger' = [ledger EXCEPT ![c] = @ + m]
    BY <2>2, <2>3
  <2>6. QED
    BY <1>3, <1>7, <2>1, <2>2, <2>4, <2>5, BalancesMoved
<1>13. \A e \in Docs : Guarded(e)' = Guarded(e)
  BY <1>1, <1>7 DEF Guarded
<1>14. Claims'
  BY <1>1, <1>7, <1>9, <1>13 DEF LossInv, Claims
<1>15. QED
  BY <1>8, <1>10, <1>11, <1>12, <1>14 DEF LossInv

\* What a request about a document does to end or to go on.
FinishesLoss(r) ==
  \/ FinishSubmitLoss(r) \/ FinishVoidLoss(r) \/ FinishRejectLoss(r) \/ FinishSignLoss(r)
  \/ LookBook(r) \/ FinishBook(r) \/ LookLevel(r) \/ FinishLevel(r)
  \/ LookPostPlain(r) \/ FinishPostPlain(r) \/ RefuseLoss(r)

LEMMA FinishesLossKeeps ==
  ASSUME LossInv, NEW r \in Clerks, FinishesLoss(r)
  PROVE  LossInv'
<1> DEFINE d == desk[r].doc
           i == desk[r].step
<1>1. clerk[r] # "idle"
  BY DEF FinishesLoss, FinishSubmitLoss, FinishVoidLoss, FinishRejectLoss, FinishSignLoss,
         LookBook, FinishBook, LookLevel, FinishLevel, LookPostPlain, FinishPostPlain, RefuseLoss
<1>2. d \in Docs /\ i \in StepNos /\ doc[d].status # "none" /\ LossTypeOK
  BY <1>1, SignerAtDesk DEF LossInv
<1>3. doc \in [Docs -> Doc] /\ request \in [Docs -> Request]
  BY <1>2, LossTypes
<1>4. request[d] \in Request
  BY <1>2, <1>3
<1>14. \A e \in Docs : doc[e].status = "DRAFT" => ~request[e].exists
  BY DEF LossInv, Unsigned
<1>5. CASE FinishSubmitLoss(r) \/ FinishVoidLoss(r)
  <2>1. PICK x \in {"DRAFT", "VOID"} : doc' = [doc EXCEPT ![d].status = x] /\ (x = "DRAFT" => clerk[r] = "submit")
    BY <1>5 DEF FinishSubmitLoss, FinishVoidLoss
  <2>5. x = "DRAFT" => ~request[d].exists
    BY <1>1, <2>1, SignerAtDesk
  <2>2. PutDown(r) /\ UNCHANGED <<onHand, ledger, booked, posted, totals, request>>
    BY <1>5 DEF FinishSubmitLoss, FinishVoidLoss, stockRows, books
  <2>3. x \in DocStatuses \ {"none"}
    BY DEF DocStatuses
  <2> HIDE DEF d, i
  <2>4. QED
    <3>1. request' \in [Docs -> Request] /\ \A e \in Docs : request'[e].exists = request[e].exists
      BY <1>3, <2>2
    <3>2. QED
      BY <1>2, <2>1, <2>2, <2>3, <2>5, <3>1, StatusPutDown
<1>6. CASE FinishRejectLoss(r)
  <2>1. /\ request' = [request EXCEPT ![d].steps[i] = "REJECTED", ![d].status = "REJECTED"]
        /\ doc' = [doc EXCEPT ![d].status = "REJECTED"]
        /\ PutDown(r) /\ UNCHANGED <<onHand, ledger, booked, posted, totals>>
    BY <1>6 DEF FinishRejectLoss, stockRows, books
  <2> HIDE DEF d, i
  <2>2. /\ request' = [request EXCEPT ![d] =
                         [@ EXCEPT !.steps[i] = "REJECTED", !.status = "REJECTED", !.current = request[d].current]]
        /\ request[d].current \in StepNos
    BY <1>2, <1>3, <1>4, <2>1 DEF Request
  <2>3. request' \in [Docs -> Request] /\ \A e \in Docs : request'[e].exists = request[e].exists
    BY <1>2, <2>2, RequestSigned DEF Marks
  <2>4. "REJECTED" \in DocStatuses \ {"none"}
    BY DEF DocStatuses
  <2>5. QED
    <3>1. PutDown(r) /\ UNCHANGED <<onHand, ledger, booked, posted, totals>>
      BY <2>1
    <3>2. doc' = [doc EXCEPT ![d].status = "REJECTED"] /\ d \in Docs /\ doc[d].status # "none"
      BY <1>2, <2>1
    <3>3. QED
      BY <2>3, <2>4, <3>1, <3>2, StatusPutDown
<1>7. CASE FinishSignLoss(r)
  <2>1. /\ request' = [request EXCEPT ![d].steps[i] = "APPROVED", ![d].current = i + 1]
        /\ doc' = [doc EXCEPT ![d].status = ApprovedStatus[i]]
        /\ PutDown(r) /\ UNCHANGED <<onHand, ledger, booked, posted, totals>> /\ i < 4
    BY <1>7 DEF FinishSignLoss, stockRows, books
  <2> HIDE DEF d, i
  <2>2. request' \in [Docs -> Request] /\ \A e \in Docs : request'[e].exists = request[e].exists
    <3> DEFINE q == [request[d] EXCEPT !.steps[i] = "APPROVED", !.current = i + 1]
    <3>1. i + 1 \in StepNos /\ "APPROVED" \in Marks
      BY <1>2, <2>1 DEF StepNos, Marks
    <3>2. [request[d].steps EXCEPT ![i] = "APPROVED"] \in [StepNos -> Marks]
      BY <1>2, <1>4, <3>1 DEF Request
    <3>3. q \in Request /\ q.exists = request[d].exists
      BY <1>4, <3>1, <3>2 DEF Request
    <3>4. request' = [request EXCEPT ![d] = q]
      BY <2>1
    <3>5. QED
      BY <1>2, <1>3, <3>3, <3>4
  <2>4. QED
    <3>1. PutDown(r) /\ UNCHANGED <<onHand, ledger, booked, posted, totals>>
      BY <2>1
    <3>2. doc' = [doc EXCEPT ![d].status = ApprovedStatus[i]] /\ d \in Docs /\ doc[d].status # "none"
      BY <1>2, <2>1
    <3>3. ApprovedStatus[i] \in DocStatuses \ {"none", "DRAFT"}
      BY <1>2, StatusOfStep
    <3>4. QED
      BY <2>2, <3>1, <3>2, <3>3, StatusPutDown
<1>8. CASE LookBook(r)
  BY <1>8, LookedKeeps DEF LookBook, stockRows, books
<1>9. CASE FinishBook(r)
  <2>1. /\ request' = [request EXCEPT ![d].steps[4] = "APPROVED", ![d].status = "APPROVED", ![d].current = 4]
        /\ doc' = [doc EXCEPT ![d].status = "APPROVED"]
        /\ PutDown(r) /\ Book(d) /\ clerk[r] = "book"
    BY <1>9 DEF FinishBook
  <2>2. request' \in [Docs -> Request] /\ \A e \in Docs : request'[e].exists = request[e].exists
    <3> HIDE DEF d, i
    <3>1. request' = [request EXCEPT ![d] =
                        [@ EXCEPT !.steps[4] = "APPROVED", !.status = "APPROVED", !.current = 4]]
      BY <2>1
    <3>2. 4 \in StepNos /\ "APPROVED" \in Marks
      BY DEF StepNos, Marks
    <3>3. QED
      BY <1>2, <3>1, <3>2, RequestSigned
  <2>3. "APPROVED" \in DocStatuses \ {"none"}
    BY DEF DocStatuses
  <2>4. /\ doc' \in [Docs -> Doc]
        /\ \A e \in Docs : /\ doc'[e].loss = doc[e].loss
                           /\ (doc'[e].status = "none") <=> (doc[e].status = "none")
                           /\ doc'[e].status = "DRAFT" => ~request[e].exists
    <3> HIDE DEF d, i
    <3>1. /\ doc' \in [Docs -> Doc]
          /\ \A e \in Docs : /\ doc'[e].loss = doc[e].loss
                             /\ doc'[e].status = IF e = d THEN "APPROVED" ELSE doc[e].status
                             /\ (doc'[e].status = "none") <=> (doc[e].status = "none")
      <4>1. doc' = [doc EXCEPT ![d].status = "APPROVED"]
        BY <2>1
      <4>2. QED
        BY <1>2, <2>3, <4>1, StatusWritten
    <3>2. QED
      BY <1>14, <3>1
  <2>5. QED
    BY <2>1, <2>2, <2>4, BookedKeeps
<1>10. CASE LookLevel(r)
  BY <1>10, LookedKeeps DEF LookLevel, stockRows, books
<1>11. CASE FinishLevel(r)
  <2>1. /\ clerk[r] = IF i = 4 THEN "book_level" ELSE "level"
        /\ IF i = 4 THEN Book(d) ELSE UNCHANGED <<onHand, ledger, booked, posted, totals>>
        /\ doc' = [doc EXCEPT ![d].status = ApprovedStatus[i]]
        /\ PutDown(r) /\ UNCHANGED request
    BY <1>11 DEF FinishLevel, stockRows, books
  <2>2. /\ doc' \in [Docs -> Doc]
        /\ \A e \in Docs : /\ doc'[e].loss = doc[e].loss
                           /\ (doc'[e].status = "none") <=> (doc[e].status = "none")
                           /\ doc'[e].status = "DRAFT" => ~request[e].exists
    <3> HIDE DEF d, i
    <3>1. /\ doc' \in [Docs -> Doc] /\ ApprovedStatus[i] # "DRAFT"
          /\ \A e \in Docs : /\ doc'[e].loss = doc[e].loss
                             /\ doc'[e].status = IF e = d THEN ApprovedStatus[i] ELSE doc[e].status
                             /\ (doc'[e].status = "none") <=> (doc[e].status = "none")
      <4>1. doc' = [doc EXCEPT ![d].status = ApprovedStatus[i]]
        BY <2>1
      <4>2. ApprovedStatus[i] \in DocStatuses \ {"none", "DRAFT"}
        BY <1>2, StatusOfStep
      <4>3. QED
        BY <1>2, <4>1, <4>2, StatusWritten
    <3>2. QED
      BY <1>14, <3>1
  <2>3. request' \in [Docs -> Request] /\ \A e \in Docs : request'[e].exists = request[e].exists
    BY <1>3, <2>1
  <2>4. CASE i = 4
    BY <2>1, <2>2, <2>3, <2>4, BookedKeeps
  <2>5. CASE i # 4
    BY <2>1, <2>2, <2>3, <2>5, PutDownKeeps
  <2>6. QED
    BY <2>4, <2>5
<1>12. CASE RefuseLoss(r)
  BY <1>3, <1>12, <1>14, PutDownKeeps DEF RefuseLoss, stockRows, books
<1>15. CASE LookPostPlain(r)
  BY <1>15, LookedKeeps DEF LookPostPlain, stockRows, books
<1>16. CASE FinishPostPlain(r)
  BY <1>1, <1>16, PostedKeeps
<1>13. QED
  BY <1>5, <1>6, <1>7, <1>8, <1>9, <1>10, <1>11, <1>12, <1>15, <1>16 DEF FinishesLoss

LEMMA LossStepKeeps == LossInv /\ LossNext => LossInv'
<1> SUFFICES ASSUME LossInv, LossNext PROVE LossInv'
  OBVIOUS
<1>1. CASE \E d \in Docs, f \in Losses : CreateClaim(d, f)
  BY <1>1, CreateKeeps DEF CreateClaim
<1>2. ASSUME NEW r \in Clerks, NEW d \in Docs, NEW f \in Losses,
             CreateBreakage(r, d, f) \/ CreateLost(r, d, f) \/ CreatePlain(r, d, f)
      PROVE  LossInv'
  BY <1>2, CreateKeeps, CreatePlainKeeps DEF CreateBreakage, CreateLost
<1>3. ASSUME NEW r \in Clerks, NEW d \in Docs, BeginsLoss(r, d)
      PROVE  LossInv'
  <2>1. PICK step \in {"submit", "sign", "void", "level", "post"}, j \in Desk :
          TakeUp(r, step, j) /\ AtDesk(step, j)
    BY <1>3, BeginsLossHow
  <2>2. QED
    BY <2>1, TakeUpKeeps
<1>4. ASSUME NEW r \in Clerks, FinishesLoss(r) PROVE LossInv'
  BY <1>4, FinishesLossKeeps
<1>5. QED
  BY <1>1, <1>2, <1>3, <1>4 DEF LossNext, BeginsLoss, FinishesLoss

-----------------------------------------------------------------------------
(* Sessions, reports and tables, whatever overlaps *)

Slip ==
  [session : Sessions \cup {NoPaper}, report : Reports \cup {NoPaper}, cell : Cells,
   number : Nat, qty : Int, request : Nat, step : CountSteps, approve : BOOLEAN]

LEMMA CountConstants ==
  AnyCell \in Cells /\ NoSession \in Session /\ NoReport \in Report /\ IdleSlip \in Slip
<1>1. AnyCell \in Cells
  BY CountsAssumption DEF AnyCell
<1>2. NoSession \in Session
  BY <1>1 DEF NoSession, Session, SessionStatuses, Verdicts, NotCounted
<1>3. NoReport \in Report
  BY <1>1 DEF NoReport, Report, ReportStatuses, Verdicts
<1>4. IdleSlip \in Slip
  BY <1>1 DEF IdleSlip, Slip, CountSteps
<1>5. QED
  BY <1>1, <1>2, <1>3, <1>4

LEMMA CountTypes ==
  ASSUME CountTypeOK
  PROVE  /\ opening \in {"OPEN", "LOCKED"}
         /\ session \in [Sessions -> Session] /\ report \in [Reports -> Report]
         /\ adjusted \in [Sessions -> Int] /\ settled \in [Reports -> Int]
         /\ teller \in [Tellers -> TellerSteps] /\ slip \in [Tellers -> Slip]
BY DEF CountTypeOK, Slip

\* One request goes on, and sessions and reports change.
LEMMA TableKeeps ==
  ASSUME CountInv, opening' \in {"OPEN", "LOCKED"},
         session' \in [Sessions -> Session], report' \in [Reports -> Report],
         adjusted' \in [Sessions -> Int], settled' \in [Reports -> Int],
         NEW t \in Tellers, NEW step \in TellerSteps, NEW j \in Slip, AtTable(step, j),
         teller' = [teller EXCEPT ![t] = step], slip' = [slip EXCEPT ![t] = j]
  PROVE  CountInv'
<1>1. teller \in [Tellers -> TellerSteps] /\ slip \in [Tellers -> Slip]
  BY CountTypes DEF CountInv
<1>2. teller' \in [Tellers -> TellerSteps] /\ slip' \in [Tellers -> Slip]
  BY <1>1
<1>3. CountTypeOK'
  BY <1>2 DEF CountTypeOK, Slip
<1>4. \A u \in Tellers : /\ teller'[u] = IF u = t THEN step ELSE teller[u]
                         /\ slip'[u] = IF u = t THEN j ELSE slip[u]
  BY <1>1
<1>5. \A u \in Tellers : AtTable(teller'[u], slip'[u])
  BY <1>4 DEF CountInv
<1>6. \A u \in Tellers : AtTable(teller[u], slip[u])'
  BY <1>5 DEF AtTable
<1>7. QED
  BY <1>3, <1>6 DEF CountInv

LEMMA TellerAtTable ==
  ASSUME CountInv, NEW t \in Tellers
  PROVE  /\ slip[t] \in Slip /\ slip[t].cell \in Cells /\ slip[t].qty \in Int /\ slip[t].step \in CountSteps
         /\ teller[t] \in SessionSteps => slip[t].session \in Sessions
         /\ teller[t] \in ReportSteps => slip[t].report \in Reports
         /\ teller[t] = "count" => slip[t].qty \in Nat \cup {NotCounted}
         /\ teller[t] = "idle" => slip[t] = IdleSlip
<1>1. slip[t] \in Slip
  BY CountTypes DEF CountInv
<1>2. AtTable(teller[t], slip[t])
  BY DEF CountInv
<1>3. slip[t].cell \in Cells /\ slip[t].qty \in Int /\ slip[t].step \in CountSteps
  BY <1>1 DEF Slip
<1>4. QED
  BY <1>1, <1>2, <1>3 DEF AtTable

LEMMA SitKeeps ==
  ASSUME CountInv, NEW t \in Tellers, NEW step \in TellerSteps, NEW j \in Slip, AtTable(step, j),
         Sit(t, step, j)
  PROVE  CountInv'
<1>1. /\ teller' = [teller EXCEPT ![t] = step] /\ slip' = [slip EXCEPT ![t] = j]
      /\ UNCHANGED <<opening, session, report, adjusted, settled>>
  BY DEF Sit, papers
<1>2. /\ opening' \in {"OPEN", "LOCKED"}
      /\ session' \in [Sessions -> Session] /\ report' \in [Reports -> Report]
      /\ adjusted' \in [Sessions -> Int] /\ settled' \in [Reports -> Int]
  BY <1>1, CountTypes DEF CountInv
<1>3. QED
  BY <1>1, <1>2, TableKeeps

LEMMA LeaveKeeps ==
  ASSUME CountInv, NEW t \in Tellers, Leave(t), opening' \in {"OPEN", "LOCKED"},
         session' \in [Sessions -> Session], report' \in [Reports -> Report],
         adjusted' \in [Sessions -> Int], settled' \in [Reports -> Int]
  PROVE  CountInv'
<1>1. teller' = [teller EXCEPT ![t] = "idle"] /\ slip' = [slip EXCEPT ![t] = IdleSlip]
  BY DEF Leave, Proceed
<1>2. "idle" \in TellerSteps /\ IdleSlip \in Slip
  BY CountConstants DEF TellerSteps
<1>3. AtTable("idle", IdleSlip)
  BY DEF AtTable, SessionSteps, ReportSteps
<1>4. QED
  BY <1>1, <1>2, <1>3, TableKeeps

\* What is begun about a session or a report.
BeginsCount(t) ==
  \/ \E s \in Sessions :
       \/ \E c \in Cells : BeginOpen(t, s, c)
       \/ \E n \in Counted \cup {NotCounted} : BeginCount(t, s, n)
       \/ BeginSubmit(t, s) \/ BeginVoid(t, s)
       \/ \E role \in CountRoles, approve \in BOOLEAN : BeginDecide(t, s, role, approve)
  \/ \E p \in Reports : BeginSubmitReport(t, p) \/ (\E approve \in BOOLEAN : BeginDecideReport(t, p, approve))

\* What it begins with.
LEMMA BeginsCountHow ==
  ASSUME CountInv, onHand \in [Cells -> Int], NEW t \in Tellers, BeginsCount(t)
  PROVE  \E step \in TellerSteps \ {"idle"}, j \in Slip :
           Sit(t, step, j) /\ AtTable(step, j) /\ TellerHolds(step, j)
<1>0. /\ IdleSlip \in Slip /\ session \in [Sessions -> Session]
      /\ {"open", "count", "submit", "void", "decide", "submit report", "decide report"}
           \subseteq TellerSteps \ {"idle"}
  BY CountConstants, CountTypes DEF CountInv, TellerSteps
<1>1. ASSUME NEW s \in Sessions, NEW c \in Cells, BeginOpen(t, s, c)
      PROVE  \E step \in TellerSteps \ {"idle"}, j \in Slip :
               Sit(t, step, j) /\ AtTable(step, j) /\ TellerHolds(step, j)
  <2> DEFINE j == [IdleSlip EXCEPT !.session = s, !.cell = c, !.qty = onHand[c],
                                   !.number = Cardinality(Opened) + 1]
  <2>1. Cardinality(Opened) + 1 \in Nat
    <3>1. IsFiniteSet(Opened)
      BY CountsAssumption, FS_Subset DEF Opened
    <3>2. Cardinality(Opened) \in Nat
      BY <3>1, FS_CardinalityType
    <3>3. QED
      BY <3>2
  <2>2. j \in Slip /\ j.session = s
    BY <1>0, <2>1 DEF Slip
  <2>3. Sit(t, "open", j)
    BY <1>1 DEF BeginOpen
  <2> HIDE DEF j
  <2>4. AtTable("open", j) /\ TellerHolds("open", j)
    BY <2>2 DEF AtTable, TellerHolds, SessionSteps, ReportSteps
  <2>5. QED
    BY <1>0, <2>2, <2>3, <2>4
<1>2. ASSUME NEW s \in Sessions, NEW n \in Counted \cup {NotCounted}, BeginCount(t, s, n)
      PROVE  \E step \in TellerSteps \ {"idle"}, j \in Slip :
               Sit(t, step, j) /\ AtTable(step, j) /\ TellerHolds(step, j)
  <2> DEFINE j == [IdleSlip EXCEPT !.session = s, !.qty = n]
  <2>1. n \in Nat \cup {NotCounted} /\ n \in Int
    BY CountsAssumption DEF NotCounted
  <2>2. j \in Slip /\ j.session = s /\ j.qty = n
    BY <1>0, <2>1 DEF Slip
  <2>3. Sit(t, "count", j) /\ session[s].status = "DRAFT"
    BY <1>2 DEF BeginCount, Editable
  <2> HIDE DEF j
  <2>4. AtTable("count", j) /\ TellerHolds("count", j)
    BY <2>1, <2>2, <2>3 DEF AtTable, TellerHolds, SessionSteps, ReportSteps
  <2>5. QED
    BY <1>0, <2>2, <2>3, <2>4
<1>3. ASSUME NEW s \in Sessions, BeginSubmit(t, s)
      PROVE  \E step \in TellerSteps \ {"idle"}, j \in Slip :
               Sit(t, step, j) /\ AtTable(step, j) /\ TellerHolds(step, j)
  <2> DEFINE j == [IdleSlip EXCEPT !.session = s]
  <2>1. j \in Slip /\ j.session = s
    BY <1>0 DEF Slip
  <2>2. Sit(t, "submit", j) /\ session[s].status = "DRAFT" /\ session[s].counted # NotCounted
    BY <1>3 DEF BeginSubmit
  <2> HIDE DEF j
  <2>3. AtTable("submit", j) /\ TellerHolds("submit", j)
    BY <2>1, <2>2 DEF AtTable, TellerHolds, SessionSteps, ReportSteps
  <2>4. QED
    BY <1>0, <2>1, <2>2, <2>3
<1>4. ASSUME NEW s \in Sessions, BeginVoid(t, s)
      PROVE  \E step \in TellerSteps \ {"idle"}, j \in Slip :
               Sit(t, step, j) /\ AtTable(step, j) /\ TellerHolds(step, j)
  <2> DEFINE j == [IdleSlip EXCEPT !.session = s]
  <2>1. j \in Slip /\ j.session = s
    BY <1>0 DEF Slip
  <2>2. Sit(t, "void", j) /\ session[s].status \notin {"none", "POSTED"}
    BY <1>4 DEF BeginVoid
  <2> HIDE DEF j
  <2>3. AtTable("void", j) /\ TellerHolds("void", j)
    BY <2>1, <2>2 DEF AtTable, TellerHolds, SessionSteps, ReportSteps
  <2>4. QED
    BY <1>0, <2>1, <2>2, <2>3
<1>5. ASSUME NEW s \in Sessions, NEW role, NEW approve \in BOOLEAN, BeginDecide(t, s, role, approve)
      PROVE  \E step \in TellerSteps \ {"idle"}, j \in Slip :
               Sit(t, step, j) /\ AtTable(step, j) /\ TellerHolds(step, j)
  <2> DEFINE j == [IdleSlip EXCEPT !.session = s, !.request = session[s].request,
                                   !.step = NextStep(s), !.approve = approve]
  <2>1. session[s].request \in Nat /\ NextStep(s) \in CountSteps
    BY <1>0, <1>5 DEF BeginDecide, Session
  <2>2. j \in Slip /\ j.session = s /\ j.request = session[s].request /\ j.step = NextStep(s)
    BY <1>0, <2>1 DEF Slip
  <2>3. Sit(t, "decide", j) /\ session[s].status = "PENDING_APPROVAL"
    BY <1>5 DEF BeginDecide
  <2> HIDE DEF j
  <2>4. AtTable("decide", j) /\ TellerHolds("decide", j)
    BY <2>2, <2>3 DEF AtTable, TellerHolds, SessionSteps, ReportSteps, NextStep
  <2>5. QED
    BY <1>0, <2>2, <2>3, <2>4
<1>6. ASSUME NEW p \in Reports, BeginSubmitReport(t, p)
      PROVE  \E step \in TellerSteps \ {"idle"}, j \in Slip :
               Sit(t, step, j) /\ AtTable(step, j) /\ TellerHolds(step, j)
  <2> DEFINE j == [IdleSlip EXCEPT !.report = p]
  <2>1. j \in Slip /\ j.report = p
    BY <1>0 DEF Slip
  <2>2. Sit(t, "submit report", j) /\ report[p].status = "DRAFT"
    BY <1>6 DEF BeginSubmitReport
  <2> HIDE DEF j
  <2>3. AtTable("submit report", j) /\ TellerHolds("submit report", j)
    BY <2>1, <2>2 DEF AtTable, TellerHolds, SessionSteps, ReportSteps
  <2>4. QED
    BY <1>0, <2>1, <2>2, <2>3
<1>7. ASSUME NEW p \in Reports, NEW approve \in BOOLEAN, BeginDecideReport(t, p, approve)
      PROVE  \E step \in TellerSteps \ {"idle"}, j \in Slip :
               Sit(t, step, j) /\ AtTable(step, j) /\ TellerHolds(step, j)
  <2> DEFINE j == [IdleSlip EXCEPT !.report = p, !.approve = approve]
  <2>1. j \in Slip /\ j.report = p
    BY <1>0 DEF Slip
  <2>2. Sit(t, "decide report", j) /\ report[p].status = "PENDING_APPROVAL"
    BY <1>7 DEF BeginDecideReport
  <2> HIDE DEF j
  <2>3. AtTable("decide report", j) /\ TellerHolds("decide report", j)
    BY <2>1, <2>2 DEF AtTable, TellerHolds, SessionSteps, ReportSteps
  <2>4. QED
    BY <1>0, <2>1, <2>2, <2>3
<1>8. QED
  BY <1>1, <1>2, <1>3, <1>4, <1>5, <1>6, <1>7 DEF BeginsCount

\* What a request about a session or a report does to end or to go on.
FinishesCount(t) ==
  \/ FinishOpen(t) \/ FinishCount(t) \/ FinishSubmit(t) \/ FinishReject(t) \/ FinishSign(t)
  \/ FinishVoid(t) \/ BeginPost(t) \/ Look(t) \/ FinishPost(t)
  \/ FinishSubmitReport(t) \/ FinishDecideReport(t)
  \/ BeginPostReport(t) \/ LookReport(t) \/ FinishPostReport(t) \/ RefuseCount(t)

\* What a decision writes.
LEMMA DecidedTypes ==
  ASSUME NEW t, slip[t].step \in CountSteps, NEW x \in Session
  PROVE  Decided(t, x) \in Session
<1>1. /\ [x.steps EXCEPT ![slip[t].step] = "REJECTED"] \in [CountSteps -> Verdicts]
      /\ [x.steps EXCEPT ![slip[t].step] = "APPROVED"] \in [CountSteps -> Verdicts]
      /\ slip[t].step \in 0 .. 3
      /\ "REJECTED" \in Verdicts /\ "APPROVED" \in Verdicts
  BY DEF Session, CountSteps, Verdicts
<1>2. [x EXCEPT !.steps[slip[t].step] = "REJECTED", !.verdict = "REJECTED"] \in Session
  BY <1>1 DEF Session
<1>3. x.verdict \in Verdicts
  BY DEF Session
<1>4. [x EXCEPT !.steps[slip[t].step] = "APPROVED", !.current = slip[t].step,
                !.verdict = IF slip[t].step = 3 THEN "APPROVED" ELSE @] \in Session
  BY <1>1, <1>3 DEF Session
<1>5. QED
  BY <1>2, <1>4 DEF Decided

\* What a request writes of the session on its slip.
LEMMA SessionWritten ==
  ASSUME CountInv, NEW t \in Tellers,
         FinishOpen(t) \/ FinishCount(t) \/ FinishSubmit(t) \/ FinishReject(t) \/ FinishSign(t) \/ FinishVoid(t)
  PROVE  session' \in [Sessions -> Session] /\ Rest
<1> DEFINE s == slip[t].session
<1>1. /\ teller[t] \in SessionSteps /\ s \in Sessions /\ slip[t].cell \in Cells /\ slip[t].qty \in Int
      /\ slip[t].step \in CountSteps /\ (teller[t] = "count" => slip[t].qty \in Nat \cup {NotCounted})
  <2>1. teller[t] \in SessionSteps
    BY DEF FinishOpen, FinishCount, FinishSubmit, FinishReject, FinishSign, FinishVoid, SessionSteps
  <2>2. QED
    BY <2>1, TellerAtTable
<1>2. session \in [Sessions -> Session] /\ session[s] \in Session
  BY <1>1, CountTypes DEF CountInv
<1>3. "DRAFT" \in SessionStatuses /\ "PENDING_APPROVAL" \in SessionStatuses /\ "REJECTED" \in SessionStatuses
      /\ "VOID" \in SessionStatuses
  BY DEF SessionStatuses
<1>4. CASE FinishOpen(t)
  <2> DEFINE x == [NoSession EXCEPT !.status = "DRAFT", !.cell = slip[t].cell, !.book = slip[t].qty]
  <2>1. x \in Session
    BY <1>1, <1>3, CountConstants DEF Session
  <2>2. session' = [session EXCEPT ![s] = x] /\ Rest
    BY <1>4 DEF FinishOpen
  <2> HIDE DEF x
  <2>3. QED
    BY <1>2, <2>1, <2>2
<1>5. CASE FinishCount(t)
  <2> DEFINE x == [session[s] EXCEPT !.counted = slip[t].qty]
  <2>1. x \in Session
    BY <1>1, <1>2, <1>5 DEF Session, FinishCount
  <2>2. session' = [session EXCEPT ![s] = x] /\ Rest
    BY <1>5 DEF FinishCount
  <2> HIDE DEF x
  <2>3. QED
    BY <1>2, <2>1, <2>2
<1>6. CASE FinishSubmit(t)
  <2> DEFINE n == session[s].request + 1
             unsigned == [i \in CountSteps |-> "PENDING"]
             x == [session[s] EXCEPT !.status = "PENDING_APPROVAL", !.request = n, !.current = 0,
                                     !.verdict = "PENDING", !.steps = unsigned]
  <2>0. n \in Nat /\ unsigned \in [CountSteps -> Verdicts] /\ 0 \in 0 .. 3 /\ "PENDING" \in Verdicts
    BY <1>2 DEF Session, Verdicts
  <2>1. x \in Session
    <3> HIDE DEF n, unsigned
    <3>1. QED
      BY <1>2, <1>3, <2>0 DEF Session
  <2>2. session' = [session EXCEPT ![s] = x] /\ Rest
    BY <1>2, <1>6 DEF FinishSubmit, Session
  <2> HIDE DEF x
  <2>3. QED
    BY <1>2, <2>1, <2>2
<1>7. CASE FinishReject(t)
  <2> DEFINE x == [Decided(t, session[s]) EXCEPT !.status = "REJECTED"]
  <2>1. Decided(t, session[s]) \in Session
    BY <1>1, <1>2, DecidedTypes
  <2>2. x \in Session
    BY <1>3, <2>1 DEF Session
  <2>3. session' = [session EXCEPT ![s] = x] /\ Rest
    BY <1>7 DEF FinishReject
  <2> HIDE DEF x
  <2>4. QED
    BY <1>2, <2>2, <2>3
<1>8. CASE FinishSign(t)
  <2> DEFINE x == Decided(t, session[s])
  <2>1. x \in Session
    BY <1>1, <1>2, DecidedTypes
  <2>2. session' = [session EXCEPT ![s] = x] /\ Rest
    BY <1>8 DEF FinishSign
  <2> HIDE DEF x
  <2>3. QED
    BY <1>2, <2>1, <2>2
<1>9. CASE FinishVoid(t)
  <2> DEFINE x == [session[s] EXCEPT !.status = "VOID"]
  <2>1. x \in Session
    BY <1>2, <1>3 DEF Session
  <2>2. session' = [session EXCEPT ![s] = x] /\ Rest
    BY <1>9 DEF FinishVoid
  <2> HIDE DEF x
  <2>3. QED
    BY <1>2, <2>1, <2>2
<1>10. QED
  BY <1>4, <1>5, <1>6, <1>7, <1>8, <1>9

\* What a posting brings to a balance, which may be nothing.
MovesStock ==
  \E c \in Cells, n \in Int :
    onHand' = [onHand EXCEPT ![c] = @ + n] /\ ledger' = [ledger EXCEPT ![c] = @ + n]

LEMMA FinishesCountKeeps ==
  ASSUME CountInv, NEW t \in Tellers, FinishesCount(t)
  PROVE  CountInv' /\ (UNCHANGED <<onHand, ledger>> \/ MovesStock) /\ closed' = closed
<1> DEFINE j == slip[t]
<1>1. /\ j \in Slip /\ j.cell \in Cells /\ j.qty \in Int
      /\ teller[t] \in SessionSteps => j.session \in Sessions
      /\ teller[t] \in ReportSteps => j.report \in Reports
  BY TellerAtTable
<1>2. /\ opening \in {"OPEN", "LOCKED"}
      /\ session \in [Sessions -> Session] /\ report \in [Reports -> Report]
      /\ adjusted \in [Sessions -> Int] /\ settled \in [Reports -> Int]
      /\ slip \in [Tellers -> Slip] /\ teller \in [Tellers -> TellerSteps]
  BY CountTypes DEF CountInv
<1>3. ASSUME FinishOpen(t) \/ FinishCount(t) \/ FinishSubmit(t) \/ FinishReject(t) \/ FinishVoid(t)
             \/ (FinishSign(t) /\ Leave(t))
      PROVE  CountInv' /\ UNCHANGED <<onHand, ledger>> /\ closed' = closed
  <2>1. session' \in [Sessions -> Session] /\ Rest
    BY <1>3, SessionWritten
  <2>2. UNCHANGED <<onHand, ledger, opening, report, adjusted, settled>>
    BY <2>1 DEF Rest, stockRows
  <2>3. Leave(t)
    BY <1>3 DEF FinishOpen, FinishCount, FinishSubmit, FinishReject, FinishVoid
  <2>4. closed' = closed
    BY <2>3 DEF Leave
  <2>5. QED
    BY <1>2, <2>1, <2>2, <2>3, <2>4, LeaveKeeps
<1>4. CASE FinishSign(t) /\ ~Leave(t)
  <2>1. /\ teller' = [teller EXCEPT ![t] = "post"] /\ slip' = slip /\ closed' = closed
        /\ teller[t] = "decide"
    BY <1>4 DEF FinishSign, Proceed
  <2>2. session' \in [Sessions -> Session] /\ UNCHANGED <<onHand, ledger, opening, report, adjusted, settled>>
    BY <1>4, SessionWritten DEF Rest, stockRows
  <2>3. slip' = [slip EXCEPT ![t] = j]
    BY <1>2, <2>1
  <2>4. j.session \in Sessions
    BY <1>1, <2>1 DEF SessionSteps
  <2> HIDE DEF j
  <2>5. AtTable("post", j) /\ "post" \in TellerSteps
    BY <2>4 DEF AtTable, SessionSteps, ReportSteps, TellerSteps
  <2>6. CountInv'
    BY <1>1, <1>2, <2>1, <2>2, <2>3, <2>5, TableKeeps
  <2>7. QED
    BY <2>1, <2>2, <2>6
<1>5. CASE BeginPost(t)
  <2> DEFINE x == session[j.session]
             k == [j EXCEPT !.qty = Variance(x), !.cell = x.cell]
  <2>1. /\ teller' = [teller EXCEPT ![t] = "look"] /\ slip' = [slip EXCEPT ![t] = k] /\ teller[t] = "post"
        /\ UNCHANGED <<onHand, ledger, closed, opening, session, report, adjusted, settled>>
    BY <1>5 DEF BeginPost, Proceed, papers, stockRows
  <2>2. j.session \in Sessions
    BY <1>1, <2>1 DEF SessionSteps
  <2>3. Variance(x) \in Int /\ x.cell \in Cells
    BY <1>2, <2>2 DEF Session, Variance, NotCounted
  <2>4. k \in Slip /\ k.session = j.session
    BY <1>1, <2>3 DEF Slip
  <2> HIDE DEF j, k, x
  <2>5. AtTable("look", k) /\ "look" \in TellerSteps
    BY <2>2, <2>4 DEF AtTable, SessionSteps, ReportSteps, TellerSteps
  <2>6. CountInv'
    BY <1>2, <2>1, <2>4, <2>5, TableKeeps
  <2>7. QED
    BY <2>1, <2>6
<1>6. CASE BeginPostReport(t)
  <2> DEFINE x == report[j.report]
             k == [j EXCEPT !.qty = x.counted - x.book, !.cell = x.cell]
  <2>1. /\ teller' = [teller EXCEPT ![t] = "look report"] /\ slip' = [slip EXCEPT ![t] = k]
        /\ teller[t] = "post report"
        /\ UNCHANGED <<onHand, ledger, closed, opening, session, report, adjusted, settled>>
    BY <1>6 DEF BeginPostReport, Proceed, papers, stockRows
  <2>2. j.report \in Reports
    BY <1>1, <2>1 DEF ReportSteps
  <2>3. x.counted - x.book \in Int /\ x.cell \in Cells
    BY <1>2, <2>2 DEF Report
  <2>4. k \in Slip /\ k.report = j.report
    BY <1>1, <2>3 DEF Slip
  <2> HIDE DEF j, k, x
  <2>5. AtTable("look report", k) /\ "look report" \in TellerSteps
    BY <2>2, <2>4 DEF AtTable, SessionSteps, ReportSteps, TellerSteps
  <2>6. CountInv'
    BY <1>2, <2>1, <2>4, <2>5, TableKeeps
  <2>7. QED
    BY <2>1, <2>6
<1>7. CASE Look(t) \/ LookReport(t)
  <2>1. PICK step \in {"adjust", "adjust report"} :
          /\ teller' = [teller EXCEPT ![t] = step]
          /\ teller[t] = IF step = "adjust" THEN "look" ELSE "look report"
    BY <1>7 DEF Look, LookReport, Proceed
  <2>2. UNCHANGED <<onHand, ledger, closed, opening, session, report, adjusted, settled, slip>>
    BY <1>7 DEF Look, LookReport, papers, stockRows
  <2>3. slip' = [slip EXCEPT ![t] = j]
    BY <1>2, <2>2
  <2>4. step \in TellerSteps
    BY DEF TellerSteps
  <2> HIDE DEF j
  <2>5. AtTable(step, j)
    BY <1>1, <2>1 DEF AtTable, SessionSteps, ReportSteps
  <2>6. CountInv'
    BY <1>1, <1>2, <2>1, <2>2, <2>3, <2>4, <2>5, TableKeeps
  <2>7. QED
    BY <2>2, <2>6
<1>8. CASE FinishPost(t)
  <2>1. /\ Leave(t) /\ Adjust(j.cell, j.qty) /\ teller[t] = "adjust"
        /\ adjusted' = [adjusted EXCEPT ![j.session] = @ + j.qty]
        /\ session' = [session EXCEPT ![j.session].status = "POSTED"]
        /\ UNCHANGED <<report, settled>>
    BY <1>8 DEF FinishPost
  <2>2. j.session \in Sessions
    BY <1>1, <2>1 DEF SessionSteps
  <2> HIDE DEF j
  <2>3. adjusted' \in [Sessions -> Int]
    BY <1>1, <1>2, <2>1, <2>2
  <2>4. [session[j.session] EXCEPT !.status = "POSTED"] \in Session
    BY <1>2, <2>2 DEF Session, SessionStatuses
  <2>5. session' \in [Sessions -> Session]
    BY <1>2, <2>1, <2>4
  <2>6. opening' \in {"OPEN", "LOCKED"} /\ MovesStock
    BY <1>1, <2>1 DEF Adjust, MovesStock
  <2>7. report' \in [Reports -> Report] /\ settled' \in [Reports -> Int] /\ Leave(t)
    BY <1>2, <2>1
  <2>8. closed' = closed
    BY <2>1 DEF Leave
  <2>9. QED
    BY <2>3, <2>5, <2>6, <2>7, <2>8, LeaveKeeps
<1>9. CASE FinishPostReport(t)
  <2>1. /\ Leave(t) /\ Adjust(j.cell, j.qty) /\ teller[t] = "adjust report"
        /\ settled' = [settled EXCEPT ![j.report] = @ + j.qty]
        /\ report' = [report EXCEPT ![j.report].status = "POSTED"]
        /\ UNCHANGED <<session, adjusted>>
    BY <1>9 DEF FinishPostReport
  <2>2. j.report \in Reports
    BY <1>1, <2>1 DEF ReportSteps
  <2> HIDE DEF j
  <2>3. settled' \in [Reports -> Int]
    <3>1. settled' = [settled EXCEPT ![j.report] = settled[j.report] + j.qty]
      BY <2>1
    <3>2. settled[j.report] + j.qty \in Int
      BY <1>1, <1>2, <2>2
    <3>3. QED
      BY <1>2, <3>1, <3>2
  <2>4. [report[j.report] EXCEPT !.status = "POSTED"] \in Report
    BY <1>2, <2>2 DEF Report, ReportStatuses
  <2>5. report' \in [Reports -> Report]
    BY <1>2, <2>1, <2>4
  <2>6. opening' \in {"OPEN", "LOCKED"} /\ MovesStock
    BY <1>1, <2>1 DEF Adjust, MovesStock
  <2>7. session' \in [Sessions -> Session] /\ adjusted' \in [Sessions -> Int] /\ Leave(t)
    BY <1>2, <2>1
  <2>8. closed' = closed
    BY <2>1 DEF Leave
  <2>9. QED
    BY <2>3, <2>5, <2>6, <2>7, <2>8, LeaveKeeps
<1>10. CASE FinishSubmitReport(t) \/ (FinishDecideReport(t) /\ ~j.approve)
  <2>1. /\ Leave(t) /\ teller[t] \in ReportSteps
        /\ \/ report' = [report EXCEPT ![j.report] = [@ EXCEPT !.status = "PENDING_APPROVAL"]]
           \/ report' = [report EXCEPT ![j.report] = [@ EXCEPT !.verdict = "REJECTED", !.status = "REJECTED"]]
        /\ UNCHANGED <<onHand, ledger, opening, session, adjusted, settled>>
    BY <1>10 DEF FinishSubmitReport, FinishDecideReport, stockRows, ReportSteps
  <2>2. j.report \in Reports
    BY <1>1, <2>1
  <2> HIDE DEF j
  <2>3. /\ [report[j.report] EXCEPT !.status = "PENDING_APPROVAL"] \in Report
        /\ [report[j.report] EXCEPT !.verdict = "REJECTED", !.status = "REJECTED"] \in Report
    BY <1>2, <2>2 DEF Report, ReportStatuses, Verdicts
  <2>4. report' \in [Reports -> Report]
    BY <1>2, <2>1, <2>3
  <2>5. /\ opening' \in {"OPEN", "LOCKED"} /\ session' \in [Sessions -> Session]
        /\ adjusted' \in [Sessions -> Int] /\ settled' \in [Reports -> Int]
    BY <1>2, <2>1
  <2>6. CountInv'
    BY <2>1, <2>4, <2>5, LeaveKeeps
  <2>7. closed' = closed
    BY <2>1 DEF Leave
  <2>8. QED
    BY <2>1, <2>6, <2>7
<1>11. CASE FinishDecideReport(t) /\ j.approve
  <2>1. /\ report' = [report EXCEPT ![j.report] = [@ EXCEPT !.verdict = "APPROVED"]]
        /\ teller' = [teller EXCEPT ![t] = "post report"] /\ slip' = slip /\ teller[t] = "decide report"
        /\ UNCHANGED <<onHand, ledger, closed, opening, session, adjusted, settled>>
    BY <1>11 DEF FinishDecideReport, Proceed, stockRows
  <2>2. j.report \in Reports
    BY <1>1, <2>1 DEF ReportSteps
  <2>3. slip' = [slip EXCEPT ![t] = j]
    BY <1>2, <2>1
  <2> HIDE DEF j
  <2>4. [report[j.report] EXCEPT !.verdict = "APPROVED"] \in Report
    BY <1>2, <2>2 DEF Report, Verdicts
  <2>5. report' \in [Reports -> Report]
    BY <1>2, <2>1, <2>4
  <2>6. AtTable("post report", j) /\ "post report" \in TellerSteps
    BY <2>2 DEF AtTable, SessionSteps, ReportSteps, TellerSteps
  <2>7. CountInv'
    BY <1>1, <1>2, <2>1, <2>3, <2>5, <2>6, TableKeeps
  <2>8. QED
    BY <2>1, <2>7
<1>12. CASE RefuseCount(t)
  <2>1. Leave(t) /\ UNCHANGED <<onHand, ledger, opening, session, report, adjusted, settled>>
    BY <1>12 DEF RefuseCount, papers, stockRows
  <2>2. /\ opening' \in {"OPEN", "LOCKED"} /\ session' \in [Sessions -> Session] /\ report' \in [Reports -> Report]
        /\ adjusted' \in [Sessions -> Int] /\ settled' \in [Reports -> Int]
    BY <1>2, <2>1
  <2>3. CountInv'
    BY <2>1, <2>2, LeaveKeeps
  <2>4. QED
    BY <2>1, <2>3 DEF Leave
<1>13. QED
  BY <1>3, <1>4, <1>5, <1>6, <1>7, <1>8, <1>9, <1>10, <1>11, <1>12 DEF FinishesCount

-----------------------------------------------------------------------------
(* Every step keeps the invariant *)

LEMMA TableUntouched == CountInv /\ UNCHANGED countVars => CountInv'
BY DEF CountInv, CountTypeOK, AtTable, countVars

LEMMA StepKeeps == Inv /\ Next => Inv'
<1> SUFFICES ASSUME Inv, Next PROVE Inv'
  OBVIOUS
<1>1. CASE LossNext /\ UNCHANGED countVars
  BY <1>1, LossStepKeeps, TableUntouched DEF Inv
<1>2. CASE CountNext /\ UNCHANGED lossVars
  <2>1. ASSUME CountInv', UNCHANGED <<onHand, ledger>> \/ MovesStock, closed' = closed PROVE Inv'
    <3>1. closed' \in BOOLEAN
      BY <2>1, LossTypes DEF Inv, LossInv
    <3>2. LossInv'
      BY <1>2, <2>1, <3>1, StockMovedKeeps DEF Inv, MovesStock
    <3>3. QED
      BY <2>1, <3>2 DEF Inv
  <2>2. onHand \in [Cells -> Int] /\ report \in [Reports -> Report]
    BY LossTypes, CountTypes DEF Inv, LossInv, CountInv
  <2>3. ASSUME NEW p \in Reports, NEW c \in Cells, NEW n \in Counted \cup {NotCounted}, Preview(p, c, n)
        PROVE  Inv'
    <3> DEFINE v == IF n = NotCounted THEN 0 ELSE onHand[c]
               w == IF n = NotCounted THEN onHand[c] ELSE n
               z == IF n = NotCounted THEN 0 ELSE n - onHand[c]
               x == [NoReport EXCEPT !.status = "sheet", !.cell = c, !.book = v, !.counted = w, !.outward = z]
    <3>1. v \in Int /\ w \in Int /\ z \in Int /\ "sheet" \in ReportStatuses
      BY <2>2, CountsAssumption DEF NotCounted, ReportStatuses
    <3>2. x \in Report
      <4> HIDE DEF v, w, z
      <4>1. QED
        BY <3>1, CountConstants DEF Report
    <3>3. report' = [report EXCEPT ![p] = x]
          /\ UNCHANGED <<onHand, ledger, closed, opening, session, adjusted, settled, teller, slip>>
      BY <2>3 DEF Preview, stockRows
    <3> HIDE DEF x
    <3>4. report' \in [Reports -> Report]
      BY <2>2, <3>2, <3>3
    <3>5. CountInv'
      BY <3>3, <3>4 DEF Inv, CountInv, CountTypeOK, AtTable
    <3>6. QED
      BY <2>1, <3>3, <3>5
  <2>4. ASSUME NEW t \in Tellers, NEW p \in Reports, SaveReport(t, p)
        PROVE  Inv'
    <3>1. report' = [report EXCEPT ![p] = [@ EXCEPT !.status = "DRAFT"]]
          /\ UNCHANGED <<onHand, ledger, closed, opening, session, adjusted, settled, teller, slip>>
      BY <2>4 DEF SaveReport, stockRows
    <3>2. [report[p] EXCEPT !.status = "DRAFT"] \in Report
      BY <2>2 DEF Report, ReportStatuses
    <3>3. report' \in [Reports -> Report]
      BY <2>2, <3>1, <3>2
    <3>4. CountInv'
      BY <3>1, <3>3 DEF Inv, CountInv, CountTypeOK, AtTable
    <3>5. QED
      BY <2>1, <3>1, <3>4
  <2>5. ASSUME NEW t \in Tellers, BeginsCount(t) PROVE Inv'
    <3>1. PICK step \in TellerSteps, j \in Slip : Sit(t, step, j) /\ AtTable(step, j)
      BY <2>2, <2>5, BeginsCountHow DEF Inv
    <3>2. CountInv' /\ UNCHANGED <<onHand, ledger, closed>>
      BY <3>1, SitKeeps DEF Inv, Sit, stockRows
    <3>3. QED
      BY <2>1, <3>2
  <2>6. ASSUME NEW t \in Tellers, FinishesCount(t) PROVE Inv'
    BY <2>1, <2>6, FinishesCountKeeps DEF Inv
  <2>7. QED
    BY <1>2, <2>3, <2>4, <2>5, <2>6 DEF CountNext, BeginsCount, FinishesCount
<1>3. ASSUME NEW c \in Cells, NEW n \in Movements, Move(c, n) PROVE Inv'
  <2>1. /\ onHand' = [onHand EXCEPT ![c] = @ + n] /\ ledger' = [ledger EXCEPT ![c] = @ + n]
        /\ UNCHANGED closed /\ UNCHANGED lossVars /\ UNCHANGED countVars /\ n \in Int
    BY <1>3, CorrectionsAssumption DEF Move
  <2>2. closed' \in BOOLEAN
    BY <2>1, LossTypes DEF Inv, LossInv
  <2>3. LossInv'
    BY <2>1, <2>2, StockMovedKeeps DEF Inv
  <2>4. QED
    BY <2>1, <2>3, TableUntouched DEF Inv
<1>4. ASSUME NEW b \in BOOLEAN, SetClosed(b) PROVE Inv'
  BY <1>4, StockMovedKeeps, TableUntouched DEF Inv, SetClosed
<1>5. QED
  BY <1>1, <1>2, <1>3, <1>4 DEF Next

LEMMA NextKeeps == Inv /\ [Next]_vars => Inv'
<1> SUFFICES ASSUME Inv, UNCHANGED vars PROVE Inv'
  BY StepKeeps
<1>1. UNCHANGED <<onHand, ledger, closed>> /\ UNCHANGED lossVars /\ UNCHANGED countVars
  BY DEF vars
<1>2. closed' \in BOOLEAN
  BY <1>1, LossTypes DEF Inv, LossInv
<1>3. QED
  BY <1>1, <1>2, StockMovedKeeps, TableUntouched DEF Inv

LEMMA InitInv == Init => Inv
<1> SUFFICES ASSUME Init PROVE Inv
  OBVIOUS
<1>1. /\ onHand = Opening /\ ledger = Opening /\ closed = FALSE
      /\ doc = [d \in Docs |-> NoDoc] /\ request = [d \in Docs |-> NoRequest]
      /\ booked = [d \in Docs |-> 0] /\ posted = [d \in Docs |-> 0]
      /\ totals = [c \in Cells |-> [k \in DocKinds |-> 0]]
      /\ clerk = [r \in Clerks |-> "idle"] /\ desk = [r \in Clerks |-> IdleDesk]
  BY DEF Init, LossInit
<1>2. /\ opening = "OPEN"
      /\ session = [s \in Sessions |-> NoSession] /\ report = [p \in Reports |-> NoReport]
      /\ adjusted = [s \in Sessions |-> 0] /\ settled = [p \in Reports |-> 0]
      /\ teller = [t \in Tellers |-> "idle"] /\ slip = [t \in Tellers |-> IdleSlip]
  BY DEF Init, CountInit
<1>3. LossTypeOK
  <2>1. onHand \in [Cells -> Int] /\ ledger \in [Cells -> Int]
    BY <1>1, CorrectionsAssumption
  <2>2. doc \in [Docs -> Doc] /\ request \in [Docs -> Request] /\ booked \in [Docs -> Int]
        /\ posted \in [Docs -> Int] /\ totals \in [Cells -> [DocKinds -> Int]] /\ clerk \in [Clerks -> ClerkSteps]
        /\ desk \in [Clerks -> Desk] /\ closed \in BOOLEAN
    <3>1. doc \in [Docs -> Doc] /\ request \in [Docs -> Request]
      BY <1>1, LossConstants
    <3>2. desk \in [Clerks -> Desk]
      BY <1>1, LossConstants
    <3>3. booked \in [Docs -> Int] /\ posted \in [Docs -> Int] /\ totals \in [Cells -> [DocKinds -> Int]]
      BY <1>1
    <3>4. clerk \in [Clerks -> ClerkSteps] /\ closed \in BOOLEAN
      BY <1>1 DEF ClerkSteps
    <3>5. QED
      BY <3>1, <3>2, <3>3, <3>4
  <2>3. QED
    BY <2>1, <2>2 DEF LossTypeOK, Desk
<1>4. AtDesks /\ NothingBefore /\ Unsigned
  BY <1>1 DEF AtDesks, AtDesk, NothingBefore, Unsigned, NoRequest
<1>5. Claims
  BY <1>1 DEF Claims, Guarded, NoRequest
<1>6. Balanced
  <2>1. \A c : \A d \in Docs : Returning(c)[d] = 0
    BY <1>1 DEF Returning
  <2>2. \A c, k : \A d \in Docs : Written(c, k)[d] = 0
    BY <1>1 DEF Written
  <2>3. /\ \A c : TotalOver(Returning(c), Docs) = 0
        /\ \A c, k : TotalOver(Written(c, k), Docs) = 0
    BY <2>1, <2>2, TotalZero, LossAssumption
  <2>4. \A c \in Cells : onHand[c] = ledger[c] + 0
    BY <1>1, CorrectionsAssumption
  <2>5. \A c \in Cells, k \in DocKinds : totals[c][k] = 0
    BY <1>1
  <2>6. QED
    BY <2>3, <2>4, <2>5 DEF Balanced
<1>7. CountInv
  <2>1. CountTypeOK
    BY <1>2, CountConstants DEF CountTypeOK, TellerSteps, Slip
  <2>2. \A t \in Tellers : AtTable(teller[t], slip[t])
    BY <1>2 DEF AtTable, SessionSteps, ReportSteps
  <2>3. QED
    BY <2>1, <2>2 DEF CountInv
<1>8. QED
  BY <1>3, <1>4, <1>5, <1>6, <1>7 DEF Inv, LossInv

LEMMA InvConsistent == Inv => Consistent
<1> SUFFICES ASSUME Inv PROVE Consistent
  OBVIOUS
<1>1. LossTypeOK /\ CountTypeOK /\ Balanced /\ booked \in [Docs -> Int]
  BY LossTypes DEF Inv, LossInv, CountInv
<1>2. StockIsReconciled
  <2>1. ASSUME NEW c \in Cells
        PROVE  onHand[c] = ledger[c] + MapThenSumSet(LAMBDA d : booked[d], Returned(c))
    <3> DEFINE f == Returning(c)
    <3>1. TotalOver(f, Docs) = TotalOver(f, Docs \cap Returned(c))
      <4>1. \A d \in Docs : f[d] \in Int /\ (d \notin Returned(c) => f[d] = 0)
        BY <1>1 DEF Returning, Returned
      <4> HIDE DEF f
      <4>2. QED
        BY <4>1, TotalOfPart, LossAssumption
    <3>2. Docs \cap Returned(c) = Returned(c) /\ IsFiniteSet(Returned(c))
      BY LossAssumption, FS_Subset DEF Returned
    <3>3. TotalOver(f, Returned(c)) = TotalOver(booked, Returned(c))
      <4>1. \A d \in Returned(c) : f[d] = booked[d]
        BY DEF Returning, Returned
      <4> HIDE DEF f
      <4>2. QED
        BY <3>2, <4>1, TotalSame
    <3>4. onHand[c] = ledger[c] + TotalOver(f, Docs)
      BY <1>1 DEF Balanced
    <3> HIDE DEF f
    <3>5. onHand[c] = ledger[c] + TotalOver(booked, Returned(c))
      BY <3>1, <3>2, <3>3, <3>4
    <3>6. QED
      BY <3>5 DEF TotalOver, MapThenSumSet, MapThenFoldSet
  <2>2. QED
    BY <2>1 DEF StockIsReconciled
<1>3. TotalsAreBooked
  <2>1. ASSUME NEW c \in Cells, NEW k \in DocKinds
        PROVE  totals[c][k] = MapThenSumSet(LAMBDA d : booked[d],
                                {d \in Docs : doc[d].loss.cell = c /\ doc[d].loss.kind = k})
    <3> DEFINE f == Written(c, k)
               S == {d \in Docs : doc[d].loss.cell = c /\ doc[d].loss.kind = k}
    <3>1. TotalOver(f, Docs) = TotalOver(f, Docs \cap S)
      <4>1. \A d \in Docs : f[d] \in Int /\ (d \notin S => f[d] = 0)
        BY <1>1 DEF Written
      <4> HIDE DEF f, S
      <4>2. QED
        BY <4>1, TotalOfPart, LossAssumption
    <3>2. Docs \cap S = S /\ IsFiniteSet(S)
      BY LossAssumption, FS_Subset
    <3>3. \A d \in S : f[d] = booked[d]
      BY DEF Written
    <3>4. totals[c][k] = TotalOver(f, Docs)
      BY <1>1 DEF Balanced
    <3>5. totals[c][k] = TotalOver(booked, S)
      <4> HIDE DEF f, S
      <4>1. QED
        BY <3>1, <3>2, <3>3, <3>4, TotalSame
    <3>6. QED
      BY <3>5 DEF TotalOver, MapThenSumSet, MapThenFoldSet
  <2>2. QED
    BY <2>1 DEF TotalsAreBooked
<1>4. ClaimsOnce
  BY DEF ClaimsOnce, Inv, LossInv, Claims, Guarded
<1>6. SignedNotPosted
  BY DEF SignedNotPosted, Inv, LossInv, Unsigned
<1>5. QED
  BY <1>1, <1>2, <1>3, <1>4, <1>6 DEF Consistent, TypeOK

\* Whatever overlaps: a balance is what its ledger says and the claims of
\* returned goods, its totals are what approvals booked, a breakage, or the claim
\* of a returned item, is booked at most once, and what waits for signatures is
\* not posted without them.
THEOREM CorrectionsConsistent == Spec => []Consistent
<1>1. Spec => []Inv
  BY InitInv, NextKeeps, PTL DEF Spec
<1>2. QED
  BY <1>1, InvConsistent, PTL

-----------------------------------------------------------------------------
(* While no two requests overlap: who acts *)

ClerkActs(r) == (\E d \in Docs : BeginsLoss(r, d)) \/ FinishesLoss(r)
TellerActs(t) == BeginsCount(t) \/ FinishesCount(t)

\* What leaves every request where it is.
CreatesPaper ==
  \E d \in Docs, f \in Losses :
    /\ Create(d, f) \/ \E r \in Clerks : CreatePlain(r, d, f)
    /\ UNCHANGED countVars
PreparesReport ==
  /\ \/ \E p \in Reports, c \in Cells, n \in Counted \cup {NotCounted} : Preview(p, c, n)
     \/ \E t \in Tellers, p \in Reports : SaveReport(t, p)
  /\ UNCHANGED lossVars
Unattended ==
  \/ CreatesPaper \/ PreparesReport
  \/ \E c \in Cells, n \in Movements : Move(c, n)
  \/ \E b \in BOOLEAN : SetClosed(b)

LEMMA NextSplit ==
  Next => \/ \E r \in Clerks : ClerkActs(r) /\ UNCHANGED countVars
          \/ \E t \in Tellers : TellerActs(t) /\ UNCHANGED lossVars
          \/ Unattended
<1> SUFFICES ASSUME Next
             PROVE  \/ \E r \in Clerks : ClerkActs(r) /\ UNCHANGED countVars
                    \/ \E t \in Tellers : TellerActs(t) /\ UNCHANGED lossVars
                    \/ Unattended
  OBVIOUS
<1>1. CASE LossNext /\ UNCHANGED countVars
  <2>1. \/ \E d \in Docs, f \in Losses : Create(d, f)
        \/ \E r \in Clerks, d \in Docs, f \in Losses : CreatePlain(r, d, f)
        \/ \E r \in Clerks : ClerkActs(r)
    BY <1>1 DEF LossNext, CreateClaim, CreateBreakage, CreateLost, ClerkActs, BeginsLoss, FinishesLoss
  <2>2. QED
    BY <1>1, <2>1 DEF Unattended, CreatesPaper
<1>2. CASE CountNext /\ UNCHANGED lossVars
  <2>1. \/ \E p \in Reports, c \in Cells, n \in Counted \cup {NotCounted} : Preview(p, c, n)
        \/ \E t \in Tellers, p \in Reports : SaveReport(t, p)
        \/ \E t \in Tellers : TellerActs(t)
    BY <1>2 DEF CountNext, TellerActs, BeginsCount, FinishesCount
  <2>2. QED
    BY <1>2, <2>1 DEF Unattended, PreparesReport
<1>3. QED
  BY <1>1, <1>2 DEF Next, Unattended

LEMMA ClerkMoves ==
  ASSUME LossInv, NEW r \in Clerks, ClerkActs(r)
  PROVE  /\ \A q \in Clerks : q # r => clerk'[q] = clerk[q] /\ desk'[q] = desk[q]
         /\ clerk[r] # "idle" \/ clerk'[r] # "idle"
<1>1. clerk \in [Clerks -> ClerkSteps] /\ desk \in [Clerks -> Desk]
  BY LossTypes DEF LossInv
<1>2. ASSUME NEW d \in Docs, BeginsLoss(r, d)
      PROVE  \E step \in {"submit", "sign", "void", "level", "post"}, j \in Desk :
               clerk' = [clerk EXCEPT ![r] = step] /\ desk' = [desk EXCEPT ![r] = j]
  BY <1>2, BeginsLossHow DEF TakeUp
<1>3. ASSUME FinishesLoss(r)
      PROVE  /\ clerk[r] # "idle"
             /\ \E step \in ClerkSteps : clerk' = [clerk EXCEPT ![r] = step]
             /\ desk' = desk \/ desk' = [desk EXCEPT ![r] = IdleDesk]
  BY <1>3 DEF FinishesLoss, FinishSubmitLoss, FinishVoidLoss, FinishRejectLoss, FinishSignLoss,
              LookBook, FinishBook, LookLevel, FinishLevel, LookPostPlain, FinishPostPlain, RefuseLoss, PutDown, ClerkSteps
<1>4. QED
  BY <1>1, <1>2, <1>3 DEF ClerkActs

LEMMA TellerMoves ==
  ASSUME CountInv, onHand \in [Cells -> Int], NEW t \in Tellers, TellerActs(t)
  PROVE  /\ \A u \in Tellers : u # t => teller'[u] = teller[u] /\ slip'[u] = slip[u]
         /\ teller[t] # "idle" \/ teller'[t] # "idle"
<1>1. teller \in [Tellers -> TellerSteps] /\ slip \in [Tellers -> Slip]
  BY CountTypes DEF CountInv
<1>2. ASSUME BeginsCount(t)
      PROVE  \E step \in TellerSteps \ {"idle"}, j \in Slip :
               teller' = [teller EXCEPT ![t] = step] /\ slip' = [slip EXCEPT ![t] = j]
  BY <1>2, BeginsCountHow DEF Sit
<1>3. ASSUME FinishesCount(t)
      PROVE  teller[t] # "idle" /\ \E step : teller' = [teller EXCEPT ![t] = step]
  BY <1>3 DEF FinishesCount, FinishOpen, FinishCount, FinishSubmit, FinishReject, FinishSign,
              FinishVoid, BeginPost, Look, FinishPost, FinishSubmitReport, FinishDecideReport,
              BeginPostReport, LookReport, FinishPostReport, RefuseCount, Leave, Proceed
<1>4. ASSUME FinishesCount(t)
      PROVE  \A u \in Tellers : u # t => slip'[u] = slip[u]
  <2>1. \/ slip' = slip \/ slip' = [slip EXCEPT ![t] = IdleSlip]
        \/ \E j : slip' = [slip EXCEPT ![t] = j]
    BY <1>4 DEF FinishesCount, FinishOpen, FinishCount, FinishSubmit, FinishReject, FinishSign,
                FinishVoid, BeginPost, Look, FinishPost, FinishSubmitReport, FinishDecideReport,
                BeginPostReport, LookReport, FinishPostReport, RefuseCount, Leave
  <2>2. QED
    BY <1>1, <2>1
<1>5. QED
  BY <1>1, <1>2, <1>3, <1>4 DEF TellerActs

LEMMA UnattendedMoves == Unattended => UNCHANGED <<clerk, desk, teller, slip>>
BY DEF Unattended, CreatesPaper, PreparesReport, Create, CreatePlain, Preview, SaveReport, Move, SetClosed,
       lossVars, books, countVars

\* Who is asked what a request does next.
LEMMA StepsOf ==
  /\ \A r \in Clerks : r \in Requests /\ NextStepOf[r] = clerk[r] /\ NextStepOf'[r] = clerk'[r]
  /\ \A t \in Tellers : t \in Requests /\ NextStepOf[t] = teller[t] /\ NextStepOf'[t] = teller'[t]
BY CorrectionsAssumption DEF Requests, NextStepOf

\* A step alone: one request acts and nobody else is busy, or nobody is.
LEMMA Modes ==
  ASSUME Inv, Solo, Next, NoteOverlap, ~overlapped'
  PROVE  /\ Solo'
         /\ \/ \E r \in Clerks :
                 /\ ClerkActs(r) /\ UNCHANGED countVars
                 /\ \A q \in Clerks : q # r => clerk'[q] = "idle"
                 /\ \A t \in Tellers : teller'[t] = "idle"
            \/ \E t \in Tellers :
                 /\ TellerActs(t) /\ UNCHANGED lossVars
                 /\ \A u \in Tellers : u # t => teller'[u] = "idle"
                 /\ \A q \in Clerks : clerk'[q] = "idle"
            \/ /\ Unattended
               /\ \A q \in Clerks : clerk'[q] = "idle"
               /\ \A t \in Tellers : teller'[t] = "idle"
<1>1. /\ ~(Cardinality({q \in Requests : NextStepOf'[q] # "idle"}) > 1)
      /\ UNCHANGED NextStepOf => \A q \in Requests : NextStepOf[q] = "idle"
  BY DEF NoteOverlap, Busy
<1>2. ASSUME NEW r \in Requests, \A q \in Requests : q # r => NextStepOf'[q] = NextStepOf[q],
             NextStepOf[r] # "idle" \/ NextStepOf'[r] # "idle"
      PROVE  Solo' /\ \A q \in Requests : q # r => NextStepOf'[q] = "idle"
  <2>1. \A a, b \in Requests : NextStepOf'[a] # "idle" /\ NextStepOf'[b] # "idle" => a = b
    BY <1>1, <1>2, OneMoves DEF Solo
  <2>2. Requests' = Requests
    BY DEF Requests
  <2>3. Solo'
    BY <2>1, <2>2 DEF Solo
  <2>4. QED
    BY <1>2, <2>1, <2>3 DEF Solo
<1>3. ASSUME NEW r \in Clerks, ClerkActs(r), UNCHANGED countVars
      PROVE  Solo' /\ (\A q \in Clerks : q # r => clerk'[q] = "idle") /\ \A t \in Tellers : teller'[t] = "idle"
  <2>1. \A q \in Requests : q # r => NextStepOf'[q] = NextStepOf[q]
    BY <1>3, ClerkMoves, StepsOf DEF Inv, countVars, Requests
  <2>2. NextStepOf[r] # "idle" \/ NextStepOf'[r] # "idle"
    BY <1>3, ClerkMoves, StepsOf DEF Inv
  <2>3. Solo' /\ \A q \in Requests : q # r => NextStepOf'[q] = "idle"
    BY <1>2, <2>1, <2>2, StepsOf
  <2>4. QED
    BY <2>3, StepsOf, CorrectionsAssumption
<1>4. ASSUME NEW t \in Tellers, TellerActs(t), UNCHANGED lossVars
      PROVE  Solo' /\ (\A u \in Tellers : u # t => teller'[u] = "idle") /\ \A q \in Clerks : clerk'[q] = "idle"
  <2>0. onHand \in [Cells -> Int]
    BY LossTypes DEF Inv, LossInv
  <2>1. \A q \in Requests : q # t => NextStepOf'[q] = NextStepOf[q]
    BY <1>4, <2>0, TellerMoves, StepsOf DEF Inv, lossVars, books, Requests
  <2>2. NextStepOf[t] # "idle" \/ NextStepOf'[t] # "idle"
    BY <1>4, <2>0, TellerMoves, StepsOf DEF Inv
  <2>3. Solo' /\ \A q \in Requests : q # t => NextStepOf'[q] = "idle"
    BY <1>2, <2>1, <2>2, StepsOf
  <2>4. QED
    BY <2>3, StepsOf, CorrectionsAssumption
<1>5. ASSUME Unattended
      PROVE  Solo' /\ (\A q \in Clerks : clerk'[q] = "idle") /\ \A t \in Tellers : teller'[t] = "idle"
  <2>1. UNCHANGED <<clerk, teller>>
    BY <1>5, UnattendedMoves
  <2>2. UNCHANGED NextStepOf
    BY <2>1 DEF NextStepOf, Requests
  <2>3. \A q \in Requests : NextStepOf'[q] = "idle"
    BY <1>1, <2>2
  <2>4. Solo'
    BY <2>2 DEF Solo, Requests
  <2>5. QED
    BY <2>3, <2>4, StepsOf
<1>6. QED
  BY <1>3, <1>4, <1>5, NextSplit

-----------------------------------------------------------------------------
(* While no two requests overlap: documents *)

\* What is decided of documents stands, and nothing is booked in a closed month.
DocsStand ==
  /\ \A d \in Docs :
       /\ doc[d].status = "APPROVED" => UNCHANGED <<doc[d], booked[d]>>
       /\ doc[d].status = "REJECTED" => doc'[d].status \in {"REJECTED", "VOID"}
       /\ doc[d].status = "POSTED" => doc'[d].status \in {"POSTED", "VOID"} /\ UNCHANGED posted[d]
       /\ doc[d].status = "VOID" => doc'[d].status = "VOID" /\ UNCHANGED <<booked[d], posted[d]>>
  /\ closed => booked' = booked /\ posted' = posted

LEMMA NothingWritten ==
  ASSUME DocsAgree, UNCHANGED <<doc, request, booked, posted>>
  PROVE  DocsAgree' /\ DocsStand
BY DEF DocsAgree, DocStory, DocsStand

\* One document that is not decided for good gets another status.
LEMMA OneDocWritten ==
  ASSUME LossTypeOK, DocsAgree, NEW d \in Docs, doc[d].status \notin {"none", "APPROVED", "VOID"},
         NEW x \in DocStatuses \ {"none"},
         doc[d].status \in {"REJECTED", "POSTED"} => x = "VOID" /\ posted' = posted,
         doc' = [doc EXCEPT ![d].status = x],
         \A e \in Docs : e # d => booked'[e] = booked[e] /\ posted'[e] = posted[e] /\ request'[e] = request[e],
         closed => booked' = booked /\ posted' = posted, DocStory(d)'
  PROVE  DocsAgree' /\ DocsStand
<1>1. \A e \in Docs : /\ doc'[e].loss = doc[e].loss
                      /\ doc'[e].status = IF e = d THEN x ELSE doc[e].status
                      /\ e # d => doc'[e] = doc[e]
  BY StatusWritten, LossTypes
<1>2. \A e \in Docs : e # d => DocStory(e)'
  BY <1>1 DEF DocsAgree, DocStory
<1>3. DocsAgree'
  BY <1>2 DEF DocsAgree
<1>4. DocsStand
  BY <1>1 DEF DocsStand
<1>5. QED
  BY <1>3, <1>4

\* What is booked was there.
LEMMA BookedFromStock ==
  ASSUME LossTypeOK, NothingOwed, NEW d \in Docs, Bookable(d), Book(d)
  PROVE  /\ NothingOwed'
         /\ \A e \in Docs : booked'[e] = IF e = d THEN booked[d] + RowQty(doc[d].loss) ELSE booked[e]
         /\ posted' = posted
<1> DEFINE n == RowQty(doc[d].loss)
           b == doc[d].loss.cell
           o == doc[d].loss.source
<1>1. n \in Int /\ b \in Cells /\ onHand \in [Cells -> Int] /\ booked \in [Docs -> Int]
  BY DocTypes, LossTypes
<1>2. /\ booked' = [booked EXCEPT ![d] = @ + n]
      /\ onHand' = [onHand EXCEPT ![b] = IF o = "INTERNAL" THEN @ - n ELSE @]
  BY DEF Book, WriteRow, TakeOff
<1>3. o = "INTERNAL" => onHand[b] >= n
  <2>1. onHand[b] >= 0 /\ onHand[b] \in Int /\ doc[d].loss.qty \in Int
    BY <1>1, DocTypes DEF NothingOwed
  <2>2. QED
    BY <2>1 DEF Bookable, BookableBreakage, BookableLost, RowQty, DocKinds
<1> HIDE DEF n, b, o
<1>4. \A c \in Cells : onHand'[c] = IF c = b /\ o = "INTERNAL" THEN onHand[b] - n ELSE onHand[c]
  BY <1>1, <1>2
<1>5. NothingOwed'
  BY <1>1, <1>3, <1>4 DEF NothingOwed
<1>6. \A e \in Docs : booked'[e] = IF e = d THEN booked[d] + n ELSE booked[e]
  BY <1>1, <1>2
<1>8. posted' = posted
  BY DEF Book
<1>7. QED
  BY <1>5, <1>6, <1>8 DEF n

LEMMA ApprovedStatuses ==
  /\ ApprovedStatus[1] = "DEPT_APPROVED" /\ ApprovedStatus[2] = "COST_CONTROL_APPROVED"
  /\ ApprovedStatus[3] = "FINANCE_APPROVED" /\ ApprovedStatus[4] = "APPROVED"
  /\ \A i : i \in StepNos <=> i = 1 \/ i = 2 \/ i = 3 \/ i = 4
BY DEF ApprovedStatus, StepNos

\* A step of a request can be signed when the one before it was the last.
LEMMA OpenSteps ==
  ASSUME LossTypeOK, NEW d \in Docs, DocStory(d), NEW i \in StepNos, OpenFor(d, i)
  PROVE  \E k \in 1 .. 3 :
           /\ i = k + 1 /\ doc[d].status = ApprovedStatus[k]
           /\ request[d].exists /\ request[d].status = "PENDING" /\ request[d].current = i
           /\ \A j \in StepNos : request[d].steps[j] = IF j <= k THEN "APPROVED" ELSE "PENDING"
           /\ booked[d] = 0 /\ posted[d] = 0
           /\ doc[d].status \notin {"none", "APPROVED", "VOID", "REJECTED", "POSTED"}
<1>1. doc[d].status \notin {"APPROVED", "VOID", "REJECTED"} /\ request[d].exists /\ i = request[d].current
  BY DEF OpenFor
<1>2. PICK k \in StepNos :
        /\ doc[d].status = ApprovedStatus[k]
        /\ request[d].status = IF k = 4 THEN "APPROVED" ELSE "PENDING"
        /\ request[d].current = IF k = 4 THEN 4 ELSE k + 1
        /\ \A j \in StepNos : request[d].steps[j] = IF j <= k THEN "APPROVED" ELSE "PENDING"
  BY <1>1 DEF DocStory
<1>3. k # 4
  BY <1>1, <1>2, ApprovedStatuses
<1>4. k \in 1 .. 3 /\ doc[d].status \notin {"none", "POSTED"}
  BY <1>2, <1>3, ApprovedStatuses
<1>5. booked[d] = 0 /\ posted[d] = 0
  BY <1>1 DEF DocStory
<1>6. QED
  BY <1>1, <1>2, <1>3, <1>4, <1>5

LEMMA WrittenStatus ==
  ASSUME doc \in [Docs -> Doc], NEW d \in Docs, NEW x, doc' = [doc EXCEPT ![d].status = x]
  PROVE  doc'[d].status = x /\ doc'[d].loss = doc[d].loss
<1>1. doc[d] \in Doc
  OBVIOUS
<1>2. [doc[d] EXCEPT !.status = x].status = x /\ [doc[d] EXCEPT !.status = x].loss = doc[d].loss
  BY <1>1 DEF Doc
<1>3. QED
  BY <1>2

\* What it means for a document that the request at its desk ends or goes on.
LEMMA FinishesAgree ==
  ASSUME LossInv, DocsAgree, NothingOwed, NEW r \in Clerks, FinishesLoss(r), ClerkHolds(clerk[r], desk[r])
  PROVE  /\ DocsAgree' /\ DocsStand /\ NothingOwed'
         /\ ClerkHolds(clerk[r], desk[r])'
<1>1. clerk[r] # "idle"
  BY DEF FinishesLoss, FinishSubmitLoss, FinishVoidLoss, FinishRejectLoss, FinishSignLoss,
         LookBook, FinishBook, LookLevel, FinishLevel, LookPostPlain, FinishPostPlain, RefuseLoss
<1>2. PICK d \in Docs, i \in StepNos :
        d = desk[r].doc /\ i = desk[r].step /\ doc[d].status # "none" /\ LossTypeOK
  BY <1>1, SignerAtDesk DEF LossInv
<1>3. /\ doc \in [Docs -> Doc] /\ request \in [Docs -> Request] /\ booked \in [Docs -> Int]
      /\ clerk \in [Clerks -> ClerkSteps] /\ desk \in [Clerks -> Desk] /\ request[d] \in Request
      /\ RowQty(doc[d].loss) \in Int /\ doc[d].loss.qty \in Int /\ doc[d].loss.cell \in Cells
      /\ posted \in [Docs -> Int] /\ onHand \in [Cells -> Int]
  BY <1>2, LossTypes, DocTypes
<1>4. DocStory(d)
  BY <1>2 DEF DocsAgree
<1>5. ASSUME PutDown(r) PROVE ClerkHolds(clerk[r], desk[r])'
  <2>1. clerk'[r] = "idle"
    BY <1>3, <1>5 DEF PutDown
  <2>2. QED
    BY <2>1 DEF ClerkHolds
<1>6. UNCHANGED onHand => NothingOwed'
  BY DEF NothingOwed
<1>7. CASE FinishSubmitLoss(r)
  <2>1. doc[d].status = "DRAFT" /\ doc' = [doc EXCEPT ![d].status = "DRAFT"] /\ PutDown(r)
        /\ UNCHANGED <<onHand, request, booked, posted>>
    BY <1>2, <1>7 DEF FinishSubmitLoss, stockRows, books, ClerkHolds
  <2>2. doc' = doc
    BY <1>2, <1>3, <2>1 DEF Doc
  <2>3. QED
    BY <1>5, <1>6, <2>1, <2>2, NothingWritten
<1>8. CASE FinishVoidLoss(r)
  <2>1. doc[d].status \notin {"none", "APPROVED", "VOID"} /\ doc' = [doc EXCEPT ![d].status = "VOID"] /\ PutDown(r)
        /\ UNCHANGED <<onHand, request, booked, posted>>
    BY <1>2, <1>8 DEF FinishVoidLoss, stockRows, books, ClerkHolds
  <2>2. "VOID" \in DocStatuses \ {"none"}
    BY DEF DocStatuses
  <2>3. doc'[d].status = "VOID"
    BY <1>2, <1>3, <2>1, WrittenStatus
  <2>4. DocStory(d)'
    BY <1>4, <2>1, <2>3 DEF DocStory
  <2>5. QED
    BY <1>2, <1>5, <1>6, <2>1, <2>2, <2>4, OneDocWritten
<1>9. CASE FinishRejectLoss(r)
  <2>1. /\ OpenFor(d, i) /\ doc' = [doc EXCEPT ![d].status = "REJECTED"]
        /\ request' = [request EXCEPT ![d].steps[i] = "REJECTED", ![d].status = "REJECTED"]
        /\ PutDown(r) /\ UNCHANGED <<onHand, booked, posted>>
    BY <1>2, <1>9 DEF FinishRejectLoss, stockRows, books, ClerkHolds
  <2>2. "REJECTED" \in DocStatuses \ {"none"}
    BY DEF DocStatuses
  <2>3. doc'[d].status = "REJECTED"
    BY <1>2, <1>3, <2>1, WrittenStatus
  <2>4. request'[d].status = "REJECTED" /\ request'[d].steps[i] = "REJECTED"
        /\ \A e \in Docs : e # d => request'[e] = request[e]
    BY <1>2, <1>3, <2>1 DEF Request
  <2>5. booked[d] = 0 /\ posted[d] = 0 /\ doc[d].status \notin {"none", "APPROVED", "VOID", "REJECTED", "POSTED"}
    BY <1>2, <1>4, <2>1, OpenSteps
  <2>6. DocStory(d)'
    BY <1>2, <2>1, <2>3, <2>4, <2>5 DEF DocStory
  <2>7. QED
    BY <1>2, <1>5, <1>6, <2>1, <2>2, <2>4, <2>5, <2>6, OneDocWritten
<1>10. CASE FinishSignLoss(r)
  <2>1. /\ OpenFor(d, i) /\ doc' = [doc EXCEPT ![d].status = ApprovedStatus[i]] /\ i < 4
        /\ request' = [request EXCEPT ![d].steps[i] = "APPROVED", ![d].current = i + 1]
        /\ PutDown(r) /\ UNCHANGED <<onHand, booked, posted>>
    BY <1>2, <1>10 DEF FinishSignLoss, stockRows, books, ClerkHolds
  <2>2. ApprovedStatus[i] \in DocStatuses \ {"none", "APPROVED", "REJECTED", "VOID", "POSTED"}
    BY <1>2, <2>1, ApprovedStatuses DEF DocStatuses
  <2>3. doc'[d].status = ApprovedStatus[i]
    BY <1>2, <1>3, <2>1, WrittenStatus
  <2>4. PICK k \in 1 .. 3 :
          /\ i = k + 1 /\ request[d].status = "PENDING" /\ booked[d] = 0 /\ posted[d] = 0
          /\ \A j \in StepNos : request[d].steps[j] = IF j <= k THEN "APPROVED" ELSE "PENDING"
          /\ doc[d].status \notin {"none", "APPROVED", "VOID", "REJECTED", "POSTED"}
    BY <1>2, <1>4, <2>1, OpenSteps
  <2>5. /\ request'[d].status = "PENDING" /\ request'[d].current = i + 1
        /\ \A j \in StepNos : request'[d].steps[j] = IF j = i THEN "APPROVED" ELSE request[d].steps[j]
        /\ \A e \in Docs : e # d => request'[e] = request[e]
    BY <1>2, <1>3, <2>1, <2>4 DEF Request
  <2>6. \A j \in StepNos : request'[d].steps[j] = IF j <= i THEN "APPROVED" ELSE "PENDING"
    BY <2>4, <2>5 DEF StepNos
  <2>7. booked'[d] = 0 /\ posted'[d] = 0 /\ doc'[d].status \notin {"APPROVED", "POSTED"}
    BY <2>1, <2>2, <2>3, <2>4
  <2>8. DocStory(d)'
    <3>1. /\ doc'[d].status = ApprovedStatus[i] /\ i \in StepNos /\ i # 4
          /\ request'[d].status = "PENDING" /\ request'[d].current = i + 1
      BY <1>2, <2>1, <2>3, <2>5
    <3>2. QED
      BY <2>6, <2>7, <3>1 DEF DocStory
  <2>9. QED
    BY <1>2, <1>5, <1>6, <2>1, <2>2, <2>4, <2>5, <2>8, OneDocWritten
<1>11. CASE LookBook(r) \/ LookLevel(r) \/ LookPostPlain(r)
  <2>1. /\ UNCHANGED <<onHand, closed, doc, request, booked, posted, desk>>
        /\ \/ clerk[r] = "sign" /\ desk[r].approve /\ i = 4 /\ clerk'[r] = "book" /\ Bookable(d)
           \/ clerk[r] = "level" /\ i = 4 /\ clerk'[r] = "book_level" /\ Bookable(d)
           \/ clerk[r] = "post" /\ clerk'[r] = "book_post" /\ onHand[doc[d].loss.cell] >= doc[d].loss.qty
    BY <1>2, <1>3, <1>11 DEF LookBook, LookLevel, LookPostPlain, stockRows, books
  <2>2. ClerkHolds(clerk'[r], desk[r])
    <3>1. CASE clerk[r] = "sign"
      <4>1. OpenFor(d, i) /\ ~closed /\ clerk'[r] = "book"
        BY <1>2, <2>1, <3>1 DEF ClerkHolds
      <4>2. QED
        BY <1>2, <2>1, <3>1, <4>1 DEF ClerkHolds
    <3>2. CASE clerk[r] = "level"
      <4>1. doc[d].status \in Levels /\ i = LevelOf(doc[d].status) /\ ~closed /\ clerk'[r] = "book_level"
        BY <1>2, <2>1, <3>2 DEF ClerkHolds
      <4>2. QED
        BY <1>2, <2>1, <3>2, <4>1 DEF ClerkHolds
    <3>4. CASE clerk[r] = "post"
      <4>1. doc[d].status = "DRAFT" /\ ~closed /\ clerk'[r] = "book_post"
        BY <1>2, <2>1, <3>4 DEF ClerkHolds
      <4>2. QED
        BY <1>2, <2>1, <3>4, <4>1 DEF ClerkHolds
    <3>3. QED
      BY <2>1, <3>1, <3>2, <3>4
  <2>3. ASSUME NEW s, NEW j, ClerkHolds(s, j) PROVE ClerkHolds(s, j)'
    <3>1. \A e, k : OpenFor(e, k) => OpenFor(e, k)'
      BY <2>1 DEF OpenFor
    <3>2. \A e : Bookable(e) => Bookable(e)'
      BY <2>1 DEF Bookable, BookableBreakage, BookableLost, HasRows
    <3>3. QED
      BY <2>1, <2>3, <3>1, <3>2 DEF ClerkHolds
  <2>4. ClerkHolds(clerk[r], desk[r])'
    BY <2>1, <2>2, <2>3
  <2>5. QED
    BY <1>6, <2>1, <2>4, NothingWritten
<1>12. CASE FinishBook(r)
  <2>1. /\ OpenFor(d, i) /\ i = 4 /\ ~closed /\ Bookable(d) /\ Book(d)
        /\ doc' = [doc EXCEPT ![d].status = "APPROVED"]
        /\ request' = [request EXCEPT ![d].steps[4] = "APPROVED", ![d].status = "APPROVED", ![d].current = 4]
        /\ PutDown(r)
    BY <1>2, <1>12 DEF FinishBook, ClerkHolds
  <2>2. "APPROVED" \in DocStatuses \ {"none"} /\ 4 \in StepNos
    BY DEF DocStatuses, StepNos
  <2>3. doc'[d].status = "APPROVED" /\ doc'[d].loss = doc[d].loss
    BY <1>2, <1>3, <2>1, WrittenStatus
  <2>4. PICK k \in 1 .. 3 :
          /\ i = k + 1 /\ booked[d] = 0 /\ posted[d] = 0
          /\ \A j \in StepNos : request[d].steps[j] = IF j <= k THEN "APPROVED" ELSE "PENDING"
          /\ doc[d].status \notin {"none", "APPROVED", "VOID", "REJECTED", "POSTED"}
    BY <1>2, <1>4, <2>1, OpenSteps
  <2>5. /\ request'[d].status = "APPROVED" /\ request'[d].current = 4
        /\ \A j \in StepNos : request'[d].steps[j] = IF j = 4 THEN "APPROVED" ELSE request[d].steps[j]
        /\ \A e \in Docs : e # d => request'[e] = request[e]
    BY <1>2, <1>3, <2>1, <2>2 DEF Request
  <2>6. \A j \in StepNos : request'[d].steps[j] = IF j <= 4 THEN "APPROVED" ELSE "PENDING"
    BY <2>1, <2>4, <2>5 DEF StepNos
  <2>7. NothingOwed' /\ posted' = posted /\ booked'[d] = booked[d] + RowQty(doc[d].loss)
        /\ \A e \in Docs : e # d => booked'[e] = booked[e]
    BY <1>2, <2>1, BookedFromStock
  <2>8. booked'[d] = RowQty(doc'[d].loss)
    <3>1. booked'[d] = 0 + RowQty(doc[d].loss)
      BY <2>4, <2>7
    <3>2. QED
      BY <1>3, <2>3, <3>1, ZeroPlus
  <2>9. DocStory(d)'
    <3>1. doc'[d].status = ApprovedStatus[4]
      BY <2>3, ApprovedStatuses
    <3>2. QED
      BY <2>2, <2>3, <2>4, <2>5, <2>6, <2>7, <2>8, <3>1 DEF DocStory
  <2>10. DocsAgree' /\ DocsStand
    BY <1>2, <2>1, <2>2, <2>4, <2>5, <2>7, <2>9, OneDocWritten
  <2>11. QED
    BY <1>5, <2>1, <2>7, <2>10
<1>13. CASE FinishLevel(r)
  <2>1. /\ doc[d].status \in Levels /\ (i = 4 => ~closed /\ Bookable(d) /\ Book(d))
        /\ i # 4 => UNCHANGED <<onHand, booked, posted>>
        /\ doc' = [doc EXCEPT ![d].status = ApprovedStatus[i]]
        /\ PutDown(r) /\ UNCHANGED request
        /\ clerk[r] \in {"level", "book_level"}
    BY <1>2, <1>13 DEF FinishLevel, ClerkHolds, stockRows, books
  <2>2. ~request[d].exists
    BY <1>1, <1>2, <2>1, SignerAtDesk
  <2>3. ApprovedStatus[i] \in DocStatuses \ {"none", "POSTED"} /\ (ApprovedStatus[i] = "APPROVED" <=> i = 4)
    BY <1>2, ApprovedStatuses DEF DocStatuses
  <2>4. doc'[d].status = ApprovedStatus[i] /\ doc'[d].loss = doc[d].loss
    BY <1>2, <1>3, <2>1, WrittenStatus
  <2>5. doc[d].status \notin {"none", "APPROVED", "VOID", "REJECTED", "POSTED"}
    BY <2>1 DEF Levels
  <2>6. booked[d] = 0 /\ posted[d] = 0
    BY <1>4, <2>5 DEF DocStory
  <2>14. posted' = posted
    BY <1>2, <2>1, BookedFromStock
  <2>7. i = 4 => /\ NothingOwed' /\ booked'[d] = booked[d] + RowQty(doc[d].loss)
                 /\ \A e \in Docs : e # d => booked'[e] = booked[e]
    BY <1>2, <2>1, BookedFromStock
  <2>8. booked'[d] = IF i = 4 THEN RowQty(doc'[d].loss) ELSE 0
    <3>1. CASE i = 4
      <4>1. booked'[d] = 0 + RowQty(doc[d].loss)
        BY <2>6, <2>7, <3>1
      <4>2. QED
        BY <1>3, <2>4, <3>1, <4>1, ZeroPlus
    <3>2. CASE i # 4
      BY <2>1, <2>6, <3>2
    <3>3. QED
      BY <3>1, <3>2
  <2>9. DocStory(d)'
    BY <2>1, <2>2, <2>3, <2>4, <2>6, <2>8, <2>14 DEF DocStory
  <2>10. \A e \in Docs : e # d => booked'[e] = booked[e] /\ posted'[e] = posted[e] /\ request'[e] = request[e]
    BY <2>1, <2>7, <2>14
  <2>11. closed => booked' = booked /\ posted' = posted
    BY <2>1, <2>14
  <2>12. DocsAgree' /\ DocsStand
    BY <1>2, <2>1, <2>3, <2>5, <2>9, <2>10, <2>11, OneDocWritten
  <2>13. QED
    BY <1>5, <1>6, <2>1, <2>7, <2>12
<1>14. CASE RefuseLoss(r)
  BY <1>5, <1>6, <1>14, NothingWritten DEF RefuseLoss, stockRows, books
<1>16. CASE FinishPostPlain(r)
  <2> DEFINE n == doc[d].loss.qty
             c == doc[d].loss.cell
  <2>1. /\ doc[d].status = "DRAFT" /\ ~closed /\ onHand[c] >= n
        /\ onHand' = [onHand EXCEPT ![c] = @ - n] /\ posted' = [posted EXCEPT ![d] = @ + n]
        /\ doc' = [doc EXCEPT ![d].status = "POSTED"]
        /\ PutDown(r) /\ UNCHANGED <<request, booked>> /\ clerk[r] = "book_post"
    BY <1>2, <1>16 DEF FinishPostPlain, ClerkHolds
  <2>2. "POSTED" \in DocStatuses \ {"none"} /\ ~request[d].exists
    BY <1>1, <1>2, <2>1, SignerAtDesk DEF DocStatuses
  <2>3. doc'[d].status = "POSTED" /\ doc'[d].loss = doc[d].loss
    BY <1>2, <1>3, <2>1, WrittenStatus
  <2>4. booked[d] = 0 /\ posted[d] = 0
    BY <1>4, <2>1 DEF DocStory
  <2>5. posted'[d] = n /\ \A e \in Docs : e # d => posted'[e] = posted[e]
    BY <1>2, <1>3, <2>1, <2>4
  <2>6. DocStory(d)'
    BY <2>1, <2>2, <2>3, <2>4, <2>5 DEF DocStory
  <2>7. NothingOwed'
    BY <1>3, <2>1 DEF NothingOwed
  <2>8. DocsAgree' /\ DocsStand
    <3> HIDE DEF n, c
    <3>1. QED
      BY <1>2, <2>1, <2>2, <2>5, <2>6, OneDocWritten
  <2>9. QED
    BY <1>5, <2>1, <2>7, <2>8
<1>15. QED
  BY <1>7, <1>8, <1>9, <1>10, <1>11, <1>12, <1>13, <1>14, <1>16 DEF FinishesLoss

LEMMA BeginsAgree ==
  ASSUME LossInv, DocsAgree, NothingOwed, NEW r \in Clerks, NEW d \in Docs, BeginsLoss(r, d)
  PROVE  /\ DocsAgree' /\ DocsStand /\ NothingOwed'
         /\ ClerkHolds(clerk[r], desk[r])'
<1>1. PICK step \in {"submit", "sign", "void", "level", "post"}, j \in Desk : TakeUp(r, step, j) /\ ClerkHolds(step, j)
  BY BeginsLossHow
<1>2. /\ clerk' = [clerk EXCEPT ![r] = step] /\ desk' = [desk EXCEPT ![r] = j]
      /\ UNCHANGED <<onHand, closed, doc, request, booked, posted>>
  BY <1>1 DEF TakeUp, stockRows, books
<1>3. clerk'[r] = step /\ desk'[r] = j
  BY <1>2, LossTypes DEF LossInv
<1>4. ClerkHolds(step, j)'
  BY <1>1, <1>2 DEF ClerkHolds, OpenFor, Bookable, BookableBreakage, BookableLost
<1>5. NothingOwed'
  BY <1>2 DEF NothingOwed
<1>6. QED
  BY <1>2, <1>3, <1>4, <1>5, NothingWritten

LEMMA CreatesAgree ==
  ASSUME LossInv, DocsAgree, CreatesPaper
  PROVE  DocsAgree' /\ DocsStand /\ UNCHANGED <<onHand, closed, booked, posted>> /\ UNCHANGED countVars
<1>1. PICK d \in Docs, f \in Losses : /\ Create(d, f) \/ \E r \in Clerks : CreatePlain(r, d, f)
                                      /\ UNCHANGED countVars
  BY DEF CreatesPaper
<1>2. PICK x \in {"DEPT_APPROVED", "DRAFT"} :
        /\ doc' = [doc EXCEPT ![d] = [loss |-> f, status |-> x]]
        /\ request' = IF x = "DRAFT" THEN request ELSE [request EXCEPT ![d] = NewRequest]
        /\ doc[d].status = "none"
        /\ UNCHANGED <<onHand, closed, booked, posted>>
  BY <1>1 DEF Create, CreatePlain, stockRows, books
<1>3. doc \in [Docs -> Doc] /\ request \in [Docs -> Request]
  BY LossTypes DEF LossInv
<1>4. /\ doc'[d].status = x
      /\ \A e \in Docs : e # d => doc'[e] = doc[e] /\ request'[e] = request[e]
      /\ request'[d] = IF x = "DRAFT" THEN request[d] ELSE NewRequest
  BY <1>2, <1>3
<1>5. booked[d] = 0 /\ posted[d] = 0 /\ ~request[d].exists
  BY <1>2 DEF LossInv, NothingBefore
<1>6. DocStory(d)'
  <2>1. booked'[d] = 0 /\ posted'[d] = 0 /\ doc'[d].status \notin {"APPROVED", "POSTED"}
    BY <1>2, <1>4, <1>5
  <2>2. CASE x = "DRAFT"
    BY <1>4, <1>5, <2>1, <2>2 DEF DocStory
  <2>3. CASE x = "DEPT_APPROVED"
    <3>1. /\ doc'[d].status = ApprovedStatus[1] /\ 1 \in StepNos
          /\ request'[d] = NewRequest
      BY <1>4, <2>3, ApprovedStatuses
    <3>2. /\ NewRequest.status = "PENDING" /\ NewRequest.current = 1 + 1
          /\ \A i \in StepNos : NewRequest.steps[i] = IF i <= 1 THEN "APPROVED" ELSE "PENDING"
      BY DEF NewRequest, StepNos
    <3>3. QED
      BY <2>1, <3>1, <3>2 DEF DocStory
  <2>4. QED
    BY <2>2, <2>3
<1>7. \A e \in Docs : e # d => DocStory(e)'
  BY <1>2, <1>4 DEF DocsAgree, DocStory
<1>8. DocsAgree'
  BY <1>6, <1>7 DEF DocsAgree
<1>9. DocsStand
  BY <1>2, <1>4 DEF DocsStand
<1>10. QED
  BY <1>1, <1>2, <1>8, <1>9

-----------------------------------------------------------------------------
(* While no two requests overlap: sessions and reports *)

SessionsStand ==
  /\ \A s \in Sessions :
       /\ session[s].status = "POSTED" => UNCHANGED <<session[s], adjusted[s]>>
       /\ session[s].status = "REJECTED" => session'[s].status \in {"REJECTED", "VOID"}
       /\ session[s].status = "VOID" => session'[s].status = "VOID"
       /\ session[s].status \notin {"none", "DRAFT"} =>
            session'[s].counted = session[s].counted /\ session'[s].book = session[s].book
  /\ closed => adjusted' = adjusted

ReportsStand ==
  /\ \A p \in Reports : report[p].status \in {"POSTED", "REJECTED"} => UNCHANGED <<report[p], settled[p]>>
  /\ closed => settled' = settled

LEMMA SessionsLeft == SessionsAgree /\ UNCHANGED <<session, adjusted>> => SessionsAgree' /\ SessionsStand
BY DEF SessionsAgree, SessionStory, SessionsStand

LEMMA ReportsLeft == ReportsAgree /\ UNCHANGED <<report, settled>> => ReportsAgree' /\ ReportsStand
BY DEF ReportsAgree, ReportStory, ReportsStand

\* One session that is not posted changes.
LEMMA OneSessionWritten ==
  ASSUME CountTypeOK, SessionsAgree, NEW s \in Sessions, NEW x, session' = [session EXCEPT ![s] = x],
         session[s].status # "POSTED", session[s].status \in {"REJECTED", "VOID"} => x.status = "VOID",
         session[s].status \in {"none", "DRAFT"} \/ (x.counted = session[s].counted /\ x.book = session[s].book),
         \A z \in Sessions : z # s => adjusted'[z] = adjusted[z], closed => adjusted' = adjusted,
         SessionStory(s)'
  PROVE  SessionsAgree' /\ SessionsStand
<1>1. session \in [Sessions -> Session]
  BY CountTypes
<1>2. session'[s] = x /\ \A z \in Sessions : z # s => session'[z] = session[z]
  BY <1>1
<1>3. \A z \in Sessions : z # s => SessionStory(z)'
  BY <1>2 DEF SessionsAgree, SessionStory
<1>4. SessionsStand
  BY <1>2 DEF SessionsStand
<1>5. QED
  BY <1>3, <1>4 DEF SessionsAgree

\* One report that is not decided changes.
LEMMA OneReportWritten ==
  ASSUME CountTypeOK, ReportsAgree, NEW p \in Reports, NEW x, report' = [report EXCEPT ![p] = x],
         report[p].status \notin {"POSTED", "REJECTED"},
         \A z \in Reports : z # p => settled'[z] = settled[z], closed => settled' = settled,
         ReportStory(p)'
  PROVE  ReportsAgree' /\ ReportsStand
<1>1. report \in [Reports -> Report]
  BY CountTypes
<1>2. report'[p] = x /\ \A z \in Reports : z # p => report'[z] = report[z]
  BY <1>1
<1>3. \A z \in Reports : z # p => ReportStory(z)'
  BY <1>2 DEF ReportsAgree, ReportStory
<1>4. ReportsStand
  BY <1>2 DEF ReportsStand
<1>5. QED
  BY <1>3, <1>4 DEF ReportsAgree

LEMMA AdjustCovered ==
  ASSUME NothingOwed, onHand \in [Cells -> Int], NEW c \in Cells, NEW v \in Int, Covers(c, v), Adjust(c, v)
  PROVE  NothingOwed'
<1>1. \A b \in Cells : onHand'[b] = IF b = c THEN onHand[c] + v ELSE onHand[b]
  BY DEF Adjust
<1>2. onHand[c] \in Int /\ onHand[c] >= 0 /\ onHand[c] + v >= 0
  BY DEF NothingOwed, Covers
<1>3. QED
  BY <1>1, <1>2 DEF NothingOwed

LEMMA LeftTable ==
  ASSUME CountInv, NEW t \in Tellers, Leave(t)
  PROVE  TellerHolds(teller[t], slip[t])'
<1>1. teller'[t] = "idle"
  BY CountTypes DEF CountInv, Leave, Proceed
<1>2. QED
  BY <1>1 DEF TellerHolds

\* The lines of a session, as they stand.
LEMMA SessionFields ==
  ASSUME CountTypeOK, NEW s \in Sessions
  PROVE  /\ session[s] \in Session /\ session[s].counted \in Int /\ session[s].book \in Int
         /\ session[s].current \in 0 .. 3 /\ session[s].steps \in [CountSteps -> Verdicts]
         /\ session[s].cell \in Cells /\ adjusted[s] \in Int
BY CountTypes DEF Session, NotCounted

\* A request ends that has written a session.
LEMMA SessionsFinishAgree ==
  ASSUME CountInv, SessionsAgree, NEW t \in Tellers, TellerHolds(teller[t], slip[t]),
         FinishOpen(t) \/ FinishCount(t) \/ FinishSubmit(t) \/ FinishReject(t) \/ FinishSign(t) \/ FinishVoid(t)
  PROVE  /\ SessionsAgree' /\ SessionsStand /\ TellerHolds(teller[t], slip[t])'
         /\ UNCHANGED <<onHand, closed, report, settled>>
<1>1. teller[t] \in SessionSteps
  BY DEF FinishOpen, FinishCount, FinishSubmit, FinishReject, FinishSign, FinishVoid, SessionSteps
<1>2. PICK s \in Sessions : s = slip[t].session
  BY <1>1, TellerAtTable
<1>3. /\ CountTypeOK /\ session \in [Sessions -> Session] /\ session[s] \in Session /\ SessionStory(s)
      /\ session[s].steps \in [CountSteps -> Verdicts] /\ session[s].current \in 0 .. 3
      /\ teller \in [Tellers -> TellerSteps] /\ slip \in [Tellers -> Slip]
  BY CountTypes, SessionFields DEF CountInv, SessionsAgree
<1>4. /\ adjusted' = adjusted /\ UNCHANGED <<onHand, report, settled>>
      /\ session[s].status # "POSTED" => adjusted[s] = 0
  BY <1>3, SessionWritten DEF Rest, stockRows, SessionStory
<1>5. closed' = closed
  BY DEF FinishOpen, FinishCount, FinishSubmit, FinishReject, FinishSign, FinishVoid, Leave
<1>6. ASSUME NEW x, session' = [session EXCEPT ![s] = x], x.status \notin {"POSTED", "PENDING_APPROVAL"},
             session[s].status # "POSTED"
      PROVE  SessionStory(s)'
  <2>1. session'[s] = x
    BY <1>3, <1>6
  <2>2. QED
    BY <1>4, <1>6, <2>1 DEF SessionStory
<1>7. CASE FinishOpen(t)
  <2> DEFINE x == [NoSession EXCEPT !.status = "DRAFT", !.cell = slip[t].cell, !.book = slip[t].qty]
  <2>1. session' = [session EXCEPT ![s] = x] /\ session[s].status = "none" /\ Leave(t)
    BY <1>2, <1>7 DEF FinishOpen
  <2>2. x.status = "DRAFT"
    BY DEF NoSession
  <2> HIDE DEF x
  <2>3. SessionStory(s)'
    BY <1>6, <2>1, <2>2
  <2>4. QED
    BY <1>3, <1>4, <1>5, <2>1, <2>2, <2>3, OneSessionWritten, LeftTable
<1>8. CASE FinishCount(t)
  <2> DEFINE x == [session[s] EXCEPT !.counted = slip[t].qty]
  <2>1. session' = [session EXCEPT ![s] = x] /\ session[s].status = "DRAFT" /\ Leave(t)
    BY <1>2, <1>8 DEF FinishCount, TellerHolds
  <2>2. x.status = "DRAFT"
    BY <1>3, <2>1 DEF Session
  <2> HIDE DEF x
  <2>3. SessionStory(s)'
    BY <1>6, <2>1, <2>2
  <2>4. QED
    BY <1>3, <1>4, <1>5, <2>1, <2>2, <2>3, OneSessionWritten, LeftTable
<1>9. CASE FinishSubmit(t)
  <2> DEFINE unsigned == [i \in CountSteps |-> "PENDING"]
             x == [session[s] EXCEPT !.status = "PENDING_APPROVAL", !.request = session[s].request + 1,
                                     !.current = 0, !.verdict = "PENDING", !.steps = unsigned]
  <2>1. /\ session' = [session EXCEPT ![s] = x] /\ session[s].status = "DRAFT" /\ Leave(t)
        /\ session[s].counted # NotCounted
    BY <1>2, <1>9 DEF FinishSubmit, TellerHolds
  <2>2. /\ x.status = "PENDING_APPROVAL" /\ x.current = 0 /\ x.verdict = "PENDING"
        /\ x.counted = session[s].counted /\ x.book = session[s].book
    BY <1>3 DEF Session
  <2> HIDE DEF x
  <2>3. session'[s] = x
    BY <1>3, <2>1
  <2>4. \A i \in CountSteps : ~(i <= 0)
    BY DEF CountSteps
  <2>5. SessionStory(s)'
    BY <1>4, <2>1, <2>2, <2>3, <2>4 DEF SessionStory
  <2>6. QED
    BY <1>3, <1>4, <1>5, <2>1, <2>2, <2>5, OneSessionWritten, LeftTable
<1>10. CASE FinishReject(t)
  <2> DEFINE x == [Decided(t, session[s]) EXCEPT !.status = "REJECTED"]
  <2>1. /\ session' = [session EXCEPT ![s] = x] /\ session[s].status = "PENDING_APPROVAL" /\ Leave(t)
        /\ session[s].request = slip[t].request /\ ~slip[t].approve
    BY <1>2, <1>10 DEF FinishReject, TellerHolds
  <2>2. Decided(t, session[s]) =
          [session[s] EXCEPT !.steps[slip[t].step] = "REJECTED", !.verdict = "REJECTED"]
    BY <2>1 DEF Decided
  <2>3. /\ x.status = "REJECTED" /\ x.counted = session[s].counted /\ x.book = session[s].book
    BY <1>3, <2>2 DEF Session
  <2> HIDE DEF x
  <2>4. SessionStory(s)'
    BY <1>6, <2>1, <2>3
  <2>5. QED
    BY <1>3, <1>4, <1>5, <2>1, <2>3, <2>4, OneSessionWritten, LeftTable
<1>11. CASE FinishSign(t)
  <2>1. PICK i \in CountSteps : i = slip[t].step
    BY TellerAtTable
  <2> DEFINE x == Decided(t, session[s])
  <2>2. /\ session' = [session EXCEPT ![s] = x] /\ session[s].status = "PENDING_APPROVAL"
        /\ session[s].request = slip[t].request /\ slip[t].approve /\ i = session[s].current + 1
        /\ IF i = 3 THEN teller' = [teller EXCEPT ![t] = "post"] /\ slip' = slip ELSE Leave(t)
    BY <1>2, <1>11, <2>1 DEF FinishSign, TellerHolds, Proceed
  <2>3. x = [session[s] EXCEPT !.steps[i] = "APPROVED", !.current = i,
                               !.verdict = IF i = 3 THEN "APPROVED" ELSE @]
    BY <2>1, <2>2 DEF Decided
  <2>4. /\ x.status = "PENDING_APPROVAL" /\ x.counted = session[s].counted /\ x.book = session[s].book
        /\ x.current = i /\ x.verdict = IF i = 3 THEN "APPROVED" ELSE session[s].verdict
        /\ x.steps = [session[s].steps EXCEPT ![i] = "APPROVED"]
    BY <1>3, <2>2, <2>3 DEF Session
  <2> HIDE DEF x
  <2>5. session'[s] = x
    BY <1>3, <2>2
  <2>6. /\ session[s].counted # NotCounted /\ (session[s].verdict = "APPROVED" <=> session[s].current = 3)
        /\ \A k \in CountSteps : k <= session[s].current => session[s].steps[k] = "APPROVED"
    BY <1>3, <2>2 DEF SessionStory
  <2>7. \A k \in CountSteps : k <= i => x.steps[k] = "APPROVED"
    <3>1. \A k \in CountSteps : k <= i => k = i \/ k <= session[s].current
      BY <1>3, <2>2 DEF CountSteps
    <3>2. QED
      BY <1>3, <2>4, <2>6, <3>1
  <2>8. x.verdict = "APPROVED" <=> i = 3
    <3>1. session[s].current # 3
      BY <2>2 DEF CountSteps
    <3>2. QED
      BY <2>4, <2>6, <3>1
  <2>9. SessionStory(s)'
    <3>1. /\ session'[s].status = "PENDING_APPROVAL" /\ session'[s].counted # NotCounted
          /\ session'[s].current = i /\ adjusted'[s] = 0
      BY <1>4, <2>2, <2>4, <2>5, <2>6
    <3>2. \A k \in CountSteps : k <= session'[s].current => session'[s].steps[k] = "APPROVED"
      BY <2>5, <2>7, <3>1
    <3>3. session'[s].verdict = "APPROVED" <=> session'[s].current = 3
      BY <2>5, <2>8, <3>1
    <3>4. QED
      BY <3>1, <3>2, <3>3 DEF SessionStory
  <2>10. SessionsAgree' /\ SessionsStand
    BY <1>3, <1>4, <2>2, <2>4, <2>9, OneSessionWritten
  <2>11. TellerHolds(teller[t], slip[t])'
    <3>1. CASE i = 3
      <4>1. teller'[t] = "post" /\ slip'[t] = slip[t]
        BY <1>3, <2>2, <3>1
      <4>2. session'[s].status = "PENDING_APPROVAL" /\ session'[s].verdict = "APPROVED"
        BY <2>4, <2>5, <3>1
      <4>3. QED
        BY <1>2, <4>1, <4>2 DEF TellerHolds
    <3>2. CASE i # 3
      BY <2>2, <3>2, LeftTable
    <3>3. QED
      BY <3>1, <3>2
  <2>12. QED
    BY <1>4, <1>5, <2>10, <2>11
<1>12. CASE FinishVoid(t)
  <2> DEFINE x == [session[s] EXCEPT !.status = "VOID"]
  <2>1. session' = [session EXCEPT ![s] = x] /\ session[s].status # "POSTED" /\ Leave(t)
    BY <1>2, <1>12 DEF FinishVoid, TellerHolds
  <2>2. x.status = "VOID" /\ x.counted = session[s].counted /\ x.book = session[s].book
    BY <1>3 DEF Session
  <2> HIDE DEF x
  <2>3. SessionStory(s)'
    BY <1>6, <2>1, <2>2
  <2>4. QED
    BY <1>3, <1>4, <1>5, <2>1, <2>2, <2>3, OneSessionWritten, LeftTable
<1>13. QED
  BY <1>7, <1>8, <1>9, <1>10, <1>11, <1>12

\* A request goes on to post a session, or has posted it.
LEMMA SessionsPostAgree ==
  ASSUME CountInv, SessionsAgree, NothingOwed, onHand \in [Cells -> Int], NEW t \in Tellers,
         TellerHolds(teller[t], slip[t]), BeginPost(t) \/ Look(t) \/ FinishPost(t)
  PROVE  /\ SessionsAgree' /\ SessionsStand /\ TellerHolds(teller[t], slip[t])' /\ NothingOwed'
         /\ UNCHANGED <<closed, report, settled>>
<1>1. teller[t] \in SessionSteps
  BY DEF BeginPost, Look, FinishPost, SessionSteps
<1>2. PICK s \in Sessions : s = slip[t].session
  BY <1>1, TellerAtTable
<1>3. /\ CountTypeOK /\ session \in [Sessions -> Session] /\ session[s] \in Session /\ SessionStory(s)
      /\ session[s].counted \in Int /\ session[s].book \in Int /\ adjusted \in [Sessions -> Int]
      /\ teller \in [Tellers -> TellerSteps] /\ slip \in [Tellers -> Slip]
      /\ slip[t] \in Slip /\ slip[t].cell \in Cells /\ slip[t].qty \in Int
  BY CountTypes, SessionFields, TellerAtTable DEF CountInv, SessionsAgree
<1>4. session[s].status = "PENDING_APPROVAL" /\ session[s].verdict = "APPROVED"
  BY <1>2 DEF TellerHolds, BeginPost, Look, FinishPost
<1>5. UNCHANGED onHand => NothingOwed'
  BY DEF NothingOwed
<1>6. CASE BeginPost(t)
  <2> DEFINE k == [slip[t] EXCEPT !.qty = Variance(session[s]), !.cell = session[s].cell]
  <2>1. /\ UNCHANGED <<onHand, closed, session, report, adjusted, settled>> /\ ~closed
        /\ teller' = [teller EXCEPT ![t] = "look"]
        /\ slip' = [slip EXCEPT ![t] = k]
    BY <1>2, <1>6 DEF BeginPost, Proceed, papers, stockRows
  <2>2. k.session = s /\ k.qty = Variance(session[s]) /\ k.cell = session[s].cell
    BY <1>2, <1>3 DEF Slip
  <2> HIDE DEF k
  <2>3. teller'[t] = "look" /\ slip'[t] = k
    BY <1>3, <2>1
  <2>4. Variance(session'[s]) = Variance(session[s])
    BY <2>1
  <2>5. TellerHolds(teller[t], slip[t])'
    BY <1>4, <2>1, <2>2, <2>3, <2>4 DEF TellerHolds
  <2>6. QED
    BY <1>5, <2>1, <2>5, SessionsLeft
<1>7. CASE Look(t)
  <2>1. /\ UNCHANGED <<onHand, closed, session, report, adjusted, settled, slip>>
        /\ Covers(slip[t].cell, slip[t].qty) /\ teller' = [teller EXCEPT ![t] = "adjust"]
        /\ slip[t].cell = session[s].cell /\ slip[t].qty = Variance(session[s]) /\ ~closed
    BY <1>2, <1>7 DEF Look, Proceed, papers, stockRows, TellerHolds
  <2>2. teller'[t] = "adjust" /\ slip'[t] = slip[t] /\ slip'[t].session = s
    BY <1>2, <1>3, <2>1
  <2>3. /\ session'[s].status = "PENDING_APPROVAL" /\ session'[s].verdict = "APPROVED" /\ ~closed'
        /\ slip'[t].cell = session'[s].cell /\ slip'[t].qty = Variance(session'[s])
    BY <1>4, <2>1, <2>2
  <2>4. Covers(slip[t].cell, slip[t].qty)'
    BY <2>1 DEF Covers
  <2>5. TellerHolds(teller[t], slip[t])'
    BY <2>2, <2>3, <2>4 DEF TellerHolds
  <2>6. QED
    BY <1>5, <2>1, <2>5, SessionsLeft
<1>8. CASE FinishPost(t)
  <2> DEFINE x == [session[s] EXCEPT !.status = "POSTED"]
  <2>1. /\ Leave(t) /\ Adjust(slip[t].cell, slip[t].qty) /\ Covers(slip[t].cell, slip[t].qty)
        /\ adjusted' = [adjusted EXCEPT ![s] = @ + slip[t].qty]
        /\ session' = [session EXCEPT ![s] = x]
        /\ UNCHANGED <<report, settled>> /\ ~closed
        /\ slip[t].qty = Variance(session[s])
    BY <1>2, <1>8 DEF FinishPost, TellerHolds
  <2>2. /\ x.status = "POSTED" /\ x.counted = session[s].counted /\ x.book = session[s].book
        /\ x.verdict = session[s].verdict /\ x.steps = session[s].steps
    BY <1>3 DEF Session
  <2>3. /\ session[s].counted # NotCounted /\ session[s].current = 3 /\ adjusted[s] = 0
        /\ \A i \in CountSteps : i <= 3 => session[s].steps[i] = "APPROVED"
    BY <1>3, <1>4 DEF SessionStory
  <2> HIDE DEF x
  <2>4. session'[s] = x
    BY <1>3, <2>1
  <2>5. adjusted'[s] = x.counted - x.book
    <3>1. slip[t].qty = session[s].counted - session[s].book
      BY <2>1, <2>3 DEF Variance
    <3>2. adjusted'[s] = 0 + slip[t].qty
      BY <1>3, <2>1, <2>3
    <3>3. QED
      BY <1>3, <2>2, <3>1, <3>2
  <2>6. \A i \in CountSteps : x.steps[i] = "APPROVED"
    BY <2>2, <2>3 DEF CountSteps
  <2>7. SessionStory(s)'
    BY <1>4, <2>2, <2>4, <2>5, <2>6 DEF SessionStory
  <2>8. SessionsAgree' /\ SessionsStand
    BY <1>3, <1>4, <2>1, <2>2, <2>7, OneSessionWritten
  <2>9. NothingOwed'
    BY <1>3, <2>1, AdjustCovered
  <2>10. closed' = closed
    BY <2>1 DEF Leave
  <2>11. QED
    BY <2>1, <2>8, <2>9, <2>10, LeftTable
<1>9. QED
  BY <1>6, <1>7, <1>8

\* A request about a report ends or goes on.
LEMMA ReportsFinishAgree ==
  ASSUME CountInv, ReportsAgree, NothingOwed, onHand \in [Cells -> Int], NEW t \in Tellers,
         TellerHolds(teller[t], slip[t]),
         \/ FinishSubmitReport(t) \/ FinishDecideReport(t)
         \/ BeginPostReport(t) \/ LookReport(t) \/ FinishPostReport(t)
  PROVE  /\ ReportsAgree' /\ ReportsStand /\ TellerHolds(teller[t], slip[t])' /\ NothingOwed'
         /\ UNCHANGED <<closed, session, adjusted>>
<1>1. teller[t] \in ReportSteps
  BY DEF FinishSubmitReport, FinishDecideReport, BeginPostReport, LookReport, FinishPostReport, ReportSteps
<1>2. PICK p \in Reports : p = slip[t].report
  BY <1>1, TellerAtTable
<1>3. /\ CountTypeOK /\ report \in [Reports -> Report] /\ report[p] \in Report /\ ReportStory(p)
      /\ report[p].counted \in Int /\ report[p].book \in Int /\ settled \in [Reports -> Int]
      /\ teller \in [Tellers -> TellerSteps] /\ slip \in [Tellers -> Slip]
      /\ slip[t] \in Slip /\ slip[t].cell \in Cells /\ slip[t].qty \in Int
  <2>1. report \in [Reports -> Report]
    BY CountTypes DEF CountInv
  <2>2. report[p].counted \in Int /\ report[p].book \in Int
    BY <2>1 DEF Report
  <2>3. QED
    BY <2>1, <2>2, CountTypes, TellerAtTable DEF CountInv, ReportsAgree
<1>4. report[p].status \notin {"POSTED", "REJECTED"}
  BY <1>2 DEF TellerHolds, FinishSubmitReport, FinishDecideReport, BeginPostReport, LookReport, FinishPostReport
<1>5. settled[p] = 0
  BY <1>3, <1>4 DEF ReportStory
<1>6. UNCHANGED onHand => NothingOwed'
  BY DEF NothingOwed
<1>7. ASSUME NEW x, report' = [report EXCEPT ![p] = x], x.status # "POSTED", UNCHANGED settled
      PROVE  ReportsAgree' /\ ReportsStand
  <2>1. report'[p] = x
    BY <1>3, <1>7
  <2>2. ReportStory(p)'
    BY <1>5, <1>7, <2>1 DEF ReportStory
  <2>3. QED
    BY <1>3, <1>4, <1>7, <2>2, OneReportWritten
<1>8. CASE FinishSubmitReport(t)
  <2> DEFINE x == [report[p] EXCEPT !.status = "PENDING_APPROVAL"]
  <2>1. report' = [report EXCEPT ![p] = x] /\ Leave(t) /\ UNCHANGED <<onHand, session, adjusted, settled>>
    BY <1>2, <1>8 DEF FinishSubmitReport, stockRows
  <2>2. x.status # "POSTED"
    BY <1>3 DEF Report
  <2> HIDE DEF x
  <2>3. closed' = closed
    BY <2>1 DEF Leave
  <2>4. QED
    BY <1>6, <1>7, <2>1, <2>2, <2>3, LeftTable
<1>9. CASE FinishDecideReport(t) /\ ~slip[t].approve
  <2> DEFINE x == [report[p] EXCEPT !.verdict = "REJECTED", !.status = "REJECTED"]
  <2>1. report' = [report EXCEPT ![p] = x] /\ Leave(t) /\ UNCHANGED <<onHand, session, adjusted, settled>>
    BY <1>2, <1>9 DEF FinishDecideReport, stockRows
  <2>2. x.status # "POSTED"
    BY <1>3 DEF Report
  <2> HIDE DEF x
  <2>3. closed' = closed
    BY <2>1 DEF Leave
  <2>4. QED
    BY <1>6, <1>7, <2>1, <2>2, <2>3, LeftTable
<1>10. CASE FinishDecideReport(t) /\ slip[t].approve
  <2> DEFINE x == [report[p] EXCEPT !.verdict = "APPROVED"]
  <2>1. /\ report' = [report EXCEPT ![p] = x] /\ UNCHANGED <<onHand, closed, session, adjusted, settled>>
        /\ teller' = [teller EXCEPT ![t] = "post report"] /\ slip' = slip
        /\ report[p].status = "PENDING_APPROVAL"
    BY <1>2, <1>10 DEF FinishDecideReport, stockRows, Proceed, TellerHolds
  <2>2. x.status = "PENDING_APPROVAL" /\ x.verdict = "APPROVED"
    BY <1>3, <2>1 DEF Report
  <2> HIDE DEF x
  <2>3. report'[p] = x /\ teller'[t] = "post report" /\ slip'[t].report = p
    BY <1>2, <1>3, <2>1
  <2>4. TellerHolds(teller[t], slip[t])'
    BY <2>2, <2>3 DEF TellerHolds
  <2>5. x.status # "POSTED"
    BY <2>2
  <2>6. QED
    BY <1>6, <1>7, <2>1, <2>4, <2>5
<1>11. CASE BeginPostReport(t)
  <2> DEFINE n == report[p].counted - report[p].book
             k == [slip[t] EXCEPT !.qty = n, !.cell = report[p].cell]
  <2>1. /\ UNCHANGED <<onHand, closed, session, report, adjusted, settled>> /\ ~closed
        /\ teller' = [teller EXCEPT ![t] = "look report"]
        /\ slip' = [slip EXCEPT ![t] = k]
        /\ report[p].status = "PENDING_APPROVAL" /\ report[p].verdict = "APPROVED"
    BY <1>2, <1>11 DEF BeginPostReport, Proceed, papers, stockRows, TellerHolds
  <2>2. k.report = p /\ k.qty = n /\ k.cell = report[p].cell
    BY <1>2, <1>3 DEF Slip
  <2> HIDE DEF k
  <2>3. teller'[t] = "look report" /\ slip'[t] = k
    BY <1>3, <2>1
  <2>4. /\ report'[p].status = "PENDING_APPROVAL" /\ report'[p].verdict = "APPROVED" /\ ~closed'
        /\ slip'[t].cell = report'[p].cell /\ slip'[t].qty = report'[p].counted - report'[p].book
        /\ slip'[t].report = p
    BY <2>1, <2>2, <2>3
  <2>5. TellerHolds(teller[t], slip[t])'
    BY <2>3, <2>4 DEF TellerHolds
  <2>6. QED
    BY <1>6, <2>1, <2>5, ReportsLeft
<1>12. CASE LookReport(t)
  <2>1. /\ UNCHANGED <<onHand, closed, session, report, adjusted, settled, slip>>
        /\ Covers(slip[t].cell, slip[t].qty) /\ teller' = [teller EXCEPT ![t] = "adjust report"]
        /\ slip[t].cell = report[p].cell /\ slip[t].qty = report[p].counted - report[p].book /\ ~closed
        /\ report[p].status = "PENDING_APPROVAL" /\ report[p].verdict = "APPROVED"
    BY <1>2, <1>12 DEF LookReport, Proceed, papers, stockRows, TellerHolds
  <2>2. teller'[t] = "adjust report" /\ slip'[t] = slip[t] /\ slip'[t].report = p
    BY <1>2, <1>3, <2>1
  <2>3. /\ report'[p].status = "PENDING_APPROVAL" /\ report'[p].verdict = "APPROVED" /\ ~closed'
        /\ slip'[t].cell = report'[p].cell /\ slip'[t].qty = report'[p].counted - report'[p].book
    BY <2>1, <2>2
  <2>4. Covers(slip[t].cell, slip[t].qty)'
    BY <2>1 DEF Covers
  <2>5. TellerHolds(teller[t], slip[t])'
    BY <2>2, <2>3, <2>4 DEF TellerHolds
  <2>6. QED
    BY <1>6, <2>1, <2>5, ReportsLeft
<1>13. CASE FinishPostReport(t)
  <2> DEFINE x == [report[p] EXCEPT !.status = "POSTED"]
  <2>1. /\ Leave(t) /\ Adjust(slip[t].cell, slip[t].qty) /\ Covers(slip[t].cell, slip[t].qty)
        /\ settled' = [settled EXCEPT ![p] = @ + slip[t].qty]
        /\ report' = [report EXCEPT ![p] = x]
        /\ UNCHANGED <<session, adjusted>> /\ ~closed
        /\ slip[t].qty = report[p].counted - report[p].book
        /\ report[p].verdict = "APPROVED"
    BY <1>2, <1>13 DEF FinishPostReport, TellerHolds
  <2>2. /\ x.status = "POSTED" /\ x.counted = report[p].counted /\ x.book = report[p].book
        /\ x.verdict = report[p].verdict
    BY <1>3 DEF Report
  <2> HIDE DEF x
  <2>3. report'[p] = x
    BY <1>3, <2>1
  <2>4. settled'[p] = x.counted - x.book
    <3>1. settled'[p] = 0 + slip[t].qty
      BY <1>3, <1>5, <2>1
    <3>2. QED
      BY <1>3, <2>1, <2>2, <3>1
  <2>5. ReportStory(p)'
    BY <2>1, <2>2, <2>3, <2>4 DEF ReportStory
  <2>6. \A z \in Reports : z # p => settled'[z] = settled[z]
    BY <1>3, <2>1
  <2>7. ReportsAgree' /\ ReportsStand
    BY <1>3, <1>4, <2>1, <2>5, <2>6, OneReportWritten
  <2>8. NothingOwed'
    BY <1>3, <2>1, AdjustCovered
  <2>9. closed' = closed
    BY <2>1 DEF Leave
  <2>10. QED
    BY <2>1, <2>7, <2>8, <2>9, LeftTable
<1>14. QED
  BY <1>8, <1>9, <1>10, <1>11, <1>12, <1>13

\* A step of a request about sessions and reports.
LEMMA TellersAgree ==
  ASSUME CountInv, SessionsAgree, ReportsAgree, NothingOwed, onHand \in [Cells -> Int], NEW t \in Tellers,
         TellerHolds(teller[t], slip[t]), TellerActs(t)
  PROVE  /\ SessionsAgree' /\ SessionsStand /\ ReportsAgree' /\ ReportsStand
         /\ TellerHolds(teller[t], slip[t])' /\ NothingOwed' /\ closed' = closed
<1>1. UNCHANGED onHand => NothingOwed'
  BY DEF NothingOwed
<1>2. CASE BeginsCount(t)
  <2>1. PICK step \in TellerSteps \ {"idle"}, j \in Slip : Sit(t, step, j) /\ TellerHolds(step, j)
    BY <1>2, BeginsCountHow
  <2>2. /\ teller' = [teller EXCEPT ![t] = step] /\ slip' = [slip EXCEPT ![t] = j]
        /\ UNCHANGED <<onHand, closed, session, report, adjusted, settled>>
    BY <2>1 DEF Sit, papers, stockRows
  <2>3. teller'[t] = step /\ slip'[t] = j
    BY <2>2, CountTypes DEF CountInv
  <2>4. TellerHolds(step, j)'
    BY <2>1, <2>2 DEF TellerHolds, Covers
  <2>5. TellerHolds(teller[t], slip[t])'
    BY <2>3, <2>4
  <2>6. QED
    BY <1>1, <2>2, <2>5, SessionsLeft, ReportsLeft
<1>3. CASE FinishOpen(t) \/ FinishCount(t) \/ FinishSubmit(t) \/ FinishReject(t) \/ FinishSign(t) \/ FinishVoid(t)
  BY <1>1, <1>3, SessionsFinishAgree, ReportsLeft
<1>4. CASE BeginPost(t) \/ Look(t) \/ FinishPost(t)
  BY <1>4, SessionsPostAgree, ReportsLeft
<1>5. CASE \/ FinishSubmitReport(t) \/ FinishDecideReport(t)
           \/ BeginPostReport(t) \/ LookReport(t) \/ FinishPostReport(t)
  BY <1>5, ReportsFinishAgree, SessionsLeft
<1>6. CASE RefuseCount(t)
  <2>1. Leave(t) /\ UNCHANGED <<onHand, session, report, adjusted, settled>> /\ closed' = closed
    BY <1>6 DEF RefuseCount, Leave, papers, stockRows
  <2>2. QED
    BY <1>1, <2>1, LeftTable, SessionsLeft, ReportsLeft
<1>7. QED
  BY <1>2, <1>3, <1>4, <1>5, <1>6 DEF TellerActs, FinishesCount

LEMMA PreparesAgree ==
  ASSUME CountInv, ReportsAgree, PreparesReport
  PROVE  ReportsAgree' /\ ReportsStand /\ UNCHANGED <<onHand, closed, session, adjusted>> /\ UNCHANGED lossVars
<1>1. PICK p, x :
        /\ p \in Reports /\ report' = [report EXCEPT ![p] = x]
        /\ report[p].status \in {"none", "sheet"}
        /\ x.status \in {"sheet", "DRAFT"}
        /\ UNCHANGED <<onHand, closed, session, adjusted, settled>>
  <2>1. ASSUME NEW p \in Reports, NEW c \in Cells, NEW n \in Counted \cup {NotCounted}, Preview(p, c, n)
        PROVE  \E x : /\ report' = [report EXCEPT ![p] = x] /\ report[p].status \in {"none", "sheet"}
                      /\ x.status \in {"sheet", "DRAFT"}
                      /\ UNCHANGED <<onHand, closed, session, adjusted, settled>>
    <3> DEFINE x == [NoReport EXCEPT
                       !.status = "sheet", !.cell = c,
                       !.book = IF n = NotCounted THEN 0 ELSE onHand[c],
                       !.counted = IF n = NotCounted THEN onHand[c] ELSE n,
                       !.outward = IF n = NotCounted THEN 0 ELSE n - onHand[c]]
    <3>1. report' = [report EXCEPT ![p] = x] /\ report[p].status \in {"none", "sheet"}
          /\ UNCHANGED <<onHand, closed, session, adjusted, settled>>
      BY <2>1 DEF Preview, stockRows
    <3>2. x.status = "sheet"
      BY DEF NoReport
    <3> HIDE DEF x
    <3>3. QED
      BY <3>1, <3>2
  <2>2. ASSUME NEW t \in Tellers, NEW p \in Reports, SaveReport(t, p)
        PROVE  \E x : /\ report' = [report EXCEPT ![p] = x] /\ report[p].status \in {"none", "sheet"}
                      /\ x.status \in {"sheet", "DRAFT"}
                      /\ UNCHANGED <<onHand, closed, session, adjusted, settled>>
    <3> DEFINE x == [report[p] EXCEPT !.status = "DRAFT"]
    <3>1. report' = [report EXCEPT ![p] = x] /\ report[p].status = "sheet"
          /\ UNCHANGED <<onHand, closed, session, adjusted, settled>>
      BY <2>2 DEF SaveReport, stockRows
    <3>2. x.status = "DRAFT"
      BY CountTypes DEF CountInv, Report
    <3> HIDE DEF x
    <3>3. QED
      BY <3>1, <3>2
  <2>3. QED
    BY <2>1, <2>2 DEF PreparesReport
<1>2. CountTypeOK /\ report \in [Reports -> Report]
  BY CountTypes DEF CountInv
<1>3. report'[p] = x
  BY <1>1, <1>2
<1>4. ReportStory(p)'
  BY <1>1, <1>3 DEF ReportsAgree, ReportStory
<1>5. ReportsAgree' /\ ReportsStand
  BY <1>1, <1>2, <1>4, OneReportWritten
<1>6. QED
  BY <1>1, <1>5 DEF PreparesReport

-----------------------------------------------------------------------------
(* While no two requests overlap: every step *)

LEMMA IdleHolds ==
  /\ \A j : ClerkHolds("idle", j) /\ TellerHolds("idle", j)
  /\ \A r \in Clerks : clerk'[r] = "idle" => ClerkHolds(clerk[r], desk[r])'
  /\ \A t \in Tellers : teller'[t] = "idle" => TellerHolds(teller[t], slip[t])'
BY DEF ClerkHolds, TellerHolds

\* What a step means for documents, sessions, reports and stock.
LEMMA StoriesGoOn ==
  ASSUME Inv, SerialInv, Next
  PROVE  /\ DocsAgree' /\ DocsStand /\ SessionsAgree' /\ SessionsStand /\ ReportsAgree' /\ ReportsStand
         /\ NothingOwed'
         /\ \A r \in Clerks : ClerkActs(r) /\ UNCHANGED countVars => ClerkHolds(clerk[r], desk[r])'
         /\ \A t \in Tellers : TellerActs(t) /\ UNCHANGED lossVars => TellerHolds(teller[t], slip[t])'
<1>0. onHand \in [Cells -> Int] /\ LossInv /\ CountInv
  BY LossTypes DEF Inv, LossInv
<1>1. UNCHANGED countVars => SessionsAgree' /\ SessionsStand /\ ReportsAgree' /\ ReportsStand
  BY SessionsLeft, ReportsLeft DEF countVars, SerialInv
<1>2. UNCHANGED lossVars => DocsAgree' /\ DocsStand
  BY NothingWritten DEF lossVars, books, SerialInv
<1>3. ASSUME NEW r \in Clerks, ClerkActs(r)
      PROVE  DocsAgree' /\ DocsStand /\ NothingOwed' /\ ClerkHolds(clerk[r], desk[r])'
  BY <1>0, <1>3, BeginsAgree, FinishesAgree DEF ClerkActs, SerialInv
<1>4. ASSUME NEW t \in Tellers, TellerActs(t)
      PROVE  /\ SessionsAgree' /\ SessionsStand /\ ReportsAgree' /\ ReportsStand /\ NothingOwed'
             /\ TellerHolds(teller[t], slip[t])'
  BY <1>0, <1>4, TellersAgree DEF SerialInv
<1>5. CASE Unattended
  <2>1. CASE CreatesPaper
    <3>1. DocsAgree' /\ DocsStand /\ UNCHANGED <<onHand, closed, booked, posted>> /\ UNCHANGED countVars
      BY <1>0, <2>1, CreatesAgree DEF SerialInv
    <3>2. NothingOwed'
      BY <3>1 DEF SerialInv, NothingOwed
    <3>3. QED
      BY <1>1, <1>3, <1>4, <3>1, <3>2
  <2>2. CASE PreparesReport
    <3>1. ReportsAgree' /\ ReportsStand /\ UNCHANGED <<onHand, closed, session, adjusted>> /\ UNCHANGED lossVars
      BY <1>0, <2>2, PreparesAgree DEF SerialInv
    <3>2. NothingOwed' /\ SessionsAgree' /\ SessionsStand
      BY <3>1, SessionsLeft DEF SerialInv, NothingOwed
    <3>3. QED
      BY <1>2, <1>3, <1>4, <3>1, <3>2
  <2>3. ASSUME NEW c \in Cells, NEW n \in Movements, Move(c, n) PROVE NothingOwed'
    <3>1. onHand' = [onHand EXCEPT ![c] = @ + n] /\ onHand[c] + n \in 0 .. MaxStock
      BY <2>3 DEF Move
    <3>2. \A b \in Cells : onHand'[b] = IF b = c THEN onHand[c] + n ELSE onHand[b]
      BY <1>0, <3>1
    <3>3. onHand[c] + n >= 0
      BY <3>1, CorrectionsAssumption
    <3>4. QED
      BY <3>2, <3>3 DEF SerialInv, NothingOwed
  <2>4. ASSUME NEW b \in BOOLEAN, SetClosed(b) PROVE NothingOwed'
    BY <2>4 DEF SetClosed, SerialInv, NothingOwed
  <2>5. (\E c \in Cells, n \in Movements : Move(c, n)) \/ (\E b \in BOOLEAN : SetClosed(b))
          => UNCHANGED lossVars /\ UNCHANGED countVars
    BY DEF Move, SetClosed
  <2>6. QED
    BY <1>1, <1>2, <1>3, <1>4, <1>5, <2>1, <2>2, <2>3, <2>4, <2>5 DEF Unattended
<1>6. CASE \E r \in Clerks : ClerkActs(r) /\ UNCHANGED countVars
  BY <1>1, <1>3, <1>4, <1>6
<1>7. CASE \E t \in Tellers : TellerActs(t) /\ UNCHANGED lossVars
  BY <1>2, <1>3, <1>4, <1>7
<1>8. QED
  BY <1>5, <1>6, <1>7, NextSplit

LEMMA SerialStep ==
  ASSUME Inv, SerialInv, Next, NoteOverlap, ~overlapped'
  PROVE  SerialInv'
<1>1. Solo' /\ DocsAgree' /\ SessionsAgree' /\ ReportsAgree' /\ NothingOwed'
  BY StoriesGoOn, Modes DEF SerialInv
<1>2. /\ \A r \in Clerks : clerk'[r] = "idle" \/ (ClerkActs(r) /\ UNCHANGED countVars)
      /\ \A t \in Tellers : teller'[t] = "idle" \/ (TellerActs(t) /\ UNCHANGED lossVars)
  BY Modes DEF SerialInv
<1>3. /\ \A r \in Clerks : ClerkHolds(clerk[r], desk[r])'
      /\ \A t \in Tellers : TellerHolds(teller[t], slip[t])'
  BY <1>2, StoriesGoOn, IdleHolds
<1>4. QED
  BY <1>1, <1>3 DEF SerialInv

LEMMA FullInit == HistoryInit => FullInv
<1> SUFFICES ASSUME HistoryInit PROVE FullInv
  OBVIOUS
<1>1. /\ onHand = Opening
      /\ doc = [d \in Docs |-> NoDoc] /\ request = [d \in Docs |-> NoRequest]
      /\ booked = [d \in Docs |-> 0] /\ posted = [d \in Docs |-> 0] /\ clerk = [r \in Clerks |-> "idle"]
      /\ session = [s \in Sessions |-> NoSession] /\ report = [p \in Reports |-> NoReport]
      /\ adjusted = [s \in Sessions |-> 0] /\ settled = [p \in Reports |-> 0]
      /\ teller = [t \in Tellers |-> "idle"]
  BY DEF HistoryInit, Init, LossInit, CountInit
<1>2. Solo
  BY <1>1 DEF Solo, NextStepOf, Requests
<1>3. NothingOwed
  BY <1>1, CorrectionsAssumption DEF NothingOwed
<1>4. DocsAgree
  BY <1>1 DEF DocsAgree, DocStory, NoDoc, NoRequest
<1>5. SessionsAgree /\ ReportsAgree
  BY <1>1 DEF SessionsAgree, SessionStory, NoSession, ReportsAgree, ReportStory, NoReport
<1>6. /\ \A r \in Clerks : ClerkHolds(clerk[r], desk[r])
      /\ \A t \in Tellers : TellerHolds(teller[t], slip[t])
  BY <1>1, IdleHolds
<1>7. QED
  BY <1>2, <1>3, <1>4, <1>5, <1>6, InitInv DEF FullInv, SerialInv, HistoryInit

LEMMA FullStep == FullInv /\ [HistoryNext]_<<vars, overlapped>> => FullInv'
<1> SUFFICES ASSUME FullInv, [HistoryNext]_<<vars, overlapped>> PROVE FullInv'
  OBVIOUS
<1>1. [Next]_vars
  BY DEF HistoryNext
<1>2. Inv'
  BY <1>1, NextKeeps DEF FullInv
<1>3. CASE HistoryNext
  <2>1. overlapped => overlapped'
    BY <1>3 DEF HistoryNext, NoteOverlap
  <2>2. ASSUME SerialInv, ~overlapped' PROVE SerialInv'
    BY <1>3, <2>2, SerialStep DEF FullInv, HistoryNext
  <2>3. QED
    BY <1>2, <2>1, <2>2 DEF FullInv
<1>4. CASE UNCHANGED <<vars, overlapped>>
  <2>1. UNCHANGED <<onHand, ledger, closed, doc, request, booked, posted, totals, clerk, desk, overlapped,
                    session, report, adjusted, settled, teller, slip>>
    BY <1>4 DEF vars, lossVars, books, countVars
  <2>2. ASSUME SerialInv PROVE SerialInv'
    <3>1. Solo'
      BY <2>1, <2>2 DEF SerialInv, Solo, NextStepOf, Requests
    <3>2. DocsAgree' /\ SessionsAgree' /\ ReportsAgree'
      BY <2>1, <2>2, NothingWritten, SessionsLeft, ReportsLeft DEF SerialInv
    <3>3. NothingOwed'
      BY <2>1, <2>2 DEF SerialInv, NothingOwed
    <3>4. \A r \in Clerks : ClerkHolds(clerk[r], desk[r])'
      <4>1. ASSUME NEW s, NEW j, ClerkHolds(s, j) PROVE ClerkHolds(s, j)'
        <5>1. \A e, k : OpenFor(e, k) => OpenFor(e, k)'
          BY <2>1 DEF OpenFor
        <5>2. \A e : Bookable(e) => Bookable(e)'
          BY <2>1 DEF Bookable, BookableBreakage, BookableLost, HasRows
        <5>3. QED
          BY <2>1, <4>1, <5>1, <5>2 DEF ClerkHolds
      <4>2. QED
        BY <2>1, <2>2, <4>1 DEF SerialInv
    <3>5. \A t \in Tellers : TellerHolds(teller[t], slip[t])'
      <4>1. ASSUME NEW s, NEW j, TellerHolds(s, j) PROVE TellerHolds(s, j)'
        <5>1. \A c, v : Covers(c, v) => Covers(c, v)'
          BY <2>1 DEF Covers
        <5>2. QED
          BY <2>1, <4>1, <5>1 DEF TellerHolds
      <4>2. QED
        BY <2>1, <2>2, <4>1 DEF SerialInv
    <3>6. QED
      BY <3>1, <3>2, <3>3, <3>4, <3>5 DEF SerialInv
  <2>3. QED
    BY <1>2, <2>1, <2>2 DEF FullInv
<1>5. QED
  BY <1>3, <1>4

LEMMA AlwaysFull == HistorySpec => []FullInv
BY FullInit, FullStep, PTL DEF HistorySpec

LEMMA CountsSettled == FullInv => CountsSettle
BY DEF FullInv, SerialInv, SessionsAgree, ReportsAgree, SessionStory, ReportStory, CountsSettle, Alone

\* While no two requests overlap: what a posted session or report adjusts is
\* what was counted less what the books said, once, after every signature.
THEOREM CountsAreSettled == HistorySpec => []CountsSettle
BY AlwaysFull, CountsSettled, PTL

-----------------------------------------------------------------------------
(* While no two requests overlap: what is decided stands *)

\* What a request begins about a session that is approved and not posted.
LEMMA BegunWhenStranded ==
  ASSUME CountInv, SessionsAgree, NEW t \in Tellers, BeginsCount(t), NEW s \in Sessions,
         session[s].verdict = "APPROVED", session[s].status = "PENDING_APPROVAL"
  PROVE  /\ session' = session
         /\ slip'[t].session = s => teller'[t] = "void"
<1>1. teller \in [Tellers -> TellerSteps] /\ slip \in [Tellers -> Slip] /\ IdleSlip.session = NoPaper
      /\ NoPaper # s
  BY CountTypes, CountsAssumption DEF CountInv, IdleSlip
<1>2. session[s].current = 3
  BY DEF SessionsAgree, SessionStory
<1>3. ASSUME NEW step, NEW j, Sit(t, step, j)
      PROVE  teller'[t] = step /\ slip'[t] = j /\ session' = session
  BY <1>1, <1>3 DEF Sit, papers
<1>4. ASSUME NEW z \in Sessions, NEW c \in Cells, BeginOpen(t, z, c)
      PROVE  session' = session /\ slip'[t].session = z /\ z # s
  <2> DEFINE j == [IdleSlip EXCEPT !.session = z, !.cell = c, !.qty = onHand[c],
                                   !.number = Cardinality(Opened) + 1]
  <2>1. Sit(t, "open", j) /\ session[z].status = "none"
    BY <1>4 DEF BeginOpen
  <2>2. j.session = z
    BY DEF IdleSlip
  <2> HIDE DEF j
  <2>3. QED
    BY <1>3, <2>1, <2>2
<1>5. ASSUME NEW z \in Sessions, NEW n, BeginCount(t, z, n)
      PROVE  session' = session /\ slip'[t].session = z /\ z # s
  <2> DEFINE j == [IdleSlip EXCEPT !.session = z, !.qty = n]
  <2>1. Sit(t, "count", j) /\ session[z].status = "DRAFT"
    BY <1>5 DEF BeginCount, Editable
  <2>2. j.session = z
    BY DEF IdleSlip
  <2> HIDE DEF j
  <2>3. QED
    BY <1>3, <2>1, <2>2
<1>6. ASSUME NEW z \in Sessions, BeginSubmit(t, z)
      PROVE  session' = session /\ slip'[t].session = z /\ z # s
  <2>1. Sit(t, "submit", [IdleSlip EXCEPT !.session = z]) /\ session[z].status = "DRAFT"
    BY <1>6 DEF BeginSubmit
  <2>2. QED
    BY <1>3, <2>1 DEF IdleSlip
<1>7. ASSUME NEW z \in Sessions, BeginVoid(t, z)
      PROVE  session' = session /\ teller'[t] = "void"
  BY <1>3, <1>7 DEF BeginVoid
<1>8. ASSUME NEW z \in Sessions, NEW role, NEW approve, BeginDecide(t, z, role, approve)
      PROVE  session' = session /\ slip'[t].session = z /\ z # s
  <2> DEFINE j == [IdleSlip EXCEPT !.session = z, !.request = session[z].request,
                                   !.step = NextStep(z), !.approve = approve]
  <2>1. Sit(t, "decide", j) /\ NextStep(z) \in CountSteps
    BY <1>8 DEF BeginDecide
  <2>3. j.session = z
    BY DEF IdleSlip
  <2>2. z # s
    BY <1>2, <2>1 DEF NextStep, CountSteps
  <2> HIDE DEF j
  <2>4. QED
    BY <1>3, <2>1, <2>2, <2>3
<1>9. ASSUME NEW p \in Reports, BeginSubmitReport(t, p) \/ \E approve \in BOOLEAN : BeginDecideReport(t, p, approve)
      PROVE  session' = session /\ slip'[t].session = NoPaper
  <2>1. CASE BeginSubmitReport(t, p)
    <3> DEFINE j == [IdleSlip EXCEPT !.report = p]
    <3>1. Sit(t, "submit report", j)
      BY <2>1 DEF BeginSubmitReport
    <3>2. j.session = NoPaper
      BY DEF IdleSlip
    <3> HIDE DEF j
    <3>3. QED
      BY <1>3, <3>1, <3>2
  <2>2. ASSUME NEW approve \in BOOLEAN, BeginDecideReport(t, p, approve)
        PROVE  session' = session /\ slip'[t].session = NoPaper
    <3> DEFINE j == [IdleSlip EXCEPT !.report = p, !.approve = approve]
    <3>1. Sit(t, "decide report", j)
      BY <2>2 DEF BeginDecideReport
    <3>2. j.session = NoPaper
      BY DEF IdleSlip
    <3> HIDE DEF j
    <3>3. QED
      BY <1>3, <3>1, <3>2
  <2>3. QED
    BY <1>9, <2>1, <2>2
<1>10. QED
  BY <1>1, <1>4, <1>5, <1>6, <1>7, <1>8, <1>9 DEF BeginsCount

\* What a request that goes on or ends does to a session nobody but who voids it
\* is at.
LEMMA FinishedWhenStranded ==
  ASSUME CountInv, NEW t \in Tellers, FinishesCount(t), NEW s \in Sessions,
         slip[t].session = s => teller[t] = "void"
  PROVE  /\ session'[s] = session[s] \/ session'[s].status = "VOID"
         /\ slip'[t].session = s => teller'[t] = "void"
<1>1. /\ teller \in [Tellers -> TellerSteps] /\ slip \in [Tellers -> Slip] /\ IdleSlip.session = NoPaper
      /\ NoPaper # s /\ session \in [Sessions -> Session]
  BY CountTypes, CountsAssumption DEF CountInv, IdleSlip
<1>2. ASSUME Leave(t) PROVE slip'[t].session # s
  BY <1>1, <1>2 DEF Leave
<1>3. CASE FinishOpen(t) \/ FinishCount(t) \/ FinishSubmit(t) \/ FinishReject(t) \/ FinishPost(t)
  <2>1. teller[t] # "void" /\ Leave(t) /\ \E x : session' = [session EXCEPT ![slip[t].session] = x]
    BY <1>3 DEF FinishOpen, FinishCount, FinishSubmit, FinishReject, FinishPost
  <2>2. QED
    BY <1>1, <1>2, <2>1
<1>4. CASE FinishSign(t)
  <2>1. /\ teller[t] # "void" /\ (Leave(t) \/ slip' = slip)
        /\ session' = [session EXCEPT ![slip[t].session] = Decided(t, @)]
    BY <1>4 DEF FinishSign
  <2>2. QED
    BY <1>1, <1>2, <2>1
<1>5. CASE FinishVoid(t)
  <2>1. Leave(t) /\ session' = [session EXCEPT ![slip[t].session].status = "VOID"]
    BY <1>5 DEF FinishVoid
  <2>2. session'[s] = session[s] \/ session'[s] = [session[s] EXCEPT !.status = "VOID"]
    BY <1>1, <2>1
  <2>3. [session[s] EXCEPT !.status = "VOID"].status = "VOID"
    BY <1>1 DEF Session
  <2>4. QED
    BY <1>2, <2>1, <2>2, <2>3
<1>6. CASE BeginPost(t) \/ BeginPostReport(t)
  <2>1. session' = session /\ teller[t] # "void"
        /\ \E v, c : slip' = [slip EXCEPT ![t].qty = v, ![t].cell = c]
    BY <1>6 DEF BeginPost, BeginPostReport, papers
  <2>2. slip'[t].session = slip[t].session
    <3>1. slip[t] \in Slip
      BY <1>1
    <3>2. PICK v, c : slip' = [slip EXCEPT ![t].qty = v, ![t].cell = c]
      BY <2>1
    <3>3. slip'[t] = [slip[t] EXCEPT !.qty = v, !.cell = c]
      BY <1>1, <3>2
    <3>4. QED
      BY <3>1, <3>3 DEF Slip
  <2>3. QED
    BY <2>1, <2>2
<1>7. CASE Look(t) \/ LookReport(t)
  BY <1>7 DEF Look, LookReport, papers
<1>8. CASE FinishSubmitReport(t) \/ FinishPostReport(t) \/ RefuseCount(t)
  BY <1>2, <1>8 DEF FinishSubmitReport, FinishPostReport, RefuseCount, papers
<1>9. CASE FinishDecideReport(t)
  <2>1. session' = session /\ teller[t] # "void" /\ (Leave(t) \/ slip' = slip)
    BY <1>9 DEF FinishDecideReport
  <2>2. QED
    BY <1>2, <2>1
<1>10. QED
  BY <1>3, <1>4, <1>5, <1>6, <1>7, <1>8, <1>9 DEF FinishesCount

LEMMA StrandedGoesOn ==
  ASSUME Inv, SerialInv, Next
  PROVE  StrandedStays
<1> SUFFICES ASSUME NEW s \in Sessions, Stranded(s) PROVE Stranded(s)' \/ session'[s].status = "VOID"
  BY DEF StrandedStays
<1>1. /\ session[s].verdict = "APPROVED" /\ session[s].status = "PENDING_APPROVAL"
      /\ \A t \in Tellers : slip[t].session = s => teller[t] = "void"
  BY DEF Stranded
<1>2. ASSUME UNCHANGED <<session, teller, slip>> PROVE Stranded(s)'
  BY <1>1, <1>2 DEF Stranded
<1>3. ASSUME NEW t \in Tellers, TellerActs(t)
      PROVE  Stranded(s)' \/ session'[s].status = "VOID"
  <2>0. onHand \in [Cells -> Int] /\ CountInv /\ SessionsAgree
    BY LossTypes DEF Inv, LossInv, SerialInv
  <2>1. \A u \in Tellers : u # t => teller'[u] = teller[u] /\ slip'[u] = slip[u]
    BY <1>3, <2>0, TellerMoves
  <2>2. /\ session'[s] = session[s] \/ session'[s].status = "VOID"
        /\ slip'[t].session = s => teller'[t] = "void"
    BY <1>1, <1>3, <2>0, BegunWhenStranded, FinishedWhenStranded DEF TellerActs
  <2>3. QED
    BY <1>1, <2>1, <2>2 DEF Stranded
<1>4. CASE Unattended
  <2>1. CASE PreparesReport
    BY <1>2, <2>1, UnattendedMoves, PreparesAgree DEF Inv, SerialInv, Unattended
  <2>2. CASE ~PreparesReport
    BY <1>2, <1>4, <2>2 DEF Unattended, CreatesPaper, Move, SetClosed, countVars
  <2>3. QED
    BY <2>1, <2>2
<1>5. CASE \E r \in Clerks : ClerkActs(r) /\ UNCHANGED countVars
  BY <1>2, <1>5 DEF countVars
<1>6. QED
  BY <1>3, <1>4, <1>5, NextSplit

LEMMA DecisionsKept ==
  ASSUME Inv, SerialInv, Next
  PROVE  /\ DecidedStays /\ CountIsFrozen /\ StrandedStays
         /\ closed => UNCHANGED <<booked, posted, adjusted, settled>>
<1>1. DocsStand /\ SessionsStand /\ ReportsStand
  BY StoriesGoOn
<1>2. DecidedStays /\ CountIsFrozen
  BY <1>1 DEF DocsStand, SessionsStand, ReportsStand, DecidedStays, CountIsFrozen
<1>3. closed => UNCHANGED <<booked, posted, adjusted, settled>>
  BY <1>1 DEF DocsStand, SessionsStand, ReportsStand
<1>4. QED
  BY <1>2, <1>3, StrandedGoesOn

\* As long as requests do not overlap, approved and rejected documents, posted
\* sessions and reports stay as they are, what was counted and compared stays as
\* it was submitted, a session whose posting failed after its last signature is
\* never posted, and nothing is booked in a closed month.
THEOREM WhatIsDecidedStands == HistorySpec => DecisionsStand
<1>1. ASSUME FullInv, [HistoryNext]_<<vars, overlapped>>
      PROVE  [Alone(/\ DecidedStays /\ CountIsFrozen /\ StrandedStays
                    /\ closed => UNCHANGED <<booked, posted, adjusted, settled>>)]_vars
  <2> HIDE DEF vars
  <2>1. QED
    BY <1>1, DecisionsKept DEF FullInv, Alone, HistoryNext
<1>2. QED
  BY <1>1, FullInit, FullStep, PTL DEF HistorySpec, DecisionsStand

-----------------------------------------------------------------------------
(* While no two requests overlap: lists, dashboards and ledger *)

LEMMA StoryAgrees ==
  ASSUME LossTypeOK, DocsAgree
  PROVE  StatusAgrees
<1> SUFFICES ASSUME NEW d \in Docs, request[d].exists, doc[d].status # "VOID"
             PROVE  /\ (doc[d].status = "REJECTED") <=> (request[d].status = "REJECTED")
                    /\ (doc[d].status = "REJECTED") <=> \E i \in StepNos : request[d].steps[i] = "REJECTED"
                    /\ \A k \in StepNos : doc[d].status = ApprovedStatus[k] =>
                         \A i \in StepNos : (request[d].steps[i] = "APPROVED") <=> i <= k
  BY DEF StatusAgrees, DocsAgree, DocStory
<1>1. CASE /\ doc[d].status = "REJECTED" /\ request[d].status = "REJECTED"
           /\ \E i \in StepNos : request[d].steps[i] = "REJECTED"
  BY <1>1, ApprovedStatuses
<1>2. ASSUME NEW k \in StepNos, doc[d].status = ApprovedStatus[k],
             request[d].status = IF k = 4 THEN "APPROVED" ELSE "PENDING",
             \A i \in StepNos : request[d].steps[i] = IF i <= k THEN "APPROVED" ELSE "PENDING"
      PROVE  /\ doc[d].status # "REJECTED" /\ request[d].status # "REJECTED"
             /\ \A i \in StepNos : request[d].steps[i] # "REJECTED"
             /\ \A j \in StepNos : doc[d].status = ApprovedStatus[j] =>
                  \A i \in StepNos : (request[d].steps[i] = "APPROVED") <=> i <= j
  <2>1. ASSUME NEW j \in StepNos, doc[d].status = ApprovedStatus[j] PROVE j = k
    <3>1. (k = 1 \/ k = 2 \/ k = 3 \/ k = 4) /\ (j = 1 \/ j = 2 \/ j = 3 \/ j = 4)
      BY ApprovedStatuses
    <3>2. ApprovedStatus[j] = ApprovedStatus[k]
      BY <1>2, <2>1
    <3>3. QED
      BY <3>1, <3>2, ApprovedStatuses
  <2>2. doc[d].status # "REJECTED"
    BY <1>2, ApprovedStatuses
  <2>3. QED
    BY <1>2, <2>1, <2>2
<1>3. QED
  BY <1>1, <1>2 DEF DocsAgree, DocStory

LEMMA WaitingIsSeen ==
  ASSUME LossTypeOK, DocsAgree
  PROVE  NothingWaitsUnseen
<1> SUFFICES ASSUME NEW d \in Docs, NEW i \in StepNos, OpenFor(d, i)
             PROVE  doc[d].status \in Pipeline /\ doc[d].status \in Tab[Chain[i]]
  BY DEF NothingWaitsUnseen
<1>1. PICK k \in 1 .. 3 : i = k + 1 /\ doc[d].status = ApprovedStatus[k]
  BY OpenSteps DEF DocsAgree
<1>2. \/ i = 2 /\ doc[d].status = "DEPT_APPROVED"
      \/ i = 3 /\ doc[d].status = "COST_CONTROL_APPROVED"
      \/ i = 4 /\ doc[d].status = "FINANCE_APPROVED"
  BY <1>1, ApprovedStatuses
<1>3. Chain[2] = "COST_CONTROL" /\ Chain[3] = "FINANCE_MANAGER" /\ Chain[4] = "GENERAL_MANAGER"
  BY DEF Chain
<1>4. QED
  BY <1>2, <1>3 DEF Pipeline, Tab

\* The document of a request that is not decided and not void waits for a
\* signature.
LEMMA RequestWaits ==
  ASSUME LossTypeOK, NEW d \in Docs, DocStory(d), request[d].exists,
         doc[d].status \notin {"VOID", "REJECTED", "APPROVED"}
  PROVE  /\ request[d].status = "PENDING" /\ request[d].current \in StepNos
         /\ request[d].steps[request[d].current] = "PENDING" /\ OpenFor(d, request[d].current)
         /\ doc[d].status \in Pipeline
<1>1. PICK k \in StepNos :
        /\ doc[d].status = ApprovedStatus[k]
        /\ request[d].status = IF k = 4 THEN "APPROVED" ELSE "PENDING"
        /\ request[d].current = IF k = 4 THEN 4 ELSE k + 1
        /\ \A i \in StepNos : request[d].steps[i] = IF i <= k THEN "APPROVED" ELSE "PENDING"
  BY DEF DocStory
<1>2. k \in 1 .. 3 /\ doc[d].status \in Pipeline
  BY <1>1, ApprovedStatuses DEF Pipeline
<1>3. request[d].current = k + 1 /\ k + 1 \in StepNos
  BY <1>1, <1>2 DEF StepNos
<1>4. request[d].steps[k + 1] = "PENDING"
  BY <1>1, <1>2, <1>3
<1>5. \A j \in 1 .. (k + 1) - 1 : request[d].steps[j] = "APPROVED"
  BY <1>1, <1>2 DEF StepNos
<1>6. OpenFor(d, k + 1)
  BY <1>3, <1>4, <1>5 DEF OpenFor
<1>7. QED
  BY <1>1, <1>2, <1>3, <1>4, <1>6

LEMMA TowerAsksSigners ==
  ASSUME LossTypeOK, DocsAgree, NEW role \in Signers
  PROVE  PendingMyAction(role) = {d \in Docs : \E i \in StepNos : OpenFor(d, i) /\ MaySign(role, i)}
<1>1. ASSUME NEW d \in PendingMyAction(role)
      PROVE  d \in Docs /\ \E i \in StepNos : OpenFor(d, i) /\ MaySign(role, i)
  <2>1. /\ d \in Docs /\ request[d].exists /\ doc[d].status \notin {"VOID", "REJECTED", "APPROVED"}
        /\ role \in Elevated \cup {Chain[request[d].current]}
    BY <1>1 DEF PendingMyAction
  <2>2. request[d].current \in StepNos /\ OpenFor(d, request[d].current)
    BY <2>1, RequestWaits DEF DocsAgree
  <2>3. MaySign(role, request[d].current)
    BY <2>1 DEF MaySign, Elevated
  <2>4. QED
    BY <2>1, <2>2, <2>3
<1>2. ASSUME NEW d \in Docs, NEW i \in StepNos, OpenFor(d, i), MaySign(role, i)
      PROVE  d \in PendingMyAction(role)
  <2>1. /\ request[d].exists /\ i = request[d].current /\ request[d].steps[i] = "PENDING"
        /\ doc[d].status \notin {"VOID", "REJECTED", "APPROVED"}
    BY <1>2 DEF OpenFor
  <2>2. request[d].status = "PENDING"
    BY <2>1, RequestWaits DEF DocsAgree
  <2>3. role \in Elevated \cup {Chain[request[d].current]}
    BY <1>2, <2>1 DEF MaySign, Elevated
  <2>4. QED
    BY <2>1, <2>2, <2>3 DEF PendingMyAction
<1>3. QED
  BY <1>1, <1>2

LEMMA TowerCountsAll ==
  ASSUME LossTypeOK, DocsAgree
  PROVE  TotalOver(WorkflowHealth, DOMAIN WorkflowHealth) =
           Cardinality(PendingMyAction("ADMIN"))
             + Cardinality({d \in Docs : doc[d].status \in Pipeline \cup {"DRAFT", "POSTED"} /\ ~request[d].exists})
<1> DEFINE S == {d \in Docs : doc[d].status \notin {"none", "APPROVED", "VOID", "REJECTED"}}
           g == [d \in Docs |-> doc[d].status]
           T == DOMAIN WorkflowHealth
           A == PendingMyAction("ADMIN")
           B == {d \in Docs : doc[d].status \in Pipeline \cup {"DRAFT", "POSTED"} /\ ~request[d].exists}
<1>1. \A d \in Docs : doc[d].status \in DocStatuses
  BY DEF LossTypeOK, Doc
<1>2. T = {doc[d].status : d \in S}
  BY DEF WorkflowHealth
<1>3. IsFiniteSet(T)
  <2>1. T \in SUBSET ({} \cup {"DRAFT"} \cup {"DEPT_APPROVED"} \cup {"COST_CONTROL_APPROVED"}
                       \cup {"FINANCE_APPROVED"} \cup {"POSTED"})
    <3> HIDE DEF T
    <3>1. QED
      BY <1>1, <1>2 DEF DocStatuses
  <2>2. IsFiniteSet({} \cup {"DRAFT"} \cup {"DEPT_APPROVED"} \cup {"COST_CONTROL_APPROVED"}
                     \cup {"FINANCE_APPROVED"} \cup {"POSTED"})
    BY FS_EmptySet, FS_AddElement
  <2> HIDE DEF T
  <2>3. QED
    BY <2>1, <2>2, FS_Subset
<1>4. \A s \in T : WorkflowHealth[s] = Cardinality({d \in S : g[d] = s})
  <2>1. \A s : {d \in S : g[d] = s} = {d \in S : doc[d].status = s}
    OBVIOUS
  <2>2. \A s \in T : WorkflowHealth[s] = Cardinality({d \in S : doc[d].status = s})
    BY DEF WorkflowHealth
  <2> HIDE DEF T, S, g
  <2>3. QED
    BY <2>1, <2>2
<1>5. TotalOver(WorkflowHealth, T) = Cardinality(S)
  <2>1. \A d \in S : g[d] \in T
    <3> HIDE DEF T
    <3>1. QED
      BY <1>2
  <2>2. IsFiniteSet(S)
    BY LossAssumption, FS_Subset
  <2> HIDE DEF S, T, g
  <2>3. \A h : (\A s \in T : h[s] = Cardinality({d \in S : g[d] = s})) => TotalOver(h, T) = Cardinality(S)
    BY <1>3, <2>1, <2>2, TotalOfFibres
  <2>4. QED
    BY <1>4, <2>3
<1>6. S = A \cup B
  <2>1. ASSUME NEW d \in S PROVE d \in A \cup B
    <3>1. d \in Docs /\ doc[d].status \in Pipeline \cup {"DRAFT", "POSTED"}
      BY <1>1, <2>1 DEF DocStatuses, Pipeline
    <3>2. CASE request[d].exists
      BY <2>1, <3>2, RequestWaits DEF DocsAgree, PendingMyAction, Elevated
    <3>3. CASE ~request[d].exists
      BY <3>1, <3>3
    <3>4. QED
      BY <3>2, <3>3
  <2>2. ASSUME NEW d \in A PROVE d \in S
    BY <2>2, RequestWaits DEF DocsAgree, PendingMyAction, Pipeline
  <2>3. ASSUME NEW d \in B PROVE d \in S
    BY <2>3 DEF Pipeline
  <2> HIDE DEF S, A, B
  <2>4. QED
    BY <2>1, <2>2, <2>3
<1>7. A \cap B = {}
  BY DEF PendingMyAction
<1>8. IsFiniteSet(A) /\ IsFiniteSet(B)
  <2>1. A \in SUBSET Docs /\ B \in SUBSET Docs
    BY DEF PendingMyAction
  <2> HIDE DEF A, B
  <2>2. QED
    BY <2>1, LossAssumption, FS_Subset
<1>9. Cardinality(S) = Cardinality(A) + Cardinality(B)
  <2> HIDE DEF A, B, S
  <2>1. Cardinality(A \cap B) = 0 /\ Cardinality(A) \in Int /\ Cardinality(B) \in Int
    BY <1>7, <1>8, FS_EmptySet, FS_CardinalityType
  <2>2. QED
    BY <1>6, <1>8, <2>1, FS_Union
<1> HIDE DEF S
<1>10. QED
  BY <1>5, <1>9

\* A sum over some of the documents, as one over all.
LEMMA SumOfSome ==
  ASSUME NEW f, NEW g, NEW S \in SUBSET Docs, \A d \in Docs : g[d] \in Int,
         \A d \in Docs : g[d] = IF d \in S THEN f[d] ELSE 0
  PROVE  TotalOver(f, S) = TotalOver(g, Docs)
<1>1. IsFiniteSet(S)
  BY LossAssumption, FS_Subset
<1>2. TotalOver(f, S) = TotalOver(g, S)
  <2>1. \A d \in S : f[d] = g[d]
    OBVIOUS
  <2>2. QED
    BY <1>1, <2>1, TotalSame
<1>3. TotalOver(g, Docs) = TotalOver(g, Docs \cap S)
  <2>1. \A d \in Docs : g[d] \in Int /\ (d \notin S => g[d] = 0)
    OBVIOUS
  <2>2. QED
    BY <2>1, LossAssumption, TotalOfPart
<1>4. Docs \cap S = S
  OBVIOUS
<1>5. QED
  BY <1>2, <1>3, <1>4

LEMMA TowerAddsUp ==
  ASSUME LossTypeOK, DocsAgree
  PROVE  LossRows["BREAKAGE"] + LossRows["LOST"] =
           MonthlyApprovedLosses + TotalOver(posted, Docs) - TotalOver(LineQty, PassedOver)
<1> DEFINE S == {d \in Docs : doc[d].status = "APPROVED"}
           K(k) == {d \in Docs : doc[d].loss.kind = k}
           f == [d \in Docs |-> IF d \in S THEN LineQty[d] ELSE 0]
           p == [d \in Docs |-> IF d \in PassedOver THEN LineQty[d] ELSE 0]
           Of(k) == [d \in Docs |-> IF d \in K(k) THEN RowsOf[d] ELSE 0]
<1>1. \A d \in Docs : /\ booked[d] = (IF doc[d].status = "APPROVED" THEN RowQty(doc[d].loss) ELSE 0)
                      /\ booked[d] \in Int /\ posted[d] \in Int
                      /\ doc[d].loss.kind \in DocKinds /\ doc[d].loss.qty \in Int
  BY DocTypes DEF DocsAgree, DocStory
<1>2. \A d \in Docs : LineQty[d] = doc[d].loss.qty /\ RowsOf[d] = booked[d] + posted[d]
  BY DEF LineQty, RowsOf
<1>3. PassedOver \in SUBSET Docs
  BY DEF PassedOver
<1>4. \A d \in Docs : /\ f[d] \in Int /\ p[d] \in Int /\ f[d] = booked[d] + p[d]
                      /\ RowsOf[d] \in Int
                      /\ \A k : Of(k)[d] \in Int
                      /\ RowsOf[d] = Of("BREAKAGE")[d] + Of("LOST")[d]
  <2>1. ASSUME NEW d \in Docs PROVE f[d] \in Int /\ p[d] \in Int /\ f[d] = booked[d] + p[d]
    <3>1. d \in PassedOver <=> doc[d].status = "APPROVED" /\ doc[d].loss.kind = "LOST" /\ doc[d].loss.qty < 0
      BY DEF PassedOver
    <3>2. QED
      BY <1>1, <1>2, <3>1 DEF RowQty
  <2>2. ASSUME NEW d \in Docs
        PROVE  /\ RowsOf[d] \in Int /\ \A k : Of(k)[d] \in Int
               /\ RowsOf[d] = Of("BREAKAGE")[d] + Of("LOST")[d]
    BY <1>1, <1>2 DEF DocKinds
  <2>3. QED
    BY <2>1, <2>2
<1>5. MonthlyApprovedLosses = TotalOver(LineQty, S)
  BY DEF MonthlyApprovedLosses, TotalOver, MapThenSumSet, MapThenFoldSet
<1>6. \A k \in DocKinds : LossRows[k] = TotalOver(RowsOf, K(k))
  BY DEF LossRows, TotalOver, MapThenSumSet, MapThenFoldSet
<1>7. \A d \in Docs : /\ f[d] = IF d \in S THEN LineQty[d] ELSE 0
                      /\ p[d] = IF d \in PassedOver THEN LineQty[d] ELSE 0
                      /\ \A k : Of(k)[d] = IF d \in K(k) THEN RowsOf[d] ELSE 0
  OBVIOUS
<1>8. S \in SUBSET Docs /\ \A k : K(k) \in SUBSET Docs
  OBVIOUS
<1> HIDE DEF S, K, f, p, Of
<1>9. TotalOver(LineQty, S) = TotalOver(f, Docs)
  BY <1>4, <1>7, <1>8, SumOfSome
<1>10. TotalOver(LineQty, PassedOver) = TotalOver(p, Docs)
  BY <1>3, <1>4, <1>7, SumOfSome
<1>11. \A k : TotalOver(RowsOf, K(k)) = TotalOver(Of(k), Docs)
  BY <1>4, <1>7, <1>8, SumOfSome
<1>12. TotalOver(f, Docs) = TotalOver(booked, Docs) + TotalOver(p, Docs)
  BY <1>1, <1>4, LossAssumption, TotalOfSums
<1>13. TotalOver(RowsOf, Docs) = TotalOver(booked, Docs) + TotalOver(posted, Docs)
  BY <1>1, <1>2, <1>4, LossAssumption, TotalOfSums
<1>14. TotalOver(RowsOf, Docs) = TotalOver(Of("BREAKAGE"), Docs) + TotalOver(Of("LOST"), Docs)
  BY <1>4, LossAssumption, TotalOfSums
<1>15. TotalOver(booked, Docs) \in Int /\ TotalOver(posted, Docs) \in Int /\ TotalOver(p, Docs) \in Int
  BY <1>1, <1>4, LossAssumption, TotalInt
<1>16. LossRows["BREAKAGE"] + LossRows["LOST"] = TotalOver(RowsOf, Docs)
  BY <1>6, <1>11, <1>14 DEF DocKinds
<1>17. QED
  BY <1>5, <1>9, <1>10, <1>12, <1>13, <1>15, <1>16

LEMMA TowerKeepsAgreeing ==
  ASSUME LossTypeOK, DocsAgree
  PROVE  TowerAgrees
<1>1. MapThenSumSet(LAMBDA s : WorkflowHealth[s], DOMAIN WorkflowHealth)
        = TotalOver(WorkflowHealth, DOMAIN WorkflowHealth)
      /\ MapThenSumSet(LAMBDA d : posted[d], Docs) = TotalOver(posted, Docs)
      /\ MapThenSumSet(LAMBDA d : LineQty[d], PassedOver) = TotalOver(LineQty, PassedOver)
  BY DEF TotalOver, MapThenSumSet, MapThenFoldSet
<1>2. QED
  BY <1>1, TowerAsksSigners, TowerCountsAll, TowerAddsUp DEF TowerAgrees

\* As long as requests do not overlap, the status of a document, its signatures
\* and its ledger rows agree, all that waits for a signature is on the lists of
\* who may give it and in the figures of the dashboards, the losses these read
\* from documents are those of the ledger, and no balance is below zero.
THEOREM LossesAlwaysAgree == HistorySpec => []LossesAgree
<1>1. FullInv => LossesAgree
  <2> SUFFICES ASSUME Inv, SerialInv
               PROVE  /\ StatusAgrees /\ NothingWaitsUnseen /\ TowerAgrees
                      /\ \A c \in Cells : onHand[c] >= 0
    BY DEF FullInv, LossesAgree, Alone
  <2>1. LossTypeOK /\ DocsAgree /\ NothingOwed
    BY DEF Inv, LossInv, SerialInv
  <2>2. QED
    BY <2>1, StoryAgrees, WaitingIsSeen, TowerKeepsAgreeing DEF NothingOwed
<1>2. QED
  BY <1>1, AlwaysFull, PTL

-----------------------------------------------------------------------------
(* Admission: whatever overlaps *)

Fields == {"there", "parent", "branches", "suspended", "active", "expired", "end"}
Part(data) == DOMAIN data \subseteq Fields /\ \E x \in Row : \A k \in DOMAIN data : data[k] = x[k]

IsVisit(j) ==
  /\ j = [data |-> j.data, on |-> j.on, clears |-> j.clears, from |-> j.from, to |-> j.to,
          own |-> j.own, above |-> j.above]
  /\ j.on \subseteq Tenants /\ j.own \in Row /\ j.above \in Row

\* The parent that a row of t names is another tenant, which is there.
Rooted(x, t) == x.parent # None => x.parent \in Tenants /\ x.parent # t /\ row[x.parent].there

Checking == {"scope", "keep scope", "plan", "keep plan", "above", "keep above", "decide"}

\* What a request may write: it makes a row of a tenant that is not there yet,
\* or changes some columns, and leaves or puts it below a tenant that is there.
Writable(data, on) ==
  /\ Part(data) /\ ("there" \in DOMAIN data => data["there"])
  /\ \A t \in on :
       /\ row[t].there \/ "there" \in DOMAIN data
       /\ "parent" \in DOMAIN data => Rooted(data, t)

\* What a request at this step has found out for good.
VisitHolds(step, j) ==
  /\ step = "write" => Writable(j.data, j.on)
  /\ step \in Checking => j.to \in Tenants /\ row[j.to].there
  /\ step = "keep plan" => j.own.there
  /\ step \in {"keep plan", "above", "keep above", "decide"} => Rooted(j.own, j.to)
  /\ step \in {"above", "keep above"} => j.own.parent # None
  /\ step = "keep above" => j.above.there /\ Rooted(j.above, j.own.parent)

Tables ==
  /\ row \in Rows /\ plan \in [Tenants -> Row] /\ scope \in [Tenants -> {None, "open", "closed"}]
  /\ now \in Days /\ changes \in 0..MaxChanges
  /\ quiet \subseteq {t \in Tenants : plan[t] # Uncreated}
  /\ \A t \in Tenants : Rooted(row[t], t) /\ Rooted(plan[t], t)

AdmissionInv ==
  /\ Tables
  /\ pc \in [Visits -> Steps]
  /\ job = [r \in Visits |-> job[r]] /\ \A r \in Visits : IsVisit(job[r])
  /\ \A r \in Visits : VisitHolds(pc[r], job[r])

-----------------------------------------------------------------------------
(* Rows and jobs *)

LEMMA RowFields ==
  /\ DOMAIN Uncreated = Fields /\ Uncreated \in Row /\ ~Uncreated.there /\ Uncreated.parent = None
  /\ Uncreated.branches = "no"
  /\ \A x \in Row :
       /\ DOMAIN x = Fields /\ x.there \in BOOLEAN /\ x.parent \in Tenants \cup {None}
       /\ x.branches \in {"no", "one", "many"} /\ x.suspended \in BOOLEAN /\ x.active \in BOOLEAN
       /\ x.expired \in BOOLEAN /\ x.end \in Days \cup {Lifetime}
BY AdmissionAssumption DEF Uncreated, Row, Fields, Days, Lifetime

\* Writing part of a row over a row makes a row.
LEMMA WrittenOver ==
  ASSUME NEW data, Part(data), NEW x \in Row
  PROVE  /\ Over(data, x) \in Row
         /\ \A k \in Fields : Over(data, x)[k] = IF k \in DOMAIN data THEN data[k] ELSE x[k]
<1> DEFINE z == Over(data, x)
<1>1. DOMAIN x = Fields /\ DOMAIN data \subseteq Fields
  BY RowFields DEF Part
<1>2. z = [k \in Fields |-> IF k \in DOMAIN data THEN data[k] ELSE x[k]]
  BY <1>1 DEF Over
<1>3. PICK y \in Row : \A k \in DOMAIN data : data[k] = y[k]
  BY DEF Part
<1> HIDE DEF z
<1>4. z = [there |-> z["there"], parent |-> z["parent"], branches |-> z["branches"],
           suspended |-> z["suspended"], active |-> z["active"], expired |-> z["expired"],
           end |-> z["end"]]
  BY <1>2 DEF Fields
<1>5. \A k \in Fields : z[k] = x[k] \/ z[k] = y[k]
  BY <1>2, <1>3
<1>6. z \in Row
  <2>1. /\ z["there"] \in BOOLEAN /\ z["parent"] \in Tenants \cup {None}
        /\ z["branches"] \in {"no", "one", "many"} /\ z["suspended"] \in BOOLEAN
        /\ z["active"] \in BOOLEAN /\ z["expired"] \in BOOLEAN /\ z["end"] \in Days \cup {Lifetime}
    BY <1>5, RowFields DEF Fields
  <2>2. QED
    BY <1>4, <2>1 DEF Row
<1>7. QED
  BY <1>2, <1>6 DEF z

LEMMA ChangeIs ==
  ASSUME NEW on \in SUBSET Tenants, NEW data, NEW clears, NEW x, x = Change(on, data, clears)
  PROVE  /\ IsVisit(x) /\ x.data = data /\ x.on = on /\ x.clears = clears /\ x.from = None
         /\ x.to = None /\ x.own = Uncreated /\ x.above = Uncreated
BY RowFields DEF IsVisit, Change

LEMMA VisitIs ==
  ASSUME NEW from, NEW to, NEW x, x = Visit(from, to)
  PROVE  /\ IsVisit(x) /\ x.on = {} /\ x.clears = FALSE /\ x.from = from /\ x.to = to
         /\ x.own = Uncreated /\ x.above = Uncreated
BY RowFields DEF IsVisit, Visit

LEMMA VisitFindsOwn ==
  ASSUME NEW j, IsVisit(j), NEW own \in Row, NEW x, x = [j EXCEPT !.own = own]
  PROVE  /\ IsVisit(x) /\ x.data = j.data /\ x.on = j.on /\ x.clears = j.clears
         /\ x.from = j.from /\ x.to = j.to /\ x.own = own /\ x.above = j.above
<1>1. /\ j = [data |-> j.data, on |-> j.on, clears |-> j.clears, from |-> j.from, to |-> j.to,
              own |-> j.own, above |-> j.above]
      /\ j.on \in SUBSET Tenants /\ j.own \in Row /\ j.above \in Row
  BY DEF IsVisit
<1>2. x = [data |-> j.data, on |-> j.on, clears |-> j.clears, from |-> j.from, to |-> j.to,
           own |-> own, above |-> j.above]
  BY <1>1
<1>3. QED
  BY <1>1, <1>2 DEF IsVisit

LEMMA VisitFindsAbove ==
  ASSUME NEW j, IsVisit(j), NEW above \in Row, NEW x, x = [j EXCEPT !.above = above]
  PROVE  /\ IsVisit(x) /\ x.data = j.data /\ x.on = j.on /\ x.clears = j.clears
         /\ x.from = j.from /\ x.to = j.to /\ x.own = j.own /\ x.above = above
<1>1. /\ j = [data |-> j.data, on |-> j.on, clears |-> j.clears, from |-> j.from, to |-> j.to,
              own |-> j.own, above |-> j.above]
      /\ j.on \in SUBSET Tenants /\ j.own \in Row /\ j.above \in Row
  BY DEF IsVisit
<1>2. x = [data |-> j.data, on |-> j.on, clears |-> j.clears, from |-> j.from, to |-> j.to,
           own |-> j.own, above |-> above]
  BY <1>1
<1>3. QED
  BY <1>1, <1>2 DEF IsVisit

LEMMA NoVisit == IsVisit(NoJob) /\ NoJob.to = None
BY RowFields DEF IsVisit, Visit, NoJob

-----------------------------------------------------------------------------
(* What a step of a request means for the invariant *)

\* What a request has found out about a tenant that is there stays true.
LEMMA VisitStays ==
  ASSUME \A t \in Tenants : row[t].there => row'[t].there, NEW step, NEW j, IsVisit(j),
         VisitHolds(step, j)
  PROVE  VisitHolds(step, j)'
<1>1. \A x, t : Rooted(x, t) => Rooted(x, t)'
  BY DEF Rooted
<1>2. \A data, on : on \subseteq Tenants /\ Writable(data, on) => Writable(data, on)'
  BY <1>1 DEF Writable
<1>3. j.on \subseteq Tenants
  BY DEF IsVisit
<1>4. QED
  BY <1>1, <1>2, <1>3 DEF VisitHolds

LEMMA VisitActs ==
  ASSUME AdmissionInv, NEW r \in Visits, NEW step \in Steps, NEW x, IsVisit(x), VisitHolds(step, x)',
         pc' = [pc EXCEPT ![r] = step], job' = [job EXCEPT ![r] = x],
         \A t \in Tenants : row[t].there => row'[t].there, Tables'
  PROVE  AdmissionInv'
<1>1. pc \in [Visits -> Steps] /\ job = [q \in Visits |-> job[q]]
  BY DEF AdmissionInv
<1>2. pc' \in [Visits -> Steps] /\ \A q \in Visits : pc'[q] = IF q = r THEN step ELSE pc[q]
  BY <1>1
<1>3. job' = [q \in Visits |-> job'[q]] /\ \A q \in Visits : job'[q] = IF q = r THEN x ELSE job[q]
  BY <1>1
<1>4. ASSUME NEW q \in Visits PROVE IsVisit(job'[q]) /\ VisitHolds(pc[q], job[q])'
  <2>1. CASE q = r
    <3>1. pc'[q] = step /\ job'[q] = x
      BY <1>2, <1>3, <2>1
    <3>2. QED
      BY <3>1
  <2>2. CASE q # r
    <3>1. PICK s, j : s = pc[q] /\ j = job[q]
      OBVIOUS
    <3>2. IsVisit(j) /\ VisitHolds(s, j)
      BY <3>1 DEF AdmissionInv
    <3>3. VisitHolds(s, j)'
      BY <3>2, VisitStays
    <3>4. pc'[q] = s /\ job'[q] = j
      BY <1>2, <1>3, <2>2, <3>1
    <3>5. QED
      BY <3>2, <3>3, <3>4
  <2>3. QED
    BY <2>1, <2>2
<1>5. \A q \in Visits : VisitHolds(pc[q], job[q])'
  BY <1>4
<1>6. QED
  BY <1>2, <1>3, <1>4, <1>5 DEF AdmissionInv

\* A step that leaves all rows and entries of plan alone.
LEMMA TablesLeft ==
  ASSUME Tables, UNCHANGED <<row, plan, now, quiet, changes>>,
         scope' \in [Tenants -> {None, "open", "closed"}]
  PROVE  Tables' /\ \A t \in Tenants : row[t].there => row'[t].there
<1>1. \A x, t : Rooted(x, t) => Rooted(x, t)'
  BY DEF Rooted
<1>2. QED
  BY <1>1 DEF Tables, Rooted

LEMMA VisitLooks ==
  ASSUME AdmissionInv, NEW r \in Visits, NEW step \in Steps, NEW x, IsVisit(x), VisitHolds(step, x),
         pc' = [pc EXCEPT ![r] = step], job' = [job EXCEPT ![r] = x],
         UNCHANGED <<row, plan, now, quiet, changes>>,
         scope' \in [Tenants -> {None, "open", "closed"}]
  PROVE  AdmissionInv'
<1>1. Tables' /\ \A t \in Tenants : row[t].there => row'[t].there
  BY TablesLeft DEF AdmissionInv
<1>2. VisitHolds(step, x)'
  BY <1>1, VisitStays
<1>3. QED
  BY <1>1, <1>2, VisitActs

LEMMA EmptyHolds == \A j : VisitHolds("idle", j) /\ VisitHolds("admitted", j) /\ VisitHolds("refused", j)
                            /\ VisitHolds("clear", j)
BY DEF VisitHolds, Checking

LEMMA Prepares ==
  ASSUME AdmissionInv, NEW r \in Visits, NEW on \in SUBSET Tenants, NEW data, NEW clears,
         Writable(data, on), pc' = [pc EXCEPT ![r] = "write"],
         job' = [job EXCEPT ![r] = Change(on, data, clears)],
         UNCHANGED <<row, caches, now, quiet, changes>>
  PROVE  AdmissionInv'
<1>1. PICK x : x = Change(on, data, clears)
  OBVIOUS
<1>2. IsVisit(x) /\ x.on = on /\ x.data = data
  BY <1>1, ChangeIs
<1>3. VisitHolds("write", x)
  BY <1>2 DEF VisitHolds, Checking
<1>4. scope' \in [Tenants -> {None, "open", "closed"}]
  BY DEF AdmissionInv, Tables, caches
<1>5. QED
  BY <1>1, <1>2, <1>3, <1>4, VisitLooks DEF Steps, caches

-----------------------------------------------------------------------------
(* What administrators write *)

LEMMA CreatedRow ==
  ASSUME NEW p \in Tenants \cup {None}, NEW b \in {"no", "one", "many"}
  PROVE  LET x == Created(p, b)
         IN  /\ x \in Row /\ DOMAIN x = Fields /\ x.there /\ x.parent = p /\ x.branches = b
             /\ x["there"] /\ Part(x)
<1> DEFINE x == Created(p, b)
<1>1. x = [there |-> TRUE, parent |-> p, branches |-> b, suspended |-> FALSE, active |-> TRUE,
           expired |-> FALSE, end |-> Lifetime]
  BY DEF Created
<1> HIDE DEF x
<1>2. x \in Row /\ x.there /\ x.parent = p /\ x.branches = b /\ x["there"]
  BY <1>1 DEF Row
<1>3. DOMAIN x = Fields
  BY <1>2, RowFields
<1>4. QED
  BY <1>2, <1>3 DEF Part, x

LEMMA GivenPart == ASSUME NEW data, Given(data) PROVE Part(data) /\ "there" \notin DOMAIN data
BY RowFields DEF Given, Part

LEMMA OverPart ==
  ASSUME NEW x, Part(x), NEW y, Part(y), NEW z, z = Over(x, y)
  PROVE  Part(z) /\ DOMAIN z = DOMAIN x \cup DOMAIN y
<1>1. PICK v \in Row, w \in Row : (\A k \in DOMAIN x : x[k] = v[k]) /\ (\A k \in DOMAIN y : y[k] = w[k])
  BY DEF Part
<1>2. DOMAIN z = DOMAIN x \cup DOMAIN y /\ \A k \in DOMAIN z : z[k] = IF k \in DOMAIN x THEN x[k] ELSE y[k]
  BY DEF Over
<1>3. Part(x) /\ Over(x, w) \in Row /\ \A k \in Fields : Over(x, w)[k] = IF k \in DOMAIN x THEN x[k] ELSE w[k]
  BY WrittenOver
<1>4. DOMAIN x \subseteq Fields /\ DOMAIN y \subseteq Fields
  BY DEF Part
<1>5. \A k \in DOMAIN z : z[k] = Over(x, w)[k]
  BY <1>1, <1>2, <1>3, <1>4
<1>6. Part(z)
  BY <1>2, <1>3, <1>4, <1>5 DEF Part
<1>7. QED
  BY <1>2, <1>6

\* The columns that handlers write by themselves.
LEMMA ColumnsWritten ==
  /\ \A b \in BOOLEAN : Part([active |-> b]) /\ DOMAIN [active |-> b] = {"active"}
  /\ Part([suspended |-> TRUE]) /\ DOMAIN [suspended |-> TRUE] = {"suspended"}
  /\ Part([expired |-> TRUE]) /\ DOMAIN [expired |-> TRUE] = {"expired"}
  /\ Part([suspended |-> FALSE, active |-> TRUE])
  /\ DOMAIN [suspended |-> FALSE, active |-> TRUE] = {"suspended", "active"}
  /\ Part([branches |-> "no"]) /\ DOMAIN [branches |-> "no"] = {"branches"}
<1>1. ASSUME NEW data, DOMAIN data \subseteq Fields, NEW y \in Row, \A k \in DOMAIN data : data[k] = y[k]
      PROVE  Part(data)
  BY <1>1 DEF Part
<1> DEFINE y(s, a, e) == [there |-> FALSE, parent |-> None, branches |-> "no", suspended |-> s,
                          active |-> a, expired |-> e, end |-> Lifetime]
<1>2. \A s, a, e \in BOOLEAN :
        /\ y(s, a, e) \in Row /\ y(s, a, e)["branches"] = "no" /\ y(s, a, e)["suspended"] = s
        /\ y(s, a, e)["active"] = a /\ y(s, a, e)["expired"] = e
  BY DEF Row
<1> HIDE DEF y
<1>3. /\ \A b \in BOOLEAN : DOMAIN [active |-> b] = {"active"} /\ [active |-> b]["active"] = b
      /\ DOMAIN [suspended |-> TRUE] = {"suspended"} /\ [suspended |-> TRUE]["suspended"] = TRUE
      /\ DOMAIN [expired |-> TRUE] = {"expired"} /\ [expired |-> TRUE]["expired"] = TRUE
      /\ DOMAIN [suspended |-> FALSE, active |-> TRUE] = {"suspended", "active"}
      /\ [suspended |-> FALSE, active |-> TRUE]["suspended"] = FALSE
      /\ [suspended |-> FALSE, active |-> TRUE]["active"] = TRUE
      /\ DOMAIN [branches |-> "no"] = {"branches"} /\ [branches |-> "no"]["branches"] = "no"
  OBVIOUS
<1>4. \A b \in BOOLEAN : Part([active |-> b])
  BY <1>1, <1>2, <1>3 DEF Fields
<1>5. Part([suspended |-> TRUE])
  BY <1>1, <1>2, <1>3 DEF Fields
<1>6. Part([expired |-> TRUE])
  BY <1>1, <1>2, <1>3 DEF Fields
<1>7. Part([suspended |-> FALSE, active |-> TRUE])
  <2> DEFINE d == [suspended |-> FALSE, active |-> TRUE]
  <2>1. DOMAIN d \subseteq Fields /\ \A k \in DOMAIN d : d[k] = y(FALSE, TRUE, FALSE)[k]
    BY <1>2, <1>3 DEF Fields
  <2>2. y(FALSE, TRUE, FALSE) \in Row
    BY <1>2
  <2> HIDE DEF d
  <2>3. QED
    BY <1>1, <2>1, <2>2 DEF d
<1>8. Part([branches |-> "no"])
  BY <1>1, <1>2, <1>3 DEF Fields
<1>9. QED
  BY <1>3, <1>4, <1>5, <1>6, <1>7, <1>8

-----------------------------------------------------------------------------
(* Every step keeps the invariant *)

\* What updateTenant writes: the tenant moves at most below an organization
\* that may have branches, and only if nothing is below it; it has no branches
\* below another, and keeps them while something is below it.
LEMMA UpdateIs ==
  ASSUME AdmissionInv, NEW r, NEW t \in Tenants, NEW data \in Columns, UpdateTenant(r, t, data)
  PROVE  \E x :
           /\ Prepare(r, {t}, x, TRUE) /\ Writable(x, {t}) /\ "there" \notin DOMAIN x /\ row[t].there
           /\ \E P, b :
                /\ P = IF "parent" \in DOMAIN x THEN x["parent"] ELSE row[t].parent
                /\ b = IF "branches" \in DOMAIN x THEN x["branches"] ELSE row[t].branches
                /\ P # None => b = "no"
                /\ P # row[t].parent /\ P # None => P # t /\ MayAdopt(P, t) /\ Children(t) = {}
                /\ Children(t) # {} => b # "no" \/ row[t].branches = "no" \/ P # None
<1>1. row[t] \in Row /\ Rooted(row[t], t) /\ row[t].there
  BY DEF AdmissionInv, Tables, Rows, UpdateTenant
<1>2. Part(data) /\ "there" \notin DOMAIN data
  BY AdmissionAssumption, GivenPart
<1>3. PICK P : P = IF "parent" \in DOMAIN data THEN data["parent"] ELSE row[t].parent
  OBVIOUS
<1>4. PICK c : c = IF "branches" \in DOMAIN data THEN data["branches"] ELSE row[t].branches
  OBVIOUS
<1>5. /\ Prepare(r, {t}, IF P # None THEN Over([branches |-> "no"], data) ELSE data, TRUE)
      /\ P # row[t].parent /\ P # None => P # t /\ MayAdopt(P, t) /\ Children(t) = {}
      /\ Children(t) # {} => c # "no" \/ row[t].branches = "no"
  BY <1>3, <1>4 DEF UpdateTenant, MayMove
<1>6. "parent" \in DOMAIN data => Rooted(data, t)
  <2>1. "parent" \in DOMAIN data => P \in Tenants \cup {None}
    BY <1>2, <1>3, RowFields DEF Part
  <2>2. QED
    BY <1>1, <1>3, <1>5, <2>1 DEF Rooted, MayAdopt
<1>7. CASE P = None
  <2>1. Writable(data, {t})
    BY <1>1, <1>2, <1>6 DEF Writable
  <2>2. Prepare(r, {t}, data, TRUE)
    BY <1>5, <1>7
  <2>3. \E Q, b :
          /\ Q = IF "parent" \in DOMAIN data THEN data["parent"] ELSE row[t].parent
          /\ b = IF "branches" \in DOMAIN data THEN data["branches"] ELSE row[t].branches
          /\ Q # None => b = "no"
          /\ Q # row[t].parent /\ Q # None => Q # t /\ MayAdopt(Q, t) /\ Children(t) = {}
          /\ Children(t) # {} => b # "no" \/ row[t].branches = "no" \/ Q # None
    BY <1>3, <1>4, <1>5, <1>7
  <2>4. QED
    BY <1>1, <1>2, <2>1, <2>2, <2>3
<1>8. CASE P # None
  <2>1. PICK o, x : o = [branches |-> "no"] /\ x = Over(o, data)
    OBVIOUS
  <2>2. Part(o) /\ DOMAIN o = {"branches"} /\ o["branches"] = "no"
    BY <2>1, ColumnsWritten
  <2>3. Part(x) /\ DOMAIN x = DOMAIN o \cup DOMAIN data
    BY <1>2, <2>1, <2>2, OverPart
  <2>4. \A k \in DOMAIN x : x[k] = IF k \in DOMAIN o THEN o[k] ELSE data[k]
    BY <2>1, <2>3 DEF Over
  <2>5. /\ "branches" \in DOMAIN x /\ x["branches"] = "no" /\ "there" \notin DOMAIN x
        /\ ("parent" \in DOMAIN x <=> "parent" \in DOMAIN data)
        /\ "parent" \in DOMAIN x => x["parent"] = data["parent"]
    BY <1>2, <2>2, <2>3, <2>4
  <2>6. "parent" \in DOMAIN x => Rooted(x, t)
    BY <1>6, <2>5 DEF Rooted
  <2>7. Writable(x, {t})
    BY <1>1, <2>3, <2>5, <2>6 DEF Writable
  <2>8. Prepare(r, {t}, x, TRUE)
    BY <1>5, <1>8, <2>1
  <2>9. P = IF "parent" \in DOMAIN x THEN x["parent"] ELSE row[t].parent
    BY <1>3, <2>5
  <2>10. "no" = IF "branches" \in DOMAIN x THEN x["branches"] ELSE row[t].branches
    BY <2>5
  <2>11. QED
    BY <1>1, <1>5, <1>8, <2>5, <2>7, <2>8, <2>9, <2>10
<1>9. QED
  BY <1>7, <1>8

LEMMA AdminWrites ==
  ASSUME AdmissionInv, NEW r \in Visits, NEW t \in Tenants
  PROVE  /\ \A p \in Tenants \cup {None}, b \in {"no", "many"} : CreateTenant(r, t, p, b) => AdmissionInv'
         /\ \A data \in Columns : UpdateTenant(r, t, data) \/ SetSubscription(r, t, data) => AdmissionInv'
         /\ ActivateTenant(r, t) \/ SuspendTenant(r, t) \/ ToggleTenantStatus(r, t)
              \/ SuspendOrganization(r, t) => AdmissionInv'
<1>0. row[t] \in Row /\ Rooted(row[t], t) /\ \A p \in Tenants : row[p] \in Row
  BY DEF AdmissionInv, Tables, Rows
<1>1. ASSUME NEW data, NEW clears, Prepare(r, {t}, data, clears), Writable(data, {t})
      PROVE  AdmissionInv'
  BY <1>1, Prepares DEF Prepare, Goes
<1>2. ASSUME NEW p \in Tenants \cup {None}, NEW b \in {"no", "many"}, CreateTenant(r, t, p, b)
      PROVE  AdmissionInv'
  <2>1. PICK x : x = Created(p, b)
    OBVIOUS
  <2>2. Part(x) /\ "there" \in DOMAIN x /\ x["there"] /\ x.parent = p
    BY <2>1, CreatedRow DEF Fields
  <2>3. Rooted(x, t)
    BY <1>2, <2>2 DEF Rooted, CreateTenant, MayAdopt
  <2>4. Writable(x, {t})
    BY <2>2, <2>3 DEF Writable
  <2>5. QED
    BY <1>1, <1>2, <2>1, <2>4 DEF CreateTenant
<1>3. ASSUME NEW data \in Columns, UpdateTenant(r, t, data) PROVE AdmissionInv'
  BY <1>1, <1>3, UpdateIs
<1>4. ASSUME NEW data, Part(data), "there" \notin DOMAIN data, "parent" \notin DOMAIN data, row[t].there
      PROVE  Writable(data, {t})
  BY <1>4 DEF Writable
<1>5. ASSUME NEW data \in Columns, SetSubscription(r, t, data) PROVE AdmissionInv'
  <2>1. Part(data) /\ DOMAIN data \subseteq {"expired", "end"}
    BY <1>5, AdmissionAssumption, GivenPart DEF SetSubscription
  <2>2. PICK x, o : o = [active |-> TRUE] /\ x = Over(o, data)
    OBVIOUS
  <2>3. Part(o) /\ DOMAIN o = {"active"}
    BY <2>2, ColumnsWritten
  <2>4. Part(x) /\ DOMAIN x = DOMAIN o \cup DOMAIN data
    BY <2>1, <2>2, <2>3, OverPart
  <2>5. Writable(x, {t}) /\ Prepare(r, {t}, x, TRUE)
    BY <1>4, <1>5, <2>1, <2>2, <2>3, <2>4 DEF SetSubscription
  <2>6. QED
    BY <1>1, <2>5
<1>6. ASSUME ActivateTenant(r, t) \/ SuspendTenant(r, t) \/ ToggleTenantStatus(r, t) \/ SuspendOrganization(r, t)
      PROVE  AdmissionInv'
  <2>1. ASSUME ActivateTenant(r, t) PROVE AdmissionInv'
    <3>1. PICK x : x = [suspended |-> FALSE, active |-> TRUE]
      OBVIOUS
    <3>2. Part(x) /\ "there" \notin DOMAIN x /\ "parent" \notin DOMAIN x
      BY <3>1, ColumnsWritten
    <3>3. QED
      BY <1>1, <1>4, <2>1, <3>1, <3>2 DEF ActivateTenant
  <2>2. ASSUME SuspendTenant(r, t) \/ SuspendOrganization(r, t) PROVE AdmissionInv'
    <3>1. PICK x : x = [suspended |-> TRUE]
      OBVIOUS
    <3>2. Part(x) /\ "there" \notin DOMAIN x /\ "parent" \notin DOMAIN x
      BY <3>1, ColumnsWritten
    <3>3. QED
      BY <1>1, <1>4, <2>2, <3>1, <3>2 DEF SuspendTenant, SuspendOrganization
  <2>3. ASSUME ToggleTenantStatus(r, t) PROVE AdmissionInv'
    <3>1. PICK b, x : b \in BOOLEAN /\ b = ~row[t].active /\ x = [active |-> b]
      BY <1>0, RowFields
    <3>2. Part(x) /\ "there" \notin DOMAIN x /\ "parent" \notin DOMAIN x
      BY <3>1, ColumnsWritten
    <3>3. x = [active |-> ~row[t].active]
      BY <3>1
    <3>4. QED
      BY <1>1, <1>4, <2>3, <3>2, <3>3 DEF ToggleTenantStatus
  <2>4. QED
    BY <1>6, <2>1, <2>2, <2>3
<1>7. QED
  BY <1>2, <1>3, <1>5, <1>6

LEMMA DueWritable ==
  ASSUME AdmissionInv, NEW x, x = [expired |-> TRUE]
  PROVE  Writable(x, Due)
<1>1. Part(x) /\ DOMAIN x = {"expired"}
  BY ColumnsWritten
<1>2. \A t \in Due : row[t].there
  <2>1. ASSUME NEW t \in Tenants, ~row[t].there PROVE row[t].end = MaxDay + 1
    BY <2>1 DEF AdmissionInv, Tables, Rows, Uncreated, Lifetime
  <2>2. now \in 0..MaxDay
    BY DEF AdmissionInv, Tables, Days
  <2>3. QED
    BY <2>1, <2>2, AdmissionAssumption DEF Due
<1>3. QED
  BY <1>1, <1>2 DEF Writable

LEMMA ExpiresKeep ==
  ASSUME AdmissionInv, ExpireLicences
  PROVE  AdmissionInv'
<1>1. PICK x : x = [expired |-> TRUE]
  OBVIOUS
<1>2. Writable(x, Due)
  BY <1>1, DueWritable
<1>3. Due \in SUBSET Tenants /\ cron \in Visits
  BY DEF Due, Visits
<1>4. QED
  BY <1>1, <1>2, <1>3, Prepares DEF ExpireLicences, Goes

\* What is written makes rows.
LEMMA WithRows ==
  ASSUME AdmissionInv, NEW on \in SUBSET Tenants, NEW data, Writable(data, on), NEW w, w = With(on, data)
  PROVE  /\ w \in Rows
         /\ \A t \in Tenants :
              /\ t \notin on => w[t] = row[t]
              /\ t \in on => \A k \in Fields : w[t][k] = IF k \in DOMAIN data THEN data[k] ELSE row[t][k]
              /\ row[t].there => w[t].there
              /\ w[t].parent # None => w[t].parent \in Tenants /\ w[t].parent # t /\ row[w[t].parent].there
<1>1. row \in [Tenants -> Row] /\ \A t \in Tenants : (~row[t].there => row[t] = Uncreated) /\ Rooted(row[t], t)
  BY DEF AdmissionInv, Tables, Rows
<1>3. w = [t \in Tenants |-> IF t \in on THEN Over(data, row[t]) ELSE row[t]]
  BY DEF With
<1>4. Part(data) /\ ("there" \in DOMAIN data => data["there"])
  BY DEF Writable
<1>5. ASSUME NEW t \in Tenants
      PROVE  /\ w[t] \in Row /\ (w[t].there \/ w[t] = Uncreated)
             /\ t \notin on => w[t] = row[t]
             /\ t \in on => \A k \in Fields : w[t][k] = IF k \in DOMAIN data THEN data[k] ELSE row[t][k]
             /\ row[t].there => w[t].there
             /\ w[t].parent # None => w[t].parent \in Tenants /\ w[t].parent # t /\ row[w[t].parent].there
  <2>1. CASE t \notin on
    BY <1>1, <1>3, <2>1 DEF Rooted
  <2>2. CASE t \in on
    <3>1. w[t] = Over(data, row[t])
      BY <1>3, <2>2
    <3>2. w[t] \in Row /\ \A k \in Fields : w[t][k] = IF k \in DOMAIN data THEN data[k] ELSE row[t][k]
      BY <1>1, <1>4, <3>1, WrittenOver
    <3>3. w[t].there
      BY <1>4, <2>2, <3>2 DEF Writable, Fields
    <3>4. w[t].parent = IF "parent" \in DOMAIN data THEN data.parent ELSE row[t].parent
      BY <3>2 DEF Fields
    <3>5. w[t].parent # None => w[t].parent \in Tenants /\ w[t].parent # t /\ row[w[t].parent].there
      BY <1>1, <2>2, <3>4 DEF Rooted, Writable
    <3>6. QED
      BY <2>2, <3>2, <3>3, <3>5
  <2>3. QED
    BY <2>1, <2>2
<1>6. w \in Rows
  <2>1. w = [t \in Tenants |-> w[t]]
    BY <1>3
  <2>2. w \in [Tenants -> Row]
    BY <1>5, <2>1
  <2>3. QED
    BY <1>5, <2>2 DEF Rows
<1>7. QED
  BY <1>5, <1>6

LEMMA WriteKeeps ==
  ASSUME AdmissionInv, NEW r \in Visits, Write(r)
  PROVE  AdmissionInv'
<1>1. PICK j, w : j = job[r] /\ w = With(j.on, j.data)
  OBVIOUS
<1>2. j.on \in SUBSET Tenants /\ Writable(j.data, j.on) /\ row' = w /\ IsVisit(j)
  <2>1. VisitHolds(pc[r], job[r]) /\ IsVisit(job[r]) /\ pc[r] = "write"
    BY DEF AdmissionInv, Write
  <2>2. QED
    BY <1>1, <2>1 DEF VisitHolds, IsVisit, Write
<1>3. /\ w \in Rows
      /\ \A t \in Tenants :
           /\ row[t].there => w[t].there
           /\ w[t].parent # None => w[t].parent \in Tenants /\ w[t].parent # t /\ row[w[t].parent].there
  <2>1. w \in Rows
    BY <1>1, <1>2, WithRows
  <2>2. ASSUME NEW t \in Tenants
        PROVE  /\ row[t].there => w[t].there
               /\ w[t].parent # None => w[t].parent \in Tenants /\ w[t].parent # t /\ row[w[t].parent].there
    BY <1>1, <1>2, WithRows
  <2>3. QED
    BY <2>1, <2>2
<1>4. \A x, t : Rooted(x, t) => Rooted(x, t)'
  BY <1>2, <1>3 DEF Rooted
<1>5. /\ plan' = plan /\ scope' = scope /\ now' = now /\ changes' \in 0..MaxChanges
      /\ quiet' \subseteq {t \in Tenants : plan[t] # Uncreated}
  BY AdmissionAssumption DEF Write, caches, AdmissionInv, Tables, IsVisit
<1>6. Tables'
  <2>1. \A t \in Tenants : Rooted(row[t], t)'
    BY <1>2, <1>3 DEF Rooted
  <2>2. \A t \in Tenants : Rooted(plan[t], t)'
    <3>1. ASSUME NEW t \in Tenants, NEW x, x = plan[t] PROVE Rooted(plan[t], t)'
      <4>1. Rooted(x, t)'
        BY <1>4, <3>1 DEF AdmissionInv, Tables
      <4>2. QED
        BY <1>5, <3>1, <4>1
    <3>2. QED
      BY <3>1
  <2>3. QED
    BY <1>2, <1>3, <1>5, <2>1, <2>2 DEF Tables, AdmissionInv
<1>7. CASE j.clears
  <2>1. pc' = [pc EXCEPT ![r] = "clear"] /\ job' = job
    BY <1>1, <1>7 DEF Write, Goes
  <2>2. job' = [job EXCEPT ![r] = j]
    BY <1>1, <2>1 DEF AdmissionInv
  <2>3. QED
    BY <1>2, <1>3, <1>6, <2>1, <2>2, EmptyHolds, VisitActs DEF Steps, VisitHolds, Checking
<1>8. CASE ~j.clears
  <2>1. pc' = [pc EXCEPT ![r] = "idle"] /\ job' = [job EXCEPT ![r] = NoJob]
    BY <1>1, <1>8 DEF Write, Goes, Done
  <2>2. QED
    BY <1>2, <1>3, <1>6, <2>1, NoVisit, VisitActs DEF Steps, VisitHolds, Checking
<1>9. QED
  BY <1>7, <1>8

\* What a request is told or finds changes neither rows nor entries of plan.
LEMMA LooksKeep ==
  ASSUME AdmissionInv, NEW r \in Visits
  PROVE  /\ \A from \in Tenants, to \in Tenants : Authenticate(r, from, to) => AdmissionInv'
         /\ LookScope(r) \/ KeepScope(r) \/ LookPlan(r) \/ LookAbove(r) \/ Decide(r) \/ Answer(r)
              => AdmissionInv'
<1>1. PICK j, s : j = job[r] /\ s = pc[r]
  OBVIOUS
<1>2. IsVisit(j) /\ VisitHolds(s, j) /\ job = [q \in Visits |-> job[q]]
  BY <1>1 DEF AdmissionInv
<1>3. j.own \in Row /\ j.above \in Row
  BY <1>2 DEF IsVisit
<1>4. /\ row \in [Tenants -> Row] /\ plan \in [Tenants -> Row]
      /\ scope \in [Tenants -> {None, "open", "closed"}]
      /\ \A t \in Tenants : ~row[t].there => row[t] = Uncreated
      /\ \A t \in Tenants : Rooted(row[t], t) /\ Rooted(plan[t], t)
  BY DEF AdmissionInv, Tables, Rows
<1>5. ASSUME NEW step \in Steps, NEW x, IsVisit(x), VisitHolds(step, x), pc' = [pc EXCEPT ![r] = step],
             job' = [job EXCEPT ![r] = x], UNCHANGED <<row, plan, now, quiet, changes>>,
             scope' \in [Tenants -> {None, "open", "closed"}]
      PROVE  AdmissionInv'
  BY <1>5, VisitLooks
<1>6. ASSUME NEW from \in Tenants, NEW to \in Tenants, Authenticate(r, from, to) PROVE AdmissionInv'
  <2>1. PICK x : x = Visit(from, to)
    OBVIOUS
  <2>2. IsVisit(x) /\ x.to = to
    BY <2>1, RowFields DEF IsVisit, Visit
  <2>3. row[to].there
    BY <1>6 DEF Authenticate
  <2>4. PICK step \in {"refused", "scope"} : pc' = [pc EXCEPT ![r] = step]
    BY <1>6 DEF Authenticate, Goes
  <2>5. VisitHolds(step, x) /\ step \in Steps
    BY <2>2, <2>3, <2>4 DEF VisitHolds, Checking, Steps
  <2>6. job' = [job EXCEPT ![r] = x] /\ UNCHANGED <<row, plan, scope, now, quiet, changes>>
    BY <1>6, <2>1 DEF Authenticate, caches
  <2>7. QED
    BY <1>4, <1>5, <2>2, <2>4, <2>5, <2>6
<1>7. CASE LookScope(r)
  <2>1. s = "scope" /\ j.to \in Tenants /\ row[j.to].there
    BY <1>1, <1>2, <1>7 DEF LookScope, VisitHolds, Checking
  <2>2. PICK x : x = [j EXCEPT !.own = row[j.to]]
    OBVIOUS
  <2>3. IsVisit(x) /\ x.to = j.to
    BY <1>2, <1>4, <2>1, <2>2, VisitFindsOwn
  <2>4. UNCHANGED <<row, plan, scope, now, quiet, changes>>
    BY <1>7 DEF LookScope, caches
  <2>5. \/ pc' = [pc EXCEPT ![r] = "keep scope"] /\ job' = [job EXCEPT ![r] = x]
        \/ (\E step \in {"plan", "refused"} : pc' = [pc EXCEPT ![r] = step]) /\ job' = [job EXCEPT ![r] = j]
    BY <1>1, <1>2, <1>7, <2>2 DEF LookScope, Goes
  <2>6. VisitHolds("keep scope", x) /\ VisitHolds("plan", j) /\ VisitHolds("refused", j)
    BY <2>1, <2>3 DEF VisitHolds, Checking
  <2>7. {"keep scope", "plan", "refused"} \subseteq Steps
    BY DEF Steps
  <2>8. QED
    BY <1>2, <1>4, <1>5, <2>3, <2>4, <2>5, <2>6, <2>7
<1>8. CASE KeepScope(r)
  <2>1. s = "keep scope" /\ j.to \in Tenants /\ row[j.to].there
    BY <1>1, <1>2, <1>8 DEF KeepScope, VisitHolds, Checking
  <2>2. PICK x : x = [j EXCEPT !.own = Uncreated]
    OBVIOUS
  <2>3. IsVisit(x) /\ x.to = j.to
    BY <1>2, <2>2, RowFields, VisitFindsOwn
  <2>4. UNCHANGED <<row, plan, now, quiet, changes>> /\ scope' \in [Tenants -> {None, "open", "closed"}]
    BY <1>4, <1>8 DEF KeepScope
  <2>5. PICK step \in {"plan", "refused"} : pc' = [pc EXCEPT ![r] = step]
    BY <1>8 DEF KeepScope, Goes
  <2>6. job' = [job EXCEPT ![r] = x]
    BY <1>1, <1>2, <1>8, <2>2 DEF KeepScope
  <2>7. VisitHolds(step, x) /\ step \in Steps
    BY <2>1, <2>3, <2>5 DEF VisitHolds, Checking, Steps
  <2>8. QED
    BY <1>5, <2>3, <2>4, <2>5, <2>6, <2>7
<1>9. CASE LookPlan(r)
  <2>1. s = "plan" /\ j.to \in Tenants /\ row[j.to].there
    BY <1>1, <1>2, <1>9 DEF LookPlan, VisitHolds, Checking
  <2>2. PICK own \in {row[j.to], plan[j.to]}, step \in {"refused", "above", "decide", "keep plan"} :
          /\ job' = [job EXCEPT ![r].own = own] /\ pc' = [pc EXCEPT ![r] = step]
          /\ step = "keep plan" => own = row[j.to]
          /\ step = "above" => own.parent # None
    BY <1>1, <1>9 DEF LookPlan, Goes, Afterwards
  <2>3. PICK x : x = [j EXCEPT !.own = own]
    OBVIOUS
  <2>4. own \in Row /\ Rooted(own, j.to)
    BY <1>4, <2>1
  <2>5. IsVisit(x) /\ x.to = j.to /\ x.own = own
    <3>1. IsVisit(x)
      BY <1>2, <2>3, <2>4, VisitFindsOwn
    <3>2. x.to = j.to /\ x.own = own
      BY <1>2, <2>3 DEF IsVisit
    <3>3. QED
      BY <3>1, <3>2
  <2>6. job' = [job EXCEPT ![r] = x] /\ UNCHANGED <<row, plan, scope, now, quiet, changes>>
    BY <1>1, <1>2, <1>9, <2>2, <2>3 DEF LookPlan, caches
  <2>7. VisitHolds(step, x) /\ step \in Steps
    BY <2>1, <2>2, <2>4, <2>5 DEF VisitHolds, Checking, Steps
  <2>8. QED
    BY <1>4, <1>5, <2>2, <2>5, <2>6, <2>7
<1>10. CASE LookAbove(r)
  <2>1. /\ s = "above" /\ j.to \in Tenants /\ row[j.to].there /\ Rooted(j.own, j.to)
        /\ j.own.parent \in Tenants /\ row[j.own.parent].there /\ j.own.parent # None
    BY <1>1, <1>2, <1>10 DEF LookAbove, VisitHolds, Checking, Rooted
  <2>2. PICK above \in {row[j.own.parent], plan[j.own.parent]}, step \in {"decide", "keep above"} :
          /\ job' = [job EXCEPT ![r].above = above] /\ pc' = [pc EXCEPT ![r] = step]
          /\ step = "keep above" => above = row[j.own.parent]
    BY <1>1, <1>10 DEF LookAbove, Goes
  <2>3. PICK x : x = [j EXCEPT !.above = above]
    OBVIOUS
  <2>4. IsVisit(x) /\ x.to = j.to /\ x.own = j.own /\ x.above = above
    <3>1. above \in Row
      BY <1>4, <2>1, <2>2
    <3>2. IsVisit(x)
      BY <1>2, <2>3, <3>1, VisitFindsAbove
    <3>3. x.to = j.to /\ x.own = j.own /\ x.above = above
      BY <1>2, <2>3 DEF IsVisit
    <3>4. QED
      BY <3>2, <3>3
  <2>5. job' = [job EXCEPT ![r] = x] /\ UNCHANGED <<row, plan, scope, now, quiet, changes>>
    BY <1>1, <1>2, <1>10, <2>2, <2>3 DEF LookAbove, caches
  <2>6. VisitHolds(step, x) /\ step \in Steps
    <3>1. Rooted(row[j.own.parent], j.own.parent)
      BY <1>4, <2>1
    <3>2. QED
      BY <2>1, <2>2, <2>4, <3>1 DEF VisitHolds, Checking, Steps
  <2>7. QED
    BY <1>4, <1>5, <2>2, <2>4, <2>5, <2>6
<1>11. CASE Decide(r)
  <2>1. PICK x : x = Visit(j.from, j.to)
    OBVIOUS
  <2>2. IsVisit(x)
    BY <2>1, VisitIs
  <2>3. PICK step \in {"refused", "admitted"} : pc' = [pc EXCEPT ![r] = step]
    BY <1>11 DEF Decide, Goes
  <2>4. job' = [job EXCEPT ![r] = x] /\ UNCHANGED <<row, plan, scope, now, quiet, changes>>
    BY <1>1, <1>11, <2>1 DEF Decide, caches
  <2>5. VisitHolds(step, x) /\ step \in Steps
    BY <2>3, EmptyHolds DEF Steps
  <2>6. QED
    BY <1>4, <1>5, <2>2, <2>3, <2>4, <2>5
<1>12. CASE Answer(r)
  <2>1. /\ pc' = [pc EXCEPT ![r] = "idle"] /\ job' = [job EXCEPT ![r] = NoJob]
        /\ UNCHANGED <<row, plan, scope, now, quiet, changes>>
    BY <1>12 DEF Answer, Done, Goes, caches
  <2>2. "idle" \in Steps /\ VisitHolds("idle", NoJob)
    BY EmptyHolds DEF Steps
  <2>3. QED
    BY <1>4, <1>5, <2>1, <2>2, NoVisit
<1>13. QED
  BY <1>6, <1>7, <1>8, <1>9, <1>10, <1>11, <1>12

\* A row goes into the cache of plans.
LEMMA PlanKept ==
  ASSUME AdmissionInv, NEW t \in Tenants, NEW x \in Row, Rooted(x, t), x.there,
         plan' = [plan EXCEPT ![t] = x], quiet' = quiet \/ quiet' = quiet \ {t},
         UNCHANGED <<row, scope, now, changes>>
  PROVE  Tables' /\ \A p \in Tenants : row[p].there => row'[p].there
<1>1. plan \in [Tenants -> Row] /\ \A p \in Tenants : Rooted(row[p], p) /\ Rooted(plan[p], p)
  BY DEF AdmissionInv, Tables
<1>2. plan' \in [Tenants -> Row] /\ \A p \in Tenants : plan'[p] = IF p = t THEN x ELSE plan[p]
  BY <1>1
<1>3. x # Uncreated
  BY RowFields
<1>4. \A z, p : Rooted(z, p) => Rooted(z, p)'
  BY DEF Rooted
<1>5. ASSUME NEW p \in Tenants PROVE Rooted(row[p], p)' /\ Rooted(plan[p], p)'
  <2>1. PICK y, z : y = row[p] /\ z = plan'[p]
    OBVIOUS
  <2>2. Rooted(y, p) /\ Rooted(z, p)
    BY <1>1, <1>2, <2>1
  <2>3. Rooted(y, p)' /\ Rooted(z, p)'
    BY <1>4, <2>2
  <2>4. y = row'[p]
    BY <2>1
  <2>5. QED
    BY <2>1, <2>3, <2>4
<1>6. QED
  BY <1>2, <1>3, <1>5 DEF AdmissionInv, Tables

\* Entries of plan go.
LEMMA PlanCleared ==
  ASSUME AdmissionInv, NEW on, Uncache(on), UNCHANGED <<row, now, changes>>,
         scope' \in [Tenants -> {None, "open", "closed"}]
  PROVE  Tables' /\ \A p \in Tenants : row[p].there => row'[p].there
<1>1. plan \in [Tenants -> Row] /\ \A p \in Tenants : Rooted(row[p], p) /\ Rooted(plan[p], p)
  BY DEF AdmissionInv, Tables
<1>2. plan' \in [Tenants -> Row] /\ \A p \in Tenants : plan'[p] = IF p \in on THEN Uncreated ELSE plan[p]
  BY <1>1, RowFields DEF Uncache
<1>3. quiet' \subseteq {p \in Tenants : plan'[p] # Uncreated}
  BY <1>2 DEF Uncache, AdmissionInv, Tables
<1>4. ASSUME NEW p \in Tenants PROVE Rooted(row[p], p)' /\ Rooted(plan[p], p)'
  BY <1>1, <1>2, RowFields DEF Rooted
<1>5. QED
  BY <1>2, <1>3, <1>4 DEF AdmissionInv, Tables

LEMMA KeepsKeep ==
  ASSUME AdmissionInv, NEW r \in Visits, KeepPlan(r) \/ KeepAbove(r) \/ Clear(r)
  PROVE  AdmissionInv'
<1>1. PICK j, s : j = job[r] /\ s = pc[r]
  OBVIOUS
<1>2. IsVisit(j) /\ VisitHolds(s, j) /\ job = [q \in Visits |-> job[q]] /\ j.own \in Row /\ j.above \in Row
  BY <1>1 DEF AdmissionInv, IsVisit
<1>3. job = [job EXCEPT ![r] = j]
  BY <1>1, <1>2
<1>4. scope \in [Tenants -> {None, "open", "closed"}]
  BY DEF AdmissionInv, Tables
<1>5. CASE KeepPlan(r)
  <2>1. j.to \in Tenants /\ row[j.to].there /\ Rooted(j.own, j.to) /\ j.own.there
    BY <1>1, <1>2, <1>5 DEF KeepPlan, VisitHolds, Checking
  <2>2. /\ plan' = [plan EXCEPT ![j.to] = j.own] /\ (quiet' = quiet \/ quiet' = quiet \ {j.to})
        /\ UNCHANGED <<row, scope, now, changes, job>>
    BY <1>1, <1>5 DEF KeepPlan
  <2>3. PICK step \in {"refused", "above", "decide"} :
          pc' = [pc EXCEPT ![r] = step] /\ (step = "above" => j.own.parent # None)
    BY <1>1, <1>5 DEF KeepPlan, Goes, Afterwards
  <2>4. Tables' /\ \A p \in Tenants : row[p].there => row'[p].there
    BY <1>2, <2>1, <2>2, PlanKept
  <2>5. VisitHolds(step, j) /\ step \in Steps
    BY <2>1, <2>3 DEF VisitHolds, Checking, Steps
  <2>6. VisitHolds(step, j)'
    BY <1>2, <2>4, <2>5, VisitStays
  <2>7. job' = [job EXCEPT ![r] = j]
    BY <1>3, <2>2
  <2>8. QED
    BY <1>2, <2>3, <2>4, <2>5, <2>6, <2>7, VisitActs
<1>6. CASE KeepAbove(r)
  <2>1. /\ j.to \in Tenants /\ row[j.to].there /\ Rooted(j.own, j.to) /\ j.own.parent # None
        /\ j.above.there /\ Rooted(j.above, j.own.parent)
    BY <1>1, <1>2, <1>6 DEF KeepAbove, VisitHolds, Checking
  <2>2. j.own.parent \in Tenants
    BY <2>1 DEF Rooted
  <2>3. /\ plan' = [plan EXCEPT ![j.own.parent] = j.above] /\ (quiet' = quiet \/ quiet' = quiet \ {j.own.parent})
        /\ UNCHANGED <<row, scope, now, changes, job>> /\ pc' = [pc EXCEPT ![r] = "decide"]
    BY <1>1, <1>6 DEF KeepAbove, Goes
  <2>4. Tables' /\ \A p \in Tenants : row[p].there => row'[p].there
    BY <1>2, <2>1, <2>2, <2>3, PlanKept
  <2>5. VisitHolds("decide", j) /\ "decide" \in Steps
    BY <2>1 DEF VisitHolds, Checking, Steps
  <2>6. VisitHolds("decide", j)'
    BY <1>2, <2>4, <2>5, VisitStays
  <2>7. job' = [job EXCEPT ![r] = j]
    BY <1>3, <2>3
  <2>8. QED
    BY <1>2, <2>3, <2>4, <2>5, <2>6, <2>7, VisitActs
<1>7. CASE Clear(r)
  <2>1. /\ Uncache(j.on) /\ UNCHANGED <<row, scope, now, changes>>
        /\ pc' = [pc EXCEPT ![r] = "idle"] /\ job' = [job EXCEPT ![r] = NoJob]
    BY <1>1, <1>7 DEF Clear, Done, Goes
  <2>2. Tables' /\ \A p \in Tenants : row[p].there => row'[p].there
    BY <1>4, <2>1, PlanCleared
  <2>3. "idle" \in Steps /\ VisitHolds("idle", NoJob)'
    BY DEF Steps, VisitHolds, Checking
  <2>4. QED
    BY <2>1, <2>2, <2>3, NoVisit, VisitActs
<1>8. QED
  BY <1>5, <1>6, <1>7

\* Steps that no request takes, all but a restart.
LEMMA OthersKeep ==
  ASSUME AdmissionInv, UNCHANGED <<pc, job>>, Tables', \A p \in Tenants : row[p].there => row'[p].there
  PROVE  AdmissionInv'
<1>1. ASSUME NEW q \in Visits PROVE VisitHolds(pc[q], job[q])'
  <2>1. PICK s, j : s = pc[q] /\ j = job[q]
    OBVIOUS
  <2>2. IsVisit(j) /\ VisitHolds(s, j)
    BY <2>1 DEF AdmissionInv
  <2>3. VisitHolds(s, j)' /\ s = pc'[q] /\ j = job'[q]
    BY <2>1, <2>2, VisitStays
  <2>4. QED
    BY <2>3
<1>2. QED
  BY <1>1 DEF AdmissionInv

LEMMA ElsewhereKeeps ==
  ASSUME AdmissionInv, Elsewhere
  PROVE  AdmissionInv'
<1>1. scope \in [Tenants -> {None, "open", "closed"}] /\ now \in Days
  BY DEF AdmissionInv, Tables
<1>2. ASSUME NEW t \in Tenants, LapsePlan(t) PROVE AdmissionInv'
  <2>1. PICK on : on = {t}
    OBVIOUS
  <2>2. Uncache(on) /\ UNCHANGED <<row, scope, now, changes, pc, job>>
    BY <1>2, <2>1 DEF LapsePlan
  <2>3. Tables' /\ \A p \in Tenants : row[p].there => row'[p].there
    BY <1>1, <2>2, PlanCleared
  <2>4. QED
    BY <2>2, <2>3, OthersKeep
<1>3. ASSUME NEW t \in Tenants, LapseScope(t) PROVE AdmissionInv'
  <2>1. UNCHANGED <<row, plan, now, quiet, changes, pc, job>> /\ scope' \in [Tenants -> {None, "open", "closed"}]
    BY <1>1, <1>3 DEF LapseScope
  <2>2. Tables' /\ \A p \in Tenants : row[p].there => row'[p].there
    BY <2>1, TablesLeft DEF AdmissionInv
  <2>3. QED
    BY <2>1, <2>2, OthersKeep
<1>4. ASSUME NextDay PROVE AdmissionInv'
  <2>1. UNCHANGED <<row, plan, scope, quiet, changes, pc, job>> /\ now' \in Days
    BY <1>1, <1>4, AdmissionAssumption DEF NextDay, caches, Days
  <2>2. Tables' /\ \A p \in Tenants : row[p].there => row'[p].there
    BY <2>1 DEF AdmissionInv, Tables, Rooted
  <2>3. QED
    BY <2>1, <2>2, OthersKeep
<1>5. ASSUME Restart PROVE AdmissionInv'
  <2>1. /\ pc' = [q \in Visits |-> "idle"] /\ job' = [q \in Visits |-> NoJob]
        /\ UNCHANGED <<row, now, changes>> /\ quiet' = {}
        /\ plan' = [t \in Tenants |-> Uncreated] /\ scope' = [t \in Tenants |-> None]
    BY <1>5 DEF Restart
  <2>2. Tables'
    BY <2>1, RowFields DEF AdmissionInv, Tables, Rooted
  <2>3. \A q \in Visits : VisitHolds(pc[q], job[q])'
    BY <2>1 DEF VisitHolds, Checking
  <2>4. QED
    BY <2>1, <2>2, <2>3, NoVisit DEF AdmissionInv, Steps
<1>6. QED
  BY <1>2, <1>3, <1>4, <1>5 DEF Elsewhere

LEMMA AdmissionBegins == AdmissionInit => AdmissionInv
<1> SUFFICES ASSUME AdmissionInit PROVE AdmissionInv
  OBVIOUS
<1>1. row \in Rows /\ OnTwoLevels(row)
  BY AdmissionAssumption DEF AdmissionInit
<1>2. ASSUME NEW t \in Tenants PROVE Rooted(row[t], t)
  BY <1>1, RowFields DEF Rows, OnTwoLevels, Rooted
<1>3. Tables
  <2>1. plan \in [Tenants -> Row] /\ \A t \in Tenants : Rooted(plan[t], t)
    BY RowFields DEF AdmissionInit, Rooted
  <2>2. now \in Days /\ changes \in 0..MaxChanges /\ quiet = {} /\ scope \in [Tenants -> {None, "open", "closed"}]
    BY AdmissionAssumption DEF AdmissionInit, Days
  <2>3. QED
    BY <1>1, <1>2, <2>1, <2>2 DEF Tables
<1>4. pc \in [Visits -> Steps] /\ job = [r \in Visits |-> NoJob] /\ \A r \in Visits : pc[r] = "idle"
  BY DEF AdmissionInit, Steps
<1>5. \A r \in Visits : VisitHolds(pc[r], job[r])
  BY <1>4 DEF VisitHolds, Checking
<1>6. QED
  BY <1>3, <1>4, <1>5, NoVisit DEF AdmissionInv

LEMMA AdmissionStep ==
  ASSUME AdmissionInv, AdmissionNext
  PROVE  AdmissionInv'
<1>1. ASSUME NEW r \in Desks, Administer(r) PROVE AdmissionInv'
  <2>1. r \in Visits
    BY DEF Visits
  <2>2. CASE Write(r) \/ Clear(r)
    BY <2>1, <2>2, WriteKeeps, KeepsKeep
  <2>3. CASE \E t \in Tenants :
               \/ \E p \in Tenants \cup {None}, b \in {"no", "many"} : CreateTenant(r, t, p, b)
               \/ \E data \in Columns : UpdateTenant(r, t, data) \/ SetSubscription(r, t, data)
               \/ ActivateTenant(r, t) \/ SuspendTenant(r, t)
               \/ ToggleTenantStatus(r, t) \/ SuspendOrganization(r, t)
    <3>1. PICK t \in Tenants :
               \/ \E p \in Tenants \cup {None}, b \in {"no", "many"} : CreateTenant(r, t, p, b)
               \/ \E data \in Columns : UpdateTenant(r, t, data) \/ SetSubscription(r, t, data)
               \/ ActivateTenant(r, t) \/ SuspendTenant(r, t)
               \/ ToggleTenantStatus(r, t) \/ SuspendOrganization(r, t)
      BY <2>3
    <3>2. QED
      BY <2>1, <3>1, AdminWrites
  <2>4. QED
    BY <1>1, <2>2, <2>3 DEF Administer
<1>2. ASSUME NEW r \in Clients, Continue(r) \/ \E from, to \in Tenants : Authenticate(r, from, to)
      PROVE  AdmissionInv'
  <2>1. r \in Visits
    BY DEF Visits
  <2>2. QED
    BY <1>2, <2>1, LooksKeep, KeepsKeep DEF Continue
<1>3. ASSUME Expire PROVE AdmissionInv'
  <2>1. cron \in Visits
    BY DEF Visits
  <2>2. QED
    BY <1>3, <2>1, ExpiresKeep, WriteKeeps, KeepsKeep DEF Expire
<1>4. QED
  BY <1>1, <1>2, <1>3, ElsewhereKeeps DEF AdmissionNext

LEMMA AdmissionKept ==
  ASSUME AdmissionInv, [AdmissionHistoryNext]_<<admissionVars, admissionOverlapped>>
  PROVE  AdmissionInv'
<1>1. CASE AdmissionNext
  BY <1>1, AdmissionStep
<1>2. CASE UNCHANGED admissionVars
  <2>1. UNCHANGED <<row, plan, scope, now, quiet, changes, pc, job>>
    BY <1>2 DEF admissionVars, caches
  <2>2. Tables' /\ \A p \in Tenants : row[p].there => row'[p].there
    BY <2>1 DEF AdmissionInv, Tables, Rooted
  <2>3. QED
    BY <2>1, <2>2, OthersKeep
<1>3. QED
  BY <1>1, <1>2 DEF AdmissionHistoryNext

LEMMA AdmissionTyped == AdmissionInv => AdmissionTypeOK
BY DEF AdmissionInv, Tables, AdmissionTypeOK, IsVisit

LEMMA AdmissionAlways == AdmissionHistorySpec => []AdmissionInv
<1>1. AdmissionHistoryInit => AdmissionInv
  BY AdmissionBegins DEF AdmissionHistoryInit
<1>2. AdmissionInv /\ [AdmissionHistoryNext]_<<admissionVars, admissionOverlapped>> => AdmissionInv'
  BY AdmissionKept
<1>3. QED
  BY <1>1, <1>2, PTL DEF AdmissionHistorySpec

-----------------------------------------------------------------------------
(* Admission: while requests do not overlap *)

OnlyVisit == \A q, r \in Visits : pc[q] # "idle" /\ pc[r] # "idle" => q = r

\* What an entry of plan says, its row says, unless the change was not
\* announced or is about to be.
Cached ==
  \A t \in Tenants : plan[t] # Uncreated =>
    plan[t] = row[t] \/ t \in quiet \/ \E r \in Visits : pc[r] = "clear" /\ t \in job[r].on

\* What a request at this step has found out is still so.
VisitCurrent(step, j) ==
  /\ step = "write" => OnTwoLevels(With(j.on, j.data))
  /\ step \in {"keep scope", "keep plan"} => j.own = row[j.to]
  /\ step \in {"above", "keep above", "decide"} => (j.own = row[j.to] \/ j.to \in quiet) /\ ~j.own.suspended
  /\ step = "keep above" => j.above = row[j.own.parent]
  /\ step = "decide" /\ j.own.parent # None => j.above = row[j.own.parent] \/ j.own.parent \in quiet

AdmissionSerial ==
  OnlyVisit /\ OnTwoLevels(row) /\ Cached /\ \A r \in Visits : VisitCurrent(pc[r], job[r])

Undisturbed(r) == \A q \in Visits : q # r => pc[q] = "idle" /\ pc'[q] = "idle"

\* What the requests do, told apart from what happens by itself.
VisitMoves(r) ==
  \/ \E t \in Tenants, p \in Tenants \cup {None}, b \in {"no", "many"} : CreateTenant(r, t, p, b)
  \/ \E t \in Tenants, data \in Columns : UpdateTenant(r, t, data) \/ SetSubscription(r, t, data)
  \/ \E t \in Tenants :
       ActivateTenant(r, t) \/ SuspendTenant(r, t) \/ ToggleTenantStatus(r, t) \/ SuspendOrganization(r, t)
  \/ r = cron /\ ExpireLicences
  \/ Write(r) \/ Clear(r)
  \/ \E from, to \in Tenants : Authenticate(r, from, to)
  \/ LookScope(r) \/ KeepScope(r) \/ LookPlan(r) \/ KeepPlan(r)
  \/ LookAbove(r) \/ KeepAbove(r) \/ Decide(r) \/ Answer(r)

LEMMA AdmissionActs == AdmissionNext => (\E r \in Visits : VisitMoves(r)) \/ Elsewhere
<1> SUFFICES ASSUME AdmissionNext PROVE (\E r \in Visits : VisitMoves(r)) \/ Elsewhere
  OBVIOUS
<1>1. Desks \subseteq Visits /\ Clients \subseteq Visits /\ cron \in Visits
  BY DEF Visits
<1>2. ASSUME NEW r \in Desks, Administer(r) PROVE VisitMoves(r)
  BY <1>2 DEF Administer, VisitMoves
<1>3. ASSUME NEW r \in Clients, Continue(r) \/ \E from, to \in Tenants : Authenticate(r, from, to)
      PROVE  VisitMoves(r)
  BY <1>3 DEF Continue, VisitMoves
<1>4. Expire => VisitMoves(cron)
  BY DEF Expire, VisitMoves
<1>5. QED
  BY <1>1, <1>2, <1>3, <1>4 DEF AdmissionNext

LEMMA VisitSteps ==
  ASSUME NEW r, VisitMoves(r)
  PROVE  \/ pc[r] # "idle" /\ \E step \in Steps : pc' = [pc EXCEPT ![r] = step]
         \/ \E step \in Steps \ {"idle"} : pc' = [pc EXCEPT ![r] = step]
<1>1. ASSUME NEW on, NEW data, NEW clears, Prepare(r, on, data, clears)
      PROVE  \E step \in Steps \ {"idle"} : pc' = [pc EXCEPT ![r] = step]
  BY <1>1 DEF Prepare, Goes, Steps
<1>2. CASE \/ \E t \in Tenants, p \in Tenants \cup {None}, b \in {"no", "many"} : CreateTenant(r, t, p, b)
           \/ \E t \in Tenants, data \in Columns : UpdateTenant(r, t, data) \/ SetSubscription(r, t, data)
           \/ \E t \in Tenants :
                ActivateTenant(r, t) \/ SuspendTenant(r, t) \/ ToggleTenantStatus(r, t) \/ SuspendOrganization(r, t)
  <2>1. \E on, data, clears : Prepare(r, on, data, clears)
    BY <1>2 DEF CreateTenant, UpdateTenant, SetSubscription, ActivateTenant, SuspendTenant,
                ToggleTenantStatus, SuspendOrganization
  <2>2. QED
    BY <1>1, <2>1
<1>3. CASE r = cron /\ ExpireLicences
  BY <1>3 DEF ExpireLicences, Goes, Steps
<1>4. CASE Write(r) \/ Clear(r)
  BY <1>4 DEF Write, Clear, Done, Goes, Steps
<1>5. CASE \E from, to \in Tenants : Authenticate(r, from, to)
  BY <1>5 DEF Authenticate, Goes, Steps
<1>6. CASE LookScope(r) \/ KeepScope(r) \/ LookPlan(r) \/ KeepPlan(r)
  BY <1>6 DEF LookScope, KeepScope, LookPlan, KeepPlan, Afterwards, Goes, Steps
<1>7. CASE LookAbove(r) \/ KeepAbove(r) \/ Decide(r) \/ Answer(r)
  BY <1>7 DEF LookAbove, KeepAbove, Decide, Answer, Done, Goes, Steps
<1>8. QED
  BY <1>2, <1>3, <1>4, <1>5, <1>6, <1>7 DEF VisitMoves

\* A step of a run without overlaps: nobody else is in progress.
LEMMA AdmissionModes ==
  ASSUME AdmissionInv, OnlyVisit, AdmissionNext, Overlaps!NoteOverlap, ~admissionOverlapped'
  PROVE  /\ OnlyVisit'
         /\ \/ \E r \in Visits : VisitMoves(r) /\ Undisturbed(r)
            \/ Elsewhere /\ ((\A q \in Visits : pc[q] = "idle") \/ Restart)
<1>1. /\ ~(Cardinality({q \in Visits : pc'[q] # "idle"}) > 1)
      /\ UNCHANGED pc => \A q \in Visits : pc[q] = "idle"
  BY DEF Overlaps!NoteOverlap, Overlaps!Busy, Overlaps!Cardinality, Cardinality
<1>2. ASSUME NEW r \in Visits, \A q \in Visits : q # r => pc'[q] = pc[q] PROVE OnlyVisit'
  <2>1. \A a, b \in Visits : pc'[a] # "idle" /\ pc'[b] # "idle" => a = b
    BY <1>1, <1>2, OneMoves DEF OnlyVisit
  <2>2. QED
    BY <2>1 DEF OnlyVisit
<1>3. ASSUME NEW r \in Visits, VisitMoves(r) PROVE OnlyVisit' /\ Undisturbed(r)
  <2>1. \/ pc[r] # "idle" /\ \E step \in Steps : pc' = [pc EXCEPT ![r] = step]
        \/ \E step \in Steps \ {"idle"} : pc' = [pc EXCEPT ![r] = step]
    BY <1>3, VisitSteps
  <2>2. pc \in [Visits -> Steps]
    BY DEF AdmissionInv
  <2>3. \A q \in Visits : q # r => pc'[q] = pc[q]
    BY <2>1, <2>2
  <2>4. OnlyVisit'
    BY <1>2, <2>3
  <2>5. pc[r] # "idle" \/ pc'[r] # "idle"
    BY <2>1, <2>2
  <2>6. \A q \in Visits : q # r => pc[q] = "idle"
    BY <2>3, <2>4, <2>5 DEF OnlyVisit
  <2>7. QED
    BY <2>3, <2>4, <2>6 DEF Undisturbed
<1>4. ASSUME Restart PROVE OnlyVisit'
  BY <1>4 DEF Restart, OnlyVisit
<1>5. ASSUME Elsewhere PROVE Restart \/ UNCHANGED pc
  BY <1>5 DEF Elsewhere, NextDay, LapsePlan, LapseScope
<1>6. ASSUME UNCHANGED pc PROVE OnlyVisit'
  BY <1>6 DEF OnlyVisit
<1>7. QED
  BY <1>1, <1>3, <1>4, <1>5, <1>6, AdmissionActs

\* Rows that are there, below others and with branches alike are on two levels alike.
LEMMA SameLevels ==
  ASSUME NEW rows, NEW w, OnTwoLevels(rows),
         \A t \in Tenants : rows[t].parent \in Tenants \cup {None},
         \A t \in Tenants : /\ w[t].there = rows[t].there /\ w[t].parent = rows[t].parent
                            /\ w[t].branches = rows[t].branches
  PROVE  OnTwoLevels(w)
<1>1. ASSUME NEW t \in Tenants, w[t].there, w[t].parent # None
      PROVE  /\ w[t].branches = "no" /\ ~\E x \in Tenants : w[x].there /\ w[x].parent = t
             /\ w[w[t].parent].there /\ w[w[t].parent].branches # "no"
  BY <1>1 DEF OnTwoLevels
<1>2. QED
  BY <1>1 DEF OnTwoLevels

LEMMA ColumnsKeepLevels ==
  ASSUME AdmissionInv, OnTwoLevels(row), NEW on \in SUBSET Tenants, NEW data, Writable(data, on),
         DOMAIN data \cap {"there", "parent", "branches"} = {}
  PROVE  OnTwoLevels(With(on, data))
<1>1. PICK w : w = With(on, data)
  OBVIOUS
<1>2. row \in [Tenants -> Row]
  BY DEF AdmissionInv, Tables, Rows
<1>3. ASSUME NEW t \in Tenants
      PROVE  /\ w[t].there = row[t].there /\ w[t].parent = row[t].parent
             /\ w[t].branches = row[t].branches
  <2>1. CASE t \notin on
    BY <1>1, <2>1, WithRows
  <2>2. CASE t \in on
    <3>1. \A k \in Fields : w[t][k] = IF k \in DOMAIN data THEN data[k] ELSE row[t][k]
      BY <1>1, <2>2, WithRows
    <3>2. {"there", "parent", "branches"} \subseteq Fields
      BY DEF Fields
    <3>3. QED
      BY <3>1, <3>2
  <2>3. QED
    BY <2>1, <2>2
<1>4. \A t \in Tenants : row[t].parent \in Tenants \cup {None}
  BY <1>2, RowFields
<1>5. OnTwoLevels(w)
  BY <1>3, <1>4, SameLevels
<1>6. QED
  BY <1>1, <1>5

\* What is created below an organization that may have branches is on the second level.
LEMMA CreatedLevels ==
  ASSUME AdmissionInv, OnTwoLevels(row), NEW t \in Tenants, NEW p \in Tenants \cup {None},
         NEW b \in {"no", "many"}, ~row[t].there, p # None => b = "no" /\ MayAdopt(p, t)
  PROVE  OnTwoLevels(With({t}, Created(p, b)))
<1>1. PICK x : x = Created(p, b)
  OBVIOUS
<1>2. DOMAIN x = Fields /\ x.there /\ x.parent = p /\ x.branches = b /\ Part(x) /\ x["there"]
  BY <1>1, CreatedRow
<1>3. PICK w : w = With({t}, x)
  OBVIOUS
<1>4. p # None => p \in Tenants /\ p # t /\ row[p].there /\ row[p].branches # "no" /\ b = "no"
  BY DEF MayAdopt
<1>5. Writable(x, {t})
  BY <1>2, <1>4 DEF Writable, Rooted, Fields
<1>6. w[t].there /\ w[t].parent = p /\ w[t].branches = b
  <2>1. \A k \in Fields : w[t][k] = IF k \in DOMAIN x THEN x[k] ELSE row[t][k]
    BY <1>3, <1>5, WithRows
  <2>2. QED
    BY <1>2, <2>1 DEF Fields
<1>7. \A y \in Tenants : y # t => w[y] = row[y]
  BY <1>3 DEF With
<1>8. None \notin Tenants
  BY AdmissionAssumption
<1>9. ASSUME NEW y \in Tenants, w[y].there, w[y].parent # None
      PROVE  /\ w[y].branches = "no" /\ ~\E z \in Tenants : w[z].there /\ w[z].parent = y
             /\ w[w[y].parent].there /\ w[w[y].parent].branches # "no"
  <2>1. CASE y = t
    <3>1. ASSUME NEW z \in Tenants, w[z].there, w[z].parent = t PROVE FALSE
      <4>1. z # t
        BY <1>4, <1>6, <1>8, <2>1, <3>1
      <4>2. row[z].there /\ row[z].parent = t
        BY <1>7, <3>1, <4>1
      <4>3. QED
        BY <1>8, <4>2 DEF OnTwoLevels
    <3>2. QED
      BY <1>4, <1>6, <1>7, <1>9, <2>1, <3>1
  <2>2. CASE y # t
    <3>1. w[y] = row[y]
      BY <1>7, <2>2
    <3>2. /\ row[y].branches = "no" /\ ~\E z \in Tenants : row[z].there /\ row[z].parent = y
          /\ row[row[y].parent].there /\ row[row[y].parent].branches # "no"
      BY <1>9, <3>1 DEF OnTwoLevels
    <3>3. ASSUME NEW z \in Tenants, w[z].there, w[z].parent = y PROVE FALSE
      <4>1. CASE z = t
        BY <1>4, <1>6, <1>8, <3>2, <3>3, <4>1
      <4>2. CASE z # t
        BY <1>7, <3>2, <3>3, <4>2
      <4>3. QED
        BY <4>1, <4>2
    <3>4. row[y].parent \in Tenants /\ row[y].parent # t
      BY <1>9, <3>1, <3>2 DEF AdmissionInv, Tables, Rooted
    <3>5. QED
      BY <1>7, <3>1, <3>2, <3>3, <3>4
  <2>3. QED
    BY <2>1, <2>2
<1>10. OnTwoLevels(w)
  BY <1>9 DEF OnTwoLevels
<1>11. QED
  BY <1>1, <1>3, <1>10

\* A tenant that moves is nobody's parent and finds a parent that may have
\* branches; one that is somebody's parent keeps its branches.
LEMMA MovedLevels ==
  ASSUME AdmissionInv, OnTwoLevels(row), NEW t \in Tenants, row[t].there, NEW w,
         \A y \in Tenants : y # t => w[y] = row[y],
         NEW P \in Tenants \cup {None}, NEW b, w[t].there, w[t].parent = P, w[t].branches = b,
         P # None => b = "no", P # row[t].parent /\ P # None => P # t /\ MayAdopt(P, t) /\ Children(t) = {},
         Children(t) # {} => b # "no" \/ row[t].branches = "no" \/ P # None
  PROVE  OnTwoLevels(w)
<1>1. None \notin Tenants
  BY AdmissionAssumption
<1>2. ASSUME P # None
      PROVE  /\ P \in Tenants /\ P # t /\ row[P].there /\ row[P].branches # "no"
             /\ ~\E z \in Tenants : row[z].there /\ row[z].parent = t
  <2>1. CASE P = row[t].parent
    BY <1>1, <1>2, <2>1 DEF OnTwoLevels, AdmissionInv, Tables, Rooted
  <2>2. CASE P # row[t].parent
    BY <1>2, <2>2 DEF MayAdopt, Children
  <2>3. QED
    BY <2>1, <2>2
<1>3. ASSUME NEW y \in Tenants, w[y].there, w[y].parent # None
      PROVE  /\ w[y].branches = "no" /\ ~\E z \in Tenants : w[z].there /\ w[z].parent = y
             /\ w[w[y].parent].there /\ w[w[y].parent].branches # "no"
  <2>1. CASE y = t
    <3>1. P # None
      BY <1>3, <2>1
    <3>2. ASSUME NEW z \in Tenants, w[z].there, w[z].parent = t PROVE FALSE
      <4>1. CASE z = t
        BY <1>2, <3>1, <3>2, <4>1
      <4>2. CASE z # t
        BY <1>2, <3>1, <3>2, <4>2
      <4>3. QED
        BY <4>1, <4>2
    <3>3. w[P] = row[P]
      BY <1>2, <3>1
    <3>4. QED
      BY <1>2, <2>1, <3>1, <3>2, <3>3
  <2>2. CASE y # t
    <3>1. w[y] = row[y]
      BY <2>2
    <3>2. /\ row[y].branches = "no" /\ ~\E z \in Tenants : row[z].there /\ row[z].parent = y
          /\ row[row[y].parent].there /\ row[row[y].parent].branches # "no"
      BY <1>3, <3>1 DEF OnTwoLevels
    <3>3. ASSUME NEW z \in Tenants, w[z].there, w[z].parent = y PROVE FALSE
      <4>1. CASE z = t
        <5>1. P = y /\ P # None
          BY <1>1, <3>3, <4>1
        <5>2. QED
          BY <1>2, <3>2, <5>1
      <4>2. CASE z # t
        BY <3>2, <3>3, <4>2
      <4>3. QED
        BY <4>1, <4>2
    <3>4. row[y].parent \in Tenants /\ row[y].parent # None
      BY <1>3, <3>1 DEF AdmissionInv, Tables, Rooted
    <3>5. CASE row[y].parent = t
      <4>1. y \in Children(t)
        BY <1>3, <3>1, <3>5 DEF Children
      <4>2. P = None
        BY <1>2, <1>3, <3>1, <3>5
      <4>3. row[t].branches # "no"
        BY <3>2, <3>5
      <4>4. b # "no"
        BY <4>1, <4>2, <4>3
      <4>5. QED
        BY <3>1, <3>2, <3>3, <3>5, <4>4
    <3>6. CASE row[y].parent # t
      <4>1. w[row[y].parent] = row[row[y].parent]
        BY <3>4, <3>6
      <4>2. QED
        BY <3>1, <3>2, <3>3, <4>1
    <3>7. QED
      BY <3>5, <3>6
  <2>3. QED
    BY <2>1, <2>2
<1>4. QED
  BY <1>3 DEF OnTwoLevels

\* The request has put together what it will write, and it can be written.
Prepared(r) ==
  \E on, data, clears :
    /\ on \in SUBSET Tenants /\ pc' = [pc EXCEPT ![r] = "write"] /\ job' = [job EXCEPT ![r] = Change(on, data, clears)]
    /\ OnTwoLevels(With(on, data)) /\ UNCHANGED <<row, plan, scope, now, quiet>>

LEMMA AdminPrepares ==
  ASSUME AdmissionInv, OnTwoLevels(row), NEW r \in Visits, NEW t \in Tenants
  PROVE  /\ \A p \in Tenants \cup {None}, b \in {"no", "many"} : CreateTenant(r, t, p, b) => Prepared(r)
         /\ \A data \in Columns : UpdateTenant(r, t, data) \/ SetSubscription(r, t, data) => Prepared(r)
         /\ ActivateTenant(r, t) \/ SuspendTenant(r, t) \/ ToggleTenantStatus(r, t)
              \/ SuspendOrganization(r, t) => Prepared(r)
         /\ r = cron /\ ExpireLicences => Prepared(r)
<1>1. ASSUME NEW data, NEW clears, NEW o, o = {t}, Prepare(r, o, data, clears), OnTwoLevels(With(o, data))
      PROVE  Prepared(r)
  BY <1>1 DEF Prepare, Goes, Prepared, caches
<1>2. ASSUME NEW data, NEW clears, Prepare(r, {t}, data, clears), Part(data), row[t].there,
             DOMAIN data \cap {"there", "parent", "branches"} = {}
      PROVE  Prepared(r)
  <2>1. Writable(data, {t})
    BY <1>2 DEF Writable
  <2>2. OnTwoLevels(With({t}, data))
    BY <1>2, <2>1, ColumnsKeepLevels
  <2>3. QED
    BY <1>1, <1>2, <2>2
<1>3. ASSUME NEW p \in Tenants \cup {None}, NEW b \in {"no", "many"}, CreateTenant(r, t, p, b)
      PROVE  Prepared(r)
  <2>1. OnTwoLevels(With({t}, Created(p, b)))
    BY <1>3, CreatedLevels DEF CreateTenant
  <2>2. PICK x : x = Created(p, b)
    OBVIOUS
  <2>3. QED
    BY <1>1, <1>3, <2>1, <2>2 DEF CreateTenant
<1>4. ASSUME NEW data \in Columns, UpdateTenant(r, t, data) PROVE Prepared(r)
  <2>1. PICK x :
          /\ Prepare(r, {t}, x, TRUE) /\ Writable(x, {t}) /\ "there" \notin DOMAIN x /\ row[t].there
          /\ \E P, b :
               /\ P = IF "parent" \in DOMAIN x THEN x["parent"] ELSE row[t].parent
               /\ b = IF "branches" \in DOMAIN x THEN x["branches"] ELSE row[t].branches
               /\ P # None => b = "no"
               /\ P # row[t].parent /\ P # None => P # t /\ MayAdopt(P, t) /\ Children(t) = {}
               /\ Children(t) # {} => b # "no" \/ row[t].branches = "no" \/ P # None
    BY <1>4, UpdateIs
  <2>2. PICK P, b :
          /\ P = IF "parent" \in DOMAIN x THEN x["parent"] ELSE row[t].parent
          /\ b = IF "branches" \in DOMAIN x THEN x["branches"] ELSE row[t].branches
          /\ P # None => b = "no"
          /\ P # row[t].parent /\ P # None => P # t /\ MayAdopt(P, t) /\ Children(t) = {}
          /\ Children(t) # {} => b # "no" \/ row[t].branches = "no" \/ P # None
    BY <2>1
  <2>3. PICK w : w = With({t}, x)
    OBVIOUS
  <2>4. \A y \in Tenants : y # t => w[y] = row[y]
    BY <2>3 DEF With
  <2>5. \A k \in Fields : w[t][k] = IF k \in DOMAIN x THEN x[k] ELSE row[t][k]
    BY <2>1, <2>3, WithRows
  <2>6. {"there", "parent", "branches"} \subseteq Fields
    BY DEF Fields
  <2>7. w[t].there /\ w[t].parent = P /\ w[t].branches = b
    BY <2>1, <2>2, <2>5, <2>6
  <2>8. P \in Tenants \cup {None}
    BY <2>1, <2>2 DEF Writable, Rooted, AdmissionInv, Tables
  <2>9. OnTwoLevels(w)
    BY <2>1, <2>2, <2>4, <2>7, <2>8, MovedLevels
  <2>10. QED
    BY <1>1, <2>1, <2>3, <2>9
<1>5. ASSUME NEW data \in Columns, SetSubscription(r, t, data) PROVE Prepared(r)
  <2>1. Part(data) /\ DOMAIN data \subseteq {"expired", "end"} /\ row[t].there
    BY <1>5, AdmissionAssumption, GivenPart DEF SetSubscription
  <2>2. PICK x, o : o = [active |-> TRUE] /\ x = Over(o, data)
    OBVIOUS
  <2>3. Part(o) /\ DOMAIN o = {"active"}
    BY <2>2, ColumnsWritten
  <2>4. Part(x) /\ DOMAIN x = DOMAIN o \cup DOMAIN data
    BY <2>1, <2>2, <2>3, OverPart
  <2>5. Prepare(r, {t}, x, TRUE) /\ DOMAIN x \cap {"there", "parent", "branches"} = {}
    BY <1>5, <2>1, <2>2, <2>3, <2>4 DEF SetSubscription
  <2>6. QED
    BY <1>2, <2>1, <2>4, <2>5
<1>6. ASSUME ActivateTenant(r, t) PROVE Prepared(r)
  <2>1. PICK x : x = [suspended |-> FALSE, active |-> TRUE]
    OBVIOUS
  <2>2. Part(x) /\ DOMAIN x \cap {"there", "parent", "branches"} = {}
    BY <2>1, ColumnsWritten
  <2>3. QED
    BY <1>2, <1>6, <2>1, <2>2 DEF ActivateTenant
<1>7. ASSUME SuspendTenant(r, t) \/ SuspendOrganization(r, t) PROVE Prepared(r)
  <2>1. PICK x : x = [suspended |-> TRUE]
    OBVIOUS
  <2>2. Part(x) /\ DOMAIN x \cap {"there", "parent", "branches"} = {}
    BY <2>1, ColumnsWritten
  <2>3. QED
    BY <1>2, <1>7, <2>1, <2>2 DEF SuspendTenant, SuspendOrganization
<1>8. ASSUME ToggleTenantStatus(r, t) PROVE Prepared(r)
  <2>1. row[t] \in Row
    BY DEF AdmissionInv, Tables, Rows
  <2>2. PICK b, x : b \in BOOLEAN /\ b = ~row[t].active /\ x = [active |-> b]
    BY <2>1, RowFields
  <2>3. Part(x) /\ DOMAIN x \cap {"there", "parent", "branches"} = {}
    BY <2>2, ColumnsWritten
  <2>4. x = [active |-> ~row[t].active]
    BY <2>2
  <2>5. QED
    BY <1>2, <1>8, <2>3, <2>4 DEF ToggleTenantStatus
<1>9. ASSUME r = cron, ExpireLicences PROVE Prepared(r)
  <2>1. PICK x : x = [expired |-> TRUE]
    OBVIOUS
  <2>2. Part(x) /\ DOMAIN x = {"expired"}
    BY <2>1, ColumnsWritten
  <2>3. Writable(x, Due) /\ Due \in SUBSET Tenants
    BY <2>1, DueWritable DEF Due
  <2>4. OnTwoLevels(With(Due, x))
    BY <2>2, <2>3, ColumnsKeepLevels
  <2>5. QED
    BY <1>9, <2>1, <2>3, <2>4 DEF ExpireLicences, Goes, Prepared, caches
<1>10. QED
  BY <1>3, <1>4, <1>5, <1>6, <1>7, <1>8, <1>9

\* The only request in progress goes on.
LEMMA AloneGoes ==
  ASSUME AdmissionInv, NEW r \in Visits, Undisturbed(r), OnlyVisit', NEW step \in Steps, NEW x,
         pc' = [pc EXCEPT ![r] = step], job' = [job EXCEPT ![r] = x],
         VisitCurrent(step, x)', OnTwoLevels(row)', Cached'
  PROVE  AdmissionSerial'
<1>1. pc'[r] = step /\ job'[r] = x
  BY DEF AdmissionInv
<1>2. ASSUME NEW q \in Visits, q # r PROVE VisitCurrent(pc[q], job[q])'
  BY <1>2 DEF Undisturbed, VisitCurrent
<1>3. ASSUME NEW q \in Visits PROVE VisitCurrent(pc[q], job[q])'
  BY <1>1, <1>2, <1>3
<1>4. QED
  BY <1>3 DEF AdmissionSerial

\* A step that changes neither a row nor an entry of plan.
LEMMA CacheLeft ==
  ASSUME AdmissionInv, Cached, NEW r \in Visits, Undisturbed(r), pc[r] # "clear",
         UNCHANGED <<row, plan, quiet>>
  PROVE  Cached'
BY DEF Cached, Undisturbed

LEMMA AloneLooks ==
  ASSUME AdmissionInv, AdmissionSerial, NEW r \in Visits, Undisturbed(r), OnlyVisit',
         NEW step \in Steps, NEW x, VisitCurrent(step, x),
         pc' = [pc EXCEPT ![r] = step], job' = [job EXCEPT ![r] = x], pc[r] # "clear",
         UNCHANGED <<row, plan, quiet>>
  PROVE  AdmissionSerial'
<1>1. Cached'
  BY CacheLeft DEF AdmissionSerial
<1>2. OnTwoLevels(row)'
  BY DEF OnTwoLevels, AdmissionSerial
<1>3. VisitCurrent(step, x)'
  <2>1. PICK w : w = With(x.on, x.data)
    OBVIOUS
  <2>2. w = With(x.on, x.data)'
    BY <2>1 DEF With
  <2>3. step = "write" => OnTwoLevels(w)
    BY <2>1 DEF VisitCurrent
  <2>4. step = "write" => OnTwoLevels(With(x.on, x.data))'
    BY <2>2, <2>3 DEF OnTwoLevels
  <2>5. QED
    BY <2>4 DEF VisitCurrent
<1>4. QED
  BY <1>1, <1>2, <1>3, AloneGoes

LEMMA PreparedSerial ==
  ASSUME AdmissionInv, AdmissionSerial, NEW r \in Visits, Undisturbed(r), OnlyVisit', Prepared(r), pc[r] = "idle"
  PROVE  AdmissionSerial'
<1>1. PICK on, data, clears :
        /\ on \in SUBSET Tenants /\ pc' = [pc EXCEPT ![r] = "write"] /\ job' = [job EXCEPT ![r] = Change(on, data, clears)]
        /\ OnTwoLevels(With(on, data)) /\ UNCHANGED <<row, plan, scope, now, quiet>>
  BY DEF Prepared
<1>2. PICK x : x = Change(on, data, clears)
  OBVIOUS
<1>3. x.on = on /\ x.data = data
  BY <1>2 DEF Change
<1>4. VisitCurrent("write", x)
  BY <1>1, <1>3 DEF VisitCurrent
<1>5. QED
  BY <1>1, <1>2, <1>4, AloneLooks DEF Steps

LEMMA WriteSerial ==
  ASSUME AdmissionInv, AdmissionSerial, NEW r \in Visits, Undisturbed(r), OnlyVisit', Write(r)
  PROVE  AdmissionSerial'
<1>1. PICK j, w : j = job[r] /\ w = With(j.on, j.data)
  OBVIOUS
<1>2. row' = w /\ OnTwoLevels(w) /\ plan' = plan
  BY <1>1 DEF Write, AdmissionSerial, VisitCurrent, caches
<1>3. OnTwoLevels(row)'
  BY <1>2 DEF OnTwoLevels
<1>4. \A t \in Tenants : t \notin j.on => w[t] = row[t]
  BY <1>1 DEF With
<1>5. \A t \in Tenants : plan[t] # Uncreated => plan[t] = row[t] \/ t \in quiet
  BY DEF AdmissionSerial, Cached, Write, Undisturbed
<1>6. CASE j.clears
  <2>1. pc' = [pc EXCEPT ![r] = "clear"] /\ job' = job /\ quiet' = quiet
    BY <1>1, <1>6 DEF Write, Goes
  <2>2. pc'[r] = "clear" /\ job'[r] = j
    BY <1>1, <2>1 DEF AdmissionInv
  <2>3. Cached'
    BY <1>2, <1>4, <1>5, <2>1, <2>2 DEF Cached
  <2>4. job' = [job EXCEPT ![r] = j] /\ VisitCurrent("clear", j)'
    BY <1>1, <2>1 DEF AdmissionInv, VisitCurrent
  <2>5. QED
    BY <1>3, <2>1, <2>3, <2>4, AloneGoes DEF Steps
<1>7. CASE ~j.clears
  <2>1. /\ pc' = [pc EXCEPT ![r] = "idle"] /\ job' = [job EXCEPT ![r] = NoJob]
        /\ quiet' = quiet \cup {t \in j.on : plan[t] # Uncreated}
    BY <1>1, <1>7 DEF Write, Goes, Done
  <2>2. Cached'
    BY <1>2, <1>4, <1>5, <2>1 DEF Cached
  <2>3. VisitCurrent("idle", NoJob)'
    BY DEF VisitCurrent
  <2>4. QED
    BY <1>3, <2>1, <2>2, <2>3, AloneGoes DEF Steps
<1>8. QED
  BY <1>6, <1>7

LEMMA ClearSerial ==
  ASSUME AdmissionInv, AdmissionSerial, NEW r \in Visits, Undisturbed(r), OnlyVisit', Clear(r)
  PROVE  AdmissionSerial'
<1>1. PICK on : on = job[r].on
  OBVIOUS
<1>2. /\ Uncache(on) /\ row' = row
      /\ pc' = [pc EXCEPT ![r] = "idle"] /\ job' = [job EXCEPT ![r] = NoJob]
  BY <1>1 DEF Clear, Done, Goes
<1>3. \A t \in Tenants : plan[t] # Uncreated => plan[t] = row[t] \/ t \in quiet \/ t \in on
  BY <1>1 DEF AdmissionSerial, Cached, Undisturbed
<1>4. Cached'
  BY <1>2, <1>3 DEF Cached, Uncache
<1>5. OnTwoLevels(row)' /\ VisitCurrent("idle", NoJob)'
  BY <1>2 DEF OnTwoLevels, AdmissionSerial, VisitCurrent
<1>6. QED
  BY <1>2, <1>4, <1>5, AloneGoes DEF Steps

LEMMA LooksSerial ==
  ASSUME AdmissionInv, AdmissionSerial, NEW r \in Visits, Undisturbed(r), OnlyVisit'
  PROVE  /\ \A from \in Tenants, to \in Tenants : Authenticate(r, from, to) => AdmissionSerial'
         /\ LookScope(r) \/ KeepScope(r) \/ LookPlan(r) \/ LookAbove(r) \/ Decide(r) \/ Answer(r)
              => AdmissionSerial'
<1>1. PICK j, s : j = job[r] /\ s = pc[r]
  OBVIOUS
<1>2. IsVisit(j) /\ VisitHolds(s, j) /\ VisitCurrent(s, j) /\ job = [q \in Visits |-> job[q]]
  BY <1>1 DEF AdmissionInv, AdmissionSerial
<1>3. ASSUME NEW step \in Steps, NEW x, VisitCurrent(step, x), pc' = [pc EXCEPT ![r] = step],
             job' = [job EXCEPT ![r] = x], pc[r] # "clear", UNCHANGED <<row, plan, quiet>>
      PROVE  AdmissionSerial'
  BY <1>3, AloneLooks
<1>4. \A x : VisitCurrent("idle", x) /\ VisitCurrent("scope", x) /\ VisitCurrent("plan", x)
             /\ VisitCurrent("refused", x) /\ VisitCurrent("admitted", x)
  BY DEF VisitCurrent
<1>5. ASSUME NEW from \in Tenants, NEW to \in Tenants, Authenticate(r, from, to) PROVE AdmissionSerial'
  <2>1. PICK step \in {"refused", "scope"} : pc' = [pc EXCEPT ![r] = step]
    BY <1>5 DEF Authenticate, Goes
  <2>2. PICK x : x = Visit(from, to)
    OBVIOUS
  <2>3. job' = [job EXCEPT ![r] = x] /\ pc[r] # "clear" /\ UNCHANGED <<row, plan, quiet>>
    BY <1>5, <2>2 DEF Authenticate, caches
  <2>4. VisitCurrent(step, x) /\ step \in Steps
    BY <1>4, <2>1 DEF Steps
  <2>5. QED
    BY <1>3, <2>1, <2>3, <2>4
<1>6. CASE LookScope(r)
  <2>1. PICK x : x = [j EXCEPT !.own = row[j.to]]
    OBVIOUS
  <2>2. x.own = row[j.to] /\ x.to = j.to
    BY <1>2, <2>1 DEF IsVisit
  <2>3. pc[r] # "clear" /\ UNCHANGED <<row, plan, quiet>>
    BY <1>6 DEF LookScope, caches
  <2>4. \/ pc' = [pc EXCEPT ![r] = "keep scope"] /\ job' = [job EXCEPT ![r] = x]
        \/ (\E step \in {"plan", "refused"} : pc' = [pc EXCEPT ![r] = step]) /\ job' = [job EXCEPT ![r] = j]
    BY <1>1, <1>2, <1>6, <2>1 DEF LookScope, Goes
  <2>5. VisitCurrent("keep scope", x)
    BY <2>2 DEF VisitCurrent
  <2>6. {"keep scope", "plan", "refused"} \subseteq Steps
    BY DEF Steps
  <2>7. QED
    BY <1>3, <1>4, <2>3, <2>4, <2>5, <2>6
<1>7. CASE KeepScope(r)
  <2>1. PICK x : x = [j EXCEPT !.own = Uncreated]
    OBVIOUS
  <2>2. PICK step \in {"plan", "refused"} : pc' = [pc EXCEPT ![r] = step]
    BY <1>7 DEF KeepScope, Goes
  <2>3. job' = [job EXCEPT ![r] = x] /\ pc[r] # "clear" /\ UNCHANGED <<row, plan, quiet>>
    BY <1>1, <1>2, <1>7, <2>1 DEF KeepScope
  <2>4. VisitCurrent(step, x) /\ step \in Steps
    BY <1>4, <2>2 DEF Steps
  <2>5. QED
    BY <1>3, <2>2, <2>3, <2>4
<1>8. CASE LookPlan(r)
  <2>1. PICK own \in {row[j.to], plan[j.to]}, step \in {"refused", "above", "decide", "keep plan"} :
          /\ job' = [job EXCEPT ![r].own = own] /\ pc' = [pc EXCEPT ![r] = step]
          /\ own # row[j.to] => plan[j.to] # Uncreated /\ own = plan[j.to]
          /\ step = "keep plan" => own = row[j.to]
          /\ step \in {"above", "decide"} => ~own.suspended
          /\ step = "decide" => own.parent = None
    BY <1>1, <1>8 DEF LookPlan, Goes, Afterwards
  <2>2. PICK x : x = [j EXCEPT !.own = own]
    OBVIOUS
  <2>3. x.own = own /\ x.to = j.to
    BY <1>2, <2>2 DEF IsVisit
  <2>4. j.to \in Tenants
    BY <1>1, <1>2, <1>8 DEF LookPlan, VisitHolds, Checking
  <2>5. own = row[j.to] \/ j.to \in quiet
    BY <1>8, <2>1, <2>4 DEF AdmissionSerial, Cached, LookPlan, Undisturbed
  <2>6. VisitCurrent(step, x) /\ step \in Steps
    BY <2>1, <2>3, <2>5 DEF VisitCurrent, Steps
  <2>7. job' = [job EXCEPT ![r] = x] /\ pc[r] # "clear" /\ UNCHANGED <<row, plan, quiet>>
    BY <1>1, <1>2, <1>8, <2>1, <2>2 DEF LookPlan, caches
  <2>8. QED
    BY <1>3, <2>1, <2>6, <2>7
<1>9. CASE LookAbove(r)
  <2>1. /\ s = "above" /\ j.own.parent \in Tenants /\ ~j.own.suspended
        /\ j.own = row[j.to] \/ j.to \in quiet
    BY <1>1, <1>2, <1>9 DEF LookAbove, VisitHolds, VisitCurrent, Rooted, Checking
  <2>2. PICK above \in {row[j.own.parent], plan[j.own.parent]}, step \in {"decide", "keep above"} :
          /\ job' = [job EXCEPT ![r].above = above] /\ pc' = [pc EXCEPT ![r] = step]
          /\ above # row[j.own.parent] => plan[j.own.parent] # Uncreated /\ above = plan[j.own.parent]
          /\ step = "keep above" => above = row[j.own.parent]
    BY <1>1, <1>9 DEF LookAbove, Goes
  <2>3. PICK x : x = [j EXCEPT !.above = above]
    OBVIOUS
  <2>4. x.own = j.own /\ x.to = j.to /\ x.above = above
    BY <1>2, <2>3 DEF IsVisit
  <2>5. above = row[j.own.parent] \/ j.own.parent \in quiet
    BY <1>9, <2>1, <2>2 DEF AdmissionSerial, Cached, LookAbove, Undisturbed
  <2>6. VisitCurrent(step, x) /\ step \in Steps
    BY <2>1, <2>2, <2>4, <2>5 DEF VisitCurrent, Steps
  <2>7. job' = [job EXCEPT ![r] = x] /\ pc[r] # "clear" /\ UNCHANGED <<row, plan, quiet>>
    BY <1>1, <1>2, <1>9, <2>2, <2>3 DEF LookAbove, caches
  <2>8. QED
    BY <1>3, <2>2, <2>6, <2>7
<1>10. CASE Decide(r)
  <2>1. PICK x : x = Visit(j.from, j.to)
    OBVIOUS
  <2>2. PICK step \in {"refused", "admitted"} : pc' = [pc EXCEPT ![r] = step]
    BY <1>10 DEF Decide, Goes
  <2>3. job' = [job EXCEPT ![r] = x] /\ pc[r] # "clear" /\ UNCHANGED <<row, plan, quiet>>
    BY <1>1, <1>10, <2>1 DEF Decide, caches
  <2>4. VisitCurrent(step, x) /\ step \in Steps
    BY <1>4, <2>2 DEF Steps
  <2>5. QED
    BY <1>3, <2>2, <2>3, <2>4
<1>11. CASE Answer(r)
  <2>1. /\ pc' = [pc EXCEPT ![r] = "idle"] /\ job' = [job EXCEPT ![r] = NoJob]
        /\ pc[r] # "clear" /\ UNCHANGED <<row, plan, quiet>>
    BY <1>11 DEF Answer, Done, Goes, caches
  <2>2. QED
    BY <1>3, <1>4, <2>1 DEF Steps
<1>12. QED
  BY <1>5, <1>6, <1>7, <1>8, <1>9, <1>10, <1>11

\* What goes into the cache is what the row says.
LEMMA KeepsSerial ==
  ASSUME AdmissionInv, AdmissionSerial, NEW r \in Visits, Undisturbed(r), OnlyVisit', KeepPlan(r) \/ KeepAbove(r)
  PROVE  AdmissionSerial'
<1>1. PICK j, s : j = job[r] /\ s = pc[r]
  OBVIOUS
<1>2. IsVisit(j) /\ VisitHolds(s, j) /\ VisitCurrent(s, j) /\ job = [q \in Visits |-> job[q]]
  BY <1>1 DEF AdmissionInv, AdmissionSerial
<1>3. job = [job EXCEPT ![r] = j]
  BY <1>1, <1>2
<1>4. ASSUME NEW t \in Tenants, plan' = [plan EXCEPT ![t] = row[t]], quiet' = quiet \ {t}, row' = row
      PROVE  Cached'
  <2>1. plan \in [Tenants -> Row]
    BY DEF AdmissionInv, Tables
  <2>2. \A p \in Tenants : plan[p] # Uncreated => plan[p] = row[p] \/ p \in quiet
    BY DEF AdmissionSerial, Cached, Undisturbed, KeepPlan, KeepAbove
  <2>3. \A p \in Tenants : plan'[p] = IF p = t THEN row[p] ELSE plan[p]
    BY <1>4, <2>1
  <2>4. QED
    BY <1>4, <2>2, <2>3 DEF Cached
<1>5. CASE KeepPlan(r)
  <2>1. j.to \in Tenants /\ j.own = row[j.to]
    BY <1>1, <1>2, <1>5 DEF KeepPlan, VisitHolds, VisitCurrent, Checking
  <2>2. /\ plan' = [plan EXCEPT ![j.to] = row[j.to]] /\ quiet' = quiet \ {j.to}
        /\ UNCHANGED <<row, job>>
    BY <1>1, <1>5, <2>1 DEF KeepPlan
  <2>3. PICK step \in {"refused", "above", "decide"} :
          /\ pc' = [pc EXCEPT ![r] = step] /\ (step = "decide" => j.own.parent = None)
          /\ step # "refused" => ~j.own.suspended
    BY <1>1, <1>5 DEF KeepPlan, Goes, Afterwards
  <2>4. Cached' /\ OnTwoLevels(row)'
    BY <1>4, <2>1, <2>2 DEF OnTwoLevels, AdmissionSerial
  <2>5. VisitCurrent(step, j)' /\ step \in Steps
    BY <2>1, <2>2, <2>3 DEF VisitCurrent, Steps
  <2>6. job' = [job EXCEPT ![r] = j]
    BY <1>3, <2>2
  <2>7. QED
    BY <2>3, <2>4, <2>5, <2>6, AloneGoes
<1>6. CASE KeepAbove(r)
  <2>1. /\ Rooted(j.own, j.to) /\ j.own.parent # None /\ j.above = row[j.own.parent]
        /\ (j.own = row[j.to] \/ j.to \in quiet) /\ ~j.own.suspended
    BY <1>1, <1>2, <1>6 DEF KeepAbove, VisitHolds, VisitCurrent, Checking
  <2>2. j.own.parent \in Tenants /\ j.own.parent # j.to /\ ~j.own.suspended
    BY <1>1, <1>2, <1>6, <2>1 DEF Rooted, KeepAbove, VisitCurrent
  <2>3. /\ plan' = [plan EXCEPT ![j.own.parent] = row[j.own.parent]] /\ quiet' = quiet \ {j.own.parent}
        /\ UNCHANGED <<row, job>> /\ pc' = [pc EXCEPT ![r] = "decide"]
    BY <1>1, <1>6, <2>1 DEF KeepAbove, Goes
  <2>4. Cached' /\ OnTwoLevels(row)'
    BY <1>4, <2>2, <2>3 DEF OnTwoLevels, AdmissionSerial
  <2>5. VisitCurrent("decide", j)' /\ "decide" \in Steps
    BY <2>1, <2>2, <2>3 DEF VisitCurrent, Steps
  <2>6. job' = [job EXCEPT ![r] = j]
    BY <1>3, <2>3
  <2>7. QED
    BY <2>3, <2>4, <2>5, <2>6, AloneGoes
<1>7. QED
  BY <1>5, <1>6

LEMMA ElsewhereSerial ==
  ASSUME AdmissionInv, AdmissionSerial, OnlyVisit', Elsewhere, (\A q \in Visits : pc[q] = "idle") \/ Restart
  PROVE  AdmissionSerial'
<1>1. \A q \in Visits : pc'[q] = "idle"
  BY DEF Elsewhere, NextDay, LapsePlan, LapseScope, Restart
<1>2. OnTwoLevels(row)'
  BY DEF Elsewhere, NextDay, LapsePlan, LapseScope, Restart, AdmissionSerial, OnTwoLevels, caches
<1>3. \A q \in Visits : VisitCurrent(pc[q], job[q])'
  BY <1>1 DEF VisitCurrent
<1>4. Cached'
  <2>1. CASE Restart
    BY <2>1 DEF Restart, Cached
  <2>2. CASE ~Restart
    <3>1. \A t \in Tenants : plan[t] # Uncreated => plan[t] = row[t] \/ t \in quiet
      BY <2>2 DEF AdmissionSerial, Cached
    <3>2. CASE NextDay
      BY <3>1, <3>2 DEF NextDay, Cached, caches
    <3>3. CASE \E t \in Tenants : LapseScope(t)
      BY <3>1, <3>3 DEF LapseScope, Cached
    <3>4. ASSUME NEW t \in Tenants, LapsePlan(t) PROVE Cached'
      BY <3>1, <3>4 DEF LapsePlan, Uncache, Cached
    <3>5. QED
      BY <2>2, <3>2, <3>3, <3>4 DEF Elsewhere
  <2>3. QED
    BY <2>1, <2>2
<1>5. QED
  BY <1>2, <1>3, <1>4 DEF AdmissionSerial

LEMMA SerialGoesOn ==
  ASSUME AdmissionInv, AdmissionSerial, AdmissionNext, Overlaps!NoteOverlap, ~admissionOverlapped'
  PROVE  AdmissionSerial'
<1>1. OnlyVisit'
  BY AdmissionModes DEF AdmissionSerial
<1>2. ASSUME NEW r \in Visits, VisitMoves(r), Undisturbed(r) PROVE AdmissionSerial'
  <2>1. CASE \/ \E t \in Tenants, p \in Tenants \cup {None}, b \in {"no", "many"} : CreateTenant(r, t, p, b)
             \/ \E t \in Tenants, data \in Columns : UpdateTenant(r, t, data) \/ SetSubscription(r, t, data)
             \/ \E t \in Tenants :
                  ActivateTenant(r, t) \/ SuspendTenant(r, t) \/ ToggleTenantStatus(r, t) \/ SuspendOrganization(r, t)
    <3>1. Prepared(r)
      BY <2>1, AdminPrepares DEF AdmissionSerial
    <3>2. pc[r] = "idle"
      BY <2>1 DEF CreateTenant, UpdateTenant, SetSubscription, ActivateTenant, SuspendTenant,
                  ToggleTenantStatus, SuspendOrganization, Prepare
    <3>3. QED
      BY <1>1, <1>2, <3>1, <3>2, PreparedSerial
  <2>2. CASE r = cron /\ ExpireLicences
    <3>1. Tenants # {} /\ pc[r] = "idle"
      BY <2>2 DEF ExpireLicences, Due
    <3>2. Prepared(r)
      BY <2>2, <3>1, AdminPrepares DEF AdmissionSerial
    <3>3. QED
      BY <1>1, <1>2, <3>1, <3>2, PreparedSerial
  <2>3. CASE Write(r)
    BY <1>1, <1>2, <2>3, WriteSerial
  <2>4. CASE Clear(r)
    BY <1>1, <1>2, <2>4, ClearSerial
  <2>5. CASE KeepPlan(r) \/ KeepAbove(r)
    BY <1>1, <1>2, <2>5, KeepsSerial
  <2>6. CASE \/ \E from, to \in Tenants : Authenticate(r, from, to)
             \/ LookScope(r) \/ KeepScope(r) \/ LookPlan(r) \/ LookAbove(r) \/ Decide(r) \/ Answer(r)
    BY <1>1, <1>2, <2>6, LooksSerial
  <2>7. QED
    BY <1>2, <2>1, <2>2, <2>3, <2>4, <2>5, <2>6 DEF VisitMoves
<1>3. ASSUME Elsewhere, (\A q \in Visits : pc[q] = "idle") \/ Restart PROVE AdmissionSerial'
  BY <1>1, <1>3, ElsewhereSerial
<1>4. QED
  BY <1>2, <1>3, AdmissionModes DEF AdmissionSerial

AdmissionWhole == AdmissionInv /\ (admissionOverlapped \/ AdmissionSerial)

LEMMA WholeAlways == AdmissionHistorySpec => []AdmissionWhole
<1>1. AdmissionHistoryInit => AdmissionWhole
  <2> SUFFICES ASSUME AdmissionHistoryInit PROVE AdmissionWhole
    OBVIOUS
  <2>1. AdmissionInv /\ OnTwoLevels(row)
    BY AdmissionBegins, AdmissionAssumption DEF AdmissionHistoryInit, AdmissionInit
  <2>2. OnlyVisit /\ Cached /\ \A r \in Visits : VisitCurrent(pc[r], job[r])
    BY DEF AdmissionHistoryInit, AdmissionInit, OnlyVisit, Cached, VisitCurrent
  <2>3. QED
    BY <2>1, <2>2 DEF AdmissionWhole, AdmissionSerial
<1>2. AdmissionWhole /\ [AdmissionHistoryNext]_<<admissionVars, admissionOverlapped>> => AdmissionWhole'
  <2> SUFFICES ASSUME AdmissionWhole, [AdmissionHistoryNext]_<<admissionVars, admissionOverlapped>>
               PROVE  AdmissionWhole'
    OBVIOUS
  <2>1. AdmissionInv'
    BY AdmissionKept DEF AdmissionWhole
  <2>2. ASSUME AdmissionHistoryNext PROVE (admissionOverlapped \/ AdmissionSerial)'
    <3>1. admissionOverlapped => admissionOverlapped'
      BY <2>2 DEF AdmissionHistoryNext, Overlaps!NoteOverlap
    <3>2. QED
      BY <2>2, <3>1, SerialGoesOn DEF AdmissionHistoryNext, AdmissionWhole
  <2>3. ASSUME UNCHANGED <<admissionVars, admissionOverlapped>> PROVE (admissionOverlapped \/ AdmissionSerial)'
    <3>1. UNCHANGED <<row, plan, scope, now, quiet, changes, pc, job, admissionOverlapped>>
      BY <2>3 DEF admissionVars, caches
    <3>2. ASSUME AdmissionSerial PROVE AdmissionSerial'
      <4>1. OnlyVisit' /\ OnTwoLevels(row)' /\ Cached'
        BY <3>1, <3>2 DEF AdmissionSerial, OnlyVisit, OnTwoLevels, Cached
      <4>2. ASSUME NEW r \in Visits PROVE VisitCurrent(pc[r], job[r])'
        <5>1. PICK s, j : s = pc[r] /\ j = job[r]
          OBVIOUS
        <5>2. VisitCurrent(s, j)
          BY <3>2, <5>1 DEF AdmissionSerial
        <5>3. PICK w : w = With(j.on, j.data)
          OBVIOUS
        <5>4. w = With(j.on, j.data)'
          BY <3>1, <5>3 DEF With
        <5>5. s = "write" => OnTwoLevels(With(j.on, j.data))'
          BY <5>2, <5>3, <5>4 DEF VisitCurrent, OnTwoLevels
        <5>6. VisitCurrent(s, j)'
          BY <3>1, <5>2, <5>5 DEF VisitCurrent
        <5>7. s = pc'[r] /\ j = job'[r]
          BY <3>1, <5>1
        <5>8. QED
          BY <5>6, <5>7
      <4>3. QED
        BY <4>1, <4>2 DEF AdmissionSerial
    <3>3. QED
      BY <3>1, <3>2 DEF AdmissionWhole
  <2>4. QED
    BY <2>1, <2>2, <2>3 DEF AdmissionWhole
<1>3. QED
  BY <1>1, <1>2, PTL DEF AdmissionHistorySpec

\* The rows of the tenants are as the schema has them whatever overlaps, and
\* while requests do not overlap hotels stay below organizations that may have
\* branches: superAdmin.service.js checks it before each write and not with it.
THEOREM TenantsConsistent == AdmissionHistorySpec => []AdmissionConsistent
<1>1. AdmissionWhole => AdmissionConsistent
  BY AdmissionTyped DEF AdmissionWhole, AdmissionConsistent, TwoLevels, Overlaps!Alone, AdmissionSerial
<1>2. QED
  BY <1>1, WholeAlways, PTL

\* What a request of one tenant is told without overlaps.
AnswerCurrent(r) ==
  /\ pc[r] = "decide" /\ pc'[r] = "admitted" => ~Blocked(job[r].to) \/ Unannounced(job[r].to)
  /\ pc[r] # "refused" /\ pc'[r] = "refused"
     => \/ \E t \in {job'[r].from, job'[r].to} : Blocked(t)
        \/ scope[job[r].to] = "closed" \/ Unannounced(job'[r].to)

LEMMA AnswerHolds ==
  ASSUME AdmissionInv, AdmissionSerial, NEW r \in Visits, VisitMoves(r)
  PROVE  AnswerCurrent(r)
<1>1. PICK j, s : j = job[r] /\ s = pc[r]
  OBVIOUS
<1>2. /\ IsVisit(j) /\ VisitHolds(s, j) /\ VisitCurrent(s, j) /\ job = [q \in Visits |-> job[q]]
      /\ pc \in [Visits -> Steps]
  BY <1>1 DEF AdmissionInv, AdmissionSerial
<1>3. ASSUME pc'[r] \notin {"admitted", "refused"} PROVE AnswerCurrent(r)
  BY <1>3 DEF AnswerCurrent
<1>4. CASE \E from, to \in Tenants : Authenticate(r, from, to)
  <2>1. PICK from \in Tenants, to \in Tenants : Authenticate(r, from, to)
    BY <1>4
  <2>2. PICK x : x = Visit(from, to)
    OBVIOUS
  <2>3. x.from = from
    BY <2>2 DEF Visit
  <2>4. pc[r] = "idle" /\ job'[r] = x /\ pc'[r] = IF Refused(from) THEN "refused" ELSE "scope"
    BY <1>2, <2>1, <2>2 DEF Authenticate, Goes
  <2>5. QED
    BY <2>3, <2>4 DEF AnswerCurrent, Blocked
<1>5. CASE LookScope(r)
  <2>1. s = "scope" /\ j.to \in Tenants
    BY <1>1, <1>2, <1>5 DEF LookScope, VisitHolds, Checking
  <2>2. pc'[r] = "refused" => scope[j.to] = "closed"
    BY <1>1, <1>2, <1>5, <2>1 DEF LookScope, Goes, AdmissionInv, Tables
  <2>3. pc'[r] # "admitted"
    BY <1>1, <1>2, <1>5 DEF LookScope, Goes
  <2>4. QED
    BY <1>1, <2>2, <2>3 DEF AnswerCurrent
<1>6. CASE KeepScope(r)
  <2>1. s = "keep scope" /\ j.own = row[j.to]
    BY <1>1, <1>2, <1>6 DEF KeepScope, VisitCurrent
  <2>2. pc'[r] = IF j.own.active THEN "plan" ELSE "refused"
    BY <1>1, <1>2, <1>6 DEF KeepScope, Goes
  <2>3. PICK x : x = [j EXCEPT !.own = Uncreated]
    OBVIOUS
  <2>4. job'[r] = x /\ x.to = j.to
    BY <1>1, <1>2, <1>6, <2>3 DEF KeepScope, IsVisit
  <2>5. pc'[r] = "refused" => Blocked(j.to)
    BY <2>1, <2>2 DEF Blocked
  <2>6. QED
    BY <2>2, <2>4, <2>5 DEF AnswerCurrent
<1>7. CASE LookPlan(r)
  <2>1. j.to \in Tenants /\ s = "plan"
    BY <1>1, <1>2, <1>7 DEF LookPlan, VisitHolds, Checking
  <2>2. PICK own \in {row[j.to], plan[j.to]}, step \in {"refused", "above", "decide", "keep plan"} :
          /\ job' = [job EXCEPT ![r].own = own] /\ pc' = [pc EXCEPT ![r] = step]
          /\ step = "refused" => own = plan[j.to] /\ own # Uncreated /\ own.suspended
    BY <1>1, <1>7 DEF LookPlan, Goes, Afterwards
  <2>3. PICK x : x = [j EXCEPT !.own = own]
    OBVIOUS
  <2>4. job'[r] = x /\ x.to = j.to /\ pc'[r] = step
    BY <1>1, <1>2, <2>2, <2>3 DEF IsVisit
  <2>5. plan[j.to] # Uncreated => plan[j.to] = row[j.to] \/ j.to \in quiet
    <3>1. \A q \in Visits : pc[q] = "clear" => q = r
      BY <1>7 DEF AdmissionSerial, OnlyVisit, LookPlan
    <3>2. QED
      BY <1>7, <2>1, <3>1 DEF AdmissionSerial, Cached, LookPlan
  <2>6. step = "refused" => Blocked(j.to) \/ Unannounced(j.to)
    BY <2>2, <2>5 DEF Blocked, Refused, Unannounced
  <2>7. QED
    BY <2>2, <2>4, <2>6 DEF AnswerCurrent
<1>8. CASE KeepPlan(r)
  <2>1. j.own = row[j.to] /\ s = "keep plan"
    BY <1>1, <1>2, <1>8 DEF KeepPlan, VisitCurrent
  <2>2. job' = job /\ pc'[r] # "admitted" /\ (pc'[r] = "refused" => j.own.suspended)
    BY <1>1, <1>2, <1>8 DEF KeepPlan, Goes, Afterwards
  <2>3. QED
    BY <1>1, <2>1, <2>2 DEF AnswerCurrent, Blocked, Refused
<1>9. CASE Decide(r)
  <2>1. /\ s = "decide" /\ (j.own = row[j.to] \/ j.to \in quiet) /\ ~j.own.suspended /\ Rooted(j.own, j.to)
        /\ j.to \in Tenants
    BY <1>1, <1>2, <1>9 DEF Decide, VisitCurrent, VisitHolds, Checking
  <2>2. j.own.parent # None => j.above = row[j.own.parent] \/ j.own.parent \in quiet
    BY <1>1, <1>2, <1>9, <2>1 DEF VisitCurrent
  <2>3. PICK x : x = Visit(j.from, j.to)
    OBVIOUS
  <2>4. job'[r] = x /\ x.to = j.to
    <3>1. x.to = j.to
      BY <2>3 DEF Visit
    <3>2. QED
      BY <1>1, <1>2, <1>9, <2>3, <3>1 DEF Decide
  <2>5. PICK up : up <=> j.own.parent # None /\ (j.above.suspended \/ ~j.above.active)
    OBVIOUS
  <2>6. pc'[r] = IF up \/ ~j.own.active \/ RunOut(j.own) THEN "refused" ELSE "admitted"
    BY <1>1, <1>2, <1>9, <2>5 DEF Decide, Goes
  <2>7. CASE j.to \in quiet
    <3>1. Unannounced(j.to)
      BY <2>7 DEF Unannounced
    <3>2. QED
      BY <1>1, <2>4, <3>1 DEF AnswerCurrent
  <2>8. CASE j.own.parent # None /\ j.own.parent \in quiet
    <3>1. ASSUME j.own = row[j.to] PROVE Unannounced(j.to)
      BY <2>8, <3>1 DEF Unannounced, Above
    <3>2. QED
      BY <1>1, <2>1, <2>4, <2>7, <3>1 DEF AnswerCurrent
  <2>9. CASE j.own = row[j.to] /\ (j.own.parent # None => j.above = row[j.own.parent])
    <3>1. up \/ ~j.own.active \/ RunOut(j.own) <=> Blocked(j.to)
      BY <2>1, <2>5, <2>9 DEF Blocked, Refused
    <3>2. QED
      BY <1>1, <2>1, <2>4, <2>6, <3>1 DEF AnswerCurrent
  <2>10. QED
    BY <2>1, <2>2, <2>7, <2>8, <2>9
<1>10. CASE LookAbove(r) \/ KeepAbove(r) \/ Answer(r)
  <2>1. pc'[r] \in {"decide", "keep above", "idle"}
    BY <1>2, <1>10 DEF LookAbove, KeepAbove, Answer, Done, Goes
  <2>2. QED
    BY <1>3, <2>1
<1>11. CASE Write(r) \/ Clear(r) \/ (r = cron /\ ExpireLicences)
  <2>1. pc'[r] \in {"clear", "write", "idle"}
    BY <1>2, <1>11 DEF Write, Clear, ExpireLicences, Done, Goes
  <2>2. QED
    BY <1>3, <2>1
<1>12. CASE \/ \E t \in Tenants, p \in Tenants \cup {None}, b \in {"no", "many"} : CreateTenant(r, t, p, b)
            \/ \E t \in Tenants, data \in Columns : UpdateTenant(r, t, data) \/ SetSubscription(r, t, data)
            \/ \E t \in Tenants :
                 ActivateTenant(r, t) \/ SuspendTenant(r, t) \/ ToggleTenantStatus(r, t) \/ SuspendOrganization(r, t)
  <2>1. \E on, data, clears : Prepare(r, on, data, clears)
    BY <1>12 DEF CreateTenant, UpdateTenant, SetSubscription, ActivateTenant, SuspendTenant,
                 ToggleTenantStatus, SuspendOrganization
  <2>2. pc'[r] = "write"
    BY <1>2, <2>1 DEF Prepare, Goes
  <2>3. QED
    BY <1>3, <2>2
<1>13. QED
  BY <1>4, <1>5, <1>6, <1>7, <1>8, <1>9, <1>10, <1>11, <1>12 DEF VisitMoves

\* Requests that do not overlap are answered by the rows as they are, but for
\* the changes of tenant.service.js, which clears no cache, and for the entry
\* of tenantScope.js, which nothing clears.
THEOREM AnswersFollowRows == AdmissionHistorySpec => AnswersAreCurrent
<1> DEFINE Current == Overlaps!Alone(\A r \in Clients : AnswerCurrent(r))
<1>1. ASSUME AdmissionWhole, AdmissionHistoryNext PROVE Current
  <2>1. ASSUME ~admissionOverlapped, NEW r \in Clients PROVE AnswerCurrent(r)
    <3>1. r \in Visits /\ AdmissionInv /\ AdmissionSerial /\ AdmissionNext
      BY <1>1, <2>1 DEF Visits, AdmissionWhole, AdmissionHistoryNext
    <3>2. PICK step : step = pc'[r]
      OBVIOUS
    <3>3. CASE VisitMoves(r)
      BY <3>1, <3>3, AnswerHolds
    <3>4. CASE \E q \in Visits : q # r /\ VisitMoves(q)
      <4>1. PICK q \in Visits : q # r /\ VisitMoves(q)
        BY <3>4
      <4>2. PICK s : pc' = [pc EXCEPT ![q] = s]
        BY <4>1, VisitSteps
      <4>3. pc'[r] = pc[r]
        BY <3>1, <4>1, <4>2 DEF AdmissionInv
      <4>4. QED
        BY <4>3 DEF AnswerCurrent
    <3>5. CASE Elsewhere
      <4>1. pc'[r] = pc[r] \/ pc'[r] = "idle"
        BY <3>1, <3>5 DEF Elsewhere, NextDay, LapsePlan, LapseScope, Restart
      <4>2. QED
        BY <4>1 DEF AnswerCurrent
    <3>6. QED
      BY <3>1, <3>3, <3>4, <3>5, AdmissionActs
  <2>2. QED
    BY <2>1 DEF Overlaps!Alone
<1>2. AdmissionWhole /\ [AdmissionHistoryNext]_<<admissionVars, admissionOverlapped>> => [Current]_admissionVars
  BY <1>1
<1>3. AdmissionHistorySpec => [][Current]_admissionVars
  BY <1>2, WholeAlways, PTL DEF AdmissionHistorySpec
<1>4. [Current]_admissionVars =>
        [Overlaps!Alone(\A r \in Clients :
           /\ pc[r] = "decide" /\ pc'[r] = "admitted"
              => ~Blocked(job[r].to) \/ Unannounced(job[r].to)
           /\ pc[r] # "refused" /\ pc'[r] = "refused"
              => \/ \E t \in {job'[r].from, job'[r].to} : Blocked(t)
                 \/ scope[job[r].to] = "closed" \/ Unannounced(job'[r].to))]_admissionVars
  BY DEF AnswerCurrent
<1>5. QED
  BY <1>3, <1>4, PTL DEF AnswersAreCurrent
=============================================================================
