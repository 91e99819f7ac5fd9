------------------------ MODULE GoodsReceipt_proofs -------------------------
(***************************************************************************)
(* Proofs about goods receipt for every set of balances, notes, line lists *)
(* and requests; and, from "The opening balance" on, about the items, the  *)
(* opening balance and the catalogue they are in, for every catalogue and  *)
(* every set of documents, bodies, import files and requests.              *)
(***************************************************************************)
EXTENDS ReceiptProperties, OpeningStock, Sums_proofs

Steps == {"idle", "decide", "edit", "autopost", "read", "write", "commit"}

\* What a request works on is there: the note exists, the decision is one of
\* the handlers', the lines to post are not empty and the next is one of them.
WellFormed ==
  /\ \A g \in Grns : status[g] # "none" => lines[g] # <<>>
  /\ \A r \in Requests :
       /\ pc[r] # "idle" => status[job[r]] # "none"
       /\ pc[r] = "decide" => goal[r] \in Decisions
       /\ pc[r] \in {"read", "write", "commit"} => work[r] # <<>>
       /\ pc[r] \in {"read", "write"} => idx[r] \in 1 .. Len(work[r])
       /\ pc[r] \in {"idle", "autopost"} => idx[r] = 1

Inv == TypeOK /\ WellFormed /\ PostedHasMovement

\* What a client may send for a note is a list of at least one line.
LEMMA ReceiptTyping ==
  ASSUME NEW g \in Grns, NEW ls \in Receipts[g]
  PROVE  ls \in Seq(GrnLine) /\ ls # <<>>
  BY ReceiptsAssumption DEF GrnLines

\* Decisions lead from one existing status to another, never from or to POSTED.
LEMMA DecisionTyping ==
  ASSUME NEW d \in Decisions
  PROVE  /\ d.from \in Statuses \ {"none", "POSTED"}
         /\ d.to \in Statuses \ {"none", "POSTED"}
  BY DEF Decisions, Submissions, Approvals, Rejections, Returns, Resubmissions,
         Decision, Statuses

\* The request that is idle holds the neutral values.
LEMMA NeutralTyping == NoJob \in Grns /\ Zero \in [Cells -> Int]
  BY ReceiptsAssumption DEF NoJob, Zero

\* The line a posting request works on is one of the lines it read.
LEMMA LineTyping ==
  ASSUME TypeOK, WellFormed, NEW r \in Requests, pc[r] \in {"read", "write"}
  PROVE  CurrentLine(r) \in GrnLine /\ CurrentLine(r).cell \in Cells
                                    /\ CurrentLine(r).qty \in Int
<1>1. CurrentLine(r) \in GrnLine
  BY DEF CurrentLine, TypeOK, WellFormed
<1>2. QED
  BY <1>1 DEF GrnLine

\* An empty tenant satisfies the invariant.
LEMMA InvInit == Init => Inv
<1> SUFFICES ASSUME Init PROVE Inv
  OBVIOUS
<1>1. <<>> \in Seq(GrnLine)
  OBVIOUS
<1> HIDE DEF NoJob, Zero
<1>2. TypeOK
  BY <1>1, NeutralTyping DEF Init, RowsInit, TypeOK, RowsTypeOK, Statuses
<1>3. WellFormed /\ PostedHasMovement
  BY DEF Init, WellFormed, PostedHasMovement
<1>4. QED
  BY <1>2, <1>3 DEF Inv

\* A request that is answered leaves nothing behind.
LEMMA ReturnTyping ==
  ASSUME TypeOK, NEW r \in Requests, Return(r)
  PROVE  /\ pc' \in [Requests -> Steps] /\ pc'[r] = "idle"
         /\ job' \in [Requests -> Grns]
         /\ goal' \in [Requests -> Decisions \cup {NoGoal}]
         /\ work' \in [Requests -> Seq(GrnLine)]
         /\ idx' \in [Requests -> Nat \ {0}]
         /\ \A q \in Requests : q # r =>
              /\ pc'[q] = pc[q] /\ job'[q] = job[q] /\ goal'[q] = goal[q]
              /\ work'[q] = work[q] /\ idx'[q] = idx[q]
<1>1. <<>> \in Seq(GrnLine)
  OBVIOUS
<1> HIDE DEF NoJob, Zero, Decisions, NoGoal
<1>2. QED
  BY <1>1, NeutralTyping DEF Return, TypeOK, Steps

\* An answered request is well formed, and so are the others if no note
\* loses its existence or its lines.
LEMMA ReturnWellFormed ==
  ASSUME TypeOK, WellFormed, NEW r \in Requests, Return(r),
         \A g \in Grns : status'[g] # "none" => lines'[g] # <<>>,
         \A g \in Grns : status[g] # "none" => status'[g] # "none"
  PROVE  WellFormed'
<1>1. /\ pc'[r] = "idle" /\ idx'[r] = 1
      /\ \A q \in Requests : q # r =>
           /\ pc'[q] = pc[q] /\ job'[q] = job[q] /\ goal'[q] = goal[q]
           /\ work'[q] = work[q] /\ idx'[q] = idx[q]
  BY DEF Return, TypeOK
<1>2. \A q \in Requests : job[q] \in Grns
  BY DEF TypeOK
<1> HIDE DEF Decisions
<1>3. QED
  BY <1>1, <1>2 DEF WellFormed

\* The end of a transaction leaves its rows typed.
LEMMA ForgetTyping ==
  ASSUME TypeOK, NEW r \in Requests, Forget(r)
  PROVE  /\ seen' \in [Requests -> Int]
         /\ pend' \in [Requests -> [Cells -> Int]]
         /\ rows' \in [Requests -> [Cells -> Int]]
         /\ held' \in [Requests -> SUBSET Cells]
<1> HIDE DEF Zero
<1>1. QED
  BY NeutralTyping DEF Forget, TypeOK, RowsTypeOK

\* Creating a note keeps the invariant of the notes.
LEMMA CreateTyping ==
  ASSUME Inv, NEW g \in Grns, NEW first \in {"VALIDATED", "APPROVED"},
         CreateNote(g, first)
  PROVE  /\ RowsTypeOK' /\ obOpen' = obOpen
         /\ status' \in [Grns -> Statuses] /\ lines' \in [Grns -> Seq(GrnLine)]
         /\ signed' \in [Grns -> Seq(GrnLine)] /\ movement' = movement
         /\ \A h \in Grns : status'[h] # "none" => lines'[h] # <<>>
         /\ \A h \in Grns : status[h] # "none" => status'[h] # "none"
         /\ status'[g] # "none"
         /\ PostedHasMovement'
<1>1. PICK ls \in Receipts[g] :
        /\ lines' = [lines EXCEPT ![g] = ls]
        /\ signed' = [signed EXCEPT ![g] = IF first = "APPROVED" THEN ls ELSE <<>>]
  BY DEF CreateNote
<1>2. ls \in Seq(GrnLine) /\ ls # <<>> /\ <<>> \in Seq(GrnLine)
  BY ReceiptTyping
<1>3. status' = [status EXCEPT ![g] = first]
      /\ UNCHANGED <<committed, uncommitted, movement, obOpen>>
  BY DEF CreateNote
<1>4. QED
  BY <1>1, <1>2, <1>3 DEF Inv, TypeOK, RowsTypeOK, WellFormed, PostedHasMovement,
     committed, uncommitted, Statuses

\* Every step keeps the types.
LEMMA TypeStep == Inv /\ [Next]_vars => TypeOK'
<1> SUFFICES ASSUME Inv, [Next]_vars PROVE TypeOK'
  OBVIOUS
<1> USE DEF Inv
<1>1. ASSUME NEW r \in Requests, NEW g \in Grns, CreateGrn(r, g) \/ CreateAndPost(r, g)
      PROVE  TypeOK'
  <2>1. PICK first \in {"VALIDATED", "APPROVED"} : CreateNote(g, first)
    BY <1>1 DEF CreateGrn, CreateAndPost
  <2>2. /\ pc' \in [Requests -> Steps] /\ job' \in [Requests -> Grns]
        /\ UNCHANGED <<goal, work, idx>>
    BY <1>1 DEF CreateGrn, CreateAndPost, Take, TypeOK, Steps, local
  <2>3. QED
    BY <2>1, <2>2, CreateTyping DEF TypeOK, Steps
<1>2. ASSUME NEW r \in Requests, NEW g \in Grns, BeginDecision(r, g)
      PROVE  TypeOK'
  <2>1. PICK d \in Decisions : goal' = [goal EXCEPT ![r] = d]
    BY <1>2 DEF BeginDecision
  <2> HIDE DEF Decisions, NoGoal
  <2>2. QED
    BY <1>2, <2>1 DEF BeginDecision, Take, TypeOK, RowsTypeOK, committed, uncommitted,
       notes
<1>3. ASSUME NEW r \in Requests, NEW g \in Grns, BeginEdit(r, g) \/ BeginPost(r, g)
      PROVE  TypeOK'
  <2>1. /\ UNCHANGED <<committed, uncommitted, notes, obOpen, goal, idx>>
        /\ job' = [job EXCEPT ![r] = g]
        /\ \E step \in {"edit", "read"} : pc' = [pc EXCEPT ![r] = step]
        /\ UNCHANGED work \/ work' = [work EXCEPT ![r] = lines[g]]
    BY <1>3 DEF BeginEdit, BeginPost, Take
  <2> HIDE DEF Decisions, NoGoal
  <2>2. QED
    BY <2>1 DEF TypeOK, RowsTypeOK, committed, uncommitted, notes
<1>4. ASSUME NEW r \in Requests, FinishDecision(r)
      PROVE  TypeOK'
  <2>1. job[r] \in Grns /\ goal[r] \in Decisions
    BY <1>4 DEF FinishDecision, TypeOK, WellFormed
  <2>2. goal[r].to \in Statuses
    BY <2>1, DecisionTyping
  <2>3. Signature(job[r], goal[r]) \in Seq(GrnLine)
    BY <2>1 DEF Signature, TypeOK
  <2>4. status' \in [Grns -> Statuses] /\ signed' \in [Grns -> Seq(GrnLine)]
    BY <1>4, <2>1, <2>2, <2>3 DEF FinishDecision, TypeOK
  <2>5. QED
    BY <1>4, <2>4, ReturnTyping DEF FinishDecision, TypeOK, RowsTypeOK, committed,
       uncommitted, Steps
<1>5. ASSUME NEW r \in Requests, FinishEdit(r)
      PROVE  TypeOK'
  <2>1. job[r] \in Grns
    BY DEF TypeOK
  <2>2. PICK ls \in Receipts[job[r]] : lines' = [lines EXCEPT ![job[r]] = ls]
    BY <1>5 DEF FinishEdit
  <2>3. lines' \in [Grns -> Seq(GrnLine)]
    BY <2>1, <2>2, ReceiptTyping DEF TypeOK
  <2>4. QED
    BY <1>5, <2>3, ReturnTyping DEF FinishEdit, TypeOK, RowsTypeOK, committed,
       uncommitted, Steps
<1>6. ASSUME NEW r \in Requests, ReadBalance(r)
      PROVE  TypeOK'
  <2>1. Visible(r, CurrentLine(r).cell) \in Int
    BY <1>6, LineTyping DEF ReadBalance, Visible, TypeOK, RowsTypeOK
  <2>2. QED
    BY <1>6, <2>1 DEF ReadBalance, Select, TypeOK, RowsTypeOK, committed, notes, local
<1>7. ASSUME NEW r \in Requests, WriteBalance(r)
      PROVE  TypeOK'
  <2> DEFINE c == CurrentLine(r).cell
             change == NewQty(r) - Visible(r, c)
  <2>1. pc[r] = "write" /\ c \in Cells /\ CurrentLine(r).qty \in Int
    BY <1>7, LineTyping DEF WriteBalance
  <2>2. change \in Int
    BY <2>1 DEF NewQty, Visible, TypeOK, RowsTypeOK
  <2>3. /\ pend' = [pend EXCEPT ![r][c] = @ + change]
        /\ rows' = [rows EXCEPT ![r][c] = @ + CurrentLine(r).qty]
        /\ held' = [held EXCEPT ![r] = @ \cup {c}]
        /\ UNCHANGED <<committed, seen, notes, obOpen, job, goal, work>>
        /\ Advance(r)
    BY <1>7 DEF WriteBalance, Update
  <2> HIDE DEF c, change
  <2>4. /\ pend' \in [Requests -> [Cells -> Int]]
        /\ rows' \in [Requests -> [Cells -> Int]]
        /\ held' \in [Requests -> SUBSET Cells]
    BY <2>1, <2>2, <2>3 DEF TypeOK, RowsTypeOK
  <2>5. pc' \in [Requests -> Steps] /\ idx' \in [Requests -> Nat \ {0}]
    <3>1. pc \in [Requests -> Steps] /\ idx \in [Requests -> Nat \ {0}]
      BY DEF TypeOK, Steps
    <3>2. \E step \in Steps : pc' = [pc EXCEPT ![r] = step]
      BY <2>3 DEF Advance, Steps
    <3>3. UNCHANGED idx \/ idx' = [idx EXCEPT ![r] = idx[r] + 1]
      BY <2>3 DEF Advance
    <3>4. idx[r] + 1 \in Nat \ {0}
      BY <3>1
    <3>5. QED
      BY <3>1, <3>2, <3>3, <3>4
  <2>6. RowsTypeOK'
    BY <2>3, <2>4 DEF TypeOK, RowsTypeOK, committed
  <2>7. UNCHANGED <<status, lines, signed, movement, obOpen, job, goal, work>>
    BY <2>3 DEF notes
  <2> HIDE DEF Statuses, Decisions, NoGoal, RowsTypeOK
  <2>8. QED
    BY <2>5, <2>6, <2>7 DEF TypeOK, Steps
<1>8. ASSUME NEW r \in Requests, Commit(r)
      PROVE  TypeOK'
  <2>1. job[r] \in Grns /\ work[r] \in Seq(GrnLine)
    BY DEF TypeOK
  <2>2. /\ onHand' \in [Cells -> Int] /\ ledger' \in [Cells -> Int]
        /\ movement' \in [Grns -> Seq(GrnLine)] /\ status' \in [Grns -> Statuses]
    BY <1>8, <2>1 DEF Commit, CommitRows, TypeOK, RowsTypeOK, Statuses
  <2>3. QED
    BY <1>8, <2>2, ReturnTyping, ForgetTyping DEF Commit, CommitRows, TypeOK,
       RowsTypeOK, Steps
<1>9. ASSUME NEW r \in Requests, RefusePost(r) \/ Abort(r)
      PROVE  TypeOK'
  BY <1>9, ReturnTyping, ForgetTyping DEF RefusePost, Abort, RollbackRows, TypeOK,
     RowsTypeOK, committed, notes, Steps
<1>10. CASE Elsewhere
  BY <1>10 DEF Elsewhere, SetOpening, TypeOK, RowsTypeOK,
     committed, uncommitted, notes, local
<1>11. CASE UNCHANGED vars
  BY <1>11 DEF vars, committed, uncommitted, notes, local, TypeOK, RowsTypeOK
<1>12. QED
  BY <1>1, <1>2, <1>3, <1>4, <1>5, <1>6, <1>7, <1>8, <1>9, <1>10, <1>11
     DEF Next, Arrive, Continue

\* Every step keeps requests on what they work on, and the movement document
\* of a posted note.
LEMMA WellFormedStep == Inv /\ [Next]_vars => WellFormed' /\ PostedHasMovement'
<1> SUFFICES ASSUME Inv, [Next]_vars PROVE WellFormed' /\ PostedHasMovement'
  OBVIOUS
<1> USE DEF Inv
<1>1. ASSUME NEW r \in Requests, NEW g \in Grns, CreateGrn(r, g) \/ CreateAndPost(r, g)
      PROVE  WellFormed' /\ PostedHasMovement'
  <2>1. PICK first \in {"VALIDATED", "APPROVED"} : CreateNote(g, first)
    BY <1>1 DEF CreateGrn, CreateAndPost
  <2>2. /\ \/ UNCHANGED <<pc, job>>
           \/ pc' = [pc EXCEPT ![r] = "autopost"] /\ job' = [job EXCEPT ![r] = g]
        /\ UNCHANGED <<goal, work, idx>>
    BY <1>1 DEF CreateGrn, CreateAndPost, Take, local
  <2>3. /\ \A h \in Grns : status'[h] # "none" => lines'[h] # <<>>
        /\ \A h \in Grns : status[h] # "none" => status'[h] # "none"
        /\ status'[g] # "none"
        /\ PostedHasMovement'
    BY <2>1, CreateTyping
  <2>4. UNCHANGED pc \/ pc[r] = "idle"
    BY <1>1 DEF CreateGrn, CreateAndPost
  <2>5. WellFormed'
    BY <2>2, <2>3, <2>4 DEF WellFormed, TypeOK
  <2>6. QED
    BY <2>3, <2>5
<1>2. ASSUME NEW r \in Requests, NEW g \in Grns, BeginDecision(r, g)
      PROVE  WellFormed' /\ PostedHasMovement'
  <2>1. PICK d \in Decisions : d.from = status[g] /\ goal' = [goal EXCEPT ![r] = d]
    BY <1>2 DEF BeginDecision
  <2>2. status[g] # "none"
    BY <2>1, DecisionTyping
  <2> HIDE DEF Decisions, NoGoal
  <2>3. QED
    BY <1>2, <2>1, <2>2 DEF BeginDecision, Take, WellFormed, PostedHasMovement, TypeOK,
       notes
<1>3. ASSUME NEW r \in Requests, NEW g \in Grns, BeginEdit(r, g)
      PROVE  WellFormed' /\ PostedHasMovement'
  BY <1>3 DEF BeginEdit, Editable, Take, WellFormed, PostedHasMovement, TypeOK, notes
<1>4. ASSUME NEW r \in Requests, NEW g \in Grns, BeginPost(r, g)
      PROVE  WellFormed' /\ PostedHasMovement'
  <2>1. lines[g] # <<>> /\ lines[g] \in Seq(GrnLine) /\ status[g] = "APPROVED"
    BY <1>4 DEF BeginPost, Postable, WellFormed, TypeOK
  <2>2. idx[r] = 1
    BY <1>4 DEF BeginPost, WellFormed
  <2>3. idx[r] \in 1 .. Len(lines[g])
    BY <2>1, <2>2
  <2>4. QED
    BY <1>4, <2>1, <2>3 DEF BeginPost, Take, WellFormed, PostedHasMovement, TypeOK, notes
<1>5. ASSUME NEW r \in Requests, FinishDecision(r)
      PROVE  WellFormed' /\ PostedHasMovement'
  <2>1. job[r] \in Grns /\ goal[r] \in Decisions /\ status[job[r]] # "none"
    BY <1>5 DEF FinishDecision, TypeOK, WellFormed
  <2>2. goal[r].to \notin {"none", "POSTED"}
    BY <2>1, DecisionTyping
  <2>3. /\ status' = [status EXCEPT ![job[r]] = goal[r].to]
        /\ UNCHANGED <<lines, movement>> /\ Return(r)
    BY <1>5 DEF FinishDecision
  <2>4. /\ \A g \in Grns : status[g] # "none" <=> status'[g] # "none"
        /\ \A g \in Grns : status'[g] = "POSTED" => status[g] = "POSTED"
    BY <2>1, <2>2, <2>3 DEF TypeOK
  <2>5. WellFormed'
    BY <2>3, <2>4, ReturnWellFormed DEF WellFormed
  <2>6. PostedHasMovement'
    BY <2>3, <2>4 DEF PostedHasMovement
  <2>7. QED
    BY <2>5, <2>6
<1>6. ASSUME NEW r \in Requests, FinishEdit(r)
      PROVE  WellFormed' /\ PostedHasMovement'
  <2>1. job[r] \in Grns
    BY DEF TypeOK
  <2>2. PICK ls \in Receipts[job[r]] : lines' = [lines EXCEPT ![job[r]] = ls]
    BY <1>6 DEF FinishEdit
  <2>3. ls # <<>>
    BY <2>1, <2>2, ReceiptTyping
  <2>4. UNCHANGED <<status, movement>> /\ Return(r)
    BY <1>6 DEF FinishEdit
  <2>5. \A g \in Grns : status'[g] # "none" => lines'[g] # <<>>
    BY <2>1, <2>2, <2>3, <2>4 DEF WellFormed, TypeOK
  <2>6. WellFormed'
    BY <2>4, <2>5, ReturnWellFormed
  <2>7. QED
    BY <2>4, <2>6 DEF PostedHasMovement
<1>7. ASSUME NEW r \in Requests, ReadBalance(r)
      PROVE  WellFormed' /\ PostedHasMovement'
  BY <1>7 DEF ReadBalance, WellFormed, PostedHasMovement, TypeOK, notes, local
<1>8. ASSUME NEW r \in Requests, WriteBalance(r)
      PROVE  WellFormed' /\ PostedHasMovement'
  <2>1. /\ pc[r] = "write" /\ Advance(r)
        /\ UNCHANGED <<notes, job, goal, work>>
    BY <1>8 DEF WriteBalance
  <2>2. Len(work[r]) \in Nat /\ idx[r] \in Nat
    BY DEF TypeOK
  <2>3. QED
    BY <2>1, <2>2 DEF Advance, WellFormed, PostedHasMovement, TypeOK, notes
<1>9. ASSUME NEW r \in Requests, Commit(r)
      PROVE  WellFormed' /\ PostedHasMovement'
  <2>1. job[r] \in Grns /\ work[r] # <<>> /\ status[job[r]] # "none"
    BY <1>9 DEF Commit, TypeOK, WellFormed
  <2>2. /\ movement' = [movement EXCEPT ![job[r]] = work[r]]
        /\ status' = [status EXCEPT ![job[r]] = "POSTED"]
        /\ UNCHANGED lines /\ Return(r)
    BY <1>9 DEF Commit
  <2>3. \A g \in Grns : status[g] # "none" <=> status'[g] # "none"
    BY <2>1, <2>2 DEF TypeOK
  <2>4. WellFormed'
    BY <2>2, <2>3, ReturnWellFormed DEF WellFormed
  <2>5. PostedHasMovement'
    BY <2>1, <2>2 DEF PostedHasMovement, TypeOK
  <2>6. QED
    BY <2>4, <2>5
<1>10. ASSUME NEW r \in Requests, RefusePost(r) \/ Abort(r)
       PROVE  WellFormed' /\ PostedHasMovement'
  <2>1. UNCHANGED <<status, lines, movement>> /\ Return(r)
    BY <1>10 DEF RefusePost, Abort, notes
  <2>2. WellFormed'
    BY <2>1, ReturnWellFormed DEF WellFormed
  <2>3. QED
    BY <2>1, <2>2 DEF PostedHasMovement
<1>11. CASE Elsewhere \/ UNCHANGED vars
  BY <1>11 DEF Elsewhere, SetOpening, vars, notes, local,
     WellFormed, PostedHasMovement
<1>12. QED
  BY <1>1, <1>2, <1>3, <1>4, <1>5, <1>6, <1>7, <1>8, <1>9, <1>10, <1>11
     DEF Next, Arrive, Continue

\* A note's record, its requests and its transactions are always well typed.
THEOREM ReceiptTypeCorrect == Spec => []TypeOK
<1>1. Inv /\ [Next]_vars => Inv'
  BY TypeStep, WellFormedStep DEF Inv
<1>2. Inv => TypeOK
  BY DEF Inv
<1>3. QED
  BY InvInit, <1>1, <1>2, PTL DEF Spec

\* Postings, decisions, edits and aborts of any number of requests never leave
\* a POSTED note without its movement document (postGrn).
THEOREM PostedNotesHaveMovements == Spec => []PostedHasMovement
<1>1. Inv /\ [Next]_vars => Inv'
  BY TypeStep, WellFormedStep DEF Inv
<1>2. Inv => PostedHasMovement
  BY DEF Inv
<1>3. QED
  BY InvInit, <1>1, <1>2, PTL DEF Spec

\* Both together, under every interleaving of requests.
THEOREM ReceiptIsConsistent == Spec => []Consistent
BY ReceiptTypeCorrect, PostedNotesHaveMovements, PTL DEF Consistent

-----------------------------------------------------------------------------
(* The ledger is a receipt register: what a transaction has put into the   *)
(* ledger is what the lines it has handled add up to.                      *)

\* What each line receives into cell c.
PerLine(ls, c) == [i \in DOMAIN ls |-> IF ls[i].cell = c THEN ls[i].qty ELSE 0]

LEMMA ReceivedIsTotal ==
  ASSUME NEW ls, NEW c
  PROVE  /\ LedgerRegister!Total(ls, c) = TotalOver(PerLine(ls, c), DOMAIN ls)
         /\ StockRegister!Total(ls, c) = TotalOver(PerLine(ls, c), DOMAIN ls)
BY DEF LedgerRegister!Total, LedgerRegister!MapThenSumSet, LedgerRegister!MapThenFoldSet,
       StockRegister!Total, StockRegister!MapThenSumSet, StockRegister!MapThenFoldSet,
       TotalOver, MapThenSumSet, MapThenFoldSet, PerLine

LEMMA PerLineTyping ==
  ASSUME NEW ls \in Seq(GrnLine), NEW c
  PROVE  /\ DOMAIN ls = 1 .. Len(ls) /\ Len(ls) \in Nat
         /\ \A i \in 1 .. Len(ls) : PerLine(ls, c)[i] \in Int
<1>1. DOMAIN ls = 1 .. Len(ls) /\ \A i \in 1 .. Len(ls) : ls[i] \in GrnLine
  OBVIOUS
<1>2. \A i \in 1 .. Len(ls) : ls[i].qty \in Int
  BY <1>1 DEF GrnLine
<1>3. QED
  BY <1>1, <1>2 DEF PerLine

LEMMA OneMoreLine ==
  ASSUME NEW ls \in Seq(GrnLine), NEW c, NEW n \in 1 .. Len(ls)
  PROVE  /\ TotalOver(PerLine(ls, c), 1 .. n)
              = PerLine(ls, c)[n] + TotalOver(PerLine(ls, c), 1 .. n - 1)
         /\ TotalOver(PerLine(ls, c), 1 .. n - 1) \in Int
         /\ PerLine(ls, c)[n] \in Int
<1> DEFINE f == PerLine(ls, c)
<1>1. n \in Int /\ n - 1 \in Int /\ Len(ls) \in Nat
  OBVIOUS
<1>2. IsFiniteSet(1 .. n) /\ IsFiniteSet(1 .. n - 1)
  BY <1>1, FS_Interval
<1>3. /\ (1 .. n) \ {n} = 1 .. n - 1 /\ n \in 1 .. n
      /\ 1 .. n \subseteq 1 .. Len(ls) /\ 1 .. n - 1 \subseteq 1 .. Len(ls)
  BY <1>1
<1>4. \A i \in 1 .. Len(ls) : f[i] \in Int
  BY PerLineTyping
<1> HIDE DEF f
<1>5. TotalOver(f, 1 .. n) = f[n] + TotalOver(f, (1 .. n) \ {n})
  BY <1>2, <1>3, <1>4, TotalWithout
<1>6. TotalOver(f, 1 .. n - 1) \in Int
  BY <1>2, <1>3, <1>4, TotalInt
<1>7. QED
  BY <1>3, <1>4, <1>5, <1>6 DEF f

\* The lines that a request at line i of w has handled.
Handled(p, w, i) ==
  IF p \in {"read", "write"} THEN 1 .. i - 1 ELSE IF p = "commit" THEN DOMAIN w ELSE {}

\* Notes and posting requests have lists of lines that a client sent.
LinesSent ==
  /\ \A g \in Grns : status[g] # "none" => lines[g] \in Receipts[g]
  /\ \A r \in Requests : pc[r] \in {"read", "write", "commit"} => work[r] \in Receipts[job[r]]

\* n is what the lines handled receive into cell c.
Tally(p, w, i, n, c) == n = TotalOver(PerLine(w, c), Handled(p, w, i))

RowsOfLines ==
  \A r \in Requests : \A c \in Cells : Tally(pc[r], work[r], idx[r], rows[r][c], c)

LEMMA NothingHandled ==
  ASSUME NEW p \in {"idle", "decide", "edit", "autopost"}, NEW w, NEW i, NEW n, NEW c
  PROVE  Tally(p, w, i, n, c) <=> n = 0
<1>1. TotalOver(PerLine(w, c), {}) = 0
  BY FS_EmptySet, TotalZero
<1>2. Handled(p, w, i) = {}
  BY DEF Handled
<1>3. QED
  BY <1>1, <1>2, Zenon DEF Tally

LEMMA FirstLine ==
  ASSUME NEW p \in {"read", "write"}, NEW w, NEW n, NEW c
  PROVE  Tally(p, w, 1, n, c) <=> n = 0
<1>1. TotalOver(PerLine(w, c), {}) = 0
  BY FS_EmptySet, TotalZero
<1>2. Handled(p, w, 1) = {}
  BY DEF Handled
<1>3. QED
  BY <1>1, <1>2, Zenon DEF Tally

LEMMA LineTally ==
  ASSUME NEW w \in Seq(GrnLine), NEW i \in 1 .. Len(w), NEW n \in Int, NEW c,
         Tally("write", w, i, n, c),
         NEW m, m = n + IF w[i].cell = c THEN w[i].qty ELSE 0
  PROVE  /\ i < Len(w) => Tally("read", w, i + 1, m, c)
         /\ ~(i < Len(w)) => Tally("commit", w, i, m, c)
<1> DEFINE f == PerLine(w, c)
<1>1. /\ TotalOver(f, 1 .. i) = f[i] + TotalOver(f, 1 .. i - 1)
      /\ TotalOver(f, 1 .. i - 1) \in Int /\ f[i] \in Int
  BY OneMoreLine
<1>2. DOMAIN w = 1 .. Len(w) /\ Len(w) \in Nat /\ i \in Int /\ (i + 1) - 1 = i
      /\ (~(i < Len(w)) => 1 .. i = 1 .. Len(w))
  BY PerLineTyping
<1>3. f[i] = IF w[i].cell = c THEN w[i].qty ELSE 0
  BY <1>2 DEF PerLine
<1> HIDE DEF f
<1>4. n = TotalOver(f, 1 .. i - 1)
  BY DEF Tally, Handled, f
<1>5. m = TotalOver(f, 1 .. i)
  BY <1>1, <1>3, <1>4
<1>6. Handled("read", w, i + 1) = 1 .. i /\ Handled("commit", w, i) = 1 .. Len(w)
  BY <1>2 DEF Handled
<1>7. QED
  BY <1>2, <1>5, <1>6, Zenon DEF Tally, f

\* Every step keeps notes and requests on lists of lines that were sent.
LEMMA LinesSentStep == Inv /\ LinesSent /\ [Next]_vars => LinesSent'
<1> SUFFICES ASSUME Inv, LinesSent, [Next]_vars PROVE LinesSent'
  OBVIOUS
<1> USE DEF LinesSent, Inv
<1>0. \A r \in Requests : job[r] \in Grns
  BY DEF TypeOK
<1> HIDE DEF Decisions, NoGoal, NoJob, Zero
<1>1. ASSUME NEW r \in Requests, NEW g \in Grns, CreateGrn(r, g) \/ CreateAndPost(r, g)
      PROVE  LinesSent'
  <2>1. PICK ls \in Receipts[g] : lines' = [lines EXCEPT ![g] = ls]
    BY <1>1 DEF CreateGrn, CreateAndPost, CreateNote
  <2>2. /\ \E first \in {"VALIDATED", "APPROVED"} : status' = [status EXCEPT ![g] = first]
        /\ work' = work
        /\ \A q \in Requests : pc'[q] \in {"read", "write", "commit"} =>
             pc[q] = pc'[q] /\ job'[q] = job[q]
    BY <1>1 DEF CreateGrn, CreateAndPost, CreateNote, Take, local, TypeOK
  <2>3. QED
    BY <2>1, <2>2 DEF TypeOK
<1>2. ASSUME NEW r \in Requests, NEW g \in Grns, BeginDecision(r, g) \/ BeginEdit(r, g)
      PROVE  LinesSent'
  BY <1>2 DEF BeginDecision, BeginEdit, Take, TypeOK, notes
<1>3. ASSUME NEW r \in Requests, NEW g \in Grns, BeginPost(r, g)
      PROVE  LinesSent'
  BY <1>3 DEF BeginPost, Postable, Take, TypeOK, notes
<1>4. ASSUME NEW r \in Requests, FinishDecision(r) \/ FinishEdit(r) \/ Commit(r)
      PROVE  LinesSent'
  <2>1. /\ \A q \in Requests : pc'[q] \in {"read", "write", "commit"} =>
             pc[q] = pc'[q] /\ job'[q] = job[q] /\ work'[q] = work[q]
        /\ pc[r] # "idle"
    BY <1>4 DEF FinishDecision, FinishEdit, Commit, Return, TypeOK
  <2>2. \A g \in Grns : status'[g] # "none" => status[g] # "none"
    BY <1>0, <1>4, <2>1 DEF FinishDecision, FinishEdit, Commit, TypeOK, WellFormed
  <2>3. \A g \in Grns : lines'[g] = lines[g] \/ lines'[g] \in Receipts[g]
    BY <1>0, <1>4 DEF FinishDecision, FinishEdit, Commit, TypeOK
  <2>4. QED
    BY <2>1, <2>2, <2>3
<1>5. ASSUME NEW r \in Requests, ReadBalance(r)
      PROVE  LinesSent'
  BY <1>5 DEF ReadBalance, TypeOK, notes, local
<1>6. ASSUME NEW r \in Requests, WriteBalance(r)
      PROVE  LinesSent'
  <2>1. /\ pc[r] = "write" /\ UNCHANGED <<notes, job, work>>
        /\ \E step \in {"read", "commit"} : pc' = [pc EXCEPT ![r] = step]
    BY <1>6 DEF WriteBalance, Advance
  <2>2. QED
    BY <2>1 DEF TypeOK, notes
<1>7. ASSUME NEW r \in Requests, RefusePost(r) \/ Abort(r)
      PROVE  LinesSent'
  BY <1>7 DEF RefusePost, Abort, Return, TypeOK, notes
<1>8. CASE Elsewhere \/ UNCHANGED vars
  BY <1>8 DEF Elsewhere, SetOpening, vars, notes, local
<1>9. QED
  BY <1>1, <1>2, <1>3, <1>4, <1>5, <1>6, <1>7, <1>8 DEF Next, Arrive, Continue

\* Every step keeps the ledger rows of a request those of the lines handled.
LEMMA RowsOfLinesStep ==
  ASSUME Inv, RowsOfLines, [Next]_vars
  PROVE  RowsOfLines'
<1> DEFINE T(r, c) == Tally(pc[r], work[r], idx[r], rows[r][c], c)
           After(r, c) == Tally(pc'[r], work'[r], idx'[r], rows'[r][c], c)
           Early == {"idle", "decide", "edit", "autopost"}
<1> SUFFICES ASSUME NEW q \in Requests, NEW c \in Cells PROVE After(q, c)
  BY DEF RowsOfLines
<1>0. T(q, c)
  BY DEF RowsOfLines
<1>1. ASSUME pc'[q] = pc[q], work'[q] = work[q], idx'[q] = idx[q], rows'[q] = rows[q]
      PROVE  After(q, c)
  BY <1>0, <1>1
<1>2. ASSUME pc[q] \in Early, pc'[q] \in Early, rows'[q] = rows[q]
      PROVE  After(q, c)
  BY <1>0, <1>2, NothingHandled
<1> HIDE DEF After, T
<1> USE DEF Inv, TypeOK, RowsTypeOK
<1> HIDE DEF Decisions, NoGoal, NoJob, Zero
<1>3. ASSUME NEW r \in Requests, NEW g \in Grns,
             \/ CreateGrn(r, g) \/ CreateAndPost(r, g)
             \/ BeginDecision(r, g) \/ BeginEdit(r, g)
      PROVE  After(q, c)
  <2>1. rows' = rows /\ work' = work /\ idx' = idx /\ pc[r] = "idle"
        /\ (UNCHANGED pc \/ \E step \in Early : pc' = [pc EXCEPT ![r] = step])
    BY <1>3 DEF CreateGrn, CreateAndPost, CreateNote, BeginDecision, BeginEdit, Take, local,
                uncommitted
  <2>2. QED
    BY <1>1, <1>2, <2>1
<1>4. ASSUME NEW r \in Requests, NEW g \in Grns, BeginPost(r, g) PROVE After(q, c)
  <2>1. /\ rows' = rows /\ idx' = idx /\ pc[r] \in {"idle", "autopost"}
        /\ work' = [work EXCEPT ![r] = lines[g]]
        /\ pc' = [pc EXCEPT ![r] = "read"]
    BY <1>4 DEF BeginPost, Take, uncommitted
  <2>2. CASE q # r
    BY <1>1, <2>1, <2>2
  <2>3. CASE q = r
    <3>1. idx[r] = 1
      BY <2>1 DEF WellFormed
    <3>2. rows[r][c] = 0
      BY <1>0, <2>1, <2>3, NothingHandled DEF T
    <3>3. QED
      BY <2>1, <2>3, <3>1, <3>2, FirstLine DEF After
  <2>4. QED
    BY <2>2, <2>3
<1>5. ASSUME NEW r \in Requests, FinishDecision(r) \/ FinishEdit(r) PROVE After(q, c)
  <2>1. /\ rows' = rows /\ pc[r] \in Early /\ pc'[r] = "idle"
        /\ \A p \in Requests : p # r =>
             pc'[p] = pc[p] /\ work'[p] = work[p] /\ idx'[p] = idx[p]
    BY <1>5 DEF FinishDecision, FinishEdit, Return, uncommitted
  <2>2. QED
    BY <1>1, <1>2, <2>1
<1>6. ASSUME NEW r \in Requests, ReadBalance(r) PROVE After(q, c)
  <2>1. /\ rows' = rows /\ work' = work /\ idx' = idx
        /\ pc[r] = "read" /\ pc'[r] = "write" /\ \A p \in Requests : p # r => pc'[p] = pc[p]
    BY <1>6 DEF ReadBalance, Select, local
  <2>2. QED
    BY <1>0, <1>1, <2>1 DEF T, After, Tally, Handled
<1>7. ASSUME NEW r \in Requests, WriteBalance(r) PROVE After(q, c)
  <2> DEFINE e == CurrentLine(r).cell
             n == CurrentLine(r).qty
  <2>1. pc[r] = "write" /\ Advance(r) /\ UNCHANGED work
        /\ rows' = [rows EXCEPT ![r][e] = @ + n]
    BY <1>7 DEF WriteBalance, Update
  <2>2. e \in Cells /\ n \in Int /\ idx[r] \in 1 .. Len(work[r]) /\ work[r] \in Seq(GrnLine)
    BY <2>1, LineTyping DEF WellFormed
  <2>3. \A p \in Requests : p # r => pc'[p] = pc[p] /\ idx'[p] = idx[p]
    BY <2>1 DEF Advance
  <2>4. CASE q # r
    BY <1>1, <2>1, <2>3, <2>4
  <2>5. CASE q = r
    <3> DEFINE i == idx[r]
               w == work[r]
               m == rows'[r][c]
    <3>1. rows'[r][c] = rows[r][c] + IF e = c THEN n ELSE 0
      <4> HIDE DEF e, n
      <4>1. rows[r][c] \in Int
        OBVIOUS
      <4>2. CASE e = c
        BY <2>1, <2>2, <4>2
      <4>3. CASE e # c
        <5>1. rows'[r][c] = rows[r][c]
          BY <2>1, <4>3
        <5>2. QED
          BY <4>1, <4>3, <5>1
      <4>4. QED
        BY <4>2, <4>3
    <3>2. Tally("write", w, i, rows[r][c], c)
      BY <1>0, <2>1, <2>5 DEF T
    <3>3. rows'[r][c] = rows[r][c] + IF w[i].cell = c THEN w[i].qty ELSE 0
      BY <3>1 DEF CurrentLine
    <3>4. rows[r][c] \in Int
      OBVIOUS
    <3>5. /\ i < Len(w) => Tally("read", w, i + 1, m, c)
          /\ ~(i < Len(w)) => Tally("commit", w, i, m, c)
      <4> HIDE DEF i, w
      <4>1. QED
        BY <2>2, <3>2, <3>3, <3>4, LineTally DEF i, w
    <3> HIDE DEF m
    <3>6. CASE i < Len(w)
      <4>1. pc'[r] = "read" /\ idx'[r] = i + 1
        BY <2>1, <3>6 DEF Advance
      <4>2. QED
        BY <2>1, <2>5, <3>5, <3>6, <4>1 DEF After, m
    <3>7. CASE ~(i < Len(w))
      <4>1. pc'[r] = "commit" /\ idx'[r] = i
        BY <2>1, <3>7 DEF Advance
      <4>2. QED
        BY <2>1, <2>5, <3>5, <3>7, <4>1 DEF After, m
    <3>8. QED
      BY <3>6, <3>7
  <2>6. QED
    BY <2>4, <2>5
<1>8. ASSUME NEW r \in Requests, Forget(r), Return(r) PROVE After(q, c)
  <2>1. /\ rows'[r] = Zero /\ pc'[r] = "idle"
        /\ \A p \in Requests : p # r =>
             pc'[p] = pc[p] /\ work'[p] = work[p] /\ idx'[p] = idx[p] /\ rows'[p] = rows[p]
    BY <1>8 DEF Forget, Return
  <2>2. Zero[c] = 0
    BY DEF Zero
  <2>3. QED
    BY <1>1, <2>1, <2>2, NothingHandled DEF After
<1>9. CASE Elsewhere \/ UNCHANGED vars
  BY <1>1, <1>9 DEF vars, local, uncommitted, Elsewhere, SetOpening
<1>10. QED
  BY <1>3, <1>4, <1>5, <1>6, <1>7, <1>8, <1>9
     DEF Next, Arrive, Continue, RefusePost, Abort, RollbackRows, Commit, CommitRows

\* What holds under every interleaving.
BooksInv == Inv /\ LinesSent /\ RowsOfLines

LEMMA BooksInit == Init => BooksInv
<1> SUFFICES ASSUME Init PROVE BooksInv
  OBVIOUS
<1>1. LinesSent
  BY DEF Init, LinesSent
<1>2. RowsOfLines
  <2>1. \A r \in Requests : \A c \in Cells : pc[r] = "idle" /\ rows[r][c] = 0
    BY DEF Init, RowsInit, Zero
  <2>2. QED
    BY <2>1, NothingHandled DEF RowsOfLines
<1>3. QED
  BY <1>1, <1>2, InvInit DEF BooksInv

LEMMA BooksStep == BooksInv /\ [Next]_vars => BooksInv'
<1>1. Inv /\ [Next]_vars => Inv'
  BY TypeStep, WellFormedStep DEF Inv
<1>2. QED
  BY <1>1, LinesSentStep, RowsOfLinesStep DEF BooksInv

\* What a commit adds to the ledger is what its movement document lists.
LEMMA CommitRowsAreLines ==
  ASSUME BooksInv, NEW r \in Requests, Commit(r)
  PROVE  /\ job[r] \in Grns /\ work[r] \in Receipts[job[r]] /\ movement[job[r]] = <<>>
         /\ movement' = [movement EXCEPT ![job[r]] = work[r]]
         /\ \A c \in Cells : rows[r][c] = TotalOver(PerLine(work[r], c), DOMAIN work[r])
<1>1. pc[r] = "commit"
  BY DEF Commit
<1>2. \A c \in Cells : rows[r][c] = TotalOver(PerLine(work[r], c), DOMAIN work[r])
  BY <1>1 DEF BooksInv, RowsOfLines, Tally, Handled
<1>3. job[r] \in Grns /\ work[r] \in Receipts[job[r]]
  BY <1>1 DEF BooksInv, Inv, TypeOK, LinesSent
<1>4. QED
  BY <1>2, <1>3 DEF Commit, NumberFree

\* A step is a receipt of the register, or nothing of it.
LEMMA LedgerStep ==
  ASSUME BooksInv, Next
  PROVE  LedgerRegister!Next \/ UNCHANGED LedgerRegister!vars
<1>1. ASSUME NEW r \in Requests, Commit(r) PROVE LedgerRegister!Receive(job[r])
  <2>1. ledger' = [c \in Cells |-> ledger[c] + LedgerRegister!Total(work[r], c)]
    <3>1. \A c \in Cells : LedgerRegister!Total(work[r], c) = rows[r][c]
      BY <1>1, CommitRowsAreLines, ReceivedIsTotal
    <3>2. QED
      BY <1>1, <3>1 DEF Commit, CommitRows
  <2>2. QED
    BY <1>1, <2>1, CommitRowsAreLines DEF LedgerRegister!Receive
<1>2. ASSUME NEW r \in Requests, Arrive(r) PROVE UNCHANGED <<ledger, movement>>
  <2> HIDE DEF Decisions
  <2>1. QED
    BY <1>2 DEF Arrive, CreateGrn, CreateAndPost, CreateNote, BeginDecision, BeginEdit, BeginPost,
                committed, notes
<1>3. ASSUME NEW r \in Requests, Continue(r), ~Commit(r) PROVE UNCHANGED <<ledger, movement>>
  BY <1>3 DEF Continue, FinishDecision, FinishEdit, ReadBalance, Select, WriteBalance, Update,
              RefusePost, Abort, RollbackRows, committed, notes
<1>4. CASE Elsewhere
  BY <1>4 DEF Elsewhere, SetOpening, committed, notes, LedgerRegister!vars
<1>5. \A r \in Requests : job[r] \in Grns
  BY DEF BooksInv, Inv, TypeOK
<1>6. QED
  BY <1>1, <1>2, <1>3, <1>4, <1>5 DEF Next, LedgerRegister!Next, LedgerRegister!vars

\* The ledger implements the receipt register under every interleaving:
\* each note is received at most once, all lines of its movement document
\* in one indivisible step, or not at all.
THEOREM ReceiptLedgerKeepsRegister == Spec => LedgerKeepsRegister
<1>1. Init => LedgerRegister!Init
  BY DEF Init, RowsInit, LedgerRegister!Init, LedgerRegister!Zero, Zero
<1>2. BooksInv /\ [Next]_vars => [LedgerRegister!Next]_(LedgerRegister!vars)
  <2>1. ASSUME UNCHANGED vars PROVE UNCHANGED LedgerRegister!vars
    BY <2>1 DEF vars, committed, notes, LedgerRegister!vars
  <2> HIDE DEF vars
  <2>2. QED
    BY <2>1, LedgerStep
<1>3. QED
  BY <1>1, <1>2, BooksInit, BooksStep, PTL DEF Spec, LedgerKeepsRegister, LedgerRegister!Spec

-----------------------------------------------------------------------------
(* One request at a time *)

\* At most one request is in progress.
Solo == \A q, s \in Requests : pc[q] # "idle" /\ pc[s] # "idle" => q = s

\* The status a request has read is still the status of its note, and the
\* lines it posts are those the approver has signed.
StatusHolds(r) ==
  /\ pc[r] = "decide" => status[job[r]] = goal[r].from
  /\ pc[r] = "edit" => status[job[r]] = "REJECTED"
  /\ pc[r] \in {"read", "write", "commit"} => work[r] = signed[job[r]]

\* The balance a request has read is still the balance it will change, so its
\* changes of balances are its ledger rows.
ReadHolds(r) ==
  /\ pc[r] = "write" => seen[r] = Visible(r, CurrentLine(r).cell)
  /\ pc[r] \in {"idle", "decide", "edit", "autopost"} => pend[r] = Zero
  /\ pend[r] = rows[r]

\* An approved note has the lines that were approved.
SignedLines == \A g \in Grns : status[g] = "APPROVED" => signed[g] = lines[g]

SerialInv == Solo /\ SignedLines /\ \A r \in Requests : StatusHolds(r) /\ ReadHolds(r)

\* A step of a run without overlaps: nobody else is in progress.
LEMMA Modes ==
  ASSUME TypeOK, Solo, Next, NoteOverlap, ~overlapped'
  PROVE  /\ Solo'
         /\ \/ Elsewhere /\ \A q \in Requests : pc[q] = "idle"
            \/ \E r \in Requests :
                 /\ Arrive(r) \/ Continue(r)
                 /\ \A q \in Requests : q # r => pc[q] = "idle" /\ pc'[q] = "idle"
<1>1. /\ ~(Cardinality({q \in Requests : pc'[q] # "idle"}) > 1)
      /\ UNCHANGED pc => \A q \in Requests : pc[q] = "idle"
  BY DEF NoteOverlap, Busy
<1>2. ASSUME NEW r \in Requests, \A q \in Requests : q # r => pc'[q] = pc[q] PROVE Solo'
  <2>1. \A a, b \in Requests : pc'[a] # "idle" /\ pc'[b] # "idle" => a = b
    BY <1>1, <1>2, OneMoves DEF Solo
  <2>2. QED
    BY <2>1 DEF Solo
<1>3. ASSUME NEW r \in Requests, Arrive(r) \/ Continue(r)
      PROVE  Solo' /\ \A q \in Requests : q # r => pc[q] = "idle" /\ pc'[q] = "idle"
  <2> HIDE DEF Decisions
  <2>1. \/ UNCHANGED pc
        \/ pc[r] # "idle" /\ \E step \in Steps : pc' = [pc EXCEPT ![r] = step]
        \/ \E step \in Steps \ {"idle"} : pc' = [pc EXCEPT ![r] = step]
    BY <1>3 DEF Arrive, CreateGrn, CreateAndPost, BeginDecision, BeginEdit, BeginPost, Take,
                Continue, FinishDecision, FinishEdit, ReadBalance, WriteBalance, Advance, Commit,
                RefusePost, Abort, Return, Steps
  <2>2. \A q \in Requests : q # r => pc'[q] = pc[q]
    BY <2>1 DEF TypeOK
  <2>3. Solo'
    BY <1>2, <2>2
  <2>4. UNCHANGED pc \/ pc[r] # "idle" \/ pc'[r] # "idle"
    BY <2>1 DEF TypeOK
  <2>5. \A q \in Requests : q # r => pc[q] = "idle"
    BY <1>1, <2>2, <2>3, <2>4 DEF Solo
  <2>6. QED
    BY <2>2, <2>3, <2>5
<1>4. ASSUME Elsewhere PROVE Solo' /\ \A q \in Requests : pc[q] = "idle"
  <2>1. UNCHANGED pc
    BY <1>4 DEF Elsewhere, SetOpening
  <2>2. QED
    BY <1>1, <2>1 DEF Solo
<1>5. QED
  BY <1>3, <1>4 DEF Next

\* An idle request with nothing uncommitted has nothing to keep to.
LEMMA IdleHolds ==
  ASSUME NEW q \in Requests, pc'[q] = "idle", pend'[q] = Zero, rows'[q] = Zero
  PROVE  StatusHolds(q)' /\ ReadHolds(q)'
BY DEF StatusHolds, ReadHolds

LEMMA OthersClean ==
  ASSUME SerialInv, NEW r \in Requests, \A q \in Requests : q # r => pc[q] = "idle"
  PROVE  \A q \in Requests : q # r => pend[q] = Zero /\ rows[q] = Zero
BY DEF SerialInv, ReadHolds

\* Arrivals.
LEMMA SerialArrive ==
  ASSUME Inv, SerialInv, Solo', NEW r \in Requests, Arrive(r),
         \A q \in Requests : q # r => pc[q] = "idle" /\ pc'[q] = "idle"
  PROVE  SerialInv'
<1> USE DEF Inv
<1>0. /\ UNCHANGED <<onHand, pend, rows, seen>> /\ pc[r] \in {"idle", "autopost"}
      /\ pend[r] = Zero /\ rows[r] = Zero
  <2> HIDE DEF Decisions
  <2>1. UNCHANGED <<onHand, pend, rows, seen>> /\ pc[r] \in {"idle", "autopost"}
    BY DEF Arrive, CreateGrn, CreateAndPost, CreateNote, BeginDecision, BeginEdit, BeginPost,
           committed, uncommitted
  <2>2. QED
    BY <2>1 DEF SerialInv, ReadHolds
<1>1. \A q \in Requests : q # r => pend'[q] = Zero /\ rows'[q] = Zero
  BY <1>0, OthersClean
<1>2. ASSUME StatusHolds(r)', SignedLines', pc'[r] # "write" PROVE SerialInv'
  <2>1. ReadHolds(r)'
    BY <1>0, <1>2 DEF ReadHolds
  <2>2. QED
    BY <1>1, <1>2, <2>1, IdleHolds DEF SerialInv
<1>3. ASSUME NEW g \in Grns, CreateGrn(r, g) \/ CreateAndPost(r, g) PROVE SerialInv'
  <2>1. pc'[r] \in {"idle", "autopost"}
    BY <1>3 DEF CreateGrn, CreateAndPost, Take, TypeOK
  <2>2. PICK first \in {"VALIDATED", "APPROVED"} : CreateNote(g, first)
    BY <1>3 DEF CreateGrn, CreateAndPost
  <2>3. PICK ls \in Receipts[g] :
          /\ status' = [status EXCEPT ![g] = first]
          /\ lines' = [lines EXCEPT ![g] = ls]
          /\ signed' = [signed EXCEPT ![g] = IF first = "APPROVED" THEN ls ELSE <<>>]
    BY <2>2 DEF CreateNote
  <2>4. SignedLines'
    BY <2>3 DEF SerialInv, SignedLines, TypeOK
  <2>5. StatusHolds(r)'
    BY <2>1 DEF StatusHolds
  <2>6. QED
    BY <1>2, <2>1, <2>4, <2>5
<1>4. ASSUME NEW g \in Grns, BeginDecision(r, g) PROVE SerialInv'
  <2>1. PICK d \in Decisions : d.from = status[g] /\ goal' = [goal EXCEPT ![r] = d]
    BY <1>4 DEF BeginDecision
  <2> HIDE DEF Decisions, NoGoal
  <2>2. /\ pc'[r] = "decide" /\ job'[r] = g /\ goal'[r] = d
        /\ UNCHANGED <<status, lines, signed>>
    BY <1>4, <2>1 DEF BeginDecision, Take, TypeOK, notes
  <2>3. SignedLines'
    BY <2>2 DEF SerialInv, SignedLines
  <2>4. StatusHolds(r)'
    BY <2>1, <2>2 DEF StatusHolds
  <2>5. QED
    BY <1>2, <2>2, <2>3, <2>4
<1>5. ASSUME NEW g \in Grns, BeginEdit(r, g) PROVE SerialInv'
  <2>1. /\ pc'[r] = "edit" /\ job'[r] = g /\ status[g] = "REJECTED"
        /\ UNCHANGED <<status, lines, signed>>
    BY <1>5 DEF BeginEdit, Editable, Take, TypeOK, notes
  <2>2. SignedLines'
    BY <2>1 DEF SerialInv, SignedLines
  <2>3. StatusHolds(r)'
    BY <2>1 DEF StatusHolds
  <2>4. QED
    BY <1>2, <2>1, <2>2, <2>3
<1>6. ASSUME NEW g \in Grns, BeginPost(r, g) PROVE SerialInv'
  <2>1. /\ pc'[r] = "read" /\ job'[r] = g /\ status[g] = "APPROVED" /\ work'[r] = lines[g]
        /\ UNCHANGED <<status, lines, signed>>
    BY <1>6 DEF BeginPost, Postable, Take, TypeOK, notes
  <2>2. SignedLines' /\ signed[g] = lines[g]
    BY <2>1 DEF SerialInv, SignedLines
  <2>3. StatusHolds(r)'
    BY <2>1, <2>2 DEF StatusHolds
  <2>4. QED
    BY <1>2, <2>1, <2>2, <2>3
<1>7. QED
  BY <1>3, <1>4, <1>5, <1>6 DEF Arrive

\* The request in progress goes on.
LEMMA SerialContinue ==
  ASSUME Inv, SerialInv, Solo', NEW r \in Requests, Continue(r),
         \A q \in Requests : q # r => pc[q] = "idle" /\ pc'[q] = "idle"
  PROVE  SerialInv'
<1> USE DEF Inv
<1>0. StatusHolds(r) /\ ReadHolds(r) /\ job[r] \in Grns
  BY DEF SerialInv, TypeOK
<1>1. \A q \in Requests : q # r => pend[q] = Zero /\ rows[q] = Zero
  BY OthersClean
<1>2. ASSUME pc'[r] = "idle", Forget(r) \/ (UNCHANGED uncommitted /\ pend[r] = Zero), SignedLines'
      PROVE  SerialInv'
  <2>1. rows[r] = pend[r]
    BY <1>0 DEF ReadHolds
  <2>2. \A q \in Requests : pend'[q] = Zero /\ rows'[q] = Zero
    BY <1>1, <1>2, <2>1 DEF Forget, uncommitted, TypeOK, RowsTypeOK
  <2>3. \A q \in Requests : pc'[q] = "idle"
    BY <1>2
  <2>4. QED
    BY <1>2, <2>2, <2>3, IdleHolds DEF SerialInv
<1>3. CASE FinishDecision(r)
  <2>1. /\ pc'[r] = "idle" /\ UNCHANGED uncommitted /\ UNCHANGED lines
        /\ status' = [status EXCEPT ![job[r]] = goal[r].to]
        /\ signed' = [signed EXCEPT ![job[r]] = Signature(job[r], goal[r])]
        /\ pc[r] = "decide"
    BY <1>3 DEF FinishDecision, Return, TypeOK
  <2>2. goal[r].to = "APPROVED" => Signature(job[r], goal[r]) = lines[job[r]]
    BY DEF Signature
  <2>3. SignedLines'
    <3> SUFFICES ASSUME NEW g \in Grns
                 PROVE  (status[g] = "APPROVED" => signed[g] = lines[g])'
      BY DEF SignedLines
    <3>1. CASE g = job[r]
      BY <2>1, <2>2, <3>1 DEF TypeOK
    <3>2. CASE g # job[r]
      BY <2>1, <3>2 DEF SerialInv, SignedLines, TypeOK
    <3>3. QED
      BY <3>1, <3>2
  <2>4. pend[r] = Zero
    BY <1>0, <2>1 DEF ReadHolds
  <2>5. QED
    BY <1>2, <2>1, <2>3, <2>4
<1>4. CASE FinishEdit(r)
  <2>1. PICK ls \in Receipts[job[r]] : lines' = [lines EXCEPT ![job[r]] = ls]
    BY <1>4 DEF FinishEdit
  <2>2. /\ pc'[r] = "idle" /\ UNCHANGED uncommitted /\ UNCHANGED <<status, signed>>
        /\ pc[r] = "edit"
    BY <1>4 DEF FinishEdit, Return, TypeOK
  <2>3. status[job[r]] = "REJECTED" /\ pend[r] = Zero
    BY <1>0, <2>2 DEF StatusHolds, ReadHolds
  <2>4. SignedLines'
    BY <2>1, <2>2, <2>3 DEF SerialInv, SignedLines, TypeOK
  <2>5. QED
    BY <1>2, <2>2, <2>3, <2>4
<1>5. CASE ReadBalance(r)
  <2>1. /\ pc[r] = "read" /\ pc'[r] = "write" /\ seen'[r] = Visible(r, CurrentLine(r).cell)
        /\ UNCHANGED <<onHand, pend, rows, status, lines, signed, job, goal, work, idx>>
    BY <1>5 DEF ReadBalance, Select, committed, notes, local, TypeOK, RowsTypeOK
  <2>2. SignedLines'
    BY <2>1 DEF SerialInv, SignedLines
  <2>3. StatusHolds(r)'
    BY <1>0, <2>1 DEF StatusHolds
  <2>4. ReadHolds(r)'
    <3>1. Visible(r, CurrentLine(r).cell)' = Visible(r, CurrentLine(r).cell)
      BY <2>1 DEF Visible, CurrentLine
    <3>2. QED
      BY <1>0, <2>1, <3>1 DEF ReadHolds
  <2>5. QED
    BY <1>1, <2>1, <2>2, <2>3, <2>4, IdleHolds DEF SerialInv
<1>6. CASE WriteBalance(r)
  <2> DEFINE c == CurrentLine(r).cell
             n == CurrentLine(r).qty
  <2>1. /\ pc[r] = "write" /\ pc'[r] \in {"read", "commit"}
        /\ pend' = [pend EXCEPT ![r][c] = @ + (NewQty(r) - Visible(r, c))]
        /\ rows' = [rows EXCEPT ![r][c] = @ + n]
        /\ UNCHANGED <<status, lines, signed, job, goal, work>>
    BY <1>6 DEF WriteBalance, Update, Advance, notes, TypeOK
  <2>2. c \in Cells /\ n \in Int
    BY <2>1, LineTyping
  <2>3. NewQty(r) - Visible(r, c) = n
    <3>1. seen[r] = Visible(r, c) /\ seen[r] \in Int
      BY <1>0, <2>1 DEF ReadHolds, TypeOK, RowsTypeOK
    <3>2. NewQty(r) = seen[r] + n
      BY DEF NewQty
    <3> HIDE DEF c, n
    <3>3. QED
      BY <2>2, <3>1, <3>2
  <2>4. SignedLines'
    BY <2>1 DEF SerialInv, SignedLines
  <2>5. StatusHolds(r)'
    BY <1>0, <2>1 DEF StatusHolds
  <2>6. pend[r] = rows[r]
    BY <1>0 DEF ReadHolds
  <2> HIDE DEF c, n
  <2>7. pend'[r] = rows'[r] /\ \A q \in Requests : q # r => pend'[q] = Zero /\ rows'[q] = Zero
    BY <1>1, <2>1, <2>3, <2>6 DEF TypeOK, RowsTypeOK
  <2>8. ReadHolds(r)'
    BY <2>1, <2>7 DEF ReadHolds
  <2>9. QED
    BY <2>4, <2>5, <2>7, <2>8, IdleHolds DEF SerialInv
<1>7. CASE Commit(r)
  <2>1. /\ pc'[r] = "idle" /\ Forget(r) /\ UNCHANGED <<lines, signed>>
        /\ status' = [status EXCEPT ![job[r]] = "POSTED"]
    BY <1>7 DEF Commit, CommitRows, Return, TypeOK
  <2>2. SignedLines'
    BY <2>1 DEF SerialInv, SignedLines, TypeOK
  <2>3. QED
    BY <1>2, <2>1, <2>2
<1>8. CASE RefusePost(r) \/ Abort(r)
  <2>1. pc'[r] = "idle" /\ Forget(r) /\ UNCHANGED <<status, lines, signed>>
    BY <1>8 DEF RefusePost, Abort, RollbackRows, Return, notes, TypeOK
  <2>2. SignedLines'
    BY <2>1 DEF SerialInv, SignedLines
  <2>3. QED
    BY <1>2, <2>1, <2>2
<1>9. QED
  BY <1>3, <1>4, <1>5, <1>6, <1>7, <1>8 DEF Continue

\* Nothing of the notes, requests and transactions changes.
LEMMA SerialSame ==
  ASSUME SerialInv,
         UNCHANGED <<onHand, seen, pend, rows, status, lines, signed, pc, job, goal, work, idx>>
  PROVE  SerialInv'
<1>1. ASSUME NEW r \in Requests PROVE StatusHolds(r)' /\ ReadHolds(r)'
  <2>1. Visible(r, CurrentLine(r).cell)' = Visible(r, CurrentLine(r).cell)
    BY DEF Visible, CurrentLine
  <2>2. StatusHolds(r) /\ ReadHolds(r)
    BY DEF SerialInv
  <2>3. QED
    BY <2>1, <2>2 DEF StatusHolds, ReadHolds
<1>2. QED
  BY <1>1 DEF SerialInv, SignedLines, Solo

LEMMA SerialStep ==
  ASSUME Inv, SerialInv, Next, NoteOverlap, ~overlapped'
  PROVE  SerialInv'
<1>1. Solo'
  BY Modes DEF Inv, SerialInv
<1>2. CASE Elsewhere
  BY <1>2, SerialSame DEF Elsewhere, SetOpening, committed, uncommitted, notes, local
<1>3. CASE \E r \in Requests :
             /\ Arrive(r) \/ Continue(r)
             /\ \A q \in Requests : q # r => pc[q] = "idle" /\ pc'[q] = "idle"
  BY <1>1, <1>3, SerialArrive, SerialContinue
<1>4. QED
  BY <1>2, <1>3, Modes DEF Inv, SerialInv

\* What is proved of the specification with the history.
FullInv == BooksInv /\ (overlapped \/ SerialInv)

LEMMA FullInit == HistoryInit => FullInv
<1>1. Init => SerialInv
  BY DEF Init, RowsInit, SerialInv, Solo, SignedLines, StatusHolds, ReadHolds
<1>2. QED
  BY <1>1, BooksInit DEF HistoryInit, FullInv

LEMMA FullStep == FullInv /\ [HistoryNext]_<<vars, overlapped>> => FullInv'
<1> SUFFICES ASSUME FullInv, [HistoryNext]_<<vars, overlapped>> PROVE FullInv'
  OBVIOUS
<1>1. CASE HistoryNext
  <2>1. Next /\ NoteOverlap
    BY <1>1 DEF HistoryNext
  <2>2. BooksInv' /\ Inv
    BY <2>1, BooksStep DEF FullInv, BooksInv
  <2>3. overlapped => overlapped'
    BY <2>1 DEF NoteOverlap
  <2>4. QED
    BY <2>1, <2>2, <2>3, SerialStep DEF FullInv
<1>2. CASE UNCHANGED <<vars, overlapped>>
  <2>1. UNCHANGED vars /\ UNCHANGED overlapped
    BY <1>2
  <2>2. BooksInv'
    BY <2>1, BooksStep DEF FullInv
  <2>3. SerialInv => SerialInv'
    BY <2>1, SerialSame DEF vars, committed, uncommitted, notes, local
  <2>4. QED
    BY <2>1, <2>2, <2>3 DEF FullInv
<1>3. QED
  BY <1>1, <1>2

-----------------------------------------------------------------------------
(* What follows while requests do not overlap *)

\* A step changes neither a posted note nor lines that are frozen.
LEMMA SettledStep ==
  ASSUME Inv, SerialInv, Next, NEW g \in Grns
  PROVE  /\ status[g] = "POSTED" => status'[g] = status[g]
         /\ status[g] \notin {"none", "REJECTED"} => lines'[g] = lines[g]
<1> USE DEF Inv
<1>1. ASSUME NEW r \in Requests, NEW h \in Grns, CreateGrn(r, h) \/ CreateAndPost(r, h)
      PROVE  status[g] # "none" => lines'[g] = lines[g] /\ status'[g] = status[g]
  BY <1>1 DEF CreateGrn, CreateAndPost, CreateNote, TypeOK
<1>2. ASSUME NEW r \in Requests, NEW h \in Grns,
             BeginDecision(r, h) \/ BeginEdit(r, h) \/ BeginPost(r, h)
      PROVE  lines'[g] = lines[g] /\ status'[g] = status[g]
  BY <1>2 DEF BeginDecision, BeginEdit, BeginPost, notes
<1>3. ASSUME NEW r \in Requests, FinishDecision(r)
      PROVE  lines'[g] = lines[g] /\ (status[g] = "POSTED" => status'[g] = "POSTED")
  <2>1. /\ goal[r] \in Decisions /\ status[job[r]] = goal[r].from
        /\ UNCHANGED lines /\ status' = [status EXCEPT ![job[r]] = goal[r].to]
    BY <1>3 DEF FinishDecision, WellFormed, SerialInv, StatusHolds
  <2>2. status[job[r]] # "POSTED"
    BY <2>1, DecisionTyping
  <2>3. QED
    BY <2>1, <2>2 DEF TypeOK
<1>4. ASSUME NEW r \in Requests, FinishEdit(r)
      PROVE  status'[g] = status[g] /\ (status[g] # "REJECTED" => lines'[g] = lines[g])
  <2>1. status[job[r]] = "REJECTED"
    BY <1>4 DEF FinishEdit, SerialInv, StatusHolds
  <2>2. QED
    BY <1>4, <2>1 DEF FinishEdit, TypeOK
<1>5. ASSUME NEW r \in Requests, Commit(r)
      PROVE  lines'[g] = lines[g] /\ (status[g] = "POSTED" => status'[g] = "POSTED")
  BY <1>5 DEF Commit, TypeOK
<1>6. ASSUME NEW r \in Requests,
             \/ ReadBalance(r) \/ WriteBalance(r) \/ RefusePost(r) \/ Abort(r)
      PROVE  lines'[g] = lines[g] /\ status'[g] = status[g]
  BY <1>6 DEF ReadBalance, WriteBalance, RefusePost, Abort, notes
<1>7. CASE Elsewhere
  BY <1>7 DEF Elsewhere, SetOpening, notes
<1>8. QED
  BY <1>1, <1>2, <1>3, <1>4, <1>5, <1>6, <1>7 DEF Next, Arrive, Continue

\* What a step posts is what was signed.
LEMMA PostStep ==
  ASSUME Inv, SerialInv, Next, NEW g \in Grns, movement'[g] # movement[g]
  PROVE  movement'[g] = signed[g]
<1>1. PICK r \in Requests : Commit(r)
  <2> HIDE DEF Decisions
  <2>1. QED
    BY DEF Next, Arrive, Continue, Elsewhere, SetOpening, CreateGrn, CreateAndPost, CreateNote,
           BeginDecision, BeginEdit, BeginPost, FinishDecision, FinishEdit, ReadBalance,
           WriteBalance, RefusePost, Abort, notes
<1>2. pc[r] = "commit" /\ movement' = [movement EXCEPT ![job[r]] = work[r]]
  BY <1>1 DEF Commit
<1>3. work[r] = signed[job[r]]
  BY <1>2 DEF SerialInv, StatusHolds
<1>4. QED
  BY <1>2, <1>3 DEF Inv, TypeOK

\* A step receives a note into the balances, or changes none of them.
LEMMA StockStep ==
  ASSUME BooksInv, SerialInv, Next
  PROVE  StockRegister!Next \/ UNCHANGED StockRegister!vars
<1>1. ASSUME NEW r \in Requests, Commit(r) PROVE StockRegister!Receive(job[r])
  <2>1. onHand' = [c \in Cells |-> onHand[c] + StockRegister!Total(work[r], c)]
    <3>1. pend[r] = rows[r]
      BY DEF SerialInv, ReadHolds
    <3>2. \A c \in Cells : StockRegister!Total(work[r], c) = pend[r][c]
      BY <1>1, <3>1, CommitRowsAreLines, ReceivedIsTotal
    <3>3. QED
      BY <1>1, <3>2 DEF Commit, CommitRows
  <2>2. QED
    BY <1>1, <2>1, CommitRowsAreLines DEF StockRegister!Receive
<1>2. ASSUME NEW r \in Requests, Arrive(r) PROVE UNCHANGED <<onHand, movement>>
  <2> HIDE DEF Decisions
  <2>1. QED
    BY <1>2 DEF Arrive, CreateGrn, CreateAndPost, CreateNote, BeginDecision, BeginEdit, BeginPost,
                committed, notes
<1>3. ASSUME NEW r \in Requests, Continue(r), ~Commit(r) PROVE UNCHANGED <<onHand, movement>>
  BY <1>3 DEF Continue, FinishDecision, FinishEdit, ReadBalance, Select, WriteBalance, Update,
              RefusePost, Abort, RollbackRows, committed, notes
<1>4. CASE Elsewhere
  BY <1>4 DEF Elsewhere, SetOpening, committed, notes, StockRegister!vars
<1>5. \A r \in Requests : job[r] \in Grns
  BY DEF BooksInv, Inv, TypeOK
<1>6. QED
  BY <1>1, <1>2, <1>3, <1>4, <1>5 DEF Next, StockRegister!Next, StockRegister!vars

\* As long as requests do not overlap, no request changes a POSTED note, and
\* only the lines of rejected notes change: an overlap is all that a note
\* needs to change after it was posted.
THEOREM SettledNotesAreKept == HistorySpec => SettledNotesStay
<1>1. ASSUME FullInv, [HistoryNext]_<<vars, overlapped>>
      PROVE  [Alone(\A g \in Grns :
                /\ status[g] = "POSTED" => UNCHANGED status[g]
                /\ status[g] \notin {"none", "REJECTED"} => UNCHANGED lines[g])]_vars
  <2> HIDE DEF vars
  <2>1. QED
    BY <1>1, SettledStep DEF FullInv, BooksInv, Alone, HistoryNext
<1>2. QED
  BY <1>1, FullInit, FullStep, PTL DEF HistorySpec, SettledNotesStay

\* As long as requests do not overlap, what is posted is what the approver
\* has signed: an edit needs a rejection first and an approval after it.
THEOREM SignedLinesArePosted == HistorySpec => PostsSignedLines
<1>1. ASSUME FullInv, [HistoryNext]_<<vars, overlapped>>
      PROVE  [Alone(\A g \in Grns : movement'[g] # movement[g] => movement'[g] = signed[g])]_vars
  <2> HIDE DEF vars
  <2>1. QED
    BY <1>1, PostStep DEF FullInv, BooksInv, Alone, HistoryNext
<1>2. QED
  BY <1>1, FullInit, FullStep, PTL DEF HistorySpec, PostsSignedLines

\* As long as requests do not overlap, the balances are a receipt register
\* too, although posting overwrites them with what it computed from a read.
THEOREM ReceiptStockKeepsRegister == HistorySpec => StockKeepsRegister
<1>1. HistoryInit => StockRegister!Init
  BY DEF HistoryInit, Init, RowsInit, StockRegister!Init, StockRegister!Zero, Zero
<1>2. ASSUME FullInv, [HistoryNext]_<<vars, overlapped>>
      PROVE  [Alone([StockRegister!Next]_(StockRegister!vars))]_vars
  <2> HIDE DEF vars
  <2>1. QED
    BY <1>2, StockStep DEF FullInv, Alone, HistoryNext
<1>3. QED
  BY <1>1, <1>2, FullInit, FullStep, PTL DEF HistorySpec, StockKeepsRegister

-----------------------------------------------------------------------------
(* The opening balance: what holds whatever overlaps.  Rows refer to rows  *)
(* that are there, and a request in progress knows items, entries,         *)
(* documents, lines and balances there have been.                          *)

ObLine == [doc : Docs, item : Items, loc : Locations, qty : Int, cost : Nat, by : Nat]

LinesFit ==
  /\ docs \in [Docs -> {None, "DRAFT", "POSTED"}]
  /\ obLines \subseteq ObLine
  /\ \A n \in obLines : docs[n.doc] # None /\ n.item \in There /\ n.loc \in Present

StockFits ==
  /\ opened \in [Bins -> Int] /\ moved \in [Bins -> Int] /\ inStock \in [Bins -> Int]
  /\ traced \subseteq There \X (Present \cap Locations)

PreviewFits == IsColumns(preview.data) /\ IsQuantities(preview.qty)

\* The local variables j of a request at the step s.
TaskFits(s, j) ==
  /\ j.kind \in Kinds
  /\ s = "idle" => j = NoTask
  /\ s = "write" => /\ IsColumns(j.data) /\ IsQuantities(j.qty)
                    /\ j.kind \in {"create", "update", "import", "delete item"} => j.on \in Items
                    /\ j.kind = "delete entry" => j.on \in Entries
                    /\ j.kind = "post" => j.on \in Docs
  /\ s = "post" => j.kind = "finalize"
  /\ j.open \subseteq Docs /\ j.seen \subseteq ObLine /\ \A n \in j.seen : n.doc \in j.open
  /\ j.stock \in [Bins -> Int] /\ j.stamp \in Nat

TasksFit ==
  /\ taskPc \in [Tasks -> TaskSteps] /\ task = [r \in Tasks |-> task[r]]
  /\ \A r \in Tasks : TaskFits(taskPc[r], task[r])

StageFits == allow \in {None, "OPEN", "LOCKED"} /\ snapshot \in BOOLEAN /\ changes \in 0..MaxChanges

OpeningInv == CatalogueTypeOK /\ StageFits /\ LinesFit /\ StockFits /\ PreviewFits /\ TasksFit

-----------------------------------------------------------------------------
(* ... and without an overlap: one request at most is in progress, the     *)
(* status, the drafts, the balances and the uses that it has read are      *)
(* those stored, and each balance is its ledger.                           *)

OneTask == \A q, r \in Tasks : taskPc[q] # "idle" /\ taskPc[r] # "idle" => q = r

\* Every ledger row has a line of a posted document.
RowsHaveLines ==
  \A i \in Items, l \in Locations : opened[<<i, l>>] # 0 => LinesAt(obLines \ DraftLines, i, l) # {}

StillFound(s, j) ==
  /\ s = "write" => j.stage = ObStatus
  /\ s \in {"write", "post"} => j.open = Drafts /\ j.seen = DraftLines /\ j.stock = inStock
  /\ s = "write" /\ j.kind = "delete entry" => MayDelete(j.on, Used)

\* Every balance is what its ledger rows add up to.
StockAdds == \A x \in Bins : inStock[x] = opened[x] + moved[x]

OpeningSerial == OneTask /\ RowsHaveLines /\ StockAdds /\ \A r \in Tasks : StillFound(taskPc[r], task[r])

-----------------------------------------------------------------------------
(* The operators of the model.                                             *)

\* A set of documents has an oldest one.
LEMMA OldestIsThere ==
  ASSUME NEW S \in SUBSET Docs
  PROVE  /\ S # {} => Least(S) \in S
         /\ S = {} => Least(S) = NoDoc
<1> DEFINE UpTo(d) == {e \in S : e <= d}
           W == {UpTo(d) : d \in S}
<1>1. ASSUME S # {} PROVE \E d \in S : \A e \in S : d <= e
  <2>1. S \subseteq Nat /\ IsFiniteSet(S)
    BY OpeningAssumption, FS_Subset
  <2>2. W \subseteq SUBSET S /\ W # {}
    BY <1>1
  <2>3. PICK u \in W : \A v \in SUBSET u : v # u => v \notin W
    <3> HIDE DEF W
    <3>1. QED
      BY <2>1, <2>2, SmallestSubset
  <2>4. PICK d \in S : u = UpTo(d)
    OBVIOUS
  <2>5. ASSUME NEW e \in S, ~(d <= e) PROVE FALSE
    <3>1. d \in Nat /\ e \in Nat
      BY <2>1
    <3>2. d \in UpTo(d) /\ d \notin UpTo(e)
      BY <2>5, <3>1
    <3>3. \A x \in S : x <= e => x <= d
      BY <2>1, <2>5, <3>1
    <3>4. UpTo(e) \in SUBSET u /\ UpTo(e) # u
      BY <2>4, <3>2, <3>3
    <3>5. UpTo(e) \in W
      OBVIOUS
    <3>6. QED
      BY <2>3, <3>4, <3>5
  <2>6. QED
    BY <2>5
<1>2. QED
  BY <1>1 DEF Least

\* What is written to an item makes a row of one.
LEMMA RowIsWritten ==
  ASSUME NEW data, IsColumns(data), NEW old \in ItemRow
  PROVE  Written(data, old) \in ItemRow /\ Written(data, old).there
BY DEF Written, Given, IsColumns, ItemRow

LEMMA NoRow == NoItem \in ItemRow
BY DEF NoItem, ItemRow

\* What an import gives.
LEMMA ColumnsImported ==
  ASSUME NEW data, IsColumns(data), NEW old \in ItemRow
  PROVE  IsColumns(Imported(data, old))
<1> DEFINE kept == {f \in old.refs : \A k \in {Departments, Categories, Suppliers} :
                                      f \in k => data["refs"] \cap k = {}}
           both == [x \in DOMAIN data \ {"base"} |-> IF x = "refs" THEN kept \cup data["refs"] ELSE data[x]]
<1>1. kept \subseteq Entries \ Locations
  BY DEF ItemRow
<1>2. IsColumns(both)
  <2> HIDE DEF kept
  <2>1. QED
    BY <1>1 DEF IsColumns
<1>3. QED
  BY <1>2 DEF Imported

\* The quantities that an item brings.
LEMMA NoLines == IsQuantities(NoQty) /\ IsColumns(NoData)
BY DEF IsQuantities, NoQty, IsColumns, NoData

LEMMA TypeOfInv == OpeningInv => OpeningTypeOK
BY DEF OpeningInv, OpeningTypeOK, StageFits, LinesFit, StockFits, TasksFit, TaskFits, ObLine

LEMMA OpeningBegins == OpeningInit => OpeningInv
<1> SUFFICES ASSUME OpeningInit PROVE OpeningInv
  OBVIOUS
<1>1. /\ shelf = [e \in Entries |-> IF e \in Suppliers THEN None ELSE "on"]
      /\ item = [i \in Items |-> NoItem] /\ below \in Links
  BY DEF OpeningInit
<1>2. CatalogueTypeOK
  <2>1. Present = Entries \ Suppliers
    BY <1>1 DEF Present, None
  <2>2. below \subseteq Present \X Present /\ \A link \in below : link[2] \in MayName(link[1])
    BY <1>1, <2>1, OpeningAssumption
  <2>3. item \in [Items -> ItemRow]
    BY <1>1, NoRow
  <2>4. shelf \in [Entries -> {None, "on", "off"}]
    BY <1>1
  <2>5. QED
    BY <1>1, <2>2, <2>3, <2>4 DEF CatalogueTypeOK, NoItem
<1>3. LinesFit
  BY DEF OpeningInit, LinesFit
<1>4. StockFits
  BY DEF OpeningInit, StockFits, NoStock
<1>5. PreviewFits
  BY NoLines DEF OpeningInit, PreviewFits, NoPreview
<1>6. TasksFit
  <2>1. TaskFits("idle", NoTask)
    BY DEF TaskFits, NoTask, Kinds, NoStock
  <2>2. QED
    BY <2>1 DEF OpeningInit, TasksFit, TaskSteps
<1>7. StageFits
  <2>1. allow \in {None, "OPEN", "LOCKED"}
    BY DEF OpeningInit
  <2>2. snapshot \in BOOLEAN
    BY DEF OpeningInit
  <2>3. changes \in 0..MaxChanges
    BY OpeningAssumption DEF OpeningInit
  <2>4. QED
    BY <2>1, <2>2, <2>3 DEF StageFits
<1>8. QED
  BY <1>2, <1>3, <1>4, <1>5, <1>6, <1>7 DEF OpeningInv

-----------------------------------------------------------------------------
(* The catalogue keeps its types, and what it has.                         *)

LEMMA EntryCreated ==
  ASSUME CatalogueTypeOK, NEW e \in Entries, NEW fs, Create(e, fs)
  PROVE  CatalogueTypeOK' /\ Present \subseteq Present' /\ There' = There
<1>1. /\ shelf' = [shelf EXCEPT ![e] = "on"] /\ below' = below \cup ({e} \X fs) /\ item' = item
      /\ fs \subseteq Present \cap MayName(e)
  BY DEF Create, Named
<1>2. shelf' \in [Entries -> {None, "on", "off"}]
  BY <1>1 DEF CatalogueTypeOK
<1>3. Present \subseteq Present' /\ e \in Present'
  BY <1>1 DEF Present, CatalogueTypeOK, None
<1>4. There' = There
  BY <1>1 DEF There
<1>5. below' \subseteq Present' \X Present'
  BY <1>1, <1>3 DEF CatalogueTypeOK
<1>6. ASSUME NEW link \in below' PROVE link[2] \in MayName(link[1])
  BY <1>1, <1>6 DEF CatalogueTypeOK
<1>7. \A i \in Items : item[i].refs \subseteq Present' /\ item[i].store \in {None} \cup Present'
  BY <1>3 DEF CatalogueTypeOK
<1>8. QED
  BY <1>1, <1>2, <1>3, <1>4, <1>5, <1>6, <1>7 DEF CatalogueTypeOK

LEMMA EntryRenamed ==
  ASSUME CatalogueTypeOK, NEW e \in Entries, NEW fs, Rename(e, fs)
  PROVE  CatalogueTypeOK' /\ Present \subseteq Present' /\ There' = There
<1>1. /\ below' = {link \in below : link[1] # e} \cup ({e} \X fs) /\ item' = item /\ shelf' = shelf
      /\ fs \subseteq Present \cap MayName(e) /\ e \in Present
  BY DEF Rename, Named, Present
<1>2. Present' = Present /\ There' = There
  BY <1>1 DEF Present, There
<1>3. below' \subseteq Present' \X Present'
  BY <1>1, <1>2 DEF CatalogueTypeOK
<1>4. ASSUME NEW link \in below' PROVE link[2] \in MayName(link[1])
  BY <1>1, <1>4 DEF CatalogueTypeOK
<1>5. QED
  BY <1>1, <1>2, <1>3, <1>4 DEF CatalogueTypeOK

LEMMA EntryToggled ==
  ASSUME CatalogueTypeOK, NEW e \in Entries, Toggle(e)
  PROVE  CatalogueTypeOK' /\ Present \subseteq Present' /\ There' = There
<1>1. /\ shelf' = [shelf EXCEPT ![e] = IF shelf[e] = "on" THEN "off" ELSE "on"]
      /\ below' = below /\ item' = item /\ shelf[e] # None
  BY DEF Toggle
<1>2. Present' = Present /\ There' = There
  BY <1>1 DEF Present, There, CatalogueTypeOK, None
<1>3. shelf' \in [Entries -> {None, "on", "off"}]
  BY <1>1 DEF CatalogueTypeOK
<1>4. QED
  BY <1>1, <1>2, <1>3 DEF CatalogueTypeOK

\* A row is written whose keys hold.
LEMMA RowFits ==
  ASSUME CatalogueTypeOK, NEW i \in Items, NEW new \in ItemRow, new.there, KeysHold(new),
         item' = [item EXCEPT ![i] = new], UNCHANGED <<shelf, below>>
  PROVE  CatalogueTypeOK' /\ Present' = Present /\ There' = There \cup {i}
<1>1. Present' = Present
  BY DEF Present
<1>2. \A k \in Items : item'[k] = IF k = i THEN new ELSE item[k]
  BY DEF CatalogueTypeOK
<1>3. There' = There \cup {i}
  BY <1>2 DEF There
<1>4. item' \in [Items -> ItemRow]
  BY DEF CatalogueTypeOK
<1>5. ASSUME NEW k \in Items
      PROVE  /\ item'[k].refs \subseteq Present' /\ item'[k].store \in {None} \cup Present'
             /\ ~item'[k].there => item'[k] = NoItem
  BY <1>1, <1>2 DEF CatalogueTypeOK, KeysHold
<1>6. QED
  BY <1>1, <1>3, <1>4, <1>5 DEF CatalogueTypeOK

LEMMA ItemToggled ==
  ASSUME CatalogueTypeOK, NEW i \in Items, ToggleItem(i) \/ \E b \in BOOLEAN : ReplaceUnits(i, b)
  PROVE  CatalogueTypeOK' /\ Present' = Present /\ There' = There
<1>1. item[i] \in ItemRow /\ item[i].there
  BY DEF ToggleItem, ReplaceUnits, CatalogueTypeOK
<1>2. UNCHANGED <<shelf, below>> /\ KeysHold(item[i])
  BY DEF ToggleItem, ReplaceUnits, CatalogueTypeOK, KeysHold
<1>3. CASE ToggleItem(i)
  <2> DEFINE new == [item[i] EXCEPT !.on = ~item[i].on]
  <2>1. new \in ItemRow /\ new.there /\ KeysHold(new)
    BY <1>1, <1>2 DEF ItemRow, KeysHold
  <2>2. item' = [item EXCEPT ![i] = new]
    BY <1>3 DEF ToggleItem
  <2>3. There \cup {i} = There
    BY <1>1 DEF There
  <2> HIDE DEF new
  <2>4. QED
    BY <1>2, <2>1, <2>2, <2>3, RowFits
<1>4. ASSUME NEW b \in BOOLEAN, ReplaceUnits(i, b)
      PROVE  CatalogueTypeOK' /\ Present' = Present /\ There' = There
  <2> DEFINE new == [item[i] EXCEPT !.base = b]
  <2>1. new \in ItemRow /\ new.there /\ KeysHold(new)
    BY <1>1, <1>2 DEF ItemRow, KeysHold
  <2>2. item' = [item EXCEPT ![i] = new]
    BY <1>4 DEF ReplaceUnits
  <2>3. There \cup {i} = There
    BY <1>1 DEF There
  <2> HIDE DEF new
  <2>4. QED
    BY <1>2, <2>1, <2>2, <2>3, RowFits
<1>5. QED
  BY <1>3, <1>4

LEMMA Maintained ==
  ASSUME CatalogueTypeOK, Maintain
  PROVE  CatalogueTypeOK' /\ Present \subseteq Present' /\ There' = There
<1>1. ASSUME NEW e, NEW fs, Create(e, fs) \/ Rename(e, fs) \/ Toggle(e), e \in Entries
      PROVE  CatalogueTypeOK' /\ Present \subseteq Present' /\ There' = There
  BY <1>1, EntryCreated, EntryRenamed, EntryToggled
<1>2. CASE \E e \in Entries : CreateDepartment(e) \/ CreateSupplier(e)
  BY <1>1, <1>2 DEF CreateDepartment, CreateSupplier
<1>3. CASE \E e \in Subcategories, c \in Categories : CreateSubcategory(e, c)
  BY <1>1, <1>3 DEF CreateSubcategory, Entries
<1>4. CASE \E e \in Categories, fs \in SUBSET Departments : CreateCategory(e, fs) \/ UpdateCategory(e, fs)
  BY <1>1, <1>4 DEF CreateCategory, UpdateCategory, Entries
<1>5. CASE \E e \in Locations, fs \in SUBSET (Departments \cup Categories) :
             CreateLocation(e, fs) \/ UpdateLocation(e, fs) \/ SetLocationCategories(e, fs)
  BY <1>1, <1>5 DEF CreateLocation, UpdateLocation, SetLocationCategories, Entries
<1>6. CASE \E e \in Entries : ToggleDepartment(e) \/ ToggleSupplierStatus(e) \/ UpdateActive(e)
  BY <1>1, <1>6 DEF ToggleDepartment, ToggleSupplierStatus, UpdateActive
<1>7. CASE \/ \E i \in Items : ToggleItem(i)
           \/ \E i \in Items, b \in BOOLEAN : ReplaceUnits(i, b)
  BY <1>7, ItemToggled
<1>8. QED
  BY <1>2, <1>3, <1>4, <1>5, <1>6, <1>7 DEF Maintain

\* An entry is erased with the references to it.
LEMMA EntryErased ==
  ASSUME CatalogueTypeOK, NEW e \in Entries, Erase(e)
  PROVE  CatalogueTypeOK' /\ Present' = Present \ {e} /\ There' = There
<1>1. /\ shelf' = [shelf EXCEPT ![e] = None] /\ below' = {link \in below : e \notin {link[1], link[2]}}
      /\ \A i \in Items : item'[i] = Without(item[i], e)
      /\ item' = [i \in Items |-> Without(item[i], e)]
  BY DEF Erase
<1>2. Present' = Present \ {e}
  BY <1>1 DEF Present, CatalogueTypeOK, None
<1>3. There' = There
  BY <1>1 DEF There, Without
<1>4. ASSUME NEW i \in Items
      PROVE  /\ Without(item[i], e) \in ItemRow
             /\ item'[i].refs \subseteq Present' /\ item'[i].store \in {None} \cup Present'
             /\ ~item'[i].there => item'[i] = NoItem
  <2>1. /\ item[i] \in ItemRow /\ item[i].refs \subseteq Present /\ item[i].store \in {None} \cup Present
        /\ ~item[i].there => item[i] = NoItem
    BY DEF CatalogueTypeOK
  <2>2. Without(item[i], e) \in ItemRow
    BY <2>1 DEF Without, ItemRow
  <2>3. item'[i].refs \subseteq Present' /\ item'[i].store \in {None} \cup Present'
    BY <1>1, <1>2, <2>1 DEF Without
  <2>4. Without(NoItem, e) = NoItem
    BY CatalogueAssumption DEF Without, NoItem
  <2>5. QED
    BY <1>1, <2>1, <2>2, <2>3, <2>4 DEF Without
<1>5. below' \subseteq Present' \X Present'
  BY <1>1, <1>2 DEF CatalogueTypeOK
<1>6. \A link \in below' : link[2] \in MayName(link[1])
  BY <1>1 DEF CatalogueTypeOK
<1>7. shelf' \in [Entries -> {None, "on", "off"}]
  BY <1>1 DEF CatalogueTypeOK
<1>8. item' \in [Items -> ItemRow]
  BY <1>1, <1>4
<1>9. QED
  BY <1>2, <1>3, <1>4, <1>5, <1>6, <1>7, <1>8 DEF CatalogueTypeOK

-----------------------------------------------------------------------------
(* The lines of the drafts.                                                *)

\* Lines that may be there with the rows that will be.
Fitting(S) == \A n \in S : n.item \in There' /\ n.loc \in Present'

NewLine == [doc : Docs \cup {NoDoc}, item : Items, loc : Locations, qty : Int, cost : Nat, by : Nat]

LEMMA LinesReplaced ==
  ASSUME OpeningInv, NEW gone, NEW new \in SUBSET NewLine, NEW kept \in SUBSET ObLine,
         Replace(gone, new, kept), Fitting(new), Fitting(kept), \A n \in kept : docs[n.doc] # None
  PROVE  /\ LinesFit' /\ obLines' = (kept \ gone) \cup new /\ new \subseteq ObLine
         /\ \A d \in Docs : docs'[d] = IF docs[d] = None /\ \E n \in new : n.doc = d THEN "DRAFT" ELSE docs[d]
<1>1. /\ \A n \in new : n.doc # NoDoc
      /\ obLines' = (kept \ gone) \cup new
      /\ docs' = [d \in Docs |-> IF docs[d] = None /\ \E n \in new : n.doc = d THEN "DRAFT" ELSE docs[d]]
  BY DEF Replace
<1>2. new \subseteq ObLine
  BY <1>1 DEF NewLine, ObLine
<1>3. docs' \in [Docs -> {None, "DRAFT", "POSTED"}]
  BY <1>1 DEF OpeningInv, LinesFit
<1>4. ASSUME NEW n \in obLines' PROVE docs'[n.doc] # None /\ n.item \in There' /\ n.loc \in Present'
  <2>1. n \in kept \/ n \in new
    BY <1>1, <1>4
  <2>2. n \in ObLine /\ n.doc \in Docs
    BY <1>2, <2>1 DEF ObLine
  <2>3. docs'[n.doc] # None
    BY <1>1, <2>1, <2>2 DEF None
  <2>4. QED
    BY <2>1, <2>3 DEF Fitting
<1>5. obLines' \subseteq ObLine
  BY <1>1, <1>2
<1>6. QED
  BY <1>1, <1>2, <1>3, <1>4, <1>5 DEF LinesFit

\* What a transaction may have found.
LEMMA ViewsFit ==
  ASSUME OpeningInv, NEW r \in Tasks, NEW v \in Views(r)
  PROVE  /\ v.open \subseteq Docs /\ v.seen \subseteq ObLine /\ \A n \in v.seen : n.doc \in v.open
         /\ Home(v.open) \in Docs \cup {NoDoc}
         /\ \A i, l : LinesAt(v.seen, i, l) # {} => Least({n.doc : n \in LinesAt(v.seen, i, l)}) \in Docs
<1>1. v.open \subseteq Docs /\ v.seen \subseteq ObLine /\ \A n \in v.seen : n.doc \in v.open
  <2>1. TaskFits(taskPc[r], task[r]) /\ LinesFit
    BY DEF OpeningInv, TasksFit
  <2>2. v = [open |-> task[r].open, seen |-> task[r].seen] \/ v = [open |-> Drafts, seen |-> DraftLines]
    BY DEF Views
  <2>3. Drafts \subseteq Docs /\ DraftLines \subseteq ObLine /\ \A n \in DraftLines : n.doc \in Drafts
    BY <2>1 DEF Drafts, DraftLines, LinesFit
  <2>4. /\ task[r].open \subseteq Docs /\ task[r].seen \subseteq ObLine
        /\ \A n \in task[r].seen : n.doc \in task[r].open
    BY <2>1 DEF TaskFits
  <2>5. QED
    BY <2>2, <2>3, <2>4
<1>2. Unused \subseteq Docs
  BY DEF Unused
<1>3. Home(v.open) \in Docs \cup {NoDoc}
  BY <1>1, <1>2, OldestIsThere DEF Home
<1>4. ASSUME NEW i, NEW l, LinesAt(v.seen, i, l) # {}
      PROVE  Least({n.doc : n \in LinesAt(v.seen, i, l)}) \in Docs
  <2>1. {n.doc : n \in LinesAt(v.seen, i, l)} \in SUBSET Docs
    BY <1>1 DEF LinesAt
  <2>2. {n.doc : n \in LinesAt(v.seen, i, l)} # {}
    BY <1>4
  <2>3. QED
    BY <2>1, <2>2, OldestIsThere
<1>5. QED
  BY <1>1, <1>3, <1>4

\* Lines and documents there are stay when rows do.
LEMMA LinesStay ==
  ASSUME OpeningInv, There \subseteq There', Present \subseteq Present'
  PROVE  obLines \in SUBSET ObLine /\ Fitting(obLines) /\ \A n \in obLines : docs[n.doc] # None
BY DEF OpeningInv, LinesFit, Fitting

\* The document of a line that Enter writes, given what it found.
HomeOf(v, i, l) ==
  IF LinesAt(v.seen, i, l) = {} THEN Home(v.open) ELSE Least({n.doc : n \in LinesAt(v.seen, i, l)})

LEMMA Entered ==
  ASSUME OpeningInv, NEW r \in Tasks, NEW i \in Items, i \in There', NEW qty, IsQuantities(qty),
         DOMAIN qty \subseteq Present', NEW cost \in Nat, There \subseteq There', Present \subseteq Present',
         Enter(r, i, qty, cost)
  PROVE  LinesFit'
<1>1. PICK v \in Views(r) :
        Replace(UNION {LinesAt(v.seen, i, l) : l \in DOMAIN qty},
                {Line(HomeOf(v, i, l), i, l, qty[l], cost, task[r].stamp) : l \in DOMAIN qty}, obLines)
  BY DEF Enter, HomeOf
<1> DEFINE new == {Line(HomeOf(v, i, l), i, l, qty[l], cost, task[r].stamp) : l \in DOMAIN qty}
<1>2. task[r].stamp \in Nat
  BY DEF OpeningInv, TasksFit, TaskFits
<1>3. ASSUME NEW l \in DOMAIN qty
      PROVE  Line(HomeOf(v, i, l), i, l, qty[l], cost, task[r].stamp) \in NewLine
  <2>1. HomeOf(v, i, l) \in Docs \cup {NoDoc}
    BY ViewsFit DEF HomeOf
  <2>2. l \in Locations /\ qty[l] \in Nat \ {0}
    BY DEF IsQuantities
  <2>3. QED
    BY <1>2, <2>1, <2>2 DEF Line, NewLine
<1>4. new \in SUBSET NewLine /\ Fitting(new)
  BY <1>3 DEF Fitting, Line
<1> HIDE DEF new
<1>5. QED
  BY <1>1, <1>4, LinesStay, LinesReplaced DEF new

LEMMA TotalEntered ==
  ASSUME OpeningInv, NEW r \in Tasks, NEW i \in Items, i \in There', NEW row \in ItemRow,
         row.store \in Locations \cap Present', NEW q \in Nat, There \subseteq There', Present \subseteq Present',
         EnterTotal(r, i, row, q)
  PROVE  LinesFit'
<1>1. PICK v \in Views(r) :
        Replace(LinesOf(v.seen, i),
                IF q = 0 THEN {} ELSE {Line(Home(v.open), i, row.store, q, row.price, task[r].stamp)}, obLines)
  BY DEF EnterTotal
<1> DEFINE new == IF q = 0 THEN {} ELSE {Line(Home(v.open), i, row.store, q, row.price, task[r].stamp)}
<1>2. task[r].stamp \in Nat /\ row.price \in Nat
  BY DEF OpeningInv, TasksFit, TaskFits, ItemRow
<1>3. Home(v.open) \in Docs \cup {NoDoc}
  BY ViewsFit
<1>4. new \in SUBSET NewLine /\ Fitting(new)
  BY <1>2, <1>3 DEF Fitting, Line, NewLine
<1> HIDE DEF new
<1>5. QED
  BY <1>1, <1>4, LinesStay, LinesReplaced DEF new

\* The same lines at another cost.
Repriced(n, i, price) == IF n \in LinesOf(DraftLines, i) THEN [n EXCEPT !.cost = price] ELSE n

LEMMA RepricedLine ==
  ASSUME NEW n \in ObLine, NEW i, NEW price \in Nat
  PROVE  /\ Repriced(n, i, price) \in ObLine
         /\ Repriced(n, i, price).doc = n.doc /\ Repriced(n, i, price).item = n.item
         /\ Repriced(n, i, price).loc = n.loc /\ Repriced(n, i, price).qty = n.qty
BY DEF Repriced, ObLine

LEMMA LinesRepriced ==
  ASSUME OpeningInv, NEW i, NEW price \in Nat, There \subseteq There', Present \subseteq Present',
         Reprice(i, price)
  PROVE  LinesFit'
<1> DEFINE kept == {Repriced(n, i, price) : n \in obLines}
<1>1. Replace({}, {}, kept)
  BY DEF Reprice, Repriced
<1>2. kept \in SUBSET ObLine /\ Fitting(kept) /\ \A n \in kept : docs[n.doc] # None
  BY LinesStay, RepricedLine DEF Fitting
<1>3. {} \in SUBSET NewLine /\ Fitting({})
  BY DEF Fitting
<1> HIDE DEF kept
<1>4. QED
  BY <1>1, <1>2, <1>3, LinesReplaced

LEMMA LinesUntouched ==
  ASSUME OpeningInv, There \subseteq There', Present \subseteq Present', UNCHANGED draftRows
  PROVE  LinesFit'
BY DEF OpeningInv, LinesFit, draftRows

-----------------------------------------------------------------------------
(* The stock.                                                              *)

\* A posting overwrites the balances that it has lines for, and its rows are
\* the differences to what it read.
LEMMA Booked ==
  ASSUME StockFits, NEW r \in Tasks, task[r].stock \in [Bins -> Int], NEW S \in SUBSET ObLine, Fitting(S),
         There \subseteq There', Present \subseteq Present', Book(r, S)
  PROVE  /\ StockFits'
         /\ \A x \in Bins : LinesAt(S, x[1], x[2]) = {} => inStock'[x] = inStock[x] /\ opened'[x] = opened[x]
         /\ \A x \in Bins : LinesAt(S, x[1], x[2]) # {} => \E n \in LinesAt(S, x[1], x[2]) : inStock'[x] = n.qty
         /\ task[r].stock = inStock /\ StockAdds => StockAdds'
<1> DEFINE met == {x \in Bins : LinesAt(S, x[1], x[2]) # {}}
         Read(early) == [x \in Bins |-> IF x \in early THEN task[r].stock[x] ELSE inStock[x]]
<1>1. PICK target \in Targets(S), early \in SUBSET Bins :
        /\ inStock' = [x \in Bins |-> IF x \in DOMAIN target THEN target[x] ELSE inStock[x]]
        /\ opened' = [x \in Bins |->
                       IF x \in DOMAIN target THEN opened[x] + target[x] - Read(early)[x] ELSE opened[x]]
  BY DEF Book
<1>2. moved' = moved /\ traced' = traced \cup {<<n.item, n.loc>> : n \in S}
  BY DEF Book
<1>3. DOMAIN target = met /\ \A x \in met : \E n \in Last(S, x) : target[x] = n.qty
  BY DEF Targets
<1>4. ASSUME NEW x \in met
      PROVE  target[x] \in Int /\ \E n \in LinesAt(S, x[1], x[2]) : target[x] = n.qty
  <2>1. PICK n \in LinesAt(S, x[1], x[2]) : target[x] = n.qty
    BY <1>3, <1>4 DEF Last
  <2>2. n.qty \in Int
    BY <2>1 DEF LinesAt, ObLine
  <2>3. QED
    BY <2>1, <2>2
<1>5. ASSUME NEW x \in Bins
      PROVE  /\ inStock'[x] \in Int /\ opened'[x] \in Int
             /\ x \notin met => inStock'[x] = inStock[x] /\ opened'[x] = opened[x]
             /\ x \in met => \E n \in LinesAt(S, x[1], x[2]) : inStock'[x] = n.qty
             /\ task[r].stock = inStock => opened'[x] - opened[x] = inStock'[x] - inStock[x]
  <2>1. inStock[x] \in Int /\ opened[x] \in Int /\ task[r].stock[x] \in Int
    BY DEF StockFits
  <2>2. CASE x \in met
    <3>1. target[x] \in Int /\ x \in DOMAIN target /\ \E n \in LinesAt(S, x[1], x[2]) : target[x] = n.qty
      BY <1>3, <1>4, <2>2
    <3>2. inStock'[x] = target[x]
      BY <1>1, <3>1
    <3>3. opened'[x] = opened[x] + target[x] - (IF x \in early THEN task[r].stock[x] ELSE inStock[x])
      BY <1>1, <3>1 DEF Read
    <3> HIDE DEF met
    <3>4. QED
      BY <2>1, <2>2, <3>1, <3>2, <3>3
  <2>3. CASE x \notin met
    <3>1. inStock'[x] = inStock[x] /\ opened'[x] = opened[x]
      BY <1>1, <1>3, <2>3
    <3> HIDE DEF met
    <3>2. QED
      BY <2>1, <2>3, <3>1
  <2>4. QED
    BY <2>2, <2>3
<1>6. inStock' \in [Bins -> Int] /\ opened' \in [Bins -> Int]
  BY <1>1, <1>5
<1>7. ASSUME task[r].stock = inStock, StockAdds PROVE StockAdds'
  <2>1. ASSUME NEW x \in Bins PROVE inStock'[x] = opened'[x] + moved'[x]
    <3>1. /\ inStock[x] = opened[x] + moved[x] /\ opened'[x] - opened[x] = inStock'[x] - inStock[x]
          /\ moved'[x] = moved[x]
      BY <1>2, <1>5, <1>7 DEF StockAdds
    <3>2. /\ inStock[x] \in Int /\ opened[x] \in Int /\ moved[x] \in Int
          /\ inStock'[x] \in Int /\ opened'[x] \in Int
      BY <1>5 DEF StockFits
    <3>3. QED
      BY <3>1, <3>2
  <2>2. QED
    BY <2>1 DEF StockAdds
<1>8. traced' \subseteq There' \X (Present' \cap Locations)
  BY <1>2 DEF StockFits, Fitting, ObLine
<1>9. StockFits'
  BY <1>2, <1>6, <1>8 DEF StockFits
<1>10. QED
  BY <1>5, <1>7, <1>9

LEMMA StockSame ==
  ASSUME StockAdds, UNCHANGED stockRows
  PROVE  StockAdds'
BY DEF StockAdds, stockRows

LEMMA StockUntouched ==
  ASSUME StockFits, There \subseteq There', Present \subseteq Present', UNCHANGED stockRows
  PROVE  StockFits'
BY DEF StockFits, stockRows

LEMMA Moved ==
  ASSUME OpeningInv, NEW i \in Items, NEW l \in Locations, NEW q \in {-1, 1}, OtherMovement(i, l, q)
  PROVE  StockFits' /\ (StockAdds => StockAdds')
<1>1. /\ item[i].there /\ shelf[l] # None
      /\ moved' = [moved EXCEPT ![<<i, l>>] = moved[<<i, l>>] + q]
      /\ inStock' = [inStock EXCEPT ![<<i, l>>] = inStock[<<i, l>>] + q]
      /\ traced' = traced \cup {<<i, l>>} /\ opened' = opened /\ item' = item /\ shelf' = shelf
  BY DEF OtherMovement, catalogueRows
<1>2. <<i, l>> \in Bins /\ StockFits
  BY DEF Bins, OpeningInv
<1>3. inStock' \in [Bins -> Int] /\ moved' \in [Bins -> Int]
  BY <1>1, <1>2 DEF StockFits
<1>4. StockAdds => StockAdds'
  BY <1>1, <1>2 DEF StockFits, StockAdds
<1>5. There' = There /\ Present' = Present /\ i \in There /\ l \in Present
  BY <1>1 DEF There, Present, Entries
<1>6. QED
  BY <1>1, <1>2, <1>3, <1>4, <1>5 DEF StockFits

\* An item goes: with its lines and its stock, or without having any.
LEMMA ItemErased ==
  ASSUME OpeningInv, NEW r \in Tasks, WriteDeleteItem(r)
  PROVE  CatalogueTypeOK' /\ LinesFit' /\ StockFits' /\ (StockAdds => StockAdds')
<1> DEFINE i == task[r].on
           all == task[r].stage = "OPEN"
<1>1. i \in Items
  BY DEF OpeningInv, TasksFit, TaskFits, WriteDeleteItem
<1>2. /\ all \/ (LinesOf(obLines, i) = {} /\ traced \cap ({i} \X Locations) = {})
      /\ obLines' = obLines \ LinesOf(obLines, i)
      /\ opened' = [x \in Bins |-> IF all /\ x[1] = i THEN 0 ELSE opened[x]]
      /\ moved' = [x \in Bins |-> IF all /\ x[1] = i THEN 0 ELSE moved[x]]
      /\ inStock' = [x \in Bins |-> IF all /\ x[1] = i THEN 0 ELSE inStock[x]]
      /\ traced' = traced \ ({i} \X Locations)
      /\ item' = [item EXCEPT ![i] = NoItem] /\ UNCHANGED <<shelf, below, docs>>
  BY DEF WriteDeleteItem
<1>3. There' = There \ {i} /\ Present' = Present
  BY <1>1, <1>2 DEF There, Present, OpeningInv, CatalogueTypeOK, NoItem
<1> HIDE DEF i, all
<1>4. CatalogueTypeOK'
  <2>1. item' \in [Items -> ItemRow]
    BY <1>1, <1>2, NoRow DEF OpeningInv, CatalogueTypeOK
  <2>2. ASSUME NEW k \in Items
        PROVE  /\ item'[k].refs \subseteq Present' /\ item'[k].store \in {None} \cup Present'
               /\ ~item'[k].there => item'[k] = NoItem
    BY <1>1, <1>2, <1>3 DEF OpeningInv, CatalogueTypeOK, NoItem
  <2>3. QED
    BY <1>2, <1>3, <2>1, <2>2 DEF OpeningInv, CatalogueTypeOK
<1>5. LinesFit'
  BY <1>2, <1>3 DEF OpeningInv, LinesFit, LinesOf
<1>6. opened' \in [Bins -> Int] /\ moved' \in [Bins -> Int] /\ inStock' \in [Bins -> Int]
  BY <1>2 DEF OpeningInv, StockFits
<1>7. StockAdds => StockAdds'
  BY <1>2 DEF OpeningInv, StockFits, StockAdds
<1>8. traced' \subseteq There' \X (Present' \cap Locations)
  <2>1. ASSUME NEW x \in traced' PROVE x \in There' \X (Present' \cap Locations)
    <3>1. x \in There \X (Present \cap Locations) /\ x \notin {i} \X Locations
      BY <1>2, <2>1 DEF OpeningInv, StockFits
    <3>2. x[1] # i
      BY <3>1
    <3>3. QED
      BY <1>3, <3>1, <3>2
  <2>2. QED
    BY <2>1
<1>9. QED
  BY <1>4, <1>5, <1>6, <1>7, <1>8 DEF StockFits

-----------------------------------------------------------------------------
(* Requests: what begins one, what goes on with one, and the rest.         *)

TaskStarts(r) ==
  \/ \E i \in Items, data \in Edits : CreateItem(r, i, data) \/ UpdateItem(r, i, data)
  \/ \E i \in Items, asOpening \in BOOLEAN : ConfirmImport(r, i, asOpening)
  \/ \E i \in Items : DeleteItem(r, i)
  \/ \E e \in Entries : DeleteEntry(r, e)
  \/ EnableStage(r) \/ Finalize(r) \/ \E d \in Docs : PostDocument(r, d)

TaskGoesOn(r) ==
  \/ WriteCreate(r) \/ WriteUpdate(r) \/ WriteImport(r) \/ WriteDeleteItem(r)
  \/ WriteDeleteEntry(r) \/ WriteEnable(r) \/ ClearSnapshot(r)
  \/ FinalizeReads(r) \/ WriteFinalize(r) \/ WritePost(r) \/ Refuse(r)

Outside ==
  \/ \E sheet \in Sheets : ParseImportFile(sheet)
  \/ ForgetPreview \/ Maintain
  \/ \E value \in {"OPEN", "LOCKED"} : SetAllow(value)
  \/ \E i \in Items, l \in Locations, q \in Drafted : DraftDocument(i, l, q)
  \/ \E i \in Items, l \in Locations, q \in {-1, 1} : OtherMovement(i, l, q)

LEMMA OpeningActs ==
  ASSUME OpeningNext
  PROVE  Outside \/ \E r \in Tasks : TaskStarts(r) \/ TaskGoesOn(r)
<1>1. ASSUME NEW r \in Tasks,
             \/ \E i \in Items, data \in Edits : CreateItem(r, i, data) \/ UpdateItem(r, i, data)
             \/ \E i \in Items, asOpening \in BOOLEAN : ConfirmImport(r, i, asOpening)
             \/ \E i \in Items : DeleteItem(r, i)
             \/ \E e \in Entries : DeleteEntry(r, e)
             \/ EnableStage(r) \/ Finalize(r) \/ (\E d \in Docs : PostDocument(r, d))
             \/ WriteCreate(r) \/ WriteUpdate(r) \/ WriteImport(r) \/ WriteDeleteItem(r)
             \/ WriteDeleteEntry(r) \/ WriteEnable(r) \/ ClearSnapshot(r)
             \/ FinalizeReads(r) \/ WriteFinalize(r) \/ WritePost(r) \/ Refuse(r)
      PROVE  TaskStarts(r) \/ TaskGoesOn(r)
  BY <1>1 DEF TaskStarts, TaskGoesOn
<1>2. QED
  BY <1>1 DEF OpeningNext, Outside

\* What a request may be begun with.
Sensible(kind, on, data, qty) ==
  /\ kind \in Kinds \ {None} /\ IsColumns(data) /\ IsQuantities(qty)
  /\ kind \in {"create", "update", "import", "delete item"} => on \in Items
  /\ kind = "delete entry" => on \in Entries
  /\ kind = "post" => on \in Docs

LEMMA StartsBegin ==
  ASSUME OpeningInv, NEW r \in Tasks, TaskStarts(r)
  PROVE  /\ UNCHANGED preview
         /\ \E kind, on, data, qty : Begin(r, kind, on, data, qty) /\ Sensible(kind, on, data, qty)
                                     /\ (kind = "delete entry" => MayDelete(on, Used))
<1>1. ASSUME NEW i \in Items, NEW data \in Edits, CreateItem(r, i, data) \/ UpdateItem(r, i, data)
      PROVE  UNCHANGED preview /\ (Begin(r, "create", i, data, NoQty) \/ Begin(r, "update", i, data, NoQty))
             /\ Sensible("create", i, data, NoQty) /\ Sensible("update", i, data, NoQty)
  BY <1>1, NoLines, OpeningAssumption DEF CreateItem, UpdateItem, Sensible, Kinds, None
<1>2. ASSUME NEW i \in Items, NEW asOpening \in BOOLEAN, ConfirmImport(r, i, asOpening)
      PROVE  UNCHANGED preview /\ \E data, qty : Begin(r, "import", i, data, qty) /\ Sensible("import", i, data, qty)
  <2>1. IsColumns(preview.data) /\ IsQuantities(preview.qty)
    BY DEF OpeningInv, PreviewFits
  <2>2. UNCHANGED preview
    BY <1>2 DEF ConfirmImport
  <2>3. CASE Begin(r, "import", i, preview.data, NoQty)
    BY <2>1, <2>2, <2>3, NoLines DEF Sensible, Kinds, None
  <2>4. ASSUME NEW l \in DOMAIN preview.qty,
               Begin(r, "import", i, StoredAt(l, preview.data), IF asOpening THEN preview.qty ELSE NoQty)
        PROVE  \E data, qty : Begin(r, "import", i, data, qty) /\ Sensible("import", i, data, qty)
    <3>1. l \in Locations
      BY <2>1 DEF IsQuantities
    <3>2. IsColumns(StoredAt(l, preview.data))
      BY <2>1, <3>1 DEF IsColumns, StoredAt
    <3>3. IsQuantities(IF asOpening THEN preview.qty ELSE NoQty)
      BY <2>1, NoLines
    <3>4. Sensible("import", i, StoredAt(l, preview.data), IF asOpening THEN preview.qty ELSE NoQty)
      BY <3>2, <3>3 DEF Sensible, Kinds, None
    <3>5. QED
      BY <2>4, <3>4
  <2>5. QED
    BY <1>2, <2>2, <2>3, <2>4 DEF ConfirmImport
<1>3. ASSUME NEW i \in Items, DeleteItem(r, i)
      PROVE  UNCHANGED preview /\ Begin(r, "delete item", i, NoData, NoQty) /\ Sensible("delete item", i, NoData, NoQty)
  BY <1>3, NoLines DEF DeleteItem, Sensible, Kinds, None
<1>4. ASSUME NEW e \in Entries, DeleteEntry(r, e)
      PROVE  UNCHANGED preview /\ Begin(r, "delete entry", e, NoData, NoQty) /\ Sensible("delete entry", e, NoData, NoQty)
             /\ MayDelete(e, Used)
  BY <1>4, NoLines DEF DeleteEntry, Sensible, Kinds, None
<1>5. ASSUME EnableStage(r) \/ Finalize(r)
      PROVE  /\ UNCHANGED preview
             /\ Begin(r, "enable", None, NoData, NoQty) \/ Begin(r, "finalize", None, NoData, NoQty)
             /\ Sensible("enable", None, NoData, NoQty) /\ Sensible("finalize", None, NoData, NoQty)
  BY <1>5, NoLines DEF EnableStage, Finalize, Sensible, Kinds, None
<1>6. ASSUME UNCHANGED preview, NEW kind, NEW on, NEW data, NEW qty, kind # "delete entry",
             Begin(r, kind, on, data, qty), Sensible(kind, on, data, qty)
      PROVE  \E k, o, d, q : Begin(r, k, o, d, q) /\ Sensible(k, o, d, q) /\ (k = "delete entry" => MayDelete(o, Used))
  BY <1>6
<1>7. "create" # "delete entry" /\ "update" # "delete entry" /\ "import" # "delete entry"
      /\ "delete item" # "delete entry" /\ "enable" # "delete entry" /\ "finalize" # "delete entry" /\ "post" # "delete entry"
  OBVIOUS
<1>8. CASE \E i \in Items, data \in Edits : CreateItem(r, i, data) \/ UpdateItem(r, i, data)
  <2>1. PICK i \in Items, data \in Edits : CreateItem(r, i, data) \/ UpdateItem(r, i, data)
    BY <1>8
  <2>2. UNCHANGED preview /\ (Begin(r, "create", i, data, NoQty) \/ Begin(r, "update", i, data, NoQty))
        /\ Sensible("create", i, data, NoQty) /\ Sensible("update", i, data, NoQty)
    BY <1>1, <2>1
  <2>3. QED
    BY <1>6, <1>7, <2>2
<1>9. CASE \E i \in Items, asOpening \in BOOLEAN : ConfirmImport(r, i, asOpening)
  <2>1. PICK i \in Items, asOpening \in BOOLEAN : ConfirmImport(r, i, asOpening)
    BY <1>9
  <2>2. UNCHANGED preview /\ \E data, qty : Begin(r, "import", i, data, qty) /\ Sensible("import", i, data, qty)
    BY <1>2, <2>1
  <2>3. QED
    BY <1>6, <1>7, <2>2
<1>10. CASE \E i \in Items : DeleteItem(r, i)
  <2>1. PICK i \in Items : DeleteItem(r, i)
    BY <1>10
  <2>2. QED
    BY <1>3, <1>6, <1>7, <2>1
<1>11. CASE \E e \in Entries : DeleteEntry(r, e)
  <2>1. PICK e \in Entries : DeleteEntry(r, e)
    BY <1>11
  <2>2. UNCHANGED preview /\ Begin(r, "delete entry", e, NoData, NoQty) /\ Sensible("delete entry", e, NoData, NoQty)
        /\ MayDelete(e, Used)
    BY <1>4, <2>1
  <2>3. QED
    BY <2>2
<1>12. CASE EnableStage(r) \/ Finalize(r)
  BY <1>5, <1>6, <1>7, <1>12
<1>13. CASE \E d \in Docs : PostDocument(r, d)
  <2>1. PICK d \in Docs : PostDocument(r, d)
    BY <1>13
  <2>2. UNCHANGED preview /\ Begin(r, "post", d, NoData, NoQty) /\ Sensible("post", d, NoData, NoQty)
    BY <2>1, NoLines DEF PostDocument, Sensible, Kinds, None
  <2>3. QED
    BY <1>6, <1>7, <2>2
<1>14. QED
  BY <1>8, <1>9, <1>10, <1>11, <1>12, <1>13 DEF TaskStarts

LEMMA TaskGoes ==
  ASSUME TasksFit, NEW r \in Tasks, NEW s \in TaskSteps, NEW j, TaskFits(s, j),
         taskPc' = [taskPc EXCEPT ![r] = s], task' = [task EXCEPT ![r] = j]
  PROVE  /\ TasksFit' /\ taskPc'[r] = s /\ task'[r] = j
         /\ \A q \in Tasks : q # r => taskPc'[q] = taskPc[q] /\ task'[q] = task[q]
<1>1. /\ taskPc' \in [Tasks -> TaskSteps] /\ taskPc'[r] = s
      /\ \A q \in Tasks : q # r => taskPc'[q] = taskPc[q]
  BY DEF TasksFit
<1>2. /\ task' = [q \in Tasks |-> task'[q]] /\ task'[r] = j
      /\ \A q \in Tasks : q # r => task'[q] = task[q]
  BY DEF TasksFit
<1>3. ASSUME NEW q \in Tasks PROVE TaskFits(taskPc'[q], task'[q])
  <2>1. CASE q = r
    BY <1>1, <1>2, <2>1
  <2>2. CASE q # r
    BY <1>1, <1>2, <2>2 DEF TasksFit
  <2>3. QED
    BY <2>1, <2>2
<1>4. QED
  BY <1>1, <1>2, <1>3 DEF TasksFit

LEMMA TaskDone ==
  ASSUME TasksFit, NEW r \in Tasks, Done(r)
  PROVE  /\ TasksFit' /\ taskPc'[r] = "idle"
         /\ \A q \in Tasks : q # r => taskPc'[q] = taskPc[q] /\ task'[q] = task[q]
<1>1. TaskFits("idle", NoTask) /\ "idle" \in TaskSteps
  BY DEF TaskFits, NoTask, Kinds, TaskSteps, NoStock
<1>2. taskPc' = [taskPc EXCEPT ![r] = "idle"] /\ task' = [task EXCEPT ![r] = NoTask]
  BY DEF Done, Goes
<1>3. QED
  BY <1>1, <1>2, TaskGoes

LEMMA TaskBegins ==
  ASSUME OpeningInv, NEW r \in Tasks, NEW kind, NEW on, NEW data, NEW qty,
         Begin(r, kind, on, data, qty), Sensible(kind, on, data, qty), UNCHANGED preview
  PROVE  /\ OpeningInv' /\ taskPc[r] = "idle" /\ taskPc'[r] = "write" /\ task'[r] = Finds(kind, on, data, qty)
         /\ UNCHANGED <<catalogueRows, stageRows, draftRows, stockRows>>
<1>1. /\ taskPc[r] = "idle" /\ changes < MaxChanges /\ changes' = changes + 1
      /\ task' = [task EXCEPT ![r] = Finds(kind, on, data, qty)]
      /\ taskPc' = [taskPc EXCEPT ![r] = "write"]
      /\ UNCHANGED <<catalogueRows, stageRows, draftRows, stockRows>>
  BY DEF Begin, Goes
<1> DEFINE j == Finds(kind, on, data, qty)
<1>2. LinesFit /\ StageFits /\ TasksFit
  BY DEF OpeningInv
<1>3. /\ j.kind = kind /\ j.on = on /\ j.data = data /\ j.qty = qty /\ j.open = Drafts /\ j.seen = DraftLines
      /\ j.stamp = changes + 1 /\ j.stock = inStock
  BY DEF Finds
<1>4. Drafts \subseteq Docs /\ DraftLines \subseteq ObLine /\ \A n \in DraftLines : n.doc \in Drafts
  BY <1>2 DEF Drafts, DraftLines, LinesFit
<1>5. changes + 1 \in Nat /\ changes' \in 0..MaxChanges
  BY <1>1, <1>2, OpeningAssumption DEF StageFits
<1> HIDE DEF j
<1>6. TaskFits("write", j) /\ "write" \in TaskSteps
  BY <1>3, <1>4, <1>5 DEF TaskFits, Sensible, TaskSteps, OpeningInv, StockFits
<1>7. TasksFit' /\ taskPc'[r] = "write" /\ task'[r] = j
  BY <1>1, <1>2, <1>6, TaskGoes DEF j
<1>8. There' = There /\ Present' = Present /\ UNCHANGED <<shelf, below, item, allow, snapshot>>
  BY <1>1 DEF catalogueRows, stageRows, There, Present
<1>9. CatalogueTypeOK'
  BY <1>8 DEF OpeningInv, CatalogueTypeOK
<1>10. LinesFit' /\ StockFits'
  BY <1>1, <1>8, LinesUntouched, StockUntouched DEF OpeningInv
<1>11. StageFits'
  BY <1>5, <1>8 DEF OpeningInv, StageFits
<1>12. PreviewFits'
  BY DEF OpeningInv, PreviewFits
<1>13. QED
  BY <1>1, <1>7, <1>9, <1>10, <1>11, <1>12 DEF OpeningInv, j

-----------------------------------------------------------------------------
(* The transactions.                                                       *)

LEMMA RowsSame ==
  ASSUME UNCHANGED catalogueRows
  PROVE  There' = There /\ Present' = Present /\ (CatalogueTypeOK => CatalogueTypeOK')
<1>1. UNCHANGED <<shelf, below, item>>
  BY DEF catalogueRows
<1>2. There' = There /\ Present' = Present
  BY <1>1 DEF There, Present
<1>3. QED
  BY <1>1, <1>2 DEF CatalogueTypeOK

\* The item of a request is written, and its lines are as they must be.
LEMMA RowWritten ==
  ASSUME OpeningInv, NEW r \in Tasks, NEW i \in Items, NEW new \in ItemRow, new.there, KeysHold(new),
         item' = [item EXCEPT ![i] = new], UNCHANGED <<shelf, below, stageRows, stockRows, preview, changes>>,
         Done(r),
         There \subseteq There' /\ Present \subseteq Present' /\ i \in There' /\ Present' = Present => LinesFit'
  PROVE  OpeningInv'
<1>1. CatalogueTypeOK' /\ Present' = Present /\ There' = There \cup {i}
  BY RowFits DEF OpeningInv
<1>2. LinesFit'
  BY <1>1
<1>3. StockFits'
  BY <1>1, StockUntouched DEF OpeningInv
<1>4. TasksFit'
  BY TaskDone DEF OpeningInv
<1>5. StageFits' /\ PreviewFits'
  BY DEF OpeningInv, StageFits, PreviewFits, stageRows
<1>6. QED
  BY <1>1, <1>2, <1>3, <1>4, <1>5 DEF OpeningInv

LEMMA CreateWritten ==
  ASSUME OpeningInv, NEW r \in Tasks, WriteCreate(r)
  PROVE  OpeningInv'
<1> DEFINE j == task[r]
           row == Written(j.data, NoItem)
<1>1. TaskFits("write", j) /\ j.kind = "create"
  BY DEF OpeningInv, TasksFit, WriteCreate
<1>2. j.on \in Items /\ IsColumns(j.data)
  BY <1>1 DEF TaskFits
<1>3. row \in ItemRow /\ row.there
  BY <1>2, NoRow, RowIsWritten
<1>4. /\ KeysHold(row) /\ item' = [item EXCEPT ![j.on] = row] /\ Done(r)
      /\ UNCHANGED <<shelf, below, stageRows, stockRows, preview, changes>>
      /\ Opens(j.data) => row.store # None
      /\ IF Opens(j.data) THEN Enter(r, j.on, [l \in {row.store} |-> j.data["opening"]], row.price)
                          ELSE UNCHANGED draftRows
  BY DEF WriteCreate, KeepDrafts
<1> HIDE DEF j, row
<1>5. ASSUME There \subseteq There', Present \subseteq Present', j.on \in There', Present' = Present PROVE LinesFit'
  <2>1. CASE Opens(j.data)
    <3> DEFINE qty == [l \in {row.store} |-> j.data["opening"]]
    <3>1. row.store \in Locations /\ row.store \in Present /\ row.price \in Nat
      BY <1>3, <1>4, <2>1 DEF ItemRow, KeysHold
    <3>2. j.data["opening"] \in Nat \ {0}
      BY <1>2, <2>1 DEF Opens, Has, IsColumns
    <3>3. DOMAIN qty = {row.store} /\ IsQuantities(qty)
      BY <3>1, <3>2 DEF IsQuantities
    <3>4. Enter(r, j.on, qty, row.price)
      BY <1>4, <2>1
    <3> HIDE DEF qty
    <3>5. QED
      BY <1>2, <1>5, <3>1, <3>3, <3>4, Entered
  <2>2. CASE ~Opens(j.data)
    BY <1>4, <1>5, <2>2, LinesUntouched
  <2>3. QED
    BY <2>1, <2>2
<1>6. QED
  BY <1>2, <1>3, <1>4, <1>5, RowWritten

LEMMA UpdateWritten ==
  ASSUME OpeningInv, NEW r \in Tasks, WriteUpdate(r)
  PROVE  OpeningInv'
<1> DEFINE j == task[r]
           row == Written(j.data, item[j.on])
<1>1. TaskFits("write", j) /\ j.kind = "update"
  BY DEF OpeningInv, TasksFit, WriteUpdate
<1>2. j.on \in Items /\ IsColumns(j.data)
  BY <1>1 DEF TaskFits
<1>3. row \in ItemRow /\ row.there
  BY <1>2, RowIsWritten DEF OpeningInv, CatalogueTypeOK
<1>4. /\ KeysHold(row) /\ item' = [item EXCEPT ![j.on] = row] /\ Done(r)
      /\ UNCHANGED <<shelf, below, stageRows, stockRows, preview, changes>>
      /\ Has(j.data, "opening") => row.store # None
      /\ IF Has(j.data, "opening") THEN EnterTotal(r, j.on, row, j.data["opening"])
         ELSE Reprice(j.on, row.price) \/ UNCHANGED draftRows
  BY DEF WriteUpdate, KeepDrafts
<1> HIDE DEF j, row
<1>5. ASSUME There \subseteq There', Present \subseteq Present', j.on \in There', Present' = Present PROVE LinesFit'
  <2>1. CASE Has(j.data, "opening")
    <3>1. row.store \in Locations \cap Present'
      BY <1>3, <1>4, <1>5, <2>1 DEF ItemRow, KeysHold
    <3>2. j.data["opening"] \in Nat
      BY <1>2, <2>1 DEF Has, IsColumns
    <3>3. QED
      BY <1>2, <1>3, <1>4, <1>5, <2>1, <3>1, <3>2, TotalEntered
  <2>2. CASE ~Has(j.data, "opening")
    <3>1. row.price \in Nat
      BY <1>3 DEF ItemRow
    <3>2. QED
      BY <1>4, <1>5, <2>2, <3>1, LinesUntouched, LinesRepriced
  <2>3. QED
    BY <2>1, <2>2
<1>6. QED
  BY <1>2, <1>3, <1>4, <1>5, RowWritten

LEMMA ImportWritten ==
  ASSUME OpeningInv, NEW r \in Tasks, WriteImport(r)
  PROVE  OpeningInv'
<1> DEFINE j == task[r]
           old == item[j.on]
           row == Written(Imported(j.data, old), old)
<1>1. TaskFits("write", j) /\ j.kind = "import"
  BY DEF OpeningInv, TasksFit, WriteImport
<1>2. j.on \in Items /\ IsColumns(j.data) /\ IsQuantities(j.qty)
  BY <1>1 DEF TaskFits
<1>3. row \in ItemRow /\ row.there
  <2>1. old \in ItemRow
    BY <1>2 DEF OpeningInv, CatalogueTypeOK
  <2>2. QED
    BY <1>2, <2>1, ColumnsImported, RowIsWritten
<1>4. /\ KeysHold(row) /\ item' = [item EXCEPT ![j.on] = row] /\ Done(r)
      /\ UNCHANGED <<shelf, below, stageRows, stockRows, preview, changes>>
      /\ DOMAIN j.qty \subseteq Present
      /\ Enter(r, j.on, j.qty, row.price) \/ UNCHANGED draftRows
  BY DEF WriteImport, KeepDrafts
<1> HIDE DEF j, old, row
<1>5. ASSUME There \subseteq There', Present \subseteq Present', j.on \in There', Present' = Present PROVE LinesFit'
  <2>1. CASE Enter(r, j.on, j.qty, row.price)
    <3>1. row.price \in Nat /\ DOMAIN j.qty \subseteq Present'
      BY <1>3, <1>4, <1>5 DEF ItemRow
    <3>2. QED
      BY <1>2, <1>5, <2>1, <3>1, Entered
  <2>2. CASE UNCHANGED draftRows
    BY <1>5, <2>2, LinesUntouched
  <2>3. QED
    BY <1>4, <2>1, <2>2
<1>6. QED
  BY <1>2, <1>3, <1>4, <1>5, RowWritten

LEMMA EntryDeleted ==
  ASSUME OpeningInv, NEW r \in Tasks, WriteDeleteEntry(r)
  PROVE  OpeningInv'
<1> DEFINE e == task[r].on
<1>1. e \in Entries
  BY DEF OpeningInv, TasksFit, TaskFits, WriteDeleteEntry
<1>2. /\ Erase(e) /\ ~Restricted(e, Used) /\ Done(r)
      /\ UNCHANGED <<stageRows, draftRows, stockRows, preview, changes>>
  BY DEF WriteDeleteEntry
<1> HIDE DEF e
<1>3. CatalogueTypeOK' /\ Present' = Present \ {e} /\ There' = There
  BY <1>1, <1>2, EntryErased DEF OpeningInv
<1>4. (\A n \in obLines : n.loc # e) /\ \A x \in traced : x[2] # e
  BY <1>2 DEF Restricted, Used
<1>5. LinesFit'
  BY <1>2, <1>3, <1>4 DEF OpeningInv, LinesFit, draftRows
<1>6. StockFits'
  <2>1. UNCHANGED <<opened, moved, inStock, traced>>
    BY <1>2 DEF stockRows
  <2>2. traced \subseteq There' \X (Present' \cap Locations)
    <3>1. ASSUME NEW x \in traced PROVE x \in There' \X (Present' \cap Locations)
      <4>1. x \in There \X (Present \cap Locations) /\ x[2] # e
        BY <1>4 DEF OpeningInv, StockFits
      <4>2. QED
        BY <1>3, <4>1
    <3>2. QED
      BY <3>1
  <2>3. QED
    BY <2>1, <2>2 DEF OpeningInv, StockFits
<1>7. TasksFit'
  BY <1>2, TaskDone DEF OpeningInv
<1>8. StageFits' /\ PreviewFits'
  BY <1>2 DEF OpeningInv, StageFits, PreviewFits, stageRows
<1>9. QED
  BY <1>3, <1>5, <1>6, <1>7, <1>8 DEF OpeningInv

LEMMA ItemDeleted ==
  ASSUME OpeningInv, NEW r \in Tasks, WriteDeleteItem(r)
  PROVE  OpeningInv'
<1>1. CatalogueTypeOK' /\ LinesFit' /\ StockFits'
  BY ItemErased
<1>2. Done(r) /\ UNCHANGED <<stageRows, preview, changes>>
  BY DEF WriteDeleteItem
<1>3. TasksFit'
  BY <1>2, TaskDone DEF OpeningInv
<1>4. StageFits' /\ PreviewFits'
  BY <1>2 DEF OpeningInv, StageFits, PreviewFits, stageRows
<1>5. QED
  BY <1>1, <1>3, <1>4 DEF OpeningInv

LEMMA StageWritten ==
  ASSUME OpeningInv, NEW r \in Tasks, WriteEnable(r) \/ ClearSnapshot(r) \/ FinalizeReads(r) \/ Refuse(r)
  PROVE  OpeningInv'
<1>1. UNCHANGED <<catalogueRows, draftRows, stockRows, preview, changes>>
  BY DEF WriteEnable, ClearSnapshot, FinalizeReads, Refuse, Fails, stageRows
<1>2. CatalogueTypeOK' /\ There' = There /\ Present' = Present
  BY <1>1, RowsSame DEF OpeningInv
<1>3. LinesFit' /\ StockFits'
  BY <1>1, <1>2, LinesUntouched, StockUntouched DEF OpeningInv
<1>4. PreviewFits'
  BY <1>1 DEF OpeningInv, PreviewFits
<1>5. TasksFit'
  <2>1. TasksFit /\ LinesFit /\ TaskFits(taskPc[r], task[r])
    BY DEF OpeningInv, TasksFit
  <2>2. CASE WriteEnable(r)
    <3>1. TaskFits("clear", task[r]) /\ "clear" \in TaskSteps
      BY <2>1 DEF TaskFits, TaskSteps
    <3>2. taskPc' = [taskPc EXCEPT ![r] = "clear"] /\ task' = [task EXCEPT ![r] = task[r]]
      BY <2>1, <2>2 DEF WriteEnable, Goes, TasksFit
    <3>3. QED
      BY <2>1, <3>1, <3>2, TaskGoes
  <2>3. CASE ClearSnapshot(r) \/ Refuse(r)
    <3>1. Done(r)
      BY <2>3 DEF ClearSnapshot, Refuse, Fails
    <3>2. QED
      BY <2>1, <3>1, TaskDone
  <2>4. CASE FinalizeReads(r)
    <3> DEFINE j == Finds("finalize", None, NoData, NoQty)
    <3>1. /\ taskPc' = [taskPc EXCEPT ![r] = "post"] /\ task' = [task EXCEPT ![r] = j]
      BY <2>4 DEF FinalizeReads, Goes
    <3>2. Drafts \subseteq Docs /\ DraftLines \subseteq ObLine /\ \A n \in DraftLines : n.doc \in Drafts
      BY <2>1 DEF Drafts, DraftLines, LinesFit
    <3>3. /\ j.kind = "finalize" /\ j.stamp = changes + 1 /\ j.open = Drafts /\ j.seen = DraftLines
          /\ j.stock = inStock /\ inStock \in [Bins -> Int]
      BY DEF Finds, OpeningInv, StockFits
    <3>4. changes + 1 \in Nat
      BY OpeningAssumption DEF OpeningInv, StageFits
    <3>5. TaskFits("post", j) /\ "post" \in TaskSteps
      <4> HIDE DEF j
      <4>1. QED
        BY <3>2, <3>3, <3>4 DEF TaskFits, TaskSteps, Kinds
    <3> HIDE DEF j
    <3>6. QED
      BY <2>1, <3>1, <3>5, TaskGoes
  <2>5. QED
    BY <2>2, <2>3, <2>4
<1>6. StageFits'
  <2>1. allow' \in {None, "OPEN", "LOCKED"}
    BY DEF OpeningInv, StageFits, WriteEnable, ClearSnapshot, FinalizeReads, Refuse, Fails, stageRows
  <2>2. snapshot' \in BOOLEAN
    BY DEF OpeningInv, StageFits, WriteEnable, ClearSnapshot, FinalizeReads, Refuse, Fails, stageRows
  <2>3. QED
    BY <1>1, <2>1, <2>2 DEF OpeningInv, StageFits
<1>7. QED
  BY <1>2, <1>3, <1>4, <1>5, <1>6 DEF OpeningInv

LEMMA FinalizeWritten ==
  ASSUME OpeningInv, NEW r \in Tasks, WriteFinalize(r)
  PROVE  OpeningInv'
<1> DEFINE S == task[r].seen
<1>1. /\ \A n \in S : item[n.item].there /\ shelf[n.loc] # None
      /\ Book(r, S) /\ docs' = [d \in Docs |-> IF d \in task[r].open THEN "POSTED" ELSE docs[d]]
      /\ allow' = "LOCKED" /\ snapshot' = TRUE /\ Done(r)
      /\ UNCHANGED <<catalogueRows, obLines, preview, changes>>
  BY DEF WriteFinalize
<1>2. CatalogueTypeOK' /\ There' = There /\ Present' = Present
  BY <1>1, RowsSame DEF OpeningInv
<1>3. S \in SUBSET ObLine /\ task[r].stock \in [Bins -> Int]
  BY DEF OpeningInv, TasksFit, TaskFits
<1>4. Fitting(S)
  BY <1>1, <1>2, <1>3 DEF Fitting, There, Present, ObLine, Entries
<1> HIDE DEF S
<1>5. StockFits'
  BY <1>1, <1>2, <1>3, <1>4, Booked DEF OpeningInv
<1>6. LinesFit'
  <2>1. docs' \in [Docs -> {None, "DRAFT", "POSTED"}]
    BY <1>1 DEF OpeningInv, LinesFit
  <2>2. \A n \in obLines : docs'[n.doc] # None
    BY <1>1 DEF OpeningInv, LinesFit, ObLine, None
  <2>3. QED
    BY <1>1, <1>2, <2>1, <2>2 DEF OpeningInv, LinesFit
<1>7. TasksFit'
  BY <1>1, TaskDone DEF OpeningInv
<1>8. StageFits'
  <2>1. allow' \in {None, "OPEN", "LOCKED"} /\ changes' = changes
    BY <1>1
  <2>2. snapshot' \in BOOLEAN
    BY <1>1
  <2>3. QED
    BY <2>1, <2>2 DEF OpeningInv, StageFits
<1>9. PreviewFits'
  BY <1>1 DEF OpeningInv, PreviewFits
<1>10. QED
  BY <1>2, <1>5, <1>6, <1>7, <1>8, <1>9 DEF OpeningInv

LEMMA PostWritten ==
  ASSUME OpeningInv, NEW r \in Tasks, WritePost(r)
  PROVE  OpeningInv'
<1> DEFINE S == {n \in task[r].seen : n.doc = task[r].on}
<1>1. /\ \A n \in S : item[n.item].there /\ shelf[n.loc] # None
      /\ Book(r, S) /\ docs' = [docs EXCEPT ![task[r].on] = "POSTED"] /\ Done(r)
      /\ UNCHANGED <<catalogueRows, stageRows, obLines, preview, changes>>
  BY DEF WritePost
<1>2. CatalogueTypeOK' /\ There' = There /\ Present' = Present
  BY <1>1, RowsSame DEF OpeningInv
<1>3. S \in SUBSET ObLine /\ task[r].stock \in [Bins -> Int]
  BY DEF OpeningInv, TasksFit, TaskFits
<1>4. Fitting(S)
  BY <1>1, <1>2, <1>3 DEF Fitting, There, Present, ObLine, Entries
<1> HIDE DEF S
<1>5. StockFits'
  BY <1>1, <1>2, <1>3, <1>4, Booked DEF OpeningInv
<1>6. LinesFit'
  <2>1. docs' \in [Docs -> {None, "DRAFT", "POSTED"}]
    BY <1>1 DEF OpeningInv, LinesFit
  <2>2. \A n \in obLines : docs'[n.doc] # None
    BY <1>1 DEF OpeningInv, LinesFit, ObLine, None
  <2>3. QED
    BY <1>1, <1>2, <2>1, <2>2 DEF OpeningInv, LinesFit
<1>7. TasksFit'
  BY <1>1, TaskDone DEF OpeningInv
<1>8. StageFits' /\ PreviewFits'
  BY <1>1 DEF OpeningInv, StageFits, PreviewFits, stageRows
<1>9. QED
  BY <1>2, <1>5, <1>6, <1>7, <1>8 DEF OpeningInv

-----------------------------------------------------------------------------
(* What is no request with a reading behind it.                            *)

LEMMA OutsideWaits ==
  ASSUME Outside
  PROVE  UNCHANGED <<taskPc, task>>
<1>1. CASE Maintain
  BY <1>1 DEF Maintain
<1>2. CASE \/ \E sheet \in Sheets : ParseImportFile(sheet)
           \/ ForgetPreview
           \/ \E value \in {"OPEN", "LOCKED"} : SetAllow(value)
  BY <1>2 DEF ParseImportFile, ForgetPreview, SetAllow
<1>3. CASE \/ \E i \in Items, l \in Locations, q \in Drafted : DraftDocument(i, l, q)
           \/ \E i \in Items, l \in Locations, q \in {-1, 1} : OtherMovement(i, l, q)
  BY <1>3 DEF DraftDocument, OtherMovement
<1>4. QED
  BY <1>1, <1>2, <1>3 DEF Outside

LEMMA WaitingFits ==
  ASSUME OpeningInv, UNCHANGED <<taskPc, task>>
  PROVE  TasksFit'
BY DEF OpeningInv, TasksFit

LEMMA ChangeCounted ==
  ASSUME OpeningInv, changes < MaxChanges, changes' = changes + 1
  PROVE  changes' \in 0..MaxChanges /\ changes' \in Nat
BY OpeningAssumption DEF OpeningInv, StageFits

LEMMA PreviewKept ==
  ASSUME OpeningInv, ForgetPreview \/ \E sheet \in Sheets : ParseImportFile(sheet)
  PROVE  OpeningInv'
<1>1. UNCHANGED <<catalogueRows, stageRows, draftRows, stockRows, changes, taskPc, task>>
  BY DEF ForgetPreview, ParseImportFile
<1>2. PreviewFits'
  <2>1. CASE ForgetPreview
    BY <2>1, NoLines DEF ForgetPreview, PreviewFits, NoPreview
  <2>2. ASSUME NEW sheet \in Sheets, ParseImportFile(sheet) PROVE PreviewFits'
    BY <2>2, OpeningAssumption DEF ParseImportFile, PreviewFits
  <2>3. QED
    BY <2>1, <2>2
<1>3. CatalogueTypeOK' /\ There' = There /\ Present' = Present
  BY <1>1, RowsSame DEF OpeningInv
<1>4. LinesFit' /\ StockFits' /\ TasksFit'
  BY <1>1, <1>3, LinesUntouched, StockUntouched, WaitingFits DEF OpeningInv
<1>5. StageFits'
  BY <1>1 DEF OpeningInv, StageFits, stageRows
<1>6. QED
  BY <1>2, <1>3, <1>4, <1>5 DEF OpeningInv

LEMMA MaintainKept ==
  ASSUME OpeningInv, Maintain
  PROVE  OpeningInv'
<1>1. /\ changes < MaxChanges /\ changes' = changes + 1
      /\ UNCHANGED <<stageRows, draftRows, stockRows, preview, taskPc, task>>
  BY DEF Maintain
<1>2. CatalogueTypeOK' /\ There' = There /\ Present \subseteq Present'
  BY Maintained DEF OpeningInv
<1>3. LinesFit' /\ StockFits' /\ TasksFit'
  BY <1>1, <1>2, LinesUntouched, StockUntouched, WaitingFits DEF OpeningInv
<1>4. StageFits' /\ PreviewFits'
  BY <1>1, ChangeCounted DEF OpeningInv, StageFits, PreviewFits, stageRows
<1>5. QED
  BY <1>2, <1>3, <1>4 DEF OpeningInv

LEMMA AllowKept ==
  ASSUME OpeningInv, NEW value \in {"OPEN", "LOCKED"}, SetAllow(value)
  PROVE  OpeningInv'
<1>1. /\ changes < MaxChanges /\ changes' = changes + 1 /\ allow' = value
      /\ UNCHANGED <<catalogueRows, snapshot, draftRows, stockRows, preview, taskPc, task>>
  BY DEF SetAllow
<1>2. CatalogueTypeOK' /\ There' = There /\ Present' = Present
  BY <1>1, RowsSame DEF OpeningInv
<1>3. LinesFit' /\ StockFits' /\ TasksFit'
  BY <1>1, <1>2, LinesUntouched, StockUntouched, WaitingFits DEF OpeningInv
<1>4. StageFits' /\ PreviewFits'
  <2>1. allow' \in {None, "OPEN", "LOCKED"}
    BY <1>1
  <2>2. QED
    BY <1>1, <2>1, ChangeCounted DEF OpeningInv, StageFits, PreviewFits
<1>5. QED
  BY <1>2, <1>3, <1>4 DEF OpeningInv

LEMMA DraftKept ==
  ASSUME OpeningInv, NEW i \in Items, NEW l \in Locations, NEW q \in Drafted, DraftDocument(i, l, q)
  PROVE  OpeningInv'
<1> DEFINE new == {Line(Least(Unused), i, l, q, item[i].price, changes + 1)}
<1>1. /\ changes < MaxChanges /\ changes' = changes + 1 /\ item[i].there /\ shelf[l] # None
      /\ Replace({}, new, obLines) /\ Unused # {}
      /\ UNCHANGED <<catalogueRows, stageRows, stockRows, preview, taskPc, task>>
  BY DEF DraftDocument
<1>2. CatalogueTypeOK' /\ There' = There /\ Present' = Present
  BY <1>1, RowsSame DEF OpeningInv
<1>3. changes' \in 0..MaxChanges /\ changes + 1 \in Nat
  BY <1>1, ChangeCounted
<1>4. Least(Unused) \in Docs /\ item[i].price \in Nat
  <2>1. Unused \in SUBSET Docs
    BY DEF Unused
  <2>2. QED
    BY <1>1, <2>1, OldestIsThere DEF OpeningInv, CatalogueTypeOK, ItemRow
<1>5. i \in There' /\ l \in Present'
  BY <1>1, <1>2 DEF There, Present, Entries
<1>6. new \in SUBSET NewLine /\ Fitting(new)
  BY <1>3, <1>4, <1>5, OpeningAssumption DEF NewLine, Fitting, Line
<1> HIDE DEF new
<1>7. LinesFit'
  BY <1>1, <1>2, <1>6, LinesStay, LinesReplaced
<1>8. StockFits' /\ TasksFit'
  BY <1>1, <1>2, StockUntouched, WaitingFits DEF OpeningInv
<1>9. StageFits' /\ PreviewFits'
  BY <1>1, <1>3 DEF OpeningInv, StageFits, PreviewFits, stageRows
<1>10. QED
  BY <1>2, <1>7, <1>8, <1>9 DEF OpeningInv

LEMMA OtherKept ==
  ASSUME OpeningInv, NEW i \in Items, NEW l \in Locations, NEW q \in {-1, 1}, OtherMovement(i, l, q)
  PROVE  OpeningInv'
<1>1. /\ changes < MaxChanges /\ changes' = changes + 1 /\ allow' = "LOCKED"
      /\ UNCHANGED <<catalogueRows, snapshot, draftRows, preview, taskPc, task>>
  BY DEF OtherMovement
<1>2. CatalogueTypeOK' /\ There' = There /\ Present' = Present
  BY <1>1, RowsSame DEF OpeningInv
<1>3. LinesFit' /\ StockFits' /\ TasksFit'
  BY <1>1, <1>2, LinesUntouched, Moved, WaitingFits
<1>4. StageFits' /\ PreviewFits'
  <2>1. allow' \in {None, "OPEN", "LOCKED"}
    BY <1>1
  <2>2. QED
    BY <1>1, <2>1, ChangeCounted DEF OpeningInv, StageFits, PreviewFits
<1>5. QED
  BY <1>2, <1>3, <1>4 DEF OpeningInv

LEMMA OutsideKept ==
  ASSUME OpeningInv, Outside
  PROVE  OpeningInv'
BY PreviewKept, MaintainKept, AllowKept, DraftKept, OtherKept DEF Outside

LEMMA OpeningStays ==
  ASSUME OpeningInv, UNCHANGED openingVars
  PROVE  OpeningInv'
<1>1. UNCHANGED <<catalogueRows, stageRows, draftRows, stockRows, changes, taskPc, task>> /\ UNCHANGED preview
  BY DEF openingVars
<1>2. CatalogueTypeOK' /\ There' = There /\ Present' = Present
  BY <1>1, RowsSame DEF OpeningInv
<1>3. LinesFit' /\ StockFits' /\ TasksFit'
  BY <1>1, <1>2, LinesUntouched, StockUntouched, WaitingFits DEF OpeningInv
<1>4. StageFits' /\ PreviewFits'
  BY <1>1 DEF OpeningInv, StageFits, PreviewFits, stageRows
<1>5. QED
  BY <1>2, <1>3, <1>4 DEF OpeningInv

LEMMA OpeningKept == OpeningInv /\ [OpeningNext]_openingVars => OpeningInv'
<1> SUFFICES ASSUME OpeningInv, [OpeningNext]_openingVars PROVE OpeningInv'
  OBVIOUS
<1>1. ASSUME NEW r \in Tasks, TaskStarts(r) PROVE OpeningInv'
  <2>1. UNCHANGED preview
    BY <1>1, StartsBegin
  <2>2. PICK kind, on, data, qty : Begin(r, kind, on, data, qty) /\ Sensible(kind, on, data, qty)
    BY <1>1, StartsBegin
  <2>3. QED
    BY <2>1, <2>2, TaskBegins
<1>2. ASSUME NEW r \in Tasks, TaskGoesOn(r) PROVE OpeningInv'
  BY <1>2, CreateWritten, UpdateWritten, ImportWritten, EntryDeleted, ItemDeleted, StageWritten,
     FinalizeWritten, PostWritten DEF TaskGoesOn
<1>3. CASE OpeningNext
  BY <1>1, <1>2, <1>3, OutsideKept, OpeningActs
<1>4. CASE UNCHANGED openingVars
  BY <1>4, OpeningStays
<1>5. QED
  BY <1>3, <1>4

-----------------------------------------------------------------------------
(* A run without overlaps.                                                 *)

OthersIdle(r) == \A q \in Tasks : q # r => taskPc[q] = "idle" /\ taskPc'[q] = "idle"

LEMMA TaskMoves ==
  ASSUME OpeningInv, NEW r \in Tasks, TaskStarts(r) \/ TaskGoesOn(r)
  PROVE  /\ \A q \in Tasks : q # r => taskPc'[q] = taskPc[q]
         /\ taskPc[r] # "idle" \/ taskPc'[r] # "idle"
<1>1. taskPc \in [Tasks -> TaskSteps]
  BY DEF OpeningInv, TasksFit
<1>2. CASE TaskStarts(r)
  <2>1. PICK kind, on, data, qty : Begin(r, kind, on, data, qty)
    BY <1>2, StartsBegin
  <2>2. taskPc' = [taskPc EXCEPT ![r] = "write"]
    BY <2>1 DEF Begin, Goes
  <2>3. QED
    BY <1>1, <2>2
<1>3. CASE TaskGoesOn(r)
  <2>1. taskPc[r] # "idle" /\ \E s : taskPc' = [taskPc EXCEPT ![r] = s]
    <3>1. CASE WriteCreate(r) \/ WriteUpdate(r) \/ WriteImport(r)
      BY <3>1 DEF WriteCreate, WriteUpdate, WriteImport, Done, Goes
    <3>2. CASE WriteDeleteItem(r) \/ WriteDeleteEntry(r) \/ WriteEnable(r) \/ ClearSnapshot(r)
      BY <3>2 DEF WriteDeleteItem, WriteDeleteEntry, WriteEnable, ClearSnapshot, Done, Goes
    <3>3. CASE FinalizeReads(r) \/ WriteFinalize(r) \/ WritePost(r) \/ Refuse(r)
      BY <3>3 DEF FinalizeReads, WriteFinalize, WritePost, Refuse, Fails, Done, Goes
    <3>4. QED
      BY <1>3, <3>1, <3>2, <3>3 DEF TaskGoesOn
  <2>2. QED
    BY <1>1, <2>1
<1>4. QED
  BY <1>2, <1>3

LEMMA OpeningModes ==
  ASSUME OpeningInv, OneTask, OpeningNext, Overlaps!NoteOverlap, ~openingOverlapped'
  PROVE  /\ OneTask'
         /\ \/ Outside /\ \A q \in Tasks : taskPc[q] = "idle" /\ taskPc'[q] = "idle"
            \/ \E r \in Tasks : OthersIdle(r) /\ (TaskStarts(r) \/ TaskGoesOn(r))
<1>1. /\ ~(Cardinality({q \in Tasks : taskPc'[q] # "idle"}) > 1)
      /\ UNCHANGED taskPc => \A q \in Tasks : taskPc[q] = "idle"
  BY DEF Overlaps!NoteOverlap, Overlaps!Busy, Overlaps!Cardinality, Cardinality
<1>2. ASSUME NEW r \in Tasks, TaskStarts(r) \/ TaskGoesOn(r)
      PROVE  OneTask' /\ OthersIdle(r)
  <2>1. /\ \A q \in Tasks : q # r => taskPc'[q] = taskPc[q]
        /\ taskPc[r] # "idle" \/ taskPc'[r] # "idle"
    BY <1>2, TaskMoves
  <2>2. \A a, b \in Tasks : taskPc'[a] # "idle" /\ taskPc'[b] # "idle" => a = b
    BY <1>1, <2>1, OneMoves DEF OneTask
  <2>3. OneTask'
    BY <2>2 DEF OneTask
  <2>4. \A q \in Tasks : q # r => taskPc[q] = "idle"
    BY <2>1, <2>2 DEF OneTask
  <2>5. QED
    BY <2>1, <2>3, <2>4 DEF OthersIdle
<1>3. ASSUME Outside PROVE OneTask' /\ \A q \in Tasks : taskPc[q] = "idle" /\ taskPc'[q] = "idle"
  BY <1>1, <1>3, OutsideWaits DEF OneTask
<1>4. QED
  BY <1>2, <1>3, OpeningActs

LEMMA SerialOf ==
  ASSUME OneTask', RowsHaveLines', StockAdds', NEW r \in Tasks, OthersIdle(r), StillFound(taskPc[r], task[r])'
  PROVE  OpeningSerial'
<1>1. ASSUME NEW q \in Tasks PROVE StillFound(taskPc[q], task[q])'
  <2>1. CASE q # r
    <3>1. taskPc'[q] = "idle"
      BY <2>1 DEF OthersIdle
    <3>2. QED
      BY <3>1 DEF StillFound
  <2>2. QED
    BY <2>1
<1>2. QED
  BY <1>1 DEF OpeningSerial

\* The lines of posted documents are left alone.
PostedStay == obLines \ DraftLines \subseteq obLines' \ DraftLines'

LEMMA ReplaceLeavesPosted ==
  ASSUME OpeningInv, NEW gone \in SUBSET DraftLines, NEW new, NEW kept, obLines \ DraftLines \subseteq kept,
         Replace(gone, new, kept)
  PROVE  PostedStay
<1>1. ASSUME NEW n \in obLines \ DraftLines PROVE n \in obLines' \ DraftLines'
  <2>1. n \in obLines /\ n.doc \in Docs /\ docs[n.doc] # None /\ docs[n.doc] # "DRAFT"
    BY <1>1 DEF OpeningInv, LinesFit, ObLine, DraftLines, Drafts
  <2>2. n \in obLines' /\ docs'[n.doc] = docs[n.doc]
    BY <1>1, <2>1 DEF Replace
  <2>3. QED
    BY <2>1, <2>2 DEF DraftLines, Drafts
<1>2. QED
  BY <1>1 DEF PostedStay

LEMMA RowsKeepLines ==
  ASSUME RowsHaveLines, PostedStay, opened' = opened
  PROVE  RowsHaveLines'
<1>1. ASSUME NEW i \in Items, NEW l \in Locations, opened'[<<i, l>>] # 0
      PROVE  LinesAt(obLines \ DraftLines, i, l)' # {}
  <2>1. PICK n \in obLines \ DraftLines : n.item = i /\ n.loc = l
    BY <1>1 DEF RowsHaveLines, LinesAt
  <2>2. n \in obLines' \ DraftLines'
    BY <2>1 DEF PostedStay
  <2>3. QED
    BY <2>1, <2>2 DEF LinesAt
<1>2. QED
  BY <1>1 DEF RowsHaveLines

LEMMA DraftsSame ==
  ASSUME UNCHANGED draftRows
  PROVE  Drafts' = Drafts /\ DraftLines' = DraftLines /\ PostedStay
BY DEF draftRows, Drafts, DraftLines, PostedStay

\* Lines that are posted account for the rows that come of it.
LEMMA BookedHaveLines ==
  ASSUME OpeningInv, RowsHaveLines, StockAdds, NEW S \in SUBSET obLines, Fitting(S), There' = There,
         Present' = Present, NEW r \in Tasks, Book(r, S), task[r].stock = inStock, obLines' = obLines, \A n \in S : docs'[n.doc] = "POSTED",
         \A d \in Docs : docs'[d] \in {docs[d], "POSTED"}
  PROVE  RowsHaveLines' /\ StockAdds' /\ PostedStay
<1>1. PostedStay
  BY DEF PostedStay, DraftLines, Drafts
<1>2. S \in SUBSET ObLine /\ StockFits /\ task[r].stock \in [Bins -> Int]
  BY DEF OpeningInv, LinesFit, StockFits
<1>3. StockAdds' /\ \A x \in Bins : LinesAt(S, x[1], x[2]) = {} => opened'[x] = opened[x]
  BY <1>2, Booked
<1>4. ASSUME NEW i \in Items, NEW l \in Locations, opened'[<<i, l>>] # 0
      PROVE  LinesAt(obLines \ DraftLines, i, l)' # {}
  <2>1. CASE LinesAt(S, i, l) = {}
    <3>1. opened[<<i, l>>] # 0
      BY <1>3, <1>4, <2>1 DEF Bins
    <3>2. PICK n \in obLines \ DraftLines : n.item = i /\ n.loc = l
      BY <3>1 DEF RowsHaveLines, LinesAt
    <3>3. n \in obLines' \ DraftLines'
      BY <1>1, <3>2 DEF PostedStay
    <3>4. QED
      BY <3>2, <3>3 DEF LinesAt
  <2>2. CASE LinesAt(S, i, l) # {}
    <3>1. PICK n \in S : n.item = i /\ n.loc = l
      BY <2>2 DEF LinesAt
    <3>2. n \in obLines' \ DraftLines'
      BY <3>1 DEF DraftLines, Drafts
    <3>3. QED
      BY <3>1, <3>2 DEF LinesAt
  <2>3. QED
    BY <2>1, <2>2
<1>5. QED
  BY <1>1, <1>3, <1>4 DEF RowsHaveLines

-----------------------------------------------------------------------------
(* Each step, alone.                                                       *)

LEMMA StartAlone ==
  ASSUME OpeningInv, OpeningSerial, NEW r \in Tasks, TaskStarts(r), OthersIdle(r), OneTask'
  PROVE  OpeningSerial'
<1>1. UNCHANGED preview
  BY StartsBegin
<1>2. PICK kind, on, data, qty : Begin(r, kind, on, data, qty) /\ Sensible(kind, on, data, qty)
                                 /\ (kind = "delete entry" => MayDelete(on, Used))
  BY StartsBegin
<1> DEFINE j == Finds(kind, on, data, qty)
<1>3. /\ taskPc'[r] = "write" /\ task'[r] = j
      /\ UNCHANGED <<catalogueRows, stageRows, draftRows, stockRows>>
  BY <1>1, <1>2, TaskBegins
<1>4. /\ UNCHANGED <<shelf, below, item, allow, snapshot, docs, obLines, opened, traced>>
  BY <1>3 DEF catalogueRows, stageRows, draftRows, stockRows
<1>5. /\ j.kind = kind /\ j.on = on /\ j.stage = ObStatus /\ j.open = Drafts /\ j.seen = DraftLines
      /\ j.stock = inStock
  BY DEF Finds
<1> HIDE DEF j
<1>6. ObStatus' = ObStatus /\ Drafts' = Drafts /\ DraftLines' = DraftLines /\ Used' = Used
  BY <1>4 DEF ObStatus, Drafts, DraftLines, Used
<1>7. kind = "delete entry" => MayDelete(on, Used)'
  BY <1>2, <1>4, <1>6 DEF MayDelete, MayDeleteDepartment, MayDeleteCategory, MayDeleteSubcategory,
                          MayDeleteLocation, Unlisted, Naming
<1>8. StillFound(taskPc[r], task[r])'
  BY <1>3, <1>5, <1>6, <1>7 DEF StillFound, stockRows
<1>9. RowsHaveLines' /\ StockAdds'
  BY <1>3, <1>4, <1>6, StockSame DEF OpeningSerial, RowsHaveLines, LinesAt
<1>10. QED
  BY <1>8, <1>9, SerialOf

\* A transaction alone finds what is stored.
LEMMA ViewCurrent ==
  ASSUME NEW r, StillFound("write", task[r]), NEW v \in Views(r)
  PROVE  v.open = Drafts /\ v.seen = DraftLines
<1>1. task[r].open = Drafts /\ task[r].seen = DraftLines
  BY DEF StillFound
<1>2. v = [open |-> Drafts, seen |-> DraftLines]
  BY <1>1 DEF Views
<1>3. QED
  BY <1>2

LEMMA EnteredAlone ==
  ASSUME OpeningInv, NEW r, StillFound("write", task[r]), NEW i, NEW qty, NEW cost, Enter(r, i, qty, cost)
  PROVE  PostedStay
<1>1. PICK v \in Views(r) : \E new : Replace(UNION {LinesAt(v.seen, i, l) : l \in DOMAIN qty}, new, obLines)
  BY DEF Enter
<1>2. UNION {LinesAt(v.seen, i, l) : l \in DOMAIN qty} \in SUBSET DraftLines
  BY ViewCurrent DEF LinesAt
<1>3. QED
  BY <1>1, <1>2, ReplaceLeavesPosted

LEMMA TotalAlone ==
  ASSUME OpeningInv, NEW r, StillFound("write", task[r]), NEW i, NEW row, NEW q, EnterTotal(r, i, row, q)
  PROVE  PostedStay
<1>1. PICK v \in Views(r) : \E new : Replace(LinesOf(v.seen, i), new, obLines)
  BY DEF EnterTotal
<1>2. LinesOf(v.seen, i) \in SUBSET DraftLines
  BY ViewCurrent DEF LinesOf
<1>3. QED
  BY <1>1, <1>2, ReplaceLeavesPosted

LEMMA RepricedAlone ==
  ASSUME OpeningInv, NEW i, NEW price, Reprice(i, price)
  PROVE  PostedStay
<1> DEFINE kept == {Repriced(n, i, price) : n \in obLines}
<1>1. Replace({}, {}, kept)
  BY DEF Reprice, Repriced
<1>2. ASSUME NEW n \in obLines \ DraftLines PROVE n \in kept
  <2>1. Repriced(n, i, price) = n
    BY DEF Repriced, LinesOf
  <2>2. QED
    BY <2>1
<1>3. {} \in SUBSET DraftLines
  OBVIOUS
<1> HIDE DEF kept
<1>4. QED
  BY <1>1, <1>2, <1>3, ReplaceLeavesPosted

LEMMA ItemAlone ==
  ASSUME OpeningInv, OpeningSerial, NEW r \in Tasks, WriteCreate(r) \/ WriteUpdate(r) \/ WriteImport(r),
         OthersIdle(r), OneTask'
  PROVE  OpeningSerial' /\ PostedStay
<1>1. taskPc[r] = "write" /\ Done(r) /\ UNCHANGED stockRows
  BY DEF WriteCreate, WriteUpdate, WriteImport
<1>2. StillFound("write", task[r])
  BY <1>1 DEF OpeningSerial
<1>3. PostedStay
  <2>1. CASE WriteCreate(r)
    BY <1>2, <2>1, EnteredAlone, DraftsSame DEF WriteCreate, KeepDrafts
  <2>2. CASE WriteUpdate(r)
    BY <1>2, <2>2, TotalAlone, RepricedAlone, DraftsSame DEF WriteUpdate, KeepDrafts
  <2>3. CASE WriteImport(r)
    BY <1>2, <2>3, EnteredAlone, DraftsSame DEF WriteImport, KeepDrafts
  <2>4. QED
    BY <2>1, <2>2, <2>3
<1>4. RowsHaveLines' /\ StockAdds'
  BY <1>1, <1>3, RowsKeepLines, StockSame DEF OpeningSerial, stockRows
<1>5. taskPc'[r] = "idle"
  BY <1>1, TaskDone DEF OpeningInv
<1>6. StillFound(taskPc[r], task[r])'
  BY <1>5 DEF StillFound
<1>7. QED
  BY <1>3, <1>4, <1>6, SerialOf

LEMMA ItemDeletedAlone ==
  ASSUME OpeningInv, OpeningSerial, NEW r \in Tasks, WriteDeleteItem(r), OthersIdle(r), OneTask'
  PROVE  OpeningSerial'
<1> DEFINE i == task[r].on
           all == task[r].stage = "OPEN"
<1>1. /\ all \/ (LinesOf(obLines, i) = {} /\ traced \cap ({i} \X Locations) = {})
      /\ obLines' = obLines \ LinesOf(obLines, i)
      /\ opened' = [x \in Bins |-> IF all /\ x[1] = i THEN 0 ELSE opened[x]]
      /\ docs' = docs /\ Done(r)
  BY DEF WriteDeleteItem
<1> HIDE DEF i, all
<1>2. Drafts' = Drafts /\ DraftLines' = DraftLines \ LinesOf(obLines, i)
  BY <1>1 DEF Drafts, DraftLines
<1>3. ASSUME NEW k \in Items, NEW l \in Locations, opened'[<<k, l>>] # 0
      PROVE  LinesAt(obLines \ DraftLines, k, l)' # {}
  <2>1. opened[<<k, l>>] # 0 /\ ~(all /\ k = i)
    BY <1>1, <1>3 DEF Bins
  <2>2. PICK n \in obLines \ DraftLines : n.item = k /\ n.loc = l
    BY <2>1 DEF OpeningSerial, RowsHaveLines, LinesAt
  <2>3. n \notin LinesOf(obLines, i)
    BY <1>1, <2>1, <2>2 DEF LinesOf
  <2>4. n \in obLines' \ DraftLines'
    BY <1>1, <1>2, <2>2, <2>3
  <2>5. QED
    BY <2>2, <2>4 DEF LinesAt
<1>4. taskPc'[r] = "idle"
  BY <1>1, TaskDone DEF OpeningInv
<1>5. StillFound(taskPc[r], task[r])'
  BY <1>4 DEF StillFound
<1>6. RowsHaveLines' /\ StockAdds'
  BY <1>3, ItemErased DEF RowsHaveLines, OpeningSerial
<1>7. QED
  BY <1>5, <1>6, SerialOf

LEMMA StageAlone ==
  ASSUME OpeningInv, OpeningSerial, NEW r \in Tasks, OthersIdle(r), OneTask',
         WriteDeleteEntry(r) \/ WriteEnable(r) \/ ClearSnapshot(r) \/ FinalizeReads(r) \/ Refuse(r)
  PROVE  OpeningSerial'
<1>1. UNCHANGED <<draftRows, stockRows>>
  BY DEF WriteDeleteEntry, WriteEnable, ClearSnapshot, FinalizeReads, Refuse, Fails
<1>2. Drafts' = Drafts /\ DraftLines' = DraftLines /\ PostedStay /\ opened' = opened
  BY <1>1, DraftsSame DEF stockRows
<1>3. RowsHaveLines' /\ StockAdds'
  BY <1>1, <1>2, RowsKeepLines, StockSame DEF OpeningSerial
<1>4. StillFound(taskPc[r], task[r])'
  <2>1. CASE WriteDeleteEntry(r) \/ ClearSnapshot(r) \/ Refuse(r)
    <3>1. Done(r)
      BY <2>1 DEF WriteDeleteEntry, ClearSnapshot, Refuse, Fails
    <3>2. taskPc'[r] = "idle"
      BY <3>1, TaskDone DEF OpeningInv
    <3>3. QED
      BY <3>2 DEF StillFound
  <2>2. CASE WriteEnable(r)
    <3>1. taskPc'[r] = "clear"
      BY <2>2 DEF WriteEnable, Goes, OpeningInv, TasksFit
    <3>2. QED
      BY <3>1 DEF StillFound
  <2>3. CASE FinalizeReads(r)
    <3> DEFINE j == Finds("finalize", None, NoData, NoQty)
    <3>1. taskPc' = [taskPc EXCEPT ![r] = "post"] /\ task' = [task EXCEPT ![r] = j]
      BY <2>3 DEF FinalizeReads, Goes
    <3>2. j.open = Drafts /\ j.seen = DraftLines /\ j.stock = inStock /\ inStock' = inStock
      BY <1>1 DEF Finds, stockRows
    <3> HIDE DEF j
    <3>3. taskPc'[r] = "post" /\ task'[r] = j
      BY <3>1 DEF OpeningInv, TasksFit
    <3>4. QED
      BY <1>2, <3>2, <3>3 DEF StillFound
  <2>4. QED
    BY <2>1, <2>2, <2>3
<1>5. QED
  BY <1>3, <1>4, SerialOf

LEMMA FinalizeAlone ==
  ASSUME OpeningInv, OpeningSerial, NEW r \in Tasks, WriteFinalize(r), OthersIdle(r), OneTask'
  PROVE  OpeningSerial'
<1>1. task[r].open = Drafts /\ task[r].seen = DraftLines /\ task[r].stock = inStock
  BY DEF OpeningSerial, StillFound, WriteFinalize
<1>2. /\ \A n \in DraftLines : item[n.item].there /\ shelf[n.loc] # None
      /\ Book(r, DraftLines) /\ docs' = [d \in Docs |-> IF d \in Drafts THEN "POSTED" ELSE docs[d]]
      /\ Done(r) /\ UNCHANGED catalogueRows /\ obLines' = obLines
  BY <1>1 DEF WriteFinalize
<1>3. There' = There /\ Present' = Present
  BY <1>2, RowsSame
<1>4. DraftLines \in SUBSET obLines /\ Fitting(DraftLines)
  BY <1>3, LinesStay DEF Fitting, DraftLines
<1>5. \A n \in DraftLines : docs'[n.doc] = "POSTED"
  BY <1>2 DEF DraftLines, Drafts
<1>6. \A d \in Docs : docs'[d] \in {docs[d], "POSTED"}
  BY <1>2
<1>7. RowsHaveLines' /\ StockAdds'
  BY <1>1, <1>2, <1>3, <1>4, <1>5, <1>6, BookedHaveLines DEF OpeningSerial
<1>8. taskPc'[r] = "idle"
  BY <1>2, TaskDone DEF OpeningInv
<1>9. StillFound(taskPc[r], task[r])'
  BY <1>8 DEF StillFound
<1>10. QED
  BY <1>7, <1>9, SerialOf

\* What a posting by hand finds are the lines of a draft.
LEMMA PostAlone ==
  ASSUME OpeningInv, OpeningSerial, NEW r \in Tasks, WritePost(r)
  PROVE  /\ RowsHaveLines' /\ StockAdds' /\ taskPc'[r] = "idle"
         /\ \A x \in Bins : opened'[x] # opened[x] => \E n \in LinesAt(DraftLines, x[1], x[2]) : docs'[n.doc] = "POSTED"
<1> DEFINE d == task[r].on
           S == {n \in task[r].seen : n.doc = d}
<1>1. task[r].open = Drafts /\ task[r].seen = DraftLines /\ task[r].stock = inStock
  BY DEF OpeningSerial, StillFound, WritePost
<1>2. d \in Docs /\ task[r].stock \in [Bins -> Int]
  BY DEF OpeningInv, TasksFit, TaskFits, WritePost
<1>3. /\ Book(r, S) /\ docs' = [docs EXCEPT ![d] = "POSTED"] /\ Done(r) /\ UNCHANGED catalogueRows
      /\ obLines' = obLines
  BY DEF WritePost
<1>4. There' = There /\ Present' = Present
  BY <1>3, RowsSame
<1>5. S \in SUBSET DraftLines /\ S \in SUBSET obLines /\ Fitting(S)
  BY <1>1, <1>4, LinesStay DEF Fitting, DraftLines
<1>6. docs \in [Docs -> {None, "DRAFT", "POSTED"}] /\ S \in SUBSET ObLine /\ StockFits
  BY <1>5 DEF OpeningInv, LinesFit
<1>7. \A n \in S : docs'[n.doc] = "POSTED"
  BY <1>2, <1>3, <1>6
<1>8. \A c \in Docs : docs'[c] \in {docs[c], "POSTED"}
  BY <1>3, <1>6
<1>9. taskPc'[r] = "idle"
  BY <1>3, TaskDone DEF OpeningInv
<1> HIDE DEF S, d
<1>10. RowsHaveLines' /\ StockAdds'
  BY <1>1, <1>3, <1>4, <1>5, <1>7, <1>8, BookedHaveLines DEF OpeningSerial
<1>11. ASSUME NEW x \in Bins, opened'[x] # opened[x]
       PROVE  \E n \in LinesAt(DraftLines, x[1], x[2]) : docs'[n.doc] = "POSTED"
  <2>1. LinesAt(S, x[1], x[2]) # {}
    BY <1>2, <1>3, <1>4, <1>5, <1>6, <1>11, Booked
  <2>2. QED
    BY <1>5, <1>7, <2>1 DEF LinesAt
<1>12. QED
  BY <1>9, <1>10, <1>11

LEMMA PostedAlone ==
  ASSUME OpeningInv, OpeningSerial, NEW r \in Tasks, WritePost(r), OthersIdle(r), OneTask'
  PROVE  OpeningSerial'
<1>1. RowsHaveLines' /\ StockAdds' /\ taskPc'[r] = "idle"
  BY PostAlone
<1>2. StillFound(taskPc[r], task[r])'
  BY <1>1 DEF StillFound
<1>3. QED
  BY <1>1, <1>2, SerialOf

\* The rest, while no request is in progress.
LEMMA OutsideAlone ==
  ASSUME OpeningInv, OpeningSerial, Outside, OneTask', \A q \in Tasks : taskPc'[q] = "idle"
  PROVE  OpeningSerial'
<1>1. RowsHaveLines'
  <2>1. CASE \E i \in Items, l \in Locations, q \in Drafted : DraftDocument(i, l, q)
    <3>1. PICK i \in Items, l \in Locations, q \in Drafted : DraftDocument(i, l, q)
      BY <2>1
    <3>2. /\ Replace({}, {Line(Least(Unused), i, l, q, item[i].price, changes + 1)}, obLines)
          /\ opened' = opened
      BY <3>1 DEF DraftDocument, stockRows
    <3>3. {} \in SUBSET DraftLines
      OBVIOUS
    <3>4. PostedStay
      BY <3>2, <3>3, ReplaceLeavesPosted
    <3>5. QED
      BY <3>2, <3>4, RowsKeepLines DEF OpeningSerial
  <2>2. CASE ForgetPreview \/ Maintain \/ \E sheet \in Sheets : ParseImportFile(sheet)
    <3>1. UNCHANGED <<draftRows, opened>>
      BY <2>2 DEF ForgetPreview, Maintain, ParseImportFile, stockRows
    <3>2. QED
      BY <3>1, DraftsSame, RowsKeepLines DEF OpeningSerial
  <2>3. CASE \/ \E value \in {"OPEN", "LOCKED"} : SetAllow(value)
             \/ \E i \in Items, l \in Locations, q \in {-1, 1} : OtherMovement(i, l, q)
    <3>1. UNCHANGED <<draftRows, opened>>
      BY <2>3 DEF SetAllow, OtherMovement, stockRows
    <3>2. QED
      BY <3>1, DraftsSame, RowsKeepLines DEF OpeningSerial
  <2>4. QED
    BY <2>1, <2>2, <2>3 DEF Outside
<1>2. StockAdds'
  <2>1. CASE \E i \in Items, l \in Locations, q \in {-1, 1} : OtherMovement(i, l, q)
    BY <2>1, Moved DEF OpeningSerial
  <2>2. CASE \/ ForgetPreview \/ Maintain \/ \E sheet \in Sheets : ParseImportFile(sheet)
             \/ \E value \in {"OPEN", "LOCKED"} : SetAllow(value)
             \/ \E i \in Items, l \in Locations, q \in Drafted : DraftDocument(i, l, q)
    <3>1. UNCHANGED stockRows
      BY <2>2 DEF ForgetPreview, Maintain, ParseImportFile, SetAllow, DraftDocument
    <3>2. QED
      BY <3>1, StockSame DEF OpeningSerial
  <2>3. QED
    BY <2>1, <2>2 DEF Outside
<1>3. \A r \in Tasks : StillFound(taskPc[r], task[r])'
  BY DEF StillFound
<1>4. QED
  BY <1>1, <1>2, <1>3 DEF OpeningSerial

LEMMA TaskAlone ==
  ASSUME OpeningInv, OpeningSerial, NEW r \in Tasks, TaskStarts(r) \/ TaskGoesOn(r), OthersIdle(r), OneTask'
  PROVE  OpeningSerial'
<1>1. CASE TaskStarts(r)
  BY <1>1, StartAlone
<1>2. CASE TaskGoesOn(r)
  <2>1. CASE WriteCreate(r) \/ WriteUpdate(r) \/ WriteImport(r)
    BY <2>1, ItemAlone
  <2>2. CASE WriteDeleteItem(r)
    BY <2>2, ItemDeletedAlone
  <2>3. CASE WriteDeleteEntry(r) \/ WriteEnable(r) \/ ClearSnapshot(r) \/ FinalizeReads(r) \/ Refuse(r)
    BY <2>3, StageAlone
  <2>4. CASE WriteFinalize(r)
    BY <2>4, FinalizeAlone
  <2>5. CASE WritePost(r)
    BY <2>5, PostedAlone
  <2>6. QED
    BY <1>2, <2>1, <2>2, <2>3, <2>4, <2>5 DEF TaskGoesOn
<1>3. QED
  BY <1>1, <1>2

OpeningWhole == OpeningInv /\ (openingOverlapped \/ OpeningSerial)

LEMMA SerialStays ==
  ASSUME OpeningSerial, UNCHANGED openingVars
  PROVE  OpeningSerial'
<1>1. UNCHANGED <<catalogueRows, stageRows, draftRows, stockRows, taskPc, task>>
  BY DEF openingVars
<1>2. UNCHANGED <<shelf, below, item, allow, snapshot, docs, obLines, opened, inStock, traced, taskPc, task>>
  BY <1>1 DEF catalogueRows, stageRows, draftRows, stockRows
<1>3. ObStatus' = ObStatus /\ Drafts' = Drafts /\ DraftLines' = DraftLines /\ Used' = Used
  BY <1>2 DEF ObStatus, Drafts, DraftLines, Used
<1>4. RowsHaveLines' /\ OneTask' /\ StockAdds'
  BY <1>1, <1>2, <1>3, StockSame DEF OpeningSerial, RowsHaveLines, LinesAt, OneTask
<1>5. ASSUME NEW r \in Tasks PROVE StillFound(taskPc[r], task[r])'
  BY <1>2, <1>3 DEF OpeningSerial, StillFound, MayDelete, MayDeleteDepartment, MayDeleteCategory,
                    MayDeleteSubcategory, MayDeleteLocation, Unlisted, Naming
<1>6. QED
  BY <1>4, <1>5 DEF OpeningSerial

LEMMA WholeBegins == OpeningHistoryInit => OpeningWhole
<1> SUFFICES ASSUME OpeningHistoryInit PROVE OpeningWhole
  OBVIOUS
<1>1. OpeningInit
  BY DEF OpeningHistoryInit
<1>2. OpeningInv
  BY <1>1, OpeningBegins
<1>3. RowsHaveLines /\ StockAdds
  BY <1>1 DEF OpeningInit, RowsHaveLines, StockAdds, NoStock, Bins
<1>4. OneTask /\ \A r \in Tasks : StillFound(taskPc[r], task[r])
  BY <1>1 DEF OpeningInit, OneTask, StillFound
<1>5. QED
  BY <1>2, <1>3, <1>4 DEF OpeningWhole, OpeningSerial

LEMMA WholeKept ==
  OpeningWhole /\ [OpeningHistoryNext]_<<openingVars, openingOverlapped>> => OpeningWhole'
<1> SUFFICES ASSUME OpeningWhole, [OpeningHistoryNext]_<<openingVars, openingOverlapped>> PROVE OpeningWhole'
  OBVIOUS
<1>1. OpeningInv'
  BY OpeningKept DEF OpeningWhole, OpeningHistoryNext
<1>2. CASE OpeningHistoryNext /\ ~openingOverlapped'
  <2>1. OpeningNext /\ Overlaps!NoteOverlap /\ ~openingOverlapped
    BY <1>2 DEF OpeningHistoryNext, Overlaps!NoteOverlap
  <2>2. OpeningInv /\ OpeningSerial /\ OneTask
    BY <2>1 DEF OpeningWhole, OpeningSerial
  <2>3. /\ OneTask'
        /\ \/ Outside /\ \A q \in Tasks : taskPc[q] = "idle" /\ taskPc'[q] = "idle"
           \/ \E r \in Tasks : OthersIdle(r) /\ (TaskStarts(r) \/ TaskGoesOn(r))
    BY <1>2, <2>1, <2>2, OpeningModes
  <2>4. OpeningSerial'
    BY <2>2, <2>3, TaskAlone, OutsideAlone
  <2>5. QED
    BY <1>1, <2>4 DEF OpeningWhole
<1>3. CASE UNCHANGED <<openingVars, openingOverlapped>>
  BY <1>1, <1>3, SerialStays DEF OpeningWhole
<1>4. QED
  BY <1>1, <1>2, <1>3 DEF OpeningWhole

LEMMA OpeningWholeAlways == OpeningHistorySpec => []OpeningWhole
BY WholeBegins, WholeKept, PTL DEF OpeningHistorySpec

\* Rows refer to rows that are there whatever overlaps; and while no two
\* requests do, every balance is the sum of its ledger rows, and every ledger
\* row of the opening balance has its line in a posted document:
\* item.service.js, setting.service.js, posting.service.js.
THEOREM OpeningIsConsistent == OpeningHistorySpec => []OpeningConsistent
<1>1. OpeningWhole => OpeningConsistent
  BY TypeOfInv DEF OpeningWhole, OpeningConsistent, LedgerAddsUp, LinesAreBooked, OpeningSerial, RowsHaveLines,
     StockAdds, Overlaps!Alone
<1>2. QED
  BY <1>1, OpeningWholeAlways, PTL

-----------------------------------------------------------------------------
(* What a deletion takes with it.                                          *)

\* Only a deletion takes an entry away.
LEMMA EntriesStay ==
  ASSUME OpeningInv, OpeningNext, NEW e \in Entries, shelf[e] # None, shelf'[e] = None
  PROVE  \E r \in Tasks : WriteDeleteEntry(r)
<1>1. e \in Present /\ e \notin Present'
  BY DEF Present
<1>2. ASSUME NEW r \in Tasks, TaskStarts(r) PROVE FALSE
  <2>1. UNCHANGED preview
    BY <1>2, StartsBegin
  <2>2. PICK kind, on, data, qty : Begin(r, kind, on, data, qty) /\ Sensible(kind, on, data, qty)
    BY <1>2, StartsBegin
  <2>3. UNCHANGED catalogueRows
    BY <2>1, <2>2, TaskBegins
  <2>4. QED
    BY <1>1, <2>3, RowsSame
<1>3. ASSUME NEW r \in Tasks, TaskGoesOn(r), ~WriteDeleteEntry(r) PROVE FALSE
  <2>1. shelf' = shelf
    BY <1>3 DEF TaskGoesOn, WriteCreate, WriteUpdate, WriteImport, WriteDeleteItem, WriteEnable, ClearSnapshot,
                FinalizeReads, WriteFinalize, WritePost, Refuse, Fails, catalogueRows
  <2>2. QED
    BY <2>1
<1>4. ~Outside
  <2>1. CASE Maintain
    BY <1>1, <2>1, Maintained DEF OpeningInv
  <2>2. ASSUME Outside, ~Maintain PROVE FALSE
    <3>1. UNCHANGED catalogueRows
      BY <2>2 DEF Outside, ForgetPreview, ParseImportFile, SetAllow, DraftDocument, OtherMovement
    <3>2. QED
      BY <1>1, <3>1, RowsSame
  <2>3. QED
    BY <2>1, <2>2
<1>5. QED
  BY <1>2, <1>3, <1>4, OpeningActs

LEMMA EntryLeavesAlone ==
  ASSUME OpeningInv, OpeningSerial, NEW r \in Tasks, WriteDeleteEntry(r),
         NEW e \in Entries, shelf[e] # None, shelf'[e] = None
  PROVE  /\ \A i \in Items : item'[i].refs = item[i].refs
         /\ \A f \in Naming(e) : \/ e \in Departments /\ f \in Categories
                                 \/ e \in Categories /\ f \in Locations
         /\ draftRows' = draftRows
<1>1. /\ taskPc[r] = "write" /\ task[r].kind = "delete entry" /\ Erase(task[r].on) /\ draftRows' = draftRows
  BY DEF WriteDeleteEntry
<1>2. shelf \in [Entries -> {None, "on", "off"}]
  BY DEF OpeningInv, CatalogueTypeOK
<1>3. e = task[r].on
  BY <1>1, <1>2 DEF Erase
<1>4. MayDelete(e, Used)
  BY <1>1, <1>3 DEF OpeningSerial, StillFound
<1>5. e \notin Suppliers
  BY <1>4 DEF MayDelete
<1>6. ASSUME NEW i \in Items PROVE item'[i].refs = item[i].refs
  <2>1. item'[i].refs = item[i].refs \ {e}
    BY <1>1, <1>3 DEF Erase, Without
  <2>2. item[i] \in ItemRow
    BY DEF OpeningInv, CatalogueTypeOK
  <2>3. e \notin item[i].refs
    <3>1. CASE e \in Locations
      BY <2>2, <3>1 DEF ItemRow
    <3>2. CASE e \in Departments \cup Categories \cup Subcategories
      BY <1>4, <3>2 DEF MayDelete, MayDeleteDepartment, MayDeleteCategory, MayDeleteSubcategory, Unlisted
    <3>3. QED
      BY <1>5, <3>1, <3>2 DEF Entries
  <2>4. QED
    BY <2>1, <2>3
<1>7. ASSUME NEW f \in Naming(e)
      PROVE  \/ e \in Departments /\ f \in Categories
             \/ e \in Categories /\ f \in Locations
  <2>1. <<f, e>> \in below /\ f \in Entries
    BY DEF Naming
  <2>2. e \in MayName(f)
    BY <2>1 DEF OpeningInv, CatalogueTypeOK
  <2>3. /\ e \in Departments => Naming(e) \cap Locations = {}
        /\ e \in Categories => Naming(e) \cap Subcategories = {}
    BY <1>4 DEF MayDelete, MayDeleteDepartment, MayDeleteCategory
  <2>4. QED
    BY <2>1, <2>2, <2>3, CatalogueAssumption DEF MayName
<1>8. QED
  BY <1>1, <1>6, <1>7

\* While no two requests overlap, a deletion leaves the items and the drafts
\* alone: location.service.js, category.service.js, department.service.js.
THEOREM ReferencesAreKept == OpeningHistorySpec => ReferencesHold
<1>1. ASSUME OpeningWhole, [OpeningHistoryNext]_<<openingVars, openingOverlapped>>
      PROVE  [Overlaps!Alone(\A e \in Entries : shelf[e] # None /\ shelf'[e] = None
                => /\ \A i \in Items : item'[i].refs = item[i].refs
                   /\ \A f \in Naming(e) : \/ e \in Departments /\ f \in Categories
                                           \/ e \in Categories /\ f \in Locations
                   /\ draftRows' = draftRows)]_openingVars
  <2>1. CASE OpeningHistoryNext /\ ~openingOverlapped
    <3>1. OpeningInv /\ OpeningSerial /\ OpeningNext
      BY <1>1, <2>1 DEF OpeningWhole, OpeningHistoryNext
    <3>2. QED
      BY <3>1, EntriesStay, EntryLeavesAlone DEF Overlaps!Alone
  <2>2. QED
    BY <1>1, <2>1 DEF Overlaps!Alone
<1>2. QED
  BY <1>1, OpeningWholeAlways, PTL DEF OpeningHistorySpec, ReferencesHold

-----------------------------------------------------------------------------
(* What requests leave behind.                                             *)

\* Quantities of lines add up like the values of a function.
LEMMA QuantityIsTotal ==
  ASSUME NEW S, IsFiniteSet(S)
  PROVE  Quantity(S) = TotalOver([n \in S |-> n.qty], S)
<1> DEFINE f == [n \in S |-> n.qty]
           Lines(g) == g = [s \in SUBSET S |-> IF s = {} THEN 0 ELSE Pick(s).qty + g[s \ {Pick(s)}]]
           a == CHOOSE g : Lines(g)
           b == CHOOSE g : Adds(g, f, S)
<1>1. Quantity(S) = a[S]
  BY DEF Quantity, MapThenSumSet, MapThenFoldSet, Pick
<1>2. TotalOver(f, S) = b[S]
  BY TotalIsChosen
<1>3. \A g : Lines(g) <=> Adds(g, f, S)
  <2>1. \A s \in SUBSET S : s # {} => f[Pick(s)] = Pick(s).qty
    BY PickIn
  <2> HIDE DEF f
  <2>2. QED
    BY <2>1 DEF Adds
<1>4. \E g : Adds(g, f, S)
  <2> HIDE DEF f
  <2>1. QED
    BY AddsExists
<1>5. Adds(a, f, S) /\ Adds(b, f, S)
  <2> HIDE DEF f, Adds
  <2>1. QED
    BY <1>3, <1>4
<1>6. a[S] = b[S]
  <2>1. S \in SUBSET S
    OBVIOUS
  <2> HIDE DEF f, a, b, Adds
  <2>2. QED
    BY <1>5, <2>1, AddsOnce
<1>7. QED
  BY <1>1, <1>2, <1>6

LEMMA QuantityOfNone == Quantity({}) = 0
<1>1. IsFiniteSet({})
  BY FS_EmptySet
<1>2. Quantity({}) = TotalOver([n \in {} |-> n.qty], {})
  BY <1>1, QuantityIsTotal
<1>3. TotalOver([n \in {} |-> n.qty], {}) = 0
  <2> DEFINE f == [n \in {} |-> n.qty]
  <2>1. \A x \in {} : f[x] = 0
    OBVIOUS
  <2> HIDE DEF f
  <2>2. TotalOver(f, {}) = 0
    BY <1>1, <2>1, TotalZero
  <2>3. QED
    BY <2>2 DEF f
<1>4. QED
  BY <1>2, <1>3

LEMMA QuantityOfOne ==
  ASSUME NEW n, n.qty \in Int
  PROVE  Quantity({n}) = n.qty
<1> DEFINE f == [x \in {n} |-> x.qty]
<1>1. IsFiniteSet({n}) /\ IsFiniteSet({})
  BY FS_EmptySet, FS_Singleton
<1>2. Quantity({n}) = TotalOver(f, {n})
  BY <1>1, QuantityIsTotal
<1>3. f[n] = n.qty /\ \A x \in {n} : f[x] \in Int
  OBVIOUS
<1> HIDE DEF f
<1>4. TotalOver(f, {n}) = f[n] + TotalOver(f, {n} \ {n})
  <2>1. n \in {n}
    OBVIOUS
  <2>2. QED
    BY <1>1, <1>3, <2>1, TotalWithout
<1>5. TotalOver(f, {}) = 0
  BY <1>1, TotalZero
<1>6. {n} \ {n} = {}
  OBVIOUS
<1>7. QED
  BY <1>2, <1>3, <1>4, <1>5, <1>6

\* Draft lines give way to others.
LEMMA DraftsReplaced ==
  ASSUME OpeningInv, NEW gone \in SUBSET DraftLines, NEW new, Replace(gone, new, obLines),
         \A n \in new : n.doc \in Drafts \cup Unused
  PROVE  DraftLines' = (DraftLines \ gone) \cup new
<1>1. /\ obLines' = (obLines \ gone) \cup new
      /\ docs' = [d \in Docs |-> IF docs[d] = None /\ \E n \in new : n.doc = d THEN "DRAFT" ELSE docs[d]]
  BY DEF Replace
<1>2. ASSUME NEW n \in obLines
      PROVE  n.doc \in Docs /\ docs'[n.doc] = docs[n.doc]
  BY <1>1 DEF OpeningInv, LinesFit, ObLine
<1>3. ASSUME NEW n \in new
      PROVE  n.doc \in Docs /\ docs'[n.doc] = "DRAFT"
  BY <1>1 DEF Drafts, Unused, None
<1>4. ASSUME NEW n \in DraftLines' PROVE n \in (DraftLines \ gone) \cup new
  <2>1. n \in obLines' /\ docs'[n.doc] = "DRAFT"
    BY <1>4 DEF DraftLines, Drafts
  <2>2. CASE n \in new
    BY <2>2
  <2>3. CASE n \notin new
    BY <1>1, <1>2, <2>1, <2>3 DEF DraftLines, Drafts
  <2>4. QED
    BY <2>2, <2>3
<1>5. ASSUME NEW n \in (DraftLines \ gone) \cup new PROVE n \in DraftLines'
  <2>1. CASE n \in new
    BY <1>1, <1>3, <2>1 DEF DraftLines, Drafts
  <2>2. CASE n \in DraftLines \ gone
    BY <1>1, <1>2, <2>2 DEF DraftLines, Drafts
  <2>3. QED
    BY <1>5, <2>1, <2>2
<1>6. QED
  BY <1>4, <1>5

\* New lines go to a document that is open or created.
LEMMA HomeIsDraft ==
  ASSUME NEW i, NEW l, NEW v, v.open = Drafts, v.seen = DraftLines
  PROVE  Home(v.open) \in Drafts \cup Unused \cup {NoDoc} /\ HomeOf(v, i, l) \in Drafts \cup Unused \cup {NoDoc}
<1>1. Drafts \in SUBSET Docs /\ Unused \in SUBSET Docs
  BY DEF Drafts, Unused
<1>2. Home(v.open) \in Drafts \cup Unused \cup {NoDoc}
  BY <1>1, OldestIsThere DEF Home
<1>3. ASSUME LinesAt(DraftLines, i, l) # {}
      PROVE  Least({n.doc : n \in LinesAt(DraftLines, i, l)}) \in Drafts
  <2> DEFINE D == {n.doc : n \in LinesAt(DraftLines, i, l)}
  <2>1. D \in SUBSET Drafts /\ D # {}
    BY <1>3 DEF LinesAt, DraftLines
  <2> HIDE DEF D
  <2>2. Least(D) \in D
    BY <1>1, <2>1, OldestIsThere
  <2>3. QED
    BY <2>1, <2>2 DEF D
<1>4. QED
  BY <1>2, <1>3 DEF HomeOf

LEMMA EnteredLines ==
  ASSUME OpeningInv, NEW r, StillFound("write", task[r]), NEW i \in Items, NEW qty, NEW cost, Enter(r, i, qty, cost)
  PROVE  \E where : DraftLines' = (DraftLines \ UNION {LinesAt(DraftLines, i, l) : l \in DOMAIN qty})
                                  \cup {Line(where[l], i, l, qty[l], cost, task[r].stamp) : l \in DOMAIN qty}
<1>1. PICK v \in Views(r) :
        Replace(UNION {LinesAt(v.seen, i, l) : l \in DOMAIN qty},
                {Line(HomeOf(v, i, l), i, l, qty[l], cost, task[r].stamp) : l \in DOMAIN qty}, obLines)
  BY DEF Enter, HomeOf
<1>2. v.open = Drafts /\ v.seen = DraftLines
  BY ViewCurrent
<1> DEFINE where == [l \in DOMAIN qty |-> HomeOf(v, i, l)]
           gone == UNION {LinesAt(DraftLines, i, l) : l \in DOMAIN qty}
           new == {Line(where[l], i, l, qty[l], cost, task[r].stamp) : l \in DOMAIN qty}
<1>3. Replace(gone, new, obLines)
  <2>1. gone = UNION {LinesAt(v.seen, i, l) : l \in DOMAIN qty}
    BY <1>2
  <2>2. new = {Line(HomeOf(v, i, l), i, l, qty[l], cost, task[r].stamp) : l \in DOMAIN qty}
    OBVIOUS
  <2> HIDE DEF gone, new
  <2>3. QED
    BY <1>1, <2>1, <2>2
<1>4. gone \in SUBSET DraftLines
  BY DEF LinesAt
<1>5. ASSUME NEW n \in new PROVE n.doc \in Drafts \cup Unused
  <2>1. PICK l \in DOMAIN qty : n = Line(HomeOf(v, i, l), i, l, qty[l], cost, task[r].stamp)
    OBVIOUS
  <2>2. n.doc = HomeOf(v, i, l)
    BY <2>1 DEF Line
  <2>3. n.doc # NoDoc
    <3> HIDE DEF new, gone
    <3>1. QED
      BY <1>3, <1>5 DEF Replace
  <2>4. QED
    BY <1>2, <2>2, <2>3, HomeIsDraft
<1>6. DraftLines' = (DraftLines \ gone) \cup new
  <2> HIDE DEF gone, new
  <2>1. QED
    BY <1>3, <1>4, <1>5, DraftsReplaced
<1> HIDE DEF where
<1>7. QED
  BY <1>6

\* An import leaves what its file says.
LEMMA ImportStands ==
  ASSUME OpeningInv, OpeningSerial, NEW r \in Tasks, WriteImport(r), draftRows' # draftRows,
         NEW i \in Items, task[r].on = i, NEW l \in Locations
  PROVE  DraftAt(i, l)' = IF l \in DOMAIN task[r].qty THEN task[r].qty[l] ELSE DraftAt(i, l)
<1> DEFINE qty == task[r].qty
<1>1. taskPc[r] = "write" /\ \E cost : Enter(r, i, qty, cost)
  BY DEF WriteImport, KeepDrafts
<1>2. StillFound("write", task[r]) /\ IsQuantities(qty)
  BY <1>1 DEF OpeningSerial, OpeningInv, TasksFit, TaskFits, WriteImport
<1>3. PICK cost : Enter(r, i, qty, cost)
  BY <1>1
<1> DEFINE stamp == task[r].stamp
           gone == UNION {LinesAt(DraftLines, i, m) : m \in DOMAIN qty}
<1>4. PICK where : DraftLines' = (DraftLines \ gone) \cup {Line(where[m], i, m, qty[m], cost, stamp) : m \in DOMAIN qty}
  BY <1>2, <1>3, EnteredLines
<1> HIDE DEF qty, stamp
<1>5. DraftAt(i, l)' = Quantity(LinesAt(DraftLines', i, l))
  BY DEF DraftAt, LinesAt
<1>6. \A m : Line(where[m], i, m, qty[m], cost, stamp).item = i /\ Line(where[m], i, m, qty[m], cost, stamp).loc = m
             /\ Line(where[m], i, m, qty[m], cost, stamp).qty = qty[m]
  BY DEF Line
<1>7. CASE l \in DOMAIN qty
  <2> DEFINE n == Line(where[l], i, l, qty[l], cost, stamp)
  <2>1. LinesAt(DraftLines', i, l) = {n}
    BY <1>4, <1>6, <1>7 DEF LinesAt
  <2>2. n.qty = qty[l] /\ qty[l] \in Int
    BY <1>2, <1>6, <1>7 DEF IsQuantities
  <2> HIDE DEF n
  <2>3. QED
    BY <1>5, <1>7, <2>1, <2>2, QuantityOfOne DEF qty
<1>8. CASE l \notin DOMAIN qty
  <2>1. LinesAt(DraftLines', i, l) = LinesAt(DraftLines, i, l)
    BY <1>4, <1>6, <1>8 DEF LinesAt
  <2>2. QED
    BY <1>5, <1>8, <2>1 DEF DraftAt, qty
<1>9. QED
  BY <1>7, <1>8

\* A new item has one line, of what it was created with.
LEMMA CreateStands ==
  ASSUME OpeningInv, OpeningSerial, NEW r \in Tasks, WriteCreate(r), draftRows' # draftRows,
         NEW i \in Items, task[r].on = i
  PROVE  DraftQty(i)' = task[r].data["opening"]
<1> DEFINE q == task[r].data["opening"]
           s == Written(task[r].data, NoItem).store
           stamp == task[r].stamp
<1>1. taskPc[r] = "write" /\ ~item[i].there /\ Opens(task[r].data) /\ \E cost : Enter(r, i, [l \in {s} |-> q], cost)
  BY DEF WriteCreate, KeepDrafts
<1>2. StillFound("write", task[r]) /\ IsColumns(task[r].data)
  BY <1>1 DEF OpeningSerial, OpeningInv, TasksFit, TaskFits
<1>3. q \in Int
  BY <1>1, <1>2 DEF Opens, Has, IsColumns
<1> HIDE DEF q, s, stamp
<1>4. PICK cost : Enter(r, i, [l \in {s} |-> q], cost)
  BY <1>1
<1> DEFINE qty == [l \in {s} |-> q]
<1>5. PICK where : DraftLines' = (DraftLines \ UNION {LinesAt(DraftLines, i, m) : m \in DOMAIN qty})
                                 \cup {Line(where[m], i, m, qty[m], cost, stamp) : m \in DOMAIN qty}
  <2> HIDE DEF qty
  <2>1. Enter(r, i, qty, cost)
    BY <1>4 DEF qty
  <2>2. QED
    BY <1>2, <2>1, EnteredLines DEF stamp
<1>6. DOMAIN qty = {s} /\ qty[s] = q
  OBVIOUS
<1> HIDE DEF qty
<1>7. \A n \in DraftLines : n.item # i
  BY <1>1 DEF OpeningInv, LinesFit, DraftLines, There
<1> DEFINE n == Line(where[s], i, s, q, cost, stamp)
<1>8. n.item = i /\ n.qty = q
  BY DEF Line
<1>9. LinesOf(DraftLines', i) = {n}
  <2>1. {Line(where[m], i, m, qty[m], cost, stamp) : m \in DOMAIN qty} = {n}
    BY <1>6
  <2> HIDE DEF n
  <2>2. QED
    BY <1>5, <1>7, <1>8, <2>1 DEF LinesOf
<1>10. DraftQty(i)' = Quantity(LinesOf(DraftLines', i))
  BY DEF DraftQty, LinesOf
<1> HIDE DEF n
<1>11. QED
  BY <1>3, <1>8, <1>9, <1>10, QuantityOfOne DEF q

\* An update leaves the total that it was given.
LEMMA UpdateStands ==
  ASSUME OpeningInv, OpeningSerial, NEW r \in Tasks, WriteUpdate(r), "opening" \in DOMAIN task[r].data,
         NEW i \in Items, task[r].on = i
  PROVE  DraftQty(i)' = task[r].data["opening"]
<1> DEFINE q == task[r].data["opening"]
           row == Written(task[r].data, item[i])
<1>1. taskPc[r] = "write" /\ EnterTotal(r, i, row, q)
  BY DEF WriteUpdate, Has
<1>2. StillFound("write", task[r]) /\ IsColumns(task[r].data)
  BY <1>1 DEF OpeningSerial, OpeningInv, TasksFit, TaskFits, WriteUpdate
<1>3. q \in Int
  BY <1>1, <1>2 DEF IsColumns
<1> HIDE DEF q, row
<1>4. PICK v \in Views(r) :
        Replace(LinesOf(v.seen, i),
                IF q = 0 THEN {} ELSE {Line(Home(v.open), i, row.store, q, row.price, task[r].stamp)}, obLines)
  BY <1>1 DEF EnterTotal
<1>5. v.open = Drafts /\ v.seen = DraftLines
  BY <1>2, ViewCurrent
<1> DEFINE n == Line(Home(v.open), i, row.store, q, row.price, task[r].stamp)
           new == IF q = 0 THEN {} ELSE {n}
<1>6. n.item = i /\ n.qty = q /\ n.doc = Home(v.open)
  BY DEF Line
<1>7. Replace(LinesOf(DraftLines, i), new, obLines)
  BY <1>4, <1>5
<1> HIDE DEF n
<1>8. LinesOf(DraftLines, i) \in SUBSET DraftLines
  BY DEF LinesOf
<1>9. \A m \in new : m.doc \in Drafts \cup Unused
  <2>1. Home(v.open) \in Drafts \cup Unused \cup {NoDoc}
    BY <1>5, HomeIsDraft
  <2>2. QED
    BY <1>6, <1>7, <2>1 DEF Replace
<1>10. DraftLines' = (DraftLines \ LinesOf(DraftLines, i)) \cup new
  <2> HIDE DEF new
  <2>1. QED
    BY <1>7, <1>8, <1>9, DraftsReplaced
<1>11. LinesOf(DraftLines', i) = new
  BY <1>6, <1>10 DEF LinesOf
<1>12. DraftQty(i)' = Quantity(LinesOf(DraftLines', i))
  BY DEF DraftQty, LinesOf
<1>13. Quantity(new) = q
  <2>1. CASE q = 0
    BY <2>1, QuantityOfNone
  <2>2. CASE q # 0
    BY <1>3, <1>6, <2>2, QuantityOfOne
  <2>3. QED
    BY <2>1, <2>2
<1>14. QED
  BY <1>11, <1>12, <1>13 DEF q

\* A finalization makes the stock what the drafts say.
LEMMA FinalizeStands ==
  ASSUME OpeningInv, OpeningSerial, NEW r \in Tasks, WriteFinalize(r)
  PROVE  /\ Drafts' = {} /\ ObStatus' = "FINALIZED"
         /\ \A x \in Bins : LinesAt(DraftLines, x[1], x[2]) = {} => inStock'[x] = inStock[x] /\ opened'[x] = opened[x]
         /\ \A x \in Bins : LinesAt(DraftLines, x[1], x[2]) # {}
                            => \E n \in LinesAt(DraftLines, x[1], x[2]) : inStock'[x] = n.qty
         /\ \A n \in DraftLines : docs'[n.doc] = "POSTED"
<1>1. task[r].open = Drafts /\ task[r].seen = DraftLines /\ task[r].stock \in [Bins -> Int]
  BY DEF OpeningSerial, StillFound, WriteFinalize, OpeningInv, StockFits
<1>2. /\ \A n \in DraftLines : item[n.item].there /\ shelf[n.loc] # None
      /\ Book(r, DraftLines) /\ docs' = [d \in Docs |-> IF d \in Drafts THEN "POSTED" ELSE docs[d]]
      /\ allow' = "LOCKED" /\ snapshot' = TRUE /\ UNCHANGED catalogueRows
  BY <1>1 DEF WriteFinalize
<1>3. There' = There /\ Present' = Present
  BY <1>2, RowsSame
<1>4. DraftLines \in SUBSET ObLine /\ Fitting(DraftLines)
  BY <1>3, LinesStay DEF Fitting, DraftLines
<1>5. Drafts' = {}
  BY <1>2 DEF Drafts
<1>6. ObStatus' = "FINALIZED"
  BY <1>2 DEF ObStatus
<1>7. \A n \in DraftLines : docs'[n.doc] = "POSTED"
  BY <1>2 DEF DraftLines, Drafts
<1>8. QED
  BY <1>1, <1>2, <1>3, <1>4, <1>5, <1>6, <1>7, Booked DEF OpeningInv

\* Only a transaction ends a request with other drafts than before.
LEMMA WhoEnds ==
  ASSUME OpeningInv, OpeningNext, NEW r \in Tasks, NEW kind, Succeeds(r, kind)
  PROVE  /\ kind = "create" => WriteCreate(r)
         /\ kind = "update" => WriteUpdate(r)
         /\ kind = "import" => WriteImport(r)
         /\ kind = "finalize" => WriteFinalize(r)
<1>1. task[r].kind = kind /\ taskPc[r] # "idle" /\ taskPc'[r] = "idle" /\ draftRows' # draftRows
  BY DEF Succeeds
<1>2. ~Outside
  BY <1>1, OutsideWaits
<1>3. ASSUME NEW q \in Tasks, TaskStarts(q) PROVE FALSE
  <2>1. UNCHANGED preview
    BY <1>3, StartsBegin
  <2>2. PICK k, on, data, qty : Begin(q, k, on, data, qty) /\ Sensible(k, on, data, qty)
    BY <1>3, StartsBegin
  <2>3. UNCHANGED draftRows
    BY <2>1, <2>2, TaskBegins
  <2>4. QED
    BY <1>1, <2>3
<1>4. TaskGoesOn(r)
  <2>1. PICK q \in Tasks : TaskGoesOn(q)
    BY <1>2, <1>3, OpeningActs
  <2>2. q = r
    BY <1>1, <2>1, TaskMoves
  <2>3. QED
    BY <2>1, <2>2
<1>5. WriteCreate(r) \/ WriteUpdate(r) \/ WriteImport(r) \/ WriteDeleteItem(r) \/ WriteFinalize(r)
      \/ WritePost(r)
  <2>1. WriteDeleteEntry(r) \/ WriteEnable(r) \/ ClearSnapshot(r) \/ FinalizeReads(r) \/ Refuse(r)
          => draftRows' = draftRows
    BY DEF WriteDeleteEntry, WriteEnable, ClearSnapshot, FinalizeReads, Refuse, Fails
  <2>2. QED
    BY <1>1, <1>4, <2>1 DEF TaskGoesOn
<1>6. WriteFinalize(r) => task[r].kind = "finalize"
  BY DEF WriteFinalize, OpeningInv, TasksFit, TaskFits
<1>7. QED
  BY <1>1, <1>5, <1>6 DEF WriteCreate, WriteUpdate, WriteImport, WriteDeleteItem, WritePost

\* Only a posting and the deletion of an item change what was opened.
LEMMA OpenedStays ==
  ASSUME OpeningInv, OpeningNext, opened' # opened
  PROVE  \E r \in Tasks : WriteFinalize(r) \/ WriteDeleteItem(r) \/ WritePost(r)
<1>1. ASSUME NEW r \in Tasks, TaskStarts(r) PROVE FALSE
  <2>1. UNCHANGED preview
    BY <1>1, StartsBegin
  <2>2. PICK k, on, data, qty : Begin(r, k, on, data, qty) /\ Sensible(k, on, data, qty)
    BY <1>1, StartsBegin
  <2>3. UNCHANGED stockRows
    BY <2>1, <2>2, TaskBegins
  <2>4. QED
    BY <2>3 DEF stockRows
<1>2. ASSUME NEW r \in Tasks, TaskGoesOn(r) PROVE WriteFinalize(r) \/ WriteDeleteItem(r) \/ WritePost(r)
  <2>1. WriteCreate(r) \/ WriteUpdate(r) \/ WriteImport(r) \/ WriteDeleteEntry(r) \/ WriteEnable(r)
          \/ ClearSnapshot(r) \/ FinalizeReads(r) \/ Refuse(r) => opened' = opened
    BY DEF WriteCreate, WriteUpdate, WriteImport, WriteDeleteEntry, WriteEnable, ClearSnapshot, FinalizeReads,
           Refuse, Fails, stockRows
  <2>2. QED
    BY <1>2, <2>1 DEF TaskGoesOn
<1>3. ASSUME Outside PROVE FALSE
  <2>1. Maintain => opened' = opened
    BY DEF Maintain, stockRows
  <2>2. ForgetPreview \/ (\E sheet \in Sheets : ParseImportFile(sheet)) => opened' = opened
    BY DEF ForgetPreview, ParseImportFile, stockRows
  <2>3. (\E value \in {"OPEN", "LOCKED"} : SetAllow(value)) => opened' = opened
    BY DEF SetAllow, stockRows
  <2>4. (\E i \in Items, l \in Locations, q \in Drafted : DraftDocument(i, l, q)) => opened' = opened
    BY DEF DraftDocument, stockRows
  <2>5. (\E i \in Items, l \in Locations, q \in {-1, 1} : OtherMovement(i, l, q)) => opened' = opened
    BY DEF OtherMovement
  <2>6. QED
    BY <1>3, <2>1, <2>2, <2>3, <2>4, <2>5 DEF Outside
<1>4. QED
  BY <1>1, <1>2, <1>3, OpeningActs

LEMMA OpenedStands ==
  ASSUME OpeningInv, OpeningSerial, OpeningNext, NEW i \in Items, NEW l \in Locations,
         opened'[<<i, l>>] # opened[<<i, l>>]
  PROVE  Posts(i, l) \/ (ObStatus = "OPEN" /\ ~item'[i].there)
<1>1. <<i, l>> \in Bins
  BY DEF Bins
<1>2. CASE \E r \in Tasks : WriteFinalize(r)
  <2>1. PICK r \in Tasks : WriteFinalize(r)
    BY <1>2
  <2>2. /\ LinesAt(DraftLines, i, l) = {} => opened'[<<i, l>>] = opened[<<i, l>>]
        /\ \A n \in DraftLines : docs'[n.doc] = "POSTED"
    BY <1>1, <2>1, FinalizeStands
  <2>3. QED
    BY <2>2 DEF Posts, LinesAt
<1>3. CASE \E r \in Tasks : WritePost(r)
  BY <1>1, <1>3, PostAlone DEF Posts
<1>4. CASE \E r \in Tasks : WriteDeleteItem(r)
  <2>1. PICK r \in Tasks : WriteDeleteItem(r)
    BY <1>4
  <2>2. /\ taskPc[r] = "write" /\ task[r].kind = "delete item"
        /\ opened' = [x \in Bins |-> IF task[r].stage = "OPEN" /\ x[1] = task[r].on THEN 0 ELSE opened[x]]
        /\ item' = [item EXCEPT ![task[r].on] = NoItem]
    BY <2>1 DEF WriteDeleteItem
  <2>3. task[r].stage = "OPEN" /\ task[r].on = i
    BY <1>1, <2>2
  <2>4. ObStatus = "OPEN"
    BY <2>2, <2>3 DEF OpeningSerial, StillFound
  <2>5. item'[i] = NoItem
    BY <2>2, <2>3 DEF OpeningInv, CatalogueTypeOK
  <2>6. QED
    BY <2>4, <2>5 DEF NoItem
<1>5. QED
  BY <1>2, <1>3, <1>4, OpenedStays

\* While no two requests overlap, drafts are what was entered last, the stock
\* becomes what they say, and what was posted stays until a posting or the
\* deletion of its item: item.service.js, setting.service.js.
THEOREM OpeningIsKept == OpeningHistorySpec => OpeningStands
<1> DEFINE EntriesHold(r, i) ==
             LET data == task[r].data
                 qty == task[r].qty
             IN  /\ Succeeds(r, "import")
                    => \A l \in Locations :
                         DraftAt(i, l)' = IF l \in DOMAIN qty THEN qty[l] ELSE DraftAt(i, l)
                 /\ Succeeds(r, "create") => DraftQty(i)' = data["opening"]
                 /\ Succeeds(r, "update") /\ "opening" \in DOMAIN data => DraftQty(i)' = data["opening"]
           Final(r) ==
             /\ Drafts' = {} /\ ObStatus' = "FINALIZED"
             /\ \A x \in Bins : LET drafted == LinesAt(DraftLines, x[1], x[2])
                  IN  IF drafted = {} THEN inStock'[x] = inStock[x]
                      ELSE \E n \in drafted : inStock'[x] = n.qty
           Opened(i, l) ==
             opened'[<<i, l>>] # opened[<<i, l>>] => Posts(i, l) \/ (ObStatus = "OPEN" /\ ~item'[i].there)
<1>1. ASSUME OpeningInv, OpeningSerial, OpeningNext, NEW r \in Tasks, NEW i \in Items, task[r].on = i
      PROVE  EntriesHold(r, i)
  <2>1. ASSUME Succeeds(r, "import"), NEW l \in Locations
        PROVE  DraftAt(i, l)' = IF l \in DOMAIN task[r].qty THEN task[r].qty[l] ELSE DraftAt(i, l)
    <3>1. WriteImport(r) /\ draftRows' # draftRows
      BY <1>1, <2>1, WhoEnds DEF Succeeds
    <3>2. QED
      BY <1>1, <3>1, ImportStands
  <2>2. ASSUME Succeeds(r, "create") PROVE DraftQty(i)' = task[r].data["opening"]
    <3>1. WriteCreate(r) /\ draftRows' # draftRows
      BY <1>1, <2>2, WhoEnds DEF Succeeds
    <3>2. QED
      BY <1>1, <3>1, CreateStands
  <2>3. ASSUME Succeeds(r, "update"), "opening" \in DOMAIN task[r].data PROVE DraftQty(i)' = task[r].data["opening"]
    <3>1. WriteUpdate(r)
      BY <1>1, <2>3, WhoEnds
    <3>2. QED
      BY <1>1, <2>3, <3>1, UpdateStands
  <2>4. QED
    BY <2>1, <2>2, <2>3
<1>2. ASSUME OpeningInv, OpeningSerial, OpeningNext, NEW r \in Tasks, Succeeds(r, "finalize")
      PROVE  Final(r)
  <2>1. WriteFinalize(r)
    BY <1>2, WhoEnds
  <2>2. QED
    BY <1>2, <2>1, FinalizeStands
<1>3. ASSUME OpeningInv, OpeningSerial, OpeningNext, NEW i \in Items, NEW l \in Locations
      PROVE  Opened(i, l)
  BY <1>3, OpenedStands
<1>4. ASSUME OpeningWhole, [OpeningHistoryNext]_<<openingVars, openingOverlapped>>
      PROVE  [Overlaps!Alone(
                /\ \A r \in Tasks, i \in Items : task[r].on = i => EntriesHold(r, i)
                /\ \A r \in Tasks : Succeeds(r, "finalize") => Final(r)
                /\ \A i \in Items, l \in Locations : Opened(i, l))]_openingVars
  <2>1. CASE OpeningHistoryNext /\ ~openingOverlapped
    <3>1. OpeningInv /\ OpeningSerial /\ OpeningNext
      BY <1>4, <2>1 DEF OpeningWhole, OpeningHistoryNext
    <3> HIDE DEF EntriesHold, Final, Opened
    <3>2. QED
      BY <1>1, <1>2, <1>3, <3>1 DEF Overlaps!Alone
  <2>2. QED
    BY <1>4, <2>1 DEF Overlaps!Alone
<1>5. QED
  BY <1>4, OpeningWholeAlways, PTL DEF OpeningHistorySpec, OpeningStands
=============================================================================
