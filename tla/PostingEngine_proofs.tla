----------------------- MODULE PostingEngine_proofs -----------------------
(***************************************************************************)
(* Proofs about the posting engine for every set of balances, documents,   *)
(* line lists and requests.                                                *)
(***************************************************************************)
EXTENDS PostingProperties, Sums_proofs

\* What the ledger rows of the types add up to is an integer.
LEMMA RowQtyType ==
  ASSUME NEW k \in Kinds, NEW s \in {"out", "in", "adjust"},
         NEW line \in Line, NEW current \in Int
  PROVE  /\ RowQty(k, s, line, current) \in Int
         /\ BalanceChange(k, s, line, current) \in Int
  BY DEF RowQty, BalanceChange, Line

\* A section works on one of the balances its line names.
LEMMA CellOfType ==
  ASSUME NEW k, NEW s, NEW line \in Line
  PROVE  CellOf(k, s, line) \in Cells
  BY DEF CellOf, Line

\* A movement type other than an opening balance changes the balance by the
\* amount its ledger row says, whatever was read before.
LEMMA RelativeChange ==
  ASSUME NEW k \in Kinds, k # "OPENING_BALANCE", NEW s \in {"out", "in", "adjust"},
         NEW line \in Line, NEW read \in Int, NEW current \in Int
  PROVE  RowQty(k, s, line, read) = BalanceChange(k, s, line, current)
  BY DEF RowQty, BalanceChange, Line

-----------------------------------------------------------------------------
(* Type correctness.  The type invariant is inductive together with the    *)
(* position of a request in the lines it read.                             *)

\* A request that has a line to work on is inside the lines it read.
Position ==
  \A r \in Requests :
    pc[r] \in {"read", "write"} => idx[r] \in 1 .. Len(work[r])

\* The line, the balance and the kind a running request works on are typed.
LEMMA PositionTyping ==
  ASSUME TypeOK, Position, NEW r \in Requests, pc[r] \in {"read", "write"}
  PROVE  /\ CurrentLine(r) \in Line
         /\ CurrentCell(r) \in Cells
         /\ Kind[job[r]] \in Kinds
<1>1. work[r] \in Seq(Line) /\ idx[r] \in 1 .. Len(work[r])
  BY DEF TypeOK, RowsTypeOK, Position
<1>2. CurrentLine(r) \in Line
  BY <1>1 DEF CurrentLine
<1>3. Kind[job[r]] \in Kinds
  BY KindAssumption DEF TypeOK, RowsTypeOK
<1>4. QED
  BY <1>2, <1>3, CellOfType DEF CurrentCell

\* What a client may save in a document is a list of lines.
LEMMA DraftTyping ==
  ASSUME NEW d \in Docs, NEW ls \in Drafts[d]
  PROVE  ls \in Seq(Line)
  BY DraftsAssumption

\* The type invariant holds before the first request.
LEMMA TypeInit == Init => TypeOK /\ Position
<1> SUFFICES ASSUME Init PROVE TypeOK /\ Position
  OBVIOUS
<1>1. NoJob \in Docs
  BY PeriodAssumption DEF NoJob
<1>2. Zero \in [Cells -> Int]
  BY DEF Zero
<1>3. <<>> \in Seq(Line)
  OBVIOUS
<1> HIDE DEF NoJob, Zero
<1>4. TypeOK
  BY <1>1, <1>2, <1>3 DEF Init, RowsInit, TypeOK, RowsTypeOK, Statuses
<1>5. Position
  BY DEF Init, RowsInit, Position
<1>6. QED
  BY <1>4, <1>5

\* Where a section leaves the request.
LEMMA AdvanceType ==
  ASSUME TypeOK, Position, NEW r \in Requests, pc[r] = "write",
         Advance(r), UNCHANGED work
  PROVE  /\ pc' \in [Requests -> {"idle", "edit", "guard", "read", "write", "commit"}]
         /\ sec' \in [Requests -> {"out", "in", "adjust"}]
         /\ idx' \in [Requests -> Nat \ {0}]
         /\ Position'
<1>1. idx[r] \in Nat /\ Len(work[r]) \in Nat /\ idx[r] \in 1 .. Len(work[r])
  BY DEF TypeOK, RowsTypeOK, Position
<1>2. FirstSection(Kind[job[r]]) \in {"out", "in", "adjust"}
  BY DEF FirstSection
<1> HIDE DEF FirstSection
<1>3. CASE HasNextSection(Kind[job[r]], sec[r])
  BY <1>1, <1>3 DEF Advance, TypeOK, RowsTypeOK, Position
<1>4. CASE ~HasNextSection(Kind[job[r]], sec[r]) /\ idx[r] < Len(work[r])
  <2>1. /\ pc' = [pc EXCEPT ![r] = "read"]
        /\ sec' = [sec EXCEPT ![r] = FirstSection(Kind[job[r]])]
        /\ idx' = [idx EXCEPT ![r] = idx[r] + 1]
        /\ work' = work
    BY <1>4 DEF Advance
  <2>2. idx[r] + 1 \in Nat \ {0} /\ idx[r] + 1 \in 1 .. Len(work[r])
    BY <1>1, <1>4
  <2>3. Position'
    BY <2>1, <2>2 DEF TypeOK, RowsTypeOK, Position
  <2>4. QED
    BY <2>1, <2>2, <2>3, <1>2 DEF TypeOK, RowsTypeOK
<1>5. CASE ~HasNextSection(Kind[job[r]], sec[r]) /\ ~(idx[r] < Len(work[r]))
  BY <1>5 DEF Advance, TypeOK, RowsTypeOK, Position
<1>6. QED
  BY <1>3, <1>4, <1>5

\* The end of a transaction leaves the request typed, and idle.
LEMMA EndTransactionType ==
  ASSUME TypeOK, Position, NEW r \in Requests, Forget(r), Return(r)
  PROVE  /\ pc' \in [Requests -> {"idle", "edit", "guard", "read", "write", "commit"}]
         /\ job' \in [Requests -> Docs]
         /\ work' \in [Requests -> Seq(Line)]
         /\ idx' \in [Requests -> Nat \ {0}]
         /\ sec' \in [Requests -> {"out", "in", "adjust"}]
         /\ seen' \in [Requests -> Int]
         /\ pend' \in [Requests -> [Cells -> Int]]
         /\ rows' \in [Requests -> [Cells -> Int]]
         /\ held' \in [Requests -> SUBSET Cells]
         /\ Position'
<1>1. NoJob \in Docs
  BY PeriodAssumption DEF NoJob
<1>2. Zero \in [Cells -> Int]
  BY DEF Zero
<1>3. <<>> \in Seq(Line)
  OBVIOUS
<1> HIDE DEF NoJob, Zero
<1>4. QED
  BY <1>1, <1>2, <1>3 DEF Return, Forget, TypeOK, RowsTypeOK, Position

\* Every step keeps the type invariant.
LEMMA TypeStep == TypeOK /\ Position /\ [Next]_vars => TypeOK' /\ Position'
<1> SUFFICES ASSUME TypeOK, Position, [Next]_vars PROVE TypeOK' /\ Position'
  OBVIOUS
<1>1. ASSUME NEW r \in Requests, NEW d \in Docs, CreateDraft(r, d)
      PROVE  TypeOK' /\ Position'
  <2>1. PICK ls \in Drafts[d] : lines' = [lines EXCEPT ![d] = ls]
    BY <1>1 DEF CreateDraft
  <2>2. ls \in Seq(Line)
    BY DraftTyping
  <2>3. QED
    BY <1>1, <2>1, <2>2
       DEF CreateDraft, TypeOK, RowsTypeOK, Position, Statuses, settings, local,
           committed, uncommitted
<1>2. ASSUME NEW r \in Requests, NEW d \in Docs, BeginEdit(r, d)
      PROVE  TypeOK' /\ Position'
  BY <1>2 DEF BeginEdit, TypeOK, RowsTypeOK, Position, committed, uncommitted,
              documents, settings
<1>3. ASSUME NEW r \in Requests, NEW d \in Docs, BeginPost(r, d)
      PROVE  TypeOK' /\ Position'
  BY <1>3 DEF BeginPost, TypeOK, RowsTypeOK, Position, committed, uncommitted,
              documents, settings
<1>4. ASSUME NEW r \in Requests, NEW v \in {"OPEN", "LOCKED"}, SetObSetting(r, v)
      PROVE  TypeOK' /\ Position'
  BY <1>4 DEF SetObSetting, TypeOK, RowsTypeOK, Position, committed, uncommitted,
              documents, local
<1>5. ASSUME NEW r \in Requests, NEW p \in Periods, CloseMonth(r, p)
      PROVE  TypeOK' /\ Position'
  BY <1>5 DEF CloseMonth, TypeOK, RowsTypeOK, Position, committed, uncommitted,
              documents, local
<1>6. ASSUME NEW r \in Requests, NEW p \in Periods, ReopenMonth(r, p)
      PROVE  TypeOK' /\ Position'
  BY <1>6 DEF ReopenMonth, TypeOK, RowsTypeOK, Position, committed, uncommitted,
              documents, local
<1>7. ASSUME NEW r \in Requests, FinishEdit(r)
      PROVE  TypeOK' /\ Position'
  <2>1. NoJob \in Docs /\ job[r] \in Docs
    BY PeriodAssumption DEF NoJob, TypeOK, RowsTypeOK
  <2>2. PICK ls \in Drafts[job[r]] : lines' = [lines EXCEPT ![job[r]] = ls]
    BY <1>7 DEF FinishEdit
  <2>3. ls \in Seq(Line)
    BY <2>1, DraftTyping
  <2> HIDE DEF NoJob
  <2>4. QED
    BY <1>7, <2>1, <2>2, <2>3 DEF FinishEdit, TypeOK, RowsTypeOK, Position, settings,
       committed, uncommitted
<1>8. ASSUME NEW r \in Requests, ReadBalance(r)
      PROVE  TypeOK' /\ Position'
  <2>1. Visible(r, CurrentCell(r)) \in Int
    BY <1>8, PositionTyping DEF ReadBalance, Select, Visible, TypeOK, RowsTypeOK
  <2>2. TypeOK'
    BY <1>8, <2>1 DEF ReadBalance, Select, TypeOK, RowsTypeOK, committed, uncommitted,
                      documents, settings,
       local
  <2>3. Position'
    BY <1>8 DEF ReadBalance, Select, Position, TypeOK, RowsTypeOK, local
  <2>4. QED
    BY <2>2, <2>3
<1>9. ASSUME NEW r \in Requests, WriteBalance(r)
      PROVE  TypeOK' /\ Position'
  <2> DEFINE c == CurrentCell(r)
             k == Kind[job[r]]
             row == RowQty(k, sec[r], CurrentLine(r), seen[r])
             change == BalanceChange(k, sec[r], CurrentLine(r), Visible(r, c))
  <2>1. c \in Cells /\ CurrentLine(r) \in Line /\ k \in Kinds
    BY <1>9, PositionTyping DEF WriteBalance, Update
  <2>2. Visible(r, c) \in Int /\ seen[r] \in Int /\ sec[r] \in {"out", "in", "adjust"}
    BY <2>1 DEF Visible, TypeOK, RowsTypeOK
  <2>3. row \in Int /\ change \in Int
    BY <2>1, <2>2, RowQtyType
  <2>4. /\ rows' = [rows EXCEPT ![r][c] = @ + row]
        /\ pend' = [pend EXCEPT ![r][c] = @ + change]
        /\ held' = [held EXCEPT ![r] = @ \cup {c}]
        /\ UNCHANGED <<committed, seen, documents, settings, job, work>>
        /\ pc[r] = "write" /\ Advance(r)
    BY <1>9 DEF WriteBalance, Update
  <2> HIDE DEF c, k, row, change
  <2>5. /\ rows' \in [Requests -> [Cells -> Int]]
        /\ pend' \in [Requests -> [Cells -> Int]]
        /\ held' \in [Requests -> SUBSET Cells]
    BY <2>1, <2>3, <2>4 DEF TypeOK, RowsTypeOK
  <2>6. QED
    BY <2>4, <2>5, AdvanceType DEF TypeOK, RowsTypeOK, committed, uncommitted,
                                   documents, settings
<1>10. ASSUME NEW r \in Requests, Refuse(r) \/ Rollback(r)
       PROVE  TypeOK' /\ Position'
  BY <1>10, EndTransactionType DEF Refuse, Rollback, RollbackRows, TypeOK, RowsTypeOK,
                                   committed, uncommitted, documents, settings
<1>11. ASSUME NEW r \in Requests, Commit(r)
       PROVE  TypeOK' /\ Position'
  <2>1. Forget(r) /\ Return(r) /\ job[r] \in Docs
    BY <1>11 DEF Commit, CommitRows, TypeOK, RowsTypeOK
  <2>2. onHand' \in [Cells -> Int] /\ ledger' \in [Cells -> Int]
    BY <1>11 DEF Commit, CommitRows, TypeOK, RowsTypeOK
  <2>3. booked' \in [Docs -> [Cells -> Int]]
    BY <1>11, <2>1 DEF Commit, CommitRows, TypeOK, RowsTypeOK
  <2>4. QED
    BY <1>11, <2>1, <2>2, <2>3, EndTransactionType
       DEF Commit, CommitRows, TypeOK, RowsTypeOK, Statuses
<1>12. ASSUME NEW r \in Requests, CheckGuards(r)
       PROVE  TypeOK' /\ Position'
  <2>1. FirstSection(Kind[job[r]]) \in {"out", "in", "adjust"}
    BY DEF FirstSection
  <2>2. work[r] \in Seq(Line) /\ (work[r] # <<>> => Len(work[r]) >= 1)
    BY DEF TypeOK, RowsTypeOK
  <2> HIDE DEF FirstSection
  <2>3. TypeOK'
    BY <1>12, <2>1 DEF CheckGuards, TypeOK, RowsTypeOK, committed, uncommitted,
                       documents, settings
  <2>4. Position'
    BY <1>12, <2>2 DEF CheckGuards, NothingToApply, TypeOK, RowsTypeOK, Position
  <2>5. QED
    BY <2>3, <2>4
<1>13. CASE UNCHANGED vars
  BY <1>13 DEF vars, committed, uncommitted, documents, settings, local, TypeOK,
               RowsTypeOK, Position
<1>14. QED
  BY <1>1, <1>2, <1>3, <1>4, <1>5, <1>6, <1>7, <1>8, <1>9, <1>10, <1>11, <1>12,
     <1>13 DEF Next, Arrive, Step, TransactionStep

\* Every reachable state of the engine is well typed.
THEOREM TypeCorrect == Spec => []TypeOK
<1>1. Spec => [](TypeOK /\ Position)
  BY TypeInit, TypeStep, PTL DEF Spec
<1>2. QED
  BY <1>1, PTL

-----------------------------------------------------------------------------
(* Ledger reconciliation.  Away from opening balances a section changes    *)
(* the balance by what its ledger row says, so what is uncommitted agrees  *)
(* too and Commit keeps the agreement, however requests interleave.        *)

\* Documents and requests hold line lists some client saved.
LinesFromDrafts ==
  /\ \A d \in Docs : lines[d] # <<>> => lines[d] \in Drafts[d]
  /\ \A r \in Requests :
       /\ pc[r] \in {"guard", "read", "write"} /\ work[r] # <<>>
       => work[r] \in Drafts[job[r]]

\* What a request has not committed reconciles as well.
UncommittedReconciles ==
  \A r \in Requests : \A c \in Cells \ OpeningCells : pend[r][c] = rows[r][c]

ReconcileInv == /\ TypeOK /\ Position
                /\ LinesFromDrafts
                /\ LedgerReconciles /\ UncommittedReconciles

\* Advancing one request moves no other.
LEMMA AdvanceReads ==
  ASSUME TypeOK, NEW r \in Requests, Advance(r)
  PROVE  \A q \in Requests : q # r => pc'[q] = pc[q]
  BY DEF Advance, TypeOK, RowsTypeOK

\* Every step keeps documents and requests on lines a client saved.
LEMMA LinesFromDraftsStep ==
  TypeOK /\ LinesFromDrafts /\ [Next]_vars => LinesFromDrafts'
<1> SUFFICES ASSUME TypeOK, LinesFromDrafts, [Next]_vars
             PROVE  LinesFromDrafts'
  OBVIOUS
<1> USE DEF LinesFromDrafts, TypeOK, RowsTypeOK
<1>1. ASSUME NEW r \in Requests, NEW d \in Docs, CreateDraft(r, d)
      PROVE  LinesFromDrafts'
  BY <1>1 DEF CreateDraft, local
<1>2. ASSUME NEW r \in Requests, NEW d \in Docs, BeginEdit(r, d)
      PROVE  LinesFromDrafts'
  BY <1>2 DEF BeginEdit, committed, uncommitted, documents
<1>3. ASSUME NEW r \in Requests, NEW d \in Docs, BeginPost(r, d)
      PROVE  LinesFromDrafts'
  BY <1>3 DEF BeginPost, Postable, committed, uncommitted, documents
<1>4. ASSUME NEW r \in Requests,
             \/ \E v \in {"OPEN", "LOCKED"} : SetObSetting(r, v)
             \/ \E p \in Periods : CloseMonth(r, p) \/ ReopenMonth(r, p)
      PROVE  LinesFromDrafts'
  BY <1>4 DEF SetObSetting, CloseMonth, ReopenMonth, committed, uncommitted,
              documents, local
<1>5. ASSUME NEW r \in Requests, FinishEdit(r)
      PROVE  LinesFromDrafts'
  <2>1. job[r] \in Docs
    OBVIOUS
  <2>2. QED
    BY <1>5, <2>1 DEF FinishEdit
<1>6. ASSUME NEW r \in Requests, ReadBalance(r)
      PROVE  LinesFromDrafts'
  BY <1>6 DEF ReadBalance, Select, committed, uncommitted, documents, local
<1>7. ASSUME NEW r \in Requests, WriteBalance(r)
      PROVE  LinesFromDrafts'
  <2>1. Advance(r) /\ pc[r] = "write" /\ UNCHANGED <<documents, job, work>>
    BY <1>7 DEF WriteBalance, Update
  <2>2. \A q \in Requests : q # r => pc'[q] = pc[q]
    BY <2>1, AdvanceReads
  <2>3. QED
    BY <2>1, <2>2 DEF committed, uncommitted, documents
<1>8. ASSUME NEW r \in Requests, Refuse(r) \/ Rollback(r)
      PROVE  LinesFromDrafts'
  <2>1. CASE Refuse(r)
    BY <2>1 DEF Refuse, RollbackRows, Return, committed, uncommitted, documents
  <2>2. CASE Rollback(r)
    BY <2>2 DEF Rollback, RollbackRows, Return, committed, uncommitted, documents
  <2>3. QED
    BY <1>8, <2>1, <2>2
<1>9. ASSUME NEW r \in Requests, Commit(r)
      PROVE  LinesFromDrafts'
  <2>1. UNCHANGED lines /\ pc' = [pc EXCEPT ![r] = "idle"]
        /\ work' = [work EXCEPT ![r] = <<>>] /\ job' = [job EXCEPT ![r] = NoJob]
    BY <1>9 DEF Commit, CommitRows, Return, RollbackRows, Forget
  <2>2. QED
    BY <2>1
<1>10. ASSUME NEW r \in Requests, CheckGuards(r)
       PROVE  LinesFromDrafts'
  BY <1>10 DEF CheckGuards, committed, uncommitted, documents
<1>11. CASE UNCHANGED vars
  BY <1>11 DEF vars, committed, uncommitted, documents, local
<1>12. QED
  BY <1>1, <1>2, <1>3, <1>4, <1>5, <1>6, <1>7, <1>8, <1>9, <1>10, <1>11
     DEF Next, Arrive, Step, TransactionStep

\* A request on an opening balance only touches cells declared for one.
LEMMA OpeningTouchesOpeningCells ==
  ASSUME TypeOK, Position, LinesFromDrafts, NEW r \in Requests, pc[r] = "write",
         Kind[job[r]] = "OPENING_BALANCE"
  PROVE  CurrentCell(r) \in OpeningCells
<1>0. work[r] # <<>>
  BY DEF TypeOK, RowsTypeOK, Position
<1>1. job[r] \in Docs /\ work[r] \in Drafts[job[r]] /\ idx[r] \in DOMAIN work[r]
  BY <1>0 DEF TypeOK, RowsTypeOK, Position, LinesFromDrafts
<1>2. CurrentCell(r) = work[r][idx[r]].src
  BY DEF CurrentCell, CurrentLine, CellOf
<1>3. CurrentCell(r) \in Cells
  BY PositionTyping
<1>4. QED
  BY <1>1, <1>2, <1>3 DEF OpeningCells

\* Every step keeps committed and uncommitted reconciliation.
LEMMA ReconcileStep == ReconcileInv /\ [Next]_vars => ReconcileInv'
<1> SUFFICES ASSUME ReconcileInv, [Next]_vars
             PROVE  LedgerReconciles' /\ UncommittedReconciles'
  BY TypeStep, LinesFromDraftsStep DEF ReconcileInv
<1> USE DEF ReconcileInv, LedgerReconciles, UncommittedReconciles
<1>1. ASSUME NEW r \in Requests, Arrive(r)
      PROVE  LedgerReconciles' /\ UncommittedReconciles'
  BY <1>1 DEF Arrive, CreateDraft, BeginEdit, BeginPost, SetObSetting, 
              CloseMonth, ReopenMonth, committed, uncommitted, documents, local
<1>2. ASSUME NEW r \in Requests,
             FinishEdit(r) \/ CheckGuards(r) \/ ReadBalance(r)
      PROVE  LedgerReconciles' /\ UncommittedReconciles'
  BY <1>2 DEF FinishEdit, CheckGuards, ReadBalance, Select, committed, uncommitted,
              documents
<1>3. ASSUME NEW r \in Requests, WriteBalance(r)
      PROVE  LedgerReconciles' /\ UncommittedReconciles'
  <2> DEFINE c == CurrentCell(r)
             k == Kind[job[r]]
             row == RowQty(k, sec[r], CurrentLine(r), seen[r])
             change == BalanceChange(k, sec[r], CurrentLine(r), Visible(r, c))
  <2>1. c \in Cells /\ CurrentLine(r) \in Line /\ k \in Kinds
    BY <1>3, PositionTyping DEF WriteBalance, Update
  <2>2. Visible(r, c) \in Int /\ seen[r] \in Int /\ sec[r] \in {"out", "in", "adjust"}
    BY <2>1 DEF Visible, TypeOK, RowsTypeOK
  <2>3. c \in OpeningCells \/ row = change
    BY <1>3, <2>1, <2>2, OpeningTouchesOpeningCells, RelativeChange
       DEF WriteBalance, Update
  <2>4. /\ rows' = [rows EXCEPT ![r][c] = @ + row]
        /\ pend' = [pend EXCEPT ![r][c] = @ + change]
        /\ UNCHANGED committed
    BY <1>3 DEF WriteBalance, Update
  <2> HIDE DEF c, k, row, change
  <2>5. UncommittedReconciles'
    BY <2>1, <2>3, <2>4 DEF TypeOK, RowsTypeOK
  <2>6. QED
    BY <2>4, <2>5 DEF committed, uncommitted, documents
<1>4. ASSUME NEW r \in Requests, Forget(r)
      PROVE  UncommittedReconciles'
  BY <1>4 DEF Return, RollbackRows, CommitRows, Forget, Zero, TypeOK, RowsTypeOK
<1>5. ASSUME NEW r \in Requests, Refuse(r) \/ Rollback(r)
      PROVE  LedgerReconciles' /\ UncommittedReconciles'
  BY <1>4, <1>5 DEF Refuse, Rollback, RollbackRows, committed, uncommitted, documents
<1>6. ASSUME NEW r \in Requests, Commit(r)
      PROVE  LedgerReconciles' /\ UncommittedReconciles'
  BY <1>4, <1>6 DEF Commit, CommitRows
<1>7. CASE UNCHANGED vars
  BY <1>7 DEF vars, committed, uncommitted, documents, local
<1>8. QED
  BY <1>1, <1>2, <1>3, <1>5, <1>6, <1>7 DEF Next, Step, TransactionStep

\* Every balance no opening balance is declared for equals the sum of its
\* ledger rows, however many requests post, edit, fail or die at once.
THEOREM LedgerAlwaysReconciles == Spec => []LedgerReconciles
<1>1. Init => ReconcileInv
  BY TypeInit
     DEF Init, RowsInit, ReconcileInv, LedgerReconciles, UncommittedReconciles,
     LinesFromDrafts
<1>2. QED
  BY <1>1, ReconcileStep, PTL DEF Spec, ReconcileInv

-----------------------------------------------------------------------------
(* All or nothing. *)

\* A document that is not POSTED has no ledger row: whatever a refused,
\* rolled back or unfinished request handled stays invisible.
THEOREM AllOrNothing == Spec => []NothingBookedBeforePosting
<1> DEFINE Inv == TypeOK /\ Position /\ NothingBookedBeforePosting
<1>1. Init => Inv
  BY TypeInit DEF Init, RowsInit, NothingBookedBeforePosting
<1>2. Inv /\ [Next]_vars => Inv'
  <2> SUFFICES ASSUME Inv, [Next]_vars PROVE NothingBookedBeforePosting'
    BY TypeStep
  <2> USE DEF NothingBookedBeforePosting
  <2>1. ASSUME NEW r \in Requests, Arrive(r) PROVE NothingBookedBeforePosting'
    BY <2>1 DEF Arrive, CreateDraft, BeginEdit, BeginPost, SetObSetting, 
                CloseMonth, ReopenMonth, committed, uncommitted, documents, TypeOK,
                RowsTypeOK
  <2>2. ASSUME NEW r \in Requests, Commit(r) PROVE NothingBookedBeforePosting'
    BY <2>2 DEF Commit, CommitRows, TypeOK, RowsTypeOK
  <2>3. ASSUME NEW r \in Requests, Step(r), ~Commit(r)
        PROVE  NothingBookedBeforePosting'
    BY <2>3 DEF Step, TransactionStep, FinishEdit, CheckGuards, ReadBalance, 
                WriteBalance, Update, Refuse, Rollback, RollbackRows, committed,
                uncommitted, documents
  <2>4. CASE UNCHANGED vars
    BY <2>4 DEF vars, committed, uncommitted, documents
  <2>5. QED
    BY <2>1, <2>2, <2>3, <2>4 DEF Next
<1>3. QED
  BY <1>1, <1>2, PTL DEF Spec

\* Types, reconciliation and all or nothing together, under every
\* interleaving of requests.
THEOREM PostingIsConsistent == Spec => []Consistent
BY TypeCorrect, LedgerAlwaysReconciles, AllOrNothing, PTL DEF Consistent

-----------------------------------------------------------------------------
(* Whole documents.  What a transaction has put into the ledger is what    *)
(* the lines it has handled book, whatever other requests do.              *)

\* A request that handles lines is in a section their movement type has.
SectionOfKind ==
  \A r \in Requests : pc[r] \in {"read", "write"} =>
    /\ Kind[job[r]] \notin Inert
    /\ \/ sec[r] = FirstSection(Kind[job[r]])
       \/ Kind[job[r]] = "TRANSFER" /\ sec[r] = "in"

\* Every step keeps a request in a section its movement type has.
LEMMA SectionOfKindStep ==
  TypeOK /\ Position /\ SectionOfKind /\ [Next]_vars => SectionOfKind'
<1> SUFFICES ASSUME TypeOK, Position, SectionOfKind, [Next]_vars PROVE SectionOfKind'
  OBVIOUS
<1> USE DEF SectionOfKind, TypeOK, RowsTypeOK
<1>1. ASSUME NEW r \in Requests, Arrive(r) PROVE SectionOfKind'
  BY <1>1 DEF Arrive, CreateDraft, BeginEdit, BeginPost, SetObSetting,
              CloseMonth, ReopenMonth, local
<1>2. ASSUME NEW r \in Requests, FinishEdit(r) PROVE SectionOfKind'
  BY <1>2 DEF FinishEdit
<1>3. ASSUME NEW r \in Requests, CheckGuards(r) PROVE SectionOfKind'
  <2> HIDE DEF FirstSection
  <2>1. QED
    BY <1>3 DEF CheckGuards, NothingToApply
<1>4. ASSUME NEW r \in Requests, ReadBalance(r) PROVE SectionOfKind'
  BY <1>4 DEF ReadBalance, Select, local
<1>5. ASSUME NEW r \in Requests, WriteBalance(r) PROVE SectionOfKind'
  <2>1. Advance(r) /\ UNCHANGED job /\ pc[r] = "write"
    BY <1>5 DEF WriteBalance, Update
  <2> HIDE DEF FirstSection
  <2>2. QED
    BY <2>1 DEF Advance, HasNextSection
<1>6. ASSUME NEW r \in Requests, Return(r) PROVE SectionOfKind'
  BY <1>6 DEF Return
<1>7. CASE UNCHANGED vars
  BY <1>7 DEF vars, committed, uncommitted, local
<1>8. QED
  BY <1>1, <1>2, <1>3, <1>4, <1>5, <1>6, <1>7
     DEF Next, Step, TransactionStep, Refuse, Rollback, RollbackRows, Commit, CommitRows

\* What each line books for cell c.
PerLine(k, ls, c) ==
  [i \in DOMAIN ls |->
     (IF k = "TRANSFER" /\ ls[i].dst = c THEN ls[i].qty ELSE 0)
     + IF ls[i].src = c
       THEN IF k \in Decreases \cup {"TRANSFER"} THEN -ls[i].qty ELSE ls[i].qty
       ELSE 0]

LEMMA BookedIsTotal ==
  ASSUME NEW k, NEW ls, NEW c
  PROVE  Booked(k, ls, c) = TotalOver(PerLine(k, ls, c), DOMAIN ls)
BY DEF Booked, TotalOver, PerLine

\* The lines handled by a request at line i of w, and the first half of a
\* transfer it may have left behind there.
Handled(p, w, i) ==
  IF p \in {"read", "write"} THEN 1 .. i - 1
  ELSE IF p = "commit" THEN DOMAIN w ELSE {}

Half(p, k, w, i, s, c) ==
  IF p \in {"read", "write"} /\ k = "TRANSFER" /\ s = "in" /\ w[i].src = c
  THEN -w[i].qty ELSE 0

\* n is what the lines handled have put into the ledger for cell c.
Tally(p, k, w, i, s, n, c) ==
  /\ p \notin {"read", "write", "commit"} \/ k \in Inert => n = 0
  /\ p \in {"read", "write", "commit"} /\ k \notin Inert \cup {"OPENING_BALANCE"} =>
       n = TotalOver(PerLine(k, w, c), Handled(p, w, i)) + Half(p, k, w, i, s, c)

\* No ledger row but those of the lines handled.
RowsOfLines ==
  \A r \in Requests : \A c \in Cells :
    Tally(pc[r], Kind[job[r]], work[r], idx[r], sec[r], rows[r][c], c)

\* The lines that a posting request commits were saved.
WorkFromDrafts ==
  \A r \in Requests : pc[r] \in {"guard", "read", "write", "commit"} =>
    work[r] = <<>> \/ work[r] \in Drafts[job[r]]

WholeInv == TypeOK /\ Position /\ LinesFromDrafts /\ SectionOfKind /\ WorkFromDrafts /\ RowsOfLines

LEMMA PerLineTyping ==
  ASSUME NEW k, NEW ls \in Seq(Line), NEW c
  PROVE  /\ DOMAIN PerLine(k, ls, c) = 1 .. Len(ls) /\ DOMAIN ls = 1 .. Len(ls)
         /\ \A i \in 1 .. Len(ls) :
              PerLine(k, ls, c)[i] \in Int /\ ls[i] \in Line /\ ls[i].qty \in Int
<1>1. \A i \in 1 .. Len(ls) : ls[i] \in Line
  OBVIOUS
<1>2. \A i \in 1 .. Len(ls) : ls[i].qty \in Int
  BY <1>1 DEF Line
<1>3. DOMAIN ls = 1 .. Len(ls)
  OBVIOUS
<1>4. ASSUME NEW i \in 1 .. Len(ls) PROVE PerLine(k, ls, c)[i] \in Int
  <2> DEFINE m == IF k = "TRANSFER" /\ ls[i].dst = c THEN ls[i].qty ELSE 0
             n == IF ls[i].src = c
                  THEN IF k \in Decreases \cup {"TRANSFER"} THEN -ls[i].qty ELSE ls[i].qty
                  ELSE 0
  <2>1. m \in Int /\ n \in Int
    BY <1>2
  <2>2. PerLine(k, ls, c)[i] = m + n
    BY <1>3 DEF PerLine
  <2> HIDE DEF m, n
  <2>3. QED
    BY <2>1, <2>2
<1>5. QED
  BY <1>1, <1>2, <1>3, <1>4 DEF PerLine

\* One more line.
LEMMA OneMoreLine ==
  ASSUME NEW k, NEW ls \in Seq(Line), NEW c, NEW n \in 1 .. Len(ls)
  PROVE  /\ TotalOver(PerLine(k, ls, c), 1 .. n)
              = PerLine(k, ls, c)[n] + TotalOver(PerLine(k, ls, c), 1 .. n - 1)
         /\ TotalOver(PerLine(k, ls, c), 1 .. n - 1) \in Int
<1> DEFINE f == PerLine(k, ls, c)
<1>1. /\ IsFiniteSet(1 .. n) /\ IsFiniteSet(1 .. n - 1) /\ (1 .. n) \ {n} = 1 .. n - 1
      /\ n \in 1 .. n /\ 1 .. n \subseteq 1 .. Len(ls) /\ 1 .. n - 1 \subseteq 1 .. Len(ls)
  <2>1. n \in Int /\ n - 1 \in Int /\ Len(ls) \in Nat
    OBVIOUS
  <2>2. IsFiniteSet(1 .. n) /\ IsFiniteSet(1 .. n - 1)
    BY <2>1, FS_Interval
  <2>3. QED
    BY <2>1, <2>2
<1>2. \A i \in 1 .. Len(ls) : f[i] \in Int
  BY PerLineTyping
<1> HIDE DEF f
<1>3. TotalOver(f, 1 .. n) = f[n] + TotalOver(f, (1 .. n) \ {n})
  BY <1>1, <1>2, TotalWithout
<1>4. TotalOver(f, 1 .. n - 1) \in Int
  BY <1>1, <1>2, TotalInt
<1>5. QED
  BY <1>1, <1>3, <1>4 DEF f

\* Nothing is booked by no lines.
LEMMA NoLines == ASSUME NEW f PROVE TotalOver(f, {}) = 0
<1>1. IsFiniteSet({})
  BY FS_EmptySet
<1>2. QED
  BY <1>1, TotalZero

\* A section adds what its line books, in one step or in two halves.
LEMMA SectionTally ==
  ASSUME NEW k \in Kinds, k \notin Inert, NEW w \in Seq(Line), NEW i \in 1 .. Len(w),
         NEW s, s = FirstSection(k) \/ (k = "TRANSFER" /\ s = "in"),
         NEW n \in Int, NEW c, NEW now \in Int,
         Tally("write", k, w, i, s, n, c),
         NEW m, m = n + IF CellOf(k, s, w[i]) = c THEN RowQty(k, s, w[i], now) ELSE 0
  PROVE  /\ HasNextSection(k, s) => Tally("read", k, w, i, "in", m, c)
         /\ ~HasNextSection(k, s) /\ i < Len(w) =>
              Tally("read", k, w, i + 1, FirstSection(k), m, c)
         /\ ~HasNextSection(k, s) /\ ~(i < Len(w)) => Tally("commit", k, w, i, s, m, c)
<1> DEFINE f == PerLine(k, w, c)
           q == w[i].qty
           t == TotalOver(f, 1 .. i - 1)
<1>1. CASE k = "OPENING_BALANCE"
  BY <1>1 DEF Tally
<1>2. CASE k # "OPENING_BALANCE"
  <2>1. /\ q \in Int /\ t \in Int /\ f[i] \in Int /\ DOMAIN w = 1 .. Len(w)
        /\ TotalOver(f, 1 .. i) = f[i] + t
    BY PerLineTyping, OneMoreLine
  <2>2. f[i] = (IF k = "TRANSFER" /\ w[i].dst = c THEN q ELSE 0)
                + IF w[i].src = c
                  THEN IF k \in Decreases \cup {"TRANSFER"} THEN -q ELSE q
                  ELSE 0
    BY <2>1 DEF PerLine
  <2>3. n = t + Half("write", k, w, i, s, c)
    BY <1>2 DEF Tally, Handled
  <2>4. i \in Int /\ Len(w) \in Nat /\ (i + 1) - 1 = i /\ (~(i < Len(w)) => 1 .. i = 1 .. Len(w))
    OBVIOUS
  <2> HIDE DEF f, q, t
  <2>5. CASE HasNextSection(k, s)
    <3>1. k = "TRANSFER" /\ s = "out"
      BY <2>5 DEF HasNextSection
    <3>2. m = t + IF w[i].src = c THEN -q ELSE 0
      BY <2>1, <2>3, <3>1 DEF Half, CellOf, RowQty, q
    <3>3. m = t + Half("read", k, w, i, "in", c)
      BY <3>1, <3>2 DEF Half, q
    <3>4. QED
      BY <1>2, <2>5, <3>1, <3>3 DEF Tally, Handled, Inert, t, f
  <2>6. CASE ~HasNextSection(k, s)
    <3>1. m = TotalOver(f, 1 .. i)
      <4>1. CASE k = "TRANSFER"
        <5>1. s = "in"
          BY <2>6, <4>1 DEF HasNextSection, FirstSection
        <5>2. n = t + IF w[i].src = c THEN -q ELSE 0
          BY <2>3, <4>1, <5>1 DEF Half, q
        <5>3. m = n + IF w[i].dst = c THEN q ELSE 0
          BY <4>1, <5>1 DEF CellOf, RowQty, q
        <5>4. QED
          BY <2>1, <2>2, <4>1, <5>2, <5>3
      <4>2. CASE k # "TRANSFER"
        <5>1. n = t
          BY <2>1, <2>3, <4>2 DEF Half
        <5>2. s = FirstSection(k) /\ CellOf(k, s, w[i]) = w[i].src
          BY <4>2 DEF CellOf
        <5>3. RowQty(k, s, w[i], now) = IF k \in Decreases \cup {"TRANSFER"} THEN -q ELSE q
          BY <1>2, <4>2, <5>2 DEF RowQty, FirstSection, q
        <5>4. QED
          BY <2>1, <2>2, <4>2, <5>1, <5>2, <5>3
      <4>3. QED
        BY <4>1, <4>2
    <3>2. m = m + 0
      BY <2>1, <3>1
    <3>3. FirstSection("TRANSFER") = "out"
      BY DEF FirstSection
    <3>4. ASSUME i < Len(w) PROVE Tally("read", k, w, i + 1, FirstSection(k), m, c)
      <4>1. Half("read", k, w, i + 1, FirstSection(k), c) = 0
        BY <3>3 DEF Half
      <4>2. Handled("read", w, i + 1) = 1 .. i
        BY <2>4 DEF Handled
      <4>3. QED
        BY <3>1, <3>2, <4>1, <4>2 DEF Tally, f
    <3>5. ASSUME ~(i < Len(w)) PROVE Tally("commit", k, w, i, s, m, c)
      <4>1. Half("commit", k, w, i, s, c) = 0 /\ Handled("commit", w, i) = 1 .. i
        BY <2>1, <2>4, <3>5 DEF Half, Handled
      <4>2. QED
        BY <3>1, <3>2, <4>1 DEF Tally, f
    <3>6. QED
      BY <2>6, <3>4, <3>5
  <2>7. QED
    BY <2>5, <2>6
<1>3. QED
  BY <1>1, <1>2
\* Every step keeps the lines a request will commit among the saved ones.
LEMMA WorkFromDraftsStep ==
  TypeOK /\ LinesFromDrafts /\ WorkFromDrafts /\ [Next]_vars => WorkFromDrafts'
<1> SUFFICES ASSUME TypeOK, LinesFromDrafts, WorkFromDrafts, [Next]_vars
             PROVE  WorkFromDrafts'
  OBVIOUS
<1> USE DEF WorkFromDrafts, TypeOK, RowsTypeOK
<1>1. ASSUME NEW r \in Requests, NEW d \in Docs, BeginPost(r, d)
      PROVE  WorkFromDrafts'
  <2>1. lines[d] = <<>> \/ lines[d] \in Drafts[d]
    BY DEF LinesFromDrafts
  <2>2. QED
    BY <1>1, <2>1 DEF BeginPost
<1>2. ASSUME NEW r \in Requests, Arrive(r), ~ \E d \in Docs : BeginPost(r, d)
      PROVE  WorkFromDrafts'
  BY <1>2 DEF Arrive, CreateDraft, BeginEdit, SetObSetting, CloseMonth, ReopenMonth, local
<1>3. ASSUME NEW r \in Requests, FinishEdit(r) \/ CheckGuards(r) \/ ReadBalance(r)
      PROVE  WorkFromDrafts'
  BY <1>3 DEF FinishEdit, CheckGuards, ReadBalance, Select, local
<1>4. ASSUME NEW r \in Requests, WriteBalance(r) PROVE WorkFromDrafts'
  <2>1. Advance(r) /\ pc[r] = "write" /\ UNCHANGED <<job, work>>
    BY <1>4 DEF WriteBalance, Update
  <2>2. \A q \in Requests : q # r => pc'[q] = pc[q]
    BY <2>1, AdvanceReads
  <2>3. QED
    BY <2>1, <2>2
<1>5. ASSUME NEW r \in Requests, Return(r) PROVE WorkFromDrafts'
  BY <1>5 DEF Return
<1>6. CASE UNCHANGED vars
  BY <1>6 DEF vars, local
<1>7. QED
  BY <1>1, <1>2, <1>3, <1>4, <1>5, <1>6
     DEF Next, Step, TransactionStep, Refuse, Rollback, Commit

\* Every step keeps the ledger rows of a request those of the lines handled.
LEMMA RowsOfLinesStep ==
  ASSUME TypeOK, Position, SectionOfKind, RowsOfLines, [Next]_vars
  PROVE  RowsOfLines'
<1> DEFINE T(r, c) == Tally(pc[r], Kind[job[r]], work[r], idx[r], sec[r], rows[r][c], c)
           After(r, c) ==
             Tally(pc'[r], Kind[job'[r]], work'[r], idx'[r], sec'[r], rows'[r][c], c)
<1> SUFFICES ASSUME NEW q \in Requests, NEW c \in Cells PROVE After(q, c)
  BY DEF RowsOfLines
<1>0. T(q, c)
  BY DEF RowsOfLines
<1>1. ASSUME pc'[q] = pc[q], job'[q] = job[q], work'[q] = work[q], idx'[q] = idx[q],
             sec'[q] = sec[q], rows'[q] = rows[q]
      PROVE  After(q, c)
  BY <1>0, <1>1
<1>2. ASSUME pc[q] \notin {"read", "write", "commit"}, pc'[q] \notin {"read", "write", "commit"},
             rows'[q] = rows[q]
      PROVE  After(q, c)
  BY <1>0, <1>2 DEF Tally
<1> HIDE DEF After, T
<1> USE DEF TypeOK, RowsTypeOK
<1>3. ASSUME NEW r \in Requests, Arrive(r) PROVE After(q, c)
  <2>1. rows' = rows /\ \/ UNCHANGED <<pc, job, work, idx, sec>>
                        \/ /\ pc[r] = "idle" /\ pc'[r] \in {"edit", "guard"}
                           /\ \A p \in Requests : p # r =>
                                pc'[p] = pc[p] /\ job'[p] = job[p] /\ work'[p] = work[p]
                                /\ idx'[p] = idx[p] /\ sec'[p] = sec[p]
    BY <1>3 DEF Arrive, CreateDraft, BeginEdit, BeginPost, SetObSetting, CloseMonth,
                ReopenMonth, local, uncommitted
  <2>2. QED
    BY <1>1, <1>2, <2>1
<1>4. ASSUME NEW r \in Requests, FinishEdit(r) PROVE After(q, c)
  <2>1. /\ rows' = rows /\ pc[r] = "edit" /\ pc'[r] = "idle"
        /\ \A p \in Requests : p # r =>
             pc'[p] = pc[p] /\ job'[p] = job[p] /\ work'[p] = work[p]
             /\ idx'[p] = idx[p] /\ sec'[p] = sec[p]
    BY <1>4 DEF FinishEdit, uncommitted
  <2>2. QED
    BY <1>1, <1>2, <2>1
<1>5. ASSUME NEW r \in Requests, CheckGuards(r) PROVE After(q, c)
  <2>1. /\ rows' = rows /\ pc[r] = "guard" /\ job' = job /\ work' = work
        /\ pc'[r] = IF NothingToApply(r) THEN "commit" ELSE "read"
        /\ idx'[r] = 1 /\ sec'[r] = FirstSection(Kind[job[r]])
        /\ \A p \in Requests : p # r =>
             pc'[p] = pc[p] /\ idx'[p] = idx[p] /\ sec'[p] = sec[p]
    BY <1>5 DEF CheckGuards, uncommitted
  <2>2. CASE q # r
    BY <1>1, <2>1, <2>2
  <2>3. CASE q = r
    <3>1. rows[r][c] = 0
      BY <1>0, <2>1, <2>3 DEF T, Tally
    <3>2. Handled(pc'[r], work[r], 1) = {} \/ Kind[job[r]] \in Inert
      BY <2>1 DEF NothingToApply, Handled
    <3>3. Half(pc'[r], Kind[job[r]], work[r], 1, FirstSection(Kind[job[r]]), c) = 0
      BY DEF Half, FirstSection
    <3>4. Tally(pc'[r], Kind[job[r]], work[r], 1, FirstSection(Kind[job[r]]), rows[r][c], c)
      <4> HIDE DEF FirstSection
      <4>1. TotalOver(PerLine(Kind[job[r]], work[r], c), {}) = 0
        BY NoLines
      <4>2. CASE Kind[job[r]] \in Inert
        BY <3>1, <4>2 DEF Tally
      <4>3. CASE Handled(pc'[r], work[r], 1) = {}
        <5>1. TotalOver(PerLine(Kind[job[r]], work[r], c), Handled(pc'[r], work[r], 1)) = 0
          BY <4>1, <4>3, Zenon
        <5>2. QED
          BY <3>1, <3>3, <5>1 DEF Tally
      <4>4. QED
        BY <3>2, <4>2, <4>3
    <3>5. QED
      BY <2>1, <2>3, <3>4 DEF After
  <2>4. QED
    BY <2>2, <2>3
<1>6. ASSUME NEW r \in Requests, ReadBalance(r) PROVE After(q, c)
  <2>1. /\ rows' = rows /\ job' = job /\ work' = work /\ idx' = idx /\ sec' = sec
        /\ pc[r] = "read" /\ pc'[r] = "write" /\ \A p \in Requests : p # r => pc'[p] = pc[p]
    BY <1>6 DEF ReadBalance, Select, local
  <2>2. QED
    BY <1>0, <1>1, <2>1 DEF T, After, Tally, Handled, Half
<1>7. ASSUME NEW r \in Requests, WriteBalance(r) PROVE After(q, c)
  <2> DEFINE e == CurrentCell(r)
             k == Kind[job[r]]
             row == RowQty(k, sec[r], CurrentLine(r), seen[r])
  <2>1. pc[r] = "write" /\ Advance(r) /\ UNCHANGED <<job, work>>
        /\ rows' = [rows EXCEPT ![r][e] = @ + row]
    BY <1>7 DEF WriteBalance, Update
  <2>2. e \in Cells /\ CurrentLine(r) \in Line /\ k \in Kinds
    BY <2>1, PositionTyping
  <2>3. row \in Int
    BY <2>2, RowQtyType
  <2>4. \A p \in Requests : p # r =>
          pc'[p] = pc[p] /\ idx'[p] = idx[p] /\ sec'[p] = sec[p]
    BY <2>1 DEF Advance
  <2>5. CASE q # r
    BY <1>1, <2>1, <2>4, <2>5
  <2>6. CASE q = r
    <3>1. rows'[r][c] = rows[r][c] + IF e = c THEN row ELSE 0
      <4> HIDE DEF e, row
      <4>1. rows[r][c] \in Int
        OBVIOUS
      <4>2. CASE e = c
        BY <2>1, <2>2, <2>3, <4>2
      <4>3. CASE e # c
        <5>1. rows'[r][c] = rows[r][c]
          BY <2>1, <4>3
        <5>2. QED
          BY <4>1, <4>3, <5>1
      <4>4. QED
        BY <4>2, <4>3
    <3>2. /\ k \notin Inert /\ idx[r] \in 1 .. Len(work[r])
          /\ sec[r] = FirstSection(k) \/ (k = "TRANSFER" /\ sec[r] = "in")
          /\ work[r] \in Seq(Line) /\ rows[r][c] \in Int /\ seen[r] \in Int
      <4>1. idx[r] \in 1 .. Len(work[r])
        BY <2>1 DEF Position
      <4>2. /\ k \notin Inert
            /\ sec[r] = FirstSection(k) \/ (k = "TRANSFER" /\ sec[r] = "in")
        <5>1. pc[r] = "write"
          BY <2>1
        <5> HIDE DEF FirstSection
        <5>2. QED
          BY <5>1, Zenon DEF SectionOfKind
      <4>3. QED
        BY <4>1, <4>2
    <3>3. Tally("write", k, work[r], idx[r], sec[r], rows[r][c], c)
      BY <1>0, <2>1, <2>6 DEF T
    <3>4. rows'[r][c] = rows[r][c] + IF CellOf(k, sec[r], work[r][idx[r]]) = c
                                     THEN RowQty(k, sec[r], work[r][idx[r]], seen[r]) ELSE 0
      BY <3>1 DEF CurrentCell, CurrentLine
    <3> DEFINE i == idx[r]
               w == work[r]
               s == sec[r]
               m == rows'[r][c]
    <3>5. /\ HasNextSection(k, s) => Tally("read", k, w, i, "in", m, c)
          /\ ~HasNextSection(k, s) /\ i < Len(w) =>
               Tally("read", k, w, i + 1, FirstSection(k), m, c)
          /\ ~HasNextSection(k, s) /\ ~(i < Len(w)) => Tally("commit", k, w, i, s, m, c)
      <4> HIDE DEF k, row, e
      <4>1. QED
        BY <2>2, <3>2, <3>3, <3>4, SectionTally
    <3> HIDE DEF m
    <3>6. CASE HasNextSection(k, s)
      <4>1. pc'[r] = "read" /\ idx'[r] = i /\ sec'[r] = "in"
        BY <2>1, <3>6 DEF Advance
      <4>2. QED
        BY <2>1, <2>6, <3>5, <3>6, <4>1 DEF After, m
    <3>7. CASE ~HasNextSection(k, s) /\ i < Len(w)
      <4>1. pc'[r] = "read" /\ idx'[r] = i + 1 /\ sec'[r] = FirstSection(k)
        BY <2>1, <3>7 DEF Advance
      <4>2. QED
        BY <2>1, <2>6, <3>5, <3>7, <4>1 DEF After, m
    <3>8. CASE ~HasNextSection(k, s) /\ ~(i < Len(w))
      <4>1. pc'[r] = "commit" /\ idx'[r] = i /\ sec'[r] = s
        BY <2>1, <3>8 DEF Advance
      <4>2. QED
        BY <2>1, <2>6, <3>5, <3>8, <4>1 DEF After, m
    <3>9. QED
      BY <3>6, <3>7, <3>8
  <2>7. QED
    BY <2>5, <2>6
<1>8. ASSUME NEW r \in Requests, Forget(r), Return(r) PROVE After(q, c)
  <2>1. /\ rows'[r] = Zero /\ pc'[r] = "idle"
        /\ \A p \in Requests : p # r =>
             pc'[p] = pc[p] /\ job'[p] = job[p] /\ work'[p] = work[p]
             /\ idx'[p] = idx[p] /\ sec'[p] = sec[p] /\ rows'[p] = rows[p]
    BY <1>8 DEF Forget, Return
  <2>2. Zero[c] = 0
    BY DEF Zero
  <2>3. QED
    BY <1>1, <2>1, <2>2 DEF After, Tally
<1>9. CASE UNCHANGED vars
  BY <1>1, <1>9 DEF vars, local, uncommitted
<1>10. QED
  BY <1>3, <1>4, <1>5, <1>6, <1>7, <1>8, <1>9
     DEF Next, Step, TransactionStep, Refuse, Rollback, RollbackRows, Commit, CommitRows

\* The books of the transactions hold before the first request and after
\* every step.
LEMMA WholeInit == Init => WholeInv
<1> SUFFICES ASSUME Init PROVE WholeInv
  OBVIOUS
<1>1. LinesFromDrafts /\ SectionOfKind /\ WorkFromDrafts
  BY DEF Init, RowsInit, LinesFromDrafts, SectionOfKind, WorkFromDrafts
<1>2. RowsOfLines
  BY DEF Init, RowsInit, RowsOfLines, Tally, Zero
<1>3. QED
  BY <1>1, <1>2, TypeInit DEF WholeInv

LEMMA WholeStep == WholeInv /\ [Next]_vars => WholeInv'
BY TypeStep, LinesFromDraftsStep, SectionOfKindStep, WorkFromDraftsStep, RowsOfLinesStep
   DEF WholeInv

\* What a commit adds to the ledger is what one saved list of lines books.
LEMMA CommitBooksWhole ==
  ASSUME WholeInv, Next, NEW d \in Docs, booked'[d] # booked[d],
         Kind[d] # "OPENING_BALANCE"
  PROVE  \E ls \in Drafts[d] : \A c \in Cells :
           booked'[d][c] - booked[d][c] = Booked(Kind[d], ls, c)
<1> USE DEF WholeInv, TypeOK, RowsTypeOK
<1>1. PICK r \in Requests : Commit(r)
  BY DEF Next, Arrive, Step, TransactionStep, CreateDraft, BeginEdit, BeginPost,
         SetObSetting, CloseMonth, ReopenMonth, FinishEdit, CheckGuards, ReadBalance,
         WriteBalance, Refuse, Rollback, documents
<1>2. /\ pc[r] = "commit"
      /\ booked' = [booked EXCEPT ![job[r]] = [c \in Cells |-> @[c] + rows[r][c]]]
  BY <1>1 DEF Commit
<1>3. job[r] = d /\ booked'[d] = [c \in Cells |-> booked[d][c] + rows[r][c]]
  BY <1>2
<1>4. \A c \in Cells : rows[r][c] \in Int /\ booked[d][c] \in Int
  OBVIOUS
<1>5. PICK e \in Cells : rows[r][e] # 0
  <2>1. ASSUME \A c \in Cells : rows[r][c] = 0 PROVE booked'[d] = booked[d]
    BY <1>3, <1>4, <2>1
  <2>2. QED
    BY <2>1
<1>6. \A c \in Cells : Tally("commit", Kind[d], work[r], idx[r], sec[r], rows[r][c], c)
  BY <1>2, <1>3 DEF RowsOfLines
<1>7. Kind[d] \notin Inert
  BY <1>5, <1>6 DEF Tally
<1>8. \A c \in Cells : rows[r][c] = TotalOver(PerLine(Kind[d], work[r], c), DOMAIN work[r]) + 0
  BY <1>6, <1>7 DEF Tally, Handled, Half
<1>9. work[r] \in Seq(Line)
  OBVIOUS
<1>10. \A c \in Cells : TotalOver(PerLine(Kind[d], work[r], c), DOMAIN work[r]) \in Int
  <2> TAKE c \in Cells
  <2>1. DOMAIN work[r] = 1 .. Len(work[r]) /\ Len(work[r]) \in Nat
    BY <1>9
  <2>2. \A i \in 1 .. Len(work[r]) : PerLine(Kind[d], work[r], c)[i] \in Int
    BY <1>9, PerLineTyping
  <2>3. IsFiniteSet(1 .. Len(work[r]))
    BY <2>1, FS_Interval
  <2> DEFINE f == PerLine(Kind[d], work[r], c)
  <2> HIDE DEF f
  <2>4. \A i \in 1 .. Len(work[r]) : f[i] \in Int
    BY <2>2 DEF f
  <2>5. TotalOver(f, 1 .. Len(work[r])) \in Int
    BY <2>3, <2>4, TotalInt
  <2>6. QED
    BY <2>1, <2>5 DEF f
<1>11. work[r] \in Drafts[d]
  <2>1. work[r] # <<>>
    BY <1>5, <1>8, NoLines
  <2>2. QED
    BY <1>2, <1>3, <2>1 DEF WorkFromDrafts
<1>12. \A c \in Cells : booked'[d][c] - booked[d][c] = Booked(Kind[d], work[r], c)
  <2> TAKE c \in Cells
  <2>1. Booked(Kind[d], work[r], c) = rows[r][c]
    BY <1>8, <1>10, BookedIsTotal
  <2>2. QED
    BY <1>3, <1>4, <2>1
<1>13. QED
  BY <1>11, <1>12

\* Whatever other requests do meanwhile, what a posting adds to the ledger
\* is the effect of one list of lines the document had: none of its lines is
\* left out, repeated, or mixed with those of a later edit.
THEOREM WholeDocumentsBooked == Spec => BooksWholeDocuments
<1>1. ASSUME WholeInv, [Next]_vars
      PROVE  [\A d \in Docs :
                booked'[d] # booked[d] /\ Kind[d] # "OPENING_BALANCE" =>
                  \E ls \in Drafts[d] : \A c \in Cells :
                    booked'[d][c] - booked[d][c] = Booked(Kind[d], ls, c)]_vars
  BY <1>1, CommitBooksWhole
<1>2. QED
  BY <1>1, WholeInit, WholeStep, PTL DEF Spec, BooksWholeDocuments


-----------------------------------------------------------------------------
(* The lines of a document, one after the other.  The abstract posting     *)
(* computes its result with a recursive function: that it exists, and what *)
(* it does line by line.                                                   *)

\* The promise reads documents as the engine does.
LEMMA SameSections ==
  ASSUME NEW k, NEW s, NEW line, NEW now
  PROVE  /\ Promise!Inert = Inert
         /\ Promise!FirstSection(k) = FirstSection(k)
         /\ Promise!HasNextSection(k, s) <=> HasNextSection(k, s)
         /\ Promise!CellOf(k, s, line) = CellOf(k, s, line)
         /\ Promise!Short(s, line, now) <=> Short(s, line, now)
         /\ Promise!RowQty(k, s, line, now) = RowQty(k, s, line, now)
<1>1. Promise!Inert = Inert
  BY DEF Promise!Inert, Inert
<1>2. Promise!FirstSection(k) = FirstSection(k)
  BY DEF Promise!FirstSection, FirstSection, Promise!Decreases, Decreases,
         Promise!Increases, Increases
<1>3. Promise!HasNextSection(k, s) <=> HasNextSection(k, s)
  BY DEF Promise!HasNextSection, HasNextSection
<1>4. Promise!CellOf(k, s, line) = CellOf(k, s, line)
  BY DEF Promise!CellOf, CellOf
<1>5. Promise!Short(s, line, now) <=> Short(s, line, now)
  BY DEF Promise!Short, Short
<1>6. Promise!RowQty(k, s, line, now) = RowQty(k, s, line, now)
  BY DEF Promise!RowQty, RowQty
<1>7. QED
  BY <1>1, <1>2, <1>3, <1>4, <1>5, <1>6

\* What a line does, in the engine's words.
LEMMA LineApplied ==
  ASSUME NEW k, NEW res, NEW line
  PROVE  Promise!ApplyLine(k, res, line)
           = IF k \in Inert THEN res
             ELSE IF HasNextSection(k, FirstSection(k))
             THEN Promise!ApplySection(k, "in", line,
                    Promise!ApplySection(k, FirstSection(k), line, res))
             ELSE Promise!ApplySection(k, FirstSection(k), line, res)
<1>1. /\ Promise!Inert = Inert /\ Promise!FirstSection(k) = FirstSection(k)
      /\ Promise!HasNextSection(k, FirstSection(k)) <=> HasNextSection(k, FirstSection(k))
  BY SameSections
<1>2. QED
  BY <1>1 DEF Promise!ApplyLine

\* The results after each line of ls, from the balances `start`.
Results(k, ls, start) ==
  LET after[n \in 0 .. Len(ls)] ==
        IF n = 0 THEN Promise!Result(TRUE, start)
        ELSE Promise!ApplyLine(k, after[n - 1], ls[n])
  IN  after

IsRun(f, k, ls, start, m) ==
  f = [n \in 0 .. m |-> IF n = 0 THEN Promise!Result(TRUE, start)
                        ELSE Promise!ApplyLine(k, f[n - 1], ls[n])]

LEMMA RunExists ==
  ASSUME NEW k, NEW ls \in Seq(Line), NEW start
  PROVE  \E f : IsRun(f, k, ls, start, Len(ls))
<1> DEFINE W == {u \in SUBSET (1 .. Len(ls)) :
                   \E n \in 0 .. Len(ls) : u = 1 .. n /\ ~ \E f : IsRun(f, k, ls, start, n)}
<1> SUFFICES ASSUME W # {} PROVE FALSE
  <2>1. Len(ls) \in 0 .. Len(ls) /\ 1 .. Len(ls) \in SUBSET (1 .. Len(ls))
    OBVIOUS
  <2> HIDE DEF IsRun
  <2>2. QED
    BY <2>1
<1>1. PICK u \in W : \A v \in SUBSET u : v # u => v \notin W
  <2> HIDE DEF W
  <2>1. W \subseteq SUBSET (1 .. Len(ls)) /\ IsFiniteSet(1 .. Len(ls))
    BY FS_Interval DEF W
  <2>2. QED
    BY <2>1, SmallestSubset
<1> HIDE DEF IsRun
<1>2. PICK n \in 0 .. Len(ls) : u = 1 .. n /\ ~ \E f : IsRun(f, k, ls, start, n)
  BY <1>1
<1>3. CASE n = 0
  <2> DEFINE f == [m \in 0 .. 0 |-> Promise!Result(TRUE, start)]
  <2>1. IsRun(f, k, ls, start, 0)
    BY DEF IsRun
  <2>2. QED
    BY <1>2, <1>3, <2>1
<1>4. CASE n # 0
  <2>1. n - 1 \in 0 .. Len(ls) /\ 1 .. n - 1 \in SUBSET u /\ 1 .. n - 1 # u
    BY <1>2, <1>4
  <2>2. PICK g : IsRun(g, k, ls, start, n - 1)
    BY <1>1, <2>1
  <2> DEFINE R == Promise!Result(TRUE, start)
             A(res, m) == Promise!ApplyLine(k, res, ls[m])
             f == [m \in 0 .. n |-> IF m < n THEN g[m] ELSE A(g[n - 1], n)]
  <2>3. g = [m \in 0 .. n - 1 |-> IF m = 0 THEN R ELSE A(g[m - 1], m)]
    BY <2>2 DEF IsRun
  <2> HIDE DEF A, R
  <2>4. ASSUME NEW m \in 0 .. n PROVE f[m] = IF m = 0 THEN R ELSE A(f[m - 1], m)
    <3>1. CASE m < n
      <4>1. m \in 0 .. n - 1 /\ f[m] = g[m] /\ (m # 0 => m - 1 \in 0 .. n /\ f[m - 1] = g[m - 1])
        BY <1>4, <3>1
      <4>2. g[m] = IF m = 0 THEN R ELSE A(g[m - 1], m)
        BY <2>3, <4>1
      <4>3. QED
        BY <4>1, <4>2
    <3>2. CASE m = n
      <4>1. n - 1 \in 0 .. n /\ f[n - 1] = g[n - 1] /\ f[n] = A(g[n - 1], n)
        BY <1>4
      <4>2. QED
        BY <1>4, <3>2, <4>1
    <3>3. QED
      BY <3>1, <3>2
  <2>5. f = [m \in 0 .. n |-> IF m = 0 THEN R ELSE A(f[m - 1], m)]
    BY <2>4
  <2> HIDE DEF f
  <2>6. IsRun(f, k, ls, start, n)
    BY <2>5 DEF IsRun, R, A
  <2>7. QED
    BY <1>2, <2>6
<1>5. QED
  BY <1>3, <1>4

LEMMA ResultsUnfold ==
  ASSUME NEW k, NEW ls \in Seq(Line), NEW start
  PROVE  /\ Results(k, ls, start)[0] = Promise!Result(TRUE, start)
         /\ \A n \in 1 .. Len(ls) :
              Results(k, ls, start)[n]
                = Promise!ApplyLine(k, Results(k, ls, start)[n - 1], ls[n])
<1> DEFINE f == CHOOSE g : IsRun(g, k, ls, start, Len(ls))
<1>1. Results(k, ls, start) = f
  BY DEF Results, IsRun
<1>2. IsRun(f, k, ls, start, Len(ls))
  <2> HIDE DEF IsRun
  <2>1. QED
    BY RunExists
<1> HIDE DEF f
<1>3. f = [n \in 0 .. Len(ls) |-> IF n = 0 THEN Promise!Result(TRUE, start)
                                  ELSE Promise!ApplyLine(k, f[n - 1], ls[n])]
  BY <1>2 DEF IsRun
<1>4. Len(ls) \in Nat /\ 0 \in 0 .. Len(ls)
  OBVIOUS
<1>5. f[0] = Promise!Result(TRUE, start)
  BY <1>3, <1>4
<1>6. ASSUME NEW n \in 1 .. Len(ls) PROVE f[n] = Promise!ApplyLine(k, f[n - 1], ls[n])
  BY <1>3, <1>4
<1>7. QED
  BY <1>1, <1>5, <1>6

LEMMA ResultAt ==
  ASSUME NEW k, NEW ls \in Seq(Line), NEW start, NEW n \in 1 .. Len(ls)
  PROVE  Results(k, ls, start)[n] = Promise!ApplyLine(k, Results(k, ls, start)[n - 1], ls[n])
BY ResultsUnfold

\* A kind without sections applies nothing.
LEMMA InertResult ==
  ASSUME NEW k \in Inert, NEW ls \in Seq(Line), NEW start
  PROVE  Results(k, ls, start)[Len(ls)] = Promise!Result(TRUE, start)
<1> DEFINE f == Results(k, ls, start)
           R == Promise!Result(TRUE, start)
           W == {u \in SUBSET (1 .. Len(ls)) :
                   \E n \in 0 .. Len(ls) : u = 1 .. n /\ f[n] # R}
<1>0. f[0] = R /\ \A n \in 1 .. Len(ls) : f[n] = f[n - 1]
  BY ResultsUnfold, LineApplied
<1> HIDE DEF f, R
<1> SUFFICES ASSUME W # {} PROVE FALSE
  <2>1. Len(ls) \in 0 .. Len(ls) /\ 1 .. Len(ls) \in SUBSET (1 .. Len(ls))
    OBVIOUS
  <2>2. f[Len(ls)] = R
    BY <2>1
  <2>3. QED
    BY <2>2 DEF f, R
<1>1. PICK u \in W : \A v \in SUBSET u : v # u => v \notin W
  <2> HIDE DEF W
  <2>1. W \subseteq SUBSET (1 .. Len(ls)) /\ IsFiniteSet(1 .. Len(ls))
    BY FS_Interval DEF W
  <2>2. QED
    BY <2>1, SmallestSubset
<1>2. PICK n \in 0 .. Len(ls) : u = 1 .. n /\ f[n] # R
  BY <1>1
<1>3. n # 0
  BY <1>0, <1>2
<1>4. n - 1 \in 0 .. Len(ls) /\ 1 .. n - 1 \in SUBSET u /\ 1 .. n - 1 # u /\ n \in 1 .. Len(ls)
  BY <1>2, <1>3
<1>5. f[n - 1] = R
  BY <1>1, <1>4
<1>6. QED
  BY <1>0, <1>2, <1>4, <1>5

\* Where a request at section s of line i stands in the abstract posting.
Reached(k, ls, start, i, s) ==
  LET before == Results(k, ls, start)[i - 1]
  IN  IF k = "TRANSFER" /\ s = "in" THEN Promise!ApplySection(k, "out", ls[i], before)
      ELSE before

\* What the request sees is what the abstract posting has computed, every
\* line having had its stock, and what it read is what it sees.
Keeping(k, ls, start, p, i, s, read, bal) ==
  /\ p \in {"read", "write"} => Reached(k, ls, start, i, s) = Promise!Result(TRUE, bal)
  /\ p = "write" => read = bal[CellOf(k, s, ls[i])]
  /\ p = "commit" => Results(k, ls, start)[Len(ls)] = Promise!Result(TRUE, bal)

\* One section, from balances every line before had stock in.
LEMMA SectionApplied ==
  ASSUME NEW k, NEW s, NEW line, NEW bal, NEW next,
         ~Short(s, line, bal[CellOf(k, s, line)]),
         next = [bal EXCEPT ![CellOf(k, s, line)] =
                   @ + RowQty(k, s, line, bal[CellOf(k, s, line)])]
  PROVE  Promise!ApplySection(k, s, line, Promise!Result(TRUE, bal)) = Promise!Result(TRUE, next)
<1> DEFINE c == CellOf(k, s, line)
<1>1. /\ Promise!CellOf(k, s, line) = c /\ ~Promise!Short(s, line, bal[c])
      /\ Promise!RowQty(k, s, line, bal[c]) = RowQty(k, s, line, bal[c])
  BY SameSections
<1>2. Promise!Result(TRUE, bal).ok = TRUE /\ Promise!Result(TRUE, bal).balance = bal
  BY DEF Promise!Result
<1> HIDE DEF c
<1>3. Promise!ApplySection(k, s, line, Promise!Result(TRUE, bal))
        = Promise!Result(TRUE, [bal EXCEPT ![c] = @ + RowQty(k, s, line, bal[c])])
  BY <1>1, <1>2 DEF Promise!ApplySection
<1>4. QED
  BY <1>3 DEF c

\* A section that is written goes on as the abstract posting does.
LEMMA SectionKeeps ==
  ASSUME NEW k \in Kinds, k \notin Inert, NEW ls \in Seq(Line), NEW start,
         NEW i \in 1 .. Len(ls), NEW read,
         NEW s, s = FirstSection(k) \/ (k = "TRANSFER" /\ s = "in"),
         NEW bal, NEW next, Keeping(k, ls, start, "write", i, s, read, bal),
         ~Short(s, ls[i], read),
         next = [bal EXCEPT ![CellOf(k, s, ls[i])] =
                   @ + RowQty(k, s, ls[i], bal[CellOf(k, s, ls[i])])]
  PROVE  /\ HasNextSection(k, s) => Keeping(k, ls, start, "read", i, "in", read, next)
         /\ ~HasNextSection(k, s) /\ i < Len(ls) =>
              Keeping(k, ls, start, "read", i + 1, FirstSection(k), read, next)
         /\ ~HasNextSection(k, s) /\ ~(i < Len(ls)) =>
              Keeping(k, ls, start, "commit", i, s, read, next)
<1> DEFINE f == Results(k, ls, start)
           B == Promise!Result(TRUE, bal)
           N == Promise!Result(TRUE, next)
<1>1. Reached(k, ls, start, i, s) = B /\ read = bal[CellOf(k, s, ls[i])]
  BY DEF Keeping
<1>2. Promise!ApplySection(k, s, ls[i], B) = N
  BY <1>1, SectionApplied
<1>3. f[i] = Promise!ApplyLine(k, f[i - 1], ls[i])
  BY ResultAt
<1>4. i \in Int /\ Len(ls) \in Nat /\ (i + 1) - 1 = i /\ (~(i < Len(ls)) => i = Len(ls))
  OBVIOUS
<1>5. FirstSection("TRANSFER") = "out"
  BY DEF FirstSection
<1> HIDE DEF f, B, N, FirstSection
<1>6. ASSUME HasNextSection(k, s) PROVE Keeping(k, ls, start, "read", i, "in", read, next)
  <2>1. k = "TRANSFER" /\ s = "out"
    BY <1>6 DEF HasNextSection
  <2>2. f[i - 1] = B
    BY <1>1, <2>1 DEF Reached, f
  <2>3. Reached(k, ls, start, i, "in") = N
    BY <1>2, <2>1, <2>2 DEF Reached, f
  <2>4. QED
    BY <2>3 DEF Keeping, N
<1>7. ASSUME ~HasNextSection(k, s) PROVE f[i] = N
  <2>1. CASE k = "TRANSFER"
    <3>1. s = "in"
      BY <1>5, <1>7, <2>1 DEF HasNextSection
    <3>2. Promise!ApplySection(k, "out", ls[i], f[i - 1]) = B
      BY <1>1, <2>1, <3>1 DEF Reached, f
    <3>3. f[i] = Promise!ApplySection(k, "in", ls[i],
                                      Promise!ApplySection(k, "out", ls[i], f[i - 1]))
      BY <1>3, <1>5, <2>1, LineApplied DEF HasNextSection
    <3>4. QED
      BY <1>2, <3>1, <3>2, <3>3
  <2>2. CASE k # "TRANSFER"
    <3>1. s = FirstSection(k) /\ f[i - 1] = B
      BY <1>1, <2>2 DEF Reached, f
    <3>2. f[i] = Promise!ApplySection(k, FirstSection(k), ls[i], f[i - 1])
      BY <1>3, <2>2, LineApplied DEF HasNextSection
    <3>3. QED
      BY <1>2, <3>1, <3>2
  <2>3. QED
    BY <2>1, <2>2
<1>8. ASSUME ~HasNextSection(k, s), i < Len(ls)
      PROVE  Keeping(k, ls, start, "read", i + 1, FirstSection(k), read, next)
  <2>1. Reached(k, ls, start, i + 1, FirstSection(k)) = f[i]
    BY <1>4, <1>5 DEF Reached, f
  <2>2. QED
    BY <1>7, <1>8, <2>1 DEF Keeping, N
<1>9. ASSUME ~HasNextSection(k, s), ~(i < Len(ls))
      PROVE  Keeping(k, ls, start, "commit", i, s, read, next)
  BY <1>4, <1>7, <1>9 DEF Keeping, N, f
<1>10. QED
  BY <1>6, <1>8, <1>9

-----------------------------------------------------------------------------
(* One request at a time.  As long as no two requests overlap, what a      *)
(* section read is still there when it writes, the document and the        *)
(* settings are still what the guards found, and the request follows the   *)
(* abstract posting line by line.                                          *)

\* What holds under every interleaving.
Inv == TypeOK /\ Position /\ LinesFromDrafts /\ SectionOfKind

\* At most one request is in progress.
Solo == \A q, s \in Requests : pc[q] # "idle" /\ pc[s] # "idle" => q = s

\* The balances as request r sees them.
Seen(r) == [c \in Cells |-> Visible(r, c)]

\* A request that has not begun its transaction has changed nothing, and
\* what one has changed is what its ledger rows say.
Clean(r) ==
  /\ pc[r] \in {"idle", "edit", "guard"} => pend[r] = Zero
  /\ pend[r] = rows[r]

\* The document is what the request found, and the guards still pass.
Stands(r) ==
  /\ pc[r] = "edit" => status[job[r]] = "DRAFT"
  /\ pc[r] \in {"guard", "read", "write", "commit"} =>
       work[r] = lines[job[r]] /\ status[job[r]] \in {"DRAFT", "PENDING_APPROVAL"}
  /\ pc[r] \in {"read", "write", "commit"} => GuardsPass(job[r])

Follows(r) ==
  Keeping(Kind[job[r]], work[r], onHand, pc[r], idx[r], sec[r], seen[r], Seen(r))

SerialInv == Solo /\ \A r \in Requests : Clean(r) /\ Stands(r) /\ Follows(r)

\* A posted document has added a negative quantity to c, or r is about to.
Spoiled(c) == \E d \in Docs : status[d] = "POSTED" /\ AddsLess(d, c)
Spoiling(r, c) == pc[r] \in {"read", "write", "commit"} /\ AddsLess(job[r], c)

\* Nobody sees a negative balance of any other cell.
Covered ==
  \A c \in Cells :
    /\ onHand[c] >= 0 \/ Spoiled(c)
    /\ \A r \in Requests : Visible(r, c) >= 0 \/ Spoiled(c) \/ Spoiling(r, c)

\* A step of a run without overlaps: a request arrives while nobody else is
\* in progress, or the one in progress goes on.
LEMMA Modes ==
  ASSUME TypeOK, Solo, Next, NoteOverlap, ~overlapped'
  PROVE  /\ Solo'
         /\ \E r \in Requests :
              /\ \A q \in Requests : q # r => pc[q] = "idle" /\ pc'[q] = "idle"
              /\ \/ Arrive(r) /\ pc[r] = "idle"
                 \/ Step(r) /\ pc[r] # "idle"
<1>1. /\ ~(Cardinality({q \in Requests : pc'[q] # "idle"}) > 1)
      /\ UNCHANGED pc => \A q \in Requests : pc[q] = "idle"
  BY DEF NoteOverlap, Busy
<1>2. ASSUME NEW r \in Requests, \A q \in Requests : q # r => pc'[q] = pc[q] PROVE Solo'
  <2>1. \A a, b \in Requests : pc'[a] # "idle" /\ pc'[b] # "idle" => a = b
    BY <1>1, <1>2, OneMoves DEF Solo
  <2>2. QED
    BY <2>1 DEF Solo
<1>3. PICK r \in Requests : Arrive(r) \/ Step(r)
  BY DEF Next
<1>4. CASE Arrive(r)
  <2>1. pc[r] = "idle" /\ (UNCHANGED pc \/ \E step \in {"edit", "guard"} :
                                             pc' = [pc EXCEPT ![r] = step])
    BY <1>4 DEF Arrive, CreateDraft, BeginEdit, BeginPost, SetObSetting, CloseMonth, ReopenMonth
  <2>2. \A q \in Requests : q # r => pc'[q] = pc[q]
    BY <2>1 DEF TypeOK
  <2>3. UNCHANGED pc \/ pc'[r] # "idle"
    BY <2>1 DEF TypeOK
  <2>4. Solo'
    BY <1>2, <2>2
  <2>5. \A q \in Requests : q # r => pc[q] = "idle"
    BY <1>1, <2>2, <2>3, <2>4 DEF Solo
  <2>6. QED
    BY <1>4, <2>1, <2>2, <2>4, <2>5
<1>5. CASE Step(r)
  <2>1. pc[r] # "idle" /\ \E step \in {"idle", "read", "write", "commit"} :
                            pc' = [pc EXCEPT ![r] = step]
    BY <1>5 DEF Step, TransactionStep, FinishEdit, CheckGuards, ReadBalance, WriteBalance,
                Advance, Refuse, Rollback, Commit, Return
  <2>2. \A q \in Requests : q # r => pc'[q] = pc[q]
    BY <2>1 DEF TypeOK
  <2>3. QED
    BY <1>2, <1>5, <2>1, <2>2 DEF Solo
<1>6. QED
  BY <1>3, <1>4, <1>5

\* An idle request with nothing uncommitted has nothing to keep to.
LEMMA IdleHolds ==
  ASSUME NEW q \in Requests, pc'[q] = "idle", pend'[q] = Zero, rows'[q] = Zero
  PROVE  Clean(q)' /\ Stands(q)' /\ Follows(q)'
<1>1. Clean(q)' /\ Stands(q)'
  BY DEF Clean, Stands
<1>2. Follows(q)'
  BY DEF Follows, Keeping
<1>3. QED
  BY <1>1, <1>2

\* Arrivals begin with nothing done.
LEMMA SerialArrive ==
  ASSUME Inv, SerialInv, Solo', NEW r \in Requests, Arrive(r), pc[r] = "idle",
         \A q \in Requests : q # r => pc[q] = "idle" /\ pc'[q] = "idle"
  PROVE  SerialInv'
<1>1. UNCHANGED <<pend, rows>> /\ \A q \in Requests : pend[q] = Zero /\ rows[q] = Zero
  BY DEF SerialInv, Clean, Arrive, CreateDraft, BeginEdit, BeginPost, SetObSetting, CloseMonth,
         ReopenMonth, uncommitted
<1>2. CASE pc'[r] = "idle"
  <2>1. \A q \in Requests : pc'[q] = "idle"
    BY <1>2
  <2>2. QED
    BY <1>1, <2>1, IdleHolds DEF SerialInv
<1>3. ASSUME NEW d \in Docs, BeginEdit(r, d) \/ BeginPost(r, d) PROVE SerialInv'
  <2>1. /\ pc'[r] \in {"edit", "guard"} /\ job'[r] = d /\ UNCHANGED <<status, lines>>
        /\ pc'[r] = "edit" => status[d] = "DRAFT"
        /\ pc'[r] = "guard" => work'[r] = lines[d] /\ Postable(d)
    BY <1>3 DEF BeginEdit, BeginPost, documents, Inv, TypeOK
  <2>2. pc'[r] = "guard" => status[d] \in {"DRAFT", "PENDING_APPROVAL"}
    BY <2>1 DEF Postable, Inv, TypeOK, Statuses
  <2>3. Clean(r)' /\ Stands(r)'
    BY <1>1, <2>1, <2>2 DEF Clean, Stands
  <2>4. Follows(r)'
    BY <2>1 DEF Follows, Keeping
  <2>5. QED
    BY <1>1, <2>3, <2>4, IdleHolds DEF SerialInv
<1>4. CASE pc'[r] # "idle"
  BY <1>3, <1>4 DEF Arrive, CreateDraft, SetObSetting, CloseMonth, ReopenMonth
<1>5. QED
  BY <1>2, <1>4

\* A request that ends leaves nothing behind.
LEMMA SerialEnd ==
  ASSUME Inv, SerialInv, Solo', NEW r \in Requests,
         \A q \in Requests : q # r => pc[q] = "idle" /\ pc'[q] = "idle",
         pc'[r] = "idle", Forget(r) \/ (UNCHANGED uncommitted /\ pc[r] = "edit")
  PROVE  SerialInv'
<1>1. \A q \in Requests : q # r => pend[q] = Zero /\ rows[q] = Zero
  BY DEF SerialInv, Clean
<1>2. \A q \in Requests : pend'[q] = Zero /\ rows'[q] = Zero
  <2>1. CASE Forget(r)
    BY <1>1, <2>1 DEF Forget, Inv, TypeOK, RowsTypeOK
  <2>2. CASE UNCHANGED uncommitted /\ pc[r] = "edit"
    BY <1>1, <2>2 DEF uncommitted, SerialInv, Clean
  <2>3. QED
    BY <2>1, <2>2
<1>3. \A q \in Requests : pc'[q] = "idle"
  OBVIOUS
<1>4. QED
  BY <1>2, <1>3, IdleHolds DEF SerialInv

\* Before its first section a request sees the committed balances.
LEMMA SeenClean ==
  ASSUME Inv, NEW r \in Requests, pend[r] = Zero
  PROVE  Seen(r) = onHand
<1>1. \A c \in Cells : onHand[c] \in Int /\ onHand[c] + 0 = onHand[c]
  BY DEF Inv, TypeOK, RowsTypeOK
<1>2. \A c \in Cells : Visible(r, c) = onHand[c]
  BY <1>1 DEF Visible, Zero
<1>3. onHand = [c \in Cells |-> onHand[c]]
  BY DEF Inv, TypeOK, RowsTypeOK
<1>4. QED
  BY <1>2, <1>3 DEF Seen

\* The guards, and the first step of the abstract posting.
LEMMA SerialGuards ==
  ASSUME Inv, SerialInv, Solo', NEW r \in Requests, CheckGuards(r),
         \A q \in Requests : q # r => pc[q] = "idle" /\ pc'[q] = "idle"
  PROVE  SerialInv'
<1>1. /\ pc[r] = "guard" /\ GuardsPass(job[r])
      /\ pc'[r] = IF NothingToApply(r) THEN "commit" ELSE "read"
      /\ idx'[r] = 1 /\ sec'[r] = FirstSection(Kind[job[r]])
      /\ UNCHANGED <<onHand, seen, pend, rows, status, lines, obSetting, closed, job, work>>
  BY DEF CheckGuards, committed, uncommitted, documents, settings, Inv, TypeOK
<1>2. pend[r] = Zero /\ Clean(r) /\ Stands(r) /\ work[r] \in Seq(Line)
  BY <1>1 DEF SerialInv, Clean, Inv, TypeOK, RowsTypeOK
<1>3. Clean(r)'
  BY <1>1, <1>2 DEF Clean
<1>4. Stands(r)'
  <2>1. GuardsPass(job[r])'
    BY <1>1 DEF GuardsPass
  <2>2. QED
    BY <1>1, <1>2, <2>1 DEF Stands
<1>5. Seen(r)' = onHand
  <2>1. Seen(r) = onHand
    BY <1>2, SeenClean
  <2>2. QED
    BY <1>1, <2>1 DEF Seen, Visible
<1>6. Follows(r)'
  <2> DEFINE k == Kind[job[r]]
             ls == work[r]
             f == Results(k, ls, onHand)
             R == Promise!Result(TRUE, onHand)
  <2>1. f[0] = R
    BY <1>2, ResultsUnfold
  <2>2. ASSUME NothingToApply(r) PROVE f[Len(ls)] = R
    <3>1. CASE ls = <<>>
      BY <2>1, <3>1
    <3>2. CASE k \in Inert
      BY <1>2, <3>2, InertResult
    <3>3. QED
      BY <2>2, <3>1, <3>2 DEF NothingToApply
  <2>3. Reached(k, ls, onHand, 1, FirstSection(k)) = f[0]
    BY DEF Reached, FirstSection
  <2> HIDE DEF k, ls, f, R
  <2>4. Keeping(k, ls, onHand, pc'[r], 1, FirstSection(k), seen[r], onHand)
    BY <1>1, <2>1, <2>2, <2>3 DEF Keeping, f, R
  <2>5. QED
    BY <1>1, <1>5, <2>4 DEF Follows, k, ls
<1>7. \A q \in Requests : q # r => pend'[q] = Zero /\ rows'[q] = Zero
  BY <1>1 DEF SerialInv, Clean
<1>8. QED
  BY <1>3, <1>4, <1>6, <1>7, IdleHolds DEF SerialInv

\* A section reads what it will find when it writes.
LEMMA SerialRead ==
  ASSUME Inv, SerialInv, Solo', NEW r \in Requests, ReadBalance(r),
         \A q \in Requests : q # r => pc[q] = "idle" /\ pc'[q] = "idle"
  PROVE  SerialInv'
<1>1. /\ pc[r] = "read" /\ pc'[r] = "write" /\ seen'[r] = Visible(r, CurrentCell(r))
      /\ UNCHANGED <<onHand, pend, rows, status, lines, obSetting, closed, job, work, idx, sec>>
  BY DEF ReadBalance, Select, committed, documents, settings, local, Inv, TypeOK, RowsTypeOK
<1>2. Clean(r) /\ Stands(r) /\ Follows(r)
  BY DEF SerialInv
<1>3. Clean(r)'
  BY <1>1, <1>2 DEF Clean
<1>4. Stands(r)'
  <2>1. GuardsPass(job[r])' <=> GuardsPass(job[r])
    BY <1>1 DEF GuardsPass
  <2>2. QED
    BY <1>1, <1>2, <2>1 DEF Stands
<1>5. Seen(r)' = Seen(r)
  BY <1>1 DEF Seen, Visible
<1>6. Follows(r)'
  <2>1. CurrentCell(r) \in Cells
    BY <1>1, PositionTyping DEF Inv
  <2>2. seen'[r] = Seen(r)[CellOf(Kind[job[r]], sec[r], work[r][idx[r]])]
    BY <1>1, <2>1 DEF Seen, CurrentCell, CurrentLine
  <2>3. Keeping(Kind[job[r]], work[r], onHand, "read", idx[r], sec[r], seen[r], Seen(r))
    BY <1>1, <1>2 DEF Follows
  <2>4. Keeping(Kind[job[r]], work[r], onHand, "write", idx[r], sec[r], seen'[r], Seen(r))
    BY <2>2, <2>3 DEF Keeping
  <2>5. QED
    BY <1>1, <1>5, <2>4 DEF Follows
<1>7. \A q \in Requests : q # r => pend'[q] = Zero /\ rows'[q] = Zero
  BY <1>1 DEF SerialInv, Clean
<1>8. QED
  BY <1>3, <1>4, <1>6, <1>7, IdleHolds DEF SerialInv

\* What a section that finds what it read does to what the request sees.
LEMMA WriteChanges ==
  ASSUME Inv, SerialInv, NEW r \in Requests, WriteBalance(r)
  PROVE  LET k == Kind[job[r]]
             c == CurrentCell(r)
             row == RowQty(k, sec[r], CurrentLine(r), Seen(r)[c])
         IN  /\ c \in Cells /\ row \in Int
             /\ seen[r] = Seen(r)[c] /\ Seen(r)[c] = Visible(r, c) /\ Seen(r)[c] \in Int
             /\ pend' = [pend EXCEPT ![r][c] = @ + row]
             /\ rows' = [rows EXCEPT ![r][c] = @ + row]
             /\ Seen(r)' = [Seen(r) EXCEPT ![c] = @ + row]
<1> DEFINE k == Kind[job[r]]
           c == CurrentCell(r)
           row == RowQty(k, sec[r], CurrentLine(r), Seen(r)[c])
<1>1. /\ pc[r] = "write" /\ UNCHANGED onHand
      /\ pend' = [pend EXCEPT ![r][c] = @ + BalanceChange(k, sec[r], CurrentLine(r), Visible(r, c))]
      /\ rows' = [rows EXCEPT ![r][c] = @ + RowQty(k, sec[r], CurrentLine(r), seen[r])]
  BY DEF WriteBalance, Update, committed
<1>2. c \in Cells /\ CurrentLine(r) \in Line /\ k \in Kinds
  BY <1>1, PositionTyping DEF Inv
<1>3. Seen(r)[c] = Visible(r, c) /\ Visible(r, c) \in Int
  BY <1>2 DEF Seen, Visible, Inv, TypeOK, RowsTypeOK
<1>4. seen[r] = Seen(r)[c]
  BY <1>1 DEF SerialInv, Follows, Keeping, CurrentCell, CurrentLine
<1>5. row \in Int
  <2>1. sec[r] \in {"out", "in", "adjust"}
    BY DEF Inv, TypeOK
  <2>2. QED
    BY <1>2, <1>3, <2>1, RowQtyType
<1>6. pend' = [pend EXCEPT ![r][c] = @ + row] /\ rows' = [rows EXCEPT ![r][c] = @ + row]
  BY <1>1, <1>3, <1>4 DEF BalanceChange
<1>7. Seen(r)' = [Seen(r) EXCEPT ![c] = @ + row]
  <2> HIDE DEF c, row
  <2>0. \A x \in Cells : onHand[x] \in Int /\ pend[r][x] \in Int /\ onHand'[x] = onHand[x]
    BY <1>1 DEF Inv, TypeOK, RowsTypeOK
  <2>1. pend'[r][c] = pend[r][c] + row
    BY <1>2, <1>6 DEF Inv, TypeOK, RowsTypeOK
  <2>2. \A x \in Cells : x # c => pend'[r][x] = pend[r][x]
    BY <1>6 DEF Inv, TypeOK, RowsTypeOK
  <2>3. ASSUME NEW x \in Cells
        PROVE  onHand'[x] + pend'[r][x] = IF x = c THEN (onHand[x] + pend[r][x]) + row
                                          ELSE onHand[x] + pend[r][x]
    <3>1. CASE x = c
      BY <1>5, <2>0, <2>1, <3>1
    <3>2. CASE x # c
      BY <2>0, <2>2, <3>2
    <3>3. QED
      BY <3>1, <3>2
  <2>4. QED
    BY <1>2, <2>3 DEF Seen, Visible
<1>8. QED
  BY <1>2, <1>3, <1>4, <1>5, <1>6, <1>7

\* A section that is written.
LEMMA SerialWrite ==
  ASSUME Inv, SerialInv, Solo', NEW r \in Requests, WriteBalance(r),
         \A q \in Requests : q # r => pc[q] = "idle" /\ pc'[q] = "idle"
  PROVE  SerialInv'
<1> DEFINE k == Kind[job[r]]
           ls == work[r]
           i == idx[r]
           s == sec[r]
           c == CurrentCell(r)
           row == RowQty(k, s, CurrentLine(r), Seen(r)[c])
<1>1. /\ pc[r] = "write" /\ Advance(r) /\ ~Short(s, CurrentLine(r), seen[r])
      /\ UNCHANGED <<onHand, seen, status, lines, obSetting, closed, job, work>>
  BY DEF WriteBalance, Update, committed, documents, settings
<1>2. /\ c \in Cells /\ row \in Int
      /\ seen[r] = Seen(r)[c]
      /\ pend' = [pend EXCEPT ![r][c] = @ + row]
      /\ rows' = [rows EXCEPT ![r][c] = @ + row]
      /\ Seen(r)' = [Seen(r) EXCEPT ![c] = @ + row]
  BY WriteChanges
<1>3. Clean(r) /\ Stands(r) /\ Follows(r)
  BY DEF SerialInv
<1>4. pc'[r] \in {"read", "commit"}
  BY <1>1 DEF Advance, Inv, TypeOK
<1>5. Clean(r)'
  <2> HIDE DEF c, row
  <2>1. pend[r] = rows[r]
    BY <1>3 DEF Clean
  <2>2. pend'[r] = rows'[r]
    BY <1>2, <2>1 DEF Inv, TypeOK, RowsTypeOK
  <2>3. QED
    BY <1>4, <2>2 DEF Clean
<1>6. Stands(r)'
  <2>1. GuardsPass(job[r])' <=> GuardsPass(job[r])
    BY <1>1 DEF GuardsPass
  <2>2. QED
    BY <1>1, <1>3, <1>4, <2>1 DEF Stands
<1>7. Follows(r)'
  <2>1. Keeping(k, ls, onHand, "write", i, s, seen[r], Seen(r))
    BY <1>1, <1>3 DEF Follows
  <2>2. /\ k \in Kinds /\ ls \in Seq(Line) /\ i \in 1 .. Len(ls)
    BY <1>1, PositionTyping DEF Inv, TypeOK, Position
  <2>3. k \notin Inert /\ (s = FirstSection(k) \/ (k = "TRANSFER" /\ s = "in"))
    <3> HIDE DEF FirstSection
    <3>1. QED
      BY <1>1, Zenon DEF Inv, SectionOfKind
  <2>4. CurrentLine(r) = ls[i] /\ c = CellOf(k, s, ls[i])
    BY DEF CurrentLine, CurrentCell
  <2> DEFINE next == Seen(r)'
             bal == Seen(r)
             read == seen[r]
  <2>5. next = [bal EXCEPT ![CellOf(k, s, ls[i])] =
                   @ + RowQty(k, s, ls[i], bal[CellOf(k, s, ls[i])])]
    BY <1>2, <2>4
  <2>6. ~Short(s, ls[i], read)
    BY <1>1, <2>4
  <2> HIDE DEF next, bal, read
  <2>7. /\ HasNextSection(k, s) => Keeping(k, ls, onHand, "read", i, "in", read, next)
        /\ ~HasNextSection(k, s) /\ i < Len(ls) =>
              Keeping(k, ls, onHand, "read", i + 1, FirstSection(k), read, next)
        /\ ~HasNextSection(k, s) /\ ~(i < Len(ls)) =>
              Keeping(k, ls, onHand, "commit", i, s, read, next)
    <3>1. Keeping(k, ls, onHand, "write", i, s, read, bal)
      BY <2>1 DEF bal, read
    <3> HIDE DEF k, ls, i, s
    <3>2. QED
      BY <2>2, <2>3, <2>5, <2>6, <3>1, SectionKeeps
  <2>8. Keeping(k, ls, onHand, pc'[r], idx'[r], sec'[r], read, next)
    <3>1. CASE HasNextSection(k, s)
      <4>1. pc'[r] = "read" /\ idx'[r] = i /\ sec'[r] = "in"
        BY <1>1, <3>1 DEF Advance, Inv, TypeOK
      <4>2. QED
        BY <2>7, <3>1, <4>1
    <3>2. CASE ~HasNextSection(k, s) /\ i < Len(ls)
      <4>1. pc'[r] = "read" /\ idx'[r] = i + 1 /\ sec'[r] = FirstSection(k)
        BY <1>1, <3>2 DEF Advance, Inv, TypeOK
      <4>2. QED
        BY <2>7, <3>2, <4>1
    <3>3. CASE ~HasNextSection(k, s) /\ ~(i < Len(ls))
      <4>1. pc'[r] = "commit" /\ idx'[r] = i /\ sec'[r] = s
        BY <1>1, <3>3 DEF Advance, Inv, TypeOK
      <4>2. QED
        BY <2>7, <3>3, <4>1
    <3>4. QED
      BY <3>1, <3>2, <3>3
  <2>9. QED
    BY <1>1, <2>8 DEF Follows, next, read
<1>8. \A q \in Requests : q # r => pend'[q] = Zero /\ rows'[q] = Zero
  <2>1. \A q \in Requests : q # r => pend[q] = Zero /\ rows[q] = Zero
    BY DEF SerialInv, Clean
  <2> HIDE DEF c, row
  <2>2. \A q \in Requests : q # r => pend'[q] = pend[q] /\ rows'[q] = rows[q]
    BY <1>2 DEF Inv, TypeOK, RowsTypeOK
  <2>3. QED
    BY <2>1, <2>2
<1>9. QED
  BY <1>5, <1>6, <1>7, <1>8, IdleHolds DEF SerialInv

LEMMA SerialStep ==
  ASSUME Inv, SerialInv, Next, NoteOverlap, ~overlapped'
  PROVE  SerialInv'
<1>1. Solo'
  BY Modes DEF Inv, SerialInv
<1>2. PICK r \in Requests :
        /\ \A q \in Requests : q # r => pc[q] = "idle" /\ pc'[q] = "idle"
        /\ \/ Arrive(r) /\ pc[r] = "idle"
           \/ Step(r) /\ pc[r] # "idle"
  BY Modes DEF Inv, SerialInv
<1>3. CASE Arrive(r) /\ pc[r] = "idle"
  BY <1>1, <1>2, <1>3, SerialArrive
<1>4. CASE FinishEdit(r)
  <2>1. pc'[r] = "idle" /\ UNCHANGED uncommitted /\ pc[r] = "edit"
    BY <1>4 DEF FinishEdit, Inv, TypeOK
  <2>2. QED
    BY <1>1, <1>2, <2>1, SerialEnd
<1>5. CASE Refuse(r) \/ Rollback(r) \/ Commit(r)
  <2>1. pc'[r] = "idle" /\ Forget(r)
    BY <1>5 DEF Refuse, Rollback, RollbackRows, Commit, CommitRows, Return, Inv, TypeOK
  <2>2. QED
    BY <1>1, <1>2, <2>1, SerialEnd
<1>6. QED
  BY <1>1, <1>2, <1>3, <1>4, <1>5, SerialGuards, SerialRead, SerialWrite
     DEF Step, TransactionStep

LEMMA InvInit == Init => Inv
<1> SUFFICES ASSUME Init PROVE Inv
  OBVIOUS
<1>1. LinesFromDrafts /\ SectionOfKind
  BY DEF Init, LinesFromDrafts, SectionOfKind
<1>2. QED
  BY <1>1, TypeInit DEF Inv

LEMMA InvStep == Inv /\ [Next]_vars => Inv'
  BY TypeStep, LinesFromDraftsStep, SectionOfKindStep DEF Inv

LEMMA SerialInit == Init => SerialInv
  BY DEF Init, RowsInit, SerialInv, Solo, Clean, Stands, Follows, Keeping

\* What is proved of the specification with the history.
FullInv == Inv /\ (overlapped \/ SerialInv)

LEMMA FullInit == HistoryInit => FullInv
  BY InvInit, SerialInit DEF HistoryInit, FullInv

LEMMA FullStep == FullInv /\ [HistoryNext]_<<vars, overlapped>> => FullInv'
<1> SUFFICES ASSUME FullInv, [HistoryNext]_<<vars, overlapped>> PROVE FullInv'
  OBVIOUS
<1>1. CASE HistoryNext
  <2>1. Next /\ NoteOverlap
    BY <1>1 DEF HistoryNext
  <2>2. Inv'
    BY <2>1, InvStep DEF FullInv
  <2>3. overlapped => overlapped'
    BY <2>1 DEF NoteOverlap
  <2>4. QED
    BY <2>1, <2>2, <2>3, SerialStep DEF FullInv
<1>2. CASE UNCHANGED <<vars, overlapped>>
  <2>1. UNCHANGED vars /\ UNCHANGED overlapped
    BY <1>2
  <2>2. Inv'
    BY <2>1, InvStep DEF FullInv
  <2>3. UNCHANGED <<onHand, seen, pend, rows, status, lines, obSetting, closed,
                    pc, job, work, idx, sec>>
    BY <2>1 DEF vars, committed, uncommitted, documents, settings, local
  <2>4. \A r \in Requests : /\ Clean(r)' <=> Clean(r)
                            /\ Stands(r)' <=> Stands(r)
                            /\ Follows(r)' <=> Follows(r)
    <3> TAKE r \in Requests
    <3>1. Seen(r)' = Seen(r)
      BY <2>3 DEF Seen, Visible
    <3>2. GuardsPass(job[r])' <=> GuardsPass(job[r])
      BY <2>3 DEF GuardsPass
    <3>3. QED
      BY <2>3, <3>1, <3>2 DEF Clean, Stands, Follows
  <2>5. SerialInv => SerialInv'
    BY <2>3, <2>4 DEF SerialInv, Solo
  <2>6. QED
    BY <2>1, <2>2, <2>5 DEF FullInv
<1>3. QED
  BY <1>1, <1>2

-----------------------------------------------------------------------------
(* Stock stays non-negative. *)

\* A section that is not short leaves the balance it read non-negative, unless
\* it adds a negative quantity.
LEMMA SectionLeavesStock ==
  ASSUME NEW k, NEW s \in {"out", "in", "adjust"}, NEW line \in Line,
         NEW was \in Int, ~Short(s, line, was)
  PROVE  \/ was + RowQty(k, s, line, was) >= 0
         \/ s = "in" /\ line.qty < 0
         \/ was < 0
<1>1. line.qty \in Int
  BY DEF Line
<1>2. CASE s = "out"
  BY <1>1, <1>2 DEF RowQty, Short
<1>3. CASE s = "in"
  BY <1>1, <1>3 DEF RowQty, Short
<1>4. CASE s = "adjust"
  BY <1>1, <1>4 DEF RowQty, Short
<1>5. QED
  BY <1>2, <1>3, <1>4

\* The line a request is at in section B is one of its document's.
LEMMA CurrentLineSpoils ==
  ASSUME Inv, SerialInv, NEW r \in Requests, pc[r] = "write", sec[r] = "in",
         CurrentLine(r).qty < 0
  PROVE  AddsLess(job[r], CurrentCell(r))
<1>1. work[r] # <<>> /\ idx[r] \in DOMAIN work[r] /\ work[r] = lines[job[r]]
  BY DEF Inv, TypeOK, RowsTypeOK, Position, SerialInv, Stands
<1>2. Kind[job[r]] \in Increases \cup {"TRANSFER"}
  <2>1. Kind[job[r]] \in Kinds /\ work[r] # <<>>
    BY <1>1, KindAssumption DEF Inv, TypeOK
  <2>2. Kind[job[r]] \notin Adjustments \cup Sheets \cup Decreases \cup Inert
    BY <1>1 DEF Inv, SectionOfKind, Position, FirstSection, Increases, Decreases, Adjustments, Sheets, Counts,
               Reports, Inert
  <2>3. QED
    BY <2>1, <2>2 DEF Kinds
<1>3. QED
  BY <1>1, <1>2 DEF AddsLess, CurrentLine, CurrentCell

\* What has been posted stays so with its lines.
LEMMA SpoiledStays ==
  ASSUME Inv, SerialInv, Next, NEW c \in Cells, Spoiled(c)
  PROVE  Spoiled(c)'
<1>1. PICK d \in Docs : status[d] = "POSTED" /\ AddsLess(d, c)
  BY DEF Spoiled
<1>2. PICK r \in Requests : Arrive(r) \/ Step(r)
  BY DEF Next
<1>3. status'[d] = "POSTED" /\ lines'[d] = lines[d]
  <2>1. CASE Arrive(r)
    BY <1>1, <2>1 DEF Arrive, CreateDraft, BeginEdit, BeginPost, SetObSetting, CloseMonth, ReopenMonth,
                      documents, Inv, TypeOK
  <2>2. CASE FinishEdit(r)
    <3>1. status[job[r]] = "DRAFT"
      BY <2>2 DEF FinishEdit, SerialInv, Stands
    <3>2. QED
      BY <1>1, <2>2, <3>1 DEF FinishEdit, Inv, TypeOK
  <2>3. CASE CheckGuards(r) \/ ReadBalance(r) \/ WriteBalance(r) \/ Refuse(r) \/ Rollback(r)
    BY <1>1, <2>3 DEF CheckGuards, ReadBalance, WriteBalance, Refuse, Rollback, documents
  <2>4. CASE Commit(r)
    BY <1>1, <2>4 DEF Commit, Inv, TypeOK
  <2>5. QED
    BY <1>2, <2>1, <2>2, <2>3, <2>4 DEF Step, TransactionStep
<1>4. QED
  BY <1>1, <1>3 DEF Spoiled, AddsLess

\* One request on its own never takes stock it has not seen.
LEMMA CoveredStep ==
  ASSUME Inv, SerialInv, Covered, Next, NoteOverlap, ~overlapped'
  PROVE  Covered'
<1>1. PICK r \in Requests :
        /\ \A q \in Requests : q # r => pc[q] = "idle" /\ pc'[q] = "idle"
        /\ \/ Arrive(r) /\ pc[r] = "idle"
           \/ Step(r) /\ pc[r] # "idle"
  BY Modes DEF Inv, SerialInv
<1>2. SerialInv' /\ Inv'
  BY SerialStep, InvStep
<1>3. \A q \in Requests : q # r => pend'[q] = Zero
  BY <1>1, <1>2 DEF SerialInv, Clean
<1> DEFINE Holds(c) ==
      /\ onHand'[c] >= 0 \/ Spoiled(c)'
      /\ onHand'[c] + pend'[r][c] >= 0 \/ Spoiled(c)' \/ Spoiling(r, c)'
<1>4. ASSUME \A c \in Cells : Holds(c)
      PROVE  Covered'
  <2>1. \A c \in Cells : onHand'[c] \in Int /\ Zero[c] = 0
    BY <1>2 DEF Inv, TypeOK, RowsTypeOK, Zero
  <2>2. \A q \in Requests : \A c \in Cells :
          onHand'[c] + pend'[q][c] >= 0 \/ Spoiled(c)' \/ Spoiling(q, c)'
    BY <1>3, <1>4, <2>1
  <2>3. QED
    BY <1>4, <2>2 DEF Covered, Visible
<1>5. \A c \in Cells : /\ onHand[c] >= 0 \/ Spoiled(c)'
                       /\ onHand[c] + pend[r][c] >= 0 \/ Spoiled(c)' \/ Spoiling(r, c)
                       /\ onHand[c] \in Int /\ pend[r][c] \in Int /\ Zero[c] = 0
  BY SpoiledStays DEF Covered, Visible, Inv, TypeOK, RowsTypeOK, Zero
<1>6. CASE UNCHANGED <<onHand, pend>> /\ \A c \in Cells : Spoiling(r, c) => Spoiling(r, c)'
  BY <1>4, <1>5, <1>6
<1>7. CASE UNCHANGED onHand /\ pend'[r] = Zero
  BY <1>4, <1>5, <1>7
<1>8. CASE Arrive(r)
  <2>1. UNCHANGED <<onHand, pend>>
    BY <1>8 DEF Arrive, CreateDraft, BeginEdit, BeginPost, SetObSetting, CloseMonth, ReopenMonth,
                committed, uncommitted
  <2>2. pc[r] = "idle"
    BY <1>8 DEF Arrive, CreateDraft, BeginEdit, BeginPost, SetObSetting, CloseMonth, ReopenMonth
  <2>3. QED
    BY <1>6, <2>1, <2>2 DEF Spoiling
<1>9. CASE FinishEdit(r) \/ CheckGuards(r) \/ ReadBalance(r)
  <2>1. UNCHANGED <<onHand, pend>>
    BY <1>9 DEF FinishEdit, CheckGuards, ReadBalance, Select, committed, uncommitted
  <2>2. \A c \in Cells : Spoiling(r, c) => Spoiling(r, c)'
    BY <1>9 DEF FinishEdit, CheckGuards, ReadBalance, documents, local, Spoiling, AddsLess, Inv, TypeOK
  <2>3. QED
    BY <1>6, <2>1, <2>2
<1>10. CASE Refuse(r) \/ Rollback(r)
  BY <1>7, <1>10 DEF Refuse, Rollback, RollbackRows, Forget, committed, Inv, TypeOK, RowsTypeOK
<1>11. CASE Commit(r)
  <2>1. pend'[r] = Zero /\ \A c \in Cells : onHand'[c] = onHand[c] + pend[r][c]
    BY <1>11 DEF Commit, CommitRows, Forget, Inv, TypeOK, RowsTypeOK
  <2>2. ASSUME NEW c \in Cells, Spoiling(r, c) PROVE Spoiled(c)'
    <3>1. job[r] \in Docs /\ status'[job[r]] = "POSTED" /\ UNCHANGED lines
      BY <1>11 DEF Commit, Inv, TypeOK
    <3>2. QED
      BY <2>2, <3>1 DEF Spoiled, Spoiling, AddsLess
  <2>3. QED
    BY <1>4, <1>5, <2>1, <2>2
<1>12. CASE WriteBalance(r)
  <2> DEFINE k == Kind[job[r]]
             c == CurrentCell(r)
             was == Seen(r)[c]
             row == RowQty(k, sec[r], CurrentLine(r), was)
  <2>1. pc[r] = "write" /\ ~Short(sec[r], CurrentLine(r), seen[r]) /\ UNCHANGED onHand
    BY <1>12 DEF WriteBalance, Update, committed
  <2>2. /\ c \in Cells /\ row \in Int /\ seen[r] = was
        /\ was = onHand[c] + pend[r][c] /\ was \in Int
        /\ pend' = [pend EXCEPT ![r][c] = @ + row]
    BY <1>12, WriteChanges DEF Visible
  <2>3. CurrentLine(r) \in Line /\ sec[r] \in {"out", "in", "adjust"}
    BY <2>1, PositionTyping DEF Inv, TypeOK
  <2>4. ASSUME NEW x \in Cells PROVE Spoiling(r, x)' <=> AddsLess(job[r], x)
    <3>1. pc'[r] \in {"read", "commit"} /\ UNCHANGED <<job, lines>>
      BY <1>12 DEF WriteBalance, Advance, documents, Inv, TypeOK
    <3>2. QED
      BY <3>1 DEF Spoiling, AddsLess
  <2>5. ASSUME NEW x \in Cells, x = c, sec[r] = "in", CurrentLine(r).qty < 0 PROVE Spoiling(r, x)'
    <3>1. AddsLess(job[r], CurrentCell(r))
      BY <2>1, <2>5, CurrentLineSpoils
    <3>2. QED
      BY <2>4, <2>5, <3>1
  <2>6. was + row >= 0 \/ (sec[r] = "in" /\ CurrentLine(r).qty < 0) \/ was < 0
    <3>1. ~Short(sec[r], CurrentLine(r), was)
      BY <2>1, <2>2
    <3> HIDE DEF was, k
    <3>2. QED
      BY <2>2, <2>3, <3>1, SectionLeavesStock
  <2> HIDE DEF c, was, row, k
  <2>7. pend'[r][c] = pend[r][c] + row /\ \A x \in Cells : x # c => pend'[r][x] = pend[r][x]
    BY <2>2 DEF Inv, TypeOK, RowsTypeOK
  <2>8. \A x \in Cells : Spoiling(r, x) => Spoiling(r, x)'
    BY <2>4 DEF Spoiling
  <2>9. ASSUME NEW x \in Cells
        PROVE  onHand[x] + pend'[r][x] >= 0 \/ Spoiled(x)' \/ Spoiling(r, x)'
    <3>1. onHand[x] + pend[r][x] >= 0 \/ Spoiled(x)' \/ Spoiling(r, x)'
      BY <1>5, <2>8
    <3>2. CASE x # c
      BY <2>7, <3>1, <3>2
    <3>3. CASE x = c
      <4>1. pend'[r][x] = pend[r][x] + row /\ was = onHand[x] + pend[r][x]
        BY <2>2, <2>7, <3>3
      <4>2. (sec[r] = "in" /\ CurrentLine(r).qty < 0) => Spoiling(r, x)'
        BY <2>5, <3>3
      <4>3. onHand[x] \in Int /\ pend[r][x] \in Int
        BY <1>5
      <4>4. QED
        BY <2>2, <2>6, <3>1, <4>1, <4>2, <4>3
    <3>4. QED
      BY <3>2, <3>3
  <2>10. QED
    BY <1>4, <1>5, <2>1, <2>9
<1>13. QED
  BY <1>1, <1>8, <1>9, <1>10, <1>11, <1>12 DEF Step, TransactionStep

\* As long as requests do not overlap, only a line that adds a negative
\* quantity to a balance makes it negative: the check of a section is made on
\* the balance that the section then changes.
THEOREM StockNonNegative == HistorySpec => []NonNegative
<1> DEFINE I == FullInv /\ (overlapped \/ Covered)
<1>1. HistoryInit => I
  <2>1. Init => Covered
    BY DEF Init, RowsInit, Covered, Visible, Zero
  <2>2. QED
    BY <2>1, FullInit DEF HistoryInit
<1>2. I /\ [HistoryNext]_<<vars, overlapped>> => I'
  <2> SUFFICES ASSUME I, [HistoryNext]_<<vars, overlapped>> PROVE overlapped' \/ Covered'
    BY FullStep
  <2>1. CASE HistoryNext
    <3>1. Next /\ NoteOverlap
      BY <2>1 DEF HistoryNext
    <3>2. overlapped => overlapped'
      BY <3>1 DEF NoteOverlap
    <3>3. QED
      BY <3>1, <3>2, CoveredStep DEF FullInv
  <2>2. CASE UNCHANGED <<vars, overlapped>>
    <3>1. UNCHANGED vars /\ UNCHANGED overlapped
      BY <2>2
    <3>2. UNCHANGED <<onHand, pend, status, lines, pc, job>>
      BY <3>1 DEF vars, committed, uncommitted, documents, local
    <3>3. QED
      BY <3>1, <3>2 DEF Covered, Visible, Spoiled, Spoiling, AddsLess
  <2>3. QED
    BY <2>1, <2>2
<1>3. I => NonNegative
  <2>1. SUFFICES ASSUME I, NEW c \in Cells, onHand[c] < 0, ~overlapped PROVE Spoiled(c)
    BY DEF NonNegative, Alone, Spoiled
  <2>2. onHand[c] \in Int
    BY <2>1 DEF FullInv, Inv, TypeOK, RowsTypeOK
  <2>3. QED
    BY <2>1, <2>2 DEF Covered
<1>4. QED
  BY <1>1, <1>2, <1>3, PTL DEF HistorySpec

-----------------------------------------------------------------------------
(* The promise of AtomicPosting. *)

LEMMA PromiseInit == Init => Promise!Init
<1> SUFFICES ASSUME Init PROVE Promise!Init
  OBVIOUS
<1>1. /\ onHand = [c \in Cells |-> 0] /\ ledger = [c \in Cells |-> 0]
      /\ status = [d \in Docs |-> "none"] /\ lines = [d \in Docs |-> <<>>] /\ closed = {}
  BY DEF Init, RowsInit, Zero
<1>2. QED
  BY <1>1 DEF Promise!Init

\* A step that touches none of the promise's variables.
LEMMA Stutters ==
  ASSUME UNCHANGED <<onHand, ledger, status, lines, obSetting, closed>>
  PROVE  UNCHANGED Promise!vars
BY DEF Promise!vars, Promise!documents, Promise!settings

\* Arrivals, edits and settings are steps of the promise.
LEMMA PromiseArrive ==
  ASSUME Inv, NEW r \in Requests, Arrive(r)
  PROVE  Promise!Next \/ UNCHANGED Promise!vars
<1>1. ASSUME NEW d \in Docs, CreateDraft(r, d) PROVE Promise!Create(d)
  <2>1. \E s \in {"DRAFT", "PENDING_APPROVAL"} : status' = [status EXCEPT ![d] = s]
    BY <1>1 DEF CreateDraft
  <2>2. QED
    BY <1>1, <2>1 DEF CreateDraft, Promise!Create, Promise!settings, settings, committed
<1>2. ASSUME NEW d \in Docs, BeginEdit(r, d) \/ BeginPost(r, d) PROVE UNCHANGED Promise!vars
  BY <1>2, Stutters DEF BeginEdit, BeginPost, committed, documents, settings
<1>3. Periods # {}
  BY PeriodAssumption
<1>4. ASSUME NEW v \in {"OPEN", "LOCKED"}, SetObSetting(r, v) PROVE Promise!Administer
  BY <1>3, <1>4 DEF SetObSetting, Promise!Administer, Promise!documents, documents, committed
<1>5. ASSUME NEW p \in Periods, CloseMonth(r, p) PROVE Promise!Administer
  BY <1>5 DEF CloseMonth, Promise!Administer, Promise!documents, documents, committed
<1>6. ASSUME NEW p \in Periods, ReopenMonth(r, p) PROVE Promise!Administer
  BY <1>6 DEF ReopenMonth, Promise!Administer, Promise!documents, documents, committed
<1>7. QED
  BY <1>1, <1>2, <1>4, <1>5, <1>6 DEF Arrive, Promise!Next

LEMMA PromiseEdit ==
  ASSUME Inv, SerialInv, NEW r \in Requests, FinishEdit(r)
  PROVE  Promise!Next
<1>1. status[job[r]] = "DRAFT" /\ job[r] \in Docs
  BY DEF FinishEdit, SerialInv, Stands, Inv, TypeOK
<1>2. Promise!Edit(job[r])
  BY <1>1 DEF FinishEdit, Promise!Edit, Promise!settings, settings, committed
<1>3. QED
  BY <1>1, <1>2 DEF Promise!Next

\* A commit is the one step in which the promise posts a document.
LEMMA PromisePost ==
  ASSUME Inv, SerialInv, NEW r \in Requests, Commit(r)
  PROVE  Promise!Next
<1> DEFINE d == job[r]
<1>1. /\ pc[r] = "commit" /\ status' = [status EXCEPT ![d] = "POSTED"]
      /\ onHand' = [c \in Cells |-> onHand[c] + pend[r][c]]
      /\ ledger' = [c \in Cells |-> ledger[c] + rows[r][c]]
      /\ obSetting' = IF Kind[d] = "OPENING_BALANCE" THEN obSetting ELSE "LOCKED"
      /\ UNCHANGED <<lines, closed>>
  BY DEF Commit, CommitRows
<1>2. d \in Docs /\ Clean(r) /\ Stands(r) /\ Follows(r)
  BY DEF SerialInv, Inv, TypeOK
<1>3. status[d] \in {"DRAFT", "PENDING_APPROVAL"} /\ GuardsPass(d) /\ work[r] = lines[d]
  BY <1>1, <1>2 DEF Stands
<1>4. Results(Kind[d], lines[d], onHand)[Len(lines[d])] = Promise!Result(TRUE, Seen(r))
  BY <1>1, <1>2, <1>3 DEF Follows, Keeping
<1>5. Promise!Applied(d) = Results(Kind[d], lines[d], onHand)[Len(lines[d])]
  BY DEF Promise!Applied, Promise!After, Results
<1>6. Promise!Applied(d).ok /\ Promise!Applied(d).balance = Seen(r)
  BY <1>4, <1>5 DEF Promise!Result
<1>7. onHand' = Seen(r)
  BY <1>1 DEF Seen, Visible
<1>8. ledger' = [c \in Cells |-> ledger[c] + onHand'[c] - onHand[c]]
  <2>1. pend[r] = rows[r]
    BY <1>2 DEF Clean
  <2>2. \A c \in Cells : onHand[c] \in Int /\ ledger[c] \in Int /\ pend[r][c] \in Int
    BY DEF Inv, TypeOK, RowsTypeOK
  <2>3. \A c \in Cells : ledger[c] + rows[r][c] = ledger[c] + onHand'[c] - onHand[c]
    BY <1>1, <2>1, <2>2
  <2>4. QED
    BY <1>1, <2>3
<1>9. (obSetting = "LOCKED")' = (obSetting = "LOCKED" \/ Kind[d] # "OPENING_BALANCE")
  BY <1>1
<1>10. PeriodOf[d] \notin closed /\ (Kind[d] = "OPENING_BALANCE" => ~(obSetting = "LOCKED"))
  BY <1>3 DEF GuardsPass
<1> HIDE DEF d
<1>11. Promise!Post(d)
  BY <1>1, <1>3, <1>6, <1>7, <1>8, <1>9, <1>10 DEF Promise!Post
<1>12. QED
  BY <1>2, <1>11 DEF Promise!Next, d

LEMMA PromiseStep ==
  ASSUME Inv, SerialInv, Next
  PROVE  Promise!Next \/ UNCHANGED Promise!vars
<1>1. PICK r \in Requests : Arrive(r) \/ Step(r)
  BY DEF Next
<1>2. CASE CheckGuards(r) \/ ReadBalance(r) \/ WriteBalance(r) \/ Refuse(r) \/ Rollback(r)
  BY <1>2, Stutters DEF CheckGuards, ReadBalance, Select, WriteBalance, Update, Refuse, Rollback,
     RollbackRows, committed, documents, settings
<1>3. QED
  BY <1>1, <1>2, PromiseArrive, PromiseEdit, PromisePost DEF Step, TransactionStep

\* While no two requests overlap, the engine implements the promise: each
\* step of it is a step of AtomicPosting or changes nothing of stock,
\* ledger, documents and settings.  Even the step that begins an overlap.
THEOREM PostingKeepsPromise == HistorySpec => KeepsPromise
<1>1. HistoryInit => Promise!Init
  BY PromiseInit DEF HistoryInit
<1>2. ASSUME FullInv, [HistoryNext]_<<vars, overlapped>>
      PROVE  [Alone([Promise!Next]_(Promise!vars))]_vars
  <2> HIDE DEF vars
  <2>1. QED
    BY <1>2, PromiseStep DEF FullInv, Alone, HistoryNext
<1>3. QED
  BY <1>1, <1>2, FullInit, FullStep, PTL DEF HistorySpec, KeepsPromise

=============================================================================
