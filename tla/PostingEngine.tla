--------------------------- MODULE PostingEngine ---------------------------
(***************************************************************************)
(* The posting engine, posting.service.js, as the requests of the API      *)
(* server run it against PostgreSQL.                                       *)
(*                                                                         *)
(* A post reads the document (BeginPost) and passes the guards             *)
(* (CheckGuards) BEFORE its transaction; inside, each section of each line *)
(* reads a balance (ReadBalance), inserts a ledger row and updates the     *)
(* balance (WriteBalance); the last step marks the document POSTED, locks  *)
(* the opening balance and commits (Commit).  StockRows says what a read   *)
(* sees and what a write waits for.  `booked` keeps the ledger once more,  *)
(* grouped by the document its rows reference.                             *)
(***************************************************************************)
EXTENDS StockLines, StockRows

CONSTANTS
  Periods,    \* months
  PeriodOf    \* PeriodOf[d]: the month of the document's date

ASSUME PeriodAssumption == Docs # {} /\ PeriodOf \in [Docs -> Periods]

VARIABLES
  booked,     \* per document and cell: qtyIn - qtyOut of its ledger rows
  status,     \* status of each document, "none" before it is created
  lines,      \* its lines
  obSetting,  \* tenantSetting allowOpeningBalance, "none" without a row
  finalized,  \* the obFinalizeSnapshot row exists
  closed,     \* months whose PeriodClose row is CLOSED
  pc,         \* per request: what it does next
  job,        \* per request: the document it works on
  work,       \* per request: the lines it read before its transaction
  idx, sec    \* per request: the line and the section of it that are next

documents == <<booked, status, lines>>
settings == <<obSetting, finalized, closed>>
local == <<job, work, idx, sec>>
vars == <<committed, uncommitted, documents, settings, pc, local>>

Statuses == {"none", "DRAFT", "PENDING_APPROVAL", "POSTED"}
NoJob == CHOOSE d \in Docs : TRUE   \* what job[r] holds while r is idle

TypeOK ==
  /\ RowsTypeOK
  /\ booked \in [Docs -> [Cells -> Int]]
  /\ status \in [Docs -> Statuses]
  /\ lines \in [Docs -> Seq(Line)]
  /\ obSetting \in {"none", "OPEN", "LOCKED"}
  /\ finalized \in BOOLEAN
  /\ closed \in SUBSET Periods
  /\ pc \in [Requests -> {"idle", "edit", "guard", "read", "write", "commit"}]
  /\ job \in [Requests -> Docs]
  /\ work \in [Requests -> Seq(Line)]
  /\ idx \in [Requests -> Nat \ {0}]
  /\ sec \in [Requests -> {"out", "in", "adjust"}]

Init ==
  /\ RowsInit
  /\ booked = [d \in Docs |-> Zero]
  /\ status = [d \in Docs |-> "none"]
  /\ lines = [d \in Docs |-> <<>>]
  /\ obSetting \in {"none", "OPEN", "LOCKED"}
  /\ finalized \in BOOLEAN
  /\ finalized => obSetting # "none"
  /\ closed = {}
  /\ pc = [r \in Requests |-> "idle"]
  /\ job = [r \in Requests |-> NoJob]
  /\ work = [r \in Requests |-> <<>>]
  /\ idx = [r \in Requests |-> 1]
  /\ sec = [r \in Requests |-> "out"]

-----------------------------------------------------------------------------
(* Drafts *)

\* createMovementDraft: a stock receipt or issue needs its own control gate
\* and the halves of a transfer are never created by hand.  A sheet comes
\* out of its approval chain ready to be posted.
CreateDraft(r, d) ==
  /\ pc[r] = "idle"
  /\ status[d] = "none"
  /\ Kind[d] \notin {"RECEIVE", "ISSUE", "TRANSFER_OUT", "TRANSFER_IN"}
  /\ status' = [status EXCEPT ![d] =
                  IF Kind[d] \in Sheets THEN "PENDING_APPROVAL" ELSE "DRAFT"]
  /\ \E ls \in Drafts[d] : lines' = [lines EXCEPT ![d] = ls]
  /\ UNCHANGED <<committed, uncommitted, booked, settings, pc, local>>

\* updateMovementDraft reads the status, refusing while the opening balance
\* is not final ...
BeginEdit(r, d) ==
  /\ pc[r] = "idle"
  /\ status[d] = "DRAFT"
  /\ obSetting = "LOCKED" /\ finalized
  /\ pc' = [pc EXCEPT ![r] = "edit"]
  /\ job' = [job EXCEPT ![r] = d]
  /\ UNCHANGED <<committed, uncommitted, documents, settings, work, idx, sec>>

\* ... and then replaces the lines without reading it again.
FinishEdit(r) ==
  /\ pc[r] = "edit"
  /\ \E ls \in Drafts[job[r]] : lines' = [lines EXCEPT ![job[r]] = ls]
  /\ pc' = [pc EXCEPT ![r] = "idle"]
  /\ job' = [job EXCEPT ![r] = NoJob]
  /\ UNCHANGED <<committed, uncommitted, booked, status, settings, work, idx, sec>>

-----------------------------------------------------------------------------
(* Posting *)

\* A movement must be a DRAFT with lines; a sheet only must not be POSTED.
Postable(d) ==
  \/ Kind[d] \in Sheets /\ status[d] \notin {"none", "POSTED"}
  \/ Kind[d] \notin Sheets /\ status[d] = "DRAFT" /\ lines[d] # <<>>

\* The document is read with its lines: they are what will be posted.
BeginPost(r, d) ==
  /\ pc[r] = "idle"
  /\ Postable(d)
  /\ pc' = [pc EXCEPT ![r] = "guard"]
  /\ job' = [job EXCEPT ![r] = d]
  /\ work' = [work EXCEPT ![r] = lines[d]]
  /\ UNCHANGED <<committed, uncommitted, documents, settings, idx, sec>>

\* Mutant: the period guard is missing.
GuardsNoPeriod(d) == Kind[d] = "OPENING_BALANCE" => obSetting # "LOCKED"

\* checkPeriodLock and checkOBAllowed: no settings row, no lock.
GuardsPass(d) ==
  /\ PeriodOf[d] \notin closed
  /\ Kind[d] = "OPENING_BALANCE" => obSetting # "LOCKED"

NothingToApply(r) == work[r] = <<>> \/ Kind[job[r]] \in Inert

CheckGuards(r) ==
  /\ pc[r] = "guard"
  /\ GuardsPass(job[r])
  /\ pc' = [pc EXCEPT ![r] = IF NothingToApply(r) THEN "commit" ELSE "read"]
  /\ idx' = [idx EXCEPT ![r] = 1]
  /\ sec' = [sec EXCEPT ![r] = FirstSection(Kind[job[r]])]
  /\ UNCHANGED <<committed, uncommitted, documents, settings, job, work>>

CurrentLine(r) == work[r][idx[r]]
CurrentCell(r) == CellOf(Kind[job[r]], sec[r], CurrentLine(r))

ReadBalance(r) ==
  /\ pc[r] = "read"
  /\ Select(r, CurrentCell(r))
  /\ pc' = [pc EXCEPT ![r] = "write"]
  /\ UNCHANGED <<documents, settings, local>>

\* Mutant: the loop stops one line early.
AdvanceStopsEarly(r) ==
  IF HasNextSection(Kind[job[r]], sec[r])
  THEN /\ sec' = [sec EXCEPT ![r] = "in"]
       /\ pc' = [pc EXCEPT ![r] = "read"]
       /\ UNCHANGED idx
  ELSE IF idx[r] < Len(work[r]) - 1
  THEN /\ sec' = [sec EXCEPT ![r] = FirstSection(Kind[job[r]])]
       /\ pc' = [pc EXCEPT ![r] = "read"]
       /\ idx' = [idx EXCEPT ![r] = idx[r] + 1]
  ELSE /\ pc' = [pc EXCEPT ![r] = "commit"]
       /\ UNCHANGED <<sec, idx>>

\* On to the line's next section, the next line or the end of the document.
Advance(r) ==
  IF HasNextSection(Kind[job[r]], sec[r])
  THEN /\ sec' = [sec EXCEPT ![r] = "in"]
       /\ pc' = [pc EXCEPT ![r] = "read"]
       /\ UNCHANGED idx
  ELSE IF idx[r] < Len(work[r])
  THEN /\ sec' = [sec EXCEPT ![r] = FirstSection(Kind[job[r]])]
       /\ pc' = [pc EXCEPT ![r] = "read"]
       /\ idx' = [idx EXCEPT ![r] = idx[r] + 1]
  ELSE /\ pc' = [pc EXCEPT ![r] = "commit"]
       /\ UNCHANGED <<sec, idx>>

\* Mutant: the balance is overwritten with the one computed from the read.
WriteBalanceAbsolute(r) ==
  LET row == RowQty(Kind[job[r]], sec[r], CurrentLine(r), seen[r])
  IN  /\ pc[r] = "write"
      /\ ~Short(sec[r], CurrentLine(r), seen[r])
      /\ Update(r, CurrentCell(r),
                seen[r] + row - Visible(r, CurrentCell(r)), row)
      /\ Advance(r)
      /\ UNCHANGED <<documents, settings, job, work>>

WriteBalance(r) ==
  LET k == Kind[job[r]]
      c == CurrentCell(r)
      row == RowQty(k, sec[r], CurrentLine(r), seen[r])
      change == BalanceChange(k, sec[r], CurrentLine(r), Visible(r, c))
  IN  /\ pc[r] = "write"
      /\ ~Short(sec[r], CurrentLine(r), seen[r])
      /\ Update(r, c, change, row)
      /\ Advance(r)
      /\ UNCHANGED <<documents, settings, job, work>>

\* The request is answered.
Return(r) ==
  /\ pc' = [pc EXCEPT ![r] = "idle"]
  /\ job' = [job EXCEPT ![r] = NoJob]
  /\ work' = [work EXCEPT ![r] = <<>>]
  /\ idx' = [idx EXCEPT ![r] = 1]
  /\ sec' = [sec EXCEPT ![r] = "out"]

\* "Period is closed", "Opening balance is locked", "Insufficient stock".
Refuse(r) ==
  /\ \/ pc[r] = "guard" /\ ~GuardsPass(job[r])
     \/ pc[r] = "write" /\ Short(sec[r], CurrentLine(r), seen[r])
  /\ RollbackRows(r)
  /\ Return(r)
  /\ UNCHANGED <<documents, settings>>

\* Mutant: nothing ends a transaction that waits for a lock.
RollbackAtEnd(r) ==
  /\ pc[r] = "commit"
  /\ RollbackRows(r)
  /\ Return(r)
  /\ UNCHANGED <<documents, settings>>

\* Prisma's five-second limit on interactive transactions, PostgreSQL's
\* deadlock detector, a lost connection or a crash of the server.
Rollback(r) ==
  /\ pc[r] \in {"guard", "read", "write", "commit"}
  /\ RollbackRows(r)
  /\ Return(r)
  /\ UNCHANGED <<documents, settings>>

\* The status is set by id, whatever it has become since BeginPost.
Commit(r) ==
  LET d == job[r]
  IN  /\ pc[r] = "commit"
      /\ CommitRows(r)
      /\ booked' = [booked EXCEPT ![d] = [c \in Cells |-> @[c] + rows[r][c]]]
      /\ status' = [status EXCEPT ![d] = "POSTED"]
      /\ obSetting' = IF Kind[d] = "OPENING_BALANCE" THEN obSetting
                      ELSE "LOCKED"
      /\ Return(r)
      /\ UNCHANGED <<lines, finalized, closed>>

-----------------------------------------------------------------------------
(* The settings the guards read *)

\* PUT /settings/allowOpeningBalance by an administrator.
SetObSetting(r, v) ==
  /\ pc[r] = "idle"
  /\ obSetting' = v
  /\ UNCHANGED <<committed, uncommitted, documents, finalized, closed, pc, local>>

\* closePeriod: its effect on the guards (PeriodClose has the snapshots).
CloseMonth(r, p) ==
  /\ pc[r] = "idle"
  /\ p \notin closed
  /\ closed' = closed \cup {p}
  /\ obSetting' = "LOCKED"
  /\ UNCHANGED <<committed, uncommitted, documents, finalized, pc, local>>

ReopenMonth(r, p) ==
  /\ pc[r] = "idle"
  /\ p \in closed
  /\ closed' = closed \ {p}
  /\ UNCHANGED <<committed, uncommitted, documents, obSetting, finalized, pc, local>>

-----------------------------------------------------------------------------
TransactionStep(r) ==
  \/ CheckGuards(r) \/ ReadBalance(r) \/ WriteBalance(r)
  \/ Refuse(r) \/ Rollback(r) \/ Commit(r)

Step(r) == FinishEdit(r) \/ TransactionStep(r)

Arrive(r) ==
  \/ \E d \in Docs : CreateDraft(r, d) \/ BeginEdit(r, d) \/ BeginPost(r, d)
  \/ \E v \in {"OPEN", "LOCKED"} : SetObSetting(r, v)
  \/ \E p \in Periods : CloseMonth(r, p) \/ ReopenMonth(r, p)

Next == \E r \in Requests : Arrive(r) \/ Step(r)

Spec == Init /\ [][Next]_vars

\* The server runs the requests it has taken; nobody has to send one.
FairSpec == Spec /\ \A r \in Requests : WF_vars(Step(r))
=============================================================================
