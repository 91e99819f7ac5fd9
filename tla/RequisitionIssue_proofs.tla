----------------------- MODULE RequisitionIssue_proofs -----------------------
(***************************************************************************)
(* Proofs about requisitions and issues for every set of balances,         *)
(* requisitions, issues, line lists, deliveries and requests.              *)
(***************************************************************************)
EXTENDS RequisitionIssue, Sums_proofs

(* What row locks give to a transaction: a balance that it has written does *)
(* not change under it, so one it leaves non-negative still is when it      *)
(* commits.                                                                 *)

\* Locks are exclusive, a transaction changes only balances it has locked,
\* and no balance is negative, neither as committed nor as a transaction
\* sees it.
LocksHold ==
  /\ \A c \in Cells : onHand[c] >= 0
  /\ \A r \in Requests : \A c \in Cells : onHand[c] + pend[r][c] >= 0
  /\ \A r \in Requests : \A c \in Cells : c \notin held[r] => pend[r][c] = 0
  /\ \A r, q \in Requests : r # q => held[r] \cap held[q] = {}

\* The empty tenant.
LEMMA RowsInitHold == RowsInit => RowsTypeOK /\ LocksHold
  BY DEF RowsInit, RowsTypeOK, LocksHold, Zero

\* Reading a balance changes no balance.
LEMMA SelectKeeps ==
  ASSUME RowsTypeOK, LocksHold, NEW r \in Requests, NEW c \in Cells, Select(r, c)
  PROVE  RowsTypeOK' /\ LocksHold' /\ seen'[r] = Visible(r, c)
         /\ \A q \in Requests : q # r => seen'[q] = seen[q]
  BY DEF Select, Visible, RowsTypeOK, LocksHold, committed

\* Writing a balance under its lock keeps locks exclusive; a result that is
\* not negative stays so.
LEMMA UpdateKeeps ==
  ASSUME RowsTypeOK, LocksHold, NEW r \in Requests, NEW c \in Cells,
         NEW change \in Int, NEW row \in Int, Update(r, c, change, row),
         Visible(r, c) + change >= 0
  PROVE  RowsTypeOK' /\ LocksHold' /\ UNCHANGED seen
<1>1. /\ pend' = [pend EXCEPT ![r][c] = @ + change]
      /\ rows' = [rows EXCEPT ![r][c] = @ + row]
      /\ held' = [held EXCEPT ![r] = @ \cup {c}]
      /\ UNCHANGED <<onHand, ledger, seen>>
      /\ \A q \in Requests \ {r} : c \notin held[q]
  BY DEF Update, LockFree, committed
<1>2. RowsTypeOK'
  BY <1>1 DEF RowsTypeOK
<1>3. /\ pend'[r][c] = pend[r][c] + change
      /\ \A d \in Cells : d # c => pend'[r][d] = pend[r][d]
      /\ \A q \in Requests : q # r => pend'[q] = pend[q] /\ held'[q] = held[q]
      /\ held'[r] = held[r] \cup {c}
  BY <1>1 DEF RowsTypeOK
<1>4. \A q \in Requests : \A d \in Cells : onHand'[d] + pend'[q][d] >= 0
  BY <1>1, <1>3 DEF LocksHold, Visible, RowsTypeOK
<1>5. \A q \in Requests : \A d \in Cells : d \notin held'[q] => pend'[q][d] = 0
  BY <1>3 DEF LocksHold
<1>6. \A p, q \in Requests : p # q => held'[p] \cap held'[q] = {}
  BY <1>1, <1>3 DEF LocksHold
<1>7. QED
  BY <1>1, <1>2, <1>4, <1>5, <1>6 DEF LocksHold

\* The end of a transaction, seen from the others.
LEMMA ForgetKeeps ==
  ASSUME RowsTypeOK, NEW r \in Requests, Forget(r)
  PROVE  /\ seen' \in [Requests -> Int] /\ pend' \in [Requests -> [Cells -> Int]]
         /\ rows' \in [Requests -> [Cells -> Int]] /\ held' \in [Requests -> SUBSET Cells]
         /\ held'[r] = {} /\ \A c \in Cells : pend'[r][c] = 0
         /\ \A q \in Requests : q # r =>
              pend'[q] = pend[q] /\ held'[q] = held[q] /\ seen'[q] = seen[q]
  BY DEF Forget, RowsTypeOK, Zero

\* A commit changes balances that no other transaction has written.
LEMMA CommitKeeps ==
  ASSUME RowsTypeOK, LocksHold, NEW r \in Requests, CommitRows(r)
  PROVE  RowsTypeOK' /\ LocksHold' /\ \A q \in Requests : q # r => seen'[q] = seen[q]
<1>1. /\ onHand' = [c \in Cells |-> onHand[c] + pend[r][c]]
      /\ ledger' = [c \in Cells |-> ledger[c] + rows[r][c]]
      /\ Forget(r)
  BY DEF CommitRows
<1>2. RowsTypeOK'
  <2>1. onHand' \in [Cells -> Int] /\ ledger' \in [Cells -> Int]
    BY <1>1 DEF RowsTypeOK
  <2>2. QED
    BY <1>1, <2>1, ForgetKeeps DEF RowsTypeOK
<1>3. /\ held'[r] = {} /\ \A c \in Cells : pend'[r][c] = 0
      /\ \A q \in Requests : q # r =>
           pend'[q] = pend[q] /\ held'[q] = held[q] /\ seen'[q] = seen[q]
  BY <1>1, ForgetKeeps
<1>4. \A c \in Cells : onHand'[c] >= 0
  BY <1>1 DEF LocksHold
<1>5. ASSUME NEW q \in Requests, NEW c \in Cells PROVE onHand'[c] + pend'[q][c] >= 0
  <2>1. CASE q = r
    BY <1>3, <1>4, <2>1, <1>2 DEF RowsTypeOK
  <2>2. CASE q # r /\ c \in held[q]
    <3>1. c \notin held[r]
      BY <2>2 DEF LocksHold
    <3>2. onHand'[c] = onHand[c]
      BY <1>1, <3>1 DEF LocksHold, RowsTypeOK
    <3>3. QED
      BY <1>3, <2>2, <3>2 DEF LocksHold
  <2>3. CASE q # r /\ c \notin held[q]
    BY <1>2, <1>3, <1>4, <2>3 DEF LocksHold, RowsTypeOK
  <2>4. QED
    BY <2>1, <2>2, <2>3
<1>6. /\ \A q \in Requests : \A c \in Cells : c \notin held'[q] => pend'[q][c] = 0
      /\ \A p, q \in Requests : p # q => held'[p] \cap held'[q] = {}
  BY <1>3 DEF LocksHold
<1>7. QED
  BY <1>2, <1>3, <1>4, <1>5, <1>6 DEF LocksHold

\* A rollback changes no balance.
LEMMA RollbackKeeps ==
  ASSUME RowsTypeOK, LocksHold, NEW r \in Requests, RollbackRows(r)
  PROVE  RowsTypeOK' /\ LocksHold' /\ \A q \in Requests : q # r => seen'[q] = seen[q]
<1>1. Forget(r) /\ UNCHANGED <<onHand, ledger>>
  BY DEF RollbackRows, committed
<1>2. RowsTypeOK'
  BY <1>1, ForgetKeeps DEF RowsTypeOK
<1>3. /\ held'[r] = {} /\ \A c \in Cells : pend'[r][c] = 0
      /\ \A q \in Requests : q # r =>
           pend'[q] = pend[q] /\ held'[q] = held[q] /\ seen'[q] = seen[q]
  BY <1>1, ForgetKeeps
<1>4. \A q \in Requests : \A c \in Cells : onHand'[c] + pend'[q][c] >= 0
  BY <1>1, <1>3 DEF LocksHold, RowsTypeOK
<1>5. QED
  BY <1>1, <1>2, <1>3, <1>4 DEF LocksHold

-----------------------------------------------------------------------------

Steps == {"idle", "decide", "edit", "delete", "read", "write", "recompute", "commit"}
Posting == {"read", "write", "recompute", "commit"}

\* TypeOK without the rows: what is stored, and what requests hold.
StoredOK ==
  /\ reqStatus \in [Requisitions -> ReqStatuses]
  /\ \A q \in Requisitions : asked[q] = <<>> \/ IsWish(q, asked[q])
  /\ total \in [Lines -> Int]
  /\ issueStatus \in [Issues -> IssueStatuses]
  /\ \A i \in Issues : issueLines[i] = <<>> \/ issueLines[i] \in PicksOf(i)
  /\ closed \in BOOLEAN

PartialTotals(f) == DOMAIN f \subseteq Lines /\ f \in [DOMAIN f -> Int]

HeldOK ==
  /\ pc \in [Requests -> Steps]
  /\ job \in [Requests -> Requisitions \cup Issues]
  /\ goal \in [Requests -> Decisions \cup {NoGoal}]
  /\ known \in [Requests -> [Lines -> Int]]
  /\ \A r \in Requests : PartialTotals(wrote[r])
  /\ verdict \in [Requests -> ReqStatuses]
  /\ idx \in [Requests -> Nat \ {0}]

\* asked, issueLines and wrote have their domains.
Domains ==
  /\ asked = [q \in Requisitions |-> asked[q]]
  /\ issueLines = [i \in Issues |-> issueLines[i]]
  /\ wrote = [r \in Requests |-> wrote[r]]

\* An issue that exists has lines; a posting request works on an issue that
\* was created and on one of its lines, and has checked the balance it read.
WellFormed ==
  /\ \A i \in Issues : issueStatus[i] # "none" => issueLines[i] # <<>>
  /\ \A r \in Requests :
       /\ pc[r] \in {"decide", "edit"} => job[r] \in Requisitions
       /\ pc[r] = "decide" => goal[r] \in Decisions
       /\ pc[r] \in Posting \cup {"delete"} =>
            job[r] \in Issues /\ issueStatus[job[r]] # "none"
       /\ pc[r] = "idle" => idx[r] = 1
       /\ pc[r] \in {"read", "write"} => idx[r] \in 1 .. Len(issueLines[job[r]])
       /\ pc[r] = "commit" => verdict[r] \in {"CLOSED", "PARTIALLY_ISSUED"}
       /\ pc[r] = "write" => seen[r] >= CurrentLine(r).qty

Inv == RowsTypeOK /\ StoredOK /\ HeldOK /\ Domains /\ WellFormed /\ LocksHold

LEMMA InvTypes == Inv => TypeOK
  BY DEF Inv, TypeOK, StoredOK, HeldOK, Steps, PartialTotals

\* What an issue can have as lines.
LEMMA PickTyping ==
  ASSUME NEW i \in Issues, NEW ls \in PicksOf(i)
  PROVE  /\ ls \in Seq(IssueLine) /\ ls # <<>>
         /\ \A k \in 1 .. Len(ls) : ls[k] \in IssueLine /\ Owner[ls[k].line] = For[i]
  BY DEF PicksOf

\* The line a posting request is at.
LEMMA LineTyping ==
  ASSUME Inv, NEW r \in Requests, pc[r] \in {"read", "write"}
  PROVE  /\ CurrentLine(r).line \in Lines
         /\ CurrentLine(r).qty \in Nat \ {0}
         /\ CurrentCell(r) \in Cells
<1>1. /\ job[r] \in Issues /\ issueLines[job[r]] # <<>>
      /\ idx[r] \in 1 .. Len(issueLines[job[r]])
  BY DEF Inv, WellFormed, Posting
<1>2. issueLines[job[r]] \in PicksOf(job[r])
  BY <1>1 DEF Inv, StoredOK
<1>3. CurrentLine(r) \in IssueLine
  BY <1>1, <1>2, PickTyping DEF CurrentLine
<1>4. QED
  BY <1>3, LinesAssumption DEF IssueLine, CurrentCell

LEMMA InvInit == Init => Inv
<1> SUFFICES ASSUME Init PROVE Inv
  OBVIOUS
<1>1. RowsTypeOK /\ LocksHold
  BY RowsInitHold DEF Init
<1>2. NoJob \in Requisitions
  BY LinesAssumption DEF NoJob
<1> HIDE DEF NoJob
<1>3. DOMAIN <<>> = {} /\ <<>> \in [{} -> Int]
  OBVIOUS
<1>4. StoredOK /\ Domains
  <2>1. /\ \A q \in Requisitions : asked[q] = <<>>
        /\ \A i \in Issues : issueLines[i] = <<>>
    BY DEF Init
  <2>2. reqStatus \in [Requisitions -> ReqStatuses]
    BY DEF Init, ReqStatuses
  <2>3. issueStatus \in [Issues -> IssueStatuses]
    BY DEF Init, IssueStatuses
  <2>4. total \in [Lines -> Int] /\ closed \in BOOLEAN
    <3>1. total \in [Lines -> Int]
      BY DEF Init, NoTotals
    <3>2. closed \in BOOLEAN
      BY Zenon DEF Init
    <3>3. QED
      BY <3>1, <3>2
  <2>5. asked = [q \in Requisitions |-> asked[q]]
    BY DEF Init
  <2>6. issueLines = [i \in Issues |-> issueLines[i]]
    BY DEF Init
  <2>7. wrote = [r \in Requests |-> wrote[r]]
    BY DEF Init
  <2>8. QED
    BY <2>1, <2>2, <2>3, <2>4, <2>5, <2>6, <2>7 DEF StoredOK, Domains
<1>5. HeldOK
  <2>1. \A r \in Requests : wrote[r] = <<>>
    BY DEF Init
  <2>2. \A r \in Requests : PartialTotals(wrote[r])
    BY <1>3, <2>1 DEF PartialTotals
  <2>3. goal \in [Requests -> Decisions \cup {NoGoal}]
    BY DEF Init
  <2>4. QED
    BY <1>2, <2>2, <2>3 DEF Init, HeldOK, Steps, ReqStatuses, NoTotals
<1>6. WellFormed
  BY DEF Init, WellFormed, Posting
<1>7. QED
  BY <1>1, <1>4, <1>5, <1>6 DEF Inv

\* A request that is answered holds nothing; the others hold what they held.
LEMMA ReturnTyping ==
  ASSUME Inv, NEW r \in Requests, Return(r)
  PROVE  /\ HeldOK' /\ wrote' = [q \in Requests |-> wrote'[q]]
         /\ pc'[r] = "idle" /\ idx'[r] = 1
         /\ \A q \in Requests : q # r =>
              /\ pc'[q] = pc[q] /\ job'[q] = job[q] /\ goal'[q] = goal[q]
              /\ verdict'[q] = verdict[q] /\ idx'[q] = idx[q]
<1>1. NoJob \in Requisitions
  BY LinesAssumption DEF NoJob
<1> HIDE DEF NoJob
<1>2. DOMAIN <<>> = {} /\ <<>> \in [{} -> Int]
  OBVIOUS
<1>3. /\ pc' \in [Requests -> Steps] /\ job' \in [Requests -> Requisitions \cup Issues]
      /\ known' \in [Requests -> [Lines -> Int]] /\ verdict' \in [Requests -> ReqStatuses]
      /\ idx' \in [Requests -> Nat \ {0}]
  BY <1>1 DEF Return, Inv, HeldOK, Steps, NoTotals, ReqStatuses
<1>4. goal' \in [Requests -> Decisions \cup {NoGoal}]
  BY DEF Return, Inv, HeldOK
<1>5. /\ wrote' = [q \in Requests |-> wrote'[q]]
      /\ \A q \in Requests : wrote'[q] = wrote[q] \/ wrote'[q] = <<>>
  BY DEF Return, Inv, Domains
<1>6. \A q \in Requests : PartialTotals(wrote'[q])
  BY <1>2, <1>5 DEF Inv, HeldOK, PartialTotals
<1>7. pc'[r] = "idle" /\ idx'[r] = 1
  BY DEF Return, Inv, HeldOK
<1>8. \A q \in Requests : q # r =>
              /\ pc'[q] = pc[q] /\ job'[q] = job[q] /\ goal'[q] = goal[q]
              /\ verdict'[q] = verdict[q] /\ idx'[q] = idx[q]
  BY DEF Return, Inv, HeldOK
<1>9. QED
  BY <1>3, <1>4, <1>5, <1>6, <1>7, <1>8 DEF HeldOK

\* ... and stays well formed, if issues keep existing, and their lines.
LEMMA ReturnWellFormed ==
  ASSUME Inv, NEW r \in Requests, Return(r), UNCHANGED issueLines,
         \A i \in Issues : issueStatus[i] # "none" <=> issueStatus'[i] # "none",
         \A q \in Requests : q # r => seen'[q] = seen[q]
  PROVE  WellFormed'
<1>1. \A i \in Issues : issueStatus'[i] # "none" => issueLines'[i] # <<>>
  BY DEF Inv, WellFormed
<1>2. /\ pc'[r] = "idle" /\ idx'[r] = 1
      /\ \A q \in Requests : q # r =>
              /\ pc'[q] = pc[q] /\ job'[q] = job[q] /\ goal'[q] = goal[q]
              /\ verdict'[q] = verdict[q] /\ idx'[q] = idx[q]
  BY ReturnTyping
<1>3. ASSUME NEW q \in Requests, q # r
      PROVE  /\ pc'[q] \in {"decide", "edit"} => job'[q] \in Requisitions
             /\ pc'[q] = "decide" => goal'[q] \in Decisions
             /\ pc'[q] \in Posting \cup {"delete"} =>
                  job'[q] \in Issues /\ issueStatus'[job'[q]] # "none"
             /\ pc'[q] = "idle" => idx'[q] = 1
             /\ pc'[q] \in {"read", "write"} => idx'[q] \in 1 .. Len(issueLines'[job'[q]])
             /\ pc'[q] = "commit" => verdict'[q] \in {"CLOSED", "PARTIALLY_ISSUED"}
             /\ pc'[q] = "write" => seen'[q] >= issueLines'[job'[q]][idx'[q]].qty
  BY <1>2, <1>3 DEF Inv, WellFormed, CurrentLine
<1>4. QED
  BY <1>1, <1>2, <1>3 DEF WellFormed, CurrentLine, Posting

\* An action that changes neither rows nor issues, and takes request r, idle
\* so far, to one of its first steps.
LEMMA BeginKeeps ==
  ASSUME Inv, NEW r \in Requests, NEW j \in Requisitions \cup Issues, NEW step \in Steps,
         pc[r] = "idle", Take(r, j, step), UNCHANGED <<committed, uncommitted, issues>>,
         UNCHANGED <<wrote, verdict, idx>>,
         \A q \in Requests : q # r => goal'[q] = goal[q],
         step \in {"decide", "edit", "delete", "read"},
         step \in {"decide", "edit"} => j \in Requisitions,
         step = "decide" => goal'[r] \in Decisions,
         step \in {"delete", "read"} => j \in Issues /\ issueStatus[j] # "none"
  PROVE  RowsTypeOK' /\ LocksHold' /\ WellFormed'
         /\ pc' \in [Requests -> Steps] /\ job' \in [Requests -> Requisitions \cup Issues]
<1>1. RowsTypeOK' /\ LocksHold'
  BY DEF Inv, RowsTypeOK, LocksHold, committed, uncommitted
<1>2. /\ pc' \in [Requests -> Steps] /\ job' \in [Requests -> Requisitions \cup Issues]
      /\ pc'[r] = step /\ job'[r] = j
      /\ \A q \in Requests : q # r => pc'[q] = pc[q] /\ job'[q] = job[q]
  BY DEF Take, Inv, HeldOK
<1>3. UNCHANGED <<seen, issueStatus, issueLines>>
  BY DEF uncommitted, issues
<1>4. idx'[r] = 1 /\ (step = "read" => 1 \in 1 .. Len(issueLines[j]))
  <2>1. CASE step = "read"
    <3>1. issueLines[j] \in Seq(IssueLine) /\ issueLines[j] # <<>>
      BY <2>1, PickTyping DEF Inv, StoredOK, WellFormed
    <3>2. QED
      BY <3>1 DEF Inv, WellFormed
  <2>2. QED
    BY <2>1 DEF Inv, WellFormed
<1>5. ASSUME NEW q \in Requests, q # r
      PROVE  /\ pc'[q] \in {"decide", "edit"} => job'[q] \in Requisitions
             /\ pc'[q] = "decide" => goal'[q] \in Decisions
             /\ pc'[q] \in Posting \cup {"delete"} =>
                  job'[q] \in Issues /\ issueStatus'[job'[q]] # "none"
             /\ pc'[q] = "idle" => idx'[q] = 1
             /\ pc'[q] \in {"read", "write"} => idx'[q] \in 1 .. Len(issueLines'[job'[q]])
             /\ pc'[q] = "commit" => verdict'[q] \in {"CLOSED", "PARTIALLY_ISSUED"}
             /\ pc'[q] = "write" => seen'[q] >= issueLines'[job'[q]][idx'[q]].qty
  BY <1>2, <1>3, <1>5 DEF Inv, WellFormed, CurrentLine
<1>6. \A i \in Issues : issueStatus'[i] # "none" => issueLines'[i] # <<>>
  BY <1>3 DEF Inv, WellFormed
<1>7. WellFormed'
  BY <1>2, <1>3, <1>4, <1>5, <1>6 DEF WellFormed, CurrentLine, Posting
<1>8. QED
  BY <1>1, <1>2, <1>7

\* New lines of a requisition.
LEMMA SetLinesTyping ==
  ASSUME Inv, NEW q \in Requisitions, SetLines(q)
  PROVE  /\ \A p \in Requisitions : asked'[p] = <<>> \/ IsWish(p, asked'[p])
         /\ asked' = [p \in Requisitions |-> asked'[p]]
         /\ total' \in [Lines -> Int]
<1>1. PICK w \in Wishes[q] : asked' = [asked EXCEPT ![q] = w]
  BY DEF SetLines
<1>2. asked' = [p \in Requisitions |-> IF p = q THEN w ELSE asked[p]]
  BY <1>1 DEF Inv, Domains
<1>3. IsWish(q, w)
  BY ClientsAssumption
<1>4. \A p \in Requisitions : asked'[p] = <<>> \/ IsWish(p, asked'[p])
  BY <1>2, <1>3 DEF Inv, StoredOK
<1>5. total' \in [Lines -> Int]
  BY DEF SetLines, Inv, StoredOK
<1>6. QED
  BY <1>2, <1>4, <1>5

\* Creating, deciding and editing.
LEMMA RequisitionStep ==
  ASSUME Inv, NEW r \in Requests,
         \/ \E q \in Requisitions :
              CreateRequisition(r, q) \/ BeginDecision(r, q) \/ BeginEdit(r, q)
         \/ FinishDecision(r) \/ FinishEdit(r)
  PROVE  Inv'
<1>1. ASSUME NEW q \in Requisitions, CreateRequisition(r, q) PROVE Inv'
  <2>1. /\ reqStatus' = [reqStatus EXCEPT ![q] = "DRAFT"] /\ SetLines(q)
        /\ UNCHANGED <<onHand, ledger, seen, pend, rows, held, issueStatus, issueLines,
                       closed, pc, job, goal, known, wrote, verdict, idx>>
    BY <1>1 DEF CreateRequisition, committed, uncommitted, issues, local
  <2>2. RowsTypeOK' /\ LocksHold'
    BY <2>1 DEF Inv, RowsTypeOK, LocksHold
  <2>3. reqStatus' \in [Requisitions -> ReqStatuses]
    BY <2>1 DEF Inv, StoredOK, ReqStatuses
  <2>4. StoredOK'
    BY <2>1, <2>3, SetLinesTyping DEF Inv, StoredOK
  <2>5. HeldOK' /\ WellFormed'
    BY <2>1 DEF Inv, HeldOK, WellFormed, CurrentLine
  <2>6. Domains'
    BY <2>1, SetLinesTyping DEF Inv, Domains
  <2>7. QED
    BY <2>2, <2>4, <2>5, <2>6 DEF Inv
<1>2. ASSUME NEW q \in Requisitions, BeginDecision(r, q) PROVE Inv'
  <2>1. PICK d \in Decisions : goal' = [goal EXCEPT ![r] = d]
    BY <1>2 DEF BeginDecision
  <2>2. /\ goal' \in [Requests -> Decisions \cup {NoGoal}] /\ goal'[r] \in Decisions
        /\ \A p \in Requests : p # r => goal'[p] = goal[p]
    BY <2>1 DEF Inv, HeldOK
  <2>3. /\ pc[r] = "idle" /\ Take(r, q, "decide")
        /\ UNCHANGED <<committed, uncommitted, issues>>
        /\ UNCHANGED <<known, wrote, verdict, idx>>
        /\ UNCHANGED <<reqStatus, asked, total, issueStatus, issueLines, closed>>
    BY <1>2 DEF BeginDecision, requisitions, issues
  <2>4. /\ RowsTypeOK' /\ LocksHold' /\ WellFormed'
        /\ pc' \in [Requests -> Steps] /\ job' \in [Requests -> Requisitions \cup Issues]
    BY <2>2, <2>3, BeginKeeps DEF Steps
  <2>5. StoredOK' /\ Domains'
    BY <2>3 DEF Inv, StoredOK, Domains
  <2>6. HeldOK'
    BY <2>2, <2>3, <2>4 DEF Inv, HeldOK
  <2>7. QED
    BY <2>4, <2>5, <2>6 DEF Inv
<1>3. ASSUME NEW q \in Requisitions, BeginEdit(r, q) PROVE Inv'
  <2>1. /\ pc[r] = "idle" /\ Take(r, q, "edit")
        /\ UNCHANGED <<committed, uncommitted, issues>>
        /\ UNCHANGED <<goal, known, wrote, verdict, idx>>
        /\ UNCHANGED <<reqStatus, asked, total, issueStatus, issueLines, closed>>
    BY <1>3 DEF BeginEdit, requisitions, issues
  <2>2. /\ RowsTypeOK' /\ LocksHold' /\ WellFormed'
        /\ pc' \in [Requests -> Steps] /\ job' \in [Requests -> Requisitions \cup Issues]
    BY <2>1, BeginKeeps DEF Steps
  <2>3. StoredOK' /\ Domains'
    BY <2>1 DEF Inv, StoredOK, Domains
  <2>4. HeldOK'
    BY <2>1, <2>2 DEF Inv, HeldOK
  <2>5. QED
    BY <2>2, <2>3, <2>4 DEF Inv
<1>4. ASSUME FinishDecision(r) PROVE Inv'
  <2>1. job[r] \in Requisitions /\ goal[r] \in Decisions
    BY <1>4 DEF FinishDecision, Inv, WellFormed
  <2>2. goal[r].to \in ReqStatuses
    BY <2>1 DEF Decisions, Decision, ReqStatuses, Issuable
  <2>3. /\ UNCHANGED reqStatus \/ reqStatus' = [reqStatus EXCEPT ![job[r]] = goal[r].to]
        /\ Return(r)
        /\ UNCHANGED <<onHand, ledger, seen, pend, rows, held, asked, total, issueStatus,
                       issueLines, closed>>
    BY <1>4 DEF FinishDecision, committed, uncommitted, issues
  <2>4. RowsTypeOK' /\ LocksHold'
    BY <2>3 DEF Inv, RowsTypeOK, LocksHold
  <2>5. StoredOK'
    BY <2>1, <2>2, <2>3 DEF Inv, StoredOK
  <2>6. HeldOK' /\ Domains'
    BY <2>3, ReturnTyping DEF Inv, Domains
  <2>7. WellFormed'
    BY <2>3, ReturnWellFormed
  <2>8. QED
    BY <2>4, <2>5, <2>6, <2>7 DEF Inv
<1>5. ASSUME FinishEdit(r) PROVE Inv'
  <2>1. job[r] \in Requisitions
    BY <1>5 DEF FinishEdit, Inv, WellFormed
  <2>2. /\ SetLines(job[r]) \/ UNCHANGED <<asked, total>>
        /\ Return(r)
        /\ UNCHANGED <<onHand, ledger, seen, pend, rows, held, reqStatus, issueStatus,
                       issueLines, closed>>
    BY <1>5 DEF FinishEdit, committed, uncommitted, issues
  <2>3. RowsTypeOK' /\ LocksHold'
    BY <2>2 DEF Inv, RowsTypeOK, LocksHold
  <2>4. /\ \A p \in Requisitions : asked'[p] = <<>> \/ IsWish(p, asked'[p])
        /\ asked' = [p \in Requisitions |-> asked'[p]]
        /\ total' \in [Lines -> Int]
    BY <2>1, <2>2, SetLinesTyping DEF Inv, StoredOK, Domains
  <2>5. StoredOK'
    BY <2>2, <2>4 DEF Inv, StoredOK
  <2>6. HeldOK' /\ Domains'
    BY <2>2, <2>4, ReturnTyping DEF Inv, Domains
  <2>7. WellFormed'
    BY <2>2, ReturnWellFormed
  <2>8. QED
    BY <2>3, <2>5, <2>6, <2>7 DEF Inv
<1>6. QED
  BY <1>1, <1>2, <1>3, <1>4, <1>5
\* Drafting and deleting issues.
LEMMA IssueStep ==
  ASSUME Inv, NEW r \in Requests,
         \/ \E i \in Issues : CreateIssue(r, i) \/ BeginDelete(r, i)
         \/ FinishDelete(r)
  PROVE  Inv'
<1>1. ASSUME NEW i \in Issues, CreateIssue(r, i) PROVE Inv'
  <2>1. PICK ls \in Picks[i] : issueLines' = [issueLines EXCEPT ![i] = ls]
    BY <1>1 DEF CreateIssue
  <2>2. ls \in PicksOf(i) /\ ls # <<>>
    BY ClientsAssumption, PickTyping
  <2>3. /\ issueStatus[i] = "none" /\ issueStatus' = [issueStatus EXCEPT ![i] = "DRAFT"]
        /\ UNCHANGED <<onHand, ledger, seen, pend, rows, held, reqStatus, asked, total,
                       closed, pc, job, goal, known, wrote, verdict, idx>>
    BY <1>1 DEF CreateIssue, committed, uncommitted, requisitions, local
  <2>4. issueLines' = [k \in Issues |-> IF k = i THEN ls ELSE issueLines[k]]
    BY <2>1 DEF Inv, Domains
  <2>5. /\ issueStatus' \in [Issues -> IssueStatuses] /\ issueStatus'[i] = "DRAFT"
        /\ \A k \in Issues : k # i => issueStatus'[k] = issueStatus[k]
    BY <2>3 DEF Inv, StoredOK, IssueStatuses
  <2>6. RowsTypeOK' /\ LocksHold'
    BY <2>3 DEF Inv, RowsTypeOK, LocksHold
  <2>7. StoredOK'
    BY <2>2, <2>3, <2>4, <2>5 DEF Inv, StoredOK
  <2>8. HeldOK' /\ Domains'
    BY <2>3, <2>4 DEF Inv, HeldOK, Domains
  <2>9. \A k \in Issues : issueStatus'[k] # "none" => issueLines'[k] # <<>>
    BY <2>2, <2>4, <2>5 DEF Inv, WellFormed
  <2>10. ASSUME NEW q \in Requests, pc[q] \in Posting \cup {"delete"}
         PROVE  /\ job[q] \in Issues /\ issueStatus'[job[q]] # "none"
                /\ issueLines'[job[q]] = issueLines[job[q]]
    <3>1. job[q] \in Issues /\ issueStatus[job[q]] # "none"
      BY <2>10 DEF Inv, WellFormed
    <3>2. QED
      BY <2>3, <2>4, <2>5, <3>1
  <2>11. WellFormed'
    BY <2>3, <2>9, <2>10 DEF Inv, WellFormed, CurrentLine, Posting
  <2>12. QED
    BY <2>6, <2>7, <2>8, <2>11 DEF Inv
<1>2. ASSUME NEW i \in Issues, BeginDelete(r, i) PROVE Inv'
  <2>1. /\ pc[r] = "idle" /\ Take(r, i, "delete") /\ issueStatus[i] # "none"
        /\ UNCHANGED <<committed, uncommitted, issues>>
        /\ UNCHANGED <<goal, known, wrote, verdict, idx>>
        /\ UNCHANGED <<reqStatus, asked, total, issueStatus, issueLines, closed>>
    BY <1>2 DEF BeginDelete, Deletable, requisitions, issues
  <2>2. /\ RowsTypeOK' /\ LocksHold' /\ WellFormed'
        /\ pc' \in [Requests -> Steps] /\ job' \in [Requests -> Requisitions \cup Issues]
    BY <2>1, BeginKeeps DEF Steps
  <2>3. StoredOK' /\ Domains'
    BY <2>1 DEF Inv, StoredOK, Domains
  <2>4. HeldOK'
    BY <2>1, <2>2 DEF Inv, HeldOK
  <2>5. QED
    BY <2>2, <2>3, <2>4 DEF Inv
<1>3. ASSUME FinishDelete(r) PROVE Inv'
  <2>1. job[r] \in Issues /\ issueStatus[job[r]] # "none"
    BY <1>3 DEF FinishDelete, Inv, WellFormed
  <2>2. /\ issueStatus' = [issueStatus EXCEPT ![job[r]] = "deleted"]
        /\ Return(r)
        /\ UNCHANGED <<onHand, ledger, seen, pend, rows, held, reqStatus, asked, total,
                       issueLines, closed>>
    BY <1>3 DEF FinishDelete, committed, uncommitted, requisitions
  <2>3. /\ issueStatus' \in [Issues -> IssueStatuses]
        /\ \A i \in Issues : issueStatus[i] # "none" <=> issueStatus'[i] # "none"
    BY <2>1, <2>2 DEF Inv, StoredOK, IssueStatuses
  <2>4. RowsTypeOK' /\ LocksHold'
    BY <2>2 DEF Inv, RowsTypeOK, LocksHold
  <2>5. StoredOK'
    BY <2>2, <2>3 DEF Inv, StoredOK
  <2>6. HeldOK' /\ Domains'
    BY <2>2, ReturnTyping DEF Inv, Domains
  <2>7. WellFormed'
    BY <2>2, <2>3, ReturnWellFormed
  <2>8. QED
    BY <2>4, <2>5, <2>6, <2>7 DEF Inv
<1>4. QED
  BY <1>1, <1>2, <1>3

\* Only request r, which is posting, moves on: to step s at its line k.
LEMMA PostingKeeps ==
  ASSUME Inv, NEW r \in Requests, NEW s \in Posting, NEW k \in Nat \ {0},
         pc[r] \in Posting,
         pc' = [pc EXCEPT ![r] = s], idx' = [idx EXCEPT ![r] = k],
         UNCHANGED <<issueStatus, issueLines, job, goal>>,
         \A q \in Requests : q # r => seen'[q] = seen[q] /\ verdict'[q] = verdict[q],
         s \in {"read", "write"} => k \in 1 .. Len(issueLines[job[r]]),
         s = "commit" => verdict'[r] \in {"CLOSED", "PARTIALLY_ISSUED"},
         s = "write" => seen'[r] >= issueLines[job[r]][k].qty
  PROVE  WellFormed' /\ pc' \in [Requests -> Steps] /\ idx' \in [Requests -> Nat \ {0}]
<1>1. pc' \in [Requests -> Steps] /\ pc'[r] = s
      /\ \A q \in Requests : q # r => pc'[q] = pc[q]
  BY DEF Inv, HeldOK, Steps, Posting
<1>2. idx' \in [Requests -> Nat \ {0}] /\ idx'[r] = k
      /\ \A q \in Requests : q # r => idx'[q] = idx[q]
  BY DEF Inv, HeldOK
<1>3. ASSUME NEW q \in Requests, q # r
      PROVE  /\ pc'[q] \in {"decide", "edit"} => job'[q] \in Requisitions
             /\ pc'[q] = "decide" => goal'[q] \in Decisions
             /\ pc'[q] \in Posting \cup {"delete"} =>
                  job'[q] \in Issues /\ issueStatus'[job'[q]] # "none"
             /\ pc'[q] = "idle" => idx'[q] = 1
             /\ pc'[q] \in {"read", "write"} => idx'[q] \in 1 .. Len(issueLines'[job'[q]])
             /\ pc'[q] = "commit" => verdict'[q] \in {"CLOSED", "PARTIALLY_ISSUED"}
             /\ pc'[q] = "write" => seen'[q] >= issueLines'[job'[q]][idx'[q]].qty
  BY <1>1, <1>2, <1>3 DEF Inv, WellFormed, CurrentLine
<1>4. job'[r] \in Issues /\ issueStatus'[job'[r]] # "none"
  BY DEF Inv, WellFormed
<1>5. \A i \in Issues : issueStatus'[i] # "none" => issueLines'[i] # <<>>
  BY DEF Inv, WellFormed
<1>6. WellFormed'
  BY <1>1, <1>2, <1>3, <1>4, <1>5 DEF WellFormed, CurrentLine, Posting
<1>7. QED
  BY <1>1, <1>2, <1>6

\* Line totals that a transaction has written, as every reader sees them.
LEMMA TotalsTyping ==
  ASSUME Inv, NEW r \in Requests
  PROVE  Totals(r) \in [Lines -> Int]
BY DEF Totals, Inv, StoredOK, HeldOK, PartialTotals

\* Posting: every balance that is written stays non-negative, because the
\* balance that was read, and is still at least the line, is overwritten with
\* the difference.
LEMMA PostStep ==
  ASSUME Inv, NEW r \in Requests,
         \/ \E i \in Issues : BeginPost(r, i)
         \/ ReadBalance(r) \/ WriteLine(r) \/ Recompute(r)
  PROVE  Inv'
<1>1. ASSUME NEW i \in Issues, BeginPost(r, i) PROVE Inv'
  <2>1. /\ pc[r] = "idle" /\ Take(r, i, "read") /\ issueStatus[i] # "none"
        /\ known' = [known EXCEPT ![r] = total]
        /\ UNCHANGED <<committed, uncommitted, issues>>
        /\ UNCHANGED <<goal, wrote, verdict, idx>>
        /\ UNCHANGED <<reqStatus, asked, total, issueStatus, issueLines, closed>>
    BY <1>1 DEF BeginPost, Postable, requisitions, issues
  <2>2. /\ RowsTypeOK' /\ LocksHold' /\ WellFormed'
        /\ pc' \in [Requests -> Steps] /\ job' \in [Requests -> Requisitions \cup Issues]
    BY <2>1, BeginKeeps DEF Steps
  <2>3. StoredOK' /\ Domains'
    BY <2>1 DEF Inv, StoredOK, Domains
  <2>4. known' \in [Requests -> [Lines -> Int]]
    BY <2>1 DEF Inv, StoredOK, HeldOK
  <2>5. HeldOK'
    BY <2>1, <2>2, <2>4 DEF Inv, HeldOK
  <2>6. QED
    BY <2>2, <2>3, <2>5 DEF Inv
<1>2. ASSUME ReadBalance(r) PROVE Inv'
  <2>1. /\ pc[r] = "read" /\ Enough(r) /\ Select(r, CurrentCell(r))
        /\ pc' = [pc EXCEPT ![r] = "write"]
        /\ UNCHANGED <<reqStatus, asked, total, issueStatus, issueLines, closed,
                       job, goal, known, wrote, verdict, idx>>
    BY <1>2 DEF ReadBalance, requisitions, issues, local
  <2>2. /\ RowsTypeOK' /\ LocksHold' /\ seen'[r] = Visible(r, CurrentCell(r))
        /\ \A q \in Requests : q # r => seen'[q] = seen[q]
    BY <2>1, LineTyping, SelectKeeps DEF Inv
  <2>3. /\ idx[r] \in Nat \ {0} /\ idx[r] \in 1 .. Len(issueLines[job[r]])
        /\ idx' = [idx EXCEPT ![r] = idx[r]]
    BY <2>1 DEF Inv, HeldOK, WellFormed
  <2>4. seen'[r] >= issueLines[job[r]][idx[r]].qty
    BY <2>1, <2>2 DEF Enough, CurrentLine
  <2>5. WellFormed' /\ pc' \in [Requests -> Steps]
    BY <2>1, <2>2, <2>3, <2>4, PostingKeeps DEF Posting
  <2>6. StoredOK' /\ Domains' /\ HeldOK'
    BY <2>1, <2>5 DEF Inv, StoredOK, HeldOK, Domains
  <2>7. QED
    BY <2>2, <2>5, <2>6 DEF Inv
<1>3. ASSUME WriteLine(r) PROVE Inv'
  <2> DEFINE line == CurrentLine(r)
             c == CurrentCell(r)
             change == NewQty(r) - Visible(r, c)
  <2>1. /\ pc[r] = "write" /\ Update(r, c, change, -line.qty) /\ Advance(r)
        /\ wrote' = [wrote EXCEPT ![r] =
                       [l \in DOMAIN wrote[r] \cup {line.line} |->
                          IF l = line.line THEN NewTotal(r) ELSE wrote[r][l]]]
        /\ UNCHANGED <<reqStatus, asked, total, issueStatus, issueLines, closed,
                       job, goal, known, verdict>>
    BY <1>3 DEF WriteLine, requisitions, issues
  <2>2. line.line \in Lines /\ line.qty \in Nat \ {0} /\ c \in Cells
    BY <2>1, LineTyping
  <2>3. seen[r] \in Int /\ seen[r] >= line.qty /\ Visible(r, c) \in Int
    BY <2>1, <2>2 DEF Inv, WellFormed, RowsTypeOK, Visible
  <2>4. NewTotal(r) \in Int
    BY <2>2 DEF NewTotal, Inv, HeldOK
  <2>5. change \in Int /\ Visible(r, c) + change >= 0 /\ -line.qty \in Int
    <3> HIDE DEF line, c
    <3> SUFFICES NewQty(r) \in Int /\ NewQty(r) >= 0
      BY <2>2, <2>3
    <3>1. NewQty(r) = seen[r] - line.qty
      BY DEF NewQty, line
    <3>2. QED
      BY <2>2, <2>3, <3>1
  <2> HIDE DEF line, c, change
  <2>6. RowsTypeOK' /\ LocksHold' /\ UNCHANGED seen
    BY <2>1, <2>2, <2>5, UpdateKeeps DEF Inv
  <2>7. /\ wrote' = [q \in Requests |-> wrote'[q]]
        /\ \A q \in Requests : PartialTotals(wrote'[q])
    <3> DEFINE new == [l \in DOMAIN wrote[r] \cup {line.line} |->
                         IF l = line.line THEN NewTotal(r) ELSE wrote[r][l]]
    <3>1. PartialTotals(new)
      BY <2>2, <2>4 DEF PartialTotals, Inv, HeldOK
    <3>2. wrote' = [wrote EXCEPT ![r] = new]
      BY <2>1
    <3> HIDE DEF new
    <3>3. wrote' = [q \in Requests |-> IF q = r THEN new ELSE wrote[q]]
      BY <3>2 DEF Inv, Domains
    <3>4. QED
      BY <3>1, <3>3 DEF Inv, HeldOK
  <2>8. /\ idx[r] \in Nat \ {0} /\ idx[r] \in 1 .. Len(issueLines[job[r]])
        /\ Len(issueLines[job[r]]) \in Nat
    <3>1. idx[r] \in Nat \ {0} /\ idx[r] \in 1 .. Len(issueLines[job[r]])
      BY <2>1 DEF Inv, HeldOK, WellFormed
    <3>2. job[r] \in Issues /\ issueLines[job[r]] # <<>>
      BY <2>1 DEF Inv, WellFormed, Posting
    <3>3. issueLines[job[r]] \in Seq(IssueLine)
      BY <3>2, PickTyping DEF Inv, StoredOK
    <3>4. QED
      BY <3>1, <3>3
  <2>9. WellFormed' /\ pc' \in [Requests -> Steps] /\ idx' \in [Requests -> Nat \ {0}]
    <3>1. CASE idx[r] < Len(issueLines[job[r]])
      <4>1. /\ pc' = [pc EXCEPT ![r] = "read"] /\ idx' = [idx EXCEPT ![r] = idx[r] + 1]
            /\ idx[r] + 1 \in Nat \ {0} /\ idx[r] + 1 \in 1 .. Len(issueLines[job[r]])
        BY <2>1, <2>8, <3>1 DEF Advance
      <4>2. QED
        BY <2>1, <2>6, <4>1, PostingKeeps DEF Posting
    <3>2. CASE ~(idx[r] < Len(issueLines[job[r]]))
      <4>1. /\ pc' = [pc EXCEPT ![r] = "recompute"]
            /\ idx' = [idx EXCEPT ![r] = idx[r]]
        BY <2>1, <3>2 DEF Advance, Inv, HeldOK
      <4>2. QED
        BY <2>1, <2>6, <2>8, <4>1, PostingKeeps DEF Posting
    <3>3. QED
      BY <3>1, <3>2
  <2>10. StoredOK' /\ HeldOK' /\ Domains'
    BY <2>1, <2>7, <2>9 DEF Inv, StoredOK, HeldOK, Domains
  <2>11. QED
    BY <2>6, <2>9, <2>10 DEF Inv
<1>4. ASSUME Recompute(r) PROVE Inv'
  <2> DEFINE v == Verdict(For[job[r]], Totals(r))
  <2>1. /\ pc[r] = "recompute" /\ pc' = [pc EXCEPT ![r] = "commit"]
        /\ verdict' = [verdict EXCEPT ![r] = v]
        /\ UNCHANGED <<onHand, ledger, seen, pend, rows, held, reqStatus, asked, total,
                       issueStatus, issueLines, closed, job, goal, known, wrote, idx>>
    BY <1>4 DEF Recompute, committed, uncommitted, requisitions, issues
  <2>2. v \in {"CLOSED", "PARTIALLY_ISSUED"}
    BY DEF Verdict
  <2> HIDE DEF v
  <2>3. /\ verdict' \in [Requests -> ReqStatuses]
        /\ verdict'[r] \in {"CLOSED", "PARTIALLY_ISSUED"}
        /\ \A q \in Requests : q # r => verdict'[q] = verdict[q]
    BY <2>1, <2>2 DEF Inv, HeldOK, ReqStatuses, Issuable
  <2>4. RowsTypeOK' /\ LocksHold'
    BY <2>1 DEF Inv, RowsTypeOK, LocksHold
  <2>5. idx[r] \in Nat \ {0} /\ idx' = [idx EXCEPT ![r] = idx[r]]
    BY <2>1 DEF Inv, HeldOK
  <2>6. WellFormed' /\ pc' \in [Requests -> Steps]
    BY <2>1, <2>3, <2>5, PostingKeeps DEF Posting
  <2>7. StoredOK' /\ HeldOK' /\ Domains'
    BY <2>1, <2>3, <2>6 DEF Inv, StoredOK, HeldOK, Domains
  <2>8. QED
    BY <2>4, <2>6, <2>7 DEF Inv
<1>5. QED
  BY <1>1, <1>2, <1>3, <1>4

\* The end of a transaction.
LEMMA EndStep ==
  ASSUME Inv, NEW r \in Requests, Commit(r) \/ RefusePost(r) \/ Abort(r)
  PROVE  Inv'
<1>1. ASSUME Commit(r) PROVE Inv'
  <2>1. /\ pc[r] = "commit" /\ CommitRows(r) /\ Return(r)
        /\ total' = Totals(r)
        /\ issueStatus' = [issueStatus EXCEPT ![job[r]] = "POSTED"]
        /\ reqStatus' = [reqStatus EXCEPT ![For[job[r]]] = verdict[r]]
        /\ UNCHANGED <<asked, issueLines, closed>>
    BY <1>1 DEF Commit
  <2>2. /\ job[r] \in Issues /\ issueStatus[job[r]] # "none"
        /\ verdict[r] \in {"CLOSED", "PARTIALLY_ISSUED"}
    BY <2>1 DEF Inv, WellFormed, Posting
  <2>3. RowsTypeOK' /\ LocksHold' /\ \A q \in Requests : q # r => seen'[q] = seen[q]
    BY <2>1, CommitKeeps DEF Inv
  <2>4. /\ issueStatus' \in [Issues -> IssueStatuses]
        /\ \A i \in Issues : issueStatus[i] # "none" <=> issueStatus'[i] # "none"
    BY <2>1, <2>2 DEF Inv, StoredOK, IssueStatuses
  <2>5. reqStatus' \in [Requisitions -> ReqStatuses]
    BY <2>1, <2>2 DEF Inv, StoredOK, ReqStatuses, Issuable
  <2>6. StoredOK'
    BY <2>1, <2>4, <2>5, TotalsTyping DEF Inv, StoredOK
  <2>7. HeldOK' /\ Domains'
    BY <2>1, ReturnTyping DEF Inv, Domains
  <2>8. WellFormed'
    BY <2>1, <2>3, <2>4, ReturnWellFormed
  <2>9. QED
    BY <2>3, <2>6, <2>7, <2>8 DEF Inv
<1>2. ASSUME RefusePost(r) \/ Abort(r) PROVE Inv'
  <2>1. /\ RollbackRows(r) /\ Return(r)
        /\ UNCHANGED <<reqStatus, asked, total, issueStatus, issueLines, closed>>
    BY <1>2 DEF RefusePost, Abort, requisitions, issues
  <2>2. RowsTypeOK' /\ LocksHold' /\ \A q \in Requests : q # r => seen'[q] = seen[q]
    BY <2>1, RollbackKeeps DEF Inv
  <2>3. StoredOK'
    BY <2>1 DEF Inv, StoredOK
  <2>4. HeldOK' /\ Domains'
    BY <2>1, ReturnTyping DEF Inv, Domains
  <2>5. WellFormed'
    BY <2>1, <2>2, ReturnWellFormed
  <2>6. QED
    BY <2>2, <2>3, <2>4, <2>5 DEF Inv
<1>3. QED
  BY <1>1, <1>2

\* Deliveries only add; closing a month touches nothing else.
LEMMA ElsewhereStep ==
  ASSUME Inv, Elsewhere
  PROVE  Inv'
<1>1. ASSUME NEW c \in Cells, NEW n \in Deliveries, Deliver(c, n) PROVE Inv'
  <2>1. /\ onHand' = [onHand EXCEPT ![c] = @ + n] /\ ledger' = [ledger EXCEPT ![c] = @ + n]
        /\ UNCHANGED <<seen, pend, rows, held, reqStatus, asked, total, issueStatus,
                       issueLines, closed, pc, job, goal, known, wrote, verdict, idx>>
    BY <1>1 DEF Deliver, uncommitted, requisitions, issues, local
  <2>2. n \in Nat
    BY DeliveriesAssumption
  <2>3. RowsTypeOK'
    BY <2>1, <2>2 DEF Inv, RowsTypeOK
  <2>4. \A d \in Cells : onHand'[d] \in Int /\ onHand'[d] >= onHand[d]
    BY <2>1, <2>2 DEF Inv, RowsTypeOK
  <2>5. LocksHold'
    BY <2>1, <2>4 DEF Inv, RowsTypeOK, LocksHold
  <2>6. StoredOK' /\ HeldOK' /\ Domains'
    BY <2>1 DEF Inv, StoredOK, HeldOK, Domains
  <2>7. WellFormed'
    BY <2>1 DEF Inv, WellFormed, CurrentLine
  <2>8. QED
    BY <2>3, <2>5, <2>6, <2>7 DEF Inv
<1>2. ASSUME NEW v \in BOOLEAN, SetClosed(v) PROVE Inv'
  <2>1. /\ closed' = v
        /\ UNCHANGED <<onHand, ledger, seen, pend, rows, held, reqStatus, asked, total,
                       issueStatus, issueLines, pc, job, goal, known, wrote, verdict, idx>>
    BY <1>2 DEF SetClosed, committed, uncommitted, requisitions, issues, local
  <2>2. RowsTypeOK' /\ LocksHold'
    BY <2>1 DEF Inv, RowsTypeOK, LocksHold
  <2>3. closed' \in BOOLEAN
    BY <2>1
  <2>4. StoredOK'
    BY <2>1, <2>3 DEF Inv, StoredOK
  <2>5. HeldOK' /\ Domains' /\ WellFormed'
    BY <2>1 DEF Inv, HeldOK, Domains, WellFormed, CurrentLine
  <2>6. QED
    BY <2>2, <2>4, <2>5 DEF Inv
<1>3. QED
  BY <1>1, <1>2 DEF Elsewhere

LEMMA InvStep == Inv /\ [Next]_vars => Inv'
<1> SUFFICES ASSUME Inv, [Next]_vars PROVE Inv'
  OBVIOUS
<1>1. ASSUME NEW r \in Requests, Arrive(r) PROVE Inv'
  BY <1>1, RequisitionStep, IssueStep, PostStep DEF Arrive
<1>2. ASSUME NEW r \in Requests, Continue(r) PROVE Inv'
  BY <1>2, RequisitionStep, IssueStep, PostStep, EndStep DEF Continue
<1>3. CASE UNCHANGED vars
  <2>1. UNCHANGED <<onHand, ledger, seen, pend, rows, held, reqStatus, asked, total,
                    issueStatus, issueLines, closed, pc, job, goal, known, wrote,
                    verdict, idx>>
    BY <1>3 DEF vars, committed, uncommitted, requisitions, issues, local
  <2>2. RowsTypeOK' /\ LocksHold'
    BY <2>1 DEF Inv, RowsTypeOK, LocksHold
  <2>3. StoredOK' /\ HeldOK' /\ Domains' /\ WellFormed'
    BY <2>1 DEF Inv, StoredOK, HeldOK, Domains, WellFormed, CurrentLine
  <2>4. QED
    BY <2>2, <2>3 DEF Inv
<1>4. QED
  BY <1>1, <1>2, <1>3, ElsewhereStep DEF Next

-----------------------------------------------------------------------------
(* One request at a time *)

Solo == \A a, b \in Requests : pc[a] # "idle" /\ pc[b] # "idle" => a = b

\* What is stored agrees, and so does what a transaction has not committed.
RowsAgree ==
  /\ \A c \in Cells : onHand[c] = ledger[c]
  /\ \A r \in Requests : \A c \in Cells : pend[r][c] = rows[r][c]

TotalsAgree ==
  \A l \in Lines : (\A i \in Posted : NamesOnce(i, l)) => total[l] = IssuedFrom(l)

Full(q) == \A l \in DOMAIN asked[q] : total[l] >= asked[q][l]

StatusAgrees ==
  \A q \in Requisitions : reqStatus[q] \in {"PARTIALLY_ISSUED", "CLOSED"} =>
    (reqStatus[q] = "CLOSED" <=> Full(q))

\* An issue serves a requisition that was created.
IssuesServe == \A i \in Issues : reqStatus[For[i]] = "none" => issueStatus[i] = "none"

Books == RowsAgree /\ TotalsAgree /\ StatusAgrees /\ IssuesServe

\* w holds the totals t with the first n lines of ls added.
Written(ls, n, w, t) ==
  /\ \A k \in 1 .. n : ls[k].line \in DOMAIN w
  /\ \A l \in DOMAIN w : \E k \in 1 .. n : ls[k].line = l /\ w[l] = t[l] + ls[k].qty

Done(r) == IF pc[r] \in {"read", "write"} THEN idx[r] - 1 ELSE Len(issueLines[job[r]])

\* What request r has checked or read is still so.
Grip(r) ==
  /\ pc[r] = "edit" => reqStatus[job[r]] = "DRAFT"
  /\ pc[r] = "delete" => issueStatus[job[r]] = "DRAFT"
  /\ pc[r] \in Posting =>
       /\ issueStatus[job[r]] = "DRAFT" /\ reqStatus[For[job[r]]] \in Issuable /\ ~closed
       /\ known[r] = total
       /\ Written(issueLines[job[r]], Done(r), wrote[r], total)
  /\ pc[r] \notin Posting => DOMAIN wrote[r] = {}
  /\ pc[r] = "write" => seen[r] = Visible(r, CurrentCell(r))
  /\ pc[r] = "commit" => verdict[r] = Verdict(For[job[r]], Totals(r))

SerialInv == Solo /\ Books /\ \A r \in Requests : Grip(r)

FullInv == Inv /\ (overlapped \/ SerialInv)

-----------------------------------------------------------------------------
(* What the totals are made of *)

LEMMA TakesTyping ==
  ASSUME Inv, NEW i \in Issues, NEW l \in Lines
  PROVE  /\ Takes(i, l) \in Int
         /\ Owner[l] # For[i] => Takes(i, l) = 0
<1> DEFINE ls == issueLines[i]
           n == [k \in DOMAIN ls |-> IF ls[k].line = l THEN ls[k].qty ELSE 0]
<1>1. Takes(i, l) = TotalOver(n, DOMAIN ls)
  BY DEF Takes, TotalOver
<1>2. ls \in Seq(IssueLine) /\ \A k \in DOMAIN ls : Owner[ls[k].line] = For[i]
  <2>1. ls = <<>> \/ ls \in PicksOf(i)
    BY DEF Inv, StoredOK
  <2>2. CASE ls = <<>>
    BY <2>2
  <2>3. CASE ls \in PicksOf(i)
    <3> HIDE DEF ls
    <3>1. QED
      BY <2>3, PickTyping
  <2>4. QED
    BY <2>1, <2>2, <2>3
<1> HIDE DEF ls
<1>3. DOMAIN ls = 1 .. Len(ls) /\ Len(ls) \in Nat /\ IsFiniteSet(DOMAIN ls)
  BY <1>2, FS_Interval
<1>4. \A k \in DOMAIN ls : ls[k] \in IssueLine
  BY <1>2
<1>5. \A k \in DOMAIN ls : n[k] \in Int
  BY <1>4 DEF IssueLine
<1>6. Owner[l] # For[i] => \A k \in DOMAIN ls : n[k] = 0
  BY <1>2
<1> HIDE DEF n
<1>7. TotalOver(n, DOMAIN ls) \in Int
  BY <1>3, <1>5, TotalInt
<1>8. Owner[l] # For[i] => TotalOver(n, DOMAIN ls) = 0
  BY <1>3, <1>6, TotalZero
<1>9. QED
  BY <1>1, <1>7, <1>8

\* A line that an issue lists once takes its quantity, one that it does not
\* list takes nothing.
LEMMA TakesOne ==
  ASSUME Inv, NEW i \in Issues, NEW l \in Lines, NamesOnce(i, l)
  PROVE  /\ \A k \in DOMAIN issueLines[i] :
              issueLines[i][k].line = l => Takes(i, l) = issueLines[i][k].qty
         /\ (\A k \in DOMAIN issueLines[i] : issueLines[i][k].line # l) => Takes(i, l) = 0
<1> DEFINE ls == issueLines[i]
           n == [k \in DOMAIN ls |-> IF ls[k].line = l THEN ls[k].qty ELSE 0]
<1>1. Takes(i, l) = TotalOver(n, DOMAIN ls)
  BY DEF Takes, TotalOver
<1>2. ls \in Seq(IssueLine)
  <2>1. ls = <<>> \/ ls \in PicksOf(i)
    BY DEF Inv, StoredOK
  <2> HIDE DEF ls
  <2>2. CASE ls = <<>>
    BY <2>2
  <2>3. CASE ls \in PicksOf(i)
    BY <2>3, PickTyping
  <2>4. QED
    BY <2>1, <2>2, <2>3
<1>3. \A j, k \in DOMAIN ls : ls[j].line = l /\ ls[k].line = l => j = k
  BY DEF NamesOnce
<1> HIDE DEF ls
<1>4. IsFiniteSet(DOMAIN ls)
  <2>1. DOMAIN ls = 1 .. Len(ls) /\ Len(ls) \in Nat
    BY <1>2
  <2>2. QED
    BY <2>1, FS_Interval
<1>5. \A k \in DOMAIN ls : ls[k].qty \in Int
  <2> HIDE DEF n
  <2>1. \A k \in DOMAIN ls : ls[k] \in IssueLine
    BY <1>2
  <2>2. QED
    BY <2>1 DEF IssueLine
<1>6. ASSUME NEW k \in DOMAIN ls, ls[k].line = l PROVE TotalOver(n, DOMAIN ls) = ls[k].qty
  <2>1. n[k] = ls[k].qty /\ \A j \in DOMAIN ls : n[j] \in Int
    BY <1>5, <1>6
  <2>2. \A j \in DOMAIN ls \ {k} : n[j] = 0
    BY <1>3, <1>6
  <2>3. IsFiniteSet(DOMAIN ls \ {k})
    BY <1>4, FS_RemoveElement
  <2> HIDE DEF n
  <2>4. TotalOver(n, DOMAIN ls \ {k}) = 0
    BY <2>2, <2>3, TotalZero
  <2>5. TotalOver(n, DOMAIN ls) = n[k] + TotalOver(n, DOMAIN ls \ {k})
    BY <1>4, <1>6, <2>1, TotalWithout
  <2>6. QED
    BY <1>5, <1>6, <2>1, <2>4, <2>5
<1>7. ASSUME \A k \in DOMAIN ls : ls[k].line # l PROVE TotalOver(n, DOMAIN ls) = 0
  <2>1. \A k \in DOMAIN ls : n[k] = 0
    BY <1>7
  <2> HIDE DEF n
  <2>2. QED
    BY <1>4, <2>1, TotalZero
<1>8. QED
  BY <1>1, <1>6, <1>7 DEF ls

\* Of the posted issues, only those of its own requisition count for a line.
LEMMA NothingIssued ==
  ASSUME Inv, NEW l \in Lines, \A i \in Posted : For[i] # Owner[l]
  PROVE  IssuedFrom(l) = 0
<1> DEFINE n == [i \in Issues |-> Takes(i, l)]
<1>1. IssuedFrom(l) = TotalOver(n, Posted)
  BY DEF IssuedFrom, TotalOver
<1>2. Posted \subseteq Issues /\ IsFiniteSet(Posted)
  <2>1. Posted \subseteq Issues
    BY DEF Posted
  <2>2. QED
    BY <2>1, LinesAssumption, FS_Subset
<1>3. \A i \in Posted : n[i] = 0
  BY <1>2, TakesTyping
<1> HIDE DEF n
<1>4. QED
  BY <1>1, <1>2, <1>3, TotalZero

\* As long as the same issues are posted, with the same lines, so much is issued.
LEMMA IssuedSame ==
  ASSUME Inv, NEW l \in Lines, Posted' = Posted,
         \A i \in Posted : issueLines'[i] = issueLines[i]
  PROVE  /\ IssuedFrom(l)' = IssuedFrom(l)
         /\ (\A i \in Posted' : NamesOnce(i, l)') => \A i \in Posted : NamesOnce(i, l)
<1> DEFINE n == [i \in Issues |-> Takes(i, l)]
           m == [i \in Issues |-> Takes(i, l)']
<1>1. IssuedFrom(l) = TotalOver(n, Posted)
  BY DEF IssuedFrom, TotalOver
<1>2. IssuedFrom(l)' = TotalOver(m, Posted')
  BY DEF IssuedFrom, TotalOver, MapThenSumSet, MapThenFoldSet
<1>3. Posted \subseteq Issues /\ IsFiniteSet(Posted)
  <2>1. Posted \subseteq Issues
    BY DEF Posted
  <2>2. QED
    BY <2>1, LinesAssumption, FS_Subset
<1>4. ASSUME NEW i \in Posted PROVE n[i] = m[i]
  <2>1. Takes(i, l)' = Takes(i, l)
    <3> DEFINE F(ls) == [k \in DOMAIN ls |-> IF ls[k].line = l THEN ls[k].qty ELSE 0]
    <3>1. Takes(i, l) = TotalOver(F(issueLines[i]), DOMAIN issueLines[i])
      BY DEF Takes, TotalOver
    <3>2. Takes(i, l)' = TotalOver(F(issueLines'[i]), DOMAIN issueLines'[i])
      BY DEF Takes, TotalOver, MapThenSumSet, MapThenFoldSet
    <3> HIDE DEF F
    <3>3. issueLines'[i] = issueLines[i]
      OBVIOUS
    <3>4. QED
      BY <3>1, <3>2, <3>3
  <2>2. QED
    BY <1>3, <2>1
<1>5. (\A i \in Posted' : NamesOnce(i, l)') => \A i \in Posted : NamesOnce(i, l)
  BY DEF NamesOnce
<1> HIDE DEF n, m
<1>6. TotalOver(n, Posted) = TotalOver(m, Posted)
  BY <1>3, <1>4, TotalSame
<1>7. QED
  BY <1>1, <1>2, <1>5, <1>6

\* One more issue is posted.
LEMMA IssuedMore ==
  ASSUME Inv, NEW l \in Lines, NEW i \in Issues, i \notin Posted,
         Posted' = Posted \cup {i}, UNCHANGED issueLines
  PROVE  IssuedFrom(l)' = IssuedFrom(l) + Takes(i, l)
<1> DEFINE n == [j \in Issues |-> Takes(j, l)]
           m == [j \in Issues |-> Takes(j, l)']
           S == Posted \cup {i}
<1>1. IssuedFrom(l) = TotalOver(n, Posted)
  BY DEF IssuedFrom, TotalOver
<1>2. IssuedFrom(l)' = TotalOver(m, S)
  BY DEF IssuedFrom, TotalOver, MapThenSumSet, MapThenFoldSet
<1>3. m = n
  BY DEF Takes, MapThenSumSet, MapThenFoldSet
<1>4. Posted \subseteq Issues /\ IsFiniteSet(S) /\ S \ {i} = Posted /\ i \in S
  <2>1. Posted \subseteq Issues /\ S \subseteq Issues
    BY DEF Posted
  <2>2. QED
    BY <2>1, LinesAssumption, FS_Subset
<1>5. \A j \in S : n[j] \in Int
  BY <1>4, TakesTyping
<1>6. n[i] = Takes(i, l) /\ n[i] \in Int
  BY TakesTyping
<1> HIDE DEF n, m, S
<1>7. TotalOver(n, S) = n[i] + TotalOver(n, Posted)
  <2>1. TotalOver(n, S) = n[i] + TotalOver(n, S \ {i})
    BY <1>4, <1>5, TotalWithout
  <2>2. QED
    BY <1>4, <2>1
<1>8. TotalOver(n, Posted) \in Int
  <2>1. IsFiniteSet(Posted)
    BY <1>4, FS_RemoveElement
  <2>2. \A j \in Posted : n[j] \in Int
    BY <1>4, <1>5
  <2>3. QED
    BY <2>1, <2>2, TotalInt
<1>9. QED
  BY <1>1, <1>2, <1>3, <1>6, <1>7, <1>8

-----------------------------------------------------------------------------
(* One request at a time, step by step *)

LEMMA Modes ==
  ASSUME Inv, Solo, Next, NoteOverlap, ~overlapped'
  PROVE  /\ Solo'
         /\ \/ \E r \in Requests : Arrive(r) /\ \A q \in Requests : pc[q] = "idle"
            \/ \E r \in Requests : Continue(r) /\ pc[r] # "idle"
                                   /\ \A q \in Requests : q # r => pc[q] = "idle"
            \/ Elsewhere /\ \A q \in Requests : pc[q] = "idle"
<1>0. pc \in [Requests -> Steps]
  BY DEF Inv, HeldOK
<1>1. /\ ~(Cardinality({q \in Requests : pc'[q] # "idle"}) > 1)
      /\ UNCHANGED pc => \A q \in Requests : pc[q] = "idle"
  BY DEF NoteOverlap, Busy
<1>2. ASSUME NEW r \in Requests, \A q \in Requests : q # r => pc'[q] = pc[q] PROVE Solo'
  <2>1. \A a, b \in Requests : pc'[a] # "idle" /\ pc'[b] # "idle" => a = b
    BY <1>1, <1>2, OneMoves DEF Solo
  <2>2. QED
    BY <2>1 DEF Solo
<1>3. ASSUME NEW r \in Requests, Arrive(r)
      PROVE  Solo' /\ \A q \in Requests : pc[q] = "idle"
  <2>1. pc[r] = "idle"
        /\ (UNCHANGED pc \/ \E step \in Steps \ {"idle"} : pc' = [pc EXCEPT ![r] = step])
    BY <1>3 DEF Arrive, CreateRequisition, BeginDecision, BeginEdit, CreateIssue, BeginDelete,
                BeginPost, Take, Steps
  <2>2. \A q \in Requests : q # r => pc'[q] = pc[q]
    BY <1>0, <2>1
  <2>3. UNCHANGED pc \/ pc'[r] # "idle"
    BY <1>0, <2>1
  <2>4. Solo'
    BY <1>2, <2>2
  <2>5. QED
    BY <1>1, <2>1, <2>2, <2>3, <2>4 DEF Solo
<1>4. ASSUME NEW r \in Requests, Continue(r)
      PROVE  Solo' /\ pc[r] # "idle" /\ \A q \in Requests : q # r => pc[q] = "idle"
  <2>1. pc[r] # "idle" /\ \E step \in Steps : pc' = [pc EXCEPT ![r] = step]
    BY <1>4 DEF Continue, FinishDecision, FinishEdit, FinishDelete, ReadBalance, WriteLine, Advance,
                Recompute, Commit, RefusePost, Abort, Return, Steps
  <2>2. \A q \in Requests : q # r => pc'[q] = pc[q]
    BY <1>0, <2>1
  <2>3. QED
    BY <1>2, <2>1, <2>2 DEF Solo
<1>5. ASSUME Elsewhere PROVE Solo' /\ \A q \in Requests : pc[q] = "idle"
  <2>1. UNCHANGED pc
    BY <1>5 DEF Elsewhere, Deliver, SetClosed
  <2>2. QED
    BY <1>1, <2>1 DEF Solo
<1>6. QED
  BY <1>3, <1>4, <1>5 DEF Next

LEMMA AskedLines ==
  ASSUME Inv, NEW q \in Requisitions
  PROVE  \A l \in DOMAIN asked[q] : l \in Lines /\ Owner[l] = q
<1>1. CASE asked[q] = <<>>
  BY <1>1
<1>2. CASE IsWish(q, asked[q])
  BY <1>2 DEF IsWish, LinesOf
<1>3. QED
  BY <1>1, <1>2 DEF Inv, StoredOK

\* While the same issues are posted and line totals stand, the totals agree.
LEMMA TotalsStand ==
  ASSUME Inv, TotalsAgree, Posted' = Posted, UNCHANGED total,
         \A i \in Posted : issueLines'[i] = issueLines[i]
  PROVE  TotalsAgree'
<1> SUFFICES ASSUME NEW l \in Lines, \A i \in Posted' : NamesOnce(i, l)'
             PROVE  total'[l] = IssuedFrom(l)'
  BY DEF TotalsAgree
<1>1. IssuedFrom(l)' = IssuedFrom(l) /\ \A i \in Posted : NamesOnce(i, l)
  BY IssuedSame
<1>2. QED
  BY <1>1 DEF TotalsAgree

LEMMA StatusStands ==
  ASSUME StatusAgrees, UNCHANGED <<asked, total>>,
         \A q \in Requisitions : reqStatus'[q] = reqStatus[q]
                                 \/ reqStatus'[q] \notin {"PARTIALLY_ISSUED", "CLOSED"}
  PROVE  StatusAgrees'
BY DEF StatusAgrees, Full

\* New lines of a requisition of which nothing has been issued.
LEMMA NewLines ==
  ASSUME Inv, TotalsAgree, StatusAgrees, NEW q \in Requisitions, SetLines(q),
         \A i \in Posted : For[i] # q, Posted' = Posted, UNCHANGED issueLines,
         reqStatus'[q] \notin {"PARTIALLY_ISSUED", "CLOSED"},
         \A p \in Requisitions : p # q => reqStatus'[p] = reqStatus[p]
  PROVE  TotalsAgree' /\ StatusAgrees'
<1>1. \A l \in Lines : total'[l] = IF Owner[l] = q THEN 0 ELSE total[l]
  BY DEF SetLines
<1>2. \A p \in Requisitions : p # q => asked'[p] = asked[p]
  BY DEF SetLines, Inv, Domains
<1>3. ASSUME NEW l \in Lines, \A i \in Posted' : NamesOnce(i, l)'
      PROVE  total'[l] = IssuedFrom(l)'
  <2>1. IssuedFrom(l)' = IssuedFrom(l) /\ \A i \in Posted : NamesOnce(i, l)
    BY <1>3, IssuedSame
  <2>2. CASE Owner[l] = q
    BY <1>1, <2>1, <2>2, NothingIssued
  <2>3. CASE Owner[l] # q
    BY <1>1, <2>1, <2>3 DEF TotalsAgree
  <2>4. QED
    BY <2>2, <2>3
<1>4. ASSUME NEW p \in Requisitions, p # q PROVE Full(p)' <=> Full(p)
  <2>1. \A l \in DOMAIN asked[p] : total'[l] = total[l]
    BY <1>1, <1>4, AskedLines
  <2>2. asked'[p] = asked[p]
    BY <1>2, <1>4
  <2>3. QED
    BY <2>1, <2>2 DEF Full
<1>5. QED
  BY <1>3, <1>4 DEF TotalsAgree, StatusAgrees

\* The only request that may be in progress has a grip.
LEMMA Settles ==
  ASSUME Solo', Books', NEW r \in Requests, Grip(r)',
         \A q \in Requests : q # r => pc'[q] = "idle" /\ DOMAIN wrote'[q] = {}
  PROVE  SerialInv'
<1>1. ASSUME NEW q \in Requests, q # r PROVE Grip(q)'
  BY <1>1 DEF Grip, Posting
<1>2. QED
  BY <1>1 DEF SerialInv

\* Nobody is in progress any more.
LEMMA Ends ==
  ASSUME Inv, SerialInv, Solo', Books', NEW r \in Requests,
         \A q \in Requests : q # r => pc[q] = "idle", Return(r)
  PROVE  SerialInv'
<1>1. /\ pc'[r] = "idle" /\ wrote'[r] = <<>>
      /\ \A q \in Requests : q # r => pc'[q] = pc[q] /\ wrote'[q] = wrote[q]
  BY DEF Return, Inv, HeldOK, Domains
<1>2. DOMAIN <<>> = {}
  OBVIOUS
<1>3. \A q \in Requests : q # r => DOMAIN wrote[q] = {}
  BY DEF SerialInv, Grip, Posting
<1>4. Grip(r)'
  BY <1>1, <1>2 DEF Grip, Posting
<1>5. QED
  BY <1>1, <1>3, <1>4, Settles

\* A request begins; nothing that is stored changes.
LEMMA Begins ==
  ASSUME Inv, SerialInv, Solo', NEW r \in Requests, \A q \in Requests : pc[q] = "idle",
         NEW j \in Requisitions \cup Issues, NEW step \in Steps, Take(r, j, step),
         UNCHANGED <<onHand, ledger, pend, rows, reqStatus, asked, total,
                     issueStatus, issueLines, wrote>>,
         Grip(r)'
  PROVE  SerialInv'
<1>1. Books'
  <2>1. Posted' = Posted
    BY DEF Posted
  <2>2. TotalsAgree'
    BY <2>1, TotalsStand DEF SerialInv, Books
  <2>3. StatusAgrees'
    BY StatusStands DEF SerialInv, Books
  <2>4. RowsAgree' /\ IssuesServe'
    BY DEF SerialInv, Books, RowsAgree, IssuesServe
  <2>5. QED
    BY <2>2, <2>3, <2>4 DEF Books
<1>2. \A q \in Requests : q # r => pc'[q] = pc[q] /\ DOMAIN wrote[q] = {}
  BY DEF Take, Inv, HeldOK, SerialInv, Grip, Posting
<1>3. QED
  BY <1>1, <1>2, Settles

LEMMA SerialRequisition ==
  ASSUME Inv, SerialInv, Inv', Solo', NEW r \in Requests,
         \A q \in Requests : q # r => pc[q] = "idle",
         \/ /\ pc[r] = "idle"
            /\ \E q \in Requisitions :
                 CreateRequisition(r, q) \/ BeginDecision(r, q) \/ BeginEdit(r, q)
         \/ FinishDecision(r) \/ FinishEdit(r)
  PROVE  SerialInv'
<1>1. ASSUME NEW q \in Requisitions, CreateRequisition(r, q) PROVE SerialInv'
  <2>1. /\ reqStatus[q] = "none" /\ reqStatus' = [reqStatus EXCEPT ![q] = "DRAFT"] /\ SetLines(q)
        /\ pc[r] = "idle"
        /\ UNCHANGED <<onHand, ledger, seen, pend, rows, held, issueStatus, issueLines,
                       closed, pc, job, goal, known, wrote, verdict, idx>>
    BY <1>1 DEF CreateRequisition, committed, uncommitted, issues, local
  <2>2. reqStatus'[q] = "DRAFT" /\ \A p \in Requisitions : p # q => reqStatus'[p] = reqStatus[p]
    BY <2>1 DEF Inv, StoredOK
  <2>3. Posted' = Posted /\ \A i \in Posted : For[i] # q
    BY <2>1 DEF Posted, SerialInv, Books, IssuesServe
  <2>4. TotalsAgree' /\ StatusAgrees'
    BY <2>1, <2>2, <2>3, NewLines DEF SerialInv, Books
  <2>5. RowsAgree' /\ IssuesServe'
    BY <2>1, <2>2, LinesAssumption DEF SerialInv, Books, RowsAgree, IssuesServe
  <2>6. \A p \in Requests : pc[p] = "idle" /\ DOMAIN wrote[p] = {}
    BY <2>1 DEF SerialInv, Grip, Posting
  <2>7. Grip(r)'
    BY <2>1, <2>6 DEF Grip, Posting
  <2>8. QED
    BY <2>1, <2>4, <2>5, <2>6, <2>7, Settles DEF Books
<1>2. ASSUME NEW q \in Requisitions, BeginDecision(r, q) PROVE SerialInv'
  <2>1. /\ pc[r] = "idle" /\ Take(r, q, "decide")
        /\ UNCHANGED <<onHand, ledger, pend, rows, reqStatus, asked, total,
                       issueStatus, issueLines, wrote>>
    BY <1>2 DEF BeginDecision, requisitions, issues, committed, uncommitted
  <2>2. Grip(r)'
    BY <2>1 DEF Take, Inv, HeldOK, SerialInv, Grip, Posting
  <2>3. QED
    BY <2>1, <2>2, Begins DEF Steps
<1>3. ASSUME NEW q \in Requisitions, BeginEdit(r, q) PROVE SerialInv'
  <2>1. /\ pc[r] = "idle" /\ Take(r, q, "edit") /\ reqStatus[q] = "DRAFT"
        /\ UNCHANGED <<onHand, ledger, pend, rows, reqStatus, asked, total,
                       issueStatus, issueLines, wrote>>
    BY <1>3 DEF BeginEdit, Editable, requisitions, issues, committed, uncommitted
  <2>2. Grip(r)'
    BY <2>1 DEF Take, Inv, HeldOK, SerialInv, Grip, Posting
  <2>3. QED
    BY <2>1, <2>2, Begins DEF Steps
<1>4. ASSUME FinishDecision(r) PROVE SerialInv'
  <2>1. job[r] \in Requisitions /\ goal[r] \in Decisions
    BY <1>4 DEF FinishDecision, Inv, WellFormed
  <2>2. goal[r].to \notin {"none", "PARTIALLY_ISSUED", "CLOSED"}
    BY <2>1 DEF Decisions, Decision
  <2>3. /\ UNCHANGED reqStatus \/ reqStatus' = [reqStatus EXCEPT ![job[r]] = goal[r].to]
        /\ Return(r)
        /\ UNCHANGED <<onHand, ledger, seen, pend, rows, held, asked, total, issueStatus,
                       issueLines, closed>>
    BY <1>4 DEF FinishDecision, committed, uncommitted, issues
  <2>4. \A p \in Requisitions : \/ reqStatus'[p] = reqStatus[p]
                                \/ reqStatus'[p] \notin {"none", "PARTIALLY_ISSUED", "CLOSED"}
    BY <2>1, <2>2, <2>3 DEF Inv, StoredOK
  <2>5. TotalsAgree'
    BY <2>3, TotalsStand DEF SerialInv, Books, Posted
  <2>6. StatusAgrees'
    BY <2>3, <2>4, StatusStands DEF SerialInv, Books
  <2>7. RowsAgree' /\ IssuesServe'
    BY <2>3, <2>4, LinesAssumption DEF SerialInv, Books, RowsAgree, IssuesServe
  <2>8. QED
    BY <2>3, <2>5, <2>6, <2>7, Ends DEF Books
<1>5. ASSUME FinishEdit(r) PROVE SerialInv'
  <2> DEFINE q == job[r]
  <2>1. q \in Requisitions /\ reqStatus[q] = "DRAFT"
    BY <1>5 DEF FinishEdit, Inv, WellFormed, SerialInv, Grip
  <2>2. /\ (~Referenced(q) /\ SetLines(q)) \/ UNCHANGED <<asked, total>>
        /\ Return(r)
        /\ UNCHANGED <<onHand, ledger, seen, pend, rows, held, reqStatus, issueStatus,
                       issueLines, closed>>
    BY <1>5 DEF FinishEdit, committed, uncommitted, issues
  <2>3. Posted' = Posted
    BY <2>2 DEF Posted
  <2>4. TotalsAgree' /\ StatusAgrees'
    <3>1. CASE ~Referenced(q) /\ SetLines(q)
      <4>1. \A i \in Posted : For[i] # q
        BY <3>1 DEF Referenced, Posted
      <4>2. reqStatus'[q] \notin {"PARTIALLY_ISSUED", "CLOSED"}
        BY <2>1, <2>2
      <4> HIDE DEF q
      <4>3. QED
        BY <2>1, <2>2, <2>3, <3>1, <4>1, <4>2, NewLines DEF SerialInv, Books
    <3>2. CASE UNCHANGED <<asked, total>>
      BY <2>2, <2>3, <3>2, TotalsStand, StatusStands DEF SerialInv, Books
    <3>3. QED
      BY <2>2, <3>1, <3>2
  <2>5. RowsAgree' /\ IssuesServe'
    BY <2>2 DEF SerialInv, Books, RowsAgree, IssuesServe
  <2>6. QED
    BY <2>2, <2>4, <2>5, Ends DEF Books
<1>6. QED
  BY <1>1, <1>2, <1>3, <1>4, <1>5

LEMMA SerialDrafts ==
  ASSUME Inv, SerialInv, Inv', Solo', NEW r \in Requests,
         \A q \in Requests : q # r => pc[q] = "idle",
         \/ /\ pc[r] = "idle"
            /\ \E i \in Issues : CreateIssue(r, i) \/ BeginDelete(r, i)
         \/ FinishDelete(r)
  PROVE  SerialInv'
<1>1. ASSUME NEW i \in Issues, CreateIssue(r, i) PROVE SerialInv'
  <2>1. /\ issueStatus[i] = "none" /\ issueStatus' = [issueStatus EXCEPT ![i] = "DRAFT"]
        /\ reqStatus[For[i]] \in Issuable /\ pc[r] = "idle"
        /\ UNCHANGED <<onHand, ledger, seen, pend, rows, held, reqStatus, asked, total,
                       closed, pc, job, goal, known, wrote, verdict, idx>>
    BY <1>1 DEF CreateIssue, committed, uncommitted, requisitions, local
  <2>2. /\ issueStatus'[i] = "DRAFT"
        /\ \A k \in Issues : k # i => issueStatus'[k] = issueStatus[k]
    BY <2>1 DEF Inv, StoredOK
  <2>3. \A k \in Issues : k # i => issueLines'[k] = issueLines[k]
    BY <1>1 DEF CreateIssue, Inv, Domains
  <2>4. Posted' = Posted /\ \A k \in Posted : issueLines'[k] = issueLines[k]
    BY <2>1, <2>2, <2>3 DEF Posted
  <2>5. TotalsAgree'
    BY <2>1, <2>4, TotalsStand DEF SerialInv, Books
  <2>6. StatusAgrees'
    BY <2>1, StatusStands DEF SerialInv, Books
  <2>7. RowsAgree' /\ IssuesServe'
    BY <2>1, <2>2 DEF SerialInv, Books, RowsAgree, IssuesServe, Issuable
  <2>8. \A p \in Requests : pc[p] = "idle" /\ DOMAIN wrote[p] = {}
    BY <2>1 DEF SerialInv, Grip, Posting
  <2>9. Grip(r)'
    BY <2>1, <2>8 DEF Grip, Posting
  <2>10. QED
    BY <2>1, <2>5, <2>6, <2>7, <2>8, <2>9, Settles DEF Books
<1>2. ASSUME NEW i \in Issues, BeginDelete(r, i) PROVE SerialInv'
  <2>1. /\ pc[r] = "idle" /\ Take(r, i, "delete") /\ issueStatus[i] = "DRAFT"
        /\ UNCHANGED <<onHand, ledger, pend, rows, reqStatus, asked, total,
                       issueStatus, issueLines, wrote>>
    BY <1>2 DEF BeginDelete, Deletable, requisitions, issues, committed, uncommitted
  <2>2. Grip(r)'
    BY <2>1 DEF Take, Inv, HeldOK, SerialInv, Grip, Posting
  <2>3. QED
    BY <2>1, <2>2, Begins DEF Steps
<1>3. ASSUME FinishDelete(r) PROVE SerialInv'
  <2> DEFINE i == job[r]
  <2>1. i \in Issues /\ issueStatus[i] = "DRAFT"
    BY <1>3 DEF FinishDelete, Inv, WellFormed, SerialInv, Grip
  <2>2. /\ issueStatus' = [issueStatus EXCEPT ![i] = "deleted"]
        /\ Return(r)
        /\ UNCHANGED <<onHand, ledger, seen, pend, rows, held, reqStatus, asked, total,
                       issueLines, closed>>
    BY <1>3 DEF FinishDelete, committed, uncommitted, requisitions
  <2> HIDE DEF i
  <2>3. /\ issueStatus'[i] = "deleted"
        /\ \A k \in Issues : k # i => issueStatus'[k] = issueStatus[k]
    BY <2>1, <2>2 DEF Inv, StoredOK
  <2>4. Posted' = Posted
    BY <2>1, <2>3 DEF Posted
  <2>5. TotalsAgree' /\ StatusAgrees'
    BY <2>2, <2>4, TotalsStand, StatusStands DEF SerialInv, Books
  <2>6. RowsAgree' /\ IssuesServe'
    BY <2>1, <2>2, <2>3 DEF SerialInv, Books, RowsAgree, IssuesServe
  <2>7. QED
    BY <2>2, <2>5, <2>6, Ends DEF Books
<1>4. QED
  BY <1>1, <1>2, <1>3

\* A posting transaction goes on; nothing that is committed changes.
LEMMA PostingGoesOn ==
  ASSUME Inv, SerialInv, Solo', NEW r \in Requests, pc[r] \in Posting,
         \A q \in Requests : q # r => pc[q] = "idle",
         UNCHANGED <<onHand, ledger, reqStatus, asked, total, issueStatus, issueLines>>,
         \A q \in Requests : \A c \in Cells : pend'[q][c] = rows'[q][c],
         \A q \in Requests : q # r => pc'[q] = pc[q] /\ wrote'[q] = wrote[q],
         Grip(r)'
  PROVE  SerialInv'
<1>1. Books'
  <2>1. Posted' = Posted
    BY DEF Posted
  <2>2. TotalsAgree' /\ StatusAgrees'
    BY <2>1, TotalsStand, StatusStands DEF SerialInv, Books
  <2>3. RowsAgree' /\ IssuesServe'
    BY DEF SerialInv, Books, RowsAgree, IssuesServe
  <2>4. QED
    BY <2>2, <2>3 DEF Books
<1>2. \A q \in Requests : q # r => DOMAIN wrote[q] = {}
  BY DEF SerialInv, Grip, Posting
<1>3. QED
  BY <1>1, <1>2, Settles

\* One more line of an issue is written.
LEMMA WrittenMore ==
  ASSUME NEW ls, NEW n \in Nat, NEW w, NEW t, NEW v, NEW l, Written(ls, n, w, t),
         l = ls[n + 1].line, v = t[l] + ls[n + 1].qty
  PROVE  Written(ls, n + 1, [k \in DOMAIN w \cup {l} |-> IF k = l THEN v ELSE w[k]], t)
<1> DEFINE x == [k \in DOMAIN w \cup {l} |-> IF k = l THEN v ELSE w[k]]
<1>1. \A k \in 1 .. n + 1 : k = n + 1 \/ k \in 1 .. n
  OBVIOUS
<1>2. DOMAIN x = DOMAIN w \cup {l} /\ x[l] = v /\ \A k \in DOMAIN w : k # l => x[k] = w[k]
  OBVIOUS
<1> HIDE DEF x
<1>3. \A k \in 1 .. n + 1 : ls[k].line \in DOMAIN x
  BY <1>1, <1>2 DEF Written
<1>4. ASSUME NEW d \in DOMAIN x
      PROVE  \E k \in 1 .. n + 1 : ls[k].line = d /\ x[d] = t[d] + ls[k].qty
  <2>1. CASE d = l
    <3>1. n + 1 \in 1 .. n + 1
      OBVIOUS
    <3>2. ls[n + 1].line = d /\ x[d] = t[d] + ls[n + 1].qty
      BY <1>2, <2>1
    <3>3. QED
      BY <3>1, <3>2
  <2>2. CASE d # l
    <3>1. PICK k \in 1 .. n : ls[k].line = d /\ w[d] = t[d] + ls[k].qty
      BY <1>2, <2>2 DEF Written
    <3>2. k \in 1 .. n + 1 /\ x[d] = w[d]
      BY <1>2, <2>2
    <3>3. QED
      BY <3>1, <3>2
  <2>3. QED
    BY <2>1, <2>2
<1>5. Written(ls, n + 1, x, t)
  BY <1>3, <1>4 DEF Written
<1>6. QED
  BY <1>5 DEF x

LEMMA SerialPost ==
  ASSUME Inv, SerialInv, Inv', Solo', NEW r \in Requests,
         \A q \in Requests : q # r => pc[q] = "idle",
         \/ pc[r] = "idle" /\ \E i \in Issues : BeginPost(r, i)
         \/ ReadBalance(r) \/ WriteLine(r) \/ Recompute(r)
  PROVE  SerialInv'
<1>0. /\ pc \in [Requests -> Steps] /\ wrote = [q \in Requests |-> wrote[q]]
      /\ idx \in [Requests -> Nat \ {0}] /\ seen \in [Requests -> Int]
  BY DEF Inv, HeldOK, Domains, RowsTypeOK
<1>1. ASSUME NEW i \in Issues, BeginPost(r, i), pc[r] = "idle" PROVE SerialInv'
  <2>1. /\ Take(r, i, "read") /\ issueStatus[i] = "DRAFT" /\ reqStatus[For[i]] \in Issuable
        /\ ~closed /\ known' = [known EXCEPT ![r] = total]
        /\ UNCHANGED <<onHand, ledger, pend, rows, reqStatus, asked, total,
                       issueStatus, issueLines, wrote>>
        /\ UNCHANGED <<closed, idx>>
    BY <1>1 DEF BeginPost, Postable, requisitions, issues, committed, uncommitted
  <2>2. pc'[r] = "read" /\ job'[r] = i /\ known'[r] = total /\ idx'[r] = 1
    BY <1>1, <2>1 DEF Take, Inv, HeldOK, WellFormed
  <2>3. DOMAIN wrote'[r] = {}
    BY <1>1, <2>1 DEF SerialInv, Grip, Posting
  <2>4. Done(r)' = 0
    BY <2>2 DEF Done
  <2>5. Written(issueLines'[i], 0, wrote'[r], total)
    BY <2>3 DEF Written
  <2>6. Grip(r)'
    BY <2>1, <2>2, <2>4, <2>5 DEF Grip, Posting
  <2>7. QED
    BY <1>1, <2>1, <2>6, Begins DEF Steps
<1>2. ASSUME ReadBalance(r) PROVE SerialInv'
  <2>1. /\ pc[r] = "read" /\ pc' = [pc EXCEPT ![r] = "write"]
        /\ seen' = [seen EXCEPT ![r] = Visible(r, CurrentCell(r))]
        /\ UNCHANGED <<onHand, ledger, reqStatus, asked, total, issueStatus, issueLines>>
        /\ UNCHANGED <<pend, rows, closed, job, goal, known, wrote, verdict, idx>>
    BY <1>2 DEF ReadBalance, Select, committed, requisitions, issues, local
  <2>2. pc'[r] = "write" /\ \A q \in Requests : q # r => pc'[q] = pc[q]
    BY <1>0, <2>1
  <2>3. seen'[r] = Visible(r, CurrentCell(r))'
    BY <1>0, <2>1 DEF Visible, CurrentCell, CurrentLine
  <2>4. Done(r)' = Done(r)
    BY <2>1, <2>2 DEF Done
  <2>5. Grip(r)
    BY DEF SerialInv
  <2>6. Grip(r)'
    BY <2>1, <2>2, <2>3, <2>4, <2>5 DEF Grip, Posting
  <2>7. QED
    BY <2>1, <2>2, <2>6, PostingGoesOn DEF Posting, SerialInv, Books, RowsAgree
<1>3. ASSUME WriteLine(r) PROVE SerialInv'
  <2> DEFINE line == CurrentLine(r)
             c == CurrentCell(r)
             ls == issueLines[job[r]]
             n == idx[r] - 1
             new == [l \in DOMAIN wrote[r] \cup {line.line} |->
                       IF l = line.line THEN NewTotal(r) ELSE wrote[r][l]]
  <2>1. /\ pc[r] = "write" /\ Update(r, c, NewQty(r) - Visible(r, c), -line.qty) /\ Advance(r)
        /\ wrote' = [wrote EXCEPT ![r] = new]
        /\ UNCHANGED <<reqStatus, asked, total, issueStatus, issueLines>>
        /\ UNCHANGED <<closed, job, goal, known, verdict>>
    BY <1>3 DEF WriteLine, requisitions, issues
  <2>2. line.line \in Lines /\ line.qty \in Nat \ {0} /\ c \in Cells
    BY <2>1, LineTyping
  <2>3. Grip(r) /\ seen[r] = Visible(r, c) /\ seen[r] \in Int
    BY <1>0, <2>1 DEF SerialInv, Grip
  <2>4. NewQty(r) - Visible(r, c) = -line.qty
    <3>1. NewQty(r) = seen[r] - line.qty
      BY DEF NewQty
    <3> HIDE DEF line, c
    <3>2. QED
      BY <2>2, <2>3, <3>1
  <2>5. /\ UNCHANGED <<onHand, ledger>>
        /\ pend' = [pend EXCEPT ![r][c] = @ + (-line.qty)]
        /\ rows' = [rows EXCEPT ![r][c] = @ + (-line.qty)]
    BY <2>1, <2>4 DEF Update, committed
  <2>6. \A q \in Requests : \A d \in Cells : pend'[q][d] = rows'[q][d]
    <3> HIDE DEF line, c
    <3>1. /\ pend \in [Requests -> [Cells -> Int]] /\ rows \in [Requests -> [Cells -> Int]]
          /\ \A q \in Requests : \A d \in Cells : pend[q][d] = rows[q][d]
      BY DEF Inv, RowsTypeOK, SerialInv, Books, RowsAgree
    <3>2. QED
      BY <2>2, <2>5, <3>1
  <2>7. /\ wrote'[r] = new /\ \A q \in Requests : q # r => wrote'[q] = wrote[q]
    <3> HIDE DEF new
    <3>1. QED
      BY <1>0, <2>1
  <2>8. /\ n \in Nat /\ n + 1 = idx[r] /\ idx[r] <= Len(ls) /\ Len(ls) \in Nat
        /\ Done(r) = n /\ known[r] = total /\ Written(ls, n, wrote[r], total)
    <3>1. job[r] \in Issues /\ ls # <<>>
      BY <2>1 DEF Inv, WellFormed, Posting
    <3>2. ls \in Seq(IssueLine)
      BY <3>1, PickTyping DEF Inv, StoredOK
    <3>3. idx[r] \in Nat \ {0} /\ idx[r] \in 1 .. Len(ls)
      BY <1>0, <2>1 DEF Inv, WellFormed
    <3>4. Done(r) = n /\ known[r] = total /\ Written(ls, Done(r), wrote[r], total)
      BY <2>1, <2>3 DEF Grip, Posting, Done
    <3> HIDE DEF ls
    <3>5. QED
      BY <3>2, <3>3, <3>4
  <2>9. Written(ls, n + 1, new, total)
    <3>1. line = ls[n + 1] /\ NewTotal(r) = total[line.line] + line.qty
      BY <2>8 DEF CurrentLine, NewTotal
    <3> DEFINE l == line.line
               v == NewTotal(r)
    <3>2. l = ls[n + 1].line /\ v = total[l] + ls[n + 1].qty
      BY <3>1
    <3> HIDE DEF line, ls, n, l, v
    <3>3. Written(ls, n + 1, [k \in DOMAIN wrote[r] \cup {l} |-> IF k = l THEN v ELSE wrote[r][k]],
                  total)
      BY <2>8, <3>2, WrittenMore
    <3>4. QED
      BY <3>3 DEF l, v
  <2>10. /\ pc'[r] \in {"read", "recompute"} /\ Done(r)' = n + 1
         /\ \A q \in Requests : q # r => pc'[q] = pc[q]
    <3>1. CASE idx[r] < Len(ls)
      <4>1. pc' = [pc EXCEPT ![r] = "read"] /\ idx' = [idx EXCEPT ![r] = idx[r] + 1]
        BY <2>1, <3>1 DEF Advance
      <4>2. pc'[r] = "read" /\ idx'[r] = n + 2
        BY <1>0, <2>8, <4>1
      <4>3. QED
        BY <1>0, <2>8, <4>1, <4>2 DEF Done
    <3>2. CASE ~(idx[r] < Len(ls))
      <4>1. pc' = [pc EXCEPT ![r] = "recompute"]
        BY <2>1, <3>2 DEF Advance
      <4>2. pc'[r] = "recompute" /\ Len(ls) = n + 1
        BY <1>0, <2>8, <3>2, <4>1
      <4>3. Done(r)' = Len(issueLines'[job'[r]])
        BY <4>2 DEF Done
      <4>4. QED
        BY <1>0, <2>1, <4>1, <4>2, <4>3
    <3>3. QED
      BY <3>1, <3>2
  <2>11. Grip(r)'
    <3>1. Written(issueLines'[job'[r]], Done(r)', wrote'[r], total')
      BY <2>1, <2>7, <2>9, <2>10
    <3>2. QED
      BY <2>1, <2>3, <2>10, <3>1 DEF Grip, Posting
  <2>12. pc[r] \in Posting
    BY <2>1 DEF Posting
  <2>13. QED
    BY <2>1, <2>5, <2>6, <2>7, <2>10, <2>11, <2>12, PostingGoesOn
<1>4. ASSUME Recompute(r) PROVE SerialInv'
  <2>1. /\ pc[r] = "recompute" /\ pc' = [pc EXCEPT ![r] = "commit"]
        /\ verdict' = [verdict EXCEPT ![r] = Verdict(For[job[r]], Totals(r))]
        /\ UNCHANGED <<onHand, ledger, reqStatus, asked, total, issueStatus, issueLines>>
        /\ UNCHANGED <<seen, pend, rows, closed, job, goal, known, wrote, idx>>
    BY <1>4 DEF Recompute, committed, uncommitted, requisitions, issues
  <2>2. pc'[r] = "commit" /\ \A q \in Requests : q # r => pc'[q] = pc[q]
    BY <1>0, <2>1
  <2>3. verdict'[r] = Verdict(For[job[r]], Totals(r))
    BY <2>1 DEF Inv, HeldOK
  <2>4. Verdict(For[job[r]], Totals(r))' = Verdict(For[job[r]], Totals(r))
    BY <2>1 DEF Verdict, Totals
  <2>5. Done(r)' = Done(r) /\ Grip(r)
    BY <2>1, <2>2 DEF Done, SerialInv
  <2>6. Grip(r)'
    BY <2>1, <2>2, <2>3, <2>4, <2>5 DEF Grip, Posting
  <2>7. QED
    BY <2>1, <2>2, <2>6, PostingGoesOn DEF Posting, SerialInv, Books, RowsAgree
<1>5. QED
  BY <1>1, <1>2, <1>3, <1>4

\* A commit adds to every total what the issue takes, and its verdict counts.
LEMMA SerialEnd ==
  ASSUME Inv, SerialInv, Inv', Solo', NEW r \in Requests,
         \A q \in Requests : q # r => pc[q] = "idle",
         Commit(r) \/ RefusePost(r) \/ Abort(r)
  PROVE  SerialInv'
<1>1. ASSUME Commit(r) PROVE SerialInv'
  <2>0. PICK i, q : i = job[r] /\ q = For[i]
    OBVIOUS
  <2> DEFINE ls == issueLines[i]
             w == wrote[r]
  <2>1. /\ pc[r] = "commit" /\ CommitRows(r) /\ Return(r)
        /\ total' = Totals(r)
        /\ issueStatus' = [issueStatus EXCEPT ![i] = "POSTED"]
        /\ reqStatus' = [reqStatus EXCEPT ![q] = verdict[r]]
        /\ UNCHANGED asked /\ UNCHANGED issueLines
    BY <1>1, <2>0 DEF Commit
  <2>2. i \in Issues /\ ls \in PicksOf(i) /\ q \in Requisitions
    BY <2>0, <2>1, LinesAssumption DEF Inv, WellFormed, StoredOK, Posting
  <2>3. Grip(r) /\ Done(r) = Len(ls)
    BY <2>0, <2>1 DEF SerialInv, Done
  <2>4. /\ issueStatus[i] = "DRAFT" /\ Written(ls, Len(ls), w, total)
        /\ verdict[r] = Verdict(q, Totals(r))
    BY <2>0, <2>1, <2>3 DEF Grip, Posting
  <2>5. RowsAgree'
    BY <2>1 DEF CommitRows, Forget, Inv, RowsTypeOK, SerialInv, Books, RowsAgree, Zero
  <2>6. /\ DOMAIN ls = 1 .. Len(ls)
        /\ \A k \in DOMAIN ls : ls[k] \in IssueLine /\ Owner[ls[k].line] = q
    <3> HIDE DEF ls
    <3>1. ls \in Seq(IssueLine) /\ \A k \in 1 .. Len(ls) : ls[k] \in IssueLine
                                                       /\ Owner[ls[k].line] = For[i]
      BY <2>2, PickTyping
    <3>2. QED
      BY <2>0, <3>1
  <2>7. \A l \in Lines : total'[l] = IF l \in DOMAIN w THEN w[l] ELSE total[l]
    BY <2>1 DEF Totals
  <2> HIDE DEF ls, w
  <2>8. /\ issueStatus'[i] = "POSTED" /\ \A j \in Issues : j # i => issueStatus'[j] = issueStatus[j]
        /\ reqStatus'[q] = verdict[r]
        /\ \A p \in Requisitions : p # q => reqStatus'[p] = reqStatus[p]
    BY <2>1, <2>2 DEF Inv, StoredOK
  <2>9. Posted' = Posted \cup {i} /\ i \notin Posted
    BY <2>2, <2>4, <2>8 DEF Posted
  <2>10. ASSUME NEW l \in Lines, \A j \in Posted' : NamesOnce(j, l)'
         PROVE  total'[l] = IssuedFrom(l)'
    <3>1. \A j \in Posted \cup {i} : NamesOnce(j, l)
      BY <2>1, <2>9, <2>10 DEF NamesOnce
    <3>2. IssuedFrom(l)' = IssuedFrom(l) + Takes(i, l)
      BY <2>1, <2>2, <2>9, IssuedMore
    <3>3. total[l] = IssuedFrom(l) /\ total[l] \in Int
      BY <3>1 DEF SerialInv, Books, TotalsAgree, Inv, StoredOK
    <3>4. /\ \A k \in DOMAIN ls : ls[k].line = l => Takes(i, l) = ls[k].qty
          /\ (\A k \in DOMAIN ls : ls[k].line # l) => Takes(i, l) = 0
      BY <2>2, <3>1, TakesOne DEF ls
    <3>5. CASE l \in DOMAIN w
      <4>1. PICK k \in 1 .. Len(ls) : ls[k].line = l /\ w[l] = total[l] + ls[k].qty
        BY <2>4, <3>5 DEF Written
      <4>2. Takes(i, l) = ls[k].qty
        BY <2>6, <3>4, <4>1
      <4>3. total'[l] = w[l]
        BY <2>7, <3>5
      <4>4. QED
        BY <3>2, <3>3, <4>1, <4>2, <4>3
    <3>6. CASE l \notin DOMAIN w
      <4>1. \A k \in DOMAIN ls : ls[k].line # l
        BY <2>4, <2>6, <3>6 DEF Written
      <4>2. total'[l] = total[l] /\ Takes(i, l) = 0
        BY <2>7, <3>4, <3>6, <4>1
      <4>3. QED
        BY <3>2, <3>3, <4>2
    <3>7. QED
      BY <3>5, <3>6
  <2>11. TotalsAgree'
    BY <2>10 DEF TotalsAgree
  <2>12. StatusAgrees'
    <3>1. reqStatus'[q] = "CLOSED" <=> Full(q)'
      BY <2>1, <2>4, <2>8 DEF Verdict, Full
    <3>2. ASSUME NEW p \in Requisitions, p # q PROVE Full(p)' <=> Full(p)
      <4>1. ASSUME NEW l \in DOMAIN asked[p] PROVE total'[l] = total[l]
        <5>1. l \in Lines /\ Owner[l] = p
          BY AskedLines
        <5>2. l \notin DOMAIN w
          BY <2>4, <2>6, <3>2, <5>1 DEF Written
        <5>3. QED
          BY <2>7, <5>1, <5>2
      <4>2. QED
        BY <2>1, <4>1 DEF Full
    <3>3. QED
      BY <2>8, <3>1, <3>2 DEF StatusAgrees, SerialInv, Books
  <2>13. IssuesServe'
    <3>1. verdict[r] # "none"
      BY <2>4 DEF Verdict
    <3>2. QED
      BY <2>0, <2>1, <2>2, <2>4, <2>8, <3>1, LinesAssumption DEF IssuesServe, SerialInv, Books
  <2>14. QED
    BY <2>1, <2>5, <2>11, <2>12, <2>13, Ends DEF Books
<1>2. ASSUME RefusePost(r) \/ Abort(r) PROVE SerialInv'
  <2>1. /\ Forget(r) /\ Return(r)
        /\ UNCHANGED <<onHand, ledger, reqStatus, asked, total, issueStatus, issueLines>>
    BY <1>2 DEF RefusePost, Abort, RollbackRows, committed, requisitions, issues
  <2>2. RowsAgree'
    BY <2>1 DEF Forget, Inv, RowsTypeOK, SerialInv, Books, RowsAgree, Zero
  <2>3. Posted' = Posted
    BY <2>1 DEF Posted
  <2>4. TotalsAgree' /\ StatusAgrees' /\ IssuesServe'
    BY <2>1, <2>3, TotalsStand, StatusStands DEF SerialInv, Books, IssuesServe
  <2>5. QED
    BY <2>1, <2>2, <2>4, Ends DEF Books
<1>3. QED
  BY <1>1, <1>2

LEMMA SerialElsewhere ==
  ASSUME Inv, SerialInv, Solo', Elsewhere, \A q \in Requests : pc[q] = "idle"
  PROVE  SerialInv'
<1>1. /\ UNCHANGED <<pend, rows, reqStatus, asked, total, issueStatus, issueLines, pc, wrote>>
      /\ \/ UNCHANGED <<onHand, ledger>>
         \/ \E c \in Cells, n \in Deliveries :
              onHand' = [onHand EXCEPT ![c] = @ + n] /\ ledger' = [ledger EXCEPT ![c] = @ + n]
  BY DEF Elsewhere, Deliver, SetClosed, committed, uncommitted, requisitions, issues, local
<1>2. \A c \in Cells : onHand'[c] = ledger'[c]
  <2>1. CASE UNCHANGED <<onHand, ledger>>
    BY <2>1 DEF SerialInv, Books, RowsAgree
  <2>2. ASSUME NEW c \in Cells, NEW n \in Deliveries,
               onHand' = [onHand EXCEPT ![c] = @ + n], ledger' = [ledger EXCEPT ![c] = @ + n]
        PROVE  \A d \in Cells : onHand'[d] = ledger'[d]
    BY <2>2 DEF SerialInv, Books, RowsAgree, Inv, RowsTypeOK
  <2>3. QED
    BY <1>1, <2>1, <2>2
<1>3. RowsAgree' /\ IssuesServe'
  BY <1>1, <1>2 DEF SerialInv, Books, RowsAgree, IssuesServe
<1>4. TotalsAgree' /\ StatusAgrees'
  <2>1. Posted' = Posted
    BY <1>1 DEF Posted
  <2>2. QED
    BY <1>1, <2>1, TotalsStand, StatusStands DEF SerialInv, Books
<1>5. \A q \in Requests : Grip(q)'
  BY <1>1 DEF SerialInv, Grip, Posting
<1>6. QED
  BY <1>3, <1>4, <1>5 DEF SerialInv, Books

LEMMA SerialInit == Init => SerialInv
<1> SUFFICES ASSUME Init PROVE SerialInv
  OBVIOUS
<1>1. Inv
  BY InvInit
<1>2. /\ \A q \in Requests : pc[q] = "idle" /\ wrote[q] = <<>>
      /\ \A q \in Requisitions : reqStatus[q] = "none"
      /\ \A i \in Issues : issueStatus[i] = "none"
      /\ \A l \in Lines : total[l] = 0
  BY DEF Init, NoTotals
<1>3. DOMAIN <<>> = {}
  OBVIOUS
<1>4. \A q \in Requests : Grip(q)
  BY <1>2, <1>3 DEF Grip, Posting
<1>5. RowsAgree
  BY DEF Init, RowsInit, RowsAgree, Zero
<1>6. TotalsAgree
  <2>1. Posted = {}
    BY <1>2 DEF Posted
  <2>2. QED
    BY <1>1, <1>2, <2>1, NothingIssued DEF TotalsAgree
<1>7. StatusAgrees /\ IssuesServe
  BY <1>2 DEF StatusAgrees, IssuesServe
<1>8. QED
  BY <1>2, <1>4, <1>5, <1>6, <1>7 DEF SerialInv, Solo, Books

LEMMA InvNext == ASSUME Inv, Next PROVE Inv'
  BY InvStep

LEMMA SerialStep ==
  ASSUME Inv, SerialInv, Next, NoteOverlap, ~overlapped'
  PROVE  SerialInv'
<1>1. Inv'
  BY InvNext
<1>2. Solo'
  BY Modes DEF SerialInv
<1>3. CASE \E r \in Requests : Arrive(r) /\ \A q \in Requests : pc[q] = "idle"
  BY <1>1, <1>2, <1>3, SerialRequisition, SerialDrafts, SerialPost DEF Arrive
<1>4. CASE \E r \in Requests : Continue(r) /\ pc[r] # "idle"
                               /\ \A q \in Requests : q # r => pc[q] = "idle"
  BY <1>1, <1>2, <1>4, SerialRequisition, SerialDrafts, SerialPost, SerialEnd DEF Continue
<1>5. CASE Elsewhere /\ \A q \in Requests : pc[q] = "idle"
  BY <1>2, <1>5, SerialElsewhere
<1>6. QED
  BY <1>3, <1>4, <1>5, Modes DEF SerialInv

LEMMA FullInit == HistoryInit => FullInv
  BY InvInit, SerialInit DEF HistoryInit, FullInv

LEMMA FullStep == FullInv /\ [HistoryNext]_<<vars, overlapped>> => FullInv'
<1> SUFFICES ASSUME FullInv, [HistoryNext]_<<vars, overlapped>> PROVE FullInv'
  OBVIOUS
<1>1. CASE HistoryNext
  <2>1. Next /\ NoteOverlap
    BY <1>1 DEF HistoryNext
  <2>2. Inv'
    BY <2>1, InvNext DEF FullInv
  <2>3. overlapped => overlapped'
    BY <2>1 DEF NoteOverlap
  <2>4. QED
    BY <2>1, <2>2, <2>3, SerialStep DEF FullInv
<1>2. CASE UNCHANGED <<vars, overlapped>>
  <2>1. UNCHANGED vars /\ UNCHANGED overlapped
    BY <1>2
  <2>2. Inv'
    BY <2>1, InvStep DEF FullInv
  <2>3. UNCHANGED <<onHand, ledger, seen, pend, rows, held, reqStatus, asked, total,
                    issueStatus, issueLines, closed, pc, job, goal, known, wrote,
                    verdict, idx>>
    BY <2>1 DEF vars, committed, uncommitted, requisitions, issues, local
  <2>4. Inv /\ SerialInv => SerialInv'
    <3> SUFFICES ASSUME Inv, SerialInv PROVE SerialInv'
      OBVIOUS
    <3>1. Posted' = Posted
      BY <2>3 DEF Posted
    <3>2. TotalsAgree' /\ StatusAgrees'
      BY <2>3, <3>1, TotalsStand, StatusStands DEF SerialInv, Books
    <3>3. Solo' /\ RowsAgree' /\ IssuesServe'
      BY <2>3 DEF SerialInv, Books, Solo, RowsAgree, IssuesServe
    <3>4. ASSUME NEW r \in Requests PROVE Grip(r)'
      <4>1. /\ Done(r)' = Done(r) /\ Visible(r, CurrentCell(r))' = Visible(r, CurrentCell(r))
            /\ Verdict(For[job[r]], Totals(r))' = Verdict(For[job[r]], Totals(r))
        BY <2>3 DEF Done, Visible, CurrentCell, CurrentLine, Totals, Verdict
      <4>2. Grip(r)
        BY DEF SerialInv
      <4>3. QED
        BY <2>3, <4>1, <4>2 DEF Grip
    <3>5. QED
      BY <3>2, <3>3, <3>4 DEF SerialInv, Books
  <2>5. QED
    BY <2>1, <2>2, <2>4 DEF FullInv
<1>3. QED
  BY <1>1, <1>2

-----------------------------------------------------------------------------
\* Stored requisitions and issues, and what requests hold, keep their types:
\* every status the services write is one the schema has.
THEOREM IssueTypeCorrect == Spec => []TypeOK
<1>1. Inv => TypeOK
  BY InvTypes
<1>2. QED
  BY InvInit, InvStep, <1>1, PTL DEF Spec

\* postIssue can never drive stock below zero, however many posts of the same
\* stock overlap, crash or are rolled back: the balance a post overwrites is
\* one it has found sufficient.
THEOREM StockIsNeverNegative == Spec => []StockNeverNegative
<1>1. Inv => StockNeverNegative
  BY DEF Inv, LocksHold, StockNeverNegative
<1>2. QED
  BY InvInit, InvStep, <1>1, PTL DEF Spec

\* What the run checks at every state of any interleaving (issue.service.js:
\* 118-215 and the handlers beside it), for every value of the constants.
THEOREM IssuesAreConsistent == Spec => []Consistent
BY IssueTypeCorrect, StockIsNeverNegative, PTL DEF Consistent

\* As long as no two requests have overlapped, stock is what its ledger says,
\* line totals are what the posted issues took, and a requisition is closed
\* exactly when complete (postIssue, issue.service.js:118-215, with the
\* handlers that may change what it reads).
THEOREM IssueBooksAgree == HistorySpec => []BooksAgree
<1>1. FullInv => BooksAgree
  BY DEF FullInv, SerialInv, Books, BooksAgree, Alone, RowsAgree, TotalsAgree, StatusAgrees, Full
<1>2. QED
  BY FullInit, FullStep, <1>1, PTL DEF HistorySpec

\* The step of the only request in progress overlaps with nothing.
LEMMA StepCovered ==
  ASSUME Inv, SerialInv, Next
  PROVE  /\ \A i \in Issues :
              /\ issueStatus[i] = "POSTED" => issueStatus'[i] = "POSTED"
              /\ issueStatus[i] # "POSTED" /\ issueStatus'[i] = "POSTED" =>
                   ~closed /\ reqStatus[For[i]] \in Issuable
         /\ \A q \in Requisitions :
              reqStatus[q] \notin {"none", "DRAFT"} => UNCHANGED asked[q]
<1> DEFINE Stays == UNCHANGED issueStatus /\ UNCHANGED asked
<1>0. /\ issueStatus \in [Issues -> IssueStatuses]
      /\ asked = [q \in Requisitions |-> asked[q]]
  BY DEF Inv, StoredOK, Domains
<1>1. ASSUME NEW r \in Requests, NEW q \in Requisitions, CreateRequisition(r, q)
      PROVE  /\ reqStatus[q] = "none" /\ UNCHANGED issueStatus
             /\ \A p \in Requisitions : p # q => asked'[p] = asked[p]
  BY <1>0, <1>1 DEF CreateRequisition, SetLines, issues
<1>2. ASSUME NEW r \in Requests, NEW i \in Issues, CreateIssue(r, i)
      PROVE  /\ issueStatus[i] = "none" /\ issueStatus'[i] = "DRAFT" /\ UNCHANGED asked
             /\ \A j \in Issues : j # i => issueStatus'[j] = issueStatus[j]
  BY <1>0, <1>2 DEF CreateIssue, requisitions
<1>3. ASSUME NEW r \in Requests,
             \/ \E q \in Requisitions : BeginDecision(r, q) \/ BeginEdit(r, q)
             \/ \E i \in Issues : BeginDelete(r, i) \/ BeginPost(r, i)
             \/ FinishDecision(r) \/ ReadBalance(r) \/ WriteLine(r) \/ Recompute(r)
             \/ RefusePost(r) \/ Abort(r)
      PROVE  Stays
  BY <1>3 DEF BeginDecision, BeginEdit, BeginDelete, BeginPost, FinishDecision, ReadBalance,
              WriteLine, Recompute, RefusePost, Abort, requisitions, issues
<1>4. ASSUME Elsewhere PROVE Stays
  BY <1>4 DEF Elsewhere, Deliver, SetClosed, requisitions, issues
<1>5. ASSUME NEW r \in Requests, FinishEdit(r)
      PROVE  /\ UNCHANGED issueStatus /\ reqStatus[job[r]] = "DRAFT"
             /\ \A p \in Requisitions : p # job[r] => asked'[p] = asked[p]
  BY <1>0, <1>5 DEF FinishEdit, SetLines, issues, SerialInv, Grip
<1>6. ASSUME NEW r \in Requests, FinishDelete(r)
      PROVE  /\ UNCHANGED asked /\ issueStatus[job[r]] = "DRAFT"
             /\ issueStatus' = [issueStatus EXCEPT ![job[r]] = "deleted"]
  BY <1>6 DEF FinishDelete, requisitions, SerialInv, Grip
<1>7. ASSUME NEW r \in Requests, Commit(r)
      PROVE  /\ UNCHANGED asked /\ ~closed /\ reqStatus[For[job[r]]] \in Issuable
             /\ issueStatus' = [issueStatus EXCEPT ![job[r]] = "POSTED"]
  BY <1>7 DEF Commit, SerialInv, Grip, Posting
<1>8. CASE \E r \in Requests, q \in Requisitions : CreateRequisition(r, q)
  BY <1>1, <1>8
<1>9. CASE \E r \in Requests, i \in Issues : CreateIssue(r, i)
  BY <1>2, <1>9
<1>10. CASE Stays
  BY <1>10
<1>11. CASE \E r \in Requests : FinishEdit(r) \/ FinishDelete(r) \/ Commit(r)
  BY <1>0, <1>5, <1>6, <1>7, <1>11
<1> HIDE DEF Stays
<1>12. QED
  BY <1>3, <1>4, <1>8, <1>9, <1>10, <1>11 DEF Next, Arrive, Continue

\* As long as no two requests have overlapped, a posted issue stays, it is
\* posted in an open month for a requisition that was approved, and what was
\* submitted is not changed any more (deleteIssue, postIssue,
\* updateRequisition).
THEOREM IssuesStayCovered == HistorySpec => IssuesAreCovered
<1>1. FullInv /\ FullInv' /\ [HistoryNext]_<<vars, overlapped>> =>
        [Alone(
       /\ \A i \in Issues :
            /\ issueStatus[i] = "POSTED" => issueStatus'[i] = "POSTED"
            /\ issueStatus[i] # "POSTED" /\ issueStatus'[i] = "POSTED" =>
                 ~closed /\ reqStatus[For[i]] \in Issuable
       /\ \A q \in Requisitions :
            reqStatus[q] \notin {"none", "DRAFT"} => UNCHANGED asked[q])]_vars
  <2> HIDE DEF vars
  <2>1. QED
    BY StepCovered DEF FullInv, Alone, HistoryNext
<1>2. QED
  BY FullInit, FullStep, <1>1, PTL DEF HistorySpec, IssuesAreCovered
=============================================================================
