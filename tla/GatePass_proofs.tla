--------------------------- MODULE GatePass_proofs ---------------------------
(***************************************************************************)
(* Proofs about gate passes for every set of balances, passes, forms,      *)
(* counts and requests.                                                    *)
(***************************************************************************)
EXTENDS GatePass, Sums_proofs

Job == [pass : Passes \cup {NoPass}, seen : Pass, role : Roles, form : Form, count : Count]

StockTypeOK ==
  /\ onHand \in [Cells -> Int] /\ blocked \in [Cells -> Int] /\ ledger \in [Cells -> Int]
  /\ claims \in [Cells -> Nat] /\ charged \in [Cells -> Nat]

\* A request that has begun knows its pass; one that signs has read a status
\* that has a next one; a receipt is of no more than was shipped.
RequestOK(r) ==
  /\ pc[r] # "idle" => job[r].pass \in Passes
  /\ pc[r] = "sign" => job[r].seen.status \in DOMAIN Below
  /\ pc[r] = "receipt" => job[r].count.good <= job[r].seen.qty

\* The inductive invariant.
Inv == TypeOK /\ (\A r \in Requests : RequestOK(r)) /\ StockIsBooked

-----------------------------------------------------------------------------
(* What the helpers return. *)

LEMMA StatusNames ==
  /\ DOMAIN STEP_ROLE = {"PENDING_DEPT", "PENDING_COST_CONTROL", "PENDING_FINANCE", "PENDING_GM",
                         "PENDING_SECURITY"}
  /\ DOMAIN Below = {"PENDING_DEPT", "PENDING_COST_CONTROL", "PENDING_FINANCE", "PENDING_GM"}
  /\ DOMAIN STEP_ROLE \subseteq Statuses
  /\ {"none", "DRAFT", "OUT", "RECEIVED_AT_DESTINATION", "RETURNING", "RETURN_RECEIVED_AT_GATE",
      "PARTIALLY_RETURNED", "RETURNED", "CLOSED", "REJECTED", "deleted"} \subseteq Statuses
  BY DEF STEP_ROLE, Below, Statuses

LEMMA TotalTyping ==
  ASSUME NEW n \in Count
  PROVE  Total(n) \in Nat /\ Bad(n) \in Nat /\ Total(n) = n.good + Bad(n) /\ n.good \in Nat
  BY DEF Count, Total, Bad

LEMMA WrittenTyping ==
  ASSUME NEW f \in Form, NEW s \in Statuses, NEW n \in Nat
  PROVE  Written(f, s, n) \in Pass
  BY DEF Form, Written, Pass, NotConfirmed

LEMMA NeutralTyping == Blank \in Form /\ Nothing \in Count /\ NoJob \in Job
<1>1. Blank \in Form /\ Nothing \in Count
  BY GatePassAssumption DEF Blank, Form, Kinds, Nothing, Count
<1>2. Written(Blank, "none", 0) \in Pass
  BY <1>1, WrittenTyping, StatusNames
<1>3. "STOREKEEPER" \in Roles
  BY DEF Roles
<1> QED
  BY <1>1, <1>2, <1>3 DEF NoJob, Job

\* What requests write into a pass leaves it one.
LEMMA PassTyping ==
  ASSUME NEW g \in Pass
  PROVE  /\ \A s \in Statuses : [g EXCEPT !.status = s] \in Pass
         /\ \A S \in SUBSET Signatures : [g EXCEPT !.signed = S] \in Pass
         /\ \A x \in BOOLEAN : /\ [g EXCEPT !.gateIn = x] \in Pass
                               /\ [g EXCEPT !.accepted = x] \in Pass
                               /\ [g EXCEPT !.gateOut = x] \in Pass
         /\ \A n \in Nat : [g EXCEPT !.back = n] \in Pass
         /\ \A n \in Nat \cup {NotConfirmed} : [g EXCEPT !.received = n] \in Pass
  BY DEF Pass

LEMMA EditTyping ==
  ASSUME NEW g \in Pass, NEW f \in Form
  PROVE  [g EXCEPT !.kind = f.kind, !.internal = f.internal, !.cell = f.cell, !.qty = f.qty,
                   !.back = 0, !.received = NotConfirmed, !.edition = @ + 1] \in Pass
<1>1. f.kind \in Kinds /\ f.internal \in BOOLEAN /\ f.cell \in Cells /\ f.qty \in Nat
  BY DEF Form
<1>2. g.edition + 1 \in Nat
  BY DEF Pass
<1>3. [g EXCEPT !.kind = f.kind, !.internal = f.internal, !.cell = f.cell, !.qty = f.qty] \in Pass
  BY <1>1 DEF Pass
<1>4. \A h \in Pass : h.edition + 1 \in Nat =>
        [h EXCEPT !.back = 0, !.received = NotConfirmed, !.edition = @ + 1] \in Pass
  BY DEF Pass
<1>5. [g EXCEPT !.kind = f.kind, !.internal = f.internal, !.cell = f.cell, !.qty = f.qty].edition
        = g.edition
  BY DEF Pass
<1>6. [g EXCEPT !.kind = f.kind, !.internal = f.internal, !.cell = f.cell, !.qty = f.qty,
                !.back = 0, !.received = NotConfirmed, !.edition = @ + 1]
        = [[g EXCEPT !.kind = f.kind, !.internal = f.internal, !.cell = f.cell, !.qty = f.qty]
             EXCEPT !.back = 0, !.received = NotConfirmed, !.edition = @ + 1]
  BY DEF Pass
<1> QED
  BY <1>2, <1>3, <1>4, <1>5, <1>6

LEMMA FieldTyping ==
  ASSUME NEW g \in Pass
  PROVE  /\ g.status \in Statuses /\ g.kind \in Kinds /\ g.cell \in Cells /\ g.qty \in Nat
         /\ g.edition \in Nat /\ g.back \in Nat /\ g.received \in Nat \cup {NotConfirmed}
         /\ g.signed \in SUBSET Signatures /\ Received(g) \in Nat
  BY DEF Pass, Received

LEMMA JobFields ==
  ASSUME NEW j \in Job
  PROVE  /\ j.pass \in Passes \cup {NoPass} /\ j.seen \in Pass /\ j.role \in Roles
         /\ j.form \in Form /\ j.count \in Count
  BY DEF Job

LEMMA OnTyping ==
  ASSUME NEW p \in Passes
  PROVE  /\ On(p) \in Job /\ On(p).pass = p
         /\ \A f \in Form : /\ [On(p) EXCEPT !.form = f] \in Job
                            /\ [On(p) EXCEPT !.form = f].pass = p
         /\ \A role \in Roles : /\ [On(p) EXCEPT !.role = role] \in Job
                                /\ [On(p) EXCEPT !.role = role].pass = p
  BY NeutralTyping DEF On, Job

LEMMA HavingTyping ==
  ASSUME TypeOK, NEW p \in Passes
  PROVE  /\ Having(p) \in Job /\ Having(p).pass = p /\ Having(p).seen = pass[p]
         /\ \A n \in Count : LET j == [Having(p) EXCEPT !.count = n]
                             IN  j \in Job /\ j.pass = p /\ j.seen = pass[p] /\ j.count = n
<1>1. pass[p] \in Pass
  BY DEF TypeOK
<1> QED
  BY <1>1, NeutralTyping DEF On, Having, Job

-----------------------------------------------------------------------------
(* How a request begins, and how it ends. *)

LEMMA InvTypes ==
  ASSUME Inv
  PROVE  /\ TypeOK /\ StockIsBooked /\ StockTypeOK
         /\ pass \in [Passes -> Pass] /\ book \in [Passes -> Book]
         /\ pc \in [Requests -> Steps] /\ job \in [Requests -> Job] /\ closed \in BOOLEAN
         /\ \A r \in Requests : job[r] \in Job /\ RequestOK(r)
  BY DEF Inv, TypeOK, StockTypeOK, Job

LEMMA TakeKeeps ==
  ASSUME Inv, NEW r \in Requests, NEW step \in Steps \ {"idle"}, NEW j \in Job,
         j.pass \in Passes,
         step = "sign" => j.seen.status \in DOMAIN Below,
         step = "receipt" => j.count.good <= j.seen.qty,
         Take(r, step, j)
  PROVE  Inv'
<1>1. UNCHANGED <<stock, pass, book, closed>>
  BY DEF Take
<1>2. pc' \in [Requests -> Steps] /\ job' \in [Requests -> Job]
  BY InvTypes DEF Take
<1>3. ASSUME NEW q \in Requests PROVE RequestOK(q)'
  <2>1. CASE q = r
    BY <2>1, InvTypes DEF Take, RequestOK
  <2>2. CASE q # r
    <3>1. pc'[q] = pc[q] /\ job'[q] = job[q]
      BY <2>2, InvTypes DEF Take
    <3> QED
      BY <3>1, InvTypes DEF RequestOK
  <2> QED
    BY <2>1, <2>2
<1>4. StockTypeOK' /\ StockIsBooked' /\ pass' \in [Passes -> Pass] /\ book' \in [Passes -> Book]
      /\ closed' \in BOOLEAN
  BY <1>1, InvTypes DEF stock, StockTypeOK, StockIsBooked
<1> QED
  BY <1>2, <1>3, <1>4 DEF Inv, TypeOK, StockTypeOK, Job

LEMMA AnswerKeeps ==
  ASSUME Inv, NEW r \in Requests, Answer(r), StockTypeOK', StockIsBooked',
         pass' \in [Passes -> Pass], book' \in [Passes -> Book]
  PROVE  Inv'
<1>1. "idle" \in Steps
  BY DEF Steps
<1>2. pc' \in [Requests -> Steps] /\ job' \in [Requests -> Job] /\ closed' \in BOOLEAN
  BY <1>1, InvTypes, NeutralTyping DEF Answer
<1>3. ASSUME NEW q \in Requests PROVE RequestOK(q)'
  <2>1. CASE q = r
    BY <2>1, InvTypes DEF Answer, RequestOK
  <2>2. CASE q # r
    <3>1. pc'[q] = pc[q] /\ job'[q] = job[q]
      BY <2>2, InvTypes DEF Answer
    <3> QED
      BY <3>1, InvTypes DEF RequestOK
  <2> QED
    BY <2>1, <2>2
<1> QED
  BY <1>2, <1>3 DEF Inv, TypeOK, StockTypeOK, Job

LEMMA StoreTyping ==
  ASSUME Inv, NEW r \in Requests, pc[r] # "idle", NEW g \in Pass, Store(r, g)
  PROVE  pass' \in [Passes -> Pass]
  BY InvTypes DEF Store

LEMMA Working ==
  ASSUME Inv, NEW r \in Requests, pc[r] # "idle"
  PROVE  /\ job[r].pass \in Passes /\ pass[job[r].pass] \in Pass /\ book[job[r].pass] \in Book
         /\ job[r].seen \in Pass /\ job[r].form \in Form /\ job[r].count \in Count
         /\ job[r].role \in Roles
<1>1. job[r].pass \in Passes
  BY InvTypes DEF RequestOK
<1> QED
  BY <1>1, InvTypes, JobFields

\* Most answers write the pass only.
LEMMA QuietAnswer ==
  ASSUME Inv, NEW r \in Requests, pc[r] # "idle", NEW g \in Pass, Store(r, g), Answer(r),
         UNCHANGED stock, book' \in [Passes -> Book]
  PROVE  Inv'
<1>1. pass' \in [Passes -> Pass]
  BY StoreTyping
<1>2. StockTypeOK' /\ StockIsBooked'
  BY InvTypes DEF stock, StockTypeOK, StockIsBooked
<1> QED
  BY <1>1, <1>2, AnswerKeeps

-----------------------------------------------------------------------------
(* Drafts and signatures *)

LEMMA CreateKeeps ==
  ASSUME Inv, NEW r \in Requests, NEW p \in Passes, NEW f \in Forms, CreateGetPass(r, p, f)
  PROVE  Inv'
<1>1. Written(f, "DRAFT", 0) \in Pass
  BY WrittenTyping, StatusNames, GatePassAssumption
<1>2. pass' \in [Passes -> Pass]
  BY <1>1, InvTypes DEF CreateGetPass
<1>3. UNCHANGED <<stock, book, closed, pc, job>>
  BY DEF CreateGetPass
<1> QED
  BY <1>2, <1>3 DEF Inv, TypeOK, RequestOK, StockIsBooked, stock

LEMMA DraftSteps ==
  ASSUME Inv, NEW r \in Requests, NEW p \in Passes,
         \/ \E f \in Forms : BeginEdit(r, p, f)
         \/ BeginDelete(r, p) \/ BeginClose(r, p)
         \/ \E role \in Roles : BeginSubmit(r, p, role) \/ BeginReject(r, p, role) \/ BeginExit(r, p, role)
  PROVE  Inv'
<1>1. ASSUME NEW f \in Forms, BeginEdit(r, p, f) PROVE Inv'
  <2>1. f \in Form /\ "edit" \in Steps
    BY GatePassAssumption DEF Steps
  <2> QED
    BY <1>1, <2>1, OnTyping, TakeKeeps DEF BeginEdit
<1>2. CASE BeginDelete(r, p)
  <2>1. "delete" \in Steps
    BY DEF Steps
  <2> QED
    BY <1>2, <2>1, OnTyping, TakeKeeps DEF BeginDelete
<1>3. CASE BeginClose(r, p)
  <2>1. "close" \in Steps
    BY DEF Steps
  <2> QED
    BY <1>3, <2>1, OnTyping, TakeKeeps DEF BeginClose
<1>4. ASSUME NEW role \in Roles, BeginSubmit(r, p, role) PROVE Inv'
  <2>1. "submit" \in Steps
    BY DEF Steps
  <2> QED
    BY <1>4, <2>1, OnTyping, TakeKeeps DEF BeginSubmit
<1>5. ASSUME NEW role \in Roles, BeginReject(r, p, role) PROVE Inv'
  <2>1. "reject" \in Steps
    BY DEF Steps
  <2> QED
    BY <1>5, <2>1, OnTyping, TakeKeeps DEF BeginReject
<1>6. ASSUME NEW role \in Roles, BeginExit(r, p, role) PROVE Inv'
  <2>1. "exit" \in Steps
    BY DEF Steps
  <2> QED
    BY <1>6, <2>1, OnTyping, TakeKeeps DEF BeginExit
<1> QED
  BY <1>1, <1>2, <1>3, <1>4, <1>5, <1>6

LEMMA BeginSignKeeps ==
  ASSUME Inv, NEW r \in Requests, NEW p \in Passes, NEW role \in Roles, BeginSign(r, p, role)
  PROVE  Inv'
<1> DEFINE j == [On(p) EXCEPT !.seen.status = pass[p].status]
<1>1. pass[p] \in Pass /\ pass[p].status \in Statuses
  BY InvTypes, FieldTyping
<1>2. On(p) \in Job /\ On(p).seen \in Pass /\ On(p).pass = p
  BY OnTyping, JobFields
<1>3. [On(p).seen EXCEPT !.status = pass[p].status] \in Pass
  BY <1>1, <1>2, PassTyping
<1>4. j = [On(p) EXCEPT !.seen = [On(p).seen EXCEPT !.status = pass[p].status]]
  BY <1>2 DEF Job, Pass
<1>5. j \in Job /\ j.pass = p /\ j.seen.status = pass[p].status
  BY <1>2, <1>3, <1>4 DEF Job, Pass
<1>6. "sign" \in Steps
  BY DEF Steps
<1> QED
  BY <1>5, <1>6, TakeKeeps DEF BeginSign

LEMMA FinishEditKeeps == ASSUME Inv, NEW r \in Requests, FinishEdit(r) PROVE Inv'
<1> DEFINE g == pass[job[r].pass]
           f == job[r].form
           x == [g EXCEPT !.kind = f.kind, !.internal = f.internal, !.cell = f.cell,
                          !.qty = f.qty, !.back = 0, !.received = NotConfirmed, !.edition = @ + 1]
<1>1. pc[r] # "idle" /\ Store(r, x) /\ Answer(r) /\ UNCHANGED <<stock, book>>
  BY DEF FinishEdit
<1>2. g \in Pass /\ f \in Form
  BY <1>1, Working
<1>3. x \in Pass
  BY <1>2, EditTyping
<1> QED
  BY <1>1, <1>3, InvTypes, QuietAnswer

\* The answers that write a status, and what goes with it.
LEMMA FinishStatusKeeps ==
  ASSUME Inv, NEW r \in Requests,
         \/ FinishDelete(r) \/ FinishClose(r) \/ FinishReject(r) \/ FinishShipBack(r)
  PROVE  Inv'
<1> DEFINE g == pass[job[r].pass]
<1>1. pc[r] # "idle" /\ Answer(r) /\ UNCHANGED <<stock, book>>
  BY DEF FinishDelete, FinishClose, FinishReject, FinishShipBack
<1>2. g \in Pass
  BY <1>1, Working
<1>3. CASE FinishDelete(r)
  <2>1. Store(r, [g EXCEPT !.status = "deleted"])
    BY <1>3 DEF FinishDelete, SetStatus
  <2> QED
    BY <1>1, <1>2, <2>1, PassTyping, StatusNames, InvTypes, QuietAnswer
<1>4. CASE FinishClose(r)
  <2>1. Store(r, [g EXCEPT !.status = "CLOSED"])
    BY <1>4 DEF FinishClose, SetStatus
  <2> QED
    BY <1>1, <1>2, <2>1, PassTyping, StatusNames, InvTypes, QuietAnswer
<1>5. CASE FinishReject(r)
  <2> DEFINE x == [g EXCEPT !.status = "REJECTED", !.signed = {}, !.gateOut = FALSE]
  <2>1. Store(r, x)
    BY <1>5 DEF FinishReject
  <2>2. x \in Pass
    BY <1>2, StatusNames DEF Pass
  <2> QED
    BY <1>1, <2>1, <2>2, InvTypes, QuietAnswer
<1>6. CASE FinishShipBack(r)
  <2> DEFINE x == [g EXCEPT !.status = "RETURNING", !.gateOut = FALSE]
  <2>1. Store(r, x)
    BY <1>6 DEF FinishShipBack
  <2>2. x \in Pass
    BY <1>2, StatusNames DEF Pass
  <2> QED
    BY <1>1, <2>1, <2>2, InvTypes, QuietAnswer
<1> QED
  BY <1>3, <1>4, <1>5, <1>6

LEMMA FinishSubmitKeeps == ASSUME Inv, NEW r \in Requests, FinishSubmit(r) PROVE Inv'
<1> DEFINE g == pass[job[r].pass]
           s == SubmittedBy(job[r].role)
           x == [g EXCEPT !.status = s.status, !.signed = @ \cup s.signed]
<1>1. pc[r] # "idle" /\ Store(r, x) /\ Answer(r) /\ UNCHANGED <<stock, book>>
  BY DEF FinishSubmit
<1>2. g \in Pass
  BY <1>1, Working
<1>3. s.status \in Statuses /\ s.signed \subseteq Signatures
  BY StatusNames DEF SubmittedBy, Signatures, IsAdmin
<1>4. x \in Pass
  BY <1>2, <1>3 DEF Pass
<1> QED
  BY <1>1, <1>4, InvTypes, QuietAnswer

LEMMA FinishSignKeeps == ASSUME Inv, NEW r \in Requests, FinishSign(r) PROVE Inv'
<1> DEFINE g == pass[job[r].pass]
           s == Below[job[r].seen.status]
           x == [g EXCEPT !.status = s.status, !.signed = @ \cup {s.signed}]
<1>1. pc[r] = "sign" /\ Store(r, x) /\ Answer(r) /\ UNCHANGED <<stock, book>>
  BY DEF FinishSign
<1>2. g \in Pass
  BY <1>1, Working
<1>3. job[r].seen.status \in DOMAIN Below
  BY <1>1, InvTypes DEF RequestOK
<1>4. s.status \in Statuses /\ s.signed \in Signatures
  BY <1>3, StatusNames DEF Below, Signatures
<1>5. x \in Pass
  BY <1>2, <1>4 DEF Pass
<1> QED
  BY <1>1, <1>5, InvTypes, QuietAnswer

-----------------------------------------------------------------------------
(* Exit *)

LEMMA LookExitKeeps == ASSUME Inv, NEW r \in Requests, LookExit(r) PROVE Inv'
<1> DEFINE p == job[r].pass
<1>1. pc[r] # "idle" /\ UNCHANGED <<stock, pass, book, closed>>
      /\ pc' = [pc EXCEPT ![r] = "move out"] /\ job' = [job EXCEPT ![r].seen = pass[p]]
  BY DEF LookExit
<1>2. p \in Passes /\ pass[p] \in Pass
  BY <1>1, Working
<1>3. "move out" \in Steps
  BY DEF Steps
<1>4. pc' \in [Requests -> Steps] /\ job' \in [Requests -> Job]
  BY <1>1, <1>2, <1>3, InvTypes DEF Job
<1>5. ASSUME NEW q \in Requests PROVE RequestOK(q)'
  <2>1. CASE q = r
    <3>1. job[r] \in Job /\ job'[r] = [job[r] EXCEPT !.seen = pass[p]] /\ pc'[r] = "move out"
      BY <1>1, InvTypes
    <3>2. job'[r].pass = p
      BY <3>1 DEF Job
    <3> QED
      BY <2>1, <3>1, <3>2, <1>2 DEF RequestOK
  <2>2. CASE q # r
    <3>1. pc'[q] = pc[q] /\ job'[q] = job[q]
      BY <2>2, <1>1, InvTypes
    <3> QED
      BY <3>1, InvTypes DEF RequestOK
  <2> QED
    BY <2>1, <2>2
<1>6. StockTypeOK' /\ StockIsBooked' /\ pass' \in [Passes -> Pass] /\ book' \in [Passes -> Book]
      /\ closed' \in BOOLEAN
  BY <1>1, InvTypes DEF stock, StockTypeOK, StockIsBooked
<1> QED
  BY <1>4, <1>5, <1>6 DEF Inv, TypeOK, StockTypeOK, Job

\* What leaves is no longer available: blocked for a loan, gone for good.
LEMMA LeaveKeeps ==
  ASSUME Inv, NEW g \in Pass, Leave(g)
  PROVE  StockTypeOK' /\ StockIsBooked'
<1>1. g.cell \in Cells /\ g.qty \in Nat
  BY FieldTyping
<1>2. StockTypeOK /\ StockIsBooked
  BY InvTypes
<1>3. CASE g.kind \in Reversible
  <2>1. blocked' = [blocked EXCEPT ![g.cell] = @ + g.qty] /\ onHand' = onHand
        /\ ledger' = [ledger EXCEPT ![g.cell] = @ - g.qty] /\ claims' = claims /\ charged' = charged
    BY <1>3 DEF Leave
  <2>2. StockTypeOK'
    BY <1>1, <1>2, <2>1 DEF StockTypeOK
  <2>3. ASSUME NEW c \in Cells PROVE (onHand[c] - blocked[c] = ledger[c] + charged[c])'
    <3>1. onHand[c] - blocked[c] = ledger[c] + charged[c] /\ onHand[c] \in Int /\ blocked[c] \in Int
          /\ ledger[c] \in Int /\ charged[c] \in Nat
      BY <1>2 DEF StockTypeOK, StockIsBooked
    <3>2. CASE c = g.cell
      <4>1. onHand'[c] = onHand[c] /\ blocked'[c] = blocked[c] + g.qty /\ ledger'[c] = ledger[c] - g.qty
            /\ charged'[c] = charged[c]
        BY <1>1, <1>2, <2>1, <3>2 DEF StockTypeOK
      <4> QED
        BY <1>1, <3>1, <4>1
    <3>3. CASE c # g.cell
      <4>1. onHand'[c] = onHand[c] /\ blocked'[c] = blocked[c] /\ ledger'[c] = ledger[c]
            /\ charged'[c] = charged[c]
        BY <1>1, <1>2, <2>1, <3>3 DEF StockTypeOK
      <4> QED
        BY <3>1, <4>1
    <3> QED
      BY <3>2, <3>3
  <2> QED
    BY <2>2, <2>3 DEF StockIsBooked
<1>4. CASE g.kind \notin Reversible
  <2>1. onHand' = [onHand EXCEPT ![g.cell] = @ - g.qty] /\ blocked' = blocked
        /\ ledger' = [ledger EXCEPT ![g.cell] = @ - g.qty] /\ claims' = claims /\ charged' = charged
    BY <1>4 DEF Leave
  <2>2. StockTypeOK'
    BY <1>1, <1>2, <2>1 DEF StockTypeOK
  <2>3. ASSUME NEW c \in Cells PROVE (onHand[c] - blocked[c] = ledger[c] + charged[c])'
    <3>1. onHand[c] - blocked[c] = ledger[c] + charged[c] /\ onHand[c] \in Int /\ blocked[c] \in Int
          /\ ledger[c] \in Int /\ charged[c] \in Nat
      BY <1>2 DEF StockTypeOK, StockIsBooked
    <3>2. CASE c = g.cell
      <4>1. onHand'[c] = onHand[c] - g.qty /\ blocked'[c] = blocked[c] /\ ledger'[c] = ledger[c] - g.qty
            /\ charged'[c] = charged[c]
        BY <1>1, <1>2, <2>1, <3>2 DEF StockTypeOK
      <4> QED
        BY <1>1, <3>1, <4>1
    <3>3. CASE c # g.cell
      <4>1. onHand'[c] = onHand[c] /\ blocked'[c] = blocked[c] /\ ledger'[c] = ledger[c]
            /\ charged'[c] = charged[c]
        BY <1>1, <1>2, <2>1, <3>3 DEF StockTypeOK
      <4> QED
        BY <3>1, <4>1
    <3> QED
      BY <3>2, <3>3
  <2> QED
    BY <2>2, <2>3 DEF StockIsBooked
<1> QED
  BY <1>3, <1>4

LEMMA BookTyping ==
  ASSUME Inv, NEW p \in Passes
  PROVE  /\ \A n \in Nat : /\ [book EXCEPT ![p].out = @ + n] \in [Passes -> Book]
                           /\ [book EXCEPT ![p].released = @ + n] \in [Passes -> Book]
                           /\ [book EXCEPT ![p].arrived = @ + n] \in [Passes -> Book]
                           /\ [book EXCEPT ![p].missing = @ + n] \in [Passes -> Book]
  BY InvTypes DEF Book

LEMMA CustodyTyping ==
  ASSUME Inv, NEW p \in Passes, NEW n \in Nat
  PROVE  /\ [book EXCEPT ![p].custody = @ + n] \in [Passes -> Book]
         /\ [book EXCEPT ![p].custody = @ - n] \in [Passes -> Book]
<1>1. book \in [Passes -> Book] /\ book[p].custody + n \in Int /\ book[p].custody - n \in Int
  BY InvTypes DEF Book
<1> QED
  BY <1>1 DEF Book

LEMMA FinishExitKeeps == ASSUME Inv, NEW r \in Requests, FinishExit(r) PROVE Inv'
<1> DEFINE p == job[r].pass
           g == job[r].seen
           status == IF g.kind = "PERMANENT" /\ ~g.internal THEN "CLOSED" ELSE "OUT"
           x == [pass[p] EXCEPT !.signed = @ \cup {"SECURITY"}, !.status = status]
<1>1. pc[r] # "idle" /\ Leave(g) /\ Store(r, x) /\ Answer(r)
      /\ book' = [book EXCEPT ![p].out = @ + g.qty]
  BY DEF FinishExit
<1>2. p \in Passes /\ pass[p] \in Pass /\ g \in Pass
  BY <1>1, Working
<1>3. status \in Statuses /\ "SECURITY" \in Signatures
  BY StatusNames DEF Signatures
<1>4. \A h \in Pass, s \in Statuses : "SECURITY" \in Signatures =>
        [h EXCEPT !.signed = @ \cup {"SECURITY"}, !.status = s] \in Pass
  BY DEF Pass
<1>5. pass' \in [Passes -> Pass]
  BY <1>1, <1>2, <1>3, <1>4, StoreTyping
<1>6. book' \in [Passes -> Book]
  BY <1>1, <1>2, FieldTyping, BookTyping
<1>7. StockTypeOK' /\ StockIsBooked'
  BY <1>1, <1>2, LeaveKeeps
<1> QED
  BY <1>1, <1>5, <1>6, <1>7, AnswerKeeps

-----------------------------------------------------------------------------
(* Returns at the desk *)

LEMMA BeginCountKeeps ==
  ASSUME Inv, NEW r \in Requests, NEW p \in Passes, NEW n \in Counts,
         \/ BeginReturn(r, p, n) \/ BeginReceipt(r, p, n)
         \/ \E role \in Roles : BeginArrival(r, p, role, n) \/ BeginTakeBack(r, p, role, n)
  PROVE  Inv'
<1> DEFINE j == [Having(p) EXCEPT !.count = n]
<1>1. n \in Count
  BY GatePassAssumption
<1>2. j \in Job /\ j.pass = p /\ j.seen = pass[p] /\ j.count = n
  BY <1>1, InvTypes, HavingTyping
<1>3. {"return", "receipt", "arrival", "take back"} \subseteq Steps
  BY DEF Steps
<1> HIDE DEF j
<1>4. CASE BeginReturn(r, p, n)
  <2>1. Take(r, "return", j)
    BY <1>4 DEF BeginReturn, j
  <2> QED
    BY <1>2, <1>3, <2>1, TakeKeeps
<1>5. CASE BeginReceipt(r, p, n)
  <2>1. Take(r, "receipt", j) /\ n.good <= pass[p].qty
    BY <1>5 DEF BeginReceipt, j
  <2> QED
    BY <1>2, <1>3, <2>1, TakeKeeps
<1>6. ASSUME NEW role \in Roles, BeginArrival(r, p, role, n) PROVE Inv'
  <2>1. Take(r, "arrival", j)
    BY <1>6 DEF BeginArrival, j
  <2> QED
    BY <1>2, <1>3, <2>1, TakeKeeps
<1>7. ASSUME NEW role \in Roles, BeginTakeBack(r, p, role, n) PROVE Inv'
  <2>1. Take(r, "take back", j)
    BY <1>7 DEF BeginTakeBack, j
  <2> QED
    BY <1>2, <1>3, <2>1, TakeKeeps
<1> QED
  BY <1>4, <1>5, <1>6, <1>7

LEMMA LookReturnKeeps == ASSUME Inv, NEW r \in Requests, LookReturn(r) PROVE Inv'
<1> DEFINE g == pass[job[r].pass]
           old == job[r].seen
           n == IF g.edition = old.edition THEN job[r].count ELSE Nothing
           h == [g EXCEPT !.status = old.status]
           j == [job[r] EXCEPT !.seen = h, !.count = n]
<1>1. pc[r] # "idle" /\ UNCHANGED <<stock, pass, book, closed>>
      /\ pc' = [pc EXCEPT ![r] = "take in"] /\ job' = [job EXCEPT ![r].seen = h, ![r].count = n]
  BY DEF LookReturn
<1>2. job[r].pass \in Passes /\ g \in Pass /\ old \in Pass /\ n \in Count /\ job[r] \in Job
  BY <1>1, Working, NeutralTyping, InvTypes
<1>3. h \in Pass
  BY <1>2, FieldTyping, PassTyping
<1> HIDE DEF g, old, n, h
<1>4. j \in Job /\ j.pass = job[r].pass
  BY <1>2, <1>3 DEF Job
<1>5. job' = [job EXCEPT ![r] = j]
  BY <1>1, <1>2, InvTypes DEF Job
<1>6. "take in" \in Steps
  BY DEF Steps
<1>7. pc' \in [Requests -> Steps] /\ job' \in [Requests -> Job]
  BY <1>1, <1>4, <1>5, <1>6, InvTypes
<1>8. ASSUME NEW q \in Requests PROVE RequestOK(q)'
  <2>1. CASE q = r
    <3>1. pc'[r] = "take in" /\ job'[r] = j
      BY <1>1, <1>5, InvTypes
    <3> QED
      BY <2>1, <3>1, <1>2, <1>4 DEF RequestOK
  <2>2. CASE q # r
    <3>1. pc'[q] = pc[q] /\ job'[q] = job[q]
      BY <2>2, <1>1, <1>5, InvTypes
    <3> QED
      BY <3>1, InvTypes DEF RequestOK
  <2> QED
    BY <2>1, <2>2
<1>9. StockTypeOK' /\ StockIsBooked' /\ pass' \in [Passes -> Pass] /\ book' \in [Passes -> Book]
      /\ closed' \in BOOLEAN
  BY <1>1, InvTypes DEF stock, StockTypeOK, StockIsBooked
<1> QED
  BY <1>7, <1>8, <1>9 DEF Inv, TypeOK, StockTypeOK, Job

\* What is released is available again if it is good, and gone otherwise: the
\* ledger has taken it back as good, or had booked it out when it left.
LEMMA ReleaseKeeps ==
  ASSUME Inv, NEW g \in Pass, NEW n \in Count, Release(g, n), claims' \in [Cells -> Nat]
  PROVE  StockTypeOK' /\ StockIsBooked'
<1>1. g.cell \in Cells
  BY FieldTyping
<1>2. Total(n) \in Nat /\ Bad(n) \in Nat /\ Total(n) = n.good + Bad(n) /\ n.good \in Nat
  BY TotalTyping
<1>3. StockTypeOK /\ StockIsBooked
  BY InvTypes
<1>4. /\ blocked' = [blocked EXCEPT ![g.cell] = @ - Total(n)]
      /\ onHand' = [onHand EXCEPT ![g.cell] = @ - Bad(n)]
      /\ ledger' = [ledger EXCEPT ![g.cell] = @ + n.good]
      /\ charged' = charged
  BY DEF Release
<1>5. StockTypeOK'
  BY <1>1, <1>2, <1>3, <1>4 DEF StockTypeOK
<1>6. ASSUME NEW c \in Cells PROVE (onHand[c] - blocked[c] = ledger[c] + charged[c])'
  <2>1. onHand[c] - blocked[c] = ledger[c] + charged[c] /\ onHand[c] \in Int /\ blocked[c] \in Int
        /\ ledger[c] \in Int /\ charged[c] \in Nat
    BY <1>3 DEF StockTypeOK, StockIsBooked
  <2>2. CASE c = g.cell
    <3>1. onHand'[c] = onHand[c] - Bad(n) /\ blocked'[c] = blocked[c] - Total(n)
          /\ ledger'[c] = ledger[c] + n.good /\ charged'[c] = charged[c]
      BY <1>1, <1>3, <1>4, <2>2 DEF StockTypeOK
    <3> QED
      BY <1>2, <2>1, <3>1
  <2>3. CASE c # g.cell
    <3>1. onHand'[c] = onHand[c] /\ blocked'[c] = blocked[c] /\ ledger'[c] = ledger[c]
          /\ charged'[c] = charged[c]
      BY <1>1, <1>3, <1>4, <2>3 DEF StockTypeOK
    <3> QED
      BY <2>1, <3>1
  <2> QED
    BY <2>2, <2>3
<1> QED
  BY <1>5, <1>6 DEF StockIsBooked

LEMMA FinishReturnKeeps == ASSUME Inv, NEW r \in Requests, FinishReturn(r) PROVE Inv'
<1> DEFINE p == job[r].pass
           g == job[r].seen
           n == job[r].count
           back == IF Total(n) > 0 THEN g.back + Total(n) ELSE pass[p].back
           next == CASE back >= pass[p].qty -> "RETURNED"
                     [] back < pass[p].qty /\ back > 0 -> "PARTIALLY_RETURNED"
                     [] OTHER -> g.status
           status == IF next # g.status THEN next ELSE pass[p].status
<1>1. pc[r] # "idle" /\ Release(g, n) /\ claims' = claims /\ Answer(r)
      /\ book' = [book EXCEPT ![p].released = @ + Total(n)]
  BY DEF FinishReturn
<1>2. p \in Passes /\ pass[p] \in Pass /\ g \in Pass /\ n \in Count /\ Total(n) \in Nat
  BY <1>1, Working, TotalTyping
<1>3. back \in Nat /\ next \in Statuses /\ status \in Statuses
  BY <1>2, FieldTyping, StatusNames
<1>4. Store(r, [pass[p] EXCEPT !.back = back, !.status = status])
  BY <1>2 DEF FinishReturn, Pass
<1>5. \A h \in Pass, b \in Nat, x \in Statuses : [h EXCEPT !.back = b, !.status = x] \in Pass
  BY DEF Pass
<1>6. pass' \in [Passes -> Pass]
  BY <1>1, <1>2, <1>3, <1>4, <1>5, StoreTyping
<1>7. book' \in [Passes -> Book]
  BY <1>1, <1>2, BookTyping
<1>8. StockTypeOK' /\ StockIsBooked'
  BY <1>1, <1>2, ReleaseKeeps, InvTypes DEF StockTypeOK
<1> QED
  BY <1>1, <1>6, <1>7, <1>8, AnswerKeeps

-----------------------------------------------------------------------------
(* The other hotel *)

LEMMA ElsewhereBegins ==
  ASSUME Inv, NEW r \in Requests, NEW p \in Passes, NEW role \in Roles,
         BeginAccept(r, p, role) \/ BeginShipBack(r, p, role) \/ BeginGateOut(r, p, role)
  PROVE  Inv'
<1>1. {"accept", "ship back", "gate out"} \subseteq Steps
  BY DEF Steps
<1>2. Having(p) \in Job /\ Having(p).pass = p /\ On(p) \in Job /\ On(p).pass = p
  BY InvTypes, HavingTyping, OnTyping
<1>3. Take(r, "accept", Having(p)) \/ Take(r, "ship back", On(p)) \/ Take(r, "gate out", Having(p))
  BY DEF BeginAccept, BeginShipBack, BeginGateOut
<1> QED
  BY <1>1, <1>2, <1>3, TakeKeeps

LEMMA FinishReceiptKeeps == ASSUME Inv, NEW r \in Requests, FinishReceipt(r) PROVE Inv'
<1> DEFINE p == job[r].pass
           g == job[r].seen
           missing == IF g.kind = "PERMANENT" THEN g.qty - job[r].count.good ELSE 0
           x == [pass[p] EXCEPT !.status = "RECEIVED_AT_DESTINATION", !.gateIn = TRUE,
                                !.received = job[r].count.good]
<1>1. pc[r] = "receipt" /\ Store(r, x) /\ Answer(r) /\ UNCHANGED stock
      /\ book' = [book EXCEPT ![p].missing = @ + missing]
  BY DEF FinishReceipt
<1>2. p \in Passes /\ pass[p] \in Pass /\ g \in Pass /\ job[r].count.good \in Nat
  BY <1>1, Working, TotalTyping
<1>3. missing \in Nat
  BY <1>1, <1>2, InvTypes, FieldTyping DEF RequestOK
<1>4. x \in Pass
  BY <1>2, StatusNames DEF Pass
<1>5. book' \in [Passes -> Book]
  BY <1>1, <1>2, <1>3, BookTyping
<1> QED
  BY <1>1, <1>4, <1>5, QuietAnswer

LEMMA FinishAcceptKeeps == ASSUME Inv, NEW r \in Requests, FinishAccept(r) PROVE Inv'
<1> DEFINE p == job[r].pass
           g == job[r].seen
           done == g.kind = "PERMANENT" \/ g.status = "RETURNED"
           status == IF done THEN "CLOSED" ELSE pass[p].status
           x == [pass[p] EXCEPT !.accepted = TRUE, !.status = status]
<1>1. pc[r] # "idle" /\ Answer(r) /\ UNCHANGED stock
      /\ book' = IF g.kind = "PERMANENT"
                   THEN [book EXCEPT ![p].arrived = @ + Received(g)]
                   ELSE [book EXCEPT ![p].custody = @ + Received(g)]
  BY DEF FinishAccept
<1>2. p \in Passes /\ pass[p] \in Pass /\ g \in Pass /\ Received(g) \in Nat
  BY <1>1, Working, FieldTyping
<1>3. Store(r, x)
  BY <1>2 DEF FinishAccept, Pass
<1>4. status \in Statuses
  BY <1>2, FieldTyping, StatusNames
<1>5. x \in Pass
  BY <1>2, <1>4 DEF Pass
<1>6. ASSUME NEW n \in Nat
      PROVE  /\ [book EXCEPT ![p].arrived = @ + n] \in [Passes -> Book]
             /\ [book EXCEPT ![p].custody = @ + n] \in [Passes -> Book]
  BY <1>2, BookTyping, CustodyTyping
<1>7. book' \in [Passes -> Book]
  <2> DEFINE n == Received(g)
  <2> HIDE DEF n
  <2>1. book' = [book EXCEPT ![p].arrived = @ + n] \/ book' = [book EXCEPT ![p].custody = @ + n]
    BY <1>1 DEF n
  <2> QED
    BY <1>2, <1>6, <2>1 DEF n
<1> QED
  BY <1>1, <1>3, <1>5, <1>7, QuietAnswer

LEMMA FinishGateOutKeeps == ASSUME Inv, NEW r \in Requests, FinishGateOut(r) PROVE Inv'
<1> DEFINE p == job[r].pass
           x == [pass[p] EXCEPT !.gateOut = TRUE]
<1>1. pc[r] # "idle" /\ Store(r, x) /\ Answer(r) /\ UNCHANGED stock
      /\ book' = [book EXCEPT ![p].custody = @ - Received(job[r].seen)]
  BY DEF FinishGateOut
<1>2. p \in Passes /\ pass[p] \in Pass /\ Received(job[r].seen) \in Nat
  BY <1>1, Working, FieldTyping
<1>3. ASSUME NEW n \in Nat PROVE [book EXCEPT ![p].custody = @ - n] \in [Passes -> Book]
  BY <1>2, CustodyTyping
<1>4. book' \in [Passes -> Book]
  <2> DEFINE n == Received(job[r].seen)
  <2> HIDE DEF n
  <2>1. book' = [book EXCEPT ![p].custody = @ - n]
    BY <1>1 DEF n
  <2> QED
    BY <1>2, <1>3, <2>1 DEF n
<1>5. x \in Pass
  BY <1>2, PassTyping
<1> QED
  BY <1>1, <1>4, <1>5, QuietAnswer

LEMMA FinishArrivalKeeps == ASSUME Inv, NEW r \in Requests, FinishArrival(r) PROVE Inv'
<1> DEFINE p == job[r].pass
           back == job[r].seen.back + Total(job[r].count)
           x == [pass[p] EXCEPT !.status = "RETURN_RECEIVED_AT_GATE", !.gateIn = TRUE, !.back = back]
<1>1. pc[r] # "idle" /\ Store(r, x) /\ Answer(r) /\ UNCHANGED <<stock, book>>
  BY DEF FinishArrival
<1>2. p \in Passes /\ pass[p] \in Pass /\ back \in Nat
  BY <1>1, Working, FieldTyping, TotalTyping
<1> HIDE DEF back
<1>3. x \in Pass
  BY <1>2, StatusNames DEF Pass
<1> QED
  BY <1>1, <1>3, InvTypes, QuietAnswer

LEMMA LookTakeBackKeeps == ASSUME Inv, NEW r \in Requests, LookTakeBack(r) PROVE Inv'
<1>1. pc[r] # "idle" /\ pc' = [pc EXCEPT ![r] = "release"]
      /\ UNCHANGED <<stock, pass, book, closed, job>>
  BY DEF LookTakeBack
<1>2. "release" \in Steps
  BY DEF Steps
<1>3. pc' \in [Requests -> Steps]
  BY <1>1, <1>2, InvTypes
<1>4. ASSUME NEW q \in Requests PROVE RequestOK(q)'
  BY <1>1, InvTypes DEF RequestOK
<1>5. StockTypeOK' /\ StockIsBooked'
  BY <1>1, InvTypes DEF stock, StockTypeOK, StockIsBooked
<1> QED
  BY <1>1, <1>3, <1>4, <1>5, InvTypes DEF Inv, TypeOK, StockTypeOK, Job

LEMMA FinishTakeBackKeeps == ASSUME Inv, NEW r \in Requests, FinishTakeBack(r) PROVE Inv'
<1> DEFINE p == job[r].pass
           g == job[r].seen
           n == job[r].count
<1>1. pc[r] # "idle" /\ Release(g, n) /\ Answer(r)
      /\ claims' = [claims EXCEPT ![g.cell] = @ + Bad(n)]
      /\ book' = [book EXCEPT ![p].released = @ + Total(n)]
      /\ Store(r, [pass[p] EXCEPT !.status = "RETURNED"])
  BY DEF FinishTakeBack, SetStatus
<1>2. p \in Passes /\ pass[p] \in Pass /\ g \in Pass /\ n \in Count
      /\ Total(n) \in Nat /\ Bad(n) \in Nat /\ g.cell \in Cells
  BY <1>1, Working, TotalTyping, FieldTyping
<1>3. claims' \in [Cells -> Nat]
  BY <1>1, <1>2, InvTypes DEF StockTypeOK
<1>4. StockTypeOK' /\ StockIsBooked'
  BY <1>1, <1>2, <1>3, ReleaseKeeps
<1>5. pass' \in [Passes -> Pass]
  BY <1>1, <1>2, PassTyping, StatusNames, StoreTyping
<1>6. book' \in [Passes -> Book]
  BY <1>1, <1>2, BookTyping
<1> QED
  BY <1>1, <1>4, <1>5, <1>6, AnswerKeeps

-----------------------------------------------------------------------------
(* Errors, and the rest of the server *)

LEMMA RefuseKeeps == ASSUME Inv, NEW r \in Requests, Refuse(r) PROVE Inv'
<1>1. Answer(r) /\ UNCHANGED <<stock, pass, book>>
  BY DEF Refuse
<1>2. StockTypeOK' /\ StockIsBooked' /\ pass' \in [Passes -> Pass] /\ book' \in [Passes -> Book]
  BY <1>1, InvTypes DEF stock, StockTypeOK, StockIsBooked
<1> QED
  BY <1>1, <1>2, AnswerKeeps

LEMMA ElsewhereKeeps == ASSUME Inv, Elsewhere PROVE Inv'
<1>1. StockTypeOK /\ StockIsBooked
  BY InvTypes
<1>2. ASSUME NEW c \in Cells, PostClaim(c) PROVE Inv'
  <2>1. PICK n \in 1 .. claims[c] - charged[c] :
          /\ ledger' = [ledger EXCEPT ![c] = @ - n]
          /\ charged' = [charged EXCEPT ![c] = @ + n]
          /\ UNCHANGED <<onHand, blocked, claims, pass, book, closed, pc, job>>
    BY <1>2 DEF PostClaim
  <2>2. n \in Nat
    BY <2>1, <1>1 DEF StockTypeOK
  <2>3. StockTypeOK'
    BY <1>1, <2>1, <2>2 DEF StockTypeOK
  <2>4. ASSUME NEW d \in Cells PROVE (onHand[d] - blocked[d] = ledger[d] + charged[d])'
    <3>1. onHand[d] - blocked[d] = ledger[d] + charged[d] /\ ledger[d] \in Int /\ charged[d] \in Nat
          /\ onHand'[d] = onHand[d] /\ blocked'[d] = blocked[d]
      BY <1>1, <2>1 DEF StockTypeOK, StockIsBooked
    <3>2. \/ ledger'[d] = ledger[d] - n /\ charged'[d] = charged[d] + n
          \/ ledger'[d] = ledger[d] /\ charged'[d] = charged[d]
      BY <1>1, <2>1 DEF StockTypeOK
    <3> QED
      BY <2>2, <3>1, <3>2
  <2> QED
    BY <2>1, <2>3, <2>4 DEF Inv, TypeOK, StockTypeOK, StockIsBooked, RequestOK
<1>3. ASSUME NEW c \in Cells, NEW n \in Movements, Move(c, n) PROVE Inv'
  <2>1. /\ n \in Int
        /\ onHand' = [onHand EXCEPT ![c] = @ + n]
        /\ ledger' = [ledger EXCEPT ![c] = @ + n]
        /\ UNCHANGED <<blocked, claims, charged, pass, book, closed, pc, job>>
    BY <1>3, GatePassAssumption DEF Move
  <2>2. StockTypeOK'
    BY <1>1, <2>1 DEF StockTypeOK
  <2>3. ASSUME NEW d \in Cells PROVE (onHand[d] - blocked[d] = ledger[d] + charged[d])'
    <3>1. onHand[d] - blocked[d] = ledger[d] + charged[d] /\ ledger[d] \in Int /\ onHand[d] \in Int
          /\ blocked[d] \in Int /\ charged[d] \in Nat
          /\ charged'[d] = charged[d] /\ blocked'[d] = blocked[d]
      BY <1>1, <2>1 DEF StockTypeOK, StockIsBooked
    <3>2. \/ ledger'[d] = ledger[d] + n /\ onHand'[d] = onHand[d] + n
          \/ ledger'[d] = ledger[d] /\ onHand'[d] = onHand[d]
      BY <1>1, <2>1 DEF StockTypeOK
    <3> QED
      BY <2>1, <3>1, <3>2
  <2> QED
    BY <2>1, <2>2, <2>3 DEF Inv, TypeOK, StockTypeOK, StockIsBooked, RequestOK
<1>4. ASSUME NEW b \in BOOLEAN, SetClosed(b) PROVE Inv'
  BY <1>4 DEF SetClosed, Inv, TypeOK, StockIsBooked, RequestOK, stock
<1> QED
  BY <1>2, <1>3, <1>4 DEF Elsewhere

LEMMA InitInv == Init => Inv
<1> SUFFICES ASSUME Init PROVE Inv
  OBVIOUS
<1>1. Written(Blank, "none", 0) \in Pass /\ NoJob \in Job /\ NewBook \in Book /\ "idle" \in Steps
  BY NeutralTyping, WrittenTyping, StatusNames DEF NewBook, Book, Steps
<1>2. TypeOK
  <2>1. StockTypeOK
    BY GatePassAssumption DEF Init, StockTypeOK
  <2>2. pass \in [Passes -> Pass] /\ book \in [Passes -> Book] /\ closed \in BOOLEAN
        /\ pc \in [Requests -> Steps] /\ job \in [Requests -> Job]
    BY <1>1 DEF Init
  <2> QED
    BY <2>1, <2>2 DEF TypeOK, StockTypeOK, Job
<1>3. \A r \in Requests : RequestOK(r)
  BY DEF Init, RequestOK
<1>4. StockIsBooked
  <2>1. ASSUME NEW c \in Cells PROVE onHand[c] - blocked[c] = ledger[c] + charged[c]
    BY GatePassAssumption DEF Init
  <2> QED
    BY <2>1 DEF StockIsBooked
<1> QED
  BY <1>2, <1>3, <1>4 DEF Inv

LEMMA InvNext == Inv /\ [Next]_vars => Inv'
<1> SUFFICES ASSUME Inv, [Next]_vars PROVE Inv'
  OBVIOUS
<1>1. ASSUME NEW r \in Requests, Continue(r) PROVE Inv'
  BY <1>1, FinishEditKeeps, FinishStatusKeeps, FinishSubmitKeeps, FinishSignKeeps, LookExitKeeps,
     FinishExitKeeps, LookReturnKeeps, FinishReturnKeeps, FinishReceiptKeeps, FinishAcceptKeeps,
     FinishGateOutKeeps, FinishArrivalKeeps, LookTakeBackKeeps, FinishTakeBackKeeps, RefuseKeeps
     DEF Continue
<1>2. ASSUME NEW r \in Requests, NEW p \in Passes, Arrive(r, p) PROVE Inv'
  BY <1>2, CreateKeeps, DraftSteps, BeginSignKeeps, BeginCountKeeps, ElsewhereBegins DEF Arrive
<1>3. CASE UNCHANGED vars
  BY <1>3 DEF vars, Inv, TypeOK, StockIsBooked, RequestOK, stock
<1> QED
  BY <1>1, <1>2, <1>3, ElsewhereKeeps DEF Next

-----------------------------------------------------------------------------
(* One request at a time: what a pass and its book tell, and what a request *)
(* that is in progress may rely on.                                         *)

Before == DOMAIN STEP_ROLE \cup {"none", "DRAFT", "REJECTED", "deleted"}
Gone == Statuses \ Before
Chain == {"COST_CONTROL", "FINANCE", "GM"}

\* Nothing has left, nothing was counted, and the signatures are those of the
\* steps before the current one.
Unmoved(g, b) ==
  /\ b = NewBook
  /\ g.back = 0 /\ g.received = NotConfirmed /\ ~g.gateIn /\ ~g.accepted /\ ~g.gateOut
  /\ g.status \in {"PENDING_FINANCE", "PENDING_GM", "PENDING_SECURITY"} => "COST_CONTROL" \in g.signed
  /\ g.status \in {"PENDING_GM", "PENDING_SECURITY"} => "FINANCE" \in g.signed
  /\ g.status = "PENDING_SECURITY" => "GM" \in g.signed

\* A way back through the gates, or over the desk.
OverGates(g) == g.internal /\ g.kind \in Reversible /\ g.gateIn /\ g.accepted
OverDesk(g) == ~g.gateIn /\ ~g.accepted /\ ~g.gateOut

\* What each status says of the way the goods took.
OnTheWay(g, b) ==
  /\ g.status = "OUT" => OverDesk(g) /\ g.back = 0
  /\ g.status = "RECEIVED_AT_DESTINATION" =>
       /\ g.internal /\ g.gateIn /\ ~g.gateOut /\ g.back = 0
       /\ g.accepted => g.kind \in Reversible
  /\ g.status = "RETURNING" => OverGates(g) /\ g.back = 0
  /\ g.status = "RETURN_RECEIVED_AT_GATE" => OverGates(g) /\ g.gateOut
  /\ g.status = "PARTIALLY_RETURNED" => OverDesk(g) /\ b.released = g.back
  /\ g.status = "RETURNED" =>
       \/ OverGates(g) /\ g.gateOut
       \/ OverDesk(g) /\ g.back = g.qty
  /\ g.status \notin {"PARTIALLY_RETURNED", "RETURNED", "CLOSED"} => b.released = 0

Moved(g, b) ==
  /\ Chain \cup {"SECURITY"} \subseteq g.signed
  /\ b.out = g.qty
  /\ b.released <= g.back /\ g.back <= g.qty
  /\ g.internal \/ b.released = g.back
  /\ g.gateIn <=> g.received # NotConfirmed
  /\ g.received <= g.qty
  /\ g.accepted => g.gateIn
  /\ b.missing = IF g.kind = "PERMANENT" /\ g.gateIn THEN g.qty - g.received ELSE 0
  /\ b.arrived = IF g.kind = "PERMANENT" /\ g.accepted THEN g.received ELSE 0
  /\ b.custody = IF g.kind \in Reversible /\ g.accepted /\ ~g.gateOut THEN g.received ELSE 0
  /\ g.gateOut => g.status \in {"RETURNING", "RETURN_RECEIVED_AT_GATE", "RETURNED", "CLOSED"}
  /\ OnTheWay(g, b)

Story(g, b) ==
  /\ g.status \in Before => Unmoved(g, b)
  /\ g.status \in Gone => Moved(g, b)

\* What a request knows of its pass: the status it relies on, and the line.
Grip(step, j, g) ==
  /\ step = "edit" => g.status = "DRAFT"
  /\ step = "delete" => g.status \in {"DRAFT", "REJECTED"}
  /\ step = "submit" => g.status = "DRAFT"
  /\ step = "sign" => g.status = j.seen.status
  /\ step = "reject" => g.status \in DOMAIN STEP_ROLE
  /\ step = "exit" => g.status = "PENDING_SECURITY"
  /\ step = "move out" => g.status = "PENDING_SECURITY" /\ j.seen = g
  /\ step \in {"return", "take in"} =>
       g.status \in {"OUT", "PARTIALLY_RETURNED"} /\ g.kind # "PERMANENT" /\ j.seen = g
  /\ step = "take in" => WithinRest(g, j.count)
  /\ step = "close" => g.status \in {"OUT", "PARTIALLY_RETURNED", "RETURNED"}
  /\ step = "receipt" => g.internal /\ g.status = "OUT" /\ j.seen = g
  /\ step = "accept" => MayAccept(g) /\ j.seen = g
  /\ step = "ship back" =>
       /\ g.internal /\ g.kind \in Reversible /\ g.accepted
       /\ g.status = "RECEIVED_AT_DESTINATION"
  /\ step = "gate out" => g.status = "RETURNING" /\ ~g.gateOut /\ j.seen = g
  /\ step = "arrival" =>
       /\ g.status = "RETURNING" /\ g.gateOut /\ j.seen = g
       /\ Total(j.count) > 0 /\ WithinRest(g, j.count)
  /\ step \in {"take back", "release"} =>
       g.status = "RETURN_RECEIVED_AT_GATE" /\ j.seen = g /\ Total(j.count) <= g.back

\* Goods move in an open month only, but for what is taken back.
Holds(r) ==
  pc[r] # "idle" =>
    /\ Grip(pc[r], job[r], pass[job[r].pass])
    /\ pc[r] \in {"exit", "move out", "return", "take in"} => ~closed

Solo == \A q, s \in Requests : pc[q] # "idle" /\ pc[s] # "idle" => q = s

\* What a pass has blocked of a balance.
Lent(c, g, b) ==
  IF g.cell = c /\ g.status # "deleted" /\ g.kind \in Reversible THEN b.out - b.released ELSE 0

BlockedIsLent ==
  \A c \in Cells : blocked[c] = TotalOver([p \in Passes |-> Lent(c, pass[p], book[p])], Passes)

SerialInv ==
  /\ Solo
  /\ \A p \in Passes : Story(pass[p], book[p])
  /\ \A r \in Requests : Holds(r)
  /\ BlockedIsLent

-----------------------------------------------------------------------------
(* How the handlers continue the story of a pass *)

LEMMA StatusSplit ==
  /\ Before = {"PENDING_DEPT", "PENDING_COST_CONTROL", "PENDING_FINANCE", "PENDING_GM",
               "PENDING_SECURITY", "none", "DRAFT", "REJECTED", "deleted"}
  /\ Gone = {"OUT", "RECEIVED_AT_DESTINATION", "RETURNING", "RETURN_RECEIVED_AT_GATE",
             "PARTIALLY_RETURNED", "RETURNED", "CLOSED"}
  BY DEF Before, Gone, Statuses, STEP_ROLE

LEMMA StoryCreated ==
  ASSUME NEW f \in Form
  PROVE  /\ Unmoved(Written(f, "DRAFT", 0), NewBook) /\ Unmoved(Written(f, "none", 0), NewBook)
         /\ Written(f, "DRAFT", 0).status = "DRAFT" /\ Written(f, "none", 0).status = "none"
  BY DEF Unmoved, Written

LEMMA StoryEdited ==
  ASSUME NEW g \in Pass, NEW f \in Form, NEW b, Unmoved(g, b), g.status = "DRAFT"
  PROVE  LET h == [g EXCEPT !.kind = f.kind, !.internal = f.internal, !.cell = f.cell,
                            !.qty = f.qty, !.back = 0, !.received = NotConfirmed,
                            !.edition = @ + 1]
         IN  h.status = "DRAFT" /\ Unmoved(h, b)
<1> DEFINE h == [g EXCEPT !.kind = f.kind, !.internal = f.internal, !.cell = f.cell,
                          !.qty = f.qty, !.back = 0, !.received = NotConfirmed,
                          !.edition = @ + 1]
<1>1. /\ h.status = g.status /\ h.back = 0 /\ h.received = NotConfirmed /\ h.gateIn = g.gateIn
      /\ h.accepted = g.accepted /\ h.gateOut = g.gateOut /\ h.signed = g.signed
  BY DEF Pass
<1> HIDE DEF h
<1>2. h.status = "DRAFT" /\ Unmoved(h, b)
  BY <1>1 DEF Unmoved
<1>3. QED
  BY <1>2 DEF h

\* Whatever status and signatures are written on a pass that has not left.
LEMMA StorySigned ==
  ASSUME NEW g \in Pass, NEW b, Unmoved(g, b), NEW s \in Before, NEW S,
         s \in {"PENDING_FINANCE", "PENDING_GM", "PENDING_SECURITY"} => "COST_CONTROL" \in S,
         s \in {"PENDING_GM", "PENDING_SECURITY"} => "FINANCE" \in S,
         s = "PENDING_SECURITY" => "GM" \in S
  PROVE  /\ Unmoved([g EXCEPT !.status = s, !.signed = S], b)
         /\ Unmoved([g EXCEPT !.status = s, !.signed = S, !.gateOut = FALSE], b)
  BY DEF Unmoved, Pass

\* Fields of the passes that are written after the exit.
LEMMA StoryExit ==
  ASSUME NEW g \in Pass, NEW b \in Book, Unmoved(g, b), g.status = "PENDING_SECURITY",
         NEW h \in Pass, NEW d \in Book,
         h = [g EXCEPT !.signed = @ \cup {"SECURITY"},
                       !.status = IF g.kind = "PERMANENT" /\ ~g.internal THEN "CLOSED" ELSE "OUT"],
         d = [b EXCEPT !.out = @ + g.qty]
  PROVE  Moved(h, d) /\ h.status \in Gone
<1>1. /\ h.signed = g.signed \cup {"SECURITY"} /\ h.back = g.back /\ h.received = g.received
      /\ h.gateIn = g.gateIn /\ h.accepted = g.accepted /\ h.gateOut = g.gateOut
      /\ h.qty = g.qty /\ h.kind = g.kind /\ h.internal = g.internal
      /\ h.status = IF g.kind = "PERMANENT" /\ ~g.internal THEN "CLOSED" ELSE "OUT"
  BY DEF Pass
<1>2. d.out = g.qty /\ d.released = 0 /\ d.arrived = 0 /\ d.missing = 0 /\ d.custody = 0
  BY FieldTyping DEF Unmoved, NewBook
<1>3. g.qty \in Nat
  BY FieldTyping
<1>4. QED
  BY <1>1, <1>2, <1>3, StatusSplit DEF Unmoved, Moved, OnTheWay, OverDesk, Chain, NotConfirmed

LEMMA StoryReturned ==
  ASSUME NEW g \in Pass, NEW b \in Book, Moved(g, b), NEW n \in Count,
         g.status \in {"OUT", "PARTIALLY_RETURNED"}, WithinRest(g, n),
         NEW h \in Pass, NEW d \in Book, NEW back \in Nat, NEW s,
         back = g.back + Total(n), d = [b EXCEPT !.released = @ + Total(n)],
         h = [g EXCEPT !.back = back, !.status = s],
         s = IF back >= g.qty THEN "RETURNED"
             ELSE IF back > 0 THEN "PARTIALLY_RETURNED" ELSE g.status
  PROVE  Moved(h, d) /\ h.status \in Gone
<1>1. /\ h.signed = g.signed /\ h.back = back /\ h.received = g.received
      /\ h.gateIn = g.gateIn /\ h.accepted = g.accepted /\ h.gateOut = g.gateOut
      /\ h.qty = g.qty /\ h.kind = g.kind /\ h.internal = g.internal /\ h.status = s
  BY DEF Pass
<1>2. /\ d.out = b.out /\ d.released = b.released + Total(n) /\ d.arrived = b.arrived
      /\ d.missing = b.missing /\ d.custody = b.custody
  BY DEF Book
<1>3. g.qty \in Nat /\ g.back \in Nat /\ Total(n) \in Nat /\ b.released \in Nat
  BY FieldTyping, TotalTyping DEF Book
<1>4. g.back + Total(n) <= g.qty
  BY <1>3 DEF WithinRest
<1>5. b.released = g.back /\ OverDesk(g)
  BY <1>3 DEF Moved, OnTheWay
<1>6. OnTheWay(h, d)
  BY <1>1, <1>2, <1>3, <1>4, <1>5 DEF OnTheWay, OverDesk
<1>7. h.status \in Gone /\ h.status \in {"OUT", "PARTIALLY_RETURNED", "RETURNED"}
  BY <1>1, StatusSplit
<1>8. QED
  BY <1>1, <1>2, <1>3, <1>4, <1>5, <1>6, <1>7 DEF Moved, OverDesk

LEMMA StoryClosed ==
  ASSUME NEW g \in Pass, NEW b \in Book, Moved(g, b), NEW h \in Pass,
         h = [g EXCEPT !.status = "CLOSED"]
  PROVE  Moved(h, b) /\ h.status \in Gone
<1>1. /\ h.signed = g.signed /\ h.back = g.back /\ h.received = g.received
      /\ h.gateIn = g.gateIn /\ h.accepted = g.accepted /\ h.gateOut = g.gateOut
      /\ h.qty = g.qty /\ h.kind = g.kind /\ h.internal = g.internal /\ h.status = "CLOSED"
  BY DEF Pass
<1>2. QED
  BY <1>1, StatusSplit DEF Moved, OnTheWay

LEMMA StoryReceived ==
  ASSUME NEW g \in Pass, NEW b \in Book, Moved(g, b), g.status = "OUT", g.internal,
         NEW n \in Nat, n <= g.qty, NEW h \in Pass, NEW d \in Book,
         h = [g EXCEPT !.status = "RECEIVED_AT_DESTINATION", !.gateIn = TRUE, !.received = n],
         d = [b EXCEPT !.missing = @ + (IF g.kind = "PERMANENT" THEN g.qty - n ELSE 0)]
  PROVE  Moved(h, d) /\ h.status \in Gone
<1>1. /\ h.signed = g.signed /\ h.back = g.back /\ h.received = n
      /\ h.gateIn = TRUE /\ h.accepted = g.accepted /\ h.gateOut = g.gateOut
      /\ h.qty = g.qty /\ h.kind = g.kind /\ h.internal = g.internal
      /\ h.status = "RECEIVED_AT_DESTINATION"
  BY DEF Pass
<1>2. /\ d.out = b.out /\ d.released = b.released /\ d.arrived = b.arrived
      /\ d.missing = b.missing + (IF g.kind = "PERMANENT" THEN g.qty - n ELSE 0)
      /\ d.custody = b.custody
  BY DEF Book
<1>3. g.qty \in Nat /\ OverDesk(g) /\ g.back = 0 /\ b.missing = 0
  BY FieldTyping DEF Moved, OnTheWay, OverDesk
<1>4. QED
  BY <1>1, <1>2, <1>3, StatusSplit DEF Moved, OnTheWay, OverDesk, NotConfirmed

LEMMA StoryAccepted ==
  ASSUME NEW g \in Pass, NEW b \in Book, Moved(g, b), MayAccept(g), NEW h \in Pass, NEW d \in Book,
         h = [g EXCEPT !.accepted = TRUE, !.status =
                IF g.kind = "PERMANENT" \/ g.status = "RETURNED" THEN "CLOSED" ELSE g.status],
         d = IF g.kind = "PERMANENT" THEN [b EXCEPT !.arrived = @ + Received(g)]
                                     ELSE [b EXCEPT !.custody = @ + Received(g)]
  PROVE  Moved(h, d) /\ h.status \in Gone
<1>1. g.status = "RECEIVED_AT_DESTINATION" /\ g.gateIn /\ ~g.gateOut /\ ~g.accepted /\ g.internal
  BY DEF MayAccept, Moved, OnTheWay, OverDesk, OverGates
<1>2. /\ h.signed = g.signed /\ h.back = g.back /\ h.received = g.received
      /\ h.gateIn = g.gateIn /\ h.accepted = TRUE /\ h.gateOut = g.gateOut
      /\ h.qty = g.qty /\ h.kind = g.kind /\ h.internal = g.internal
      /\ h.status = IF g.kind = "PERMANENT" THEN "CLOSED" ELSE "RECEIVED_AT_DESTINATION"
  BY <1>1 DEF Pass
<1>3. Received(g) = g.received /\ g.received \in Nat
  BY <1>1, FieldTyping DEF Moved, Received
<1>4. /\ d.out = b.out /\ d.released = b.released /\ d.missing = b.missing
      /\ d.arrived = IF g.kind = "PERMANENT" THEN b.arrived + g.received ELSE b.arrived
      /\ d.custody = IF g.kind = "PERMANENT" THEN b.custody ELSE b.custody + g.received
  BY <1>3 DEF Book
<1>5. b.arrived = 0 /\ b.custody = 0 /\ g.kind \in Kinds
  BY <1>1, FieldTyping DEF Moved
<1>6. g.kind = "PERMANENT" \/ g.kind \in Reversible
  BY <1>5 DEF Kinds
<1>7. ~("PERMANENT" \in Reversible)
  BY DEF Reversible
<1>8. QED
  BY <1>1, <1>2, <1>3, <1>4, <1>5, <1>6, <1>7, StatusSplit DEF Moved, OnTheWay

LEMMA StoryShipped ==
  ASSUME NEW g \in Pass, NEW b \in Book, Moved(g, b), g.status = "RECEIVED_AT_DESTINATION",
         g.accepted, NEW h \in Pass, h = [g EXCEPT !.status = "RETURNING", !.gateOut = FALSE]
  PROVE  Moved(h, b) /\ h.status \in Gone
<1>1. /\ h.signed = g.signed /\ h.back = g.back /\ h.received = g.received
      /\ h.gateIn = g.gateIn /\ h.accepted = g.accepted /\ h.gateOut = FALSE
      /\ h.qty = g.qty /\ h.kind = g.kind /\ h.internal = g.internal /\ h.status = "RETURNING"
  BY DEF Pass
<1>2. QED
  BY <1>1, StatusSplit DEF Moved, OnTheWay, OverGates

LEMMA StoryLetOut ==
  ASSUME NEW g \in Pass, NEW b \in Book, Moved(g, b), g.status = "RETURNING", ~g.gateOut,
         NEW h \in Pass, NEW d \in Book, h = [g EXCEPT !.gateOut = TRUE],
         d = [b EXCEPT !.custody = @ - Received(g)]
  PROVE  Moved(h, d) /\ h.status \in Gone
<1>1. /\ h.signed = g.signed /\ h.back = g.back /\ h.received = g.received
      /\ h.gateIn = g.gateIn /\ h.accepted = g.accepted /\ h.gateOut = TRUE
      /\ h.qty = g.qty /\ h.kind = g.kind /\ h.internal = g.internal /\ h.status = "RETURNING"
  BY DEF Pass
<1>2. OverGates(g) /\ g.received # NotConfirmed
  BY DEF Moved, OnTheWay, OverGates
<1>3. Received(g) = g.received /\ g.received \in Nat
  BY <1>2, FieldTyping DEF Received
<1>4. /\ d.out = b.out /\ d.released = b.released /\ d.missing = b.missing /\ d.arrived = b.arrived
      /\ d.custody = b.custody - g.received
  BY <1>3 DEF Book
<1>5. b.custody = g.received
  BY <1>2 DEF Moved, OverGates
<1>6. d.custody = 0
  BY <1>3, <1>4, <1>5
<1>7. QED
  BY <1>1, <1>2, <1>4, <1>6, StatusSplit DEF Moved, OnTheWay, OverGates

LEMMA StoryArrived ==
  ASSUME NEW g \in Pass, NEW b \in Book, Moved(g, b), g.status = "RETURNING", g.gateOut,
         NEW n \in Count, WithinRest(g, n), NEW h \in Pass,
         h = [g EXCEPT !.status = "RETURN_RECEIVED_AT_GATE", !.gateIn = TRUE,
                       !.back = g.back + Total(n)]
  PROVE  Moved(h, b) /\ h.status \in Gone
<1>1. /\ h.signed = g.signed /\ h.back = g.back + Total(n) /\ h.received = g.received
      /\ h.gateIn = TRUE /\ h.accepted = g.accepted /\ h.gateOut = g.gateOut
      /\ h.qty = g.qty /\ h.kind = g.kind /\ h.internal = g.internal
      /\ h.status = "RETURN_RECEIVED_AT_GATE"
  BY DEF Pass
<1>2. OverGates(g) /\ g.back = 0 /\ b.released = 0
  BY DEF Moved, OnTheWay
<1>3. g.qty \in Nat /\ Total(n) \in Nat
  BY FieldTyping, TotalTyping
<1>4. h.back \in Nat /\ h.back <= g.qty
  BY <1>1, <1>2, <1>3 DEF WithinRest
<1>5. QED
  BY <1>1, <1>2, <1>3, <1>4, StatusSplit DEF Moved, OnTheWay, OverGates

LEMMA StoryTakenBack ==
  ASSUME NEW g \in Pass, NEW b \in Book, Moved(g, b), g.status = "RETURN_RECEIVED_AT_GATE",
         NEW n \in Count, Total(n) <= g.back, NEW h \in Pass, NEW d \in Book,
         h = [g EXCEPT !.status = "RETURNED"], d = [b EXCEPT !.released = @ + Total(n)]
  PROVE  Moved(h, d) /\ h.status \in Gone
<1>1. /\ h.signed = g.signed /\ h.back = g.back /\ h.received = g.received
      /\ h.gateIn = g.gateIn /\ h.accepted = g.accepted /\ h.gateOut = g.gateOut
      /\ h.qty = g.qty /\ h.kind = g.kind /\ h.internal = g.internal /\ h.status = "RETURNED"
  BY DEF Pass
<1>2. /\ d.out = b.out /\ d.released = b.released + Total(n) /\ d.arrived = b.arrived
      /\ d.missing = b.missing /\ d.custody = b.custody
  BY DEF Book
<1>3. OverGates(g) /\ g.gateOut /\ b.released = 0 /\ Total(n) \in Nat
  BY TotalTyping DEF Moved, OnTheWay
<1>4. d.released = Total(n)
  BY <1>2, <1>3
<1>5. QED
  BY <1>1, <1>2, <1>3, <1>4, StatusSplit DEF Moved, OnTheWay, OverGates

LEMMA LentOfUnmoved ==
  ASSUME NEW c, NEW g, NEW b, Unmoved(g, b)
  PROVE  Lent(c, g, b) = 0
  BY DEF Lent, Unmoved, NewBook

-----------------------------------------------------------------------------
(* One request at a time, step by step *)

LEMMA Modes ==
  ASSUME Inv, Solo, Next, NoteOverlap, ~overlapped'
  PROVE  /\ Solo'
         /\ \/ \E r \in Requests, p \in Passes : Arrive(r, p) /\ \A q \in Requests : pc[q] = "idle"
            \/ \E r \in Requests : Continue(r) /\ pc[r] # "idle"
                                   /\ \A q \in Requests : q # r => pc[q] = "idle"
            \/ Elsewhere /\ \A q \in Requests : pc[q] = "idle"
<1>1. /\ ~(Cardinality({q \in Requests : pc'[q] # "idle"}) > 1)
      /\ UNCHANGED pc => \A q \in Requests : pc[q] = "idle"
  BY DEF NoteOverlap, Busy
<1>2. ASSUME NEW r \in Requests, \A q \in Requests : q # r => pc'[q] = pc[q] PROVE Solo'
  <2>1. \A a, b \in Requests : pc'[a] # "idle" /\ pc'[b] # "idle" => a = b
    BY <1>1, <1>2, OneMoves DEF Solo
  <2>2. QED
    BY <2>1 DEF Solo
<1>3. ASSUME NEW r \in Requests, NEW p \in Passes, Arrive(r, p)
      PROVE  Solo' /\ \A q \in Requests : pc[q] = "idle"
  <2>1. pc[r] = "idle"
        /\ (UNCHANGED pc \/ \E step \in Steps \ {"idle"} : pc' = [pc EXCEPT ![r] = step])
    BY <1>3 DEF Arrive, CreateGetPass, BeginEdit, BeginDelete, BeginClose, BeginSubmit, BeginSign,
                BeginReject, BeginExit, BeginAccept, BeginShipBack, BeginGateOut, BeginReturn,
                BeginReceipt, BeginArrival, BeginTakeBack, Take, Steps
  <2>2. \A q \in Requests : q # r => pc'[q] = pc[q]
    BY <2>1, InvTypes
  <2>3. UNCHANGED pc \/ pc'[r] # "idle"
    BY <2>1, InvTypes
  <2>4. Solo'
    BY <1>2, <2>2
  <2>5. QED
    BY <1>1, <2>1, <2>2, <2>3, <2>4 DEF Solo
<1>4. ASSUME NEW r \in Requests, Continue(r)
      PROVE  Solo' /\ pc[r] # "idle" /\ \A q \in Requests : q # r => pc[q] = "idle"
  <2>1. pc[r] # "idle" /\ \E step \in Steps : pc' = [pc EXCEPT ![r] = step]
    BY <1>4 DEF Continue, FinishEdit, FinishDelete, FinishSubmit, FinishSign, FinishReject, LookExit,
                FinishExit, LookReturn, FinishReturn, FinishClose, FinishReceipt, FinishAccept,
                FinishShipBack, FinishGateOut, FinishArrival, LookTakeBack, FinishTakeBack, Refuse,
                Answer, Steps
  <2>2. \A q \in Requests : q # r => pc'[q] = pc[q]
    BY <2>1, InvTypes
  <2>3. QED
    BY <1>2, <2>1, <2>2 DEF Solo
<1>5. ASSUME Elsewhere PROVE Solo' /\ \A q \in Requests : pc[q] = "idle"
  <2>1. UNCHANGED pc
    BY <1>5 DEF Elsewhere, PostClaim, Move, SetClosed
  <2>2. QED
    BY <1>1, <2>1 DEF Solo
<1>6. QED
  BY <1>3, <1>4, <1>5 DEF Next

LEMMA Frame ==
  ASSUME Inv, NEW r \in Requests, pc[r] # "idle", NEW h, Store(r, h), NEW p, p = job[r].pass
  PROVE  p \in Passes /\ pass'[p] = h /\ \A q \in Passes : q # p => pass'[q] = pass[q]
<1>1. p \in Passes
  BY Working
<1>2. QED
  BY <1>1, InvTypes DEF Store

\* What is lent of a balance follows the pass that changes.
LEMMA LentFollows ==
  ASSUME Inv, Inv', BlockedIsLent, NEW p \in Passes,
         \A q \in Passes : q # p => pass'[q] = pass[q] /\ book'[q] = book[q],
         \A c \in Cells : blocked'[c] = blocked[c] + Lent(c, pass'[p], book'[p])
                                                   - Lent(c, pass[p], book[p])
  PROVE  BlockedIsLent'
<1> SUFFICES ASSUME NEW c \in Cells
             PROVE  blocked'[c]
                      = TotalOver([q \in Passes |-> Lent(c, pass'[q], book'[q])], Passes)
  BY DEF BlockedIsLent
<1> DEFINE f == [q \in Passes |-> Lent(c, pass[q], book[q])]
           g == [q \in Passes |-> Lent(c, pass'[q], book'[q])]
<1>1. \A q \in Passes : book[q] \in Book /\ book'[q] \in Book
  BY DEF Inv, TypeOK
<1>2. \A b \in Book, x \in Pass : Lent(c, x, b) \in Int
  BY DEF Book, Lent
<1>3. \A q \in Passes : f[q] \in Int
  BY <1>1, <1>2, InvTypes
<1>4. \A q \in Passes : g[q] \in Int
  <2>1. \A q \in Passes : pass'[q] \in Pass
    BY DEF Inv, TypeOK
  <2>2. QED
    BY <1>1, <1>2, <2>1
<1>5. \A q \in Passes : q # p => g[q] = f[q]
  OBVIOUS
<1>6. /\ blocked[c] = TotalOver(f, Passes)
      /\ blocked'[c] = blocked[c] + g[p] - f[p]
  BY DEF BlockedIsLent
<1> HIDE DEF f, g
<1>7. TotalOver(g, Passes) = TotalOver(f, Passes) + g[p] - f[p]
  BY <1>3, <1>4, <1>5, TotalChanged, GatePassAssumption
<1>8. QED
  BY <1>6, <1>7 DEF g

\* A request that is the only one answers.
LEMMA Settles ==
  ASSUME Inv, Inv', SerialInv, Solo', NEW r \in Requests, \A q \in Requests : q # r => pc[q] = "idle",
         Answer(r), NEW p \in Passes,
         \A q \in Passes : q # p => pass'[q] = pass[q] /\ book'[q] = book[q],
         Story(pass'[p], book'[p]),
         \A c \in Cells : blocked'[c] = blocked[c] + Lent(c, pass'[p], book'[p])
                                                   - Lent(c, pass[p], book[p])
  PROVE  SerialInv'
<1>1. \A q \in Requests : pc'[q] = "idle"
  BY InvTypes DEF Answer
<1>2. \A q \in Requests : Holds(q)'
  BY <1>1 DEF Holds
<1>3. \A q \in Passes : Story(pass[q], book[q])'
  BY DEF SerialInv
<1>4. BlockedIsLent'
  BY LentFollows DEF SerialInv
<1>5. QED
  BY <1>2, <1>3, <1>4 DEF SerialInv

\* Most answers leave the stock alone, and what is lent with it.
LEMMA SettlesQuietly ==
  ASSUME Inv, Inv', SerialInv, Solo', NEW r \in Requests, \A q \in Requests : q # r => pc[q] = "idle",
         Answer(r), UNCHANGED stock, NEW p \in Passes,
         \A q \in Passes : q # p => pass'[q] = pass[q] /\ book'[q] = book[q],
         Story(pass'[p], book'[p]),
         \A c \in Cells : Lent(c, pass'[p], book'[p]) = Lent(c, pass[p], book[p])
  PROVE  SerialInv'
<1>1. pass[p] \in Pass /\ book[p] \in Book /\ blocked' = blocked /\ blocked \in [Cells -> Int]
  BY InvTypes DEF stock, StockTypeOK
<1>2. \A c \in Cells : Lent(c, pass[p], book[p]) \in Int
  BY <1>1 DEF Lent, Book
<1>3. ASSUME NEW c \in Cells
      PROVE  blocked'[c] = blocked[c] + Lent(c, pass'[p], book'[p]) - Lent(c, pass[p], book[p])
  <2> DEFINE x == Lent(c, pass[p], book[p])
             y == Lent(c, pass'[p], book'[p])
  <2>1. x \in Int /\ y = x /\ blocked[c] \in Int /\ blocked'[c] = blocked[c]
    BY <1>1, <1>2
  <2> HIDE DEF x, y
  <2>2. blocked'[c] = blocked[c] + y - x
    BY <2>1
  <2>3. QED
    BY <2>2 DEF x, y
<1>4. QED
  BY <1>3, Settles

\* A draft is edited, deleted or submitted; a pass is signed or rejected.
LEMMA SerialBefore ==
  ASSUME Inv, Inv', SerialInv, Solo', NEW r \in Requests, \A q \in Requests : q # r => pc[q] = "idle",
         \/ FinishEdit(r) \/ FinishDelete(r) \/ FinishSubmit(r) \/ FinishSign(r) \/ FinishReject(r)
  PROVE  SerialInv'
<1>0. PICK p : p = job[r].pass
  OBVIOUS
<1> DEFINE g == pass[p]
           b == book[p]
<1>1. /\ pc[r] # "idle" /\ Answer(r) /\ UNCHANGED stock /\ UNCHANGED book
  BY DEF FinishEdit, FinishDelete, FinishSubmit, FinishSign, FinishReject
<1>2. p \in Passes /\ g \in Pass /\ b \in Book
  BY <1>0, <1>1, Working
<1>3. Grip(pc[r], job[r], g) /\ Story(g, b)
  BY <1>0, <1>1, <1>2 DEF SerialInv, Holds
<1>4. g.status \in Before
  BY <1>1, <1>3, InvTypes, StatusNames, StatusSplit
     DEF FinishEdit, FinishDelete, FinishSubmit, FinishSign, FinishReject, Grip, RequestOK
<1>5. Unmoved(g, b)
  BY <1>3, <1>4 DEF Story
<1>6. ASSUME NEW h, Store(r, h), h.status \in Before, Unmoved(h, b) PROVE SerialInv'
  <2>1. pass'[p] = h /\ \A q \in Passes : q # p => pass'[q] = pass[q]
    BY <1>0, <1>1, <1>6, Frame
  <2>2. book'[p] = b /\ \A q \in Passes : q # p => book'[q] = book[q]
    BY <1>1
  <2>3. Story(pass'[p], book'[p])
    BY <1>6, <2>1, <2>2, StatusSplit DEF Story
  <2>4. \A c \in Cells : Lent(c, pass'[p], book'[p]) = Lent(c, pass[p], book[p])
    BY <1>5, <1>6, <2>1, <2>2, LentOfUnmoved
  <2>5. QED
    BY <1>1, <1>2, <2>1, <2>2, <2>3, <2>4, SettlesQuietly
<1>7. ASSUME NEW s \in Before, NEW S, Store(r, [g EXCEPT !.status = s, !.signed = S]),
             s \in {"PENDING_FINANCE", "PENDING_GM", "PENDING_SECURITY"} => "COST_CONTROL" \in S,
             s \in {"PENDING_GM", "PENDING_SECURITY"} => "FINANCE" \in S,
             s = "PENDING_SECURITY" => "GM" \in S
      PROVE  SerialInv'
  <2> DEFINE h == [g EXCEPT !.status = s, !.signed = S]
  <2>1. h.status = s /\ Unmoved(h, b)
    BY <1>2, <1>5, <1>7, StorySigned DEF Pass
  <2>2. QED
    BY <1>6, <1>7, <2>1
<1>8. CASE FinishEdit(r)
  <2> DEFINE f == job[r].form
             h == [g EXCEPT !.kind = f.kind, !.internal = f.internal, !.cell = f.cell,
                            !.qty = f.qty, !.back = 0, !.received = NotConfirmed, !.edition = @ + 1]
  <2>1. Store(r, h) /\ g.status = "DRAFT"
    BY <1>0, <1>3, <1>8 DEF FinishEdit, Grip
  <2>2. f \in Form
    BY <1>1, Working
  <2>3. h.status = "DRAFT" /\ Unmoved(h, b)
    BY <1>2, <1>5, <2>1, <2>2, StoryEdited
  <2> HIDE DEF h
  <2>4. QED
    BY <1>6, <2>1, <2>3, StatusSplit
<1>9. CASE FinishDelete(r)
  <2> DEFINE h == [g EXCEPT !.status = "deleted"]
  <2>1. Store(r, h)
    BY <1>0, <1>9 DEF FinishDelete, SetStatus
  <2>2. h.status = "deleted" /\ Unmoved(h, b)
    BY <1>2, <1>5 DEF Unmoved, Pass
  <2> HIDE DEF h
  <2>3. QED
    BY <1>6, <2>1, <2>2, StatusSplit
<1>10. CASE FinishSubmit(r)
  <2> DEFINE s == SubmittedBy(job[r].role)
             now == s.status
             S == g.signed \cup s.signed
  <2>1. Store(r, [g EXCEPT !.status = now, !.signed = S])
    BY <1>0, <1>2, <1>10 DEF FinishSubmit, Pass
  <2>2. /\ s.status \in {"PENDING_SECURITY", "PENDING_COST_CONTROL", "PENDING_FINANCE", "PENDING_DEPT"}
        /\ s.status = "PENDING_SECURITY" => s.signed = {"DEPT", "COST_CONTROL", "FINANCE", "GM"}
        /\ s.status = "PENDING_FINANCE" => s.signed = {"COST_CONTROL"}
    BY DEF SubmittedBy
  <2> HIDE DEF s
  <2>3. /\ now \in Before
        /\ now \in {"PENDING_FINANCE", "PENDING_GM", "PENDING_SECURITY"} => "COST_CONTROL" \in S
        /\ now \in {"PENDING_GM", "PENDING_SECURITY"} => "FINANCE" \in S
        /\ now = "PENDING_SECURITY" => "GM" \in S
    BY <2>2, StatusSplit
  <2> HIDE DEF now, S
  <2>4. QED
    BY <1>7, <2>1, <2>3
<1>11. CASE FinishSign(r)
  <2> DEFINE s == Below[g.status]
             now == s.status
             S == g.signed \cup {s.signed}
  <2>1. g.status = job[r].seen.status /\ g.status \in DOMAIN Below
    BY <1>1, <1>3, <1>11, InvTypes DEF FinishSign, Grip, RequestOK
  <2>2. Store(r, [g EXCEPT !.status = now, !.signed = S])
    BY <1>0, <1>2, <1>11, <2>1 DEF FinishSign, Pass
  <2>3. \/ g.status = "PENDING_DEPT" /\ s.status = "PENDING_COST_CONTROL"
        \/ g.status = "PENDING_COST_CONTROL" /\ s.status = "PENDING_FINANCE" /\ s.signed = "COST_CONTROL"
        \/ g.status = "PENDING_FINANCE" /\ s.status = "PENDING_GM" /\ s.signed = "FINANCE"
        \/ g.status = "PENDING_GM" /\ s.status = "PENDING_SECURITY" /\ s.signed = "GM"
    BY <2>1 DEF Below
  <2> HIDE DEF s
  <2>4. /\ now \in Before
        /\ now \in {"PENDING_FINANCE", "PENDING_GM", "PENDING_SECURITY"} => "COST_CONTROL" \in S
        /\ now \in {"PENDING_GM", "PENDING_SECURITY"} => "FINANCE" \in S
        /\ now = "PENDING_SECURITY" => "GM" \in S
    BY <1>5, <2>3, StatusSplit DEF Unmoved
  <2> HIDE DEF now, S
  <2>5. QED
    BY <1>7, <2>2, <2>4
<1>12. CASE FinishReject(r)
  <2> DEFINE h == [g EXCEPT !.status = "REJECTED", !.signed = {}, !.gateOut = FALSE]
  <2>1. Store(r, h)
    BY <1>0, <1>12 DEF FinishReject
  <2>2. h.status = "REJECTED" /\ Unmoved(h, b)
    BY <1>2, <1>5, StorySigned, StatusSplit DEF Pass
  <2> HIDE DEF h
  <2>3. QED
    BY <1>6, <2>1, <2>2, StatusSplit
<1>13. QED
  BY <1>8, <1>9, <1>10, <1>11, <1>12

LEMMA Gripped ==
  ASSUME Inv, SerialInv, NEW r \in Requests, pc[r] # "idle", NEW p, p = job[r].pass
  PROVE  /\ p \in Passes /\ pass[p] \in Pass /\ book[p] \in Book /\ job[r].count \in Count
         /\ job[r].seen \in Pass
         /\ Grip(pc[r], job[r], pass[p]) /\ Story(pass[p], book[p])
         /\ pc[r] \in {"exit", "move out", "return", "take in"} => ~closed
  BY Working DEF SerialInv, Holds

\* How much is lent changes by what leaves and what is released.
LEMMA LentMoved ==
  ASSUME NEW g, NEW h, NEW b \in Book, NEW d \in Book, NEW c,
         h.cell = g.cell, h.kind = g.kind, g.status # "deleted", h.status # "deleted"
  PROVE  /\ d.out = b.out /\ d.released = b.released => Lent(c, h, d) = Lent(c, g, b)
         /\ g.cell # c \/ g.kind \notin Reversible => Lent(c, h, d) = 0 /\ Lent(c, g, b) = 0
         /\ g.cell = c /\ g.kind \in Reversible =>
              Lent(c, h, d) = d.out - d.released /\ Lent(c, g, b) = b.out - b.released
  BY DEF Lent

LEMMA GoneStays ==
  ASSUME NEW g, NEW b, g.status \in Gone
  PROVE  (Moved(g, b) <=> Story(g, b)) /\ g.status # "deleted"
  BY StatusSplit DEF Story

LEMMA BookFields ==
  ASSUME NEW b \in Book
  PROVE  /\ b.out \in Nat /\ b.released \in Nat /\ b.arrived \in Nat /\ b.missing \in Nat
         /\ b.custody \in Int
  BY DEF Book

LEMMA SerialExit ==
  ASSUME Inv, Inv', SerialInv, Solo', NEW r \in Requests, \A q \in Requests : q # r => pc[q] = "idle",
         FinishExit(r)
  PROVE  SerialInv'
<1>0. PICK p : p = job[r].pass
  OBVIOUS
<1> DEFINE g == pass[p]
           b == book[p]
           h == [g EXCEPT !.signed = @ \cup {"SECURITY"},
                          !.status = IF g.kind = "PERMANENT" /\ ~g.internal THEN "CLOSED" ELSE "OUT"]
           d == [b EXCEPT !.out = @ + g.qty]
<1>1. pc[r] = "move out" /\ Answer(r)
  BY DEF FinishExit
<1>2. /\ p \in Passes /\ g \in Pass /\ b \in Book /\ Grip(pc[r], job[r], g) /\ Story(g, b)
  BY <1>0, <1>1, Gripped
<1>3. job[r].seen = g /\ g.status = "PENDING_SECURITY"
  BY <1>1, <1>2 DEF Grip
<1>4. Unmoved(g, b)
  BY <1>2, <1>3, StatusSplit DEF Story
<1>5. Store(r, h) /\ Leave(g) /\ book' = [book EXCEPT ![p].out = @ + g.qty]
  BY <1>0, <1>3 DEF FinishExit
<1>6. /\ pass'[p] = h /\ book'[p] = d
      /\ \A q \in Passes : q # p => pass'[q] = pass[q] /\ book'[q] = book[q]
  <2>1. book'[p] = d /\ \A q \in Passes : q # p => book'[q] = book[q]
    BY <1>2, <1>5, InvTypes
  <2> HIDE DEF h, d, g
  <2>2. Store(r, h) /\ pc[r] # "idle"
    BY <1>1, <1>5
  <2>3. pass'[p] = h /\ \A q \in Passes : q # p => pass'[q] = pass[q]
    BY <1>0, <2>2, Frame
  <2>4. QED
    BY <2>1, <2>3
<1>7. h \in Pass /\ d \in Book
  <2> HIDE DEF h, d
  <2>1. QED
    BY <1>2, <1>6 DEF Inv, TypeOK
<1>8. Moved(h, d) /\ h.status \in Gone
  BY <1>2, <1>3, <1>4, <1>7, StoryExit
<1>9. h.cell = g.cell /\ h.kind = g.kind /\ d.out = g.qty /\ d.released = 0 /\ g.qty \in Nat
  BY <1>2, <1>4, FieldTyping DEF Pass, Unmoved, NewBook
<1>10. g.cell \in Cells /\ blocked \in [Cells -> Int]
  BY <1>2, FieldTyping, InvTypes DEF StockTypeOK
<1> HIDE DEF h, d
<1>11. ASSUME NEW c \in Cells
       PROVE  blocked'[c] = blocked[c] + Lent(c, h, d) - Lent(c, g, b)
  <2>1. Lent(c, g, b) = 0 /\ blocked[c] \in Int
    BY <1>4, <1>10, LentOfUnmoved
  <2>2. Lent(c, h, d) = IF g.cell = c /\ g.kind \in Reversible THEN g.qty ELSE 0
    BY <1>8, <1>9, GoneStays DEF Lent
  <2>3. blocked'[c] = IF g.cell = c /\ g.kind \in Reversible THEN blocked[c] + g.qty ELSE blocked[c]
    BY <1>5, <1>10 DEF Leave
  <2> HIDE DEF g, b
  <2>4. QED
    BY <1>9, <2>1, <2>2, <2>3
<1>12. QED
  BY <1>1, <1>2, <1>6, <1>8, <1>11, GoneStays, Settles

\* Stock is released as the pass says.
LEMMA Releases ==
  ASSUME Inv, Inv', NEW p \in Passes, NEW n \in Count, Release(pass[p], n),
         book' = [book EXCEPT ![p].released = @ + Total(n)],
         pass[p].kind \in Reversible, pass[p].status \in Gone, pass'[p].status \in Gone,
         pass'[p].cell = pass[p].cell, pass'[p].kind = pass[p].kind, NEW c \in Cells
  PROVE  blocked'[c] = blocked[c] + Lent(c, pass'[p], book'[p]) - Lent(c, pass[p], book[p])
<1> DEFINE g == pass[p]
           h == pass'[p]
           b == book[p]
           d == book'[p]
           m == Total(n)
<1>1. /\ b \in Book /\ d \in Book /\ d.out = b.out /\ d.released = b.released + m /\ m \in Nat
      /\ g.cell \in Cells /\ blocked[c] \in Int
  BY InvTypes, FieldTyping, TotalTyping DEF Inv, TypeOK, Book
<1>2. blocked'[c] = IF g.cell = c THEN blocked[c] - m ELSE blocked[c]
  BY <1>1, InvTypes DEF Release, StockTypeOK
<1>3. /\ g.cell # c => Lent(c, h, d) = 0 /\ Lent(c, g, b) = 0
      /\ g.cell = c => Lent(c, h, d) = d.out - d.released /\ Lent(c, g, b) = b.out - b.released
  <2>1. g.status # "deleted" /\ h.status # "deleted" /\ h.cell = g.cell /\ h.kind = g.kind
        /\ g.kind \in Reversible
    BY StatusSplit
  <2> HIDE DEF g, h, b, d
  <2>2. QED
    BY <1>1, <2>1, LentMoved
<1>4. b.out \in Nat /\ b.released \in Nat
  BY <1>1, BookFields
<1> HIDE DEF g, h, b, d, m
<1>5. blocked'[c] = blocked[c] + Lent(c, h, d) - Lent(c, g, b)
  BY <1>1, <1>2, <1>3, <1>4
<1>6. QED
  BY <1>5 DEF g, h, b, d

LEMMA SerialReturn ==
  ASSUME Inv, Inv', SerialInv, Solo', NEW r \in Requests, \A q \in Requests : q # r => pc[q] = "idle",
         FinishReturn(r)
  PROVE  SerialInv'
<1>0. PICK p : p = job[r].pass
  OBVIOUS
<1> DEFINE g == pass[p]
           b == book[p]
           n == job[r].count
           back == g.back + Total(n)
           s == IF back >= g.qty THEN "RETURNED"
                ELSE IF back > 0 THEN "PARTIALLY_RETURNED" ELSE g.status
           h == [g EXCEPT !.back = back, !.status = s]
           d == [b EXCEPT !.released = @ + Total(n)]
<1>1. pc[r] = "take in" /\ Answer(r)
  BY DEF FinishReturn
<1>2. /\ p \in Passes /\ g \in Pass /\ b \in Book /\ n \in Count
      /\ Grip(pc[r], job[r], g) /\ Story(g, b)
  BY <1>0, <1>1, Gripped
<1>3. /\ job[r].seen = g /\ g.status \in {"OUT", "PARTIALLY_RETURNED"} /\ g.kind # "PERMANENT"
      /\ WithinRest(g, n)
  BY <1>1, <1>2 DEF Grip
<1>4. Moved(g, b) /\ g.status \in Gone /\ g.kind \in Reversible
  BY <1>2, <1>3, FieldTyping, StatusSplit DEF Story, Kinds
<1>5. Total(n) \in Nat /\ g.back \in Nat /\ g.qty \in Nat /\ back \in Nat
  BY <1>2, TotalTyping, FieldTyping
<1>6. Store(r, h) /\ Release(g, n) /\ book' = [book EXCEPT ![p].released = @ + Total(n)]
  <2> DEFINE sum == IF Total(n) > 0 THEN g.back + Total(n) ELSE g.back
             next == CASE sum >= g.qty -> "RETURNED"
                       [] sum < g.qty /\ sum > 0 -> "PARTIALLY_RETURNED"
                       [] OTHER -> g.status
             now == IF next # g.status THEN next ELSE g.status
  <2>1. sum = back
    BY <1>5
  <2>2. Store(r, [g EXCEPT !.back = sum, !.status = IF next # g.status THEN next ELSE @])
    BY <1>0, <1>3 DEF FinishReturn
  <2>3. now = s
    BY <1>5, <2>1
  <2> HIDE DEF next, sum
  <2>4. Store(r, [g EXCEPT !.back = sum, !.status = now])
    BY <1>2, <2>2 DEF Pass
  <2> HIDE DEF now, s, back
  <2>6. Store(r, h)
    BY <2>1, <2>3, <2>4
  <2>7. QED
    BY <1>0, <1>3, <2>6 DEF FinishReturn
<1>7. /\ pass'[p] = h /\ book'[p] = d
      /\ \A q \in Passes : q # p => pass'[q] = pass[q] /\ book'[q] = book[q]
  <2>1. book'[p] = d /\ \A q \in Passes : q # p => book'[q] = book[q]
    BY <1>2, <1>6, InvTypes
  <2> HIDE DEF h, d, g
  <2>2. Store(r, h) /\ pc[r] # "idle"
    BY <1>1, <1>6
  <2>3. pass'[p] = h /\ \A q \in Passes : q # p => pass'[q] = pass[q]
    BY <1>0, <2>2, Frame
  <2>4. QED
    BY <2>1, <2>3
<1>8. h \in Pass /\ d \in Book
  <2> HIDE DEF h, d
  <2>1. QED
    BY <1>2, <1>7 DEF Inv, TypeOK
<1>9. Moved(h, d) /\ h.status \in Gone
  <2> HIDE DEF back, s, h, d, g, b, n
  <2>1. QED
    BY <1>2, <1>3, <1>4, <1>5, <1>8, StoryReturned DEF back, s, h, d
<1>10. h.cell = g.cell /\ h.kind = g.kind
  BY <1>2 DEF Pass
<1>11. \A c \in Cells : blocked'[c] = blocked[c] + Lent(c, pass'[p], book'[p]) - Lent(c, pass[p], book[p])
  <2> HIDE DEF h, d, n
  <2>1. QED
    BY <1>2, <1>4, <1>6, <1>7, <1>9, <1>10, Releases
<1>12. Story(pass'[p], book'[p])
  <2> HIDE DEF h, d
  <2>1. Story(h, d)
    BY <1>9, GoneStays
  <2>2. QED
    BY <1>7, <2>1
<1>13. QED
  BY <1>1, <1>2, <1>7, <1>11, <1>12, Settles

LEMMA SerialTakeBack ==
  ASSUME Inv, Inv', SerialInv, Solo', NEW r \in Requests, \A q \in Requests : q # r => pc[q] = "idle",
         FinishTakeBack(r)
  PROVE  SerialInv'
<1>0. PICK p : p = job[r].pass
  OBVIOUS
<1> DEFINE g == pass[p]
           b == book[p]
           n == job[r].count
           h == [g EXCEPT !.status = "RETURNED"]
           d == [b EXCEPT !.released = @ + Total(n)]
<1>1. pc[r] = "release" /\ Answer(r)
  BY DEF FinishTakeBack
<1>2. /\ p \in Passes /\ g \in Pass /\ b \in Book /\ n \in Count
      /\ Grip(pc[r], job[r], g) /\ Story(g, b)
  BY <1>0, <1>1, Gripped
<1>3. job[r].seen = g /\ g.status = "RETURN_RECEIVED_AT_GATE" /\ Total(n) <= g.back
  BY <1>1, <1>2 DEF Grip
<1>4. Moved(g, b) /\ g.status \in Gone
  BY <1>2, <1>3, StatusSplit DEF Story
<1>5. g.kind \in Reversible
  BY <1>3, <1>4 DEF Moved, OnTheWay, OverGates
<1>6. Store(r, h) /\ Release(g, n) /\ book' = [book EXCEPT ![p].released = @ + Total(n)]
  BY <1>0, <1>3 DEF FinishTakeBack, SetStatus
<1>7. /\ pass'[p] = h /\ book'[p] = d
      /\ \A q \in Passes : q # p => pass'[q] = pass[q] /\ book'[q] = book[q]
  <2>1. book'[p] = d /\ \A q \in Passes : q # p => book'[q] = book[q]
    BY <1>2, <1>6, InvTypes
  <2> HIDE DEF h, d, g
  <2>2. Store(r, h) /\ pc[r] # "idle"
    BY <1>1, <1>6
  <2>3. pass'[p] = h /\ \A q \in Passes : q # p => pass'[q] = pass[q]
    BY <1>0, <2>2, Frame
  <2>4. QED
    BY <2>1, <2>3
<1>8. h \in Pass /\ d \in Book
  <2> HIDE DEF h, d
  <2>1. QED
    BY <1>2, <1>7 DEF Inv, TypeOK
<1>9. Moved(h, d) /\ h.status \in Gone
  BY <1>2, <1>3, <1>4, <1>8, StoryTakenBack
<1>10. h.cell = g.cell /\ h.kind = g.kind
  BY <1>2 DEF Pass
<1>11. \A c \in Cells : blocked'[c] = blocked[c] + Lent(c, pass'[p], book'[p]) - Lent(c, pass[p], book[p])
  <2> HIDE DEF h, d, n
  <2>1. QED
    BY <1>2, <1>4, <1>5, <1>6, <1>7, <1>9, <1>10, Releases
<1>12. Story(pass'[p], book'[p])
  <2> HIDE DEF h, d
  <2>1. Story(h, d)
    BY <1>9, GoneStays
  <2>2. QED
    BY <1>7, <2>1
<1>13. QED
  BY <1>1, <1>2, <1>7, <1>11, <1>12, Settles

\* After the exit, the rest of the handlers write the pass and the books of the
\* other hotel.
LEMMA SerialAfter ==
  ASSUME Inv, Inv', SerialInv, Solo', NEW r \in Requests, \A q \in Requests : q # r => pc[q] = "idle",
         \/ FinishClose(r) \/ FinishReceipt(r) \/ FinishAccept(r) \/ FinishShipBack(r)
         \/ FinishGateOut(r) \/ FinishArrival(r)
  PROVE  SerialInv'
<1>0. PICK p : p = job[r].pass
  OBVIOUS
<1> DEFINE g == pass[p]
           b == book[p]
           n == job[r].count
<1>1. pc[r] # "idle" /\ Answer(r) /\ UNCHANGED stock
  BY DEF FinishClose, FinishReceipt, FinishAccept, FinishShipBack, FinishGateOut, FinishArrival
<1>2. /\ p \in Passes /\ g \in Pass /\ b \in Book /\ n \in Count
      /\ Grip(pc[r], job[r], g) /\ Story(g, b)
  BY <1>0, <1>1, Gripped
<1>3. g.status \in Gone
  BY <1>2, StatusSplit DEF Grip, MayAccept, FinishClose, FinishReceipt, FinishAccept,
                           FinishShipBack, FinishGateOut, FinishArrival
<1>4. Moved(g, b)
  BY <1>2, <1>3 DEF Story
<1>5. ASSUME NEW h, NEW d, Store(r, h), book'[p] = d, \A q \in Passes : q # p => book'[q] = book[q],
             h.cell = g.cell, h.kind = g.kind, d.out = b.out, d.released = b.released,
             h \in Pass /\ d \in Book => Moved(h, d) /\ h.status \in Gone
      PROVE  SerialInv'
  <2>1. pass'[p] = h /\ \A q \in Passes : q # p => pass'[q] = pass[q]
    BY <1>0, <1>1, <1>5, Frame
  <2>2. h \in Pass /\ d \in Book
    BY <1>2, <1>5, <2>1 DEF Inv, TypeOK
  <2>3. Story(pass'[p], book'[p])
    BY <1>5, <2>1, <2>2, GoneStays
  <2>4. \A c \in Cells : Lent(c, pass'[p], book'[p]) = Lent(c, pass[p], book[p])
    BY <1>2, <1>3, <1>5, <2>1, <2>2, LentMoved, StatusSplit
  <2>5. QED
    BY <1>1, <1>2, <1>5, <2>1, <2>3, <2>4, SettlesQuietly
<1>6. CASE FinishClose(r)
  <2> DEFINE h == [g EXCEPT !.status = "CLOSED"]
  <2>1. Store(r, h) /\ book' = book
    BY <1>0, <1>6 DEF FinishClose, SetStatus
  <2>2. h.cell = g.cell /\ h.kind = g.kind /\ (h \in Pass => Moved(h, b) /\ h.status \in Gone)
    BY <1>2, <1>4, StoryClosed DEF Pass
  <2> HIDE DEF h
  <2>3. QED
    BY <1>5, <2>1, <2>2
<1>7. CASE FinishReceipt(r)
  <2> DEFINE h == [g EXCEPT !.status = "RECEIVED_AT_DESTINATION", !.gateIn = TRUE, !.received = n.good]
             m == IF g.kind = "PERMANENT" THEN g.qty - n.good ELSE 0
             d == [b EXCEPT !.missing = @ + m]
  <2>1. g.internal /\ g.status = "OUT" /\ job[r].seen = g
    BY <1>2, <1>7 DEF FinishReceipt, Grip
  <2>2. Store(r, h) /\ book' = [book EXCEPT ![p].missing = @ + m]
    BY <1>0, <1>7, <2>1 DEF FinishReceipt
  <2>3. book'[p] = d /\ \A q \in Passes : q # p => book'[q] = book[q]
    BY <1>2, <2>2, InvTypes
  <2>4. n.good \in Nat /\ n.good <= g.qty
    BY <1>0, <1>2, <1>7, <2>1, TotalTyping, InvTypes DEF FinishReceipt, RequestOK
  <2>5. h.cell = g.cell /\ h.kind = g.kind /\ d.out = b.out /\ d.released = b.released
    BY <1>2 DEF Pass, Book
  <2>6. h \in Pass /\ d \in Book => Moved(h, d) /\ h.status \in Gone
    BY <1>2, <1>4, <2>1, <2>4, StoryReceived
  <2> HIDE DEF h, d
  <2>7. QED
    BY <1>5, <2>2, <2>3, <2>5, <2>6
<1>8. CASE FinishAccept(r)
  <2> DEFINE h == [g EXCEPT !.accepted = TRUE, !.status =
                     IF g.kind = "PERMANENT" \/ g.status = "RETURNED" THEN "CLOSED" ELSE g.status]
             d == IF g.kind = "PERMANENT" THEN [b EXCEPT !.arrived = @ + Received(g)]
                                          ELSE [b EXCEPT !.custody = @ + Received(g)]
  <2>1. MayAccept(g) /\ job[r].seen = g
    BY <1>2, <1>8 DEF FinishAccept, Grip
  <2>2. Store(r, h)
    BY <1>0, <1>2, <1>8, <2>1 DEF FinishAccept, Pass
  <2>3. book'[p] = d /\ \A q \in Passes : q # p => book'[q] = book[q]
    BY <1>0, <1>2, <1>8, <2>1, InvTypes DEF FinishAccept
  <2>4. h.cell = g.cell /\ h.kind = g.kind /\ d.out = b.out /\ d.released = b.released
    BY <1>2 DEF Pass, Book
  <2>5. h \in Pass /\ d \in Book => Moved(h, d) /\ h.status \in Gone
    BY <1>2, <1>4, <2>1, StoryAccepted
  <2> HIDE DEF h, d
  <2>6. QED
    BY <1>5, <2>2, <2>3, <2>4, <2>5
<1>9. CASE FinishShipBack(r)
  <2> DEFINE h == [g EXCEPT !.status = "RETURNING", !.gateOut = FALSE]
  <2>1. Store(r, h) /\ book' = book /\ g.status = "RECEIVED_AT_DESTINATION" /\ g.accepted
    BY <1>0, <1>2, <1>9 DEF FinishShipBack, Grip
  <2>2. h.cell = g.cell /\ h.kind = g.kind /\ (h \in Pass => Moved(h, b) /\ h.status \in Gone)
    BY <1>2, <1>4, <2>1, StoryShipped DEF Pass
  <2> HIDE DEF h
  <2>3. QED
    BY <1>5, <2>1, <2>2
<1>10. CASE FinishGateOut(r)
  <2> DEFINE h == [g EXCEPT !.gateOut = TRUE]
             d == [b EXCEPT !.custody = @ - Received(g)]
  <2>1. g.status = "RETURNING" /\ ~g.gateOut /\ job[r].seen = g
    BY <1>2, <1>10 DEF FinishGateOut, Grip
  <2>2. Store(r, h)
    BY <1>0, <1>10, <2>1 DEF FinishGateOut
  <2>3. book'[p] = d /\ \A q \in Passes : q # p => book'[q] = book[q]
    BY <1>0, <1>2, <1>10, <2>1, InvTypes DEF FinishGateOut
  <2>4. h.cell = g.cell /\ h.kind = g.kind /\ d.out = b.out /\ d.released = b.released
    BY <1>2 DEF Pass, Book
  <2>5. h \in Pass /\ d \in Book => Moved(h, d) /\ h.status \in Gone
    BY <1>2, <1>4, <2>1, StoryLetOut
  <2> HIDE DEF h, d
  <2>6. QED
    BY <1>5, <2>2, <2>3, <2>4, <2>5
<1>11. CASE FinishArrival(r)
  <2> DEFINE h == [g EXCEPT !.status = "RETURN_RECEIVED_AT_GATE", !.gateIn = TRUE,
                            !.back = g.back + Total(n)]
  <2>1. g.status = "RETURNING" /\ g.gateOut /\ job[r].seen = g /\ WithinRest(g, n)
    BY <1>2, <1>11 DEF FinishArrival, Grip
  <2>2. Store(r, h) /\ book' = book
    BY <1>0, <1>11, <2>1 DEF FinishArrival
  <2>3. h.cell = g.cell /\ h.kind = g.kind /\ (h \in Pass => Moved(h, b) /\ h.status \in Gone)
    BY <1>2, <1>4, <2>1, StoryArrived DEF Pass
  <2> HIDE DEF h
  <2>4. QED
    BY <1>5, <2>2, <2>3
<1>12. QED
  BY <1>6, <1>7, <1>8, <1>9, <1>10, <1>11

\* Nothing is written: the request goes on, or somebody has begun one.
LEMMA Progresses ==
  ASSUME Inv, SerialInv, Solo', NEW r \in Requests, \A q \in Requests : q # r => pc'[q] = "idle",
         UNCHANGED <<stock, pass, book, closed>>, Holds(r)'
  PROVE  SerialInv'
<1>1. \A q \in Requests : Holds(q)'
  BY DEF Holds
<1>2. \A p \in Passes : Story(pass[p], book[p])'
  BY DEF SerialInv
<1>3. BlockedIsLent'
  BY DEF SerialInv, BlockedIsLent, stock
<1>4. QED
  BY <1>1, <1>2, <1>3 DEF SerialInv

LEMMA SerialLook ==
  ASSUME Inv, Inv', SerialInv, Solo', NEW r \in Requests, \A q \in Requests : q # r => pc[q] = "idle",
         LookExit(r) \/ LookReturn(r) \/ LookTakeBack(r)
  PROVE  SerialInv'
<1>0. PICK p : p = job[r].pass
  OBVIOUS
<1> DEFINE g == pass[p]
<1>1. /\ pc[r] # "idle" /\ UNCHANGED <<stock, pass, book, closed>>
      /\ \E step \in Steps : pc' = [pc EXCEPT ![r] = step]
  BY DEF LookExit, LookReturn, LookTakeBack, Steps
<1>2. \A q \in Requests : q # r => pc'[q] = "idle"
  BY <1>1, InvTypes
<1>3. /\ p \in Passes /\ g \in Pass /\ Grip(pc[r], job[r], g) /\ Story(g, book[p])
      /\ job[r] \in Job /\ job[r].count \in Count
      /\ pc[r] \in {"exit", "move out", "return", "take in"} => ~closed
  BY <1>0, <1>1, Gripped, InvTypes
<1>4. CASE LookExit(r)
  <2>1. /\ pc'[r] = "move out" /\ job'[r] = [job[r] EXCEPT !.seen = g] /\ pc[r] = "exit"
        /\ g.status = "PENDING_SECURITY"
    BY <1>0, <1>4, InvTypes DEF LookExit
  <2>2. job'[r].pass = p /\ job'[r].seen = g
    BY <1>0, <1>3, <2>1 DEF Job
  <2>3. Grip("move out", job'[r], g)
    BY <2>1, <2>2 DEF Grip
  <2>4. Holds(r)'
    BY <1>1, <1>3, <2>1, <2>2, <2>3 DEF Holds
  <2>5. QED
    BY <1>1, <1>2, <2>4, Progresses
<1>5. CASE LookReturn(r)
  <2>1. /\ pc[r] = "return" /\ pc'[r] = "take in" /\ job[r].seen = g
        /\ g.status \in {"OUT", "PARTIALLY_RETURNED"} /\ g.kind # "PERMANENT"
    BY <1>3, <1>5, InvTypes DEF LookReturn, Grip
  <2> DEFINE n == job[r].count
             x == [g EXCEPT !.status = g.status]
  <2>2. /\ job' = [job EXCEPT ![r].seen = x, ![r].count = n]
        /\ Total(n) > 0 => WithinRest(g, n)
    BY <1>0, <1>5, <2>1 DEF LookReturn
  <2>3. x = g
    BY <1>3 DEF Pass
  <2> HIDE DEF x
  <2>4. job'[r].pass = p /\ job'[r].seen = g /\ job'[r].count = n
    BY <1>0, <1>3, <2>2, <2>3, InvTypes DEF Job
  <2>5. WithinRest(g, n)
    <3>1. g.back <= g.qty
      BY <1>3, <2>1, StatusSplit DEF Story, Moved
    <3>2. Total(n) \in Nat /\ g.back \in Nat /\ g.qty \in Nat
      BY <1>3, TotalTyping, FieldTyping
    <3>3. QED
      BY <2>2, <3>1, <3>2 DEF WithinRest
  <2>6. Grip("take in", job'[r], g)
    BY <2>1, <2>4, <2>5 DEF Grip
  <2>7. Holds(r)'
    BY <1>1, <1>3, <2>1, <2>4, <2>6 DEF Holds
  <2>8. QED
    BY <1>1, <1>2, <2>7, Progresses
<1>6. CASE LookTakeBack(r)
  <2>1. pc'[r] = "release" /\ pc[r] = "take back" /\ job' = job
    BY <1>6, InvTypes DEF LookTakeBack
  <2>2. Grip("release", job[r], g)
    BY <1>3, <2>1 DEF Grip
  <2>3. Holds(r)'
    BY <1>0, <1>1, <2>1, <2>2 DEF Holds
  <2>4. QED
    BY <1>1, <1>2, <2>3, Progresses
<1>7. QED
  BY <1>4, <1>5, <1>6

LEMMA SerialRefuse ==
  ASSUME Inv, SerialInv, Solo', NEW r \in Requests, \A q \in Requests : q # r => pc[q] = "idle",
         Refuse(r)
  PROVE  SerialInv'
<1>1. UNCHANGED <<stock, pass, book, closed>> /\ \A q \in Requests : pc'[q] = "idle"
  BY InvTypes DEF Refuse, Answer
<1>2. Holds(r)'
  BY <1>1 DEF Holds
<1>3. QED
  BY <1>1, <1>2, Progresses

\* A request begins with what it has checked.
LEMMA Begins ==
  ASSUME Inv, SerialInv, Solo', NEW r \in Requests, \A q \in Requests : pc[q] = "idle",
         NEW p \in Passes, NEW step, NEW j, Take(r, step, j), j.pass = p, Grip(step, j, pass[p]),
         step \in {"exit", "move out", "return", "take in"} => ~closed
  PROVE  SerialInv'
<1>1. UNCHANGED <<stock, pass, book, closed>> /\ pc'[r] = step /\ job'[r] = j
  BY InvTypes DEF Take
<1>2. \A q \in Requests : q # r => pc'[q] = "idle"
  BY InvTypes DEF Take
<1>3. Holds(r)'
  BY <1>1 DEF Holds
<1>4. QED
  BY <1>1, <1>2, <1>3, Progresses

LEMMA SerialDrafts ==
  ASSUME Inv, SerialInv, Solo', NEW r \in Requests, \A q \in Requests : pc[q] = "idle",
         NEW p \in Passes,
         \/ \E f \in Forms : BeginEdit(r, p, f)
         \/ BeginDelete(r, p) \/ BeginClose(r, p)
         \/ \E role \in Roles :
              \/ BeginSubmit(r, p, role) \/ BeginSign(r, p, role) \/ BeginReject(r, p, role)
              \/ BeginExit(r, p, role) \/ BeginShipBack(r, p, role)
  PROVE  SerialInv'
<1>1. ASSUME NEW f \in Forms, BeginEdit(r, p, f) PROVE SerialInv'
  <2> DEFINE j == [On(p) EXCEPT !.form = f]
  <2>1. j.pass = p
    BY GatePassAssumption, OnTyping
  <2>2. Take(r, "edit", j) /\ pass[p].status = "DRAFT"
    BY <1>1 DEF BeginEdit
  <2> HIDE DEF j
  <2>3. Grip("edit", j, pass[p])
    BY <2>2 DEF Grip
  <2>4. QED
    BY <2>1, <2>2, <2>3, Begins
<1>2. CASE BeginDelete(r, p)
  <2>1. Take(r, "delete", On(p)) /\ Grip("delete", On(p), pass[p])
    BY <1>2 DEF BeginDelete, Grip
  <2>2. QED
    BY <2>1, OnTyping, Begins
<1>3. CASE BeginClose(r, p)
  <2>1. Take(r, "close", On(p)) /\ Grip("close", On(p), pass[p])
    BY <1>3 DEF BeginClose, Grip
  <2>2. QED
    BY <2>1, OnTyping, Begins
<1>4. ASSUME NEW role \in Roles, BeginSubmit(r, p, role) PROVE SerialInv'
  <2> DEFINE j == [On(p) EXCEPT !.role = role]
  <2>1. j.pass = p
    BY OnTyping
  <2>2. Take(r, "submit", j) /\ pass[p].status = "DRAFT"
    BY <1>4 DEF BeginSubmit
  <2> HIDE DEF j
  <2>3. Grip("submit", j, pass[p])
    BY <2>2 DEF Grip
  <2>4. QED
    BY <2>1, <2>2, <2>3, Begins
<1>5. ASSUME NEW role \in Roles, BeginSign(r, p, role) PROVE SerialInv'
  <2> DEFINE j == [On(p) EXCEPT !.seen.status = pass[p].status]
  <2>1. j.pass = p /\ j.seen.status = pass[p].status
    BY OnTyping, InvTypes DEF Job, Pass
  <2>2. Take(r, "sign", j)
    BY <1>5 DEF BeginSign
  <2> HIDE DEF j
  <2>3. Grip("sign", j, pass[p])
    BY <2>1 DEF Grip
  <2>4. QED
    BY <2>1, <2>2, <2>3, Begins
<1>6. ASSUME NEW role \in Roles, BeginReject(r, p, role) PROVE SerialInv'
  <2>1. Take(r, "reject", On(p)) /\ Grip("reject", On(p), pass[p])
    BY <1>6 DEF BeginReject, MayDecide, Pending, Grip
  <2>2. QED
    BY <2>1, OnTyping, Begins
<1>7. ASSUME NEW role \in Roles, BeginExit(r, p, role) PROVE SerialInv'
  <2>1. Take(r, "exit", On(p)) /\ Grip("exit", On(p), pass[p]) /\ ~closed
    BY <1>7 DEF BeginExit, Grip
  <2>2. QED
    BY <2>1, OnTyping, Begins
<1>8. ASSUME NEW role \in Roles, BeginShipBack(r, p, role) PROVE SerialInv'
  <2>1. Take(r, "ship back", On(p)) /\ Grip("ship back", On(p), pass[p])
    BY <1>8 DEF BeginShipBack, Grip
  <2>2. QED
    BY <2>1, OnTyping, Begins
<1>9. QED
  BY <1>1, <1>2, <1>3, <1>4, <1>5, <1>6, <1>7, <1>8

LEMMA SerialReads ==
  ASSUME Inv, SerialInv, Solo', NEW r \in Requests, \A q \in Requests : pc[q] = "idle",
         NEW p \in Passes,
         \/ \E role \in Roles : BeginAccept(r, p, role) \/ BeginGateOut(r, p, role)
         \/ \E n \in Counts :
              \/ BeginReturn(r, p, n) \/ BeginReceipt(r, p, n)
              \/ \E role \in Roles : BeginArrival(r, p, role, n) \/ BeginTakeBack(r, p, role, n)
  PROVE  SerialInv'
<1>1. TypeOK /\ Having(p).pass = p /\ Having(p).seen = pass[p]
  BY InvTypes, HavingTyping
<1>2. ASSUME NEW role \in Roles, BeginAccept(r, p, role) PROVE SerialInv'
  <2>1. Take(r, "accept", Having(p)) /\ Grip("accept", Having(p), pass[p])
    BY <1>1, <1>2 DEF BeginAccept, Grip
  <2>2. QED
    BY <1>1, <2>1, Begins
<1>3. ASSUME NEW role \in Roles, BeginGateOut(r, p, role) PROVE SerialInv'
  <2>1. Take(r, "gate out", Having(p)) /\ Grip("gate out", Having(p), pass[p])
    BY <1>1, <1>3 DEF BeginGateOut, Grip
  <2>2. QED
    BY <1>1, <2>1, Begins
<1>4. ASSUME NEW n \in Counts,
             \/ BeginReturn(r, p, n) \/ BeginReceipt(r, p, n)
             \/ \E role \in Roles : BeginArrival(r, p, role, n) \/ BeginTakeBack(r, p, role, n)
      PROVE  SerialInv'
  <2> DEFINE j == [Having(p) EXCEPT !.count = n]
  <2>1. j.pass = p /\ j.seen = pass[p] /\ j.count = n
    BY <1>1, HavingTyping, GatePassAssumption
  <2>2. CASE BeginReturn(r, p, n)
    <3>1. Take(r, "return", j) /\ ~closed
      BY <2>2 DEF BeginReturn
    <3> HIDE DEF j
    <3>2. Grip("return", j, pass[p])
      BY <2>1, <2>2 DEF BeginReturn, Grip
    <3>3. QED
      BY <2>1, <3>1, <3>2, Begins
  <2>3. CASE BeginReceipt(r, p, n)
    <3>1. Take(r, "receipt", j)
      BY <2>3 DEF BeginReceipt
    <3> HIDE DEF j
    <3>2. Grip("receipt", j, pass[p])
      BY <2>1, <2>3 DEF BeginReceipt, Grip
    <3>3. QED
      BY <2>1, <3>1, <3>2, Begins
  <2>4. ASSUME NEW role \in Roles, BeginArrival(r, p, role, n) PROVE SerialInv'
    <3>1. Take(r, "arrival", j)
      BY <2>4 DEF BeginArrival
    <3> HIDE DEF j
    <3>2. Grip("arrival", j, pass[p])
      BY <2>1, <2>4 DEF BeginArrival, Grip
    <3>3. QED
      BY <2>1, <3>1, <3>2, Begins
  <2>5. ASSUME NEW role \in Roles, BeginTakeBack(r, p, role, n) PROVE SerialInv'
    <3>1. Take(r, "take back", j)
      BY <2>5 DEF BeginTakeBack
    <3> HIDE DEF j
    <3>2. Grip("take back", j, pass[p])
      BY <2>1, <2>5 DEF BeginTakeBack, Grip
    <3>3. QED
      BY <2>1, <3>1, <3>2, Begins
  <2>6. QED
    BY <1>4, <2>2, <2>3, <2>4, <2>5
<1>5. QED
  BY <1>2, <1>3, <1>4

LEMMA SerialCreate ==
  ASSUME Inv, Inv', SerialInv, Solo', NEW r \in Requests, \A q \in Requests : pc[q] = "idle",
         NEW p \in Passes, NEW f \in Forms, CreateGetPass(r, p, f)
  PROVE  SerialInv'
<1> DEFINE h == Written(f, "DRAFT", 0)
<1>1. /\ pass' = [pass EXCEPT ![p] = h] /\ pass[p].status = "none"
      /\ UNCHANGED <<stock, book, closed, pc, job>>
  BY DEF CreateGetPass
<1>2. h.status = "DRAFT" /\ Unmoved(h, NewBook)
  BY StoryCreated, GatePassAssumption
<1> HIDE DEF h
<1>3. Unmoved(pass[p], book[p])
  BY <1>1, StatusSplit DEF SerialInv, Story
<1>4. /\ pass'[p] = h /\ book'[p] = book[p] /\ book[p] = NewBook
      /\ \A q \in Passes : q # p => pass'[q] = pass[q] /\ book'[q] = book[q]
  BY <1>1, <1>3, InvTypes DEF Unmoved
<1>5. Unmoved(pass'[p], book'[p]) /\ Story(pass'[p], book'[p])
  BY <1>2, <1>4, StatusSplit DEF Story
<1>6. \A q \in Passes : Story(pass[q], book[q])'
  BY <1>4, <1>5 DEF SerialInv
<1>7. ASSUME NEW c \in Cells
      PROVE  blocked'[c] = blocked[c] + Lent(c, pass'[p], book'[p]) - Lent(c, pass[p], book[p])
  <2>1. Lent(c, pass'[p], book'[p]) = 0 /\ Lent(c, pass[p], book[p]) = 0
    BY <1>3, <1>5, LentOfUnmoved
  <2>2. blocked'[c] = blocked[c] /\ blocked[c] \in Int
    BY <1>1, InvTypes DEF stock, StockTypeOK
  <2>3. QED
    BY <2>1, <2>2
<1>8. BlockedIsLent'
  BY <1>4, <1>7, LentFollows DEF SerialInv
<1>9. \A q \in Requests : Holds(q)'
  BY <1>1 DEF Holds
<1>10. QED
  BY <1>6, <1>8, <1>9 DEF SerialInv

\* While no request is in progress.
LEMMA SerialElsewhere ==
  ASSUME Inv, SerialInv, Solo', Elsewhere, \A q \in Requests : pc[q] = "idle"
  PROVE  SerialInv'
<1>1. UNCHANGED <<blocked, pass, book, pc, job>>
  BY DEF Elsewhere, PostClaim, Move, SetClosed, stock
<1>2. \A q \in Requests : Holds(q)'
  BY <1>1 DEF Holds
<1>3. QED
  BY <1>1, <1>2 DEF SerialInv, BlockedIsLent

LEMMA SerialInit == Init => SerialInv
<1> SUFFICES ASSUME Init PROVE SerialInv
  OBVIOUS
<1>1. \A p \in Passes : pass[p] = Written(Blank, "none", 0) /\ book[p] = NewBook
  BY DEF Init
<1>2. \A p \in Passes : Unmoved(pass[p], book[p]) /\ pass[p].status = "none"
  BY <1>1, StoryCreated, NeutralTyping
<1>3. \A p \in Passes : Story(pass[p], book[p])
  BY <1>2, StatusSplit DEF Story
<1>4. ASSUME NEW c \in Cells
      PROVE  blocked[c] = TotalOver([p \in Passes |-> Lent(c, pass[p], book[p])], Passes)
  <2> DEFINE f == [p \in Passes |-> Lent(c, pass[p], book[p])]
  <2>1. \A p \in Passes : f[p] = 0
    BY <1>2, LentOfUnmoved
  <2> HIDE DEF f
  <2>2. TotalOver(f, Passes) = 0
    BY <2>1, TotalZero, GatePassAssumption
  <2>3. QED
    BY <2>2 DEF f, Init
<1>5. QED
  BY <1>3, <1>4 DEF Init, SerialInv, Solo, Holds, BlockedIsLent

\* What is proved of the specification with the history.
FullInv == Inv /\ (overlapped \/ SerialInv)

LEMMA SerialStep ==
  ASSUME Inv, SerialInv, Next, NoteOverlap, ~overlapped'
  PROVE  SerialInv'
<1>1. Inv'
  BY InvNext
<1>2. Solo'
  BY Modes DEF SerialInv
<1>3. CASE \E r \in Requests, p \in Passes : Arrive(r, p) /\ \A q \in Requests : pc[q] = "idle"
  BY <1>1, <1>2, <1>3, SerialCreate, SerialDrafts, SerialReads DEF Arrive
<1>4. CASE \E r \in Requests : Continue(r) /\ pc[r] # "idle"
                               /\ \A q \in Requests : q # r => pc[q] = "idle"
  BY <1>1, <1>2, <1>4, SerialBefore, SerialExit, SerialReturn, SerialTakeBack, SerialAfter,
     SerialLook, SerialRefuse DEF Continue
<1>5. CASE Elsewhere /\ \A q \in Requests : pc[q] = "idle"
  BY <1>2, <1>5, SerialElsewhere
<1>6. QED
  BY <1>3, <1>4, <1>5, Modes DEF SerialInv

LEMMA FullInit == HistoryInit => FullInv
  BY InitInv, SerialInit DEF HistoryInit, FullInv

LEMMA FullStep == FullInv /\ [HistoryNext]_<<vars, overlapped>> => FullInv'
<1> SUFFICES ASSUME FullInv, [HistoryNext]_<<vars, overlapped>> PROVE FullInv'
  OBVIOUS
<1>1. CASE HistoryNext
  <2>1. Next /\ NoteOverlap
    BY <1>1 DEF HistoryNext
  <2>2. Inv'
    BY <2>1, InvNext DEF FullInv
  <2>3. overlapped => overlapped'
    BY <2>1 DEF NoteOverlap
  <2>4. QED
    BY <2>1, <2>2, <2>3, SerialStep DEF FullInv
<1>2. CASE UNCHANGED <<vars, overlapped>>
  <2>1. UNCHANGED vars /\ UNCHANGED overlapped
    BY <1>2
  <2>2. Inv'
    BY <2>1, InvNext DEF FullInv
  <2>3. UNCHANGED <<onHand, blocked, ledger, claims, charged, pass, book, closed, pc, job>>
    BY <2>1 DEF vars, stock
  <2>4. SerialInv => SerialInv'
    BY <2>3 DEF SerialInv, Solo, Holds, BlockedIsLent
  <2>5. QED
    BY <2>1, <2>2, <2>4 DEF FullInv
<1>3. QED
  BY <1>1, <1>2

-----------------------------------------------------------------------------
\* For any number of passes, balances, forms, counts and requests, and however
\* these overlap or fail, the state is well typed and what is available of a
\* balance is what its ledger says, but for the claims that were posted
\* (checkoutAndStampExitInTx, processReturns, acceptReturnIntoDepartment).
THEOREM GatePassStockIsBooked == Spec => [](TypeOK /\ StockIsBooked)
<1>1. Inv => TypeOK /\ StockIsBooked
  BY DEF Inv
<1> QED
  BY <1>1, InitInv, InvNext, PTL DEF Spec

-----------------------------------------------------------------------------
(* What the invariant says *)

\* What the balances have blocked is the sum that the property takes.
LEMMA LentIsSummed ==
  ASSUME Inv, NEW c \in Cells
  PROVE  SumOver({p \in Lines(c) : pass[p].kind \in Reversible},
                 LAMBDA p : book[p].out - book[p].released)
           = TotalOver([p \in Passes |-> Lent(c, pass[p], book[p])], Passes)
<1> DEFINE T == {p \in Lines(c) : pass[p].kind \in Reversible}
           f == [p \in Passes |-> Lent(c, pass[p], book[p])]
           C(g) == g = [s \in SUBSET T |->
                          IF s = {} THEN 0
                          ELSE (book[Pick(s)].out - book[Pick(s)].released) + g[s \ {Pick(s)}]]
           a == CHOOSE g : C(g)
           b == CHOOSE g : Adds(g, f, T)
<1>1. SumOver(T, LAMBDA p : book[p].out - book[p].released) = a[T]
  BY DEF SumOver, MapThenSumSet, MapThenFoldSet, Pick
<1>2. T \subseteq Passes /\ \A p \in T : f[p] = book[p].out - book[p].released
  BY DEF Lines, Lent
<1>3. IsFiniteSet(T)
  <2> HIDE DEF T
  <2>1. QED
    BY <1>2, GatePassAssumption, FS_Subset
<1>4. ASSUME NEW g PROVE C(g) <=> Adds(g, f, T)
  <2> HIDE DEF T, f
  <2>1. \A s \in SUBSET T : s # {} => f[Pick(s)] = book[Pick(s)].out - book[Pick(s)].released
    BY <1>2, PickIn
  <2>2. [s \in SUBSET T |-> IF s = {} THEN 0 ELSE f[Pick(s)] + g[s \ {Pick(s)}]]
          = [s \in SUBSET T |->
               IF s = {} THEN 0
               ELSE (book[Pick(s)].out - book[Pick(s)].released) + g[s \ {Pick(s)}]]
    BY <2>1
  <2>3. QED
    BY <2>2 DEF Adds
<1>5. Adds(a, f, T) /\ Adds(b, f, T)
  <2> HIDE DEF C, Adds, T, f
  <2>1. \E g : Adds(g, f, T)
    BY <1>3, AddsExists
  <2>2. \E g : C(g)
    BY <1>4, <2>1
  <2>3. C(a) /\ Adds(b, f, T)
    BY <2>1, <2>2
  <2> HIDE DEF a, b
  <2>4. QED
    BY <1>4, <2>3
<1>6. TotalOver(f, T) = b[T]
  BY TotalIsChosen
<1> HIDE DEF a, b, C
<1>7. a[T] = b[T]
  <2> HIDE DEF T, f
  <2>1. T \in SUBSET T
    OBVIOUS
  <2>2. QED
    BY <1>3, <1>5, <2>1, AddsOnce
<1>8. \A p \in Passes : f[p] \in Int /\ (p \notin T => f[p] = 0)
  <2>1. \A p \in Passes : book[p] \in Book
    BY InvTypes
  <2>2. \A p \in Passes : book[p].out - book[p].released \in Int
    BY <2>1, BookFields
  <2>3. QED
    BY <2>2 DEF Lines, Lent
<1>9. TotalOver(f, Passes) = TotalOver(f, Passes \cap T)
  <2> HIDE DEF T, f
  <2>1. QED
    BY <1>8, GatePassAssumption, TotalOfPart
<1>10. Passes \cap T = T
  BY <1>2
<1>11. QED
  BY <1>1, <1>6, <1>7, <1>9, <1>10

LEMMA StoriesAgree ==
  ASSUME NEW g \in Pass, NEW b \in Book, Story(g, b)
  PROVE  /\ b.out > 0 => Chain \cup {"SECURITY"} \subseteq g.signed /\ g.status \in Gone
         /\ b.out - b.released > 0 =>
              /\ g.status \in Gone
              /\ g.kind \in Reversible /\ ~g.internal =>
                   g.status \in {"OUT", "PARTIALLY_RETURNED", "CLOSED"}
              /\ g.gateOut => g.status \in {"RETURNING", "RETURN_RECEIVED_AT_GATE", "RETURNED", "CLOSED"}
         /\ b.missing > 0 => g.received # NotConfirmed /\ g.received < g.qty
         /\ g.status # "deleted" =>
              /\ b.released <= g.back /\ (g.status \in Gone => g.back <= g.qty)
              /\ g.internal \/ b.released = g.back
         /\ b.arrived + b.missing = IF g.kind # "PERMANENT" \/ ~g.gateIn THEN 0
                                    ELSE IF g.accepted THEN b.out ELSE g.qty - Received(g)
         /\ b.custody = IF g.kind \in Reversible /\ g.accepted /\ ~g.gateOut THEN Received(g) ELSE 0
<1>1. /\ b.out \in Nat /\ b.released \in Nat /\ b.arrived \in Nat /\ b.missing \in Nat
      /\ b.custody \in Int /\ g.qty \in Nat /\ g.back \in Nat /\ g.received \in Nat \cup {NotConfirmed}
      /\ g.kind \in Kinds /\ g.status \in Statuses
  BY BookFields, FieldTyping
<1>2. CASE Unmoved(g, b) /\ g.status \in Before
  BY <1>1, <1>2, StatusSplit DEF Unmoved, NewBook
<1>3. CASE Moved(g, b) /\ g.status \in Gone
  <2>1. g.gateIn => Received(g) = g.received /\ g.received \in Nat
    BY <1>1, <1>3 DEF Moved, Received
  <2>2. g.accepted => g.gateIn
    BY <1>3 DEF Moved
  <2>3. b.custody = IF g.kind \in Reversible /\ g.accepted /\ ~g.gateOut THEN Received(g) ELSE 0
    BY <1>3, <2>1, <2>2 DEF Moved
  <2>4. b.arrived + b.missing = IF g.kind # "PERMANENT" \/ ~g.gateIn THEN 0
                                ELSE IF g.accepted THEN b.out ELSE g.qty - Received(g)
    BY <1>1, <1>3, <2>1, <2>2 DEF Moved
  <2>5. b.missing > 0 => g.received # NotConfirmed /\ g.received < g.qty
    BY <1>1, <1>3, <2>1 DEF Moved
  <2>6. g.kind \in Reversible /\ ~g.internal /\ b.out - b.released > 0 =>
          g.status \in {"OUT", "PARTIALLY_RETURNED", "CLOSED"}
    <3>1. g.status = "RETURNED" /\ ~g.internal => g.back = g.qty /\ b.released = g.back /\ b.out = g.qty
      BY <1>3 DEF Moved, OnTheWay, OverGates
    <3>2. g.status \in {"RECEIVED_AT_DESTINATION", "RETURNING", "RETURN_RECEIVED_AT_GATE"} => g.internal
      BY <1>3 DEF Moved, OnTheWay, OverGates
    <3>3. QED
      BY <1>1, <1>3, <3>1, <3>2, StatusSplit
  <2>7. QED
    BY <1>1, <1>3, <2>3, <2>4, <2>5, <2>6 DEF Moved
<1>4. QED
  BY <1>1, <1>2, <1>3, StatusSplit DEF Story, Gone

\* While no two requests overlap, nothing leaves without its four signatures,
\* and what is away is on a list of whoever must act (approveGetPass,
\* getIncomingTransfers, getReturningTransfers, getOverduePasses).
THEOREM GatePassesAreConsistent == HistorySpec => []Consistent
<1>1. ASSUME Inv, SerialInv, NEW p \in Passes
      PROVE  /\ book[p].out > 0 => {"COST_CONTROL", "FINANCE", "GM", "SECURITY"} \subseteq pass[p].signed
             /\ pass[p].status # "deleted" =>
                  LET away == book[p].out - book[p].released > 0
                  IN  /\ away /\ pass[p].kind \in Reversible /\ ~pass[p].internal =>
                           Watched(p) \/ pass[p].status = "CLOSED"
                      /\ away /\ pass[p].internal => Incoming(p)
                      /\ away /\ pass[p].internal /\ pass[p].gateOut =>
                           Returning(p) \/ pass[p].status = "CLOSED"
                      /\ book[p].missing > 0 => Discrepant(p)
  <2> DEFINE g == pass[p]
             b == book[p]
  <2>1. g \in Pass /\ b \in Book /\ Story(g, b)
    BY <1>1, InvTypes DEF SerialInv
  <2>2. /\ b.out > 0 => Chain \cup {"SECURITY"} \subseteq g.signed
        /\ b.out - b.released > 0 =>
             /\ g.status \in Gone
             /\ g.kind \in Reversible /\ ~g.internal =>
                  g.status \in {"OUT", "PARTIALLY_RETURNED", "CLOSED"}
             /\ g.gateOut => g.status \in {"RETURNING", "RETURN_RECEIVED_AT_GATE", "RETURNED", "CLOSED"}
        /\ b.missing > 0 => g.received # NotConfirmed /\ g.received < g.qty
    <3> HIDE DEF g, b
    <3>1. QED
      BY <2>1, StoriesAgree
  <2>3. QED
    BY <2>2, StatusSplit DEF Chain, Watched, Incoming, Returning, Discrepant
<1>2. FullInv => Consistent
  BY <1>1, InvTypes DEF FullInv, Consistent, ExitIsSigned, ListsAreComplete, Alone
<1>3. QED
  BY FullInit, FullStep, <1>2, PTL DEF HistorySpec

\* While no two requests overlap, each balance has blocked what its passes have
\* lent, the desk and the gate count all that is released, and the books of the
\* other hotel hold what the pass says.
THEOREM CustodyIsKept == HistorySpec => []CustodyAgrees
<1>1. ASSUME Inv, SerialInv, NEW p \in Passes
      PROVE  /\ pass[p].status # "deleted" =>
                  /\ book[p].released <= pass[p].back /\ pass[p].back <= pass[p].qty
                  /\ pass[p].internal \/ book[p].released = pass[p].back
             /\ book[p].arrived + book[p].missing =
                  IF pass[p].kind # "PERMANENT" \/ ~pass[p].gateIn THEN 0
                  ELSE IF pass[p].accepted THEN book[p].out ELSE pass[p].qty - Received(pass[p])
             /\ book[p].custody =
                  IF pass[p].kind \in Reversible /\ pass[p].accepted /\ ~pass[p].gateOut
                    THEN Received(pass[p]) ELSE 0
  <2> DEFINE g == pass[p]
             b == book[p]
  <2>1. g \in Pass /\ b \in Book /\ Story(g, b)
    BY <1>1, InvTypes DEF SerialInv
  <2>2. g.back <= g.qty
    <3>1. g.back \in Nat /\ g.qty \in Nat /\ g.status \in Statuses
      BY <2>1, FieldTyping
    <3> HIDE DEF g, b
    <3>2. QED
      BY <2>1, <3>1 DEF Story, Unmoved, Moved, Gone
  <2> HIDE DEF g, b
  <2>3. /\ g.status # "deleted" =>
             /\ b.released <= g.back
             /\ g.internal \/ b.released = g.back
        /\ b.arrived + b.missing = IF g.kind # "PERMANENT" \/ ~g.gateIn THEN 0
                                   ELSE IF g.accepted THEN b.out ELSE g.qty - Received(g)
        /\ b.custody = IF g.kind \in Reversible /\ g.accepted /\ ~g.gateOut THEN Received(g) ELSE 0
    BY <2>1, StoriesAgree
  <2>4. QED
    BY <2>2, <2>3 DEF g, b
<1>2. ASSUME Inv, SerialInv PROVE LenderAgrees
  <2>1. \A c \in Cells : blocked[c] = SumOver({p \in Lines(c) : pass[p].kind \in Reversible},
                                              LAMBDA p : book[p].out - book[p].released)
    BY <1>2, LentIsSummed DEF SerialInv, BlockedIsLent
  <2>2. QED
    BY <1>1, <1>2, <2>1 DEF LenderAgrees
<1>3. FullInv => CustodyAgrees
  BY <1>1, <1>2 DEF FullInv, CustodyAgrees, DestinationAgrees, Alone
<1>4. QED
  BY FullInit, FullStep, <1>3, PTL DEF HistorySpec

-----------------------------------------------------------------------------
(* What a step may do *)

\* The step of the only request in progress overlaps with nothing.
LEMMA SerialContinue ==
  ASSUME Inv, SerialInv, NEW r \in Requests, Continue(r)
  PROVE  SerialInv'
<1>1. pc[r] # "idle" /\ \E step \in Steps : pc' = [pc EXCEPT ![r] = step]
  BY DEF Continue, FinishEdit, FinishDelete, FinishSubmit, FinishSign, FinishReject, LookExit,
         FinishExit, LookReturn, FinishReturn, FinishClose, FinishReceipt, FinishAccept,
         FinishShipBack, FinishGateOut, FinishArrival, LookTakeBack, FinishTakeBack, Refuse,
         Answer, Steps
<1>2. \A q \in Requests : q # r => pc[q] = "idle" /\ pc'[q] = "idle"
  BY <1>1, InvTypes DEF SerialInv, Solo
<1>3. Solo'
  BY <1>2 DEF Solo
<1>4. Inv'
  BY InvNext DEF Next
<1>5. QED
  BY <1>2, <1>3, <1>4, SerialBefore, SerialExit, SerialReturn, SerialTakeBack, SerialAfter,
     SerialLook, SerialRefuse DEF Continue

\* Goods leave once, in an open month; they come back over the desk, in an open
\* month, or are taken back from the gate.
LEMMA BooksMove ==
  ASSUME Inv, SerialInv, NEW r \in Requests, Continue(r), NEW p, p = job[r].pass
  PROVE  /\ \A q \in Passes : q # p => book'[q] = book[q]
         /\ \/ book'[p].out = book[p].out /\ book'[p].released = book[p].released
            \/ /\ book[p].out = 0 /\ book'[p].released = book[p].released /\ ~closed
            \/ /\ book'[p].out = book[p].out
               /\ \E n \in Nat : book'[p].released = book[p].released + n
               /\ ~closed \/ pass[p].status = "RETURN_RECEIVED_AT_GATE"
               /\ pass[p].status \in Gone /\ pass'[p].status \in Gone
<1> DEFINE n == Total(job[r].count)
           g == pass[p]
           b == book[p]
<1>1. pc[r] # "idle"
  BY DEF Continue, FinishEdit, FinishDelete, FinishSubmit, FinishSign, FinishReject, LookExit,
         FinishExit, LookReturn, FinishReturn, FinishClose, FinishReceipt, FinishAccept,
         FinishShipBack, FinishGateOut, FinishArrival, LookTakeBack, FinishTakeBack, Refuse
<1>2. /\ p \in Passes /\ g \in Pass /\ b \in Book /\ job[r].count \in Count
      /\ Grip(pc[r], job[r], g) /\ Story(g, b)
      /\ pc[r] \in {"exit", "move out", "return", "take in"} => ~closed
  BY <1>1, Gripped
<1>3. n \in Nat /\ book \in [Passes -> Book]
  BY <1>2, TotalTyping, InvTypes
<1>4. SerialInv' /\ Inv'
  BY SerialContinue, InvNext DEF Next
<1>5. CASE FinishExit(r)
  <2>1. pc[r] = "move out" /\ book' = [book EXCEPT ![p].out = @ + job[r].seen.qty]
    BY <1>5 DEF FinishExit
  <2>2. b.out = 0
    <3>1. g.status = "PENDING_SECURITY"
      BY <1>2, <2>1 DEF Grip
    <3>2. Unmoved(g, b)
      BY <1>2, <3>1, StatusSplit DEF Story
    <3>3. QED
      BY <3>2 DEF Unmoved, NewBook
  <2>3. book'[p].released = b.released /\ \A q \in Passes : q # p => book'[q] = book[q]
    BY <1>2, <1>3, <2>1 DEF Book
  <2>4. QED
    BY <1>2, <2>1, <2>2, <2>3
<1>6. CASE FinishReturn(r) \/ FinishTakeBack(r)
  <2>1. /\ pc[r] \in {"take in", "release"}
        /\ book' = [book EXCEPT ![p].released = @ + n]
    BY <1>6 DEF FinishReturn, FinishTakeBack
  <2>2. /\ g.status \in {"OUT", "PARTIALLY_RETURNED", "RETURN_RECEIVED_AT_GATE"}
        /\ ~closed \/ g.status = "RETURN_RECEIVED_AT_GATE"
    BY <1>2, <2>1 DEF Grip
  <2>3. book'[p].released = b.released + n /\ book'[p].out = b.out
        /\ \A q \in Passes : q # p => book'[q] = book[q]
    BY <1>2, <1>3, <2>1 DEF Book
  <2>4. pass'[p].status \in Gone
    <3>1. \E back, s : /\ Store(r, [g EXCEPT !.back = back, !.status = s])
                       /\ s \in {"RETURNED", "PARTIALLY_RETURNED", g.status, job[r].seen.status}
      <4>1. CASE FinishReturn(r)
        <5> DEFINE back == IF n > 0 THEN job[r].seen.back + n ELSE g.back
                   next == CASE back >= g.qty -> "RETURNED"
                             [] back < g.qty /\ back > 0 -> "PARTIALLY_RETURNED"
                             [] OTHER -> job[r].seen.status
                   now == IF next # job[r].seen.status THEN next ELSE g.status
        <5>1. Store(r, [g EXCEPT !.back = back,
                                 !.status = IF next # job[r].seen.status THEN next ELSE @])
          BY <4>1 DEF FinishReturn
        <5>2. now \in {"RETURNED", "PARTIALLY_RETURNED", g.status, job[r].seen.status}
          OBVIOUS
        <5> HIDE DEF next, back
        <5>3. Store(r, [g EXCEPT !.back = back, !.status = now])
          BY <1>2, <5>1 DEF Pass
        <5> HIDE DEF now
        <5>4. QED
          BY <5>2, <5>3
      <4>2. CASE FinishTakeBack(r)
        <5>1. Store(r, [g EXCEPT !.back = g.back, !.status = "RETURNED"])
          BY <1>2, <4>2 DEF FinishTakeBack, SetStatus, Pass
        <5>2. QED
          BY <5>1
      <4>3. QED
        BY <1>6, <4>1, <4>2
    <3>2. PICK back, s : /\ Store(r, [g EXCEPT !.back = back, !.status = s])
                         /\ s \in {"RETURNED", "PARTIALLY_RETURNED", g.status, job[r].seen.status}
      BY <3>1
    <3>3. job[r].seen = g
      BY <1>2, <2>1 DEF Grip
    <3>4. pass'[p].status = s
      <4> DEFINE h == [g EXCEPT !.back = back, !.status = s]
      <4>1. h.status = s
        BY <1>2 DEF Pass
      <4> HIDE DEF h
      <4>2. pass'[p] = h
        BY <1>1, <3>2, Frame DEF h
      <4>3. QED
        BY <4>1, <4>2
    <3>5. QED
      BY <2>2, <3>2, <3>3, <3>4, StatusSplit
  <2>5. QED
    BY <1>3, <2>2, <2>3, <2>4, StatusSplit
<1>7. CASE ~FinishExit(r) /\ ~FinishReturn(r) /\ ~FinishTakeBack(r)
  <2>1. \E m : \/ book' = book
              \/ book' = [book EXCEPT ![p].missing = m]
              \/ book' = [book EXCEPT ![p].arrived = m]
              \/ book' = [book EXCEPT ![p].custody = m]
    <3>1. CASE FinishReceipt(r)
      <4>1. \E m : book' = [book EXCEPT ![p].missing = book[p].missing + m]
        BY <3>1 DEF FinishReceipt
      <4>2. QED
        BY <4>1
    <3>2. CASE FinishAccept(r)
      BY <3>2 DEF FinishAccept
    <3>3. CASE FinishGateOut(r)
      <4>1. \E m : book' = [book EXCEPT ![p].custody = book[p].custody - m]
        BY <3>3 DEF FinishGateOut
      <4>2. QED
        BY <4>1
    <3>4. CASE ~FinishReceipt(r) /\ ~FinishAccept(r) /\ ~FinishGateOut(r)
      <4>1. book' = book
        BY <1>7, <3>4 DEF Continue, FinishEdit, FinishDelete, FinishSubmit, FinishSign, FinishReject,
             LookExit, LookReturn, FinishClose, FinishShipBack, FinishArrival, LookTakeBack, Refuse
      <4>2. QED
        BY <4>1
    <3>5. QED
      BY <3>1, <3>2, <3>3, <3>4
  <2> DEFINE Same == /\ \A q \in Passes : q # p => book'[q] = book[q]
                     /\ book'[p].out = book[p].out /\ book'[p].released = book[p].released
  <2>2. ASSUME NEW m PROVE book' = [book EXCEPT ![p].missing = m] => Same
    <3> DEFINE h == [book[p] EXCEPT !.missing = m]
    <3>1. h.out = book[p].out /\ h.released = book[p].released
      BY <1>2, <1>3 DEF Book
    <3> HIDE DEF h
    <3>2. SUFFICES ASSUME book' = [book EXCEPT ![p] = h] PROVE Same
      BY DEF h
    <3>3. QED
      BY <1>2, <1>3, <3>1, <3>2
  <2>3. ASSUME NEW m PROVE book' = [book EXCEPT ![p].arrived = m] => Same
    <3> DEFINE h == [book[p] EXCEPT !.arrived = m]
    <3>1. h.out = book[p].out /\ h.released = book[p].released
      BY <1>2, <1>3 DEF Book
    <3> HIDE DEF h
    <3>2. SUFFICES ASSUME book' = [book EXCEPT ![p] = h] PROVE Same
      BY DEF h
    <3>3. QED
      BY <1>2, <1>3, <3>1, <3>2
  <2>4. ASSUME NEW m PROVE book' = [book EXCEPT ![p].custody = m] => Same
    <3> DEFINE h == [book[p] EXCEPT !.custody = m]
    <3>1. h.out = book[p].out /\ h.released = book[p].released
      BY <1>2, <1>3 DEF Book
    <3> HIDE DEF h
    <3>2. SUFFICES ASSUME book' = [book EXCEPT ![p] = h] PROVE Same
      BY DEF h
    <3>3. QED
      BY <1>2, <1>3, <3>1, <3>2
  <2>5. book' = book => Same
    OBVIOUS
  <2>7. Same
    <3> HIDE DEF Same
    <3>1. QED
      BY <2>1, <2>2, <2>3, <2>4, <2>5
  <2>8. QED
    BY <2>7
<1>8. QED
  BY <1>5, <1>6, <1>7

LEMMA PassesMove ==
  ASSUME Inv, SerialInv, NEW r \in Requests, Continue(r), NEW p, p = job[r].pass
  PROVE  /\ \A q \in Passes : q # p => pass'[q] = pass[q]
         /\ pass[p].status = "CLOSED" => pass'[p] = pass[p]
         /\ pass[p].status = "REJECTED" => pass'[p].status \in {"REJECTED", "deleted"}
         /\ pass[p].status # "DRAFT" => pass'[p].edition = pass[p].edition
<1> DEFINE g == pass[p]
<1>1. pc[r] # "idle"
  BY DEF Continue, FinishEdit, FinishDelete, FinishSubmit, FinishSign, FinishReject, LookExit,
         FinishExit, LookReturn, FinishReturn, FinishClose, FinishReceipt, FinishAccept,
         FinishShipBack, FinishGateOut, FinishArrival, LookTakeBack, FinishTakeBack, Refuse
<1>2. /\ p \in Passes /\ g \in Pass /\ Grip(pc[r], job[r], g) /\ pass \in [Passes -> Pass]
  BY <1>1, Gripped, InvTypes
<1>3. CASE UNCHANGED pass
  BY <1>3
<1>4. CASE ~UNCHANGED pass
  <2>1. g.status # "CLOSED"
    BY <1>2, <1>4, InvTypes, StatusNames
       DEF Continue, FinishEdit, FinishDelete, FinishSubmit, FinishSign, FinishReject, LookExit,
           FinishExit, LookReturn, FinishReturn, FinishClose, FinishReceipt, FinishAccept,
           FinishShipBack, FinishGateOut, FinishArrival, LookTakeBack, FinishTakeBack, Refuse, Grip,
           MayAccept, RequestOK
  <2>2. g.status = "REJECTED" => FinishDelete(r)
    BY <1>2, <1>4, InvTypes, StatusNames
       DEF Continue, FinishEdit, FinishSubmit, FinishSign, FinishReject, LookExit,
           FinishExit, LookReturn, FinishReturn, FinishClose, FinishReceipt, FinishAccept,
           FinishShipBack, FinishGateOut, FinishArrival, LookTakeBack, FinishTakeBack, Refuse, Grip,
           MayAccept, RequestOK
  <2>3. FinishDelete(r) => pass'[p].status = "deleted"
    BY <1>2 DEF FinishDelete, SetStatus, Store, Pass
  <2>4. g.status # "DRAFT" => ~FinishEdit(r)
    BY <1>2 DEF FinishEdit, Grip
  <2>5. PICK h : Store(r, h)
    BY <1>4 DEF Continue, FinishEdit, FinishDelete, FinishSubmit, FinishSign, FinishReject, LookExit,
                FinishExit, LookReturn, FinishReturn, FinishClose, FinishReceipt, FinishAccept,
                FinishShipBack, FinishGateOut, FinishArrival, LookTakeBack, FinishTakeBack, Refuse,
                SetStatus
  <2>6. \A q \in Passes : q # p => pass'[q] = pass[q]
    BY <1>1, <2>5, Frame
  <2>7. ~FinishEdit(r) => pass'[p].edition = g.edition
    <3>1. CASE FinishDelete(r) \/ FinishClose(r) \/ FinishTakeBack(r)
      BY <1>2, <3>1 DEF FinishDelete, FinishClose, FinishTakeBack, SetStatus, Store, Pass
    <3>2. CASE FinishSubmit(r) \/ FinishSign(r) \/ FinishReject(r)
      BY <1>2, <3>2 DEF FinishSubmit, FinishSign, FinishReject, Store, Pass
    <3>3. CASE FinishExit(r)
      BY <1>2, <3>3 DEF FinishExit, Store, Pass
    <3>4. CASE FinishReturn(r)
      BY <1>2, <3>4 DEF FinishReturn, Store, Pass
    <3>5. CASE FinishReceipt(r) \/ FinishAccept(r) \/ FinishArrival(r)
      <4>1. CASE FinishReceipt(r)
        BY <1>2, <4>1 DEF FinishReceipt, Store, Pass
      <4>2. CASE FinishAccept(r)
        BY <1>2, <4>2 DEF FinishAccept, Store, Pass
      <4>3. CASE FinishArrival(r)
        BY <1>2, <4>3 DEF FinishArrival, Store, Pass
      <4>4. QED
        BY <3>5, <4>1, <4>2, <4>3
    <3>6. CASE FinishShipBack(r) \/ FinishGateOut(r)
      BY <1>2, <3>6 DEF FinishShipBack, FinishGateOut, Store, Pass
    <3>7. CASE LookExit(r) \/ LookReturn(r) \/ LookTakeBack(r) \/ Refuse(r)
      BY <3>7 DEF LookExit, LookReturn, LookTakeBack, Refuse
    <3>8. QED
      BY <3>1, <3>2, <3>3, <3>4, <3>5, <3>6, <3>7 DEF Continue
  <2>8. QED
    BY <2>1, <2>2, <2>3, <2>4, <2>6, <2>7
<1>5. QED
  BY <1>3, <1>4

\* Everybody else leaves the books alone, and the passes but for new drafts.
LEMMA OthersMove ==
  ASSUME Inv, Next, \A r \in Requests : ~Continue(r)
  PROVE  /\ book' = book
         /\ \A p \in Passes : pass'[p] = pass[p] \/ pass[p].status = "none"
<1>1. ASSUME NEW r \in Requests, NEW q \in Passes, Arrive(r, q)
      PROVE  /\ book' = book
             /\ \A p \in Passes : pass'[p] = pass[p] \/ pass[p].status = "none"
  <2>1. CASE \E f \in Forms : CreateGetPass(r, q, f)
    BY <2>1, InvTypes DEF CreateGetPass
  <2>2. CASE ~\E f \in Forms : CreateGetPass(r, q, f)
    BY <1>1, <2>2 DEF Arrive, BeginEdit, BeginDelete, BeginClose, BeginSubmit, BeginSign, BeginReject,
                      BeginExit, BeginAccept, BeginShipBack, BeginGateOut, BeginReturn,
                      BeginReceipt, BeginArrival, BeginTakeBack, Take
  <2>3. QED
    BY <2>1, <2>2
<1>2. CASE Elsewhere
  BY <1>2 DEF Elsewhere, PostClaim, Move, SetClosed
<1>3. QED
  BY <1>1, <1>2 DEF Next

\* While no two requests overlap: rejected and closed passes stay so, none that
\* has left is edited or deleted, and goods leave, and come back over the desk,
\* in an open month only (checkPeriodLock).
THEOREM PassesStandStill == HistorySpec => PassesStand
<1> DEFINE Stands(p) ==
             /\ pass[p].status = "CLOSED" => pass'[p] = pass[p]
             /\ pass[p].status = "REJECTED" => pass'[p].status \in {"REJECTED", "deleted"}
             /\ book[p].out > 0 =>
                  /\ pass'[p].status \in Statuses \ ({"DRAFT", "REJECTED", "deleted"} \cup DOMAIN STEP_ROLE)
                  /\ pass'[p].edition = pass[p].edition
             /\ closed /\ pass[p].status # "RETURN_RECEIVED_AT_GATE" =>
                  UNCHANGED <<book[p].out, book[p].released>>
<1>1. ASSUME Inv, SerialInv, NEW p \in Passes, book[p].out > 0
      PROVE  pass[p].status \in Gone
  BY <1>1, InvTypes, StoriesAgree DEF SerialInv
<1>2. ASSUME Inv, SerialInv, NEW r \in Requests, Continue(r), NEW p \in Passes PROVE Stands(p)
  <2>1. PICK t : t = job[r].pass
    OBVIOUS
  <2>2. CASE p # t
    <3>1. pass'[p] = pass[p] /\ book'[p] = book[p]
      BY <1>2, <2>1, <2>2, BooksMove, PassesMove
    <3>2. book[p].out > 0 => pass[p].status \in Gone
      BY <1>1, <1>2
    <3>3. QED
      BY <3>1, <3>2 DEF Gone, Before
  <2>3. CASE p = t
    <3>1. /\ pass[p].status = "CLOSED" => pass'[p] = pass[p]
          /\ pass[p].status = "REJECTED" => pass'[p].status \in {"REJECTED", "deleted"}
          /\ pass[p].status # "DRAFT" => pass'[p].edition = pass[p].edition
      BY <1>2, <2>1, <2>3, PassesMove
    <3>2. SerialInv' /\ Inv'
      BY <1>2, SerialContinue, InvNext DEF Next
    <3>3. \/ book'[p].out = book[p].out /\ book'[p].released = book[p].released
          \/ /\ book[p].out = 0 /\ ~closed
          \/ /\ book'[p].out = book[p].out
             /\ ~closed \/ pass[p].status = "RETURN_RECEIVED_AT_GATE"
      BY <1>2, <2>1, <2>3, BooksMove
    <3>4. book[p].out > 0 => book'[p].out > 0 /\ pass[p].status \in Gone
      BY <1>1, <1>2, <3>3
    <3>5. book'[p].out > 0 => pass'[p].status \in Gone
      <4>1. pass'[p] \in Pass /\ book'[p] \in Book /\ Story(pass'[p], book'[p])
        BY <3>2 DEF Inv, TypeOK, SerialInv
      <4>2. QED
        BY <4>1, StoriesAgree
    <3>6. QED
      BY <3>1, <3>3, <3>4, <3>5, StatusSplit DEF Gone, Before
  <2>4. QED
    BY <2>2, <2>3
<1>3. ASSUME Inv, SerialInv, Next, \A r \in Requests : ~Continue(r), NEW p \in Passes
      PROVE  Stands(p)
  <2>1. book' = book /\ (pass'[p] = pass[p] \/ pass[p].status = "none")
    BY <1>3, OthersMove
  <2>2. book[p].out > 0 => pass[p].status \in Gone
    BY <1>1, <1>3
  <2>3. QED
    BY <2>1, <2>2, StatusSplit DEF Gone, Before
<1>4. FullInv /\ [HistoryNext]_<<vars, overlapped>> => [Alone(\A p \in Passes : Stands(p))]_vars
  <2> HIDE DEF Stands
  <2> SUFFICES ASSUME FullInv, HistoryNext, ~overlapped PROVE \A p \in Passes : Stands(p)
    BY DEF Alone
  <2>1. Inv /\ SerialInv /\ Next
    BY DEF FullInv, HistoryNext
  <2>2. QED
    BY <1>2, <1>3, <2>1
<1>5. QED
  BY FullInit, FullStep, <1>4, PTL DEF HistorySpec, PassesStand

\* While no two requests overlap, the ledger implements the register of loans:
\* the goods of a pass leave once, and no more comes back than left.
THEOREM LoanRegisterIsKept == HistorySpec => LoansAreKept
<1> DEFINE lent == [p \in Passes |-> book[p].out]
           returned == [p \in Passes |-> book[p].released]
<1>1. HistoryInit => Register!Init
  BY DEF HistoryInit, Init, NewBook, Register!Init
<1>2. ASSUME Inv, SerialInv, NEW r \in Requests, Continue(r)
      PROVE  Register!Next \/ UNCHANGED <<lent, returned>>
  <2>1. PICK p : p = job[r].pass
    OBVIOUS
  <2>2. /\ \A q \in Passes : q # p => book'[q] = book[q]
        /\ \/ book'[p].out = book[p].out /\ book'[p].released = book[p].released
           \/ book[p].out = 0 /\ book'[p].released = book[p].released
           \/ /\ book'[p].out = book[p].out
              /\ \E n \in Nat : book'[p].released = book[p].released + n
              /\ pass'[p].status \in Gone
    BY <1>2, <2>1, BooksMove
  <2>3. p \in Passes /\ book[p] \in Book
    <3>1. pc[r] # "idle"
      BY <1>2 DEF Continue, FinishEdit, FinishDelete, FinishSubmit, FinishSign, FinishReject, LookExit,
             FinishExit, LookReturn, FinishReturn, FinishClose, FinishReceipt, FinishAccept,
             FinishShipBack, FinishGateOut, FinishArrival, LookTakeBack, FinishTakeBack, Refuse
    <3>2. QED
      BY <1>2, <2>1, <3>1, Working
  <2>4. CASE book'[p].out = book[p].out /\ book'[p].released = book[p].released
    BY <2>2, <2>4
  <2>5. CASE book[p].out = 0 /\ book'[p].released = book[p].released
    <3>1. /\ lent[p] = 0 /\ lent' = [lent EXCEPT ![p] = lent'[p]] /\ returned' = returned
      BY <2>2, <2>3, <2>5
    <3>2. Register!Lend(p, lent'[p])
      BY <3>1 DEF Register!Lend
    <3>3. QED
      BY <2>3, <3>2 DEF Register!Next
  <2>6. ASSUME NEW n \in Nat, book'[p].out = book[p].out,
               book'[p].released = book[p].released + n, pass'[p].status \in Gone
        PROVE  Register!Next
    <3>1. book'[p].released <= book'[p].out
      <4>1. SerialInv' /\ Inv'
        BY <1>2, SerialContinue, InvNext DEF Next
      <4>2. pass'[p] \in Pass /\ book'[p] \in Book /\ Moved(pass'[p], book'[p])
        BY <2>3, <2>6, <4>1 DEF Inv, TypeOK, SerialInv, Story
      <4>3. book'[p].released \in Nat /\ pass'[p].back \in Nat /\ pass'[p].qty \in Nat
        BY <4>2, BookFields, FieldTyping
      <4>4. QED
        BY <4>2, <4>3 DEF Moved
    <3>2. book[p].released \in Nat /\ book[p].out \in Nat
      BY <2>3, BookFields
    <3>3. returned'[p] - returned[p] = n
      BY <2>3, <2>6, <3>2
    <3>4. /\ returned[p] + n <= lent[p] /\ returned' = [returned EXCEPT ![p] = @ + n]
          /\ lent' = lent
      BY <2>2, <2>3, <2>6, <3>1, <3>2
    <3>5. Register!TakeBack(p, returned'[p] - returned[p])
      BY <3>3, <3>4 DEF Register!TakeBack
    <3>6. QED
      BY <2>3, <3>5 DEF Register!Next
  <2>7. QED
    BY <2>2, <2>4, <2>5, <2>6
<1>3. FullInv /\ [HistoryNext]_<<vars, overlapped>> => [Alone(Register!Next)]_<<lent, returned>>
  <2> SUFFICES ASSUME FullInv, [HistoryNext]_<<vars, overlapped>>, ~overlapped
               PROVE  Register!Next \/ UNCHANGED <<lent, returned>>
    BY DEF Alone
  <2>1. Inv /\ SerialInv
    BY DEF FullInv
  <2>2. CASE UNCHANGED <<vars, overlapped>>
    BY <2>2 DEF vars
  <2>3. CASE Next /\ \A r \in Requests : ~Continue(r)
    BY <2>1, <2>3, OthersMove
  <2>4. CASE \E r \in Requests : Continue(r)
    BY <1>2, <2>1, <2>4
  <2>5. QED
    BY <2>2, <2>3, <2>4 DEF HistoryNext
<1>4. QED
  BY FullInit, FullStep, <1>1, <1>3, PTL DEF HistorySpec, LoansAreKept

=============================================================================
