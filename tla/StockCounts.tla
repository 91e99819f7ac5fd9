----------------------------- MODULE StockCounts -----------------------------
(***************************************************************************)
(* Stock taking: count sessions of a location (stockCount.service.js) and  *)
(* saved stock reports of a department (stockReport.service.js), their     *)
(* approval, and the posting of what was counted too much or too little    *)
(* (postStockCount, postStockReport).                                      *)
(*                                                                         *)
(* A session has one line, a report one item in one location; what is done *)
(* to several is done to each in one transaction.  The final approval      *)
(* commits before the posting begins, which may be refused.                *)
(***************************************************************************)
EXTENDS BookedStock, FiniteSets

CONSTANTS
  Sessions, Reports,
  Counted,    \* what may be counted
  Tellers,    \* requests about sessions and reports
  MaxSubmits  \* bound of the model: requests for approval of one session

NotCounted == -1
NoPaper == "none"

ASSUME CountsAssumption ==
  /\ Cells # {} /\ NoPaper \notin Sessions /\ IsFiniteSet(Sessions)
  /\ Counted \subseteq Nat /\ MaxSubmits \in Nat

CountChain == <<"DEPT_MANAGER", "COST_CONTROL", "FINANCE_MANAGER">>
CountSteps == 1 .. 3
Verdicts == {"PENDING", "APPROVED", "REJECTED"}
CountRoles == {"DEPT_MANAGER", "COST_CONTROL", "FINANCE_MANAGER", "ADMIN", "STOREKEEPER"}

\* COUNTING is never stored.
SessionStatuses == {"none", "DRAFT", "PENDING_APPROVAL", "POSTED", "REJECTED", "VOID"}
ReportStatuses == {"none", "sheet", "DRAFT", "PENDING_APPROVAL", "POSTED", "REJECTED"}

Session ==
  [status : SessionStatuses, cell : Cells, book : Int, counted : Nat \cup {NotCounted},
   request : Nat,                 \* which request it is linked to; 0: none
   current : 0 .. 3, verdict : Verdicts, steps : [CountSteps -> Verdicts]]

\* book is 0 for an item that the uploaded sheet does not list; outward is the
\* variance on the item's line.
Report ==
  [status : ReportStatuses, cell : Cells, book : Int, counted : Int, outward : Int,
   verdict : Verdicts]

VARIABLES
  opening,    \* the setting allowOpeningBalance
  session, report,
  adjusted,   \* what the ledger rows of each session add up to
  settled,    \* and those of each report
  teller, slip \* per request: what it does next, and with what

countVars == <<opening, session, report, adjusted, settled, teller, slip>>

AnyCell == CHOOSE c \in Cells : TRUE
NoSession ==
  [status |-> "none", cell |-> AnyCell, book |-> 0, counted |-> NotCounted, request |-> 0,
   current |-> 0, verdict |-> "PENDING", steps |-> [i \in CountSteps |-> "PENDING"]]
NoReport ==
  [status |-> "none", cell |-> AnyCell, book |-> 0, counted |-> 0, outward |-> 0,
   verdict |-> "PENDING"]

IdleSlip ==
  [session |-> NoPaper, report |-> NoPaper, cell |-> AnyCell, number |-> 0,
   qty |-> 0, request |-> 0, step |-> 1, approve |-> FALSE]
TellerSteps ==
  {"idle", "open", "count", "submit", "decide", "void", "post", "look", "adjust",
   "submit report", "decide report", "post report", "look report", "adjust report"}

CountTypeOK ==
  /\ opening \in {"OPEN", "LOCKED"}
  /\ session \in [Sessions -> Session] /\ report \in [Reports -> Report]
  /\ adjusted \in [Sessions -> Int] /\ settled \in [Reports -> Int]
  /\ teller \in [Tellers -> TellerSteps]
  /\ slip \in [Tellers ->
       [session : Sessions \cup {NoPaper}, report : Reports \cup {NoPaper}, cell : Cells,
        number : Nat, qty : Int, request : Nat, step : CountSteps, approve : BOOLEAN]]

CountInit ==
  /\ opening = "OPEN"
  /\ session = [s \in Sessions |-> NoSession] /\ report = [p \in Reports |-> NoReport]
  /\ adjusted = [s \in Sessions |-> 0] /\ settled = [p \in Reports |-> 0]
  /\ teller = [t \in Tellers |-> "idle"] /\ slip = [t \in Tellers |-> IdleSlip]

papers == <<session, report, adjusted, settled>>

Sit(t, step, j) ==
  /\ teller[t] = "idle"
  /\ teller' = [teller EXCEPT ![t] = step]
  /\ slip' = [slip EXCEPT ![t] = j]
  /\ UNCHANGED <<stockRows, closed, opening, papers>>

Proceed(t, step) == teller' = [teller EXCEPT ![t] = step]

Leave(t) ==
  /\ Proceed(t, "idle")
  /\ slip' = [slip EXCEPT ![t] = IdleSlip]
  /\ UNCHANGED closed

Rest == UNCHANGED <<stockRows, opening, report, adjusted, settled>>

-----------------------------------------------------------------------------
(* Sessions *)

Opened == {s \in Sessions : session[s].status # "none"}

\* The period, the number and the balance are read, then the session is stored.
BeginOpen(t, s, c) ==
  /\ session[s].status = "none" /\ ~closed
  /\ Sit(t, "open", [IdleSlip EXCEPT !.session = s, !.cell = c, !.qty = onHand[c],
                                     !.number = Cardinality(Opened) + 1])

\* Its number is one more than there were sessions, and unique.
FinishOpen(t) ==
  LET s == slip[t].session
  IN  /\ teller[t] = "open" /\ session[s].status = "none"
      /\ Cardinality(Opened) < slip[t].number
      /\ session' = [session EXCEPT ![s] = [NoSession EXCEPT
           !.status = "DRAFT", !.cell = slip[t].cell, !.book = slip[t].qty]]
      /\ Leave(t) /\ Rest

\* Mutant: lines may be counted again until the session is posted.
EditableUntilPosted(s) == session[s].status \in {"DRAFT", "PENDING_APPROVAL"}

Editable(s) == session[s].status = "DRAFT"

BeginCount(t, s, n) ==
  /\ Editable(s)
  /\ Sit(t, "count", [IdleSlip EXCEPT !.session = s, !.qty = n])

FinishCount(t) ==
  /\ teller[t] = "count"
  /\ session' = [session EXCEPT ![slip[t].session].counted = slip[t].qty]
  /\ Leave(t) /\ Rest

\* All is counted.
BeginSubmit(t, s) ==
  /\ session[s].status = "DRAFT" /\ session[s].counted # NotCounted
  /\ session[s].request < MaxSubmits
  /\ Sit(t, "submit", [IdleSlip EXCEPT !.session = s])

FinishSubmit(t) ==
  LET s == slip[t].session
  IN  /\ teller[t] = "submit"
      /\ session' = [session EXCEPT ![s] = [@ EXCEPT
           !.status = "PENDING_APPROVAL", !.request = session[s].request + 1, !.current = 0,
           !.verdict = "PENDING", !.steps = [i \in CountSteps |-> "PENDING"]]]
      /\ Leave(t) /\ Rest

NextStep(s) == session[s].current + 1

BeginDecide(t, s, role, approve) ==
  /\ session[s].status = "PENDING_APPROVAL"
  /\ NextStep(s) \in CountSteps
  /\ role \in {CountChain[NextStep(s)], "ADMIN"}
  /\ Sit(t, "decide", [IdleSlip EXCEPT !.session = s, !.request = session[s].request,
                                       !.step = NextStep(s), !.approve = approve])

\* Writes to the request that was read; the session may have another one now.
Decided(t, x) ==
  LET i == slip[t].step
  IN  IF x.request # slip[t].request THEN x
      ELSE IF ~slip[t].approve
        THEN [x EXCEPT !.steps[i] = "REJECTED", !.verdict = "REJECTED"]
        ELSE [x EXCEPT !.steps[i] = "APPROVED", !.current = i,
                       !.verdict = IF i = 3 THEN "APPROVED" ELSE @]

FinishReject(t) ==
  LET s == slip[t].session
  IN  /\ teller[t] = "decide" /\ ~slip[t].approve
      /\ session' = [session EXCEPT ![s] = [Decided(t, @) EXCEPT !.status = "REJECTED"]]
      /\ Leave(t) /\ Rest

FinishSign(t) ==
  LET s == slip[t].session
  IN  /\ teller[t] = "decide" /\ slip[t].approve
      /\ session' = [session EXCEPT ![s] = Decided(t, @)]
      /\ IF slip[t].step = 3
           THEN Proceed(t, "post") /\ UNCHANGED <<slip, closed>>
           ELSE Leave(t)
      /\ Rest

BeginVoid(t, s) ==
  /\ session[s].status \notin {"none", "POSTED"}
  /\ Sit(t, "void", [IdleSlip EXCEPT !.session = s])

FinishVoid(t) ==
  /\ teller[t] = "void"
  /\ session' = [session EXCEPT ![slip[t].session].status = "VOID"]
  /\ Leave(t) /\ Rest

\* Mutant: the counted quantity is posted, not its difference to the book.
VarianceCounted(x) == x.counted

Variance(x) == IF x.counted = NotCounted THEN 0 ELSE x.counted - x.book

\* postStockCount reads status, lines and period.
BeginPost(t) ==
  LET x == session[slip[t].session]
  IN  /\ teller[t] = "post" /\ x.status # "POSTED" /\ ~closed
      /\ slip' = [slip EXCEPT ![t].qty = Variance(x), ![t].cell = x.cell]
      /\ Proceed(t, "look")
      /\ UNCHANGED <<stockRows, closed, opening, papers>>

\* What is missing must be there to be taken off.
Covers(c, v) == v < 0 => onHand[c] >= -v

Look(t) ==
  /\ teller[t] = "look" /\ Covers(slip[t].cell, slip[t].qty)
  /\ Proceed(t, "adjust")
  /\ UNCHANGED <<stockRows, closed, opening, papers, slip>>

Adjust(c, v) ==
  /\ onHand' = [onHand EXCEPT ![c] = @ + v]
  /\ ledger' = [ledger EXCEPT ![c] = @ + v]
  /\ opening' = "LOCKED"

FinishPost(t) ==
  LET s == slip[t].session
  IN  /\ teller[t] = "adjust"
      /\ Adjust(slip[t].cell, slip[t].qty)
      /\ adjusted' = [adjusted EXCEPT ![s] = @ + slip[t].qty]
      /\ session' = [session EXCEPT ![s].status = "POSTED"]
      /\ Leave(t) /\ UNCHANGED <<report, settled>>

-----------------------------------------------------------------------------
(* Reports *)

\* The sheet the client gets: with n counted in an uploaded file, or without.
\* Only what the file lists carries its book quantity along.
Preview(p, c, n) ==
  /\ report[p].status \in {"none", "sheet"}
  /\ report' = [report EXCEPT ![p] = [NoReport EXCEPT
       !.status = "sheet", !.cell = c,
       !.book = IF n = NotCounted THEN 0 ELSE onHand[c],
       !.counted = IF n = NotCounted THEN onHand[c] ELSE n,
       !.outward = IF n = NotCounted THEN 0 ELSE n - onHand[c]]]
  /\ UNCHANGED <<stockRows, closed, opening, session, adjusted, settled, teller, slip>>

SaveReport(t, p) ==
  /\ teller[t] = "idle" /\ report[p].status = "sheet"
  /\ report' = [report EXCEPT ![p].status = "DRAFT"]
  /\ UNCHANGED <<stockRows, closed, opening, session, adjusted, settled, teller, slip>>

BeginSubmitReport(t, p) ==
  /\ report[p].status = "DRAFT"
  /\ Sit(t, "submit report", [IdleSlip EXCEPT !.report = p])

FinishSubmitReport(t) ==
  /\ teller[t] = "submit report"
  /\ report' = [report EXCEPT ![slip[t].report].status = "PENDING_APPROVAL"]
  /\ Leave(t) /\ UNCHANGED <<stockRows, opening, session, adjusted, settled>>

BeginDecideReport(t, p, approve) ==
  /\ report[p].status = "PENDING_APPROVAL"
  /\ Sit(t, "decide report", [IdleSlip EXCEPT !.report = p, !.approve = approve])

\* A rejection succeeds without a reason only: one that has a reason names a
\* column approval_requests does not have, and is refused.
FinishDecideReport(t) ==
  LET p == slip[t].report
  IN  /\ teller[t] = "decide report"
      /\ IF slip[t].approve
           THEN /\ report' = [report EXCEPT ![p].verdict = "APPROVED"]
                /\ Proceed(t, "post report") /\ UNCHANGED <<slip, closed>>
           ELSE /\ report' = [report EXCEPT ![p].verdict = "REJECTED", ![p].status = "REJECTED"]
                /\ Leave(t)
      /\ UNCHANGED <<stockRows, opening, session, adjusted, settled>>

BeginPostReport(t) ==
  LET x == report[slip[t].report]
  IN  /\ teller[t] = "post report" /\ x.status # "POSTED" /\ ~closed
      /\ slip' = [slip EXCEPT ![t].qty = x.counted - x.book, ![t].cell = x.cell]
      /\ Proceed(t, "look report")
      /\ UNCHANGED <<stockRows, closed, opening, papers>>

LookReport(t) ==
  /\ teller[t] = "look report" /\ Covers(slip[t].cell, slip[t].qty)
  /\ Proceed(t, "adjust report")
  /\ UNCHANGED <<stockRows, closed, opening, papers, slip>>

FinishPostReport(t) ==
  LET p == slip[t].report
  IN  /\ teller[t] = "adjust report"
      /\ Adjust(slip[t].cell, slip[t].qty)
      /\ settled' = [settled EXCEPT ![p] = @ + slip[t].qty]
      /\ report' = [report EXCEPT ![p].status = "POSTED"]
      /\ Leave(t) /\ UNCHANGED <<session, adjusted>>

\* A guard throws, a transaction is rolled back.
RefuseCount(t) ==
  /\ teller[t] # "idle"
  /\ Leave(t) /\ UNCHANGED <<stockRows, opening, papers>>

CountNext ==
  \/ \E p \in Reports, c \in Cells, n \in Counted \cup {NotCounted} : Preview(p, c, n)
  \/ \E t \in Tellers :
       \/ \E s \in Sessions :
            \/ \E c \in Cells : BeginOpen(t, s, c)
            \/ \E n \in Counted \cup {NotCounted} : BeginCount(t, s, n)
            \/ BeginSubmit(t, s) \/ BeginVoid(t, s)
            \/ \E role \in CountRoles, approve \in BOOLEAN : BeginDecide(t, s, role, approve)
       \/ \E p \in Reports :
            \/ SaveReport(t, p) \/ BeginSubmitReport(t, p)
            \/ \E approve \in BOOLEAN : BeginDecideReport(t, p, approve)
       \/ FinishOpen(t) \/ FinishCount(t) \/ FinishSubmit(t) \/ FinishReject(t) \/ FinishSign(t)
       \/ FinishVoid(t) \/ BeginPost(t) \/ Look(t) \/ FinishPost(t)
       \/ FinishSubmitReport(t) \/ FinishDecideReport(t)
       \/ BeginPostReport(t) \/ LookReport(t) \/ FinishPostReport(t) \/ RefuseCount(t)
=============================================================================
