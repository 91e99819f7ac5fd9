-------------------------- MODULE FigureProperties --------------------------
(***************************************************************************)
(* What the reports of one hotel must say of its stock, and of each other. *)
(*                                                                         *)
(* Each report rebuilds the stock in its own way.  The properties name the *)
(* circumstances in which it arrives at the ledger; the README lists those *)
(* in which it does not.                                                   *)
(***************************************************************************)
EXTENDS Figures

VARIABLE monthOverlapped

Overlaps ==
  INSTANCE Overlap WITH Requests <- MonthRequests, pc <- monthPc, overlapped <- monthOverlapped

FiguresHistoryInit == MonthInit /\ monthOverlapped = FALSE
FiguresHistoryNext == MonthNext /\ Overlaps!NoteOverlap
FiguresHistorySpec == FiguresHistoryInit /\ [][FiguresHistoryNext]_<<monthVars, monthOverlapped>>

FiguresTypeOK ==
  /\ now \in Instants /\ entries \subseteq Row
  /\ DOMAIN stock \subseteq Stores /\ \A s \in DOMAIN stock : stock[s] \in Balance
  /\ \A p \in Passes : pass[p].store \in Stores /\ pass[p].back <= pass[p].qty
  /\ sheets \subseteq Sheet
  /\ \A m \in Months : /\ period[m].status \in {"none", "OPEN", "CLOSED"}
                       /\ (period[m].status = "CLOSED") = (period[m].closedAt # Never)
  /\ monthPc \in [MonthRequests -> {"idle", "close", "reopen", "levels"}]

\* A report begins in a month that has begun.
Ranges == {x \in (0 .. ThisMonth) \X Months : x[1] <= x[2]}

\* It ends in one, where a later end adds nothing.
Elapsed == {x \in Ranges : x[2] <= ThisMonth}

Scopes == (SUBSET Stores) \ {{}}

\* The stock of the ledger before instant t.
LedgerAt(s, t) == Total({r \in At(Official, {s}) : r.at < t})
RowsBetween(s, t, u) == {r \in At(Official, {s}) : t <= r.at /\ r.at < u}

\* What had been taken back of a pass before t, good, damaged and lost.
TakenBack(p, t) == Total({b \in pass[p].backs : b.at < t})

\* Loans of a store that had left before t and were not back.
Loans(s, t) == {p \in Passes : pass[p].store = s /\ pass[p].kind # "PERMANENT" /\ pass[p].out < t}
Away(s, t) == SumOf([p \in Loans(s, t) |-> pass[p].qty - TakenBack(p, t)])

\* Shortages of loans, and claims of what came back damaged or lost, are
\* written off in the ledger of a store whose balance stays: it did not hold
\* the former and has given up the latter before.
WrittenOffRows(s, t) ==
  {r \in At(Official, {s}) : r.at < t /\ (r.kind = "LOAN_WRITE_OFF" \/ r.claim)}
WrittenOff(s, t) == QtyOut(WrittenOffRows(s, t))

\* Nothing came back damaged or lost to the store from t on.
Unspoilt(s, t) ==
  \A p \in Passes : \A b \in pass[p].backs : pass[p].store = s /\ b.at >= t => b.bad = 0

\* What is on hand at t, as the ledger has it.
StockAt(s, t) == LedgerAt(s, t) + Away(s, t) + WrittenOff(s, t)

\* The same of several stores.
LedgerIn(stores, t) == SumOf([s \in stores |-> LedgerAt(s, t)])

\* The rows of loans: goods that left, and those of them that came back good.
PassRows ==
  {r \in entries : \/ r.kind = "GET_PASS_OUT"
                  \/ (r.kind = "RETURN" /\ \E p \in Passes : \E b \in pass[p].backs : b.at = r.at)}
\* The rows of gifts.
GiftRows == {r \in Kind(entries, {"ISSUE"}) : \E p \in Passes : pass[p].out = r.at}

\* Every balance is what the ledger and the passes say is there.
BalancesAgree ==
  \A s \in Stores : /\ OnHand(s) = StockAt(s, now)
                    /\ Blocked(s) = Away(s, now)

\* A closed month keeps the balances of the instant it was closed, unless
\* something was booked while it was being closed.
SnapshotsAgree ==
  Overlaps!Alone(
    \A m \in Months : period[m].status = "CLOSED"
      => \A s \in Stores : KeptQty({m}, s) = StockAt(s, period[m].closedAt))

\* The stock when the base of a report was closed is in the ledger alone.
Plain(best, s) ==
  LET t == Since(best) IN  best = {} \/ (Away(s, t) = 0 /\ WrittenOff(s, t) = 0)

Unloaded(s) == \A r \in Kind(At(Official, {s}), {"OPENING_BALANCE"}) : r.qty > 0

\* The OMC report closes with the ledger, when nothing was booked between the
\* closing it starts from and its first day.
OmcAgreesOn(from, to) ==
  LET best == Latest(ClosedBy(Start(from) - 1))
      report == OmcReport(from, to)
  IN  \A s \in Stores :
        /\ Plain(best, s) /\ Unloaded(s)
        /\ s \in Kept(best) => RowsBetween(s, Since(best), Start(from)) = {}
        => /\ LedgerAt(s, Start(to + 1)) = IF s \in DOMAIN report THEN report[s].closing ELSE 0
           /\ s \in DOMAIN report => report[s].opening = LedgerAt(s, Start(from))
OmcAgrees == Overlaps!Alone(\A x \in Ranges : OmcAgreesOn(x[1], x[2]))

\* The valuation of a day is the ledger of that day, whichever snapshot it
\* starts from, if nothing was lost and no blocked goods were given out.
ValuationAgreesOn(m, s, best) ==
  /\ Plain(best, s) /\ Unloaded(s)
  /\ Kind(At(Official, {s}), {"LOST"}) = {}
  /\ \A t \in 0 .. Start(m + 1) : LedgerAt(s, t) >= 0
  => ValuationReport(best, m, s) = LedgerAt(s, Start(m + 1))
ValuationAgrees ==
  Overlaps!Alone(\A m \in Months, s \in Stores : \A best \in Bases(m) : ValuationAgreesOn(m, s, best))

\* The balance is as it was counted: since the session was opened no other row
\* has changed it, and nothing came back that had to be given up.
Untouched(c) ==
  /\ Unspoilt(c.store, c.at)
  /\ \A r \in RowsBetween(c.store, c.at + 1, Never) :
       r.at = c.posted \/ r.kind \in Unkept \/ r.claim \/ r \in PassRows

\* Every store of the scope was counted once in the range, and not used since.
CountedOnce(counts, scope) ==
  \A s \in scope : \E c \in counts :
    c.store = s /\ Untouched(c) /\ \A d \in counts : d.store = s => d = c

\* The variance report opens with the ledger and the opening balances of the
\* range, when nothing moved after it; a count of each store shows what was
\* corrected.
VarianceAgreesOn(scope, from, to) ==
  LET report == VarianceReport(scope, from, to)
      loaded == Total(Kind(At(Ledger(from, to), scope), {"OPENING_BALANCE"}))
      counts == Posted(Opened(scope, from, to))
  IN  /\ \A s \in scope : /\ RowsBetween(s, Start(to + 1), Never) = {}
                          /\ Away(s, now) = 0 /\ WrittenOff(s, now) = 0
      => /\ report.closing = LedgerIn(scope, now)
         /\ report.opening = LedgerIn(scope, Start(from)) + loaded
         /\ (counts = {} \/ CountedOnce(counts, scope)) /\ report.gatePass = 0
            => report.variance = report.adjusted
VarianceAgrees == \A x \in Elapsed, scope \in Scopes : VarianceAgreesOn(scope, x[1], x[2])

\* The movements the summary report has columns for.
Summarized == PassRows \cup GiftRows \cup Kind(entries, {"RECEIVE", "COUNT_ADJUSTMENT"} \cup Losses)

\* No pass was closed, nothing came back damaged or lost, and no gift left
\* before t.
PassesOpen(t) ==
  \A p \in Passes :
    /\ pass[p].closed = Never /\ \A b \in pass[p].backs : b.bad = 0
    /\ pass[p].kind = "PERMANENT" => pass[p].out >= t

\* The summary report closes with the ledger, if it covers only the movements
\* it has columns for and passes that are open, and opens with a month that was
\* closed at its end, or with no loans out.
SummaryAgreesOn(from, to) ==
  LET prev == PrevClose(from)
      first == Start(from)
  IN  /\ Ledger(from, to) \subseteq Summarized
      /\ PassesOpen(first)
      /\ IF prev = {}
         THEN /\ \A s \in Stores : Away(s, first) = 0
              /\ \A r \in Kind(Official, {"OPENING_BALANCE"}) : r.at < first
         ELSE \A s \in Stores : /\ WrittenOff(s, Since(prev)) = 0 /\ Since(prev) < first
                                /\ RowsBetween(s, Since(prev), first) = {}
      => SummaryReport(from, to).closing = LedgerIn(Stores, Start(to + 1))

\* The opening of a January is what the period itself gives out.
JanuaryOpens(m) ==
  LET last == OpeningBalance(m \div YearLength)
  IN  m % YearLength = 0 /\ last # {} /\ PrevClose(m) \subseteq 0 .. m
      => SummaryReport(m, m).opening = KeptIn(last, Kept(last))
SummaryAgrees ==
  /\ Overlaps!Alone(\A x \in Ranges : SummaryAgreesOn(x[1], x[2]))
  /\ \A m \in Months : JanuaryOpens(m)

\* The running year, and its last month that there is.
FirstOfYear == (ThisMonth \div YearLength) * YearLength
LastOfYear == IF FirstOfYear + YearLength > LastMonth THEN LastMonth ELSE FirstOfYear + YearLength - 1
SheetOf(scope) == StockReport(scope, ThisMonth \div YearLength)

\* Passes the other hotel has, or has sent back.
InTransit ==
  {p \in Passes : pass[p].status \in {"RECEIVED_AT_DESTINATION", "RETURNING", "RETURN_RECEIVED_AT_GATE"}}
TransitQty == SumOf([p \in InTransit |-> pass[p].qty])

\* "Keep parity with Summary report logic" (getStockReport): in the sheet of the
\* running year every column both reports have is the same, if both open with
\* the same December, but for the goods of another hotel: what it has received is
\* outstanding for the summary and not for the sheet.
SheetIsSummary ==
  PrevClose(FirstOfYear) = OpeningBalance(ThisMonth \div YearLength) =>
    LET sheet == SheetOf(Stores)
        summary == SummaryReport(FirstOfYear, LastOfYear)
    IN  /\ \A f \in {"opening", "received", "broken"} : sheet[f] = summary[f]
        /\ sheet.outstanding + TransitQty = summary.outstanding
        /\ sheet.theoretical - TransitQty = summary.theoretical

\* The variance of the last counts is 0, if no balance was touched since the
\* session was opened.
SheetShowsCounts(scope) ==
  (\A s \in scope : \E c \in LastCounts({s}) : Untouched(c)) => SheetOf(scope).physicalVariance = 0

\* Theory is the ledger, if the year has only movements the sheet has columns
\* for, opened with no goods out and no other hotel has received any.
SheetIsLedger(scope) ==
  LET best == OpeningBalance(ThisMonth \div YearLength)
      first == Start(FirstOfYear)
      during == At(Ledger(FirstOfYear, LastOfYear), scope)
  IN  /\ during \subseteq PassRows \cup GiftRows \cup Kind(entries, {"RECEIVE", "OPENING_BALANCE"} \cup Losses)
      /\ PassesOpen(first) /\ InTransit = {}
      /\ \A s \in scope :
           /\ Away(s, first) = 0
           /\ best # {} =>
                /\ Plain(best, s) /\ RowsBetween(s, Since(best), first) = {} /\ Since(best) < first
                /\ Kind(At(during, {s}), {"OPENING_BALANCE"}) = {}
      => SheetOf(scope).theoretical = LedgerIn(scope, now)
StockReportAgrees ==
  Overlaps!Alone(SheetIsSummary /\ \A scope \in Scopes : SheetShowsCounts(scope) /\ SheetIsLedger(scope))

\* The movement history of a range is the change of the ledger, kind by kind,
\* and the ledger's own OMC agrees where its opening is known.
HistoryAgrees ==
  LET all == {r.kind : r \in entries}
  IN  \A x \in Elapsed, s \in Stores :
        LET history == MovementHistory({s}, all, x[1], x[2])
            omc == LedgerOmc(s, x[1], x[2])
            end == LedgerAt(s, Start(x[2] + 1))
        IN  /\ history.totalIn - history.totalOut = end - LedgerAt(s, Start(x[1]))
            /\ history.rows = UNION {MovementHistory({s}, {k}, x[1], x[2]).rows : k \in all}
            /\ omc.known => omc.closing = end

\* Documents and ledger tell the same: losses and transfers; and counts, in the
\* month they were opened, with what is counted and not posted.
PapersAgree ==
  \A x \in Elapsed, scope \in Scopes :
    LET ledger == At(Ledger(x[1], x[2]), scope)
        broken == QtyOut(Kind(ledger, {"BREAKAGE"}))
        report == TransfersReport(scope, x[1], x[2])
        out == Total({d \in report : d.type = "Transfer Out"})
        pl == BreakagePL(scope, x[1], x[2])
        counts == Opened(scope, x[1], x[2])
    IN  /\ Total(BreakageReport(scope, x[1], x[2])) = broken + QtyOut(Kind(ledger, {"LOST"}))
        /\ QtyOut(BreakageRows(scope, x[1], x[2])) = broken
        /\ SumOf(pl) = broken
        /\ Total({d \in report : d.type = "Transfer In"}) - out
             = Total(Kind(ledger, {"TRANSFER_IN", "TRANSFER_OUT"}))
        /\ Total(TransferHistory(scope, Stores \ scope, x[1], x[2])) = out
        /\ CountVariances(scope, x[1], x[2])
             = Total({r \in At(Official, scope) : \E c \in counts : c.store = r.store /\ c.posted = r.at})
               + SumOf([c \in counts \ Posted(counts) |-> VarianceOf(c)])

\* What the dashboards show of a month is what the reports of that month show.
DashboardsAgree ==
  LET month == MovementHistory(Stores, {"ISSUE"}, ThisMonth, ThisMonth)
      consumed == Consumption(Stores, ThisMonth, ThisMonth)
      series == ConsumptionByMonth
      omc == OmcReport(ThisMonth, ThisMonth)
  IN  /\ ThisMonthMovements.consumption = month.totalOut
      /\ SumOf(consumed) = month.totalOut
      /\ series[ThisMonth] = [consumption |-> BranchMetrics.consumption, breakage |-> BranchMetrics.waste]
      /\ ThisMonth > 0 => /\ series[ThisMonth - 1].consumption = PrevMonthMovements.consumption
                          /\ series[ThisMonth - 1].breakage = PrevMonthMovements.loss
      /\ Total(ApprovedLosses) = LossVsBreakage["BREAKAGE"] + LossVsBreakage["LOST"]
      /\ LossVsBreakage["BREAKAGE"] = ThisMonthMovements.loss
      /\ \A s \in DOMAIN consumed : s \in DOMAIN omc /\ consumed[s] <= omc[s].outward

\* The pages that list stock agree on it, and both reports on what has aged.
\* (Goods lost on a pass may leave a balance below zero, which pages leave out.)
StockPagesAgree ==
  LET buckets == AgingBuckets
      threshold == now - MonthLength
  IN  /\ (\A s \in Stores : OnHand(s) >= 0) =>
           /\ StockProfile.total = TotalOnHand /\ SumOf(buckets) = TotalOnHand
           /\ StockSummary.items = StockSummary.empty + Cardinality(StockProfile.stores)
      /\ StockSummary.qty = BranchMetrics.inventory
      /\ DOMAIN AgingReport(Stores, ThisMonth) = StockProfile.stores
      /\ \A s \in InventoryAging(Stores, threshold) :
           /\ s \in StockProfile.stores
           /\ \A r \in At(entries, {s}) : r.at >= threshold => r.kind \in Unkept
      /\ \A s \in StockProfile.stores : StockBalances[s] = StockValuation[s]

\* While updates do not overlap, levels fit one another; what is ordered for
\* a store then brings it up to its reorder point, every list of stores that
\* run low is contained in the suggestions, and the chart shows the worst.
LevelsAgree ==
  Overlaps!Alone(
    /\ \A s \in DOMAIN stock : Fit(stock[s].levels)
    /\ \A s \in DOMAIN ReorderSuggestions :
         OnHand(s) + ReorderSuggestions[s] >= Par(s, "reorder")
    /\ LowStock \cup StockAlerts \subseteq DOMAIN ReorderSuggestions
    /\ StockAlerts # {} => LowStockState = "critical"
    /\ LowStock # {} => LowStockState \in {"critical", "warning"}
    /\ StockSummary.low <= Cardinality(LowStock))


\* A report of months that are over says the same whenever it is printed, as
\* long as no month is closed or reopened: the ledger is only appended to.
\* (The summary report takes in opening balances of any date, and loses what a
\* pass has out when it is closed; a pass closed twice comes back to it.)
PastStands ==
  [][period' = period
       => \A x \in Ranges : EndOf(x[2]) < now
            => /\ OmcReport(x[1], x[2])' = OmcReport(x[1], x[2])
               /\ \A best \in Bases(x[2]), s \in Stores :
                    ValuationReport(best, x[2], s)' = ValuationReport(best, x[2], s)
               /\ MovementHistory(Stores, {"RECEIVE", "ISSUE"}, x[1], x[2])'
                    = MovementHistory(Stores, {"RECEIVE", "ISSUE"}, x[1], x[2])
               /\ /\ Kind(entries', {"OPENING_BALANCE"}) = Kind(entries, {"OPENING_BALANCE"})
                  /\ \A p \in Passes : pass[p].closed \in {Never, pass'[p].closed}
                  => SummaryReport(x[1], x[2])' = SummaryReport(x[1], x[2])]_<<books, pass>>
=============================================================================
