------------------------------- MODULE Figures -------------------------------
(***************************************************************************)
(* The quantities of the reports (report.service.js, reports.service.js,   *)
(* summaryReport.service.js, stockReport.service.js) and of the dashboards *)
(* and stock pages, each computed from the rows, documents and snapshots   *)
(* it reads.  A report covers the months from .. to of the stores of its   *)
(* scope; names, prices, sorting and paging are left out.                  *)
(***************************************************************************)
EXTENDS Months

In(r) == IF r.qty > 0 THEN r.qty ELSE 0
Out(r) == IF r.qty < 0 THEN -r.qty ELSE 0
QtyIn(S) == SumOf([r \in S |-> In(r)])
QtyOut(S) == SumOf([r \in S |-> Out(r)])
Kind(S, kinds) == {r \in S : r.kind \in kinds}
At(S, stores) == {r \in S : r.store \in stores}
Within(S, from, to) == {r \in S : Start(from) <= r.at /\ r.at <= EndOf(to)}

\* OFFICIAL_LEDGER_WHERE: rows with affectsValuation.
Official == {r \in entries : r.official}
\* Mutant: a range without its end.
LedgerToDate(from, to) == {r \in Official : Start(from) <= r.at /\ to \in Months}

Ledger(from, to) == Within(Official, from, to)

Losses == {"BREAKAGE", "LOST", "LOAN_WRITE_OFF"}
Counted == {"ADJUSTMENT", "COUNT_ADJUSTMENT"}

-----------------------------------------------------------------------------
(* Snapshots *)

ClosedBy(t) == {m \in Months : period[m].status = "CLOSED" /\ period[m].closedAt <= t}

\* The latest of the months in S, by the instant they were closed.
Latest(S) == {m \in S : \A n \in S : period[n].closedAt <= period[m].closedAt}

\* What a choice of at most one closed month gives a report to start from.
Base(best) == period[CHOOSE m \in best : TRUE]
Since(best) == IF best = {} THEN 0 ELSE Base(best).closedAt
Kept(best) == IF best = {} THEN {} ELSE DOMAIN Base(best).snapshot
KeptQty(best, s) == IF s \in Kept(best) THEN Base(best).snapshot[s] ELSE 0
KeptIn(best, stores) == SumOf([s \in stores |-> KeptQty(best, s)])

\* What the balances of some stores come to.
OnHandIn(stores) == SumOf([s \in stores |-> OnHand(s)])

\* The active passes of some stores, and what is still out on passes.  (The
\* line of an active pass is active unless all of it is back.)
Active(stores) ==
  {p \in Passes : pass[p].status \in {"OUT", "PARTIALLY_RETURNED"} /\ pass[p].store \in stores}
StillOut(passes) == SumOf([p \in passes |-> pass[p].qty - pass[p].back])

\* Count sessions by the day they were opened, and posted ones.
Opened(stores, from, to) == {c \in Within(sheets, from, to) : c.store \in stores}
Posted(S) == {c \in S : c.posted # Never}
CountedIn(S) == SumOf([c \in {c \in S : c.counted.is} |-> c.counted.qty])

-----------------------------------------------------------------------------
(* report.service.js *)

\* generateVarianceReport: what is on hand now, and from it backwards.
VarianceReport(scope, from, to) ==
  LET moves == At(Ledger(from, to), scope)
      inward == QtyIn(Kind(moves, {"RECEIVE", "RETURN", "TRANSFER_IN", "GET_PASS_RETURN"}))
      outward == QtyOut(Kind(moves, {"ISSUE", "TRANSFER_OUT", "GET_PASS_OUT"}))
      breakage == QtyOut(Kind(moves, Losses))
      adjusted == Total(Kind(moves, Counted))
      loaded == QtyIn(Kind(moves, {"OPENING_BALANCE"}))
      closing == OnHandIn(scope)
      opening == (closing - inward + outward + breakage - adjusted - loaded) + loaded
      gatePass == StillOut(Active(scope))
      counts == Posted(Opened(scope, from, to))
      theoretical == opening + inward - outward - breakage - gatePass
      physical == IF counts = {} THEN closing ELSE CountedIn(counts)
  IN  [opening |-> opening, inward |-> inward, outward |-> outward, breakage |-> breakage,
       adjusted |-> adjusted, gatePass |-> gatePass, theoretical |-> theoretical,
       variance |-> physical - theoretical, closing |-> closing]

\* generateBreakageReport: documents by the instant they were posted.
BreakageReport(scope, from, to) ==
  {d \in Within(papers, from, to) : d.kind \in Losses /\ d.from \in scope}

\* generateOMCReport: opening, movement and closing per store that has any.
IdleLine == [opening |-> 0, loaded |-> 0, inward |-> 0, outward |-> 0, adjusted |-> 0, closing |-> 0]
OmcReport(from, to) ==
  LET best == Latest(ClosedBy(Start(from) - 1))
      before == {r \in Official : Since(best) <= r.at /\ r.at < Start(from)}
      during == Ledger(from, to)
      Line(s) ==
        LET moves == At(during, {s})
            opening == IF s \in Kept(best) THEN KeptQty(best, s) ELSE Total(At(before, {s}))
            loaded == QtyIn(Kind(moves, {"OPENING_BALANCE"}))
            inward == QtyIn(Kind(moves, {"RECEIVE", "RETURN", "GET_PASS_RETURN", "TRANSFER_IN"}))
            outward == QtyOut(Kind(moves, Losses \cup {"ISSUE", "GET_PASS_OUT", "TRANSFER_OUT"}))
            adjusted == Total(Kind(moves, Counted))
        IN  [opening |-> opening, loaded |-> loaded, inward |-> inward, outward |-> outward,
             adjusted |-> adjusted, closing |-> opening + loaded + inward - outward + adjusted]
        active == {s \in Kept(best) \cup {r.store : r \in before \cup during} : Line(s) # IdleLine}
  IN  [s \in active |-> Line(s)]

\* generateTransfersReport: the transfers that touch the scope.
TransfersReport(scope, from, to) ==
  {[type |-> IF d.to \notin scope THEN "Transfer Out"
             ELSE IF d.from \notin scope THEN "Transfer In" ELSE "Internal",
    qty |-> d.qty, at |-> d.at] :
   d \in {d \in Within(papers, from, to) : d.kind = "TRANSFER" /\ {d.from, d.to} \cap scope # {}}}

\* generateAgingReport: the age of what is in stock, in months, by the last row.
AgingReport(scope, to) ==
  LET last(s) == {r.at : r \in {r \in At(Official, {s}) : r.at <= EndOf(to)}}
      stocked == {s \in scope : OnHand(s) > 0}
  IN  [s \in stocked |-> IF last(s) = {} THEN LastMonth + 1
                         ELSE to - MonthOf(CHOOSE t \in last(s) : \A u \in last(s) : u <= t)]


\* generateValuationReport replays the rows since a snapshot, and never goes
\* below zero.
Replay(r) ==
  CASE r.kind \in {"RECEIVE", "OPENING_BALANCE", "RETURN", "TRANSFER_IN", "GET_PASS_RETURN"} -> In(r)
    [] r.kind \in {"ISSUE", "BREAKAGE", "TRANSFER_OUT", "GET_PASS_OUT", "LOAN_WRITE_OFF"} -> -Out(r)
    [] r.kind \in Counted -> r.qty
    [] OTHER -> 0

Replayed(start, rows, end) ==
  LET qty[t \in 0 .. end + 1] ==
        IF t = 0 THEN start
        ELSE LET there == {r \in rows : r.at = t - 1}
                 sum == qty[t - 1] + SumOf([r \in there |-> Replay(r)])
             IN  IF there # {} /\ sum < 0 THEN 0 ELSE sum
  IN  qty[end + 1]

ValuationReport(best, to, s) ==
  Replayed(KeptQty(best, s),
           {r \in At(Official, {s}) : Since(best) <= r.at /\ r.at <= EndOf(to)}, EndOf(to))

\* The snapshots it may be asked to start from; without one, the latest.
Bases(to) == {{m} : m \in ClosedBy(EndOf(to))} \cup {Latest(ClosedBy(EndOf(to)))}

-----------------------------------------------------------------------------
(* summaryReport.service.js *)

\* Months are counted from one and the months of JavaScript from zero: the
\* month named "month" is the one before.
PrevClose(from) ==
  LET year == from \div YearLength
      month == from % YearLength
      Number(y, n) == y * YearLength + n - 1
      asked == {Number(year, IF month = 0 THEN YearLength ELSE month), Number(year - 1, YearLength)}
      found == {m \in asked \cap Months : period[m].status = "CLOSED"}
  IN  {m \in found : \A n \in found : n <= m}

\* getOpeningBalance (periodClose.service.js): the snapshot of last December.
OpeningBalance(year) == {m \in Months : m = year * YearLength - 1 /\ period[m].status = "CLOSED"}

\* What the records of return say.
Noted(S) == SumOf([b \in S |-> b.noted])

SummaryReport(from, to) ==
  LET prev == PrevClose(from)
      before == {r \in Official : r.at < Start(from) \/ r.kind = "OPENING_BALANCE"}
      during == Ledger(from, to)
      opening == IF prev # {} THEN KeptIn(prev, Kept(prev)) ELSE Total(before)
      received == QtyIn(Kind(during, {"RECEIVE"}))
      broken == QtyOut(Kind(during, Losses))
      away == {p \in Passes : pass[p].out <= EndOf(to) /\ pass[p].closed > EndOf(to)}
      outstanding ==
        SumOf([p \in away |-> pass[p].qty - Noted({b \in pass[p].backs : b.at <= EndOf(to)})])
      varied == Total(Kind(during, {"COUNT_ADJUSTMENT"}))
      theoretical == opening + received - broken - outstanding
  IN  [opening |-> opening, received |-> received, broken |-> broken, outstanding |-> outstanding,
       theoretical |-> theoretical, closing |-> theoretical + varied]

-----------------------------------------------------------------------------
(* stockReport.service.js: the sheet of a department for a year *)

\* The snapshot of last December, or else the rows before the year and the
\* opening balances of the year itself.
StockReportOpening(scope, year) ==
  LET last == OpeningBalance(year)
      first == year * YearLength
      before == {r \in Official : r.at < Start(first)}
                  \cup Kind(Ledger(first, first + YearLength - 1), {"OPENING_BALANCE"})
  IN  IF last # {} THEN KeptIn(last, scope) ELSE Total(At(before, scope))

\* The session of each store that was posted last.
LastCounts(scope) ==
  {c \in Posted(sheets) : /\ c.store \in scope
                          /\ \A d \in Posted(sheets) : d.store = c.store => d.posted <= c.posted}

\* getStockReport
StockReport(scope, year) ==
  LET first == year * YearLength
      moves == At(Ledger(first, first + YearLength - 1), scope)
      opening == StockReportOpening(scope, year)
      received == QtyIn(Kind(moves, {"RECEIVE"}))
      broken == QtyOut(Kind(moves, Losses))
      outstanding == StillOut(Active(scope))
      closing == OnHandIn(scope)
  IN  [opening |-> opening, received |-> received, broken |-> broken, outstanding |-> outstanding,
       theoretical |-> opening + received - broken - outstanding,
       closing |-> closing, variance |-> closing - opening,
       physicalVariance |-> CountedIn(LastCounts(scope)) - closing]

-----------------------------------------------------------------------------
(* reports.service.js *)

\* getStockValuation
StockValuation == [s \in DOMAIN stock |-> stock[s].onHand]

\* getMovementHistory, of some stores and kinds.
MovementHistory(stores, kinds, from, to) ==
  LET found == Kind(At(Ledger(from, to), stores), kinds)
  IN  [rows |-> found, totalIn |-> QtyIn(found), totalOut |-> QtyOut(found)]

\* getBreakageReport: ledger rows whose document is approved or posted.
BreakageRows(stores, from, to) ==
  {r \in Kind(At(Ledger(from, to), stores), {"BREAKAGE"}) :
     \E d \in papers : d.kind = r.kind /\ d.at = r.at}

\* getCountVariances: of every session that was counted, posted or not.
CountVariances(stores, from, to) == SumOf([c \in Opened(stores, from, to) |-> VarianceOf(c)])

\* getOmcReport takes the opening from a column inventory_ledger does not
\* have: with any earlier row it is not a number.
LedgerOmc(s, from, to) ==
  LET during == At(Ledger(from, to), {s})
  IN  [known |-> \A r \in At(Official, {s}) : r.at >= Start(from),
       closing |-> QtyIn(during) - QtyOut(during)]

\* getTransferHistoryReport, by source and destination.
TransferHistory(sources, dests, from, to) ==
  {d \in Within(papers, from, to) : d.kind = "TRANSFER" /\ d.from \in sources /\ d.to \in dests}

\* getBreakagePLReport: the loss of each month, from the rows of its documents.
BreakagePL(stores, from, to) ==
  [m \in from .. to |->
     LET docs == {d \in Within(papers, m, m) : d.kind = "BREAKAGE" /\ d.from \in stores}
     IN  SumOf([d \in docs |-> QtyOut({r \in Official : r.at = d.at})])]

\* getInventoryAgingReport: balances not written since the threshold.
InventoryAging(stores, threshold) ==
  {s \in stores \cap DOMAIN stock : stock[s].onHand > 0 /\ stock[s].updated < threshold}

-----------------------------------------------------------------------------
(* consumption.service.js *)

ThisMonth == MonthOf(now)

\* getConsumptionReport: what was issued.
Consumption(stores, from, to) ==
  [s \in {r.store : r \in Kind(At(Within(entries, from, to), stores), {"ISSUE"})} |->
     QtyOut(Kind(At(Within(entries, from, to), {s}), {"ISSUE"}))]

-----------------------------------------------------------------------------
(* dashboard.service.js: a department sees its own items, the others all. *)

TotalOnHand == OnHandIn(Stores)

ThisMonthRows(kinds) == {r \in Kind(entries, kinds) : r.at >= Start(ThisMonth)}
PrevMonthRows(kinds) == Kind(Within(entries, ThisMonth - 1, ThisMonth - 1), kinds)

ThisMonthMovements ==
  [consumption |-> QtyOut(ThisMonthRows({"ISSUE"})),
   transfers |-> Cardinality(ThisMonthRows({"TRANSFER_OUT"})),
   loss |-> QtyOut(ThisMonthRows({"BREAKAGE"}))]

PrevMonthMovements ==
  [consumption |-> QtyOut(PrevMonthRows({"ISSUE"})), loss |-> QtyOut(PrevMonthRows({"BREAKAGE"}))]

LastRow(s) == {r.at : r \in At(entries, {s})}
Idle(s) == IF LastRow(s) = {} THEN LastMonth + 1
           ELSE ThisMonth - MonthOf(CHOOSE t \in LastRow(s) : \A u \in LastRow(s) : u <= t)

\* Buckets of at most one month, of two, and of more.
AgingBuckets ==
  LET stocked == {s \in DOMAIN stock : stock[s].onHand > 0}
      bucket(s) == IF Idle(s) > 2 THEN "60+" ELSE IF Idle(s) > 1 THEN "31-60" ELSE "0-30"
  IN  [b \in {"0-30", "31-60", "60+"} |-> OnHandIn({s \in stocked : bucket(s) = b})]

\* computeControlTowerMetrics: losses of the month by document, and by row.
ApprovedLosses ==
  {d \in papers : d.kind \in {"BREAKAGE", "LOST"} /\ d.at >= Start(ThisMonth)}
LossVsBreakage == [k \in {"BREAKAGE", "LOST"} |-> QtyOut(ThisMonthRows({k}))]

\* getChartData: a series over the months.
ConsumptionByMonth ==
  [m \in 0 .. ThisMonth |->
     [consumption |-> QtyOut(Kind(Within(entries, m, m), {"ISSUE"})),
      breakage |-> QtyOut(Kind(Within(entries, m, m), {"BREAKAGE"}))]]

\* aggregateBranchMetrics: a hotel among those of its organization.
BranchMetrics ==
  [inventory |-> TotalOnHand, consumption |-> QtyOut(ThisMonthRows({"ISSUE"})),
   waste |-> QtyOut(ThisMonthRows({"BREAKAGE"}))]

-----------------------------------------------------------------------------
(* stock.service.js, parLevel.service.js and reorder.service.js *)

Par(s, l) == LevelsOf(s)[l]
Levelled == {s \in DOMAIN stock : \E l \in Levels : Par(s, l) > 0}

\* checkLowStock
LowStock ==
  {s \in Levelled : \/ Par(s, "reorder") > 0 /\ OnHand(s) <= Par(s, "reorder")
                    \/ Par(s, "min") > 0 /\ OnHand(s) < Par(s, "min")}

\* The stock alerts of the control tower.
StockAlerts == {s \in DOMAIN stock : Par(s, "min") > 0 /\ OnHand(s) < Par(s, "min")}

\* getReorderSuggestions: what to order for the stores that need it.
TargetQty(s) ==
  CASE Par(s, "max") > 0 -> Par(s, "max")
    [] Par(s, "max") = 0 /\ Par(s, "reorder") > 0 -> 2 * Par(s, "reorder")
    [] OTHER -> 2 * Par(s, "min")

ReorderSuggestions ==
  LET needy == {s \in Levelled : \/ Par(s, "reorder") > 0 /\ OnHand(s) <= Par(s, "reorder")
                                 \/ Par(s, "min") > 0 /\ OnHand(s) <= Par(s, "min")}
  IN  [s \in needy |-> IF TargetQty(s) > OnHand(s) THEN TargetQty(s) - OnHand(s) ELSE 0]

\* Low stock of the chart: the worst state of any store of the item.
StoreState(s) ==
  IF OnHand(s) = 0 \/ (Par(s, "min") > 0 /\ OnHand(s) < Par(s, "min")) THEN "critical"
  ELSE IF Par(s, "reorder") > 0 /\ OnHand(s) <= Par(s, "reorder") THEN "warning" ELSE "ok"

LowStockState ==
  LET states == {StoreState(s) : s \in Levelled}
  IN  IF Levelled = {} THEN "none" ELSE IF "critical" \in states THEN "critical"
      ELSE IF "warning" \in states THEN "warning" ELSE "ok"

\* getStockBalances and getStockSummary of a finalized hotel.
StockBalances == [s \in {s \in DOMAIN stock : stock[s].onHand > 0} |-> stock[s].onHand]
StockSummary ==
  [items |-> Cardinality(DOMAIN stock), qty |-> OnHandIn(DOMAIN stock),
   low |-> Cardinality({s \in DOMAIN stock : Par(s, "reorder") > 0 /\ OnHand(s) <= Par(s, "reorder")}),
   empty |-> Cardinality({s \in DOMAIN stock : stock[s].onHand = 0})]

\* getItemStockProfile
StockProfile == [total |-> SumOf(StockBalances), stores |-> DOMAIN StockBalances]
=============================================================================
