----------------------------- MODULE StockLines -----------------------------
(***************************************************************************)
(* What a line of a stock document does to the balances it names: the part *)
(* of posting.service.js that depends on the movement type alone.  The     *)
(* posting engine (PostingEngine) and its abstract promise (AtomicPosting) *)
(* both read documents through this module.                                *)
(***************************************************************************)
EXTENDS Balances

CONSTANTS
  Docs,     \* documents the engine posts: movements, count sheets, reports
  Kind,     \* Kind[d]: the movementType of d, or the kind of sheet it is
  Drafts    \* Drafts[d]: the line lists a client may save in d

Increases == {"OPENING_BALANCE", "RECEIVE", "TRANSFER_IN", "RETURN"}
Decreases == {"ISSUE", "TRANSFER_OUT", "BREAKAGE", "LOST", "LOAN_WRITE_OFF"}
Adjustments == {"ADJUSTMENT", "COUNT_ADJUSTMENT"}

\* postStockCount and postStockReport: lines are signed variances, of which
\* the zero ones are skipped (they are not among the lines here).
Counts == {"STOCK_COUNT"}
Reports == {"STOCK_REPORT"}
Sheets == Counts \cup Reports

\* Movement types postDocument has no section for: they post without effect.
Inert == {"TEMP_RECEIVE", "TEMP_RELEASE", "GET_PASS_OUT", "GET_PASS_RETURN"}

Kinds == Increases \cup Decreases \cup Adjustments \cup Sheets \cup Inert
           \cup {"TRANSFER"}

\* A line with its locations resolved: src is sourceLocationId or else the
\* line's own location, dst is destLocationId or else the line's own.
Line == [src : Cells, dst : Cells, qty : Int]

ASSUME KindAssumption == Kind \in [Docs -> Kinds]

ASSUME DraftsAssumption == Drafts \in [Docs -> SUBSET Seq(Line)]

\* The sections A ("out"), B ("in") and C ("adjust") a line goes through, the
\* first of them and whether another follows (Inert kinds go through none).
FirstSection(k) ==
  IF k \in Decreases \cup {"TRANSFER"} THEN "out"
  ELSE IF k \in Increases THEN "in" ELSE "adjust"

HasNextSection(k, s) == k = "TRANSFER" /\ s = "out"

\* The balance a section reads and writes.
CellOf(k, s, line) ==
  IF k = "TRANSFER" /\ s = "in" THEN line.dst ELSE line.src

\* Mutant: only decreases are checked, negative adjustments are not.
ShortOutOnly(s, line, seen) == s = "out" /\ seen < line.qty

\* The section refuses the line: "Insufficient stock".  A balance row that
\* does not exist yet reads as zero.
Short(s, line, seen) ==
  \/ s = "out" /\ seen < line.qty
  \/ s = "adjust" /\ line.qty < 0 /\ seen < -line.qty

\* qtyIn - qtyOut of the ledger row, computed from the balance that was read.
\* An opening balance is a target: the row records the difference to it.
RowQty(k, s, line, seen) ==
  CASE s = "out" -> -line.qty
    [] s = "adjust" -> line.qty
    [] s = "in" -> IF k = "OPENING_BALANCE" THEN line.qty - seen ELSE line.qty

\* What the UPDATE does to the balance as it is when it runs: increment and
\* decrement are relative, an opening balance is written as it stands.
BalanceChange(k, s, line, current) == RowQty(k, s, line, current)

\* Cells an opening balance may be declared for.
OpeningCells ==
  { c \in Cells : \E d \in Docs : \E ls \in Drafts[d] : \E i \in DOMAIN ls :
      Kind[d] = "OPENING_BALANCE" /\ ls[i].src = c }
=============================================================================
