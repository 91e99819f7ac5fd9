------------------------- MODULE PostingProperties -------------------------
(***************************************************************************)
(* What the posting engine must keep.  Some of it holds however requests   *)
(* interleave, some of it only while no two of them overlap.               *)
(***************************************************************************)
EXTENDS PostingEngine, FiniteSetsExt

VARIABLE overlapped

INSTANCE Overlap

HistoryInit == Init /\ overlapped = FALSE
HistoryNext == Next /\ NoteOverlap
HistorySpec == HistoryInit /\ [][HistoryNext]_<<vars, overlapped>>

\* The strict ledger consistency rule (posting.service.js:68-73): every
\* balance is the sum of its ledger rows.  Where no opening balance can be
\* declared it holds under every interleaving: both are changed by the same
\* relative amount in the same transaction.
LedgerReconciles == \A c \in Cells \ OpeningCells : onHand[c] = ledger[c]

\* No ledger row is visible for a document that is not POSTED: a request
\* that is refused or dies half way leaves nothing of the lines it handled.
NothingBookedBeforePosting ==
  \A d \in Docs : status[d] # "POSTED" => booked[d] = Zero

\* What holds of stock, ledger and documents at any moment of any
\* interleaving.
Consistent == TypeOK /\ LedgerReconciles /\ NothingBookedBeforePosting

\* A posting books whole documents: what it adds to the ledger for a cell is
\* the effect of one list of lines the document had, none left out or
\* repeated (opening balances are booked as a difference and not covered).
Booked(k, ls, c) ==
  LET from(i) == IF k \in Decreases \cup {"TRANSFER"} THEN -ls[i].qty ELSE ls[i].qty
      to(i) == IF k = "TRANSFER" /\ ls[i].dst = c THEN ls[i].qty ELSE 0
      n == [i \in DOMAIN ls |-> to(i) + IF ls[i].src = c THEN from(i) ELSE 0]
  IN  MapThenSumSet(LAMBDA i : n[i], DOMAIN ls)

BooksWholeDocuments ==
  [][\A d \in Docs :
       booked'[d] # booked[d] /\ Kind[d] # "OPENING_BALANCE" =>
         \E ls \in Drafts[d] : \A c \in Cells :
           booked'[d][c] - booked[d][c] = Booked(Kind[d], ls, c)]_vars

\* A posted line of d adds a negative quantity to c: the sign of the lines of
\* receipts and transfers is validated nowhere (movement.service.js:160-187).
AddsLess(d, c) ==
  \E i \in DOMAIN lines[d] :
    /\ Kind[d] \in Increases \cup {"TRANSFER"} /\ lines[d][i].qty < 0
    /\ CellOf(Kind[d], "in", lines[d][i]) = c

\* Nothing is taken from a balance that is not there (the "Insufficient stock"
\* checks of sections A and C, "already validated above"): only a line that
\* adds a negative quantity to it makes a balance negative.
NonNegative ==
  Alone(\A c \in Cells :
          onHand[c] < 0 => \E d \in Docs : status[d] = "POSTED" /\ AddsLess(d, c))

\* A request that was taken is answered: waiting for a row lock, even in a
\* cycle, always ends.
EveryRequestReturns == \A r \in Requests : pc[r] # "idle" ~> pc[r] = "idle"

\* While requests do not overlap, the engine keeps the promise of
\* AtomicPosting: one step for all the lines, for a document that was not
\* posted before, in an open month, and under the lock of opening balances.
Promise == INSTANCE AtomicPosting WITH locked <- obSetting = "LOCKED"
KeepsPromise == Promise!Init /\ [][Alone([Promise!Next]_(Promise!vars))]_vars
=============================================================================
