------------------------- MODULE ReceiptProperties --------------------------
(***************************************************************************)
(* What goods receipts must keep, however requests interleave or while no  *)
(* two of them overlap.                                                    *)
(***************************************************************************)
EXTENDS GoodsReceipt

VARIABLE overlapped

INSTANCE Overlap

HistoryInit == Init /\ overlapped = FALSE
HistoryNext == Next /\ NoteOverlap
HistorySpec == HistoryInit /\ [][HistoryNext]_<<vars, overlapped>>

\* A note that is POSTED has its movement document.
PostedHasMovement == \A g \in Grns : status[g] = "POSTED" => movement[g] # <<>>

\* What holds of notes, requests and stock at any moment of any interleaving.
Consistent == TypeOK /\ PostedHasMovement

\* The ledger is a receipt register: every posting adds all the lines of its
\* movement document in one step, and no note is posted twice, however posts
\* of the same note, edits, decisions and aborts interleave.
LedgerRegister == INSTANCE ReceiptRegister WITH stock <- ledger, received <- movement
LedgerKeepsRegister == LedgerRegister!Spec

\* While requests do not overlap the balances are one, too: "ATOMIC: Post all
\* GRN lines to InventoryLedger + update StockBalance" (grn.service.js:372).
StockRegister == INSTANCE ReceiptRegister WITH stock <- onHand, received <- movement
StockKeepsRegister ==
  StockRegister!Init /\ [][Alone([StockRegister!Next]_(StockRegister!vars))]_vars

\* "GRN is POSTED and is fully read-only" (grn.service.js:673); "POSTED /
\* APPROVED (and any non-REJECTED status) cannot change line items"
\* (grn.service.js:585).
SettledNotesStay ==
  [][Alone(\A g \in Grns :
       /\ status[g] = "POSTED" => UNCHANGED status[g]
       /\ status[g] \notin {"none", "REJECTED"} => UNCHANGED lines[g])]_vars

\* What is posted is what the approver has seen: an edit after an approval
\* needs another one.
PostsSignedLines ==
  [][Alone(\A g \in Grns : movement'[g] # movement[g] => movement'[g] = signed[g])]_vars
=============================================================================
