----------------------------- MODULE BookedStock -----------------------------
(* The stock rows that corrections share, and the month they are booked in. *)
EXTENDS Balances

VARIABLES
  onHand,     \* stock_balances
  ledger,     \* per balance: sum of qtyIn - qtyOut of its ledger rows
  closed      \* the current month is closed

stockRows == <<onHand, ledger>>
=============================================================================
