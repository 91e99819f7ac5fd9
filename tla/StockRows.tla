----------------------------- MODULE StockRows ------------------------------
(***************************************************************************)
(* Balances and ledger as the transactions of the API server see them in   *)
(* PostgreSQL at its default level, READ COMMITTED: a SELECT sees what is  *)
(* committed and the transaction's own writes, an UPDATE waits for the     *)
(* lock of the row and works on its newest version, and the lock is kept   *)
(* until the transaction ends.                                             *)
(*                                                                         *)
(* The ledger is kept as the sum of qtyIn - qtyOut per balance, which is   *)
(* what the reports rebuild stock from.                                    *)
(***************************************************************************)
EXTENDS Balances

CONSTANT Requests   \* HTTP requests the server may have in flight

VARIABLES
  onHand,     \* stock_balances.qtyOnHand, committed
  ledger,     \* per cell: sum of qtyIn - qtyOut over committed ledger rows
  seen,       \* per request: the balance its last SELECT returned
  pend,       \* per request: uncommitted change of each balance
  rows,       \* per request: uncommitted ledger rows, summed per cell
  held        \* per request: rows of stock_balances it has locked

committed == <<onHand, ledger>>
uncommitted == <<seen, pend, rows, held>>

RowsTypeOK ==
  /\ onHand \in [Cells -> Int]
  /\ ledger \in [Cells -> Int]
  /\ seen \in [Requests -> Int]
  /\ pend \in [Requests -> [Cells -> Int]]
  /\ rows \in [Requests -> [Cells -> Int]]
  /\ held \in [Requests -> SUBSET Cells]

\* Nothing is in stock, no transaction is open.
RowsInit ==
  /\ onHand = Zero
  /\ ledger = Zero
  /\ seen = [r \in Requests |-> 0]
  /\ pend = [r \in Requests |-> Zero]
  /\ rows = [r \in Requests |-> Zero]
  /\ held = [r \in Requests |-> {}]

Visible(r, c) == onHand[c] + pend[r][c]

Select(r, c) ==
  /\ seen' = [seen EXCEPT ![r] = Visible(r, c)]
  /\ UNCHANGED <<committed, pend, rows, held>>

LockFree(r, c) == \A q \in Requests \ {r} : c \notin held[q]

\* UPDATE or upsert of the balance with the INSERT of its ledger row.
Update(r, c, change, row) ==
  /\ LockFree(r, c)
  /\ pend' = [pend EXCEPT ![r][c] = @ + change]
  /\ rows' = [rows EXCEPT ![r][c] = @ + row]
  /\ held' = [held EXCEPT ![r] = @ \cup {c}]
  /\ UNCHANGED <<committed, seen>>

\* The transaction ends: its locks go, its uncommitted work with them.
Forget(r) ==
  /\ seen' = [seen EXCEPT ![r] = 0]
  /\ pend' = [pend EXCEPT ![r] = Zero]
  /\ rows' = [rows EXCEPT ![r] = Zero]
  /\ held' = [held EXCEPT ![r] = {}]

CommitRows(r) ==
  /\ onHand' = [c \in Cells |-> onHand[c] + pend[r][c]]
  /\ ledger' = [c \in Cells |-> ledger[c] + rows[r][c]]
  /\ Forget(r)

RollbackRows(r) == Forget(r) /\ UNCHANGED committed
=============================================================================
