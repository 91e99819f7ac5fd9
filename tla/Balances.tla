------------------------------ MODULE Balances ------------------------------
(***************************************************************************)
(* The stock balances of one hotel (tenant).  Tenants share no row.        *)
(***************************************************************************)
EXTENDS Integers, Sequences, FiniteSets

\* Rows of stock_balances: one per item and location.  A row that does not
\* exist yet is a balance of zero.
CONSTANT Cells

ASSUME CellsAssumption == IsFiniteSet(Cells)

Zero == [c \in Cells |-> 0]
=============================================================================
