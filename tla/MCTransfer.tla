----------------------------- MODULE MCTransfer -----------------------------
(* Instances of store transfers small enough for TLC. *)
EXTENDS StoreTransfer, TLC

CONSTANTS store, bar, t1, r1, r2

Row(x, y, n) == [from |-> x, to |-> y, qty |-> n]

\* A plain transfer, and two lines that go through the same balances; the
\* last one can only be the result of an edit.
PlansFor ==
  [t \in Transfers |->
     {<<Row(store, bar, 2)>>, <<Row(store, bar, 1), Row(store, bar, 0)>>, <<Row(store, store, 1)>>}]

\* A receipt and an issue.
PostingsElsewhere == {2, -2}

Symmetry == Permutations(Requests)
=============================================================================
