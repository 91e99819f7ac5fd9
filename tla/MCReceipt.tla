----------------------------- MODULE MCReceipt ------------------------------
(* Instances of goods receipt small enough for TLC. *)
EXTENDS ReceiptProperties, TLC

CONSTANTS a, b, g1, g2, r1, r2

Ln(c, q) == [cell |-> c, qty |-> q]

MCReceipts == g1 :> {<<Ln(a, 1)>>, <<Ln(a, 1), Ln(b, 1)>>} @@ g2 :> {<<Ln(b, 2), Ln(a, 2)>>}

ReceiptsOf == [g \in Grns |-> MCReceipts[g]]

Symmetry == Permutations(Requests)
=============================================================================
