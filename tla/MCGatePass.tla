----------------------------- MODULE MCGatePass -----------------------------
(* Instances of gate passes small enough for TLC. *)
EXTENDS GatePass, TLC

CONSTANTS store, p1, r1, r2

Paper(k, i, n) == [kind |-> k, internal |-> i, cell |-> store, qty |-> n]

\* A loan to a person and one to another hotel, and goods for good.
FormsFor ==
  {Paper("TEMPORARY", FALSE, 2), Paper("TEMPORARY", TRUE, 2), Paper("PERMANENT", TRUE, 2),
   Paper("PERMANENT", FALSE, 1)}

Counted(g, d, x) == [good |-> g, damaged |-> d, lost |-> x]
CountsFor == {Counted(0, 0, 0), Counted(1, 0, 0), Counted(1, 1, 0), Counted(0, 0, 1)}

Stocked == [c \in Cells |-> 2]
PostingsElsewhere == {-1}

\* Bound: two requests overlap once, anywhere; later ones come one at a time.
OneOverlap == overlapped => Busy' \subseteq Busy \/ Cardinality(Busy') <= 1
MCNext == HistoryNext /\ OneOverlap
MCSpec == HistoryInit /\ [][MCNext]_<<vars, overlapped>>

Symmetry == Permutations(Requests)
=============================================================================
