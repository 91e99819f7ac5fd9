------------------------------- MODULE MCIssue -------------------------------
(* Instances of requisitions and issues small enough for TLC. *)
EXTENDS RequisitionIssue, TLC

CONSTANTS a, b, q1, i1, i2, i3, la, lb, r1, r2

OwnerOf == [l \in Lines |-> q1]
CellOfLine == la :> a @@ lb :> b
WishesFor == q1 :> {la :> 1 @@ lb :> 1, la :> 2}
ForOf == [i \in Issues |-> q1]

Pick(l, n) == [line |-> l, qty |-> n]
PicksFor ==
  [i \in Issues |-> {<<Pick(la, 1)>>, <<Pick(lb, 1)>>, <<Pick(lb, 1), Pick(la, 1)>>, <<Pick(la, 2)>>,
                     <<Pick(la, 1), Pick(la, 1)>>}]

Symmetry == Permutations(Requests) \cup Permutations(Issues)
=============================================================================
