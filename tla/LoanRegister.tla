---------------------------- MODULE LoanRegister ----------------------------
(***************************************************************************)
(* What a gate pass promises, without its signatures, gates and desks: the *)
(* goods of a pass leave once, and what comes back is part of what left.   *)
(***************************************************************************)
EXTENDS Naturals

CONSTANT Passes

VARIABLES
  lent,       \* quantity that has left on each pass
  returned    \* quantity accounted for since, as good, damaged or lost

Init ==
  /\ lent = [p \in Passes |-> 0]
  /\ returned = [p \in Passes |-> 0]

Lend(p, n) ==
  /\ lent[p] = 0
  /\ lent' = [lent EXCEPT ![p] = n]
  /\ UNCHANGED returned

TakeBack(p, n) ==
  /\ returned[p] + n <= lent[p]
  /\ returned' = [returned EXCEPT ![p] = @ + n]
  /\ UNCHANGED lent

\* The quantities are those by which the register changes.
Next ==
  \E p \in Passes :
    \/ Lend(p, lent'[p])
    \/ TakeBack(p, returned'[p] - returned[p])
=============================================================================
