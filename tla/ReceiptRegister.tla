-------------------------- MODULE ReceiptRegister ---------------------------
(***************************************************************************)
(* What posting a goods receipt promises: each note is received at most    *)
(* once, and receiving it adds the quantities of all its lines, as they    *)
(* are listed on its movement document, in one indivisible step.           *)
(***************************************************************************)
EXTENDS Balances, FiniteSetsExt

CONSTANTS
  Grns,       \* goods receipt notes
  Receipts    \* Receipts[g]: the lists of lines g may have

VARIABLES
  stock,      \* quantity per balance
  received    \* the lines each note was received with, <<>> if it was not

vars == <<stock, received>>

Total(ls, c) ==
  LET n == [i \in DOMAIN ls |-> IF ls[i].cell = c THEN ls[i].qty ELSE 0]
  IN  MapThenSumSet(LAMBDA i : n[i], DOMAIN ls)

Init == stock = Zero /\ received = [g \in Grns |-> <<>>]

Receive(g) ==
  /\ received[g] = <<>>
  /\ \E ls \in Receipts[g] :
       /\ received' = [received EXCEPT ![g] = ls]
       /\ stock' = [c \in Cells |-> stock[c] + Total(ls, c)]

Next == \E g \in Grns : Receive(g)

Spec == Init /\ [][Next]_vars
=============================================================================
