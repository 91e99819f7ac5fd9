----------------------------- MODULE MCOpening ------------------------------
(* An instance of the opening balance small enough for TLC. *)
EXTENDS OpeningStock, TLC

CONSTANTS dp, ca, su, sp, l1, l2, i1, r1, r2

\* Bound: once two requests have overlapped, they are finished and no other is
\* begun.  The catalogue is rearranged early; drafts are made by hand early, at l1.
OneOverlap ==
  /\ openingOverlapped => Overlaps!Busy' \subseteq Overlaps!Busy
  /\ catalogueRows' # catalogueRows /\ UNCHANGED taskPc => changes < 2
  /\ obLines' # obLines /\ UNCHANGED taskPc =>
       changes < 2 /\ \A n \in obLines' \ obLines : n.loc = l1
Perms == Permutations({r1, r2})
MCNext == OpeningHistoryNext /\ OneOverlap
MCSpec == OpeningHistoryInit /\ [][MCNext]_<<openingVars, openingOverlapped>>

DraftedFor == {-1, 0}

LinksFor == {{<<su, ca>>, <<l1, dp>>, <<ca, dp>>}}

EditsFor ==
  {[refs |-> {ca, su}, store |-> l1, price |-> 1, base |-> TRUE, opening |-> 1],
   [store |-> l2, opening |-> 2], [price |-> 0, opening |-> 0], [refs |-> {dp, sp}, base |-> FALSE]}

SheetsFor ==
  {[data |-> [refs |-> {dp, ca}, price |-> 2, base |-> TRUE], qty |-> [x \in {l1, l2} |-> 1]],
   [data |-> [refs |-> {dp}, price |-> 1, base |-> FALSE], qty |-> [x \in {l2} |-> 2]]}
=============================================================================
