---------------------------- MODULE MCCorrections ----------------------------
(* Instances of corrections small enough for TLC. *)
EXTENDS Corrections, TLC

CONSTANTS store, d1, s1, q1, r1, r2, t1, t2

Lost(k, o, n) == [kind |-> k, source |-> o, cell |-> store, qty |-> n]

\* A breakage, what came back damaged, and lost items of the house, some of a
\* quantity nobody checked.
LossesFor ==
  {Lost("BREAKAGE", "INTERNAL", 1), Lost("BREAKAGE", "GET_PASS_RETURN", 1),
   Lost("LOST", "INTERNAL", 1), Lost("LOST", "INTERNAL", -1)}

Stocked == [c \in Cells |-> 1]
PostingsElsewhere == {-1, 1}

\* Bounds: two requests overlap once, anywhere, and later ones come one at a
\* time; at most two of document, session and report exist.
OneOverlap == Cardinality(Busy') <= 2 /\ (overlapped => Busy' \subseteq Busy \/ Cardinality(Busy') <= 1)
Existing ==
  {d \in Docs : doc[d].status # "none"} \cup Opened \cup {p \in Reports : report[p].status # "none"}
MCNext == HistoryNext /\ OneOverlap /\ Cardinality(Existing') <= 2
MCSpec == HistoryInit /\ [][MCNext]_<<vars, overlapped>>

Symmetry == Permutations(Clerks) \cup Permutations(Tellers)
=============================================================================
