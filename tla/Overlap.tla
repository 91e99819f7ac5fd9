------------------------------- MODULE Overlap -------------------------------
(***************************************************************************)
(* What the handlers keep, they often keep only as long as no two requests *)
(* overlap: statuses and balances are read in one query and written in     *)
(* another.  A specification extended with this history variable checks    *)
(* such properties in the same run as those that hold of any interleaving. *)
(***************************************************************************)
EXTENDS FiniteSets, Naturals

CONSTANT Requests

VARIABLES
  pc,         \* what each request does next
  overlapped  \* a request was in progress while somebody else took a step

Busy == {r \in Requests : pc[r] # "idle"}

\* Whatever a request does itself changes its pc.
NoteOverlap ==
  overlapped' = \/ overlapped
                \/ Cardinality(Busy') > 1
                \/ Busy # {} /\ UNCHANGED pc

\* P is promised to requests that do not overlap.
Alone(P) == overlapped \/ P
=============================================================================
