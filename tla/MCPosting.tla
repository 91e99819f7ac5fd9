----------------------------- MODULE MCPosting -----------------------------
(* Instances of the posting engine small enough for TLC. *)
EXTENDS PostingProperties, TLC

CONSTANTS a, b,                         \* balances
          ob, ret, brk, tmp, trf, back, adj, cnt,    \* documents
          jan, r1, r2

Ln(s, d, q) == [src |-> s, dst |-> d, qty |-> q]

MCKind == ob :> "OPENING_BALANCE" @@ ret :> "RETURN" @@ brk :> "BREAKAGE"
  @@ tmp :> "TEMP_RELEASE" @@ trf :> "TRANSFER" @@ back :> "TRANSFER"
  @@ adj :> "ADJUSTMENT" @@ cnt :> "STOCK_COUNT"

MCDrafts == ob  :> {<<Ln(a, a, 2)>>, <<Ln(a, a, 1)>>}
         @@ ret :> {<<Ln(a, a, 2)>>, <<Ln(b, b, 1), Ln(a, a, 1)>>, <<Ln(b, b, -1)>>}
         @@ brk :> {<<Ln(b, b, 1), Ln(a, a, 1)>>}
         @@ tmp :> {<<Ln(a, a, 1)>>}
         @@ trf :> {<<Ln(a, b, 1)>>}
         @@ back :> {<<Ln(b, a, 1)>>}
         @@ adj :> {<<>>, <<Ln(a, a, 1), Ln(b, b, -1)>>}
         @@ cnt :> {<<>>, <<Ln(a, a, -1)>>}

KindOf == [d \in Docs |-> MCKind[d]]
DraftsOf == [d \in Docs |-> MCDrafts[d]]
MonthOf == [d \in Docs |-> jan]

\* Bound: once two requests have overlapped, they are finished and no other is
\* begun.  Up to three documents are created.
OneOverlap ==
  /\ overlapped => Busy' \subseteq Busy
  /\ Cardinality({d \in Docs : status'[d] # "none"}) <= 3
MCNext == HistoryNext /\ OneOverlap
MCSpec == HistoryInit /\ [][MCNext]_<<vars, overlapped>> /\ \A r \in Requests : WF_vars(Step(r))
=============================================================================
