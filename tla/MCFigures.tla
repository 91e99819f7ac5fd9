----------------------------- MODULE MCFigures ------------------------------
(* An instance of months and reports small enough for TLC. *)
EXTENDS FigureProperties, TLC

CONSTANTS a, b, r1, r2, p1

Move(kind, store, qty) == [kind |-> kind, store |-> store, to |-> store, qty |-> qty]

MovesFor ==
  {Move("RECEIVE", a, 2), Move("ISSUE", a, 1), Move("BREAKAGE", a, 1), Move("LOST", b, 1),
   Move("COUNT_ADJUSTMENT", a, -1), Move("RETURN", a, 1),
   Move("OPENING_BALANCE", b, 2), Move("OPENING_BALANCE", b, -1),
   Move("LOAN_WRITE_OFF", b, 1), Move("TEMP_RECEIVE", a, 1),
   [kind |-> "TRANSFER", store |-> a, to |-> b, qty |-> 1]}

Came(good, damaged, lost) == [good |-> good, damaged |-> damaged, lost |-> lost]
SplitsFor == {Came(1, 0, 0), Came(0, 2, 0), Came(1, 0, 1), Came(2, 0, 0), Came(0, 0, 0)}

EditsFor == {[min |-> 1, max |-> 1], [reorder |-> 2]}

\* Bounds.  Two requests overlap early; they are then finished and no other is
\* begun.  Par levels are edited early and at a; what leaves no trace in a balance
\* is booked first, as goods a store returns are, posted stock reports and opening
\* balances early.
OneOverlap ==
  /\ monthOverlapped' /\ ~monthOverlapped => changes < 3
  /\ monthOverlapped => Overlaps!Busy' \subseteq Overlaps!Busy
  /\ \A r \in MonthRequests : monthPc[r] = "idle" /\ monthPc'[r] = "levels" => changes < 2 /\ monthJob'[r].store = a
  /\ \A r \in entries' \ entries :
       UNCHANGED <<pass, sheets>> =>
         changes < CASE r.kind \in Unkept \cup {"RETURN"} -> 1
                     [] r.kind = "COUNT_ADJUSTMENT" -> 2
                     [] r.kind = "OPENING_BALANCE" -> 3
                     [] OTHER -> MaxChanges

\* Goods leave from a, one for good or two on loan, while there is time for
\* them to come back.
FewPasses ==
  \A p \in Passes : pass'[p].out # pass[p].out =>
    /\ changes < 3 /\ pass'[p].store = a
    /\ pass'[p].qty = IF pass'[p].kind = "PERMANENT" THEN 1 ELSE 2

\* a is counted, early and each session once.
FewCounts ==
  \A c \in sheets' \ sheets :
    /\ c.store = a /\ (changes < 2 \/ c.counted.is)
    /\ c.counted.is /\ c.posted = Never => [c EXCEPT !.counted = NotCounted] \in sheets
Perms == Permutations({r1, r2})
MCNext == FiguresHistoryNext /\ OneOverlap /\ FewPasses /\ FewCounts
MCSpec == FiguresHistoryInit /\ [][MCNext]_<<monthVars, monthOverlapped>>
=============================================================================
