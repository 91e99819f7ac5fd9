---------------------------- MODULE MCAdmission -----------------------------
(* An instance of admission small enough for TLC. *)
EXTENDS Admission

CONSTANTS a, b, c, r1, r2, r3

\* Bound: two requests overlap; once they have, they are finished and no other
\* is begun.  The requests are about the hotel, on its own or below one of the
\* others.
OneOverlap ==
  /\ admissionOverlapped => Overlaps!Busy' \subseteq Overlaps!Busy
  /\ Cardinality(Overlaps!Busy') <= 2
  /\ \A r \in Clients : job'[r].to \in {None, b}
MCNext == AdmissionHistoryNext /\ OneOverlap
MCSpec == AdmissionHistoryInit /\ [][MCNext]_<<admissionVars, admissionOverlapped>> /\ Fairness

ColumnsFor ==
  {[parent |-> None], [parent |-> a], [parent |-> c, branches |-> "many"], [branches |-> "no"],
   [active |-> FALSE], [end |-> 0], [expired |-> FALSE, end |-> 1]}

\* An organization and its hotel, with a licence for two days, or for life; a
\* tenant of its own; one not created yet.
StartsFor ==
  LET Three(x, y, z) == [t \in Tenants |-> IF t = a THEN x ELSE IF t = b THEN y ELSE z]
  IN  {Three(Created(None, "one"), [Created(a, "no") EXCEPT !.end = 0], Created(None, "many")),
       Three(Created(None, "many"), Created(a, "no"), Uncreated)}
=============================================================================
