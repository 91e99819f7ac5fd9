----------------------------- MODULE MCAccounts -----------------------------
(* Instances of accounts and sessions small enough for TLC. *)
EXTENDS Sessions, TLC

CONSTANTS org, hotel, other, u1, u2, r1, r2, s1

\* Bound: two requests overlap when they are about one user; once they have,
\* they are finished and no other is begun.
OneOverlap ==
  /\ overlapped => Busy' \subseteq Busy
  /\ \A q, r \in Busy' : job'[q].user = job'[r].user
MCNext == HistoryNext /\ OneOverlap
MCSpec == HistoryInit /\ [][MCNext]_<<vars, overlapped>>

Nobody == [t \in Tenants |-> [u \in Users |-> Absent]]
Start(created, m) == [there |-> created, member |-> m]

\* A manager with an older membership elsewhere and a hotel's administrator;
\* a hotel without its manager; an organization still to be founded.
StartsFor ==
  {Start(Tenants, [Nobody EXCEPT ![Org][u1] = Member("ORG_MANAGER"), ![Other][u1] = Member("ADMIN"),
                                 ![Hotel][u2] = Member("ADMIN")]),
   Start(Tenants, [Nobody EXCEPT ![Org][u1] = Member("ORG_MANAGER"),
                                 ![Hotel][u1] = Member("STOREKEEPER")]),
   Start({Org, Other}, [Nobody EXCEPT ![Org][u1] = Member("ORG_MANAGER")]),
   Start({Other}, [Nobody EXCEPT ![Other][u1] = Member("ADMIN"),
                                 ![Other][u2] = Member("STOREKEEPER")])}
=============================================================================
