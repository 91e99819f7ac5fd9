------------------------------- MODULE Months -------------------------------
(***************************************************************************)
(* What the reports read: ledger rows with their instants, balances, gate  *)
(* passes, posted documents, count sessions, par levels, and the months    *)
(* that are closed with a snapshot of the balances (periodClose.service.js, *)
(* parLevel.service.js).                                                   *)
(*                                                                         *)
(* The rows are those the other desks write, in the transaction that       *)
(* changes the balance: each of their requests is one step here.  Reports  *)
(* treat items one by one, so there is one item and a pass has one line;   *)
(* every unit costs one.  Time is counted in instants, none of which two   *)
(* events share; a month has MonthLength of them and is the unit in which  *)
(* ranges are given.  Opening balances may be posted at any time, for the  *)
(* setting that locks them can be written at any time.                     *)
(***************************************************************************)
EXTENDS Integers, FiniteSets, FiniteSetsExt

CONSTANTS
  Stores,        \* locations
  MonthRequests, \* requests about months and par levels
  Passes,        \* gate passes
  Moves,         \* what the desks book: [kind, store, to, qty]
  Loads,         \* quantities on a gate pass
  Splits,        \* what comes back of them: [good, damaged, lost]
  Tallied,       \* quantities that are counted on the shelves
  LevelEdits,    \* bodies of par level updates
  LastMonth,     \* bound: the months are 0 .. LastMonth
  MonthLength,
  YearLength,    \* months of a year
  MaxChanges     \* bound on bookings, closings and updates

\* What a desk may book.  Quantities are positive but for corrections and for
\* opening balances, whose rows have the difference.  A COUNT_ADJUSTMENT here
\* is a posted stock report's; that of a count session is posted below.
Incoming == {"RECEIVE", "RETURN", "TEMP_RECEIVE"}
Outgoing == {"ISSUE", "BREAKAGE", "LOST", "LOAN_WRITE_OFF", "TEMP_RELEASE"}
Signed == {"OPENING_BALANCE", "ADJUSTMENT", "COUNT_ADJUSTMENT"}
IsMove(mv) ==
  /\ mv.store \in Stores /\ mv.to \in Stores
  /\ \/ mv.kind \in Incoming \cup Outgoing /\ mv.qty \in Nat \ {0}
     \/ mv.kind \in Signed /\ mv.qty \in Int
     \/ mv.kind = "TRANSFER" /\ mv.qty \in Nat \ {0} /\ mv.store # mv.to

ASSUME MonthsAssumption ==
  /\ IsFiniteSet(Stores) /\ Stores # {} /\ IsFiniteSet(Passes)
  /\ \A mv \in Moves : IsMove(mv)
  /\ Loads \subseteq Nat \ {0} /\ Splits \subseteq [good : Nat, damaged : Nat, lost : Nat]
  /\ Tallied \subseteq Int
  /\ \A edit \in LevelEdits : \E D \in SUBSET {"min", "max", "reorder"} : edit \in [D -> Nat]
  /\ LastMonth \in Nat /\ MonthLength \in Nat \ {0} /\ YearLength \in Nat \ {0, 1} /\ MaxChanges \in Nat

Months == 0 .. LastMonth
Start(m) == m * MonthLength
EndOf(m) == Start(m + 1) - 1
MonthOf(t) == t \div MonthLength
Never == Start(LastMonth + 1) + 1     \* null: later than any instant
Instants == 0 .. Start(LastMonth + 1)

SumOf(f) == MapThenSumSet(LAMBDA x : f[x], DOMAIN f)
Total(S) == SumOf([x \in S |-> x.qty])

Levels == {"min", "max", "reorder"}
Quantity == Nat

VARIABLES
  now,        \* the clock
  entries,    \* inventory_ledger
  papers,     \* documents posted: losses and transfers
  sheets,     \* lines of count sessions
  stock,      \* stock_balances, per store that has one
  pass,       \* gate passes, with the claims of what came back damaged or lost
  period,     \* period_closes with their snapshots
  monthPc, monthJob,  \* per request: what it does next, and with what
  changes

books == <<entries, papers, sheets, stock>>
jobs == <<monthPc, monthJob>>
monthVars == <<now, books, pass, period, jobs, changes>>

EntryKinds ==
  Incoming \cup Outgoing \cup Signed \cup {"TRANSFER_IN", "TRANSFER_OUT", "GET_PASS_OUT"}

\* claim: the document of the row is the claim of a return.
Row == [at : Instants, store : Stores, kind : EntryKinds, qty : Int, official : BOOLEAN, claim : BOOLEAN]
Balance == [onHand : Int, blocked : Int, levels : [Levels -> Quantity], updated : Instants]

\* What the desk has taken back at a time, bad: damaged or lost; noted: what the
\* records of return have of it.
ReturnRecord == [at : Instants, qty : Nat, bad : Nat, noted : Nat]
Claims == {"BREAKAGE", "LOST"}
NoPass ==
  [store |-> CHOOSE s \in Stores : TRUE, qty |-> 0, kind |-> "TEMPORARY", internal |-> FALSE,
   status |-> "none", back |-> 0, out |-> Never, closed |-> Never, backs |-> {},
   owed |-> [k \in Claims |-> 0]]
NoBalances == [s \in {} |-> 0]
NoLevels == [l \in Levels |-> 0]
NoPeriod == [status |-> "none", closedAt |-> Never, snapshot |-> NoBalances]
NoMonthJob == [month |-> 0, exists |-> FALSE, seen |-> NoBalances,
               store |-> CHOOSE s \in Stores : TRUE, edit |-> NoBalances]

MonthInit ==
  /\ now = 0
  /\ entries = {} /\ papers = {} /\ sheets = {} /\ stock = NoBalances
  /\ pass = [p \in Passes |-> NoPass]
  /\ period = [m \in Months |-> NoPeriod]
  /\ monthPc = [r \in MonthRequests |-> "idle"] /\ monthJob = [r \in MonthRequests |-> NoMonthJob]
  /\ changes = 0

\* Something happens and takes an instant of its own.
Stamp == now \in 0 .. Start(LastMonth + 1) - 1 /\ now' = now + 1
Change == changes < MaxChanges /\ changes' = changes + 1

NextMonth ==
  /\ MonthOf(now) < LastMonth
  /\ now' = Start(MonthOf(now) + 1)
  /\ UNCHANGED <<books, pass, period, jobs, changes>>

-----------------------------------------------------------------------------
(* Bookings *)

Tracked == {"TEMP_RECEIVE", "TEMP_RELEASE"}     \* affectsValuation is false
Unkept == {"LOAN_WRITE_OFF"} \cup Tracked       \* rows without a change of the balance

Entry(s, kind, q) ==
  [at |-> now, store |-> s, kind |-> kind, qty |-> q, official |-> kind \notin Tracked, claim |-> FALSE]

\* The rows of a movement.  Corrections and opening balances are signed.
RowsOf(mv) ==
  IF mv.kind = "TRANSFER"
  THEN {Entry(mv.store, "TRANSFER_OUT", -mv.qty), Entry(mv.to, "TRANSFER_IN", mv.qty)}
  ELSE {Entry(mv.store, mv.kind, IF mv.kind \in Outgoing THEN -mv.qty ELSE mv.qty)}

OnHand(s) == IF s \in DOMAIN stock THEN stock[s].onHand ELSE 0
Blocked(s) == IF s \in DOMAIN stock THEN stock[s].blocked ELSE 0
LevelsOf(s) == IF s \in DOMAIN stock THEN stock[s].levels ELSE NoLevels

\* The balances after a transaction that adds to onHand and blocked of S.
Moved(S, onHand, blocked) ==
  [s \in DOMAIN stock \cup S |->
     IF s \notin S THEN stock[s]
     ELSE [onHand |-> OnHand(s) + onHand[s], blocked |-> Blocked(s) + blocked[s],
           levels |-> LevelsOf(s), updated |-> now]]

PaperOf(mv) ==
  IF mv.kind \in Claims \cup {"TRANSFER"}
  THEN {[kind |-> mv.kind, from |-> mv.store, to |-> mv.to, qty |-> mv.qty, at |-> now]}
  ELSE {}

\* A transaction of another desk: rows, balances and its document at once.
\* Nobody checks what comes in, nor what an opening balance makes of a balance.
Book(mv) ==
  LET new == RowsOf(mv)
      kept == {e \in new : e.kind \notin Unkept}
      touched == {e.store : e \in kept}
  IN  /\ Stamp /\ Change
      /\ \A e \in kept : e.qty < 0 /\ e.kind # "OPENING_BALANCE" => OnHand(e.store) + e.qty >= 0
      /\ entries' = entries \cup new
      /\ stock' = Moved(touched, [s \in touched |-> (CHOOSE e \in kept : e.store = s).qty],
                        [s \in touched |-> 0])
      /\ papers' = papers \cup PaperOf(mv)
      /\ UNCHANGED <<sheets, pass, period, jobs>>

-----------------------------------------------------------------------------
(* Gate passes: loans stay on hand, blocked; gifts leave for good. *)

SetPass(p, g) == pass' = [pass EXCEPT ![p] = g]

\* Security lets the goods out.
SendOut(p, s, q, kind, internal) ==
  LET gift == kind = "PERMANENT"
      over == gift /\ ~internal
  IN  /\ pass[p].status = "none" /\ OnHand(s) - Blocked(s) >= q
      /\ Stamp /\ Change
      /\ entries' = entries \cup {Entry(s, IF gift THEN "ISSUE" ELSE "GET_PASS_OUT", -q)}
      /\ stock' = Moved({s}, [x \in {s} |-> IF gift THEN -q ELSE 0], [x \in {s} |-> IF gift THEN 0 ELSE q])
      /\ SetPass(p, [store |-> s, qty |-> q, kind |-> kind, internal |-> internal,
                     status |-> IF over THEN "CLOSED" ELSE "OUT", back |-> 0,
                     out |-> now, closed |-> IF over THEN now ELSE Never, backs |-> {},
                     owed |-> pass[p].owed])
      /\ UNCHANGED <<papers, sheets, period, jobs>>

Size(n) == n.good + n.damaged + n.lost
Bad(n) == n.damaged + n.lost

\* All that comes back is no longer blocked; what is damaged or lost leaves
\* the balance without a row.
GoodsBack(s, n) ==
  /\ Stamp /\ Change
  /\ Size(n) > 0 => Blocked(s) >= Size(n)
  /\ entries' = entries \cup (IF n.good > 0 THEN {Entry(s, "RETURN", n.good)} ELSE {})
  /\ stock' = IF Size(n) = 0 THEN stock
              ELSE Moved({s}, [x \in {s} |-> -Bad(n)], [x \in {s} |-> -Size(n)])
  /\ UNCHANGED <<papers, sheets, period, jobs>>

\* processReturns: every unit is in a record of return.
TakeBack(p, n) ==
  LET back == pass[p].back + Size(n)
  IN  /\ pass[p].status \in {"OUT", "PARTIALLY_RETURNED"} /\ pass[p].kind # "PERMANENT"
      /\ Size(n) > 0 /\ back <= pass[p].qty /\ (n.damaged = 0 \/ n.lost = 0)
      /\ GoodsBack(pass[p].store, n)
      /\ SetPass(p, [pass[p] EXCEPT
           !.status = IF back < pass[p].qty THEN "PARTIALLY_RETURNED" ELSE "RETURNED",
           !.back = back,
           !.backs = @ \cup {[at |-> now, qty |-> Size(n), bad |-> Bad(n), noted |-> Size(n)]}])

\* What the other hotel and the gate do, which moves nothing.
PassMoves(p, from, to, back) ==
  /\ pass[p].internal /\ pass[p].status = from
  /\ SetPass(p, [pass[p] EXCEPT !.status = to, !.back = back])
  /\ UNCHANGED <<now, books, period, jobs, changes>>

Receive(p) == PassMoves(p, "OUT", "RECEIVED_AT_DESTINATION", pass[p].back)
ShipBack(p) ==
  pass[p].kind # "PERMANENT" /\ PassMoves(p, "RECEIVED_AT_DESTINATION", "RETURNING", pass[p].back)

\* confirmReturnArrival inspects the goods and raises qtyReturned.
ArriveBack(p, n) ==
  /\ Size(n) > 0 /\ pass[p].back + Size(n) <= pass[p].qty
  /\ PassMoves(p, "RETURNING", "RETURN_RECEIVED_AT_GATE", pass[p].back + Size(n))

\* acceptReturnIntoDepartment: records of return for what is damaged or lost,
\* and claims of it; the pass is over whatever was accepted.
AcceptReturn(p, n) ==
  /\ pass[p].status = "RETURN_RECEIVED_AT_GATE" /\ Size(n) <= pass[p].back
  /\ GoodsBack(pass[p].store, n)
  /\ SetPass(p, [pass[p] EXCEPT
       !.status = "RETURNED", !.closed = now,
       !.backs = @ \cup {[at |-> now, qty |-> Size(n), bad |-> Bad(n), noted |-> Bad(n)]},
       !.owed = [k \in Claims |-> IF k = "BREAKAGE" THEN n.damaged ELSE n.lost]])

\* The last signature of a claim writes its row and leaves the quantity on
\* hand as it is, whose goods have left it before.
Charge(p, k) ==
  LET s == pass[p].store
      q == pass[p].owed[k]
  IN  /\ q > 0
      /\ Stamp /\ Change
      /\ entries' = entries \cup {[Entry(s, k, -q) EXCEPT !.claim = TRUE]}
      /\ papers' = papers \cup {[kind |-> k, from |-> s, to |-> s, qty |-> q, at |-> now]}
      /\ stock' = Moved({s}, [x \in {s} |-> 0], [x \in {s} |-> 0])
      /\ SetPass(p, [pass[p] EXCEPT !.owed[k] = 0])
      /\ UNCHANGED <<sheets, period, jobs>>

\* At the desk, or by the other hotel that keeps a gift.  A pass the desk
\* has taken in at the gate can be closed again.
ClosePass(p) ==
  /\ \/ pass[p].status \in {"OUT", "PARTIALLY_RETURNED", "RETURNED"}
     \/ pass[p].status = "RECEIVED_AT_DESTINATION" /\ pass[p].kind = "PERMANENT"
  /\ Stamp /\ Change
  /\ SetPass(p, [pass[p] EXCEPT !.status = "CLOSED", !.closed = now])
  /\ UNCHANGED <<books, period, jobs>>

-----------------------------------------------------------------------------
(* Count sessions: of each line, what the books said when it was opened. *)

NotCounted == [is |-> FALSE, qty |-> 0]
Sheet ==
  [at : Instants, store : Stores, book : Int, counted : [is : BOOLEAN, qty : Int], posted : Instants \cup {Never}]
VarianceOf(c) == IF c.counted.is THEN c.counted.qty - c.book ELSE 0

\* A location without the item has no line for it.
OpenCount(s) ==
  /\ s \in DOMAIN stock
  /\ Stamp /\ Change
  /\ sheets' = sheets \cup {[at |-> now, store |-> s, book |-> OnHand(s),
                             counted |-> NotCounted, posted |-> Never]}
  /\ UNCHANGED <<entries, papers, stock, pass, period, jobs>>

SetSheet(c, d) == sheets' = (sheets \ {c}) \cup {d}

CountLine(c, q) ==
  /\ c.posted = Never
  /\ SetSheet(c, [c EXCEPT !.counted = [is |-> TRUE, qty |-> q]])
  /\ UNCHANGED <<now, entries, papers, stock, pass, period, jobs, changes>>

\* postStockCount, after the signatures: the month of the session is open.
PostCount(c) ==
  LET v == VarianceOf(c)
  IN  /\ c.posted = Never /\ c.counted.is
      /\ period[MonthOf(c.at)].status # "CLOSED"
      /\ OnHand(c.store) + v >= 0 \/ v >= 0
      /\ Stamp /\ Change
      /\ entries' = entries \cup (IF v = 0 THEN {} ELSE {Entry(c.store, "COUNT_ADJUSTMENT", v)})
      /\ stock' = IF v = 0 THEN stock ELSE Moved({c.store}, [x \in {c.store} |-> v], [x \in {c.store} |-> 0])
      /\ SetSheet(c, [c EXCEPT !.posted = now])
      /\ UNCHANGED <<papers, pass, period, jobs>>

-----------------------------------------------------------------------------
(* Closing and reopening months *)

Begin(r, step, j) ==
  /\ monthPc[r] = "idle" /\ Change
  /\ monthPc' = [monthPc EXCEPT ![r] = step] /\ monthJob' = [monthJob EXCEPT ![r] = j]
  /\ UNCHANGED <<now, books, pass, period>>

Done(r) ==
  /\ monthPc' = [monthPc EXCEPT ![r] = "idle"] /\ monthJob' = [monthJob EXCEPT ![r] = NoMonthJob]
  /\ UNCHANGED <<entries, papers, sheets, pass, changes>>

\* closePeriod reads the period and all balances, then writes in a transaction.
BeginClose(r, m) ==
  /\ period[m].status # "CLOSED"
  /\ Begin(r, "close", [NoMonthJob EXCEPT !.month = m, !.exists = period[m].status # "none",
                                     !.seen = [s \in DOMAIN stock |-> stock[s].onHand]])

FinishClose(r) ==
  LET m == monthJob[r].month
  IN  /\ monthPc[r] = "close" /\ (monthJob[r].exists \/ period[m].status = "none")
      /\ Stamp
      /\ period' = [period EXCEPT ![m] =
                      [status |-> "CLOSED", closedAt |-> now, snapshot |-> monthJob[r].seen]]
      /\ Done(r) /\ UNCHANGED stock

\* The key of the period is taken: the transaction fails.
RefuseClose(r) ==
  /\ monthPc[r] = "close" /\ ~monthJob[r].exists /\ period[monthJob[r].month].status # "none"
  /\ Done(r) /\ UNCHANGED <<now, stock, period>>

BeginReopen(r, m) ==
  /\ period[m].status = "CLOSED"
  /\ Begin(r, "reopen", [NoMonthJob EXCEPT !.month = m])

FinishReopen(r) ==
  LET m == monthJob[r].month
  IN  /\ monthPc[r] = "reopen"
      /\ period' = [period EXCEPT ![m] =
                      [status |-> "OPEN", closedAt |-> Never, snapshot |-> period[m].snapshot]]
      /\ Done(r) /\ UNCHANGED <<now, stock>>

-----------------------------------------------------------------------------
(* Par levels *)

Merge(levels, edit) == [l \in Levels |-> IF l \in DOMAIN edit THEN edit[l] ELSE levels[l]]
Fit(levels) == levels["max"] > 0 => levels["min"] <= levels["max"] /\ levels["reorder"] <= levels["max"]

\* updateParLevels checks the edit against the row it reads, and writes the
\* columns that were given.
BeginLevels(r, s, edit) ==
  /\ s \in DOMAIN stock /\ Fit(Merge(stock[s].levels, edit))
  /\ Begin(r, "levels", [NoMonthJob EXCEPT !.store = s, !.edit = edit])

FinishLevels(r) ==
  LET s == monthJob[r].store
  IN  /\ monthPc[r] = "levels"
      /\ stock' = [stock EXCEPT ![s] =
                     [onHand |-> stock[s].onHand, blocked |-> stock[s].blocked,
                      levels |-> Merge(stock[s].levels, monthJob[r].edit), updated |-> now]]
      /\ Done(r) /\ UNCHANGED <<now, period>>

MonthNext ==
  \/ NextMonth
  \/ \E mv \in Moves : Book(mv)
  \/ \E p \in Passes, s \in Stores, q \in Loads, kind \in {"TEMPORARY", "PERMANENT"}, internal \in BOOLEAN :
       SendOut(p, s, q, kind, internal)
  \/ \E p \in Passes, n \in Splits : TakeBack(p, n) \/ ArriveBack(p, n) \/ AcceptReturn(p, n)
  \/ \E p \in Passes : Receive(p) \/ ShipBack(p) \/ ClosePass(p)
  \/ \E p \in Passes, k \in Claims : Charge(p, k)
  \/ \E s \in Stores : OpenCount(s)
  \/ \E c \in sheets : PostCount(c)
  \/ \E c \in sheets, q \in Tallied : CountLine(c, q)
  \/ \E r \in MonthRequests, m \in Months : BeginClose(r, m) \/ BeginReopen(r, m)
  \/ \E r \in MonthRequests, s \in Stores, e \in LevelEdits : BeginLevels(r, s, e)
  \/ \E r \in MonthRequests :
       FinishClose(r) \/ RefuseClose(r) \/ FinishReopen(r) \/ FinishLevels(r)

MonthSpec == MonthInit /\ [][MonthNext]_monthVars
=============================================================================
