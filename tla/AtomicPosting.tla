--------------------------- MODULE AtomicPosting ---------------------------
(***************************************************************************)
(* What the posting engine promises: a document is edited until it is      *)
(* posted, it is posted once, not into a closed month and not as an        *)
(* opening balance while these are locked, and posting it applies the      *)
(* lines it has at that moment to stock and ledger in one indivisible      *)
(* step, or not at all.                                                    *)
(***************************************************************************)
EXTENDS StockLines

CONSTANTS Periods, PeriodOf

VARIABLES onHand, ledger, status, lines, locked, closed

documents == <<status, lines>>
settings == <<locked, closed>>
vars == <<onHand, ledger, documents, settings>>

\* A partial result: the balances so far, and whether every line had the
\* stock it needed.
Result(ok, balance) == [ok |-> ok, balance |-> balance]

ApplySection(k, s, line, res) ==
  LET c == CellOf(k, s, line)
      now == res.balance[c]
  IN  Result(res.ok /\ ~Short(s, line, now),
             [res.balance EXCEPT ![c] = @ + RowQty(k, s, line, now)])

ApplyLine(k, res, line) ==
  LET first == ApplySection(k, FirstSection(k), line, res)
  IN  IF k \in Inert THEN res
      ELSE IF HasNextSection(k, FirstSection(k)) THEN ApplySection(k, "in", line, first)
      ELSE first

\* The result after each number of lines of d, and after all of them.
After(d) ==
  LET after[n \in 0 .. Len(lines[d])] ==
        IF n = 0 THEN Result(TRUE, onHand)
        ELSE ApplyLine(Kind[d], after[n - 1], lines[d][n])
  IN  after

Applied(d) == After(d)[Len(lines[d])]

Init ==
  /\ onHand = [c \in Cells |-> 0]
  /\ ledger = [c \in Cells |-> 0]
  /\ status = [d \in Docs |-> "none"]
  /\ lines = [d \in Docs |-> <<>>]
  /\ locked \in BOOLEAN
  /\ closed = {}

Create(d) ==
  /\ status[d] = "none"
  /\ \E s \in {"DRAFT", "PENDING_APPROVAL"} : status' = [status EXCEPT ![d] = s]
  /\ \E ls \in Drafts[d] : lines' = [lines EXCEPT ![d] = ls]
  /\ UNCHANGED <<onHand, ledger, settings>>

Edit(d) ==
  /\ status[d] = "DRAFT"
  /\ \E ls \in Drafts[d] : lines' = [lines EXCEPT ![d] = ls]
  /\ UNCHANGED <<onHand, ledger, status, settings>>

Post(d) ==
  /\ status[d] \in {"DRAFT", "PENDING_APPROVAL"}
  /\ PeriodOf[d] \notin closed
  /\ Kind[d] = "OPENING_BALANCE" => ~locked
  /\ Applied(d).ok
  /\ onHand' = Applied(d).balance
  /\ ledger' = [c \in Cells |-> ledger[c] + onHand'[c] - onHand[c]]
  /\ status' = [status EXCEPT ![d] = "POSTED"]
  /\ locked' = (locked \/ Kind[d] # "OPENING_BALANCE")
  /\ UNCHANGED <<lines, closed>>

\* Administrators lock and unlock, close months and open them again.
Administer ==
  /\ locked' \in BOOLEAN
  /\ \E p \in Periods : closed' \in {closed, closed \cup {p}, closed \ {p}}
  /\ closed \subseteq closed' \/ locked' = locked
  /\ closed' \subseteq closed \/ locked'
  /\ UNCHANGED <<onHand, ledger, documents>>

Next == Administer \/ \E d \in Docs : Create(d) \/ Edit(d) \/ Post(d)

Spec == Init /\ [][Next]_vars
=============================================================================
