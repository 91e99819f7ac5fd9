---------------------------- MODULE OpeningStock ----------------------------
(***************************************************************************)
(* From the first item to the finalized opening balance: items are created *)
(* and imported with opening quantities, which stay lines of DRAFT        *)
(* OPENING_BALANCE documents until finalizeOpeningBalance posts them all   *)
(* and locks the stage.  A request reads first and writes later; what it   *)
(* writes in one transaction is one step, with the reads of the            *)
(* transaction that other transactions can overtake made before it: the    *)
(* balances that an opening balance overwrites among them.                 *)
(***************************************************************************)
EXTENDS Catalogue, Integers

CONSTANTS
  Tasks,
  Docs,        \* ids of documents, in the order of their creation
  Edits,       \* bodies of PUT /items/:id: columns, and opening if there is an openingQuantity
  Sheets,      \* rows of import files: the columns, and qty per location
  Drafted,     \* quantities of drafts made by hand, which nobody checks
  Links,       \* what the entries of the catalogue may name to begin with
  MaxChanges   \* bound on requests that write

VARIABLES
  allow,      \* the setting allowOpeningBalance: None without a row
  snapshot,   \* obFinalizeSnapshot has a finalizedAt
  docs,       \* per id: None, "DRAFT" or "POSTED", all of type OPENING_BALANCE
  obLines,    \* movement_lines of those documents; by: the request number
  opened,     \* ledger rows of the opening balance, per item and location
  moved,      \* ledger rows of other documents
  inStock,    \* stock_balances
  traced,     \* items and locations with rows in the ledger and in stock_balances
  preview,    \* importPreviewCache: a row, resolved
  changes, taskPc, task

stageRows == <<allow, snapshot>>
draftRows == <<docs, obLines>>
stockRows == <<opened, moved, inStock, traced>>
catalogueRows == <<shelf, below, item>>
openingVars == <<catalogueRows, stageRows, draftRows, stockRows, preview, changes, taskPc, task>>

\* The columns of an item that a body or a row of a file may have.
IsColumns(data) ==
  /\ "refs" \in DOMAIN data => data["refs"] \subseteq Entries \ Locations
  /\ "store" \in DOMAIN data => data["store"] \in {None} \cup Locations
  /\ "price" \in DOMAIN data => data["price"] \in Nat
  /\ "base" \in DOMAIN data => data["base"] \in BOOLEAN
  /\ "opening" \in DOMAIN data => data["opening"] \in Nat

\* Quantities of locations.
IsQuantities(qty) == DOMAIN qty \subseteq Locations /\ \A l \in DOMAIN qty : qty[l] \in Nat \ {0}

ASSUME OpeningAssumption ==
  /\ IsFiniteSet(Docs) /\ Docs \subseteq Nat \ {0} /\ MaxChanges \in Nat /\ Drafted \subseteq Int
  /\ \A data \in Edits : IsColumns(data)
  /\ \A sheet \in Sheets : /\ IsColumns(sheet.data) /\ IsQuantities(sheet.qty)
                           /\ {"refs", "price", "base"} \subseteq DOMAIN sheet.data
  /\ \A links \in Links : links \subseteq {link \in (Entries \ Suppliers) \X (Entries \ Suppliers) :
                                              link[2] \in MayName(link[1])}

Bins == Items \X Locations
NoStock == [x \in Bins |-> 0]
NoData == [x \in {} |-> None]
NoQty == [l \in {} |-> 0]
NoPreview == [data |-> NoData, qty |-> NoQty]
NoDoc == 0

\* on: the item or entry.  data, qty: what is written.  stage: the status
\* that was read.  open, seen, stock: the DRAFT documents, their lines and the
\* balances as the transaction finds them.  stamp: number of the request.
NoTask == [kind |-> None, on |-> None, data |-> NoData, qty |-> NoQty, stage |-> None,
           open |-> {}, seen |-> {}, stock |-> NoStock, stamp |-> 0]

Kinds == {None, "create", "update", "import", "delete item", "delete entry", "enable", "post", "finalize"}
TaskSteps == {"idle", "write", "clear", "post"}
Stages == {"OPEN", "FINALIZED", "INITIAL_LOCK"}

OpeningTypeOK ==
  /\ CatalogueTypeOK
  /\ allow \in {None, "OPEN", "LOCKED"} /\ snapshot \in BOOLEAN
  /\ docs \in [Docs -> {None, "DRAFT", "POSTED"}]
  /\ \A n \in obLines : /\ n.doc \in Docs /\ docs[n.doc] # None
                        /\ n.item \in There /\ n.loc \in Locations \cap Present
                        /\ n.qty \in Int /\ n.cost \in Nat
  /\ opened \in [Bins -> Int] /\ moved \in [Bins -> Int] /\ inStock \in [Bins -> Int]
  /\ traced \subseteq There \X Present
  /\ changes \in 0..MaxChanges
  /\ taskPc \in [Tasks -> TaskSteps]
  /\ \A r \in Tasks : task[r].kind \in Kinds /\ (taskPc[r] = "idle" => task[r] = NoTask)

\* The catalogue has been set up but for its suppliers.
OpeningInit ==
  /\ shelf = [e \in Entries |-> IF e \in Suppliers THEN None ELSE "on"]
  /\ item = [i \in Items |-> NoItem]
  /\ below \in Links
  /\ allow \in {None, "OPEN"} /\ snapshot = FALSE
  /\ docs = [d \in Docs |-> None] /\ obLines = {}
  /\ opened = NoStock /\ moved = NoStock /\ inStock = NoStock /\ traced = {}
  /\ preview = NoPreview
  /\ changes = 0
  /\ taskPc = [r \in Tasks |-> "idle"]
  /\ task = [r \in Tasks |-> NoTask]

Goes(r, step) == taskPc' = [taskPc EXCEPT ![r] = step]
Done(r) == Goes(r, "idle") /\ task' = [task EXCEPT ![r] = NoTask]
Fails(r) == Done(r) /\ UNCHANGED <<catalogueRows, stageRows, draftRows, stockRows>>

-----------------------------------------------------------------------------
(* What the services read.                                                 *)

\* getObStatus
ObStatus ==
  IF allow = "OPEN" THEN "OPEN" ELSE IF allow = "LOCKED" /\ snapshot THEN "FINALIZED" ELSE "INITIAL_LOCK"

Drafts == {d \in Docs : docs[d] = "DRAFT"}
Unused == {d \in Docs : docs[d] = None}
Least(S) == IF S = {} THEN NoDoc ELSE CHOOSE d \in S : \A e \in S : d <= e
DraftLines == {n \in obLines : n.doc \in Drafts}
LinesAt(S, i, l) == {n \in S : n.item = i /\ n.loc = l}
LinesOf(S, i) == {n \in S : n.item = i}

Quantity(S) == MapThenSumSet(LAMBDA n : n.qty, S)

\* The sum of an item in both ways enrichItemWithOpeningFields may show it.
DraftQty(i) == Quantity(LinesOf(DraftLines, i))
StockQty(i) == MapThenSumSet(LAMBDA l : inStock[<<i, l>>], Locations)
InStock(i) == \E l \in Locations : inStock[<<i, l>>] > 0
Shown(i) == IF ObStatus = "OPEN" THEN DraftQty(i) ELSE StockQty(i)

-----------------------------------------------------------------------------
(* Requests about items.                                                   *)

Finds(kind, on, data, qty) ==
  [kind |-> kind, on |-> on, data |-> data, qty |-> qty, stage |-> ObStatus,
   open |-> Drafts, seen |-> DraftLines, stock |-> inStock, stamp |-> changes + 1]

Begin(r, kind, on, data, qty) ==
  /\ taskPc[r] = "idle" /\ changes < MaxChanges
  /\ changes' = changes + 1
  /\ task' = [task EXCEPT ![r] = Finds(kind, on, data, qty)]
  /\ Goes(r, "write")
  /\ UNCHANGED <<catalogueRows, stageRows, draftRows, stockRows>>

Has(data, column) == column \in DOMAIN data

\* wantsOpeningLine
Opens(data) == Has(data, "opening") /\ data["opening"] > 0

\* createItem
CreateItem(r, i, data) ==
  LET row == Written(data, NoItem)
  IN  /\ ~item[i].there
      /\ KeysHold(row) /\ StoreFits(row)
      /\ Opens(data) => ObStatus = "OPEN"
      /\ Begin(r, "create", i, data, NoQty)
      /\ UNCHANGED preview

\* updateItem: units change only without stock, and no price is taken away
\* from an item with an opening quantity.
UpdateItem(r, i, data) ==
  LET row == Written(data, item[i])
      opening == IF Has(data, "opening") THEN data["opening"] ELSE Shown(i)
  IN  /\ item[i].there
      /\ ObStatus = "FINALIZED" => DOMAIN data \cap {"price", "base", "opening"} = {}
      /\ Has(data, "opening") => ObStatus = "OPEN"
      /\ row.refs \cap (Departments \cup Categories) \subseteq Present /\ StoreFits(row)
      /\ row.base # item[i].base => ~InStock(i)
      /\ ObStatus = "OPEN" /\ opening > 0 => row.price > 0
      /\ Begin(r, "update", i, data, NoQty)
      /\ UNCHANGED preview

\* parseImportFile: what the file names is looked up among the active entries,
\* and the preview is kept for the confirmation.
ParseImportFile(sheet) ==
  /\ preview = NoPreview /\ changes < MaxChanges
  /\ Resolves(Written(sheet.data, NoItem)) /\ DOMAIN sheet.qty \subseteq Resolvable
  /\ preview' = sheet
  /\ UNCHANGED <<catalogueRows, stageRows, draftRows, stockRows, changes, taskPc, task>>

\* Thirty minutes later, or after a restart.
ForgetPreview ==
  /\ preview # NoPreview /\ preview' = NoPreview
  /\ UNCHANGED <<catalogueRows, stageRows, draftRows, stockRows, changes, taskPc, task>>

StoredAt(l, data) == [x \in DOMAIN data \cup {"store"} |-> IF x = "store" THEN l ELSE data[x]]

\* importConfirm of one row.  The default store is the first one with a
\* quantity, and the preview stays: it can be confirmed again.
ConfirmImport(r, i, asOpening) ==
  LET data == preview.data
      qty == preview.qty
  IN  /\ preview # NoPreview
      /\ asOpening /\ DOMAIN qty # {} => data["price"] > 0
      /\ \/ DOMAIN qty = {} /\ Begin(r, "import", i, data, NoQty)
         \/ \E l \in DOMAIN qty :
              Begin(r, "import", i, StoredAt(l, data), IF asOpening THEN qty ELSE NoQty)
      /\ UNCHANGED preview

\* deleteItem
DeleteItem(r, i) ==
  /\ item[i].there
  /\ ObStatus # "OPEN" => ObStatus # "FINALIZED" /\ ~InStock(i)
  /\ Begin(r, "delete item", i, NoData, NoQty)
  /\ UNCHANGED preview

-----------------------------------------------------------------------------
(* Their transactions.  What a transaction found when it began may be      *)
(* older than what it writes over: a view is either.                       *)

Views(r) == {[open |-> task[r].open, seen |-> task[r].seen], [open |-> Drafts, seen |-> DraftLines]}

\* The document a new line goes to; one is created if none is open.
Home(open) == IF open = {} THEN Least(Unused) ELSE Least(open)

Line(d, i, l, q, c, by) == [doc |-> d, item |-> i, loc |-> l, qty |-> q, cost |-> c, by |-> by]

\* Lines give way to others; a document that was not there is created.
Replace(gone, new, kept) ==
  /\ \A n \in new : n.doc # NoDoc
  /\ obLines' = (kept \ gone) \cup new
  /\ docs' = [d \in Docs |-> IF docs[d] = None /\ \E n \in new : n.doc = d THEN "DRAFT" ELSE docs[d]]

\* upsertOpeningBalanceForItemLocation, of each location: exactly one draft
\* line, in the document that had one or in the oldest.
Enter(r, i, qty, cost) ==
  \E v \in Views(r) :
    LET At(l) == LinesAt(v.seen, i, l)
        Of(l) == IF At(l) = {} THEN Home(v.open) ELSE Least({n.doc : n \in At(l)})
    IN  /\ allow # "LOCKED"
        /\ Replace(UNION {At(l) : l \in DOMAIN qty},
                   {Line(Of(l), i, l, qty[l], cost, task[r].stamp) : l \in DOMAIN qty}, obLines)

\* The openingQuantity of an update: the total, in the default store.
EnterTotal(r, i, row, q) ==
  \E v \in Views(r) :
    Replace(LinesOf(v.seen, i),
            IF q = 0 THEN {} ELSE {Line(Home(v.open), i, row.store, q, row.price, task[r].stamp)}, obLines)

\* The draft lines of an item cost what the item does.
Reprice(i, price) ==
  Replace({}, {}, {IF n \in LinesOf(DraftLines, i) THEN [n EXCEPT !.cost = price] ELSE n : n \in obLines})

KeepDrafts == UNCHANGED draftRows

WriteCreate(r) ==
  LET j == task[r]
      row == Written(j.data, NoItem)
  IN  /\ taskPc[r] = "write" /\ j.kind = "create"
      /\ ~item[j.on].there /\ KeysHold(row)
      /\ Opens(j.data) => row.store # None /\ row.price > 0
      /\ IF Opens(j.data)
         THEN Enter(r, j.on, [l \in {row.store} |-> j.data["opening"]], row.price)
         ELSE KeepDrafts
      /\ item' = [item EXCEPT ![j.on] = row]
      /\ Done(r)
      /\ UNCHANGED <<shelf, below, stageRows, stockRows, preview, changes>>

\* What was OPEN when it was read is taken for OPEN.
WriteUpdate(r) ==
  LET j == task[r]
      row == Written(j.data, item[j.on])
      priced == j.stage = "OPEN" /\ Has(j.data, "price") /\ row.price > 0
  IN  /\ taskPc[r] = "write" /\ j.kind = "update"
      /\ item[j.on].there /\ KeysHold(row)
      /\ Has(j.data, "opening") => row.store # None /\ (Opens(j.data) => row.price > 0)
      /\ IF Has(j.data, "opening") THEN EnterTotal(r, j.on, row, j.data["opening"])
         ELSE IF priced THEN Reprice(j.on, row.price)
         ELSE KeepDrafts
      /\ item' = [item EXCEPT ![j.on] = row]
      /\ Done(r)
      /\ UNCHANGED <<shelf, below, stageRows, stockRows, preview, changes>>

\* An import leaves the units of an item, and what the file does not name.
Imported(data, old) ==
  LET kept == {f \in old.refs : \A k \in {Departments, Categories, Suppliers} :
                                   f \in k => data["refs"] \cap k = {}}
  IN  IF old.there
      THEN [x \in DOMAIN data \ {"base"} |-> IF x = "refs" THEN kept \cup data["refs"] ELSE data[x]]
      ELSE data

\* Whether the item exists is looked up now, whatever the preview said.
WriteImport(r) ==
  LET j == task[r]
      old == item[j.on]
      row == Written(Imported(j.data, old), old)
  IN  /\ taskPc[r] = "write" /\ j.kind = "import"
      /\ KeysHold(row) /\ DOMAIN j.qty \subseteq Present
      /\ IF DOMAIN j.qty = {} THEN KeepDrafts ELSE Enter(r, j.on, j.qty, row.price)
      /\ item' = [item EXCEPT ![j.on] = row]
      /\ Done(r)
      /\ UNCHANGED <<shelf, below, stageRows, stockRows, preview, changes>>

\* While the stage is taken for OPEN, the item goes with its lines, its ledger
\* and its stock; otherwise only if nothing refers to it.
WriteDeleteItem(r) ==
  LET i == task[r].on
      all == task[r].stage = "OPEN"
      Cleared(rows) == [x \in Bins |-> IF all /\ x[1] = i THEN 0 ELSE rows[x]]
  IN  /\ taskPc[r] = "write" /\ task[r].kind = "delete item" /\ item[i].there
      /\ all \/ (LinesOf(obLines, i) = {} /\ traced \cap ({i} \X Locations) = {})
      /\ obLines' = obLines \ LinesOf(obLines, i)
      /\ opened' = Cleared(opened) /\ moved' = Cleared(moved) /\ inStock' = Cleared(inStock)
      /\ traced' = traced \ ({i} \X Locations)
      /\ item' = [item EXCEPT ![i] = NoItem]
      /\ Done(r)
      /\ UNCHANGED <<shelf, below, docs, stageRows, preview, changes>>

-----------------------------------------------------------------------------
(* The catalogue.                                                          *)

\* Locations with stock rows or with lines of documents.
Used == {n.loc : n \in obLines} \cup {x[2] : x \in traced}

DeleteEntry(r, e) ==
  MayDelete(e, Used) /\ Begin(r, "delete entry", e, NoData, NoQty) /\ UNCHANGED preview

WriteDeleteEntry(r) ==
  LET e == task[r].on
  IN  /\ taskPc[r] = "write" /\ task[r].kind = "delete entry"
      /\ shelf[e] # None /\ ~Restricted(e, Used)
      /\ Erase(e)
      /\ Done(r)
      /\ UNCHANGED <<stageRows, draftRows, stockRows, preview, changes>>

Maintain ==
  /\ changes < MaxChanges /\ changes' = changes + 1
  /\ \/ \E e \in Entries : CreateDepartment(e) \/ CreateSupplier(e)
     \/ \E e \in Subcategories, c \in Categories : CreateSubcategory(e, c)
     \/ \E e \in Categories, fs \in SUBSET Departments : CreateCategory(e, fs) \/ UpdateCategory(e, fs)
     \/ \E e \in Locations, fs \in SUBSET (Departments \cup Categories) :
          CreateLocation(e, fs) \/ UpdateLocation(e, fs) \/ SetLocationCategories(e, fs)
     \/ \E e \in Entries : ToggleDepartment(e) \/ ToggleSupplierStatus(e) \/ UpdateActive(e)
     \/ \E i \in Items : ToggleItem(i)
     \/ \E i \in Items, b \in BOOLEAN : ReplaceUnits(i, b)
  /\ UNCHANGED <<stageRows, draftRows, stockRows, preview, taskPc, task>>

-----------------------------------------------------------------------------
(* The stage, and what is posted.                                          *)

\* PUT /settings/allowOpeningBalance and POST /settings/ob-lock: whatever the
\* snapshot says.
SetAllow(value) ==
  /\ changes < MaxChanges /\ changes' = changes + 1
  /\ allow' = value
  /\ UNCHANGED <<catalogueRows, snapshot, draftRows, stockRows, preview, taskPc, task>>

\* enableOpeningBalanceStage
EnableStage(r) == ~snapshot /\ Begin(r, "enable", None, NoData, NoQty) /\ UNCHANGED preview

WriteEnable(r) ==
  /\ taskPc[r] = "write" /\ task[r].kind = "enable"
  /\ allow' = "OPEN"
  /\ Goes(r, "clear")
  /\ UNCHANGED <<catalogueRows, snapshot, draftRows, stockRows, preview, changes, task>>

ClearSnapshot(r) ==
  /\ taskPc[r] = "clear"
  /\ snapshot' = FALSE
  /\ Done(r)
  /\ UNCHANGED <<catalogueRows, allow, draftRows, stockRows, preview, changes>>

\* A DRAFT of the opening balance made by hand: the cost is the catalogue's.
DraftDocument(i, l, q) ==
  /\ changes < MaxChanges /\ changes' = changes + 1
  /\ item[i].there /\ shelf[l] # None /\ Unused # {}
  /\ Replace({}, {Line(Least(Unused), i, l, q, item[i].price, changes + 1)}, obLines)
  /\ UNCHANGED <<catalogueRows, stageRows, stockRows, preview, taskPc, task>>

\* What postDocument asks of a document of the opening balance.
MayPost(S) == allow # "LOCKED" /\ S # {} /\ \A n \in S : n.cost > 0

\* The lines that may be posted last at a balance: documents are posted in the
\* order of their creation, the lines of one in any order.
Last(S, x) == {n \in LinesAt(S, x[1], x[2]) : \A o \in LinesAt(S, x[1], x[2]) : o.doc <= n.doc}

\* What the balances become: an opening balance is not added, it overwrites.
Targets(S) ==
  LET met == {x \in Bins : LinesAt(S, x[1], x[2]) # {}}
  IN  {t \in [met -> {n.qty : n \in S}] : \A x \in met : \E n \in Last(S, x) : t[x] = n.qty}

\* Mutant: the ledger has the quantity of the line, not the difference.
BookWhole(r, S) ==
  /\ \E target \in Targets(S) :
       /\ inStock' = [x \in Bins |-> IF x \in DOMAIN target THEN target[x] ELSE inStock[x]]
       /\ opened' = [x \in Bins |-> opened[x] + (IF x \in DOMAIN target THEN target[x] ELSE 0)]
  /\ traced' = traced \cup {<<n.item, n.loc>> : n \in S}
  /\ UNCHANGED moved

\* The ledger records the difference to the balance that was read: some are
\* read early, and what others commit in between is overwritten.
Book(r, S) ==
  /\ \E target \in Targets(S), early \in SUBSET Bins :
       LET read == [x \in Bins |-> IF x \in early THEN task[r].stock[x] ELSE inStock[x]]
       IN  /\ inStock' = [x \in Bins |-> IF x \in DOMAIN target THEN target[x] ELSE inStock[x]]
           /\ opened' = [x \in Bins |->
                           IF x \in DOMAIN target THEN opened[x] + target[x] - read[x] ELSE opened[x]]
  /\ traced' = traced \cup {<<n.item, n.loc>> : n \in S}
  /\ UNCHANGED moved

\* One document is posted by hand, with the lines it had when it was read ...
PostDocument(r, d) ==
  /\ docs[d] = "DRAFT" /\ MayPost({n \in obLines : n.doc = d})
  /\ Begin(r, "post", d, NoData, NoQty)
  /\ UNCHANGED preview

\* ... and nobody looks at its status again.
WritePost(r) ==
  LET d == task[r].on
      S == {n \in task[r].seen : n.doc = d}
  IN  /\ taskPc[r] = "write" /\ task[r].kind = "post"
      /\ \A n \in S : item[n.item].there /\ shelf[n.loc] # None
      /\ Book(r, S)
      /\ docs' = [docs EXCEPT ![d] = "POSTED"]
      /\ Done(r)
      /\ UNCHANGED <<catalogueRows, stageRows, obLines, preview, changes>>

\* The first other document that is posted locks the stage.
OtherMovement(i, l, q) ==
  /\ changes < MaxChanges /\ changes' = changes + 1
  /\ item[i].there /\ shelf[l] # None /\ (q < 0 => inStock[<<i, l>>] + q >= 0)
  /\ moved' = [moved EXCEPT ![<<i, l>>] = @ + q]
  /\ inStock' = [inStock EXCEPT ![<<i, l>>] = @ + q]
  /\ traced' = traced \cup {<<i, l>>}
  /\ allow' = "LOCKED"
  /\ UNCHANGED <<catalogueRows, snapshot, draftRows, opened, preview, taskPc, task>>

\* finalizeOpeningBalance: the drafts are validated ...
Finalize(r) ==
  /\ There # {} /\ DraftLines # {}
  /\ \A n \in DraftLines : n.cost > 0
  /\ \A i \in There : item[i].on => item[i].base
  /\ Begin(r, "finalize", None, NoData, NoQty)
  /\ UNCHANGED preview

\* ... its transaction begins to post those it finds then ...
FinalizeReads(r) ==
  /\ taskPc[r] = "write" /\ task[r].kind = "finalize"
  /\ \A d \in Drafts : MayPost({n \in obLines : n.doc = d})
  /\ task' = [task EXCEPT ![r] = Finds("finalize", None, NoData, NoQty)]
  /\ Goes(r, "post")
  /\ UNCHANGED <<catalogueRows, stageRows, draftRows, stockRows, preview, changes>>

\* Mutant: the oldest draft is posted.
WriteFinalizeOne(r) ==
  LET j == task[r]
      S == {n \in j.seen : n.doc = Least(j.open)}
  IN  /\ taskPc[r] = "post"
      /\ \A n \in S : item[n.item].there /\ shelf[n.loc] # None
      /\ Book(r, S)
      /\ docs' = [d \in Docs |-> IF d = Least(j.open) THEN "POSTED" ELSE docs[d]]
      /\ allow' = "LOCKED" /\ snapshot' = TRUE
      /\ Done(r)
      /\ UNCHANGED <<catalogueRows, obLines, preview, changes>>

\* ... and commits them with the lock and the snapshot.
WriteFinalize(r) ==
  LET j == task[r]
  IN  /\ taskPc[r] = "post"
      /\ \A n \in j.seen : item[n.item].there /\ shelf[n.loc] # None
      /\ Book(r, j.seen)
      /\ docs' = [d \in Docs |-> IF d \in j.open THEN "POSTED" ELSE docs[d]]
      /\ allow' = "LOCKED" /\ snapshot' = TRUE
      /\ Done(r)
      /\ UNCHANGED <<catalogueRows, obLines, preview, changes>>

\* An error rolls the transaction back: a key does not hold, a document has no
\* lines, the connection is gone.
Refuse(r) == taskPc[r] \in {"write", "post"} /\ Fails(r) /\ UNCHANGED <<preview, changes>>

OpeningNext ==
  \/ \E r \in Tasks :
       \/ \E i \in Items, data \in Edits : CreateItem(r, i, data) \/ UpdateItem(r, i, data)
       \/ \E i \in Items, asOpening \in BOOLEAN : ConfirmImport(r, i, asOpening)
       \/ \E i \in Items : DeleteItem(r, i)
       \/ \E e \in Entries : DeleteEntry(r, e)
       \/ EnableStage(r) \/ Finalize(r) \/ \E d \in Docs : PostDocument(r, d)
       \/ WriteCreate(r) \/ WriteUpdate(r) \/ WriteImport(r) \/ WriteDeleteItem(r)
       \/ WriteDeleteEntry(r) \/ WriteEnable(r) \/ ClearSnapshot(r)
       \/ FinalizeReads(r) \/ WriteFinalize(r) \/ WritePost(r) \/ Refuse(r)
  \/ \E sheet \in Sheets : ParseImportFile(sheet)
  \/ ForgetPreview \/ Maintain
  \/ \E value \in {"OPEN", "LOCKED"} : SetAllow(value)
  \/ \E i \in Items, l \in Locations, q \in Drafted : DraftDocument(i, l, q)
  \/ \E i \in Items, l \in Locations, q \in {-1, 1} : OtherMovement(i, l, q)

OpeningSpec == OpeningInit /\ [][OpeningNext]_openingVars

-----------------------------------------------------------------------------
(* What the opening balance and the catalogue must keep. *)

VARIABLE openingOverlapped

Overlaps == INSTANCE Overlap WITH Requests <- Tasks, pc <- taskPc, overlapped <- openingOverlapped

OpeningHistoryInit == OpeningInit /\ openingOverlapped = FALSE
OpeningHistoryNext == OpeningNext /\ Overlaps!NoteOverlap
OpeningHistorySpec == OpeningHistoryInit /\ [][OpeningHistoryNext]_<<openingVars, openingOverlapped>>

DraftAt(i, l) == Quantity(LinesAt(DraftLines, i, l))

\* A document is posted that has a line there.
Posts(i, l) == \E n \in LinesAt(DraftLines, i, l) : docs'[n.doc] = "POSTED"

\* While requests do not overlap, every balance is what its ledger rows add up
\* to, of the opening balance and of the rest; what is posted between the
\* reading and the overwriting of a balance stays in the ledger only.
LedgerAddsUp == Overlaps!Alone(\A x \in Bins : inStock[x] = opened[x] + moved[x])

\* While requests do not overlap, every ledger row of the opening balance has a
\* line of a posted document: no line leaves one that is posted already.
LinesAreBooked ==
  Overlaps!Alone(\A i \in Items, l \in Locations : opened[<<i, l>>] # 0 => LinesAt(obLines \ DraftLines, i, l) # {})

\* The rows refer to rows that are there whatever overlaps; alone, the ledger
\* adds up to the balances, and the ledger to posted lines.
OpeningConsistent == OpeningTypeOK /\ LedgerAddsUp /\ LinesAreBooked

Succeeds(r, kind) ==
  task[r].kind = kind /\ taskPc[r] # "idle" /\ taskPc'[r] = "idle" /\ draftRows' # draftRows

\* While no two requests overlap: an import leaves, at each of its locations,
\* what the file says, and an update leaves the total it was given, however
\* often they are repeated ("idempotent per (itemId + locationId)",
\* item.service.js:1318); a finalization makes the stock what the drafts say
\* and leaves none; and what was posted stays until another document of the
\* opening balance is, unless its item is deleted while the stage is open.
OpeningStands ==
  [][Overlaps!Alone(
       /\ \A r \in Tasks, i \in Items : task[r].on = i
            => LET data == task[r].data
                   qty == task[r].qty
               IN  /\ Succeeds(r, "import")
                      => \A l \in Locations :
                           DraftAt(i, l)' = IF l \in DOMAIN qty THEN qty[l] ELSE DraftAt(i, l)
                   /\ Succeeds(r, "create") => DraftQty(i)' = data["opening"]
                   /\ Succeeds(r, "update") /\ "opening" \in DOMAIN data => DraftQty(i)' = data["opening"]
       /\ \A r \in Tasks : Succeeds(r, "finalize")
            => /\ Drafts' = {} /\ ObStatus' = "FINALIZED"
               /\ \A x \in Bins : LET drafted == LinesAt(DraftLines, x[1], x[2])
                    IN  IF drafted = {} THEN inStock'[x] = inStock[x]
                        ELSE \E n \in drafted : inStock'[x] = n.qty
       /\ \A i \in Items, l \in Locations : opened'[<<i, l>>] # opened[<<i, l>>]
            => Posts(i, l) \/ (ObStatus = "OPEN" /\ ~item'[i].there))]_openingVars

\* While no two requests overlap, a deletion takes nothing with it but links
\* of locations and categories and the default store of items: the schema
\* would set the department, category or subcategory of an item to null, and
\* the items of a department or category are only counted before.
ReferencesHold ==
  [][Overlaps!Alone(\A e \in Entries : shelf[e] # None /\ shelf'[e] = None
       => /\ \A i \in Items : item'[i].refs = item[i].refs
          /\ \A f \in Naming(e) : \/ e \in Departments /\ f \in Categories
                                  \/ e \in Categories /\ f \in Locations
          /\ draftRows' = draftRows)]_openingVars
=============================================================================
