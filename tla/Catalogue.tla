----------------------------- MODULE Catalogue ------------------------------
(***************************************************************************)
(* The catalogue: departments, categories and their subcategories,         *)
(* suppliers and locations, and the items that refer to them.  Each        *)
(* service checks names and parents itself before it writes; the unique    *)
(* and foreign keys of the schema check them again with the write, so that *)
(* a creation or an update is one step here.  A deletion is two: the       *)
(* services count what an entry is used by, then delete it, and what the   *)
(* schema does with the references left then depends on the table.         *)
(***************************************************************************)
EXTENDS Naturals, FiniteSets, FiniteSetsExt

CONSTANTS Departments, Categories, Subcategories, Suppliers, Locations, Items

None == "none"
Entries == Departments \cup Categories \cup Subcategories \cup Suppliers \cup Locations

\* Ids are of one table.
ASSUME CatalogueAssumption ==
  /\ None \notin Entries /\ None \notin Items
  /\ Departments \cap (Categories \cup Subcategories \cup Suppliers \cup Locations) = {}
  /\ Categories \cap (Subcategories \cup Suppliers \cup Locations) = {}
  /\ Subcategories \cap (Suppliers \cup Locations) = {} /\ Suppliers \cap Locations = {}

VARIABLES
  shelf,  \* per entry: "none", "on" (isActive) or "off"
  below,  \* <<e, f>>: e names f as its department, category, or one of its categories
  item    \* per item: its row

\* refs: department, category, subcategory and supplier.  base: it has a unit
\* of type BASE.  price: unitPrice.
NoItem == [there |-> FALSE, on |-> FALSE, refs |-> {}, store |-> None, base |-> FALSE, price |-> 0]

ItemRow == [there : BOOLEAN, on : BOOLEAN, refs : SUBSET (Entries \ Locations),
            store : {None} \cup Locations, base : BOOLEAN, price : Nat]

Present == {e \in Entries : shelf[e] # None}
Resolvable == {e \in Entries : shelf[e] = "on"}
There == {i \in Items : item[i].there}

\* What an entry of each kind may name, and how many of them.
MayName(e) ==
  IF e \in Locations THEN Departments \cup Categories
  ELSE IF e \in Categories THEN Departments
  ELSE IF e \in Subcategories THEN Categories
  ELSE {}

Named(e, fs) ==
  /\ fs \subseteq Present \cap MayName(e)
  /\ Cardinality(fs \cap Departments) <= 1
  /\ e \in Subcategories => Cardinality(fs) = 1

CatalogueTypeOK ==
  /\ shelf \in [Entries -> {None, "on", "off"}]
  /\ below \subseteq Present \X Present /\ \A link \in below : link[2] \in MayName(link[1])
  /\ item \in [Items -> ItemRow]
  /\ \A i \in Items :
       /\ item[i].refs \subseteq Present /\ item[i].store \in {None} \cup Present
       /\ ~item[i].there => item[i] = NoItem

-----------------------------------------------------------------------------
(* One statement each. *)

Create(e, fs) ==
  /\ shelf[e] = None /\ Named(e, fs)
  /\ shelf' = [shelf EXCEPT ![e] = "on"]
  /\ below' = below \cup ({e} \X fs)
  /\ UNCHANGED item

CreateDepartment(d) == d \in Departments /\ Create(d, {})
CreateSupplier(s) == s \in Suppliers /\ Create(s, {})
CreateCategory(c, fs) == c \in Categories /\ Create(c, fs)
CreateSubcategory(s, c) == s \in Subcategories /\ Create(s, {c})
CreateLocation(l, fs) == l \in Locations /\ Create(l, fs)

\* The entry names others from now on.
Rename(e, fs) ==
  /\ shelf[e] # None /\ Named(e, fs)
  /\ below' = {link \in below : link[1] # e} \cup ({e} \X fs)
  /\ UNCHANGED <<shelf, item>>

UpdateCategory(c, fs) == c \in Categories /\ Rename(c, fs)
UpdateLocation(l, fs) == l \in Locations /\ Rename(l, fs)

\* The department stays.
SetLocationCategories(l, cs) ==
  /\ l \in Locations /\ cs \subseteq Categories
  /\ Rename(l, cs \cup {d \in Departments : <<l, d>> \in below})

Toggle(e) ==
  /\ shelf[e] # None
  /\ shelf' = [shelf EXCEPT ![e] = IF shelf[e] = "on" THEN "off" ELSE "on"]
  /\ UNCHANGED <<below, item>>

ToggleDepartment(d) == d \in Departments /\ Toggle(d)
ToggleSupplierStatus(s) == s \in Suppliers /\ Toggle(s)

\* The updates of the others write isActive too.
UpdateActive(e) == e \in Categories \cup Subcategories \cup Locations /\ Toggle(e)

ToggleItem(i) ==
  /\ item[i].there
  /\ item' = [item EXCEPT ![i].on = ~item[i].on]
  /\ UNCHANGED <<shelf, below>>

\* updateItemUnits: whatever is in stock.
ReplaceUnits(i, base) ==
  /\ item[i].there
  /\ item' = [item EXCEPT ![i].base = base]
  /\ UNCHANGED <<shelf, below>>

-----------------------------------------------------------------------------
(* Deletion.  used: the locations with stock or with lines of documents.   *)

Naming(e) == {f \in Entries : <<f, e>> \in below}

Unlisted(e) == \A i \in Items : e \notin item[i].refs

MayDeleteDepartment(d) == Unlisted(d) /\ Naming(d) \cap Locations = {}

\* Mutant: the items of a category are not counted.
MayDeleteCategoryInUse(c) == Naming(c) \cap Subcategories = {}

MayDeleteCategory(c) == Unlisted(c) /\ Naming(c) \cap Subcategories = {}

MayDeleteSubcategory(s) == Unlisted(s)

MayDeleteLocation(l, used) == l \notin used

\* What the services count before they delete: nobody deletes a supplier.
MayDelete(e, used) ==
  /\ shelf[e] # None /\ e \notin Suppliers
  /\ e \in Departments => MayDeleteDepartment(e)
  /\ e \in Categories => MayDeleteCategory(e)
  /\ e \in Subcategories => MayDeleteSubcategory(e)
  /\ e \in Locations => MayDeleteLocation(e, used)

\* onDelete: Restrict
Restricted(e, used) ==
  \/ e \in Categories /\ Naming(e) \cap Subcategories # {}
  \/ e \in used

\* onDelete: SetNull and Cascade
Without(row, e) ==
  [there |-> row.there, on |-> row.on, refs |-> row.refs \ {e},
   store |-> IF row.store = e THEN None ELSE row.store, base |-> row.base, price |-> row.price]

Erase(e) ==
  /\ shelf' = [shelf EXCEPT ![e] = None]
  /\ below' = {link \in below : e \notin {link[1], link[2]}}
  /\ item' = [i \in Items |-> Without(item[i], e)]

-----------------------------------------------------------------------------
(* Items.                                                                  *)

\* What a row becomes: columns that are not given stay, a new row is active.
Given(data, column, old) == IF column \in DOMAIN data THEN data[column] ELSE old

Written(data, old) ==
  [there |-> TRUE, on |-> old.there => old.on,
   refs |-> Given(data, "refs", old.refs), store |-> Given(data, "store", old.store),
   base |-> Given(data, "base", old.base), price |-> Given(data, "price", old.price)]

\* A default store is in the department of the item, if both have one.
StoreFits(row) ==
  \A d \in Departments, f \in row.refs \cap Departments :
    row.store # None /\ <<row.store, d>> \in below => d = f

\* The keys of a row are there.
KeysHold(row) == row.refs \subseteq Present /\ row.store \in {None} \cup Present

\* What an import of a sheet can resolve: active entries.
Resolves(row) == row.refs \cup ({row.store} \ {None}) \subseteq Resolvable
=============================================================================
