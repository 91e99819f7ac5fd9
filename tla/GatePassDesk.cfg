SPECIFICATION MCSpec
CONSTANTS
  store = store  p1 = p1  r1 = r1  r2 = r2
  Cells = {store}
  Passes = {p1}
  Forms <- FormsFor
  Counts <- CountsFor
  Opening <- Stocked
  Movements <- PostingsElsewhere
  MaxStock = 2
  MaxEdits = 1
  Requests = {r1, r2}
INVARIANTS Consistent CustodyAgrees
PROPERTIES PassesStand LoansAreKept
SYMMETRY Symmetry
CHECK_DEADLOCK FALSE
