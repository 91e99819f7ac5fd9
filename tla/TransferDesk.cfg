SPECIFICATION HistorySpec
CONSTANTS
  store = store  bar = bar  t1 = t1  r1 = r1  r2 = r2
  Cells = {store, bar}
  Transfers = {t1}
  Plans <- PlansFor
  Signers = {"DEPT_MANAGER", "ADMIN"}
  Overrides = {1}
  Movements <- PostingsElsewhere
  MaxStock = 2
  Requests = {r1, r2}
INVARIANTS Consistent ApprovalAgrees
PROPERTIES TransfersConserve SignaturesStay
SYMMETRY Symmetry
