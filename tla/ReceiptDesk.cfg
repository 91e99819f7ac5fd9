SPECIFICATION HistorySpec
CONSTANTS
  a = a  b = b  g1 = g1  g2 = g2  r1 = r1  r2 = r2
  Cells = {a, b}
  Grns = {g1, g2}
  Receipts <- ReceiptsOf
  Requests = {r1, r2}
INVARIANT Consistent
PROPERTIES LedgerKeepsRegister StockKeepsRegister SettledNotesStay PostsSignedLines
SYMMETRY Symmetry
CHECK_DEADLOCK FALSE
