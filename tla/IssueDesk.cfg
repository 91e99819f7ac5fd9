SPECIFICATION HistorySpec
CONSTANTS
  a = a  b = b  q1 = q1  i1 = i1  i2 = i2  i3 = i3  la = la  lb = lb  r1 = r1  r2 = r2
  Cells = {a, b}
  Requisitions = {q1}
  Issues = {i1, i2, i3}
  Lines = {la, lb}
  Owner <- OwnerOf
  CellOf <- CellOfLine
  Wishes <- WishesFor
  For <- ForOf
  Picks <- PicksFor
  Requests = {r1, r2}
  Deliveries = {2}
  MaxStock = 2
INVARIANTS Consistent BooksAgree
PROPERTIES IssuesAreCovered
SYMMETRY Symmetry
