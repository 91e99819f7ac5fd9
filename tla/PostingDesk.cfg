SPECIFICATION MCSpec
CONSTANTS
  a = a  b = b  jan = jan  r1 = r1  r2 = r2
  ob = ob  ret = ret  brk = brk  tmp = tmp  trf = trf  back = back  adj = adj  cnt = cnt
  Cells = {a, b}
  Docs = {ob, ret, brk, tmp, trf, back, adj, cnt}
  Kind <- KindOf
  Drafts <- DraftsOf
  Requests = {r1, r2}
  Periods = {jan}
  PeriodOf <- MonthOf
INVARIANTS Consistent NonNegative
PROPERTIES KeepsPromise BooksWholeDocuments EveryRequestReturns
CHECK_DEADLOCK FALSE
