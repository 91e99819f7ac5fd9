SPECIFICATION MCSpec
CONSTANTS
  store = store  d1 = d1  s1 = s1  q1 = q1  r1 = r1  r2 = r2  t1 = t1  t2 = t2
  Cells = {store}
  Docs = {}
  Losses <- LossesFor
  Clerks = {r1}
  Sessions = {}
  Reports = {q1}
  Counted = {0, 2}
  Tellers = {t1}
  MaxSubmits = 1
  Opening <- Stocked
  Movements = {}
  MaxStock = 1
INVARIANT ReportAdjustsVariance
CHECK_DEADLOCK FALSE
