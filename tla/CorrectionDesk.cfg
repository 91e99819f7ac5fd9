SPECIFICATION MCSpec
CONSTANTS
  store = store  d1 = d1  s1 = s1  q1 = q1  r1 = r1  r2 = r2  t1 = t1  t2 = t2
  Cells = {store}
  Docs = {d1}
  Losses <- LossesFor
  Clerks = {r1, r2}
  Sessions = {s1}
  Reports = {q1}
  Counted = {0, 2}
  Tellers = {t1, t2}
  MaxSubmits = 1
  Opening <- Stocked
  Movements <- PostingsElsewhere
  MaxStock = 1
INVARIANTS Consistent LossesAgree CountsSettle
PROPERTIES DecisionsStand
SYMMETRY Symmetry
CHECK_DEADLOCK FALSE
