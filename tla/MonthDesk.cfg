SPECIFICATION MCSpec
CONSTANTS
  a = a  b = b  r1 = r1  r2 = r2  p1 = p1
  Stores = {a, b}
  MonthRequests = {r1, r2}
  Passes = {p1}
  Moves <- MovesFor
  Loads = {1, 2}
  Splits <- SplitsFor
  Tallied = {0, 2}
  LevelEdits <- EditsFor
  LastMonth = 2
  MonthLength = 2
  YearLength = 2
  MaxChanges = 4
 
PROPERTIES PastStands
CHECK_DEADLOCK FALSE
SYMMETRY Perms
