SPECIFICATION MCSpec
CONSTANTS
  dp = dp  ca = ca  su = su  sp = sp  l1 = l1  l2 = l2  i1 = i1  r1 = r1  r2 = r2
  Departments = {dp}
  Categories = {ca}
  Subcategories = {su}
  Suppliers = {sp}
  Locations = {l1, l2}
  Items = {i1}
  Tasks = {r1, r2}
  Docs = {1, 2}
  Edits <- EditsFor
  Sheets <- SheetsFor
  Drafted <- DraftedFor
  Links <- LinksFor
  MaxChanges = 4
INVARIANTS OpeningConsistent
PROPERTIES OpeningStands ReferencesHold
CHECK_DEADLOCK FALSE
SYMMETRY Perms
