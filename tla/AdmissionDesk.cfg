SPECIFICATION MCSpec
CONSTANTS
  a = a  b = b  c = c  r1 = r1  r2 = r2  r3 = r3
  Tenants = {a, b, c}
  Starts <- StartsFor
  Columns <- ColumnsFor
  Desks = {r1}
  Clients = {r2}
  cron = r3
  MaxDay = 1
  MaxChanges = 2
INVARIANTS AdmissionConsistent
PROPERTIES AnswersAreCurrent ChangesTakeHold
CHECK_DEADLOCK FALSE
