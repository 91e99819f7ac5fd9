SPECIFICATION MCSpec
CONSTANTS
  org = org  hotel = hotel  other = other
  u1 = u1  u2 = u2  r1 = r1  r2 = r2  s1 = s1
  Org = org  Hotel = hotel  Other = other
  Users = {u1, u2}
  Desks = {r1}
  Clients = {r2}
  Sessions = {s1}
  Starts <- StartsFor
  MaxUsers = 2
  MaxChanges = 2
INVARIANTS Consistent
PROPERTIES NobodyBeyondThePlan SuspendedMeansOut TokensAreAccepted
CHECK_DEADLOCK FALSE
