SPECIFICATION ResetFairSpec
CONSTANTS
  MaxMails = 2
  Addresses = {u1}
  MailRequests = {r1, r2}
  MaxAttempts = 2
  MaxFaults = 1
INVARIANTS ResetConsistent LiveCodesAreMailed
PROPERTIES Settles
CHECK_DEADLOCK FALSE
