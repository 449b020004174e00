SPECIFICATION FairSpec
CONSTANTS
  Message = {m1, m2}
  Malformed = {m2}
  Worker = {k1, k2}
  Admin = {a1}
  Limit = 2
  MaxAttempts = 1
  MaxRetries = 1
  MaxCrashes = 1
  Idle = Idle
INVARIANTS
  PublishesPaidFor
PROPERTIES
  ClaimIsResolved
  EveryEventTakenUp
CHECK_DEADLOCK FALSE
