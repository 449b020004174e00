SPECIFICATION ReliableSpec
CONSTANTS
  Message = {m1, m2}
  Malformed = {}
  Worker = {k1}
  Admin = {}
  Limit = 1
  MaxAttempts = 8
  MaxRetries = 1
  MaxCrashes = 0
  Idle = Idle
PROPERTIES
  EveryEventPublished
CHECK_DEADLOCK FALSE
