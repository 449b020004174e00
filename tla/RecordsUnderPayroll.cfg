SPECIFICATION MCSpec
CONSTANTS
  e1 = e1  e2 = e2  s1 = s1  s2 = s2  k1 = k1
  f1 = f1  f2 = f2  h1 = h1  h2 = h2  r1 = r1  r2 = r2
  Employee = {e1, e2}
  Eligible = {e1, e2}
  Slot = {s1, s2}
  Clashes <- MCClashes
  PeriodId = {k1}
  OpenShiftId = {o1}
  AssignmentId = {a1, a2}
  SwapId = {w1}
  PeriodInput = {"DRAFT"}
  OpenShiftInput <- MCOpenShifts
  OpenShiftPatch <- MCPatches
  StatusInput = {"ASSIGNED", "DECLINED"}
  AwayInput <- MCAway
  Scheduler = {p1}
  TakingTurns = TRUE
  NoRow = NoRow
  Free = Free
  Clocker = {f1, f2}
  Shift = {h1, h2}
  ShiftOf <- MCShiftOf
  Dropped = {}
  RecordId = {r1, r2}
  CorrectionId = {c1}
  Minutes = {1}
  MutationId = {m1, m2}
  SyncCall = {q1, q2}
  WishInput <- MCWishes
  MaxPayroll = 1
  Unscheduled = Unscheduled
  Missing = Missing
  NoSync = NoSync
SYMMETRY MCSymmetry
CHECK_DEADLOCK FALSE
PROPERTIES FinalRecordsUnchanged
