SPECIFICATION MCLeaveSpec
CONSTANTS
  l1 = l1
  l2 = l2
  l3 = l3
  LeaveId = {l1, l2, l3}
  Minutes <- MCMinutes
  RequiresApproval <- MCRequiresApproval
  Clashes <- MCClashes
  Grant = 2
  Floor = 0
  Adjustments <- MCAdjustments
  MaxAdjusted = 1
  Proc = {p1, p2}
  Overlap = TRUE
  Idle = Idle
SYMMETRY ProcSymmetry
INVARIANTS
  LedgerExplainsPending
  DecidedLeaveIsBooked
  LeaveFollowsApprovalInTurns
PROPERTIES
  LeaveDecisionIsFinalInTurns
