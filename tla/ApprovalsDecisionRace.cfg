SPECIFICATION Spec
CONSTANTS
  u1 = u1
  u2 = u2
  hr = hr
  w1 = w1
  w2 = w2
  w3 = w3
  s1 = s1
  s2 = s2
  s3 = s3
  s4 = s4
  s5 = s5
  User = {u1, u2}
  Role = {hr}
  Processor = {u2}
  Request = {r1}
  WorkflowId = {w1, w2, w3}
  StepId = {s1, s2, s3, s4, s5}
  Proc = {p1, p2}
  DelegationId = {}
  DelegationProc = {}
  NoOne = NoOne
  NoDelegation = NoDelegation
  NoCall = NoCall
  NoWorkflow = NoWorkflow
  NoStep = NoStep
  ByExpression = ByExpression
  Idle = Idle
  RolesOf <- MCRolesOf
  Workflows0 <- MCWorkflows0
  StepDef0 <- MCStepDef0
PROPERTIES
  DecisionIsFinal
