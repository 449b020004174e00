SPECIFICATION MCWorkflowsSpec
CONSTANTS
  u1 = u1
  User = {u1}
  Role = {}
  Processor = {u1}
  Request = {r1}
  WorkflowId = {w1}
  StepId = {s1, s2}
  Proc = {p1}
  Editor = {e1}
  DelegationId = {}
  DelegationProc = {}
  NoOne = NoOne
  NoDelegation = NoDelegation
  NoCall = NoCall
  NoWorkflow = NoWorkflow
  NoStep = NoStep
  ByExpression = ByExpression
  Idle = Idle
  RolesOf <- MCRolesOf
  Workflows0 <- MCWorkflows0
  StepDef0 <- MCStepDef0
  StepInput <- MCStepInput
  StepPatch <- MCStepPatch
VIEW WithoutHistory
SYMMETRY StepSymmetry

PROPERTIES
  NoStructureChangeWhilePending
