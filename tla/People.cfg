SPECIFICATION MCSpec
CONSTANTS
  m1 = m1  m2 = m2
  User = {u1, u2, u3}
  DelegationId = {d1}
  DelegationProc = {p1}
  NoOne = NoOne
  NoDelegation = NoDelegation
  NoCall = NoCall
  ImportJob = {j1, j2}
  Line = {1, 2}
  Numbered = {1}
  RowBatch = 1
  Worker = {w1, w2}
  MaxCrashes = 1
  SlowWorkersKeepLock = TRUE
  t1 = t1  t2 = t2  t3 = t3  h1 = h1  h2 = h2
  Account = {c1, c2}
  Credential = {t1, t2, t3}
  Invitation = {i1, i2}
  AuthHandler = {h1, h2}
  NoCredential = NoCredential
  Resting = Resting
  Person = {m1, m2}
  SameHuman <- MCSameHuman
  Leader = {m1, m2}
  PositionId = {1, 2, 3}
  PlacementId = {a1, a2}
  LastDay = 2
  PlacementInput <- MCPlacements
  BudgetInput = {1}
  EndsExtend = FALSE
  Overrides = {FALSE}
  NoManager = NoManager
  NoPosition = NoPosition
  NoRecord = NoRecord
  Requisition = {r1}
  Offer = {o1}
  Candidate = {k1}
  RequestId = {1, 2}
  Recruiter = {g1}
  RecruitersTakeTurns = TRUE
  NoRequest = NoRequest
  NoPaper = NoPaper
  x1 = x1  x2 = x2  tk1 = tk1  it1 = it1  it2 = it2
  PlanId = {pl1}
  TaskId = {tk1, tk2}
  ExitId = {x1, x2}
  ItemId = {it1, it2}
  Officer = {of1}
  OfficersTakeTurns = TRUE
  NoPlan = NoPlan
  NoRow = NoRow
  FormId = {f1}
  FormTarget = {ft1, ft2}
  FormAssignmentId = {fa1, fa2}
  ResponseId = {fr1, fr2}
  MaxEdition = 2
  FormHandler = {fh1}
  FormsTakeTurns = TRUE
  NoForm = NoForm
  DocumentId = {doc1}
  DocumentTypeId = {dt1, dt2}
  MaxVersion = 2
  Clerk = {ck1}
  ClerksTakeTurns = TRUE
  NoType = NoType
  NoDocument = NoDocument
CHECK_DEADLOCK FALSE
INVARIANTS ImportedOnce OneLiveTokenPerLogin OnePrimaryAtATime OccupancyWithinCapacity HierarchyAcyclic StandsOnApproval DerivedStatusesAgree ResponsesFitForm VerifiedAsSeen
PROPERTIES EveryImportFinishes
