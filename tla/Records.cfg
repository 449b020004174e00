SPECIFICATION MCSpec
CONSTANTS
  ItemId = {i1, i2}
  ContactType = {email, phone}
  Key = {k1}
  RetypesSayPrimary = TRUE
  NoItem = NoItem
  RecordId = {q1, q2}
  Reviewer = {rv1}
  ReviewersTakeTurns = TRUE
  NoRecordKept = NoRecordKept
  NoReview = NoReview
  ua1 = ua1  ua2 = ua2  ua3 = ua3
  em1 = em1  em2 = em2
  hm1 = hm1  hm2 = hm2
  ep1 = ep1  ep2 = ep2
  UserAccount = {ua1, ua3}
  Elsewhere = {ua3}
  Email = {em1}
  EmailOf <- MCEmailOf
  Human = {hm1, hm2}
  Employment = {ep1, ep2}
  HumanOf <- MCHumanOf
  Linker = {lk1}
  PersonsKeepAccounts = TRUE
  NoAccount = NoAccount
  NoHuman = NoHuman
  NoEmployment = NoEmployment
  Idling = Idling
  Permission = {mg, pa}
  Manages = mg
  PlatformRole = {pr1}
  DefaultRole = {dr1}
  CustomRole = {cr1}
  Template <- MCTemplate
  SuperAdmin = SuperAdmin
  Member = {mm1}
  RoleAdmin = {ra1, ra2}
  NoRole = NoRole
  NoSync = NoSync
  TermId = {te1, te2}
  ChangeId = {ch1}
  Pay = {pay1}
  LastRecordDay = 1
  RelationId = {rl1}
  DesignationId = {ds1}
  Leader = {ld1}
  Oneself = Oneself
  RecordClerk = {rk1}
  RelationsInTurns = TRUE
  NoTerm = NoTerm
  NoChange = NoChange
  NoRelation = NoRelation
  NoDesignation = NoDesignation
  NoUpdate = NoUpdate
  Message = {n1}
  se1 = se1
  Seat = {se1, se2}
  Reader = {ud1}
  Code = {tc1}
  dv1 = dv1
  Courier = {dv1, dv2}
  MaxSends = 2
  NoMessage = NoMessage
  NoReader = NoReader
  NoCode = NoCode
  Waiting = Waiting
  od1 = od1
  Node = {od1, od2, od3}
  Center = {oc1}
  Rung = {or1}
  Post = {op1}
  Stint = {os1}
  Skill = {ok1}
  Learner = {ol1}
  Absent = Absent
  fe1 = fe1
  Puncher = {pu1}
  DayRecord = {dr1}
  Fence = {fe1}
  Device = {dc1}
  Badge = {ba1}
  Holiday = {hd1}
  PremiumRule = {pm1}
  PolicyInput <- MCPolicyInput
  FenceInput <- MCFenceInput
  DeviceInput <- MCDeviceInput
  HolidayInput <- MCHolidayInput
  RuleInput <- MCRuleInput
  Spot = {0, 1}
  ShiftStart = 1
  ShiftEnd = 2
  DailyHours = 2
  DayLength = 3
  LastHour = 4
  MaxShift = 4
  MaxPolicies = 1
  NotMade = NotMade
  NoDevice = NoDevice
  Unregistered = Unregistered
  NoSpot = NoSpot
  un1 = un1
  lv1 = lv1  lv2 = lv2
  co1 = co1
  Colleague = {co1, co2}
  Unit = {un1}
  UnitOf <- MCUnitOf
  LeaveKind = {lt1}
  Blackout = {bl1}
  Route = {ro1}
  CoverageRule = {cv1}
  AskedLeave = {lv1, lv2}
  LeavePolicyInput <- MCLeavePolicyInput
  CalendarInput <- MCCalendarInput
  DayInput <- MCDayInput
  BlackoutInput <- MCBlackoutInput
  RouteInput <- MCRouteInput
  CoverageInput <- MCCoverageInput
  Amount <- MCAmount
  ModuleWorkflow = TRUE
  DayHours = 2
  WeekLength = 2
  LastDay = 1
  MaxCalendars = 2
  MaxLeavePolicies = 2
  NotSet = NotSet
  AnyUnit = AnyUnit
  AnyKind = AnyKind
  ShiftTemplate = {sh1}
  tu1 = tu1
  Turn = {tu1, tu2}
  OvertimeAsk = {oa1}
  ScheduleInput <- MCScheduleInput
  ShiftInput <- MCShiftInput
  BreakInput = {0}
  ClockLength = 2
  WeekEnd = 3
  RegionHasOvertime = TRUE
  TurnsStayCancelled = TRUE
  MaxSchedulePolicies = 2
  Unplanned = Unplanned
  tn1 = tn1
  sl1 = sl1
  pf1 = pf1
  TenantId = {tn1, tn2}
  Slug = {sl1, sl2}
  Feature = {ft1, ft2}
  CoreFeature = {ft1}
  Provisioner = {pv1, pv2}
  Prefix = {pf1, pf2}
  PrefixOf <- MCPrefixOf
  EmployeeNumber <- MCEmployeeNumber
  Format <- MCFormat
  MaxSequence = 2
  NoTenant = NoTenant
  NoProvision = NoProvision
  Vacancy = {vc1}
  Applicant = {ap1}
  Meeting = {mt1}
  Mover = {mo1, mo2}
  LastPlace = 10
  NoApplication = NoApplication
  NoMeeting = NoMeeting
  NoStage = NoStage
  NoMove = NoMove
  Unsaid = Unsaid
  Article = {ar1}
  Guest = {gu1}
  Visitor = {vi1, vi2}
  Editor = {ed1}
  MaxRows = 2
  Owner = {ow1}
  Platform = Platform
  Widget = {wi1, wi2}
  WidgetCode = {wc1, wc2}
  Curator = {cu1, cu2}
  Steward = {sw1}
  Issue = {is1}
  Event = {ev1}
  Lead = {le1}
  MaxFigure = 1
  MaxSnapshots = 2
  NoArticle = NoArticle
  NotVisiting = NotVisiting
  NotEditing = NotEditing
  NoWidget = NoWidget
  NotCurating = NotCurating
  NoLead = NoLead
CHECK_DEADLOCK FALSE
INVARIANTS
  ActiveAccountSignsIn
  SentPaidFor
  StructureHolds
  SplittingSavesNothing
  ProblemsListed
  PremiumPaysWindow
  WeekOvertimeCovered
PROPERTIES
  RiskNotUnderstated
