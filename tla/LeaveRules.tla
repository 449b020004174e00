------------------------------ MODULE LeaveRules ------------------------------
(***************************************************************************)
(* What decides whether a leave may be asked for, what it costs and whom it  *)
(* leaves at work: types, policies, calendars, blackouts and approval rules  *)
(* of leave/leave.service.ts and the coverage rules of scheduling.           *)
(*                                                                         *)
(* Each handler is one action: what follows a request, its balance and its   *)
(* approval, is in LeaveRequests.  A day has DayHours hours and a shift is a *)
(* whole day; the roster, who works on which day, is Scheduling's and fixed  *)
(* here.  Everybody has a primary assignment, to a unit that stands for its  *)
(* node, cost center and position.  Effective dates of coverage rules and    *)
(* calendars' time zones are left out.                                       *)
(***************************************************************************)
EXTENDS Integers, Sequences, FiniteSets, FiniteSetsExt

CONSTANTS Colleague, Unit,
          UnitOf,          \* [Colleague -> Unit]
          LeaveKind,       \* LeaveType ids
          Blackout, Route, CoverageRule, AskedLeave,
          LeavePolicyInput, CalendarInput, DayInput, BlackoutInput, RouteInput,
          CoverageInput, Amount,  \* what requests ask for
          ModuleWorkflow,  \* an active workflow for leave requests exists
          DayHours, WeekLength, LastDay,
          MaxCalendars, MaxLeavePolicies, \* bounds: rows created
          NotSet, AnyUnit, AnyKind

RuleStatus == {"DRAFT", "ACTIVE", "INACTIVE", "ARCHIVED"}
CalendarDayType == {"HOLIDAY", "NON_WORKING_DAY", "SPECIAL_WORKDAY"}
LeaveDay == 0..LastDay
LeaveHour == 0..((LastDay + 1) * DayHours)
Weekday == 0..(WeekLength - 1)
NoDay == -1
NoAmount == -1

LeavePolicyRow ==
  [kind : LeaveKind, status : RuleStatus, from : LeaveDay \cup {NoDay}, to : LeaveDay \cup {NoDay},
   least : Nat, most : Nat \cup {NoAmount}, approval : BOOLEAN, workflow : BOOLEAN]
DayRow == [type : CalendarDayType, hours : Nat \cup {NoAmount}]
CalendarRow ==
  [status : RuleStatus, default : BOOLEAN, workWeekdays : SUBSET Weekday, hours : Nat,
   unit : Unit \cup {AnyUnit}, special : [LeaveDay -> DayRow \cup {NotSet}]]
\* calendar 0: any.
BlackoutRow ==
  [status : RuleStatus, from : LeaveHour, to : LeaveHour, severity : {"BLOCK", "WARN"},
   kind : LeaveKind \cup {AnyKind}, calendar : 0..MaxCalendars, unit : Unit \cup {AnyUnit}]
RouteRow ==
  [status : RuleStatus, priority : Nat, kind : LeaveKind \cup {AnyKind}, unit : Unit \cup {AnyUnit},
   least : Nat, most : Nat \cup {NoAmount}, workflow : BOOLEAN]
CoverageRow ==
  [status : RuleStatus, unit : Unit \cup {AnyUnit}, weekdays : SUBSET Weekday,
   minimum : Nat, required : Nat]
Risk == {"LOW", "MEDIUM", "HIGH"}
AskedStatus == {"SUBMITTED", "PENDING_APPROVAL", "APPROVED", "REJECTED", "CANCELLED", "WITHDRAWN"}
AskedRow ==
  [employee : Colleague, kind : LeaveKind, from : LeaveHour, to : LeaveHour, cost : Nat,
   status : AskedStatus, risk : Risk, route : {"rule", "policy", "module", "none"}]

ASSUME LeaveRulesAssumption ==
  /\ UnitOf \in [Colleague -> Unit] /\ NotSet \notin DayRow
  /\ LeavePolicyInput \subseteq LeavePolicyRow /\ CalendarInput \subseteq CalendarRow
  /\ DayInput \subseteq DayRow /\ BlackoutInput \subseteq BlackoutRow
  /\ RouteInput \subseteq RouteRow /\ CoverageInput \subseteq CoverageRow
  /\ Amount \subseteq Nat \cup {NoAmount} /\ ModuleWorkflow \in BOOLEAN
  /\ IsFiniteSet(Colleague) /\ IsFiniteSet(CoverageRule)
  /\ {DayHours, WeekLength} \subseteq Nat \ {0} /\ {LastDay, MaxCalendars, MaxLeavePolicies} \subseteq Nat

VARIABLES today,
          leaveType,      \* LeaveType rows: whether a document is asked for
          leavePolicies,  \* LeavePolicy rows in order of creation
          calendars,      \* LeaveCalendar rows in order of creation, with their LeaveCalendarDays
          blackout, route, coverageRule,
          leaveAsked,     \* LeaveRequest rows
          roster          \* <<colleague, day>> pairs with a shift

leaveRuleVars == <<today, leaveType, leavePolicies, calendars, blackout, route, coverageRule, leaveAsked, roster>>

LeaveRulesTypeOK ==
  /\ today \in LeaveDay
  /\ leaveType \in [LeaveKind -> [documented : BOOLEAN] \cup {NotSet}]
  /\ leavePolicies \in Seq(LeavePolicyRow) /\ Len(leavePolicies) <= MaxLeavePolicies
  /\ calendars \in Seq(CalendarRow) /\ Len(calendars) <= MaxCalendars
  /\ blackout \in [Blackout -> BlackoutRow \cup {NotSet}]
  /\ route \in [Route -> RouteRow \cup {NotSet}]
  /\ coverageRule \in [CoverageRule -> CoverageRow \cup {NotSet}]
  /\ leaveAsked \in [AskedLeave -> AskedRow \cup {NotSet}]
  /\ roster \subseteq Colleague \X LeaveDay

LeaveRulesInit ==
  /\ today = 0 /\ leaveType = [k \in LeaveKind |-> NotSet]
  /\ leavePolicies = <<>> /\ calendars = <<>>
  /\ blackout = [b \in Blackout |-> NotSet] /\ route = [p \in Route |-> NotSet]
  /\ coverageRule = [c \in CoverageRule |-> NotSet] /\ leaveAsked = [a \in AskedLeave |-> NotSet]
  /\ roster \in SUBSET (Colleague \X LeaveDay)

----------------------------------------------------------------------------
\* What HR keeps: created when new, else updated.

PutLeaveType(k, documented) ==
  /\ leaveType' = [leaveType EXCEPT ![k] = [documented |-> documented]]
  /\ UNCHANGED <<today, leavePolicies, calendars, blackout, route, coverageRule, leaveAsked, roster>>

CreateLeavePolicy(row) ==
  /\ Len(leavePolicies) < MaxLeavePolicies /\ leaveType[row.kind] # NotSet
  /\ leavePolicies' = Append(leavePolicies, row)
  /\ UNCHANGED <<today, leaveType, calendars, blackout, route, coverageRule, leaveAsked, roster>>

UpdateLeavePolicy(p, row) ==
  /\ leaveType[row.kind] # NotSet
  /\ leavePolicies' = [leavePolicies EXCEPT ![p] = row]
  /\ UNCHANGED <<today, leaveType, calendars, blackout, route, coverageRule, leaveAsked, roster>>

\* A new default calendar takes the mark from the others.
Unmarked(row) == IF row.default THEN [c \in DOMAIN calendars |-> [calendars[c] EXCEPT !.default = FALSE]]
                 ELSE calendars

CreateCalendar(row) ==
  /\ Len(calendars) < MaxCalendars
  /\ calendars' = Append(Unmarked(row), [row EXCEPT !.special = [d \in LeaveDay |-> NotSet]])
  /\ UNCHANGED <<today, leaveType, leavePolicies, blackout, route, coverageRule, leaveAsked, roster>>

UpdateCalendar(c, row) ==
  /\ calendars' = [Unmarked(row) EXCEPT ![c] = [row EXCEPT !.special = calendars[c].special]]
  /\ UNCHANGED <<today, leaveType, leavePolicies, blackout, route, coverageRule, leaveAsked, roster>>

CreateCalendarDay(c, d, row) ==
  /\ calendars' = [calendars EXCEPT ![c].special[d] = row]
  /\ UNCHANGED <<today, leaveType, leavePolicies, blackout, route, coverageRule, leaveAsked, roster>>

\* A day may be moved to another date and another calendar that has none there.
UpdateCalendarDay(c, d, c2, d2, row) ==
  /\ calendars[c].special[d] # NotSet
  /\ <<c2, d2>> = <<c, d>> \/ calendars[c2].special[d2] = NotSet
  /\ calendars' = [calendars EXCEPT ![c].special[d] = NotSet, ![c2].special[d2] = row]
  /\ UNCHANGED <<today, leaveType, leavePolicies, blackout, route, coverageRule, leaveAsked, roster>>

PutBlackoutWindow(b, row) ==
  /\ row.calendar # 0 => row.calendar \in DOMAIN calendars
  /\ row.kind # AnyKind => leaveType[row.kind] # NotSet
  /\ row.to > row.from
  /\ blackout' = [blackout EXCEPT ![b] = row]
  /\ UNCHANGED <<today, leaveType, leavePolicies, calendars, route, coverageRule, leaveAsked, roster>>

PutApprovalRule(p, row) ==
  /\ row.kind # AnyKind => leaveType[row.kind] # NotSet
  /\ route' = [route EXCEPT ![p] = row]
  /\ UNCHANGED <<today, leaveType, leavePolicies, calendars, blackout, coverageRule, leaveAsked, roster>>

\* A rule without a unit is tied to a named location.
PutCoverageRule(c, row) ==
  /\ row.minimum <= row.required
  /\ coverageRule' = [coverageRule EXCEPT ![c] = row]
  /\ UNCHANGED <<today, leaveType, leavePolicies, calendars, blackout, route, leaveAsked, roster>>

----------------------------------------------------------------------------
\* Which policy, calendar and route a request falls under.

Fits(x, any, y) == x \in {any, y}
Running(p) == p.status = "ACTIVE" /\ p.from <= today /\ (p.to = NoDay \/ p.to >= today)

\* The latest to take effect, one without a date first; of equals the newest. 0: none.
ActivePolicyForType(k) ==
  LET running == {p \in DOMAIN leavePolicies : leavePolicies[p].kind = k /\ Running(leavePolicies[p])}
      undated == {p \in running : leavePolicies[p].from = NoDay}
      latest == {p \in running : \A q \in running : leavePolicies[q].from <= leavePolicies[p].from}
  IN Max({0} \cup (IF undated # {} THEN undated ELSE latest))

\* The default calendar before the others, the employee's unit's before a
\* general one, then the oldest.  0: none.
ResolveCalendarForEmployee(e) ==
  LET fitting == {c \in DOMAIN calendars :
                    calendars[c].status = "ACTIVE" /\ Fits(calendars[c].unit, AnyUnit, UnitOf[e])}
      Among(S, T) == IF S \cap T = {} THEN S ELSE S \cap T
      preferred == Among(Among(fitting, {c \in fitting : calendars[c].default}),
                         {c \in fitting : calendars[c].unit = UnitOf[e]})
  IN IF fitting = {} THEN 0 ELSE Min(preferred)

ResolveApprovalRoute(e, k, p, cost) ==
  LET matching == {r \in Route :
        /\ route[r] # NotSet /\ route[r].status = "ACTIVE"
        /\ Fits(route[r].kind, AnyKind, k) /\ Fits(route[r].unit, AnyUnit, UnitOf[e])
        /\ route[r].least <= cost /\ (route[r].most = NoAmount \/ cost <= route[r].most)}
      first == {r \in matching : \A q \in matching : route[q].priority <= route[r].priority}
      otherwise == IF p # 0 /\ leavePolicies[p].workflow THEN "policy"
                   ELSE IF ModuleWorkflow THEN "module" ELSE "none"
  IN {IF route[r].workflow THEN "rule" ELSE otherwise : r \in first}
       \cup (IF first = {} THEN {otherwise} ELSE {})

----------------------------------------------------------------------------
\* What a leave costs.

DayOf(h) == h \div DayHours
DaysOfWindow(from, to) == DayOf(from)..DayOf(to)
OverlapHours(from, to, d) ==
  Max({0, Min({to, (d + 1) * DayHours}) - Max({from, d * DayHours})})

WorkdayHours(c, d) ==
  LET special == IF d \in LeaveDay THEN calendars[c].special[d] ELSE NotSet
      working == IF special # NotSet THEN special.type = "SPECIAL_WORKDAY"
                 ELSE d % WeekLength \in calendars[c].workWeekdays
  IN IF ~working THEN 0
     ELSE IF special # NotSet /\ special.hours # NoAmount THEN special.hours
     ELSE calendars[c].hours

BusinessHours(c, from, to) ==
  IF c = 0 THEN to - from
  ELSE MapThenSumSet(LAMBDA d : Min({OverlapHours(from, to, d), WorkdayHours(c, d)}),
                     DaysOfWindow(from, to))

\* Mutant: a single day off makes the whole window cost its elapsed time.
CostAcrossDaysOff(c, from, to) ==
  IF c # 0 /\ \A d \in DaysOfWindow(from, to) : OverlapHours(from, to, d) > 0 => WorkdayHours(c, d) > 0
  THEN BusinessHours(c, from, to) ELSE to - from

\* A window without business hours costs its elapsed time.
LeaveCost(c, from, to) ==
  IF BusinessHours(c, from, to) > 0 THEN BusinessHours(c, from, to) ELSE to - from

Overlapping(a, b, from, to) == a < to /\ b > from

\* Nothing is looked up for an employee without a calendar.
Blocked(e, k, c, from, to) ==
  /\ c # 0
  /\ \E b \in Blackout :
       /\ blackout[b] # NotSet /\ blackout[b].status = "ACTIVE" /\ blackout[b].severity = "BLOCK"
       /\ Overlapping(blackout[b].from, blackout[b].to, from, to)
       /\ Fits(blackout[b].calendar, 0, c) /\ Fits(blackout[b].kind, AnyKind, k)
       /\ Fits(blackout[b].unit, AnyUnit, UnitOf[e])

----------------------------------------------------------------------------
\* Who would be left at work, day by day.

Colleagues(e) == {c \in Colleague : UnitOf[c] = UnitOf[e]}
ScheduledOn(e, from, to, d) ==
  {c \in Colleagues(e) : <<c, d>> \in roster
     /\ Overlapping(d * DayHours, (d + 1) * DayHours, from, to)}
Team(e, from, to) == UNION {ScheduledOn(e, from, to, d) : d \in DaysOfWindow(from, to)}

OnLeave(e, from, to, d, statuses) ==
  {leaveAsked[a].employee : a \in {b \in AskedLeave :
     /\ leaveAsked[b] # NotSet /\ leaveAsked[b].employee \in Team(e, from, to) /\ leaveAsked[b].status \in statuses
     /\ Overlapping(leaveAsked[b].from, leaveAsked[b].to, from, to)
     /\ Overlapping(leaveAsked[b].from, leaveAsked[b].to, d * DayHours, (d + 1) * DayHours)}}

RulesOn(e, d) ==
  {c \in CoverageRule :
     /\ coverageRule[c] # NotSet /\ coverageRule[c].status = "ACTIVE"
     /\ Fits(coverageRule[c].unit, AnyUnit, UnitOf[e])
     /\ coverageRule[c].weekdays = {} \/ d % WeekLength \in coverageRule[c].weekdays}

MinimumHeadcount(e, d) == Max({1} \cup {coverageRule[c].minimum : c \in RulesOn(e, d)})

\* Mutant: those whose leave was approved are not counted as absent.
HeadcountOfRoster(e, from, to, d) ==
  Max({0, Cardinality(ScheduledOn(e, from, to, d)) - (IF e \in ScheduledOn(e, from, to, d) THEN 1 ELSE 0)})

ProjectedHeadcount(e, from, to, d) ==
  Max({0, Cardinality(ScheduledOn(e, from, to, d)) - Cardinality(OnLeave(e, from, to, d, {"APPROVED"}))
          - (IF e \in ScheduledOn(e, from, to, d) THEN 1 ELSE 0)})

RiskOn(e, from, to, d) ==
  IF ProjectedHeadcount(e, from, to, d) < MinimumHeadcount(e, d) THEN "HIGH"
  ELSE IF \/ e \in ScheduledOn(e, from, to, d)
          \/ OnLeave(e, from, to, d, {"SUBMITTED", "PENDING_APPROVAL"}) # {}
  THEN "MEDIUM" ELSE "LOW"

CoverageImpact(e, from, to) ==
  LET risks == {RiskOn(e, from, to, d) : d \in DaysOfWindow(from, to)}
  IN IF "HIGH" \in risks THEN "HIGH" ELSE IF "MEDIUM" \in risks THEN "MEDIUM" ELSE "LOW"

----------------------------------------------------------------------------

ActiveAsked(a) == leaveAsked[a] # NotSet /\ leaveAsked[a].status \in {"SUBMITTED", "PENDING_APPROVAL", "APPROVED"}

\* chosen: the calendar that the request names, 0 for none; given: the amount it names.
AskLeave(a, e, k, chosen, from, to, given, document) ==
  LET c == IF chosen # 0 THEN chosen ELSE ResolveCalendarForEmployee(e)
      cost == IF given # NoAmount THEN given ELSE LeaveCost(c, from, to)
      p == ActivePolicyForType(k)
  IN /\ leaveAsked[a] = NotSet /\ leaveType[k] # NotSet
     /\ leaveType[k].documented => document
     /\ to > from
     /\ chosen # 0 => calendars[chosen].status = "ACTIVE"
     /\ ~Blocked(e, k, c, from, to)
     /\ cost >= (IF p = 0 THEN 1 ELSE leavePolicies[p].least)
     /\ p # 0 => leavePolicies[p].most = NoAmount \/ cost <= leavePolicies[p].most
     /\ ~\E b \in AskedLeave :
          ActiveAsked(b) /\ leaveAsked[b].employee = e /\ Overlapping(leaveAsked[b].from, leaveAsked[b].to, from, to)
     /\ \E way \in ResolveApprovalRoute(e, k, p, cost) :
          /\ (p = 0 \/ leavePolicies[p].approval) => way # "none"
          /\ leaveAsked' = [leaveAsked EXCEPT ![a] =
               [employee |-> e, kind |-> k, from |-> from, to |-> to, cost |-> cost,
                status |-> IF p = 0 \/ leavePolicies[p].approval THEN "PENDING_APPROVAL" ELSE "SUBMITTED",
                risk |-> CoverageImpact(e, from, to), route |-> way]]
     /\ UNCHANGED <<today, leaveType, leavePolicies, calendars, blackout, route, coverageRule, roster>>

\* The outcome of LeaveRequests; an approved leave may still be cancelled.
SettleLeave(a, status) ==
  /\ leaveAsked[a] # NotSet
  /\ \/ leaveAsked[a].status \in {"SUBMITTED", "PENDING_APPROVAL"}
     \/ leaveAsked[a].status = "APPROVED" /\ status \in {"CANCELLED", "WITHDRAWN"}
  /\ leaveAsked' = [leaveAsked EXCEPT ![a].status = status]
  /\ UNCHANGED <<today, leaveType, leavePolicies, calendars, blackout, route, coverageRule, roster>>

LeaveDayPasses ==
  /\ today < LastDay
  /\ today' = today + 1
  /\ UNCHANGED <<leaveType, leavePolicies, calendars, blackout, route, coverageRule, leaveAsked, roster>>

CalendarNext ==
  \/ \E row \in CalendarInput : CreateCalendar(row) \/ \E c \in DOMAIN calendars : UpdateCalendar(c, row)
  \/ \E c, c2 \in DOMAIN calendars, d, d2 \in LeaveDay, row \in DayInput :
       CreateCalendarDay(c, d, row) \/ UpdateCalendarDay(c, d, c2, d2, row)

RuleNext ==
  \/ \E k \in LeaveKind, documented \in BOOLEAN : PutLeaveType(k, documented)
  \/ \E row \in LeavePolicyInput :
       CreateLeavePolicy(row) \/ \E p \in DOMAIN leavePolicies : UpdateLeavePolicy(p, row)
  \/ \E b \in Blackout, row \in BlackoutInput : PutBlackoutWindow(b, row)
  \/ \E p \in Route, row \in RouteInput : PutApprovalRule(p, row)
  \/ \E c \in CoverageRule, row \in CoverageInput : PutCoverageRule(c, row)
  \/ LeaveDayPasses

AskNext ==
  \/ \E a \in AskedLeave, e \in Colleague, k \in LeaveKind, chosen \in {0} \cup DOMAIN calendars,
        from, to \in LeaveHour, given \in Amount, document \in BOOLEAN :
       AskLeave(a, e, k, chosen, from, to, given, document)
  \/ \E a \in AskedLeave, status \in AskedStatus \ {"SUBMITTED", "PENDING_APPROVAL"} : SettleLeave(a, status)

LeaveRulesNext == CalendarNext \/ RuleNext \/ AskNext

LeaveRulesSpec == LeaveRulesInit /\ [][LeaveRulesNext]_leaveRuleVars

----------------------------------------------------------------------------

\* Whatever the calendar, a leave asked for in two consecutive pieces never
\* costs less than asked for at once: days are cut at midnight, hours beyond a
\* working day are free, and a piece without working hours costs its time.
SplittingSavesNothing ==
  \A c \in {0} \cup DOMAIN calendars : \A from, cut, to \in LeaveHour :
    from < cut /\ cut < to => LeaveCost(c, from, to) <= LeaveCost(c, from, cut) + LeaveCost(c, cut, to)

\* When a leave is recorded with less than a high coverage risk, every coverage
\* rule of the unit keeps its minimum on every day of the leave: that many
\* others have a shift and no approved leave during it.
LeavesEnough(new) ==
  \A d \in LeaveDay : Overlapping(d * DayHours, (d + 1) * DayHours, new.from, new.to) =>
    \A rule \in RulesOn(new.employee, d) :
      coverageRule[rule].minimum <= Cardinality({c \in Colleagues(new.employee) \ {new.employee} :
        /\ <<c, d>> \in roster
        /\ \A a \in AskedLeave : leaveAsked[a] # NotSet /\ leaveAsked[a].employee = c /\ leaveAsked[a].status = "APPROVED"
             => OverlapHours(Max({leaveAsked[a].from, new.from}), Min({leaveAsked[a].to, new.to}), d) = 0})

RiskNotUnderstated ==
  [][\A a \in AskedLeave : leaveAsked[a] = NotSet /\ leaveAsked'[a] # NotSet /\ leaveAsked'[a].risk # "HIGH"
       => LeavesEnough(leaveAsked'[a])]_leaveRuleVars
=============================================================================
