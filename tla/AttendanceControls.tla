-------------------------- MODULE AttendanceControls --------------------------
(***************************************************************************)
(* What governs clock punches and what is found wrong with the time they    *)
(* record: the policies, geofences, clock devices, kiosk badges, exceptions, *)
(* holidays and premium rules of attendance/attendance.service.ts.           *)
(*                                                                         *)
(* Each handler is one action; the timesheets that may refuse an adjustment, *)
(* and breaks by punch, are in Attendance.  Minutes are counted in hours,    *)
(* places lie on a line, every employee has one shift at the same hours.     *)
(* Attestations, locations by name, rounding, the effective dates of rules,  *)
(* multipliers and the clock that refuses future times are left out.         *)
(***************************************************************************)
EXTENDS Integers, Sequences, FiniteSets, FiniteSetsExt

CONSTANTS Puncher,            \* employees
          DayRecord,          \* AttendanceRecord ids
          Fence, Device, Badge, Holiday, PremiumRule,
          PolicyInput, FenceInput, DeviceInput, HolidayInput, RuleInput, \* what requests ask for
          Spot,               \* coordinates of punches
          ShiftStart, ShiftEnd, DailyHours, DayLength, LastHour, MaxShift,
          MaxPolicies,        \* bound: policies created
          NotMade, NoDevice, Unregistered, NoSpot

PolicySetting == {"requireKnownDevice", "requireGeofence", "blockOutside", "noWeb", "noKiosk",
                  "noManual", "requireSchedule", "lenient", "dailyOvertime"}
ControlStatus == {"ACTIVE", "INACTIVE", "ARCHIVED"}
BadgeStatus == {"ACTIVE", "INACTIVE", "REVOKED"}
ExceptionKind == {"LATE_ARRIVAL", "EARLY_DEPARTURE", "OVERTIME", "UNSCHEDULED_WORK",
                  "OUTSIDE_GEOFENCE", "UNAPPROVED_LOCATION", "MISSED_CLOCK_IN"}
DecisionStatus == {"APPROVED", "REJECTED", "WAIVED", "RESOLVED"}
Hour == 0..LastHour
NoTime == -1

PolicyRow == [status : {"DRAFT", "ACTIVE", "ARCHIVED"}, setting : SUBSET PolicySetting, standard : BOOLEAN]
\* scope: every shift's, the one shift's, or another's.
FenceRow == [status : ControlStatus, centre : Spot, radius : Nat, scope : {"any", "shift", "other"}]
DeviceRow == [status : ControlStatus, kiosk : BOOLEAN, fence : Fence \cup {NotMade},
              holder : Puncher \cup {NotMade}]
BadgeRow == [status : BadgeStatus, holder : Puncher, expired : BOOLEAN]
HolidayRow == [status : ControlStatus, paid : BOOLEAN, day : Nat]
\* from and to are hours of the day (CreateAttendancePremiumRuleDto), NoTime when not given; no days, any day.
RuleRow == [status : ControlStatus, from : 0..(DayLength - 1) \cup {NoTime}, to : 0..(DayLength - 1) \cup {NoTime},
            days : SUBSET Nat]

\* synced: written last by a handler that lists its exceptions.
TimeRow == [employee : Puncher, linked : BOOLEAN, in : Hour \cup {NoTime}, out : Hour \cup {NoTime},
            pause : Hour, late : Hour, early : Hour, over : Hour,
            policy : 1..(MaxPolicies + 1), synced : BOOLEAN]

ASSUME ControlsAssumption ==
  /\ PolicyInput \subseteq SUBSET PolicySetting /\ Spot \subseteq Int
  /\ FenceInput \subseteq FenceRow /\ DeviceInput \subseteq DeviceRow
  /\ HolidayInput \subseteq HolidayRow /\ RuleInput \subseteq RuleRow
  /\ {ShiftStart, ShiftEnd} \subseteq Hour /\ ShiftStart < ShiftEnd
  /\ DayLength \in Nat \ {0} /\ LastHour \in Nat /\ MaxShift \in Nat /\ DailyHours \in Nat /\ MaxPolicies \in Nat

VARIABLES policies,  \* AttendancePolicy rows in order of creation
          fence, device, badge, holiday, premiumRule,
          day,       \* AttendanceRecord rows
          exception  \* AttendanceException rows: what they are about -> how they stand

ruleVars == <<policies, fence, device, badge, holiday, premiumRule>>
controlVars == <<ruleVars, day, exception>>

\* An exception is known by its record, employee, shift and kind.
ExceptionKey == [about : DayRecord \cup {NotMade}, employee : Puncher, linked : BOOLEAN, kind : ExceptionKind]
ExceptionRow == [status : DecisionStatus \cup {"OPEN"}, minutes : Hour]

ControlsTypeOK ==
  /\ policies \in Seq(PolicyRow) /\ Len(policies) <= MaxPolicies + 1
  /\ fence \in [Fence -> FenceRow \cup {NotMade}]
  /\ device \in [Device -> DeviceRow \cup {NotMade}]
  /\ badge \in [Badge -> BadgeRow \cup {NotMade}]
  /\ holiday \in [Holiday -> HolidayRow \cup {NotMade}]
  /\ premiumRule \in [PremiumRule -> RuleRow \cup {NotMade}]
  /\ day \in [DayRecord -> TimeRow \cup {NotMade}]
  /\ DOMAIN exception \subseteq ExceptionKey
  /\ \A k \in DOMAIN exception : exception[k] \in ExceptionRow

ControlsInit ==
  /\ policies = <<>> /\ fence = [f \in Fence |-> NotMade] /\ device = [d \in Device |-> NotMade]
  /\ badge = [b \in Badge |-> NotMade] /\ holiday = [h \in Holiday |-> NotMade]
  /\ premiumRule = [p \in PremiumRule |-> NotMade] /\ day = [r \in DayRecord |-> NotMade]
  /\ exception = <<>>

----------------------------------------------------------------------------
\* Policies: the newest active one is in force, and one is made when there is none.

ActivePolicies == {p \in DOMAIN policies : policies[p].status = "ACTIVE"}

CreatePolicy(setting, status) ==
  /\ Len(policies) < MaxPolicies
  /\ policies' = Append(policies, [status |-> status, setting |-> setting, standard |-> FALSE])
  /\ UNCHANGED <<fence, device, badge, holiday, premiumRule, day, exception>>

UpdatePolicy(p, setting, status) ==
  /\ policies' = [policies EXCEPT ![p].setting = setting, ![p].status = status]
  /\ UNCHANGED <<fence, device, badge, holiday, premiumRule, day, exception>>

ActivatePolicy(p) ==
  /\ policies' = [q \in DOMAIN policies |->
       IF q = p THEN [policies[q] EXCEPT !.status = "ACTIVE"]
       ELSE IF q \in ActivePolicies THEN [policies[q] EXCEPT !.status = "ARCHIVED"]
       ELSE policies[q]]
  /\ UNCHANGED <<fence, device, badge, holiday, premiumRule, day, exception>>

StandardPolicy == [status |-> "ACTIVE", setting |-> {"lenient", "dailyOvertime"}, standard |-> TRUE]

\* The code STANDARD_ATTENDANCE is unique: once its policy is archived and no
\* other is active, there is none in force and none can be made.
PolicyInForce ==
  IF ActivePolicies # {} THEN {Max(ActivePolicies)}
  ELSE IF \E p \in DOMAIN policies : policies[p].standard THEN {}
  ELSE {Len(policies) + 1}

EnsureActivePolicy == IF ActivePolicies = {} THEN Append(policies, StandardPolicy) ELSE policies

----------------------------------------------------------------------------
\* What an administrator keeps: created when new, else updated.

PutGeofence(f, row) ==
  /\ fence' = [fence EXCEPT ![f] = row]
  /\ UNCHANGED <<policies, device, badge, holiday, premiumRule, day, exception>>

PutClockDevice(d, row) ==
  /\ row.fence # NotMade => fence[row.fence] # NotMade
  /\ device' = [device EXCEPT ![d] = row]
  /\ UNCHANGED <<policies, fence, badge, holiday, premiumRule, day, exception>>

PutKioskCredential(b, e, status) ==
  /\ badge' = [badge EXCEPT ![b] = [status |-> status, holder |-> e, expired |-> FALSE]]
  /\ UNCHANGED <<policies, fence, device, holiday, premiumRule, day, exception>>

CredentialExpires(b) ==
  /\ badge[b] # NotMade /\ ~badge[b].expired
  /\ badge' = [badge EXCEPT ![b].expired = TRUE]
  /\ UNCHANGED <<policies, fence, device, holiday, premiumRule, day, exception>>

PutHoliday(h, row) ==
  /\ holiday' = [holiday EXCEPT ![h] = row]
  /\ UNCHANGED <<policies, fence, device, badge, premiumRule, day, exception>>

PutPremiumRule(p, row) ==
  /\ premiumRule' = [premiumRule EXCEPT ![p] = row]
  /\ UNCHANGED <<policies, fence, device, badge, holiday, day, exception>>

----------------------------------------------------------------------------
\* What a punch is checked against.

AtLeast0(n) == IF n > 0 THEN n ELSE 0
Distance(a, b) == IF a > b THEN a - b ELSE b - a

ActiveDevice(d) == d \in Device /\ device[d] # NotMade /\ device[d].status = "ACTIVE"
GeofenceCandidates(d, linked) ==
  {f \in Fence :
     /\ fence[f] # NotMade /\ fence[f].status = "ACTIVE"
     /\ \/ fence[f].scope = "any"
        \/ fence[f].scope = "shift" /\ linked
        \/ ActiveDevice(d) /\ device[d].fence = f}

\* Only the fence whose centre is nearest counts, whichever if several are.
Nearest(fences, at) ==
  {f \in fences : \A g \in fences : Distance(at, fence[f].centre) <= Distance(at, fence[g].centre)}

Outside(f, at) == Distance(at, fence[f].centre) > fence[f].radius

DeviceBlocks(policy, e, source, d) ==
  \/ source = "KIOSK" /\ ~(ActiveDevice(d) /\ device[d].kiosk)
  \/ "requireKnownDevice" \in policy.setting /\ ~ActiveDevice(d)
  \/ ActiveDevice(d) /\ device[d].holder \notin {NotMade, e}

DeviceWarns(d) == d # NoDevice /\ ~ActiveDevice(d)

FenceBlocks(policy, d, at, fences) ==
  /\ "requireGeofence" \in policy.setting
  /\ \/ fences = {}
     \/ at = NoSpot /\ ~(ActiveDevice(d) /\ device[d].fence # NotMade)

SourceBlocks(policy, source) ==
  \/ source = "WEB" /\ "noWeb" \in policy.setting
  \/ source = "KIOSK" /\ "noKiosk" \in policy.setting
  \/ source = "MANUAL" /\ "noManual" \in policy.setting

ScheduleBlocks(policy, linked) == "requireSchedule" \in policy.setting /\ ~linked

ClockRangeBlocks(in, out) == in # NoTime /\ out # NoTime /\ ((out <= in) \/ (out - in > MaxShift))

----------------------------------------------------------------------------
\* The minutes of a record, and what they are worth.

Grace(policy) == IF "lenient" \in policy.setting THEN 1 ELSE 0

Metrics(policy, linked, in, out, pause) ==
  LET actual == IF in # NoTime /\ out # NoTime THEN AtLeast0(out - in) ELSE 0
      threshold == IF "dailyOvertime" \in policy.setting THEN DailyHours
                   ELSE IF linked THEN ShiftEnd - ShiftStart ELSE actual
  IN [late |-> IF linked /\ in # NoTime THEN AtLeast0(AtLeast0(in - ShiftStart) - Grace(policy)) ELSE 0,
      early |-> IF linked /\ out # NoTime THEN AtLeast0(AtLeast0(ShiftEnd - out) - Grace(policy)) ELSE 0,
      over |-> AtLeast0(AtLeast0(actual - pause) - threshold)]

Payable(row) ==
  IF row.in # NoTime /\ row.out # NoTime THEN AtLeast0(AtLeast0(row.out - row.in) - row.pause) ELSE 0

StartOfDay(t) == (t \div DayLength) * DayLength

\* From the day before the start to two days after the end; to forget the day
\* before is a bug.
DaysFromStart(in, out) ==
  {StartOfDay(in) + k * DayLength : k \in 0..((StartOfDay(out) - StartOfDay(in)) \div DayLength + 2)}

DaysAround(in, out) == DaysFromStart(in, out) \cup {StartOfDay(in) - DayLength}

\* A window that does not end after its start ends on the next day.
WindowOverlap(in, out, from, to) ==
  MapThenSumSet(LAMBDA d :
      LET start == d + from
          end == IF to > from THEN d + to ELSE d + DayLength + to
      IN AtLeast0(Min({out, end}) - Max({in, start})),
    DaysAround(in, out))

RuleApplies(rule, row) ==
  rule.status = "ACTIVE" /\ (rule.days # {} => (row.in \div DayLength) \in rule.days)

PremiumMinutes(rule, row) ==
  IF rule.from # NoTime /\ rule.to # NoTime
  THEN Min({Payable(row), WindowOverlap(row.in, row.out, rule.from, rule.to)})
  ELSE Payable(row)

HolidayApplies(h, row) == h.status = "ACTIVE" /\ h.paid /\ h.day = row.in \div DayLength

\* Every holiday and every rule adds its own minutes.
CalculatePayrollPremium(row) ==
  MapThenSumSet(LAMBDA h : IF holiday[h] # NotMade /\ HolidayApplies(holiday[h], row) THEN Payable(row) ELSE 0, Holiday)
  + MapThenSumSet(LAMBDA p : IF premiumRule[p] # NotMade /\ RuleApplies(premiumRule[p], row)
                             THEN PremiumMinutes(premiumRule[p], row) ELSE 0, PremiumRule)

----------------------------------------------------------------------------
\* Exceptions.  One that is there takes the new minutes, however it was decided;
\* nothing takes one away when the record is corrected.

Minutes(row, kind) ==
  CASE kind = "LATE_ARRIVAL" -> row.late
    [] kind = "EARLY_DEPARTURE" -> row.early
    [] kind = "OVERTIME" -> row.over
    [] kind = "UNSCHEDULED_WORK" -> IF row.out = NoTime THEN 0 ELSE AtLeast0(row.out - row.in)
    [] OTHER -> 0

ExceptionOf(r, row, kind) == [about |-> r, employee |-> row.employee, linked |-> row.linked, kind |-> kind]

Upserted(exceptions, k, minutes) ==
  [j \in {k} \cup DOMAIN exceptions |->
     IF j # k THEN exceptions[j]
     ELSE IF k \in DOMAIN exceptions THEN [exceptions[k] EXCEPT !.minutes = minutes]
     ELSE [status |-> "OPEN", minutes |-> minutes]]

Problems(row) ==
  {kind \in {"LATE_ARRIVAL", "EARLY_DEPARTURE", "OVERTIME"} : Minutes(row, kind) > 0}
  \cup (IF ~row.linked /\ row.in # NoTime THEN {"UNSCHEDULED_WORK"} ELSE {})

\* Every problem's exception is written; to leave those decided alone is a bug.
UpsertedUndecided(exceptions, r, row, kinds) ==
  LET keys == {k \in {ExceptionOf(r, row, kind) : kind \in kinds} :
                 k \in DOMAIN exceptions => exceptions[k].status = "OPEN"}
  IN [k \in keys \cup DOMAIN exceptions |->
        IF k \in keys THEN Upserted(exceptions, k, Minutes(row, k.kind))[k] ELSE exceptions[k]]

UpsertedAll(exceptions, r, row, kinds) ==
  LET keys == {ExceptionOf(r, row, kind) : kind \in kinds}
  IN [k \in keys \cup DOMAIN exceptions |->
        IF k \in keys THEN Upserted(exceptions, k, Minutes(row, k.kind))[k] ELSE exceptions[k]]

SyncRecordExceptions(exceptions, r, row) == UpsertedAll(exceptions, r, row, Problems(row))

----------------------------------------------------------------------------
\* Punches.

OpenRecord(e) == {r \in DayRecord : day[r] # NotMade /\ day[r].employee = e /\ day[r].out = NoTime}

NewDay(e, linked, p) ==
  [employee |-> e, linked |-> linked, in |-> NoTime, out |-> NoTime, pause |-> 0,
   late |-> 0, early |-> 0, over |-> 0, policy |-> p, synced |-> FALSE]

\* The employee's open record, or a new one.
RecordFor(e, r, linked) ==
  IF OpenRecord(e) # {} THEN r \in OpenRecord(e) ELSE day[r] = NotMade

Allowed(policy, e, source, d, at, linked, clockingIn) ==
  LET fences == GeofenceCandidates(d, linked) IN
  /\ ~DeviceBlocks(policy, e, source, d) /\ ~FenceBlocks(policy, d, at, fences)
  /\ ~SourceBlocks(policy, source) /\ (clockingIn => ~ScheduleBlocks(policy, linked))

ControlProblems(policy, d, at, linked, outside) ==
  (IF outside /\ "blockOutside" \notin policy.setting THEN {"OUTSIDE_GEOFENCE"} ELSE {})
  \cup (IF DeviceWarns(d) THEN {"UNAPPROVED_LOCATION"} ELSE {})

Timed(row, policy, in, out) ==
  LET m == Metrics(policy, row.linked, in, out, row.pause)
  IN [row EXCEPT !.in = in, !.out = out, !.late = m.late, !.early = m.early, !.over = m.over,
                 !.synced = (out # NoTime)]

RecordPunch(e, r, source, d, at, linked, clockingIn, t) ==
  /\ \E p \in PolicyInForce :
       LET policy == EnsureActivePolicy[p]
           fences == GeofenceCandidates(d, linked)
           kept == IF day[r] = NotMade THEN NewDay(e, linked, p) ELSE day[r]
           row == IF clockingIn THEN Timed(kept, policy, t, NoTime) ELSE Timed(kept, policy, kept.in, t)
           listed == IF clockingIn THEN exception ELSE SyncRecordExceptions(exception, r, row)
       IN /\ RecordFor(e, r, linked)
          /\ Allowed(policy, e, source, d, at, linked, clockingIn)
          /\ IF clockingIn THEN kept.in = NoTime ELSE kept.in # NoTime /\ ~ClockRangeBlocks(kept.in, t)
          /\ \E outside \in IF fences = {} \/ at = NoSpot THEN {FALSE}
                            ELSE {Outside(f, at) : f \in Nearest(fences, at)} :
               /\ ~(outside /\ "blockOutside" \in policy.setting)
               /\ exception' = UpsertedAll(listed, r, row, ControlProblems(policy, d, at, linked, outside))
          /\ day' = [day EXCEPT ![r] = row]
  /\ policies' = EnsureActivePolicy
  /\ UNCHANGED <<fence, device, badge, holiday, premiumRule>>

Punches(e, r, source, d, at, linked, t) ==
  \E clockingIn \in BOOLEAN : RecordPunch(e, r, source, d, at, linked, clockingIn, t)

\* The badge says whose punch it is; the PIN is taken to be right.
KioskPunch(b, r, d, at, linked, t) ==
  /\ badge[b] # NotMade /\ badge[b].status = "ACTIVE" /\ ~badge[b].expired
  /\ Punches(badge[b].holder, r, "KIOSK", d, at, linked, t)

----------------------------------------------------------------------------
\* Other writes to records and exceptions.

\* What a manual record and an approved correction write, of a new record or one there is.
Adjusted(e, r, p, policy, linked, in, out, pause) ==
  LET m == Metrics(policy, linked, in, out, pause)
      row == [employee |-> e, linked |-> linked, in |-> in, out |-> out, pause |-> pause,
              late |-> m.late, early |-> m.early, over |-> m.over, policy |-> p, synced |-> TRUE]
  IN /\ day[r] # NotMade => day[r].employee = e
     /\ ~SourceBlocks(policy, "MANUAL") /\ ~ScheduleBlocks(policy, linked) /\ ~ClockRangeBlocks(in, out)
     /\ day' = [day EXCEPT ![r] = row]
     /\ exception' = SyncRecordExceptions(exception, r, row)
     /\ UNCHANGED <<fence, device, badge, holiday, premiumRule>>

ManualRecord(e, r, linked, in, out, pause) ==
  /\ \E p \in PolicyInForce : Adjusted(e, r, p, EnsureActivePolicy[p], linked, in, out, pause)
  /\ policies' = EnsureActivePolicy

\* A correction goes by the policy that was in force when it was requested, any made.
ApplyCorrection(e, r, p, linked, in, out, pause) ==
  /\ Adjusted(e, r, p, policies[p], linked, in, out, pause)
  /\ UNCHANGED policies

\* Reconciliation links a record to the shift, by the record's own policy, and
\* lists nothing.
Relink(r) ==
  /\ day[r] # NotMade /\ ~day[r].linked
  /\ LET m == Metrics(policies[day[r].policy], TRUE, day[r].in, day[r].out, day[r].pause)
     IN day' = [day EXCEPT ![r] = [@ EXCEPT !.linked = TRUE, !.late = m.late, !.early = m.early,
                                            !.over = m.over, !.synced = FALSE]]
  /\ UNCHANGED <<ruleVars, exception>>

\* Timesheet generation lists a shift without a record.
MissedClockIn(e) ==
  /\ \A r \in DayRecord : day[r] # NotMade => ~(day[r].employee = e /\ day[r].linked)
  /\ exception' = Upserted(exception,
       [about |-> NotMade, employee |-> e, linked |-> TRUE, kind |-> "MISSED_CLOCK_IN"], 0)
  /\ UNCHANGED <<ruleVars, day>>

DecideException(k, status) ==
  /\ exception' = [exception EXCEPT ![k].status = status]
  /\ UNCHANGED <<ruleVars, day>>

----------------------------------------------------------------------------
AdminNext ==
  \/ \E setting \in PolicyInput, status \in {"DRAFT", "ACTIVE", "ARCHIVED"} :
       \/ CreatePolicy(setting, status)
       \/ \E p \in DOMAIN policies : UpdatePolicy(p, setting, status)
  \/ \E p \in DOMAIN policies : ActivatePolicy(p)
  \/ \E f \in Fence, row \in FenceInput : PutGeofence(f, row)
  \/ \E d \in Device, row \in DeviceInput : PutClockDevice(d, row)
  \/ \E b \in Badge, e \in Puncher, status \in BadgeStatus : PutKioskCredential(b, e, status)
  \/ \E b \in Badge : CredentialExpires(b)
  \/ \E h \in Holiday, row \in HolidayInput : PutHoliday(h, row)
  \/ \E p \in PremiumRule, row \in RuleInput : PutPremiumRule(p, row)

PunchNext ==
  \E r \in DayRecord, d \in Device \cup {NoDevice, Unregistered}, at \in Spot \cup {NoSpot},
     linked \in BOOLEAN, t \in Hour :
    \/ \E e \in Puncher : Punches(e, r, "WEB", d, at, linked, t)
    \/ \E b \in Badge : KioskPunch(b, r, d, at, linked, t)

RecordNext ==
  \/ \E e \in Puncher, r \in DayRecord, linked \in BOOLEAN, in, out \in Hour \cup {NoTime}, pause \in 0..1 :
       \/ ManualRecord(e, r, linked, in, out, pause)
       \/ \E p \in DOMAIN policies : ApplyCorrection(e, r, p, linked, in, out, pause)
  \/ \E r \in DayRecord : Relink(r)
  \/ \E e \in Puncher : MissedClockIn(e)
  \/ \E k \in DOMAIN exception, status \in DecisionStatus : DecideException(k, status)

ControlsNext == AdminNext \/ PunchNext \/ RecordNext

ControlsSpec == ControlsInit /\ [][ControlsNext]_controlVars

----------------------------------------------------------------------------
(***************************************************************************)
(* A record written last by a clock-out, a manual entry or a correction has *)
(* for every minute it is late, early or over, and for work outside any     *)
(* shift, an exception with just these minutes, whatever was decided before *)
(* of one with other minutes (syncRecordExceptions, upsertException).        *)
(***************************************************************************)
ProblemsListed ==
  \A r \in DayRecord : day[r] # NotMade /\ day[r].synced =>
    \A kind \in Problems(day[r]) :
      LET k == ExceptionOf(r, day[r], kind)
      IN k \in DOMAIN exception /\ exception[k].minutes = Minutes(day[r], kind)

(***************************************************************************)
(* A premium with a window pays the hours worked inside it and no others,    *)
(* also when the window or the work runs past midnight, and never more than *)
(* the payable time (premiumRuleMinutes, timeWindowOverlapMinutes).          *)
(***************************************************************************)
InWindow(rule, t) ==
  LET hour == t % DayLength
  IN IF rule.to > rule.from THEN rule.from <= hour /\ hour < rule.to
     ELSE rule.from <= hour \/ hour < rule.to

PremiumPaysWindow ==
  \A r \in DayRecord, p \in PremiumRule :
    day[r] # NotMade /\ day[r].in # NoTime /\ day[r].out # NoTime /\ premiumRule[p] # NotMade
      /\ premiumRule[p].from # NoTime /\ premiumRule[p].to # NoTime =>
        PremiumMinutes(premiumRule[p], day[r]) =
          Min({Payable(day[r]), Cardinality({t \in day[r].in..(day[r].out - 1) : InWindow(premiumRule[p], t)})})
=============================================================================
