----------------------------- MODULE ScheduleRules -----------------------------
(***************************************************************************)
(* The rules that scheduling/scheduling.service.ts plans by: schedule         *)
(* policies, of which one is active, shift templates, the overtime that a     *)
(* planned shift is given, and requests for overtime.                         *)
(*                                                                         *)
(* One employee and one week, in hours.  Each handler is one action; open     *)
(* shifts, swaps, periods and handlers that overlap are in Scheduling.        *)
(* Weekend overtime, multipliers, time zones and COMPLETED shifts are left out. *)
(***************************************************************************)
EXTENDS Integers, Sequences, FiniteSets, FiniteSetsExt, Functions

CONSTANTS ShiftTemplate,       \* WorkShift ids
          Turn,                \* ScheduleAssignment ids
          OvertimeAsk,         \* OvertimeRequest ids
          ScheduleInput,       \* what policies ask for
          ShiftInput,
          BreakInput,          \* breaks that are asked for with a shift
          ClockLength,         \* hours of a day
          WeekEnd,             \* hours of the week
          RegionHasOvertime,   \* the tenant's country is none of AFRICA_ISO2
          TurnsStayCancelled,  \* bound: no cancelled shift is revived
          MaxSchedulePolicies, \* bound: policies created
          Unplanned

OvertimeMode == {"DISABLED", "DAILY", "WEEKLY", "DAILY_AND_WEEKLY", "CUSTOM"}
OvertimeStatus == {"REQUESTED", "APPROVED", "REJECTED", "CANCELLED", "COMPLETED"}
WeekHour == 0..WeekEnd

\* asks: overtime needs an approval; byManager, byHr: who may plan shifts.
PolicyRules == [mode : OvertimeMode, perDay : Nat, perWeek : Nat, asks : BOOLEAN, byManager : BOOLEAN, byHr : BOOLEAN]
SchedulePolicyRow == [status : {"DRAFT", "ACTIVE", "ARCHIVED"}, rules : PolicyRules, default : BOOLEAN]
ShiftTemplateRow == [start : 0..ClockLength, end : 0..ClockLength, pause : Nat, eligible : BOOLEAN]
\* rules and eligible: what the overtime of the shift was worked out by.
TurnRow == [shift : ShiftTemplate \cup {Unplanned}, policy : Nat \ {0}, start : WeekHour, end : WeekHour,
            pause : Nat, live : BOOLEAN, eligible : BOOLEAN, rules : PolicyRules, overtime : Nat]

ASSUME ScheduleRulesAssumption ==
  /\ IsFiniteSet(Turn)
  /\ ScheduleInput \subseteq PolicyRules /\ ShiftInput \subseteq ShiftTemplateRow
  /\ BreakInput \subseteq Nat
  /\ {RegionHasOvertime, TurnsStayCancelled} \subseteq BOOLEAN
  /\ ClockLength \in Nat \ {0} /\ {WeekEnd, MaxSchedulePolicies} \subseteq Nat

VARIABLES schedulePolicies, \* SchedulePolicy rows in order of creation
          shiftTemplate,    \* WorkShift rows, with the duration worked out for them
          turn,             \* ScheduleAssignment rows of the employee
          overtimeAsk       \* OvertimeRequest.status

scheduleRuleVars == <<schedulePolicies, shiftTemplate, turn, overtimeAsk>>

ScheduleRulesTypeOK ==
  /\ schedulePolicies \in Seq(SchedulePolicyRow)
  /\ shiftTemplate \in [ShiftTemplate -> [row : ShiftTemplateRow, duration : Nat, crosses : BOOLEAN] \cup {Unplanned}]
  /\ turn \in [Turn -> TurnRow \cup {Unplanned}]
  /\ overtimeAsk \in [OvertimeAsk -> OvertimeStatus \cup {Unplanned}]

ScheduleRulesInit ==
  /\ schedulePolicies = <<>>
  /\ shiftTemplate = [s \in ShiftTemplate |-> Unplanned]
  /\ turn = [t \in Turn |-> Unplanned]
  /\ overtimeAsk = [o \in OvertimeAsk |-> Unplanned]

----------------------------------------------------------------------------
\* Policies.

ActiveSchedulePolicies == {p \in DOMAIN schedulePolicies : schedulePolicies[p].status = "ACTIVE"}

\* The others are archived when a policy becomes active.
OthersArchived(status) ==
  IF status # "ACTIVE" THEN schedulePolicies
  ELSE [p \in DOMAIN schedulePolicies |->
          IF p \in ActiveSchedulePolicies THEN [schedulePolicies[p] EXCEPT !.status = "ARCHIVED"]
          ELSE schedulePolicies[p]]

CreateSchedulePolicy(rules, status) ==
  /\ Len(schedulePolicies) < MaxSchedulePolicies
  /\ schedulePolicies' = Append(OthersArchived(status), [status |-> status, rules |-> rules, default |-> FALSE])
  /\ UNCHANGED <<shiftTemplate, turn, overtimeAsk>>

\* Activating and archiving a policy are updates of its status.
UpdateSchedulePolicy(p, rules, status) ==
  /\ schedulePolicies' = [OthersArchived(status) EXCEPT ![p].rules = rules, ![p].status = status]
  /\ UNCHANGED <<shiftTemplate, turn, overtimeAsk>>

DefaultPolicy ==
  [status |-> "ACTIVE", default |-> TRUE,
   rules |-> [mode |-> IF RegionHasOvertime THEN "DAILY_AND_WEEKLY" ELSE "DISABLED",
              perDay |-> 8, perWeek |-> 40, asks |-> TRUE, byManager |-> TRUE, byHr |-> TRUE]]

\* The policies after a look for the active one, which makes a default when
\* there is none; its code is unique, so that it is made only once.
Ensured == IF ActiveSchedulePolicies = {} THEN Append(schedulePolicies, DefaultPolicy) ELSE schedulePolicies
CanEnsure == ActiveSchedulePolicies # {} \/ \A p \in DOMAIN schedulePolicies : ~schedulePolicies[p].default

\* Lists and summaries look for the active policy too.
EnsureActiveSchedulePolicy ==
  /\ CanEnsure /\ schedulePolicies' = Ensured
  /\ UNCHANGED <<shiftTemplate, turn, overtimeAsk>>

\* The policy that a handler goes by: the one it names, 0 for none, else the active one.
GoesBy(named, p) ==
  \/ named # 0 /\ p = named /\ UNCHANGED schedulePolicies
  \/ /\ named = 0 /\ CanEnsure /\ schedulePolicies' = Ensured
     /\ p \in DOMAIN Ensured /\ Ensured[p].status = "ACTIVE"

----------------------------------------------------------------------------
\* Shift templates: an end that is not after the start is on the next day.

Crosses(row) == row.end <= row.start
Duration(row) == (IF Crosses(row) THEN row.end + ClockLength ELSE row.end) - row.start

PutShift(s, row) ==
  /\ Duration(row) > 0 /\ row.pause <= Duration(row)
  /\ shiftTemplate' = [shiftTemplate EXCEPT ![s] = [row |-> row, duration |-> Duration(row), crosses |-> Crosses(row)]]
  /\ UNCHANGED <<schedulePolicies, turn, overtimeAsk>>

----------------------------------------------------------------------------
\* Planned shifts and their overtime.

Above0(n) == IF n > 0 THEN n ELSE 0
Worked(row) == Above0(row.end - row.start - row.pause)
LiveTurns == {t \in Turn : turn[t] # Unplanned /\ turn[t].live}
HoursOf(turns) == SumFunction([t \in turns |-> Worked(turn[t])])

\* Mutant: only what is worked before the shift counts.
EarlierOfWeek(t, row) == {u \in LiveTurns \ {t} : turn[u].start < row.start}

\* The others of the week, whenever they are and whenever they were planned.
OthersOfWeek(t, row) == LiveTurns \ {t}

CalculateOvertime(t, row, rules) ==
  LET daily == Above0(Worked(row) - rules.perDay)
      weekly == Above0(HoursOf(OthersOfWeek(t, row)) + Worked(row) - rules.perWeek)
  IN CASE rules.mode = "DISABLED" -> 0
       [] rules.mode = "DAILY" -> daily
       [] rules.mode = "WEEKLY" -> weekly
       [] OTHER -> Max({daily, weekly})

Conflicts(t, start, end) ==
  \E u \in LiveTurns \ {t} : turn[u].start < end /\ start < turn[u].end

\* s: the template of the shift, and sent: the break asked for, Unplanned for none.
Planned(t, s, p, rules, start, end, sent, pause, live) ==
  LET row == [shift |-> s, policy |-> p, start |-> start, end |-> end,
              pause |-> CASE sent # Unplanned -> sent
                          [] sent = Unplanned /\ s # Unplanned -> shiftTemplate[s].row.pause
                          [] sent = Unplanned /\ s = Unplanned -> pause,
              live |-> live,
              eligible |-> s = Unplanned \/ shiftTemplate[s].row.eligible,
              rules |-> rules, overtime |-> 0]
  IN [row EXCEPT !.overtime = IF row.eligible THEN CalculateOvertime(t, row, rules) ELSE 0]

PlanTurn(t, s, named, start, end, sent, planner) ==
  /\ turn[t] = Unplanned /\ end > start
  /\ s # Unplanned => shiftTemplate[s] # Unplanned
  /\ ~Conflicts(t, start, end)
  /\ \E p \in 1..(Len(schedulePolicies) + 1) :
       /\ GoesBy(named, p)
       /\ planner = "MANAGER" => schedulePolicies'[p].rules.byManager
       /\ planner = "HR_MANAGER" => schedulePolicies'[p].rules.byHr
       /\ turn' = [turn EXCEPT ![t] = Planned(t, s, p, schedulePolicies'[p].rules, start, end, sent, 0, TRUE)]
  /\ UNCHANGED <<shiftTemplate, overtimeAsk>>

\* A shift that is off keeps its shape, and is worked out again all the same.
UpdateTurn(t, s, named, start, end, sent) ==
  /\ turn[t] # Unplanned /\ end > start
  /\ ~turn[t].live => <<s, start, end>> = <<turn[t].shift, turn[t].start, turn[t].end>>
  /\ s # Unplanned => shiftTemplate[s] # Unplanned
  /\ turn[t].shift # Unplanned => s # Unplanned
  /\ ~Conflicts(t, start, end)
  /\ LET p == IF named # 0 THEN named ELSE turn[t].policy
     IN turn' = [turn EXCEPT ![t] =
          Planned(t, s, p, schedulePolicies[p].rules, start, end, sent, turn[t].pause, turn[t].live)]
  /\ UNCHANGED <<schedulePolicies, shiftTemplate, overtimeAsk>>

\* Its overtime stays as it was, also of one that is revived.
UpdateTurnStatus(t, live) ==
  /\ turn[t] # Unplanned
  /\ TurnsStayCancelled /\ live => turn[t].live
  /\ turn' = [turn EXCEPT ![t].live = live]
  /\ UNCHANGED <<schedulePolicies, shiftTemplate, overtimeAsk>>

----------------------------------------------------------------------------
\* Requests for overtime, decided whatever has been decided before.

RequestOvertime(o, named) ==
  /\ overtimeAsk[o] = Unplanned
  /\ \E p \in 1..(Len(schedulePolicies) + 1) :
       /\ GoesBy(named, p)
       /\ schedulePolicies'[p].rules.mode # "DISABLED"
       /\ overtimeAsk' = [overtimeAsk EXCEPT ![o] =
            IF schedulePolicies'[p].rules.asks THEN "REQUESTED" ELSE "APPROVED"]
  /\ UNCHANGED <<shiftTemplate, turn>>

DecideOvertime(o, status) ==
  /\ overtimeAsk[o] # Unplanned
  /\ overtimeAsk' = [overtimeAsk EXCEPT ![o] = status]
  /\ UNCHANGED <<schedulePolicies, shiftTemplate, turn>>

----------------------------------------------------------------------------

SchedulePolicyNext ==
  \/ \E rules \in ScheduleInput, status \in {"DRAFT", "ACTIVE", "ARCHIVED"} :
       \/ CreateSchedulePolicy(rules, status)
       \/ \E p \in DOMAIN schedulePolicies : UpdateSchedulePolicy(p, rules, status)
  \/ EnsureActiveSchedulePolicy

TurnNext ==
  \/ \E s \in ShiftTemplate, row \in ShiftInput : PutShift(s, row)
  \/ \E t \in Turn, s \in ShiftTemplate \cup {Unplanned}, named \in {0} \cup DOMAIN schedulePolicies,
        start, end \in WeekHour, sent \in BreakInput \cup {Unplanned} :
       \/ \E planner \in {"MANAGER", "HR_MANAGER", "SYSTEM"} : PlanTurn(t, s, named, start, end, sent, planner)
       \/ UpdateTurn(t, s, named, start, end, sent)
  \/ \E t \in Turn, live \in BOOLEAN : UpdateTurnStatus(t, live)

OvertimeNext ==
  \/ \E o \in OvertimeAsk, named \in {0} \cup DOMAIN schedulePolicies : RequestOvertime(o, named)
  \/ \E o \in OvertimeAsk, status \in OvertimeStatus : DecideOvertime(o, status)

ScheduleRulesNext == SchedulePolicyNext \/ TurnNext \/ OvertimeNext

ScheduleRulesSpec == ScheduleRulesInit /\ [][ScheduleRulesNext]_scheduleRuleVars

----------------------------------------------------------------------------

\* As long as the shifts of a week were worked out by the same rules with a
\* weekly limit, their overtime is at least what the week exceeds it by, in
\* whatever order they were planned, moved and taken off.  (It may be more:
\* each shift past the limit is given all of the excess.)
WeekOvertimeCovered ==
  \A rules \in {turn[t].rules : t \in LiveTurns} :
    /\ rules.mode \in {"WEEKLY", "DAILY_AND_WEEKLY", "CUSTOM"}
    /\ \A t \in LiveTurns : turn[t].rules = rules /\ turn[t].eligible
    => HoursOf(LiveTurns) - rules.perWeek <= SumFunction([t \in LiveTurns |-> turn[t].overtime])
=============================================================================
