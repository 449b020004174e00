------------------------------- MODULE Staffing -------------------------------
(***************************************************************************)
(* Employments, positions and the dated assignments between them:           *)
(* positions/positions.service.ts, assignments/assignments.service.ts and   *)
(* the transitions of employees/employees.service.ts.                       *)
(*                                                                         *)
(* Each handler is one transaction and one action: what transactions that   *)
(* overlap do to each other is not modelled.  Times are days, the window of *)
(* an assignment is [from, to), and no end is the day Forever.              *)
(* Organization nodes, cost centers, grades, levels and skills are left out. *)
(***************************************************************************)
EXTENDS Integers, FiniteSets

CONSTANTS Person,       \* employees
          SameHuman(_, _), \* employees that are records of one person
          Leader,       \* those designated to manage, on every day
          PositionId, PlacementId,
          LastDay,
          PlacementInput, \* assignments that requests ask for
          BudgetInput,  \* head counts that requests ask for
          EndsExtend,   \* FALSE: endAssignment only brings an end forward
          Overrides,    \* what requests send as allowOverBudget, allowUnderBudget
          NoManager, NoPosition, NoRecord

Day == 0 .. LastDay
Forever == LastDay + 1

PlacementRow == [employee : Person, position : PositionId \cup {NoPosition},
                 manager : Person \cup {NoManager}, from : Day, to : Day \cup {Forever},
                 isPrimary : BOOLEAN]

EmployeeStatus == {"PREBOARDING", "ACTIVE", "PROBATION", "SUSPENDED",
                   "SEPARATED", "RETIRED", "ALUMNI", "ARCHIVED"}
EmployeeRow == [status : EmployeeStatus, deleted : BOOLEAN, imported : BOOLEAN, rolledBack : BOOLEAN]
PositionStatus == {"DRAFT", "ACTIVE", "FROZEN", "CLOSED", "ARCHIVED"}
PositionRow == [status : PositionStatus, deleted : BOOLEAN, budget : Nat \ {0},
                reportsTo : PositionId \cup {NoPosition}]

ASSUME StaffingAssumption ==
  /\ LastDay \in Nat /\ Leader \subseteq Person /\ PlacementInput \subseteq PlacementRow
  /\ \A row \in PlacementInput : row.from < row.to
  /\ BudgetInput \subseteq Nat \ {0} /\ EndsExtend \in BOOLEAN /\ Overrides \subseteq BOOLEAN
  /\ NoManager \notin Person /\ NoPosition \notin PositionId
  /\ NoRecord \notin PositionRow /\ IsFiniteSet(PlacementId)

VARIABLES employee,   \* Employee rows
          position,   \* Position rows
          placement,  \* EmployeeAssignment rows
          today

staffingVars == <<employee, position, placement, today>>

StaffingTypeOK ==
  /\ employee \in [Person -> EmployeeRow \cup {NoRecord}]
  /\ position \in [PositionId -> PositionRow \cup {NoRecord}]
  /\ placement \in [PlacementId -> PlacementRow \cup {NoRecord}]
  /\ \A a \in PlacementId : placement[a] # NoRecord => placement[a].from < placement[a].to
  /\ today \in Day

StaffingInit ==
  /\ employee = [e \in Person |-> NoRecord]
  /\ position = [p \in PositionId |-> NoRecord]
  /\ placement = [a \in PlacementId |-> NoRecord]
  /\ today = 0

Placements == {a \in PlacementId : placement[a] # NoRecord}
Current(p) == p \in PositionId /\ position[p] # NoRecord /\ ~position[p].deleted

\* activeAssignmentWhere and overlapWhere.
ActiveOn(a, d) == placement[a].from <= d /\ d < placement[a].to

\* Mutant: an assignment that begins on the day another begins is missed.
OverlapsLater(a, w) == placement[a].from < w.from /\ w.from < placement[a].to
Overlaps(a, w) == placement[a].from < w.to /\ w.from < placement[a].to

----------------------------------------------------------------------------
\* Employments.

TerminalEmployment == {"SEPARATED", "RETIRED", "ALUMNI", "ARCHIVED"}
Employed(e) == employee[e] # NoRecord /\ ~employee[e].deleted

\* findEmployeeForAssignment.
Assignable(e) == Employed(e) /\ employee[e].status \notin TerminalEmployment

\* assertNoConcurrentEmployment; rehireEmployee does not ask it.
CreateEmployee(e, st, imported) ==
  /\ employee[e] = NoRecord
  /\ \A f \in Person : SameHuman(e, f) => ~Assignable(f)
  /\ employee' = [employee EXCEPT
       ![e] = [status |-> st, deleted |-> FALSE, imported |-> imported, rolledBack |-> FALSE]]
  /\ UNCHANGED <<position, placement, today>>

\* hire, confirm, suspend, reinstate, separate, retire and markAlumni.
Transition ==
  ({"PREBOARDING"} \X {"ACTIVE", "PROBATION"})
  \cup ({"PREBOARDING", "PROBATION", "ACTIVE"} \X {"ACTIVE"})
  \cup ({"ACTIVE", "PROBATION"} \X {"SUSPENDED"})
  \cup ({"SUSPENDED"} \X {"ACTIVE", "PROBATION"})
  \cup ((EmployeeStatus \ TerminalEmployment) \X {"SEPARATED", "RETIRED"})
  \cup ({"SEPARATED", "RETIRED"} \X {"ALUMNI"})

TransitionEmployee(e, st) ==
  /\ Employed(e) /\ <<employee[e].status, st>> \in Transition
  /\ employee' = [employee EXCEPT ![e].status = st]
  /\ UNCHANGED <<position, placement, today>>

\* The only transition that also finds an employee who was archived.
RehireEmployee(e, st) ==
  /\ employee[e] # NoRecord /\ employee[e].status \in TerminalEmployment
  /\ st \in {"PREBOARDING", "ACTIVE", "PROBATION"}
  /\ employee' = [employee EXCEPT ![e].status = st, ![e].deleted = FALSE]
  /\ UNCHANGED <<position, placement, today>>

Archived(e, rolledBack) ==
  /\ employee' = [employee EXCEPT ![e].status = "ARCHIVED", ![e].deleted = TRUE,
                                  ![e].rolledBack = @ \/ rolledBack]
  /\ UNCHANGED <<position, placement, today>>

\* Mutant: what is to come is not looked at.
OpenEndedToday(e) == {a \in Placements : placement[a].employee = e /\ placement[a].to = Forever
                                         /\ ActiveOn(a, today)}
\* assertNoActiveAssignments asks for assignments without an end only.
OpenEnded(e) == {a \in Placements : placement[a].employee = e /\ placement[a].to = Forever}

\* archiveEmployee and deleteEmployee.
ArchiveEmployee(e) ==
  /\ Employed(e) /\ employee[e].status \in {"SEPARATED", "RETIRED", "ALUMNI"}
  /\ OpenEnded(e) = {}
  /\ Archived(e, FALSE)

\* rollbackEmployeeImportBatch asks for those that run today, whatever the status.
RollbackEmployee(e) ==
  /\ Employed(e) /\ employee[e].imported
  /\ \A a \in Placements : placement[a].employee = e => ~ActiveOn(a, today)
  /\ Archived(e, TRUE)

----------------------------------------------------------------------------
\* Positions.

Reports(q, boss) == Current(q) /\ position[q].reportsTo = boss

\* The positions above p, p included, as far as deletedAt lets the walk go:
\* those in every set that has p and the superiors of its members.
ReportingLine(p) ==
  {q \in PositionId : \A S \in SUBSET PositionId :
     p \in S /\ (\A r \in S, boss \in PositionId : Reports(r, boss) => boss \in S) => q \in S}

\* Mutant: only the direct superior is compared.
ReportsToOther(p, boss) ==
  boss # NoPosition => Current(boss) /\ position[boss].status # "ARCHIVED" /\ p # boss

SuperiorOK(boss) == boss # NoPosition => Current(boss) /\ position[boss].status # "ARCHIVED"

\* A circle that the walk comes upon is refused too.
ReportsToOK(p, boss) ==
  /\ SuperiorOK(boss)
  /\ boss # NoPosition =>
       /\ p \notin ReportingLine(boss)
       /\ \A q \in ReportingLine(boss), r \in PositionId : Reports(q, r) => q \notin ReportingLine(r)

OpenOn(p) == {a \in Placements : placement[a].position = p /\ placement[a].to > today}

CanClose(p) ==
  /\ OpenOn(p) = {}
  /\ \A q \in PositionId : Current(q) /\ position[q].reportsTo = p => position[q].status = "ARCHIVED"

CreatePosition(p, st, budget, boss) ==
  /\ position[p] = NoRecord /\ SuperiorOK(boss)
  /\ position' = [position EXCEPT
       ![p] = [status |-> st, deleted |-> FALSE, budget |-> budget, reportsTo |-> boss]]
  /\ UNCHANGED <<employee, placement, today>>

\* The superior may be sent or not, and the status too: AsItWas for none, which
\* asks nothing of a position that is closed.  allowUnderBudget skips the
\* comparison with the occupancy of today.
AsItWas == "AS_IT_WAS"

UpdatePosition(p, st, budget, boss, allowUnderBudget) ==
  /\ Current(p) /\ ReportsToOK(p, boss)
  /\ budget # position[p].budget /\ ~allowUnderBudget =>
       Cardinality({a \in Placements : placement[a].position = p /\ placement[a].isPrimary
                                       /\ ActiveOn(a, today)}) <= budget
  /\ st \in {"CLOSED", "ARCHIVED"} => CanClose(p)
  /\ position' = [position EXCEPT
       ![p] = [status |-> IF st = AsItWas THEN position[p].status ELSE st,
               deleted |-> (st = "ARCHIVED"), budget |-> budget, reportsTo |-> boss]]
  /\ UNCHANGED <<employee, placement, today>>

\* activate, freeze, close, archive (and delete, which ends the same way), and
\* reopen, which alone also finds a position that was deleted.
TransitionPosition(p, st) ==
  /\ Current(p) /\ position[p].status # "ARCHIVED"
  /\ st \in {"CLOSED", "ARCHIVED"} => CanClose(p)
  /\ position' = [position EXCEPT ![p].status = st, ![p].deleted = (st = "ARCHIVED")]
  /\ UNCHANGED <<employee, placement, today>>

ReopenPosition(p) ==
  /\ position[p] # NoRecord
  /\ position' = [position EXCEPT ![p].status = "DRAFT", ![p].deleted = FALSE]
  /\ UNCHANGED <<employee, placement, today>>

\* deletePosition asks nothing of the status.
DeletePosition(p) ==
  /\ Current(p) /\ CanClose(p)
  /\ position' = [position EXCEPT ![p].status = "ARCHIVED", ![p].deleted = TRUE]
  /\ UNCHANGED <<employee, placement, today>>

----------------------------------------------------------------------------
\* Assignments.

\* findCurrentPrimary: the latest that has begun.
CurrentPrimary(e, d) ==
  {a \in Placements : /\ placement[a].employee = e /\ placement[a].isPrimary /\ ActiveOn(a, d)
                      /\ \A b \in Placements :
                           placement[b].employee = e /\ placement[b].isPrimary /\ ActiveOn(b, d)
                             => placement[b].from <= placement[a].from}

\* The managers above e on day d, e included, and NoManager when the line ends.
Manager(e, d) ==
  IF CurrentPrimary(e, d) = {} THEN {NoManager} ELSE {placement[a].manager : a \in CurrentPrimary(e, d)}

ManagerLine(e, d) ==
  LET step(S) == S \cup UNION {Manager(m, d) : m \in S \ {NoManager}}
      line[n \in 0 .. Cardinality(Person) + 1] == IF n = 0 THEN {e} ELSE step(line[n - 1])
  IN line[Cardinality(Person) + 1]

ManagerOK(row) ==
  row.manager # NoManager =>
    /\ row.manager \in Leader /\ row.manager # row.employee
    /\ Employed(row.manager) /\ employee[row.manager].status \in {"ACTIVE", "PROBATION"}
    /\ row.employee \notin ManagerLine(row.manager, row.from)
    /\ NoManager \in ManagerLine(row.manager, row.from)

\* preparePrimaryWindow: the primary assignments that the new one cuts short.
InTheWay(row, except) ==
  {a \in Placements \ except :
     row.isPrimary /\ placement[a].employee = row.employee /\ placement[a].isPrimary
     /\ Overlaps(a, row)}

WindowOK(row, except, closeExisting) ==
  InTheWay(row, except) # {} =>
    closeExisting /\ \A a \in InTheWay(row, except) : placement[a].from < row.from

\* assertPositionHeadcount, asked after what was in the way has been cut short.
Occupied(row, except) ==
  Cardinality({a \in Placements \ (except \cup InTheWay(row, except)) :
                 placement[a].position = row.position /\ placement[a].isPrimary
                 /\ Overlaps(a, row)})

PositionOK(row, except, allowOverBudget) ==
  row.position # NoPosition =>
    /\ Current(row.position) /\ position[row.position].status = "ACTIVE"
    /\ row.isPrimary /\ ~allowOverBudget =>
         Occupied(row, except) < position[row.position].budget

\* The row of an assignment is written, and what was in its way ends where it
\* begins.
Write(id, row, except, closeExisting, allowOverBudget) ==
  /\ Assignable(row.employee) /\ ManagerOK(row) /\ WindowOK(row, except, closeExisting)
  /\ PositionOK(row, except, allowOverBudget)
  /\ placement' = [a \in PlacementId |->
       IF a = id THEN row
       ELSE IF a \in InTheWay(row, except) THEN [placement[a] EXCEPT !.to = row.from]
       ELSE placement[a]]
  /\ UNCHANGED <<employee, position, today>>

CreatePlacement(id, row, closeExisting, allowOverBudget) ==
  /\ placement[id] = NoRecord
  /\ Write(id, row, {}, closeExisting, allowOverBudget)

\* The employee stays; a position or a manager is changed but not taken away.
UpdatePlacement(id, row, closeExisting, allowOverBudget) ==
  /\ placement[id] # NoRecord /\ row.employee = placement[id].employee
  /\ row.position = NoPosition => placement[id].position = NoPosition
  /\ row.manager = NoManager => placement[id].manager = NoManager
  /\ Write(id, row, {id}, closeExisting, allowOverBudget)

\* The end may be any day after the beginning; nothing asks what else is there.
EndPlacement(id, end) ==
  /\ placement[id] # NoRecord
  /\ placement[id].to > today /\ placement[id].from < end /\ end \in Day
  /\ EndsExtend \/ end <= placement[id].to
  /\ placement' = [placement EXCEPT ![id].to = end]
  /\ UNCHANGED <<employee, position, today>>

DeletePlacement(id) ==
  /\ placement[id] # NoRecord /\ placement[id].from > today
  /\ placement' = [placement EXCEPT ![id] = NoRecord]
  /\ UNCHANGED <<employee, position, today>>

DayPasses == today < LastDay /\ today' = today + 1 /\ UNCHANGED <<employee, position, placement>>

EmploymentNext ==
  \E e \in Person :
    \/ \E st \in EmployeeStatus : \/ \E imported \in BOOLEAN : CreateEmployee(e, st, imported)
                                 \/ TransitionEmployee(e, st) \/ RehireEmployee(e, st)
    \/ ArchiveEmployee(e) \/ RollbackEmployee(e)

PositionNext ==
  \E p \in PositionId :
    \/ \E n \in BudgetInput, boss \in PositionId \cup {NoPosition} :
         \/ \E st \in PositionStatus : CreatePosition(p, st, n, boss)
         \/ \E st \in PositionStatus \cup {AsItWas}, under \in Overrides :
              UpdatePosition(p, st, n, boss, under)
    \/ \E st \in PositionStatus \ {"DRAFT"} : TransitionPosition(p, st)
    \/ ReopenPosition(p) \/ DeletePosition(p)

PlacementNext ==
  \E id \in PlacementId :
    \/ \E row \in PlacementInput, closeExisting \in BOOLEAN, over \in Overrides :
         CreatePlacement(id, row, closeExisting, over) \/ UpdatePlacement(id, row, closeExisting, over)
    \/ \E end \in Day : EndPlacement(id, end)
    \/ DeletePlacement(id)

StaffingNext == EmploymentNext \/ PositionNext \/ PlacementNext \/ DayPasses

StaffingSpec == StaffingInit /\ [][StaffingNext]_staffingVars

----------------------------------------------------------------------------
\* Properties.

\* preparePrimaryWindow: an employee has one primary assignment on any day.
OnePrimaryAtATime ==
  \A a, b \in Placements : \A d \in Day :
    /\ a # b /\ placement[a].employee = placement[b].employee
    /\ placement[a].isPrimary /\ placement[b].isPrimary
    => ~(ActiveOn(a, d) /\ ActiveOn(b, d))

\* Three services agree on who holds what.  A position that is closed or
\* archived has no assignment that is running or to come (assertPositionCanClose
\* against validatePosition); as long as nobody goes over or under the budget on
\* purpose, a position has no more holders on a day than places
\* (assertPositionHeadcount); and an employee who was archived, but for the
\* rollback of an import, has no assignment without an end
\* (assertNoActiveAssignments against findEmployeeForAssignment).
OccupancyWithinCapacity ==
  /\ \A p \in PositionId : position[p] # NoRecord =>
       /\ position[p].status \in {"CLOSED", "ARCHIVED"} => OpenOn(p) = {}
       /\ \A d \in Day :
            Cardinality({a \in Placements : placement[a].position = p /\ placement[a].isPrimary
                                            /\ ActiveOn(a, d)}) <= position[p].budget
  /\ \A e \in Person : employee[e] # NoRecord /\ employee[e].deleted =>
       employee[e].rolledBack \/ OpenEnded(e) = {}

\* assertReportsToChangeIsSafe: no position is above itself.
HierarchyAcyclic ==
  \A p, boss \in PositionId : Reports(p, boss) => p \notin ReportingLine(boss)
=============================================================================
