----------------------------- MODULE Scheduling -----------------------------
(***************************************************************************)
(* Schedule periods, assignments, open shifts with their claims, and swap  *)
(* requests: scheduling/scheduling.service.ts.                             *)
(*                                                                         *)
(* The handlers that count heads, and those of a period, are two actions,  *)
(* ...Read and ...Commit, and task[p] keeps what was read; the decision of *)
(* a swap is a chain of two transactions; the others are one action.  The   *)
(* promises of this service are those of handlers that take turns.         *)
(* The dates of a row are a slot, and two slots overlap or do not.         *)
(***************************************************************************)
EXTENDS Integers, FiniteSets

CONSTANTS Employee,
          Eligible,      \* employees whose primary assignment is in the scope of the open shifts
          Slot,
          Clashes,       \* pairs of different slots that overlap
          PeriodId, OpenShiftId, AssignmentId, SwapId,
          PeriodInput,    \* what requests ask for: statuses of periods,
          OpenShiftInput, \* open shifts
          OpenShiftPatch, \* and changes of them,
          StatusInput,    \* statuses of assignments,
          AwayInput,      \* (employee, slot) pairs of an absence
          Scheduler,      \* handlers that may be between read and commit
          TakingTurns,    \* TRUE if nothing else happens in between
          NoRow, Free

VARIABLES period,     \* SchedulePeriod.status
          openShift,  \* OpenShift rows
          claim,      \* OpenShiftClaim rows, unique in (openShiftId, employeeId)
          assignment, \* ScheduleAssignment rows
          swap,       \* ScheduleSwapRequest rows
          away,       \* (employee, slot): approved leave or marked unavailable
          past,       \* slots that have begun
          task        \* what a handler has read

schedulingVars == <<period, openShift, claim, assignment, swap, away, past, task>>

AssignmentStatus ==
  {"DRAFT", "ASSIGNED", "CONFIRMED", "DECLINED", "CANCELLED", "COMPLETED", "NO_SHOW"}
TERMINAL_ASSIGNMENT_STATUSES == {"CANCELLED", "DECLINED", "NO_SHOW"}
LOCKED_ASSIGNMENT_STATUSES == TERMINAL_ASSIGNMENT_STATUSES \cup {"COMPLETED"}
ScheduleStatus == {"DRAFT", "PUBLISHED", "LOCKED", "ARCHIVED"}
UnassignmentMode == {"CANCEL_ONLY", "RETURN_TO_OPEN_SHIFT"}

OpenShiftRow ==
  [slot : Slot, period : PeriodId \cup {NoRow}, required : Nat, claimed : Nat,
   pickupRequiresApproval : BOOLEAN,
   status : {"OPEN", "CLAIMED", "CANCELLED", "EXPIRED"}]
ClaimRow ==
  [status : {"REQUESTED", "APPROVED", "REJECTED", "CANCELLED"},
   assignment : AssignmentId \cup {NoRow}]
AssignmentRow ==
  [employee : Employee, slot : Slot, period : PeriodId \cup {NoRow},
   status : AssignmentStatus]
SwapRow ==
  [assignment : AssignmentId, requester : Employee,
   target : Employee \cup {NoRow},
   status : {"REQUESTED", "APPROVED", "REJECTED", "CANCELLED", "COMPLETED"}]

\* What updateOpenShift takes.
OpenShiftField ==
  [slot |-> Slot, period |-> PeriodId, required |-> Nat \ {0}, pickupRequiresApproval |-> BOOLEAN,
   status |-> {"OPEN", "CLAIMED", "CANCELLED", "EXPIRED"}]

ASSUME SchedulingAssumption ==
  /\ Eligible \subseteq Employee /\ IsFiniteSet(Employee) /\ TakingTurns \in BOOLEAN
  /\ NoRow \notin ScheduleStatus \cup OpenShiftRow \cup ClaimRow \cup AssignmentRow \cup SwapRow \cup AssignmentId
  /\ \A c \in Clashes : c \subseteq Slot /\ Cardinality(c) = 2
  /\ PeriodInput \subseteq ScheduleStatus /\ StatusInput \subseteq AssignmentStatus
  /\ OpenShiftInput \subseteq [slot : Slot, period : PeriodId \cup {NoRow}, required : Nat \ {0},
       claimed : {0}, pickupRequiresApproval : BOOLEAN, status : {"OPEN"}]
  /\ \A patch \in OpenShiftPatch : \A f \in DOMAIN patch :
       f \in DOMAIN OpenShiftField /\ patch[f] \in OpenShiftField[f]
  /\ AwayInput \subseteq Employee \X Slot

SchedulingTypeOK ==
  /\ period \in [PeriodId -> ScheduleStatus \cup {NoRow}]
  /\ openShift \in [OpenShiftId -> OpenShiftRow \cup {NoRow}]
  /\ claim \in [OpenShiftId -> [Employee -> ClaimRow \cup {NoRow}]]
  /\ assignment \in [AssignmentId -> AssignmentRow \cup {NoRow}]
  /\ swap \in [SwapId -> SwapRow \cup {NoRow}]
  /\ away \subseteq Employee \X Slot
  /\ past \subseteq Slot

SchedulingInit ==
  /\ period = [k \in PeriodId |-> NoRow]
  /\ openShift = [o \in OpenShiftId |-> NoRow]
  /\ claim = [o \in OpenShiftId |-> [e \in Employee |-> NoRow]]
  /\ assignment = [a \in AssignmentId |-> NoRow]
  /\ swap = [w \in SwapId |-> NoRow]
  /\ away = {} /\ past = {}
  /\ task = [p \in Scheduler |-> Free]

----------------------------------------------------------------------------
\* What the handlers ask of the rows.

Exists(table, id) == table[id] # NoRow
\* A row after an update of some of its fields.
Patched(row, patch) ==
  [f \in DOMAIN row |-> IF f \in DOMAIN patch THEN patch[f] ELSE row[f]]
Overlap(s, t) == s = t \/ {s, t} \in Clashes
IsLive(a) ==
  Exists(assignment, a) /\ assignment[a].status \notin TERMINAL_ASSIGNMENT_STATUSES

\* Mutant: a locked period is not refused.
PeriodNotArchived(k) == k \in PeriodId => period[k] \in {"DRAFT", "PUBLISHED", "LOCKED"}
PeriodWritable(k) == k \in PeriodId => period[k] \in {"DRAFT", "PUBLISHED"}

\* Mutant: only a slot that is the same counts.
NoConflictInSlot(e, s, except) ==
  /\ \A a \in AssignmentId \ except :
       IsLive(a) /\ assignment[a].employee = e => assignment[a].slot # s
  /\ <<e, s>> \notin away

NoHardConflict(e, s, except) ==
  /\ \A a \in AssignmentId \ except :
       IsLive(a) /\ assignment[a].employee = e => ~Overlap(assignment[a].slot, s)
  /\ <<e, s>> \notin away

\* An open shift expires when its slot begins.
Claimable(row) ==
  row.status = "OPEN" /\ row.slot \notin past /\ row.claimed < row.required

EligibleFor(e, s) == e \in Eligible /\ NoHardConflict(e, s, {})

Turn == TakingTurns => \A p \in Scheduler : task[p] = Free
Reads(p, t) == Turn /\ task[p] = Free /\ task' = [task EXCEPT ![p] = t]
Doing(p, op) == task[p] # Free /\ task[p].op = op
Done(p) == task' = [task EXCEPT ![p] = Free]

----------------------------------------------------------------------------
\* Periods.

CreatePeriod(k, st) ==
  /\ Turn
  /\ ~Exists(period, k)
  /\ period' = [period EXCEPT ![k] = st]
  /\ UNCHANGED <<openShift, claim, assignment, swap, away, past, task>>

\* publishPeriod refuses a locked or archived period, lockPeriod an archived
\* one; locking what is locked writes nothing.
PeriodRead(p, k, st) ==
  /\ st \in {"PUBLISHED", "LOCKED"} /\ period[k] \in {"DRAFT", "PUBLISHED"}
  /\ Reads(p, [op |-> "period", id |-> k, status |-> st])
  /\ UNCHANGED <<period, openShift, claim, assignment, swap, away, past>>

PeriodCommit(p) ==
  /\ Doing(p, "period")
  /\ period' = [period EXCEPT ![task[p].id] = task[p].status]
  /\ Done(p)
  /\ UNCHANGED <<openShift, claim, assignment, swap, away, past>>

----------------------------------------------------------------------------
\* Assignments made by a scheduler, a manager or the employee.

NewAssignment(a, e, s, k) ==
  /\ ~Exists(assignment, a)
  /\ assignment' = [assignment EXCEPT ![a] =
       [employee |-> e, slot |-> s, period |-> k, status |-> "ASSIGNED"]]

CreateAssignment(a, e, s, k) ==
  /\ Turn
  /\ PeriodWritable(k) /\ NoHardConflict(e, s, {})
  /\ NewAssignment(a, e, s, k)
  /\ UNCHANGED <<period, openShift, claim, swap, away, past, task>>

\* The checks of updateAssignment on the row and the patch.
Patchable(a, patch) ==
  LET new == Patched(assignment[a], patch) IN
  /\ DOMAIN patch \cap {"employee", "slot"} # {} =>
       assignment[a].status \notin LOCKED_ASSIGNMENT_STATUSES
  /\ PeriodWritable(assignment[a].period) /\ PeriodWritable(new.period)
  /\ NoHardConflict(new.employee, new.slot, {a})

UpdateAssignment(a, patch) ==
  /\ Turn
  /\ Exists(assignment, a) /\ Patchable(a, patch)
  /\ assignment' = [assignment EXCEPT ![a] = Patched(@, patch)]
  /\ UNCHANGED <<period, openShift, claim, swap, away, past, task>>

\* Any status may follow any other.
UpdateAssignmentStatus(a, st) ==
  /\ Turn
  /\ Exists(assignment, a) /\ PeriodWritable(assignment[a].period)
  /\ assignment' = [assignment EXCEPT ![a].status = st]
  /\ UNCHANGED <<period, openShift, claim, swap, away, past, task>>

----------------------------------------------------------------------------
\* Open shifts and claims.

CreateOpenShift(o, row) ==
  /\ Turn
  /\ ~Exists(openShift, o) /\ PeriodWritable(row.period)
  /\ openShift' = [openShift EXCEPT ![o] = row]
  /\ UNCHANGED <<period, claim, assignment, swap, away, past, task>>

UpdateOpenShiftRead(p, o, patch) ==
  /\ Exists(openShift, o)
  /\ LET row == openShift[o]
         new == Patched(row, patch) IN
     /\ PeriodWritable(row.period) /\ PeriodWritable(new.period)
     /\ row.claimed > 0 => "slot" \notin DOMAIN patch
     /\ new.required >= row.claimed
     /\ "status" \in DOMAIN patch /\ patch.status = "CLAIMED" =>
          row.claimed >= new.required
     /\ Reads(p, [op |-> "updateOpen", id |-> o,
                  write |-> [f \in DOMAIN patch \cup {"slot", "required"} |-> new[f]]])
  /\ UNCHANGED <<period, openShift, claim, assignment, swap, away, past>>

UpdateOpenShiftCommit(p) ==
  /\ Doing(p, "updateOpen")
  /\ LET o == task[p].id
         w == task[p].write
         closes == "status" \in DOMAIN w /\ w.status \in {"CANCELLED", "EXPIRED"} IN
     /\ openShift' = [openShift EXCEPT ![o] = Patched(@, w)]
     /\ claim' = [claim EXCEPT ![o] = [e \in Employee |->
          IF closes /\ @[e] # NoRow /\ @[e].status = "REQUESTED"
          THEN [@[e] EXCEPT !.status = "CANCELLED"] ELSE @[e]]]
  /\ Done(p)
  /\ UNCHANGED <<period, assignment, swap, away, past>>

\* Mutant: the count is written when the shift is full.
TakeUpCountingLate(o, e, row, a) ==
  /\ NewAssignment(a, e, row.slot, row.period)
  /\ openShift' = [openShift EXCEPT
       ![o].claimed = IF row.claimed + 1 >= row.required THEN row.claimed + 1 ELSE row.claimed]
  /\ claim' = [claim EXCEPT ![o][e] = [status |-> "APPROVED", assignment |-> a]]

\* createAssignmentFromOpenShift: count and status come from the row as read.
TakeUp(o, e, row, a) ==
  /\ NewAssignment(a, e, row.slot, row.period)
  /\ openShift' = [openShift EXCEPT
       ![o].claimed = row.claimed + 1,
       ![o].status = IF row.claimed + 1 >= row.required THEN "CLAIMED" ELSE "OPEN"]
  /\ claim' = [claim EXCEPT ![o][e] = [status |-> "APPROVED", assignment |-> a]]

ClaimRead(p, o, e) ==
  /\ Exists(openShift, o)
  /\ LET row == openShift[o] IN
     /\ Claimable(row) /\ EligibleFor(e, row.slot)
     /\ claim[o][e] = NoRow
     /\ ~row.pickupRequiresApproval => PeriodWritable(row.period)
     /\ Reads(p, [op |-> "claim", id |-> o, employee |-> e, row |-> row])
  /\ UNCHANGED <<period, openShift, claim, assignment, swap, away, past>>

\* The unique index refuses a second claim of the employee (then Abort).
ClaimCommit(p, a) ==
  /\ Doing(p, "claim")
  /\ LET t == task[p] IN
     /\ claim[t.id][t.employee] = NoRow
     /\ IF t.row.pickupRequiresApproval
        THEN /\ claim' = [claim EXCEPT ![t.id][t.employee] =
                  [status |-> "REQUESTED", assignment |-> NoRow]]
             /\ UNCHANGED <<openShift, assignment>>
        ELSE TakeUp(t.id, t.employee, t.row, a)
  /\ Done(p)
  /\ UNCHANGED <<period, swap, away, past>>

\* assignOpenShift, and decideOpenShiftClaim with APPROVED on a claim without
\* an assignment, whatever the status of the claim.
PickUpRead(p, o, e) ==
  /\ Exists(openShift, o)
  /\ LET row == openShift[o]
         held == claim[o][e] IN
     /\ Claimable(row) /\ EligibleFor(e, row.slot) /\ PeriodWritable(row.period)
     /\ held # NoRow /\ held.assignment # NoRow =>
          assignment[held.assignment].status \in LOCKED_ASSIGNMENT_STATUSES
     /\ Reads(p, [op |-> "pickUp", id |-> o, employee |-> e, row |-> row,
                  new |-> held = NoRow])
  /\ UNCHANGED <<period, openShift, claim, assignment, swap, away, past>>

PickUpCommit(p, a) ==
  /\ Doing(p, "pickUp")
  /\ task[p].new => claim[task[p].id][task[p].employee] = NoRow
  /\ TakeUp(task[p].id, task[p].employee, task[p].row, a)
  /\ Done(p)
  /\ UNCHANGED <<period, swap, away, past>>

\* The other decisions only write the status: a claim that was rejected may be
\* decided again, one with an assignment rejected while the assignment stays.
DecideOpenShiftClaim(o, e, st) ==
  /\ Turn
  /\ claim[o][e] # NoRow
  /\ \/ st \in {"REJECTED", "CANCELLED"}
     \/ st = "APPROVED" /\ claim[o][e].assignment # NoRow
  /\ claim' = [claim EXCEPT ![o][e].status = st]
  /\ UNCHANGED <<period, openShift, assignment, swap, away, past, task>>

----------------------------------------------------------------------------
\* unassignAssignment, in any status and in any period.

ClaimOf(a) ==
  {x \in OpenShiftId \X Employee :
     claim[x[1]][x[2]] # NoRow /\ claim[x[1]][x[2]].assignment = a}

Larger(m, n) == IF m > n THEN m ELSE n

\* The open shift after one of its assignments has been taken back.
Unassigned(row, mode) ==
  LET claimed == Larger(0, row.claimed - 1)
      required == IF mode = "CANCEL_ONLY" THEN Larger(0, row.required - 1)
                                          ELSE row.required IN
  [row EXCEPT
     !.claimed = claimed, !.required = Larger(1, required),
     !.status = IF mode = "RETURN_TO_OPEN_SHIFT" THEN "OPEN"
                ELSE IF required = 0 THEN "CANCELLED"
                ELSE IF claimed >= required THEN "CLAIMED" ELSE "OPEN"]

UnassignRead(p, a, mode) ==
  /\ Exists(assignment, a)
  /\ Reads(p, [op |-> "unassign", id |-> a, mode |-> mode, before |-> assignment[a],
               claimOf |-> ClaimOf(a), rows |-> [x \in ClaimOf(a) |-> openShift[x[1]]]])
  /\ UNCHANGED <<period, openShift, claim, assignment, swap, away, past>>

UnassignCommit(p) ==
  /\ Doing(p, "unassign")
  /\ LET t == task[p] IN
     /\ assignment' = [assignment EXCEPT ![t.id].status = "CANCELLED"]
     /\ \/ \E x \in t.claimOf :
             LET after == Unassigned(t.rows[x], t.mode) IN
             /\ claim' = [claim EXCEPT ![x[1]][x[2]].status = "CANCELLED"]
             /\ openShift' = [openShift EXCEPT ![x[1]].claimed = after.claimed,
                  ![x[1]].required = after.required, ![x[1]].status = after.status]
        \/ /\ t.claimOf = {} /\ t.mode = "CANCEL_ONLY"
           /\ UNCHANGED <<openShift, claim>>
        \/ /\ t.claimOf = {} /\ t.mode = "RETURN_TO_OPEN_SHIFT"
           /\ UNCHANGED claim
           /\ \E o \in OpenShiftId :
                /\ ~Exists(openShift, o)
                /\ openShift' = [openShift EXCEPT ![o] =
                     [slot |-> t.before.slot, period |-> t.before.period, required |-> 1, claimed |-> 0,
                      pickupRequiresApproval |-> TRUE, status |-> "OPEN"]]
  /\ Done(p)
  /\ UNCHANGED <<period, swap, away, past>>

----------------------------------------------------------------------------
\* Swap requests.  A decision is a chain of two transactions.

CreateSwapRequest(w, a, target) ==
  /\ Turn
  /\ ~Exists(swap, w)
  /\ IsLive(a) /\ assignment[a].slot \notin past
  /\ target # NoRow => /\ target # assignment[a].employee
                       /\ EligibleFor(target, assignment[a].slot)
  /\ \A v \in SwapId : Exists(swap, v) =>
       ~(swap[v].assignment = a /\ swap[v].requester = assignment[a].employee
         /\ swap[v].status = "REQUESTED")
  /\ swap' = [swap EXCEPT ![w] =
       [assignment |-> a, requester |-> assignment[a].employee, target |-> target,
        status |-> "REQUESTED"]]
  /\ UNCHANGED <<period, openShift, claim, assignment, away, past, task>>

DecideSwapRead(p, w, st) ==
  /\ Exists(swap, w) /\ swap[w].status = "REQUESTED"
  /\ LET moves == st = "APPROVED" /\ swap[w].target # NoRow IN
     Reads(p, [op |-> IF moves THEN "swapMove" ELSE "swapClose", id |-> w,
               status |-> IF moves THEN "COMPLETED" ELSE st])
  /\ UNCHANGED <<period, openShift, claim, assignment, swap, away, past>>

SwapMove(p) ==
  /\ Doing(p, "swapMove")
  /\ LET s == swap[task[p].id] IN
     /\ Patchable(s.assignment, [employee |-> s.target])
     /\ assignment' = [assignment EXCEPT ![s.assignment].employee = s.target]
  /\ task' = [task EXCEPT ![p].op = "swapClose"]
  /\ UNCHANGED <<period, openShift, claim, swap, away, past>>

SwapClose(p) ==
  /\ Doing(p, "swapClose")
  /\ swap' = [swap EXCEPT ![task[p].id].status = task[p].status]
  /\ Done(p)
  /\ UNCHANGED <<period, openShift, claim, assignment, away, past>>

----------------------------------------------------------------------------
\* A failed check, an exception or the end of the process: the open
\* transaction is undone, and what committed before it stays.
SchedulerStops(p) ==
  /\ task[p] # Free
  /\ Done(p)
  /\ UNCHANGED <<period, openShift, claim, assignment, swap, away, past>>

\* createAvailability, replacing what was said of the day or adding to it, and
\* leave that is approved or cancelled: neither looks at the assignments.
CreateAvailability(x) ==
  /\ Turn
  /\ \/ away' = away \cup {x}
     \/ away' = away \ {x}
  /\ UNCHANGED <<period, openShift, claim, assignment, swap, past, task>>

SlotBegins(s) ==
  /\ past' = past \cup {s}
  /\ UNCHANGED <<period, openShift, claim, assignment, swap, away, task>>

AssignmentPatch ==
  [employee : Employee] \cup [slot : Slot]
  \cup [employee : Employee, slot : Slot] \cup [period : PeriodId]

SchedulingNext ==
  \/ \E k \in PeriodId, st \in PeriodInput : CreatePeriod(k, st)
  \/ \E o \in OpenShiftId, row \in OpenShiftInput : CreateOpenShift(o, row)
  \/ \E a \in AssignmentId, e \in Employee, s \in Slot, k \in PeriodId \cup {NoRow} :
       CreateAssignment(a, e, s, k)
  \/ \E a \in AssignmentId, patch \in AssignmentPatch : UpdateAssignment(a, patch)
  \/ \E a \in AssignmentId, st \in StatusInput : UpdateAssignmentStatus(a, st)
  \/ \E o \in OpenShiftId, e \in Employee, st \in {"APPROVED", "REJECTED", "CANCELLED"} :
       DecideOpenShiftClaim(o, e, st)
  \/ \E w \in SwapId, a \in AssignmentId, e \in Employee \cup {NoRow} :
       CreateSwapRequest(w, a, e)
  \/ \E x \in AwayInput : CreateAvailability(x)
  \/ \E s \in Slot : SlotBegins(s)
  \/ \E p \in Scheduler :
       \/ \E k \in PeriodId, st \in ScheduleStatus : PeriodRead(p, k, st)
       \/ \E o \in OpenShiftId, patch \in OpenShiftPatch :
            UpdateOpenShiftRead(p, o, patch)
       \/ \E o \in OpenShiftId, e \in Employee : ClaimRead(p, o, e) \/ PickUpRead(p, o, e)
       \/ \E a \in AssignmentId, mode \in UnassignmentMode : UnassignRead(p, a, mode)
       \/ \E w \in SwapId, st \in {"APPROVED", "REJECTED", "CANCELLED", "COMPLETED"} :
            DecideSwapRead(p, w, st)
       \/ \E a \in AssignmentId : ClaimCommit(p, a) \/ PickUpCommit(p, a)
       \/ PeriodCommit(p) \/ UpdateOpenShiftCommit(p)
       \/ UnassignCommit(p) \/ SwapMove(p) \/ SwapClose(p) \/ SchedulerStops(p)

SchedulingSpec == SchedulingInit /\ [][SchedulingNext]_schedulingVars

----------------------------------------------------------------------------
\* Properties of handlers that take turns.

\* assertNoHardConflict: an employee is not booked twice at one time, as long as
\* no status change brings a cancelled or declined assignment back, which
\* nothing checks.
NoDoubleBooking ==
  \A a, b \in AssignmentId :
    a # b /\ IsLive(a) /\ IsLive(b) /\ assignment[a].employee = assignment[b].employee
      => ~Overlap(assignment[a].slot, assignment[b].slot)

\* claimedHeadcount: the live assignments that claims of an open shift hold are
\* counted, and no more are counted than the shift asks for, as long as no
\* assignment comes back and none is unassigned twice.
ClaimedHeadcountCovers ==
  \A o \in OpenShiftId : Exists(openShift, o) =>
    /\ Cardinality({e \in Employee : claim[o][e] # NoRow /\ claim[o][e].assignment # NoRow
                      /\ IsLive(claim[o][e].assignment)}) <= openShift[o].claimed
    /\ openShift[o].claimed <= openShift[o].required

\* assertSchedulePeriodWritable: a locked period stays locked, and coverage in
\* it does not grow or move; assignments in it may only be unassigned.
KeepsLockedPeriods ==
  \A k \in PeriodId : period[k] = "LOCKED" =>
    /\ period'[k] = "LOCKED"
    /\ \A a \in AssignmentId :
         IF Exists(assignment, a) /\ assignment[a].period = k
         THEN assignment'[a] \in {assignment[a], [assignment[a] EXCEPT !.status = "CANCELLED"]}
         ELSE assignment'[a] # NoRow => assignment'[a].period # k
LockedPeriodGainsNothing == [][KeepsLockedPeriods]_schedulingVars
=============================================================================
