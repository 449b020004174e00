------------------------------ MODULE MCWorkTime ------------------------------
(***************************************************************************)
(* Scheduling and Attendance checked in six small instances.  A behaviour  *)
(* has one focus, chosen at the start, and only what belongs to it moves:  *)
(* the states of the instances add up instead of multiplying.              *)
(***************************************************************************)
EXTENDS Scheduling, Attendance, TLC

CONSTANTS e1, e2, s1, s2, k1, \* scheduling
          f1, f2, h1, h2, r1, r2 \* attendance

VARIABLES focus,
          unassigned, \* assignments that have been taken back
          disturbed,  \* an assignment came back, or was taken back twice
          signedOff,  \* per employee, the entries when the timesheet became final
          moved       \* a record was linked to another shift

disturbances == <<unassigned, disturbed>>
ghosts == <<signedOff, moved>>
mcVars == <<focus, disturbances, ghosts, schedulingVars, attendanceVars>>

----------------------------------------------------------------------------
\* Scheduling.

MCClashes == {{s1, s2}}
MCAway == Employee \X {s1}
MCOpenShifts ==
  [slot : {s1}, period : {NoRow}, required : {1, 2}, claimed : {0},
   pickupRequiresApproval : BOOLEAN, status : {"OPEN"}]
  \cup [slot : {s1}, period : PeriodId, required : {1}, claimed : {0},
        pickupRequiresApproval : {FALSE}, status : {"OPEN"}]
MCPatches == {[status |-> "CANCELLED"], [required |-> 1]}

Revives(a) == Exists(assignment, a) /\ ~IsLive(a) /\ IsLive(a)'
TakenBack ==
  {task[p].id : p \in {q \in Scheduler : Doing(q, "unassign") /\ UnassignCommit(q)}}
Disturbs == (\E a \in AssignmentId : Revives(a)) \/ TakenBack \cap unassigned # {}

\* Each focus leaves part of the tables alone.
OneSlot == \A a \in AssignmentId : assignment'[a] # NoRow => assignment'[a].slot = s1
Claims == OneSlot /\ UNCHANGED <<period, swap, away>> /\ ~disturbed
Swaps == UNCHANGED <<period, openShift, claim>> /\ ~disturbed
Periods ==
  /\ OneSlot /\ UNCHANGED <<swap, away, past>>
  /\ \A o \in OpenShiftId : openShift'[o] # NoRow =>
       openShift'[o].period # NoRow /\ openShift'[o].required = 1

SchedulingStep ==
  /\ focus \in {"claims", "swaps", "periods"}
  /\ SchedulingNext
  /\ \/ focus = "claims" /\ Claims
     \/ focus = "swaps" /\ Swaps
     \/ focus = "periods" /\ Periods
  /\ unassigned' = IF disturbed THEN {} ELSE unassigned \cup TakenBack
  /\ disturbed' = (disturbed \/ Disturbs)
  /\ UNCHANGED <<ghosts, attendanceVars>>

----------------------------------------------------------------------------
\* Attendance.

MCShiftOf == (h1 :> f1) @@ (h2 :> f2)
MCWishes ==
  [employee : {f1}, record : {r1, Missing}, shift : {h1, Unscheduled}, clockedIn : {TRUE},
   done : BOOLEAN, pay : {1}]

Moves == \E r \in RecordId : record[r] # Missing /\ record'[r].shift # record[r].shift

\* By a decision; a payroll lock signs nothing off.
SignedOff(e) ==
  IF ~IsFinal(e)' THEN Missing
  ELSE IF ~IsFinal(e) /\ payroll' = payroll THEN sheet'[e].rows ELSE signedOff[e]

NewRecords == {r \in RecordId : record'[r] # Missing}
Statuses(e) == IF sheet'[e] = Missing THEN {} ELSE {sheet'[e].status}

Offline ==
  /\ \A r \in NewRecords : record'[r].employee = f1 /\ record'[r].shift = Unscheduled
  /\ UNCHANGED <<sheet, payroll, correction>>
Corrections ==
  /\ NewRecords \subseteq {r1} /\ \A r \in NewRecords : record'[r].employee = f1 /\ ~record'[r].onBreak
  /\ Statuses(f1) \subseteq {"DRAFT", "APPROVED"} /\ Statuses(f2) = {}
  /\ UNCHANGED <<offline, applied, sync, payroll>>
Payroll ==
  /\ \A r \in NewRecords : record'[r].employee = f1 /\ record'[r].clockedIn /\ ~record'[r].onBreak
  /\ "REJECTED" \notin Statuses(f1) /\ Statuses(f2) \cap {"REJECTED", "REOPENED"} = {}
  /\ UNCHANGED <<offline, applied, sync, correction>>

AttendanceStep ==
  /\ focus \in {"offline", "corrections", "payroll"} /\ ~moved
  /\ AttendanceNext
  /\ \/ focus = "offline" /\ Offline
     \/ focus = "corrections" /\ Corrections
     \/ focus = "payroll" /\ Payroll
  /\ signedOff' = [e \in Clocker |-> SignedOff(e)]
  /\ moved' = Moves
  /\ UNCHANGED <<disturbances, schedulingVars>>

----------------------------------------------------------------------------
MCSymmetry == Permutations(Employee) \cup Permutations(AssignmentId)

MCInit ==
  /\ focus \in {"claims", "swaps", "periods", "offline", "corrections", "payroll"}
  /\ unassigned = {} /\ disturbed = (focus = "periods")
  /\ signedOff = [e \in Clocker |-> Missing] /\ moved = FALSE
  /\ SchedulingInit /\ AttendanceInit

MCNext == (SchedulingStep \/ AttendanceStep) /\ UNCHANGED focus

MCSpec == MCInit /\ [][MCNext]_mcVars

----------------------------------------------------------------------------
\* Properties.

WorkTimeTypeOK == SchedulingTypeOK /\ AttendanceTypeOK

\* assertNoHardConflict: while no assignment has come back and none has been
\* taken back twice, nobody is booked for two slots that overlap.
BookedOnceAtATime == disturbed \/ NoDoubleBooking

\* claimOpenShift and unassignAssignment keep claimedHeadcount: under the same
\* condition it counts the live assignments of an open shift.
HeadcountCovers == disturbed \/ ClaimedHeadcountCovers

\* lockPayrollPeriod and exportPayrollPeriod: what they hand to payroll are
\* the entries that stood when somebody decided the timesheet last.
PaidAsDecided ==
  [][\A p \in payroll' \ payroll : \A e \in DOMAIN p : p[e] = signedOff[e]]_mcVars

\* upsertTimesheetEntry: however often timesheets are generated, no record is
\* in two entries that are paid.  A record that has been moved to another
\* shift, by hand or by a reconciliation, is (README): no step follows that.
PaidOnce ==
  moved \/ \A p \in payroll : \A e \in DOMAIN p : \A m, n \in p[e] :
             m # n /\ m.record = n.record => m.record = Missing
=============================================================================
