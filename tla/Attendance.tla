------------------------------ MODULE Attendance ------------------------------
(***************************************************************************)
(* Attendance records, timesheets and payroll: attendance/                 *)
(* attendance.service.ts, for one work day in one pay period.              *)
(*                                                                         *)
(* Each handler is one action, except the synchronisation of an offline    *)
(* punch, which is three statements that other calls and crashes may fall  *)
(* between.  The minutes of a record are chosen when the code computes     *)
(* them from clock times.  Policies, geofences, devices, kiosk badges,     *)
(* exceptions, premiums and who may act for whom are left out; records are *)
(* never voided, because nothing in the repository voids them.             *)
(***************************************************************************)
EXTENDS Naturals, FiniteSets, FiniteSetsExt

CONSTANTS Clocker,          \* employees
          Shift,            \* schedule assignments,
          ShiftOf,          \* whose they are,
          Dropped,          \* and those cancelled, declined or missed
          RecordId, CorrectionId,
          Minutes,          \* payable minutes a record may come to
          MutationId,       \* clientMutationIds of offline punches
          SyncCall,         \* syncOfflinePunches calls at a time
          WishInput,        \* what corrections ask for
          MaxPayroll,       \* bound: payroll locks and exports
          Unscheduled, Missing, NoSync

\* A correction names a record, or a shift, or only the day.
Wish == [employee : Clocker, record : RecordId \cup {Missing}, shift : Shift \cup {Unscheduled},
         clockedIn : BOOLEAN, done : BOOLEAN, pay : Minutes \cup {0}]

RecordRow == [employee : Clocker, shift : Shift \cup {Unscheduled}, done : BOOLEAN,
              clockedIn : BOOLEAN, onBreak : BOOLEAN, pay : Minutes \cup {0}]

ASSUME AttendanceAssumption ==
  /\ ShiftOf \in [Shift -> Clocker] /\ Dropped \subseteq Shift
  /\ WishInput \subseteq Wish /\ Minutes \subseteq Nat /\ 0 \notin Minutes /\ MaxPayroll \in Nat
  /\ Unscheduled \notin Shift /\ IsFiniteSet(Shift) /\ IsFiniteSet(RecordId)
  /\ Missing \notin RecordId \cup {"PENDING", "APPLIED", "REJECTED"} /\ Missing \notin RecordRow

VARIABLES record,     \* AttendanceRecord rows
          correction, \* AttendanceCorrectionRequest rows
          offline,    \* AttendanceOfflinePunch.status
          applied,    \* punches recorded for an offline punch
          sync,       \* what a syncOfflinePunches call is doing
          sheet,      \* AttendanceTimesheet rows with their entries
          payroll     \* AttendancePayrollExport rows: employee -> entries paid

clockVars == <<record, correction, offline, applied, sync>>
attendanceVars == <<clockVars, sheet, payroll>>

PunchType == {"CLOCK_IN", "CLOCK_OUT", "BREAK_START", "BREAK_END"}
OfflineStatus == {"PENDING", "APPLIED", "REJECTED"}
CorrectionStatus == {"REQUESTED", "REJECTED", "CANCELLED", "APPLIED"}
SheetStatus == {"DRAFT", "SUBMITTED", "APPROVED", "REJECTED", "LOCKED", "REOPENED"}
FINAL_TIMESHEET_STATUSES == {"APPROVED", "LOCKED"}

EntryRow == [record : RecordId \cup {Missing}, shift : Shift \cup {Unscheduled},
             pay : Minutes \cup {0}]

AttendanceTypeOK ==
  /\ record \in [RecordId -> RecordRow \cup {Missing}]
  /\ correction \in [CorrectionId -> [wish : Wish, status : CorrectionStatus] \cup {Missing}]
  /\ offline \in [MutationId -> OfflineStatus \cup {Missing}]
  /\ applied \in [MutationId -> Nat]
  /\ sync \in [SyncCall -> [id : MutationId, stage : {"found", "created", "punched"}] \cup {NoSync}]
  /\ \A e \in Clocker : sheet[e] # Missing =>
       sheet[e].status \in SheetStatus /\ sheet[e].rows \subseteq EntryRow
  /\ \A p \in payroll : DOMAIN p \subseteq Clocker

AttendanceInit ==
  /\ record = [r \in RecordId |-> Missing]
  /\ correction = [c \in CorrectionId |-> Missing]
  /\ offline = [m \in MutationId |-> Missing] /\ applied = [m \in MutationId |-> 0]
  /\ sync = [s \in SyncCall |-> NoSync]
  /\ sheet = [e \in Clocker |-> Missing] /\ payroll = {}

RecordsOf(e) == {r \in RecordId : record[r] # Missing /\ record[r].employee = e}
ShiftsOf(e) == {s \in Shift : ShiftOf[s] = e}
IsFinal(e) == sheet[e] # Missing /\ sheet[e].status \in FINAL_TIMESHEET_STATUSES

----------------------------------------------------------------------------
\* Punches.

\* The record a punch goes to: any open one, or a new one on a shift of the
\* employee (the code looks for the next, the request may name one).
OpenRecords(e) == {r \in RecordsOf(e) : ~record[r].done}
FreshRecord(e, s) ==
  [employee |-> e, shift |-> s, done |-> FALSE, clockedIn |-> FALSE, onBreak |-> FALSE, pay |-> 0]

PunchFits(row, type) ==
  CASE type = "CLOCK_IN" -> ~row.clockedIn
    [] type = "CLOCK_OUT" -> row.clockedIn /\ ~row.onBreak
    [] type = "BREAK_START" -> row.clockedIn /\ ~row.onBreak
    [] type = "BREAK_END" -> row.clockedIn /\ row.onBreak

Punched(row, type, pay) ==
  CASE type = "CLOCK_IN" -> [row EXCEPT !.clockedIn = TRUE]
    [] type = "CLOCK_OUT" -> [row EXCEPT !.done = TRUE, !.pay = pay]
    [] type = "BREAK_START" -> [row EXCEPT !.onBreak = TRUE]
    [] type = "BREAK_END" -> [row EXCEPT !.onBreak = FALSE]

RecordPunch(e, type) ==
  \E pay \in Minutes :
    \/ \E r \in OpenRecords(e) :
         PunchFits(record[r], type) /\ record' = [record EXCEPT ![r] = Punched(@, type, pay)]
    \/ \E r \in RecordId, s \in ShiftsOf(e) \cup {Unscheduled} :
         /\ OpenRecords(e) = {} /\ record[r] = Missing /\ PunchFits(FreshRecord(e, s), type)
         /\ record' = [record EXCEPT ![r] = Punched(FreshRecord(e, s), type, pay)]

PunchRefused(e, type) ==
  \/ \E r \in OpenRecords(e) : ~PunchFits(record[r], type)
  \/ OpenRecords(e) = {} /\ type # "CLOCK_IN"

Punch(e, type) ==
  RecordPunch(e, type) /\ UNCHANGED <<correction, offline, applied, sync, sheet, payroll>>

\* syncOfflinePunch: the ledger row, unique in (tenant, clientMutationId), is
\* created first; a mutation that has one is only answered.
SyncFinds(c, m) ==
  /\ sync[c] = NoSync /\ offline[m] = Missing
  /\ sync' = [sync EXCEPT ![c] = [id |-> m, stage |-> "found"]]
  /\ UNCHANGED <<record, correction, offline, applied, sheet, payroll>>

\* Mutant: the row of another call is taken over.
SyncTakesOver(c) ==
  /\ sync[c] # NoSync /\ sync[c].stage = "found"
  /\ offline' = [offline EXCEPT ![sync[c].id] = "PENDING"]
  /\ sync' = [sync EXCEPT ![c].stage = "created"]
  /\ UNCHANGED <<record, correction, applied, sheet, payroll>>

\* A punch that is too old is rejected at once, and a second row fails.
SyncCreates(c) ==
  /\ sync[c] # NoSync /\ sync[c].stage = "found"
  /\ \/ /\ offline[sync[c].id] = Missing
        /\ \/ /\ offline' = [offline EXCEPT ![sync[c].id] = "PENDING"]
              /\ sync' = [sync EXCEPT ![c].stage = "created"]
           \/ /\ offline' = [offline EXCEPT ![sync[c].id] = "REJECTED"]
              /\ sync' = [sync EXCEPT ![c] = NoSync]
     \/ /\ offline[sync[c].id] # Missing /\ sync' = [sync EXCEPT ![c] = NoSync]
        /\ UNCHANGED offline
  /\ UNCHANGED <<record, correction, applied, sheet, payroll>>

SyncPunches(c, e, type) ==
  /\ sync[c] # NoSync /\ sync[c].stage = "created"
  /\ RecordPunch(e, type)
  /\ applied' = [applied EXCEPT ![sync[c].id] = @ + 1]
  /\ sync' = [sync EXCEPT ![c].stage = "punched"]
  /\ UNCHANGED <<correction, offline, sheet, payroll>>

\* The punch is refused, or it was recorded and the update that says so fails:
\* the catch block does not tell the two apart.
SyncRejects(c) ==
  /\ sync[c] # NoSync
  /\ \/ sync[c].stage = "created" /\ \E e \in Clocker, type \in PunchType : PunchRefused(e, type)
     \/ sync[c].stage = "punched"
  /\ offline' = [offline EXCEPT ![sync[c].id] = "REJECTED"]
  /\ sync' = [sync EXCEPT ![c] = NoSync]
  /\ UNCHANGED <<record, correction, applied, sheet, payroll>>

SyncApplies(c) ==
  /\ sync[c] # NoSync /\ sync[c].stage = "punched"
  /\ offline' = [offline EXCEPT ![sync[c].id] = "APPLIED"]
  /\ sync' = [sync EXCEPT ![c] = NoSync]
  /\ UNCHANGED <<record, correction, applied, sheet, payroll>>

SyncDies(c) ==
  /\ sync[c] # NoSync /\ sync' = [sync EXCEPT ![c] = NoSync]
  /\ UNCHANGED <<record, correction, offline, applied, sheet, payroll>>

----------------------------------------------------------------------------
\* Corrections by hand and by request.

\* assertRecordWritableForAdjustment: what is in a final timesheet stays.
Writable(r) == \A e \in Clocker : IsFinal(e) => \A n \in sheet[e].rows : n.record # r

\* The record that is corrected: the one named, or one of the shift, or one
\* of the day.
Target(w) ==
  IF w.record # Missing THEN {w.record}
  ELSE {r \in RecordsOf(w.employee) : w.shift = Unscheduled \/ record[r].shift = w.shift}

\* A completed record has its open breaks ended.
Corrected(w, row) ==
  [employee |-> w.employee, shift |-> w.shift, done |-> w.done, clockedIn |-> w.clockedIn,
   onBreak |-> row # Missing /\ row.onBreak /\ ~w.done,
   pay |-> IF w.clockedIn /\ w.done THEN w.pay ELSE 0]

Correct(w) ==
  \/ \E r \in Target(w) :
       Writable(r) /\ record' = [record EXCEPT ![r] = Corrected(w, record[r])]
  \/ \E r \in RecordId :
       /\ Target(w) = {} /\ record[r] = Missing
       /\ record' = [record EXCEPT ![r] = Corrected(w, Missing)]

\* A named record is the employee's and keeps its shift unless another is named.
Sensible(w) ==
  /\ w.shift # Unscheduled => ShiftOf[w.shift] = w.employee
  /\ w.record # Missing => /\ w.record \in RecordsOf(w.employee)
                           /\ w.shift = Unscheduled => record[w.record].shift = Unscheduled

CreateManualRecord(w) ==
  /\ Sensible(w) /\ Correct(w)
  /\ UNCHANGED <<correction, offline, applied, sync, sheet, payroll>>

CreateCorrectionRequest(c, w) ==
  /\ correction[c] = Missing /\ Sensible(w)
  /\ w.record # Missing =>
       \A d \in CorrectionId : correction[d] # Missing /\ correction[d].status = "REQUESTED" =>
         correction[d].wish.record # w.record
  /\ correction' = [correction EXCEPT ![c] = [wish |-> w, status |-> "REQUESTED"]]
  /\ UNCHANGED <<record, offline, applied, sync, sheet, payroll>>

DecideCorrectionRequest(c, st) ==
  /\ correction[c] # Missing /\ correction[c].status = "REQUESTED"
  /\ IF st = "APPLIED" THEN Correct(correction[c].wish) ELSE UNCHANGED record
  /\ correction' = [correction EXCEPT ![c].status = st]
  /\ UNCHANGED <<offline, applied, sync, sheet, payroll>>

\* runReconciliation links records to the shift nearest in time.  It asks
\* nothing of their timesheets.
RunReconciliation(matched, match) ==
  /\ \A r \in matched : /\ record[r] # Missing /\ match[r] \notin Dropped
                        /\ ShiftOf[match[r]] = record[r].employee /\ match[r] # record[r].shift
  /\ record' = [r \in RecordId |->
       IF r \in matched THEN [record[r] EXCEPT !.shift = match[r]] ELSE record[r]]
  /\ UNCHANGED <<correction, offline, applied, sync, sheet, payroll>>

----------------------------------------------------------------------------
\* Timesheets.

\* upsertTimesheetEntry: an entry that is looked for by what is known of it is
\* overwritten, or else a new one is added.  findFirst takes any.
Upserted(rows, known, new) ==
  IF known = {} THEN {rows \cup {new}} ELSE {(rows \ {n}) \cup {new} : n \in known}

\* Mutant: an entry that is there already is not found.
KnownNever(rows, r, s) == {}
KnownAs(rows, r, s) ==
  {n \in rows : (r # Missing => n.record = r) /\ (s # Unscheduled => n.shift = s)}

Entry(r, s) == [record |-> r, shift |-> s, pay |-> IF r = Missing THEN 0 ELSE record[r].pay]

\* The entries that may come out: one per shift, with a record of that shift
\* if there is one, and one per unscheduled record.  Entries of shifts or
\* records that are gone stay.
GeneratedRows(e, old) ==
  LET Upsert(r, s, acc) == UNION {Upserted(rows, KnownAs(rows, r, s), Entry(r, s)) : rows \in acc}
      On(s) == {r \in RecordsOf(e) : record[r].shift = s}
      ForShift(s, acc) == IF On(s) = {} THEN Upsert(Missing, s, acc)
                          ELSE UNION {Upsert(r, s, acc) : r \in On(s)}
      ForRecord(r, acc) == Upsert(r, Unscheduled, acc)
  IN FoldSet(ForRecord, FoldSet(ForShift, {old}, ShiftsOf(e) \ Dropped), On(Unscheduled))

GenerateTimesheet(e) ==
  /\ RecordsOf(e) # {} \/ ShiftsOf(e) \ Dropped # {}
  /\ ~IsFinal(e)
  /\ \E rows \in GeneratedRows(e, IF sheet[e] = Missing THEN {} ELSE sheet[e].rows) :
       sheet' = [sheet EXCEPT ![e] = [status |-> "DRAFT", rows |-> rows]]
  /\ UNCHANGED <<clockVars, payroll>>

SubmitTimesheet(e) ==
  /\ sheet[e] # Missing /\ ~IsFinal(e)
  /\ sheet' = [sheet EXCEPT ![e].status = "SUBMITTED"]
  /\ UNCHANGED <<clockVars, payroll>>

\* Any decision is taken at any time.
DecideTimesheet(e, st) ==
  /\ sheet[e] # Missing
  /\ sheet' = [sheet EXCEPT ![e].status = st]
  /\ UNCHANGED <<clockVars, payroll>>

\* The timesheets of one employee, or of all.
SheetsOf(scope) == {e \in scope : sheet[e] # Missing}
Scope == {{e} : e \in Clocker} \cup {Clocker}
Snapshot(scope) == [e \in SheetsOf(scope) |-> sheet[e].rows]

\* Mutant: a period is locked with timesheets that have only been submitted.
LockableSubmitted(e) == sheet[e].status \in {"SUBMITTED", "APPROVED", "LOCKED"}
Lockable(e) == sheet[e].status \in {"APPROVED", "LOCKED"}

LockPayrollPeriod(scope) ==
  /\ SheetsOf(scope) # {} /\ \A e \in SheetsOf(scope) : Lockable(e)
  /\ sheet' = [e \in Clocker |->
       IF e \in SheetsOf(scope) THEN [sheet[e] EXCEPT !.status = "LOCKED"] ELSE sheet[e]]
  /\ payroll' = payroll \cup {Snapshot(scope)}
  /\ UNCHANGED clockVars

ExportPayrollPeriod(scope) ==
  /\ SheetsOf(scope) # {} /\ \A e \in SheetsOf(scope) : sheet[e].status = "LOCKED"
  /\ payroll' = payroll \cup {Snapshot(scope)}
  /\ UNCHANGED <<clockVars, sheet>>

----------------------------------------------------------------------------
AttendanceNext ==
  \/ \E e \in Clocker, type \in PunchType :
       Punch(e, type) \/ \E c \in SyncCall : SyncPunches(c, e, type)
  \/ \E c \in SyncCall :
       \/ \E m \in MutationId : SyncFinds(c, m)
       \/ SyncCreates(c) \/ SyncRejects(c) \/ SyncApplies(c) \/ SyncDies(c)
  \/ \E w \in WishInput : CreateManualRecord(w) \/ \E c \in CorrectionId : CreateCorrectionRequest(c, w)
  \/ \E c \in CorrectionId, st \in CorrectionStatus \ {"REQUESTED"} : DecideCorrectionRequest(c, st)
  \/ \E matched \in SUBSET RecordId \ {{}} : \E match \in [matched -> Shift] :
       RunReconciliation(matched, match)
  \/ \E e \in Clocker :
       \/ GenerateTimesheet(e) \/ SubmitTimesheet(e)
       \/ \E st \in {"APPROVED", "REJECTED", "LOCKED", "REOPENED"} : DecideTimesheet(e, st)
  \/ /\ Cardinality(payroll) < MaxPayroll
     /\ \E scope \in Scope : LockPayrollPeriod(scope) \/ ExportPayrollPeriod(scope)

AttendanceSpec == AttendanceInit /\ [][AttendanceNext]_attendanceVars

----------------------------------------------------------------------------
\* Properties.

\* syncOfflinePunch is called again when an answer is lost, by two devices at
\* once, and after a crash: a queued punch is recorded at most once, and it
\* has been when the ledger says so.
OfflinePunchAppliedOnce ==
  \A m \in MutationId : applied[m] <= 1 /\ (offline[m] = "APPLIED" => applied[m] = 1)

\* assertRecordWritableForAdjustment: "This attendance record is in an approved
\* or locked timesheet. Reopen the timesheet before correcting the record."
\* The minutes and the shift of a record do not change under such a timesheet.
FinalRecordsUnchanged ==
  [][\A e \in Clocker : IsFinal(e) => \A n \in sheet[e].rows :
       n.record # Missing => record'[n.record] = record[n.record]]_attendanceVars
=============================================================================
