--------------------------- MODULE WorkTimeProofs ---------------------------
(***************************************************************************)
(* That a queued punch is recorded once, whatever calls synchronise it and *)
(* die; that payroll is handed what was decided, and no record twice; that *)
(* nobody is booked twice, a locked period stands and claimedHeadcount     *)
(* covers who is coming, when handlers take turns: for every number of     *)
(* employees, rows, calls and handlers.                                    *)
(***************************************************************************)
EXTENDS MCWorkTime, SumProofs, FiniteSetTheorems, TLAPS

----------------------------------------------------------------------------
(* Offline punches *)

\* A call that has created the row of a punch has it to itself: the punch is
\* recorded by no other, and nothing is said of it before.
HoldsRow(c) == sync[c] # NoSync /\ sync[c].stage \in {"created", "punched"}

SyncTyped ==
  /\ offline \in [MutationId -> OfflineStatus \cup {Missing}]
  /\ applied \in [MutationId -> Nat]
  /\ sync \in [SyncCall -> [id : MutationId, stage : {"found", "created", "punched"}] \cup {NoSync}]

SyncStands(c) ==
  HoldsRow(c) => /\ offline[sync[c].id] = "PENDING"
                 /\ applied[sync[c].id] = IF sync[c].stage = "punched" THEN 1 ELSE 0

PunchStands(m) ==
  /\ applied[m] <= 1
  /\ offline[m] = "APPLIED" => applied[m] = 1
  /\ offline[m] = Missing => applied[m] = 0

SyncInv ==
  /\ SyncTyped
  /\ \A c \in SyncCall : SyncStands(c)
  /\ \A c, d \in SyncCall : HoldsRow(c) /\ HoldsRow(d) /\ sync[c].id = sync[d].id => c = d
  /\ \A m \in MutationId : PunchStands(m)

\* A call that goes on: what it writes is of its own punch, unless somebody
\* else holds the row.
LEMMA SyncGoesOn ==
  ASSUME SyncInv, NEW c \in SyncCall, NEW m \in MutationId,
         NEW next \in [id : {m}, stage : {"found", "created", "punched"}] \cup {NoSync},
         sync' = [sync EXCEPT ![c] = next],
         NEW said \in OfflineStatus \cup {Missing}, NEW n \in Nat,
         offline' = [offline EXCEPT ![m] = said], applied' = [applied EXCEPT ![m] = n],
         \/ said = offline[m] /\ n = applied[m]
         \/ \A d \in SyncCall \ {c} : ~(HoldsRow(d) /\ sync[d].id = m),
         next # NoSync /\ next.stage \in {"created", "punched"} =>
           /\ \A d \in SyncCall \ {c} : ~(HoldsRow(d) /\ sync[d].id = m)
           /\ said = "PENDING" /\ n = IF next.stage = "punched" THEN 1 ELSE 0,
         n <= 1, said = "APPLIED" => n = 1, said = Missing => n = 0
  PROVE  SyncInv'
<1>1. /\ sync'[c] = next /\ \A d \in SyncCall \ {c} : sync'[d] = sync[d]
      /\ offline'[m] = said /\ applied'[m] = n
      /\ \A k \in MutationId \ {m} : offline'[k] = offline[k] /\ applied'[k] = applied[k]
  BY DEF SyncInv, SyncTyped
<1>2. SyncTyped'
  BY DEF SyncInv, SyncTyped
<1>3. \A k \in MutationId : PunchStands(k)'
  BY <1>1 DEF SyncInv, PunchStands
<1>4. next # NoSync => next.id = m
  OBVIOUS
<1>5. ASSUME NEW d \in SyncCall \ {c} PROVE SyncStands(d)'
  <2>1. /\ SyncStands(d) /\ (HoldsRow(d)' <=> HoldsRow(d)) /\ sync'[d] = sync[d]
    BY <1>1 DEF SyncInv, HoldsRow
  <2>2. HoldsRow(d) => sync[d].id \in MutationId
    BY DEF HoldsRow, SyncInv, SyncTyped
  <2> QED
    BY <1>1, <2>1, <2>2 DEF SyncStands
<1>6. SyncStands(c)'
  BY <1>1, <1>4 DEF SyncStands, HoldsRow
<1>7. ASSUME NEW d \in SyncCall, NEW e \in SyncCall, HoldsRow(d)', HoldsRow(e)', sync'[d].id = sync'[e].id
      PROVE  d = e
  BY <1>1, <1>4, <1>7 DEF SyncInv, HoldsRow
<1> QED
  BY <1>2, <1>3, <1>5, <1>6, <1>7 DEF SyncInv

\* Any other step leaves the punches alone, and a call only writes what is its own.
LEMMA SyncStep == SyncInv /\ [AttendanceNext]_attendanceVars => SyncInv'
<1> SUFFICES ASSUME SyncInv, [AttendanceNext]_attendanceVars PROVE SyncInv'
  OBVIOUS
<1> SyncTyped
  BY DEF SyncInv
<1>u. ASSUME offline' = offline, applied' = applied, sync' = sync PROVE SyncInv'
  BY <1>u DEF SyncInv, SyncTyped, SyncStands, HoldsRow, PunchStands
<1>m. ASSUME NEW c \in SyncCall, sync[c] # NoSync
      PROVE  /\ sync[c].id \in MutationId /\ sync[c].stage \in {"found", "created", "punched"}
             /\ sync[c] = [id |-> sync[c].id, stage |-> sync[c].stage]
  BY <1>m DEF SyncTyped
<1>h. ASSUME NEW c \in SyncCall, HoldsRow(c)
      PROVE  \A d \in SyncCall \ {c} : ~(HoldsRow(d) /\ sync[d].id = sync[c].id)
  BY <1>h DEF SyncInv
<1>p. \A m \in MutationId : PunchStands(m) /\ applied[m] \in Nat /\ offline[m] \in OfflineStatus \cup {Missing}
  BY DEF SyncInv, SyncTyped
<1>1. ASSUME NEW c \in SyncCall, NEW m \in MutationId, SyncFinds(c, m) PROVE SyncInv'
  <2> DEFINE next == [id |-> m, stage |-> "found"]
  <2>1. /\ sync' = [sync EXCEPT ![c] = next] /\ offline' = [offline EXCEPT ![m] = offline[m]]
        /\ applied' = [applied EXCEPT ![m] = applied[m]]
        /\ next \in [id : {m}, stage : {"found", "created", "punched"}] /\ next.stage = "found"
    BY <1>1 DEF SyncFinds, SyncTyped
  <2> HIDE DEF next
  <2> QED
    BY <1>p, <2>1, SyncGoesOn DEF PunchStands
<1>2. ASSUME NEW c \in SyncCall, SyncCreates(c) PROVE SyncInv'
  <2>1. PICK m \in MutationId : m = sync[c].id /\ sync[c] = [id |-> m, stage |-> "found"]
    BY <1>2, <1>m DEF SyncCreates
  <2>2. applied' = [applied EXCEPT ![m] = applied[m]]
    BY <1>2 DEF SyncCreates, SyncTyped
  <2>3. CASE offline[m] # Missing
    <3>1. sync' = [sync EXCEPT ![c] = NoSync] /\ offline' = [offline EXCEPT ![m] = offline[m]]
      BY <1>2, <2>1, <2>3 DEF SyncCreates, SyncTyped
    <3> QED
      BY <1>p, <2>2, <3>1, SyncGoesOn DEF PunchStands
  <2>4. CASE offline[m] = Missing
    <3>1. applied[m] = 0
      BY <1>p, <2>4 DEF PunchStands
    <3>2. \A d \in SyncCall \ {c} : ~(HoldsRow(d) /\ sync[d].id = m)
      BY <2>4, AttendanceAssumption DEF SyncInv, SyncStands
    <3>3. CASE sync' = [sync EXCEPT ![c] = NoSync] /\ offline' = [offline EXCEPT ![m] = "REJECTED"]
      <4>1. /\ "REJECTED" \in OfflineStatus \cup {Missing} /\ 0 \in Nat /\ 0 <= 1
            /\ "REJECTED" # Missing /\ applied' = [applied EXCEPT ![m] = 0]
        BY <2>2, <3>1, AttendanceAssumption DEF OfflineStatus
      <4> QED
        BY <3>2, <3>3, <4>1, SyncGoesOn
    <3>4. CASE /\ sync' = [sync EXCEPT ![c].stage = "created"]
               /\ offline' = [offline EXCEPT ![m] = "PENDING"]
      <4> DEFINE next == [id |-> m, stage |-> "created"]
      <4>1. next = [sync[c] EXCEPT !.stage = "created"]
        BY <2>1
      <4>2. sync' = [sync EXCEPT ![c] = next]
        BY <3>4, <4>1 DEF SyncTyped
      <4>3. /\ next.stage = "created" /\ next \in [id : {m}, stage : {"found", "created", "punched"}]
            /\ "PENDING" \in OfflineStatus \cup {Missing} /\ 0 \in Nat /\ 0 <= 1
            /\ "PENDING" # Missing /\ applied' = [applied EXCEPT ![m] = 0]
        BY <2>2, <3>1, AttendanceAssumption DEF OfflineStatus
      <4> HIDE DEF next
      <4> QED
        BY <3>2, <3>4, <4>2, <4>3, SyncGoesOn
    <3> QED
      BY <1>2, <2>1, <2>4, <3>3, <3>4 DEF SyncCreates
  <2> QED
    BY <2>3, <2>4
<1>3. ASSUME NEW c \in SyncCall, NEW e \in Clocker, NEW type \in PunchType, SyncPunches(c, e, type)
      PROVE  SyncInv'
  <2>1. PICK m \in MutationId : m = sync[c].id /\ sync[c] = [id |-> m, stage |-> "created"]
    BY <1>3, <1>m DEF SyncPunches
  <2> DEFINE next == [id |-> m, stage |-> "punched"]
  <2>2. sync' = [sync EXCEPT ![c] = next]
    <3>1. next = [sync[c] EXCEPT !.stage = "punched"]
      BY <2>1
    <3> QED
      BY <1>3, <3>1 DEF SyncPunches, SyncTyped
  <2>3. HoldsRow(c) /\ offline[m] = "PENDING" /\ applied[m] = 0
    <3>1. HoldsRow(c) /\ SyncStands(c)
      BY <1>3, <2>1 DEF SyncPunches, HoldsRow, SyncInv
    <3> QED
      BY <2>1, <3>1 DEF SyncStands
  <2>4. applied' = [applied EXCEPT ![m] = 1] /\ offline' = [offline EXCEPT ![m] = "PENDING"]
    <3>1. applied' = [applied EXCEPT ![m] = applied[m] + 1] /\ offline' = offline
      BY <1>3, <2>1 DEF SyncPunches
    <3> QED
      BY <2>3, <3>1 DEF SyncTyped
  <2>5. \A d \in SyncCall \ {c} : ~(HoldsRow(d) /\ sync[d].id = m)
    BY <1>h, <2>1, <2>3
  <2>6. /\ next.stage = "punched" /\ next \in [id : {m}, stage : {"found", "created", "punched"}]
        /\ "PENDING" \in OfflineStatus \cup {Missing} /\ 1 \in Nat /\ 1 <= 1 /\ "PENDING" # Missing
    BY AttendanceAssumption DEF OfflineStatus
  <2> HIDE DEF next
  <2> QED
    BY <2>2, <2>4, <2>5, <2>6, SyncGoesOn
<1>4. ASSUME NEW c \in SyncCall, HoldsRow(c), NEW said \in OfflineStatus,
             said = "APPLIED" => sync[c].stage = "punched",
             offline' = [offline EXCEPT ![sync[c].id] = said],
             sync' = [sync EXCEPT ![c] = NoSync], applied' = applied
      PROVE  SyncInv'
  <2>1. PICK m \in MutationId : m = sync[c].id
    BY <1>4, <1>m DEF HoldsRow
  <2>2. /\ \A d \in SyncCall \ {c} : ~(HoldsRow(d) /\ sync[d].id = m)
        /\ applied[m] <= 1 /\ (said = "APPLIED" => applied[m] = 1) /\ said # Missing
    <3>1. SyncStands(c)
      BY DEF SyncInv
    <3>2. said # Missing
      BY AttendanceAssumption DEF OfflineStatus
    <3> QED
      BY <1>4, <1>h, <1>p, <2>1, <3>1, <3>2 DEF SyncStands, PunchStands
  <2>3. applied' = [applied EXCEPT ![m] = applied[m]] /\ applied[m] \in Nat
    BY <1>4 DEF SyncTyped
  <2>4. said \in OfflineStatus \cup {Missing} /\ NoSync \in [id : {m}, stage : {"found", "created", "punched"}] \cup {NoSync}
    BY <1>4
  <2>5. /\ offline' = [offline EXCEPT ![m] = said] /\ sync' = [sync EXCEPT ![c] = NoSync]
        /\ said = Missing => applied[m] = 0
    BY <1>4, <2>1, <2>2
  <2> QED
    BY <2>2, <2>3, <2>4, <2>5, SyncGoesOn
<1>5. ASSUME NEW c \in SyncCall, SyncRejects(c) \/ SyncApplies(c) PROVE SyncInv'
  <2>1. HoldsRow(c) /\ "REJECTED" \in OfflineStatus /\ "APPLIED" \in OfflineStatus
    BY <1>5 DEF SyncRejects, SyncApplies, HoldsRow, OfflineStatus
  <2> QED
    BY <1>4, <1>5, <2>1 DEF SyncRejects, SyncApplies
<1>6. ASSUME NEW c \in SyncCall, SyncDies(c) PROVE SyncInv'
  <2>1. PICK m \in MutationId : m = sync[c].id
    BY <1>6, <1>m DEF SyncDies
  <2>2. /\ sync' = [sync EXCEPT ![c] = NoSync] /\ offline' = [offline EXCEPT ![m] = offline[m]]
        /\ applied' = [applied EXCEPT ![m] = applied[m]]
    BY <1>6 DEF SyncDies, SyncTyped
  <2> QED
    BY <1>p, <2>2, SyncGoesOn DEF PunchStands
<1>7. CASE UNCHANGED attendanceVars
  BY <1>u, <1>7 DEF attendanceVars, clockVars
<1>8. CASE AttendanceNext
  <2>1. ASSUME NEW e \in Clocker, NEW type \in PunchType,
               Punch(e, type) \/ \E c \in SyncCall : SyncPunches(c, e, type)
        PROVE  SyncInv'
    BY <1>u, <1>3, <2>1 DEF Punch
  <2>2. ASSUME NEW c \in SyncCall,
               \/ \E m \in MutationId : SyncFinds(c, m)
               \/ SyncCreates(c) \/ SyncRejects(c) \/ SyncApplies(c) \/ SyncDies(c)
        PROVE  SyncInv'
    BY <1>1, <1>2, <1>5, <1>6, <2>2
  <2>3. ASSUME NEW w \in WishInput,
               CreateManualRecord(w) \/ \E c \in CorrectionId : CreateCorrectionRequest(c, w)
        PROVE  SyncInv'
    BY <1>u, <2>3 DEF CreateManualRecord, CreateCorrectionRequest
  <2>4. ASSUME NEW c \in CorrectionId, NEW st \in CorrectionStatus \ {"REQUESTED"},
               DecideCorrectionRequest(c, st)
        PROVE  SyncInv'
    BY <1>u, <2>4 DEF DecideCorrectionRequest
  <2>5. ASSUME NEW matched, NEW match, RunReconciliation(matched, match) PROVE SyncInv'
    BY <1>u, <2>5 DEF RunReconciliation
  <2>6. ASSUME NEW e \in Clocker,
               \/ GenerateTimesheet(e) \/ SubmitTimesheet(e)
               \/ \E st \in {"APPROVED", "REJECTED", "LOCKED", "REOPENED"} : DecideTimesheet(e, st)
        PROVE  SyncInv'
    BY <1>u, <2>6 DEF GenerateTimesheet, SubmitTimesheet, DecideTimesheet, clockVars
  <2>7. ASSUME NEW scope, LockPayrollPeriod(scope) \/ ExportPayrollPeriod(scope) PROVE SyncInv'
    BY <1>u, <2>7 DEF LockPayrollPeriod, ExportPayrollPeriod, clockVars
  <2> QED
    BY <1>8, <2>1, <2>2, <2>3, <2>4, <2>5, <2>6, <2>7 DEF AttendanceNext
<1> QED
  BY <1>7, <1>8

\* syncOfflinePunch is called again when an answer is lost, by two devices at
\* once and after a crash: however many calls run and wherever they die, a
\* queued punch is recorded at most once, and it has been when the ledger says
\* APPLIED.  The unique (tenant, clientMutationId) of the row lets one call go on.
THEOREM QueuedPunchRecordedOnce == AttendanceSpec => []OfflinePunchAppliedOnce
<1>1. AttendanceInit => SyncInv
  BY AttendanceAssumption DEF AttendanceInit, SyncInv, SyncTyped, SyncStands, HoldsRow, PunchStands
<1>2. SyncInv => OfflinePunchAppliedOnce
  BY DEF SyncInv, PunchStands, OfflinePunchAppliedOnce
<1> QED
  BY <1>1, <1>2, SyncStep, PTL DEF AttendanceSpec

----------------------------------------------------------------------------
(* Payroll *)

\* A final timesheet says what it said when somebody made it final.
SignedInv ==
  /\ sheet = [e \in Clocker |-> sheet[e]]
  /\ \A e \in Clocker : sheet[e] # Missing => sheet[e] = [status |-> sheet[e].status, rows |-> sheet[e].rows]
  /\ \A e \in Clocker : IsFinal(e) => signedOff[e] = sheet[e].rows

\* What a step may do to the timesheet of an employee: leave it, decide it
\* without touching its entries, or write it anew, which ends in no final status.
Redone(e) == sheet'[e] = Missing \/ sheet'[e].status \notin FINAL_TIMESHEET_STATUSES
Decided(e) == sheet[e] # Missing /\ \E st \in SheetStatus : sheet'[e] = [sheet[e] EXCEPT !.status = st]

LEMMA SheetsGoOn ==
  ASSUME SignedInv, AttendanceNext
  PROVE  /\ sheet' = [e \in Clocker |-> sheet'[e]]
         /\ \A e \in Clocker :
              /\ sheet'[e] # Missing => sheet'[e] = [status |-> sheet'[e].status, rows |-> sheet'[e].rows]
              /\ \/ sheet'[e] = sheet[e]
                 \/ Decided(e) /\ (payroll' # payroll => IsFinal(e))
                 \/ Redone(e) /\ ~IsFinal(e)
<1> DEFINE Goal == /\ sheet' = [e \in Clocker |-> sheet'[e]]
                   /\ \A e \in Clocker :
                        /\ sheet'[e] # Missing => sheet'[e] = [status |-> sheet'[e].status, rows |-> sheet'[e].rows]
                        /\ \/ sheet'[e] = sheet[e]
                           \/ Decided(e) /\ (payroll' # payroll => IsFinal(e))
                           \/ Redone(e) /\ ~IsFinal(e)
<1>u. ASSUME sheet' = sheet PROVE Goal
  BY <1>u DEF SignedInv
<1>r. ASSUME NEW e \in Clocker, NEW st, NEW rows, sheet' = [sheet EXCEPT ![e] = [status |-> st, rows |-> rows]],
             \/ ~IsFinal(e) /\ st \notin FINAL_TIMESHEET_STATUSES
             \/ sheet[e] # Missing /\ rows = sheet[e].rows /\ st \in SheetStatus /\ payroll' = payroll
      PROVE  Goal
  <2>1. /\ sheet' = [d \in Clocker |-> sheet'[d]] /\ sheet'[e] = [status |-> st, rows |-> rows]
        /\ \A d \in Clocker \ {e} : sheet'[d] = sheet[d]
    BY <1>r DEF SignedInv
  <2>2. \/ Decided(e) /\ (payroll' # payroll => IsFinal(e))
        \/ Redone(e) /\ ~IsFinal(e)
    <3>1. CASE ~IsFinal(e) /\ st \notin FINAL_TIMESHEET_STATUSES
      BY <2>1, <3>1 DEF Redone
    <3>2. CASE sheet[e] # Missing /\ rows = sheet[e].rows /\ st \in SheetStatus /\ payroll' = payroll
      <4>1. sheet'[e] = [sheet[e] EXCEPT !.status = st]
        BY <2>1, <3>2 DEF SignedInv
      <4> QED
        BY <3>2, <4>1 DEF Decided
    <3> QED
      BY <1>r, <3>1, <3>2
  <2> QED
    BY <2>1, <2>2 DEF SignedInv
<1>s. ASSUME NEW e \in Clocker, sheet[e] # Missing, NEW st, sheet' = [sheet EXCEPT ![e].status = st]
      PROVE  sheet' = [sheet EXCEPT ![e] = [status |-> st, rows |-> sheet[e].rows]]
  <2>1. [sheet[e] EXCEPT !.status = st] = [status |-> st, rows |-> sheet[e].rows]
    BY <1>s DEF SignedInv
  <2>2. sheet' = [sheet EXCEPT ![e] = [sheet[e] EXCEPT !.status = st]]
    BY <1>s
  <2> QED
    BY <2>1, <2>2
<1>1. ASSUME NEW e \in Clocker, GenerateTimesheet(e) PROVE Goal
  <2>1. PICK rows : sheet' = [sheet EXCEPT ![e] = [status |-> "DRAFT", rows |-> rows]]
    BY <1>1 DEF GenerateTimesheet
  <2>2. ~IsFinal(e) /\ "DRAFT" \notin FINAL_TIMESHEET_STATUSES
    BY <1>1 DEF GenerateTimesheet, FINAL_TIMESHEET_STATUSES
  <2> QED
    BY <1>r, <2>1, <2>2
<1>2. ASSUME NEW e \in Clocker, SubmitTimesheet(e) PROVE Goal
  <2>1. sheet' = [sheet EXCEPT ![e] = [status |-> "SUBMITTED", rows |-> sheet[e].rows]]
    BY <1>s, <1>2 DEF SubmitTimesheet
  <2>2. ~IsFinal(e) /\ "SUBMITTED" \notin FINAL_TIMESHEET_STATUSES
    BY <1>2 DEF SubmitTimesheet, FINAL_TIMESHEET_STATUSES
  <2> QED
    BY <1>r, <2>1, <2>2
<1>3. ASSUME NEW e \in Clocker, NEW st \in {"APPROVED", "REJECTED", "LOCKED", "REOPENED"}, DecideTimesheet(e, st)
      PROVE  Goal
  <2>1. sheet' = [sheet EXCEPT ![e] = [status |-> st, rows |-> sheet[e].rows]]
    BY <1>s, <1>3 DEF DecideTimesheet
  <2>2. sheet[e] # Missing /\ st \in SheetStatus /\ payroll' = payroll
    BY <1>3 DEF DecideTimesheet, SheetStatus
  <2> QED
    BY <1>r, <2>1, <2>2
<1>4. ASSUME NEW scope \in Scope, LockPayrollPeriod(scope) PROVE Goal
  <2>1. sheet' = [e \in Clocker |->
           IF e \in SheetsOf(scope) THEN [sheet[e] EXCEPT !.status = "LOCKED"] ELSE sheet[e]]
    BY <1>4 DEF LockPayrollPeriod
  <2>2. ASSUME NEW e \in Clocker, e \in SheetsOf(scope)
        PROVE  /\ sheet'[e] = [status |-> sheet'[e].status, rows |-> sheet'[e].rows]
               /\ Decided(e) /\ IsFinal(e)
    <3>1. sheet[e] # Missing /\ sheet'[e] = [sheet[e] EXCEPT !.status = "LOCKED"]
      BY <2>1, <2>2 DEF SheetsOf
    <3>2. sheet'[e] = [status |-> "LOCKED", rows |-> sheet[e].rows]
      BY <3>1 DEF SignedInv
    <3>3. IsFinal(e)
      BY <1>4, <2>2, <3>1 DEF LockPayrollPeriod, Lockable, IsFinal, FINAL_TIMESHEET_STATUSES
    <3> QED
      BY <3>1, <3>2, <3>3 DEF Decided, SheetStatus
  <2>3. ASSUME NEW e \in Clocker, e \notin SheetsOf(scope) PROVE sheet'[e] = sheet[e]
    BY <2>1, <2>3
  <2>4. sheet' = [e \in Clocker |-> sheet'[e]]
    BY <2>1
  <2> QED
    BY <2>2, <2>3, <2>4 DEF SignedInv
<1> HIDE DEF Goal
<1>5. ASSUME NEW e \in Clocker,
             \/ GenerateTimesheet(e) \/ SubmitTimesheet(e)
             \/ \E st \in {"APPROVED", "REJECTED", "LOCKED", "REOPENED"} : DecideTimesheet(e, st)
      PROVE  Goal
  BY <1>1, <1>2, <1>3, <1>5
<1>6. ASSUME NEW scope \in Scope, LockPayrollPeriod(scope) \/ ExportPayrollPeriod(scope) PROVE Goal
  BY <1>u, <1>4, <1>6 DEF ExportPayrollPeriod
<1>7. ASSUME NEW e \in Clocker, NEW type \in PunchType,
             Punch(e, type) \/ \E c \in SyncCall : SyncPunches(c, e, type)
      PROVE  Goal
  BY <1>u, <1>7 DEF Punch, SyncPunches
<1>8. ASSUME NEW c \in SyncCall,
             \/ \E m \in MutationId : SyncFinds(c, m)
             \/ SyncCreates(c) \/ SyncRejects(c) \/ SyncApplies(c) \/ SyncDies(c)
      PROVE  Goal
  BY <1>u, <1>8 DEF SyncFinds, SyncCreates, SyncRejects, SyncApplies, SyncDies
<1>9. ASSUME NEW w \in WishInput,
             CreateManualRecord(w) \/ \E c \in CorrectionId : CreateCorrectionRequest(c, w)
      PROVE  Goal
  BY <1>u, <1>9 DEF CreateManualRecord, CreateCorrectionRequest
<1>10. ASSUME NEW c \in CorrectionId, NEW st \in CorrectionStatus \ {"REQUESTED"},
              DecideCorrectionRequest(c, st)
       PROVE  Goal
  BY <1>u, <1>10 DEF DecideCorrectionRequest
<1>11. ASSUME NEW matched, NEW match, RunReconciliation(matched, match) PROVE Goal
  BY <1>u, <1>11 DEF RunReconciliation
<1>12. Goal
  BY <1>5, <1>6, <1>7, <1>8, <1>9, <1>10, <1>11 DEF AttendanceNext
<1> QED
  BY <1>12 DEF Goal

\* What payroll is handed, and when.
LEMMA PayrollTakesFinal ==
  ASSUME SignedInv, AttendanceNext, NEW p \in payroll' \ payroll, NEW e \in DOMAIN p
  PROVE  p[e] = signedOff[e]
<1>1. ASSUME NEW scope \in Scope, payroll' = payroll \cup {Snapshot(scope)},
             \A d \in SheetsOf(scope) : IsFinal(d)
      PROVE  p[e] = signedOff[e]
  <2>1. p = Snapshot(scope)
    BY <1>1
  <2>2. e \in SheetsOf(scope) /\ p[e] = sheet[e].rows
    BY <2>1 DEF Snapshot
  <2>3. e \in Clocker
    BY <2>2 DEF SheetsOf, Scope
  <2> QED
    BY <1>1, <2>2, <2>3 DEF SignedInv
<1>2. ASSUME NEW scope \in Scope, LockPayrollPeriod(scope) PROVE p[e] = signedOff[e]
  <2>1. \A d \in SheetsOf(scope) : IsFinal(d)
    BY <1>2 DEF LockPayrollPeriod, SheetsOf, Lockable, IsFinal, FINAL_TIMESHEET_STATUSES
  <2>2. payroll' = payroll \cup {Snapshot(scope)}
    BY <1>2 DEF LockPayrollPeriod
  <2> QED
    BY <1>1, <2>1, <2>2
<1>3. ASSUME NEW scope \in Scope, ExportPayrollPeriod(scope) PROVE p[e] = signedOff[e]
  <2>1. \A d \in SheetsOf(scope) : IsFinal(d)
    BY <1>3 DEF ExportPayrollPeriod, SheetsOf, IsFinal, FINAL_TIMESHEET_STATUSES
  <2>2. payroll' = payroll \cup {Snapshot(scope)}
    BY <1>3 DEF ExportPayrollPeriod
  <2> QED
    BY <1>1, <2>1, <2>2
<1>4. ASSUME NEW d \in Clocker, NEW type \in PunchType,
             Punch(d, type) \/ \E c \in SyncCall : SyncPunches(c, d, type)
      PROVE  payroll' = payroll
  BY <1>4 DEF Punch, SyncPunches
<1>5. ASSUME NEW c \in SyncCall,
             \/ \E m \in MutationId : SyncFinds(c, m)
             \/ SyncCreates(c) \/ SyncRejects(c) \/ SyncApplies(c) \/ SyncDies(c)
      PROVE  payroll' = payroll
  BY <1>5 DEF SyncFinds, SyncCreates, SyncRejects, SyncApplies, SyncDies
<1>6. ASSUME NEW w \in WishInput,
             CreateManualRecord(w) \/ \E c \in CorrectionId : CreateCorrectionRequest(c, w)
      PROVE  payroll' = payroll
  BY <1>6 DEF CreateManualRecord, CreateCorrectionRequest
<1>7. ASSUME NEW c \in CorrectionId, NEW st \in CorrectionStatus \ {"REQUESTED"},
              DecideCorrectionRequest(c, st)
      PROVE  payroll' = payroll
  BY <1>7 DEF DecideCorrectionRequest
<1>8. ASSUME NEW matched, NEW match, RunReconciliation(matched, match) PROVE payroll' = payroll
  BY <1>8 DEF RunReconciliation
<1>9. ASSUME NEW d \in Clocker,
             \/ GenerateTimesheet(d) \/ SubmitTimesheet(d)
             \/ \E st \in {"APPROVED", "REJECTED", "LOCKED", "REOPENED"} : DecideTimesheet(d, st)
      PROVE  payroll' = payroll
  BY <1>9 DEF GenerateTimesheet, SubmitTimesheet, DecideTimesheet
<1> QED
  BY <1>2, <1>3, <1>4, <1>5, <1>6, <1>7, <1>8, <1>9 DEF AttendanceNext

LEMMA SignedStep == SignedInv /\ [MCNext]_mcVars => SignedInv'
<1> SUFFICES ASSUME SignedInv, [MCNext]_mcVars PROVE SignedInv'
  OBVIOUS
<1>1. ASSUME sheet' = sheet, signedOff' = signedOff PROVE SignedInv'
  BY <1>1 DEF SignedInv, IsFinal
<1>2. CASE UNCHANGED mcVars
  BY <1>1, <1>2 DEF mcVars, ghosts, attendanceVars
<1>3. CASE SchedulingStep
  BY <1>1, <1>3 DEF SchedulingStep, ghosts, attendanceVars
<1>4. CASE AttendanceStep
  <2>1. AttendanceNext /\ signedOff' = [e \in Clocker |-> SignedOff(e)]
    BY <1>4 DEF AttendanceStep
  <2>2. ASSUME NEW e \in Clocker, IsFinal(e)' PROVE signedOff'[e] = sheet'[e].rows
    <3>1. signedOff'[e] = IF ~IsFinal(e) /\ payroll' = payroll THEN sheet'[e].rows ELSE signedOff[e]
      BY <2>1, <2>2 DEF SignedOff
    <3>2. CASE ~IsFinal(e) /\ payroll' = payroll
      BY <3>1, <3>2
    <3>3. CASE IsFinal(e)
      <4>1. signedOff[e] = sheet[e].rows
        BY <3>3 DEF SignedInv
      <4>2. sheet'[e].rows = sheet[e].rows
        <5>1. sheet'[e] = sheet[e] \/ Decided(e)
          BY <2>1, <3>3, SheetsGoOn
        <5>2. ASSUME Decided(e) PROVE sheet'[e].rows = sheet[e].rows
          BY <5>2 DEF Decided, SignedInv
        <5> QED
          BY <5>1, <5>2
      <4> QED
        BY <3>1, <3>3, <4>1, <4>2
    <3>4. CASE ~IsFinal(e) /\ payroll' # payroll
      <4>1. sheet'[e] # Missing /\ sheet'[e].status \in FINAL_TIMESHEET_STATUSES
        BY <2>2 DEF IsFinal
      <4>2. sheet'[e] = sheet[e]
        BY <2>1, <3>4, <4>1, SheetsGoOn DEF Redone
      <4> QED
        BY <3>4, <4>1, <4>2 DEF IsFinal
    <3> QED
      BY <3>2, <3>3, <3>4
  <2> QED
    BY <2>1, <2>2, SheetsGoOn DEF SignedInv
<1> QED
  BY <1>2, <1>3, <1>4 DEF MCNext

\* lockPayrollPeriod and exportPayrollPeriod read the entries of the timesheets
\* again when they snapshot them: what payroll is handed are the entries that
\* stood when somebody made the timesheet final last.
THEOREM PayrollIsSignedOff == MCSpec => PaidAsDecided
<1>1. MCInit => SignedInv
  BY DEF MCInit, AttendanceInit, SignedInv, IsFinal
<1>2. SignedInv /\ [MCNext]_mcVars =>
        [\A p \in payroll' \ payroll : \A e \in DOMAIN p : p[e] = signedOff[e]]_mcVars
  <2> SUFFICES ASSUME SignedInv, MCNext
               PROVE  \A p \in payroll' \ payroll : \A e \in DOMAIN p : p[e] = signedOff[e]
    OBVIOUS
  <2>1. CASE SchedulingStep
    BY <2>1 DEF SchedulingStep, attendanceVars
  <2>2. CASE AttendanceStep
    BY <2>2, PayrollTakesFinal DEF AttendanceStep
  <2> QED
    BY <2>1, <2>2 DEF MCNext
<1> QED
  BY <1>1, <1>2, SignedStep, PTL DEF MCSpec, PaidAsDecided

----------------------------------------------------------------------------
(* Timesheet entries *)

RecordsTyped ==
  /\ record \in [RecordId -> RecordRow \cup {Missing}]
  /\ correction \in [CorrectionId -> [wish : Wish, status : CorrectionStatus] \cup {Missing}]

\* No record is in two entries, and an entry names the shift its record is of.
OneEach(rows) == \A m, n \in rows : m.record # Missing /\ m.record = n.record => m = n
Placed(rows) ==
  \A n \in rows : n.record # Missing =>
    n.record \in RecordId /\ record[n.record] # Missing /\ n.shift = record[n.record].shift

\* The entries that may come out of a generation that begins with old.
Entries(old) ==
  old \cup {Entry(r, s) : r \in RecordId \cup {Missing}, s \in Shift \cup {Unscheduled}}
Proper(old) == {rows \in SUBSET Entries(old) : OneEach(rows) /\ Placed(rows)}

\* upsertTimesheetEntry, for a record and its shift, or a shift without one.
Upsert(r, s, acc) == UNION {Upserted(rows, KnownAs(rows, r, s), Entry(r, s)) : rows \in acc}

LEMMA UpsertProper ==
  ASSUME NEW old, NEW r \in RecordId \cup {Missing}, NEW s \in Shift \cup {Unscheduled},
         r # Missing => record[r] # Missing /\ record[r].shift = s,
         NEW acc \in SUBSET Proper(old)
  PROVE  Upsert(r, s, acc) \in SUBSET Proper(old)
<1> SUFFICES ASSUME NEW rows \in acc, NEW out \in Upserted(rows, KnownAs(rows, r, s), Entry(r, s))
             PROVE  out \in Proper(old)
  BY DEF Upsert
<1> DEFINE new == Entry(r, s)
<1>1. new.record = r /\ new.shift = s /\ new \in Entries(old)
  BY DEF Entry, Entries
<1>2. rows \in SUBSET Entries(old) /\ OneEach(rows) /\ Placed(rows)
  BY DEF Proper
<1> HIDE DEF new
<1>3. \E kept \in SUBSET rows : out = kept \cup {new} /\ \A n \in kept : r # Missing => n.record # r
  <2>1. CASE KnownAs(rows, r, s) = {}
    <3>1. out = rows \cup {new}
      BY <2>1 DEF Upserted, new
    <3>2. \A n \in rows : r # Missing => n.record # r
      BY <1>2, <2>1 DEF KnownAs, Placed
    <3> QED
      BY <3>1, <3>2
  <2>2. CASE KnownAs(rows, r, s) # {}
    <3>1. PICK n \in KnownAs(rows, r, s) : out = (rows \ {n}) \cup {new}
      BY <2>2 DEF Upserted, new
    <3>2. n \in rows /\ (r # Missing => n.record = r)
      BY <3>1 DEF KnownAs
    <3>3. \A m \in rows \ {n} : r # Missing => m.record # r
      BY <1>2, <3>2 DEF OneEach
    <3> QED
      BY <3>1, <3>3
  <2> QED
    BY <2>1, <2>2
<1>4. PICK kept \in SUBSET rows : out = kept \cup {new} /\ \A n \in kept : r # Missing => n.record # r
  BY <1>3
<1>5. OneEach(out)
  BY <1>1, <1>2, <1>4 DEF OneEach
<1>6. Placed(out)
  BY <1>1, <1>2, <1>4 DEF Placed
<1> QED
  BY <1>1, <1>2, <1>4, <1>5, <1>6 DEF Proper

\* The two loops of generateTimesheet keep to proper entries.
LEMMA GeneratedProper ==
  ASSUME RecordsTyped, NEW e \in Clocker, NEW old, OneEach(old), Placed(old),
         NEW rows \in GeneratedRows(e, old)
  PROVE  OneEach(rows) /\ Placed(rows)
<1> DEFINE On(s) == {r \in RecordsOf(e) : record[r].shift = s}
           ForShift(s, acc) == IF On(s) = {} THEN Upsert(Missing, s, acc)
                               ELSE UNION {Upsert(r, s, acc) : r \in On(s)}
           ForRecord(r, acc) == Upsert(r, Unscheduled, acc)
           A == SUBSET Proper(old)
           S == ShiftsOf(e) \ Dropped
           R == On(Unscheduled)
           Shifts(k) == k = [t \in SUBSET S |-> IF t = {} THEN {old}
                                                ELSE ForShift(Taken(t), k[t \ {Taken(t)}])]
           Records(k, base) == k = [t \in SUBSET R |-> IF t = {} THEN base
                                                       ELSE ForRecord(Taken(t), k[t \ {Taken(t)}])]
           shifts == CHOOSE k : Shifts(k)
           records == CHOOSE k : Records(k, shifts[S])
<1>1. GeneratedRows(e, old) = records[R]
  BY Zenon DEF GeneratedRows, FoldSet, MapThenFoldSet, Taken, Upsert
<1>2. /\ IsFiniteSet(S) /\ IsFiniteSet(R) /\ S \subseteq Shift /\ R \subseteq RecordId
      /\ \A s \in S : s \in Shift \cup {Unscheduled}
  <2>1. S \subseteq Shift /\ R \subseteq RecordId
    BY DEF ShiftsOf, RecordsOf
  <2> HIDE DEF S, R
  <2> QED
    BY <2>1, FS_Subset, AttendanceAssumption
<1>3. ASSUME NEW s \in S, NEW acc \in A PROVE ForShift(s, acc) \in A
  <2>1. \A r \in On(s) : r \in RecordId /\ r # Missing /\ record[r] # Missing /\ record[r].shift = s
    BY AttendanceAssumption DEF RecordsOf
  <2>2. Upsert(Missing, s, acc) \in A
    BY <1>2, UpsertProper
  <2>3. \A r \in On(s) : Upsert(r, s, acc) \in A
    BY <1>2, <2>1, UpsertProper
  <2> HIDE DEF On
  <2> QED
    BY <2>2, <2>3
<1>4. ASSUME NEW r \in R, NEW acc \in A PROVE ForRecord(r, acc) \in A
  <2>1. r \in RecordId /\ r # Missing /\ record[r] # Missing /\ record[r].shift = Unscheduled
    BY AttendanceAssumption DEF RecordsOf
  <2> QED
    BY <2>1, UpsertProper
<1>5. {old} \in A
  BY DEF Proper, Entries
<1> HIDE DEF ForShift, ForRecord, A, S, R, On
<1>6. shifts[S] \in A
  <2> DEFINE F == [z \in S \X A |-> ForShift(z[1], z[2])]
  <2>1. F \in [S \X A -> A] /\ \A s \in S, a \in A : F[<<s, a>>] = ForShift(s, a)
    BY <1>3
  <2> HIDE DEF F
  <2>2. PICK g : Folds(g, F, {old}, S) /\ \A t \in SUBSET S : g[t] \in A
    <3>1. IsFiniteSet(S) /\ F \in [S \X A -> A]
      BY <1>2, <2>1
    <3> HIDE DEF Shifts, Records, records
    <3> QED
      BY <1>5, <3>1, FoldsWithin
  <2>3. Shifts(g)
    <3>1. g = [t \in SUBSET S |-> IF t = {} THEN {old} ELSE F[<<Taken(t), g[t \ {Taken(t)}]>>]]
      BY <2>2 DEF Folds
    <3>2. \A t \in SUBSET S : t # {} =>
            F[<<Taken(t), g[t \ {Taken(t)}]>>] = ForShift(Taken(t), g[t \ {Taken(t)}])
      BY <2>1, <2>2, TakenFrom
    <3> QED
      BY <3>1, <3>2
  <2>4. Shifts(shifts)
    BY <2>3
  <2> DEFINE G == {t \in SUBSET S : shifts[t] \in A}
  <2>5. ASSUME NEW t \in SUBSET S, \A x \in t : t \ {x} \in G PROVE t \in G
    <3> HIDE DEF shifts
    <3>1. CASE t = {}
      BY <1>5, <2>4, <3>1
    <3>2. CASE t # {}
      <4>1. Taken(t) \in S /\ shifts[t \ {Taken(t)}] \in A
        BY <2>5, <3>2, TakenFrom
      <4>2. shifts[t] = ForShift(Taken(t), shifts[t \ {Taken(t)}])
        BY <2>4, <3>2
      <4> QED
        BY <1>3, <4>1, <4>2
    <3> QED
      BY <3>1, <3>2
  <2> HIDE DEF G
  <2>6. \A t \in SUBSET S : t \in G
    BY <1>2, <2>5, SetInduction
  <2> QED
    BY <2>6 DEF G
<1> HIDE DEF shifts
<1>7. records[R] \in A
  <2> DEFINE F == [z \in R \X A |-> ForRecord(z[1], z[2])]
             base == shifts[S]
  <2>1. F \in [R \X A -> A] /\ \A r \in R, a \in A : F[<<r, a>>] = ForRecord(r, a)
    BY <1>4
  <2> HIDE DEF F
  <2>2. PICK g : Folds(g, F, base, R) /\ \A t \in SUBSET R : g[t] \in A
    <3>1. IsFiniteSet(R) /\ F \in [R \X A -> A] /\ base \in A
      BY <1>2, <1>6, <2>1
    <3> HIDE DEF Shifts, Records, records, base
    <3> QED
      BY <3>1, FoldsWithin
  <2>3. Records(g, base)
    <3>1. g = [t \in SUBSET R |-> IF t = {} THEN base ELSE F[<<Taken(t), g[t \ {Taken(t)}]>>]]
      BY <2>2 DEF Folds
    <3>2. \A t \in SUBSET R : t # {} =>
            F[<<Taken(t), g[t \ {Taken(t)}]>>] = ForRecord(Taken(t), g[t \ {Taken(t)}])
      BY <2>1, <2>2, TakenFrom
    <3> QED
      BY <3>1, <3>2
  <2>4. Records(records, base)
    BY <2>3
  <2> DEFINE G == {t \in SUBSET R : records[t] \in A}
  <2>5. ASSUME NEW t \in SUBSET R, \A x \in t : t \ {x} \in G PROVE t \in G
    <3> HIDE DEF records
    <3>1. CASE t = {}
      BY <1>6, <2>4, <3>1
    <3>2. CASE t # {}
      <4>1. Taken(t) \in R /\ records[t \ {Taken(t)}] \in A
        BY <2>5, <3>2, TakenFrom
      <4>2. records[t] = ForRecord(Taken(t), records[t \ {Taken(t)}])
        BY <2>4, <3>2
      <4> QED
        BY <1>4, <4>1, <4>2
    <3> QED
      BY <3>1, <3>2
  <2> HIDE DEF G
  <2>6. \A t \in SUBSET R : t \in G
    BY <1>2, <2>5, SetInduction
  <2> QED
    BY <2>6 DEF G
<1> HIDE DEF records
<1> QED
  BY <1>1, <1>7 DEF A, Proper

\* A step leaves the records records, and takes none away.
RecordsGoOn ==
  /\ record' \in [RecordId -> RecordRow \cup {Missing}]
  /\ \A r \in RecordId : record[r] # Missing => record'[r] # Missing

LEMMA RowWritten ==
  ASSUME RecordsTyped, NEW r, NEW row \in RecordRow, record' = [record EXCEPT ![r] = row]
  PROVE  RecordsGoOn
BY AttendanceAssumption DEF RecordsTyped, RecordsGoOn

LEMMA PunchTypes ==
  ASSUME RecordsTyped, NEW e \in Clocker, NEW type \in PunchType, RecordPunch(e, type)
  PROVE  RecordsGoOn
<1>1. ASSUME NEW row \in RecordRow, NEW pay \in Minutes PROVE Punched(row, type, pay) \in RecordRow
  BY DEF RecordRow, Punched, PunchType
<1>2. ASSUME NEW s \in ShiftsOf(e) \cup {Unscheduled} PROVE FreshRecord(e, s) \in RecordRow
  BY DEF RecordRow, FreshRecord, ShiftsOf
<1>3. ASSUME NEW pay \in Minutes, NEW r \in OpenRecords(e), record' = [record EXCEPT ![r] = Punched(@, type, pay)]
      PROVE  RecordsGoOn
  <2>1. record[r] \in RecordRow
    BY DEF OpenRecords, RecordsOf, RecordsTyped
  <2>2. Punched(record[r], type, pay) \in RecordRow
    BY <1>1, <2>1
  <2> QED
    BY <1>3, <2>2, RowWritten
<1>4. ASSUME NEW pay \in Minutes, NEW r \in RecordId, NEW s \in ShiftsOf(e) \cup {Unscheduled},
             record' = [record EXCEPT ![r] = Punched(FreshRecord(e, s), type, pay)]
      PROVE  RecordsGoOn
  BY <1>1, <1>2, <1>4, RowWritten
<1> QED
  BY <1>3, <1>4 DEF RecordPunch

LEMMA CorrectTypes ==
  ASSUME RecordsTyped, NEW w \in Wish, Correct(w)
  PROVE  RecordsGoOn
<1>1. ASSUME NEW row \in RecordRow \cup {Missing} PROVE Corrected(w, row) \in RecordRow
  <2>1. /\ w.employee \in Clocker /\ w.shift \in Shift \cup {Unscheduled} /\ w.done \in BOOLEAN
        /\ w.clockedIn \in BOOLEAN /\ w.pay \in Minutes \cup {0}
    BY DEF Wish
  <2> QED
    BY <2>1 DEF RecordRow, Corrected
<1>2. ASSUME NEW r \in Target(w) PROVE r \in RecordId
  BY <1>2 DEF Target, RecordsOf, Wish
<1>3. ASSUME NEW r \in Target(w), record' = [record EXCEPT ![r] = Corrected(w, record[r])] PROVE RecordsGoOn
  BY <1>1, <1>2, <1>3, RowWritten DEF RecordsTyped
<1>4. ASSUME NEW r \in RecordId, record' = [record EXCEPT ![r] = Corrected(w, Missing)] PROVE RecordsGoOn
  BY <1>1, <1>4, RowWritten
<1> QED
  BY <1>3, <1>4 DEF Correct

\* What the entries of a timesheet become.
EntriesGoOn(e) ==
  sheet'[e] # Missing =>
    \/ sheet[e] # Missing /\ sheet'[e].rows = sheet[e].rows
    \/ /\ record' = record
       /\ sheet'[e].rows \in GeneratedRows(e, IF sheet[e] = Missing THEN {} ELSE sheet[e].rows)

\* And payroll is handed no others.
PayrollGoesOn ==
  \A p \in payroll' \ payroll : \A e \in DOMAIN p :
    e \in Clocker /\ sheet[e] # Missing /\ p[e] = sheet[e].rows

LEMMA EntriesStep ==
  ASSUME SignedInv, RecordsTyped, AttendanceNext
  PROVE  RecordsTyped' /\ RecordsGoOn /\ (\A e \in Clocker : EntriesGoOn(e)) /\ PayrollGoesOn
<1> DEFINE Goal == RecordsTyped' /\ RecordsGoOn /\ (\A e \in Clocker : EntriesGoOn(e)) /\ PayrollGoesOn
<1>t. ASSUME RecordsGoOn, correction' \in [CorrectionId -> [wish : Wish, status : CorrectionStatus] \cup {Missing}],
             sheet' = sheet, payroll' = payroll
      PROVE  Goal
  BY <1>t DEF RecordsTyped, RecordsGoOn, EntriesGoOn, PayrollGoesOn
<1>c. correction \in [CorrectionId -> [wish : Wish, status : CorrectionStatus] \cup {Missing}]
  BY DEF RecordsTyped
<1>u. ASSUME record' = record PROVE RecordsGoOn
  BY <1>u DEF RecordsTyped, RecordsGoOn
<1>v. ASSUME UNCHANGED clockVars, \A e \in Clocker : EntriesGoOn(e), PayrollGoesOn PROVE Goal
  BY <1>u, <1>v DEF RecordsTyped, clockVars
<1> HIDE DEF Goal
<1>e. ASSUME NEW e \in Clocker, NEW st, NEW rows, sheet' = [sheet EXCEPT ![e] = [status |-> st, rows |-> rows]],
             UNCHANGED <<clockVars, payroll>>,
             \/ sheet[e] # Missing /\ rows = sheet[e].rows
             \/ rows \in GeneratedRows(e, IF sheet[e] = Missing THEN {} ELSE sheet[e].rows)
      PROVE  Goal
  <2>1. /\ sheet'[e] = [status |-> st, rows |-> rows] /\ \A d \in Clocker \ {e} : sheet'[d] = sheet[d]
        /\ record' = record /\ payroll' = payroll
    BY <1>e DEF SignedInv, clockVars
  <2>2. sheet'[e].rows = rows
    BY <2>1
  <2>3. EntriesGoOn(e)
    BY <1>e, <2>1, <2>2 DEF EntriesGoOn
  <2>4. \A d \in Clocker \ {e} : EntriesGoOn(d)
    BY <2>1 DEF EntriesGoOn
  <2>5. \A d \in Clocker : EntriesGoOn(d)
    BY <2>3, <2>4
  <2>6. PayrollGoesOn
    BY <2>1 DEF PayrollGoesOn
  <2> QED
    BY <1>v, <1>e, <2>5, <2>6
<1>s. ASSUME NEW e \in Clocker, sheet[e] # Missing, NEW st, sheet' = [sheet EXCEPT ![e].status = st],
             UNCHANGED <<clockVars, payroll>>
      PROVE  Goal
  <2>1. PICK rows : rows = sheet[e].rows
    OBVIOUS
  <2>2. [sheet[e] EXCEPT !.status = st] = [status |-> st, rows |-> rows]
    BY <1>s, <2>1 DEF SignedInv
  <2>3. sheet' = [sheet EXCEPT ![e] = [status |-> st, rows |-> rows]]
    BY <1>s, <2>2
  <2> QED
    BY <1>e, <1>s, <2>1, <2>3
<1>1. ASSUME NEW e \in Clocker, GenerateTimesheet(e) PROVE Goal
  <2>1. PICK rows \in GeneratedRows(e, IF sheet[e] = Missing THEN {} ELSE sheet[e].rows) :
          sheet' = [sheet EXCEPT ![e] = [status |-> "DRAFT", rows |-> rows]]
    BY <1>1 DEF GenerateTimesheet
  <2>2. UNCHANGED <<clockVars, payroll>>
    BY <1>1 DEF GenerateTimesheet
  <2> QED
    BY <1>e, <2>1, <2>2
<1>2. ASSUME NEW e \in Clocker, SubmitTimesheet(e) PROVE Goal
  BY <1>s, <1>2 DEF SubmitTimesheet
<1>3. ASSUME NEW e \in Clocker, NEW st, DecideTimesheet(e, st) PROVE Goal
  BY <1>s, <1>3 DEF DecideTimesheet
<1>p. ASSUME NEW scope \in Scope, payroll' \subseteq payroll \cup {Snapshot(scope)} PROVE PayrollGoesOn
  <2>1. SheetsOf(scope) \subseteq Clocker
    BY DEF SheetsOf, Scope
  <2>2. /\ DOMAIN Snapshot(scope) = SheetsOf(scope)
        /\ \A e \in SheetsOf(scope) : Snapshot(scope)[e] = sheet[e].rows /\ sheet[e] # Missing
    BY DEF Snapshot, SheetsOf
  <2>3. \A p \in payroll' \ payroll : p = Snapshot(scope)
    BY <1>p
  <2> QED
    BY <2>1, <2>2, <2>3 DEF PayrollGoesOn
<1>4. ASSUME NEW scope \in Scope, LockPayrollPeriod(scope) PROVE Goal
  <2>1. /\ sheet' = [e \in Clocker |->
              IF e \in SheetsOf(scope) THEN [sheet[e] EXCEPT !.status = "LOCKED"] ELSE sheet[e]]
        /\ payroll' = payroll \cup {Snapshot(scope)} /\ UNCHANGED clockVars
    BY <1>4 DEF LockPayrollPeriod
  <2>2. ASSUME NEW e \in Clocker PROVE EntriesGoOn(e)
    <3>1. CASE e \in SheetsOf(scope)
      <4>1. sheet[e] # Missing /\ sheet'[e] = [sheet[e] EXCEPT !.status = "LOCKED"]
        BY <2>1, <3>1 DEF SheetsOf
      <4>2. sheet'[e].rows = sheet[e].rows
        BY <4>1 DEF SignedInv
      <4> QED
        BY <4>1, <4>2 DEF EntriesGoOn
    <3>2. CASE e \notin SheetsOf(scope)
      <4>1. sheet'[e] = sheet[e]
        BY <2>1, <3>2
      <4> QED
        BY <4>1 DEF EntriesGoOn
    <3> QED
      BY <3>1, <3>2
  <2>3. PayrollGoesOn
    BY <1>p, <2>1
  <2> QED
    BY <1>v, <2>1, <2>2, <2>3
<1>5. ASSUME NEW scope \in Scope, ExportPayrollPeriod(scope) PROVE Goal
  <2>1. payroll' = payroll \cup {Snapshot(scope)} /\ UNCHANGED clockVars /\ sheet' = sheet
    BY <1>5 DEF ExportPayrollPeriod
  <2>2. \A e \in Clocker : EntriesGoOn(e)
    BY <2>1 DEF EntriesGoOn
  <2>3. PayrollGoesOn
    BY <1>p, <2>1
  <2> QED
    BY <1>v, <2>1, <2>2, <2>3
<1>6. ASSUME NEW e \in Clocker, NEW type \in PunchType,
             Punch(e, type) \/ \E c \in SyncCall : SyncPunches(c, e, type)
      PROVE  Goal
  BY <1>c, <1>t, <1>6, PunchTypes DEF Punch, SyncPunches
<1>7. ASSUME NEW c \in SyncCall,
             \/ \E m \in MutationId : SyncFinds(c, m)
             \/ SyncCreates(c) \/ SyncRejects(c) \/ SyncApplies(c) \/ SyncDies(c)
      PROVE  Goal
  <2>1. UNCHANGED <<record, correction, sheet, payroll>>
    BY <1>7 DEF SyncFinds, SyncCreates, SyncRejects, SyncApplies, SyncDies
  <2> QED
    BY <1>c, <1>t, <1>u, <2>1
<1>8. ASSUME NEW w \in WishInput, CreateManualRecord(w) PROVE Goal
  <2>1. w \in Wish /\ Correct(w) /\ UNCHANGED <<correction, sheet, payroll>>
    BY <1>8, AttendanceAssumption DEF CreateManualRecord
  <2> QED
    BY <1>c, <1>t, <2>1, CorrectTypes
<1>9. ASSUME NEW w \in WishInput, NEW c \in CorrectionId, CreateCorrectionRequest(c, w) PROVE Goal
  <2>1. /\ correction' = [correction EXCEPT ![c] = [wish |-> w, status |-> "REQUESTED"]]
        /\ w \in Wish /\ UNCHANGED <<record, sheet, payroll>>
    BY <1>9, AttendanceAssumption DEF CreateCorrectionRequest
  <2>2. [wish |-> w, status |-> "REQUESTED"] \in [wish : Wish, status : CorrectionStatus]
    BY <2>1 DEF CorrectionStatus
  <2> QED
    BY <1>c, <1>t, <1>u, <2>1, <2>2
<1>10. ASSUME NEW c \in CorrectionId, NEW st \in CorrectionStatus \ {"REQUESTED"},
              DecideCorrectionRequest(c, st)
       PROVE  Goal
  <2>1. /\ correction[c] \in [wish : Wish, status : CorrectionStatus]
        /\ correction' = [correction EXCEPT ![c].status = st] /\ UNCHANGED <<sheet, payroll>>
        /\ Correct(correction[c].wish) \/ record' = record
    BY <1>c, <1>10 DEF DecideCorrectionRequest
  <2>2. RecordsGoOn
    <3>1. correction[c].wish \in Wish
      BY <2>1
    <3> QED
      BY <1>u, <2>1, <3>1, CorrectTypes
  <2>3. [correction[c] EXCEPT !.status = st] \in [wish : Wish, status : CorrectionStatus]
    BY <2>1
  <2>4. correction' \in [CorrectionId -> [wish : Wish, status : CorrectionStatus] \cup {Missing}]
    BY <1>c, <2>1, <2>3
  <2> QED
    BY <1>t, <2>1, <2>2, <2>4
<1>11. ASSUME NEW matched \in SUBSET RecordId, NEW match \in [matched -> Shift], RunReconciliation(matched, match)
       PROVE  Goal
  <2>1. /\ record' = [r \in RecordId |->
              IF r \in matched THEN [record[r] EXCEPT !.shift = match[r]] ELSE record[r]]
        /\ \A r \in matched : record[r] # Missing
        /\ UNCHANGED <<correction, sheet, payroll>>
    BY <1>11 DEF RunReconciliation
  <2>2. ASSUME NEW r \in matched PROVE [record[r] EXCEPT !.shift = match[r]] \in RecordRow
    <3>1. record[r] \in RecordRow /\ match[r] \in Shift
      BY <2>1 DEF RecordsTyped
    <3> QED
      BY <3>1 DEF RecordRow
  <2>3. RecordsGoOn
    BY <2>1, <2>2, AttendanceAssumption DEF RecordsTyped, RecordsGoOn
  <2> QED
    BY <1>c, <1>t, <2>1, <2>3
<1>12. Goal
  BY <1>1, <1>2, <1>3, <1>4, <1>5, <1>6, <1>7, <1>8, <1>9, <1>10, <1>11 DEF AttendanceNext
<1> QED
  BY <1>12 DEF Goal

\* Until a record is moved.
PaidInv ==
  /\ SignedInv /\ RecordsTyped
  /\ ~moved =>
       /\ \A e \in Clocker : sheet[e] # Missing => OneEach(sheet[e].rows) /\ Placed(sheet[e].rows)
       /\ \A p \in payroll : \A e \in DOMAIN p : OneEach(p[e])

LEMMA PaidStep == PaidInv /\ [MCNext]_mcVars => PaidInv'
<1> SUFFICES ASSUME PaidInv, [MCNext]_mcVars PROVE PaidInv'
  OBVIOUS
<1>s. SignedInv'
  BY SignedStep DEF PaidInv
<1>1. ASSUME UNCHANGED <<ghosts, attendanceVars>> PROVE PaidInv'
  BY <1>1, <1>s DEF PaidInv, ghosts, attendanceVars, clockVars, RecordsTyped, OneEach, Placed
<1>2. CASE UNCHANGED mcVars
  BY <1>1, <1>2 DEF mcVars
<1>3. CASE SchedulingStep
  BY <1>1, <1>3 DEF SchedulingStep
<1>4. CASE AttendanceStep
  <2>1. ~moved /\ AttendanceNext /\ moved' = Moves
    BY <1>4 DEF AttendanceStep
  <2>2. RecordsTyped' /\ RecordsGoOn /\ (\A e \in Clocker : EntriesGoOn(e)) /\ PayrollGoesOn
    BY <2>1, EntriesStep DEF PaidInv
  <2>3. ASSUME ~moved' PROVE \A r \in RecordId : record[r] # Missing =>
                               record'[r] # Missing /\ record'[r].shift = record[r].shift
    BY <2>1, <2>2, <2>3 DEF Moves, RecordsGoOn
  <2>4. ASSUME NEW rows, Placed(rows), ~moved' PROVE Placed(rows)'
    BY <2>3, <2>4 DEF Placed
  <2>5. ASSUME NEW e \in Clocker, sheet'[e] # Missing, ~moved'
        PROVE  OneEach(sheet[e].rows)' /\ Placed(sheet[e].rows)'
    <3>1. PICK rows : rows = sheet'[e].rows
      OBVIOUS
    <3>2. OneEach(rows) /\ Placed(rows)
      <4>1. CASE sheet[e] # Missing /\ rows = sheet[e].rows
        BY <2>1, <4>1 DEF PaidInv
      <4>2. CASE rows \in GeneratedRows(e, IF sheet[e] = Missing THEN {} ELSE sheet[e].rows)
        <5>1. PICK old : old = IF sheet[e] = Missing THEN {} ELSE sheet[e].rows
          OBVIOUS
        <5>2. CASE sheet[e] = Missing
          BY <4>2, <5>1, <5>2, GeneratedProper DEF PaidInv, OneEach, Placed
        <5>3. CASE sheet[e] # Missing
          <6>1. OneEach(old) /\ Placed(old)
            BY <2>1, <5>1, <5>3 DEF PaidInv
          <6> QED
            BY <4>2, <5>1, <6>1, GeneratedProper DEF PaidInv
        <5> QED
          BY <5>2, <5>3
      <4> QED
        BY <2>2, <2>5, <3>1, <4>1, <4>2 DEF EntriesGoOn
    <3>3. Placed(rows)'
      BY <2>4, <2>5, <3>2
    <3> QED
      BY <3>1, <3>2, <3>3 DEF OneEach, Placed
  <2>6. ASSUME NEW p \in payroll', NEW e \in DOMAIN p, ~moved' PROVE OneEach(p[e])
    <3>1. CASE p \in payroll
      BY <2>1, <3>1 DEF PaidInv
    <3>2. CASE p \notin payroll
      BY <2>1, <2>2, <3>2 DEF PaidInv, PayrollGoesOn
    <3> QED
      BY <3>1, <3>2
  <2>7. ~moved' => \A p \in payroll' : \A e \in DOMAIN p : OneEach(p[e])'
    BY <2>6 DEF OneEach
  <2> QED
    BY <1>s, <2>2, <2>5, <2>7 DEF PaidInv
<1> QED
  BY <1>2, <1>3, <1>4 DEF MCNext

\* upsertTimesheetEntry looks for the entry of a record, or of a shift, before
\* it adds one, and the loops of generateTimesheet hand it every shift and
\* record in any order: however often the timesheets of any employees are
\* generated, and whatever is punched and corrected between, no record is in
\* two entries that are paid, until one is moved to another shift.
THEOREM PaidOnceHolds == MCSpec => []PaidOnce
<1>1. MCInit => PaidInv
  BY DEF MCInit, AttendanceInit, PaidInv, SignedInv, IsFinal, RecordsTyped
<1>2. PaidInv => PaidOnce
  BY DEF PaidInv, OneEach, PaidOnce
<1> QED
  BY <1>1, <1>2, PaidStep, PTL DEF MCSpec

----------------------------------------------------------------------------
(* Shifts, for handlers that take turns *)

Shaped(r) == r = [employee |-> r.employee, slot |-> r.slot, period |-> r.period, status |-> r.status]
SwapStands(r) ==
  /\ r = [assignment |-> r.assignment, requester |-> r.requester, target |-> r.target, status |-> r.status]
  /\ r.assignment \in AssignmentId /\ Shaped(assignment[r.assignment])

\* What a handler has read is still so when it commits.
TaskStands(p) ==
  /\ Doing(p, "period") => task[p].id \in PeriodId /\ period[task[p].id] \in {"DRAFT", "PUBLISHED"}
  /\ Doing(p, "claim") \/ Doing(p, "pickUp") => NoHardConflict(task[p].employee, task[p].row.slot, {})
  /\ (Doing(p, "claim") /\ ~task[p].row.pickupRequiresApproval) \/ Doing(p, "pickUp") =>
       PeriodWritable(task[p].row.period)
  /\ Doing(p, "unassign") => task[p].id \in AssignmentId /\ Exists(assignment, task[p].id)
  /\ Doing(p, "swapMove") \/ Doing(p, "swapClose") =>
       /\ task[p] = [op |-> task[p].op, id |-> task[p].id, status |-> task[p].status]
       /\ task[p].id \in SwapId /\ SwapStands(swap[task[p].id])

Tables ==
  /\ task = [p \in Scheduler |-> task[p]] /\ period = [k \in PeriodId |-> period[k]]
  /\ assignment = [a \in AssignmentId |-> assignment[a]] /\ swap = [w \in SwapId |-> swap[w]]

BookInv ==
  /\ Tables
  /\ \A p, q \in Scheduler : task[p] # Free /\ task[q] # Free => p = q
  /\ \A a \in AssignmentId : Exists(assignment, a) => Shaped(assignment[a])
  /\ \A w \in SwapId : Exists(swap, w) => SwapStands(swap[w])
  /\ \A p \in Scheduler : TaskStands(p)

\* What a step may do to an assignment: make it, change it, give it another
\* status, or take it back.
Makes(a, row) ==
  /\ ~Exists(assignment, a) /\ NoHardConflict(row.employee, row.slot, {}) /\ PeriodWritable(row.period)
Changes(a, row) ==
  /\ Shaped(assignment[a])
  /\ PeriodWritable(assignment[a].period) /\ PeriodWritable(row.period)
  /\ NoHardConflict(row.employee, row.slot, {a})
Ends(a, row) ==
  /\ Exists(assignment, a) /\ row = [assignment[a] EXCEPT !.status = "CANCELLED"]
SetsStatus(a, row) ==
  /\ Exists(assignment, a) /\ PeriodWritable(assignment[a].period)
  /\ row.employee = assignment[a].employee /\ row.slot = assignment[a].slot
  /\ row.period = assignment[a].period
OneAssignment(a, row) ==
  /\ assignment' = [assignment EXCEPT ![a] = row] /\ Shaped(row)
  /\ Makes(a, row) \/ Changes(a, row) \/ Ends(a, row) \/ SetsStatus(a, row)

\* updateAssignment: a patch over a row is a row.
LEMMA PatchedRow ==
  ASSUME NEW r, Shaped(r), NEW patch,
         "status" \notin DOMAIN patch
  PROVE  /\ Shaped(Patched(r, patch))
         /\ Patched(r, patch).status = r.status
         /\ Patched(r, patch).employee = IF "employee" \in DOMAIN patch THEN patch.employee ELSE r.employee
         /\ Patched(r, patch).slot = IF "slot" \in DOMAIN patch THEN patch.slot ELSE r.slot
         /\ Patched(r, patch).period = IF "period" \in DOMAIN patch THEN patch.period ELSE r.period
<1> DEFINE n == Patched(r, patch)
<1>1. DOMAIN r = {"employee", "slot", "period", "status"}
  BY DEF Shaped
<1>2. n = [x \in {"employee", "slot", "period", "status"} |-> IF x \in DOMAIN patch THEN patch[x] ELSE r[x]]
  BY <1>1 DEF Patched
<1> HIDE DEF n
<1>3. n = [employee |-> n.employee, slot |-> n.slot, period |-> n.period, status |-> n.status]
  BY <1>2
<1>4. /\ n.status = r.status
      /\ n.employee = IF "employee" \in DOMAIN patch THEN patch.employee ELSE r.employee
      /\ n.slot = IF "slot" \in DOMAIN patch THEN patch.slot ELSE r.slot
      /\ n.period = IF "period" \in DOMAIN patch THEN patch.period ELSE r.period
  BY <1>2
<1> QED
  BY <1>3, <1>4 DEF Shaped, n

LEMMA OverlapEitherWay == \A s, t : Overlap(s, t) <=> Overlap(t, s)
<1>1. \A s, t : {s, t} = {t, s}
  OBVIOUS
<1> QED
  BY <1>1 DEF Overlap

\* What the step of an assignment leaves as it was.
LEMMA OneAssignmentKeeps ==
  ASSUME Tables, NEW a \in AssignmentId, NEW row, OneAssignment(a, row)
  PROVE  /\ assignment'[a] = row /\ assignment' = [b \in AssignmentId |-> assignment'[b]]
         /\ \A b \in AssignmentId \ {a} : assignment'[b] = assignment[b]
         /\ \A b \in AssignmentId : Shaped(assignment[b]) => Shaped(assignment'[b])
<1>1. /\ assignment'[a] = row /\ assignment' = [b \in AssignmentId |-> assignment'[b]]
      /\ \A b \in AssignmentId \ {a} : assignment'[b] = assignment[b]
  BY DEF Tables, OneAssignment
<1>2. \A b \in AssignmentId : Shaped(assignment[b]) => Shaped(assignment'[b])
  BY <1>1 DEF OneAssignment
<1> QED
  BY <1>1, <1>2

\* A free shift is made, a change is checked against the others, a status that
\* brings nothing back moves nobody: nobody is booked twice.
LEMMA OneAssignmentBooksOnce ==
  ASSUME BookInv, NoDoubleBooking, NEW a \in AssignmentId, NEW row, OneAssignment(a, row), ~Revives(a)
  PROVE  NoDoubleBooking'
<1>1. /\ assignment'[a] = row /\ \A b \in AssignmentId \ {a} : assignment'[b] = assignment[b]
  BY OneAssignmentKeeps DEF BookInv
<1>2. \A b \in AssignmentId \ {a} : IsLive(b)' <=> IsLive(b)
  BY <1>1 DEF IsLive, Exists
<1>3. ASSUME NEW b \in AssignmentId \ {a}, IsLive(a)', IsLive(b), row.employee = assignment[b].employee
      PROVE  ~Overlap(row.slot, assignment[b].slot)
  <2>1. CASE Makes(a, row)
    BY <1>3, <2>1, OverlapEitherWay DEF Makes, NoHardConflict
  <2>2. CASE Changes(a, row)
    BY <1>3, <2>2, OverlapEitherWay DEF Changes, NoHardConflict
  <2>3. CASE Ends(a, row)
    <3>1. row.status = "CANCELLED"
      BY <2>3 DEF Ends, BookInv, Shaped
    <3> QED
      BY <1>1, <1>3, <3>1 DEF IsLive, TERMINAL_ASSIGNMENT_STATUSES
  <2>4. CASE SetsStatus(a, row)
    <3>1. IsLive(a)
      BY <1>3, <2>4 DEF SetsStatus, Revives
    <3> QED
      BY <1>3, <2>4, <3>1 DEF SetsStatus, NoDoubleBooking
  <2> QED
    BY <2>1, <2>2, <2>3, <2>4 DEF OneAssignment
<1>4. ASSUME NEW b \in AssignmentId, NEW d \in AssignmentId, b # d, IsLive(b)', IsLive(d)',
             assignment'[b].employee = assignment'[d].employee
      PROVE  ~Overlap(assignment'[b].slot, assignment'[d].slot)
  <2>1. CASE b = a
    BY <1>1, <1>2, <1>3, <1>4, <2>1
  <2>2. CASE d = a
    BY <1>1, <1>2, <1>3, <1>4, <2>2, OverlapEitherWay
  <2>3. CASE b # a /\ d # a
    BY <1>1, <1>2, <1>4, <2>3 DEF NoDoubleBooking
  <2> QED
    BY <2>1, <2>2, <2>3
<1> QED
  BY <1>4 DEF NoDoubleBooking, Overlap

\* Nothing is made in a locked period, nor moved into or out of one.
LEMMA OneAssignmentKeepsLocked ==
  ASSUME BookInv, NEW a \in AssignmentId, NEW row, OneAssignment(a, row), period' = period
  PROVE  KeepsLockedPeriods
<1>1. /\ assignment'[a] = row /\ \A b \in AssignmentId \ {a} : assignment'[b] = assignment[b]
  BY OneAssignmentKeeps DEF BookInv
<1> SUFFICES ASSUME NEW k \in PeriodId, period[k] = "LOCKED"
             PROVE  IF Exists(assignment, a) /\ assignment[a].period = k
                    THEN row \in {assignment[a], [assignment[a] EXCEPT !.status = "CANCELLED"]}
                    ELSE row # NoRow => row.period # k
  BY <1>1 DEF KeepsLockedPeriods, Exists
<1>2. ~PeriodWritable(k)
  BY DEF PeriodWritable
<1>3. CASE Makes(a, row)
  BY <1>2, <1>3 DEF Makes
<1>4. CASE Changes(a, row)
  BY <1>2, <1>4 DEF Changes
<1>5. CASE SetsStatus(a, row)
  BY <1>2, <1>5 DEF SetsStatus
<1>6. CASE Ends(a, row)
  <2>1. row.period = assignment[a].period
    BY <1>6 DEF Ends, BookInv, Shaped
  <2> QED
    BY <1>6, <2>1 DEF Ends
<1> QED
  BY <1>3, <1>4, <1>5, <1>6 DEF OneAssignment

\* A row whose status is written anew.
LEMMA StatusWritten ==
  ASSUME Tables, NEW a \in AssignmentId, Shaped(assignment[a]), NEW st,
         assignment' = [assignment EXCEPT ![a].status = st]
  PROVE  LET row == [assignment[a] EXCEPT !.status = st]
         IN /\ assignment' = [assignment EXCEPT ![a] = row] /\ Shaped(row) /\ row.status = st
            /\ row.employee = assignment[a].employee /\ row.slot = assignment[a].slot
            /\ row.period = assignment[a].period
<1> DEFINE row == [assignment[a] EXCEPT !.status = st]
<1>1. row = [employee |-> assignment[a].employee, slot |-> assignment[a].slot,
             period |-> assignment[a].period, status |-> st]
  BY DEF Shaped
<1>2. assignment' = [assignment EXCEPT ![a] = row]
  OBVIOUS
<1> HIDE DEF row
<1>3. /\ Shaped(row) /\ row.status = st
      /\ row.employee = assignment[a].employee /\ row.slot = assignment[a].slot
      /\ row.period = assignment[a].period
  BY <1>1 DEF Shaped
<1> QED
  BY <1>2, <1>3 DEF row

\* NewAssignment, of createAssignment and of an open shift that is taken up.
LEMMA NewAssignmentMakes ==
  ASSUME NEW a, NEW e, NEW s, NEW k, NewAssignment(a, e, s, k), PeriodWritable(k), NoHardConflict(e, s, {})
  PROVE  \E row : OneAssignment(a, row)
<1> DEFINE row == [employee |-> e, slot |-> s, period |-> k, status |-> "ASSIGNED"]
<1>1. OneAssignment(a, row)
  BY DEF OneAssignment, Makes, NewAssignment, Shaped
<1> QED
  BY <1>1

----------------------------------------------------------------------------
\* Every step does one thing to the assignments, or nothing.
Quiet == assignment' = assignment
Acts == \E a \in AssignmentId : \E row : OneAssignment(a, row)

LEMMA AllFree ==
  ASSUME TakingTurns, BookInv, Turn
  PROVE  task = [q \in Scheduler |-> Free]
BY DEF Turn, BookInv, Tables

LEMMA OthersFree ==
  ASSUME BookInv, NEW p \in Scheduler, task[p] # Free, Done(p)
  PROVE  task' = [q \in Scheduler |-> Free]
<1>1. \A q \in Scheduler : task'[q] = Free
  BY DEF Done, BookInv, Tables
<1>2. task' = [q \in Scheduler |-> task'[q]]
  BY DEF Done, BookInv, Tables
<1> QED
  BY <1>1, <1>2

LEMMA SwapsStand ==
  ASSUME Tables, Quiet \/ Acts, NEW r, SwapStands(r)
  PROVE  /\ r = [assignment |-> r.assignment, requester |-> r.requester, target |-> r.target, status |-> r.status]
         /\ r.assignment \in AssignmentId /\ Shaped(assignment'[r.assignment])
<1>1. CASE Quiet
  BY <1>1 DEF Quiet, SwapStands
<1>2. CASE Acts
  BY <1>2, OneAssignmentKeeps DEF Acts, SwapStands
<1> QED
  BY <1>1, <1>2

LEMMA AssignmentsStand ==
  ASSUME BookInv, Quiet \/ Acts
  PROVE  /\ assignment' = [a \in AssignmentId |-> assignment'[a]]
         /\ \A a \in AssignmentId : Exists(assignment, a)' => Shaped(assignment'[a])
<1>1. CASE Quiet
  BY <1>1 DEF Quiet, BookInv, Tables, Exists
<1>2. ASSUME NEW a \in AssignmentId, NEW row, OneAssignment(a, row)
      PROVE  /\ assignment' = [b \in AssignmentId |-> assignment'[b]]
             /\ \A b \in AssignmentId : Exists(assignment, b)' => Shaped(assignment'[b])
  <2>1. /\ assignment'[a] = row /\ assignment' = [b \in AssignmentId |-> assignment'[b]]
        /\ \A b \in AssignmentId \ {a} : assignment'[b] = assignment[b]
    BY <1>2, OneAssignmentKeeps DEF BookInv
  <2> QED
    BY <1>2, <2>1 DEF BookInv, Exists, OneAssignment
<1> QED
  BY <1>1, <1>2 DEF Acts

\* After a step that leaves no handler between its read and its commit.
LEMMA NobodyReading ==
  ASSUME BookInv, task' = [q \in Scheduler |-> Free], period' = [k \in PeriodId |-> period'[k]],
         Quiet \/ Acts,
         swap' = swap \/ \E w \in SwapId : \E r : swap' = [swap EXCEPT ![w] = r] /\ SwapStands(r)
  PROVE  BookInv'
<1>1. \A p \in Scheduler : TaskStands(p)'
  BY DEF TaskStands, Doing
<1>2. ASSUME NEW w \in SwapId, Exists(swap, w)' PROVE SwapStands(swap'[w])
  <2>1. CASE swap' = swap
    BY <1>2, <2>1 DEF BookInv, Exists
  <2>2. ASSUME NEW v \in SwapId, NEW r, swap' = [swap EXCEPT ![v] = r], SwapStands(r) PROVE SwapStands(swap'[w])
    <3>1. swap'[w] = IF w = v THEN r ELSE swap[w]
      BY <2>2 DEF BookInv, Tables
    <3> QED
      BY <1>2, <2>2, <3>1 DEF BookInv, Exists
  <2> QED
    BY <2>1, <2>2
<1>3. \A w \in SwapId : Exists(swap, w)' => SwapStands(swap[w])'
  BY <1>2, SwapsStand DEF BookInv, SwapStands, Shaped
<1>4. swap' = [w \in SwapId |-> swap'[w]]
  BY DEF BookInv, Tables
<1>5. Tables'
  BY <1>4, AssignmentsStand DEF Tables
<1>6. \A a \in AssignmentId : Exists(assignment, a)' => Shaped(assignment[a])'
  BY AssignmentsStand DEF Shaped
<1>7. \A p, q \in Scheduler : task'[p] # Free /\ task'[q] # Free => p = q
  OBVIOUS
<1> QED
  BY <1>1, <1>3, <1>5, <1>6, <1>7 DEF BookInv

\* A read changes nothing but what its handler knows.
LEMMA SomebodyReads ==
  ASSUME TakingTurns, BookInv, NEW p \in Scheduler, NEW t, Reads(p, t),
         period' = period, assignment' = assignment, swap' = swap,
         TaskStands(p)'
  PROVE  BookInv'
<1>1. /\ task' = [q \in Scheduler |-> task'[q]] /\ \A q \in Scheduler \ {p} : task'[q] = Free
  BY AllFree DEF Reads
<1>2. \A q \in Scheduler : TaskStands(q)'
  BY <1>1 DEF TaskStands, Doing
<1>3. Tables'
  BY <1>1 DEF BookInv, Tables
<1>4. \A a \in AssignmentId : Exists(assignment, a)' => Shaped(assignment[a])'
  BY DEF BookInv, Exists, Shaped
<1>5. \A w \in SwapId : Exists(swap, w)' => SwapStands(swap[w])'
  BY DEF BookInv, Exists, Shaped, SwapStands
<1>6. \A q, r \in Scheduler : task'[q] # Free /\ task'[r] # Free => q = r
  BY <1>1
<1> QED
  BY <1>2, <1>3, <1>4, <1>5, <1>6 DEF BookInv

\* What a reading handler knows when it has read.
LEMMA Knows ==
  ASSUME TakingTurns, BookInv, NEW p \in Scheduler, NEW t, Reads(p, t)
  PROVE  task'[p] = t
BY DEF Reads, BookInv, Tables

LEMMA PeriodReadBooks ==
  ASSUME TakingTurns, BookInv, NEW p \in Scheduler, NEW k \in PeriodId, NEW st, PeriodRead(p, k, st)
  PROVE  BookInv'
<1> DEFINE t == [op |-> "period", id |-> k, status |-> st]
<1>1. Reads(p, t) /\ UNCHANGED <<period, assignment, swap>> /\ period[k] \in {"DRAFT", "PUBLISHED"}
  BY DEF PeriodRead
<1>2. task'[p] = t /\ t.op = "period" /\ t.id = k
  BY <1>1, Knows
<1> HIDE DEF t
<1>3. TaskStands(p)'
  BY <1>1, <1>2 DEF TaskStands, Doing
<1> QED
  BY <1>1, <1>3, SomebodyReads

LEMMA UpdateOpenShiftReadBooks ==
  ASSUME TakingTurns, BookInv, NEW p \in Scheduler, NEW o, NEW patch, UpdateOpenShiftRead(p, o, patch)
  PROVE  BookInv'
<1>1. PICK t : /\ Reads(p, t) /\ t.op = "updateOpen" /\ UNCHANGED <<period, assignment, swap>>
  BY DEF UpdateOpenShiftRead
<1>2. task'[p] = t
  BY <1>1, Knows
<1>3. TaskStands(p)'
  BY <1>1, <1>2 DEF TaskStands, Doing
<1> QED
  BY <1>1, <1>3, SomebodyReads

LEMMA ClaimReadBooks ==
  ASSUME TakingTurns, BookInv, NEW p \in Scheduler, NEW o, NEW e, ClaimRead(p, o, e) \/ PickUpRead(p, o, e)
  PROVE  BookInv'
<1>1. PICK t : /\ Reads(p, t) /\ t.op \in {"claim", "pickUp"} /\ UNCHANGED <<period, assignment, swap, away>>
               /\ NoHardConflict(t.employee, t.row.slot, {})
               /\ t.op = "pickUp" \/ ~t.row.pickupRequiresApproval => PeriodWritable(t.row.period)
  <2>1. CASE ClaimRead(p, o, e)
    <3> DEFINE t == [op |-> "claim", id |-> o, employee |-> e, row |-> openShift[o]]
    <3>1. /\ Reads(p, t) /\ UNCHANGED <<period, assignment, swap, away>> /\ NoHardConflict(e, openShift[o].slot, {})
          /\ ~openShift[o].pickupRequiresApproval => PeriodWritable(openShift[o].period)
      BY <2>1 DEF ClaimRead, EligibleFor
    <3>2. t.op = "claim" /\ t.employee = e /\ t.row = openShift[o]
      OBVIOUS
    <3> HIDE DEF t
    <3> QED
      BY <3>1, <3>2
  <2>2. CASE PickUpRead(p, o, e)
    <3> DEFINE t == [op |-> "pickUp", id |-> o, employee |-> e, row |-> openShift[o],
                     new |-> claim[o][e] = NoRow]
    <3>1. /\ Reads(p, t) /\ UNCHANGED <<period, assignment, swap, away>> /\ NoHardConflict(e, openShift[o].slot, {})
          /\ PeriodWritable(openShift[o].period)
      BY <2>2 DEF PickUpRead, EligibleFor
    <3>2. t.op = "pickUp" /\ t.employee = e /\ t.row = openShift[o]
      OBVIOUS
    <3> HIDE DEF t
    <3> QED
      BY <3>1, <3>2
  <2> QED
    BY <2>1, <2>2
<1>2. task'[p] = t
  BY <1>1, Knows
<1>3. /\ NoHardConflict(t.employee, t.row.slot, {})'
      /\ t.op = "pickUp" \/ ~t.row.pickupRequiresApproval => PeriodWritable(t.row.period)'
  BY <1>1 DEF NoHardConflict, IsLive, Exists, PeriodWritable
<1>4. TaskStands(p)'
  BY <1>1, <1>2, <1>3 DEF TaskStands, Doing
<1> QED
  BY <1>1, <1>4, SomebodyReads

LEMMA UnassignReadBooks ==
  ASSUME TakingTurns, BookInv, NEW p \in Scheduler, NEW a \in AssignmentId, NEW mode, UnassignRead(p, a, mode)
  PROVE  BookInv'
<1>1. PICK t : /\ Reads(p, t) /\ t.op = "unassign" /\ t.id = a /\ UNCHANGED <<period, assignment, swap>>
               /\ Exists(assignment, a)
  BY DEF UnassignRead
<1>2. task'[p] = t
  BY <1>1, Knows
<1>3. TaskStands(p)'
  BY <1>1, <1>2 DEF TaskStands, Doing, Exists
<1> QED
  BY <1>1, <1>3, SomebodyReads

LEMMA DecideSwapReadBooks ==
  ASSUME TakingTurns, BookInv, NEW p \in Scheduler, NEW w \in SwapId, NEW st, DecideSwapRead(p, w, st)
  PROVE  BookInv'
<1>1. PICK op \in {"swapMove", "swapClose"} : \E status :
        /\ Reads(p, [op |-> op, id |-> w, status |-> status])
        /\ UNCHANGED <<period, assignment, swap>> /\ Exists(swap, w)
  BY DEF DecideSwapRead
<1>2. PICK t : /\ Reads(p, t) /\ t.op = op /\ t.id = w /\ t = [op |-> t.op, id |-> t.id, status |-> t.status]
               /\ UNCHANGED <<period, assignment, swap>> /\ SwapStands(swap[w])
  BY <1>1 DEF BookInv
<1>3. task'[p] = t
  BY <1>2, Knows
<1>4. SwapStands(swap[w])'
  BY <1>2 DEF SwapStands, Shaped
<1>5. TaskStands(p)'
  BY <1>2, <1>3, <1>4 DEF TaskStands, Doing
<1> QED
  BY <1>2, <1>5, SomebodyReads

----------------------------------------------------------------------------
\* The steps that write assignments.

LEMMA CreateAssignmentActs ==
  ASSUME NEW a \in AssignmentId, NEW e, NEW s, NEW k, CreateAssignment(a, e, s, k)
  PROVE  Acts
BY NewAssignmentMakes DEF CreateAssignment, Acts

LEMMA UpdateAssignmentActs ==
  ASSUME BookInv, NEW a \in AssignmentId, NEW patch \in AssignmentPatch, UpdateAssignment(a, patch)
  PROVE  Acts
<1> DEFINE row == Patched(assignment[a], patch)
<1>1. Shaped(assignment[a])
  BY DEF UpdateAssignment, BookInv
<1>2. "status" \notin DOMAIN patch
  BY DEF AssignmentPatch
<1>3. Shaped(row)
  BY <1>1, <1>2, PatchedRow
<1>4. /\ PeriodWritable(assignment[a].period) /\ PeriodWritable(row.period)
      /\ NoHardConflict(row.employee, row.slot, {a}) /\ assignment' = [assignment EXCEPT ![a] = row]
  BY DEF UpdateAssignment, Patchable
<1> HIDE DEF row
<1> QED
  BY <1>1, <1>3, <1>4 DEF Acts, OneAssignment, Changes

LEMMA UpdateAssignmentStatusActs ==
  ASSUME BookInv, NEW a \in AssignmentId, NEW st, UpdateAssignmentStatus(a, st)
  PROVE  Acts
<1> DEFINE row == [assignment[a] EXCEPT !.status = st]
<1>1. /\ Exists(assignment, a) /\ PeriodWritable(assignment[a].period) /\ Tables
      /\ assignment' = [assignment EXCEPT ![a].status = st] /\ Shaped(assignment[a])
  BY DEF UpdateAssignmentStatus, BookInv
<1>2. /\ assignment' = [assignment EXCEPT ![a] = row] /\ Shaped(row)
      /\ row.employee = assignment[a].employee /\ row.slot = assignment[a].slot
      /\ row.period = assignment[a].period
  BY <1>1, StatusWritten
<1> HIDE DEF row
<1> QED
  BY <1>1, <1>2 DEF Acts, OneAssignment, SetsStatus

LEMMA TakeUpActs ==
  ASSUME BookInv, NEW p \in Scheduler, NEW a \in AssignmentId,
         ClaimCommit(p, a) \/ PickUpCommit(p, a)
  PROVE  Quiet \/ Acts
<1>1. TaskStands(p)
  BY DEF BookInv
<1>2. CASE ClaimCommit(p, a) /\ ~task[p].row.pickupRequiresApproval
  <2>1. /\ NewAssignment(a, task[p].employee, task[p].row.slot, task[p].row.period)
        /\ PeriodWritable(task[p].row.period) /\ NoHardConflict(task[p].employee, task[p].row.slot, {})
    BY <1>1, <1>2 DEF ClaimCommit, TakeUp, TaskStands
  <2> QED
    BY <2>1, NewAssignmentMakes DEF Acts
<1>3. CASE ClaimCommit(p, a) /\ task[p].row.pickupRequiresApproval
  BY <1>3 DEF ClaimCommit, Quiet
<1>4. CASE PickUpCommit(p, a)
  <2>1. /\ NewAssignment(a, task[p].employee, task[p].row.slot, task[p].row.period)
        /\ PeriodWritable(task[p].row.period) /\ NoHardConflict(task[p].employee, task[p].row.slot, {})
    BY <1>1, <1>4 DEF PickUpCommit, TakeUp, TaskStands
  <2> QED
    BY <2>1, NewAssignmentMakes DEF Acts
<1> QED
  BY <1>2, <1>3, <1>4

LEMMA UnassignCommitActs ==
  ASSUME BookInv, NEW p \in Scheduler, UnassignCommit(p)
  PROVE  Acts
<1>1. PICK a \in AssignmentId : a = task[p].id /\ Exists(assignment, a)
  <2>1. TaskStands(p)
    BY DEF BookInv
  <2> QED
    BY <2>1 DEF UnassignCommit, TaskStands
<1> DEFINE row == [assignment[a] EXCEPT !.status = "CANCELLED"]
<1>2. /\ Tables /\ assignment' = [assignment EXCEPT ![a].status = "CANCELLED"] /\ Shaped(assignment[a])
  BY <1>1 DEF UnassignCommit, BookInv
<1>3. assignment' = [assignment EXCEPT ![a] = row] /\ Shaped(row)
  BY <1>2, StatusWritten
<1>4. Ends(a, row)
  BY <1>1 DEF Ends
<1> HIDE DEF row
<1> QED
  BY <1>3, <1>4 DEF Acts, OneAssignment

LEMMA SwapMoveActs ==
  ASSUME BookInv, NEW p \in Scheduler, SwapMove(p)
  PROVE  Acts
<1> DEFINE s == swap[task[p].id]
           a == s.assignment
           patch == [employee |-> s.target]
           row == [assignment[a] EXCEPT !.employee = s.target]
           new == Patched(assignment[a], patch)
<1>1. a \in AssignmentId /\ Shaped(assignment[a])
  <2>1. TaskStands(p)
    BY DEF BookInv
  <2> QED
    BY <2>1 DEF SwapMove, TaskStands, SwapStands
<1>2. /\ Shaped(new) /\ new.status = assignment[a].status /\ new.employee = s.target
      /\ new.slot = assignment[a].slot /\ new.period = assignment[a].period
  <2>1. DOMAIN patch = {"employee"} /\ patch.employee = s.target
    OBVIOUS
  <2>2. "status" \notin DOMAIN patch
    BY <2>1
  <2> HIDE DEF patch
  <2> QED
    BY <1>1, <2>1, <2>2, PatchedRow
<1>3. /\ Patchable(a, patch) /\ assignment' = [assignment EXCEPT ![a].employee = s.target]
  BY DEF SwapMove
<1>4. /\ PeriodWritable(assignment[a].period) /\ PeriodWritable(new.period)
      /\ NoHardConflict(new.employee, new.slot, {a})
  BY <1>3 DEF Patchable
<1>5. row = [employee |-> s.target, slot |-> assignment[a].slot, period |-> assignment[a].period,
             status |-> assignment[a].status]
  BY <1>1 DEF Shaped
<1>6. assignment' = [assignment EXCEPT ![a] = row]
  BY <1>3
<1> HIDE DEF s, a, patch, row, new
<1>7. /\ Shaped(row) /\ row.employee = new.employee /\ row.slot = new.slot /\ row.period = new.period
  BY <1>2, <1>5 DEF Shaped
<1> QED
  BY <1>1, <1>4, <1>6, <1>7 DEF Acts, OneAssignment, Changes

----------------------------------------------------------------------------
LEMMA SwapMoveBooks ==
  ASSUME BookInv, NEW p \in Scheduler, SwapMove(p)
  PROVE  BookInv'
<1>1. /\ task[p] = [op |-> task[p].op, id |-> task[p].id, status |-> task[p].status]
      /\ task[p].id \in SwapId /\ SwapStands(swap[task[p].id]) /\ task[p] # Free
  <2>1. TaskStands(p)
    BY DEF BookInv
  <2> QED
    BY <2>1 DEF SwapMove, TaskStands, Doing
<1>2. Acts /\ UNCHANGED <<period, swap>> /\ task' = [task EXCEPT ![p].op = "swapClose"]
  BY SwapMoveActs DEF SwapMove
<1> DEFINE t == [op |-> "swapClose", id |-> task[p].id, status |-> task[p].status]
<1>3. t.op = "swapClose" /\ t.id = task[p].id /\ t = [op |-> t.op, id |-> t.id, status |-> t.status]
  OBVIOUS
<1>4. task' = [task EXCEPT ![p] = t]
  <2>1. [task[p] EXCEPT !.op = "swapClose"] = t
    BY <1>1, <1>3
  <2> QED
    BY <1>2, <2>1
<1> HIDE DEF t
<1>5. /\ task' = [q \in Scheduler |-> task'[q]] /\ task'[p] = t
      /\ \A q \in Scheduler \ {p} : task'[q] = Free
  BY <1>1, <1>4 DEF BookInv, Tables
<1>6. ASSUME NEW w \in SwapId, SwapStands(swap[w]) PROVE SwapStands(swap[w])'
  BY <1>2, <1>6, SwapsStand DEF BookInv, SwapStands, Shaped
<1>7. \A q \in Scheduler : TaskStands(q)'
  <2>1. task'[p].id \in SwapId /\ SwapStands(swap[task'[p].id])
    BY <1>1, <1>3, <1>5
  <2>2. PICK w \in SwapId : w = task'[p].id /\ SwapStands(swap[w])'
    BY <1>6, <2>1
  <2>3. TaskStands(p)'
    BY <1>3, <1>5, <2>2 DEF TaskStands, Doing
  <2> QED
    BY <1>5, <2>3 DEF TaskStands, Doing
<1>8. Tables'
  BY <1>2, <1>5, AssignmentsStand DEF BookInv, Tables
<1>9. \A a \in AssignmentId : Exists(assignment, a)' => Shaped(assignment[a])'
  BY <1>2, AssignmentsStand DEF Shaped
<1>10. \A w \in SwapId : Exists(swap, w)' => SwapStands(swap[w])'
  BY <1>2, <1>6 DEF BookInv, Exists
<1>11. \A q, r \in Scheduler : task'[q] # Free /\ task'[r] # Free => q = r
  BY <1>5
<1> QED
  BY <1>7, <1>8, <1>9, <1>10, <1>11 DEF BookInv

\* decideSwapRequest, its last transaction.
LEMMA SwapCloseBooks ==
  ASSUME BookInv, NEW p \in Scheduler, SwapClose(p)
  PROVE  BookInv'
<1>1. PICK w \in SwapId : w = task[p].id /\ SwapStands(swap[w]) /\ task[p] # Free
  <2>1. TaskStands(p)
    BY DEF BookInv
  <2> QED
    BY <2>1 DEF SwapClose, TaskStands, Doing
<1> DEFINE r == [swap[w] EXCEPT !.status = task[p].status]
<1>2. r = [assignment |-> swap[w].assignment, requester |-> swap[w].requester,
           target |-> swap[w].target, status |-> task[p].status]
  BY <1>1 DEF SwapStands
<1>3. swap' = [swap EXCEPT ![w] = r]
  BY <1>1 DEF SwapClose
<1> HIDE DEF r
<1>4. SwapStands(r)
  BY <1>1, <1>2 DEF SwapStands
<1>5. Quiet /\ period' = [k \in PeriodId |-> period'[k]] /\ task' = [q \in Scheduler |-> Free]
  BY <1>1, OthersFree DEF SwapClose, Quiet, BookInv, Tables
<1> QED
  BY <1>3, <1>4, <1>5, NobodyReading

LEMMA CreateSwapRequestBooks ==
  ASSUME TakingTurns, BookInv, NEW w \in SwapId, NEW a \in AssignmentId, NEW target,
         CreateSwapRequest(w, a, target)
  PROVE  BookInv'
<1> DEFINE r == [assignment |-> a, requester |-> assignment[a].employee, target |-> target,
                 status |-> "REQUESTED"]
<1>1. /\ swap' = [swap EXCEPT ![w] = r] /\ Quiet /\ Turn /\ task' = task /\ period' = period
      /\ Exists(assignment, a)
  BY DEF CreateSwapRequest, Quiet, IsLive
<1>2. SwapStands(r)
  BY <1>1 DEF SwapStands, BookInv
<1> HIDE DEF r
<1>3. period' = [k \in PeriodId |-> period'[k]] /\ task' = [q \in Scheduler |-> Free]
  BY <1>1, AllFree DEF BookInv, Tables
<1> QED
  BY <1>1, <1>2, <1>3, NobodyReading

\* What every step does to the tables the properties are about.
PeriodMoves ==
  \/ period' = period
  \/ Quiet /\ \E k \in PeriodId : \E st : period[k] # "LOCKED" /\ period' = [period EXCEPT ![k] = st]

LEMMA BookStep ==
  ASSUME TakingTurns, BookInv, SchedulingNext
  PROVE  BookInv' /\ (Quiet \/ Acts) /\ PeriodMoves
<1> DEFINE Goal == BookInv' /\ (Quiet \/ Acts) /\ PeriodMoves
<1>f. ASSUME Turn, task' = task, swap' = swap, Quiet \/ Acts, PeriodMoves PROVE Goal
  <2>1. task' = [q \in Scheduler |-> Free] /\ period' = [k \in PeriodId |-> period'[k]]
    BY <1>f, AllFree DEF PeriodMoves, BookInv, Tables
  <2> QED
    BY <1>f, <2>1, NobodyReading
<1>d. ASSUME NEW p \in Scheduler, task[p] # Free, Done(p), swap' = swap, Quiet \/ Acts, PeriodMoves PROVE Goal
  <2>1. task' = [q \in Scheduler |-> Free] /\ period' = [k \in PeriodId |-> period'[k]]
    BY <1>d, OthersFree DEF PeriodMoves, BookInv, Tables
  <2> QED
    BY <1>d, <2>1, NobodyReading
<1>q. ASSUME BookInv', assignment' = assignment, period' = period PROVE Goal
  BY <1>q DEF Quiet, PeriodMoves
<1> HIDE DEF Goal
<1>1. ASSUME NEW k \in PeriodId, NEW st \in PeriodInput, CreatePeriod(k, st) PROVE Goal
  <2>1. period[k] # "LOCKED" /\ period' = [period EXCEPT ![k] = st] /\ Quiet
    BY <1>1, SchedulingAssumption DEF CreatePeriod, Exists, Quiet, ScheduleStatus
  <2> QED
    BY <1>f, <1>1, <2>1 DEF CreatePeriod, PeriodMoves
<1>2. ASSUME NEW o, NEW row, CreateOpenShift(o, row) PROVE Goal
  BY <1>f, <1>2 DEF CreateOpenShift, Quiet, PeriodMoves
<1>3. ASSUME NEW a \in AssignmentId, NEW e, NEW s, NEW k, CreateAssignment(a, e, s, k) PROVE Goal
  BY <1>f, <1>3, CreateAssignmentActs DEF CreateAssignment, PeriodMoves
<1>4. ASSUME NEW a \in AssignmentId, NEW patch \in AssignmentPatch, UpdateAssignment(a, patch) PROVE Goal
  BY <1>f, <1>4, UpdateAssignmentActs DEF UpdateAssignment, PeriodMoves
<1>5. ASSUME NEW a \in AssignmentId, NEW st, UpdateAssignmentStatus(a, st) PROVE Goal
  BY <1>f, <1>5, UpdateAssignmentStatusActs DEF UpdateAssignmentStatus, PeriodMoves
<1>6. ASSUME NEW o, NEW e, NEW st, DecideOpenShiftClaim(o, e, st) PROVE Goal
  BY <1>f, <1>6 DEF DecideOpenShiftClaim, Quiet, PeriodMoves
<1>7. ASSUME NEW w \in SwapId, NEW a \in AssignmentId, NEW e, CreateSwapRequest(w, a, e) PROVE Goal
  BY <1>q, <1>7, CreateSwapRequestBooks DEF CreateSwapRequest
<1>8. ASSUME NEW x, CreateAvailability(x) PROVE Goal
  BY <1>f, <1>8 DEF CreateAvailability, Quiet, PeriodMoves
<1>9. ASSUME NEW s, SlotBegins(s) PROVE Goal
  <2>1. UNCHANGED <<period, assignment, swap, away, task>>
    BY <1>9 DEF SlotBegins
  <2>2. BookInv'
    BY <2>1 DEF BookInv, Tables, TaskStands, Doing, Exists, NoHardConflict, IsLive, PeriodWritable, SwapStands, Shaped
  <2> QED
    BY <1>q, <2>1, <2>2
<1>10. ASSUME NEW p \in Scheduler, NEW k \in PeriodId, NEW st, PeriodRead(p, k, st) PROVE Goal
  BY <1>q, <1>10, PeriodReadBooks DEF PeriodRead
<1>11. ASSUME NEW p \in Scheduler, NEW o, NEW patch, UpdateOpenShiftRead(p, o, patch) PROVE Goal
  BY <1>q, <1>11, UpdateOpenShiftReadBooks DEF UpdateOpenShiftRead
<1>12. ASSUME NEW p \in Scheduler, NEW o, NEW e, ClaimRead(p, o, e) \/ PickUpRead(p, o, e) PROVE Goal
  BY <1>q, <1>12, ClaimReadBooks DEF ClaimRead, PickUpRead
<1>13. ASSUME NEW p \in Scheduler, NEW a \in AssignmentId, NEW mode, UnassignRead(p, a, mode) PROVE Goal
  BY <1>q, <1>13, UnassignReadBooks DEF UnassignRead
<1>14. ASSUME NEW p \in Scheduler, NEW w \in SwapId, NEW st, DecideSwapRead(p, w, st) PROVE Goal
  BY <1>q, <1>14, DecideSwapReadBooks DEF DecideSwapRead
<1>15. ASSUME NEW p \in Scheduler, NEW a \in AssignmentId, ClaimCommit(p, a) \/ PickUpCommit(p, a) PROVE Goal
  BY <1>d, <1>15, TakeUpActs DEF ClaimCommit, PickUpCommit, Doing, PeriodMoves
<1>16. ASSUME NEW p \in Scheduler, PeriodCommit(p) PROVE Goal
  <2>1. PICK k \in PeriodId : k = task[p].id /\ period[k] \in {"DRAFT", "PUBLISHED"} /\ task[p] # Free
    <3>1. TaskStands(p)
      BY DEF BookInv
    <3> QED
      BY <1>16, <3>1 DEF PeriodCommit, TaskStands, Doing
  <2>2. period[k] # "LOCKED" /\ period' = [period EXCEPT ![k] = task[p].status] /\ Quiet
    BY <1>16, <2>1 DEF PeriodCommit, Quiet
  <2>3. PeriodMoves
    BY <2>2 DEF PeriodMoves
  <2> QED
    BY <1>d, <1>16, <2>1, <2>2, <2>3 DEF PeriodCommit
<1>17. ASSUME NEW p \in Scheduler, UpdateOpenShiftCommit(p) PROVE Goal
  BY <1>d, <1>17 DEF UpdateOpenShiftCommit, Doing, Quiet, PeriodMoves
<1>18. ASSUME NEW p \in Scheduler, UnassignCommit(p) PROVE Goal
  BY <1>d, <1>18, UnassignCommitActs DEF UnassignCommit, Doing, PeriodMoves
<1>19. ASSUME NEW p \in Scheduler, SwapMove(p) PROVE Goal
  BY <1>19, SwapMoveBooks, SwapMoveActs DEF SwapMove, PeriodMoves, Goal
<1>20. ASSUME NEW p \in Scheduler, SwapClose(p) PROVE Goal
  BY <1>q, <1>20, SwapCloseBooks DEF SwapClose
<1>21. ASSUME NEW p \in Scheduler, SchedulerStops(p) PROVE Goal
  BY <1>d, <1>21 DEF SchedulerStops, Quiet, PeriodMoves
<1>22. ASSUME NEW p \in Scheduler,
       \/ \E k \in PeriodId, st \in ScheduleStatus : PeriodRead(p, k, st)
       \/ \E o \in OpenShiftId, patch \in OpenShiftPatch :
            UpdateOpenShiftRead(p, o, patch)
       \/ \E o \in OpenShiftId, e \in Employee : ClaimRead(p, o, e) \/ PickUpRead(p, o, e)
       \/ \E a \in AssignmentId, mode \in UnassignmentMode : UnassignRead(p, a, mode)
       \/ \E w \in SwapId, st \in {"APPROVED", "REJECTED", "CANCELLED", "COMPLETED"} :
            DecideSwapRead(p, w, st)
       \/ \E a \in AssignmentId : ClaimCommit(p, a) \/ PickUpCommit(p, a)
       \/ PeriodCommit(p) \/ UpdateOpenShiftCommit(p)
       \/ UnassignCommit(p) \/ SwapMove(p) \/ SwapClose(p) \/ SchedulerStops(p)
       PROVE Goal
  BY <1>10, <1>11, <1>12, <1>13, <1>14, <1>15, <1>16, <1>17, <1>18, <1>19, <1>20, <1>21, <1>22
<1>23. Goal
  BY <1>1, <1>2, <1>3, <1>4, <1>5, <1>6, <1>7, <1>8, <1>9, <1>22 DEF SchedulingNext
<1> QED
  BY <1>23 DEF Goal

LEMMA BookInitially == SchedulingInit => BookInv /\ NoDoubleBooking
BY DEF SchedulingInit, BookInv, Tables, TaskStands, Doing, Exists, NoDoubleBooking, IsLive

LEMMA NothingBooked ==
  BookInv /\ UNCHANGED schedulingVars => BookInv' /\ (NoDoubleBooking => NoDoubleBooking')
<1> SUFFICES ASSUME BookInv, UNCHANGED schedulingVars
             PROVE  BookInv' /\ (NoDoubleBooking => NoDoubleBooking')
  OBVIOUS
<1>1. UNCHANGED <<period, assignment, swap, away, task>>
  BY DEF schedulingVars
<1>2. BookInv'
  BY <1>1 DEF BookInv, Tables, TaskStands, Doing, Exists, NoHardConflict, IsLive, PeriodWritable, SwapStands, Shaped
<1>3. NoDoubleBooking => NoDoubleBooking'
  BY <1>1 DEF NoDoubleBooking, IsLive, Exists
<1> QED
  BY <1>2, <1>3

\* assertNoHardConflict is asked by every handler that books somebody, and what
\* it looked at is still so when the handler commits if handlers take turns:
\* while no assignment has come back from a terminal status, nobody is booked
\* for two slots that overlap.
THEOREM BookedOnceInTurns == TakingTurns => (MCSpec => []BookedOnceAtATime)
<1> SUFFICES ASSUME TakingTurns PROVE MCSpec => []BookedOnceAtATime
  OBVIOUS
<1> DEFINE Inv == BookInv /\ (disturbed \/ NoDoubleBooking)
<1>1. MCInit => Inv
  BY BookInitially DEF MCInit
<1>2. Inv /\ [MCNext]_mcVars => Inv'
  <2> SUFFICES ASSUME Inv, [MCNext]_mcVars PROVE Inv'
    OBVIOUS
  <2>1. ASSUME UNCHANGED schedulingVars, disturbed' = disturbed PROVE Inv'
    BY <2>1, NothingBooked
  <2>2. CASE UNCHANGED mcVars
    BY <2>1, <2>2 DEF mcVars, disturbances
  <2>3. CASE AttendanceStep
    BY <2>1, <2>3 DEF AttendanceStep, disturbances
  <2>4. CASE SchedulingStep
    <3>1. SchedulingNext /\ disturbed' = (disturbed \/ Disturbs)
      BY <2>4 DEF SchedulingStep
    <3>2. BookInv' /\ (Quiet \/ Acts)
      BY <3>1, BookStep
    <3>3. CASE disturbed \/ Disturbs
      BY <3>1, <3>2, <3>3
    <3>4. CASE ~disturbed /\ ~Disturbs
      <4>1. NoDoubleBooking /\ \A a \in AssignmentId : ~Revives(a)
        BY <3>4 DEF Disturbs
      <4>2. CASE Quiet
        BY <3>2, <4>1, <4>2 DEF Quiet, NoDoubleBooking, IsLive, Exists
      <4>3. CASE Acts
        BY <3>2, <4>1, <4>3, OneAssignmentBooksOnce DEF Acts
      <4> QED
        BY <3>2, <4>2, <4>3
    <3> QED
      BY <3>3, <3>4
  <2> QED
    BY <2>2, <2>3, <2>4 DEF MCNext
<1>3. Inv => BookedOnceAtATime
  BY DEF BookedOnceAtATime
<1> QED
  BY <1>1, <1>2, <1>3, PTL DEF MCSpec

\* assertSchedulePeriodWritable is asked of the period an assignment is in and
\* of the one it goes to, and no handler unlocks a period: whatever the
\* handlers do in turns, a locked period stays locked and nothing is added to
\* it, changed in it or moved out of it; its assignments are only taken back.
THEOREM LockedPeriodStands == TakingTurns => (SchedulingSpec => LockedPeriodGainsNothing)
<1> SUFFICES ASSUME TakingTurns PROVE SchedulingSpec => LockedPeriodGainsNothing
  OBVIOUS
<1>1. BookInv /\ [SchedulingNext]_schedulingVars => BookInv'
  BY BookStep, NothingBooked
<1>2. BookInv /\ [SchedulingNext]_schedulingVars => [KeepsLockedPeriods]_schedulingVars
  <2> SUFFICES ASSUME BookInv, SchedulingNext PROVE KeepsLockedPeriods
    OBVIOUS
  <2>1. (Quiet \/ Acts) /\ PeriodMoves
    BY BookStep
  <2>2. CASE Quiet
    <3>1. \A k \in PeriodId : period[k] = "LOCKED" => period'[k] = "LOCKED"
      BY <2>1 DEF PeriodMoves, BookInv, Tables
    <3> QED
      BY <2>2, <3>1 DEF Quiet, KeepsLockedPeriods, Exists
  <2>3. CASE Acts /\ ~Quiet
    <3>1. period' = period
      BY <2>1, <2>3 DEF PeriodMoves
    <3> QED
      BY <2>3, <3>1, OneAssignmentKeepsLocked DEF Acts
  <2> QED
    BY <2>1, <2>2, <2>3
<1> QED
  BY <1>1, <1>2, BookInitially, PTL DEF SchedulingSpec, LockedPeriodGainsNothing

----------------------------------------------------------------------------
(* The types of Scheduling, whether handlers take turns or not *)

PeriodsFit == period \in [PeriodId -> ScheduleStatus \cup {NoRow}]
OpenShiftsFit == openShift \in [OpenShiftId -> OpenShiftRow \cup {NoRow}]
ClaimsFit == claim \in [OpenShiftId -> [Employee -> ClaimRow \cup {NoRow}]]
AssignmentsFit == assignment \in [AssignmentId -> AssignmentRow \cup {NoRow}]
SwapsFit == swap \in [SwapId -> SwapRow \cup {NoRow}]
SlotsFit == away \subseteq Employee \X Slot /\ past \subseteq Slot
TablesFit == PeriodsFit /\ OpenShiftsFit /\ ClaimsFit /\ AssignmentsFit /\ SwapsFit /\ SlotsFit

LEMMA TypeParts == SchedulingTypeOK <=> TablesFit
BY DEF SchedulingTypeOK, TablesFit, PeriodsFit, OpenShiftsFit, ClaimsFit, AssignmentsFit, SwapsFit, SlotsFit

\* A claim is one of an open shift that exists.
ClaimsHaveShifts == \A o \in OpenShiftId, e \in Employee : claim[o][e] # NoRow => openShift[o] # NoRow

\* A swap request is about an assignment that exists.
SwapsHaveAssignments == \A w \in SwapId : swap[w] # NoRow => assignment[swap[w].assignment] # NoRow

\* What updateOpenShift writes over a row.
WriteFits(w) ==
  \A row \in OpenShiftRow : /\ Patched(row, w) \in OpenShiftRow
                            /\ Patched(row, w).claimed = row.claimed /\ Patched(row, w).required = w.required

\* What a handler has read has its type, and is there.
TaskFits(t) ==
  t # Free =>
    /\ t.op = "period" => t.id \in PeriodId /\ t.status \in ScheduleStatus
    /\ t.op = "updateOpen" => t.id \in OpenShiftId /\ openShift[t.id] # NoRow /\ WriteFits(t.write)
    /\ t.op \in {"claim", "pickUp"} =>
         t.id \in OpenShiftId /\ openShift[t.id] # NoRow /\ t.employee \in Employee /\ t.row \in OpenShiftRow
    /\ t.op = "unassign" =>
         /\ t.id \in AssignmentId /\ assignment[t.id] # NoRow /\ t.before \in AssignmentRow
         /\ t.mode \in UnassignmentMode /\ t.claimOf \subseteq OpenShiftId \X Employee
         /\ \A x \in t.claimOf : claim[x[1]][x[2]] # NoRow /\ t.rows[x] \in OpenShiftRow
    /\ t.op \in {"swapMove", "swapClose"} =>
         /\ t = [op |-> t.op, id |-> t.id, status |-> t.status]
         /\ t.id \in SwapId /\ swap[t.id] # NoRow
         /\ t.status \in {"APPROVED", "REJECTED", "CANCELLED", "COMPLETED"}
         /\ t.op = "swapMove" => swap[t.id].target # NoRow

TypeInv ==
  /\ TablesFit /\ ClaimsHaveShifts /\ SwapsHaveAssignments
  /\ task = [p \in Scheduler |-> task[p]] /\ \A p \in Scheduler : TaskFits(task[p])

\* Rows are never deleted.
OpenShiftsStay == \A o \in OpenShiftId : openShift[o] # NoRow => openShift'[o] # NoRow
ClaimsStay == \A o \in OpenShiftId, e \in Employee : claim[o][e] # NoRow => claim'[o][e] # NoRow
AssignmentsStay == \A a \in AssignmentId : assignment[a] # NoRow => assignment'[a] # NoRow
SwapsStay ==
  \A w \in SwapId :
    /\ swap[w] # NoRow => /\ swap'[w] # NoRow /\ swap'[w].target = swap[w].target
                          /\ swap'[w].assignment = swap[w].assignment
    /\ swap[w] = NoRow /\ swap'[w] # NoRow => assignment'[swap'[w].assignment] # NoRow
RowsStay == OpenShiftsStay /\ ClaimsStay /\ AssignmentsStay /\ SwapsStay

\* At most one handler goes on, or begins.
TaskGoesOn == task' = task \/ \E p \in Scheduler : \E t : task' = [task EXCEPT ![p] = t] /\ TaskFits(t)'

LEMMA NoRowIsNone ==
  /\ NoRow \notin ScheduleStatus /\ NoRow \notin OpenShiftRow /\ NoRow \notin ClaimRow
  /\ NoRow \notin AssignmentRow /\ NoRow \notin SwapRow /\ NoRow \notin AssignmentId
BY SchedulingAssumption

LEMMA FitsOn ==
  ASSUME NEW t, TaskFits(t), RowsStay PROVE TaskFits(t)'
<1> USE DEF OpenShiftsStay, ClaimsStay, AssignmentsStay, SwapsStay
<1> SUFFICES ASSUME t # Free PROVE TaskFits(t)'
  BY DEF TaskFits
<1>1. t.op = "period" => t.id \in PeriodId /\ t.status \in ScheduleStatus
  BY DEF TaskFits
<1>2. t.op = "updateOpen" => t.id \in OpenShiftId /\ openShift'[t.id] # NoRow /\ WriteFits(t.write)
  BY DEF TaskFits, RowsStay
<1>3. t.op \in {"claim", "pickUp"} =>
        t.id \in OpenShiftId /\ openShift'[t.id] # NoRow /\ t.employee \in Employee /\ t.row \in OpenShiftRow
  BY DEF TaskFits, RowsStay
<1>4. ASSUME t.op = "unassign"
      PROVE  /\ t.id \in AssignmentId /\ assignment'[t.id] # NoRow /\ t.before \in AssignmentRow
             /\ t.mode \in UnassignmentMode /\ t.claimOf \subseteq OpenShiftId \X Employee
             /\ \A x \in t.claimOf : claim'[x[1]][x[2]] # NoRow /\ t.rows[x] \in OpenShiftRow
  <2>1. /\ t.id \in AssignmentId /\ assignment'[t.id] # NoRow /\ t.before \in AssignmentRow
        /\ t.mode \in UnassignmentMode /\ t.claimOf \subseteq OpenShiftId \X Employee
    BY <1>4 DEF TaskFits, RowsStay
  <2>2. ASSUME NEW x \in t.claimOf PROVE claim'[x[1]][x[2]] # NoRow /\ t.rows[x] \in OpenShiftRow
    <3>1. x[1] \in OpenShiftId /\ x[2] \in Employee /\ claim[x[1]][x[2]] # NoRow /\ t.rows[x] \in OpenShiftRow
      BY <1>4, <2>1, <2>2 DEF TaskFits
    <3> QED
      BY <3>1 DEF RowsStay
  <2> QED
    BY <2>1, <2>2
<1>5. t.op \in {"swapMove", "swapClose"} =>
        /\ t = [op |-> t.op, id |-> t.id, status |-> t.status]
        /\ t.id \in SwapId /\ swap'[t.id] # NoRow
        /\ t.status \in {"APPROVED", "REJECTED", "CANCELLED", "COMPLETED"}
        /\ t.op = "swapMove" => swap'[t.id].target # NoRow
  BY DEF TaskFits, RowsStay
<1> QED
  BY <1>1, <1>2, <1>3, <1>4, <1>5 DEF TaskFits

LEMMA TypeGoesOn ==
  ASSUME TypeInv, TablesFit', ClaimsHaveShifts', RowsStay, TaskGoesOn
  PROVE  TypeInv'
<1>1. \A p \in Scheduler : TaskFits(task[p])
  BY DEF TypeInv
<1>0. SwapsHaveAssignments'
  BY DEF TypeInv, TablesFit, SwapsFit, SwapRow, RowsStay, SwapsStay, AssignmentsStay, SwapsHaveAssignments
<1>2. CASE task' = task
  <2>1. \A p \in Scheduler : TaskFits(task[p])'
    BY <1>1, <1>2, FitsOn
  <2> QED
    BY <1>0, <1>2, <2>1 DEF TypeInv
<1>3. ASSUME NEW p \in Scheduler, NEW t, task' = [task EXCEPT ![p] = t], TaskFits(t)' PROVE TypeInv'
  <2>1. /\ task' = [q \in Scheduler |-> task'[q]] /\ task'[p] = t
        /\ \A q \in Scheduler \ {p} : task'[q] = task[q]
    BY <1>3 DEF TypeInv
  <2>2. ASSUME NEW q \in Scheduler PROVE TaskFits(task[q])'
    <3>1. CASE q = p
      BY <1>3, <2>1, <3>1
    <3>2. CASE q # p
      <4>1. PICK u : u = task[q]
        OBVIOUS
      <4>2. TaskFits(u)'
        BY <1>1, <4>1, FitsOn
      <4> QED
        BY <2>1, <3>2, <4>1, <4>2
    <3> QED
      BY <3>1, <3>2
  <2> QED
    BY <1>0, <2>1, <2>2 DEF TypeInv
<1> QED
  BY <1>2, <1>3 DEF TaskGoesOn

----------------------------------------------------------------------------
(* What the handlers do to the types *)

Goes == TablesFit' /\ ClaimsHaveShifts' /\ RowsStay /\ TaskGoesOn

LEMMA DoneGoesOn == ASSUME NEW p \in Scheduler, Done(p) PROVE TaskGoesOn
BY DEF TaskGoesOn, Done, TaskFits

LEMMA OpenShiftWritten ==
  ASSUME OpenShiftsFit, NEW o \in OpenShiftId, NEW row \in OpenShiftRow, openShift' = [openShift EXCEPT ![o] = row]
  PROVE  /\ OpenShiftsFit' /\ OpenShiftsStay /\ openShift'[o] = row /\ row # NoRow
         /\ \A x \in OpenShiftId \ {o} : openShift'[x] = openShift[x]
BY NoRowIsNone DEF OpenShiftsFit, OpenShiftsStay

OtherClaimsStand(o, e) ==
  \A x \in OpenShiftId, y \in Employee : (x # o \/ y # e) => claim'[x][y] = claim[x][y]

LEMMA ClaimWritten ==
  ASSUME ClaimsFit, NEW o \in OpenShiftId, NEW e \in Employee, NEW row \in ClaimRow, claim' = [claim EXCEPT ![o][e] = row]
  PROVE  ClaimsFit' /\ ClaimsStay /\ claim'[o][e] = row /\ row # NoRow /\ OtherClaimsStand(o, e)
BY NoRowIsNone DEF ClaimsFit, ClaimsStay, OtherClaimsStand

LEMMA AssignmentWritten ==
  ASSUME AssignmentsFit, NEW a \in AssignmentId, NEW row \in AssignmentRow, assignment' = [assignment EXCEPT ![a] = row]
  PROVE  AssignmentsFit' /\ AssignmentsStay
BY NoRowIsNone DEF AssignmentsFit, AssignmentsStay

LEMMA NothingWritten ==
  ASSUME TypeInv, UNCHANGED <<period, openShift, claim, assignment, swap, away, past>>
  PROVE  TablesFit' /\ ClaimsHaveShifts' /\ RowsStay
BY DEF TypeInv, TablesFit, PeriodsFit, OpenShiftsFit, ClaimsFit, AssignmentsFit, SwapsFit, SlotsFit, ClaimsHaveShifts,
       RowsStay, OpenShiftsStay, ClaimsStay, AssignmentsStay, SwapsStay

LEMMA ReadGoesOn ==
  ASSUME TypeInv, UNCHANGED <<period, openShift, claim, assignment, swap, away, past>>,
         NEW p \in Scheduler, NEW t, Reads(p, t), TaskFits(t)
  PROVE  Goes
<1>1. TablesFit' /\ ClaimsHaveShifts' /\ RowsStay
  BY NothingWritten
<1>2. TaskFits(t)'
  BY <1>1, FitsOn
<1> QED
  BY <1>1, <1>2 DEF Goes, TaskGoesOn, Reads

\* Only the periods, the slots or nothing.
LEMMA PeriodGoesOn ==
  ASSUME TypeInv, NEW k \in PeriodId, NEW st \in ScheduleStatus, period' = [period EXCEPT ![k] = st],
         UNCHANGED <<openShift, claim, assignment, swap, away, past>>, TaskGoesOn
  PROVE  Goes
<1>1. PeriodsFit'
  BY DEF TypeInv, TablesFit, PeriodsFit
<1>2. TablesFit' /\ ClaimsHaveShifts' /\ RowsStay
  BY <1>1 DEF TypeInv, TablesFit, OpenShiftsFit, ClaimsFit, AssignmentsFit, SwapsFit, SlotsFit, ClaimsHaveShifts,
       RowsStay, OpenShiftsStay, ClaimsStay, AssignmentsStay, SwapsStay
<1> QED
  BY <1>2 DEF Goes

LEMMA SlotsGoOn ==
  ASSUME TypeInv, SlotsFit', UNCHANGED <<period, openShift, claim, assignment, swap, task>>
  PROVE  Goes
<1>1. TablesFit' /\ ClaimsHaveShifts' /\ RowsStay
  BY DEF TypeInv, TablesFit, PeriodsFit, OpenShiftsFit, ClaimsFit, AssignmentsFit, SwapsFit, ClaimsHaveShifts,
       RowsStay, OpenShiftsStay, ClaimsStay, AssignmentsStay, SwapsStay
<1> QED
  BY <1>1 DEF Goes, TaskGoesOn

LEMMA AssignmentGoesOn ==
  ASSUME TypeInv, NEW a \in AssignmentId, NEW row \in AssignmentRow, assignment' = [assignment EXCEPT ![a] = row],
         UNCHANGED <<period, openShift, claim, swap, away, past>>, TaskGoesOn
  PROVE  Goes
<1>1. AssignmentsFit' /\ AssignmentsStay
  BY AssignmentWritten DEF TypeInv, TablesFit
<1>2. TablesFit' /\ ClaimsHaveShifts' /\ RowsStay
  BY <1>1 DEF TypeInv, TablesFit, PeriodsFit, OpenShiftsFit, ClaimsFit, SwapsFit, SlotsFit, ClaimsHaveShifts,
       RowsStay, OpenShiftsStay, ClaimsStay, SwapsStay
<1> QED
  BY <1>2 DEF Goes

LEMMA SwapGoesOn ==
  ASSUME TypeInv, SwapsFit', SwapsStay,
         UNCHANGED <<period, openShift, claim, assignment, away, past>>, TaskGoesOn
  PROVE  Goes
<1>2. TablesFit' /\ ClaimsHaveShifts' /\ RowsStay
  BY DEF TypeInv, TablesFit, PeriodsFit, OpenShiftsFit, ClaimsFit, AssignmentsFit, SlotsFit, ClaimsHaveShifts,
       RowsStay, OpenShiftsStay, ClaimsStay, AssignmentsStay
<1> QED
  BY <1>2 DEF Goes

LEMMA ShiftsGoOn ==
  ASSUME TypeInv, OpenShiftsFit', OpenShiftsStay, ClaimsFit', ClaimsStay, ClaimsHaveShifts', AssignmentsFit', AssignmentsStay,
         UNCHANGED <<period, swap, away, past>>, TaskGoesOn
  PROVE  Goes
<1>2. TablesFit' /\ RowsStay
  BY DEF TypeInv, TablesFit, PeriodsFit, SwapsFit, SlotsFit, RowsStay, SwapsStay
<1> QED
  BY <1>2 DEF Goes

----------------------------------------------------------------------------
LEMMA CreateOpenShiftTypes ==
  ASSUME TypeInv, NEW o \in OpenShiftId, NEW row \in OpenShiftInput, CreateOpenShift(o, row)
  PROVE  Goes
<1>1. row \in OpenShiftRow
  BY SchedulingAssumption DEF OpenShiftRow
<1>2. openShift' = [openShift EXCEPT ![o] = row] /\ UNCHANGED <<period, claim, assignment, swap, away, past, task>>
  BY DEF CreateOpenShift
<1>3. OpenShiftsFit' /\ OpenShiftsStay
  BY <1>1, <1>2, OpenShiftWritten DEF TypeInv, TablesFit
<1>4. ClaimsFit' /\ ClaimsStay /\ AssignmentsFit' /\ AssignmentsStay /\ TaskGoesOn
  BY <1>2 DEF TypeInv, TablesFit, ClaimsFit, ClaimsStay, AssignmentsFit, AssignmentsStay, TaskGoesOn
<1>5. ClaimsHaveShifts'
  BY <1>2, <1>3 DEF TypeInv, ClaimsHaveShifts, OpenShiftsStay
<1> QED
  BY <1>2, <1>3, <1>4, <1>5, ShiftsGoOn

LEMMA NewAssignmentTypes ==
  ASSUME NEW a \in AssignmentId, NEW e \in Employee, NEW s \in Slot, NEW k \in PeriodId \cup {NoRow}, NewAssignment(a, e, s, k)
  PROVE  \E row \in AssignmentRow : assignment' = [assignment EXCEPT ![a] = row]
<1> DEFINE row == [employee |-> e, slot |-> s, period |-> k, status |-> "ASSIGNED"]
<1>1. row \in AssignmentRow
  BY DEF AssignmentRow, AssignmentStatus
<1> QED
  BY <1>1 DEF NewAssignment

LEMMA CreateAssignmentTypes ==
  ASSUME TypeInv, NEW a \in AssignmentId, NEW e \in Employee, NEW s \in Slot, NEW k \in PeriodId \cup {NoRow},
         CreateAssignment(a, e, s, k)
  PROVE  Goes
BY NewAssignmentTypes, AssignmentGoesOn DEF CreateAssignment, TaskGoesOn

LEMMA RowIsShaped == ASSUME NEW r \in AssignmentRow PROVE Shaped(r)
BY DEF AssignmentRow, Shaped

LEMMA UpdateAssignmentTypes ==
  ASSUME TypeInv, NEW a \in AssignmentId, NEW patch \in AssignmentPatch, UpdateAssignment(a, patch)
  PROVE  Goes
<1> DEFINE row == Patched(assignment[a], patch)
<1>1. assignment[a] \in AssignmentRow
  BY DEF UpdateAssignment, Exists, TypeInv, TablesFit, AssignmentsFit
<1>2. /\ "status" \notin DOMAIN patch /\ ("employee" \in DOMAIN patch => patch.employee \in Employee)
      /\ ("slot" \in DOMAIN patch => patch.slot \in Slot) /\ ("period" \in DOMAIN patch => patch.period \in PeriodId)
  BY DEF AssignmentPatch
<1>3. /\ Shaped(row) /\ row.status = assignment[a].status
      /\ row.employee = IF "employee" \in DOMAIN patch THEN patch.employee ELSE assignment[a].employee
      /\ row.slot = IF "slot" \in DOMAIN patch THEN patch.slot ELSE assignment[a].slot
      /\ row.period = IF "period" \in DOMAIN patch THEN patch.period ELSE assignment[a].period
  BY <1>1, <1>2, RowIsShaped, PatchedRow
<1>4. assignment' = [assignment EXCEPT ![a] = row] /\ UNCHANGED <<period, openShift, claim, swap, away, past, task>>
  BY DEF UpdateAssignment
<1> HIDE DEF row
<1>5. row \in AssignmentRow
  BY <1>1, <1>2, <1>3 DEF Shaped, AssignmentRow
<1> QED
  BY <1>4, <1>5, AssignmentGoesOn DEF TaskGoesOn

LEMMA StatusTypes ==
  ASSUME TypeInv, NEW a \in AssignmentId, assignment[a] # NoRow, NEW st \in AssignmentStatus,
         assignment' = [assignment EXCEPT ![a].status = st]
  PROVE  \E row \in AssignmentRow : assignment' = [assignment EXCEPT ![a] = row]
<1> DEFINE row == [assignment[a] EXCEPT !.status = st]
<1>1. assignment[a] \in AssignmentRow
  BY DEF TypeInv, TablesFit, AssignmentsFit
<1>2. row \in AssignmentRow
  BY <1>1 DEF AssignmentRow
<1>3. assignment' = [assignment EXCEPT ![a] = row]
  OBVIOUS
<1> HIDE DEF row
<1> QED
  BY <1>2, <1>3

LEMMA UpdateAssignmentStatusTypes ==
  ASSUME TypeInv, NEW a \in AssignmentId, NEW st \in StatusInput, UpdateAssignmentStatus(a, st)
  PROVE  Goes
<1>1. st \in AssignmentStatus /\ assignment[a] # NoRow
  BY SchedulingAssumption DEF UpdateAssignmentStatus, Exists
<1>2. assignment' = [assignment EXCEPT ![a].status = st] /\ UNCHANGED <<period, openShift, claim, swap, away, past, task>>
  BY DEF UpdateAssignmentStatus
<1> QED
  BY <1>1, <1>2, StatusTypes, AssignmentGoesOn DEF TaskGoesOn

\* A decision writes the status of a claim, and no more.
LEMMA DecideOpenShiftClaimTypes ==
  ASSUME TypeInv, NEW o \in OpenShiftId, NEW e \in Employee, NEW st \in {"APPROVED", "REJECTED", "CANCELLED"},
         DecideOpenShiftClaim(o, e, st)
  PROVE  Goes
<1> DEFINE row == [claim[o][e] EXCEPT !.status = st]
<1>1. claim[o][e] \in ClaimRow /\ openShift[o] # NoRow
  BY DEF DecideOpenShiftClaim, TypeInv, TablesFit, ClaimsFit, ClaimsHaveShifts
<1>2. row \in ClaimRow
  BY <1>1 DEF ClaimRow
<1>3. claim' = [claim EXCEPT ![o][e] = row] /\ UNCHANGED <<period, openShift, assignment, swap, away, past, task>>
  BY DEF DecideOpenShiftClaim
<1> HIDE DEF row
<1>4. ClaimsFit' /\ ClaimsStay /\ OtherClaimsStand(o, e)
  BY <1>2, <1>3, ClaimWritten DEF TypeInv, TablesFit
<1>5. OpenShiftsFit' /\ OpenShiftsStay /\ AssignmentsFit' /\ AssignmentsStay /\ TaskGoesOn
  BY <1>3 DEF TypeInv, TablesFit, OpenShiftsFit, OpenShiftsStay, AssignmentsFit, AssignmentsStay, TaskGoesOn
<1>6. ClaimsHaveShifts'
  BY <1>1, <1>3, <1>4 DEF TypeInv, ClaimsHaveShifts, OtherClaimsStand
<1> QED
  BY <1>3, <1>4, <1>5, <1>6, ShiftsGoOn

LEMMA CreateSwapRequestTypes ==
  ASSUME TypeInv, NEW w \in SwapId, NEW a \in AssignmentId, NEW e \in Employee \cup {NoRow}, CreateSwapRequest(w, a, e)
  PROVE  Goes
<1> DEFINE row == [assignment |-> a, requester |-> assignment[a].employee, target |-> e, status |-> "REQUESTED"]
<1>1. assignment[a] \in AssignmentRow
  BY DEF CreateSwapRequest, IsLive, Exists, TypeInv, TablesFit, AssignmentsFit
<1>2. row \in SwapRow
  BY <1>1 DEF AssignmentRow, SwapRow
<1>3. /\ swap' = [swap EXCEPT ![w] = row] /\ swap[w] = NoRow
      /\ UNCHANGED <<period, openShift, claim, assignment, away, past, task>>
  BY DEF CreateSwapRequest, Exists
<1> HIDE DEF row
<1>4. SwapsFit' /\ SwapsStay
  <2>1. row # NoRow /\ row.assignment = a /\ assignment[a] # NoRow
    BY <1>1, <1>2, NoRowIsNone DEF row
  <2> QED
    BY <1>2, <1>3, <2>1 DEF TypeInv, TablesFit, SwapsFit, SwapsStay
<1> QED
  BY <1>3, <1>4, SwapGoesOn DEF TaskGoesOn

LEMMA CreatePeriodTypes ==
  ASSUME TypeInv, NEW k \in PeriodId, NEW st \in PeriodInput, CreatePeriod(k, st)
  PROVE  Goes
<1>1. st \in ScheduleStatus
  BY SchedulingAssumption
<1>2. period' = [period EXCEPT ![k] = st] /\ UNCHANGED <<openShift, claim, assignment, swap, away, past, task>>
  BY DEF CreatePeriod
<1> QED
  BY <1>1, <1>2, PeriodGoesOn DEF TaskGoesOn

LEMMA CreateAvailabilityTypes == ASSUME TypeInv, NEW x \in AwayInput, CreateAvailability(x) PROVE Goes
<1>1. x \in Employee \X Slot
  BY SchedulingAssumption
<1>2. SlotsFit' /\ UNCHANGED <<period, openShift, claim, assignment, swap, task>>
  BY <1>1 DEF CreateAvailability, SlotsFit, TypeInv, TablesFit
<1> QED
  BY <1>2, SlotsGoOn

LEMMA SlotBeginsTypes == ASSUME TypeInv, NEW s \in Slot, SlotBegins(s) PROVE Goes
<1>1. SlotsFit' /\ UNCHANGED <<period, openShift, claim, assignment, swap, task>>
  BY DEF SlotBegins, SlotsFit, TypeInv, TablesFit
<1> QED
  BY <1>1, SlotsGoOn

LEMMA PeriodReadTypes ==
  ASSUME TypeInv, NEW p \in Scheduler, NEW k \in PeriodId, NEW st \in ScheduleStatus, PeriodRead(p, k, st)
  PROVE  Goes
<1> DEFINE t == [op |-> "period", id |-> k, status |-> st]
<1>1. TaskFits(t)
  BY DEF TaskFits
<1>2. Reads(p, t) /\ UNCHANGED <<period, openShift, claim, assignment, swap, away, past>>
  BY DEF PeriodRead
<1> HIDE DEF t
<1> QED
  BY <1>1, <1>2, ReadGoesOn

\* What updateOpenShift writes are fields of the row, its slot and its headcount among them.
LEMMA PatchFits ==
  ASSUME NEW row \in OpenShiftRow, NEW patch \in OpenShiftPatch
  PROVE  /\ WriteFits([f \in DOMAIN patch \cup {"slot", "required"} |-> Patched(row, patch)[f]])
         /\ Patched(row, patch) \in OpenShiftRow
<1> DEFINE new == Patched(row, patch)
           w == [f \in DOMAIN patch \cup {"slot", "required"} |-> new[f]]
           fields == {"slot", "period", "required", "claimed", "pickupRequiresApproval", "status"}
<1>1. /\ DOMAIN patch \subseteq {"slot", "period", "required", "pickupRequiresApproval", "status"}
      /\ "slot" \in DOMAIN patch => patch["slot"] \in Slot
      /\ "period" \in DOMAIN patch => patch["period"] \in PeriodId
      /\ "required" \in DOMAIN patch => patch["required"] \in Nat
      /\ "pickupRequiresApproval" \in DOMAIN patch => patch["pickupRequiresApproval"] \in BOOLEAN
      /\ "status" \in DOMAIN patch => patch["status"] \in {"OPEN", "CLAIMED", "CANCELLED", "EXPIRED"}
  BY SchedulingAssumption DEF OpenShiftField
<1>2. ASSUME NEW r \in OpenShiftRow PROVE DOMAIN r = fields /\ r = [f \in fields |-> r[f]]
  BY DEF OpenShiftRow
<1>3. new = [f \in fields |-> IF f \in DOMAIN patch THEN patch[f] ELSE row[f]]
  BY <1>2 DEF Patched
<1>4. /\ new["slot"] \in Slot /\ new["period"] \in PeriodId \cup {NoRow} /\ new["required"] \in Nat
      /\ new["claimed"] = row["claimed"] /\ new["pickupRequiresApproval"] \in BOOLEAN
      /\ new["status"] \in {"OPEN", "CLAIMED", "CANCELLED", "EXPIRED"} /\ DOMAIN new = fields
  BY <1>1, <1>3 DEF OpenShiftRow
<1>5. new \in OpenShiftRow
  BY <1>3, <1>4 DEF OpenShiftRow
<1> HIDE DEF new
<1>6. ASSUME NEW r \in OpenShiftRow
      PROVE  /\ Patched(r, w) \in OpenShiftRow /\ Patched(r, w).claimed = r.claimed
             /\ Patched(r, w).required = w.required
  <2>1. /\ DOMAIN w = DOMAIN patch \cup {"slot", "required"}
        /\ \A f \in DOMAIN w : w[f] = new[f]
    OBVIOUS
  <2> HIDE DEF w
  <2>2. Patched(r, w) = [f \in fields |-> IF f \in DOMAIN w THEN new[f] ELSE r[f]]
    BY <1>2, <2>1 DEF Patched
  <2>3. "claimed" \notin DOMAIN w /\ "required" \in DOMAIN w
    BY <1>1, <2>1
  <2> QED
    BY <1>4, <2>1, <2>2, <2>3 DEF OpenShiftRow
<1> QED
  BY <1>5, <1>6 DEF WriteFits, new

LEMMA UpdateOpenShiftReadTypes ==
  ASSUME TypeInv, NEW p \in Scheduler, NEW o \in OpenShiftId, NEW patch \in OpenShiftPatch, UpdateOpenShiftRead(p, o, patch)
  PROVE  Goes
<1> DEFINE w == [f \in DOMAIN patch \cup {"slot", "required"} |-> Patched(openShift[o], patch)[f]]
           t == [op |-> "updateOpen", id |-> o, write |-> w]
<1>1. openShift[o] \in OpenShiftRow /\ openShift[o] # NoRow
  BY DEF UpdateOpenShiftRead, Exists, TypeInv, TablesFit, OpenShiftsFit
<1>2. WriteFits(w)
  BY <1>1, PatchFits
<1>3. Reads(p, t) /\ UNCHANGED <<period, openShift, claim, assignment, swap, away, past>>
  BY DEF UpdateOpenShiftRead
<1> HIDE DEF w
<1>4. TaskFits(t)
  BY <1>1, <1>2 DEF TaskFits
<1> HIDE DEF t
<1> QED
  BY <1>3, <1>4, ReadGoesOn

LEMMA ClaimReadTypes ==
  ASSUME TypeInv, NEW p \in Scheduler, NEW o \in OpenShiftId, NEW e \in Employee, ClaimRead(p, o, e)
  PROVE  Goes
<1> DEFINE t == [op |-> "claim", id |-> o, employee |-> e, row |-> openShift[o]]
<1>1. openShift[o] \in OpenShiftRow /\ openShift[o] # NoRow
  BY DEF ClaimRead, Exists, TypeInv, TablesFit, OpenShiftsFit
<1>2. TaskFits(t)
  BY <1>1 DEF TaskFits
<1>3. Reads(p, t) /\ UNCHANGED <<period, openShift, claim, assignment, swap, away, past>>
  BY DEF ClaimRead
<1> HIDE DEF t
<1> QED
  BY <1>2, <1>3, ReadGoesOn

LEMMA PickUpReadTypes ==
  ASSUME TypeInv, NEW p \in Scheduler, NEW o \in OpenShiftId, NEW e \in Employee, PickUpRead(p, o, e)
  PROVE  Goes
<1> DEFINE t == [op |-> "pickUp", id |-> o, employee |-> e, row |-> openShift[o], new |-> claim[o][e] = NoRow]
<1>1. openShift[o] \in OpenShiftRow /\ openShift[o] # NoRow
  BY DEF PickUpRead, Exists, TypeInv, TablesFit, OpenShiftsFit
<1>2. TaskFits(t)
  BY <1>1 DEF TaskFits
<1>3. Reads(p, t) /\ UNCHANGED <<period, openShift, claim, assignment, swap, away, past>>
  BY DEF PickUpRead
<1> HIDE DEF t
<1> QED
  BY <1>2, <1>3, ReadGoesOn

LEMMA ClaimOfFits ==
  ASSUME TypeInv, NEW a
  PROVE  /\ ClaimOf(a) \subseteq OpenShiftId \X Employee
         /\ \A x \in ClaimOf(a) : claim[x[1]][x[2]] # NoRow /\ openShift[x[1]] \in OpenShiftRow
BY DEF ClaimOf, TypeInv, TablesFit, OpenShiftsFit, ClaimsHaveShifts

LEMMA UnassignReadTypes ==
  ASSUME TypeInv, NEW p \in Scheduler, NEW a \in AssignmentId, NEW mode \in UnassignmentMode, UnassignRead(p, a, mode)
  PROVE  Goes
<1> DEFINE t == [op |-> "unassign", id |-> a, mode |-> mode, before |-> assignment[a],
                 claimOf |-> ClaimOf(a), rows |-> [x \in ClaimOf(a) |-> openShift[x[1]]]]
<1>1. assignment[a] \in AssignmentRow /\ assignment[a] # NoRow
  BY DEF UnassignRead, Exists, TypeInv, TablesFit, AssignmentsFit
<1>2. /\ t.op = "unassign" /\ t.id = a /\ t.mode = mode /\ t.before = assignment[a] /\ t.claimOf = ClaimOf(a)
      /\ \A x \in ClaimOf(a) : t.rows[x] = openShift[x[1]]
  OBVIOUS
<1>3. Reads(p, t) /\ UNCHANGED <<period, openShift, claim, assignment, swap, away, past>>
  BY DEF UnassignRead
<1> HIDE DEF t
<1>4. TaskFits(t)
  BY <1>1, <1>2, ClaimOfFits DEF TaskFits
<1> QED
  BY <1>3, <1>4, ReadGoesOn

LEMMA DecideSwapReadTypes ==
  ASSUME TypeInv, NEW p \in Scheduler, NEW w \in SwapId, NEW st \in {"APPROVED", "REJECTED", "CANCELLED", "COMPLETED"},
         DecideSwapRead(p, w, st)
  PROVE  Goes
<1> DEFINE moves == st = "APPROVED" /\ swap[w].target # NoRow
           t == [op |-> IF moves THEN "swapMove" ELSE "swapClose", id |-> w,
                 status |-> IF moves THEN "COMPLETED" ELSE st]
<1>1. swap[w] # NoRow
  BY DEF DecideSwapRead, Exists
<1>2. t.op \in {"swapMove", "swapClose"} /\ (t.op = "swapMove" => moves) /\ t.id = w
      /\ t.status \in {"APPROVED", "REJECTED", "CANCELLED", "COMPLETED"}
  OBVIOUS
<1>3. t = [op |-> t.op, id |-> t.id, status |-> t.status]
  OBVIOUS
<1>4. TaskFits(t)
  BY <1>1, <1>2, <1>3 DEF TaskFits
<1>5. Reads(p, t) /\ UNCHANGED <<period, openShift, claim, assignment, swap, away, past>>
  BY DEF DecideSwapRead
<1> HIDE DEF t
<1> QED
  BY <1>4, <1>5, ReadGoesOn

\* One claim more is counted, over the count that was read.
CountedUp(o, e, row) ==
  /\ OtherClaimsStand(o, e) /\ openShift' = [openShift EXCEPT ![o] = openShift'[o]]
  /\ openShift'[o].claimed = row.claimed + 1 /\ openShift'[o].required = openShift[o].required

\* createAssignmentFromOpenShift writes an assignment, the claim and the row.
LEMMA TakeUpWrites ==
  ASSUME TypeInv, NEW o \in OpenShiftId, NEW e \in Employee, NEW row \in OpenShiftRow, NEW a \in AssignmentId,
         openShift[o] # NoRow, TakeUp(o, e, row, a)
  PROVE  /\ OpenShiftsFit' /\ OpenShiftsStay /\ ClaimsFit' /\ ClaimsStay /\ ClaimsHaveShifts'
         /\ AssignmentsFit' /\ AssignmentsStay
         /\ CountedUp(o, e, row)
<1> DEFINE count == row.claimed + 1
           st == IF count >= row.required THEN "CLAIMED" ELSE "OPEN"
           shift == [openShift[o] EXCEPT !.claimed = count, !.status = st]
           held == [status |-> "APPROVED", assignment |-> a]
<1>1. openShift[o] \in OpenShiftRow /\ row.claimed \in Nat
  BY DEF TypeInv, TablesFit, OpenShiftsFit, OpenShiftRow
<1>2. shift \in OpenShiftRow /\ shift.claimed = row.claimed + 1 /\ shift.required = openShift[o].required
  <2>1. count \in Nat /\ st \in {"OPEN", "CLAIMED", "CANCELLED", "EXPIRED"}
    BY <1>1
  <2> HIDE DEF count, st
  <2>2. shift \in OpenShiftRow /\ shift.claimed = count /\ shift.required = openShift[o].required
    BY <1>1, <2>1 DEF OpenShiftRow
  <2> QED
    BY <2>2 DEF count
<1>3. openShift' = [openShift EXCEPT ![o] = shift]
  BY DEF TakeUp, TypeInv, TablesFit, OpenShiftsFit
<1> HIDE DEF shift
<1>4. /\ OpenShiftsFit' /\ OpenShiftsStay /\ openShift'[o] = shift
  BY <1>2, <1>3, OpenShiftWritten DEF TypeInv, TablesFit
<1>5. held \in ClaimRow
  BY DEF ClaimRow
<1>6. claim' = [claim EXCEPT ![o][e] = held]
  BY DEF TakeUp
<1> HIDE DEF held
<1>7. ClaimsFit' /\ ClaimsStay /\ OtherClaimsStand(o, e) /\ claim'[o][e] = held
  BY <1>5, <1>6, ClaimWritten DEF TypeInv, TablesFit
<1>8. ClaimsHaveShifts'
  BY <1>4, <1>7 DEF TypeInv, ClaimsHaveShifts, OtherClaimsStand, OpenShiftsStay
<1>9. row.slot \in Slot /\ row.period \in PeriodId \cup {NoRow} /\ NewAssignment(a, e, row.slot, row.period)
  BY DEF TakeUp, OpenShiftRow
<1>10. PICK new \in AssignmentRow : assignment' = [assignment EXCEPT ![a] = new]
  BY <1>9, NewAssignmentTypes
<1>11. AssignmentsFit' /\ AssignmentsStay
  BY <1>10, AssignmentWritten DEF TypeInv, TablesFit
<1>12. CountedUp(o, e, row)
  BY <1>2, <1>3, <1>4, <1>7 DEF CountedUp
<1> QED
  BY <1>4, <1>7, <1>8, <1>11, <1>12

LEMMA TaskHasItsType == ASSUME TypeInv, NEW p \in Scheduler PROVE TaskFits(task[p])
BY DEF TypeInv

LEMMA ClaimCommitTypes ==
  ASSUME TypeInv, NEW p \in Scheduler, NEW a \in AssignmentId, ClaimCommit(p, a)
  PROVE  Goes
<1> DEFINE o == task[p].id
           e == task[p].employee
<1>1. o \in OpenShiftId /\ openShift[o] # NoRow /\ e \in Employee /\ task[p].row \in OpenShiftRow
  BY TaskHasItsType DEF ClaimCommit, Doing, TaskFits
<1>2. TaskGoesOn /\ UNCHANGED <<period, swap, away, past>>
  BY DoneGoesOn DEF ClaimCommit
<1>3. CASE task[p].row.pickupRequiresApproval
  <2> DEFINE held == [status |-> "REQUESTED", assignment |-> NoRow]
  <2>1. held \in ClaimRow
    BY DEF ClaimRow
  <2>2. claim' = [claim EXCEPT ![o][e] = held] /\ UNCHANGED <<openShift, assignment>>
    BY <1>3 DEF ClaimCommit
  <2> HIDE DEF held, o, e
  <2>3. ClaimsFit' /\ ClaimsStay /\ OtherClaimsStand(o, e)
    BY <1>1, <2>1, <2>2, ClaimWritten DEF TypeInv, TablesFit
  <2>4. ClaimsHaveShifts'
    BY <1>1, <2>2, <2>3 DEF TypeInv, ClaimsHaveShifts, OtherClaimsStand
  <2>5. OpenShiftsFit' /\ OpenShiftsStay /\ AssignmentsFit' /\ AssignmentsStay
    BY <2>2 DEF TypeInv, TablesFit, OpenShiftsFit, OpenShiftsStay, AssignmentsFit, AssignmentsStay
  <2> QED
    BY <1>2, <2>3, <2>4, <2>5, ShiftsGoOn
<1>4. CASE ~task[p].row.pickupRequiresApproval
  <2>1. TakeUp(o, e, task[p].row, a)
    BY <1>4 DEF ClaimCommit
  <2> HIDE DEF o, e
  <2> QED
    BY <1>1, <1>2, <2>1, TakeUpWrites, ShiftsGoOn
<1> QED
  BY <1>3, <1>4

LEMMA PickUpCommitTypes ==
  ASSUME TypeInv, NEW p \in Scheduler, NEW a \in AssignmentId, PickUpCommit(p, a)
  PROVE  Goes
<1>1. /\ task[p].id \in OpenShiftId /\ openShift[task[p].id] # NoRow /\ task[p].employee \in Employee
      /\ task[p].row \in OpenShiftRow
  BY TaskHasItsType DEF PickUpCommit, Doing, TaskFits
<1>2. TaskGoesOn /\ UNCHANGED <<period, swap, away, past>> /\ TakeUp(task[p].id, task[p].employee, task[p].row, a)
  BY DoneGoesOn DEF PickUpCommit
<1> QED
  BY <1>1, <1>2, TakeUpWrites, ShiftsGoOn

LEMMA PeriodCommitTypes == ASSUME TypeInv, NEW p \in Scheduler, PeriodCommit(p) PROVE Goes
<1>1. task[p].id \in PeriodId /\ task[p].status \in ScheduleStatus
  BY TaskHasItsType DEF PeriodCommit, Doing, TaskFits
<1>2. /\ TaskGoesOn /\ UNCHANGED <<openShift, claim, assignment, swap, away, past>>
      /\ period' = [period EXCEPT ![task[p].id] = task[p].status]
  BY DoneGoesOn DEF PeriodCommit
<1> QED
  BY <1>1, <1>2, PeriodGoesOn

\* updateOpenShift cancels claims of the open shift that wait, and keeps what they hold.
LEMMA UpdateOpenShiftWrites ==
  ASSUME TypeInv, NEW p \in Scheduler, UpdateOpenShiftCommit(p)
  PROVE  LET o == task[p].id IN
         /\ o \in OpenShiftId /\ openShift[o] # NoRow
         /\ OpenShiftsFit' /\ OpenShiftsStay /\ ClaimsFit' /\ ClaimsStay /\ ClaimsHaveShifts'
         /\ openShift' = [openShift EXCEPT ![o] = openShift'[o]]
         /\ openShift'[o].claimed = openShift[o].claimed /\ openShift'[o].required = task[p].write.required
         /\ \A x \in OpenShiftId, e \in Employee :
              claim'[x][e] # NoRow => claim[x][e] # NoRow /\ claim'[x][e].assignment = claim[x][e].assignment
<1> DEFINE o == task[p].id
           w == task[p].write
           closes == "status" \in DOMAIN w /\ w.status \in {"CANCELLED", "EXPIRED"}
           held(e) == IF closes /\ claim[o][e] # NoRow /\ claim[o][e].status = "REQUESTED"
                      THEN [claim[o][e] EXCEPT !.status = "CANCELLED"] ELSE claim[o][e]
           row == Patched(openShift[o], w)
<1>1. o \in OpenShiftId /\ openShift[o] # NoRow /\ WriteFits(w)
  BY TaskHasItsType DEF UpdateOpenShiftCommit, Doing, TaskFits
<1>2. openShift[o] \in OpenShiftRow
  BY <1>1 DEF TypeInv, TablesFit, OpenShiftsFit
<1>3. row \in OpenShiftRow /\ row.claimed = openShift[o].claimed /\ row.required = w.required
  BY <1>1, <1>2 DEF WriteFits
<1>4. openShift' = [openShift EXCEPT ![o] = row] /\ claim' = [claim EXCEPT ![o] = [e \in Employee |-> held(e)]]
  BY DEF UpdateOpenShiftCommit
<1> HIDE DEF row
<1>5. OpenShiftsFit' /\ OpenShiftsStay /\ openShift'[o] = row
  BY <1>1, <1>3, <1>4, OpenShiftWritten DEF TypeInv, TablesFit
<1>6. ASSUME NEW e \in Employee
      PROVE  /\ held(e) \in ClaimRow \cup {NoRow} /\ (held(e) # NoRow <=> claim[o][e] # NoRow)
             /\ held(e) # NoRow => held(e).assignment = claim[o][e].assignment
  <2>1. claim[o][e] \in ClaimRow \cup {NoRow}
    BY <1>1 DEF TypeInv, TablesFit, ClaimsFit
  <2>2. CASE closes /\ claim[o][e] # NoRow /\ claim[o][e].status = "REQUESTED"
    <3>1. held(e) = [claim[o][e] EXCEPT !.status = "CANCELLED"] /\ claim[o][e] \in ClaimRow
      BY <2>1, <2>2
    <3>2. held(e) \in ClaimRow /\ held(e).assignment = claim[o][e].assignment
      BY <3>1 DEF ClaimRow
    <3> QED
      BY <2>2, <3>2, NoRowIsNone
  <2>3. CASE ~(closes /\ claim[o][e] # NoRow /\ claim[o][e].status = "REQUESTED")
    BY <2>1, <2>3
  <2> QED
    BY <2>2, <2>3
<1> HIDE DEF held, o
<1>7. /\ DOMAIN claim = OpenShiftId /\ \A e \in Employee : claim'[o][e] = held(e)
      /\ \A x \in OpenShiftId \ {o} : claim'[x] = claim[x]
      /\ claim' = [x \in OpenShiftId |-> IF x = o THEN [e \in Employee |-> held(e)] ELSE claim[x]]
  BY <1>1, <1>4 DEF TypeInv, TablesFit, ClaimsFit
<1>8. ClaimsFit'
  <2>1. [e \in Employee |-> held(e)] \in [Employee -> ClaimRow \cup {NoRow}]
    BY <1>6
  <2> QED
    BY <1>7, <2>1 DEF TypeInv, TablesFit, ClaimsFit
<1>9. ASSUME NEW x \in OpenShiftId, NEW e \in Employee
      PROVE  /\ claim[x][e] # NoRow <=> claim'[x][e] # NoRow
             /\ claim'[x][e] # NoRow => claim'[x][e].assignment = claim[x][e].assignment
  <2>1. CASE x = o
    BY <1>6, <1>7, <2>1
  <2>2. CASE x # o
    BY <1>7, <2>2
  <2> QED
    BY <2>1, <2>2
<1>10. ClaimsStay
  BY <1>9 DEF ClaimsStay
<1>11. ClaimsHaveShifts'
  BY <1>5, <1>9 DEF TypeInv, ClaimsHaveShifts, OpenShiftsStay
<1> QED
  BY <1>1, <1>3, <1>4, <1>5, <1>8, <1>9, <1>10, <1>11 DEF o

LEMMA UpdateOpenShiftCommitTypes == ASSUME TypeInv, NEW p \in Scheduler, UpdateOpenShiftCommit(p) PROVE Goes
<1>1. OpenShiftsFit' /\ OpenShiftsStay /\ ClaimsFit' /\ ClaimsStay /\ ClaimsHaveShifts'
  BY UpdateOpenShiftWrites
<1>2. TaskGoesOn /\ UNCHANGED <<period, assignment, swap, away, past>>
  BY DoneGoesOn DEF UpdateOpenShiftCommit
<1>3. AssignmentsFit' /\ AssignmentsStay
  BY <1>2 DEF TypeInv, TablesFit, AssignmentsFit, AssignmentsStay
<1> QED
  BY <1>1, <1>2, <1>3, ShiftsGoOn

\* unassignAssignment marks the assignment cancelled, and its claim, whose open
\* shift it counts down, or makes an open shift of it.
TakesBack(a, x, row, mode) ==
  /\ assignment' = [assignment EXCEPT ![a].status = "CANCELLED"]
  /\ claim' = [claim EXCEPT ![x[1]][x[2]].status = "CANCELLED"]
  /\ openShift' = [openShift EXCEPT ![x[1]].claimed = Unassigned(row, mode).claimed,
                     ![x[1]].required = Unassigned(row, mode).required,
                     ![x[1]].status = Unassigned(row, mode).status]

LEMMA UnassignedFits ==
  ASSUME NEW row \in OpenShiftRow, NEW mode
  PROVE  /\ Unassigned(row, mode).claimed \in Nat
         /\ Unassigned(row, mode).required \in Nat
         /\ Unassigned(row, mode).status \in {"OPEN", "CLAIMED", "CANCELLED", "EXPIRED"}
         /\ row.claimed > 0 => Unassigned(row, mode).claimed = row.claimed - 1
         /\ Unassigned(row, mode).claimed <= row.claimed
         /\ row.claimed <= row.required => Unassigned(row, mode).claimed <= Unassigned(row, mode).required
<1> DEFINE c == Larger(0, row.claimed - 1)
           r == IF mode = "CANCEL_ONLY" THEN Larger(0, row.required - 1) ELSE row.required
           st == IF mode = "RETURN_TO_OPEN_SHIFT" THEN "OPEN"
                 ELSE IF r = 0 THEN "CANCELLED" ELSE IF c >= r THEN "CLAIMED" ELSE "OPEN"
<1>1. row.claimed \in Nat /\ row.required \in Nat
  BY DEF OpenShiftRow
<1>2. /\ c \in Nat /\ (row.claimed > 0 => c = row.claimed - 1) /\ c <= row.claimed
      /\ (row.claimed = 0 => c = 0)
  BY <1>1 DEF Larger
<1>3. r \in Nat /\ Larger(1, r) \in Nat /\ Larger(1, r) >= r /\ r >= row.required - 1
  BY <1>1 DEF Larger
<1>4. st \in {"OPEN", "CLAIMED", "CANCELLED", "EXPIRED"}
  OBVIOUS
<1>5. /\ Unassigned(row, mode).claimed = c /\ Unassigned(row, mode).required = Larger(1, r)
      /\ Unassigned(row, mode).status = st
  BY DEF Unassigned, OpenShiftRow
<1> HIDE DEF c, r, st
<1>6. row.claimed <= row.required => c <= Larger(1, r)
  BY <1>1, <1>2, <1>3
<1> QED
  BY <1>2, <1>3, <1>4, <1>5, <1>6

LEMMA UnassignWrites ==
  ASSUME TypeInv, NEW a \in AssignmentId, NEW x \in OpenShiftId \X Employee, NEW row \in OpenShiftRow,
         NEW mode, claim[x[1]][x[2]] # NoRow, TakesBack(a, x, row, mode)
  PROVE  /\ OpenShiftsFit' /\ OpenShiftsStay /\ ClaimsFit' /\ ClaimsStay /\ ClaimsHaveShifts'
         /\ OtherClaimsStand(x[1], x[2])
         /\ claim'[x[1]][x[2]].assignment = claim[x[1]][x[2]].assignment
         /\ openShift' = [openShift EXCEPT ![x[1]] = openShift'[x[1]]]
         /\ openShift'[x[1]].claimed = Unassigned(row, mode).claimed
         /\ openShift'[x[1]].required = Unassigned(row, mode).required
<1> DEFINE o == x[1]
           e == x[2]
           new == Unassigned(row, mode)
           shift == [openShift[o] EXCEPT !.claimed = new.claimed, !.required = new.required, !.status = new.status]
           held == [claim[o][e] EXCEPT !.status = "CANCELLED"]
<1>1. o \in OpenShiftId /\ e \in Employee
  OBVIOUS
<1>2. claim[o][e] \in ClaimRow /\ openShift[o] \in OpenShiftRow
  BY <1>1 DEF TypeInv, TablesFit, OpenShiftsFit, ClaimsFit, ClaimsHaveShifts
<1>3. held \in ClaimRow /\ held.assignment = claim[o][e].assignment
  BY <1>2 DEF ClaimRow
<1>4. /\ new.claimed \in Nat /\ new.required \in Nat
      /\ new.status \in {"OPEN", "CLAIMED", "CANCELLED", "EXPIRED"}
  BY UnassignedFits
<1>5. openShift' = [openShift EXCEPT ![o] = shift] /\ claim' = [claim EXCEPT ![o][e] = held]
  BY <1>1 DEF TakesBack, TypeInv, TablesFit, OpenShiftsFit, ClaimsFit
<1> HIDE DEF new
<1>6. shift \in OpenShiftRow /\ shift.claimed = new.claimed /\ shift.required = new.required
  BY <1>2, <1>4 DEF OpenShiftRow
<1> HIDE DEF o, e, shift, held
<1>7. OpenShiftsFit' /\ OpenShiftsStay /\ openShift'[o] = shift
  BY <1>1, <1>5, <1>6, OpenShiftWritten DEF TypeInv, TablesFit
<1>8. ClaimsFit' /\ ClaimsStay /\ OtherClaimsStand(o, e) /\ claim'[o][e] = held
  BY <1>1, <1>3, <1>5, ClaimWritten DEF TypeInv, TablesFit
<1>9. ClaimsHaveShifts'
  BY <1>1, <1>2, <1>7, <1>8 DEF TypeInv, ClaimsHaveShifts, OtherClaimsStand, OpenShiftsStay, OpenShiftsFit, o, e
<1> QED
  BY <1>3, <1>5, <1>6, <1>7, <1>8, <1>9 DEF o, e, new

\* The open shift that unassignAssignment makes when no claim held the assignment.
OffersAgain(t) ==
  \E o \in OpenShiftId :
    /\ openShift[o] = NoRow
    /\ openShift' = [openShift EXCEPT ![o] =
         [slot |-> t.before.slot, period |-> t.before.period, required |-> 1, claimed |-> 0,
          pickupRequiresApproval |-> TRUE, status |-> "OPEN"]]

LEMMA UnassignCases ==
  ASSUME TypeInv, NEW p \in Scheduler, UnassignCommit(p)
  PROVE  LET t == task[p] IN
         /\ TaskFits(t) /\ t # Free /\ t.op = "unassign" /\ Done(p) /\ UNCHANGED <<period, swap, away, past>>
         /\ assignment' = [assignment EXCEPT ![t.id].status = "CANCELLED"]
         /\ \/ \E x \in t.claimOf : TakesBack(t.id, x, t.rows[x], t.mode)
            \/ t.claimOf = {} /\ UNCHANGED <<openShift, claim>>
            \/ t.claimOf = {} /\ UNCHANGED claim /\ OffersAgain(t)
<1>1. TaskFits(task[p])
  BY TaskHasItsType
<1> QED
  BY <1>1 DEF UnassignCommit, Doing, TakesBack, OffersAgain, Exists

LEMMA OfferedAgainFits ==
  ASSUME TypeInv, NEW t, TaskFits(t), t # Free, t.op = "unassign", UNCHANGED claim, OffersAgain(t)
  PROVE  /\ OpenShiftsFit' /\ OpenShiftsStay /\ ClaimsHaveShifts'
         /\ \E o \in OpenShiftId : /\ openShift[o] = NoRow /\ openShift' = [openShift EXCEPT ![o] = openShift'[o]]
                                  /\ openShift'[o].claimed = 0 /\ openShift'[o].required = 1
<1> DEFINE row == [slot |-> t.before.slot, period |-> t.before.period, required |-> 1, claimed |-> 0,
                   pickupRequiresApproval |-> TRUE, status |-> "OPEN"]
<1>1. PICK o \in OpenShiftId : openShift[o] = NoRow /\ openShift' = [openShift EXCEPT ![o] = row]
  BY DEF OffersAgain
<1>2. t.before \in AssignmentRow
  BY DEF TaskFits
<1>3. row \in OpenShiftRow /\ row.claimed = 0 /\ row.required = 1
  BY <1>2 DEF AssignmentRow, OpenShiftRow
<1> HIDE DEF row
<1>4. OpenShiftsFit' /\ OpenShiftsStay /\ openShift'[o] = row
  BY <1>1, <1>3, OpenShiftWritten DEF TypeInv, TablesFit
<1>5. ClaimsHaveShifts'
  BY <1>4 DEF TypeInv, ClaimsHaveShifts, OpenShiftsStay
<1> QED
  BY <1>1, <1>3, <1>4, <1>5

LEMMA UnassignCommitTypes == ASSUME TypeInv, NEW p \in Scheduler, UnassignCommit(p) PROVE Goes
<1> DEFINE t == task[p]
<1>1. /\ TaskFits(t) /\ t # Free /\ t.op = "unassign" /\ Done(p) /\ UNCHANGED <<period, swap, away, past>>
      /\ assignment' = [assignment EXCEPT ![t.id].status = "CANCELLED"]
      /\ \/ \E x \in t.claimOf : TakesBack(t.id, x, t.rows[x], t.mode)
         \/ t.claimOf = {} /\ UNCHANGED <<openShift, claim>>
         \/ t.claimOf = {} /\ UNCHANGED claim /\ OffersAgain(t)
  BY UnassignCases
<1> HIDE DEF t
<1>2. /\ t.id \in AssignmentId /\ assignment[t.id] # NoRow /\ t.claimOf \subseteq OpenShiftId \X Employee
      /\ \A x \in t.claimOf : claim[x[1]][x[2]] # NoRow /\ t.rows[x] \in OpenShiftRow
  BY <1>1 DEF TaskFits
<1>3. PICK row \in AssignmentRow : assignment' = [assignment EXCEPT ![t.id] = row]
  BY <1>1, <1>2, StatusTypes DEF AssignmentStatus
<1>4. AssignmentsFit' /\ AssignmentsStay /\ TaskGoesOn
  BY <1>1, <1>2, <1>3, AssignmentWritten, DoneGoesOn DEF TypeInv, TablesFit
<1>5. /\ OpenShiftsFit' /\ OpenShiftsStay /\ ClaimsFit' /\ ClaimsStay /\ ClaimsHaveShifts'
  <2>1. ASSUME NEW x \in t.claimOf, TakesBack(t.id, x, t.rows[x], t.mode)
        PROVE  OpenShiftsFit' /\ OpenShiftsStay /\ ClaimsFit' /\ ClaimsStay /\ ClaimsHaveShifts'
    <3>1. x \in OpenShiftId \X Employee /\ claim[x[1]][x[2]] # NoRow /\ t.rows[x] \in OpenShiftRow
      BY <1>2
    <3> QED
      BY <1>2, <2>1, <3>1, UnassignWrites
  <2>2. CASE UNCHANGED <<openShift, claim>>
    BY <2>2 DEF TypeInv, TablesFit, OpenShiftsFit, OpenShiftsStay, ClaimsFit, ClaimsStay, ClaimsHaveShifts
  <2>3. CASE UNCHANGED claim /\ OffersAgain(t)
    <3>1. OpenShiftsFit' /\ OpenShiftsStay /\ ClaimsHaveShifts'
      BY <1>1, <2>3, OfferedAgainFits
    <3> QED
      BY <2>3, <3>1 DEF TypeInv, TablesFit, ClaimsFit, ClaimsStay
  <2> QED
    BY <1>1, <2>1, <2>2, <2>3
<1> QED
  BY <1>1, <1>4, <1>5, ShiftsGoOn

LEMMA SwapTask ==
  ASSUME TypeInv, NEW p \in Scheduler, task[p] # Free, task[p].op \in {"swapMove", "swapClose"}
  PROVE  /\ task[p] = [op |-> task[p].op, id |-> task[p].id, status |-> task[p].status]
         /\ task[p].id \in SwapId /\ swap[task[p].id] \in SwapRow
         /\ task[p].status \in {"APPROVED", "REJECTED", "CANCELLED", "COMPLETED"}
         /\ task[p].op = "swapMove" => swap[task[p].id].target \in Employee
<1>1. TaskFits(task[p])
  BY TaskHasItsType
<1>2. /\ task[p] = [op |-> task[p].op, id |-> task[p].id, status |-> task[p].status]
      /\ task[p].id \in SwapId /\ swap[task[p].id] # NoRow
      /\ task[p].status \in {"APPROVED", "REJECTED", "CANCELLED", "COMPLETED"}
      /\ task[p].op = "swapMove" => swap[task[p].id].target # NoRow
  BY <1>1 DEF TaskFits
<1> QED
  BY <1>2 DEF TypeInv, TablesFit, SwapsFit, SwapRow

LEMMA SwapMoveTypes == ASSUME TypeInv, NEW p \in Scheduler, SwapMove(p) PROVE Goes
<1> DEFINE s == swap[task[p].id]
           a == s.assignment
           row == [assignment[a] EXCEPT !.employee = s.target]
<1> PICK t : t = [task[p] EXCEPT !.op = "swapClose"]
  OBVIOUS
<1>1. /\ task[p] = [op |-> "swapMove", id |-> task[p].id, status |-> task[p].status] /\ task[p].id \in SwapId
      /\ task[p].status \in {"APPROVED", "REJECTED", "CANCELLED", "COMPLETED"}
      /\ s \in SwapRow /\ s.target \in Employee /\ a \in AssignmentId
  BY SwapTask DEF SwapMove, Doing, SwapRow
<1>2. assignment[a] \in AssignmentRow /\ s # NoRow
  BY <1>1, NoRowIsNone DEF TypeInv, TablesFit, AssignmentsFit, SwapsHaveAssignments
<1>3. row \in AssignmentRow
  BY <1>1, <1>2 DEF AssignmentRow
<1>4. /\ assignment' = [assignment EXCEPT ![a] = row] /\ task' = [task EXCEPT ![p] = t]
      /\ UNCHANGED <<period, openShift, claim, swap, away, past>>
  BY DEF SwapMove
<1>5. t = [op |-> "swapClose", id |-> task[p].id, status |-> task[p].status]
  BY <1>1
<1>6. TaskFits(t)
  BY <1>1, <1>2, <1>5 DEF TaskFits
<1> HIDE DEF row
<1>7. TaskFits(t)'
  <2>1. OpenShiftsStay /\ ClaimsStay /\ SwapsStay
    BY <1>4 DEF OpenShiftsStay, ClaimsStay, SwapsStay
  <2>2. AssignmentsStay
    BY <1>1, <1>3, <1>4, AssignmentWritten DEF TypeInv, TablesFit
  <2> QED
    BY <1>6, <2>1, <2>2, FitsOn DEF RowsStay
<1>8. TaskGoesOn
  BY <1>4, <1>7 DEF TaskGoesOn
<1> QED
  BY <1>1, <1>3, <1>4, <1>8, AssignmentGoesOn

LEMMA SwapCloseTypes == ASSUME TypeInv, NEW p \in Scheduler, SwapClose(p) PROVE Goes
<1> DEFINE w == task[p].id
           row == [swap[w] EXCEPT !.status = task[p].status]
<1>1. w \in SwapId /\ swap[w] \in SwapRow /\ task[p].status \in {"APPROVED", "REJECTED", "CANCELLED", "COMPLETED"}
  BY SwapTask DEF SwapClose, Doing
<1>2. row \in SwapRow /\ row.target = swap[w].target /\ row.assignment = swap[w].assignment
  BY <1>1 DEF SwapRow
<1>3. /\ swap' = [swap EXCEPT ![w] = row] /\ TaskGoesOn
      /\ UNCHANGED <<period, openShift, claim, assignment, away, past>>
  BY DoneGoesOn DEF SwapClose
<1> HIDE DEF row, w
<1>4. SwapsFit' /\ SwapsStay
  BY <1>1, <1>2, <1>3, NoRowIsNone DEF TypeInv, TablesFit, SwapsFit, SwapsStay
<1> QED
  BY <1>3, <1>4, SwapGoesOn

LEMMA SchedulerStopsTypes == ASSUME TypeInv, NEW p \in Scheduler, SchedulerStops(p) PROVE Goes
<1>1. UNCHANGED <<period, openShift, claim, assignment, swap, away, past>> /\ TaskGoesOn
  BY DoneGoesOn DEF SchedulerStops
<1> QED
  BY <1>1, NothingWritten DEF Goes

LEMMA StutterTypes == ASSUME TypeInv, UNCHANGED schedulingVars PROVE Goes
<1>1. UNCHANGED <<period, openShift, claim, assignment, swap, away, past>> /\ TaskGoesOn
  BY DEF schedulingVars, TaskGoesOn
<1> QED
  BY <1>1, NothingWritten DEF Goes

LEMMA TypeStep ==
  ASSUME TypeInv, [SchedulingNext]_schedulingVars
  PROVE  TypeInv' /\ RowsStay
<1> SUFFICES Goes
  BY TypeGoesOn DEF Goes
<1>1. ASSUME NEW k \in PeriodId, NEW st \in PeriodInput, CreatePeriod(k, st) PROVE Goes
  BY <1>1, CreatePeriodTypes
<1>2. ASSUME NEW o \in OpenShiftId, NEW row \in OpenShiftInput, CreateOpenShift(o, row) PROVE Goes
  BY <1>2, CreateOpenShiftTypes
<1>3. ASSUME NEW a \in AssignmentId, NEW e \in Employee, NEW s \in Slot, NEW k \in PeriodId \cup {NoRow},
             CreateAssignment(a, e, s, k)
      PROVE  Goes
  BY <1>3, CreateAssignmentTypes
<1>4. ASSUME NEW a \in AssignmentId, NEW patch \in AssignmentPatch, UpdateAssignment(a, patch) PROVE Goes
  BY <1>4, UpdateAssignmentTypes
<1>5. ASSUME NEW a \in AssignmentId, NEW st \in StatusInput, UpdateAssignmentStatus(a, st) PROVE Goes
  BY <1>5, UpdateAssignmentStatusTypes
<1>6. ASSUME NEW o \in OpenShiftId, NEW e \in Employee, NEW st \in {"APPROVED", "REJECTED", "CANCELLED"},
             DecideOpenShiftClaim(o, e, st)
      PROVE  Goes
  BY <1>6, DecideOpenShiftClaimTypes
<1>7. ASSUME NEW w \in SwapId, NEW a \in AssignmentId, NEW e \in Employee \cup {NoRow}, CreateSwapRequest(w, a, e)
      PROVE  Goes
  BY <1>7, CreateSwapRequestTypes
<1>8. ASSUME NEW x \in AwayInput, CreateAvailability(x) PROVE Goes
  BY <1>8, CreateAvailabilityTypes
<1>9. ASSUME NEW s \in Slot, SlotBegins(s) PROVE Goes
  BY <1>9, SlotBeginsTypes
<1>10. ASSUME NEW p \in Scheduler, NEW k \in PeriodId, NEW st \in ScheduleStatus, PeriodRead(p, k, st) PROVE Goes
  BY <1>10, PeriodReadTypes
<1>11. ASSUME NEW p \in Scheduler, NEW o \in OpenShiftId, NEW patch \in OpenShiftPatch, UpdateOpenShiftRead(p, o, patch)
       PROVE  Goes
  BY <1>11, UpdateOpenShiftReadTypes
<1>12. ASSUME NEW p \in Scheduler, NEW o \in OpenShiftId, NEW e \in Employee, ClaimRead(p, o, e) PROVE Goes
  BY <1>12, ClaimReadTypes
<1>13. ASSUME NEW p \in Scheduler, NEW o \in OpenShiftId, NEW e \in Employee, PickUpRead(p, o, e) PROVE Goes
  BY <1>13, PickUpReadTypes
<1>14. ASSUME NEW p \in Scheduler, NEW a \in AssignmentId, NEW mode \in UnassignmentMode, UnassignRead(p, a, mode)
       PROVE  Goes
  BY <1>14, UnassignReadTypes
<1>15. ASSUME NEW p \in Scheduler, NEW w \in SwapId, NEW st \in {"APPROVED", "REJECTED", "CANCELLED", "COMPLETED"},
              DecideSwapRead(p, w, st)
       PROVE  Goes
  BY <1>15, DecideSwapReadTypes
<1>16. ASSUME NEW p \in Scheduler, NEW a \in AssignmentId, ClaimCommit(p, a) PROVE Goes
  BY <1>16, ClaimCommitTypes
<1>17. ASSUME NEW p \in Scheduler, NEW a \in AssignmentId, PickUpCommit(p, a) PROVE Goes
  BY <1>17, PickUpCommitTypes
<1>18. ASSUME NEW p \in Scheduler,
              PeriodCommit(p) \/ UpdateOpenShiftCommit(p) \/ UnassignCommit(p) \/ SwapMove(p) \/ SwapClose(p)
                \/ SchedulerStops(p)
       PROVE  Goes
  BY <1>18, PeriodCommitTypes, UpdateOpenShiftCommitTypes, UnassignCommitTypes, SwapMoveTypes, SwapCloseTypes,
     SchedulerStopsTypes
<1>19. CASE UNCHANGED schedulingVars
  BY <1>19, StutterTypes
<1> QED
  BY <1>1, <1>2, <1>3, <1>4, <1>5, <1>6, <1>7, <1>8, <1>9, <1>10, <1>11, <1>12, <1>13, <1>14, <1>15, <1>16, <1>17,
     <1>18, <1>19 DEF SchedulingNext

LEMMA TypeInvAtStart == SchedulingInit => TypeInv
<1> SUFFICES ASSUME SchedulingInit PROVE TypeInv
  OBVIOUS
<1>1. TablesFit
  BY DEF SchedulingInit, TablesFit, PeriodsFit, OpenShiftsFit, ClaimsFit, AssignmentsFit, SwapsFit, SlotsFit
<1> QED
  BY <1>1 DEF SchedulingInit, TypeInv, ClaimsHaveShifts, SwapsHaveAssignments, TaskFits

\* Whether handlers take turns or not, the rows of scheduling are as their
\* tables have them: no transaction writes a row that was not there.
THEOREM SchedulingTyped == SchedulingSpec => []SchedulingTypeOK
<1>1. TypeInv => SchedulingTypeOK
  BY TypeParts DEF TypeInv
<1> QED
  BY <1>1, TypeInvAtStart, TypeStep, PTL DEF SchedulingSpec

----------------------------------------------------------------------------
(* The headcount of open shifts, for handlers that take turns *)

\* The employees whose claim holds an assignment that was not taken back.
Held(o) ==
  {e \in Employee : claim[o][e] # NoRow /\ claim[o][e].assignment # NoRow /\ claim[o][e].assignment \notin unassigned}

Covered(o) ==
  openShift[o] # NoRow =>
    Cardinality(Held(o)) <= openShift[o].claimed /\ openShift[o].claimed <= openShift[o].required

\* What was taken back has ended.
TakenAreOver == \A a \in unassigned : a \in AssignmentId /\ assignment[a] # NoRow /\ ~IsLive(a)

\* The counts a handler has read are still so when it commits.
CountsStand(t) ==
  t # Free =>
    /\ t.op \in {"claim", "pickUp"} => t.row = openShift[t.id] /\ t.row.claimed < t.row.required
    /\ t.op = "updateOpen" => t.write.required >= openShift[t.id].claimed
    /\ t.op = "unassign" => t.claimOf = ClaimOf(t.id) /\ \A x \in t.claimOf : t.rows[x] = openShift[x[1]]

HeadInv ==
  /\ \A p \in Scheduler : CountsStand(task[p])
  /\ disturbed \/ (TakenAreOver /\ \A o \in OpenShiftId : Covered(o))

CountsGoOn == \A p \in Scheduler : CountsStand(task[p])'

\* A transaction that takes its turn leaves no handler behind.
LEMMA TurnCounts ==
  ASSUME TakingTurns, Turn, task' = task
  PROVE  CountsGoOn
BY DEF CountsGoOn, CountsStand, Turn

LEMMA DoneCounts ==
  ASSUME BookInv, NEW p \in Scheduler, task[p] # Free, Done(p)
  PROVE  CountsGoOn
<1>1. \A q \in Scheduler \ {p} : task[q] = Free
  BY DEF BookInv
<1>2. \A q \in Scheduler : task'[q] = Free
  BY <1>1 DEF Done, BookInv, Tables
<1> QED
  BY <1>2 DEF CountsGoOn, CountsStand

LEMMA ReadCounts ==
  ASSUME TakingTurns, BookInv, NEW p \in Scheduler, NEW t, Reads(p, t), CountsStand(t), UNCHANGED <<openShift, claim>>
  PROVE  CountsGoOn
<1>1. \A q \in Scheduler \ {p} : task'[q] = Free
  BY DEF Reads, Turn, BookInv, Tables
<1>2. task'[p] = t
  BY DEF Reads, BookInv, Tables
<1>3. ClaimOf(t.id)' = ClaimOf(t.id)
  BY DEF ClaimOf
<1>4. CountsStand(t)'
  BY <1>3 DEF CountsStand
<1>5. ASSUME NEW q \in Scheduler PROVE CountsStand(task[q])'
  <2>1. CASE q = p
    BY <1>2, <1>4, <2>1
  <2>2. CASE q # p
    BY <1>1, <2>2 DEF CountsStand
  <2> QED
    BY <2>1, <2>2
<1> QED
  BY <1>5 DEF CountsGoOn

----------------------------------------------------------------------------
\* What a step may do to the claims and the counts.

\* No claim comes to hold an assignment, and no row changes.
KeepsCounts ==
  /\ UNCHANGED openShift
  /\ \A o \in OpenShiftId, e \in Employee : claim'[o][e] # NoRow =>
       \/ claim'[o][e].assignment = NoRow
       \/ claim[o][e] # NoRow /\ claim'[o][e].assignment = claim[o][e].assignment
\* An open shift is made, for somebody and not claimed.
OpensShift ==
  \E o \in OpenShiftId :
    /\ UNCHANGED claim /\ openShift[o] = NoRow /\ openShift' = [openShift EXCEPT ![o] = openShift'[o]]
    /\ openShift'[o].claimed = 0 /\ openShift'[o].required \in Nat
\* One employee more is counted, of an open shift that was not full.
CountsUp ==
  \E o \in OpenShiftId, e \in Employee :
    /\ openShift[o] # NoRow /\ openShift[o].claimed < openShift[o].required
    /\ OtherClaimsStand(o, e) /\ openShift' = [openShift EXCEPT ![o] = openShift'[o]]
    /\ openShift'[o].claimed = openShift[o].claimed + 1 /\ openShift'[o].required = openShift[o].required
\* An open shift is changed, and does not ask for fewer than it counts.
Resizes ==
  \E o \in OpenShiftId :
    /\ openShift[o] # NoRow /\ openShift' = [openShift EXCEPT ![o] = openShift'[o]]
    /\ openShift'[o].claimed = openShift[o].claimed /\ openShift'[o].required >= openShift[o].claimed
    /\ \A x \in OpenShiftId, e \in Employee :
         claim'[x][e] # NoRow => claim[x][e] # NoRow /\ claim'[x][e].assignment = claim[x][e].assignment
\* One employee less is counted: an assignment was taken back.
CountsDown ==
  \E x \in OpenShiftId \X Employee :
    /\ claim[x[1]][x[2]] # NoRow /\ claim[x[1]][x[2]].assignment \in TakenBack
    /\ claim'[x[1]][x[2]].assignment = claim[x[1]][x[2]].assignment
    /\ OtherClaimsStand(x[1], x[2]) /\ openShift' = [openShift EXCEPT ![x[1]] = openShift'[x[1]]]
    /\ \E mode : /\ openShift'[x[1]].claimed = Unassigned(openShift[x[1]], mode).claimed
                 /\ openShift'[x[1]].required = Unassigned(openShift[x[1]], mode).required
CountsMove == KeepsCounts \/ OpensShift \/ CountsUp \/ Resizes \/ CountsDown

LEMMA ClaimsKeepCounts ==
  ASSUME UNCHANGED <<openShift, claim>> PROVE KeepsCounts
BY DEF KeepsCounts

----------------------------------------------------------------------------
LEMMA TakeUpCounts ==
  ASSUME TypeInv, BookInv, \A q \in Scheduler : CountsStand(task[q]), NEW p \in Scheduler, NEW a \in AssignmentId,
         ClaimCommit(p, a) \/ PickUpCommit(p, a)
  PROVE  CountsGoOn /\ CountsMove
<1> DEFINE o == task[p].id
           e == task[p].employee
<1>1. /\ task[p] # Free /\ task[p].op \in {"claim", "pickUp"} /\ Done(p)
  BY DEF ClaimCommit, PickUpCommit, Doing
<1>2. CountsGoOn
  BY <1>1, DoneCounts
<1>3. /\ o \in OpenShiftId /\ openShift[o] # NoRow /\ e \in Employee /\ task[p].row \in OpenShiftRow
      /\ task[p].row = openShift[o] /\ openShift[o].claimed < openShift[o].required
  BY <1>1, TaskHasItsType DEF TaskFits, CountsStand
<1>4. CASE TakeUp(o, e, task[p].row, a)
  <2> HIDE DEF o, e
  <2>1. PICK row \in OpenShiftRow : row = task[p].row
    BY <1>3
  <2>2. TakeUp(o, e, row, a)
    BY <1>4, <2>1
  <2>3. CountedUp(o, e, row)
    BY <1>3, <2>2, TakeUpWrites
  <2>4. row = openShift[o]
    BY <1>3, <2>1
  <2>5. CountsUp
    BY <1>3, <2>3, <2>4 DEF CountsUp, CountedUp
  <2> QED
    BY <1>2, <2>5 DEF CountsMove
<1>5. CASE /\ claim' = [claim EXCEPT ![o][e] = [status |-> "REQUESTED", assignment |-> NoRow]] /\ UNCHANGED openShift
  <2> DEFINE held == [status |-> "REQUESTED", assignment |-> NoRow]
  <2>1. held \in ClaimRow /\ held.assignment = NoRow
    BY DEF ClaimRow
  <2>2. claim' = [claim EXCEPT ![o][e] = held]
    BY <1>5
  <2> HIDE DEF held, o, e
  <2>3. OtherClaimsStand(o, e) /\ claim'[o][e] = held
    BY <1>3, <2>1, <2>2, ClaimWritten DEF TypeInv, TablesFit
  <2>4. KeepsCounts
    BY <1>3, <1>5, <2>1, <2>3 DEF KeepsCounts, OtherClaimsStand
  <2> QED
    BY <1>2, <2>4 DEF CountsMove
<1> QED
  BY <1>4, <1>5 DEF ClaimCommit, PickUpCommit

LEMMA ResizeCounts ==
  ASSUME TypeInv, BookInv, \A q \in Scheduler : CountsStand(task[q]), NEW p \in Scheduler, UpdateOpenShiftCommit(p)
  PROVE  CountsGoOn /\ CountsMove
<1>1. task[p] # Free /\ task[p].op = "updateOpen" /\ Done(p)
  BY DEF UpdateOpenShiftCommit, Doing
<1>2. task[p].write.required >= openShift[task[p].id].claimed
  BY <1>1 DEF CountsStand
<1>3. Resizes
  BY <1>2, UpdateOpenShiftWrites DEF Resizes
<1> QED
  BY <1>1, <1>3, DoneCounts DEF CountsMove

LEMMA UnassignCounts ==
  ASSUME TypeInv, BookInv, \A q \in Scheduler : CountsStand(task[q]), NEW p \in Scheduler, UnassignCommit(p)
  PROVE  CountsGoOn /\ CountsMove
<1> DEFINE t == task[p]
<1>1. /\ TaskFits(t) /\ t # Free /\ t.op = "unassign" /\ Done(p) /\ UNCHANGED <<period, swap, away, past>>
      /\ assignment' = [assignment EXCEPT ![t.id].status = "CANCELLED"]
      /\ \/ \E x \in t.claimOf : TakesBack(t.id, x, t.rows[x], t.mode)
         \/ t.claimOf = {} /\ UNCHANGED <<openShift, claim>>
         \/ t.claimOf = {} /\ UNCHANGED claim /\ OffersAgain(t)
  BY UnassignCases
<1>2. CountsGoOn
  BY <1>1, DoneCounts
<1>3. t.claimOf = ClaimOf(t.id) /\ \A x \in t.claimOf : t.rows[x] = openShift[x[1]]
  BY <1>1 DEF CountsStand
<1>4. t.id \in TakenBack
  BY <1>1 DEF TakenBack, Doing
<1> HIDE DEF t
<1>5. ASSUME NEW x \in t.claimOf, TakesBack(t.id, x, t.rows[x], t.mode) PROVE CountsDown
  <2>1. x \in OpenShiftId \X Employee /\ claim[x[1]][x[2]] # NoRow /\ claim[x[1]][x[2]].assignment = t.id
    BY <1>3 DEF ClaimOf
  <2>2. t.rows[x] = openShift[x[1]] /\ t.rows[x] \in OpenShiftRow /\ t.id \in AssignmentId
    BY <1>1, <1>3 DEF TaskFits
  <2>3. /\ OtherClaimsStand(x[1], x[2])
        /\ claim'[x[1]][x[2]].assignment = claim[x[1]][x[2]].assignment
        /\ openShift' = [openShift EXCEPT ![x[1]] = openShift'[x[1]]]
        /\ openShift'[x[1]].claimed = Unassigned(t.rows[x], t.mode).claimed
        /\ openShift'[x[1]].required = Unassigned(t.rows[x], t.mode).required
    BY <1>5, <2>1, <2>2, UnassignWrites
  <2> QED
    BY <1>4, <2>1, <2>2, <2>3 DEF CountsDown
<1>6. ASSUME UNCHANGED claim, OffersAgain(t) PROVE OpensShift
  BY <1>1, <1>6, OfferedAgainFits DEF OpensShift
<1> QED
  BY <1>1, <1>2, <1>5, <1>6, ClaimsKeepCounts DEF CountsMove

LEMMA CreateOpenShiftCounts ==
  ASSUME TakingTurns, TypeInv, NEW o \in OpenShiftId, NEW row \in OpenShiftInput, CreateOpenShift(o, row)
  PROVE  CountsGoOn /\ CountsMove
<1>1. row \in OpenShiftRow /\ row.claimed = 0 /\ row.required \in Nat
  BY SchedulingAssumption DEF OpenShiftRow
<1>2. openShift' = [openShift EXCEPT ![o] = row] /\ openShift[o] = NoRow /\ UNCHANGED <<claim, task>> /\ Turn
  BY DEF CreateOpenShift, Exists
<1>3. openShift'[o] = row
  BY <1>2 DEF TypeInv, TablesFit, OpenShiftsFit
<1>4. OpensShift
  BY <1>1, <1>2, <1>3 DEF OpensShift
<1> QED
  BY <1>2, <1>4, TurnCounts DEF CountsMove

LEMMA DecideClaimCounts ==
  ASSUME TakingTurns, TypeInv, NEW o \in OpenShiftId, NEW e \in Employee, NEW st, DecideOpenShiftClaim(o, e, st)
  PROVE  CountsGoOn /\ CountsMove
<1>1. claim[o][e] \in ClaimRow
  BY DEF DecideOpenShiftClaim, TypeInv, TablesFit, ClaimsFit
<1>2. UNCHANGED <<openShift, task>> /\ Turn /\ claim' = [claim EXCEPT ![o][e].status = st]
  BY DEF DecideOpenShiftClaim
<1>3. /\ claim'[o][e] = [claim[o][e] EXCEPT !.status = st] /\ claim[o][e] # NoRow
      /\ \A x \in OpenShiftId, y \in Employee : (x # o \/ y # e) => claim'[x][y] = claim[x][y]
  BY <1>1, <1>2, NoRowIsNone DEF TypeInv, TablesFit, ClaimsFit
<1>4. claim'[o][e].assignment = claim[o][e].assignment
  BY <1>1, <1>3 DEF ClaimRow
<1>5. KeepsCounts
  BY <1>2, <1>3, <1>4 DEF KeepsCounts
<1> QED
  BY <1>2, <1>5, TurnCounts DEF CountsMove

LEMMA HeadReads ==
  ASSUME TakingTurns, TypeInv, BookInv, NEW p \in Scheduler
  PROVE  /\ \A k \in PeriodId, st \in ScheduleStatus : PeriodRead(p, k, st) => CountsGoOn
         /\ \A o \in OpenShiftId, patch \in OpenShiftPatch : UpdateOpenShiftRead(p, o, patch) => CountsGoOn
         /\ \A o \in OpenShiftId, e \in Employee : ClaimRead(p, o, e) \/ PickUpRead(p, o, e) => CountsGoOn
         /\ \A a \in AssignmentId, mode \in UnassignmentMode : UnassignRead(p, a, mode) => CountsGoOn
         /\ \A w \in SwapId, st \in {"APPROVED", "REJECTED", "CANCELLED", "COMPLETED"} :
              DecideSwapRead(p, w, st) => CountsGoOn
<1>1. ASSUME NEW k \in PeriodId, NEW st \in ScheduleStatus, PeriodRead(p, k, st) PROVE CountsGoOn
  <2>1. PICK t : t = [op |-> "period", id |-> k, status |-> st]
    OBVIOUS
  <2>2. Reads(p, t) /\ CountsStand(t) /\ UNCHANGED <<openShift, claim>>
    BY <1>1, <2>1 DEF PeriodRead, CountsStand
  <2> QED
    BY <2>2, ReadCounts
<1>2. ASSUME NEW o \in OpenShiftId, NEW patch \in OpenShiftPatch, UpdateOpenShiftRead(p, o, patch) PROVE CountsGoOn
  <2>1. PICK w : w = [f \in DOMAIN patch \cup {"slot", "required"} |-> Patched(openShift[o], patch)[f]]
    OBVIOUS
  <2>2. PICK t : t = [op |-> "updateOpen", id |-> o, write |-> w]
    OBVIOUS
  <2>3. Reads(p, t) /\ Patched(openShift[o], patch).required >= openShift[o].claimed /\ UNCHANGED <<openShift, claim>>
    BY <1>2, <2>1, <2>2 DEF UpdateOpenShiftRead
  <2>4. w.required = Patched(openShift[o], patch).required
    BY <2>1
  <2>5. CountsStand(t)
    BY <2>2, <2>3, <2>4 DEF CountsStand
  <2> QED
    BY <2>3, <2>5, ReadCounts
<1>3. ASSUME NEW o \in OpenShiftId, NEW e \in Employee, ClaimRead(p, o, e) PROVE CountsGoOn
  <2>1. PICK t : t = [op |-> "claim", id |-> o, employee |-> e, row |-> openShift[o]]
    OBVIOUS
  <2>2. Reads(p, t) /\ CountsStand(t) /\ UNCHANGED <<openShift, claim>>
    BY <1>3, <2>1 DEF ClaimRead, CountsStand, Claimable
  <2> QED
    BY <2>2, ReadCounts
<1>4. ASSUME NEW o \in OpenShiftId, NEW e \in Employee, PickUpRead(p, o, e) PROVE CountsGoOn
  <2>1. PICK t : t = [op |-> "pickUp", id |-> o, employee |-> e, row |-> openShift[o], new |-> claim[o][e] = NoRow]
    OBVIOUS
  <2>2. Reads(p, t) /\ CountsStand(t) /\ UNCHANGED <<openShift, claim>>
    BY <1>4, <2>1 DEF PickUpRead, CountsStand, Claimable
  <2> QED
    BY <2>2, ReadCounts
<1>5. ASSUME NEW a \in AssignmentId, NEW mode \in UnassignmentMode, UnassignRead(p, a, mode) PROVE CountsGoOn
  <2>1. PICK t : t = [op |-> "unassign", id |-> a, mode |-> mode, before |-> assignment[a],
                      claimOf |-> ClaimOf(a), rows |-> [x \in ClaimOf(a) |-> openShift[x[1]]]]
    OBVIOUS
  <2>2. Reads(p, t) /\ UNCHANGED <<openShift, claim>>
    BY <1>5, <2>1 DEF UnassignRead
  <2>3. t.op = "unassign" /\ t.claimOf = ClaimOf(t.id) /\ \A x \in t.claimOf : t.rows[x] = openShift[x[1]]
    BY <2>1
  <2>4. CountsStand(t)
    BY <2>3 DEF CountsStand
  <2> QED
    BY <2>2, <2>4, ReadCounts
<1>6. ASSUME NEW w \in SwapId, NEW st \in {"APPROVED", "REJECTED", "CANCELLED", "COMPLETED"}, DecideSwapRead(p, w, st)
      PROVE  CountsGoOn
  <2> DEFINE moves == st = "APPROVED" /\ swap[w].target # NoRow
  <2>1. PICK t : t = [op |-> IF moves THEN "swapMove" ELSE "swapClose", id |-> w,
                      status |-> IF moves THEN "COMPLETED" ELSE st]
    OBVIOUS
  <2>2. Reads(p, t) /\ CountsStand(t) /\ UNCHANGED <<openShift, claim>>
    BY <1>6, <2>1 DEF DecideSwapRead, CountsStand
  <2> QED
    BY <2>2, ReadCounts
<1> QED
  BY <1>1, <1>2, <1>3, <1>4, <1>5, <1>6

LEMMA HeadStep ==
  ASSUME TakingTurns, TypeInv, BookInv, \A q \in Scheduler : CountsStand(task[q]), SchedulingNext
  PROVE  CountsGoOn /\ CountsMove
<1> DEFINE Goal == CountsGoOn /\ CountsMove
<1>k. ASSUME CountsGoOn, UNCHANGED <<openShift, claim>> PROVE Goal
  BY <1>k, ClaimsKeepCounts DEF CountsMove
<1>t. ASSUME Turn, UNCHANGED <<openShift, claim, task>> PROVE Goal
  BY <1>k, <1>t, TurnCounts
<1>d. ASSUME NEW p \in Scheduler, task[p] # Free, Done(p), UNCHANGED <<openShift, claim>> PROVE Goal
  BY <1>k, <1>d, DoneCounts
<1> HIDE DEF Goal
<1>1. ASSUME NEW k, NEW st, CreatePeriod(k, st) PROVE Goal
  BY <1>t, <1>1 DEF CreatePeriod
<1>2. ASSUME NEW o \in OpenShiftId, NEW row \in OpenShiftInput, CreateOpenShift(o, row) PROVE Goal
  BY <1>2, CreateOpenShiftCounts DEF Goal
<1>3. ASSUME NEW a, NEW e, NEW s, NEW k, CreateAssignment(a, e, s, k) PROVE Goal
  BY <1>t, <1>3 DEF CreateAssignment
<1>4. ASSUME NEW a, NEW patch, UpdateAssignment(a, patch) PROVE Goal
  BY <1>t, <1>4 DEF UpdateAssignment
<1>5. ASSUME NEW a, NEW st, UpdateAssignmentStatus(a, st) PROVE Goal
  BY <1>t, <1>5 DEF UpdateAssignmentStatus
<1>6. ASSUME NEW o \in OpenShiftId, NEW e \in Employee, NEW st, DecideOpenShiftClaim(o, e, st) PROVE Goal
  BY <1>6, DecideClaimCounts DEF Goal
<1>7. ASSUME NEW w, NEW a, NEW e, CreateSwapRequest(w, a, e) PROVE Goal
  BY <1>t, <1>7 DEF CreateSwapRequest
<1>8. ASSUME NEW x, CreateAvailability(x) PROVE Goal
  BY <1>t, <1>8 DEF CreateAvailability
<1>9. ASSUME NEW s, SlotBegins(s) PROVE Goal
  <2>1. UNCHANGED <<openShift, claim, task>>
    BY <1>9 DEF SlotBegins
  <2>2. \A a : ClaimOf(a)' = ClaimOf(a)
    BY <2>1 DEF ClaimOf
  <2>3. CountsGoOn
    BY <2>1, <2>2 DEF CountsGoOn, CountsStand
  <2> QED
    BY <1>k, <2>1, <2>3
<1>10. ASSUME NEW p \in Scheduler, NEW k \in PeriodId, NEW st \in ScheduleStatus, PeriodRead(p, k, st) PROVE Goal
  BY <1>k, <1>10, HeadReads DEF PeriodRead
<1>11. ASSUME NEW p \in Scheduler, NEW o \in OpenShiftId, NEW patch \in OpenShiftPatch, UpdateOpenShiftRead(p, o, patch)
       PROVE  Goal
  BY <1>k, <1>11, HeadReads DEF UpdateOpenShiftRead
<1>12. ASSUME NEW p \in Scheduler, NEW o \in OpenShiftId, NEW e \in Employee, ClaimRead(p, o, e) \/ PickUpRead(p, o, e)
       PROVE  Goal
  BY <1>k, <1>12, HeadReads DEF ClaimRead, PickUpRead
<1>13. ASSUME NEW p \in Scheduler, NEW a \in AssignmentId, NEW mode \in UnassignmentMode, UnassignRead(p, a, mode)
       PROVE  Goal
  BY <1>k, <1>13, HeadReads DEF UnassignRead
<1>14. ASSUME NEW p \in Scheduler, NEW w \in SwapId, NEW st \in {"APPROVED", "REJECTED", "CANCELLED", "COMPLETED"},
              DecideSwapRead(p, w, st)
       PROVE  Goal
  BY <1>k, <1>14, HeadReads DEF DecideSwapRead
<1>15. ASSUME NEW p \in Scheduler, NEW a \in AssignmentId, ClaimCommit(p, a) \/ PickUpCommit(p, a) PROVE Goal
  BY <1>15, TakeUpCounts DEF Goal
<1>16. ASSUME NEW p \in Scheduler, UpdateOpenShiftCommit(p) PROVE Goal
  BY <1>16, ResizeCounts DEF Goal
<1>17. ASSUME NEW p \in Scheduler, UnassignCommit(p) PROVE Goal
  BY <1>17, UnassignCounts DEF Goal
<1>18. ASSUME NEW p \in Scheduler, PeriodCommit(p) \/ SwapClose(p) \/ SchedulerStops(p) PROVE Goal
  BY <1>d, <1>18 DEF PeriodCommit, SwapClose, SchedulerStops, Doing
<1>19. ASSUME NEW p \in Scheduler, SwapMove(p) PROVE Goal
  <2>1. UNCHANGED <<openShift, claim>> /\ task' = [task EXCEPT ![p].op = "swapClose"]
    BY <1>19 DEF SwapMove
  <2>2. task[p] # Free /\ task[p] = [op |-> "swapMove", id |-> task[p].id, status |-> task[p].status]
    BY <1>19, SwapTask DEF SwapMove, Doing
  <2>3. \A q \in Scheduler \ {p} : task[q] = Free
    BY <2>2 DEF BookInv
  <2>4. task'[p].op = "swapClose" /\ \A q \in Scheduler \ {p} : task'[q] = Free
    BY <2>1, <2>2, <2>3 DEF TypeInv
  <2>5. CountsGoOn
    BY <2>4 DEF CountsGoOn, CountsStand
  <2> QED
    BY <1>k, <2>1, <2>5
<1>20. Goal
  BY <1>1, <1>2, <1>3, <1>4, <1>5, <1>6, <1>7, <1>8, <1>9, <1>10, <1>11, <1>12, <1>13, <1>14, <1>15, <1>16, <1>17,
     <1>18, <1>19 DEF SchedulingNext
<1> QED
  BY <1>20 DEF Goal

----------------------------------------------------------------------------
(* What the moves of the counts do to the cover *)

LEMMA HeldIsFinite == ASSUME NEW o PROVE IsFiniteSet(Held(o)) /\ Cardinality(Held(o)) \in Nat
<1>1. Held(o) \subseteq Employee
  BY DEF Held
<1> QED
  BY <1>1, SchedulingAssumption, FS_Subset, FS_CardinalityType

LEMMA FewerHeld ==
  ASSUME NEW S, IsFiniteSet(S), NEW T, T \subseteq S PROVE Cardinality(T) <= Cardinality(S) /\ Cardinality(T) \in Nat
BY FS_Subset, FS_CardinalityType

LEMMA OneMoreHeld ==
  ASSUME NEW S, IsFiniteSet(S), NEW e
  PROVE  /\ IsFiniteSet(S \cup {e}) /\ Cardinality(S \cup {e}) <= Cardinality(S) + 1
         /\ Cardinality(S \cup {e}) \in Nat
<1>1. IsFiniteSet(S \cup {e}) /\ Cardinality(S \cup {e}) \in Nat /\ Cardinality(S) \in Nat
  BY FS_AddElement, FS_CardinalityType
<1>2. Cardinality(S \cup {e}) = Cardinality(S) \/ Cardinality(S \cup {e}) = Cardinality(S) + 1
  BY FS_AddElement
<1> QED
  BY <1>1, <1>2

\* Who is held after a step in which the claims on an open shift did not come to hold more.
LEMMA HeldShrinks ==
  ASSUME NEW o \in OpenShiftId, unassigned \subseteq unassigned',
         \A e \in Employee : claim'[o][e] # NoRow =>
            \/ claim'[o][e].assignment = NoRow
            \/ claim[o][e] # NoRow /\ claim'[o][e].assignment = claim[o][e].assignment
  PROVE  Held(o)' \subseteq Held(o)
BY DEF Held

LEMMA CoveredGoesOn ==
  ASSUME NEW o \in OpenShiftId, OpenShiftsFit, Covered(o), Held(o)' \subseteq Held(o), openShift[o] # NoRow,
         openShift'[o].claimed = openShift[o].claimed, openShift'[o].required >= openShift[o].claimed
  PROVE  Covered(o)'
<1>1. openShift[o].claimed \in Nat
  BY DEF OpenShiftsFit, OpenShiftRow
<1>2. /\ Cardinality(Held(o)') <= Cardinality(Held(o)) /\ Cardinality(Held(o)') \in Nat /\ Cardinality(Held(o)) \in Nat
  BY HeldIsFinite, FewerHeld
<1>3. Cardinality(Held(o)) <= openShift[o].claimed
  BY DEF Covered
<1>4. PICK m \in Nat : m = Cardinality(Held(o)')
  BY <1>2
<1>5. m <= openShift[o].claimed
  BY <1>1, <1>2, <1>3, <1>4
<1> QED
  BY <1>1, <1>4, <1>5 DEF Covered

\* Nothing happened to this open shift, or to what the claims on it hold.
LEMMA CoveredIfLeft ==
  ASSUME NEW o \in OpenShiftId, OpenShiftsFit, Covered(o), Held(o)' \subseteq Held(o), openShift'[o] = openShift[o]
  PROVE  Covered(o)'
<1>1. CASE openShift[o] = NoRow
  BY <1>1 DEF Covered
<1>2. CASE openShift[o] # NoRow
  <2>1. openShift[o].claimed \in Nat /\ openShift[o].required \in Nat /\ openShift[o].claimed <= openShift[o].required
    BY <1>2 DEF Covered, OpenShiftsFit, OpenShiftRow
  <2> QED
    BY <1>2, <2>1, CoveredGoesOn
<1> QED
  BY <1>1, <1>2

\* What is taken back has ended when it is.
LEMMA TakenBackEnds ==
  ASSUME TypeInv
  PROVE  \A a \in TakenBack : a \in AssignmentId /\ assignment'[a] # NoRow /\ ~IsLive(a)'
<1> SUFFICES ASSUME NEW p \in Scheduler, UnassignCommit(p), NEW a, a = task[p].id
             PROVE  a \in AssignmentId /\ assignment'[a] # NoRow /\ ~IsLive(a)'
  BY DEF TakenBack
<1>1. a \in AssignmentId /\ assignment[a] # NoRow
  BY TaskHasItsType DEF UnassignCommit, Doing, TaskFits
<1>2. assignment' = [assignment EXCEPT ![a].status = "CANCELLED"]
  BY DEF UnassignCommit
<1>3. assignment[a] \in AssignmentRow
  BY <1>1 DEF TypeInv, TablesFit, AssignmentsFit
<1>4. assignment'[a] = [assignment[a] EXCEPT !.status = "CANCELLED"] /\ assignment'[a] \in AssignmentRow
  BY <1>1, <1>2, <1>3 DEF TypeInv, TablesFit, AssignmentsFit, AssignmentRow, AssignmentStatus
<1>5. assignment'[a].status = "CANCELLED"
  BY <1>3, <1>4 DEF AssignmentRow
<1> QED
  BY <1>1, <1>4, <1>5, NoRowIsNone DEF IsLive, TERMINAL_ASSIGNMENT_STATUSES

LEMMA CoverMoves ==
  ASSUME TypeInv, \A o \in OpenShiftId : Covered(o), unassigned' = unassigned \cup TakenBack,
         TakenBack \cap unassigned = {}, CountsMove
  PROVE  \A o \in OpenShiftId : Covered(o)'
<1>f. OpenShiftsFit /\ DOMAIN openShift = OpenShiftId
  BY DEF TypeInv, TablesFit, OpenShiftsFit
<1>n. \A o \in OpenShiftId : openShift[o] # NoRow => openShift[o].claimed \in Nat /\ openShift[o].required \in Nat
  BY <1>f DEF OpenShiftsFit, OpenShiftRow
<1>1. CASE KeepsCounts
  <2> SUFFICES ASSUME NEW o \in OpenShiftId PROVE Covered(o)'
    OBVIOUS
  <2>1. Held(o)' \subseteq Held(o)
    BY <1>1, HeldShrinks DEF KeepsCounts
  <2> QED
    BY <1>f, <1>1, <2>1, CoveredIfLeft DEF KeepsCounts
<1>2. CASE OpensShift
  <2> SUFFICES ASSUME NEW x \in OpenShiftId PROVE Covered(x)'
    OBVIOUS
  <2>1. PICK o \in OpenShiftId :
          /\ UNCHANGED claim /\ openShift[o] = NoRow /\ openShift' = [openShift EXCEPT ![o] = openShift'[o]]
          /\ openShift'[o].claimed = 0 /\ openShift'[o].required \in Nat
    BY <1>2 DEF OpensShift
  <2>2. Held(x)' \subseteq Held(x)
    BY <2>1, HeldShrinks
  <2>3. CASE x # o
    <3>1. openShift'[x] = openShift[x]
      BY <1>f, <2>1, <2>3
    <3> QED
      BY <1>f, <2>2, <3>1, CoveredIfLeft
  <2>4. CASE x = o
    <3>1. Held(x) = {}
      BY <2>1, <2>4 DEF Held, TypeInv, ClaimsHaveShifts
    <3>2. Held(x)' = {}
      BY <2>2, <3>1
    <3>3. Cardinality(Held(x)') = 0
      BY <3>2, FS_EmptySet
    <3> QED
      BY <2>1, <2>4, <3>3 DEF Covered
  <2> QED
    BY <2>3, <2>4
<1>3. CASE CountsUp
  <2> SUFFICES ASSUME NEW x \in OpenShiftId PROVE Covered(x)'
    OBVIOUS
  <2>1. PICK o \in OpenShiftId, e \in Employee :
          /\ openShift[o] # NoRow /\ openShift[o].claimed < openShift[o].required
          /\ OtherClaimsStand(o, e) /\ openShift' = [openShift EXCEPT ![o] = openShift'[o]]
          /\ openShift'[o].claimed = openShift[o].claimed + 1 /\ openShift'[o].required = openShift[o].required
    BY <1>3 DEF CountsUp
  <2>2. CASE x # o
    <3>1. Held(x)' \subseteq Held(x)
      BY <2>1, <2>2, HeldShrinks DEF OtherClaimsStand
    <3>2. openShift'[x] = openShift[x]
      BY <1>f, <2>1, <2>2
    <3> QED
      BY <1>f, <3>1, <3>2, CoveredIfLeft
  <2>3. CASE x = o
    <3>1. Held(x)' \subseteq Held(x) \cup {e}
      BY <2>1, <2>3 DEF OtherClaimsStand, Held
    <3>2. /\ IsFiniteSet(Held(x) \cup {e}) /\ Cardinality(Held(x) \cup {e}) <= Cardinality(Held(x)) + 1
          /\ Cardinality(Held(x) \cup {e}) \in Nat /\ Cardinality(Held(x)) \in Nat
      <4>1. IsFiniteSet(Held(x)) /\ Cardinality(Held(x)) \in Nat
        BY HeldIsFinite
      <4> QED
        BY <4>1, OneMoreHeld
    <3>3. Cardinality(Held(x)') <= Cardinality(Held(x) \cup {e}) /\ Cardinality(Held(x)') \in Nat
      BY <3>1, <3>2, FewerHeld
    <3>4. PICK m \in Nat, n \in Nat, k \in Nat :
            m = Cardinality(Held(x)') /\ n = Cardinality(Held(x)) /\ k = Cardinality(Held(x) \cup {e})
      BY <3>2, <3>3
    <3>5. n <= openShift[x].claimed /\ openShift[x].claimed \in Nat /\ openShift[x].required \in Nat
      BY <1>n, <2>1, <2>3, <3>4 DEF Covered
    <3>6. m <= k /\ k <= n + 1
      BY <3>2, <3>3, <3>4
    <3>7. m <= openShift[x].claimed + 1
      BY <3>5, <3>6
    <3>8. openShift[x].claimed + 1 <= openShift[x].required
      BY <2>1, <2>3, <3>5
    <3> QED
      BY <2>1, <2>3, <3>4, <3>7, <3>8 DEF Covered
  <2> QED
    BY <2>2, <2>3
<1>4. CASE Resizes
  <2> SUFFICES ASSUME NEW x \in OpenShiftId PROVE Covered(x)'
    OBVIOUS
  <2>1. PICK o \in OpenShiftId :
          /\ openShift[o] # NoRow /\ openShift' = [openShift EXCEPT ![o] = openShift'[o]]
          /\ openShift'[o].claimed = openShift[o].claimed /\ openShift'[o].required >= openShift[o].claimed
          /\ \A y \in OpenShiftId, e \in Employee :
               claim'[y][e] # NoRow => claim[y][e] # NoRow /\ claim'[y][e].assignment = claim[y][e].assignment
    BY <1>4 DEF Resizes
  <2>2. Held(x)' \subseteq Held(x)
    BY <2>1, HeldShrinks
  <2>3. CASE x # o
    <3>1. openShift'[x] = openShift[x]
      BY <1>f, <2>1, <2>3
    <3> QED
      BY <1>f, <2>2, <3>1, CoveredIfLeft
  <2>4. CASE x = o
    BY <1>f, <2>1, <2>2, <2>4, CoveredGoesOn
  <2> QED
    BY <2>3, <2>4
<1>5. CASE CountsDown
  <2> SUFFICES ASSUME NEW o \in OpenShiftId PROVE Covered(o)'
    OBVIOUS
  <2>1. PICK x \in OpenShiftId \X Employee :
          /\ claim[x[1]][x[2]] # NoRow /\ claim[x[1]][x[2]].assignment \in TakenBack
          /\ claim'[x[1]][x[2]].assignment = claim[x[1]][x[2]].assignment
          /\ OtherClaimsStand(x[1], x[2]) /\ openShift' = [openShift EXCEPT ![x[1]] = openShift'[x[1]]]
          /\ \E mode : /\ openShift'[x[1]].claimed = Unassigned(openShift[x[1]], mode).claimed
                       /\ openShift'[x[1]].required = Unassigned(openShift[x[1]], mode).required
    BY <1>5 DEF CountsDown
  <2>2. Held(o)' \subseteq Held(o)
    BY <2>1, HeldShrinks DEF OtherClaimsStand
  <2>3. CASE o # x[1]
    <3>1. openShift'[o] = openShift[o]
      BY <1>f, <2>1, <2>3
    <3> QED
      BY <1>f, <2>2, <3>1, CoveredIfLeft
  <2>4. CASE o = x[1]
    <3>1. PICK a : a = claim[x[1]][x[2]].assignment
      OBVIOUS
    <3>2. a \in TakenBack /\ a \notin unassigned /\ a \in unassigned'
      BY <2>1, <3>1
    <3>3. x[2] \in Held(o) /\ x[2] \notin Held(o)'
      BY <2>1, <2>4, <3>1, <3>2, TakenBackEnds, NoRowIsNone DEF Held
    <3>4. Held(o)' \subseteq Held(o) \ {x[2]}
      BY <2>2, <3>3
    <3>5. /\ IsFiniteSet(Held(o) \ {x[2]}) /\ Cardinality(Held(o) \ {x[2]}) = Cardinality(Held(o)) - 1
          /\ Cardinality(Held(o)) \in Nat
      BY <3>3, HeldIsFinite, FS_RemoveElement
    <3>6. Cardinality(Held(o)') <= Cardinality(Held(o) \ {x[2]}) /\ Cardinality(Held(o)') \in Nat
      BY <3>4, <3>5, FewerHeld
    <3>7. PICK m \in Nat, n \in Nat : m = Cardinality(Held(o)') /\ n = Cardinality(Held(o)) /\ m <= n - 1
      BY <3>5, <3>6
    <3>8. PICK row \in OpenShiftRow : row = openShift[o] /\ row # NoRow
      BY <2>1, <2>4, <1>f DEF TypeInv, ClaimsHaveShifts, OpenShiftsFit
    <3>9. n <= row.claimed /\ row.claimed <= row.required
      BY <3>7, <3>8 DEF Covered
    <3>10. PICK mode : /\ openShift'[o].claimed = Unassigned(row, mode).claimed
                       /\ openShift'[o].required = Unassigned(row, mode).required
      BY <2>1, <2>4, <3>8
    <3>11. row.claimed \in Nat
      BY DEF OpenShiftRow
    <3>12. /\ row.claimed > 0 => Unassigned(row, mode).claimed = row.claimed - 1
           /\ Unassigned(row, mode).claimed <= Unassigned(row, mode).required
      BY <3>9, UnassignedFits
    <3>13. row.claimed > 0 /\ m <= row.claimed - 1
      BY <3>7, <3>9, <3>11
    <3> QED
      BY <3>7, <3>10, <3>12, <3>13 DEF Covered
  <2> QED
    BY <2>3, <2>4
<1> QED
  BY <1>1, <1>2, <1>3, <1>4, <1>5 DEF CountsMove

LEMMA TakenAreOverStill ==
  ASSUME TypeInv, TakenAreOver, AssignmentsStay, unassigned' = unassigned \cup TakenBack,
         \A a \in AssignmentId : ~Revives(a)
  PROVE  TakenAreOver'
BY TakenBackEnds DEF TakenAreOver, AssignmentsStay, Revives, Exists

\* Live assignments were not taken back.
LEMMA LiveAreHeld ==
  ASSUME TypeInv, TakenAreOver, \A o \in OpenShiftId : Covered(o)
  PROVE  ClaimedHeadcountCovers
<1> SUFFICES ASSUME NEW o \in OpenShiftId, openShift[o] # NoRow
             PROVE  /\ Cardinality({e \in Employee : claim[o][e] # NoRow /\ claim[o][e].assignment # NoRow
                                      /\ IsLive(claim[o][e].assignment)}) <= openShift[o].claimed
                    /\ openShift[o].claimed <= openShift[o].required
  BY DEF ClaimedHeadcountCovers, Exists
<1> DEFINE Live == {e \in Employee : claim[o][e] # NoRow /\ claim[o][e].assignment # NoRow
                                       /\ IsLive(claim[o][e].assignment)}
<1>1. Live \subseteq Held(o)
  BY DEF Held, TakenAreOver
<1> HIDE DEF Live
<1>2. Cardinality(Live) <= Cardinality(Held(o)) /\ Cardinality(Live) \in Nat /\ Cardinality(Held(o)) \in Nat
  BY <1>1, HeldIsFinite, FewerHeld
<1>3. Cardinality(Held(o)) <= openShift[o].claimed /\ openShift[o].claimed <= openShift[o].required
  BY DEF Covered
<1>4. openShift[o].claimed \in Nat
  BY DEF TypeInv, TablesFit, OpenShiftsFit, OpenShiftRow
<1>5. Cardinality(Live) <= openShift[o].claimed
  BY <1>2, <1>3, <1>4
<1> QED
  BY <1>3, <1>5 DEF Live

LEMMA HeadInvStep ==
  ASSUME TakingTurns, TypeInv, BookInv, HeadInv, [MCNext]_mcVars
  PROVE  HeadInv'
<1>1. CASE UNCHANGED <<schedulingVars, unassigned, disturbed>>
  <2>1. UNCHANGED <<openShift, claim, assignment, task, unassigned, disturbed>>
    BY <1>1 DEF schedulingVars
  <2>2. \A a : ClaimOf(a)' = ClaimOf(a)
    BY <2>1 DEF ClaimOf
  <2>3. \A p \in Scheduler : CountsStand(task[p])'
    BY <2>1, <2>2 DEF HeadInv, CountsStand
  <2>4. TakenAreOver => TakenAreOver'
    BY <2>1 DEF TakenAreOver, IsLive, Exists
  <2>5. \A o \in OpenShiftId : Covered(o) => Covered(o)'
    BY <2>1 DEF Covered, Held
  <2> QED
    BY <2>1, <2>3, <2>4, <2>5 DEF HeadInv
<1>2. CASE SchedulingStep
  <2>1. /\ SchedulingNext /\ disturbed' = (disturbed \/ Disturbs)
        /\ unassigned' = IF disturbed THEN {} ELSE unassigned \cup TakenBack
    BY <1>2 DEF SchedulingStep
  <2>2. CountsGoOn /\ CountsMove
    BY <2>1, HeadStep DEF HeadInv
  <2>3. CASE disturbed \/ Disturbs
    BY <2>1, <2>2, <2>3 DEF HeadInv, CountsGoOn
  <2>4. CASE ~disturbed /\ ~Disturbs
    <3>1. /\ TakenAreOver /\ \A o \in OpenShiftId : Covered(o)
          /\ unassigned' = unassigned \cup TakenBack
      BY <2>1, <2>4 DEF HeadInv
    <3>2. TakenBack \cap unassigned = {} /\ \A a \in AssignmentId : ~Revives(a)
      BY <2>4 DEF Disturbs
    <3>3. AssignmentsStay
      BY <2>1, TypeStep DEF RowsStay
    <3>4. TakenAreOver'
      BY <3>1, <3>2, <3>3, TakenAreOverStill
    <3>5. \A o \in OpenShiftId : Covered(o)'
      BY <2>2, <3>1, <3>2, CoverMoves
    <3> QED
      BY <2>2, <3>4, <3>5 DEF HeadInv, CountsGoOn
  <2> QED
    BY <2>3, <2>4
<1>3. CASE AttendanceStep
  BY <1>1, <1>3 DEF AttendanceStep, disturbances
<1>4. CASE UNCHANGED mcVars
  BY <1>1, <1>4 DEF mcVars, disturbances
<1> QED
  BY <1>2, <1>3, <1>4 DEF MCNext

\* claimOpenShift, assignOpenShift and decideOpenShiftClaim count up by one the
\* row they have just read, and unassignAssignment counts down by one for a
\* claim it takes back: if handlers take turns, no assignment comes back and
\* none is taken back twice, claimedHeadcount covers the live assignments of
\* every open shift and no more are counted than it asks for.
THEOREM HeadcountCoversInTurns == TakingTurns => (MCSpec => []HeadcountCovers)
<1> SUFFICES ASSUME TakingTurns PROVE MCSpec => []HeadcountCovers
  OBVIOUS
<1> DEFINE Inv == TypeInv /\ BookInv /\ HeadInv
<1>1. MCInit => Inv
  <2> SUFFICES ASSUME MCInit PROVE Inv
    OBVIOUS
  <2>1. SchedulingInit /\ unassigned = {}
    BY DEF MCInit
  <2>2. TypeInv /\ BookInv
    BY <2>1, TypeInvAtStart, BookInitially
  <2>3. HeadInv
    BY <2>1 DEF SchedulingInit, HeadInv, CountsStand, TakenAreOver, Covered
  <2> QED
    BY <2>2, <2>3
<1>2. Inv /\ [MCNext]_mcVars => Inv'
  <2> SUFFICES ASSUME Inv, [MCNext]_mcVars PROVE Inv'
    OBVIOUS
  <2>1. [SchedulingNext]_schedulingVars
    BY DEF MCNext, mcVars, SchedulingStep, AttendanceStep
  <2>2. TypeInv' /\ BookInv'
    BY <2>1, TypeStep, BookStep, NothingBooked
  <2> QED
    BY <2>2, HeadInvStep
<1>3. Inv => HeadcountCovers
  BY LiveAreHeld DEF HeadcountCovers, HeadInv
<1> QED
  BY <1>1, <1>2, <1>3, PTL DEF MCSpec
=============================================================================
