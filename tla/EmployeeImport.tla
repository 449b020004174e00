---------------------------- MODULE EmployeeImport ----------------------------
(***************************************************************************)
(* The import of employees from a file: jobs with rows, put in the queue   *)
(* by a request and imported by the worker of every running API process     *)
(* (employees/employees.service.ts).                                       *)
(*                                                                         *)
(* A worker is written down step by step, each step one statement or one   *)
(* transaction; it may die between two of them.  A row is PROCESSING only   *)
(* inside its own transaction, so no step of another worker ever sees it:   *)
(* a row is PENDING, CREATED or FAILED.  No code cancels a job.             *)
(***************************************************************************)
EXTENDS Integers, FiniteSets, Sequences, SequencesExt

CONSTANTS ImportJob, Line,
          Numbered,          \* lines that bring an employee number of their own
          RowBatch,          \* EMPLOYEE_IMPORT_WORKER_ROW_BATCH_SIZE
          Worker,
          MaxCrashes,
          SlowWorkersKeepLock \* FALSE: a lock may go stale under a living worker

ASSUME ImportAssumption ==
  /\ Line \subseteq Nat /\ IsFiniteSet(Line) /\ Line # {} /\ Numbered \subseteq Line
  /\ RowBatch \in Nat \ {0} /\ MaxCrashes \in Nat /\ SlowWorkersKeepLock \in BOOLEAN

VARIABLES importJob,  \* EmployeeImportJob rows
          importRow,  \* status of the EmployeeImportJobRow of a line
          hired,      \* employees of a job's line: how many were created
          archived,   \* lines whose employee a rollback has archived
          announced,  \* per job, the created lines of each completion event
          checked,    \* requests that have passed assertNoActiveEmployeeImportJob
          worker,     \* what a worker is doing
          crashes

importVars ==
  <<importJob, importRow, hired, archived, announced, checked, worker, crashes>>

JobStatus == {"NONE", "QUEUED", "PROCESSING", "COMPLETED", "PARTIAL", "FAILED"}
JobRow == [status : JobStatus, lock : {"none", "fresh", "stale"}, completed : BOOLEAN]
Idle == [at |-> "idle"]
Down == [at |-> "down"]

Lines(j, st) == {l \in Line : importRow[j][l] = st}
Outcome(created, failed) ==
  IF failed = 0 THEN "COMPLETED" ELSE IF created > 0 THEN "PARTIAL" ELSE "FAILED"

ImportTypeOK ==
  /\ importJob \in [ImportJob -> JobRow]
  /\ importRow \in [ImportJob -> [Line -> {"PENDING", "CREATED", "FAILED"}]]
  /\ hired \in [ImportJob -> [Line -> 0 .. Cardinality(Worker)]]
  /\ \A j \in ImportJob : \A l \in archived[j] : hired[j][l] > 0
  /\ checked \subseteq ImportJob

ImportInit ==
  /\ importJob = [j \in ImportJob |-> [status |-> "NONE", lock |-> "none", completed |-> FALSE]]
  /\ importRow = [j \in ImportJob |-> [l \in Line |-> "PENDING"]]
  /\ hired = [j \in ImportJob |-> [l \in Line |-> 0]]
  /\ archived = [j \in ImportJob |-> {}]
  /\ announced = [j \in ImportJob |-> <<>>]
  /\ checked = {} /\ crashes = 0
  /\ worker = [w \in Worker |-> Idle]

----------------------------------------------------------------------------
\* commitEmployeeImport: a tenant has one active import at a time, which is
\* asked before the job is written; no index backs the question.

Active(j) == importJob[j].status \in {"QUEUED", "PROCESSING"}

CommitImportRead(j) ==
  /\ importJob[j].status = "NONE" /\ j \notin checked
  /\ \A i \in ImportJob : ~Active(i)
  /\ checked' = checked \cup {j}
  /\ UNCHANGED <<importJob, importRow, hired, archived, announced, worker, crashes>>

CommitImportWrite(j) ==
  /\ j \in checked
  /\ importJob' = [importJob EXCEPT ![j].status = "QUEUED"]
  /\ checked' = checked \ {j}
  /\ UNCHANGED <<importRow, hired, archived, announced, worker, crashes>>

----------------------------------------------------------------------------
\* The worker.

Goes(w, stage) == worker' = [worker EXCEPT ![w] = stage]
At(w, stage) == worker[w].at = stage
\* Mutant: a job whose worker is gone is not looked for.
QueuedJobs == {j \in ImportJob : importJob[j].status = "QUEUED"}

ClaimableJobs ==
  {j \in ImportJob : \/ importJob[j].status = "QUEUED"
                     \/ importJob[j].status = "PROCESSING" /\ importJob[j].lock = "stale"}

\* A tick every three seconds, which looks for three jobs; importWorkerRunning
\* keeps one loop per process.
Tick(w) ==
  /\ At(w, "idle")
  /\ \E n \in 1 .. 3 : \E jobs \in [1 .. n -> ClaimableJobs] :
       /\ IsInjective(jobs) /\ (n = 3 \/ Range(jobs) = ClaimableJobs)
       /\ Goes(w, [at |-> "claim", jobs |-> jobs])
  /\ UNCHANGED <<importJob, importRow, hired, archived, announced, checked, crashes>>

\* After a candidate: the next one, or the end of the loop.
NextJob(w) == IF Len(worker[w].jobs) > 1 THEN [at |-> "claim", jobs |-> Tail(worker[w].jobs)] ELSE Idle

\* Mutant: the claim goes by id.
ClaimJobById(w) ==
  /\ At(w, "claim")
  /\ LET j == Head(worker[w].jobs) IN
     /\ importJob' = [importJob EXCEPT ![j].status = "PROCESSING", ![j].lock = "fresh"]
     /\ Goes(w, [at |-> "load", jobs |-> worker[w].jobs])
  /\ UNCHANGED <<importRow, hired, archived, announced, checked, crashes>>

\* The updateMany that claims asks again what the search has asked.
ClaimJob(w) ==
  /\ At(w, "claim")
  /\ LET j == Head(worker[w].jobs) IN
     IF j \in ClaimableJobs
     THEN /\ importJob' = [importJob EXCEPT ![j].status = "PROCESSING", ![j].lock = "fresh"]
          /\ Goes(w, [at |-> "load", jobs |-> worker[w].jobs])
     ELSE Goes(w, NextJob(w)) /\ UNCHANGED importJob
  /\ UNCHANGED <<importRow, hired, archived, announced, checked, crashes>>

\* The pending rows of the next batch are read and the lock is renewed.
Batch(pending) == {l \in pending : Cardinality({k \in pending : k < l}) < RowBatch}

LoadRows(w) ==
  /\ At(w, "load")
  /\ LET j == Head(worker[w].jobs)
         pending == Lines(j, "PENDING") IN
     IF pending = {}
     THEN Goes(w, [at |-> "count", jobs |-> worker[w].jobs]) /\ UNCHANGED importJob
     ELSE /\ importJob' = [importJob EXCEPT ![j].lock = "fresh"]
          /\ Goes(w, [at |-> "rows", jobs |-> worker[w].jobs, rows |-> Batch(pending)])
  /\ UNCHANGED <<importRow, hired, archived, announced, checked, crashes>>

\* The rows of a batch are imported in the order of their lines.
NextLine(w, l) == l \in worker[w].rows /\ \A k \in worker[w].rows : l <= k

AfterRow(w, l) == IF worker[w].rows \ {l} # {}
                  THEN [at |-> "rows", jobs |-> worker[w].jobs, rows |-> worker[w].rows \ {l}]
                  ELSE [at |-> "load", jobs |-> worker[w].jobs]

\* The transaction of a row creates the person and the employee and sets the
\* row to CREATED.  It does not look at the row's status; a number that is
\* taken makes it fail.
ImportRow(w) ==
  /\ At(w, "rows")
  /\ \E l \in Line : LET j == Head(worker[w].jobs) IN
       /\ NextLine(w, l)
       /\ l \in Numbered => \A i \in ImportJob : hired[i][l] = 0
       /\ hired' = [hired EXCEPT ![j][l] = @ + 1]
       /\ importRow' = [importRow EXCEPT ![j][l] = "CREATED"]
       /\ Goes(w, AfterRow(w, l))
  /\ UNCHANGED <<importJob, archived, announced, checked, crashes>>

\* It may fail for any other reason too, and is undone.
ImportRowFails(w) ==
  /\ At(w, "rows")
  /\ Goes(w, [at |-> "failed", jobs |-> worker[w].jobs, rows |-> worker[w].rows])
  /\ UNCHANGED <<importJob, importRow, hired, archived, announced, checked, crashes>>

RecordFailure(w) ==
  /\ At(w, "failed")
  /\ \E l \in Line :
       /\ NextLine(w, l)
       /\ importRow' = [importRow EXCEPT ![Head(worker[w].jobs)][l] = "FAILED"]
       /\ Goes(w, AfterRow(w, l))
  /\ UNCHANGED <<importJob, hired, archived, announced, checked, crashes>>

\* finalizeEmployeeImportJob counts, then writes the outcome and the event.
CountRows(w) ==
  /\ At(w, "count")
  /\ LET j == Head(worker[w].jobs) IN
     IF importJob[j].completed \/ Lines(j, "PENDING") # {}
     THEN Goes(w, NextJob(w))
     ELSE Goes(w, [at |-> "finalize", jobs |-> worker[w].jobs, created |-> Lines(j, "CREATED"),
                   status |-> Outcome(Cardinality(Lines(j, "CREATED")), Cardinality(Lines(j, "FAILED")))])
  /\ UNCHANGED <<importJob, importRow, hired, archived, announced, checked, crashes>>

FinalizeJob(w) ==
  /\ At(w, "finalize")
  /\ LET j == Head(worker[w].jobs) IN
     /\ importJob' = [importJob EXCEPT
          ![j] = [status |-> worker[w].status, lock |-> "none", completed |-> TRUE]]
     /\ announced' = [announced EXCEPT ![j] = Append(@, worker[w].created)]
  /\ Goes(w, NextJob(w))
  /\ UNCHANGED <<importRow, hired, archived, checked, crashes>>

\* A statement outside a row's transaction fails: the loop ends, the lock stays.
WorkerGivesUp(w) ==
  /\ worker[w].at \notin {"idle", "down"} /\ crashes < MaxCrashes
  /\ Goes(w, Idle) /\ crashes' = crashes + 1
  /\ UNCHANGED <<importJob, importRow, hired, archived, announced, checked>>

WorkerCrashes(w) ==
  /\ ~At(w, "down") /\ crashes < MaxCrashes
  /\ Goes(w, Down) /\ crashes' = crashes + 1
  /\ UNCHANGED <<importJob, importRow, hired, archived, announced, checked>>

WorkerRestarts(w) ==
  /\ At(w, "down") /\ Goes(w, Idle)
  /\ UNCHANGED <<importJob, importRow, hired, archived, announced, checked, crashes>>

Holds(w, j) ==
  /\ worker[w].at \notin {"idle", "down", "claim"}
  /\ Head(worker[w].jobs) = j

\* EMPLOYEE_IMPORT_WORKER_STALE_LOCK_MS, five minutes, have passed.
LockGoesStale(j) ==
  /\ importJob[j].lock = "fresh"
  /\ SlowWorkersKeepLock => \A w \in Worker : ~Holds(w, j)
  /\ importJob' = [importJob EXCEPT ![j].lock = "stale"]
  /\ UNCHANGED <<importRow, hired, archived, announced, checked, worker, crashes>>

----------------------------------------------------------------------------
\* rollbackEmployeeImportBatch archives the employees that the rows name and
\* that have no assignment (`blocked` have one).
RollbackImport(j, blocked) ==
  /\ importJob[j].status \in {"COMPLETED", "PARTIAL", "FAILED"}
  /\ LET rolled == (Lines(j, "CREATED") \ archived[j]) \ blocked IN
     /\ rolled # {}
     /\ archived' = [archived EXCEPT ![j] = @ \cup rolled]
  /\ UNCHANGED <<importJob, importRow, hired, announced, checked, worker, crashes>>

WorkerStep(w) ==
  \/ Tick(w) \/ ClaimJob(w) \/ LoadRows(w) \/ ImportRow(w) \/ ImportRowFails(w)
  \/ RecordFailure(w) \/ CountRows(w) \/ FinalizeJob(w)

ImportNext ==
  \/ \E j \in ImportJob : \/ CommitImportRead(j) \/ CommitImportWrite(j) \/ LockGoesStale(j)
                          \/ \E blocked \in SUBSET Line : RollbackImport(j, blocked)
  \/ \E w \in Worker : WorkerStep(w) \/ WorkerGivesUp(w) \/ WorkerCrashes(w) \/ WorkerRestarts(w)

\* Fairness: the timer ticks, steps of a running loop go on, processes are
\* restarted, and time passes.
ImportFairness ==
  /\ \A w \in Worker : WF_importVars(WorkerStep(w)) /\ WF_importVars(WorkerRestarts(w))
  /\ \A j \in ImportJob : WF_importVars(LockGoesStale(j))

ImportSpec == ImportInit /\ [][ImportNext]_importVars /\ ImportFairness

----------------------------------------------------------------------------
\* Properties.

\* A line is imported once, whatever worker dies, takes over or takes the job
\* too: a job is over once, when no row is left, and what its outcome counts and
\* its one completion event names are the lines that have an employee.
ImportedOnce ==
  SlowWorkersKeepLock => \A j \in ImportJob :
    /\ Len(announced[j]) <= 1 /\ \A l \in Line : hired[j][l] <= 1
    /\ importJob[j].completed =>
         LET made == {l \in Line : hired[j][l] = 1} IN
         /\ announced[j] = <<made>> /\ Lines(j, "PENDING") = {}
         /\ importJob[j].status = Outcome(Cardinality(made), Cardinality(Line \ made))

\* A job in the queue is finished, with failures, crashes and restarts on the
\* way: a stale lock is taken over.
EveryImportFinishes ==
  \A j \in ImportJob : importJob[j].status = "QUEUED" ~> importJob[j].completed
=============================================================================
