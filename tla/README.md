# TLA+ specifications of the TimeSync HR backend

The backend (`src/apps/api-gateway`) is a NestJS gateway over one PostgreSQL
database. Every handler is a function of one service class; services call each
other directly, and share state through the database and, towards the outside,
through the table of outbox messages. There are no locks and no serializable
transactions: `prisma.$transaction` runs at PostgreSQL's default READ COMMITTED
level, and no query uses `SELECT ... FOR UPDATE`. A handler that reads a row,
checks it, and writes it by id therefore decides on what the row *was*. That is
the theme of this project: which promises of the code survive every
interleaving of such handlers, which hold only while handlers take turns, which
survive a long sequence of legal calls of services that each know only their own
rules, and what the steps of one handler leave behind when it breaks off.

## 1. The system

| component (service) | state it keeps | operations that change it | talks to |
|---|---|---|---|
| approval engine (`workflows/approvals`) | approval requests, step instances, action history, delegations | submit, approve, reject, return, delegate, comment, cancel, withdraw; create, update, delete a delegation | workflow definitions (reads), workforce actions (writes), outbox (inserts) |
| workflow definitions (`workflows/workflows`) | workflows and their ordered steps | create, update, activate, deactivate, archive; add, update, move, delete, reorder steps | approval requests (counts the open ones) |
| outbox (`history/history`) | outbox messages | insert (by all), process, retry | notifications (broadcast) |
| leave (`leave/leave`) | requests, balances, ledger; types, policies, calendars, blackouts, approval routes | create, approve, reject, cancel; adjust; set up the rules | approval engine (calls it), scheduling (reads coverage rules and rosters), outbox |
| scheduling | periods, assignments, open shifts, claims, swaps, availability; policies, shift templates, overtime requests, coverage rules | plan, move, take off, claim, pick up, decide, swap, publish, lock | outbox, timeline |
| attendance | records, breaks, punches, offline ledger, corrections, timesheets, payroll periods and exports; policies, geofences, devices, badges, exceptions, premium rules | punch, synchronise, correct, reconcile, generate, decide, lock, export | scheduling (reads shifts) |
| employees | employees, import jobs and rows, plans and exit cases, terms, relationships, submitted profile records | create, move through the statuses, archive, rehire, import with a worker in every process, roll back, submit and review | persons, accounts, positions |
| assignments, positions | dated assignments, positions, the reports-to graph, grades, levels, skills | assign, transfer, end; open, freeze, close, archive, reopen | employees, organization |
| organization, persons | nodes, cost centers; persons with contacts, addresses, listed items | create, move, deactivate, delete | positions and assignments (asks who refers) |
| auth, iam | users, identities, memberships, sessions, refresh tokens, invitations; permissions, roles, role assignments | login, refresh, logout, switch, invite, accept; assign, synchronise | each other |
| tenants | tenants, their settings, subscription and features; the sequence of employee numbers | provision, rename, suspend, switch features, set the sequence | iam and auth (roles and the first administrator), employees (numbers) |
| recruitment | requisitions, postings, applications, candidates, offers; stages, interviews | submit, decide, publish, apply, extend, accept; move, schedule, give feedback | approval engine (calls it) |
| documents, forms, notifications | documents with versions; forms with responses; notifications with recipients | add a version, verify; publish, assign, answer; create, deliver, read | delivery adapters |
| dashboard, hr-guides, demo requests | widgets, snapshots, alerts; articles with views, comments, reactions; leads | create, rename, refresh, alert; publish, read, react; follow up | outbox (what is broadcast) |
| search, realtime, health, qa | none | queries, fan-out, probes | |

What makes each of them correct, and what is hard about it, is told with its
properties in section 3; the hazards, each at its line, are in `PROJECT.json`.

## 2. Modules

| module | what it is |
|---|---|
| `Delegations` | the delegation table and its handlers |
| `Approvals` | the approval engine; EXTENDS `Delegations` |
| `ApprovalLifecycle` | what the engine promises to those who only see a request and its workforce action |
| `WorkflowDefinitions` | the editing of workflows, composed with the engine; EXTENDS `Approvals` |
| `Outbox` | messages, workers, retries |
| `LeaveRequests` | leave and its balance, composed with the abstract engine (an INSTANCE of `ApprovalLifecycle`) |
| `LeaveRules` | types, policies, calendars, blackouts, routes and coverage: may leave be taken, what it costs, whom it leaves at work |
| `Scheduling` | periods, assignments, open shifts with claims, swaps |
| `ScheduleRules` | schedule policies, shift templates, the overtime of a planned shift, overtime requests |
| `Attendance` | records, offline punches, corrections, reconciliation, timesheets, payroll |
| `AttendanceControls` | the policies, geofences, devices and badges a punch meets; exceptions and premiums derived from a record |
| `EmployeeImport` | jobs, rows, the worker of every process, roll back |
| `Staffing` | employees, positions, dated assignments |
| `EmployeeLifecycle` | lifecycle plans with tasks, exit cases with clearance items |
| `EmploymentRecords` | terms, compensation changes, reporting relationships, leadership designations |
| `ExtendedProfile` | what an employee submits and HR reviews |
| `PersonRecords` | a person and their contacts, addresses and listed items, from HR and self-service |
| `Organization` | nodes, cost centers, grades, levels, skills and all that refers to them |
| `Sessions` | logins, refresh rotation, revocation, invitations |
| `Accounts` | users, identities, memberships and their links to persons and employments |
| `Access` | the permission catalog, roles, role assignments |
| `Tenants` | provisioning with the mail of its invitation; status, settings, subscription, features; employee numbers |
| `Recruitment` | requisitions and offers over the abstract engine; postings, applications, candidates |
| `HiringPipeline` | stages, moves of an application statement by statement, interviews, talent profiles |
| `Publications` | HR guides, widgets, snapshots, alerts, demo requests |
| `Documents`, `Forms`, `Notifications` | one service each |
| `MCApprovals`, `MCWorkflows`, `MCLeave`, `MCWorkTime`, `MCPeople`, `MCRecords` | the instances for TLC; some add a history variable, or a `focus` (section 3) |
| `ApprovalsProofs`, `OutboxProofs`, `LeaveProofs`, `WorkTimeProofs`, `PeopleProofs`, `RecordsProofs`, `OfficeProofs` | theorems and their proofs (section 4) |
| `SumProofs` | lemmas about sums and folds over finite sets, for the proofs that need them |

```
Delegations <- Approvals <- WorkflowDefinitions <- MCWorkflows
     ^            |  ^------ MCApprovals;  ApprovalsProofs
     |            | implements
     |      ApprovalLifecycle  <- (INSTANCE) LeaveRequests <- MCLeave <- LeaveProofs
     |            ^ what Recruitment and LeaveRules assume of the engine
     |                                                  Outbox <- OutboxProofs
  MCPeople -> EmployeeImport, Sessions, Staffing, Recruitment, EmployeeLifecycle, Forms, Documents
     ^------ PeopleProofs

  MCWorkTime -> Scheduling, Attendance
     ^------ WorkTimeProofs

  MCRecords -> PersonRecords, ExtendedProfile, Access, EmploymentRecords,
               Notifications, Organization, Accounts          <- RecordsProofs
            -> Tenants, HiringPipeline, Publications,
               ScheduleRules, AttendanceControls              <- OfficeProofs
            -> LeaveRules                                     <- LeaveProofs

  SumProofs <- LeaveProofs, WorkTimeProofs, OfficeProofs
```

### How handlers become actions

A handler of the approval engine and of the workflow definitions is one
transaction and two actions. `...Read` is everything up to the first write; its
conjuncts are the guards of the code, and what it has read that matters later
stays in `call[p]` (or `edit[e]`, `delegationCall[p]`). `...Commit` is the
writes: to rows by id, with the values the code re-reads in between read from
the current state. `Abort` is an exception or a death of the process before the
commit, which undoes the transaction. The number of handlers that may be
between their two actions is the size of `Proc`; a run with one of them is a
run in which handlers take turns.

The writes of a commit are one atomic action. Two commits on one request meet
on the row of its current step or on the request itself, where the second waits
for the first. The reads of a handler are one action as well: the finer order
of two `SELECT`s before the first write is abstracted.

Elsewhere the grain follows what can go wrong. Handlers of `Scheduling`,
`Sessions`, `Documents`, `Forms`, `EmployeeLifecycle`, `Publications`, `Accounts`
(what is read of an account) and `EmploymentRecords` (updates) are cut between
what they read and what they write, and carry what they read. `LeaveRequests`,
`Recruitment`, `HiringPipeline`, `EmployeeImport`, `Notifications`, the
provisioning of `Tenants`, the offline punches of `Attendance` and the role
synchronisation of `Access` are chains of transactions or statements, with a
step that loses the rest of the chain at any point. In `Staffing`,
`Organization`, `PersonRecords`, `ExtendedProfile`, `LeaveRules`,
`ScheduleRules`, `AttendanceControls` and the rest of `Attendance` a handler is
one action: there the question is not a race but a long sequence of legal calls
of different services, or arithmetic at its boundary. What overlapping handlers
would do to them is said in section 5.

Where a promise holds only while handlers take turns, or only of requests of
some kind, a BOOLEAN constant says so (`TakingTurns`, `RecruitersTakeTurns`,
`OfficersTakeTurns`, `FormsTakeTurns`, `ClerksTakeTurns`, `ReviewersTakeTurns`,
`RelationsInTurns`, `SlowWorkersKeepLock`, `PersonsKeepAccounts`,
`RetypesSayPrimary`, `EndsExtend`, `TurnsStayCancelled`). With the other value
handlers are not held back, and the property is false or not claimed; section 5
lists what happens.

Other modules hold nothing back. Where the code has one way to lose a promise, a
history variable, which no guard reads, marks the step in which it happens, and
the property says that the promise is lost there and nowhere else: `crossed` in
`Sessions` (a refresh begins while another of its chain is under way) and in
`HiringPipeline` (a move finds no stage of a type that another is about to
create), `contested` in `Publications` (a code for which two handlers go to
different widgets of the platform), `excuses` in `Notifications` (a delivery
that overlaps, that dies after the send, or that loses the answer to a mail).
The `since` of a snapshot and the origin of an employee number say in the same
way how many snapshots its figures have seen, and who chose it.

| code | actions |
|---|---|
| approvals: `submitRequest` | `SubmitWithoutWorkflow`, or `SubmitRead` (workflow resolved, approvers found: `Plans`) and `SubmitCommit` |
| `approveRequest`, `rejectRequest`, `returnRequest`, `delegateCurrentStep` | `StepRead` (`currentPendingStep`, `assertActorCanActOnStep`), then `ApproveCommit`, `RejectCommit`, `ReturnCommit`, `DelegateCommit` |
| `cancelRequest`, `withdrawRequest`; `commentOnRequest` | `EndRead`, `EndCommit`; `Comment` |
| `advanceAutomatedSteps`, `setRequestTerminal`, `outboxEventForAction` | operators `Advanced`, `AdvanceAutomatedSteps`, `SetRequestTerminal`, `EventFor`, part of the commits |
| `createDelegation`, `updateDelegation`, `deleteDelegation` | `CreateDelegation`, `UpdateDelegationRead` and `-Commit`, `DeleteDelegation`; `WindowMoves` is time |
| workflows: `createWorkflow`; step handlers; `updateWorkflow` and transitions | `CreateWorkflow`; `StructureRead` and one commit each; `StatusRead`, `StatusCommit` |
| history: `processOutboxMessages`, `processSingleOutboxMessage`; `retryOutboxMessage` | `Collect`, then `Claim`, `Publish` or `Fail` for each message of the batch, `Crash`; `RetryRead`, `RetryCommit` |
| leave: `createRequest` | `CreateRead`, `CreateCommit`, `Submit`, `Link`, and the outcome; what it asks of the rules is `AskLeave` |
| `approveRequest`, `rejectRequest`, `cancelRequest`; `applyLeaveOutcome`; `adjustBalance` | `DecideRead`, `EngineDecides`; `CancelRead`, `EngineWithdraws`; `OutcomeRead`, `OutcomeSearch`, `OutcomeWrite`; `AdjustWrite`, `AdjustLedger` |
| `activePolicyForType`, `resolveCalendarForEmployee`, `resolveApprovalRoute`, `evaluateCalendarWindow`, `coverageImpactForWindow` | operators `ActivePolicyForType`, `ResolveCalendarForEmployee`, `ResolveApprovalRoute`, `BusinessHours` and `Blocked`, `CoverageImpact` |
| scheduling: `claimOpenShift`, `assignOpenShift`, `unassignAssignment`, `decideSwapRequest`, `publishPeriod`, `lockPeriod` | `ClaimRead`/`-Commit`, `PickUpRead`/`-Commit`, `UnassignRead`/`-Commit`, `DecideSwapRead`, `SwapMove`, `SwapClose`, `PeriodRead`/`-Commit` |
| other handlers of assignments, open shifts, availability | one action of the handler's name |
| `calculateOvertimeMinutes`, `ensureActivePolicy`, `createAssignmentInsideTransaction`, `updateAssignment` | `CalculateOvertime`, `Ensured`; `PlanTurn`, `UpdateTurn` |
| attendance: `punch`; `syncOfflinePunch` | `Punch`; `SyncFinds`, `SyncCreates`, `SyncApplies` or `SyncRejects`, `SyncDies` |
| `createManualRecord`, `createCorrectionRequest`, `decideCorrectionRequest`, `runReconciliation` | `CreateManualRecord`, `CreateCorrectionRequest`, `DecideCorrectionRequest`, `RunReconciliation`; their exceptions are `ManualRecord`, `ApplyCorrection`, `Relink` |
| timesheets and payroll | `GenerateTimesheet` (`upsertTimesheetEntry` is `Upserted`), `SubmitTimesheet`, `DecideTimesheet`, `LockPayrollPeriod`, `ExportPayrollPeriod` |
| `evaluateAttendancePolicy`, `evaluateAttendanceControls`, `calculateMetrics`, `premiumRuleMinutes` | `Allowed` and the operators `...Blocks`, `Metrics`, `PremiumMinutes` |
| employees: import | `CommitImportRead`/`-Write`; `Tick`, `ClaimJob`, `LoadRows`, `ImportRow`, `RecordFailure`, `CountRows`, `FinalizeJob`; `WorkerCrashes`, `WorkerRestarts`, `LockGoesStale`; `RollbackImport` |
| hire, confirm, suspend, ..., `archiveEmployee`, `rehireEmployee` | `TransitionEmployee`, `ArchiveEmployee`, `RehireEmployee`; their effects on persons and accounts in `PersonRecords`, `Accounts` |
| plans, tasks, exit cases, clearance | a check, then `WriteTask` or `WriteItem`, then one `Commit...` |
| terms, compensation changes, relationships, designations | one action each; updates `UpdateTermRead`/`-Commit`, `UpdateRelationRead`/`-Commit` |
| `updateMyExtendedProfile`, `updateEmployeeExtendedProfile` | `SubmitRecord`, `CorrectRecord`; `RecordByHR`, `RewriteByHR`, `DecideRecord`; `RemoveRecords` |
| `linkEmployeeAccount`, `resolveLoginContext` | `LinkRead`, `LinkWrite`; `ResolveRead`, `ResolveWrite` |
| auth: login, `refresh`, logouts, `acceptInvitation`, `switchWorkspace` | `Login`, `RefreshRead`/`-Commit`, `Logout`, `LogoutAll`, `RevokeSession`, `RevokeOtherSessions`, `AcceptInvitationRead`/`-Commit`, `SwitchWorkspace` |
| iam: `syncRolePermissions` | `SyncRead`, `SyncDelete`, `SyncUpsert`, `SyncCommit`, `SyncRollsBack` |
| assignments, positions, organization | one action per handler, in `Staffing` for time, head count and reporting lines, in `Organization` (`PutPost`, `CreateStint`, ...) for references |
| recruitment: submit, approve, reject, open, extend, accept, ... | the guard (`SubmitRequisition`, ...), then `MarkSubmitted`, `EngineTakes`, `LinkRequest`, `WriteStatus`, `EngineDecidesPaper`, `Hires` |
| tenants: `createTenant`, the acceptance of its invitation | `CreateTenantRead`/`-Commit`, `NotifyAdmin`, `RecordInvitationDelivery`, `AdminAccepts` |
| `updateTenant`, `setTenantStatus`, `updateTenantSubscription`, `setTenantFeatureStatus`, settings; `generateEmployeeNumber` | `UpdateTenant`, `SetTenantStatus`, `UpdateTenantSubscription`, `SetTenantFeatureStatus`, `UpdateSettings`; `Hire`, and `HireAs`, `Renumber` where a request names the number |
| recruitment: `moveApplication` with `ensurePipelineStage` | `MoveToStage` or `MoveToType`, `FindStage`, `MeasureStages`, `CreateStage`, `WriteMove`, `HireApplicant` |
| `createApplication`, `applyToPublicJob`, `scheduleInterview`, `submitInterviewFeedback` | `CreateApplication`, `ApplyToPublicJob`, `ScheduleInterview` and `MarkInterview`, `SubmitInterviewFeedback` |
| hr-guides: public pages; platform pages | `FindPublished`, then `GetPublishedArticle` or `CreatePublicComment`; `ToggleRead`, then `React` or `Withdraw`; `EditRead`, then `UpdatePlatformArticle` or `DeletePlatformArticle` |
| dashboard: `upsertWidget`, `updateWidget`; `refreshAnalyticsSnapshot`; alerts (with history's `broadcastOutboxMessage`) | `UpsertRead` or `UpdateWidgetRead` or `RenameRead`, then `CreateWidget`, `UpdateWidget`, `RenameWidget`; `RefreshRead`/`-Commit`; `FindTenantStewards`, then `HandleDataQualityAction` or `BroadcastOutboxMessage` |
| documents, forms | a read named after the handler, and `Write...` or `Commit...` |
| notifications: `deliverNotification` | `BeginDelivery`, `Deliver`, `RecordDelivery`, `DeliveryDies` |

Abstractions: one tenant (`Accounts` has accounts of a second one); users, roles
and rows are model values; a date range is the position of "now" in it, a set of
clashing pairs, or numbers of days; hours stand for minutes; texts, payloads,
audit and timeline rows are left out; the approver of a step may be a user, a
role, nobody, or found when the request is made (`ByExpression`: anyone). The
`stepOrder` numbers are the order they induce. What a request may ask for is
chosen from a small set. `LinkWorkforceAction` is the one action whose code is a
script: in the repository only `scripts/seed-demo-data.ts` links a workforce
action to a request. The header of each module names what it leaves out.

Some definitions exist twice, once with a comment that begins "Mutant:". The
second form has a plausible mistake; substituted for the first, it must make a
property fail (`PROJECT.json`, "mutants"). No specification uses it.

## 3. The runs

`tlc -workers 2 -config X.cfg M`; module and properties of each run are in
`PROJECT.json`. Each module has one type invariant; it is proved (section 4) or
was checked on the same instances, and is not among the properties of the runs.

**ApprovalsConcurrent.** Two handlers race on one request with three steps of
three kinds, one step whose approver is an expression, or one optional step.
What survives every interleaving: a workforce action is settled once and never
waits on an ended request; it is approved only when the history holds a
person's approval for every step that needs one; steps are decided in order,
also by handlers with a stale current step; a pending request rests on a step
with an approver. The engine implements `ApprovalLifecycle` with
`Overlap = TRUE`: the status of a request may be overturned, its workforce
action may not.

**ApprovalsSerial.** One handler, and a delegation that is created, disabled
and runs out. Now the status is what the steps say, and the engine implements
`ApprovalLifecycle` with `Overlap = FALSE`, in which a decision is final and
every decision is the outcome of the workforce action.

**ApprovalsDecisionRace** (violation). With two handlers a decision is not
final: both pass `assertRequestPending`, the second overwrites the first.

**Workflows.** An editor and the approval engine overlap in every way, from an
empty database. A history variable, `overlapped`, remembers whether two handlers
were ever between read and commit at once; as long as not, the structure under
a pending request is frozen. With an overlap it is not: `assertNoOpenRequests`
counts before the write, and a submission may commit in between.
The foreign key of step instances (`StepReferencesHold`) survives the overlap: it
held on this instance and is a theorem (section 4).

**Outbox.** Two workers, an administrator, two messages of which one is
malformed, one retry per message, one crash. Safety: no message is published
more often than once plus its retries, claims in flight included. Liveness:
claimed messages are resolved unless a worker died, and pending ones taken up.

**OutboxReliable** (violation). Even with operators who keep calling
`process`, and a database in which no update fails for ever, a message that
failed once is never published: workers collect PENDING messages only, and a
failure makes it FAILED. The backoff date it writes is never looked at.

**Leave.** Two handlers on one balance, breaking off anywhere, over an engine in
which decisions may be overturned: the pending minutes are what the ledger says
they are, and no decision goes without its booking. In behaviours in which
handlers take turns (`inTurns`), with approvals decided behind their back, leave
is decided only as its approval request was, and a decision stands.

**LeaveLostLedgerRow** (violation). `adjustBalance` breaks off between its two
statements, and the ledger no longer explains the balance.

**WorkTime.** Scheduling and attendance in six focuses. Scheduling: nobody is
booked for two slots that overlap, however shifts are assigned, claimed, picked
up and swapped; an open shift counts its live assignments and no more than it
asks for; a locked period gains nothing. Attendance: an offline punch that is
sent again, by two devices or after a crash, is recorded at most once; what a
payroll lock or export hands over are the entries that stood when somebody
decided the timesheet; and no record is in two entries that are paid, however
often timesheets are generated.

**RecordsUnderPayroll** (violation). A punch or a reconciliation changes a
record that is in an approved timesheet, which manual records and corrections
refuse.

**People.** Fourteen focuses, each a module or a part of one:

| property | of | what could go wrong |
|---|---|---|
| `ImportedOnce`, `EveryImportFinishes` | `EmployeeImport` | a line imported twice, or counted or announced wrongly, when a worker dies anywhere, restarts, or takes over a stale lock; a job that never ends |
| `OneLiveTokenPerLogin` | `Sessions` | two live refresh tokens of one login after refreshes, logouts, switches, revocations, though no two refreshes of it overlapped |
| `OnePrimaryAtATime` | `Staffing` | windows of primary assignments that overlap on a boundary day when one ends another |
| `OccupancyWithinCapacity` | `Staffing` | three services count heads in three ways: a closed position with holders, more holders than places on a later day, an archived employee with an open assignment |
| `HierarchyAcyclic` | `Staffing` | a circle of superiors after positions move, close, are deleted |
| `StandsOnApproval` | `Recruitment` | a requisition or offer that is approved, extended or has applicants without the approval of its request, after a chain broke off or the engine was used directly |
| `DerivedStatusesAgree` | `EmployeeLifecycle` | a plan or case whose derived status disagrees with its tasks or items |
| `ResponsesFitForm` | `Forms` | answers to questions that are no longer those of the form; a second assignment to one target; a second response where one is allowed |
| `VerifiedAsSeen` | `Documents` | a version that is VERIFIED though another one was looked at |

The focus on delegations has no property of its own: it fires the actions whose
properties are proved (section 4).

**Records.** Twenty-six focuses:

| property | of | what could go wrong |
|---|---|---|
| `ActiveAccountSignsIn` | `Accounts` | a set-up user whose identity has no password, because a handler wrote what it had read before |
| `SentPaidFor` | `Notifications` | a recipient mailed more than once without a delivery that overlapped, died or lost the answer of the mail server |
| `StructureHolds` | `Organization` | cycles and orphans in the tree; cost centers, positions, running assignments and skill requirements that refer to what was deleted |
| `ProblemsListed` | `AttendanceControls` | an exception that is missing, or keeps old minutes, after a record changed |
| `PremiumPaysWindow` | `AttendanceControls` | hours of a premium counted twice or lost around midnight: `PremiumMinutes`, an arithmetic of day windows, against a count of hours |
| `SplittingSavesNothing` | `LeaveRules` | leave that is cheaper when asked for in two pieces, whatever the calendar |
| `RiskNotUnderstated` | `LeaveRules` | the coverage risk a requester is shown against what is left of the team |
| `WeekOvertimeCovered` | `ScheduleRules` | overtime lost when shifts are planned out of order, moved or taken off |

The focuses on persons, profiles, roles, terms and relationships, and those on
provisioning, employee numbers, the pipeline, guides, widgets, the board and
leads have theorems instead (section 4): the run fires their actions, and TLC
checked their properties and invariants on them before they were proved.

### Bounds

| bound | why it is enough |
|---|---|
| 2 handlers (`Proc`), 1 request | the handlers of different requests share no row; a race needs two handlers on one request. The theorems hold for any number of either |
| workflows of a person, a notification and an undelegable review; of an expression; of an optional step | automation between people's steps, at the end and from the start, and a second decision |
| 1 workflow row, 2 steps, 1 editor, 1 handler | each edit against each submission or decision; created workflows have at most one step, further ones are added |
| 2 messages, batches of 2, 2 workers; `MaxAttempts = 1`, `MaxRetries = 1`, `MaxCrashes = 1` | racing on one message, on the order of two, a full and a short batch; the limit is reached; one retry overlapping with workers; one death |
| 2 or 3 leave requests over a grant of 2 minutes, `MaxAdjusted = 1` | not all fit; one clashing pair, one unpaid, one approved by policy |
| 2 employees, 2 assignments, 2 slots that clash, 1 open shift of 1 or 2 places | both want one place; a place left; a swap into a clash |
| 2 records, 2 shifts, 1 offline ledger of 2 ids, 2 synchronisations, `MaxPayroll = 1` | a record that meets another one's entry; one punch sent twice, two punches at once |
| 2 import jobs of 2 lines, 1 line a batch, 2 workers, 1 crash | a stale lock with lines left, a second batch, an employee number both jobs bring |
| 2 accounts, 3 credentials, 2 invitations, 2 handlers | a chain of refreshes beside another login; two refreshes of one token. The handlers are alike and credentials are issued in order, so `MCPeople` fixes both |
| 2 employees, 3 days, 2 assignments, 3 positions with 1 place | the day before, of and after; a circle of three |
| 1 requisition, 1 offer, 2 approval requests | a second submission after the first was rejected or lost |
| 2 tasks, 2 cases, 2 items; 2 assignments, 2 responses, 2 editions; 2 versions | all and not all done; one open case beside another; a replaced question; a version nobody saw |
| 3 nodes; 1 center, position, assignment, skill | a cycle of three; chains of references |
| hours: a day of 3 (attendance), days of 2 in a week of 2 or 3 (leave, overtime) | windows and work that pass midnight, holidays and special workdays beside workdays, both sides of a weekly limit |
| 2 deliveries, 2 recipients, `MaxSends = 2` | overlap, a retry, a lost answer; which delivery begins, which place has the only user and in which order the answers of one delivery come makes no difference, so `MCRecords` fixes them |
| 2 shifts of which one may be moved, planned before or after the other | a shift moved across the one that was worked out earlier or later; the theorem is about any number, all of them moved |
| 2 tenants, 2 slugs, numbers up to 2 | a sequence set back behind a number it gave, and one that reaches a number somebody chose |
| 1 application, 2 moves through two types, 2 widgets with 2 codes, 2 snapshots | two moves that both find no stage; two handlers with one code; a refresh that commits behind a newer one |

In `MCWorkTime`, `MCPeople` and `MCRecords` a behaviour has one `focus`, chosen
at the start, and only what belongs to it moves. The modules of `MCPeople` and
`MCRecords` share no state, so nothing is lost between them; within a module a
focus leaves part of its operations aside, and the focuses together take every
action. The conjuncts of a focus (statuses left out, rules that stand once they
are used) are bounds of this kind.

Symmetry is used for handlers, steps, employees and assignments, where nothing
names one of them. The view of the run Workflows leaves out the history, the
events and the delegations: the first two are written and never read by guards
or by the property of that run, the last are empty in it.

### Fairness

`Outbox`: `WorkersRun` (weak fairness of the steps of a running worker) and
`TimeRuns` are those of code that runs and of a clock. `OperatorCalls` is an
assumption about the operator, since the repository has no scheduler that calls
`POST /outbox/messages/process`; `DatabaseRecovers` (strong fairness of
publishing) is used by the violation run alone, to show that the environment is
not to blame. `EmployeeImport`: weak fairness of a worker's steps, its timer
among them (`setInterval` of `onModuleInit`), of restarts of its process, and of
a lock going stale once its worker has left it, which is time. No fairness is
assumed of crashes or failures. Deadlock is checked in the runs of approvals,
workflows and leave; in the others bounded numbers of rows, retries and days run
out, so that they really may stop.

## 4. What is proved

`tlapm` checks the theorems of eight modules, for every set of users, requests,
workflows, steps, handlers, messages, workers, rows and tenants: none of the
bounds of section 3 is left in them. They rest on the named assumptions of the
modules: null values and idle slots are no members of the sets they stand
beside, kinds of rows that share a table of handlers are disjoint, initial
tables are tables whose workflows share no step, what a request asks for is
typed as its DTO is, and what a database or a pool of processes has is finite:
workers, couriers, handlers, editors, employees, and the rows that are counted,
summed or looped over (leave requests, assignments, shifts, records, steps,
coverage rules). TLC evaluates every one of them on its runs.

A theorem "in turns" has the BOOLEAN of section 2 as its hypothesis, or its
property has: with the other value the property is false, and section 5 says
what happens then.

| theorem | statement |
|---|---|
| `DelegationTypeCorrect` | `DelegationSpec => []DelegationTypeOK` |
| `DisabledForGood` | `DelegationSpec => DisabledStaysDisabled`, at any number of updates |
| `TakingTurnsNoSelfDelegation` | `DelegationSpec => []NoSelfDelegation`, if updates take turns |
| `TypeCorrect`, `ApprovalInvariant` | `Spec => []TypeOK`, `Spec => []ApprovalInv`, of the approval engine |
| `NoActionLeftWaiting` | `Spec => []EndedRequestHoldsNoAction` |
| `ApprovalNeedsSignOff` | `Spec => []ApprovedActionWasSignedOff` |
| `SettledOnce` | `Spec => ActionSettledOnce` |
| `StepsDecidedInOrder` | `Spec => []DecidedInOrder` |
| `PendingRequestsRestOnSomeone` | `Spec => []PendingRequestHasApprover` |
| `RefinesLifecycle` | `Spec => ImplementsRacingLifecycle` |
| `StepsExplainStatusInTurns` | `OneHandler => (Spec => []StatusExplainedBySteps)` |
| `DecisionFinalInTurns` | `OneHandler => (Spec => DecisionIsFinal)` |
| `RefinesSerialLifecycle` | `OneHandler => (Spec => ImplementsSerialLifecycle)` |
| `WorkflowsTyped`, `StepReferencesKept` | `WorkflowsSpec => []WorkflowsTypeOK`, `=> []StepReferencesHold`, at any number of submissions and edits that overlap |
| `StructureKeptInTurns` | `MCWorkflowsSpec => NoStructureChangeWhilePending`: until two handlers have overlapped |
| `MessagesPublishedAsPaidFor` | `Spec => []PublishesPaidFor`, of the outbox, at any number of workers, batches and retries |
| `PaidLeaveIsBooked` | `Spec => []DecidedLeaveIsBooked`, at any number of handlers that break off |
| `PendingIsExplained` | `Spec => []LedgerExplainsPending`, of leave, however many requests one balance has |
| `LeaveFollowsItsApproval`, `LeaveDecisionsStand` | `MCLeaveSpec => []LeaveFollowsApprovalInTurns`, `=> LeaveDecisionIsFinalInTurns` |
| `LeaveRulesTypesHold`, `SplittingNeverSaves` | `LeaveRulesSpec => []LeaveRulesTypeOK`, `=> []SplittingSavesNothing`, for any calendars and leave of any length |
| `RiskNeverUnderstated` | `LeaveRulesSpec => RiskNotUnderstated`, for any team and any coverage rules |
| `QueuedPunchRecordedOnce` | `AttendanceSpec => []OfflinePunchAppliedOnce`, at any number of calls that die |
| `PayrollIsSignedOff` | `MCSpec => PaidAsDecided` |
| `PaidOnceHolds` | `MCSpec => []PaidOnce`, however often timesheets are generated, until a record is moved to another shift |
| `BookedOnceInTurns` | `TakingTurns => (MCSpec => []BookedOnceAtATime)` |
| `SchedulingTyped` | `SchedulingSpec => []SchedulingTypeOK`, whether handlers take turns or not |
| `HeadcountCoversInTurns` | `TakingTurns => (MCSpec => []HeadcountCovers)`, for open shifts of any head count |
| `LockedPeriodStands` | `TakingTurns => (SchedulingSpec => LockedPeriodGainsNothing)` |
| `SecondTokenTakesOverlap` | `SessionsSpec => []OneLiveTokenPerLogin`: two live tokens of a login only after two of its refreshes overlapped |
| `LinesImportedOnce` | `ImportSpec => []ImportedOnce`, wherever workers die, if slow ones keep their lock |
| `OnePrimaryOnAnyDay` | `~EndsExtend => (StaffingSpec => []OnePrimaryAtATime)` |
| `HierarchyStaysAcyclic` | `StaffingSpec /\ [][ArchivedStay]_staffingVars => []HierarchyAcyclic`: archived positions are not reopened |
| `PlacesAreKept` | `StaffingSpec /\ [][BudgetsGrow]_staffingVars => []OccupancyWithinCapacity`, without overrides and if ends only come forward |
| `PapersStandOnApproval` | `RecruitmentSpec => []StandsOnApproval`, in turns |
| `VerifiedIsAlwaysAsSeen` | `DocumentsSpec => []VerifiedAsSeen`, in turns |
| `ResponsesAlwaysFit` | `FormsSpec => []ResponsesFitForm`, in turns |
| `DerivedStatusesAlwaysAgree` | `LifecycleSpec => []DerivedStatusesAgree`, in turns |
| `OnePrimaryOfAKindHolds` | `PersonRecordsSpec => []OnePrimaryOfAKind` |
| `AttestedAsSeenHolds` | `ProfileSpec => []AttestedAsSeen` |
| `RoleIsAlwaysAsAsked` | `AccessSpec => []RoleIsAsAsked`, at any number of synchronisations under way |
| `RelationsAlwaysFit` | `EmploymentRecordsSpec => []RelationsFit` |
| `OrganizationTypeCorrect`, `StructureAlwaysHolds` | `OrganizationSpec => []OrganizationTypeOK`, `=> []StructureHolds` |
| `NoticesSentAsPaidFor` | `NotificationsSpec => []SentPaidFor`, at any number of deliveries that overlap, die and lose the answers to their mails |
| `AccountIsAlwaysOnePerson` | `AccountsSpec => []AccountIsOnePerson` |
| `ActiveAccountAlwaysSignsIn` | `AccountsSpec => []ActiveAccountSignsIn`, at any number of handlers that have read and not written |
| `CollisionsAreNamed`, `AlwaysAdmittedAsGranted`, `SlugsStayApart` | `TenantsSpec => []SequenceRunsIntoNamed` (a number that is in use and still to come was chosen by a request, or the settings put the sequence before it), `=> []AdmittedAsGranted`, `=> []SlugsApart` |
| `StageAlwaysTellsStatus`, `SecondStageTakesCrossing` | `PipelineSpec => []StageTellsStatus`, `=> []OneStageOfAType` (a second stage of a type only where two moves at once had found none), at any number of moves that overlap and break off |
| `WeekOvertimeAlwaysCovered` | `ScheduleRulesSpec => [](TurnsStayCancelled => WeekOvertimeCovered)` |
| `ProblemsAlwaysListed`, `PremiumAlwaysPaysWindow` | `ControlsSpec => []ProblemsListed`, `=> []PremiumPaysWindow`, for days of any length and work over any number of them |
| `CountersAlwaysTellReactions`, `OneWidgetOfACodeHolds`, `SnapshotsStayInOrder` | `PublicationsSpec => []CountersTellReactions`, `=> []OneWidgetOfACode` (two of a code only on the platform, and only where two handlers contested it), `=> []SnapshotsInOrder` (an older snapshot behind a newer one only if that came while its figures were computed), however many handlers overlap |

*Approvals* (`ApprovalsProofs`). `ApprovedActionWasSignedOff` is not inductive:
an approval commits on steps it did not read, so one must know what any approved
step means. `ApprovalInv` says that a step that is APPROVED and needs a person
has the approval of one in the history (`RequestInv`); that the steps of a
pending request are PENDING or APPROVED, so that what automation leaves when it
ends a request is approved throughout; and that a submission in flight has its
request id to itself (`CallInv`), so that its commit cannot overwrite another
request. `AdvancedFacts` says what `advanceAutomatedSteps` does to a list of
steps, for lists of any length; each commit has a lemma of its own that the
invariant survives it, and `OthersUntouched` and `CallsAfterCommit` carry the
other requests and the other calls through. The refinement maps `status` and
`workforceAction` to themselves; a commit that ends a request is a `Decide` when
the request is still pending and an `Overturn` when it is not, and in the second
case the invariant gives that the action is settled already.

For the order of decisions the invariant is `OrderInv`: behind a decided step
nothing is PENDING, and a handler in flight acts on a step before which nothing
is, so that two handlers with stale steps keep it together. What
`advanceAutomatedSteps` stops at is the *first* pending step; that it exists is
an argument on the smallest counterexample (`LeastNatural`), which needs the
well-foundedness of the naturals and no induction theorem. For the serial
results `SerialInv` says that the steps `Tell` the status, and that what the one
handler has read is still so (`CallIsCurrent`); every commit is then a `Decide`
of the serial lifecycle.

*Workflow definitions* (in `ApprovalsProofs`). That a structure is frozen under
pending requests is not inductive: what `assertNoOpenRequests` and the checks of
the input found must still be so at the commit (`EditStands`: no request of the
workflow is open, a step to be added is in no workflow). With at most one
transaction open (`OpenCounts`, from cardinalities) nothing can change it: a
request becomes PENDING only by the commit of a submission in flight
(`PendingComesFrom`). A commit then changes the steps of one workflow and rows
that are in no other (`Reshapes`), which leaves the other workflows alone
because no two share a step (`StepsApart`). The references of step instances
hold without turns: no commit of an edit but a deletion loses a step, for lists
of any length (`InsertedAll`, `RemovedAll`, `ReorderedAll`: also when steps were
added while a reorder was under way), a deletion takes the references to its
step with it, and a submission asks for its steps again when it commits.

*Delegations.* `DisabledForGood` needs that the row an update has read is there
when it writes (`UpdatesNameRows`); `TakingTurnsNoSelfDelegation` that the patch
in flight is proper on the row as it is now (`ProperRows`), which a second
update could break and a deletion or the passing of time cannot.

*Outbox.* `Paid` counts what is still owed of a message: published, plus the
workers that have claimed it and not published it yet, plus one if it is
PENDING, is at most one plus the retries. The conditional claim keeps it because
it takes the PENDING away from whoever comes second; a worker that dies only
lowers the sum.

*Leave.* `LeaveInv` says of every handler between two of its statements what the
row it names already has (`CallsStand`): the reservation is written before the
request can be found, the usage before the status. With turns (`TurnsInv`) one
handler is between its statements, and linked leave says what its approval
request says (`Follows`) except while that one is at work. That the ledger
explains the pending minutes compares sums over all requests: whatever moves the
balance writes one ledger row in the same transaction, and a row more of a type
adds the minutes of its request to the sum of that type (`EntryCounts`).

*Rules of leave* (in `LeaveProofs`). The cost of a leave is a sum over its days
of the lesser of the hours it shares with the day and the hours of work the day
has. The hours of a day that a window has are those of its two pieces
(`OverlapSplits`), days without hours may be added to a sum (`CostOverMoreDays`),
and cutting the parts of a sum off at a limit one by one takes off no more than
cutting off the whole (`PiecesCost`). For the risk, those whom `CoverageImpact`
counts on a day are among those who are really left (`ProjectedAreLeft`), and the
minimum it compares them with is at least that of every rule (`MinimumIsMost`).

*Sums* (`SumProofs`). The library defines a sum by recursion on finite sets, and
its induction theorem takes an operator. Induction on the subsets of a finite
set needs none: if a collection has every subset that is in it as soon as each
set with one element less is, then it has them all (`SetInduction`, by the
smallest counterexample on cardinalities). From it: a sum of integers is an
integer, one element may be taken out of it first, it changes by what one
element changes, sums add up term by term, a part of non-negative terms is no
more than the whole, and disjoint finite sets have as many elements as their
sizes add up to (`SizesAdd`). A
loop over rows is a fold, and a loop whose every turn keeps to a set ends in it
(`FoldsWithin`).

*Work time.* A synchronisation that has created or claimed the row of a punch
has it to itself (`SyncInv`), since the unique pair of tenant and mutation id
lets one insert pass; a call that dies keeps it for ever, which is the PENDING
row of section 5. A final timesheet says what it said when it was made final
(`SignedInv`). No entry of a timesheet shares its record with another, and each
names the shift its record is of (`PaidInv`): the second is what lets
`upsertTimesheetEntry` find the entry of a record by record and shift, so that
it replaces instead of adding (`UpsertProper`), and both loops of
`generateTimesheet` keep to such entries in whatever order they take shifts and
records (`GeneratedProper`). A record moved to another shift breaks it, and
there the property stops. `BookInv` says that what the one handler has read of open shifts,
claims and swaps still stands, and a lemma per handler that a step makes,
changes, ends or restores one assignment after asking for its conflicts
(`Makes`, `Changes`, `Ends`, `SetsStatus`): the properties of the history and of
locked periods follow from those alone.

The types of `Scheduling` need to know what a handler has read: its row was there
and, since nothing is deleted, still is (`TaskFits`, `RowsStay`). For the head
count, `HeadInv` says that the counts a handler has read still stand
(`CountsStand`), that whatever was taken back has ended (`TakenAreOver`), and
that an open shift counts at least the employees whose claims hold an assignment
not taken back (`Held`, `Covered`). Every step is one of five moves: it leaves
claims and counts alone, opens a shift, counts one employee up or down, or
resizes a shift to no less than it counts (`CountsMove`); and for each of them
the set held grows by one at most, or shrinks with the count (`CoverMoves`).
Handlers that overlap break `CountsStand`, and with it the count.

*People.* Sessions: of a chain that is not `crossed`, at most one refresh is under
way, and its token is the only one of the chain that may be live
(`SoleRefresh`); it keeps that until it writes, since whatever else issues
credentials begins a chain. Staffing: two primary windows of
an employee are `Apart`; `preparePrimaryWindow` cuts the one that is open and
refuses the rest. The reporting line of a position is the least set that has it
and the superiors of its members, said without recursion as what is in every
such set; to show that a position is not in a line after its superior changed,
it is enough to name a closed set that has the line's bottom and not the position
(`OneMoves`). An archived position keeps the name of its superior but ends the
walks, which is why it must not come back. For the head count, whoever holds a
place on a day after a write held it before, or is the one written, and those
beside it are among the ones `Occupied` has counted for the whole window
(`WriteKeepsPlaces`). Import (`ImportInv`): a job that a worker holds is
PROCESSING under a fresh lock and has no other holder, the lines in its hands
are still pending, and the event and the status of a completed job are those of
its lines, none of which is pending. Recruitment: `Stands` says for every status what the engine
has answered, and `JobStands` what a handler between its statements may still
assume when the engine is used directly meanwhile. Documents: a verification
under way sees the current version (`SeesCurrent`). Forms: what a handler has
read stands (`FormJobStands`: no response to questions that are to be replaced,
no second assignment of a target, the edition that is answered), while time may
close a form below it. Lifecycle: what a handler has derived is what one would
derive now (`OfficerStands`); `PlanWritten` and `CaseWritten` say that a row
below one plan or case changes what is derived for that one only.

*Records.* A person's rows: types and the property itself are inductive, as long
as a request that retypes a contact says `isPrimary`. Profiles: beside the
property, a reviewer of a record is its only one, and the record stays as
submitted and as read until that reviewer decides or it is removed
(`ReviewedAsRead`): the guards of self-service are what keeps it so. Roles:
`AccessInv` adds that nobody has asked anything of a role that was not made
(`MadeFirst`), and what a transaction under way knows (`SyncKnows`): what it will
delete is not in its request, what it leaves of the role is in its request or in
one committed meanwhile, and what it will not add is there or was deleted by a
request committed meanwhile. Relationships: an update under way still fits when
it is merged with the row (`Fit`). Notifications: `Due` counts the deliveries
that still owe a recipient a send, and one more if the recipient is ready to be
read; with what was sent it is at most one plus the `excuses`. A delivery that
records FAILED, one that dies, one that loses an answer and a retry each pay for
what they add.

*Organization.* The invariant is `StructureHolds` with the types. `Forest` is
said of sets of nodes, "any nodes have one whose parent is not among them",
which needs no recursion: when a node moves under a parent that is not below it,
and some set were closed under parents, then the part of it that lies above that
parent would have been closed before the move. Each deletion keeps the conjuncts
because of what its own list asks for, and the proof shows which item is needed
for which.

*Accounts* (in `RecordsProofs`). `AccountIsOnePerson` follows from `OneAccount`: a person has one
account, an account one person, and an employment the account of its person or
none. `ActiveAccountSignsIn` needs that an account that is ACTIVE has a password,
one without links was seeded ACTIVE (`UsersSound`), and that both hold of what a
handler has read and will write, to an account that stays linked if it was
(`LinkersSound`): a write of old values then never takes a password away.

*Office* (`OfficeProofs`: tenants, pipeline, publications, overtime, controls). A tenant that was not
provisioned has no numbers, what is enabled is core or was switched on, and a
number that the sequence gave is not still to come unless the settings put it
ahead (`TenantsInvariant`): a hire takes the first number ahead and leaves the
rest, since numbers of one prefix differ. A mover goes to a stage that its vacancy has, since stages
are never removed (`PipelineInvariant`); who is about to create a stage of a
type that was not crossed is the only one, and there is none of it
(`SinglyUnlessCrossed`): a move that finds none begins it, or crosses another. The counters of an article
change in the transaction of the reaction they count, so that a request that
read something else still leaves them equal to the rows (`GuideInvariant`); of a
code that is not contested at most one handler is about to create a widget or to
give it to one, and no other widget has it (`Uncontested`); a refresh that is
under way was given figures no smaller than those of the snapshots it came
after, since figures only grow (`SnapshotInvariant`). Of overtime (`LastCovers`): whichever
shifts of a week one takes, one of them, the one worked out last, has overtime
for all that they exceed the limit by. Said of every part of the week, this
survives a shift that is taken off. Of exceptions (`ControlsInv`): the problems
that a writer of a record has found are listed with their minutes after it
(`SyncLists`), the controls of a clock add kinds that are no problems
(`ControlsListed`), and a write of one record leaves the exceptions of the others
alone (`RecordWritten`). A premium: the hours worked in the window that starts on
a day are a set of hours as large as the overlap of two intervals
(`ShareIsCount`), the sets of different days are disjoint, and an hour is in one
of them just if it is in the window of its day (`WindowsOfDays`); so the sum over
the days that `timeWindowOverlapMinutes` looks at is the number of hours that the
definition counts, by integer division at every midnight.

*Model-checked only.* Liveness under fairness (`ClaimIsResolved`,
`EveryEventTakenUp`, `EveryImportFinishes`) is out of the prover's reach. Every
other property of the passing runs is stated by a theorem; a theorem "in turns"
says nothing of handlers that overlap, and there the runs show either that the
property is lost (section 5) or that it is not claimed.

## 5. Where code and text disagree, and what the bounds leave out

Four disagreements have a run of their own (section 3) and a finding. What else
the model showed, or would show with the other value of a bound:

*Approvals and leave*
* `approvals.service.ts:364` and `:453`: two updates of one delegation in flight
  produce a self-delegation.
* `workflows.service.ts:627`: a submission that overlaps with an edit ends up
  with a structure changed under it. `workflows.service.ts:46` refuses to create
  an active workflow without steps, `deleteStep` (:303) may leave one.
* `leave.service.ts:1342`, `:1376`, `:1387`: two handlers overdraw the balance,
  create overlapping leave, or overwrite a decision; a cancellation between the
  statements of `createRequest` is overwritten.
* `docs/enterprise-backend-roadmap.md:135`: leave is approved without the
  approval engine when the link to the approval request was lost, or the policy
  asks for no approval. A leave request whose approval was decided at the
  approvals endpoint stays PENDING_APPROVAL with its minutes reserved;
  cancelling approved leave releases the reservation a second time and leaves
  the usage (`leave.service.ts:1167`).
* Rules of leave: the default calendar wins over one of the employee's unit;
  leave over days off alone is booked at its elapsed time although the warning
  says it is not counted; switching the default calendar is two statements
  without a transaction; coverage only warns, and requests that still wait are
  not subtracted from the team.

*Work time*
* Two overlapping pick-ups write the same head count; `unassignAssignment` asks
  neither for the status nor for a locked period; `updateAssignmentStatus`
  revives a cancelled assignment without the conflict check; a swap decision
  does not ask whether the assignment is still the requester's; publishing a
  period that is being locked unlocks it.
* Overtime: each shift past the weekly limit is given the whole excess; a
  revived shift is not worked out again (`TurnsStayCancelled`).
* The default policies of scheduling and attendance have a unique code: once
  archived, with no other policy active, `ensureActivePolicy` fails, and with it
  every punch, and lists that create the policy when they are read.
* Attendance: a record that is relinked after its timesheet was generated gets a
  second entry and is paid twice (`moved` in `MCWorkTime`); an offline row left
  PENDING by a crash is never applied; two concurrent punches may open two
  records; `decideTimesheet` and `decideException` decide again whatever was
  decided; a payroll lock chooses its timesheets before its transaction
  (`attendance.service.ts:2702`). Nothing removes the exceptions of a record
  that is corrected, and an accepted one silently takes new minutes.

*People*
* Import: with `SlowWorkersKeepLock = FALSE` a worker that is only slow has its
  lock stolen and lines are imported twice; two commits at once both find no
  active job.
* Sessions: two overlapping refreshes of one token both succeed (`crossed`); `revokeSession`
  leaves the refresh token.
* Staffing: `endAssignment` may move an end beyond the start of the next primary
  assignment (`EndsExtend`); archived positions that are reopened may close a
  reporting circle; `archiveEmployee` asks only for assignments without an end;
  lowering a budget compares only with today.
* Records: an update that moves a primary contact to another type leaves two
  primaries (`RetypesSayPrimary`); a payout account without `isPrimary` becomes
  primary beside another; superseding a term by one that starts earlier leaves
  a window that ends before it starts, which `assertEffectiveWindow`
  (`employees.service.ts:5892`) refuses elsewhere; two overlapping updates of a
  relationship combine a type and a leader that nobody validated together.
* Accounts: `updatePerson` and `createPerson` check only the tenant of an
  account (`PersonsKeepAccounts`), not that it belongs to another person, which
  `employees.service.ts:6055` refuses.
* Lifecycle: two concurrent completions leave a plan open; a case that is
  completed can get open items; reopening by hand allows two open cases.
* Recruitment: a handler that breaks off after the engine decided leaves the
  paper SUBMITTED; a withdrawn paper with a pending request comes back with its
  approval. Documents: a verification that overlaps with a new version verifies
  it unseen. Forms: EXPIRED is written and rolled back by the exception that
  follows. Notifications: when the mail server
  takes a message and its answer is lost, the adapter answers FAILED
  (`email-notification-delivery.adapter.ts:73`), and the next delivery sends it
  again; a delivery overwrites READ; `markAllRead` marks
  cancelled recipients as well.

*Tenants, pipeline, publications*
* `employees.service.ts`, `generateEmployeeNumber`: a number that somebody was
  given by hand and that the sequence reaches later makes every further hire
  without a number fail, because the refusal takes the increment back with it;
  `updateCurrentSettings` sets the sequence back behind numbers it gave, with the
  same effect.
* A tenant that is SUSPENDED is refused nothing but its features; an invited
  administrator gets no mail when the process dies after the transaction of
  `createTenant`.
* Scheduling an interview resets the status of an application that was hired;
  two moves by type that both find none create two stages of a type (`crossed`).
* INSIGHTFUL counts as a like. The unique index of widgets does not hold for
  those of the platform, whose tenant is null; two handlers give two of
  them one code (`contested`). Overlapping refreshes leave an older snapshot
  behind a newer one.

*Organization.* A position reopened from the archive brings back references to
what was deleted meanwhile (`unchecked`); deletions ignore assignments that end
in the future; two moves that overlap close a cycle, and the walk over parents
never ends.

## 6. What is not modelled, and the plan

Not modelled because they keep no state, or only query: search, realtime,
health, qa, the figures of the dashboard, and the seeds. Within the modelled
services: audit and timeline rows, the creation of leave balances, generated
schedule patterns and summaries, geofences by name, rounding, exported files,
compensation components, benefits, lifecycle templates and rehire records,
recruitment's approval rules, and the storage of files.

The statuses and rows of one service that others only read are modelled where
they are written; the composition of scheduling with attendance, leave with
scheduling, and positions with the organization goes through constants or a
second, coarser module, not through one state.

Next, in this order:

1. `Attendance` over `Scheduling`: shifts that are swapped while they are worked.
2. Leave that `SettleLeave` approves, with the roster it takes its days from.
