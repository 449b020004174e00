-------------------------- MODULE EmployeeLifecycle --------------------------
(***************************************************************************)
(* Lifecycle plans with their tasks, and offboarding cases with their       *)
(* clearance items, of one employee: employees/employees.service.ts.        *)
(*                                                                         *)
(* The status of a plan and the clearance statuses of a case are derived    *)
(* from the rows below them, by every handler that writes such a row.  A    *)
(* handler is a transaction in three steps: it reads and checks, it writes  *)
(* its row and derives from what others have committed, it commits; broken  *)
(* off, it leaves nothing.  Owners, dates, evidence and rehire records are  *)
(* left out.                                                               *)
(***************************************************************************)
EXTENDS Integers, FiniteSets

CONSTANTS PlanId, TaskId, ExitId, ItemId,
          Officer,            \* handlers
          OfficersTakeTurns,
          NoPlan, NoRow

ASSUME LifecycleAssumption == OfficersTakeTurns \in BOOLEAN
ASSUME PlansAreNoCases == PlanId \cap ExitId = {} /\ NoPlan \notin PlanId

VARIABLES plan,     \* status of an EmployeeLifecyclePlan
          task,     \* EmployeeLifecycleTask rows
          exit,     \* EmployeeExitRecord rows
          item,     \* EmployeeClearanceItem rows
          edited,   \* plans and cases whose status was set by hand since it was derived
          handled,  \* cases whose status was ever set by hand
          officer   \* what a handler is about to do

lifecycleVars == <<plan, task, exit, item, edited, handled, officer>>

PlanStatus == {"DRAFT", "ACTIVE", "COMPLETED", "CANCELLED", "ARCHIVED"}
TaskStatus == {"OPEN", "IN_PROGRESS", "BLOCKED", "COMPLETED", "WAIVED", "CANCELLED"}
ExitStatus == {"DRAFT", "ACTIVE", "READY_FOR_SEPARATION", "COMPLETED", "CANCELLED", "ARCHIVED"}
ClearanceStatus == {"OPEN", "IN_PROGRESS", "CLEARED", "BLOCKED", "WAIVED", "CANCELLED"}

\* The status of a case that items of a type count for; the other types, only
\* for whether all are done.
Scope == {"access", "assets", "documents"}

TaskRow == [plan : PlanId, status : TaskStatus]
ItemRow == [exit : ExitId, scope : Scope \cup {"none"}, status : ClearanceStatus]
ExitRow == [status : ExitStatus, clearance : [Scope -> ClearanceStatus], plan : PlanId \cup {NoPlan}]

ASSUME NoRowIsNoRow == NoRow \notin TaskRow \cup ItemRow \cup ExitRow

Waiting == [op |-> "idle"]

LifecycleTypeOK ==
  /\ plan \in [PlanId -> PlanStatus \cup {"NONE"}]
  /\ task \in [TaskId -> TaskRow \cup {NoRow}]
  /\ exit \in [ExitId -> ExitRow \cup {NoRow}]
  /\ item \in [ItemId -> ItemRow \cup {NoRow}]
  /\ \A t \in TaskId : task[t] # NoRow => plan[task[t].plan] # "NONE"
  /\ \A i \in ItemId : item[i] # NoRow => exit[item[i].exit] # NoRow
  /\ edited \subseteq PlanId \cup ExitId /\ handled \subseteq ExitId

LifecycleInit ==
  /\ plan = [p \in PlanId |-> "NONE"]
  /\ task = [t \in TaskId |-> NoRow]
  /\ exit = [c \in ExitId |-> NoRow]
  /\ item = [i \in ItemId |-> NoRow]
  /\ edited = {} /\ handled = {}
  /\ officer = [h \in Officer |-> Waiting]

OfficerTurn == OfficersTakeTurns => \A h \in Officer : officer[h] = Waiting

\* lifecycleTaskIsTerminal and clearanceIsTerminal.
TaskDone == {"COMPLETED", "WAIVED", "CANCELLED"}
ItemDone == {"CLEARED", "WAIVED", "CANCELLED"}

TasksOf(p, rows) == {t \in TaskId : rows[t] # NoRow /\ rows[t].plan = p}
ItemsOf(c, rows) == {i \in ItemId : rows[i] # NoRow /\ rows[i].exit = c}

----------------------------------------------------------------------------
\* What is derived.

\* refreshLifecyclePlanStatus, which leaves some plans alone.
RefreshedPlan(p, rows) ==
  LET done == \A t \in TasksOf(p, rows) : rows[t].status \in TaskDone IN
  IF \/ TasksOf(p, rows) = {} \/ plan[p] \in {"CANCELLED", "ARCHIVED"}
     \/ done = (plan[p] = "COMPLETED")
  THEN "KEEP" ELSE IF done THEN "COMPLETED" ELSE "ACTIVE"

\* aggregateClearanceStatus.
Aggregate(S) ==
  CASE S = {}               -> "OPEN"
    [] "BLOCKED" \in S      -> "BLOCKED"
    [] "IN_PROGRESS" \in S /\ "BLOCKED" \notin S -> "IN_PROGRESS"
    [] S = {"CLEARED"}      -> "CLEARED"
    [] S \subseteq ItemDone /\ S \notin {{}, {"CLEARED"}} -> "WAIVED"
    [] "OPEN" \in S /\ S \cap {"BLOCKED", "IN_PROGRESS"} = {} -> "OPEN"

\* exitRecordAggregateStatusData.
Clearance(c, rows) ==
  [s \in Scope |-> Aggregate({rows[i].status : i \in {j \in ItemsOf(c, rows) : rows[j].scope = s}})]

AllClear(c, rows) == ItemsOf(c, rows) # {} /\ \A i \in ItemsOf(c, rows) : rows[i].status \in ItemDone

\* refreshExitRecordClearanceStatuses: the status goes to READY_FOR_SEPARATION
\* and never back.
RefreshedExit(c, rows) ==
  [clearance |-> Clearance(c, rows),
   status |-> IF AllClear(c, rows) /\ exit[c].status = "ACTIVE" THEN "READY_FOR_SEPARATION" ELSE "KEEP"]

Kept(new, old) == IF new = "KEEP" THEN old ELSE new

----------------------------------------------------------------------------
\* One statement and no derivation: createEmployeeLifecyclePlan,
\* updateEmployeeLifecyclePlan and updateEmployeeExitRecord.

CreatePlan(p, status) ==
  /\ plan[p] = "NONE"
  /\ plan' = [plan EXCEPT ![p] = status]
  /\ UNCHANGED <<task, exit, item, edited, handled, officer>>

UpdatePlan(p, status) ==
  /\ plan[p] \notin {"NONE", status}
  /\ plan' = [plan EXCEPT ![p] = status]
  /\ edited' = edited \cup {p}
  /\ UNCHANGED <<task, exit, item, handled, officer>>

\* A clearance status, which is derived, may be sent too.
UpdateExit(c, status, s, clearance) ==
  /\ exit[c] # NoRow
  /\ exit' = [exit EXCEPT ![c].status = status, ![c].clearance[s] = clearance]
  /\ edited' = edited \cup {c}
  /\ handled' = IF status = exit[c].status THEN handled ELSE handled \cup {c}
  /\ UNCHANGED <<plan, task, item, officer>>

----------------------------------------------------------------------------
\* Handlers begin: what they read, and what they refuse.

TakesOn(h, job) ==
  /\ officer[h] = Waiting
  /\ officer' = [officer EXCEPT ![h] = job]
  /\ UNCHANGED <<plan, task, exit, item, edited, handled>>

\* A template that has tasks T, of an active plan.
InstantiateTemplate(h, p, T) == TakesOn(h, [op |-> "template", plan |-> p, tasks |-> T])

\* Mutant: a completed plan stays completed.
CreateTaskUnderCompleted(h, p, t) ==
  /\ plan[p] \notin {"NONE", "CANCELLED", "ARCHIVED"}
  /\ TakesOn(h, [op |-> "newTask", plan |-> p, task |-> t, reopen |-> FALSE])

CreateTask(h, p, t) ==
  /\ plan[p] \notin {"NONE", "CANCELLED", "ARCHIVED"}
  /\ TakesOn(h, [op |-> "newTask", plan |-> p, task |-> t, reopen |-> plan[p] = "COMPLETED"])

\* updateEmployeeLifecycleTask sets any status, waive WAIVED.
UpdateTask(h, t, status) ==
  /\ task[t] # NoRow
  /\ TakesOn(h, [op |-> "task", task |-> t, status |-> status])

CompleteOrBlockTask(h, t, status) ==
  /\ status \in {"COMPLETED", "BLOCKED"}
  /\ task[t] # NoRow /\ task[t].status \notin TaskDone
  /\ TakesOn(h, [op |-> "task", task |-> t, status |-> status])

\* startEmployeeOffboarding: one open case, perhaps with a plan of tasks T, and
\* at least one item.
OpenCases == {c \in ExitId : exit[c] # NoRow
                             /\ exit[c].status \in {"DRAFT", "ACTIVE", "READY_FOR_SEPARATION"}}

StartOffboarding(h, c, p, T, scopes) ==
  /\ OpenCases = {} /\ DOMAIN scopes # {}
  /\ p = NoPlan => T = {}
  /\ TakesOn(h, [op |-> "start", exit |-> c, plan |-> p, tasks |-> T, scopes |-> scopes])

CompleteExit(h, c) ==
  /\ exit[c] # NoRow /\ \A i \in ItemsOf(c, item) : item[i].status \in ItemDone
  /\ TakesOn(h, [op |-> "finish", exit |-> c, clearance |-> Clearance(c, item)])

CreateItem(h, c, i, scope) ==
  /\ exit[c] # NoRow
  /\ TakesOn(h, [op |-> "item", item |-> i, isNew |-> TRUE,
                row |-> [exit |-> c, scope |-> scope, status |-> "OPEN"]])

UpdateItem(h, i, status) ==
  /\ item[i] # NoRow
  /\ TakesOn(h, [op |-> "item", item |-> i, isNew |-> FALSE,
                row |-> [item[i] EXCEPT !.status = status]])

----------------------------------------------------------------------------
\* Handlers write: the row is theirs until they commit, and what they derive
\* they derive from it and from what others have committed.

Doing(h, op) == officer[h].op = op
HasWritten(h, op, field, id) == Doing(h, op) /\ officer[h][field] = id

WriteTask(h) ==
  /\ Doing(h, "task")
  /\ LET t == officer[h].task
         rows == [task EXCEPT ![t].status = officer[h].status] IN
     /\ \A g \in Officer : ~HasWritten(g, "taskWritten", "task", t)
     /\ officer' = [officer EXCEPT ![h] =
          [op |-> "taskWritten", task |-> t, status |-> officer[h].status,
           plan |-> RefreshedPlan(task[t].plan, rows)]]
  /\ UNCHANGED <<plan, task, exit, item, edited, handled>>

WriteItem(h) ==
  /\ Doing(h, "item")
  /\ LET i == officer[h].item
         rows == [item EXCEPT ![i] = officer[h].row] IN
     /\ officer[h].isNew = (item[i] = NoRow)
     /\ \A g \in Officer : ~HasWritten(g, "itemWritten", "item", i)
     /\ officer' = [officer EXCEPT ![h] =
          [op |-> "itemWritten", item |-> i, row |-> officer[h].row,
           exit |-> RefreshedExit(officer[h].row.exit, rows)]]
  /\ UNCHANGED <<plan, task, exit, item, edited, handled>>

----------------------------------------------------------------------------
\* Handlers commit.

Done(h) == officer' = [officer EXCEPT ![h] = Waiting]
NewTasks(T, p) == [t \in TaskId |-> IF t \in T THEN [plan |-> p, status |-> "OPEN"] ELSE task[t]]

CommitTask(h) ==
  /\ Doing(h, "taskWritten") /\ Done(h)
  /\ LET t == officer[h].task
         p == task[t].plan IN
     /\ task' = [task EXCEPT ![t].status = officer[h].status]
     /\ plan' = [plan EXCEPT ![p] = Kept(officer[h].plan, @)]
     /\ edited' = edited \ {p}
  /\ UNCHANGED <<exit, item, handled>>

CommitNewTask(h) ==
  /\ Doing(h, "newTask") /\ task[officer[h].task] = NoRow /\ Done(h)
  /\ LET p == officer[h].plan IN
     /\ task' = NewTasks({officer[h].task}, p)
     /\ plan' = IF officer[h].reopen THEN [plan EXCEPT ![p] = "ACTIVE"] ELSE plan
     /\ edited' = edited \ {p}
  /\ UNCHANGED <<exit, item, handled>>

CommitTemplate(h) ==
  /\ Doing(h, "template") /\ Done(h)
  /\ plan[officer[h].plan] = "NONE" /\ \A t \in officer[h].tasks : task[t] = NoRow
  /\ plan' = [plan EXCEPT ![officer[h].plan] = "ACTIVE"]
  /\ task' = NewTasks(officer[h].tasks, officer[h].plan)
  /\ UNCHANGED <<exit, item, edited, handled>>

\* The new items are open, and so is what is derived from them.
CommitStart(h) ==
  /\ Doing(h, "start") /\ Done(h)
  /\ LET c == officer[h].exit
         p == officer[h].plan
         scopes == officer[h].scopes IN
     /\ exit[c] = NoRow /\ \A i \in DOMAIN scopes : item[i] = NoRow
     /\ p # NoPlan => plan[p] = "NONE" /\ \A t \in officer[h].tasks : task[t] = NoRow
     /\ exit' = [exit EXCEPT ![c] =
          [status |-> "ACTIVE", clearance |-> [s \in Scope |-> "OPEN"], plan |-> p]]
     /\ item' = [i \in ItemId |-> IF i \in DOMAIN scopes
                                  THEN [exit |-> c, scope |-> scopes[i], status |-> "OPEN"] ELSE item[i]]
     /\ plan' = [q \in PlanId |-> IF q = p THEN "ACTIVE" ELSE plan[q]]
     /\ task' = NewTasks(officer[h].tasks, p)
  /\ UNCHANGED <<edited, handled>>

CommitItem(h) ==
  /\ Doing(h, "itemWritten") /\ Done(h)
  /\ LET c == officer[h].row.exit IN
     /\ item' = [item EXCEPT ![officer[h].item] = officer[h].row]
     /\ exit' = [exit EXCEPT ![c].clearance = officer[h].exit.clearance,
                             ![c].status = Kept(officer[h].exit.status, @)]
     /\ edited' = edited \ {c}
  /\ UNCHANGED <<plan, task, handled>>

\* The plan of the case and the employee are left as they are.
CommitFinish(h) ==
  /\ Doing(h, "finish") /\ Done(h)
  /\ LET c == officer[h].exit IN
     /\ exit' = [exit EXCEPT ![c].status = "COMPLETED", ![c].clearance = officer[h].clearance]
     /\ edited' = edited \ {c}
  /\ UNCHANGED <<plan, task, item, handled>>

OfficerStops(h) ==
  /\ officer[h] # Waiting /\ Done(h)
  /\ UNCHANGED <<plan, task, exit, item, edited, handled>>

----------------------------------------------------------------------------
\* A handler comes in when it is its turn.
PlanNext ==
  \/ /\ OfficerTurn
     /\ \/ \E p \in PlanId, status \in PlanStatus : CreatePlan(p, status) \/ UpdatePlan(p, status)
        \/ \E h \in Officer :
             \/ \E p \in PlanId : \/ \E T \in SUBSET TaskId : InstantiateTemplate(h, p, T)
                                  \/ \E t \in TaskId : CreateTask(h, p, t)
             \/ \E t \in TaskId, status \in TaskStatus :
                  UpdateTask(h, t, status) \/ CompleteOrBlockTask(h, t, status)
  \/ \E h \in Officer : WriteTask(h) \/ CommitTask(h) \/ CommitNewTask(h) \/ CommitTemplate(h)

ExitNext ==
  \/ /\ OfficerTurn
     /\ \/ \E c \in ExitId, status \in ExitStatus, s \in Scope, clearance \in ClearanceStatus :
             UpdateExit(c, status, s, clearance)
        \/ \E h \in Officer, c \in ExitId :
             \/ \E p \in PlanId \cup {NoPlan}, T \in SUBSET TaskId, I \in SUBSET ItemId :
                  \E scopes \in [I -> Scope \cup {"none"}] : StartOffboarding(h, c, p, T, scopes)
             \/ CompleteExit(h, c)
             \/ \E i \in ItemId, scope \in Scope \cup {"none"} : CreateItem(h, c, i, scope)
        \/ \E h \in Officer, i \in ItemId, status \in ClearanceStatus : UpdateItem(h, i, status)
  \/ \E h \in Officer : WriteItem(h) \/ CommitStart(h) \/ CommitItem(h) \/ CommitFinish(h)

LifecycleNext == PlanNext \/ ExitNext \/ \E h \in Officer : OfficerStops(h)

LifecycleSpec == LifecycleInit /\ [][LifecycleNext]_lifecycleVars

----------------------------------------------------------------------------
\* Properties, of handlers that take turns.

\* Nothing derived goes stale, whichever handler wrote the rows below it: a
\* plan with tasks that nobody set by hand, cancelled or archived is completed
\* exactly when its tasks are done; a case shows the clearance its items give
\* it and is not active when they are all done; and an employee has one open
\* case as long as no status of a case was set by hand.
DerivedStatusesAgree ==
  OfficersTakeTurns =>
    /\ \A p \in PlanId \ edited :
         TasksOf(p, task) # {} /\ plan[p] \notin {"CANCELLED", "ARCHIVED"} =>
           (plan[p] = "COMPLETED" <=> \A t \in TasksOf(p, task) : task[t].status \in TaskDone)
    /\ \A c \in ExitId \ edited : exit[c] # NoRow =>
         /\ exit[c].clearance = Clearance(c, item)
         /\ exit[c].status = "ACTIVE" => ~AllClear(c, item)
    /\ Cardinality(OpenCases \ handled) <= 1
=============================================================================
