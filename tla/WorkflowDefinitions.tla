------------------------ MODULE WorkflowDefinitions ------------------------
(***************************************************************************)
(* The definitions that requests are made from: workflows/                 *)
(* workflows.service.ts creates workflows, edits their steps and moves     *)
(* them between DRAFT, ACTIVE, INACTIVE and ARCHIVED, while the approval   *)
(* engine (Approvals) submits and decides requests.                        *)
(*                                                                         *)
(* A handler is again a read and a commit: assertNoOpenRequests counts the *)
(* pending requests of the workflow, and nothing keeps a submission from   *)
(* committing between that count and the write.                            *)
(*                                                                         *)
(* The steps of a workflow are a sequence in stepOrder; the numbers, the   *)
(* gaps between them and the unique index on them are abstracted, so a     *)
(* step may be moved to any place.                                         *)
(***************************************************************************)
EXTENDS Approvals, FiniteSets, SequencesExt

CONSTANTS Editor,     \* handlers of workflows.service.ts that run concurrently
          StepInput,  \* the rows that new steps may have
          StepPatch   \* the columns an UpdateWorkflowStepDto may set

VARIABLE edit         \* the transaction each of them has in progress

editVars == <<vars, edit>>

Structural == {"add", "update", "move", "delete", "reorder"}
StructureCall ==
  [op : {"add"}, workflow : WorkflowId, step : StepId, row : StepDefRow, at : Nat \ {0}]
  \cup [op : {"update"}, workflow : WorkflowId, step : StepId, patch : StepPatch]
  \cup [op : {"move"}, workflow : WorkflowId, step : StepId, at : Nat \ {0}]
  \cup [op : {"delete"}, workflow : WorkflowId, step : StepId]
  \cup [op : {"reorder"}, workflow : WorkflowId, order : Seq(StepId)]
StatusCall ==
  [op : {"updateWorkflow", "transition"}, workflow : WorkflowId, to : WorkflowStatus]

\* A step row names one workflow.
ASSUME WorkflowDefinitionsAssumption ==
  /\ IsFiniteSet(Proc) /\ IsFiniteSet(Editor) /\ IsFiniteSet(StepId)
  /\ \A v, w \in WorkflowId : v # w =>
       ToSet(Workflows0[v].steps) \cap ToSet(Workflows0[w].steps) = {}
  /\ StepInput \subseteq StepDefRow
  /\ \A row \in StepDefRow, patch \in StepPatch : Patched(row, patch) \in StepDefRow
  /\ Idle \notin StructureCall \cup StatusCall

WorkflowsTypeOK ==
  TypeOK /\ edit \in [Editor -> StructureCall \cup StatusCall \cup {Idle}]

----------------------------------------------------------------------------

StepsOf(w) == ToSet(workflow[w].steps)
HasOpenRequests(w) ==
  \E r \in Request : workflowOf[r] = w /\ status[r] = "PENDING"

\* validateStepDefinition
ValidStep(row) == row.type \in {"APPROVAL", "REVIEW"} => row.approver # NoOne

\* An id that no row and no transaction knows.
Unused(s) ==
  /\ s \notin LiveSteps
  /\ \A p \in Proc : (call[p] # Idle /\ call[p].op = "submit") =>
       \A i \in DOMAIN call[p].plan : call[p].plan[i].def # s
  /\ \A e \in Editor : (edit[e] # Idle /\ edit[e].op \in Structural \ {"reorder"}) =>
       edit[e].step # s

\* An id with no workflow: no handler finds such a row, none can activate it.
NoRow == [status |-> "ARCHIVED", deleted |-> TRUE, steps |-> <<>>]

UnusedWorkflow(w) ==
  /\ workflow[w] = NoRow
  /\ \A r \in Request : workflowOf[r] # w
  /\ \A e \in Editor : edit[e] # Idle => edit[e].workflow # w

CreateWorkflow(w, st, rows) ==
  /\ UnusedWorkflow(w)
  /\ \A i \in DOMAIN rows : ValidStep(rows[i])
  /\ st = "ACTIVE" => rows # <<>>
  /\ \E ids \in [DOMAIN rows -> {s \in StepId : Unused(s)}] :
       /\ IsInjective(ids)
       /\ workflow' = [workflow EXCEPT
            ![w] = [status |-> st, deleted |-> FALSE,
                    steps |-> [i \in DOMAIN rows |-> ids[i]]]]
       /\ stepDef' = [s \in StepId |->
            IF \E i \in DOMAIN rows : ids[i] = s
            THEN rows[CHOOSE i \in DOMAIN rows : ids[i] = s] ELSE stepDef[s]]
  /\ UNCHANGED edit

\* What each handler checks of its own input: an added row is valid, and so is
\* the row that an update leaves; a reorder names every step once.
Acceptable(c) ==
  CASE c.op = "add" -> Unused(c.step) /\ ValidStep(c.row)
    [] c.op = "update" -> /\ c.step \in StepsOf(c.workflow)
                          /\ ValidStep(Patched(stepDef[c.step], c.patch))
    [] c.op \in {"move", "delete"} -> c.step \in StepsOf(c.workflow)
    [] c.op = "reorder" -> c.order \in SetToSeqs(StepsOf(c.workflow))

\* Mutant: open requests are not looked for.
StructureReadUnchecked(e, c) ==
  /\ edit[e] = Idle
  /\ ~workflow[c.workflow].deleted
  /\ Acceptable(c)
  /\ edit' = [edit EXCEPT ![e] = c]
  /\ UNCHANGED definitionVars

\* addStep, updateStep, deleteStep and reorderSteps up to their first write.
StructureRead(e, c) ==
  /\ edit[e] = Idle
  /\ ~workflow[c.workflow].deleted
  /\ ~HasOpenRequests(c.workflow)
  /\ Acceptable(c)
  /\ edit' = [edit EXCEPT ![e] = c]
  /\ UNCHANGED definitionVars

\* updateWorkflow and transitionWorkflow up to their write: only a transition
\* to ACTIVE finds a deleted workflow.
StatusRead(e, c) ==
  /\ edit[e] = Idle
  /\ workflow[c.workflow].deleted => c.op = "transition" /\ c.to = "ACTIVE"
  /\ c.op = "transition" => c.to # "DRAFT"
  /\ c.to = "ACTIVE" => /\ workflow[c.workflow].steps # <<>>
                        /\ \A s \in StepsOf(c.workflow) : ValidStep(stepDef[s])
  /\ c.to = "ARCHIVED" => ~HasOpenRequests(c.workflow)
  /\ edit' = [edit EXCEPT ![e] = c]
  /\ UNCHANGED definitionVars

----------------------------------------------------------------------------

InProgress(e, op) == edit[e] # Idle /\ edit[e].op = op
Done(e) == edit' = [edit EXCEPT ![e] = Idle]
SetSteps(w, ss) == workflow' = [workflow EXCEPT ![w].steps = ss]

\* Without an order in the input the step goes to the end; makeStepOrderRoom
\* shifts the steps that are there now.
AddCommit(e) ==
  /\ InProgress(e, "add")
  /\ LET c == edit[e]
         at == IF c.at > Len(workflow[c.workflow].steps)
               THEN Len(workflow[c.workflow].steps) + 1 ELSE c.at
     IN /\ SetSteps(c.workflow, InsertAt(workflow[c.workflow].steps, at, c.step))
        /\ stepDef' = [stepDef EXCEPT ![c.step] = c.row]
  /\ Done(e)
  /\ UNCHANGED steps

\* An update writes its own columns to the step by id.  A step that has been
\* deleted in the meantime is not found, and only EditAbort is left: the same
\* holds for a move, a deletion and a reorder.
UpdateCommit(e) ==
  /\ InProgress(e, "update")
  /\ edit[e].step \in StepsOf(edit[e].workflow)
  /\ stepDef' = [stepDef EXCEPT ![edit[e].step] = Patched(@, edit[e].patch)]
  /\ Done(e)
  /\ UNCHANGED <<workflow, steps>>

MoveCommit(e) ==
  /\ InProgress(e, "move")
  /\ LET c == edit[e]
         others == RemoveFirst(workflow[c.workflow].steps, c.step)
         at == IF c.at > Len(others) THEN Len(others) + 1 ELSE c.at
     IN /\ c.step \in StepsOf(c.workflow)
        /\ SetSteps(c.workflow, InsertAt(others, at, c.step))
  /\ Done(e)
  /\ UNCHANGED <<stepDef, steps>>

\* The step instances made from a deleted step lose their reference to it
\* (onDelete: SetNull).
SetNull(s) ==
  steps' = [r \in Request |->
    [i \in DOMAIN steps[r] |->
       IF steps[r][i].def = s THEN [steps[r][i] EXCEPT !.def = NoStep] ELSE steps[r][i]]]

DeleteCommit(e) ==
  /\ InProgress(e, "delete")
  /\ LET c == edit[e]
     IN /\ c.step \in StepsOf(c.workflow)
        /\ SetSteps(c.workflow, RemoveFirst(workflow[c.workflow].steps, c.step))
        /\ SetNull(c.step)
  /\ Done(e)
  /\ UNCHANGED stepDef

\* A step added in the meantime keeps its order: behind the others it stays
\* there, between them the unique index fails the reorder.
ReorderCommit(e) ==
  /\ InProgress(e, "reorder")
  /\ LET c == edit[e]
         now == workflow[c.workflow].steps
     IN /\ ToSet(c.order) \subseteq ToSet(now)
        /\ ToSet(SubSeq(now, 1, Len(c.order))) = ToSet(c.order)
        /\ SetSteps(c.workflow, c.order \o SubSeq(now, Len(c.order) + 1, Len(now)))
  /\ Done(e)
  /\ UNCHANGED <<stepDef, steps>>

\* deletedAt: archiving sets it, a transition to ACTIVE clears it, and
\* updateWorkflow never clears it.
DeletedAfter(c, before) ==
  \/ c.to = "ARCHIVED"
  \/ before /\ ~(c.to = "ACTIVE" /\ c.op = "transition")

StatusCommit(e) ==
  /\ edit[e] # Idle /\ edit[e].op \in {"updateWorkflow", "transition"}
  /\ LET c == edit[e]
     IN workflow' = [workflow EXCEPT
          ![c.workflow].status = c.to,
          ![c.workflow].deleted =
             DeletedAfter(c, @)]
  /\ Done(e)
  /\ UNCHANGED <<stepDef, steps>>

EditAbort(e) ==
  /\ edit[e] # Idle
  /\ Done(e)
  /\ UNCHANGED <<definitionVars, steps>>

----------------------------------------------------------------------------

WorkflowsInit == Init /\ edit = [e \in Editor |-> Idle]

\* Places and orders are those of a workflow with all the steps there are.
Places == 1 .. Cardinality(StepId)

EditBegin(e) ==
  \E w \in WorkflowId :
    \/ \E s \in StepId, at \in Places :
         \/ \E row \in StepInput :
              StructureRead(e, [op |-> "add", workflow |-> w, step |-> s,
                                row |-> row, at |-> at])
         \/ StructureRead(e, [op |-> "move", workflow |-> w, step |-> s, at |-> at])
    \/ \E s \in StepId :
         \/ \E patch \in StepPatch :
              StructureRead(e, [op |-> "update", workflow |-> w, step |-> s, patch |-> patch])
         \/ StructureRead(e, [op |-> "delete", workflow |-> w, step |-> s])
    \/ \E order \in SetToSeqs(StepsOf(w)) :
         StructureRead(e, [op |-> "reorder", workflow |-> w, order |-> order])
    \/ \E op \in {"updateWorkflow", "transition"}, to \in WorkflowStatus :
         StatusRead(e, [op |-> op, workflow |-> w, to |-> to])

EditCommit(e) ==
  \/ AddCommit(e) \/ UpdateCommit(e) \/ MoveCommit(e)
  \/ DeleteCommit(e) \/ ReorderCommit(e) \/ StatusCommit(e)

EditNext ==
  \/ \E e \in Editor :
       \/ EditBegin(e) /\ UNCHANGED steps
       \/ EditCommit(e)
       \/ EditAbort(e)
  \/ /\ \E w \in WorkflowId, st \in WorkflowStatus :
          \E rows \in {<<>>} \cup {<<row>> : row \in StepInput} : CreateWorkflow(w, st, rows)
     /\ UNCHANGED steps

WorkflowsNext ==
  \/ Next /\ UNCHANGED edit
  \/ /\ EditNext
     /\ UNCHANGED <<delegationVars, status, workflowOf, submittedBy,
                    workforceAction, history, events, call>>

WorkflowsSpec == WorkflowsInit /\ [][WorkflowsNext]_editVars

\* Handlers that are between their read and their commit.
Open == Cardinality({p \in Proc : call[p] # Idle}) + Cardinality({e \in Editor : edit[e] # Idle})

----------------------------------------------------------------------------
(* What holds however submissions and edits interleave *)

\* The foreign key of a step instance: it names a step that exists, or none;
\* no submission commits an instance of a step deleted since it was planned.
StepReferencesHold ==
  \A r \in Request : \A i \in DOMAIN steps[r] : steps[r][i].def \in LiveSteps \cup {NoStep}

----------------------------------------------------------------------------
(* What holds as long as no two handlers have overlapped *)

\* The steps of the workflow of a pending request, and their definitions, are
\* the same after this step as before it.
KeepsPendingStructure ==
  \A r \in Request : status[r] = "PENDING" =>
    LET w == workflowOf[r]
    IN /\ workflow'[w].steps = workflow[w].steps
       /\ \A s \in StepsOf(w) : stepDef'[s] = stepDef[s]
=============================================================================
