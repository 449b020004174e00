---------------------------- MODULE MCWorkflows ----------------------------
(* Workflow definitions from an empty table on.  A history variable        *)
(* remembers whether two handlers have ever been open at once.             *)
EXTENDS WorkflowDefinitions, TLC

CONSTANT u1

VARIABLE overlapped

MCRolesOf == [u \in User |-> {}]

StepRow(type, isRequired, approver) ==
  [type |-> type, isRequired |-> isRequired, allowDelegation |-> TRUE,
   approver |-> approver]

MCStepInput == {StepRow("APPROVAL", TRUE, u1), StepRow("NOTIFICATION", FALSE, NoOne)}
MCStepPatch == {[type |-> "REVIEW"]}

\* No workflow yet, and rows without meaning for the steps to come.
MCWorkflows0 == [w \in WorkflowId |-> NoRow]
MCStepDef0 == [s \in StepId |-> StepRow("NOTIFICATION", FALSE, NoOne)]

\* The history and the events are written and never read: states that differ
\* in nothing else are one.
WithoutHistory ==
  <<workflow, stepDef, status, workflowOf, submittedBy, steps, workforceAction,
    call, edit, overlapped>>

StepSymmetry == Permutations(StepId)

MCInit == WorkflowsInit /\ overlapped = FALSE
MCNext == WorkflowsNext /\ overlapped' = (overlapped \/ Open' > 1)
MCWorkflowsSpec == MCInit /\ [][MCNext]_<<editVars, overlapped>>

\* workflows.service.ts:627, "Cannot change workflow structure while approval
\* requests are pending.": with handlers that take turns it never changes.
NoStructureChangeWhilePending ==
  [][~overlapped' => KeepsPendingStructure]_<<editVars, overlapped>>
=============================================================================
