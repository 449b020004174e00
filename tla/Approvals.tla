----------------------------- MODULE Approvals -----------------------------
(***************************************************************************)
(* The approval engine: workflows/approvals.service.ts.  A request is      *)
(* submitted against a workflow, which gives it an ordered list of step    *)
(* instances; approvers decide the current step; notification, system and  *)
(* optional steps complete by themselves; the end of a request settles     *)
(* the workforce action linked to it.                                      *)
(*                                                                         *)
(* Every handler is one database transaction, but PostgreSQL runs it at    *)
(* READ COMMITTED and no statement locks what the transaction has read, so *)
(* a handler is two steps: the read that its guards look at, kept in       *)
(* call[p], and the writes, which go to rows by id, re-read the request    *)
(* where the code does, and commit.  Any number of other handlers may      *)
(* commit in between.  The writes of two handlers on one request wait for  *)
(* each other's row locks, so the write phase is one atomic step.  A       *)
(* handler that fails or whose process dies leaves nothing (Abort).        *)
(***************************************************************************)
EXTENDS Delegations, Sequences

CONSTANTS Request,        \* ids of approval requests
          Role, RolesOf,  \* roles, and [User -> SUBSET Role]
          Processor,      \* users with the permission approvals.process
          WorkflowId, StepId,
          NoWorkflow, NoStep,  \* null references
          ByExpression,   \* approver of a step found when the request is made
          Workflows0,     \* [WorkflowId -> WorkflowRow] at the start
          StepDef0,       \* [StepId -> StepDefRow] at the start
          Proc,           \* request handlers that run concurrently
          Idle            \* a handler slot that runs nothing

StepType == {"APPROVAL", "REVIEW", "NOTIFICATION", "SYSTEM_ACTION"}
AUTOMATED_STEP_TYPES == {"NOTIFICATION", "SYSTEM_ACTION"}
TERMINAL_APPROVAL_STATUSES == {"APPROVED", "REJECTED", "CANCELLED", "WITHDRAWN"}
Status == {"PENDING"} \cup TERMINAL_APPROVAL_STATUSES
ActionStatus == {"NONE", "PENDING_APPROVAL", "APPROVED", "REJECTED", "CANCELLED"}

StepDefRow == [type : StepType, isRequired : BOOLEAN, allowDelegation : BOOLEAN,
               approver : User \cup Role \cup {ByExpression, NoOne}]
WorkflowStatus == {"DRAFT", "ACTIVE", "INACTIVE", "ARCHIVED"}
WorkflowRow == [status : WorkflowStatus, deleted : BOOLEAN, steps : Seq(StepId)]
Instance == [def : StepId \cup {NoStep}, user : User \cup {NoOne},
             role : Role \cup {NoOne}, status : Status]

SubmitCall == [op : {"submit"}, actor : User, req : Request,
               workflow : WorkflowId, plan : Seq(Instance)]
StepOp == {"approve", "reject", "return", "delegate"}
StepCall == [op : StepOp, actor : User, req : Request,
             step : Nat \ {0}, to : User \cup {NoOne}]
EndOp == {"cancel", "withdraw"}
EndCall == [op : EndOp, actor : User, req : Request]

ASSUME ApprovalsAssumption ==
  /\ Idle \notin SubmitCall \cup StepCall \cup EndCall
  /\ NoOne \notin Role /\ User \cap Role = {}
  /\ ByExpression \notin User \cup Role \cup {NoOne}
  /\ RolesOf \in [User -> SUBSET Role]
  /\ Processor \subseteq User
  /\ NoStep \notin StepId /\ NoWorkflow \notin WorkflowId
  /\ Workflows0 \in [WorkflowId -> WorkflowRow]
  /\ StepDef0 \in [StepId -> StepDefRow]

VARIABLES
  workflow,        \* Workflow rows, with their steps in stepOrder
  stepDef,         \* WorkflowStep rows
  status,          \* ApprovalRequest.status, "NONE" before it is created
  workflowOf,      \* ApprovalRequest.workflowId
  submittedBy,     \* ApprovalRequest.submittedById
  steps,           \* ApprovalStepInstance rows of a request, in stepOrder
  workforceAction, \* status of the WorkforceAction linked to the request
  history,         \* ApprovalAction rows
  events,          \* types of the outbox events a request emitted
  call             \* the transaction each handler has in progress

definitionVars == <<workflow, stepDef>>
requestVars == <<status, workflowOf, submittedBy, steps, workforceAction,
                 history, events>>
vars == <<delegation, delegationCall, workflow, stepDef, status, workflowOf,
          submittedBy, steps, workforceAction, history, events, call>>

HistoryAction == {"SUBMITTED", "APPROVED", "REJECTED", "RETURNED", "COMMENTED",
                  "DELEGATED", "CANCELLED"}
HistoryRow == [req : Request, step : Nat, actor : User \cup {NoOne},
               action : HistoryAction]
Event == {"auto_approved", "submitted", "approved", "rejected", "returned",
          "step_approved", "delegated", "commented", "cancelled", "withdrawn"}

ApprovalTypeOK ==
  /\ workflow \in [WorkflowId -> WorkflowRow]
  /\ stepDef \in [StepId -> StepDefRow]
  /\ status \in [Request -> Status \cup {"NONE"}]
  /\ workflowOf \in [Request -> WorkflowId \cup {NoWorkflow}]
  /\ submittedBy \in [Request -> User \cup {NoOne}]
  /\ steps \in [Request -> Seq(Instance)]
  /\ workforceAction \in [Request -> ActionStatus]
  /\ history \subseteq HistoryRow
  /\ events \in [Request -> SUBSET Event]
  /\ call \in [Proc -> SubmitCall \cup StepCall \cup EndCall \cup {Idle}]

TypeOK == DelegationTypeOK /\ ApprovalTypeOK

----------------------------------------------------------------------------
(* Reading a request *)

Pending(ss) == {i \in DOMAIN ss : ss[i].status = "PENDING"}

\* Mutant: any pending step may be decided.
IsPending(ss, i) == i \in Pending(ss)

\* currentPendingStep: the pending step that comes first.
IsCurrent(ss, i) == i \in Pending(ss) /\ \A j \in Pending(ss) : i <= j

\* A step at which automation stops: required, with a type, and not an
\* automated type.  A step whose definition is gone has no type.
Stops(s) ==
  /\ s.def # NoStep
  /\ stepDef[s.def].isRequired
  /\ stepDef[s.def].type \notin AUTOMATED_STEP_TYPES

\* Mutant: automation stops at approvals only, not at reviews.
AdvancedPastReviews(ss) ==
  [i \in DOMAIN ss |->
     IF /\ ss[i].status = "PENDING"
        /\ \A j \in 1 .. i : ss[j].status = "PENDING" =>
             ~(Stops(ss[j]) /\ stepDef[ss[j].def].type = "APPROVAL")
     THEN [ss[i] EXCEPT !.status = "APPROVED"] ELSE ss[i]]

\* advanceAutomatedSteps: pending steps are approved in order up to the first
\* one at which automation stops.
Advanced(ss) ==
  [i \in DOMAIN ss |->
     IF /\ ss[i].status = "PENDING"
        /\ \A j \in 1 .. i : ss[j].status = "PENDING" => ~Stops(ss[j])
     THEN [ss[i] EXCEPT !.status = "APPROVED"] ELSE ss[i]]

AllowsDelegation(s) == s.def # NoStep => stepDef[s.def].allowDelegation

\* assertActorCanActOnStep
CanAct(u, s) ==
  \/ s.user = u
  \/ s.role \in RolesOf[u]
  \/ /\ s.user # NoOne
     /\ AllowsDelegation(s)
     /\ ActsFor(u, s.user)

\* The approvers resolveStepAssignee may find: an expression names the
\* manager at that moment, a role, or nobody.
Resolved(d) ==
  IF d.approver = ByExpression THEN User \cup Role \cup {NoOne} ELSE {d.approver}

\* Mutant: nobody checks that an approver was found.
PlansWithoutApprover(w) ==
  LET ids == workflow[w].steps
      Assigned == {a \in [1 .. Len(ids) -> User \cup Role \cup {NoOne}] :
                     \A i \in 1 .. Len(ids) : a[i] \in Resolved(stepDef[ids[i]])}
  IN {[i \in 1 .. Len(ids) |->
         [def |-> ids[i], status |-> "PENDING",
          user |-> IF a[i] \in User THEN a[i] ELSE NoOne,
          role |-> IF a[i] \in Role THEN a[i] ELSE NoOne]] : a \in Assigned}

\* stepInstancesForWorkflow: a required approval or review step must have
\* an approver.
Plans(w) ==
  LET ids == workflow[w].steps
      Assigned == {a \in [1 .. Len(ids) -> User \cup Role \cup {NoOne}] :
                     \A i \in 1 .. Len(ids) :
                       /\ a[i] \in Resolved(stepDef[ids[i]])
                       /\ Stops([def |-> ids[i]]) => a[i] # NoOne}
  IN {[i \in 1 .. Len(ids) |->
         [def |-> ids[i], status |-> "PENDING",
          user |-> IF a[i] \in User THEN a[i] ELSE NoOne,
          role |-> IF a[i] \in Role THEN a[i] ELSE NoOne]] : a \in Assigned}

LiveSteps == UNION {{workflow[w].steps[i] : i \in DOMAIN workflow[w].steps} :
                      w \in WorkflowId}

----------------------------------------------------------------------------
(* Writing a request *)

Row(r, i, u, a) == [req |-> r, step |-> i, actor |-> u, action |-> a]

\* The rows advanceAutomatedSteps adds: no actor.
AutomatedRows(r, ss) ==
  {Row(r, i, NoOne, "APPROVED") : i \in {j \in DOMAIN ss : ss[j] # Advanced(ss)[j]}}

\* Mutant: the status of the request is copied.
SettledAsIs(st) == st

\* The workforce action status that goes with the end of a request.
SettledAs(st) == IF st = "WITHDRAWN" THEN "CANCELLED" ELSE st

\* Mutant: the workforce action is forgotten.
SetStatusOnly(r, st) ==
  /\ status' = [status EXCEPT ![r] = st]
  /\ UNCHANGED workforceAction

\* Mutant: the workforce action is written whatever its status.
SettleAlways(r, st) ==
  /\ status' = [status EXCEPT ![r] = st]
  /\ workforceAction' = [workforceAction EXCEPT
       ![r] = IF @ = "NONE" THEN @ ELSE SettledAs(st)]

\* setRequestTerminal: the request by id, whatever its status; the workforce
\* action only if it is still pending.
SetRequestTerminal(r, st) ==
  /\ status' = [status EXCEPT ![r] = st]
  /\ workforceAction' = [workforceAction EXCEPT
       ![r] = IF @ = "PENDING_APPROVAL" THEN SettledAs(st) ELSE @]

\* Mutant: completion is decided on the steps as they were before.
AdvanceStale(r, ss, otherwise) ==
  /\ steps' = [steps EXCEPT ![r] = Advanced(ss)]
  /\ IF Pending(ss) = {}
     THEN SetRequestTerminal(r, "APPROVED")
     ELSE status' = [status EXCEPT ![r] = otherwise] /\ UNCHANGED workforceAction

\* advanceAutomatedSteps on the request whose steps are ss.
AdvanceAutomatedSteps(r, ss, otherwise) ==
  /\ steps' = [steps EXCEPT ![r] = Advanced(ss)]
  /\ IF Pending(Advanced(ss)) = {}
     THEN SetRequestTerminal(r, "APPROVED")
     ELSE status' = [status EXCEPT ![r] = otherwise] /\ UNCHANGED workforceAction

\* outboxEventForAction, on the status the request has after the writes
EventFor(op, st) ==
  CASE st = "APPROVED" -> "approved"
    [] st = "REJECTED" -> "rejected"
    [] OTHER -> IF op = "return" THEN "returned" ELSE "step_approved"

Emit(r, e) == events' = [events EXCEPT ![r] = @ \cup {e}]
Finish(p) == call' = [call EXCEPT ![p] = Idle]

----------------------------------------------------------------------------
(* submitRequest *)

\* No active workflow matches and the caller allows automatic approval.
\* setRequestTerminal is not called.
SubmitWithoutWorkflow(u, r) ==
  /\ status[r] = "NONE"
  /\ \A p \in Proc : call[p] # Idle => call[p].req # r
  /\ status' = [status EXCEPT ![r] = "APPROVED"]
  /\ submittedBy' = [submittedBy EXCEPT ![r] = u]
  /\ history' = history \cup {Row(r, 0, u, "SUBMITTED"), Row(r, 0, u, "APPROVED")}
  /\ Emit(r, "auto_approved")
  /\ UNCHANGED <<workflowOf, steps, workforceAction, call>>

\* resolveWorkflow matches active workflows only.
Resolvable(w) == workflow[w].status = "ACTIVE" /\ ~workflow[w].deleted

\* The workflow and its steps are read, and the approvers resolved.
SubmitRead(p, u, r, w) ==
  /\ call[p] = Idle
  /\ status[r] = "NONE"
  /\ \A q \in Proc : call[q] # Idle => call[q].req # r
  /\ Resolvable(w)
  /\ workflow[w].steps # <<>>
  /\ \E plan \in Plans(w) :
       call' = [call EXCEPT ![p] =
                  [op |-> "submit", actor |-> u, req |-> r,
                   workflow |-> w, plan |-> plan]]
  /\ UNCHANGED requestVars

\* A step definition deleted in the meantime fails the foreign key, and only
\* Abort is left.
SubmitCommit(p) ==
  /\ call[p] # Idle /\ call[p].op = "submit"
  /\ LET c == call[p]
     IN /\ \A i \in DOMAIN c.plan : c.plan[i].def \in LiveSteps
        /\ AdvanceAutomatedSteps(c.req, c.plan, "PENDING")
        /\ workflowOf' = [workflowOf EXCEPT ![c.req] = c.workflow]
        /\ submittedBy' = [submittedBy EXCEPT ![c.req] = c.actor]
        /\ history' = history \cup {Row(c.req, 0, c.actor, "SUBMITTED")}
                              \cup AutomatedRows(c.req, c.plan)
        /\ Emit(c.req, "submitted")
  /\ Finish(p)

----------------------------------------------------------------------------
(* approveRequest, rejectRequest, returnRequest and delegateCurrentStep *)

\* The guards of processCurrentStep and delegateCurrentStep.
StepRead(p, u, r, op, to) ==
  /\ call[p] = Idle
  /\ status[r] = "PENDING"
  /\ \E i \in Pending(steps[r]) :
       /\ IsCurrent(steps[r], i)
       /\ CanAct(u, steps[r][i])
       /\ op = "delegate" => AllowsDelegation(steps[r][i])
       /\ call' = [call EXCEPT ![p] =
                     [op |-> op, actor |-> u, req |-> r, step |-> i, to |-> to]]
  /\ UNCHANGED requestVars

ApproveCommit(p) ==
  /\ call[p] # Idle /\ call[p].op = "approve"
  /\ LET c == call[p]
         ss == [steps[c.req] EXCEPT ![c.step].status = "APPROVED"]
     IN /\ AdvanceAutomatedSteps(c.req, ss, status[c.req])
        /\ history' = history \cup {Row(c.req, c.step, c.actor, "APPROVED")}
                              \cup AutomatedRows(c.req, ss)
        /\ Emit(c.req, EventFor("approve", status'[c.req]))
  /\ Finish(p)
  /\ UNCHANGED <<workflowOf, submittedBy>>

RejectCommit(p) ==
  /\ call[p] # Idle /\ call[p].op = "reject"
  /\ LET c == call[p]
     IN /\ steps' = [steps EXCEPT ![c.req][c.step].status = "REJECTED"]
        /\ SetRequestTerminal(c.req, "REJECTED")
        /\ history' = history \cup {Row(c.req, c.step, c.actor, "REJECTED")}
        /\ Emit(c.req, EventFor("reject", "REJECTED"))
  /\ Finish(p)
  /\ UNCHANGED <<workflowOf, submittedBy>>

\* A returned step stays pending: only its metadata is written.
ReturnCommit(p) ==
  /\ call[p] # Idle /\ call[p].op = "return"
  /\ LET c == call[p]
     IN /\ history' = history \cup {Row(c.req, c.step, c.actor, "RETURNED")}
        /\ Emit(c.req, EventFor("return", status[c.req]))
  /\ Finish(p)
  /\ UNCHANGED <<status, workflowOf, submittedBy, steps, workforceAction>>

DelegateCommit(p) ==
  /\ call[p] # Idle /\ call[p].op = "delegate"
  /\ LET c == call[p]
     IN /\ steps' = [steps EXCEPT ![c.req][c.step] = [@ EXCEPT !.user = c.to,
                                                              !.role = NoOne]]
        /\ history' = history \cup {Row(c.req, c.step, c.actor, "DELEGATED")}
        /\ Emit(c.req, "delegated")
  /\ Finish(p)
  /\ UNCHANGED <<status, workflowOf, submittedBy, workforceAction>>

----------------------------------------------------------------------------
(* commentOnRequest, cancelRequest and withdrawRequest *)

\* A comment has no guard on the status.
Comment(u, r) ==
  /\ status[r] # "NONE"
  /\ history' = history \cup {Row(r, 0, u, "COMMENTED")}
  /\ Emit(r, "commented")
  /\ UNCHANGED <<status, workflowOf, submittedBy, steps, workforceAction, call>>

EndRead(p, u, r, op) ==
  /\ call[p] = Idle
  /\ status[r] = "PENDING"
  /\ op = "withdraw" => (submittedBy[r] = u \/ u \in Processor)
  /\ call' = [call EXCEPT ![p] = [op |-> op, actor |-> u, req |-> r]]
  /\ UNCHANGED requestVars

\* terminateRequest: the steps still pending now, then the request.
EndCommit(p) ==
  /\ call[p] # Idle /\ call[p].op \in EndOp
  /\ LET c == call[p]
         st == IF c.op = "withdraw" THEN "WITHDRAWN" ELSE "CANCELLED"
     IN /\ steps' = [steps EXCEPT ![c.req] =
             [i \in DOMAIN @ |-> IF @[i].status = "PENDING"
                                 THEN [@[i] EXCEPT !.status = st] ELSE @[i]]]
        /\ SetRequestTerminal(c.req, st)
        /\ history' = history \cup {Row(c.req, 0, c.actor, "CANCELLED")}
        /\ Emit(c.req, IF st = "WITHDRAWN" THEN "withdrawn" ELSE "cancelled")
  /\ Finish(p)
  /\ UNCHANGED <<workflowOf, submittedBy>>

Abort(p) ==
  /\ call[p] # Idle
  /\ Finish(p)
  /\ UNCHANGED requestVars

\* A workforce action is linked to an open request in PENDING_APPROVAL; in
\* the repository scripts/seed-demo-data.ts is what does so.
LinkWorkforceAction(r) ==
  /\ status[r] = "PENDING" /\ workforceAction[r] = "NONE"
  /\ workforceAction' = [workforceAction EXCEPT ![r] = "PENDING_APPROVAL"]
  /\ UNCHANGED <<status, workflowOf, submittedBy, steps, history, events, call>>

----------------------------------------------------------------------------

ApprovalInit ==
  /\ workflow = Workflows0
  /\ stepDef = StepDef0
  /\ status = [r \in Request |-> "NONE"]
  /\ workflowOf = [r \in Request |-> NoWorkflow]
  /\ submittedBy = [r \in Request |-> NoOne]
  /\ steps = [r \in Request |-> <<>>]
  /\ workforceAction = [r \in Request |-> "NONE"]
  /\ history = {}
  /\ events = [r \in Request |-> {}]
  /\ call = [p \in Proc |-> Idle]

Init == DelegationInit /\ ApprovalInit

Begin(p) ==
  \E u \in User, r \in Request :
    \/ \E w \in WorkflowId : SubmitRead(p, u, r, w)
    \/ \E op \in StepOp \ {"delegate"} : StepRead(p, u, r, op, NoOne)
    \/ \E to \in User : StepRead(p, u, r, "delegate", to)
    \/ \E op \in EndOp : EndRead(p, u, r, op)

Commit(p) ==
  \/ SubmitCommit(p) \/ ApproveCommit(p) \/ RejectCommit(p)
  \/ ReturnCommit(p) \/ DelegateCommit(p) \/ EndCommit(p)

RequestNext ==
  \/ \E p \in Proc : Begin(p) \/ Commit(p) \/ Abort(p)
  \/ \E u \in User, r \in Request : SubmitWithoutWorkflow(u, r) \/ Comment(u, r)
  \/ \E r \in Request : LinkWorkforceAction(r)

Next ==
  \/ RequestNext /\ UNCHANGED delegationVars /\ UNCHANGED definitionVars
  \/ DelegationNext /\ UNCHANGED <<requestVars, definitionVars, call>>

Spec == Init /\ [][Next]_vars

----------------------------------------------------------------------------
(* What holds however the handlers interleave *)

\* setRequestTerminal settles the linked workforce action in the transaction
\* that ends the request: no action waits on a request that has ended.
EndedRequestHoldsNoAction ==
  \A r \in Request : status[r] \in TERMINAL_APPROVAL_STATUSES =>
    workforceAction[r] # "PENDING_APPROVAL"

\* The conditional updateMany in setRequestTerminal decides a workforce action
\* once: handlers that raced on the request cannot overturn it.
ActionSettledOnce ==
  [][\A r \in Request :
       workforceAction[r] \in {"APPROVED", "REJECTED", "CANCELLED"} =>
         workforceAction'[r] = workforceAction[r]]_vars

\* The action history holds a person's approval of step i.
SignedOff(r, i) == \E u \in User : Row(r, i, u, "APPROVED") \in history

\* A workforce action is approved only when, for every step that needs a
\* person, the action history holds the approval of a user: approvals that
\* raced with a rejection or a withdrawal do not carry it over the line.
ApprovedActionWasSignedOff ==
  \A r \in Request : workforceAction[r] = "APPROVED" =>
    \A i \in DOMAIN steps[r] : Stops(steps[r][i]) => SignedOff(r, i)

\* A pending request rests on a step that needs a person and that somebody is
\* assigned to: advanceAutomatedSteps leaves no request that nobody can move.
PendingRequestHasApprover ==
  \A r \in Request : status[r] = "PENDING" =>
    \E i \in Pending(steps[r]) :
      /\ IsCurrent(steps[r], i) /\ Stops(steps[r][i])
      /\ steps[r][i].user # NoOne \/ steps[r][i].role # NoOne

\* Steps are decided in their order, also by handlers that act on a stale
\* current step: behind a decided step no step is still pending.
DecidedInOrder ==
  \A r \in Request : \A i, j \in DOMAIN steps[r] :
    (i < j /\ steps[r][i].status = "PENDING") => steps[r][j].status = "PENDING"

(* The inductive invariant behind the first and the third of these *)

RequestInv(r) ==
  /\ status[r] = "NONE" => steps[r] = <<>> /\ workforceAction[r] = "NONE"
  /\ status[r] = "PENDING" =>
       /\ workforceAction[r] \in {"NONE", "PENDING_APPROVAL"}
       /\ \A i \in DOMAIN steps[r] : steps[r][i].status \in {"PENDING", "APPROVED"}
  /\ status[r] \in TERMINAL_APPROVAL_STATUSES => workforceAction[r] # "PENDING_APPROVAL"
  /\ \A i \in DOMAIN steps[r] :
       (steps[r][i].status = "APPROVED" /\ Stops(steps[r][i])) => SignedOff(r, i)
  /\ workforceAction[r] = "APPROVED" =>
       \A i \in DOMAIN steps[r] : Stops(steps[r][i]) => SignedOff(r, i)

\* A submission in flight has the id of its request to itself and only pending
\* steps; every other call is about a request that has been created.
CallInv(p) ==
  call[p] # Idle =>
    IF call[p].op = "submit"
    THEN /\ status[call[p].req] = "NONE"
         /\ \A i \in DOMAIN call[p].plan : call[p].plan[i].status = "PENDING"
         /\ \A q \in Proc \ {p} : call[q] # Idle => call[q].req # call[p].req
    ELSE status[call[p].req] # "NONE"

\* The inductive invariant: what every request and every call in flight
\* satisfies, whichever handlers are between their read and their commit.
ApprovalInv == (\A r \in Request : RequestInv(r)) /\ (\A p \in Proc : CallInv(p))

----------------------------------------------------------------------------
(* What holds when handlers of a request do not overlap (one Proc) *)

\* assertRequestPending (approvals.service.ts:1035) refuses every decision on a
\* request that is not pending: an ended request and its steps never change.
DecisionIsFinal ==
  [][\A r \in Request : status[r] \in TERMINAL_APPROVAL_STATUSES =>
       status'[r] = status[r] /\ steps'[r] = steps[r]]_vars

\* The status of a request is what its steps say: approved when all are,
\* rejected at exactly one step that all earlier ones led to, cancelled or
\* withdrawn with every step that was still open.
StatusExplainedBySteps ==
  \A r \in Request :
    LET ss == steps[r]
        Are(st) == {i \in DOMAIN ss : ss[i].status = st}
    IN CASE status[r] = "APPROVED" -> Are("APPROVED") = DOMAIN ss
         [] status[r] = "REJECTED" ->
              \E i \in Are("REJECTED") :
                /\ Are("APPROVED") = 1 .. (i - 1)
                /\ Are("PENDING") = (i + 1) .. Len(ss)
         [] status[r] \in {"CANCELLED", "WITHDRAWN"} ->
              /\ Are(status[r]) # {}
              /\ Are("APPROVED") \cup Are(status[r]) = DOMAIN ss
         [] status[r] = "PENDING" ->
              Are("PENDING") # {} /\ Are("APPROVED") \cup Are("PENDING") = DOMAIN ss
         [] OTHER -> ss = <<>>

----------------------------------------------------------------------------
(* The abstract specification *)

Racing == INSTANCE ApprovalLifecycle WITH Overlap <- TRUE
Serial == INSTANCE ApprovalLifecycle WITH Overlap <- FALSE

\* Whatever the interleaving, a commit of approvals.service.ts creates, links,
\* decides, or overturns the request without touching the workforce action.
ImplementsRacingLifecycle == Racing!LifecycleSpec

\* README.md:34, "workforce-action status sync": handlers that do not overlap
\* never overturn a decision, and every decision on a request is the outcome of
\* its workforce action.
ImplementsSerialLifecycle == Serial!LifecycleSpec
=============================================================================
