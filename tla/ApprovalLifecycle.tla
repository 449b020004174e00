------------------------- MODULE ApprovalLifecycle -------------------------
(***************************************************************************)
(* What the approval engine promises to those who only look at a request   *)
(* and at the workforce action linked to it: a request is created, may be  *)
(* given a workforce action, and is decided; the decision settles the      *)
(* action.  When handlers of one request overlap, a handler that read the  *)
(* request while it was pending may still write another outcome; then only *)
(* the request changes, the action keeps the first outcome.                *)
(***************************************************************************)
CONSTANTS Request,
          Overlap  \* BOOLEAN: handlers of one request may overlap

VARIABLES status,          \* ApprovalRequest.status, "NONE" before it exists
          workforceAction  \* WorkforceAction.status, "NONE" when not linked

Outcome == {"APPROVED", "REJECTED", "CANCELLED", "WITHDRAWN"}

\* The workforce action has no status for a withdrawal.
ActionOutcome(st) == IF st = "WITHDRAWN" THEN "CANCELLED" ELSE st

LifecycleInit ==
  /\ status = [r \in Request |-> "NONE"]
  /\ workforceAction = [r \in Request |-> "NONE"]

\* A request with nothing for a person to do is approved as it is created.
Create(r) ==
  /\ status[r] = "NONE"
  /\ \E st \in {"PENDING", "APPROVED"} : status' = [status EXCEPT ![r] = st]
  /\ UNCHANGED workforceAction

Link(r) ==
  /\ status[r] = "PENDING" /\ workforceAction[r] = "NONE"
  /\ workforceAction' = [workforceAction EXCEPT ![r] = "PENDING_APPROVAL"]
  /\ UNCHANGED status

Decide(r, st) ==
  /\ status[r] = "PENDING"
  /\ status' = [status EXCEPT ![r] = st]
  /\ workforceAction' = [workforceAction EXCEPT
       ![r] = IF @ = "NONE" THEN @ ELSE ActionOutcome(st)]

Overturn(r, st) ==
  /\ Overlap
  /\ status[r] \in Outcome
  /\ status' = [status EXCEPT ![r] = st]
  /\ UNCHANGED workforceAction

LifecycleNext ==
  \E r \in Request :
    \/ Create(r) \/ Link(r)
    \/ \E st \in Outcome : Decide(r, st) \/ Overturn(r, st)

LifecycleSpec ==
  LifecycleInit /\ [][LifecycleNext]_<<status, workforceAction>>
=============================================================================
