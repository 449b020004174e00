---------------------------- MODULE MCApprovals ----------------------------
(* Workflows and users for the TLC runs of Approvals. *)
EXTENDS Approvals, TLC

CONSTANTS u1, u2, hr, w1, w2, w3, s1, s2, s3, s4, s5

MCRolesOf == [u \in User |-> IF u = u2 THEN {hr} ELSE {}]

StepRow(type, isRequired, allowDelegation, approver) ==
  [type |-> type, isRequired |-> isRequired,
   allowDelegation |-> allowDelegation, approver |-> approver]

\* A person, a notification, and a review by a role that must not be delegated;
\* a workflow of one step whose approver is found when the request is made; and
\* one of an optional step, with nothing that a person must do.
MCStepDef0 ==
     s1 :> StepRow("APPROVAL", TRUE, TRUE, u1)
  @@ s2 :> StepRow("NOTIFICATION", TRUE, TRUE, NoOne)
  @@ s3 :> StepRow("REVIEW", TRUE, FALSE, hr)
  @@ s4 :> StepRow("APPROVAL", TRUE, TRUE, ByExpression)
  @@ s5 :> StepRow("REVIEW", FALSE, TRUE, u1)

MCWorkflows0 ==
     w1 :> [status |-> "ACTIVE", deleted |-> FALSE, steps |-> <<s1, s2, s3>>]
  @@ w2 :> [status |-> "ACTIVE", deleted |-> FALSE, steps |-> <<s4>>]
  @@ w3 :> [status |-> "ACTIVE", deleted |-> FALSE, steps |-> <<s5>>]

ProcSymmetry == Permutations(Proc)
=============================================================================
