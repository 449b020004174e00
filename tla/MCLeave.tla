------------------------------ MODULE MCLeave ------------------------------
(***************************************************************************)
(* Leave requests in small instances.  Handlers overlap on a paid request   *)
(* and one that its policy approves, or they take turns on three requests.  *)
(***************************************************************************)
EXTENDS LeaveRequests, TLC

CONSTANTS l1, l2, l3

VARIABLE inTurns

\* l1 and l3, which is unpaid, go to the approval engine and overlap; the
\* policy of l2 approves it at once.
MCMinutes == [r \in LeaveId |-> CASE r = l1 -> 2 [] r = l2 -> 1 [] OTHER -> 0]
MCRequiresApproval == [r \in LeaveId |-> r # l2]
MCClashes == IF {l1, l3} \subseteq LeaveId THEN {{l1, l3}} ELSE {}

\* A credit and a debit adjustment.
MCAdjustments == {1, -1}

ProcSymmetry == Permutations(Proc)

\* Handlers that take turns; the approval engine, too, answers only those that
\* find the approval request pending.
TakeTurns ==
  /\ \A p, q \in Proc : call'[p] # Idle /\ call'[q] # Idle => p = q
  /\ \A p \in Proc : (At(p, "decide") \/ At(p, "withdraw")) /\ approval[call[p].req] \in Outcome
       => call'[p] \in {call[p], Idle}

CreditsOnly == \A p \in Proc : At(p, "ledger")' => call'[p].minutes > 0

MCInit == Init /\ inTurns \in BOOLEAN
MCNext ==
  /\ Next /\ UNCHANGED inTurns
  /\ IF inTurns THEN TakeTurns /\ CreditsOnly ELSE \A r \in LeaveId \ {l1, l2} : leave'[r] = "NONE"

MCLeaveSpec == MCInit /\ [][MCNext]_<<vars, inTurns>>

\* Handlers that take turns: leave is decided only as its approval request was,
\* whichever chain of createRequest or applyLeaveOutcome broke off.
LeaveFollowsApprovalInTurns == inTurns => LeaveFollowsApproval

\* leave.service.ts:1387, "Leave request is already ...": with handlers that
\* take turns a decision stands.
LeaveDecisionIsFinalInTurns ==
  [][inTurns => \A r \in LeaveId : DecisionStands(r)]_<<vars, inTurns>>
=============================================================================
