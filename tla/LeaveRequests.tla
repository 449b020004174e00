--------------------------- MODULE LeaveRequests ---------------------------
(***************************************************************************)
(* Leave requests and the balance they draw on: leave/leave.service.ts.    *)
(* A request reserves its paid minutes (pendingMinutes), asks the approval *)
(* engine, and the outcome turns the reservation into usage or releases    *)
(* it; every such change of the balance has a row in the leave ledger.     *)
(*                                                                         *)
(* One employee, one leave type, one balance row.  The approval engine is  *)
(* its abstract specification, ApprovalLifecycle.  A handler is a chain of *)
(* transactions: call[p] says which one comes next and what it has read so *)
(* far.  Between any two of them other handlers run, the engine fails, or  *)
(* the process dies, and the rest of the chain is lost (Stop).             *)
(***************************************************************************)
EXTENDS Integers, FiniteSets, Functions

CONSTANTS LeaveId,
          Minutes,          \* [LeaveId -> Nat], paidMinutes: 0 for unpaid leave
          RequiresApproval, \* [LeaveId -> BOOLEAN], of the leave policy
          Clashes,          \* pairs of requests with overlapping dates
          Grant,            \* minutes of the balance at the start
          Floor,            \* how far below zero the policy lets it go
          Adjustments,      \* minutes that an adjustment may have
          MaxAdjusted,      \* bound of the model: minutes credited, minutes debited
          Proc,             \* handlers that run concurrently
          Overlap,          \* as in ApprovalLifecycle
          Idle

ASSUME LeaveAssumption ==
  /\ IsFiniteSet(LeaveId) /\ Minutes \in [LeaveId -> Nat]
  /\ RequiresApproval \in [LeaveId -> BOOLEAN]
  /\ \A c \in Clashes : c \subseteq LeaveId /\ Cardinality(c) = 2
  /\ Grant \in Int /\ Floor \in Int /\ Floor <= 0 /\ Floor <= Grant
  /\ Adjustments \subseteq Int /\ MaxAdjusted \in Nat
  /\ Overlap \in BOOLEAN

VARIABLES leave,    \* LeaveRequest.status, "NONE" before it is created
          linked,   \* LeaveRequest.approvalRequestId is set
          approval, \* status of the approval request about a leave request
          balance,  \* LeaveBalance: balanceMinutes
          pending,  \* pendingMinutes
          used,     \* usedMinutes
          ledger,   \* number of ledger rows of a request, by type
          adjusted, \* sum of the adjustment rows of the ledger
          call

balanceVars == <<balance, pending, used, ledger, adjusted>>
vars == <<leave, linked, approval, balance, pending, used, ledger, adjusted, call>>

LeaveStatus == {"NONE", "SUBMITTED", "PENDING_APPROVAL", "APPROVED",
                "REJECTED", "CANCELLED", "WITHDRAWN"}
TERMINAL_LEAVE_STATUSES == {"REJECTED", "CANCELLED", "WITHDRAWN"}
ACTIVE_LEAVE_STATUSES == {"SUBMITTED", "PENDING_APPROVAL", "APPROVED"}
EntryType == {"REQUESTED", "APPROVED_USAGE", "CANCELLED_RESTORE"}

\* The approval engine; a leave request has no workforce action.
Engine == INSTANCE ApprovalLifecycle
            WITH Request <- LeaveId, status <- approval,
                 workforceAction <- [r \in LeaveId |-> "NONE"]
Outcome == Engine!Outcome

\* What a handler does next: the transactions of createRequest, the call to the
\* engine, applyLeaveOutcome and its writes, the second write of adjustBalance.
Call ==
  [next : {"create", "submit", "withdraw"}, req : LeaveId]
  \cup [next : {"link"}, req : LeaveId, approved : BOOLEAN]
  \cup [next : {"decide"}, req : LeaveId, st : {"APPROVED", "REJECTED"}]
  \cup [next : {"outcome", "search"}, req : LeaveId, st : Outcome]
  \cup [next : {"write"}, req : LeaveId, st : Outcome, seen : BOOLEAN]
  \cup [next : {"ledger"}, minutes : Adjustments]

ASSUME IdleAssumption == Idle \notin Call

TypeOK ==
  /\ leave \in [LeaveId -> LeaveStatus]
  /\ linked \in [LeaveId -> BOOLEAN]
  /\ approval \in [LeaveId -> {"NONE", "PENDING"} \cup Outcome]
  /\ balance \in Int /\ pending \in Int /\ used \in Int /\ adjusted \in Int
  /\ ledger \in [LeaveId -> [EntryType -> Nat]]
  /\ call \in [Proc -> Call \cup {Idle}]

Init ==
  /\ leave = [r \in LeaveId |-> "NONE"]
  /\ linked = [r \in LeaveId |-> FALSE]
  /\ approval = [r \in LeaveId |-> "NONE"]
  /\ balance = Grant /\ pending = 0 /\ used = 0 /\ adjusted = 0
  /\ ledger = [r \in LeaveId |-> [t \in EntryType |-> 0]]
  /\ call = [p \in Proc |-> Idle]

----------------------------------------------------------------------------

Continue(p, c) == call' = [call EXCEPT ![p] = c]
At(p, step) == call[p] # Idle /\ call[p].next = step

Entry(r, t) == ledger' = [ledger EXCEPT ![r][t] = @ + 1]

\* The minutes of all ledger rows of a type.
MinutesOf(t) == SumFunction([r \in LeaveId |-> Minutes[r] * ledger[r][t]])

\* The moves of a balance, each with its ledger row; nothing for unpaid leave.
Reserve(r) ==
  IF Minutes[r] = 0 THEN UNCHANGED balanceVars
  ELSE /\ pending' = pending + Minutes[r]
       /\ Entry(r, "REQUESTED")
       /\ UNCHANGED <<balance, used, adjusted>>

\* Mutant: the reservation is kept.
UseKeepingReservation(r) ==
  /\ used' = used + Minutes[r]
  /\ balance' = balance - Minutes[r]
  /\ Entry(r, "APPROVED_USAGE")
  /\ UNCHANGED <<pending, adjusted>>

Use(r) ==
  /\ pending' = pending - Minutes[r]
  /\ used' = used + Minutes[r]
  /\ balance' = balance - Minutes[r]
  /\ Entry(r, "APPROVED_USAGE")
  /\ UNCHANGED adjusted

Release(r) ==
  /\ pending' = pending - Minutes[r]
  /\ Entry(r, "CANCELLED_RESTORE")
  /\ UNCHANGED <<balance, used, adjusted>>

----------------------------------------------------------------------------
(* createRequest *)

\* assertNoOverlap
NoOverlap(r) ==
  \A x \in LeaveId : {r, x} \in Clashes => leave[x] \notin ACTIVE_LEAVE_STATUSES

\* assertBalanceAvailable
BalanceAvailable(r) == Minutes[r] > 0 => balance - pending - Minutes[r] >= Floor

\* Both checks are made outside any transaction.
CreateRead(p, r) ==
  /\ call[p] = Idle
  /\ leave[r] = "NONE"
  /\ \A q \in Proc : At(q, "create") => call[q].req # r
  /\ NoOverlap(r)
  /\ BalanceAvailable(r)
  /\ Continue(p, [next |-> "create", req |-> r])
  /\ UNCHANGED <<leave, linked, approval, balanceVars>>

CreateCommit(p) ==
  /\ At(p, "create")
  /\ LET r == call[p].req
     IN /\ leave' = [leave EXCEPT
             ![r] = IF RequiresApproval[r] THEN "PENDING_APPROVAL" ELSE "SUBMITTED"]
        /\ Reserve(r)
        /\ Continue(p, IF RequiresApproval[r]
                       THEN [next |-> "submit", req |-> r]
                       ELSE [next |-> "outcome", req |-> r, st |-> "APPROVED"])
  /\ UNCHANGED <<linked, approval>>

\* approvalsService.submitRequest; when it throws, the request stays (Stop).
Submit(p) ==
  /\ At(p, "submit")
  /\ LET r == call[p].req
     IN /\ Engine!Create(r)
        /\ Continue(p, [next |-> "link", req |-> r, approved |-> approval'[r] = "APPROVED"])
  /\ UNCHANGED <<leave, linked, balanceVars>>

\* The status is written back, whatever it is by now.
Link(p) ==
  /\ At(p, "link")
  /\ LET r == call[p].req
     IN /\ linked' = [linked EXCEPT ![r] = TRUE]
        /\ leave' = [leave EXCEPT ![r] = "PENDING_APPROVAL"]
        /\ Continue(p, IF call[p].approved
                       THEN [next |-> "outcome", req |-> r, st |-> "APPROVED"] ELSE Idle)
  /\ UNCHANGED <<approval, balanceVars>>

----------------------------------------------------------------------------
(* approveRequest, rejectRequest and cancelRequest *)

\* Mutant: only ended requests are refused.
NotEnded(r) == leave[r] \notin TERMINAL_LEAVE_STATUSES \cup {"NONE"}

\* findRequestForDecision
Decidable(r) == leave[r] \in {"PENDING_APPROVAL", "SUBMITTED"}

\* Without an approval request the leave service decides by itself.
DecideRead(p, r, st) ==
  /\ call[p] = Idle
  /\ Decidable(r)
  /\ Continue(p, [next |-> IF linked[r] THEN "decide" ELSE "outcome",
                  req |-> r, st |-> st])
  /\ UNCHANGED <<leave, linked, approval, balanceVars>>

\* Mutant: the outcome is the decision, not the status of the approval request.
EngineDecidesAtOnce(p) ==
  /\ At(p, "decide")
  /\ LET r == call[p].req
         st == call[p].st
     IN /\ \/ Engine!Decide(r, st) \/ Engine!Overturn(r, st)
           \/ st = "APPROVED" /\ approval[r] = "PENDING" /\ UNCHANGED approval
        /\ Continue(p, [next |-> "outcome", req |-> r, st |-> st])
  /\ UNCHANGED <<leave, linked, balanceVars>>

\* approvalsService.approveRequest or rejectRequest; an approval may leave the
\* approval request as it is, and applyLeaveOutcome then returns at once.
EngineDecides(p) ==
  /\ At(p, "decide")
  /\ LET r == call[p].req
         st == call[p].st
     IN /\ \/ Engine!Decide(r, st) \/ Engine!Overturn(r, st)
           \/ /\ st = "APPROVED"
              /\ approval[r] = "PENDING" \/ (Overlap /\ approval[r] \in Outcome)
              /\ UNCHANGED approval
        /\ Continue(p, IF approval'[r] = "PENDING" THEN Idle
                       ELSE [next |-> "outcome", req |-> r, st |-> approval'[r]])
  /\ UNCHANGED <<leave, linked, balanceVars>>

\* cancelRequest accepts a request in any status.
CancelRead(p, r) ==
  /\ call[p] = Idle
  /\ leave[r] # "NONE"
  /\ Continue(p, IF linked[r] /\ leave[r] = "PENDING_APPROVAL"
                 THEN [next |-> "withdraw", req |-> r]
                 ELSE [next |-> "outcome", req |-> r, st |-> "CANCELLED"])
  /\ UNCHANGED <<leave, linked, approval, balanceVars>>

EngineWithdraws(p) ==
  /\ At(p, "withdraw")
  /\ LET r == call[p].req
     IN /\ Engine!Decide(r, "WITHDRAWN") \/ Engine!Overturn(r, "WITHDRAWN")
        /\ Continue(p, [next |-> "outcome", req |-> r, st |-> "CANCELLED"])
  /\ UNCHANGED <<leave, linked, balanceVars>>

----------------------------------------------------------------------------
(* applyLeaveOutcome *)

\* Mutant: any ledger row of the request counts as the one looked for.
BookedAtAll(r, st) == \E t \in EntryType : ledger[r][t] > 0

\* The ledger has a row of this outcome.
Booked(r, st) ==
  ledger[r][IF st = "APPROVED" THEN "APPROVED_USAGE" ELSE "CANCELLED_RESTORE"] > 0

\* The request is read: a settled one makes applyLeaveOutcome return early.
OutcomeRead(p) ==
  /\ At(p, "outcome")
  /\ LET r == call[p].req
         st == call[p].st
         settled == IF st = "APPROVED" THEN leave[r] = "APPROVED"
                                       ELSE leave[r] \in TERMINAL_LEAVE_STATUSES
     IN Continue(p, IF settled THEN Idle ELSE [next |-> "search", req |-> r, st |-> st])
  /\ UNCHANGED <<leave, linked, approval, balanceVars>>

\* A later statement looks for a ledger row of this outcome.
OutcomeSearch(p) ==
  /\ At(p, "search")
  /\ LET r == call[p].req
         st == call[p].st
     IN Continue(p, [next |-> "write", req |-> r, st |-> st, seen |-> Booked(r, st)])
  /\ UNCHANGED <<leave, linked, approval, balanceVars>>

OutcomeWrite(p) ==
  /\ At(p, "write")
  /\ LET r == call[p].req
     IN /\ IF Minutes[r] = 0 \/ call[p].seen THEN UNCHANGED balanceVars
           ELSE IF call[p].st = "APPROVED" THEN Use(r) ELSE Release(r)
        /\ leave' = [leave EXCEPT ![r] = call[p].st]
  /\ Continue(p, Idle)
  /\ UNCHANGED <<linked, approval>>

----------------------------------------------------------------------------
(* adjustBalance, the approval controller, and the end of a handler *)

\* Two statements without a transaction around them.
AdjustWrite(p, n) ==
  /\ call[p] = Idle
  /\ IF n < 0 THEN used - MinutesOf("APPROVED_USAGE") - n <= MaxAdjusted
              ELSE balance + used - Grant + n <= MaxAdjusted
  /\ balance' = balance + n
  /\ used' = IF n < 0 THEN used - n ELSE used
  /\ Continue(p, [next |-> "ledger", minutes |-> n])
  /\ UNCHANGED <<leave, linked, approval, pending, ledger, adjusted>>

AdjustLedger(p) ==
  /\ At(p, "ledger")
  /\ adjusted' = adjusted + call[p].minutes
  /\ Continue(p, Idle)
  /\ UNCHANGED <<leave, linked, approval, balance, pending, used, ledger>>

\* An approver decides the approval request with approvals.service.ts itself:
\* the leave service does not hear of it.
DecidedElsewhere(r, st) ==
  /\ Engine!Decide(r, st)
  /\ UNCHANGED <<leave, linked, balanceVars, call>>

\* A call throws, or its process dies.
Stop(p) ==
  /\ call[p] # Idle
  /\ Continue(p, Idle)
  /\ UNCHANGED <<leave, linked, approval, balanceVars>>

Next ==
  \/ \E p \in Proc :
       \/ CreateCommit(p) \/ Submit(p) \/ Link(p) \/ EngineDecides(p)
       \/ EngineWithdraws(p) \/ OutcomeRead(p) \/ OutcomeSearch(p)
       \/ OutcomeWrite(p) \/ AdjustLedger(p) \/ Stop(p)
       \/ \E r \in LeaveId :
            \/ CreateRead(p, r) \/ CancelRead(p, r)
            \/ \E st \in {"APPROVED", "REJECTED"} : DecideRead(p, r, st)
       \/ \E n \in Adjustments : AdjustWrite(p, n)
  \/ \E r \in LeaveId, st \in Outcome : DecidedElsewhere(r, st)

Spec == Init /\ [][Next]_vars

----------------------------------------------------------------------------
(* What holds however the handlers interleave and wherever they stop *)

\* The pending minutes are what the ledger says is reserved and neither used
\* nor restored: no interleaving of outcomes loses an update or a ledger row.
LedgerExplainsPending ==
  pending = MinutesOf("REQUESTED") - MinutesOf("APPROVED_USAGE") - MinutesOf("CANCELLED_RESTORE")

\* No decision, however it raced, leaves paid leave unbooked: a request that was
\* created is in the ledger once, an approved one has been charged, and the
\* reservation of an ended one has been released.
DecidedLeaveIsBooked ==
  \A r \in {x \in LeaveId : Minutes[x] > 0} :
    /\ ledger[r]["REQUESTED"] = (IF leave[r] = "NONE" THEN 0 ELSE 1)
    /\ leave[r] = "APPROVED" => ledger[r]["APPROVED_USAGE"] > 0
    /\ leave[r] \in TERMINAL_LEAVE_STATUSES => ledger[r]["CANCELLED_RESTORE"] > 0

----------------------------------------------------------------------------
(* What holds when handlers do not overlap *)

\* leave.service.ts:1387, "Leave request is already ...": a decided request is
\* decided for good; only an approved one may still be cancelled.
DecisionStands(r) ==
  /\ leave[r] \in TERMINAL_LEAVE_STATUSES => leave'[r] = leave[r]
  /\ leave[r] = "APPROVED" => leave'[r] \in {"APPROVED", "CANCELLED"}

\* approveRequest, rejectRequest and cancelRequest take the outcome of a leave
\* request from the status the engine returns: once linked, leave is approved,
\* rejected or cancelled only if its approval request says so.
LeaveFollowsApproval ==
  \A r \in {x \in LeaveId : linked[x]} :
    /\ leave[r] \in {"APPROVED", "REJECTED"} => approval[r] = leave[r]
    /\ leave[r] = "CANCELLED" => approval[r] \in {"WITHDRAWN", "APPROVED"}

----------------------------------------------------------------------------
(* What the design rules of the repository ask *)

\* docs/enterprise-backend-roadmap.md:142, "Business writes must be transactional
\* when they touch multiple domain records.": the balance is what the ledger
\* and the adjustment under way, if any, say it is.
LedgerExplainsBalance ==
  LET underWay == SumFunction([p \in Proc |-> IF At(p, "ledger") THEN call[p].minutes ELSE 0])
  IN balance = Grant + adjusted + underWay - MinutesOf("APPROVED_USAGE")
=============================================================================
