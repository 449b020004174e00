-------------------------- MODULE ApprovalsProofs --------------------------
(***************************************************************************)
(* Proofs about Delegations, Approvals and WorkflowDefinitions, for every  *)
(* set of users, requests, workflows, steps and concurrent handlers.       *)
(***************************************************************************)
EXTENDS MCWorkflows, FiniteSetTheorems, TLAPS, WellFoundedInduction

----------------------------------------------------------------------------
(* Delegations: types *)

\* A row that a patch is applied to stays a row.
LEMMA PatchedType ==
  ASSUME NEW row \in DelegationRow, NEW patch \in Patch
  PROVE  Patched(row, patch) \in DelegationRow
<1>1. DOMAIN row = {"from", "to", "module", "window", "isActive"}
  BY DEF DelegationRow
<1>2. Patched(row, patch) = [from |-> Patched(row, patch).from,
                             to |-> Patched(row, patch).to,
                             module |-> Patched(row, patch).module,
                             window |-> Patched(row, patch).window,
                             isActive |-> Patched(row, patch).isActive]
  BY <1>1 DEF Patched
<1>3. /\ Patched(row, patch).from \in User
      /\ Patched(row, patch).to \in User
      /\ Patched(row, patch).module \in Module
      /\ Patched(row, patch).window \in Window
      /\ Patched(row, patch).isActive \in BOOLEAN
  BY <1>1 DEF Patched, Patch, DelegationRow
<1> QED
  BY <1>2, <1>3 DEF DelegationRow


DelegationInv == DelegationTypeOK /\ UpdatesNameRows

\* Rows are never removed, so the row an update read is there when it writes.
LEMMA DelegationStep ==
  DelegationInv /\ [DelegationNext]_delegationVars => DelegationInv'
<1> SUFFICES ASSUME DelegationInv, [DelegationNext]_delegationVars
             PROVE  DelegationInv'
  OBVIOUS
<1> USE DelegationAssumption DEF DelegationInv, DelegationTypeOK, UpdatesNameRows, Rows
<1>1. ASSUME NEW d \in DelegationId, NEW row \in DelegationRow,
             CreateDelegation(d, row)
      PROVE  DelegationInv'
  BY <1>1 DEF CreateDelegation
<1>2. ASSUME NEW p \in DelegationProc, NEW d \in DelegationId, NEW patch \in Patch,
             UpdateDelegationRead(p, d, patch)
      PROVE  DelegationInv'
  BY <1>2 DEF UpdateDelegationRead, UpdateCall
<1>3. ASSUME NEW p \in DelegationProc, UpdateDelegationCommit(p)
      PROVE  DelegationInv'
  <2> DEFINE c == delegationCall[p]
  <2>1. c.id \in DelegationId /\ c.patch \in Patch
    BY <1>3 DEF UpdateDelegationCommit, UpdateCall
  <2>2. delegation[c.id] \in DelegationRow
    BY <1>3, <2>1 DEF UpdateDelegationCommit
  <2>3. Patched(delegation[c.id], c.patch) \in DelegationRow
    BY <2>1, <2>2, PatchedType
  <2> QED
    BY <1>3, <2>1, <2>3 DEF UpdateDelegationCommit
<1>4. ASSUME NEW p \in DelegationProc, UpdateDelegationAbort(p)
      PROVE  DelegationInv'
  BY <1>4 DEF UpdateDelegationAbort
<1>5. ASSUME NEW d \in DelegationId, DeleteDelegation(d)
      PROVE  DelegationInv'
  <2>1. [delegation[d] EXCEPT !.isActive = FALSE, !.window = "past"] \in DelegationRow
    BY <1>5 DEF DeleteDelegation, DelegationRow, Window
  <2> QED
    BY <1>5, <2>1 DEF DeleteDelegation
<1>6. ASSUME NEW d \in DelegationId, WindowMoves(d)
      PROVE  DelegationInv'
  <2>1. [delegation[d] EXCEPT !.window = IF @ = "future" THEN "open" ELSE "past"]
          \in DelegationRow
    BY <1>6 DEF WindowMoves, DelegationRow, Window
  <2> QED
    BY <1>6, <2>1 DEF WindowMoves
<1>7. CASE UNCHANGED delegationVars
  BY <1>7 DEF delegationVars
<1> QED
  BY <1>1, <1>2, <1>3, <1>4, <1>5, <1>6, <1>7 DEF DelegationNext

\* Init satisfies it.
LEMMA DelegationStart == DelegationInit => DelegationInv
BY DelegationAssumption
DEF DelegationInit, DelegationInv, DelegationTypeOK, UpdatesNameRows

\* The table of delegations and the updates in flight are type correct, at any
\* number of concurrent updates.
THEOREM DelegationTypeCorrect == DelegationSpec => []DelegationTypeOK
<1>1. DelegationInv => DelegationTypeOK
  BY DEF DelegationInv
<1> QED
  BY <1>1, DelegationStart, DelegationStep, PTL DEF DelegationSpec

----------------------------------------------------------------------------
(* A disabled delegation stays disabled *)

\* Only the commit of an update with a value for isActive enables a row.
LEMMA EnabledByUpdate ==
  ASSUME DelegationInv, DelegationNext, NEW d \in Rows,
         ~delegation[d].isActive, delegation'[d].isActive
  PROVE  \E p \in DelegationProc :
           /\ delegationCall[p] # NoCall /\ delegationCall'[p] = NoCall
           /\ delegationCall[p].id = d
           /\ "isActive" \in DOMAIN delegationCall[p].patch
<1> USE DEF DelegationInv, DelegationTypeOK, Rows
<1>1. delegation[d] \in DelegationRow /\ d \in DelegationId
  OBVIOUS
<1>2. ASSUME NEW p \in DelegationProc, UpdateDelegationCommit(p)
      PROVE  /\ delegationCall[p] # NoCall /\ delegationCall'[p] = NoCall
             /\ delegationCall[p].id = d
             /\ "isActive" \in DOMAIN delegationCall[p].patch
  <2> DEFINE c == delegationCall[p]
  <2>1. c \in UpdateCall /\ c # NoCall /\ delegationCall'[p] = NoCall
    BY <1>2 DEF UpdateDelegationCommit
  <2>2. delegation' = [delegation EXCEPT ![c.id] = Patched(@, c.patch)]
    BY <1>2 DEF UpdateDelegationCommit
  <2>3. c.id = d
    BY <1>1, <2>2
  <2>4. delegation'[d] = Patched(delegation[d], c.patch)
    BY <1>1, <2>2, <2>3
  <2>5. "isActive" \notin DOMAIN c.patch =>
          Patched(delegation[d], c.patch).isActive = delegation[d].isActive
    BY <1>1 DEF Patched, DelegationRow
  <2> QED
    BY <2>1, <2>3, <2>4, <2>5
<1>3. ASSUME NEW p \in DelegationProc, NEW x \in DelegationId, NEW patch \in Patch,
             UpdateDelegationRead(p, x, patch) \/ UpdateDelegationAbort(p)
      PROVE  FALSE
  BY <1>3 DEF UpdateDelegationRead, UpdateDelegationAbort
<1>4. ASSUME NEW x \in DelegationId, NEW row \in DelegationRow, CreateDelegation(x, row)
      PROVE  FALSE
  BY <1>1, <1>4 DEF CreateDelegation
<1>5. ASSUME NEW x \in DelegationId, DeleteDelegation(x)
      PROVE  FALSE
  BY <1>1, <1>5 DEF DeleteDelegation, DelegationRow
<1>6. ASSUME NEW x \in DelegationId, WindowMoves(x)
      PROVE  FALSE
  BY <1>1, <1>6 DEF WindowMoves, DelegationRow
<1>7. ASSUME NEW p \in DelegationProc, UpdateDelegationAbort(p)
      PROVE  FALSE
  BY <1>7 DEF UpdateDelegationAbort
<1> QED
  BY <1>2, <1>3, <1>4, <1>5, <1>6, <1>7 DEF DelegationNext

\* What deleteDelegation takes away only an update that asks for it gives back,
\* however many updates and deletions overlap.
THEOREM DisabledForGood == DelegationSpec => DisabledStaysDisabled
<1>1. DelegationInv /\ [DelegationNext]_delegationVars =>
        [\A d \in Rows :
           (~delegation[d].isActive /\ delegation'[d].isActive) =>
             \E p \in DelegationProc :
               /\ delegationCall[p] # NoCall /\ delegationCall'[p] = NoCall
               /\ delegationCall[p].id = d
               /\ "isActive" \in DOMAIN delegationCall[p].patch]_delegationVars
  BY EnabledByUpdate
<1> QED
  BY <1>1, DelegationStart, DelegationStep, PTL DEF DelegationSpec, DisabledStaysDisabled

----------------------------------------------------------------------------
(* No delegation to oneself, when updates take turns *)

\* Source and target differ now and, when the update in flight writes, they will.
ProperRows ==
  /\ NoSelfDelegation
  /\ \A p \in DelegationProc : delegationCall[p] # NoCall =>
       LET row == Patched(delegation[delegationCall[p].id], delegationCall[p].patch)
       IN row.from # row.to

\* Every step keeps that, because no second update can slip in between.
LEMMA ProperStep ==
  ASSUME \A p, q \in DelegationProc : p = q,
         DelegationInv, ProperRows, [DelegationNext]_delegationVars
  PROVE  ProperRows'
<1> USE DEF DelegationInv, DelegationTypeOK, UpdatesNameRows, Rows
<1>1. ASSUME NEW x \in DelegationId, NEW row \in DelegationRow, CreateDelegation(x, row)
      PROVE  ProperRows'
  BY <1>1, DelegationAssumption DEF CreateDelegation, ProperRows, NoSelfDelegation
<1>2. ASSUME NEW p \in DelegationProc, NEW x \in DelegationId, NEW patch \in Patch,
             UpdateDelegationRead(p, x, patch)
      PROVE  ProperRows'
  <2>1. delegationCall'[p].id = x /\ delegationCall'[p].patch = patch
    BY <1>2 DEF UpdateDelegationRead
  <2>2. Patched(delegation[x], patch).from # Patched(delegation[x], patch).to
    BY <1>2 DEF UpdateDelegationRead
  <2> QED
    BY <1>2, <2>1, <2>2 DEF UpdateDelegationRead, ProperRows, NoSelfDelegation
<1>3. ASSUME NEW p \in DelegationProc, UpdateDelegationCommit(p)
      PROVE  ProperRows'
  <2> DEFINE c == delegationCall[p]
  <2>1. /\ c # NoCall /\ c.id \in DelegationId
        /\ delegation' = [delegation EXCEPT ![c.id] = Patched(@, c.patch)]
    BY <1>3 DEF UpdateDelegationCommit
  <2>2. \A q \in DelegationProc : delegationCall'[q] = NoCall
    BY <1>3 DEF UpdateDelegationCommit
  <2>3. NoSelfDelegation'
    BY <2>1 DEF ProperRows, NoSelfDelegation
  <2> QED
    BY <2>2, <2>3 DEF ProperRows
<1>4. ASSUME NEW p \in DelegationProc, UpdateDelegationAbort(p)
      PROVE  ProperRows'
  BY <1>4 DEF UpdateDelegationAbort, ProperRows, NoSelfDelegation
<1>5. ASSUME NEW x \in DelegationId, DeleteDelegation(x) \/ WindowMoves(x)
      PROVE  ProperRows'
  <2>1. /\ delegationCall' = delegationCall
        /\ DOMAIN delegation' = DelegationId
        /\ \A d \in DelegationId \ {x} : delegation'[d] = delegation[d]
    BY <1>5 DEF DeleteDelegation, WindowMoves
  <2>2. /\ delegation[x] \in DelegationRow /\ delegation'[x] \in DelegationRow
        /\ delegation'[x].from = delegation[x].from
        /\ delegation'[x].to = delegation[x].to
    <3>1. delegation[x] # NoDelegation /\ delegation[x] \in DelegationRow
      BY <1>5 DEF DeleteDelegation, WindowMoves
    <3>2. CASE DeleteDelegation(x)
      <4>1. delegation'[x] = [delegation[x] EXCEPT !.isActive = FALSE, !.window = "past"]
        BY <3>2 DEF DeleteDelegation
      <4> QED
        BY <3>1, <4>1 DEF DelegationRow, Window
    <3>3. CASE WindowMoves(x)
      <4>1. delegation'[x] = [delegation[x] EXCEPT !.window = IF @ = "future" THEN "open" ELSE "past"]
        BY <3>3 DEF WindowMoves
      <4> QED
        BY <3>1, <4>1 DEF DelegationRow, Window
    <3> QED
      BY <1>5, <3>2, <3>3
  <2>3. \A patch \in Patch :
          /\ Patched(delegation'[x], patch).from = Patched(delegation[x], patch).from
          /\ Patched(delegation'[x], patch).to = Patched(delegation[x], patch).to
    BY <2>2 DEF Patched, DelegationRow
  <2>4. NoSelfDelegation'
    BY <2>1, <2>2, DelegationAssumption DEF ProperRows, NoSelfDelegation
  <2>5. ASSUME NEW p \in DelegationProc, delegationCall[p] # NoCall
        PROVE  LET row == Patched(delegation'[delegationCall[p].id], delegationCall[p].patch)
               IN row.from # row.to
    BY <2>1, <2>3, <2>5 DEF ProperRows, UpdateCall
  <2> QED
    BY <2>1, <2>4, <2>5 DEF ProperRows
<1>6. CASE UNCHANGED delegationVars
  BY <1>6 DEF delegationVars, ProperRows, NoSelfDelegation
<1> QED
  BY <1>1, <1>2, <1>3, <1>4, <1>5, <1>6 DEF DelegationNext

\* With one update at a time the check of updateDelegation, made on the row it
\* read, is as good as one made on the row it writes.
THEOREM TakingTurnsNoSelfDelegation ==
  ASSUME \A p, q \in DelegationProc : p = q
  PROVE  DelegationSpec => []NoSelfDelegation
<1>1. DelegationInit => ProperRows
  BY DEF DelegationInit, ProperRows, NoSelfDelegation, Rows
<1>2. DelegationInv /\ ProperRows /\ [DelegationNext]_delegationVars => ProperRows'
  BY ProperStep
<1>3. ProperRows => NoSelfDelegation
  BY DEF ProperRows
<1> QED
  BY <1>1, <1>2, <1>3, DelegationStart, DelegationStep, PTL DEF DelegationSpec

----------------------------------------------------------------------------
(* Lemmas about the operators *)

\* Automation keeps the list of steps a list of steps, touches pending steps
\* only, and only to approve them.
LEMMA AdvancedFacts ==
  ASSUME NEW ss \in Seq(Instance)
  PROVE  /\ Advanced(ss) \in Seq(Instance)
         /\ Len(Advanced(ss)) = Len(ss)
         /\ \A i \in 1 .. Len(ss) :
              /\ Advanced(ss)[i].def = ss[i].def
              /\ Advanced(ss)[i].user = ss[i].user
              /\ Advanced(ss)[i].role = ss[i].role
              /\ ss[i].status # "PENDING" => Advanced(ss)[i] = ss[i]
              /\ Advanced(ss)[i] # ss[i] =>
                   Advanced(ss)[i].status = "APPROVED" /\ ~Stops(ss[i])
<1> DEFINE f == Advanced(ss)
<1>1. DOMAIN ss = 1 .. Len(ss) /\ Len(ss) \in Nat
  OBVIOUS
<1>2. \A i \in 1 .. Len(ss) : ss[i] \in Instance
  OBVIOUS
<1>3. \A i \in 1 .. Len(ss) : f[i] \in Instance
  BY <1>1, <1>2 DEF Advanced, Instance, Status, TERMINAL_APPROVAL_STATUSES
<1>4. f \in Seq(Instance) /\ Len(f) = Len(ss)
  <2>1. f \in [1 .. Len(ss) -> Instance]
    BY <1>1, <1>3 DEF Advanced
  <2> QED
    BY <1>1, <2>1
<1>5. \A i \in 1 .. Len(ss) :
        /\ f[i].def = ss[i].def
        /\ f[i].user = ss[i].user
        /\ f[i].role = ss[i].role
        /\ ss[i].status # "PENDING" => f[i] = ss[i]
        /\ f[i] # ss[i] => f[i].status = "APPROVED" /\ ~Stops(ss[i])
  BY <1>1, <1>2 DEF Advanced, Instance
<1> QED
  BY <1>4, <1>5

\* Writing columns of one step instance keeps the list a list of instances.
LEMMA StepWriteType ==
  ASSUME NEW ss \in Seq(Instance), NEW i \in Nat
  PROVE  /\ \A st \in Status : [ss EXCEPT ![i].status = st] \in Seq(Instance)
         /\ \A u \in User \cup {NoOne} :
              [ss EXCEPT ![i] = [@ EXCEPT !.user = u, !.role = NoOne]] \in Seq(Instance)
<1>1. ss \in [1 .. Len(ss) -> Instance] /\ Len(ss) \in Nat
  OBVIOUS
<1>2. ASSUME NEW st \in Status
      PROVE  [ss EXCEPT ![i].status = st] \in Seq(Instance)
  <2>1. CASE i \in 1 .. Len(ss)
    <3>1. [ss[i] EXCEPT !.status = st] \in Instance
      BY <1>1, <2>1 DEF Instance
    <3>2. [ss EXCEPT ![i].status = st] \in [1 .. Len(ss) -> Instance]
      BY <1>1, <3>1
    <3> QED
      BY <1>1, <3>2
  <2>2. CASE i \notin 1 .. Len(ss)
    <3>1. [ss EXCEPT ![i].status = st] = ss
      BY <1>1, <2>2
    <3> QED
      BY <3>1
  <2> QED
    BY <2>1, <2>2
<1>3. ASSUME NEW u \in User \cup {NoOne}
      PROVE  [ss EXCEPT ![i] = [@ EXCEPT !.user = u, !.role = NoOne]] \in Seq(Instance)
  <2>1. CASE i \in 1 .. Len(ss)
    <3>1. [ss[i] EXCEPT !.user = u, !.role = NoOne] \in Instance
      BY <1>1, <2>1 DEF Instance
    <3>2. [ss EXCEPT ![i] = [@ EXCEPT !.user = u, !.role = NoOne]]
            \in [1 .. Len(ss) -> Instance]
      BY <1>1, <3>1
    <3> QED
      BY <1>1, <3>2
  <2>2. CASE i \notin 1 .. Len(ss)
    <3>1. [ss EXCEPT ![i] = [@ EXCEPT !.user = u, !.role = NoOne]] = ss
      BY <1>1, <2>2
    <3> QED
      BY <3>1
  <2> QED
    BY <2>1, <2>2
<1> QED
  BY <1>2, <1>3

----------------------------------------------------------------------------
(* Type correctness *)

\* The initial state is type correct.
LEMMA InitType == Init => TypeOK
<1> USE ApprovalsAssumption
<1> SUFFICES ASSUME Init PROVE TypeOK
  OBVIOUS
<1>1. DelegationTypeOK
  BY DEF Init, DelegationInit, DelegationTypeOK
<1>2. steps \in [Request -> Seq(Instance)]
  BY DEF Init, ApprovalInit
<1>3. ApprovalTypeOK
  BY <1>2 DEF Init, ApprovalInit, ApprovalTypeOK, ActionStatus
<1> QED
  BY <1>1, <1>3 DEF TypeOK

\* A plan is a list of step instances, one for each step of the workflow.
LEMMA PlanType ==
  ASSUME workflow \in [WorkflowId -> WorkflowRow], NEW w \in WorkflowId,
         NEW plan \in Plans(w)
  PROVE  plan \in Seq(Instance)
<1> DEFINE ids == workflow[w].steps
<1>1. ids \in Seq(StepId)
  BY DEF WorkflowRow
<1>2. PICK a \in [1 .. Len(ids) -> User \cup Role \cup {NoOne}] :
        plan = [i \in 1 .. Len(ids) |->
                  [def |-> ids[i], status |-> "PENDING",
                   user |-> IF a[i] \in User THEN a[i] ELSE NoOne,
                   role |-> IF a[i] \in Role THEN a[i] ELSE NoOne]]
  BY DEF Plans
<1>3. \A i \in 1 .. Len(ids) : ids[i] \in StepId
  BY <1>1
<1>4. plan \in [1 .. Len(ids) -> Instance]
  BY <1>2, <1>3 DEF Instance, Status
<1> QED
  BY <1>1, <1>4

\* setRequestTerminal writes statuses of the two tables.
LEMMA TerminalType ==
  ASSUME ApprovalTypeOK, NEW r \in Request, NEW st \in TERMINAL_APPROVAL_STATUSES,
         SetRequestTerminal(r, st)
  PROVE  /\ status' \in [Request -> Status \cup {"NONE"}]
         /\ workforceAction' \in [Request -> ActionStatus]
BY DEF ApprovalTypeOK, SetRequestTerminal, SettledAs, Status, ActionStatus,
       TERMINAL_APPROVAL_STATUSES

\* advanceAutomatedSteps writes steps, status and workforce action of the right types.
LEMMA AdvanceType ==
  ASSUME ApprovalTypeOK, NEW r \in Request, NEW ss \in Seq(Instance),
         NEW otherwise \in Status \cup {"NONE"},
         AdvanceAutomatedSteps(r, ss, otherwise)
  PROVE  /\ status' \in [Request -> Status \cup {"NONE"}]
         /\ workforceAction' \in [Request -> ActionStatus]
         /\ steps' \in [Request -> Seq(Instance)]
<1>1. Advanced(ss) \in Seq(Instance)
  BY AdvancedFacts
<1>2. steps' \in [Request -> Seq(Instance)]
  BY <1>1 DEF ApprovalTypeOK, AdvanceAutomatedSteps
<1>3. CASE Pending(Advanced(ss)) = {}
  BY <1>2, <1>3, TerminalType DEF AdvanceAutomatedSteps, TERMINAL_APPROVAL_STATUSES
<1>4. CASE Pending(Advanced(ss)) # {}
  BY <1>2, <1>4 DEF AdvanceAutomatedSteps, ApprovalTypeOK
<1> QED
  BY <1>3, <1>4

\* An emitted event is an event.
LEMMA EmitType ==
  ASSUME ApprovalTypeOK, NEW r \in Request, NEW e \in Event, Emit(r, e)
  PROVE  events' \in [Request -> SUBSET Event]
BY DEF ApprovalTypeOK, Emit

\* The end of a handler leaves its slot idle.
LEMMA FinishType ==
  ASSUME ApprovalTypeOK, NEW p \in Proc, Finish(p)
  PROVE  call' \in [Proc -> SubmitCall \cup StepCall \cup EndCall \cup {Idle}]
BY DEF ApprovalTypeOK, Finish

\* A row written to the action history is one.
LEMMA RowType ==
  ASSUME NEW r \in Request, NEW i \in Nat, NEW u \in User \cup {NoOne},
         NEW a \in HistoryAction
  PROVE  Row(r, i, u, a) \in HistoryRow
BY DEF Row, HistoryRow

\* So are the rows that automation writes.
LEMMA AutomatedRowsType ==
  ASSUME NEW r \in Request, NEW ss \in Seq(Instance)
  PROVE  AutomatedRows(r, ss) \subseteq HistoryRow
BY DEF AutomatedRows, Row, HistoryRow, HistoryAction

\* Every handler of the approval engine keeps the types of its state.
LEMMA RequestStepType ==
  ApprovalTypeOK /\ RequestNext /\ UNCHANGED definitionVars => ApprovalTypeOK'
<1> SUFFICES ASSUME ApprovalTypeOK, RequestNext, UNCHANGED definitionVars
             PROVE  ApprovalTypeOK'
  OBVIOUS
<1> USE ApprovalsAssumption DEF definitionVars
<1>1. ASSUME NEW p \in Proc, NEW u \in User, NEW r \in Request, NEW w \in WorkflowId,
             SubmitRead(p, u, r, w)
      PROVE  ApprovalTypeOK'
  <2>1. PICK plan \in Plans(w) :
          call' = [call EXCEPT ![p] = [op |-> "submit", actor |-> u, req |-> r,
                                       workflow |-> w, plan |-> plan]]
    BY <1>1 DEF SubmitRead
  <2>2. plan \in Seq(Instance)
    BY PlanType DEF ApprovalTypeOK
  <2>3. [op |-> "submit", actor |-> u, req |-> r, workflow |-> w, plan |-> plan]
          \in SubmitCall
    BY <2>2 DEF SubmitCall
  <2> QED
    BY <1>1, <2>1, <2>3 DEF ApprovalTypeOK, SubmitRead, requestVars
<1>2. ASSUME NEW p \in Proc, NEW u \in User, NEW r \in Request,
             NEW op \in StepOp, NEW to \in User \cup {NoOne},
             StepRead(p, u, r, op, to)
      PROVE  ApprovalTypeOK'
  <2>1. PICK i \in Pending(steps[r]) :
          call' = [call EXCEPT ![p] = [op |-> op, actor |-> u, req |-> r,
                                       step |-> i, to |-> to]]
    BY <1>2 DEF StepRead
  <2>2. steps[r] \in Seq(Instance)
    BY DEF ApprovalTypeOK
  <2>3. i \in Nat \ {0}
    BY <2>2 DEF Pending
  <2>4. [op |-> op, actor |-> u, req |-> r, step |-> i, to |-> to] \in StepCall
    BY <2>3 DEF StepCall
  <2> QED
    BY <1>2, <2>1, <2>4 DEF ApprovalTypeOK, StepRead, requestVars
<1>3. ASSUME NEW p \in Proc, NEW u \in User, NEW r \in Request, NEW op \in EndOp,
             EndRead(p, u, r, op)
      PROVE  ApprovalTypeOK'
  BY <1>3 DEF ApprovalTypeOK, EndRead, EndCall, requestVars
<1>4. ASSUME NEW p \in Proc, SubmitCommit(p)
      PROVE  ApprovalTypeOK'
  <2> DEFINE c == call[p]
  <2>1. c \in SubmitCall
    BY <1>4 DEF SubmitCommit, ApprovalTypeOK, StepCall, EndCall, StepOp, EndOp
  <2>2. /\ c.req \in Request /\ c.actor \in User /\ c.workflow \in WorkflowId
        /\ c.plan \in Seq(Instance)
    BY <2>1 DEF SubmitCall
  <2>3. /\ status' \in [Request -> Status \cup {"NONE"}]
        /\ workforceAction' \in [Request -> ActionStatus]
        /\ steps' \in [Request -> Seq(Instance)]
    BY <1>4, <2>2, AdvanceType DEF SubmitCommit, Status
  <2>4. history' \subseteq HistoryRow
    BY <1>4, <2>2, RowType, AutomatedRowsType
    DEF SubmitCommit, ApprovalTypeOK, HistoryAction
  <2>5. events' \in [Request -> SUBSET Event]
    BY <1>4, <2>2, EmitType DEF SubmitCommit, Event
  <2> QED
    BY <1>4, <2>2, <2>3, <2>4, <2>5, FinishType DEF SubmitCommit, ApprovalTypeOK
<1>5. ASSUME NEW p \in Proc, call[p] # Idle, call[p].op \in StepOp
      PROVE  /\ call[p].req \in Request /\ call[p].actor \in User
             /\ call[p].step \in Nat /\ call[p].to \in User \cup {NoOne}
  BY <1>5 DEF ApprovalTypeOK, SubmitCall, StepCall, EndCall, StepOp, EndOp
<1>6. ASSUME NEW p \in Proc, ApproveCommit(p)
      PROVE  ApprovalTypeOK'
  <2> DEFINE c == call[p]
             ss == [steps[c.req] EXCEPT ![c.step].status = "APPROVED"]
  <2>1. c.req \in Request /\ c.actor \in User /\ c.step \in Nat
    BY <1>5, <1>6 DEF ApproveCommit, StepOp
  <2>2. ss \in Seq(Instance)
    BY <2>1, StepWriteType DEF ApprovalTypeOK, Status, TERMINAL_APPROVAL_STATUSES
  <2>3. status[c.req] \in Status \cup {"NONE"}
    BY <2>1 DEF ApprovalTypeOK
  <2>4. /\ status' \in [Request -> Status \cup {"NONE"}]
        /\ workforceAction' \in [Request -> ActionStatus]
        /\ steps' \in [Request -> Seq(Instance)]
    BY <1>6, <2>1, <2>2, <2>3, AdvanceType DEF ApproveCommit
  <2>5. history' \subseteq HistoryRow
    <3>1. history' = history \cup {Row(c.req, c.step, c.actor, "APPROVED")}
                             \cup AutomatedRows(c.req, ss)
      BY <1>6 DEF ApproveCommit
    <3>2. Row(c.req, c.step, c.actor, "APPROVED") \in HistoryRow
      BY <2>1, RowType DEF HistoryAction
    <3> QED
      BY <2>1, <2>2, <3>1, <3>2, AutomatedRowsType DEF ApprovalTypeOK
  <2>6. events' \in [Request -> SUBSET Event]
    BY <1>6, <2>1, EmitType DEF ApproveCommit, EventFor, Event
  <2> QED
    BY <1>6, <2>4, <2>5, <2>6, FinishType DEF ApproveCommit, ApprovalTypeOK
<1>7. ASSUME NEW p \in Proc, RejectCommit(p)
      PROVE  ApprovalTypeOK'
  <2> DEFINE c == call[p]
  <2>1. c.req \in Request /\ c.actor \in User /\ c.step \in Nat
    BY <1>5, <1>7 DEF RejectCommit, StepOp
  <2>2. [steps[c.req] EXCEPT ![c.step].status = "REJECTED"] \in Seq(Instance)
    BY <2>1, StepWriteType DEF ApprovalTypeOK, Status, TERMINAL_APPROVAL_STATUSES
  <2>3. steps' \in [Request -> Seq(Instance)]
    BY <1>7, <2>1, <2>2 DEF RejectCommit, ApprovalTypeOK
  <2>4. history' \subseteq HistoryRow
    BY <1>7, <2>1, RowType DEF RejectCommit, ApprovalTypeOK, HistoryAction
  <2>5. events' \in [Request -> SUBSET Event]
    BY <1>7, <2>1, EmitType DEF RejectCommit, EventFor, Event
  <2> QED
    BY <1>7, <2>1, <2>3, <2>4, <2>5, TerminalType, FinishType
    DEF RejectCommit, ApprovalTypeOK, TERMINAL_APPROVAL_STATUSES
<1>8. ASSUME NEW p \in Proc, ReturnCommit(p)
      PROVE  ApprovalTypeOK'
  <2> DEFINE c == call[p]
  <2>1. c.req \in Request /\ c.actor \in User /\ c.step \in Nat
    BY <1>5, <1>8 DEF ReturnCommit, StepOp
  <2>2. history' \subseteq HistoryRow
    BY <1>8, <2>1, RowType DEF ReturnCommit, ApprovalTypeOK, HistoryAction
  <2>3. events' \in [Request -> SUBSET Event]
    BY <1>8, <2>1, EmitType DEF ReturnCommit, EventFor, Event
  <2> QED
    BY <1>8, <2>2, <2>3, FinishType DEF ReturnCommit, ApprovalTypeOK
<1>9. ASSUME NEW p \in Proc, DelegateCommit(p)
      PROVE  ApprovalTypeOK'
  <2> DEFINE c == call[p]
  <2>1. /\ c.req \in Request /\ c.actor \in User /\ c.step \in Nat
        /\ c.to \in User \cup {NoOne}
    BY <1>5, <1>9 DEF DelegateCommit, StepOp
  <2>2. [steps[c.req] EXCEPT ![c.step] = [@ EXCEPT !.user = c.to, !.role = NoOne]]
          \in Seq(Instance)
    BY <2>1, StepWriteType DEF ApprovalTypeOK
  <2>3. steps' \in [Request -> Seq(Instance)]
    BY <1>9, <2>1, <2>2 DEF DelegateCommit, ApprovalTypeOK
  <2>4. history' \subseteq HistoryRow
    BY <1>9, <2>1, RowType DEF DelegateCommit, ApprovalTypeOK, HistoryAction
  <2>5. events' \in [Request -> SUBSET Event]
    BY <1>9, <2>1, EmitType DEF DelegateCommit, Event
  <2> QED
    BY <1>9, <2>3, <2>4, <2>5, FinishType DEF DelegateCommit, ApprovalTypeOK
<1>10. ASSUME NEW p \in Proc, EndCommit(p)
       PROVE  ApprovalTypeOK'
  <2> DEFINE c == call[p]
             st == IF c.op = "withdraw" THEN "WITHDRAWN" ELSE "CANCELLED"
             ended == [i \in DOMAIN steps[c.req] |->
                         IF steps[c.req][i].status = "PENDING"
                         THEN [steps[c.req][i] EXCEPT !.status = st]
                         ELSE steps[c.req][i]]
  <2>1. c.req \in Request /\ c.actor \in User
    BY <1>10 DEF EndCommit, ApprovalTypeOK, SubmitCall, StepCall, EndCall, EndOp, StepOp
  <2>2. ended \in Seq(Instance)
    <3>1. steps[c.req] \in Seq(Instance)
      BY <2>1 DEF ApprovalTypeOK
    <3>2. ended \in [1 .. Len(steps[c.req]) -> Instance]
      <4>1. st \in Status
        BY DEF Status, TERMINAL_APPROVAL_STATUSES
      <4> HIDE DEF st
      <4>2. ASSUME NEW x \in Instance
            PROVE  [x EXCEPT !.status = st] \in Instance
        BY <4>1 DEF Instance
      <4>3. \A i \in 1 .. Len(steps[c.req]) : steps[c.req][i] \in Instance
        BY <3>1
      <4> QED
        BY <3>1, <4>2, <4>3
    <3>3. Len(steps[c.req]) \in Nat
      BY <3>1
    <3> HIDE DEF ended
    <3> QED
      BY <3>2, <3>3
  <2>3. steps' = [steps EXCEPT ![c.req] = ended]
    BY <1>10, <2>1 DEF EndCommit, ApprovalTypeOK
  <2>4. steps' \in [Request -> Seq(Instance)]
    BY <2>1, <2>2, <2>3 DEF ApprovalTypeOK
  <2>5. history' \subseteq HistoryRow
    <3>1. history' = history \cup {Row(c.req, 0, c.actor, "CANCELLED")}
      BY <1>10 DEF EndCommit
    <3>2. Row(c.req, 0, c.actor, "CANCELLED") \in HistoryRow
      BY <2>1, RowType DEF HistoryAction
    <3> QED
      BY <3>1, <3>2 DEF ApprovalTypeOK
  <2>6. events' \in [Request -> SUBSET Event]
    BY <1>10, <2>1, EmitType DEF EndCommit, Event
  <2> QED
    BY <1>10, <2>1, <2>4, <2>5, <2>6, TerminalType, FinishType
    DEF EndCommit, ApprovalTypeOK, TERMINAL_APPROVAL_STATUSES
<1>11. ASSUME NEW p \in Proc, Abort(p)
       PROVE  ApprovalTypeOK'
  BY <1>11, FinishType DEF Abort, requestVars, ApprovalTypeOK
<1>12. ASSUME NEW u \in User, NEW r \in Request, SubmitWithoutWorkflow(u, r)
       PROVE  ApprovalTypeOK'
  <2>1. history' \subseteq HistoryRow
    BY <1>12, RowType DEF SubmitWithoutWorkflow, ApprovalTypeOK, HistoryAction
  <2>2. events' \in [Request -> SUBSET Event]
    BY <1>12, EmitType DEF SubmitWithoutWorkflow, Event
  <2> QED
    BY <1>12, <2>1, <2>2
    DEF SubmitWithoutWorkflow, ApprovalTypeOK, Status, TERMINAL_APPROVAL_STATUSES
<1>13. ASSUME NEW u \in User, NEW r \in Request, Comment(u, r)
       PROVE  ApprovalTypeOK'
  <2>1. history' \subseteq HistoryRow
    BY <1>13, RowType DEF Comment, ApprovalTypeOK, HistoryAction
  <2>2. events' \in [Request -> SUBSET Event]
    BY <1>13, EmitType DEF Comment, Event
  <2> QED
    BY <1>13, <2>1, <2>2 DEF Comment, ApprovalTypeOK
<1>14. ASSUME NEW r \in Request, LinkWorkforceAction(r)
       PROVE  ApprovalTypeOK'
  BY <1>14 DEF LinkWorkforceAction, ApprovalTypeOK, ActionStatus
<1>15. ASSUME NEW p \in Proc, Begin(p)
       PROVE  ApprovalTypeOK'
  BY <1>1, <1>2, <1>3, <1>15 DEF Begin, StepOp
<1>16. ASSUME NEW p \in Proc, Commit(p)
       PROVE  ApprovalTypeOK'
  BY <1>4, <1>6, <1>7, <1>8, <1>9, <1>10, <1>16 DEF Commit
<1> QED
  BY <1>11, <1>12, <1>13, <1>14, <1>15, <1>16 DEF RequestNext

\* Every reachable state is well typed: statuses stay in their enumerations,
\* step lists stay lists of step instances, histories and calls well formed.
THEOREM TypeCorrect == Spec => []TypeOK
<1>1. Init => ApprovalTypeOK /\ DelegationInv
  BY InitType, DelegationAssumption
  DEF TypeOK, DelegationInv, Init, DelegationInit, UpdatesNameRows
<1>2. ApprovalTypeOK /\ DelegationInv /\ [Next]_vars => (ApprovalTypeOK /\ DelegationInv)'
  <2> SUFFICES ASSUME ApprovalTypeOK, DelegationInv, [Next]_vars
               PROVE  (ApprovalTypeOK /\ DelegationInv)'
    OBVIOUS
  <2>1. CASE RequestNext /\ UNCHANGED delegationVars /\ UNCHANGED definitionVars
    BY <2>1, RequestStepType, DelegationStep
  <2>2. CASE DelegationNext /\ UNCHANGED <<requestVars, definitionVars, call>>
    <3>1. ApprovalTypeOK'
      BY <2>2 DEF requestVars, definitionVars, ApprovalTypeOK
    <3> QED
      BY <2>2, <3>1, DelegationStep
  <2>3. CASE UNCHANGED vars
    <3>1. ApprovalTypeOK'
      BY <2>3 DEF vars, ApprovalTypeOK
    <3>2. UNCHANGED delegationVars
      BY <2>3 DEF vars, delegationVars
    <3> QED
      BY <3>1, <3>2, DelegationStep
  <2> QED
    BY <2>1, <2>2, <2>3 DEF Next
<1>3. ApprovalTypeOK /\ DelegationInv => TypeOK
  BY DEF DelegationInv, TypeOK
<1> QED
  BY <1>1, <1>2, <1>3, PTL DEF Spec

----------------------------------------------------------------------------
(* Safety: the inductive invariant ApprovalInv *)

\* A step that leaves a request alone, and can only add history, keeps what
\* RequestInv says of it.
LEMMA RequestFrame ==
  ASSUME NEW r \in Request, RequestInv(r),
         status'[r] = status[r], steps'[r] = steps[r],
         workforceAction'[r] = workforceAction[r],
         history \subseteq history', stepDef' = stepDef
  PROVE  RequestInv(r)'
BY DEF RequestInv, SignedOff, Stops, Row

\* A step that writes no request at all.
LEMMA NoRequestWritten ==
  ASSUME \A r \in Request : RequestInv(r), UNCHANGED requestVars, UNCHANGED definitionVars
  PROVE  \A r \in Request : RequestInv(r)'
BY RequestFrame DEF requestVars, definitionVars

\* A commit about one request that changes no other one.
LEMMA OthersUntouched ==
  ASSUME ApprovalTypeOK, NEW r0 \in Request,
         \A r \in Request : RequestInv(r),
         RequestInv(r0)',
         \A r \in Request \ {r0} :
           /\ status'[r] = status[r] /\ steps'[r] = steps[r]
           /\ workforceAction'[r] = workforceAction[r],
         history \subseteq history', stepDef' = stepDef
  PROVE  \A r \in Request : RequestInv(r)'
<1> SUFFICES ASSUME NEW r \in Request PROVE RequestInv(r)'
  OBVIOUS
<1>1. CASE r = r0
  BY <1>1
<1>2. CASE r # r0
  BY <1>2, RequestFrame
<1> QED
  BY <1>1, <1>2

\* The end of advanceAutomatedSteps: what holds of the steps it starts from
\* is enough for RequestInv of the request it leaves behind.
LEMMA AdvanceInv ==
  ASSUME ApprovalTypeOK, NEW r \in Request, NEW ss \in Seq(Instance),
         NEW otherwise \in Status,
         AdvanceAutomatedSteps(r, ss, otherwise),
         history \subseteq history', stepDef' = stepDef,
         \A i \in DOMAIN ss :
           (ss[i].status = "APPROVED" /\ Stops(ss[i])) => SignedOff(r, i)',
         workforceAction[r] = "PENDING_APPROVAL" =>
           otherwise = "PENDING" /\ \A i \in DOMAIN ss : ss[i].status \in {"PENDING", "APPROVED"},
         otherwise = "PENDING" =>
           /\ workforceAction[r] \in {"NONE", "PENDING_APPROVAL"}
           /\ \A i \in DOMAIN ss : ss[i].status \in {"PENDING", "APPROVED"},
         workforceAction[r] = "APPROVED" =>
           \A i \in DOMAIN ss : Stops(ss[i]) => SignedOff(r, i)
  PROVE  RequestInv(r)'
<1>0. PICK f : f = Advanced(ss)
  OBVIOUS
<1>1. /\ f \in Seq(Instance) /\ DOMAIN f = DOMAIN ss
      /\ \A i \in DOMAIN ss :
           /\ f[i].def = ss[i].def
           /\ ss[i].status # "PENDING" => f[i] = ss[i]
           /\ f[i] # ss[i] => f[i].status = "APPROVED" /\ ~Stops(ss[i])
  BY <1>0, AdvancedFacts
<1>2. steps'[r] = f
  BY <1>0 DEF AdvanceAutomatedSteps, ApprovalTypeOK
<1>3. \A i \in DOMAIN ss : Stops(f[i])' <=> Stops(ss[i])
  BY <1>1 DEF Stops
<1>4. \A i \in DOMAIN ss : (f[i].status = "APPROVED" /\ Stops(ss[i])) => SignedOff(r, i)'
  BY <1>1
<1>5. \A i \in DOMAIN f : SignedOff(r, i) => SignedOff(r, i)'
  BY DEF SignedOff, Row
<1>6. CASE Pending(f) = {}
  <2>1. status'[r] = "APPROVED"
    BY <1>0, <1>6 DEF AdvanceAutomatedSteps, SetRequestTerminal, ApprovalTypeOK
  <2>2. workforceAction'[r] = IF workforceAction[r] = "PENDING_APPROVAL"
                              THEN "APPROVED" ELSE workforceAction[r]
    BY <1>0, <1>6 DEF AdvanceAutomatedSteps, SetRequestTerminal, SettledAs, ApprovalTypeOK
  <2>3. workforceAction'[r] = "APPROVED" =>
          \A i \in DOMAIN f : Stops(f[i])' => SignedOff(r, i)'
    <3>1. CASE workforceAction[r] = "PENDING_APPROVAL"
      <4>1. \A i \in DOMAIN f : f[i].status = "APPROVED"
        BY <1>1, <1>6, <3>1 DEF Pending
      <4> QED
        BY <1>1, <1>3, <1>4, <4>1
    <3>2. CASE workforceAction[r] # "PENDING_APPROVAL"
      BY <1>1, <1>3, <1>5, <2>2, <3>2
    <3> QED
      BY <3>1, <3>2
  <2>4. /\ status'[r] # "NONE" /\ status'[r] # "PENDING"
        /\ workforceAction'[r] # "PENDING_APPROVAL"
    BY <2>1, <2>2
  <2>5. \A i \in DOMAIN f : (f[i].status = "APPROVED" /\ Stops(f[i])') => SignedOff(r, i)'
    BY <1>1, <1>3, <1>4
  <2> QED
    BY <1>2, <2>3, <2>4, <2>5 DEF RequestInv
<1>7. CASE Pending(f) # {}
  <2>1. status'[r] = otherwise /\ workforceAction'[r] = workforceAction[r]
    BY <1>0, <1>7 DEF AdvanceAutomatedSteps, ApprovalTypeOK
  <2>2. status'[r] # "NONE"
    BY <2>1 DEF Status, TERMINAL_APPROVAL_STATUSES
  <2>3. status'[r] = "PENDING" =>
          /\ workforceAction'[r] \in {"NONE", "PENDING_APPROVAL"}
          /\ \A i \in DOMAIN f : f[i].status \in {"PENDING", "APPROVED"}
    BY <1>1, <2>1
  <2>4. status'[r] \in TERMINAL_APPROVAL_STATUSES => workforceAction'[r] # "PENDING_APPROVAL"
    BY <2>1 DEF TERMINAL_APPROVAL_STATUSES
  <2>5. \A i \in DOMAIN f : (f[i].status = "APPROVED" /\ Stops(f[i])') => SignedOff(r, i)'
    BY <1>1, <1>3, <1>4
  <2>6. workforceAction'[r] = "APPROVED" =>
          \A i \in DOMAIN f : Stops(f[i])' => SignedOff(r, i)'
    BY <1>1, <1>3, <1>5, <2>1
  <2> QED
    BY <1>2, <2>2, <2>3, <2>4, <2>5, <2>6 DEF RequestInv
<1> QED
  BY <1>6, <1>7

\* The parts of a call in flight, by its operation.
LEMMA CallType ==
  ASSUME ApprovalTypeOK, NEW p \in Proc, call[p] # Idle
  PROVE  /\ call[p].req \in Request /\ call[p].actor \in User
         /\ call[p].op = "submit" => /\ call[p].plan \in Seq(Instance)
                                    /\ call[p].workflow \in WorkflowId
         /\ call[p].op \in StepOp => /\ call[p].step \in Nat \ {0}
                                     /\ call[p].to \in User \cup {NoOne}
BY DEF ApprovalTypeOK, SubmitCall, StepCall, EndCall, StepOp, EndOp

\* A commit keeps what is known of the calls still in flight: a submission has
\* its request to itself, and no commit uncreates a request.
LEMMA CallsAfterCommit ==
  ASSUME ApprovalTypeOK, NEW p \in Proc, call[p] # Idle, Finish(p),
         \A q \in Proc : CallInv(q),
         \A r \in Request \ {call[p].req} : status'[r] = status[r],
         status'[call[p].req] # "NONE"
  PROVE  \A q \in Proc : CallInv(q)'
<1> SUFFICES ASSUME NEW q \in Proc PROVE CallInv(q)'
  OBVIOUS
<1>1. call'[p] = Idle /\ \A x \in Proc \ {p} : call'[x] = call[x]
  BY DEF Finish, ApprovalTypeOK
<1>2. CASE q = p
  BY <1>1, <1>2 DEF CallInv
<1>3. CASE q # p /\ call[q] # Idle
  <2>1. call[q].req \in Request /\ call[p].req \in Request
    BY <1>3, CallType
  <2>2. CASE call[q].op = "submit"
    <3>1. status'[call[q].req] = "NONE"
      BY <1>3, <2>1, <2>2 DEF CallInv
    <3>2. \A x \in Proc \ {q} : call'[x] # Idle => call'[x].req # call[q].req
      BY <1>1, <1>3, <2>2 DEF CallInv
    <3> QED
      BY <1>1, <1>3, <2>2, <3>1, <3>2 DEF CallInv
  <2>3. CASE call[q].op # "submit"
    BY <1>1, <1>3, <2>1, <2>3 DEF CallInv
  <2> QED
    BY <2>2, <2>3
<1>4. CASE q # p /\ call[q] = Idle
  BY <1>1, <1>4 DEF CallInv
<1> QED
  BY <1>2, <1>3, <1>4

\* The steps of a handler that only reads, or that gives up.
LEMMA ReadInv ==
  ASSUME ApprovalTypeOK, ApprovalInv, UNCHANGED definitionVars, NEW p \in Proc,
         Begin(p) \/ Abort(p)
  PROVE  ApprovalInv'
<1> USE ApprovalsAssumption
<1>1. UNCHANGED requestVars
  BY DEF Begin, Abort, SubmitRead, StepRead, EndRead
<1>2. \A r \in Request : RequestInv(r)'
  BY <1>1, NoRequestWritten DEF ApprovalInv
<1>3. status' = status
  BY <1>1 DEF requestVars
<1>4. CASE Abort(p)
  <2>1. \A q \in Proc : call'[q] = IF q = p THEN Idle ELSE call[q]
    BY <1>4 DEF Abort, Finish, ApprovalTypeOK
  <2>2. \A q \in Proc : CallInv(q)'
    BY <1>3, <2>1 DEF ApprovalInv, CallInv
  <2> QED
    BY <1>2, <2>2 DEF ApprovalInv
<1>5. ASSUME NEW u \in User, NEW r \in Request, NEW w \in WorkflowId,
             SubmitRead(p, u, r, w)
      PROVE  \A q \in Proc : CallInv(q)'
  <2>1. PICK plan \in Plans(w) :
          call' = [call EXCEPT ![p] = [op |-> "submit", actor |-> u, req |-> r,
                                       workflow |-> w, plan |-> plan]]
    BY <1>5 DEF SubmitRead
  <2>2. /\ call'[p].op = "submit" /\ call'[p].req = r /\ status'[r] = "NONE"
        /\ \A q \in Proc \ {p} : call'[q] = call[q]
        /\ \A q \in Proc : call[q] # Idle => call[q].req # r
        /\ call'[p].plan = plan
    BY <1>3, <1>5, <2>1 DEF SubmitRead, ApprovalTypeOK
  <2>3. \A i \in DOMAIN plan : plan[i].status = "PENDING"
    BY DEF Plans
  <2> QED
    BY <1>3, <2>2, <2>3 DEF ApprovalInv, CallInv
<1>6. ASSUME NEW u \in User, NEW r \in Request, NEW op \in StepOp \cup EndOp,
             status[r] = "PENDING",
             \/ \E to \in User \cup {NoOne} : StepRead(p, u, r, op, to)
             \/ EndRead(p, u, r, op)
      PROVE  \A q \in Proc : CallInv(q)'
  <2>1. /\ call'[p].op = op /\ call'[p].req = r /\ op # "submit"
        /\ \A q \in Proc \ {p} : call'[q] = call[q]
    BY <1>6 DEF StepRead, EndRead, ApprovalTypeOK, StepOp, EndOp
  <2>2. \A q \in Proc \ {p} : (call[q] # Idle /\ call[q].op = "submit") =>
                              call[q].req # r
    BY <1>6 DEF ApprovalInv, CallInv
  <2> QED
    BY <1>3, <1>6, <2>1, <2>2 DEF ApprovalInv, CallInv
<1>7. CASE Begin(p)
  <2>1. \A q \in Proc : CallInv(q)'
    BY <1>5, <1>6, <1>7 DEF Begin, StepRead, EndRead, StepOp, EndOp
  <2> QED
    BY <1>2, <2>1 DEF ApprovalInv
<1> QED
  BY <1>4, <1>7

\* A new request: all steps pending, then advanced.
LEMMA SubmitInv ==
  ASSUME ApprovalTypeOK, ApprovalInv, UNCHANGED definitionVars, NEW p \in Proc,
         SubmitCommit(p)
  PROVE  ApprovalInv'
<1>1. PICK r \in Request, ss \in Seq(Instance) :
        /\ call[p] # Idle /\ r = call[p].req /\ ss = call[p].plan
        /\ status[r] = "NONE" /\ \A i \in DOMAIN ss : ss[i].status = "PENDING"
  BY CallType DEF SubmitCommit, ApprovalInv, CallInv
<1>2. workforceAction[r] = "NONE"
  BY <1>1 DEF ApprovalInv, RequestInv
<1>3. /\ AdvanceAutomatedSteps(r, ss, "PENDING")
      /\ history \subseteq history' /\ stepDef' = stepDef
  BY <1>1 DEF SubmitCommit, definitionVars
<1>4. RequestInv(r)'
  BY <1>1, <1>2, <1>3, AdvanceInv DEF Status
<1>5. \A x \in Request \ {r} :
        /\ status'[x] = status[x] /\ steps'[x] = steps[x]
        /\ workforceAction'[x] = workforceAction[x]
  BY <1>3 DEF AdvanceAutomatedSteps, SetRequestTerminal, ApprovalTypeOK
<1>6. status'[r] # "NONE"
  BY <1>3 DEF AdvanceAutomatedSteps, SetRequestTerminal, ApprovalTypeOK
<1>7. \A x \in Request : RequestInv(x)'
  BY <1>3, <1>4, <1>5, OthersUntouched DEF ApprovalInv
<1>8. \A q \in Proc : CallInv(q)'
  BY <1>1, <1>5, <1>6, CallsAfterCommit DEF SubmitCommit, ApprovalInv
<1> QED
  BY <1>7, <1>8 DEF ApprovalInv

\* An approval, also one whose request has ended since it was read: the step
\* it approves has its row in the history when the request advances.
LEMMA ApproveInv ==
  ASSUME ApprovalTypeOK, ApprovalInv, UNCHANGED definitionVars, NEW p \in Proc,
         ApproveCommit(p)
  PROVE  ApprovalInv'
<1>1. PICK r \in Request, u \in User, k \in Nat, s0 \in Seq(Instance),
           otherwise \in Status :
        /\ call[p] # Idle /\ r = call[p].req /\ u = call[p].actor /\ k = call[p].step
        /\ s0 = steps[r] /\ otherwise = status[r]
  BY CallType DEF ApproveCommit, StepOp, ApprovalTypeOK, ApprovalInv, CallInv
<1>2. PICK ss : ss = [s0 EXCEPT ![k].status = "APPROVED"]
  OBVIOUS
<1>3. /\ AdvanceAutomatedSteps(r, ss, otherwise)
      /\ history \subseteq history' /\ stepDef' = stepDef
      /\ Row(r, k, u, "APPROVED") \in history'
  BY <1>1, <1>2 DEF ApproveCommit, definitionVars
<1>4. ss \in Seq(Instance)
  BY <1>2, StepWriteType DEF Status, TERMINAL_APPROVAL_STATUSES
<1>50. \A i \in DOMAIN s0 : s0[i] \in Instance
  OBVIOUS
<1>51. /\ DOMAIN ss = DOMAIN s0
       /\ \A i \in DOMAIN ss : i # k => ss[i] = s0[i]
       /\ \A i \in DOMAIN ss : ss[i].status = s0[i].status \/ ss[i].status = "APPROVED"
  BY <1>2, <1>50 DEF Instance
<1>5. \A i \in DOMAIN ss : Stops(ss[i]) <=> Stops(s0[i])
  BY <1>2, <1>50 DEF Stops, Instance
<1>6. /\ otherwise = "PENDING" =>
           /\ workforceAction[r] \in {"NONE", "PENDING_APPROVAL"}
           /\ \A i \in DOMAIN s0 : s0[i].status \in {"PENDING", "APPROVED"}
      /\ otherwise \in TERMINAL_APPROVAL_STATUSES => workforceAction[r] # "PENDING_APPROVAL"
      /\ \A i \in DOMAIN s0 :
           (s0[i].status = "APPROVED" /\ Stops(s0[i])) => SignedOff(r, i)
      /\ workforceAction[r] = "APPROVED" =>
           \A i \in DOMAIN s0 : Stops(s0[i]) => SignedOff(r, i)
  <2>1. RequestInv(r)
    BY DEF ApprovalInv
  <2> QED
    BY <1>1, <2>1 DEF RequestInv
<1>7. \A i \in DOMAIN ss : (ss[i].status = "APPROVED" /\ Stops(ss[i])) => SignedOff(r, i)'
  <2> SUFFICES ASSUME NEW i \in DOMAIN ss, ss[i].status = "APPROVED", Stops(ss[i])
               PROVE  SignedOff(r, i)'
    OBVIOUS
  <2>1. CASE i = k
    BY <1>3, <2>1 DEF SignedOff, Row
  <2>2. CASE i # k
    <3>1. i \in DOMAIN s0 /\ ss[i] = s0[i]
      BY <1>51, <2>2
    <3>2. s0[i].status = "APPROVED" /\ Stops(s0[i])
      BY <3>1
    <3>3. SignedOff(r, i)
      BY <1>6, <3>1, <3>2
    <3> QED
      BY <1>3, <3>3 DEF SignedOff, Row
  <2> QED
    BY <2>1, <2>2
<1>8. RequestInv(r)'
  <2>1. workforceAction[r] = "PENDING_APPROVAL" => otherwise = "PENDING"
    BY <1>6 DEF Status
  <2>2. otherwise = "PENDING" =>
          /\ workforceAction[r] \in {"NONE", "PENDING_APPROVAL"}
          /\ \A i \in DOMAIN ss : ss[i].status \in {"PENDING", "APPROVED"}
    BY <1>5, <1>51, <1>6
  <2>3. workforceAction[r] = "APPROVED" =>
          \A i \in DOMAIN ss : Stops(ss[i]) => SignedOff(r, i)
    BY <1>5, <1>51, <1>6
  <2> QED
    BY <1>3, <1>4, <1>7, <2>1, <2>2, <2>3, AdvanceInv
<1>9. \A x \in Request \ {r} :
        /\ status'[x] = status[x] /\ steps'[x] = steps[x]
        /\ workforceAction'[x] = workforceAction[x]
  BY <1>3 DEF AdvanceAutomatedSteps, SetRequestTerminal, ApprovalTypeOK
<1>10. status'[r] # "NONE"
  BY <1>3 DEF AdvanceAutomatedSteps, SetRequestTerminal, ApprovalTypeOK, Status,
              TERMINAL_APPROVAL_STATUSES
<1>11. \A x \in Request : RequestInv(x)'
  BY <1>3, <1>8, <1>9, OthersUntouched DEF ApprovalInv
<1>12. \A q \in Proc : CallInv(q)'
  BY <1>1, <1>9, <1>10, CallsAfterCommit DEF ApproveCommit, ApprovalInv
<1> QED
  BY <1>11, <1>12 DEF ApprovalInv

\* Writes that approve no step and no workforce action.
LEMMA NothingApproved ==
  ASSUME NEW r \in Request, RequestInv(r), NEW ss, steps'[r] = ss,
         DOMAIN ss = DOMAIN steps[r],
         \A i \in DOMAIN ss :
           /\ ss[i].def = steps[r][i].def
           /\ ss[i].status = "APPROVED" => steps[r][i].status = "APPROVED",
         workforceAction'[r] = "APPROVED" => workforceAction[r] = "APPROVED",
         history \subseteq history', stepDef' = stepDef,
         status'[r] # "NONE",
         status'[r] = "PENDING" =>
           /\ workforceAction'[r] \in {"NONE", "PENDING_APPROVAL"}
           /\ \A i \in DOMAIN ss : ss[i].status \in {"PENDING", "APPROVED"},
         status'[r] \in TERMINAL_APPROVAL_STATUSES =>
           workforceAction'[r] # "PENDING_APPROVAL"
  PROVE  RequestInv(r)'
<1>1. PICK s0 : s0 = steps[r]
  OBVIOUS
<1>2. \A i \in DOMAIN ss : Stops(ss[i])' <=> Stops(s0[i])
  BY <1>1 DEF Stops
<1>3. \A i \in DOMAIN s0 :
        /\ (s0[i].status = "APPROVED" /\ Stops(s0[i])) => SignedOff(r, i)
        /\ (workforceAction[r] = "APPROVED" /\ Stops(s0[i])) => SignedOff(r, i)
  BY <1>1 DEF RequestInv
<1>4. \A i \in DOMAIN s0 : SignedOff(r, i) => SignedOff(r, i)'
  BY DEF SignedOff, Row
<1>5. \A i \in DOMAIN ss : (ss[i].status = "APPROVED" /\ Stops(ss[i])') => SignedOff(r, i)'
  <2> SUFFICES ASSUME NEW i \in DOMAIN ss, ss[i].status = "APPROVED", Stops(ss[i])'
               PROVE  SignedOff(r, i)'
    OBVIOUS
  <2>1. i \in DOMAIN s0 /\ s0[i].status = "APPROVED"
    BY <1>1
  <2>2. Stops(s0[i])
    BY <1>2
  <2> QED
    BY <1>3, <1>4, <2>1, <2>2
<1>6. workforceAction'[r] = "APPROVED" =>
        \A i \in DOMAIN ss : Stops(ss[i])' => SignedOff(r, i)'
  BY <1>1, <1>2, <1>3, <1>4
<1> QED
  BY <1>5, <1>6 DEF RequestInv

\* rejectRequest: a rejected step signs nothing off.
LEMMA RejectInv ==
  ASSUME ApprovalTypeOK, ApprovalInv, UNCHANGED definitionVars, NEW p \in Proc,
         RejectCommit(p)
  PROVE  ApprovalInv'
<1>1. PICK r \in Request, k \in Nat, s0 \in Seq(Instance) :
        call[p] # Idle /\ r = call[p].req /\ k = call[p].step /\ s0 = steps[r]
  BY CallType DEF RejectCommit, StepOp, ApprovalTypeOK
<1>2. PICK ss : ss = [s0 EXCEPT ![k].status = "REJECTED"]
  OBVIOUS
<1>3. /\ steps' = [steps EXCEPT ![r] = ss] /\ SetRequestTerminal(r, "REJECTED")
      /\ history \subseteq history' /\ stepDef' = stepDef
  BY <1>1, <1>2 DEF RejectCommit, definitionVars
<1>4. /\ steps'[r] = ss /\ status'[r] = "REJECTED"
      /\ workforceAction'[r] = IF workforceAction[r] = "PENDING_APPROVAL"
                               THEN "REJECTED" ELSE workforceAction[r]
  BY <1>3 DEF ApprovalTypeOK, SetRequestTerminal, SettledAs
<1>5. \A i \in DOMAIN s0 : s0[i] \in Instance
  OBVIOUS
<1>6. /\ DOMAIN ss = DOMAIN s0
      /\ \A i \in DOMAIN ss :
           /\ ss[i].def = s0[i].def
           /\ ss[i].status = "APPROVED" => s0[i].status = "APPROVED"
  BY <1>2, <1>5 DEF Instance
<1>7. RequestInv(r)'
  BY <1>1, <1>3, <1>4, <1>6, NothingApproved DEF ApprovalInv
<1>8. \A x \in Request \ {r} :
        /\ status'[x] = status[x] /\ steps'[x] = steps[x]
        /\ workforceAction'[x] = workforceAction[x]
  BY <1>3 DEF SetRequestTerminal, ApprovalTypeOK
<1>9. \A x \in Request : RequestInv(x)'
  BY <1>3, <1>7, <1>8, OthersUntouched DEF ApprovalInv
<1>10. \A q \in Proc : CallInv(q)'
  BY <1>1, <1>4, <1>8, CallsAfterCommit DEF RejectCommit, ApprovalInv
<1> QED
  BY <1>9, <1>10 DEF ApprovalInv

\* A return or a delegation writes no status.
LEMMA ReturnInv ==
  ASSUME ApprovalTypeOK, ApprovalInv, UNCHANGED definitionVars, NEW p \in Proc,
         ReturnCommit(p)
  PROVE  ApprovalInv'
<1>1. /\ call[p] # Idle /\ call[p].op = "return" /\ call[p].req \in Request
      /\ history \subseteq history' /\ stepDef' = stepDef
      /\ UNCHANGED <<status, steps, workforceAction>> /\ Finish(p)
  BY CallType DEF ReturnCommit, definitionVars
<1>2. \A r \in Request : RequestInv(r)'
  BY <1>1, RequestFrame DEF ApprovalInv
<1>3. status'[call[p].req] # "NONE"
  BY <1>1 DEF ApprovalInv, CallInv
<1>4. \A q \in Proc : CallInv(q)'
  BY <1>1, <1>3, CallsAfterCommit DEF ApprovalInv
<1> QED
  BY <1>2, <1>4 DEF ApprovalInv

\* delegateCurrentStep: a step that changes hands keeps its status.
LEMMA DelegateInv ==
  ASSUME ApprovalTypeOK, ApprovalInv, UNCHANGED definitionVars, NEW p \in Proc,
         DelegateCommit(p)
  PROVE  ApprovalInv'
<1>1. PICK r \in Request, k \in Nat, s0 \in Seq(Instance), to \in User \cup {NoOne} :
        /\ call[p] # Idle /\ r = call[p].req /\ k = call[p].step
        /\ s0 = steps[r] /\ to = call[p].to
  BY CallType DEF DelegateCommit, StepOp, ApprovalTypeOK
<1>2. PICK ss : ss = [s0 EXCEPT ![k] = [@ EXCEPT !.user = to, !.role = NoOne]]
  OBVIOUS
<1>3. /\ steps' = [steps EXCEPT ![r] = ss]
      /\ UNCHANGED <<status, workforceAction>> /\ Finish(p)
      /\ history \subseteq history' /\ stepDef' = stepDef
  BY <1>1, <1>2 DEF DelegateCommit, definitionVars, ApprovalTypeOK
<1>4. steps'[r] = ss
  BY <1>3 DEF ApprovalTypeOK
<1>5. \A i \in DOMAIN s0 : s0[i] \in Instance
  OBVIOUS
<1>6. /\ DOMAIN ss = DOMAIN s0
      /\ \A i \in DOMAIN ss : ss[i].def = s0[i].def /\ ss[i].status = s0[i].status
  BY <1>2, <1>5 DEF Instance
<1>7. status[r] # "NONE" /\ RequestInv(r)
  BY <1>1 DEF ApprovalInv, CallInv, DelegateCommit
<1>8. /\ status[r] = "PENDING" =>
           /\ workforceAction[r] \in {"NONE", "PENDING_APPROVAL"}
           /\ \A i \in DOMAIN ss : ss[i].status \in {"PENDING", "APPROVED"}
      /\ status[r] \in TERMINAL_APPROVAL_STATUSES => workforceAction[r] # "PENDING_APPROVAL"
  BY <1>1, <1>6, <1>7 DEF RequestInv
<1>9. RequestInv(r)'
  BY <1>1, <1>3, <1>4, <1>6, <1>7, <1>8, NothingApproved
<1>10. \A x \in Request \ {r} : steps'[x] = steps[x]
  BY <1>3 DEF ApprovalTypeOK
<1>11. \A x \in Request : RequestInv(x)'
  BY <1>3, <1>9, <1>10, OthersUntouched DEF ApprovalInv
<1>12. \A q \in Proc : CallInv(q)'
  BY <1>1, <1>3, <1>7, CallsAfterCommit DEF ApprovalInv
<1> QED
  BY <1>11, <1>12 DEF ApprovalInv

\* cancelRequest and withdrawRequest: steps that were pending are not approved.
LEMMA EndInv ==
  ASSUME ApprovalTypeOK, ApprovalInv, UNCHANGED definitionVars, NEW p \in Proc,
         EndCommit(p)
  PROVE  ApprovalInv'
<1>1. PICK r \in Request, st \in {"CANCELLED", "WITHDRAWN"}, s0 \in Seq(Instance) :
        /\ call[p] # Idle /\ r = call[p].req /\ s0 = steps[r]
        /\ st = IF call[p].op = "withdraw" THEN "WITHDRAWN" ELSE "CANCELLED"
  BY CallType DEF EndCommit, ApprovalTypeOK
<1>2. PICK ss : ss = [i \in DOMAIN s0 |-> IF s0[i].status = "PENDING"
                                         THEN [s0[i] EXCEPT !.status = st] ELSE s0[i]]
  OBVIOUS
<1>3. /\ steps' = [steps EXCEPT ![r] = ss] /\ SetRequestTerminal(r, st)
      /\ history \subseteq history' /\ stepDef' = stepDef
  BY <1>1, <1>2 DEF EndCommit, definitionVars
<1>4. /\ steps'[r] = ss /\ status'[r] = st
      /\ workforceAction'[r] = IF workforceAction[r] = "PENDING_APPROVAL"
                               THEN "CANCELLED" ELSE workforceAction[r]
  BY <1>3 DEF ApprovalTypeOK, SetRequestTerminal, SettledAs
<1>5. \A i \in DOMAIN s0 : s0[i] \in Instance
  OBVIOUS
<1>6. /\ DOMAIN ss = DOMAIN s0
      /\ \A i \in DOMAIN ss :
           /\ ss[i].def = s0[i].def
           /\ ss[i].status = "APPROVED" => s0[i].status = "APPROVED"
  BY <1>2, <1>5 DEF Instance
<1>7. RequestInv(r)'
  BY <1>1, <1>3, <1>4, <1>6, NothingApproved DEF ApprovalInv
<1>8. \A x \in Request \ {r} :
        /\ status'[x] = status[x] /\ steps'[x] = steps[x]
        /\ workforceAction'[x] = workforceAction[x]
  BY <1>3 DEF SetRequestTerminal, ApprovalTypeOK
<1>9. \A x \in Request : RequestInv(x)'
  BY <1>3, <1>7, <1>8, OthersUntouched DEF ApprovalInv
<1>10. \A q \in Proc : CallInv(q)'
  BY <1>1, <1>4, <1>8, CallsAfterCommit DEF EndCommit, ApprovalInv
<1> QED
  BY <1>9, <1>10 DEF ApprovalInv

\* Any commit keeps the invariant.
LEMMA CommitInv ==
  ASSUME ApprovalTypeOK, ApprovalInv, UNCHANGED definitionVars, NEW p \in Proc,
         Commit(p)
  PROVE  ApprovalInv'
BY SubmitInv, ApproveInv, RejectInv, ReturnInv, DelegateInv, EndInv DEF Commit

\* So does any step of the approval engine.
LEMMA RequestStepInv ==
  ASSUME ApprovalTypeOK, ApprovalInv, RequestNext, UNCHANGED definitionVars
  PROVE  ApprovalInv'
<1>1. ASSUME NEW p \in Proc, Begin(p) \/ Commit(p) \/ Abort(p)
      PROVE  ApprovalInv'
  BY <1>1, ReadInv, CommitInv
<1>2. ASSUME NEW u \in User, NEW r \in Request, SubmitWithoutWorkflow(u, r)
      PROVE  ApprovalInv'
  <2>1. /\ status'[r] = "APPROVED" /\ status[r] = "NONE"
        /\ UNCHANGED <<steps, workforceAction, call>>
        /\ \A x \in Request \ {r} : status'[x] = status[x]
        /\ history \subseteq history' /\ stepDef' = stepDef
    BY <1>2 DEF SubmitWithoutWorkflow, ApprovalTypeOK, definitionVars
  <2>2. steps[r] = <<>> /\ workforceAction[r] = "NONE"
    BY <2>1 DEF ApprovalInv, RequestInv
  <2>3. RequestInv(r)'
    BY <2>1, <2>2 DEF RequestInv
  <2>4. \A x \in Request : RequestInv(x)'
    BY <2>1, <2>3, OthersUntouched DEF ApprovalInv
  <2>5. ASSUME NEW q \in Proc PROVE CallInv(q)'
    <3>1. call[q] # Idle => call[q].req \in Request /\ call[q].req # r
      BY <1>2, CallType DEF SubmitWithoutWorkflow
    <3>2. CallInv(q)
      BY DEF ApprovalInv
    <3> QED
      BY <2>1, <3>1, <3>2 DEF CallInv
  <2> QED
    BY <2>4, <2>5 DEF ApprovalInv
<1>3. ASSUME NEW u \in User, NEW r \in Request, Comment(u, r)
      PROVE  ApprovalInv'
  <2>1. /\ UNCHANGED <<status, steps, workforceAction, call>>
        /\ history \subseteq history' /\ stepDef' = stepDef
    BY <1>3 DEF Comment, definitionVars
  <2>2. \A x \in Request : RequestInv(x)'
    BY <2>1, RequestFrame DEF ApprovalInv
  <2>3. \A q \in Proc : CallInv(q)'
    BY <2>1 DEF ApprovalInv, CallInv
  <2> QED
    BY <2>2, <2>3 DEF ApprovalInv
<1>4. ASSUME NEW r \in Request, LinkWorkforceAction(r)
      PROVE  ApprovalInv'
  <2>1. /\ status[r] = "PENDING" /\ workforceAction'[r] = "PENDING_APPROVAL"
        /\ UNCHANGED <<status, steps, history, call>> /\ stepDef' = stepDef
        /\ \A x \in Request \ {r} : workforceAction'[x] = workforceAction[x]
    BY <1>4 DEF LinkWorkforceAction, ApprovalTypeOK, definitionVars
  <2>2. RequestInv(r)'
    <3>1. /\ \A i \in DOMAIN steps[r] : steps[r][i].status \in {"PENDING", "APPROVED"}
          /\ \A i \in DOMAIN steps[r] :
                (steps[r][i].status = "APPROVED" /\ Stops(steps[r][i])) => SignedOff(r, i)
      BY <2>1 DEF ApprovalInv, RequestInv
    <3> QED
      BY <2>1, <3>1 DEF RequestInv, SignedOff, Stops, TERMINAL_APPROVAL_STATUSES
  <2>3. \A x \in Request : RequestInv(x)'
    BY <2>1, <2>2, OthersUntouched DEF ApprovalInv
  <2>4. \A q \in Proc : CallInv(q)'
    BY <2>1 DEF ApprovalInv, CallInv
  <2> QED
    BY <2>3, <2>4 DEF ApprovalInv
<1> QED
  BY <1>1, <1>2, <1>3, <1>4 DEF RequestNext

\* The invariant holds before there is any request.
LEMMA InitApprovalInv == Init => ApprovalInv
BY DEF Init, ApprovalInit, ApprovalInv, RequestInv, CallInv, TERMINAL_APPROVAL_STATUSES

\* It is inductive; delegations change nothing that it speaks of.
LEMMA NextApprovalInv == TypeOK /\ ApprovalInv /\ [Next]_vars => ApprovalInv'
<1> SUFFICES ASSUME ApprovalTypeOK, ApprovalInv, [Next]_vars PROVE ApprovalInv'
  BY DEF TypeOK
<1>1. CASE RequestNext /\ UNCHANGED delegationVars /\ UNCHANGED definitionVars
  BY <1>1, RequestStepInv
<1>2. CASE UNCHANGED <<requestVars, definitionVars, call>>
  <2>1. \A r \in Request : RequestInv(r)'
    BY <1>2, NoRequestWritten DEF ApprovalInv
  <2>2. call' = call /\ status' = status
    BY <1>2 DEF requestVars
  <2>3. \A q \in Proc : CallInv(q)'
    BY <2>2 DEF ApprovalInv, CallInv
  <2> QED
    BY <2>1, <2>3 DEF ApprovalInv
<1>3. [Next]_vars => \/ RequestNext /\ UNCHANGED delegationVars /\ UNCHANGED definitionVars
                    \/ UNCHANGED <<requestVars, definitionVars, call>>
  BY DEF Next, vars, requestVars, definitionVars
<1> QED
  BY <1>1, <1>2, <1>3

\* What every request and every handler in flight satisfies, for any number of
\* requests, users, workflows and concurrent handlers.
THEOREM ApprovalInvariant == Spec => []ApprovalInv
<1>1. Init => ApprovalInv
  BY InitApprovalInv
<1>2. TypeOK /\ ApprovalInv /\ [Next]_vars => ApprovalInv'
  BY NextApprovalInv
<1> QED
  BY <1>1, <1>2, TypeCorrect, PTL DEF Spec

\* setRequestTerminal leaves no workforce action waiting on an ended request.
THEOREM NoActionLeftWaiting == Spec => []EndedRequestHoldsNoAction
<1>1. ApprovalInv => EndedRequestHoldsNoAction
  BY DEF ApprovalInv, RequestInv, EndedRequestHoldsNoAction
<1> QED
  BY <1>1, ApprovalInvariant, PTL

\* No interleaving of approvals, rejections, withdrawals, returns and
\* delegations approves a workforce action before a person has approved every
\* step that needs one.
THEOREM ApprovalNeedsSignOff == Spec => []ApprovedActionWasSignedOff
<1>1. ApprovalInv => ApprovedActionWasSignedOff
  BY DEF ApprovalInv, RequestInv, ApprovedActionWasSignedOff
<1> QED
  BY <1>1, ApprovalInvariant, PTL

\* No step of the approval engine touches a workforce action that is settled.
LEMMA SettledStays ==
  ASSUME ApprovalTypeOK, RequestNext, NEW r \in Request,
         workforceAction[r] \in {"APPROVED", "REJECTED", "CANCELLED"}
  PROVE  workforceAction'[r] = workforceAction[r]
<1>1. ASSUME NEW x \in Request, NEW st, SetRequestTerminal(x, st)
      PROVE  workforceAction'[r] = workforceAction[r]
  BY <1>1 DEF SetRequestTerminal, ApprovalTypeOK
<1>2. ASSUME NEW p \in Proc, Begin(p) \/ Abort(p)
      PROVE  workforceAction'[r] = workforceAction[r]
  BY <1>2 DEF Begin, Abort, SubmitRead, StepRead, EndRead, requestVars
<1>3. ASSUME NEW p \in Proc, Commit(p)
      PROVE  workforceAction'[r] = workforceAction[r]
  <2>1. call[p] # Idle /\ call[p].req \in Request
    BY <1>3, CallType DEF Commit, SubmitCommit, ApproveCommit, RejectCommit,
                          ReturnCommit, DelegateCommit, EndCommit
  <2>2. ASSUME NEW ss, NEW otherwise, AdvanceAutomatedSteps(call[p].req, ss, otherwise)
        PROVE  workforceAction'[r] = workforceAction[r]
    BY <1>1, <2>1, <2>2 DEF AdvanceAutomatedSteps
  <2>3. CASE SubmitCommit(p) \/ ApproveCommit(p)
    BY <2>2, <2>3 DEF SubmitCommit, ApproveCommit
  <2>4. CASE RejectCommit(p) \/ EndCommit(p)
    BY <1>1, <2>1, <2>4 DEF RejectCommit, EndCommit
  <2>5. CASE ReturnCommit(p) \/ DelegateCommit(p)
    BY <2>5 DEF ReturnCommit, DelegateCommit
  <2> QED
    BY <1>3, <2>3, <2>4, <2>5 DEF Commit
<1> QED
  BY <1>2, <1>3 DEF RequestNext, SubmitWithoutWorkflow, Comment,
                    LinkWorkforceAction, ApprovalTypeOK

\* Handlers that raced on one request cannot overturn the workforce action
\* that the first of them settled.
THEOREM SettledOnce == Spec => ActionSettledOnce
<1>1. TypeOK /\ [Next]_vars =>
        [\A r \in Request :
           workforceAction[r] \in {"APPROVED", "REJECTED", "CANCELLED"} =>
             workforceAction'[r] = workforceAction[r]]_vars
  <2> SUFFICES ASSUME ApprovalTypeOK, Next, NEW r \in Request,
                      workforceAction[r] \in {"APPROVED", "REJECTED", "CANCELLED"}
               PROVE  workforceAction'[r] = workforceAction[r]
    BY DEF TypeOK
  <2> QED
    BY SettledStays DEF Next, requestVars
<1> QED
  BY <1>1, TypeCorrect, PTL DEF Spec, ActionSettledOnce

----------------------------------------------------------------------------
(* Refinement: Approvals implements ApprovalLifecycle *)

\* The end of a request, as the abstract specification sees it: a decision
\* when the request was pending, an overturned one when it was not.
LEMMA TerminalDecides ==
  ASSUME ApprovalTypeOK, NEW r \in Request, RequestInv(r), status[r] # "NONE",
         NEW st \in TERMINAL_APPROVAL_STATUSES, SetRequestTerminal(r, st)
  PROVE  Racing!Decide(r, st) \/ Racing!Overturn(r, st)
<1>1. status' = [status EXCEPT ![r] = st]
  BY DEF SetRequestTerminal
<1>2. CASE status[r] = "PENDING"
  <2>1. workforceAction[r] \in {"NONE", "PENDING_APPROVAL"}
    BY <1>2 DEF RequestInv
  <2>2. workforceAction' = [workforceAction EXCEPT
          ![r] = IF @ = "NONE" THEN @ ELSE Racing!ActionOutcome(st)]
    BY <2>1 DEF SetRequestTerminal, SettledAs, Racing!ActionOutcome, ApprovalTypeOK
  <2> QED
    BY <1>1, <1>2, <2>2 DEF Racing!Decide
<1>3. CASE status[r] # "PENDING"
  <2>1. status[r] \in TERMINAL_APPROVAL_STATUSES
    BY <1>3 DEF ApprovalTypeOK, Status
  <2>2. workforceAction[r] # "PENDING_APPROVAL"
    BY <2>1 DEF RequestInv
  <2>3. workforceAction' = workforceAction
    BY <2>2 DEF SetRequestTerminal, ApprovalTypeOK
  <2> QED
    BY <1>1, <2>1, <2>3 DEF Racing!Overturn, Racing!Outcome, TERMINAL_APPROVAL_STATUSES
<1> QED
  BY <1>2, <1>3

\* A commit creates, decides or overturns the request, or changes neither it nor
\* its workforce action.
LEMMA CommitRefines ==
  ASSUME ApprovalTypeOK, ApprovalInv, NEW p \in Proc, Commit(p)
  PROVE  [Racing!LifecycleNext]_<<status, workforceAction>>
<1>1. PICK r \in Request : call[p] # Idle /\ r = call[p].req
  BY CallType DEF Commit, SubmitCommit, ApproveCommit, RejectCommit,
                  ReturnCommit, DelegateCommit, EndCommit
<1>2. RequestInv(r)
  BY DEF ApprovalInv
<1>3. call[p].op # "submit" => status[r] # "NONE"
  BY <1>1 DEF ApprovalInv, CallInv
<1>4. ASSUME NEW st \in TERMINAL_APPROVAL_STATUSES, SetRequestTerminal(r, st),
             call[p].op # "submit"
      PROVE  Racing!LifecycleNext
  <2>1. Racing!Decide(r, st) \/ Racing!Overturn(r, st)
    BY <1>2, <1>3, <1>4, TerminalDecides
  <2> QED
    BY <2>1 DEF Racing!LifecycleNext, Racing!Outcome, TERMINAL_APPROVAL_STATUSES
<1>5. CASE SubmitCommit(p)
  <2>1. status[r] = "NONE" /\ workforceAction[r] = "NONE"
    BY <1>1, <1>2, <1>5 DEF SubmitCommit, ApprovalInv, CallInv, RequestInv
  <2>2. /\ status' = [status EXCEPT ![r] = "PENDING"]
           \/ status' = [status EXCEPT ![r] = "APPROVED"]
        /\ workforceAction' = workforceAction
    BY <1>1, <1>5, <2>1 DEF SubmitCommit, AdvanceAutomatedSteps, SetRequestTerminal,
                            ApprovalTypeOK
  <2>3. Racing!Create(r)
    BY <2>1, <2>2 DEF Racing!Create
  <2> QED
    BY <2>3 DEF Racing!LifecycleNext
<1>6. CASE ApproveCommit(p)
  <2>1. PICK ss : AdvanceAutomatedSteps(r, ss, status[r])
    BY <1>1, <1>6 DEF ApproveCommit
  <2>2. \/ SetRequestTerminal(r, "APPROVED")
        \/ status' = status /\ workforceAction' = workforceAction
    BY <2>1 DEF AdvanceAutomatedSteps, ApprovalTypeOK
  <2> QED
    BY <1>4, <1>6, <2>2 DEF ApproveCommit, TERMINAL_APPROVAL_STATUSES
<1>7. CASE RejectCommit(p)
  BY <1>1, <1>4, <1>7 DEF RejectCommit, TERMINAL_APPROVAL_STATUSES
<1>8. CASE ReturnCommit(p) \/ DelegateCommit(p)
  BY <1>8 DEF ReturnCommit, DelegateCommit
<1>9. CASE EndCommit(p)
  BY <1>1, <1>4, <1>9 DEF EndCommit, EndOp, TERMINAL_APPROVAL_STATUSES
<1> QED
  BY <1>5, <1>6, <1>7, <1>8, <1>9 DEF Commit

\* Every step is a step of the lifecycle, or a stutter.
LEMMA NextRefines ==
  TypeOK /\ ApprovalInv /\ [Next]_vars =>
    [Racing!LifecycleNext]_<<status, workforceAction>>
<1> SUFFICES ASSUME ApprovalTypeOK, ApprovalInv, [Next]_vars
             PROVE  [Racing!LifecycleNext]_<<status, workforceAction>>
  BY DEF TypeOK
<1>1. ASSUME NEW p \in Proc, Begin(p) \/ Abort(p)
      PROVE  UNCHANGED <<status, workforceAction>>
  BY <1>1 DEF Begin, Abort, SubmitRead, StepRead, EndRead, requestVars
<1>2. ASSUME NEW u \in User, NEW r \in Request, SubmitWithoutWorkflow(u, r)
      PROVE  Racing!LifecycleNext
  BY <1>2 DEF SubmitWithoutWorkflow, Racing!Create, Racing!LifecycleNext
<1>3. ASSUME NEW r \in Request, LinkWorkforceAction(r)
      PROVE  Racing!LifecycleNext
  BY <1>3 DEF LinkWorkforceAction, Racing!Link, Racing!LifecycleNext
<1>4. ASSUME NEW u \in User, NEW r \in Request, Comment(u, r)
      PROVE  UNCHANGED <<status, workforceAction>>
  BY <1>4 DEF Comment
<1>5. RequestNext => [Racing!LifecycleNext]_<<status, workforceAction>>
  BY <1>1, <1>2, <1>3, <1>4, CommitRefines DEF RequestNext
<1> QED
  BY <1>5 DEF Next, vars, requestVars

\* Every behaviour of the approval engine, at any number of concurrent
\* handlers, is one of the abstract lifecycle with overturned decisions.
THEOREM RefinesLifecycle == Spec => ImplementsRacingLifecycle
<1>1. Init => Racing!LifecycleInit
  BY DEF Init, ApprovalInit, Racing!LifecycleInit
<1>2. TypeOK /\ ApprovalInv /\ [Next]_vars =>
        [Racing!LifecycleNext]_<<status, workforceAction>>
  BY NextRefines
<1> QED
  BY <1>1, <1>2, TypeCorrect, ApprovalInvariant, PTL
     DEF Spec, ImplementsRacingLifecycle, Racing!LifecycleSpec

----------------------------------------------------------------------------
(* Safety: the order of the steps, and who they wait for *)

\* Behind a decided step no step is pending.
Ordered(ss) ==
  \A i, j \in DOMAIN ss : (i < j /\ ss[i].status = "PENDING") => ss[j].status = "PENDING"

\* Every step that needs a person has been given one, or a role.
Staffed(ss) ==
  \A i \in DOMAIN ss : Stops(ss[i]) => ss[i].user # NoOne \/ ss[i].role # NoOne

\* The current step needs a person.
RestsOnPerson(ss) == \E i \in Pending(ss) : IsCurrent(ss, i) /\ Stops(ss[i])

RequestInOrder(r) ==
  /\ Ordered(steps[r])
  /\ Staffed(steps[r])
  /\ status[r] = "PENDING" => RestsOnPerson(steps[r])

\* The step that a decision in flight is about has no pending step before it,
\* however many decisions have been committed since it was read.
CallInOrder(p) ==
  call[p] # Idle =>
    /\ call[p].op = "submit" => Staffed(call[p].plan)
    /\ call[p].op \in StepOp =>
         /\ call[p].step \in DOMAIN steps[call[p].req]
         /\ \A j \in DOMAIN steps[call[p].req] :
              j < call[p].step => steps[call[p].req][j].status # "PENDING"
    /\ call[p].op = "delegate" => call[p].to # NoOne

OrderInv == (\A r \in Request : RequestInOrder(r)) /\ (\A p \in Proc : CallInOrder(p))

\* Every nonempty set of naturals has a least element.
LEMMA LeastNatural ==
  ASSUME NEW T \in SUBSET Nat, T # {}
  PROVE  \E m \in T : \A n \in T : m <= n
<1> DEFINE R == OpToRel(<, Nat)
<1>1. IsWellFoundedOn(R, Nat)
  BY NatLessThanWellFounded
<1>2. \A x, y \in Nat : <<x, y>> \in R <=> x < y
  BY DEF OpToRel
<1> HIDE DEF R
<1>3. PICK m \in T : \A n \in T : <<n, m>> \notin R
  BY <1>1, WFMin
<1>4. \A n \in T : ~ (n < m)
  <2> TAKE n \in T
  <2>1. n \in Nat /\ m \in Nat
    OBVIOUS
  <2>2. <<n, m>> \in R <=> n < m
    BY <1>2, <2>1, Zenon
  <2> QED
    BY <1>3, <2>2, Zenon
<1>5. \A n \in T : n \in Nat /\ m \in Nat
  OBVIOUS
<1> QED
  BY <1>4, <1>5

\* Automation leaves the steps in order, with their approvers, and if a step is
\* still pending then the first that is needs a person: it is why automation
\* stopped.
LEMMA AdvancedInOrder ==
  ASSUME NEW ss \in Seq(Instance), Ordered(ss), Staffed(ss)
  PROVE  /\ Ordered(Advanced(ss)) /\ Staffed(Advanced(ss))
         /\ Pending(Advanced(ss)) # {} => RestsOnPerson(Advanced(ss))
<1>0. PICK f : f = Advanced(ss)
  OBVIOUS
<1>1. /\ f \in Seq(Instance) /\ DOMAIN f = 1 .. Len(ss) /\ DOMAIN ss = 1 .. Len(ss)
      /\ Len(ss) \in Nat
      /\ \A i \in 1 .. Len(ss) :
           /\ f[i].def = ss[i].def
           /\ f[i].user = ss[i].user
           /\ f[i].role = ss[i].role
           /\ ss[i].status # "PENDING" => f[i] = ss[i]
  BY <1>0, AdvancedFacts
<1>2. \A i \in 1 .. Len(ss) : Stops(f[i]) <=> Stops(ss[i])
  BY <1>1 DEF Stops
<1>3. \A i \in 1 .. Len(ss) :
        f[i].status = "PENDING" <=>
          /\ ss[i].status = "PENDING"
          /\ \E j \in 1 .. i : ss[j].status = "PENDING" /\ Stops(ss[j])
  <2>1. \A i \in 1 .. Len(ss) : ss[i] \in Instance
    OBVIOUS
  <2> QED
    BY <1>0, <1>1, <2>1 DEF Advanced, Instance
<1>4. Ordered(f)
  <2> SUFFICES ASSUME NEW i \in 1 .. Len(ss), NEW j \in 1 .. Len(ss), i < j,
                      f[i].status = "PENDING"
               PROVE  f[j].status = "PENDING"
    BY <1>1 DEF Ordered
  <2>1. PICK k \in 1 .. i : ss[k].status = "PENDING" /\ Stops(ss[k])
    BY <1>3
  <2>2. ss[j].status = "PENDING"
    BY <1>1, <1>3 DEF Ordered
  <2>3. k \in 1 .. j
    OBVIOUS
  <2> QED
    BY <1>3, <2>1, <2>2, <2>3
<1>5. Staffed(f)
  BY <1>1, <1>2 DEF Staffed
<1>6. ASSUME Pending(f) # {}
      PROVE  RestsOnPerson(f)
  <2>1. Pending(f) \in SUBSET Nat
    BY <1>1 DEF Pending
  <2>2. PICK m \in Pending(f) : \A n \in Pending(f) : m <= n
    BY <1>6, <2>1, LeastNatural
  <2>3. m \in 1 .. Len(ss) /\ f[m].status = "PENDING"
    BY <1>1 DEF Pending
  <2>4. PICK j \in 1 .. m : ss[j].status = "PENDING" /\ Stops(ss[j])
    BY <1>3, <2>3
  <2>5. j \in 1 .. Len(ss) /\ j \in 1 .. j
    BY <1>1, <2>3
  <2>6. j \in Pending(f)
    BY <1>1, <1>3, <2>4, <2>5 DEF Pending
  <2>7. j = m
    BY <2>2, <2>6, <2>3
  <2> QED
    BY <1>2, <2>2, <2>3, <2>4, <2>7 DEF RestsOnPerson, IsCurrent
<1> QED
  BY <1>0, <1>4, <1>5, <1>6

\* A plan has an approver for every step that needs a person, or there is no plan.
LEMMA PlanStaffed ==
  ASSUME workflow \in [WorkflowId -> WorkflowRow], NEW w \in WorkflowId,
         NEW plan \in Plans(w)
  PROVE  Staffed(plan)
<1> USE ApprovalsAssumption
<1> DEFINE ids == workflow[w].steps
<1>1. ids \in Seq(StepId)
  BY DEF WorkflowRow
<1>2. PICK a \in [1 .. Len(ids) -> User \cup Role \cup {NoOne}] :
        /\ \A i \in 1 .. Len(ids) : Stops([def |-> ids[i]]) => a[i] # NoOne
        /\ plan = [i \in 1 .. Len(ids) |->
                     [def |-> ids[i], status |-> "PENDING",
                      user |-> IF a[i] \in User THEN a[i] ELSE NoOne,
                      role |-> IF a[i] \in Role THEN a[i] ELSE NoOne]]
  BY DEF Plans
<1> SUFFICES ASSUME NEW i \in 1 .. Len(ids), Stops(plan[i])
             PROVE  plan[i].user # NoOne \/ plan[i].role # NoOne
  BY <1>2 DEF Staffed
<1>3. Stops([def |-> ids[i]])
  BY <1>2 DEF Stops
<1>4. a[i] \in User \/ a[i] \in Role
  BY <1>2, <1>3
<1> QED
  BY <1>2, <1>4, DelegationAssumption

\* What is known of the decisions in flight, and of the requests, after the
\* commit of one of them.
LEMMA OrderAfterCommit ==
  ASSUME ApprovalTypeOK, ApprovalInv, OrderInv,
         NEW p \in Proc, call[p] # Idle, Finish(p), stepDef' = stepDef,
         NEW r \in Request, r = call[p].req, NEW new \in Seq(Instance),
         steps' = [steps EXCEPT ![r] = new],
         \A x \in Request \ {r} : status'[x] = status[x],
         Ordered(new), Staffed(new), status'[r] = "PENDING" => RestsOnPerson(new),
         call[p].op # "submit" =>
           /\ DOMAIN new = DOMAIN steps[r]
           /\ \A i \in DOMAIN new :
                steps[r][i].status # "PENDING" => new[i].status # "PENDING"
  PROVE  OrderInv'
<1>1. steps'[r] = new /\ \A x \in Request \ {r} : steps'[x] = steps[x]
  BY DEF ApprovalTypeOK
<1>2. call'[p] = Idle /\ \A q \in Proc \ {p} : call'[q] = call[q]
  BY DEF Finish, ApprovalTypeOK
<1>3. ASSUME NEW x \in Request PROVE RequestInOrder(x)'
  <2>1. CASE x = r
    <3>1. Ordered(new)' /\ Staffed(new)' /\ (RestsOnPerson(new) => RestsOnPerson(new)')
      BY DEF Ordered, RestsOnPerson, Staffed, Stops, IsCurrent, Pending
    <3> QED
      BY <1>1, <2>1, <3>1 DEF RequestInOrder, Ordered, RestsOnPerson, Staffed, Stops, IsCurrent, Pending
  <2>2. CASE x # r
    <3>1. RequestInOrder(x) /\ steps'[x] = steps[x] /\ status'[x] = status[x]
      BY <1>1, <2>2 DEF OrderInv
    <3> QED
      BY <3>1 DEF RequestInOrder, Ordered, RestsOnPerson, Staffed, Stops, IsCurrent, Pending
  <2> QED
    BY <2>1, <2>2
<1>4. ASSUME NEW q \in Proc PROVE CallInOrder(q)'
  <2>1. CASE q = p \/ call[q] = Idle
    BY <1>2, <2>1 DEF CallInOrder
  <2>2. CASE q # p /\ call[q] # Idle
    <3>1. call'[q] = call[q] /\ call[q].req \in Request
      BY <1>2, <2>2, CallType
    <3>2. CallInOrder(q)
      BY DEF OrderInv
    <3>3. call[q].op = "submit" => Staffed(call[q].plan)'
      BY <2>2, <3>1, <3>2 DEF CallInOrder, Staffed, Stops
    <3>4. ASSUME call[q].op \in StepOp
          PROVE  /\ DOMAIN steps'[call[q].req] = DOMAIN steps[call[q].req]
                 /\ \A i \in DOMAIN steps[call[q].req] :
                      steps[call[q].req][i].status # "PENDING" =>
                        steps'[call[q].req][i].status # "PENDING"
      <4>1. CASE call[q].req # r
        BY <1>1, <3>1, <4>1
      <4>2. CASE call[q].req = r
        <5>1. call[p].op # "submit"
          BY <2>2, <4>2 DEF ApprovalInv, CallInv
        <5> QED
          BY <1>1, <4>2, <5>1
      <4> QED
        BY <4>1, <4>2
    <3> QED
      BY <2>2, <3>1, <3>2, <3>3, <3>4 DEF CallInOrder
  <2> QED
    BY <2>1, <2>2
<1> QED
  BY <1>3, <1>4 DEF OrderInv

\* A handler that reads the current step finds no pending step before it.
LEMMA OrderAfterRead ==
  ASSUME ApprovalTypeOK, OrderInv, UNCHANGED definitionVars, NEW p \in Proc,
         Begin(p) \/ Abort(p)
  PROVE  OrderInv'
<1> USE ApprovalsAssumption
<1>1. UNCHANGED <<status, steps, stepDef>>
  BY DEF Begin, Abort, SubmitRead, StepRead, EndRead, requestVars, definitionVars
<1>2. ASSUME NEW x \in Request PROVE RequestInOrder(x)'
  <2>1. RequestInOrder(x)
    BY DEF OrderInv
  <2> QED
    BY <1>1, <2>1
    DEF RequestInOrder, Ordered, RestsOnPerson, Staffed, Stops, IsCurrent, Pending
<1>3. \A q \in Proc \ {p} : call'[q] = call[q]
  BY DEF Begin, Abort, SubmitRead, StepRead, EndRead, Finish, ApprovalTypeOK
<1>4. CallInOrder(p)'
  <2>1. CASE Abort(p)
    BY <2>1 DEF Abort, Finish, ApprovalTypeOK, CallInOrder
  <2>2. ASSUME NEW u \in User, NEW r \in Request, NEW w \in WorkflowId,
               SubmitRead(p, u, r, w)
        PROVE  CallInOrder(p)'
    <3>1. PICK plan \in Plans(w) :
            call' = [call EXCEPT ![p] = [op |-> "submit", actor |-> u, req |-> r,
                                         workflow |-> w, plan |-> plan]]
      BY <2>2 DEF SubmitRead
    <3>2. Staffed(plan)
      BY PlanStaffed DEF ApprovalTypeOK
    <3>3. Staffed(plan)'
      BY <1>1, <3>2 DEF Staffed, Stops
    <3>4. call'[p].op = "submit" /\ call'[p].plan = plan
      BY <3>1 DEF ApprovalTypeOK
    <3> QED
      BY <3>3, <3>4 DEF CallInOrder, StepOp, Staffed, Stops
  <2>3. ASSUME NEW u \in User, NEW r \in Request, NEW op \in StepOp,
               NEW to \in User \cup {NoOne}, op = "delegate" => to # NoOne,
               StepRead(p, u, r, op, to)
        PROVE  CallInOrder(p)'
    <3>1. PICK i \in Pending(steps[r]) :
            /\ IsCurrent(steps[r], i)
            /\ call' = [call EXCEPT ![p] = [op |-> op, actor |-> u, req |-> r,
                                            step |-> i, to |-> to]]
      BY <2>3 DEF StepRead
    <3>2. /\ call'[p].op = op /\ call'[p].req = r /\ call'[p].step = i /\ call'[p].to = to
      BY <3>1 DEF ApprovalTypeOK
    <3>3. steps[r] \in Seq(Instance)
      BY DEF ApprovalTypeOK
    <3>4. /\ i \in DOMAIN steps[r] /\ i \in Nat
          /\ \A j \in DOMAIN steps[r] : j < i => steps[r][j].status # "PENDING"
      BY <3>1, <3>3 DEF Pending, IsCurrent
    <3> QED
      BY <1>1, <2>3, <3>2, <3>4 DEF CallInOrder, StepOp
  <2>4. ASSUME NEW u \in User, NEW r \in Request, NEW op \in EndOp, EndRead(p, u, r, op)
        PROVE  CallInOrder(p)'
    BY <2>4 DEF EndRead, EndOp, StepOp, ApprovalTypeOK, CallInOrder
  <2>5. NoOne \notin User
    BY DelegationAssumption
  <2> QED
    BY <2>1, <2>2, <2>3, <2>4, <2>5 DEF Begin, StepOp
<1>5. ASSUME NEW q \in Proc PROVE CallInOrder(q)'
  <2>1. CASE q # p
    <3>1. CallInOrder(q) /\ call'[q] = call[q]
      BY <1>3, <2>1 DEF OrderInv
    <3> QED
      BY <1>1, <3>1 DEF CallInOrder, Staffed, Stops
  <2> QED
    BY <1>4, <2>1
<1> QED
  BY <1>2, <1>5 DEF OrderInv

\* The commits.  An approval approves the first pending step, or one that was
\* decided in the meantime, and lets automation go on from there.
LEMMA OrderAfterApprove ==
  ASSUME ApprovalTypeOK, ApprovalInv, OrderInv, UNCHANGED definitionVars,
         NEW p \in Proc, ApproveCommit(p)
  PROVE  OrderInv'
<1>1. PICK r \in Request, k \in Nat, s0 \in Seq(Instance) :
        /\ call[p] # Idle /\ r = call[p].req /\ k = call[p].step /\ s0 = steps[r]
  BY CallType DEF ApproveCommit, StepOp, ApprovalTypeOK
<1>2. PICK ss : ss = [s0 EXCEPT ![k].status = "APPROVED"]
  OBVIOUS
<1>3. ss \in Seq(Instance)
  BY <1>2, StepWriteType DEF Status, TERMINAL_APPROVAL_STATUSES
<1>4. /\ k \in DOMAIN s0 /\ \A j \in DOMAIN s0 : j < k => s0[j].status # "PENDING"
      /\ Ordered(s0) /\ Staffed(s0)
  BY <1>1 DEF OrderInv, CallInOrder, RequestInOrder, ApproveCommit, StepOp
<1>5. /\ DOMAIN ss = DOMAIN s0 /\ DOMAIN s0 \subseteq Nat
      /\ ss[k].status = "APPROVED"
      /\ \A i \in DOMAIN s0 : /\ i # k => ss[i] = s0[i]
                              /\ ss[i].def = s0[i].def /\ ss[i].user = s0[i].user
                              /\ ss[i].role = s0[i].role
  <2>1. \A i \in DOMAIN s0 : s0[i] \in Instance
    OBVIOUS
  <2> QED
    BY <1>2, <1>4, <2>1 DEF Instance
<1>6. Ordered(ss)
  BY <1>4, <1>5 DEF Ordered
<1>7. Staffed(ss)
  BY <1>4, <1>5 DEF Staffed, Stops
<1>8. PICK f : f = Advanced(ss)
  OBVIOUS
<1>9. /\ f \in Seq(Instance) /\ DOMAIN f = DOMAIN s0 /\ Ordered(f) /\ Staffed(f)
      /\ Pending(f) # {} => RestsOnPerson(f)
      /\ \A i \in DOMAIN s0 : ss[i].status # "PENDING" => f[i] = ss[i]
  BY <1>3, <1>5, <1>6, <1>7, <1>8, AdvancedInOrder, AdvancedFacts
<1>10. \A i \in DOMAIN f : s0[i].status # "PENDING" => f[i].status # "PENDING"
  BY <1>5, <1>9
<1>11. /\ steps' = [steps EXCEPT ![r] = f]
       /\ Pending(f) = {} => status' = [status EXCEPT ![r] = "APPROVED"]
       /\ Pending(f) # {} => status' = [status EXCEPT ![r] = status[r]]
       /\ Finish(p) /\ stepDef' = stepDef
  BY <1>1, <1>2, <1>8
  DEF ApproveCommit, AdvanceAutomatedSteps, SetRequestTerminal, definitionVars
<1>12. /\ \A x \in Request \ {r} : status'[x] = status[x]
       /\ status'[r] = "PENDING" => RestsOnPerson(f)
  BY <1>9, <1>11 DEF ApprovalTypeOK
<1>13. /\ DOMAIN f = DOMAIN steps[r]
       /\ \A i \in DOMAIN f : steps[r][i].status # "PENDING" => f[i].status # "PENDING"
  BY <1>1, <1>9, <1>10
<1>14. f \in Seq(Instance) /\ Ordered(f) /\ Staffed(f)
  BY <1>9
<1>15. /\ call[p] # Idle /\ r = call[p].req /\ Finish(p) /\ stepDef' = stepDef
       /\ steps' = [steps EXCEPT ![r] = f]
  BY <1>1, <1>11
<1> QED
  BY <1>12, <1>13, <1>14, <1>15, OrderAfterCommit

\* A submission writes a plan and lets automation start.
LEMMA OrderAfterSubmit ==
  ASSUME ApprovalTypeOK, ApprovalInv, OrderInv, UNCHANGED definitionVars,
         NEW p \in Proc, SubmitCommit(p)
  PROVE  OrderInv'
<1>1. PICK r \in Request, ss \in Seq(Instance) :
        /\ call[p] # Idle /\ r = call[p].req /\ ss = call[p].plan
        /\ \A i \in DOMAIN ss : ss[i].status = "PENDING"
        /\ Staffed(ss)
  BY CallType DEF SubmitCommit, ApprovalInv, CallInv, OrderInv, CallInOrder
<1>2. Ordered(ss)
  BY <1>1 DEF Ordered
<1>3. PICK f : f = Advanced(ss)
  OBVIOUS
<1>4. /\ f \in Seq(Instance) /\ Ordered(f) /\ Staffed(f)
      /\ Pending(f) # {} => RestsOnPerson(f)
  BY <1>1, <1>2, <1>3, AdvancedInOrder, AdvancedFacts
<1>5. /\ steps' = [steps EXCEPT ![r] = f]
      /\ Pending(f) = {} => status' = [status EXCEPT ![r] = "APPROVED"]
      /\ Pending(f) # {} => status' = [status EXCEPT ![r] = "PENDING"]
      /\ Finish(p) /\ stepDef' = stepDef /\ call[p].op = "submit"
  BY <1>1, <1>3
  DEF SubmitCommit, AdvanceAutomatedSteps, SetRequestTerminal, definitionVars
<1>6. /\ \A x \in Request \ {r} : status'[x] = status[x]
      /\ status'[r] = "PENDING" => RestsOnPerson(f)
  BY <1>4, <1>5 DEF ApprovalTypeOK
<1> QED
  BY <1>1, <1>4, <1>5, <1>6, OrderAfterCommit

\* A rejection ends the request at a step that no pending one precedes.
LEMMA OrderAfterReject ==
  ASSUME ApprovalTypeOK, ApprovalInv, OrderInv, UNCHANGED definitionVars,
         NEW p \in Proc, RejectCommit(p)
  PROVE  OrderInv'
<1>1. PICK r \in Request, k \in Nat, s0 \in Seq(Instance) :
        /\ call[p] # Idle /\ r = call[p].req /\ k = call[p].step /\ s0 = steps[r]
  BY CallType DEF RejectCommit, StepOp, ApprovalTypeOK
<1>2. PICK ss : ss = [s0 EXCEPT ![k].status = "REJECTED"]
  OBVIOUS
<1>3. ss \in Seq(Instance)
  BY <1>2, StepWriteType DEF Status, TERMINAL_APPROVAL_STATUSES
<1>4. /\ k \in DOMAIN s0 /\ \A j \in DOMAIN s0 : j < k => s0[j].status # "PENDING"
      /\ Ordered(s0) /\ Staffed(s0)
  BY <1>1 DEF OrderInv, CallInOrder, RequestInOrder, RejectCommit, StepOp
<1>5. /\ DOMAIN ss = DOMAIN s0 /\ DOMAIN s0 \subseteq Nat
      /\ ss[k].status = "REJECTED"
      /\ \A i \in DOMAIN s0 : /\ i # k => ss[i] = s0[i]
                              /\ ss[i].def = s0[i].def /\ ss[i].user = s0[i].user
                              /\ ss[i].role = s0[i].role
  <2>1. \A i \in DOMAIN s0 : s0[i] \in Instance
    OBVIOUS
  <2> QED
    BY <1>2, <1>4, <2>1 DEF Instance
<1>6. Ordered(ss)
  BY <1>4, <1>5 DEF Ordered
<1>7. Staffed(ss)
  BY <1>4, <1>5 DEF Staffed, Stops
<1>8. \A i \in DOMAIN ss : s0[i].status # "PENDING" => ss[i].status # "PENDING"
  BY <1>5
<1>9. /\ steps' = [steps EXCEPT ![r] = ss]
      /\ status' = [status EXCEPT ![r] = "REJECTED"]
      /\ Finish(p) /\ stepDef' = stepDef
  BY <1>1, <1>2 DEF RejectCommit, SetRequestTerminal, definitionVars
<1>10. /\ \A x \in Request \ {r} : status'[x] = status[x]
       /\ status'[r] = "REJECTED"
  BY <1>9 DEF ApprovalTypeOK
<1>11. /\ DOMAIN ss = DOMAIN steps[r]
       /\ \A i \in DOMAIN ss : steps[r][i].status # "PENDING" => ss[i].status # "PENDING"
  BY <1>1, <1>5, <1>8
<1>12. /\ call[p] # Idle /\ r = call[p].req /\ Finish(p) /\ stepDef' = stepDef
       /\ steps' = [steps EXCEPT ![r] = ss]
       /\ status'[r] = "PENDING" => RestsOnPerson(ss)
  BY <1>1, <1>9, <1>10
<1> QED
  BY <1>3, <1>6, <1>7, <1>10, <1>11, <1>12, OrderAfterCommit

\* A delegation gives the step to a user and leaves its status.
LEMMA OrderAfterDelegate ==
  ASSUME ApprovalTypeOK, ApprovalInv, OrderInv, UNCHANGED definitionVars,
         NEW p \in Proc, DelegateCommit(p)
  PROVE  OrderInv'
<1>1. PICK r \in Request, k \in Nat, u \in User \cup {NoOne}, s0 \in Seq(Instance) :
        /\ call[p] # Idle /\ r = call[p].req /\ k = call[p].step /\ s0 = steps[r]
        /\ u = call[p].to
  BY CallType DEF DelegateCommit, StepOp, ApprovalTypeOK
<1>2. PICK ss : ss = [s0 EXCEPT ![k] = [@ EXCEPT !.user = u, !.role = NoOne]]
  OBVIOUS
<1>3. ss \in Seq(Instance)
  BY <1>2, StepWriteType
<1>4. /\ k \in DOMAIN s0 /\ Ordered(s0) /\ Staffed(s0) /\ u # NoOne
      /\ status[r] = "PENDING" => RestsOnPerson(s0)
  BY <1>1 DEF OrderInv, CallInOrder, RequestInOrder, DelegateCommit, StepOp
<1>5. /\ DOMAIN ss = DOMAIN s0
      /\ ss[k].user = u
      /\ \A i \in DOMAIN s0 : /\ i # k => ss[i] = s0[i]
                              /\ ss[i].def = s0[i].def /\ ss[i].status = s0[i].status
  <2>1. \A i \in DOMAIN s0 : s0[i] \in Instance
    OBVIOUS
  <2> QED
    BY <1>2, <1>4, <2>1 DEF Instance
<1>6. Ordered(ss) /\ Pending(ss) = Pending(s0)
  BY <1>4, <1>5 DEF Ordered, Pending
<1>7. Staffed(ss)
  BY <1>4, <1>5 DEF Staffed, Stops
<1>8. RestsOnPerson(s0) => RestsOnPerson(ss)
  BY <1>5, <1>6 DEF RestsOnPerson, Stops, IsCurrent, Pending
<1>9. /\ steps' = [steps EXCEPT ![r] = ss] /\ status' = status
      /\ Finish(p) /\ stepDef' = stepDef
  BY <1>1, <1>2 DEF DelegateCommit, definitionVars
<1>10. \A i \in DOMAIN ss : s0[i].status # "PENDING" => ss[i].status # "PENDING"
  BY <1>5
<1>11. status'[r] = "PENDING" => RestsOnPerson(ss)
  BY <1>4, <1>8, <1>9
<1> QED
  BY <1>1, <1>3, <1>5, <1>6, <1>7, <1>9, <1>10, <1>11, OrderAfterCommit

\* A cancellation or a withdrawal leaves no step pending.
LEMMA OrderAfterEnd ==
  ASSUME ApprovalTypeOK, ApprovalInv, OrderInv, UNCHANGED definitionVars,
         NEW p \in Proc, EndCommit(p)
  PROVE  OrderInv'
<1>1. PICK r \in Request, st \in {"CANCELLED", "WITHDRAWN"}, s0 \in Seq(Instance) :
        /\ call[p] # Idle /\ r = call[p].req /\ s0 = steps[r]
        /\ st = IF call[p].op = "withdraw" THEN "WITHDRAWN" ELSE "CANCELLED"
  BY CallType DEF EndCommit, ApprovalTypeOK
<1>2. PICK ss : ss = [i \in DOMAIN s0 |-> IF s0[i].status = "PENDING"
                                         THEN [s0[i] EXCEPT !.status = st] ELSE s0[i]]
  OBVIOUS
<1>3. /\ steps' = [steps EXCEPT ![r] = ss] /\ SetRequestTerminal(r, st)
      /\ Finish(p) /\ stepDef' = stepDef
  BY <1>1, <1>2 DEF EndCommit, definitionVars
<1>4. \A i \in DOMAIN s0 : s0[i] \in Instance
  OBVIOUS
<1>5. st \in Status /\ st # "PENDING"
  BY DEF Status, TERMINAL_APPROVAL_STATUSES
<1>6. \A i \in DOMAIN s0 :
        /\ ss[i] \in Instance /\ ss[i].status # "PENDING"
        /\ ss[i].def = s0[i].def /\ ss[i].user = s0[i].user /\ ss[i].role = s0[i].role
  BY <1>2, <1>4, <1>5 DEF Instance
<1>7. ss \in Seq(Instance) /\ DOMAIN ss = DOMAIN s0
  <2>1. ss \in [1 .. Len(s0) -> Instance] /\ Len(s0) \in Nat
    BY <1>2, <1>6
  <2> QED
    BY <2>1
<1>8. Ordered(ss)
  BY <1>6, <1>7 DEF Ordered
<1>9. Staffed(s0)
  BY <1>1 DEF OrderInv, RequestInOrder
<1>10. Staffed(ss)
  BY <1>6, <1>7, <1>9 DEF Staffed, Stops
<1>11. /\ \A x \in Request \ {r} : status'[x] = status[x]
       /\ status'[r] = st
  BY <1>3 DEF SetRequestTerminal, ApprovalTypeOK
<1>12. /\ DOMAIN ss = DOMAIN steps[r]
       /\ \A i \in DOMAIN ss : steps[r][i].status # "PENDING" => ss[i].status # "PENDING"
  BY <1>1, <1>6, <1>7
<1>13. /\ call[p] # Idle /\ r = call[p].req
       /\ status'[r] = "PENDING" => RestsOnPerson(ss)
  BY <1>1, <1>5, <1>11
<1> QED
  BY <1>3, <1>7, <1>8, <1>10, <1>11, <1>12, <1>13, OrderAfterCommit

\* A step that writes no step instance and ends no handler.
LEMMA OrderKept ==
  ASSUME OrderInv, UNCHANGED <<steps, stepDef>>,
         \A q \in Proc : call'[q] = Idle \/ call'[q] = call[q],
         \A r \in Request : status'[r] = "PENDING" => status[r] = "PENDING"
  PROVE  OrderInv'
<1>1. ASSUME NEW r \in Request PROVE RequestInOrder(r)'
  <2>1. RequestInOrder(r)
    BY DEF OrderInv
  <2> QED
    BY <2>1 DEF RequestInOrder, Ordered, RestsOnPerson, Staffed, Stops, IsCurrent, Pending
<1>2. ASSUME NEW q \in Proc PROVE CallInOrder(q)'
  <2>1. CallInOrder(q)
    BY DEF OrderInv
  <2> QED
    BY <2>1 DEF CallInOrder, Staffed, Stops
<1> QED
  BY <1>1, <1>2 DEF OrderInv

\* Before the first request everything is in order.
LEMMA InitOrder == Init => OrderInv
<1> SUFFICES ASSUME Init PROVE OrderInv
  OBVIOUS
<1>1. \A r \in Request : steps[r] = <<>> /\ status[r] = "NONE"
  BY DEF Init, ApprovalInit
<1>2. \A p \in Proc : call[p] = Idle
  BY DEF Init, ApprovalInit
<1>3. DOMAIN <<>> = {}
  OBVIOUS
<1> QED
  BY <1>1, <1>2, <1>3 DEF OrderInv, RequestInOrder, CallInOrder, Ordered, Staffed

\* The order of the steps is inductive, on top of ApprovalInv.
LEMMA NextOrder == TypeOK /\ ApprovalInv /\ OrderInv /\ [Next]_vars => OrderInv'
<1> SUFFICES ASSUME ApprovalTypeOK, ApprovalInv, OrderInv, [Next]_vars PROVE OrderInv'
  BY DEF TypeOK
<1>1. ASSUME UNCHANGED definitionVars, NEW p \in Proc, Begin(p) \/ Abort(p)
      PROVE  OrderInv'
  BY <1>1, OrderAfterRead
<1>2. ASSUME UNCHANGED definitionVars, NEW p \in Proc, ReturnCommit(p)
      PROVE  OrderInv'
  <2>1. \A q \in Proc : call'[q] = Idle \/ call'[q] = call[q]
    BY <1>2 DEF ReturnCommit, Finish, ApprovalTypeOK
  <2> QED
    BY <1>2, <2>1, OrderKept DEF ReturnCommit, definitionVars
<1>3. ASSUME UNCHANGED definitionVars, NEW p \in Proc, Commit(p)
      PROVE  OrderInv'
  BY <1>2, <1>3, OrderAfterApprove, OrderAfterSubmit, OrderAfterReject, OrderAfterDelegate,
     OrderAfterEnd DEF Commit
<1>4. ASSUME UNCHANGED definitionVars, NEW u \in User, NEW r \in Request,
             SubmitWithoutWorkflow(u, r) \/ Comment(u, r)
      PROVE  OrderInv'
  <2>1. UNCHANGED <<steps, call, stepDef>>
    BY <1>4 DEF SubmitWithoutWorkflow, Comment, definitionVars
  <2>2. \A x \in Request : status'[x] = "PENDING" => status[x] = "PENDING"
    BY <1>4 DEF SubmitWithoutWorkflow, Comment, ApprovalTypeOK
  <2> QED
    BY <2>1, <2>2, OrderKept
<1>5. ASSUME UNCHANGED definitionVars, NEW r \in Request, LinkWorkforceAction(r)
      PROVE  OrderInv'
  BY <1>5, OrderKept DEF LinkWorkforceAction, definitionVars
<1>6. CASE RequestNext /\ UNCHANGED definitionVars
  BY <1>1, <1>3, <1>4, <1>5, <1>6 DEF RequestNext
<1>7. CASE UNCHANGED <<requestVars, definitionVars, call>>
  BY <1>7, OrderKept DEF requestVars, definitionVars
<1>8. \/ RequestNext /\ UNCHANGED definitionVars
      \/ UNCHANGED <<requestVars, definitionVars, call>>
  BY DEF Next, vars, requestVars, definitionVars
<1> QED
  BY <1>6, <1>7, <1>8

\* In every reachable state, at any number of concurrent handlers.
LEMMA OrderInvariant == Spec => []OrderInv
<1>1. TypeOK /\ ApprovalInv /\ OrderInv /\ [Next]_vars => OrderInv'
  BY NextOrder
<1> QED
  BY <1>1, InitOrder, TypeCorrect, ApprovalInvariant, PTL DEF Spec

\* Steps are decided in their order, also by handlers that act on a stale
\* current step: behind a decided step no step is still pending.
THEOREM StepsDecidedInOrder == Spec => []DecidedInOrder
<1>1. OrderInv => DecidedInOrder
  BY DEF OrderInv, RequestInOrder, Ordered, DecidedInOrder
<1> QED
  BY <1>1, OrderInvariant, PTL

\* advanceAutomatedSteps leaves no request that nobody can move: a pending
\* request rests on a step that needs a person and has been given one.
THEOREM PendingRequestsRestOnSomeone == Spec => []PendingRequestHasApprover
<1>1. OrderInv => PendingRequestHasApprover
  <2> SUFFICES ASSUME OrderInv, NEW r \in Request, status[r] = "PENDING"
               PROVE  \E i \in Pending(steps[r]) :
                        /\ IsCurrent(steps[r], i) /\ Stops(steps[r][i])
                        /\ steps[r][i].user # NoOne \/ steps[r][i].role # NoOne
    BY DEF PendingRequestHasApprover
  <2>1. RestsOnPerson(steps[r]) /\ Staffed(steps[r])
    BY DEF OrderInv, RequestInOrder
  <2> QED
    BY <2>1 DEF RestsOnPerson, Staffed, Pending
<1> QED
  BY <1>1, OrderInvariant, PTL

----------------------------------------------------------------------------
(* One handler at a time: Proc has at most one element *)

OneHandler == \A p, q \in Proc : p = q

\* What the status of a request tells of its steps.
Tells(st, ss) ==
  /\ st = "APPROVED" => \A i \in DOMAIN ss : ss[i].status = "APPROVED"
  /\ st = "REJECTED" =>
       \E i \in DOMAIN ss :
         /\ ss[i].status = "REJECTED"
         /\ \A j \in DOMAIN ss : /\ j < i => ss[j].status = "APPROVED"
                                 /\ i < j => ss[j].status = "PENDING"
  /\ st \in {"CANCELLED", "WITHDRAWN"} =>
       /\ \E i \in DOMAIN ss : ss[i].status = st
       /\ \A i \in DOMAIN ss : ss[i].status \in {"APPROVED", st}
  /\ st = "PENDING" =>
       /\ \E i \in DOMAIN ss : ss[i].status = "PENDING"
       /\ \A i \in DOMAIN ss : ss[i].status \in {"APPROVED", "PENDING"}
  /\ st = "NONE" => ss = <<>>

\* A handler in flight still sees what it read.
CallIsCurrent(p) ==
  (call[p] # Idle /\ call[p].op # "submit") =>
    /\ status[call[p].req] = "PENDING"
    /\ call[p].op \in StepOp => IsCurrent(steps[call[p].req], call[p].step)

SerialInv ==
  (\A r \in Request : Tells(status[r], steps[r])) /\ (\A p \in Proc : CallIsCurrent(p))

\* When its only handler commits, no call is in flight any more.
LEMMA SerialAfterCommit ==
  ASSUME OneHandler, ApprovalTypeOK, SerialInv, NEW p \in Proc, Finish(p),
         NEW r \in Request, NEW st, NEW new,
         status' = [status EXCEPT ![r] = st], steps' = [steps EXCEPT ![r] = new],
         Tells(st, new)
  PROVE  SerialInv'
<1>1. \A q \in Proc : call'[q] = Idle
  BY DEF Finish, ApprovalTypeOK, OneHandler
<1>2. \A q \in Proc : CallIsCurrent(q)'
  BY <1>1 DEF CallIsCurrent
<1>3. ASSUME NEW x \in Request PROVE Tells(status'[x], steps'[x])
  <2>1. CASE x = r
    BY <2>1 DEF ApprovalTypeOK
  <2>2. CASE x # r
    <3>1. status'[x] = status[x] /\ steps'[x] = steps[x]
      BY <2>2 DEF ApprovalTypeOK
    <3> QED
      BY <3>1 DEF SerialInv
  <2> QED
    BY <2>1, <2>2
<1> QED
  BY <1>2, <1>3 DEF SerialInv

\* A step that writes neither a status nor a step instance.
LEMMA SerialKept ==
  ASSUME SerialInv, UNCHANGED <<status, steps>>,
         \A q \in Proc : call'[q] = Idle \/ call'[q] = call[q]
  PROVE  SerialInv'
<1>1. \A q \in Proc : CallIsCurrent(q)'
  BY DEF SerialInv, CallIsCurrent, IsCurrent, Pending
<1> QED
  BY <1>1 DEF SerialInv

\* Reading: the guards of the handlers are what CallIsCurrent remembers.
LEMMA SerialAfterRead ==
  ASSUME OneHandler, ApprovalTypeOK, SerialInv, NEW p \in Proc, Begin(p) \/ Abort(p)
  PROVE  SerialInv'
<1>1. UNCHANGED <<status, steps>>
  BY DEF Begin, Abort, SubmitRead, StepRead, EndRead, requestVars
<1>2. CallIsCurrent(p)'
  <2>1. CASE Abort(p)
    BY <2>1, ApprovalsAssumption DEF Abort, Finish, ApprovalTypeOK, CallIsCurrent
  <2>2. ASSUME NEW u \in User, NEW r \in Request, NEW w \in WorkflowId,
               SubmitRead(p, u, r, w)
        PROVE  CallIsCurrent(p)'
    <3>1. PICK plan \in Plans(w) :
            call' = [call EXCEPT ![p] = [op |-> "submit", actor |-> u, req |-> r,
                                         workflow |-> w, plan |-> plan]]
      BY <2>2 DEF SubmitRead
    <3>2. call'[p].op = "submit"
      BY <3>1 DEF ApprovalTypeOK
    <3> QED
      BY <3>2 DEF CallIsCurrent
  <2>3. ASSUME NEW u \in User, NEW r \in Request, NEW op \in StepOp,
               NEW to \in User \cup {NoOne}, StepRead(p, u, r, op, to)
        PROVE  CallIsCurrent(p)'
    <3>1. PICK i \in Pending(steps[r]) :
            /\ IsCurrent(steps[r], i)
            /\ call' = [call EXCEPT ![p] = [op |-> op, actor |-> u, req |-> r,
                                            step |-> i, to |-> to]]
      BY <2>3 DEF StepRead
    <3>2. call'[p].op = op /\ call'[p].req = r /\ call'[p].step = i
      BY <3>1 DEF ApprovalTypeOK
    <3>3. status'[r] = "PENDING" /\ steps' = steps
      BY <1>1, <2>3 DEF StepRead
    <3> QED
      BY <3>1, <3>2, <3>3 DEF CallIsCurrent, IsCurrent, Pending
  <2>4. ASSUME NEW u \in User, NEW r \in Request, NEW op \in EndOp, EndRead(p, u, r, op)
        PROVE  CallIsCurrent(p)'
    <3>1. call'[p].op = op /\ call'[p].req = r /\ status'[r] = "PENDING"
      BY <1>1, <2>4 DEF EndRead, ApprovalTypeOK
    <3> QED
      BY <3>1 DEF CallIsCurrent, EndOp, StepOp
  <2> QED
    BY <2>1, <2>2, <2>3, <2>4 DEF Begin, StepOp
<1>3. \A q \in Proc : CallIsCurrent(q)'
  BY <1>2 DEF OneHandler
<1> QED
  BY <1>1, <1>3 DEF SerialInv

\* advanceAutomatedSteps on steps that are pending or approved: the request is
\* approved when all are, and otherwise still pending.
LEMMA AdvanceTells ==
  ASSUME NEW ss \in Seq(Instance), NEW f, f = Advanced(ss),
         \A i \in DOMAIN ss : ss[i].status \in {"PENDING", "APPROVED"}
  PROVE  Tells(IF Pending(f) = {} THEN "APPROVED" ELSE "PENDING", f)
<1>1. /\ DOMAIN f = DOMAIN ss
      /\ \A i \in DOMAIN ss : f[i] = ss[i] \/ f[i].status = "APPROVED"
  BY AdvancedFacts
<1>2. \A i \in DOMAIN f : f[i].status \in {"APPROVED", "PENDING"}
  BY <1>1
<1>3. CASE Pending(f) = {}
  BY <1>2, <1>3 DEF Tells, Pending
<1>4. CASE Pending(f) # {}
  <2>1. \E i \in DOMAIN f : f[i].status = "PENDING"
    BY <1>4 DEF Pending
  <2> QED
    BY <1>2, <1>4, <2>1 DEF Tells
<1> QED
  BY <1>3, <1>4

\* The commits, one handler at a time.
LEMMA SerialCommit ==
  ASSUME OneHandler, ApprovalTypeOK, ApprovalInv, OrderInv, SerialInv, NEW p \in Proc,
         Commit(p)
  PROVE  SerialInv'
<1>1. PICK r \in Request, s0 \in Seq(Instance) :
        call[p] # Idle /\ r = call[p].req /\ s0 = steps[r]
  BY CallType DEF Commit, SubmitCommit, ApproveCommit, RejectCommit,
                  ReturnCommit, DelegateCommit, EndCommit, ApprovalTypeOK
<1>2. ASSUME call[p].op # "submit"
      PROVE  /\ status[r] = "PENDING"
             /\ \E i \in DOMAIN s0 : s0[i].status = "PENDING"
             /\ \A i \in DOMAIN s0 : s0[i].status \in {"APPROVED", "PENDING"}
             /\ call[p].op \in StepOp => IsCurrent(s0, call[p].step)
  BY <1>1, <1>2 DEF SerialInv, CallIsCurrent, Tells
<1>3. \A i \in DOMAIN s0 : s0[i] \in Instance
  OBVIOUS
<1>4. DOMAIN s0 = 1 .. Len(s0) /\ Len(s0) \in Nat
  OBVIOUS
<1>5. ASSUME NEW ss \in Seq(Instance), NEW otherwise,
             \A i \in DOMAIN ss : ss[i].status \in {"PENDING", "APPROVED"},
             AdvanceAutomatedSteps(r, ss, "PENDING"), Finish(p)
      PROVE  SerialInv'
  <2>1. PICK f : f = Advanced(ss)
    OBVIOUS
  <2>2. Tells(IF Pending(f) = {} THEN "APPROVED" ELSE "PENDING", f)
    BY <1>5, <2>1, AdvanceTells
  <2>3. /\ steps' = [steps EXCEPT ![r] = f]
        /\ status' = [status EXCEPT ![r] = IF Pending(f) = {} THEN "APPROVED"
                                                               ELSE "PENDING"]
    BY <1>5, <2>1 DEF AdvanceAutomatedSteps, SetRequestTerminal
  <2> QED
    BY <1>5, <2>2, <2>3, SerialAfterCommit
<1>6. CASE SubmitCommit(p)
  <2>1. PICK ss \in Seq(Instance) :
          ss = call[p].plan /\ \A i \in DOMAIN ss : ss[i].status = "PENDING"
    BY <1>1, <1>6, CallType DEF SubmitCommit, ApprovalInv, CallInv
  <2>2. AdvanceAutomatedSteps(r, ss, "PENDING") /\ Finish(p)
    BY <1>1, <1>6, <2>1 DEF SubmitCommit
  <2> QED
    BY <1>5, <2>1, <2>2
<1>7. CASE ApproveCommit(p)
  <2>1. call[p].op = "approve"
    BY <1>7 DEF ApproveCommit
  <2>2. PICK k \in Nat : k = call[p].step
    BY <1>1, <2>1, CallType DEF StepOp
  <2>3. PICK ss : ss = [s0 EXCEPT ![k].status = "APPROVED"]
    OBVIOUS
  <2>4. ss \in Seq(Instance)
    BY <2>3, StepWriteType DEF Status, TERMINAL_APPROVAL_STATUSES
  <2>5. \A i \in DOMAIN ss : ss[i].status \in {"PENDING", "APPROVED"}
    BY <1>2, <1>3, <2>1, <2>3 DEF Instance
  <2>6. AdvanceAutomatedSteps(r, ss, "PENDING") /\ Finish(p)
    BY <1>1, <1>2, <1>7, <2>1, <2>2, <2>3 DEF ApproveCommit
  <2> QED
    BY <1>5, <2>4, <2>5, <2>6
<1>8. CASE RejectCommit(p)
  <2>1. call[p].op = "reject"
    BY <1>8 DEF RejectCommit
  <2>2. PICK k \in Nat : k = call[p].step
    BY <1>1, <2>1, CallType DEF StepOp
  <2>3. PICK ss : ss = [s0 EXCEPT ![k].status = "REJECTED"]
    OBVIOUS
  <2>4. /\ k \in DOMAIN s0 /\ s0[k].status = "PENDING"
        /\ \A j \in DOMAIN s0 : j < k => s0[j].status = "APPROVED"
    BY <1>2, <1>4, <2>1, <2>2 DEF StepOp, IsCurrent, Pending
  <2>5. \A j \in DOMAIN s0 : k < j => s0[j].status = "PENDING"
    <3>1. Ordered(s0)
      BY <1>1 DEF OrderInv, RequestInOrder
    <3> QED
      BY <2>4, <3>1 DEF Ordered
  <2>6. /\ DOMAIN ss = DOMAIN s0 /\ ss[k].status = "REJECTED"
        /\ \A j \in DOMAIN s0 : j # k => ss[j] = s0[j]
    BY <1>3, <2>3, <2>4 DEF Instance
  <2>7. \A j \in DOMAIN ss : /\ j < k => ss[j].status = "APPROVED"
                             /\ k < j => ss[j].status = "PENDING"
    <3>1. \A j \in DOMAIN s0 : (j < k => j # k) /\ (k < j => j # k)
      BY <1>4
    <3> QED
      BY <2>4, <2>5, <2>6, <3>1
  <2>8. Tells("REJECTED", ss)
    BY <2>4, <2>6, <2>7 DEF Tells
  <2>9. /\ steps' = [steps EXCEPT ![r] = ss]
        /\ status' = [status EXCEPT ![r] = "REJECTED"] /\ Finish(p)
    BY <1>1, <1>8, <2>2, <2>3 DEF RejectCommit, SetRequestTerminal
  <2> QED
    BY <2>8, <2>9, SerialAfterCommit
<1>9. CASE ReturnCommit(p)
  <2>1. \A q \in Proc : call'[q] = Idle \/ call'[q] = call[q]
    BY <1>9 DEF ReturnCommit, Finish, ApprovalTypeOK
  <2> QED
    BY <1>9, <2>1, SerialKept DEF ReturnCommit
<1>10. CASE DelegateCommit(p)
  <2>1. call[p].op = "delegate"
    BY <1>10 DEF DelegateCommit
  <2>2. PICK k \in Nat : k = call[p].step
    BY <1>1, <2>1, CallType DEF StepOp
  <2> DEFINE u == call[p].to
  <2>3. PICK ss : ss = [s0 EXCEPT ![k] = [@ EXCEPT !.user = u, !.role = NoOne]]
    OBVIOUS
  <2>4. DOMAIN ss = DOMAIN s0 /\ \A i \in DOMAIN s0 : ss[i].status = s0[i].status
    BY <1>3, <2>3 DEF Instance
  <2>5. Tells("PENDING", ss)
    BY <1>2, <2>1, <2>4 DEF Tells
  <2>6. status' = [status EXCEPT ![r] = "PENDING"]
    BY <1>2, <1>10, <2>1 DEF DelegateCommit, ApprovalTypeOK
  <2>7. steps' = [steps EXCEPT ![r] = ss] /\ Finish(p)
    BY <1>1, <1>10, <2>2, <2>3 DEF DelegateCommit
  <2> QED
    BY <2>5, <2>6, <2>7, SerialAfterCommit
<1>11. CASE EndCommit(p)
  <2>1. PICK st \in {"CANCELLED", "WITHDRAWN"} :
          st = IF call[p].op = "withdraw" THEN "WITHDRAWN" ELSE "CANCELLED"
    OBVIOUS
  <2>2. PICK ss : ss = [i \in DOMAIN s0 |-> IF s0[i].status = "PENDING"
                                           THEN [s0[i] EXCEPT !.status = st] ELSE s0[i]]
    OBVIOUS
  <2>3. /\ DOMAIN ss = DOMAIN s0
        /\ \A i \in DOMAIN s0 :
             ss[i].status = IF s0[i].status = "PENDING" THEN st ELSE s0[i].status
    BY <1>3, <2>2 DEF Instance
  <2>4. call[p].op # "submit"
    BY <1>11 DEF EndCommit, EndOp
  <2>5. /\ \E i \in DOMAIN ss : ss[i].status = st
        /\ \A i \in DOMAIN ss : ss[i].status \in {"APPROVED", st}
    BY <1>2, <2>3, <2>4
  <2>6. Tells(st, ss)
    BY <2>5 DEF Tells
  <2>7. /\ steps' = [steps EXCEPT ![r] = ss]
        /\ status' = [status EXCEPT ![r] = st] /\ Finish(p)
    BY <1>1, <1>11, <2>1, <2>2 DEF EndCommit, SetRequestTerminal
  <2> QED
    BY <2>6, <2>7, SerialAfterCommit
<1> QED
  BY <1>6, <1>7, <1>8, <1>9, <1>10, <1>11 DEF Commit

\* SerialInv is inductive when handlers do not overlap.
LEMMA NextSerial ==
  OneHandler /\ TypeOK /\ ApprovalInv /\ OrderInv /\ SerialInv /\ [Next]_vars => SerialInv'
<1> SUFFICES ASSUME OneHandler, ApprovalTypeOK, ApprovalInv, OrderInv, SerialInv,
                    [Next]_vars
             PROVE  SerialInv'
  BY DEF TypeOK
<1>1. ASSUME NEW u \in User, NEW r \in Request, SubmitWithoutWorkflow(u, r)
      PROVE  SerialInv'
  <2>1. status[r] = "NONE" /\ status' = [status EXCEPT ![r] = "APPROVED"]
    BY <1>1 DEF SubmitWithoutWorkflow
  <2>2. UNCHANGED <<steps, call>>
    BY <1>1 DEF SubmitWithoutWorkflow
  <2>3. steps[r] = <<>>
    BY <2>1 DEF SerialInv, Tells
  <2>4. Tells("APPROVED", <<>>)
    BY DEF Tells
  <2>5. ASSUME NEW x \in Request PROVE Tells(status'[x], steps'[x])
    <3>1. CASE x = r
      BY <2>1, <2>2, <2>3, <2>4, <3>1 DEF ApprovalTypeOK
    <3>2. CASE x # r
      <4>1. status'[x] = status[x] /\ steps'[x] = steps[x]
        BY <2>1, <2>2, <3>2 DEF ApprovalTypeOK
      <4> QED
        BY <4>1 DEF SerialInv
    <3> QED
      BY <3>1, <3>2
  <2>6. ASSUME NEW q \in Proc PROVE CallIsCurrent(q)'
    <3>1. CallIsCurrent(q)
      BY DEF SerialInv
    <3>2. call[q] # Idle => call[q].req \in Request
      BY CallType
    <3>3. \A x \in Request : status[x] = "PENDING" => status'[x] = "PENDING"
      BY <2>1 DEF ApprovalTypeOK
    <3> QED
      BY <2>2, <3>1, <3>2, <3>3 DEF CallIsCurrent, IsCurrent, Pending
  <2> QED
    BY <2>5, <2>6 DEF SerialInv
<1>2. ASSUME NEW u \in User, NEW r \in Request, Comment(u, r)
      PROVE  SerialInv'
  BY <1>2, SerialKept DEF Comment
<1>3. ASSUME NEW r \in Request, LinkWorkforceAction(r)
      PROVE  SerialInv'
  BY <1>3, SerialKept DEF LinkWorkforceAction
<1>4. ASSUME NEW p \in Proc, Begin(p) \/ Commit(p) \/ Abort(p)
      PROVE  SerialInv'
  BY <1>4, SerialAfterRead, SerialCommit
<1>5. CASE RequestNext
  BY <1>1, <1>2, <1>3, <1>4, <1>5 DEF RequestNext
<1>6. CASE UNCHANGED <<requestVars, definitionVars, call>>
  BY <1>6, SerialKept DEF requestVars
<1>7. RequestNext \/ UNCHANGED <<requestVars, definitionVars, call>>
  BY DEF Next, vars, requestVars, definitionVars
<1> QED
  BY <1>5, <1>6, <1>7

\* No request, no call: it holds at the start.
LEMMA InitSerial == Init => SerialInv
BY DEF Init, ApprovalInit, SerialInv, Tells, CallIsCurrent

\* When handlers of requests do not overlap, a handler in flight still sees what
\* it read, and the status of a request tells what became of its steps.
LEMMA SerialInvariant == OneHandler => (Spec => []SerialInv)
<1> SUFFICES ASSUME OneHandler PROVE Spec => []SerialInv
  OBVIOUS
<1>1. TypeOK /\ ApprovalInv /\ OrderInv /\ SerialInv /\ [Next]_vars => SerialInv'
  BY NextSerial
<1> QED
  BY <1>1, InitSerial, TypeCorrect, ApprovalInvariant, OrderInvariant, PTL DEF Spec

\* The status of a request is what its steps say, if handlers take turns:
\* approved when all are, rejected at the one step that all earlier ones led
\* to, cancelled or withdrawn with every step that was still open.
THEOREM StepsExplainStatusInTurns == OneHandler => (Spec => []StatusExplainedBySteps)
<1> SUFFICES ASSUME OneHandler PROVE Spec => []StatusExplainedBySteps
  OBVIOUS
<1>1. TypeOK /\ SerialInv => StatusExplainedBySteps
  <2> SUFFICES ASSUME ApprovalTypeOK, SerialInv PROVE StatusExplainedBySteps
    BY DEF TypeOK
  <2> DEFINE Are(r, st) == {i \in DOMAIN steps[r] : steps[r][i].status = st}
  <2>1. \A r \in Request : /\ Tells(status[r], steps[r]) /\ steps[r] \in Seq(Instance)
                           /\ status[r] \in Status \cup {"NONE"}
    BY DEF SerialInv, ApprovalTypeOK
  <2>2. ASSUME NEW r \in Request, status[r] = "REJECTED"
        PROVE  \E i \in Are(r, "REJECTED") :
                 /\ Are(r, "APPROVED") = 1 .. (i - 1)
                 /\ Are(r, "PENDING") = (i + 1) .. Len(steps[r])
    <3>1. PICK ss \in Seq(Instance) : ss = steps[r]
      BY <2>1
    <3>2. PICK i \in DOMAIN ss :
            /\ ss[i].status = "REJECTED"
            /\ \A j \in DOMAIN ss : /\ j < i => ss[j].status = "APPROVED"
                                    /\ i < j => ss[j].status = "PENDING"
      BY <2>1, <2>2, <3>1 DEF Tells
    <3>3. DOMAIN ss = 1 .. Len(ss) /\ Len(ss) \in Nat
      OBVIOUS
    <3>4. \A j \in DOMAIN ss : j < i \/ j = i \/ i < j
      BY <3>3
    <3>5. /\ Are(r, "APPROVED") = {j \in DOMAIN ss : j < i}
          /\ Are(r, "PENDING") = {j \in DOMAIN ss : i < j}
      BY <3>1, <3>2, <3>3, <3>4
    <3>6. {j \in DOMAIN ss : j < i} = 1 .. (i - 1)
      BY <3>2, <3>3
    <3>7. {j \in DOMAIN ss : i < j} = (i + 1) .. Len(ss)
      BY <3>2, <3>3
    <3> QED
      BY <3>1, <3>2, <3>5, <3>6, <3>7
  <2>3. ASSUME NEW r \in Request
        PROVE  /\ status[r] = "APPROVED" => Are(r, "APPROVED") = DOMAIN steps[r]
               /\ status[r] \in {"CANCELLED", "WITHDRAWN"} =>
                    /\ Are(r, status[r]) # {}
                    /\ Are(r, "APPROVED") \cup Are(r, status[r]) = DOMAIN steps[r]
               /\ status[r] = "PENDING" =>
                    /\ Are(r, "PENDING") # {}
                    /\ Are(r, "APPROVED") \cup Are(r, "PENDING") = DOMAIN steps[r]
               /\ status[r] = "NONE" => steps[r] = <<>>
    BY <2>1 DEF Tells
  <2> QED
    BY <2>1, <2>2, <2>3 DEF StatusExplainedBySteps, Status, TERMINAL_APPROVAL_STATUSES
<1> QED
  BY <1>1, TypeCorrect, SerialInvariant, PTL

\* Handlers that take turns never decide a request that has ended.
LEMMA SerialCommitOfPending ==
  ASSUME ApprovalTypeOK, ApprovalInv, SerialInv, NEW p \in Proc, Commit(p)
  PROVE  /\ call[p] # Idle /\ call[p].req \in Request
         /\ status[call[p].req] \in {"NONE", "PENDING"}
         /\ \A r \in Request \ {call[p].req} : /\ status'[r] = status[r]
                                               /\ steps'[r] = steps[r]
<1>1. call[p] # Idle /\ call[p].req \in Request
  BY CallType DEF Commit, SubmitCommit, ApproveCommit, RejectCommit,
                  ReturnCommit, DelegateCommit, EndCommit
<1>2. status[call[p].req] \in {"NONE", "PENDING"}
  BY <1>1 DEF ApprovalInv, CallInv, SerialInv, CallIsCurrent
<1>3. ASSUME NEW r \in Request, r # call[p].req
      PROVE  status'[r] = status[r] /\ steps'[r] = steps[r]
  <2>1. CASE SubmitCommit(p) \/ ApproveCommit(p)
    BY <1>3, <2>1 DEF SubmitCommit, ApproveCommit, AdvanceAutomatedSteps, SetRequestTerminal,
                      ApprovalTypeOK
  <2>2. CASE RejectCommit(p) \/ DelegateCommit(p)
    BY <1>3, <2>2 DEF RejectCommit, DelegateCommit, SetRequestTerminal, ApprovalTypeOK
  <2>3. CASE ReturnCommit(p) \/ EndCommit(p)
    BY <1>3, <2>3 DEF ReturnCommit, EndCommit, SetRequestTerminal, ApprovalTypeOK
  <2> QED
    BY <2>1, <2>2, <2>3 DEF Commit
<1> QED
  BY <1>1, <1>2, <1>3

\* assertRequestPending does what it is for when handlers take turns: a request
\* that has ended, and its steps, never change again.
THEOREM DecisionFinalInTurns == OneHandler => (Spec => DecisionIsFinal)
<1> SUFFICES ASSUME OneHandler PROVE Spec => DecisionIsFinal
  OBVIOUS
<1>1. TypeOK /\ ApprovalInv /\ SerialInv /\ [Next]_vars =>
        [\A r \in Request : status[r] \in TERMINAL_APPROVAL_STATUSES =>
           status'[r] = status[r] /\ steps'[r] = steps[r]]_vars
  <2> SUFFICES ASSUME ApprovalTypeOK, ApprovalInv, SerialInv, Next, NEW r \in Request,
                      status[r] \in TERMINAL_APPROVAL_STATUSES
               PROVE  status'[r] = status[r] /\ steps'[r] = steps[r]
    BY DEF TypeOK
  <2>1. status[r] \notin {"NONE", "PENDING"}
    BY DEF TERMINAL_APPROVAL_STATUSES
  <2>2. ASSUME NEW p \in Proc, Commit(p)
        PROVE  status'[r] = status[r] /\ steps'[r] = steps[r]
    BY <2>1, <2>2, SerialCommitOfPending
  <2>3. ASSUME NEW p \in Proc, Begin(p) \/ Abort(p)
        PROVE  status'[r] = status[r] /\ steps'[r] = steps[r]
    BY <2>3 DEF Begin, Abort, SubmitRead, StepRead, EndRead, requestVars
  <2>4. ASSUME NEW u \in User, NEW x \in Request,
               \/ SubmitWithoutWorkflow(u, x)
               \/ Comment(u, x)
        PROVE  status'[r] = status[r] /\ steps'[r] = steps[r]
    BY <2>1, <2>4 DEF SubmitWithoutWorkflow, Comment, ApprovalTypeOK
  <2>5. ASSUME NEW x \in Request, LinkWorkforceAction(x)
        PROVE  status'[r] = status[r] /\ steps'[r] = steps[r]
    BY <2>5 DEF LinkWorkforceAction
  <2>6. RequestNext \/ UNCHANGED requestVars
    BY DEF Next
  <2> QED
    BY <2>2, <2>3, <2>4, <2>5, <2>6 DEF RequestNext, requestVars
<1> QED
  BY <1>1, TypeCorrect, ApprovalInvariant, SerialInvariant, PTL DEF Spec, DecisionIsFinal

\* A commit of a handler that is alone creates or decides its request.
LEMMA CommitRefinesSerial ==
  ASSUME ApprovalTypeOK, ApprovalInv, SerialInv, NEW p \in Proc, Commit(p)
  PROVE  [Serial!LifecycleNext]_<<status, workforceAction>>
<1>1. PICK r \in Request : call[p] # Idle /\ r = call[p].req
  BY CallType DEF Commit, SubmitCommit, ApproveCommit, RejectCommit,
                  ReturnCommit, DelegateCommit, EndCommit
<1>2. RequestInv(r)
  BY DEF ApprovalInv
<1>3. call[p].op # "submit" => status[r] = "PENDING"
  BY <1>1 DEF SerialInv, CallIsCurrent
<1>4. ASSUME NEW st \in TERMINAL_APPROVAL_STATUSES, SetRequestTerminal(r, st),
             call[p].op # "submit"
      PROVE  Serial!LifecycleNext
  <2>1. status[r] = "PENDING" /\ workforceAction[r] \in {"NONE", "PENDING_APPROVAL"}
    BY <1>2, <1>3, <1>4 DEF RequestInv
  <2>2. workforceAction' = [workforceAction EXCEPT
          ![r] = IF @ = "NONE" THEN @ ELSE Serial!ActionOutcome(st)]
    BY <1>4, <2>1 DEF SetRequestTerminal, SettledAs, Serial!ActionOutcome, ApprovalTypeOK
  <2>3. Serial!Decide(r, st)
    BY <1>4, <2>1, <2>2 DEF SetRequestTerminal, Serial!Decide
  <2> QED
    BY <2>3 DEF Serial!LifecycleNext, Serial!Outcome, TERMINAL_APPROVAL_STATUSES
<1>5. CASE SubmitCommit(p)
  <2>1. status[r] = "NONE" /\ workforceAction[r] = "NONE"
    BY <1>1, <1>2, <1>5 DEF SubmitCommit, ApprovalInv, CallInv, RequestInv
  <2>2. /\ status' = [status EXCEPT ![r] = "PENDING"]
           \/ status' = [status EXCEPT ![r] = "APPROVED"]
        /\ workforceAction' = workforceAction
    BY <1>1, <1>5, <2>1 DEF SubmitCommit, AdvanceAutomatedSteps, SetRequestTerminal,
                            ApprovalTypeOK
  <2>3. Serial!Create(r)
    BY <2>1, <2>2 DEF Serial!Create
  <2> QED
    BY <2>3 DEF Serial!LifecycleNext
<1>6. CASE ApproveCommit(p)
  <2>1. PICK ss : AdvanceAutomatedSteps(r, ss, status[r])
    BY <1>1, <1>6 DEF ApproveCommit
  <2>2. \/ SetRequestTerminal(r, "APPROVED")
        \/ status' = status /\ workforceAction' = workforceAction
    BY <2>1 DEF AdvanceAutomatedSteps, ApprovalTypeOK
  <2> QED
    BY <1>4, <1>6, <2>2 DEF ApproveCommit, TERMINAL_APPROVAL_STATUSES
<1>7. CASE RejectCommit(p)
  BY <1>1, <1>4, <1>7 DEF RejectCommit, TERMINAL_APPROVAL_STATUSES
<1>8. CASE ReturnCommit(p) \/ DelegateCommit(p)
  BY <1>8 DEF ReturnCommit, DelegateCommit
<1>9. CASE EndCommit(p)
  BY <1>1, <1>4, <1>9 DEF EndCommit, EndOp, TERMINAL_APPROVAL_STATUSES
<1> QED
  BY <1>5, <1>6, <1>7, <1>8, <1>9 DEF Commit

\* README.md:34 holds when handlers take turns: every decision on a request is
\* the outcome of its workforce action, and no decision is overturned.
THEOREM RefinesSerialLifecycle == OneHandler => (Spec => ImplementsSerialLifecycle)
<1> SUFFICES ASSUME OneHandler PROVE Spec => ImplementsSerialLifecycle
  OBVIOUS
<1>1. Init => Serial!LifecycleInit
  BY DEF Init, ApprovalInit, Serial!LifecycleInit
<1>2. TypeOK /\ ApprovalInv /\ SerialInv /\ [Next]_vars =>
        [Serial!LifecycleNext]_<<status, workforceAction>>
  <2> SUFFICES ASSUME ApprovalTypeOK, ApprovalInv, SerialInv, [Next]_vars
               PROVE  [Serial!LifecycleNext]_<<status, workforceAction>>
    BY DEF TypeOK
  <2>1. ASSUME NEW p \in Proc, Begin(p) \/ Abort(p)
        PROVE  UNCHANGED <<status, workforceAction>>
    BY <2>1 DEF Begin, Abort, SubmitRead, StepRead, EndRead, requestVars
  <2>2. ASSUME NEW u \in User, NEW r \in Request, SubmitWithoutWorkflow(u, r)
        PROVE  Serial!LifecycleNext
    BY <2>2 DEF SubmitWithoutWorkflow, Serial!Create, Serial!LifecycleNext
  <2>3. ASSUME NEW r \in Request, LinkWorkforceAction(r)
        PROVE  Serial!LifecycleNext
    BY <2>3 DEF LinkWorkforceAction, Serial!Link, Serial!LifecycleNext
  <2>4. ASSUME NEW u \in User, NEW r \in Request, Comment(u, r)
        PROVE  UNCHANGED <<status, workforceAction>>
    BY <2>4 DEF Comment
  <2>5. RequestNext => [Serial!LifecycleNext]_<<status, workforceAction>>
    BY <2>1, <2>2, <2>3, <2>4, CommitRefinesSerial DEF RequestNext
  <2> QED
    BY <2>5 DEF Next, vars, requestVars
<1> QED
  BY <1>1, <1>2, TypeCorrect, ApprovalInvariant, SerialInvariant, PTL
     DEF Spec, ImplementsSerialLifecycle, Serial!LifecycleSpec

----------------------------------------------------------------------------
(* The lists of steps that the handlers of workflows.service.ts make *)

\* The elements of a sequence over S are in S.
LEMMA ToSetIn == ASSUME NEW S, NEW s \in Seq(S) PROVE ToSet(s) \subseteq S
BY DEF ToSet

\* An insertion adds nothing but the step that is inserted.
LEMMA InsertedSteps ==
  ASSUME NEW S, NEW s \in Seq(S), NEW e \in S, NEW i \in 1 .. (Len(s) + 1)
  PROVE  InsertAt(s, i, e) \in Seq(S) /\ ToSet(InsertAt(s, i, e)) \subseteq ToSet(s) \cup {e}
<1> DEFINE a == SubSeq(s, 1, i - 1)
           b == SubSeq(s, i, Len(s))
           t == a \o <<e>> \o b
<1>1. /\ Len(s) \in Nat /\ i \in Nat /\ 1 <= i /\ i <= Len(s) + 1
  OBVIOUS
<1>2. /\ a \in Seq(S) /\ Len(a) = i - 1 /\ \A j \in 1 .. (i - 1) : a[j] = s[j]
  BY <1>1
<1>3. b \in Seq(S) /\ Len(b) = Len(s) + 1 - i /\ \A j \in 1 .. (Len(s) + 1 - i) : b[j] = s[i + j - 1]
  BY <1>1
<1> HIDE DEF a, b
<1>4. t \in Seq(S)
  BY <1>2, <1>3
<1>5. \A j \in DOMAIN t : t[j] = e \/ \E k \in DOMAIN s : t[j] = s[k]
  <2> SUFFICES ASSUME NEW j \in DOMAIN t PROVE t[j] = e \/ \E k \in DOMAIN s : t[j] = s[k]
    OBVIOUS
  <2>1. j \in 1 .. (Len(s) + 1) /\ DOMAIN s = 1 .. Len(s)
    <3>1. Len(t) = Len(a) + 1 + Len(b)
      <4>1. <<e>> \in Seq(S) /\ Len(<<e>>) = 1
        OBVIOUS
      <4>2. a \o <<e>> \in Seq(S) /\ Len(a \o <<e>>) = Len(a) + 1
        BY <1>2, <4>1
      <4>3. PICK u \in Seq(S) : u = a \o <<e>>
        BY <4>2
      <4>4. Len(u \o b) = Len(u) + Len(b)
        <5>1. PICK v \in Seq(S) : v = b
          BY <1>3
        <5>2. Len(u \o v) = Len(u) + Len(v)
          OBVIOUS
        <5> QED
          BY <5>1, <5>2
      <4>5. t = u \o b
        BY <4>3
      <4> QED
        BY <4>2, <4>3, <4>4, <4>5
    <3>3. j \in 1 .. Len(t)
      BY <1>4
    <3>2. Len(a) + 1 + Len(b) = Len(s) + 1
      BY <1>1, <1>2, <1>3
    <3> QED
      BY <3>1, <3>2, <3>3
  <2>2. CASE j <= i - 1
    <3>1. t[j] = s[j] /\ j \in DOMAIN s
      BY <1>1, <1>2, <1>3, <2>1, <2>2
    <3> QED
      BY <3>1
  <2>3. CASE j = i
    BY <1>1, <1>2, <1>3, <2>1, <2>3
  <2>4. CASE j > i
    <3>1. t[j] = b[j - i] /\ (j - i) \in 1 .. (Len(s) + 1 - i)
      BY <1>1, <1>2, <1>3, <2>1, <2>4
    <3>2. PICK k \in 1 .. (Len(s) + 1 - i) : k = j - i
      BY <3>1
    <3>3. b[k] = s[i + k - 1]
      BY <1>3
    <3>4. i + k - 1 = j - 1
      BY <1>1, <2>1, <3>2
    <3>5. t[j] = s[j - 1]
      BY <3>1, <3>2, <3>3, <3>4
    <3>6. (j - 1) \in DOMAIN s
      BY <1>1, <2>1, <2>4
    <3> QED
      BY <3>5, <3>6
  <2> QED
    BY <1>1, <2>1, <2>2, <2>3, <2>4
<1>6. InsertAt(s, i, e) = t
  BY DEF InsertAt, a, b
<1> HIDE DEF t
<1> QED
  BY <1>4, <1>5, <1>6 DEF ToSet

\* A part of a list has no step that the list has not.
LEMMA SubSteps ==
  ASSUME NEW S, NEW s \in Seq(S), NEW i \in Nat \ {0}, NEW j \in Nat, j <= Len(s)
  PROVE  SubSeq(s, i, j) \in Seq(S) /\ ToSet(SubSeq(s, i, j)) \subseteq ToSet(s)
<1>1. SubSeq(s, i, j) \in Seq(S)
  OBVIOUS
<1>2. \A k \in DOMAIN SubSeq(s, i, j) : (i + k - 1) \in DOMAIN s /\ SubSeq(s, i, j)[k] = s[i + k - 1]
  OBVIOUS
<1> QED
  BY <1>1, <1>2 DEF ToSet

\* Two lists joined have the steps of both and no other.
LEMMA JoinedSteps ==
  ASSUME NEW S, NEW s \in Seq(S), NEW t \in Seq(S)
  PROVE  s \o t \in Seq(S) /\ ToSet(s \o t) \subseteq ToSet(s) \cup ToSet(t)
<1>1. s \o t \in Seq(S) /\ Len(s) \in Nat /\ Len(t) \in Nat
  OBVIOUS
<1>2. ASSUME NEW k \in DOMAIN (s \o t) PROVE (s \o t)[k] \in ToSet(s) \cup ToSet(t)
  <2>1. k \in 1 .. (Len(s) + Len(t))
    BY <1>1
  <2>2. CASE k <= Len(s)
    <3>1. (s \o t)[k] = s[k] /\ k \in DOMAIN s
      BY <1>1, <2>1, <2>2
    <3> QED
      BY <3>1 DEF ToSet
  <2>3. CASE k > Len(s)
    <3>1. (s \o t)[k] = t[k - Len(s)] /\ (k - Len(s)) \in DOMAIN t
      BY <1>1, <2>1, <2>3
    <3> QED
      BY <3>1 DEF ToSet
  <2> QED
    BY <1>1, <2>1, <2>2, <2>3
<1> QED
  BY <1>1, <1>2 DEF ToSet

\* A removal adds nothing.
LEMMA RemovedStep ==
  ASSUME NEW S, NEW s \in Seq(S), NEW e
  PROVE  RemoveFirst(s, e) \in Seq(S) /\ ToSet(RemoveFirst(s, e)) \subseteq ToSet(s)
<1>1. CASE ~\E i \in 1 .. Len(s) : s[i] = e
  BY <1>1 DEF RemoveFirst
<1>2. CASE \E i \in 1 .. Len(s) : s[i] = e
  <2> DEFINE I == {i \in 1 .. Len(s) : s[i] = e}
  <2>1. I # {} /\ I \subseteq 1 .. Len(s) /\ I \in SUBSET Nat
    BY <1>2
  <2>2. PICK m \in I : \A n \in I : m <= n
    BY <2>1, LeastNatural
  <2>3. Min(I) \in I
    BY <2>2 DEF Min
  <2>4. PICK k \in 1 .. Len(s) : k = Min(I)
    BY <2>1, <2>3
  <2>5. RemoveFirst(s, e) = RemoveAt(s, k)
    BY <1>2, <2>1, <2>4 DEF RemoveFirst, SelectInSeq
  <2>6. /\ SubSeq(s, 1, k - 1) \in Seq(S) /\ ToSet(SubSeq(s, 1, k - 1)) \subseteq ToSet(s)
        /\ SubSeq(s, k + 1, Len(s)) \in Seq(S) /\ ToSet(SubSeq(s, k + 1, Len(s))) \subseteq ToSet(s)
    <3>1. /\ k - 1 \in Nat /\ k - 1 <= Len(s) /\ Len(s) \in Nat /\ Len(s) <= Len(s)
          /\ k + 1 \in Nat \ {0} /\ 1 \in Nat \ {0}
      OBVIOUS
    <3> QED
      BY <3>1, SubSteps
  <2>7. RemoveAt(s, k) \in Seq(S) /\ ToSet(RemoveAt(s, k)) \subseteq ToSet(s)
    <3>1. PICK a \in Seq(S), b \in Seq(S) : a = SubSeq(s, 1, k - 1) /\ b = SubSeq(s, k + 1, Len(s))
      BY <2>6
    <3>2. a \o b \in Seq(S) /\ ToSet(a \o b) \subseteq ToSet(a) \cup ToSet(b)
      BY JoinedSteps
    <3>4. ToSet(a) \subseteq ToSet(s) /\ ToSet(b) \subseteq ToSet(s)
      BY <2>6, <3>1
    <3>3. RemoveAt(s, k) = a \o b
      BY <3>1 DEF RemoveAt
    <3> QED
      BY <3>2, <3>3, <3>4
  <2> QED
    BY <2>5, <2>7
<1> QED
  BY <1>1, <1>2

\* A reorder adds nothing.
LEMMA ReorderedSteps ==
  ASSUME NEW S, NEW now \in Seq(S), NEW order \in Seq(S), ToSet(order) \subseteq ToSet(now)
  PROVE  /\ order \o SubSeq(now, Len(order) + 1, Len(now)) \in Seq(S)
         /\ ToSet(order \o SubSeq(now, Len(order) + 1, Len(now))) \subseteq ToSet(now)
<1>1. Len(order) + 1 \in Nat \ {0} /\ Len(now) \in Nat /\ Len(now) <= Len(now)
  OBVIOUS
<1>2. PICK rest \in Seq(S) : rest = SubSeq(now, Len(order) + 1, Len(now)) /\ ToSet(rest) \subseteq ToSet(now)
  BY <1>1, SubSteps
<1>3. order \o rest \in Seq(S) /\ ToSet(order \o rest) \subseteq ToSet(order) \cup ToSet(rest)
  BY JoinedSteps
<1> QED
  BY <1>2, <1>3

----------------------------------------------------------------------------
(* The types of the definitions and of what their handlers have in progress *)

\* The types of what an edit writes.
DefinitionsFit ==
  /\ workflow \in [WorkflowId -> WorkflowRow] /\ stepDef \in [StepId -> StepDefRow]
  /\ steps \in [Request -> Seq(Instance)]
EditsFit == edit \in [Editor -> StructureCall \cup StatusCall \cup {Idle}]

TypeInv == ApprovalTypeOK /\ DelegationInv /\ EditsFit

\* The engine keeps its types whatever the definitions are.
LEMMA EngineTypes == ApprovalTypeOK /\ DelegationInv /\ [Next]_vars => (ApprovalTypeOK /\ DelegationInv)'
<1> SUFFICES ASSUME ApprovalTypeOK, DelegationInv, [Next]_vars PROVE (ApprovalTypeOK /\ DelegationInv)'
  OBVIOUS
<1>1. CASE RequestNext /\ UNCHANGED delegationVars /\ UNCHANGED definitionVars
  BY <1>1, RequestStepType, DelegationStep
<1>2. CASE DelegationNext /\ UNCHANGED <<requestVars, definitionVars, call>>
  <2>1. ApprovalTypeOK'
    BY <1>2 DEF requestVars, definitionVars, ApprovalTypeOK
  <2> QED
    BY <1>2, <2>1, DelegationStep
<1>3. CASE UNCHANGED vars
  <2>1. ApprovalTypeOK'
    BY <1>3 DEF vars, ApprovalTypeOK
  <2>2. UNCHANGED delegationVars
    BY <1>3 DEF vars, delegationVars
  <2> QED
    BY <2>1, <2>2, DelegationStep
<1> QED
  BY <1>1, <1>2, <1>3 DEF Next

\* What is left alone while definitions are edited.
EngineStands ==
  UNCHANGED <<delegationVars, status, workflowOf, submittedBy, workforceAction, history, events, call>>

\* An edit that leaves definitions and edits typed leaves everything typed.
LEMMA DefinitionTypes ==
  ASSUME TypeInv, EngineStands, DefinitionsFit', EditsFit'
  PROVE  TypeInv'
<1>1. ApprovalTypeOK'
  BY DEF TypeInv, ApprovalTypeOK, EngineStands, DefinitionsFit
<1>2. DelegationInv'
  <2>1. UNCHANGED delegationVars
    BY DEF EngineStands
  <2> QED
    BY <2>1, DelegationStep DEF TypeInv
<1> QED
  BY <1>1, <1>2 DEF TypeInv

\* The part of the type invariant that is about definitions.
LEMMA DefinitionsHaveTypes == TypeInv => DefinitionsFit
BY DEF TypeInv, ApprovalTypeOK, DefinitionsFit

\* What an edit in progress has.
LEMMA EditFields ==
  ASSUME TypeInv, NEW e \in Editor, edit[e] # Idle
  PROVE  LET c == edit[e] IN
         /\ c.workflow \in WorkflowId /\ c.op \in Structural \cup {"updateWorkflow", "transition"}
         /\ c.op \in Structural \ {"reorder"} => c.step \in StepId
         /\ c.op = "add" => c.row \in StepDefRow
         /\ c.op = "update" => c.patch \in StepPatch
         /\ c.op \in {"add", "move"} => c.at \in Nat \ {0}
         /\ c.op = "reorder" => c.order \in Seq(StepId)
         /\ c.op \in {"updateWorkflow", "transition"} => c.to \in WorkflowStatus
<1>1. edit[e] \in StructureCall \cup StatusCall
  BY DEF TypeInv, EditsFit
<1> PICK c : c = edit[e]
  OBVIOUS
<1>2. CASE c \in [op : {"add"}, workflow : WorkflowId, step : StepId, row : StepDefRow, at : Nat \ {0}]
  BY <1>2 DEF Structural
<1>3. CASE c \in [op : {"update"}, workflow : WorkflowId, step : StepId, patch : StepPatch]
  BY <1>3 DEF Structural
<1>4. CASE c \in [op : {"move"}, workflow : WorkflowId, step : StepId, at : Nat \ {0}]
  BY <1>4 DEF Structural
<1>5. CASE c \in [op : {"delete"}, workflow : WorkflowId, step : StepId]
  BY <1>5 DEF Structural
<1>6. CASE c \in [op : {"reorder"}, workflow : WorkflowId, order : Seq(StepId)]
  BY <1>6 DEF Structural
<1>7. CASE c \in StatusCall
  BY <1>7 DEF Structural, StatusCall
<1> QED
  BY <1>1, <1>2, <1>3, <1>4, <1>5, <1>6, <1>7 DEF StructureCall

\* The end of an edit leaves its slot idle.
LEMMA EditDone == ASSUME EditsFit, NEW e \in Editor, Done(e) PROVE EditsFit'
BY DEF EditsFit, Done

\* An edit that is begun has a call of the right type.
LEMMA EditBegun ==
  ASSUME EditsFit, NEW e \in Editor, NEW c \in StructureCall \cup StatusCall, edit' = [edit EXCEPT ![e] = c]
  PROVE  EditsFit'
BY DEF EditsFit

\* The steps of a workflow are a list of step ids.
LEMMA WorkflowSteps ==
  ASSUME DefinitionsFit, NEW w \in WorkflowId
  PROVE  /\ workflow[w].steps \in Seq(StepId) /\ StepsOf(w) \subseteq StepId
         /\ workflow[w] \in WorkflowRow
BY ToSetIn DEF DefinitionsFit, WorkflowRow, StepsOf

\* Writing the steps of one workflow leaves the others as they are.
LEMMA StepsWritten ==
  ASSUME DefinitionsFit, NEW w \in WorkflowId, NEW ss \in Seq(StepId), SetSteps(w, ss)
  PROVE  /\ workflow' \in [WorkflowId -> WorkflowRow] /\ workflow'[w].steps = ss
         /\ \A v \in WorkflowId \ {w} : workflow'[v] = workflow[v]
<1>1. workflow[w] \in WorkflowRow /\ workflow \in [WorkflowId -> WorkflowRow]
  BY DEF DefinitionsFit
<1>2. [workflow[w] EXCEPT !.steps = ss] \in WorkflowRow /\ [workflow[w] EXCEPT !.steps = ss].steps = ss
  BY <1>1 DEF WorkflowRow
<1> PICK row : row = [workflow[w] EXCEPT !.steps = ss]
  OBVIOUS
<1>3. workflow' = [workflow EXCEPT ![w] = row]
  BY DEF SetSteps
<1> QED
  BY <1>1, <1>2, <1>3

----------------------------------------------------------------------------
(* What an edit does to the steps of the workflows *)

\* No step is in two workflows.
StepsApart == \A v, w \in WorkflowId : v # w => StepsOf(v) \cap StepsOf(w) = {}

\* A request that is open was made from a workflow.
OpenHaveWorkflow == \A r \in Request : status[r] = "PENDING" => workflowOf[r] \in WorkflowId

\* What assertNoOpenRequests and the checks of the input found is still so.
EditStands(c) ==
  c # Idle /\ c.op \in Structural =>
    ~HasOpenRequests(c.workflow) /\ (c.op = "add" => c.step \notin LiveSteps)

\* The steps of one workflow change, with new rows D, and no request of it is open.
Reshapes(w, D) ==
  /\ w \in WorkflowId /\ D \cap LiveSteps = {} /\ ~HasOpenRequests(w)
  /\ \A v \in WorkflowId \ {w} : workflow'[v].steps = workflow[v].steps
  /\ ToSet(workflow'[w].steps) \subseteq StepsOf(w) \cup D
  /\ \A s \in StepId : s \notin StepsOf(w) \cup D => stepDef'[s] = stepDef[s]
Reshaped == \E w, D : Reshapes(w, D)

\* No steps change.
StepsStand == stepDef' = stepDef /\ \A v \in WorkflowId : workflow'[v].steps = workflow[v].steps

\* A live step is a step of some workflow.
LEMMA LiveStep == \A s : s \in LiveSteps <=> \E w \in WorkflowId : s \in StepsOf(w)
BY DEF LiveSteps, StepsOf, ToSet

\* A change to a workflow without open requests keeps the structure of the
\* workflows that have some, and keeps the workflows apart.
LEMMA ReshapedKeeps ==
  ASSUME DefinitionsFit, OpenHaveWorkflow, StepsApart, Reshaped
  PROVE  KeepsPendingStructure /\ StepsApart'
<1>1. PICK w, D : Reshapes(w, D)
  BY DEF Reshaped
<1>2. \A v \in WorkflowId : v # w => StepsOf(v)' = StepsOf(v) /\ workflow'[v].steps = workflow[v].steps
  BY <1>1 DEF Reshapes, StepsOf
<1>3. StepsOf(w)' \subseteq StepsOf(w) \cup D /\ w \in WorkflowId /\ D \cap LiveSteps = {} /\ ~HasOpenRequests(w)
  BY <1>1 DEF Reshapes, StepsOf
<1>4. \A v \in WorkflowId : \A s \in StepsOf(v) : s \notin D /\ s \in StepId
  BY <1>3, LiveStep, WorkflowSteps
<1>5. KeepsPendingStructure
  <2> SUFFICES ASSUME NEW r \in Request, status[r] = "PENDING"
               PROVE  /\ workflow'[workflowOf[r]].steps = workflow[workflowOf[r]].steps
                      /\ \A s \in StepsOf(workflowOf[r]) : stepDef'[s] = stepDef[s]
    BY DEF KeepsPendingStructure
  <2>1. PICK v \in WorkflowId : v = workflowOf[r]
    BY DEF OpenHaveWorkflow
  <2>2. v # w
    BY <1>3, <2>1 DEF HasOpenRequests
  <2>3. \A s \in StepsOf(v) : s \notin StepsOf(w) \cup D /\ s \in StepId
    BY <1>3, <1>4, <2>2 DEF StepsApart
  <2>4. \A s \in StepsOf(v) : stepDef'[s] = stepDef[s]
    BY <1>1, <2>3 DEF Reshapes
  <2> QED
    BY <1>2, <2>1, <2>2, <2>4
<1>6. StepsApart'
  <2> SUFFICES ASSUME NEW u \in WorkflowId, NEW v \in WorkflowId, u # v
               PROVE  StepsOf(u)' \cap StepsOf(v)' = {}
    BY DEF StepsApart
  <2>1. StepsOf(u) \cap StepsOf(v) = {}
    BY DEF StepsApart
  <2>2. CASE u # w /\ v # w
    BY <1>2, <2>1, <2>2
  <2>3. CASE u = w
    BY <1>2, <1>3, <1>4, <2>1, <2>3
  <2>4. CASE v = w
    BY <1>2, <1>3, <1>4, <2>1, <2>4
  <2> QED
    BY <2>2, <2>3, <2>4
<1> QED
  BY <1>5, <1>6

\* So does a step that changes no step of a workflow.
LEMMA StandingKeeps ==
  ASSUME OpenHaveWorkflow, StepsStand
  PROVE  KeepsPendingStructure /\ (StepsApart => StepsApart')
BY DEF OpenHaveWorkflow, StepsStand, KeepsPendingStructure, StepsApart, StepsOf

----------------------------------------------------------------------------
\* addStep writes its own workflow and its own row.
LEMMA AddReshapes ==
  ASSUME TypeInv, NEW e \in Editor, AddCommit(e)
  PROVE  DefinitionsFit' /\ (EditStands(edit[e]) => Reshaped)
<1> PICK c : c = edit[e]
  OBVIOUS
<1> PICK ss : ss = workflow[c.workflow].steps
  OBVIOUS
<1> DEFINE at == IF c.at > Len(ss) THEN Len(ss) + 1 ELSE c.at
<1>1. c # Idle /\ c.op = "add" /\ c.workflow \in WorkflowId /\ c.step \in StepId /\ c.row \in StepDefRow /\ c.at \in Nat \ {0}
  BY EditFields DEF AddCommit, InProgress, Structural
<1>2. DefinitionsFit /\ ss \in Seq(StepId)
  BY <1>1, DefinitionsHaveTypes, WorkflowSteps
<1>3. at \in 1 .. (Len(ss) + 1)
  BY <1>1, <1>2
<1>4. SetSteps(c.workflow, InsertAt(ss, at, c.step)) /\ stepDef' = [stepDef EXCEPT ![c.step] = c.row]
  BY DEF AddCommit
<1> HIDE DEF at
<1>5. InsertAt(ss, at, c.step) \in Seq(StepId) /\ ToSet(InsertAt(ss, at, c.step)) \subseteq ToSet(ss) \cup {c.step}
  BY <1>1, <1>2, <1>3, InsertedSteps
<1>6. /\ workflow' \in [WorkflowId -> WorkflowRow] /\ workflow'[c.workflow].steps = InsertAt(ss, at, c.step)
      /\ \A v \in WorkflowId \ {c.workflow} : workflow'[v] = workflow[v]
  BY <1>1, <1>2, <1>4, <1>5, StepsWritten
<1>7. /\ stepDef' \in [StepId -> StepDefRow] /\ \A s \in StepId : s # c.step => stepDef'[s] = stepDef[s]
  BY <1>1, <1>2, <1>4 DEF DefinitionsFit
<1>8. EditStands(edit[e]) => ~HasOpenRequests(c.workflow) /\ c.step \notin LiveSteps
  BY <1>1 DEF EditStands, Structural
<1>9. EditStands(edit[e]) => Reshapes(c.workflow, {c.step})
  BY <1>1, <1>5, <1>6, <1>7, <1>8 DEF Reshapes, StepsOf
<1>10. DefinitionsFit'
  BY <1>2, <1>6, <1>7 DEF DefinitionsFit, AddCommit
<1> QED
  BY <1>9, <1>10 DEF Reshaped

\* updateStep writes one row of its own workflow.
LEMMA UpdateReshapes ==
  ASSUME TypeInv, NEW e \in Editor, UpdateCommit(e)
  PROVE  DefinitionsFit' /\ (EditStands(edit[e]) => Reshaped)
<1> PICK c : c = edit[e]
  OBVIOUS
<1>1. c # Idle /\ c.op = "update" /\ c.workflow \in WorkflowId /\ c.step \in StepId /\ c.patch \in StepPatch
  BY EditFields DEF UpdateCommit, InProgress, Structural
<1>2. /\ DefinitionsFit /\ c.step \in StepsOf(c.workflow) /\ UNCHANGED <<workflow, steps>>
      /\ stepDef' = [stepDef EXCEPT ![c.step] = Patched(stepDef[c.step], c.patch)]
  BY DefinitionsHaveTypes DEF UpdateCommit
<1>3. Patched(stepDef[c.step], c.patch) \in StepDefRow
  BY <1>1, <1>2, WorkflowDefinitionsAssumption DEF DefinitionsFit
<1>4. /\ stepDef' \in [StepId -> StepDefRow] /\ \A s \in StepId : s # c.step => stepDef'[s] = stepDef[s]
  BY <1>1, <1>2, <1>3 DEF DefinitionsFit
<1>5. EditStands(edit[e]) => ~HasOpenRequests(c.workflow)
  BY <1>1 DEF EditStands, Structural
<1>6. EditStands(edit[e]) => Reshapes(c.workflow, {})
  BY <1>1, <1>2, <1>4, <1>5 DEF Reshapes, StepsOf
<1>7. DefinitionsFit'
  BY <1>2, <1>4 DEF DefinitionsFit
<1> QED
  BY <1>6, <1>7 DEF Reshaped

\* A move, a deletion and a reorder leave no step that was not there.
LEMMA ListReshapes ==
  ASSUME TypeInv, NEW w \in WorkflowId, NEW ss \in Seq(StepId), SetSteps(w, ss),
         ToSet(ss) \subseteq StepsOf(w), stepDef' = stepDef, steps' \in [Request -> Seq(Instance)]
  PROVE  DefinitionsFit' /\ (~HasOpenRequests(w) => Reshaped)
<1>1. DefinitionsFit
  BY DefinitionsHaveTypes
<1>2. /\ workflow' \in [WorkflowId -> WorkflowRow] /\ workflow'[w].steps = ss
      /\ \A v \in WorkflowId \ {w} : workflow'[v] = workflow[v]
  BY <1>1, StepsWritten
<1>3. ~HasOpenRequests(w) => Reshapes(w, {})
  BY <1>2 DEF Reshapes
<1> QED
  BY <1>1, <1>2, <1>3 DEF Reshaped, DefinitionsFit

\* A moved step stays in its workflow.
LEMMA MoveReshapes ==
  ASSUME TypeInv, NEW e \in Editor, MoveCommit(e)
  PROVE  DefinitionsFit' /\ (EditStands(edit[e]) => Reshaped)
<1> PICK c : c = edit[e]
  OBVIOUS
<1> PICK ss : ss = workflow[c.workflow].steps
  OBVIOUS
<1> PICK others : others = RemoveFirst(ss, c.step)
  OBVIOUS
<1> DEFINE at == IF c.at > Len(others) THEN Len(others) + 1 ELSE c.at
<1>1. c # Idle /\ c.op = "move" /\ c.workflow \in WorkflowId /\ c.step \in StepId /\ c.at \in Nat \ {0}
  BY EditFields DEF MoveCommit, InProgress, Structural
<1>2. DefinitionsFit /\ ss \in Seq(StepId) /\ StepsOf(c.workflow) = ToSet(ss) /\ steps \in [Request -> Seq(Instance)]
  BY <1>1, DefinitionsHaveTypes, WorkflowSteps DEF StepsOf, DefinitionsFit
<1>3. others \in Seq(StepId) /\ ToSet(others) \subseteq ToSet(ss)
  BY <1>2, RemovedStep
<1>4. at \in 1 .. (Len(others) + 1)
  BY <1>1, <1>3
<1>5. /\ c.step \in StepsOf(c.workflow) /\ SetSteps(c.workflow, InsertAt(others, at, c.step))
      /\ UNCHANGED <<stepDef, steps>>
  BY DEF MoveCommit
<1> HIDE DEF at
<1>6. PICK new \in Seq(StepId) : new = InsertAt(others, at, c.step) /\ ToSet(new) \subseteq ToSet(others) \cup {c.step}
  BY <1>1, <1>3, <1>4, InsertedSteps
<1>7. ToSet(new) \subseteq StepsOf(c.workflow)
  BY <1>2, <1>3, <1>5, <1>6
<1>8. EditStands(edit[e]) => ~HasOpenRequests(c.workflow)
  BY <1>1 DEF EditStands, Structural
<1> QED
  BY <1>1, <1>2, <1>5, <1>6, <1>7, <1>8, ListReshapes

\* An instance whose reference is nulled is still an instance.
LEMMA NulledTypes ==
  ASSUME NEW s, steps \in [Request -> Seq(Instance)], SetNull(s)
  PROVE  steps' \in [Request -> Seq(Instance)]
<1>1. ASSUME NEW r \in Request PROVE steps'[r] \in Seq(Instance)
  <2> PICK ss \in Seq(Instance) : ss = steps[r]
    OBVIOUS
  <2> DEFINE row(i) == IF ss[i].def = s THEN [ss[i] EXCEPT !.def = NoStep] ELSE ss[i]
  <2>1. steps'[r] = [i \in DOMAIN ss |-> row(i)]
    BY DEF SetNull
  <2>2. \A i \in DOMAIN ss : row(i) \in Instance
    <3> TAKE i \in DOMAIN ss
    <3>1. ss[i] \in Instance
      OBVIOUS
    <3> QED
      BY <3>1 DEF Instance
  <2> HIDE DEF row
  <2>3. DOMAIN ss = 1 .. Len(ss) /\ Len(ss) \in Nat
    OBVIOUS
  <2>4. [i \in 1 .. Len(ss) |-> row(i)] \in [1 .. Len(ss) -> Instance]
    BY <2>2, <2>3
  <2> QED
    BY <2>1, <2>3, <2>4
<1>2. steps' = [r \in Request |-> steps'[r]]
  BY DEF SetNull
<1> QED
  BY <1>1, <1>2

\* deleteStep takes one step from its own workflow.
LEMMA DeleteReshapes ==
  ASSUME TypeInv, NEW e \in Editor, DeleteCommit(e)
  PROVE  DefinitionsFit' /\ (EditStands(edit[e]) => Reshaped)
<1> PICK c : c = edit[e]
  OBVIOUS
<1> PICK ss : ss = workflow[c.workflow].steps
  OBVIOUS
<1>1. c # Idle /\ c.op = "delete" /\ c.workflow \in WorkflowId
  BY EditFields DEF DeleteCommit, InProgress
<1>2. DefinitionsFit /\ ss \in Seq(StepId) /\ StepsOf(c.workflow) = ToSet(ss) /\ steps \in [Request -> Seq(Instance)]
  BY <1>1, DefinitionsHaveTypes, WorkflowSteps DEF StepsOf, DefinitionsFit
<1>3. PICK new \in Seq(StepId) : new = RemoveFirst(ss, c.step) /\ ToSet(new) \subseteq ToSet(ss)
  BY <1>2, RemovedStep
<1>4. SetSteps(c.workflow, new) /\ SetNull(c.step) /\ stepDef' = stepDef
  BY <1>3 DEF DeleteCommit
<1>5. steps' \in [Request -> Seq(Instance)]
  BY <1>2, <1>4, NulledTypes
<1>6. EditStands(edit[e]) => ~HasOpenRequests(c.workflow)
  BY <1>1 DEF EditStands, Structural
<1> QED
  BY <1>1, <1>2, <1>3, <1>4, <1>5, <1>6, ListReshapes

\* reorderSteps keeps the steps there are.
LEMMA ReorderReshapes ==
  ASSUME TypeInv, NEW e \in Editor, ReorderCommit(e)
  PROVE  DefinitionsFit' /\ (EditStands(edit[e]) => Reshaped)
<1> PICK c : c = edit[e]
  OBVIOUS
<1> PICK ss : ss = workflow[c.workflow].steps
  OBVIOUS
<1>1. c # Idle /\ c.op = "reorder" /\ c.workflow \in WorkflowId /\ c.order \in Seq(StepId)
  BY EditFields DEF ReorderCommit, InProgress
<1>2. DefinitionsFit /\ ss \in Seq(StepId) /\ StepsOf(c.workflow) = ToSet(ss) /\ steps \in [Request -> Seq(Instance)]
  BY <1>1, DefinitionsHaveTypes, WorkflowSteps DEF StepsOf, DefinitionsFit
<1>3. /\ ToSet(c.order) \subseteq ToSet(ss) /\ UNCHANGED <<stepDef, steps>>
      /\ SetSteps(c.workflow, c.order \o SubSeq(ss, Len(c.order) + 1, Len(ss)))
  BY DEF ReorderCommit
<1>4. PICK new \in Seq(StepId) : new = c.order \o SubSeq(ss, Len(c.order) + 1, Len(ss)) /\ ToSet(new) \subseteq ToSet(ss)
  <2>1. PICK order \in Seq(StepId) : order = c.order
    BY <1>1
  <2>2. /\ order \o SubSeq(ss, Len(order) + 1, Len(ss)) \in Seq(StepId)
        /\ ToSet(order \o SubSeq(ss, Len(order) + 1, Len(ss))) \subseteq ToSet(ss)
    <3>1. ss \in Seq(StepId) /\ ToSet(order) \subseteq ToSet(ss)
      BY <1>2, <1>3, <2>1
    <3> QED
      BY <3>1, ReorderedSteps
  <2> QED
    BY <2>1, <2>2
<1>5. EditStands(edit[e]) => ~HasOpenRequests(c.workflow)
  BY <1>1 DEF EditStands, Structural
<1> QED
  BY <1>1, <1>2, <1>3, <1>4, <1>5, ListReshapes

\* A change of status changes no step.
LEMMA StatusStands ==
  ASSUME TypeInv, NEW e \in Editor, StatusCommit(e)
  PROVE  StepsStand /\ DefinitionsFit'
<1> PICK c : c = edit[e]
  OBVIOUS
<1>1. c.workflow \in WorkflowId /\ c.to \in WorkflowStatus
  BY EditFields DEF StatusCommit
<1>2. DefinitionsFit
  BY DefinitionsHaveTypes
<1> PICK row : row = [workflow[c.workflow] EXCEPT !.status = c.to, !.deleted = DeletedAfter(c, workflow[c.workflow].deleted)]
  OBVIOUS
<1>3. /\ workflow' = [workflow EXCEPT ![c.workflow] = row] /\ UNCHANGED <<stepDef, steps>>
  BY <1>1, <1>2 DEF StatusCommit, DefinitionsFit
<1>4. workflow[c.workflow] \in WorkflowRow
  BY <1>1, <1>2 DEF DefinitionsFit
<1>5. row \in WorkflowRow /\ row.steps = workflow[c.workflow].steps
  <2> PICK gone \in BOOLEAN : gone = DeletedAfter(c, workflow[c.workflow].deleted)
    BY <1>4 DEF DeletedAfter, WorkflowRow
  <2>1. row = [workflow[c.workflow] EXCEPT !.status = c.to, !.deleted = gone]
    OBVIOUS
  <2> QED
    BY <1>1, <1>4, <2>1 DEF WorkflowRow
<1> QED
  BY <1>1, <1>2, <1>3, <1>5 DEF StepsStand, DefinitionsFit

\* The rows that createWorkflow writes have ids of their own.
LEMMA CreateReshapes ==
  ASSUME TypeInv, NEW w \in WorkflowId, NEW st \in WorkflowStatus,
         NEW rows \in {<<>>} \cup {<<row>> : row \in StepInput}, CreateWorkflow(w, st, rows), UNCHANGED steps
  PROVE  \E D : /\ Reshapes(w, D) /\ \A s \in D : s \in StepId /\ Unused(s)
               /\ DefinitionsFit' /\ UNCHANGED edit /\ StepsOf(w) = {}
<1>1. rows \in Seq(StepDefRow) /\ DOMAIN rows = 1 .. Len(rows) /\ Len(rows) \in Nat
  <2>1. CASE rows = <<>>
    BY <2>1
  <2>2. ASSUME NEW row \in StepInput, rows = <<row>> PROVE rows \in Seq(StepDefRow)
    BY <2>2, WorkflowDefinitionsAssumption
  <2>3. rows \in Seq(StepDefRow)
    BY <2>1, <2>2
  <2> QED
    BY <2>3
<1>2. PICK ids \in [DOMAIN rows -> {s \in StepId : Unused(s)}] :
        /\ workflow' = [workflow EXCEPT ![w] = [status |-> st, deleted |-> FALSE, steps |-> [i \in DOMAIN rows |-> ids[i]]]]
        /\ stepDef' = [s \in StepId |-> IF \E i \in DOMAIN rows : ids[i] = s
                                       THEN rows[CHOOSE i \in DOMAIN rows : ids[i] = s] ELSE stepDef[s]]
  BY DEF CreateWorkflow
<1> DEFINE D == {ids[i] : i \in DOMAIN rows}
           ss == [i \in DOMAIN rows |-> ids[i]]
<1>3. DefinitionsFit /\ UnusedWorkflow(w) /\ UNCHANGED <<edit, steps>>
  BY DefinitionsHaveTypes DEF CreateWorkflow
<1>4. ss \in Seq(StepId) /\ ToSet(ss) \subseteq D
  <2>1. ss \in [1 .. Len(rows) -> StepId]
    BY <1>1
  <2> QED
    BY <1>1, <2>1 DEF ToSet
<1>5. \A s \in D : s \in StepId /\ Unused(s)
  OBVIOUS
<1>6. D \cap LiveSteps = {}
  BY <1>5 DEF Unused
<1>7. /\ workflow' \in [WorkflowId -> WorkflowRow] /\ workflow'[w].steps = ss
      /\ \A v \in WorkflowId \ {w} : workflow'[v] = workflow[v]
  <2> PICK row : row = [status |-> st, deleted |-> FALSE, steps |-> ss]
    OBVIOUS
  <2> HIDE DEF ss
  <2>1. row \in WorkflowRow /\ row.steps = ss
    BY <1>4 DEF WorkflowRow
  <2>2. workflow' = [workflow EXCEPT ![w] = row]
    BY <1>2 DEF ss
  <2> QED
    BY <1>3, <2>1, <2>2 DEF DefinitionsFit
<1>8. /\ stepDef' \in [StepId -> StepDefRow] /\ \A s \in StepId : s \notin D => stepDef'[s] = stepDef[s]
  <2>1. ASSUME NEW s \in StepId PROVE stepDef'[s] \in StepDefRow /\ (s \notin D => stepDef'[s] = stepDef[s])
    <3>1. CASE \E i \in DOMAIN rows : ids[i] = s
      <4>1. PICK j \in DOMAIN rows : j = CHOOSE i \in DOMAIN rows : ids[i] = s
        BY <3>1
      <4>2. stepDef'[s] = rows[j]
        BY <1>2, <3>1, <4>1
      <4>3. rows[j] \in StepDefRow
        BY <1>1
      <4> QED
        BY <3>1, <4>2, <4>3
    <3>2. CASE ~\E i \in DOMAIN rows : ids[i] = s
      BY <1>2, <1>3, <3>2 DEF DefinitionsFit
    <3> QED
      BY <3>1, <3>2
  <2> QED
    BY <1>2, <2>1
<1>9. ~HasOpenRequests(w) /\ StepsOf(w) = {}
  BY <1>3 DEF UnusedWorkflow, HasOpenRequests, NoRow, StepsOf, ToSet
<1> HIDE DEF D, ss
<1>10. Reshapes(w, D)
  BY <1>4, <1>6, <1>7, <1>8, <1>9 DEF Reshapes
<1>11. DefinitionsFit'
  BY <1>3, <1>7, <1>8 DEF DefinitionsFit
<1> QED
  BY <1>3, <1>5, <1>9, <1>10, <1>11

----------------------------------------------------------------------------
(* One handler at a time *)

\* With at most one transaction open, whoever has one is alone.
LEMMA OpenCounts ==
  ASSUME Open <= 1
  PROVE  /\ \A e \in Editor : edit[e] # Idle =>
              /\ \A p \in Proc : call[p] = Idle
              /\ \A f \in Editor : f # e => edit[f] = Idle
         /\ \A p \in Proc : call[p] # Idle => \A e \in Editor : edit[e] = Idle
<1> DEFINE A == {p \in Proc : call[p] # Idle}
           B == {e \in Editor : edit[e] # Idle}
<1>1. IsFiniteSet(A) /\ IsFiniteSet(B)
  BY WorkflowDefinitionsAssumption, FS_Subset
<1>2. PICK a \in Nat, b \in Nat : a = Cardinality(A) /\ b = Cardinality(B)
  BY <1>1, FS_CardinalityType
<1>3. a + b <= 1
  BY <1>2 DEF Open
<1>4. A # {} => a # 0
  BY <1>1, <1>2, FS_EmptySet
<1>5. B # {} => b # 0
  BY <1>1, <1>2, FS_EmptySet
<1>6. ASSUME NEW e \in B PROVE B = {e} /\ A = {}
  <2>1. b = 1 /\ a = 0
    BY <1>3, <1>5, <1>6
  <2>2. PICK f : B = {f}
    BY <1>1, <1>2, <2>1, FS_Singleton
  <2> QED
    BY <1>4, <1>6, <2>1, <2>2
<1>7. ASSUME NEW p \in A PROVE B = {}
  BY <1>2, <1>3, <1>4, <1>5, <1>7
<1> QED
  BY <1>6, <1>7

\* Open is a number in every state.
LEMMA OpenNumber == Open \in Nat /\ Open' \in Nat
<1>1. IsFiniteSet({p \in Proc : call[p] # Idle}) /\ IsFiniteSet({e \in Editor : edit[e] # Idle})
  BY WorkflowDefinitionsAssumption, FS_Subset
<1>2. IsFiniteSet({p \in Proc : call'[p] # Idle}) /\ IsFiniteSet({e \in Editor : edit'[e] # Idle})
  BY WorkflowDefinitionsAssumption, FS_Subset
<1> QED
  BY <1>1, <1>2, FS_CardinalityType DEF Open

----------------------------------------------------------------------------
(* The types of WorkflowDefinitions *)

\* A handler reads with a call of the right type.
LEMMA BegunCall ==
  ASSUME TypeInv, NEW e \in Editor, EditBegin(e)
  PROVE  \E c \in StructureCall \cup StatusCall :
           /\ StructureRead(e, c) \/ (c \in StatusCall /\ StatusRead(e, c))
<1>1. Places \subseteq Nat \ {0}
  BY WorkflowDefinitionsAssumption, FS_CardinalityType DEF Places
<1> PICK w \in WorkflowId :
    \/ \E s \in StepId, at \in Places :
         \/ \E row \in StepInput :
              StructureRead(e, [op |-> "add", workflow |-> w, step |-> s,
                                row |-> row, at |-> at])
         \/ StructureRead(e, [op |-> "move", workflow |-> w, step |-> s, at |-> at])
    \/ \E s \in StepId :
         \/ \E patch \in StepPatch :
              StructureRead(e, [op |-> "update", workflow |-> w, step |-> s, patch |-> patch])
         \/ StructureRead(e, [op |-> "delete", workflow |-> w, step |-> s])
    \/ \E order \in SetToSeqs(StepsOf(w)) :
         StructureRead(e, [op |-> "reorder", workflow |-> w, order |-> order])
    \/ \E op \in {"updateWorkflow", "transition"}, to \in WorkflowStatus :
         StatusRead(e, [op |-> op, workflow |-> w, to |-> to])
  BY DEF EditBegin
<1>2. ASSUME NEW s \in StepId, NEW at \in Places, NEW row \in StepInput
      PROVE  [op |-> "add", workflow |-> w, step |-> s, row |-> row, at |-> at] \in StructureCall
  BY <1>1, WorkflowDefinitionsAssumption DEF StructureCall
<1>3. ASSUME NEW s \in StepId, NEW at \in Places
      PROVE  [op |-> "move", workflow |-> w, step |-> s, at |-> at] \in StructureCall
  BY <1>1 DEF StructureCall
<1>4. ASSUME NEW s \in StepId, NEW patch \in StepPatch
      PROVE  [op |-> "update", workflow |-> w, step |-> s, patch |-> patch] \in StructureCall
  BY DEF StructureCall
<1>5. ASSUME NEW s \in StepId
      PROVE  [op |-> "delete", workflow |-> w, step |-> s] \in StructureCall
  BY DEF StructureCall
<1>6. ASSUME NEW order \in SetToSeqs(StepsOf(w))
      PROVE  [op |-> "reorder", workflow |-> w, order |-> order] \in StructureCall
  <2>1. StepsOf(w) \subseteq StepId /\ IsFiniteSet(StepsOf(w))
    BY WorkflowSteps, DefinitionsHaveTypes, WorkflowDefinitionsAssumption, FS_Subset
  <2>2. Cardinality(StepsOf(w)) \in Nat
    BY <2>1, FS_CardinalityType
  <2>3. order \in [1 .. Cardinality(StepsOf(w)) -> StepsOf(w)]
    BY DEF SetToSeqs
  <2>4. order \in Seq(StepId)
    BY <2>1, <2>2, <2>3
  <2> QED
    BY <2>4 DEF StructureCall
<1>7. ASSUME NEW op \in {"updateWorkflow", "transition"}, NEW to \in WorkflowStatus
      PROVE  [op |-> op, workflow |-> w, to |-> to] \in StatusCall
  BY DEF StatusCall
<1> QED
  BY <1>2, <1>3, <1>4, <1>5, <1>6, <1>7

\* The commits of an edit keep the types and end it.
LEMMA EditCommitTypes ==
  ASSUME TypeInv, NEW e \in Editor, EditCommit(e)
  PROVE  DefinitionsFit' /\ EditsFit' /\ Done(e)
<1>1. Done(e)
  BY DEF EditCommit, AddCommit, UpdateCommit, MoveCommit, DeleteCommit, ReorderCommit, StatusCommit
<1>2. EditsFit'
  BY <1>1, EditDone DEF TypeInv
<1> QED
  BY <1>1, <1>2, AddReshapes, UpdateReshapes, MoveReshapes, DeleteReshapes, ReorderReshapes, StatusStands
  DEF EditCommit

\* What editing does to the types.
LEMMA EditTypes ==
  ASSUME TypeInv, EditNext PROVE DefinitionsFit' /\ EditsFit'
<1>1. ASSUME NEW e \in Editor, EditBegin(e), UNCHANGED steps PROVE DefinitionsFit' /\ EditsFit'
  <2>1. PICK c \in StructureCall \cup StatusCall : edit' = [edit EXCEPT ![e] = c] /\ UNCHANGED definitionVars
    BY <1>1, BegunCall DEF StructureRead, StatusRead
  <2> QED
    BY <1>1, <2>1, EditBegun, DefinitionsHaveTypes DEF TypeInv, DefinitionsFit, definitionVars
<1>2. ASSUME NEW e \in Editor, EditAbort(e) PROVE DefinitionsFit' /\ EditsFit'
  BY <1>2, EditDone, DefinitionsHaveTypes DEF TypeInv, DefinitionsFit, definitionVars, EditAbort
<1>3. ASSUME NEW w \in WorkflowId, NEW st \in WorkflowStatus,
             NEW rows \in {<<>>} \cup {<<row>> : row \in StepInput}, CreateWorkflow(w, st, rows), UNCHANGED steps
      PROVE  DefinitionsFit' /\ EditsFit'
  BY <1>3, CreateReshapes DEF TypeInv, EditsFit
<1> QED
  BY <1>1, <1>2, <1>3, EditCommitTypes DEF EditNext

\* Every step of the engine and of the editors keeps the types.
LEMMA WorkflowsStepTypes ==
  TypeInv /\ [WorkflowsNext]_editVars => TypeInv'
<1> SUFFICES ASSUME TypeInv, [WorkflowsNext]_editVars PROVE TypeInv'
  OBVIOUS
<1>1. CASE Next /\ UNCHANGED edit
  BY <1>1, EngineTypes DEF TypeInv, EditsFit
<1>2. CASE /\ EditNext
           /\ UNCHANGED <<delegationVars, status, workflowOf, submittedBy, workforceAction, history, events, call>>
  BY <1>2, EditTypes, DefinitionTypes DEF EngineStands
<1>3. CASE UNCHANGED editVars
  BY <1>3, EngineTypes DEF TypeInv, EditsFit, editVars
<1> QED
  BY <1>1, <1>2, <1>3 DEF WorkflowsNext

\* Init satisfies it.
LEMMA WorkflowsStartTyped == WorkflowsInit => TypeInv
BY InitType, DelegationStart DEF WorkflowsInit, TypeInv, EditsFit, Init, TypeOK

\* The definitions, the requests made from them and the handlers on both keep
\* their types, however the handlers of workflows.service.ts and of
\* approvals.service.ts interleave.
THEOREM WorkflowsTyped == WorkflowsSpec => []WorkflowsTypeOK
<1>1. TypeInv => WorkflowsTypeOK
  BY DEF TypeInv, WorkflowsTypeOK, TypeOK, DelegationInv, EditsFit
<1> QED
  BY <1>1, WorkflowsStartTyped, WorkflowsStepTypes, PTL DEF WorkflowsSpec

----------------------------------------------------------------------------
(* Handlers that take turns *)

\* Whatever the engine does, a request that is pending afterwards was so before
\* or has just been submitted by a handler that had it in flight.
LEMMA PendingComesFrom ==
  ASSUME ApprovalTypeOK, RequestNext, NEW r \in Request, status'[r] = "PENDING"
  PROVE  \/ status[r] = "PENDING" /\ workflowOf'[r] = workflowOf[r]
         \/ \E p \in Proc : call[p] # Idle /\ workflowOf'[r] \in WorkflowId
<1> USE DEF ApprovalTypeOK
<1>1. ASSUME NEW p \in Proc, Begin(p) \/ Abort(p) PROVE status' = status /\ workflowOf' = workflowOf
  BY <1>1 DEF Begin, Abort, SubmitRead, StepRead, EndRead, requestVars
<1>2. ASSUME NEW p \in Proc, SubmitCommit(p)
      PROVE  \/ status[r] = "PENDING" /\ workflowOf'[r] = workflowOf[r]
             \/ call[p] # Idle /\ workflowOf'[r] \in WorkflowId
  <2>1. call[p] # Idle /\ call[p].workflow \in WorkflowId /\ call[p].req \in Request
    BY <1>2, CallType DEF SubmitCommit
  <2>2. workflowOf' = [workflowOf EXCEPT ![call[p].req] = call[p].workflow]
    BY <1>2 DEF SubmitCommit
  <2>3. r # call[p].req => status'[r] = status[r]
    BY <1>2 DEF SubmitCommit, AdvanceAutomatedSteps, SetRequestTerminal
  <2> QED
    BY <2>1, <2>2, <2>3
<1>3. ASSUME NEW p \in Proc, ApproveCommit(p) PROVE status[r] = "PENDING" /\ workflowOf' = workflowOf
  BY <1>3, CallType DEF ApproveCommit, AdvanceAutomatedSteps, SetRequestTerminal
<1>4. ASSUME NEW p \in Proc, RejectCommit(p) \/ ReturnCommit(p) \/ DelegateCommit(p) \/ EndCommit(p)
      PROVE  status[r] = "PENDING" /\ workflowOf' = workflowOf
  BY <1>4, CallType DEF RejectCommit, ReturnCommit, DelegateCommit, EndCommit, SetRequestTerminal
<1>5. ASSUME NEW u \in User, NEW x \in Request, SubmitWithoutWorkflow(u, x) \/ Comment(u, x)
      PROVE  status[r] = "PENDING" /\ workflowOf' = workflowOf
  BY <1>5 DEF SubmitWithoutWorkflow, Comment
<1>6. ASSUME NEW x \in Request, LinkWorkforceAction(x) PROVE status[r] = "PENDING" /\ workflowOf' = workflowOf
  BY <1>6 DEF LinkWorkforceAction
<1> QED
  BY <1>1, <1>2, <1>3, <1>4, <1>5, <1>6 DEF RequestNext, Commit

\* The same for a step of the engine or of a delegation.
LEMMA PendingBefore ==
  ASSUME ApprovalTypeOK, Next, NEW r \in Request, status'[r] = "PENDING"
  PROVE  \/ status[r] = "PENDING" /\ workflowOf'[r] = workflowOf[r]
         \/ \E p \in Proc : call[p] # Idle /\ workflowOf'[r] \in WorkflowId
<1>1. CASE RequestNext
  BY <1>1, PendingComesFrom
<1>2. CASE UNCHANGED requestVars
  BY <1>2 DEF requestVars
<1> QED
  BY <1>1, <1>2 DEF Next

\* An open request keeps the workflow it was made from.
LEMMA OpenKeepWorkflow ==
  ASSUME ApprovalTypeOK, Next, OpenHaveWorkflow PROVE OpenHaveWorkflow'
<1> SUFFICES ASSUME NEW r \in Request, status'[r] = "PENDING" PROVE workflowOf'[r] \in WorkflowId
  BY DEF OpenHaveWorkflow
<1> QED
  BY PendingBefore DEF OpenHaveWorkflow

\* The state between two handlers that take turns.
Undisturbed == Open <= 1 /\ StepsApart /\ \A e \in Editor : EditStands(edit[e])
TurnsInv ==
  TypeInv /\ OpenHaveWorkflow /\ overlapped \in BOOLEAN /\ (overlapped \/ Undisturbed)

\* An engine step while an edit is in progress: no submission is in flight.
LEMMA EngineKeepsTurns ==
  ASSUME TypeInv, OpenHaveWorkflow, Undisturbed, Next, UNCHANGED edit, Open' <= 1
  PROVE  Undisturbed' /\ KeepsPendingStructure
<1>1. workflow' = workflow /\ stepDef' = stepDef
  BY DEF Next, definitionVars
<1>2. StepsStand
  BY <1>1 DEF StepsStand
<1>3. LiveSteps' = LiveSteps
  BY <1>1 DEF LiveSteps
<1>4. ASSUME NEW e \in Editor PROVE EditStands(edit[e])'
  <2> SUFFICES ASSUME edit[e] # Idle, edit[e].op \in Structural
               PROVE  /\ ~HasOpenRequests(edit[e].workflow)'
                      /\ edit[e].op = "add" => edit[e].step \notin LiveSteps'
    BY DEF EditStands
  <2>1. \A p \in Proc : call[p] = Idle
    BY OpenCounts DEF Undisturbed
  <2>2. ~HasOpenRequests(edit[e].workflow) /\ (edit[e].op = "add" => edit[e].step \notin LiveSteps)
    BY DEF Undisturbed, EditStands
  <2>3. \A r \in Request : status'[r] = "PENDING" => status[r] = "PENDING" /\ workflowOf'[r] = workflowOf[r]
    BY <2>1, PendingBefore DEF TypeInv
  <2> QED
    BY <1>3, <2>2, <2>3 DEF HasOpenRequests
<1> QED
  BY <1>2, <1>4, StandingKeeps DEF Undisturbed

\* An edit is begun: what its reads found is what EditStands remembers.
LEMMA BeginKeepsTurns ==
  ASSUME TypeInv, OpenHaveWorkflow, Undisturbed, EngineStands, NEW e \in Editor, EditBegin(e), Open' <= 1
  PROVE  Undisturbed' /\ KeepsPendingStructure
<1>1. PICK c \in StructureCall \cup StatusCall : StructureRead(e, c) \/ (c \in StatusCall /\ StatusRead(e, c))
  BY BegunCall
<1>2. edit' = [edit EXCEPT ![e] = c] /\ workflow' = workflow /\ stepDef' = stepDef
  BY <1>1 DEF StructureRead, StatusRead, definitionVars
<1>3. StepsStand
  BY <1>2 DEF StepsStand
<1>4. LiveSteps' = LiveSteps
  BY <1>2 DEF LiveSteps
<1>5. \A w : HasOpenRequests(w)' <=> HasOpenRequests(w)
  BY DEF HasOpenRequests, EngineStands
<1>6. c # Idle /\ c.op \in Structural =>
        ~HasOpenRequests(c.workflow) /\ (c.op = "add" => c.step \notin LiveSteps)
  <2>1. CASE StructureRead(e, c)
    BY <2>1 DEF StructureRead, Acceptable, Unused
  <2>2. CASE c \in StatusCall
    BY <2>2 DEF StatusCall, Structural
  <2> QED
    BY <1>1, <2>1, <2>2
<1>7. ASSUME NEW f \in Editor PROVE EditStands(edit[f])'
  <2>1. edit'[f] = c \/ edit'[f] = edit[f]
    BY <1>2 DEF TypeInv, EditsFit
  <2>2. CASE edit'[f] = c
    BY <1>4, <1>5, <1>6, <2>2 DEF EditStands
  <2>3. CASE edit'[f] = edit[f]
    <3>1. EditStands(edit[f])
      BY DEF Undisturbed
    <3> QED
      BY <1>4, <1>5, <2>3, <3>1 DEF EditStands
  <2> QED
    BY <2>1, <2>2, <2>3
<1> QED
  BY <1>3, <1>7, StandingKeeps DEF Undisturbed

\* An edit ends, and with it the only transaction there was.
LEMMA EndKeepsTurns ==
  ASSUME TypeInv, Undisturbed, NEW e \in Editor, edit[e] # Idle, Done(e)
  PROVE  \A f \in Editor : EditStands(edit[f])'
<1> SUFFICES ASSUME NEW f \in Editor PROVE edit'[f] = Idle
  BY DEF EditStands
<1>1. f # e => edit[f] = Idle
  BY OpenCounts DEF Undisturbed
<1> QED
  BY <1>1 DEF Done, TypeInv, EditsFit

\* A commit changes a workflow without open requests, and ends the edit.
LEMMA CommitKeepsTurns ==
  ASSUME TypeInv, OpenHaveWorkflow, Undisturbed, NEW e \in Editor, EditCommit(e), Open' <= 1
  PROVE  Undisturbed' /\ KeepsPendingStructure
<1>1. edit[e] # Idle /\ Done(e)
  BY EditCommitTypes DEF EditCommit, AddCommit, UpdateCommit, MoveCommit, DeleteCommit, ReorderCommit, StatusCommit, InProgress
<1>2. EditStands(edit[e])
  BY DEF Undisturbed
<1>3. Reshaped \/ StepsStand
  BY <1>2, AddReshapes, UpdateReshapes, MoveReshapes, DeleteReshapes, ReorderReshapes, StatusStands DEF EditCommit
<1>4. KeepsPendingStructure /\ StepsApart'
  BY <1>3, ReshapedKeeps, StandingKeeps, DefinitionsHaveTypes DEF Undisturbed
<1> QED
  BY <1>1, <1>4, EndKeepsTurns DEF Undisturbed

\* A workflow is created with steps that no other transaction is about to add.
LEMMA CreateKeepsTurns ==
  ASSUME TypeInv, OpenHaveWorkflow, Undisturbed, EngineStands, NEW w \in WorkflowId, NEW st \in WorkflowStatus,
         NEW rows \in {<<>>} \cup {<<row>> : row \in StepInput}, CreateWorkflow(w, st, rows), UNCHANGED steps, Open' <= 1
  PROVE  Undisturbed' /\ KeepsPendingStructure
<1>1. PICK D : /\ Reshapes(w, D) /\ \A s \in D : s \in StepId /\ Unused(s)
               /\ DefinitionsFit' /\ UNCHANGED edit /\ StepsOf(w) = {}
  BY CreateReshapes
<1>2. KeepsPendingStructure /\ StepsApart'
  BY <1>1, ReshapedKeeps, DefinitionsHaveTypes DEF Undisturbed, Reshaped
<1>3. ASSUME NEW s \in LiveSteps' PROVE s \in LiveSteps \/ s \in D
  <2>1. PICK v \in WorkflowId : s \in ToSet(workflow'[v].steps)
    BY <1>3 DEF LiveSteps, ToSet
  <2>2. s \in ToSet(workflow[v].steps) \/ s \in D
    BY <1>1, <2>1 DEF Reshapes, StepsOf
  <2> QED
    BY <2>2 DEF LiveSteps, ToSet
<1>4. ASSUME NEW e \in Editor PROVE EditStands(edit[e])'
  <2> SUFFICES ASSUME edit[e] # Idle, edit[e].op \in Structural
               PROVE  /\ ~HasOpenRequests(edit[e].workflow)'
                      /\ edit[e].op = "add" => edit[e].step \notin LiveSteps'
    BY <1>1 DEF EditStands
  <2>1. ~HasOpenRequests(edit[e].workflow) /\ (edit[e].op = "add" => edit[e].step \notin LiveSteps)
    BY DEF Undisturbed, EditStands
  <2>2. edit[e].op = "add" => edit[e].step \notin D
    BY <1>1 DEF Unused, Structural
  <2>3. ~HasOpenRequests(edit[e].workflow)'
    BY <1>1, <2>1 DEF HasOpenRequests, EngineStands
  <2>4. edit[e].op = "add" => edit[e].step \notin LiveSteps'
    BY <1>3, <2>1, <2>2
  <2> QED
    BY <2>3, <2>4
<1> QED
  BY <1>2, <1>4 DEF Undisturbed

\* An edit that fails leaves everything as it was.
LEMMA AbortKeepsTurns ==
  ASSUME TypeInv, OpenHaveWorkflow, Undisturbed, NEW e \in Editor, EditAbort(e), Open' <= 1
  PROVE  Undisturbed' /\ KeepsPendingStructure
<1>1. StepsStand
  BY DEF EditAbort, StepsStand, definitionVars
<1> QED
  BY <1>1, EndKeepsTurns, StandingKeeps DEF EditAbort, Undisturbed

\* Nothing happens to the definitions.
LEMMA StutterKeepsTurns ==
  ASSUME OpenHaveWorkflow, Undisturbed, UNCHANGED editVars
  PROVE  Undisturbed' /\ KeepsPendingStructure
<1>1. StepsStand
  BY DEF editVars, vars, StepsStand
<1>2. Open' = Open /\ LiveSteps' = LiveSteps /\ UNCHANGED <<edit, status, workflowOf>>
  BY DEF editVars, vars, Open, LiveSteps
<1> QED
  BY <1>1, <1>2, StandingKeeps DEF Undisturbed, EditStands, HasOpenRequests

\* Every step keeps the invariant and, with no overlap, the structure.
LEMMA TurnsStep ==
  ASSUME TurnsInv, [MCNext]_<<editVars, overlapped>>
  PROVE  TurnsInv' /\ (~overlapped' => KeepsPendingStructure)
<1>1. [WorkflowsNext]_editVars
  BY DEF MCNext
<1>2. TypeInv'
  BY <1>1, WorkflowsStepTypes DEF TurnsInv
<1>3. OpenHaveWorkflow'
  <2>1. CASE Next
    BY <2>1, OpenKeepWorkflow DEF TurnsInv, TypeInv
  <2>2. CASE UNCHANGED <<status, workflowOf>>
    BY <2>2 DEF TurnsInv, OpenHaveWorkflow
  <2> QED
    BY <1>1, <2>1, <2>2 DEF WorkflowsNext, editVars, vars
<1>4. overlapped' \in BOOLEAN
  BY DEF TurnsInv, MCNext
<1>5. ASSUME ~overlapped' PROVE Undisturbed' /\ KeepsPendingStructure
  <2>1. Undisturbed /\ TypeInv /\ OpenHaveWorkflow
    BY <1>5 DEF TurnsInv, MCNext
  <2>2. CASE UNCHANGED editVars
    BY <2>1, <2>2, StutterKeepsTurns
  <2>3. CASE MCNext
    <3>1. Open' <= 1
      <4>1. PICK n \in Nat : n = Open'
        BY OpenNumber
      <4>2. ~(n > 1)
        BY <1>5, <2>3, <4>1 DEF MCNext
      <4> QED
        BY <4>1, <4>2
    <3>2. CASE Next /\ UNCHANGED edit
      BY <2>1, <3>1, <3>2, EngineKeepsTurns
    <3>3. CASE EditNext /\ EngineStands
      BY <2>1, <3>1, <3>3, BeginKeepsTurns, CommitKeepsTurns, CreateKeepsTurns, AbortKeepsTurns DEF EditNext
    <3> QED
      BY <2>3, <3>2, <3>3 DEF MCNext, WorkflowsNext, EngineStands
  <2> QED
    BY <2>2, <2>3 DEF editVars
<1> QED
  BY <1>2, <1>3, <1>4, <1>5 DEF TurnsInv

\* Init satisfies it.
LEMMA TurnsStart == MCInit => TurnsInv
<1> SUFFICES ASSUME MCInit PROVE TurnsInv
  OBVIOUS
<1>1. TypeInv /\ overlapped = FALSE
  BY WorkflowsStartTyped DEF MCInit
<1>2. OpenHaveWorkflow
  BY DEF MCInit, WorkflowsInit, Init, ApprovalInit, OpenHaveWorkflow
<1>3. Open <= 1
  <2>1. {p \in Proc : call[p] # Idle} = {} /\ {e \in Editor : edit[e] # Idle} = {}
    BY DEF MCInit, WorkflowsInit, Init, ApprovalInit
  <2> QED
    BY <2>1, FS_EmptySet DEF Open
<1>4. StepsApart
  BY WorkflowDefinitionsAssumption DEF MCInit, WorkflowsInit, Init, ApprovalInit, StepsApart, StepsOf
<1>5. \A e \in Editor : EditStands(edit[e])
  BY DEF MCInit, WorkflowsInit, EditStands
<1> QED
  BY <1>1, <1>2, <1>3, <1>4, <1>5 DEF TurnsInv, Undisturbed

\* workflows.service.ts:627: with handlers that take turns, no step of the
\* workflow of a pending request and no definition of one changes.
THEOREM StructureKeptInTurns == MCWorkflowsSpec => NoStructureChangeWhilePending
<1>1. TurnsInv /\ [MCNext]_<<editVars, overlapped>> =>
        TurnsInv' /\ [~overlapped' => KeepsPendingStructure]_<<editVars, overlapped>>
  BY TurnsStep
<1> QED
  BY <1>1, TurnsStart, PTL DEF MCWorkflowsSpec, NoStructureChangeWhilePending

----------------------------------------------------------------------------
(* No step instance refers to a step that is gone *)

\* Two lists joined have all steps of both.
LEMMA JoinedAll ==
  ASSUME NEW S, NEW s \in Seq(S), NEW t \in Seq(S)
  PROVE  ToSet(s) \subseteq ToSet(s \o t) /\ ToSet(t) \subseteq ToSet(s \o t)
<1>1. Len(s) \in Nat /\ Len(t) \in Nat /\ DOMAIN s = 1 .. Len(s) /\ DOMAIN t = 1 .. Len(t)
      /\ DOMAIN (s \o t) = 1 .. (Len(s) + Len(t))
  OBVIOUS
<1>2. ASSUME NEW k \in DOMAIN s PROVE k \in DOMAIN (s \o t) /\ (s \o t)[k] = s[k]
  BY <1>1
<1>3. ASSUME NEW k \in DOMAIN t PROVE (Len(s) + k) \in DOMAIN (s \o t) /\ (s \o t)[Len(s) + k] = t[k]
  BY <1>1
<1> QED
  BY <1>2, <1>3 DEF ToSet

\* A part of a list has the steps at its places.
LEMMA SubAll ==
  ASSUME NEW S, NEW s \in Seq(S), NEW i \in Nat \ {0}, NEW j \in Nat, j <= Len(s)
  PROVE  \A k \in i .. j : s[k] \in ToSet(SubSeq(s, i, j))
<1> TAKE k \in i .. j
<1>1. (k - i + 1) \in DOMAIN SubSeq(s, i, j) /\ SubSeq(s, i, j)[k - i + 1] = s[k]
  OBVIOUS
<1> QED
  BY <1>1 DEF ToSet

\* An insertion loses nothing.
LEMMA InsertedAll ==
  ASSUME NEW S, NEW s \in Seq(S), NEW e \in S, NEW i \in 1 .. (Len(s) + 1)
  PROVE  ToSet(s) \subseteq ToSet(InsertAt(s, i, e)) /\ e \in ToSet(InsertAt(s, i, e))
<1>1. PICK a \in Seq(S), b \in Seq(S) : a = SubSeq(s, 1, i - 1) /\ b = SubSeq(s, i, Len(s))
  <2>1. /\ 1 \in Nat \ {0} /\ i - 1 \in Nat /\ i - 1 <= Len(s) /\ i \in Nat \ {0} /\ Len(s) \in Nat /\ Len(s) <= Len(s)
    OBVIOUS
  <2>2. SubSeq(s, 1, i - 1) \in Seq(S) /\ SubSeq(s, i, Len(s)) \in Seq(S)
    BY <2>1, SubSteps
  <2> QED
    BY <2>2
<1>2. PICK m \in Seq(S) : m = <<e>> /\ e \in ToSet(m)
  <2>1. <<e>> \in Seq(S) /\ <<e>>[1] = e /\ 1 \in DOMAIN <<e>>
    OBVIOUS
  <2> QED
    BY <2>1 DEF ToSet
<1>3. PICK u \in Seq(S) : u = a \o m
  <2>1. a \o m \in Seq(S)
    OBVIOUS
  <2> QED
    BY <2>1
<1>4. /\ ToSet(a) \subseteq ToSet(u) /\ ToSet(m) \subseteq ToSet(u)
      /\ ToSet(u) \subseteq ToSet(u \o b) /\ ToSet(b) \subseteq ToSet(u \o b)
  BY <1>3, JoinedAll
<1>5. InsertAt(s, i, e) = u \o b
  BY <1>1, <1>2, <1>3 DEF InsertAt
<1>6. ASSUME NEW k \in DOMAIN s PROVE s[k] \in ToSet(a) \cup ToSet(b)
  <2>1. /\ k \in 1 .. Len(s) /\ Len(s) \in Nat /\ i - 1 \in Nat /\ i - 1 <= Len(s) /\ 1 \in Nat \ {0}
        /\ i \in Nat \ {0} /\ Len(s) <= Len(s)
    OBVIOUS
  <2>2. CASE k <= i - 1
    <3>1. k \in 1 .. (i - 1)
      BY <2>1, <2>2
    <3> QED
      BY <1>1, <2>1, <3>1, SubAll
  <2>3. CASE k >= i
    <3>1. k \in i .. Len(s)
      BY <2>1, <2>3
    <3> QED
      BY <1>1, <2>1, <3>1, SubAll
  <2> QED
    BY <2>1, <2>2, <2>3
<1>7. ToSet(s) \subseteq ToSet(a) \cup ToSet(b)
  BY <1>6 DEF ToSet
<1> QED
  BY <1>2, <1>4, <1>5, <1>7

\* A removal loses at most the step that is removed.
LEMMA RemovedAll ==
  ASSUME NEW S, NEW s \in Seq(S), NEW e
  PROVE  ToSet(s) \subseteq ToSet(RemoveFirst(s, e)) \cup {e}
<1>1. CASE ~\E i \in 1 .. Len(s) : s[i] = e
  BY <1>1 DEF RemoveFirst
<1>2. CASE \E i \in 1 .. Len(s) : s[i] = e
  <2> DEFINE I == {i \in 1 .. Len(s) : s[i] = e}
  <2>1. I # {} /\ I \subseteq 1 .. Len(s) /\ I \in SUBSET Nat
    BY <1>2
  <2>2. PICK m \in I : \A n \in I : m <= n
    BY <2>1, LeastNatural
  <2>3. Min(I) \in I
    BY <2>2 DEF Min
  <2>4. PICK k \in 1 .. Len(s) : k = Min(I) /\ s[k] = e
    BY <2>1, <2>3
  <2>5. RemoveFirst(s, e) = RemoveAt(s, k)
    BY <1>2, <2>1, <2>4 DEF RemoveFirst, SelectInSeq
  <2>6. PICK a \in Seq(S), b \in Seq(S) : a = SubSeq(s, 1, k - 1) /\ b = SubSeq(s, k + 1, Len(s))
    <3>1. /\ k - 1 \in Nat /\ k - 1 <= Len(s) /\ Len(s) \in Nat /\ Len(s) <= Len(s)
          /\ k + 1 \in Nat \ {0} /\ 1 \in Nat \ {0}
      OBVIOUS
    <3>2. SubSeq(s, 1, k - 1) \in Seq(S) /\ SubSeq(s, k + 1, Len(s)) \in Seq(S)
      BY <3>1, SubSteps
    <3> QED
      BY <3>2
  <2>7. RemoveAt(s, k) = a \o b /\ ToSet(a) \subseteq ToSet(a \o b) /\ ToSet(b) \subseteq ToSet(a \o b)
    BY <2>6, JoinedAll DEF RemoveAt
  <2>8. ASSUME NEW j \in DOMAIN s PROVE s[j] = e \/ s[j] \in ToSet(a) \/ s[j] \in ToSet(b)
    <3>1. /\ j \in 1 .. Len(s) /\ Len(s) \in Nat /\ k - 1 \in Nat /\ k - 1 <= Len(s) /\ 1 \in Nat \ {0}
          /\ k + 1 \in Nat \ {0} /\ Len(s) <= Len(s)
      OBVIOUS
    <3>2. CASE j <= k - 1
      <4>1. j \in 1 .. (k - 1)
        BY <3>1, <3>2
      <4> QED
        BY <2>6, <3>1, <4>1, SubAll
    <3>3. CASE j >= k + 1
      <4>1. j \in (k + 1) .. Len(s)
        BY <3>1, <3>3
      <4> QED
        BY <2>6, <3>1, <4>1, SubAll
    <3>4. CASE j = k
      BY <2>4, <3>4
    <3> QED
      BY <3>1, <3>2, <3>3, <3>4
  <2>9. ToSet(s) \subseteq ToSet(a) \cup ToSet(b) \cup {e}
    BY <2>8 DEF ToSet
  <2> QED
    BY <2>5, <2>7, <2>9
<1> QED
  BY <1>1, <1>2

\* A reorder loses nothing, also not the steps added in the meantime.
LEMMA ReorderedAll ==
  ASSUME NEW S, NEW now \in Seq(S), NEW order \in Seq(S), ToSet(SubSeq(now, 1, Len(order))) = ToSet(order)
  PROVE  ToSet(now) \subseteq ToSet(order \o SubSeq(now, Len(order) + 1, Len(now)))
<1>1. PICK n \in Nat, m \in Nat : n = Len(order) /\ m = Len(now)
  OBVIOUS
<1>2. PICK rest \in Seq(S) : rest = SubSeq(now, Len(order) + 1, Len(now))
  <2>1. n + 1 \in Nat \ {0} /\ m <= m
    OBVIOUS
  <2>2. SubSeq(now, n + 1, m) \in Seq(S)
    BY <1>1, <2>1, SubSteps
  <2> QED
    BY <1>1, <2>2
<1>3. ToSet(order) \subseteq ToSet(order \o rest) /\ ToSet(rest) \subseteq ToSet(order \o rest)
  BY JoinedAll
<1>4. ASSUME NEW k \in DOMAIN now PROVE now[k] \in ToSet(order) \cup ToSet(rest)
  <2>1. k \in 1 .. m
    BY <1>1
  <2>2. CASE k <= n
    <3>1. k \in DOMAIN SubSeq(now, 1, n) /\ SubSeq(now, 1, n)[k] = now[k]
      BY <2>1, <2>2
    <3> QED
      BY <1>1, <3>1 DEF ToSet
  <2>3. CASE k >= n + 1
    <3>1. k \in (n + 1) .. m /\ n + 1 \in Nat \ {0} /\ m <= m
      BY <2>1, <2>3
    <3>2. now[k] \in ToSet(SubSeq(now, n + 1, m))
      BY <1>1, <3>1, SubAll
    <3> QED
      BY <1>1, <1>2, <3>2
  <2> QED
    BY <2>1, <2>2, <2>3
<1>5. ToSet(now) \subseteq ToSet(order) \cup ToSet(rest)
  BY <1>4 DEF ToSet
<1> QED
  BY <1>2, <1>3, <1>5

\* Step instances refer to steps there are, or to none.
RefsOf(ss) == \A i \in DOMAIN ss : ss[i].def \in LiveSteps \cup {NoStep}

\* advanceAutomatedSteps writes no reference.
LEMMA AdvancedRefs ==
  ASSUME NEW ss \in Seq(Instance), RefsOf(ss) PROVE RefsOf(Advanced(ss))
<1>1. DOMAIN Advanced(ss) = DOMAIN ss /\ DOMAIN ss = 1 .. Len(ss)
  BY AdvancedFacts
<1> QED
  BY <1>1, AdvancedFacts DEF RefsOf

\* A commit of the engine writes the steps of one request.
LEMMA RefsWritten ==
  ASSUME ApprovalTypeOK, StepReferencesHold, UNCHANGED definitionVars,
         NEW r \in Request, NEW new, steps' = [steps EXCEPT ![r] = new], RefsOf(new)
  PROVE  StepReferencesHold'
<1>1. LiveSteps' = LiveSteps
  BY DEF definitionVars, LiveSteps
<1> SUFFICES ASSUME NEW x \in Request, NEW i \in DOMAIN steps'[x]
             PROVE  steps'[x][i].def \in LiveSteps \cup {NoStep}
  BY <1>1 DEF StepReferencesHold
<1>2. CASE x = r
  BY <1>2 DEF RefsOf, ApprovalTypeOK
<1>3. CASE x # r
  BY <1>3 DEF StepReferencesHold, ApprovalTypeOK
<1> QED
  BY <1>2, <1>3

\* No workflow and no step instance changes.
LEMMA RefsStand ==
  ASSUME StepReferencesHold, UNCHANGED <<workflow, steps>> PROVE StepReferencesHold'
<1>1. LiveSteps' = LiveSteps
  BY DEF LiveSteps
<1> QED
  BY <1>1 DEF StepReferencesHold

\* Every step of the engine keeps the references.
LEMMA EngineRefs ==
  ASSUME ApprovalTypeOK, StepReferencesHold, RequestNext, UNCHANGED definitionVars
  PROVE  StepReferencesHold'
<1>1. ASSUME NEW p \in Proc, Begin(p) \/ Abort(p) PROVE StepReferencesHold'
  BY <1>1, RefsStand DEF Begin, Abort, SubmitRead, StepRead, EndRead, requestVars, definitionVars
<1>2. ASSUME NEW p \in Proc, SubmitCommit(p) PROVE StepReferencesHold'
  <2>1. /\ call[p].plan \in Seq(Instance) /\ call[p].req \in Request
        /\ \A i \in DOMAIN call[p].plan : call[p].plan[i].def \in LiveSteps
        /\ steps' = [steps EXCEPT ![call[p].req] = Advanced(call[p].plan)]
    BY <1>2, CallType DEF SubmitCommit, AdvanceAutomatedSteps
  <2>2. RefsOf(Advanced(call[p].plan))
    BY <2>1, AdvancedRefs DEF RefsOf
  <2> QED
    BY <2>1, <2>2, RefsWritten
<1>3. ASSUME NEW p \in Proc, ApproveCommit(p) PROVE StepReferencesHold'
  <2>1. call[p].req \in Request /\ call[p].step \in Nat \ {0}
    BY <1>3, CallType DEF ApproveCommit, StepOp
  <2>2. PICK ss : ss = [steps[call[p].req] EXCEPT ![call[p].step].status = "APPROVED"]
    OBVIOUS
  <2>3. steps[call[p].req] \in Seq(Instance)
    BY <2>1 DEF ApprovalTypeOK
  <2>4. ss \in Seq(Instance)
    BY <2>1, <2>2, <2>3, StepWriteType DEF Status, TERMINAL_APPROVAL_STATUSES
  <2>5. DOMAIN ss = DOMAIN steps[call[p].req] /\ \A i \in DOMAIN ss : ss[i].def = steps[call[p].req][i].def
    <3>1. \A i \in DOMAIN steps[call[p].req] : steps[call[p].req][i] \in Instance
      BY <2>3
    <3> QED
      BY <2>2, <3>1 DEF Instance
  <2>6. RefsOf(Advanced(ss))
    BY <2>1, <2>4, <2>5, AdvancedRefs DEF RefsOf, StepReferencesHold
  <2>7. steps' = [steps EXCEPT ![call[p].req] = Advanced(ss)]
    BY <1>3, <2>2 DEF ApproveCommit, AdvanceAutomatedSteps
  <2> QED
    BY <2>1, <2>6, <2>7, RefsWritten
<1>4. ASSUME NEW p \in Proc, RejectCommit(p) PROVE StepReferencesHold'
  <2>1. call[p].req \in Request
    BY <1>4, CallType DEF RejectCommit
  <2>2. PICK ss : ss = [steps[call[p].req] EXCEPT ![call[p].step].status = "REJECTED"]
    OBVIOUS
  <2>3. \A i \in DOMAIN steps[call[p].req] : steps[call[p].req][i] \in Instance
    BY <2>1 DEF ApprovalTypeOK
  <2>4. DOMAIN ss = DOMAIN steps[call[p].req] /\ \A i \in DOMAIN ss : ss[i].def = steps[call[p].req][i].def
    BY <2>2, <2>3 DEF Instance
  <2>5. RefsOf(ss)
    BY <2>1, <2>4 DEF RefsOf, StepReferencesHold
  <2>6. steps' = [steps EXCEPT ![call[p].req] = ss]
    BY <1>4, <2>1, <2>2 DEF RejectCommit, ApprovalTypeOK
  <2> QED
    BY <2>1, <2>5, <2>6, RefsWritten
<1>5. ASSUME NEW p \in Proc, ReturnCommit(p) PROVE StepReferencesHold'
  BY <1>5, RefsStand DEF ReturnCommit, definitionVars
<1>6. ASSUME NEW p \in Proc, DelegateCommit(p) PROVE StepReferencesHold'
  <2>1. call[p].req \in Request
    BY <1>6, CallType DEF DelegateCommit
  <2>2. PICK ss : ss = [steps[call[p].req] EXCEPT ![call[p].step] = [@ EXCEPT !.user = call[p].to, !.role = NoOne]]
    OBVIOUS
  <2>3. \A i \in DOMAIN steps[call[p].req] : steps[call[p].req][i] \in Instance
    BY <2>1 DEF ApprovalTypeOK
  <2>4. DOMAIN ss = DOMAIN steps[call[p].req] /\ \A i \in DOMAIN ss : ss[i].def = steps[call[p].req][i].def
    BY <2>2, <2>3 DEF Instance
  <2>5. RefsOf(ss)
    BY <2>1, <2>4 DEF RefsOf, StepReferencesHold
  <2>6. steps' = [steps EXCEPT ![call[p].req] = ss]
    BY <1>6, <2>1, <2>2 DEF DelegateCommit, ApprovalTypeOK
  <2> QED
    BY <2>1, <2>5, <2>6, RefsWritten
<1>7. ASSUME NEW p \in Proc, EndCommit(p) PROVE StepReferencesHold'
  <2>1. call[p].req \in Request
    BY <1>7, CallType DEF EndCommit
  <2>2. PICK st : steps' = [steps EXCEPT ![call[p].req] =
             [i \in DOMAIN @ |-> IF @[i].status = "PENDING" THEN [@[i] EXCEPT !.status = st] ELSE @[i]]]
    BY <1>7 DEF EndCommit
  <2>3. PICK old : old = steps[call[p].req]
    OBVIOUS
  <2>4. \A i \in DOMAIN old : old[i] \in Instance
    BY <2>1, <2>3 DEF ApprovalTypeOK
  <2>5. PICK ss : ss = [i \in DOMAIN old |-> IF old[i].status = "PENDING" THEN [old[i] EXCEPT !.status = st] ELSE old[i]]
    OBVIOUS
  <2>6. DOMAIN ss = DOMAIN old /\ \A i \in DOMAIN ss : ss[i].def = old[i].def
    BY <2>4, <2>5 DEF Instance
  <2>7. RefsOf(ss)
    BY <2>1, <2>3, <2>6 DEF RefsOf, StepReferencesHold
  <2>8. steps' = [steps EXCEPT ![call[p].req] = ss]
    BY <2>1, <2>2, <2>3, <2>5 DEF ApprovalTypeOK
  <2> QED
    BY <2>1, <2>7, <2>8, RefsWritten
<1>8. ASSUME NEW u \in User, NEW x \in Request,
             SubmitWithoutWorkflow(u, x) \/ Comment(u, x)
      PROVE  StepReferencesHold'
  BY <1>8, RefsStand DEF SubmitWithoutWorkflow, Comment, definitionVars
<1>9. ASSUME NEW x \in Request, LinkWorkforceAction(x) PROVE StepReferencesHold'
  BY <1>9, RefsStand DEF LinkWorkforceAction, definitionVars
<1> QED
  BY <1>1, <1>2, <1>3, <1>4, <1>5, <1>6, <1>7, <1>8, <1>9 DEF RequestNext, Commit

\* One workflow gets other steps, and at most the step x is lost.
LEMMA LiveAfter ==
  ASSUME NEW w \in WorkflowId, NEW X, StepsOf(w) \subseteq ToSet(workflow'[w].steps) \cup X,
         \A v \in WorkflowId \ {w} : workflow'[v].steps = workflow[v].steps
  PROVE  LiveSteps \subseteq LiveSteps' \cup X
<1> SUFFICES ASSUME NEW s \in LiveSteps, s \notin X PROVE s \in LiveSteps'
  OBVIOUS
<1>1. PICK v \in WorkflowId : s \in ToSet(workflow[v].steps)
  BY DEF LiveSteps, ToSet
<1>2. s \in ToSet(workflow'[v].steps)
  BY <1>1 DEF StepsOf
<1> QED
  BY <1>1, <1>2 DEF LiveSteps, ToSet

\* A workflow that loses no step loses no reference.
LEMMA GrowthKeeps ==
  ASSUME TypeInv, StepReferencesHold, NEW w \in WorkflowId, NEW ss \in Seq(StepId), SetSteps(w, ss),
         StepsOf(w) \subseteq ToSet(ss), steps' = steps
  PROVE  StepReferencesHold'
<1>1. LiveSteps \subseteq LiveSteps'
  <2>1. /\ workflow'[w].steps = ss /\ \A v \in WorkflowId \ {w} : workflow'[v].steps = workflow[v].steps
    BY StepsWritten, DefinitionsHaveTypes
  <2>2. LiveSteps \subseteq LiveSteps' \cup {}
    BY <2>1, LiveAfter
  <2> QED
    BY <2>2
<1> QED
  BY <1>1 DEF StepReferencesHold

\* An addition keeps every step there is.
LEMMA AddRefs ==
  ASSUME TypeInv, StepReferencesHold, NEW e \in Editor, AddCommit(e)
  PROVE  StepReferencesHold'
<1> PICK c : c = edit[e]
  OBVIOUS
<1> PICK ss : ss = workflow[c.workflow].steps
  OBVIOUS
<1> DEFINE at == IF c.at > Len(ss) THEN Len(ss) + 1 ELSE c.at
<1>1. c.workflow \in WorkflowId /\ c.step \in StepId /\ c.at \in Nat \ {0}
  BY EditFields DEF AddCommit, InProgress, Structural
<1>2. ss \in Seq(StepId) /\ StepsOf(c.workflow) = ToSet(ss)
  BY <1>1, DefinitionsHaveTypes, WorkflowSteps DEF StepsOf
<1>3. at \in 1 .. (Len(ss) + 1)
  BY <1>1, <1>2
<1>4. SetSteps(c.workflow, InsertAt(ss, at, c.step)) /\ steps' = steps
  BY DEF AddCommit
<1> HIDE DEF at
<1>5. PICK new \in Seq(StepId) : new = InsertAt(ss, at, c.step) /\ ToSet(ss) \subseteq ToSet(new)
  <2>1. InsertAt(ss, at, c.step) \in Seq(StepId)
    BY <1>1, <1>2, <1>3, InsertedSteps
  <2>2. ToSet(ss) \subseteq ToSet(InsertAt(ss, at, c.step))
    BY <1>1, <1>2, <1>3, InsertedAll
  <2> QED
    BY <2>1, <2>2
<1> QED
  BY <1>1, <1>2, <1>4, <1>5, GrowthKeeps

\* A move keeps every step there is.
LEMMA MoveRefs ==
  ASSUME TypeInv, StepReferencesHold, NEW e \in Editor, MoveCommit(e)
  PROVE  StepReferencesHold'
<1> PICK c : c = edit[e]
  OBVIOUS
<1> PICK ss : ss = workflow[c.workflow].steps
  OBVIOUS
<1> PICK others : others = RemoveFirst(ss, c.step)
  OBVIOUS
<1> DEFINE at == IF c.at > Len(others) THEN Len(others) + 1 ELSE c.at
<1>1. c.workflow \in WorkflowId /\ c.step \in StepId /\ c.at \in Nat \ {0}
  BY EditFields DEF MoveCommit, InProgress, Structural
<1>2. ss \in Seq(StepId) /\ StepsOf(c.workflow) = ToSet(ss)
  BY <1>1, DefinitionsHaveTypes, WorkflowSteps DEF StepsOf
<1>3. others \in Seq(StepId) /\ ToSet(ss) \subseteq ToSet(others) \cup {c.step}
  BY <1>2, RemovedStep, RemovedAll
<1>4. at \in 1 .. (Len(others) + 1)
  BY <1>1, <1>3
<1>5. SetSteps(c.workflow, InsertAt(others, at, c.step)) /\ steps' = steps
  BY DEF MoveCommit
<1> HIDE DEF at
<1>6. PICK new \in Seq(StepId) :
        new = InsertAt(others, at, c.step) /\ ToSet(others) \subseteq ToSet(new) /\ c.step \in ToSet(new)
  BY <1>1, <1>3, <1>4, InsertedSteps, InsertedAll
<1>7. ToSet(ss) \subseteq ToSet(new)
  BY <1>3, <1>6
<1> QED
  BY <1>1, <1>2, <1>5, <1>6, <1>7, GrowthKeeps

\* A reorder keeps every step there is.
LEMMA ReorderRefs ==
  ASSUME TypeInv, StepReferencesHold, NEW e \in Editor, ReorderCommit(e)
  PROVE  StepReferencesHold'
<1> PICK c : c = edit[e]
  OBVIOUS
<1> PICK ss : ss = workflow[c.workflow].steps
  OBVIOUS
<1>1. c.workflow \in WorkflowId /\ c.order \in Seq(StepId)
  BY EditFields DEF ReorderCommit, InProgress, Structural
<1>2. ss \in Seq(StepId) /\ StepsOf(c.workflow) = ToSet(ss)
  BY <1>1, DefinitionsHaveTypes, WorkflowSteps DEF StepsOf
<1>3. PICK order \in Seq(StepId) : order = c.order
  BY <1>1
<1>4. /\ ToSet(order) \subseteq ToSet(ss) /\ ToSet(SubSeq(ss, 1, Len(order))) = ToSet(order) /\ steps' = steps
      /\ SetSteps(c.workflow, order \o SubSeq(ss, Len(order) + 1, Len(ss)))
  BY <1>3 DEF ReorderCommit
<1>5. PICK new : new = order \o SubSeq(ss, Len(order) + 1, Len(ss))
  OBVIOUS
<1>6. new \in Seq(StepId)
  BY <1>2, <1>4, <1>5, ReorderedSteps
<1>7. ToSet(ss) \subseteq ToSet(new)
  BY <1>2, <1>4, <1>5, ReorderedAll
<1> QED
  BY <1>1, <1>2, <1>4, <1>5, <1>6, <1>7, GrowthKeeps

\* A deletion takes the references to the step with it.
LEMMA DeleteRefs ==
  ASSUME TypeInv, StepReferencesHold, NEW e \in Editor, DeleteCommit(e)
  PROVE  StepReferencesHold'
<1> PICK c : c = edit[e]
  OBVIOUS
<1> PICK ss : ss = workflow[c.workflow].steps
  OBVIOUS
<1>1. c.workflow \in WorkflowId /\ c.step \in StepId
  BY EditFields DEF DeleteCommit, InProgress, Structural
<1>2. DefinitionsFit /\ ss \in Seq(StepId) /\ StepsOf(c.workflow) = ToSet(ss)
  BY <1>1, DefinitionsHaveTypes, WorkflowSteps DEF StepsOf
<1>3. PICK new : new = RemoveFirst(ss, c.step)
  OBVIOUS
<1>4. new \in Seq(StepId) /\ ToSet(ss) \subseteq ToSet(new) \cup {c.step}
  BY <1>2, <1>3, RemovedStep, RemovedAll
<1>5. SetSteps(c.workflow, new) /\ SetNull(c.step)
  BY <1>3 DEF DeleteCommit
<1>6. LiveSteps \subseteq LiveSteps' \cup {c.step}
  <2>1. workflow'[c.workflow].steps = new /\ \A v \in WorkflowId \ {c.workflow} : workflow'[v].steps = workflow[v].steps
    BY <1>1, <1>2, <1>4, <1>5, StepsWritten
  <2>2. StepsOf(c.workflow) \subseteq ToSet(workflow'[c.workflow].steps) \cup {c.step}
    BY <1>2, <1>4, <2>1
  <2> QED
    BY <1>1, <2>1, <2>2, LiveAfter
<1>7. ASSUME NEW r \in Request, NEW i \in DOMAIN steps'[r]
      PROVE  steps'[r][i].def \in LiveSteps' \cup {NoStep}
  <2>1. PICK old \in Seq(Instance) : old = steps[r]
    BY <1>2 DEF DefinitionsFit
  <2>2. steps'[r] = [j \in DOMAIN old |-> IF old[j].def = c.step THEN [old[j] EXCEPT !.def = NoStep] ELSE old[j]]
    BY <1>5, <2>1 DEF SetNull
  <2>3. i \in DOMAIN old /\ old[i] \in Instance
    BY <2>1, <2>2
  <2>4. old[i].def \in LiveSteps \cup {NoStep}
    BY <2>1, <2>3 DEF StepReferencesHold
  <2>5. CASE old[i].def = c.step
    BY <2>2, <2>3, <2>5 DEF Instance
  <2>6. CASE old[i].def # c.step
    <3>1. steps'[r][i].def = old[i].def
      BY <2>2, <2>3, <2>6
    <3> QED
      BY <1>6, <2>4, <2>6, <3>1
  <2> QED
    BY <2>5, <2>6
<1> QED
  BY <1>7 DEF StepReferencesHold

\* A new workflow takes no step from another.
LEMMA CreateRefs ==
  ASSUME TypeInv, StepReferencesHold, NEW w \in WorkflowId, NEW st \in WorkflowStatus,
         NEW rows \in {<<>>} \cup {<<row>> : row \in StepInput}, CreateWorkflow(w, st, rows), UNCHANGED steps
  PROVE  StepReferencesHold'
<1>1. PICK D : Reshapes(w, D) /\ StepsOf(w) = {}
  BY CreateReshapes
<1>2. \A v \in WorkflowId \ {w} : workflow'[v].steps = workflow[v].steps
  BY <1>1 DEF Reshapes
<1>3. LiveSteps \subseteq LiveSteps' \cup {}
  BY <1>1, <1>2, LiveAfter
<1> QED
  BY <1>3 DEF StepReferencesHold

\* A change of status keeps the steps.
LEMMA StatusRefs ==
  ASSUME TypeInv, StepReferencesHold, NEW e \in Editor, StatusCommit(e) PROVE StepReferencesHold'
<1>1. StepsStand /\ steps' = steps
  BY StatusStands DEF StatusCommit
<1>2. LiveSteps' = LiveSteps
  BY <1>1 DEF StepsStand, LiveSteps
<1> QED
  BY <1>1, <1>2 DEF StepReferencesHold

\* Every step of the engine and of the editors keeps the references.
LEMMA WorkflowsStepRefs ==
  TypeInv /\ StepReferencesHold /\ [WorkflowsNext]_editVars => StepReferencesHold'
<1> SUFFICES ASSUME TypeInv, StepReferencesHold, [WorkflowsNext]_editVars PROVE StepReferencesHold'
  OBVIOUS
<1>1. CASE Next
  <2>1. CASE RequestNext /\ UNCHANGED definitionVars
    BY <2>1, EngineRefs DEF TypeInv
  <2>2. CASE UNCHANGED <<requestVars, definitionVars>>
    BY <2>2, RefsStand DEF requestVars, definitionVars
  <2> QED
    BY <1>1, <2>1, <2>2 DEF Next
<1>2. CASE EditNext
  <2>1. ASSUME NEW e \in Editor, EditBegin(e) /\ UNCHANGED steps PROVE StepReferencesHold'
    BY <2>1, BegunCall, RefsStand DEF StructureRead, StatusRead, definitionVars
  <2>2. ASSUME NEW e \in Editor, EditAbort(e) PROVE StepReferencesHold'
    BY <2>2, RefsStand DEF EditAbort, definitionVars
  <2>3. ASSUME NEW e \in Editor, EditCommit(e) PROVE StepReferencesHold'
    <3>1. ASSUME UpdateCommit(e) PROVE StepReferencesHold'
      BY <3>1, RefsStand DEF UpdateCommit
    <3> QED
      BY <2>3, <3>1, AddRefs, MoveRefs, DeleteRefs, ReorderRefs, StatusRefs DEF EditCommit
  <2> QED
    BY <1>2, <2>1, <2>2, <2>3, CreateRefs DEF EditNext
<1>3. CASE UNCHANGED editVars
  BY <1>3, RefsStand DEF editVars, vars
<1> QED
  BY <1>1, <1>2, <1>3 DEF WorkflowsNext

\* The foreign key of a step instance, at any number of concurrent submissions
\* and edits: a deletion takes the references with it, and a submission planned
\* before the deletion does not commit.
THEOREM StepReferencesKept == WorkflowsSpec => []StepReferencesHold
<1>1. WorkflowsInit => TypeInv /\ StepReferencesHold
  BY WorkflowsStartTyped DEF WorkflowsInit, Init, ApprovalInit, StepReferencesHold
<1> QED
  BY <1>1, WorkflowsStepTypes, WorkflowsStepRefs, PTL DEF WorkflowsSpec

=============================================================================
